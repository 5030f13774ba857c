-------------------------- MODULE MCTaskSchedules --------------------------
(* Small instances of TaskSchedules for TLC.                               *)
EXTENDS TaskSchedules

CONSTANTS o1, o2, d1

MCOneShot == {o1}
MCTwo     == {o1, o2}
MCDaily   == {d1}
=============================================================================
