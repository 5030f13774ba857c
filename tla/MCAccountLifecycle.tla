------------------------- MODULE MCAccountLifecycle -------------------------
(* Small instances of AccountLifecycle for TLC.                              *)
EXTENDS AccountLifecycle

CONSTANTS s1, s2, e1, e2, c1, c2

MCSockets   == {s1, s2}
MCEntries   == {e1, e2}
MCClients   == {c1, c2}
MCOperators == {"pair", "reconnect", "disconnect", "remove"}
=============================================================================
