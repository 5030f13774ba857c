-------------------------- MODULE MCSubagentTasks --------------------------
(* Small instances of SubagentTasks for TLC: a task a turn asks for and the  *)
(* correction that may replace it, in one chat.                              *)
EXTENDS SubagentTasks

CONSTANTS t1, t2, a

MCChats   == {a}
MCTasks   == {t1, t2}
MCChatOf  == [t \in MCTasks |-> a]
MCOneChat == [t \in {t1} |-> a]
MCFaults  == {"disk", "submit", "timeout", "stage", "send", "reject", "fetch", "restart"}
MCLosses  == {"disk", "timeout", "send", "reject", "restart"}
=============================================================================
