-------------------------- MODULE MCActionDelivery --------------------------
(* A small instance of ActionDelivery for TLC: one recoverable delivery that *)
(* waits for its ack, and one action whose caller does not wait.             *)
EXTENDS ActionDelivery, TLC

CONSTANTS r1, r2

MCRequests == {r1, r2}
MCFaults   == {"drop", "stall", "close", "nodeCrash", "pyRestart", "waDown", "io"}
=============================================================================
