--------------------------- MODULE ActionContract ---------------------------
(***************************************************************************)
(* What the action path promises the bridge, with no link, no processes    *)
(* and no files: a request reaches WhatsApp at most once, and a caller is  *)
(* told ok only after it did.  A caller may be told of a failure at any    *)
(* time, whether or not the request was or will be performed; a restarted  *)
(* bridge forgets what it was told and may ask again.                      *)
(***************************************************************************)
EXTENDS Naturals

CONSTANT Requests

VARIABLES
    times,   \* how often each request was performed
    answer   \* what its caller was told: nothing yet, ok, or an error

avars == <<times, answer>>

Init ==
    /\ times = [r \in Requests |-> 0]
    /\ answer = [r \in Requests |-> "none"]

Perform(r) ==
    /\ times[r] = 0
    /\ times' = [times EXCEPT ![r] = 1]
    /\ UNCHANGED answer

Confirm(r) ==
    /\ answer[r] = "none" /\ times[r] = 1
    /\ answer' = [answer EXCEPT ![r] = "ok"]
    /\ UNCHANGED times

Fail(S) ==
    /\ \A r \in S : answer[r] = "none"
    /\ answer' = [r \in Requests |-> IF r \in S THEN "error" ELSE answer[r]]
    /\ UNCHANGED times

Forget(S) ==
    /\ answer' = [r \in Requests |-> IF r \in S THEN "none" ELSE answer[r]]
    /\ UNCHANGED times

Next ==
    \/ \E r \in Requests : Perform(r) \/ Confirm(r)
    \/ \E S \in SUBSET Requests : Fail(S) \/ Forget(S)

Spec == Init /\ [][Next]_avars
=============================================================================
