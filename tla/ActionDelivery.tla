--------------------------- MODULE ActionDelivery ---------------------------
(***************************************************************************)
(* One account's path of an acknowledged action, from the Python bridge to *)
(* WhatsApp and back:                                                      *)
(*                                                                         *)
(*   WaSocket._dispatch_action --> WSClientTransport.send_reliable         *)
(*        --> wsServer 'message' handler --> dispatchAction                *)
(*        --> routeAction (the WhatsApp side effect)                       *)
(*        --> sendReliableToClient --> PendingAcks.resolve / reject        *)
(*                                                                         *)
(* with everything that may go wrong on the way: the bridge link drops,    *)
(* either process restarts, an ack comes late and the SDK sends the same   *)
(* request id again, a receipt write fails, WhatsApp is not connected.     *)
(*                                                                         *)
(* Abstractions.  A request is its id: a retry carries the same payload    *)
(* (the SDK re-sends the same frame, and a recovered sub-agent delivery    *)
(* re-sends the intent it persisted), so the fingerprint branches of       *)
(* dispatchAction cannot be reached and are left out.  The ok=false        *)
(* `action_ack` and the `error` frame that follows it are one reply: the   *)
(* first of them settles the future, the second finds none.  The link is   *)
(* one connection at a time; frames in flight are lost with it.            *)
(***************************************************************************)
EXTENDS Naturals, Sequences, FiniteSets

CONSTANTS
    Requests,       \* request ids
    Awaited,        \* ids whose caller waits for the ack (3 attempts)
    Durable,        \* deterministic "subrec-" ids, re-sent by a new process
    NeedsWhatsApp,  \* every action but download_media
    MaxAttempts,    \* 3 in _dispatch_action
    PyQueueMax,     \* WSClientTransport.MAX_RELIABLE_QUEUE, 1000
    NodeQueueMax,   \* accountRegistry MAX_RELIABLE_QUEUE, 1000
    Faults,         \* the kinds of fault that may happen
    MaxFaults       \* how many faults happen in a behaviour (a model bound)

ASSUME RequestsAssumption ==
    /\ Durable \subseteq Awaited
    /\ Awaited \subseteq Requests
    /\ NeedsWhatsApp \subseteq Requests

ASSUME BoundsAssumption ==
    /\ MaxAttempts \in Nat \ {0}
    /\ PyQueueMax \in Nat
    /\ NodeQueueMax \in Nat
    /\ Faults \subseteq {"drop", "stall", "close", "nodeCrash", "pyRestart", "waDown", "io"}
    /\ MaxFaults \in Nat

VARIABLES
    \* Python: WaSocket and its transport
    call,      \* what the caller of each request sees
    attempt,   \* which attempt of _dispatch_action is running
    queue,     \* _reliable_queue
    closed,    \* _closed
    \* the link: the client's phase, the server's phase, frames in flight
    link, session, toNode, toPy,
    \* Node: accountRegistry entry
    client,    \* entry.client: a live socket, a half-open one, or none
    outQ,      \* entry.reliableQueue
    waReady,   \* entry.waStatus is open and the socket has credentials
    \* Node: dispatchAction
    cache,     \* receiptCaches of this account
    loaded,    \* whether the receipts were read since the process started
    stage,     \* how far the claim of each request got
    captured,  \* actionCaptures
    writes,    \* receiptWrites: the chain of pending receipt writes
    snap,      \* what the write in progress has serialised
    disk,      \* db/action-receipts.json
    \* history
    effects,   \* how often each request reached WhatsApp
    faults     \* faults so far

pyVars   == <<call, attempt, queue, closed>>
linkVars == <<link, session, toNode, toPy>>
regVars  == <<client, outQ>>
dispVars == <<cache, loaded, stage, captured, writes, snap>>
vars     == <<pyVars, linkVars, regVars, waReady, dispVars, disk, effects, faults>>

-----------------------------------------------------------------------------
CallStates  == {"idle", "queued", "awaiting", "sent", "ok", "error", "done", "gone"}
ReplyKinds  == {"ok", "failed", "unsent", "refused", "notReady", "unstored"}
Stages      == {"none", "claiming", "executing", "executed", "storing"}
Reply       == [req : Requests, kind : ReplyKinds]
Receipt     == [state : {"none", "running", "complete"}, frames : Seq(ReplyKinds)]
NoReceipt   == [state |-> "none", frames |-> <<>>]
Running     == [state |-> "running", frames |-> <<>>]
Complete(f) == [state |-> "complete", frames |-> f]
NoReceipts  == [r \in Requests |-> NoReceipt]
NotWriting  == [writing |-> FALSE, receipts |-> NoReceipts]

Replies(r, kinds) == [i \in DOMAIN kinds |-> [req |-> r, kind |-> kinds[i]]]
KeepNewest(q)     == IF Len(q) <= NodeQueueMax THEN q
                     ELSE SubSeq(q, Len(q) - NodeQueueMax + 1, Len(q))
WithoutNth(q, i)  == SubSeq(q, 1, i - 1) \o SubSeq(q, i + 1, Len(q))
Happens(kind)     == /\ kind \in Faults /\ faults < MaxFaults
                     /\ faults' = faults + 1

Init ==
    /\ call = [r \in Requests |-> "idle"]
    /\ attempt = [r \in Requests |-> 0]
    /\ queue = <<>>
    /\ closed = FALSE
    /\ link = "down"
    /\ session = "none"
    /\ toNode = <<>>
    /\ toPy = <<>>
    /\ client = "none"
    /\ outQ = <<>>
    /\ waReady = FALSE
    /\ cache = NoReceipts
    /\ loaded = FALSE
    /\ stage = [r \in Requests |-> "none"]
    /\ captured = [r \in Requests |-> <<>>]
    /\ writes = <<>>
    /\ snap = NotWriting
    /\ disk = NoReceipts
    /\ effects = [r \in Requests |-> 0]
    /\ faults = 0

-----------------------------------------------------------------------------
(* The bridge: _dispatch_action over the reliable transport.               *)

\* The state of a call whose frame has been written to the socket.
Delivered(r) == IF r \in Awaited THEN "awaiting" ELSE "sent"

\* send_reliable under wait_for: written at once when the socket is open and
\* nothing is queued ahead, else queued; a full queue or a closed transport
\* raises; a write that stalls past the budget raises after it has buffered
\* the frame.
Transmit(r) ==
    \/ /\ closed
       /\ call' = [call EXCEPT ![r] = "error"]
       /\ UNCHANGED <<queue, toNode, faults>>
    \/ /\ ~closed
       /\ link # "down" /\ queue = <<>>
       /\ toNode' = Append(toNode, r)
       /\ \/ call' = [call EXCEPT ![r] = Delivered(r)] /\ UNCHANGED faults
          \/ call' = [call EXCEPT ![r] = "error"] /\ Happens("stall")
       /\ UNCHANGED queue
    \/ /\ ~closed
       /\ link = "down" \/ queue # <<>>
       /\ IF Len(queue) < PyQueueMax
          THEN /\ queue' = Append(queue, r)
               /\ call' = [call EXCEPT ![r] = "queued"]
          ELSE /\ call' = [call EXCEPT ![r] = "error"]
               /\ UNCHANGED queue
       /\ UNCHANGED <<toNode, faults>>

Start(r) ==
    /\ call[r] = "idle"
    /\ attempt' = [attempt EXCEPT ![r] = 1]
    /\ Transmit(r)
    /\ UNCHANGED <<closed, link, session, toPy, regVars, waReady, dispVars,
                   disk, effects>>

\* wait_for(delivery) expires: the queued frame is removed, the call fails.
SendTimeout(r) ==
    /\ call[r] = "queued"
    /\ call' = [call EXCEPT ![r] = "error"]
    /\ \E i \in DOMAIN queue : queue[i] = r /\ queue' = WithoutNth(queue, i)
    /\ UNCHANGED <<attempt, closed, linkVars, regVars, waReady, dispVars, disk,
                   effects, faults>>

\* Mutant: no timer is armed for the last attempt.
LastAttemptUntimed(r) ==
    /\ call[r] = "awaiting" /\ attempt[r] < MaxAttempts
    /\ attempt' = [attempt EXCEPT ![r] = @ + 1]
    /\ Transmit(r)
    /\ UNCHANGED <<closed, link, session, toPy, regVars, waReady, dispVars,
                   disk, effects>>

\* The ack timer fires: the same request id is sent again, up to MaxAttempts.
AckTimeout(r) ==
    /\ call[r] = "awaiting"
    /\ IF attempt[r] < MaxAttempts
       THEN /\ attempt' = [attempt EXCEPT ![r] = @ + 1]
            /\ Transmit(r)
       ELSE /\ call' = [call EXCEPT ![r] = "error"]
            /\ UNCHANGED <<attempt, queue, toNode, faults>>
    /\ UNCHANGED <<closed, link, session, toPy, regVars, waReady, dispVars,
                   disk, effects>>

\* The frame pump hands a reply to PendingAcks: the open future is settled,
\* any other reply is ignored.
ReceiveReply ==
    /\ link = "up" /\ toPy # <<>>
    /\ toPy' = Tail(toPy)
    /\ LET reply == Head(toPy)
       IN  call' = IF call[reply.req] = "awaiting"
                   THEN [call EXCEPT ![reply.req] =
                           IF reply.kind = "ok" THEN "ok" ELSE "error"]
                   ELSE call
    /\ UNCHANGED <<attempt, queue, closed, link, session, toNode, regVars,
                   waReady, dispVars, disk, effects, faults>>

\* The sub-agent delivery records the acknowledged part as done.
MarkDone(r) ==
    /\ r \in Durable /\ call[r] = "ok"
    /\ call' = [call EXCEPT ![r] = "done"]
    /\ UNCHANGED <<attempt, queue, closed, linkVars, regVars, waReady, dispVars,
                   disk, effects, faults>>

\* The first n queued frames are written to the socket, in order.
Flush(n) ==
    /\ toNode' = toNode \o SubSeq(queue, 1, n)
    /\ queue' = SubSeq(queue, n + 1, Len(queue))

\* What the callers of the frames of q see once they are written.
AfterWrite(q) ==
    [r \in Requests |-> IF \E i \in DOMAIN q : q[i] = r THEN Delivered(r)
                       ELSE call[r]]

\* The client loses the connection.  What it wrote may still reach the server,
\* which does not know yet: its writes to the dead socket vanish.
LoseConnection ==
    /\ link' = "down"
    /\ toPy' = <<>>
    /\ client' = IF client = "live" THEN "half" ELSE client

\* disconnect(): close() flushes what it still can and fails the rest of the
\* queue, then reject_all fails every call that waits for its ack.
Disconnect ==
    /\ ~closed /\ Happens("close")
    /\ closed' = TRUE
    /\ \E n \in IF link = "down" THEN {0} ELSE 0 .. Len(queue) :
         /\ toNode' = toNode \o SubSeq(queue, 1, n)
         /\ call' = [r \in Requests |->
              LET now == AfterWrite(SubSeq(queue, 1, n))[r]
              IN  IF now \in {"queued", "awaiting"} THEN "error" ELSE now]
    /\ queue' = <<>>
    /\ LoseConnection
    /\ UNCHANGED <<attempt, session, outQ, waReady, dispVars, disk, effects>>

\* The bridge process restarts.  Its queue and futures are gone; the new
\* process re-sends the recoverable deliveries it has not marked done.
PyRestart ==
    /\ Happens("pyRestart")
    /\ call' = [r \in Requests |->
                  IF call[r] \in {"idle", "done"} THEN call[r]
                  ELSE IF r \in Durable THEN "idle" ELSE "gone"]
    /\ attempt' = [r \in Requests |-> IF call'[r] = "idle" THEN 0 ELSE attempt[r]]
    /\ queue' = <<>>
    /\ closed' = FALSE
    /\ LoseConnection
    /\ UNCHANGED <<session, toNode, outQ, waReady, dispVars, disk, effects>>

-----------------------------------------------------------------------------
(* The link: connect, handshake, loss.                                     *)

\* The supervisor opens a connection and sends hello.  From here on the socket
\* is OPEN, so send_reliable writes to it.
Connect ==
    /\ ~closed /\ link = "down"
    /\ link' = "hello"
    /\ session' = "pending"
    /\ toNode' = <<>>
    /\ client' = IF client = "live" THEN "half" ELSE client
    /\ UNCHANGED <<pyVars, toPy, outQ, waReady, dispVars, disk, effects, faults>>

\* handleHello resumes: hello_ack is sent, the client is bound and the frames
\* queued for it are flushed; all of them vanish if the socket is dead.
BindClient ==
    /\ session = "pending"
    /\ session' = "done"
    /\ outQ' = <<>>
    /\ IF link = "hello"
       THEN client' = "live" /\ toPy' = outQ
       ELSE client' = "half" /\ UNCHANGED toPy
    /\ UNCHANGED <<pyVars, link, toNode, waReady, dispVars, disk, effects, faults>>

\* hello_ack arrives: the queue is flushed before the pump starts.  A write
\* that fails leaves the rest queued and ends the connection.
HelloAck ==
    /\ link = "hello" /\ session = "done"
    /\ \E n \in 0 .. Len(queue) :
         /\ Flush(n)
         /\ call' = AfterWrite(SubSeq(queue, 1, n))
         /\ IF n = Len(queue)
            THEN link' = "up" /\ UNCHANGED <<toPy, client, faults>>
            ELSE LoseConnection /\ Happens("drop")
    /\ UNCHANGED <<attempt, closed, session, outQ, waReady, dispVars, disk, effects>>

Drop ==
    /\ link # "down" /\ Happens("drop")
    /\ LoseConnection
    /\ UNCHANGED <<pyVars, session, toNode, outQ, waReady, dispVars, disk, effects>>

\* The server's 'close' event: unbindClient, unless a newer client is bound.
NodeClose ==
    /\ link = "down" /\ session # "none"
    /\ session' = "none"
    /\ toNode' = <<>>
    /\ client' = "none"
    /\ UNCHANGED <<pyVars, link, toPy, outQ, waReady, dispVars, disk, effects, faults>>

-----------------------------------------------------------------------------
(* Node: replies.                                                          *)

\* sendReliableToClient for each frame: written to the bound client, or queued
\* with the oldest dropped.  A half-open client swallows the frames, or fails
\* the write and is unbound.
SendReliable(frames) ==
    \/ client = "live" /\ toPy' = toPy \o frames /\ UNCHANGED <<client, outQ>>
    \/ client = "half" /\ UNCHANGED <<client, outQ, toPy>>
    \/ /\ client # "live"
       /\ client' = "none" /\ outQ' = KeepNewest(outQ \o frames)
       /\ UNCHANGED toPy

\* sendActionFrame: while the request executes its replies are captured.
Emit(r, kind) ==
    IF stage[r] \in {"executing", "executed"}
    THEN /\ captured' = [captured EXCEPT ![r] = Append(@, kind)]
         /\ UNCHANGED <<client, outQ, toPy>>
    ELSE SendReliable(Replies(r, <<kind>>)) /\ UNCHANGED captured

-----------------------------------------------------------------------------
(* Node: dispatchAction.                                                   *)

\* Mutants: a receipt left running by a crash, or one of a failure, is dropped.
PrunedRunning(receipts) ==
    [r \in Requests |-> IF receipts[r].state = "running" THEN NoReceipt ELSE receipts[r]]
\* Receipts of recovery sends that failed before any message existed are
\* discarded when the file is read.
Pruned(receipts) ==
    [r \in Requests |->
        IF /\ r \in Durable /\ receipts[r].state = "complete"
           /\ \E i \in DOMAIN receipts[r].frames : receipts[r].frames[i] = "unsent"
        THEN NoReceipt ELSE receipts[r]]

\* Mutant: a duplicate of a running action is answered as a success.
AnswerDuplicateOk(receipt, r) ==
    IF receipt.state = "running"
    THEN Emit(r, "ok")
    ELSE SendReliable(Replies(r, receipt.frames)) /\ UNCHANGED captured

\* A receipt answers for the action: replayed if complete, refused if running.
AnswerFrom(receipt, r) ==
    IF receipt.state = "running"
    THEN Emit(r, "refused")
    ELSE SendReliable(Replies(r, receipt.frames)) /\ UNCHANGED captured

\* Mutant: the action executes on a claim that only memory holds.
ClaimInMemory(r, receipts) ==
    /\ cache' = [receipts EXCEPT ![r] = Running]
    /\ stage' = [stage EXCEPT ![r] = "executing"]
    /\ UNCHANGED <<writes, captured, client, outQ, toPy>>

\* A new request is claimed in memory and its claim is put on the write chain.
Claim(r, receipts) ==
    /\ cache' = [receipts EXCEPT ![r] = Running]
    /\ stage' = [stage EXCEPT ![r] = "claiming"]
    /\ writes' = Append(writes, r)
    /\ UNCHANGED <<captured, client, outQ, toPy>>

Answer(r, receipts) ==
    IF receipts[r] = NoReceipt
    THEN Claim(r, receipts)
    ELSE AnswerFrom(receipts[r], r) /\ cache' = receipts /\ UNCHANGED <<stage, writes>>

\* A frame reaches the server after the handshake.  The readiness gate comes
\* first, then the receipts: read from disk once per process, which may fail.
DispatchAction ==
    /\ session = "done" /\ toNode # <<>>
    /\ toNode' = Tail(toNode)
    /\ LET r == Head(toNode)
       IN  IF r \in NeedsWhatsApp /\ ~waReady
           THEN /\ Emit(r, "notReady")
                /\ UNCHANGED <<cache, loaded, stage, writes, disk, faults>>
           ELSE \/ /\ loaded
                   /\ Answer(r, cache)
                   /\ UNCHANGED <<loaded, disk, faults>>
                \/ /\ ~loaded
                   /\ loaded' = TRUE
                   /\ disk' = Pruned(disk)
                   /\ Answer(r, Pruned(disk))
                   /\ UNCHANGED faults
                \/ /\ ~loaded /\ Happens("io")
                   /\ Emit(r, "unstored")
                   /\ UNCHANGED <<cache, loaded, stage, writes, disk>>
    /\ UNCHANGED <<pyVars, link, session, waReady, snap, effects>>

\* A frame that reaches the server before the handshake is complete: it is
\* not a hello, so the connection is closed with 1002 and the frame is lost.
RejectBeforeHello ==
    /\ session = "pending" /\ toNode # <<>>
    /\ session' = "none"
    /\ toNode' = <<>>
    /\ link' = "down"
    /\ UNCHANGED <<pyVars, toPy, regVars, waReady, dispVars, disk, effects, faults>>
\* persistReceiptCache: writes are chained; each serialises the whole cache
\* when its turn comes.
StartWrite ==
    /\ writes # <<>> /\ ~snap.writing
    /\ snap' = [writing |-> TRUE, receipts |-> cache]
    /\ UNCHANGED <<pyVars, linkVars, regVars, waReady, cache, loaded, stage,
                   captured, writes, disk, effects, faults>>

\* The write ends: the temporary file was renamed over the receipts, or not.
\* The action that waited for it goes on: a durable claim is executed, a claim
\* that could not be stored is withdrawn, and a finished action sends the
\* frames it captured whether or not its receipt was stored.
FinishWrite ==
    /\ snap.writing
    /\ snap' = NotWriting
    /\ writes' = Tail(writes)
    /\ \E stored \in BOOLEAN :
         /\ IF stored THEN disk' = snap.receipts /\ UNCHANGED faults
            ELSE UNCHANGED disk /\ Happens("io")
         /\ LET r == Head(writes)
            IN  \/ /\ stage[r] = "claiming" /\ stored
                   /\ stage' = [stage EXCEPT ![r] = "executing"]
                   /\ captured' = [captured EXCEPT ![r] = <<>>]
                   /\ UNCHANGED <<cache, client, outQ, toPy>>
                \/ /\ stage[r] = "claiming" /\ ~stored
                   /\ stage' = [stage EXCEPT ![r] = "none"]
                   /\ cache' = [cache EXCEPT ![r] = NoReceipt]
                   /\ SendReliable(Replies(r, <<"unstored">>))
                   /\ UNCHANGED captured
                \/ /\ stage[r] = "storing"
                   /\ stage' = [stage EXCEPT ![r] = "none"]
                   /\ captured' = [captured EXCEPT ![r] = <<>>]
                   /\ SendReliable(Replies(r, captured[r]))
                   /\ UNCHANGED cache
    /\ UNCHANGED <<pyVars, link, session, toNode, waReady, loaded, effects>>

\* routeAction reaches WhatsApp.
Perform(r) ==
    /\ stage[r] = "executing"
    /\ stage' = [stage EXCEPT ![r] = "executed"]
    /\ effects' = [effects EXCEPT ![r] = @ + 1]
    /\ UNCHANGED <<pyVars, linkVars, regVars, waReady, cache, loaded, captured,
                   writes, snap, disk, faults>>

\* The handler returns or throws: its reply is captured and the receipt becomes
\* complete.  A handler may fail after it reached WhatsApp (a later part of the
\* message, a timeout), before, or before any message could be created.
Completes(r) ==
    \E kind \in {"ok", "failed", "unsent"} :
        /\ kind = "ok" => stage[r] = "executed"
        /\ kind = "failed" => stage[r] \in {"executing", "executed"}
        /\ kind = "unsent" => stage[r] = "executing"
        /\ captured' = [captured EXCEPT ![r] = Append(@, kind)]
        /\ cache' = [cache EXCEPT ![r] = Complete(Append(captured[r], kind))]
        /\ stage' = [stage EXCEPT ![r] = "storing"]
        /\ UNCHANGED <<pyVars, linkVars, regVars, waReady, loaded, snap, disk,
                       effects, faults>>

\* The completed receipt is put on the write chain; the frames wait for it.
Finish(r) == Completes(r) /\ writes' = Append(writes, r)

-----------------------------------------------------------------------------
(* The environment of the gateway.                                         *)

WaOpen ==
    /\ ~waReady /\ waReady' = TRUE
    /\ UNCHANGED <<pyVars, linkVars, regVars, dispVars, disk, effects, faults>>

WaClose ==
    /\ waReady /\ waReady' = FALSE /\ Happens("waDown")
    /\ UNCHANGED <<pyVars, linkVars, regVars, dispVars, disk, effects>>

\* The gateway process dies and starts again: only the receipt file survives.
\* A write in progress leaves the old file (temporary file, then rename).
NodeRestart ==
    /\ Happens("nodeCrash")
    /\ link' = "down" /\ session' = "none" /\ toNode' = <<>> /\ toPy' = <<>>
    /\ client' = "none" /\ outQ' = <<>>
    /\ waReady' = FALSE
    /\ cache' = NoReceipts /\ loaded' = FALSE
    /\ stage' = [r \in Requests |-> "none"]
    /\ captured' = [r \in Requests |-> <<>>]
    /\ writes' = <<>> /\ snap' = NotWriting
    /\ UNCHANGED <<pyVars, disk, effects>>

-----------------------------------------------------------------------------
Caller(r)  == Start(r) \/ SendTimeout(r) \/ AckTimeout(r) \/ MarkDone(r)
Bridge     == ReceiveReply \/ Disconnect \/ PyRestart
Link       == Connect \/ BindClient \/ HelloAck \/ Drop \/ NodeClose
              \/ RejectBeforeHello
Gateway    == DispatchAction \/ StartWrite \/ FinishWrite \/ NodeRestart
              \/ WaOpen \/ WaClose
Execute(r) == Perform(r) \/ Finish(r)

Next == \/ \E r \in Requests : Caller(r) \/ Execute(r)
        \/ Bridge \/ Link \/ Gateway

Spec == Init /\ [][Next]_vars

\* Timers fire, file operations end, and handlers return or throw.
Fairness ==
    /\ WF_vars(StartWrite) /\ WF_vars(FinishWrite)
    /\ \A r \in Requests : /\ WF_vars(SendTimeout(r)) /\ WF_vars(AckTimeout(r))
                           /\ WF_vars(Execute(r))

FairSpec == Spec /\ Fairness

-----------------------------------------------------------------------------
TypeOK ==
    /\ call \in [Requests -> CallStates]
    /\ attempt \in [Requests -> 0 .. MaxAttempts]
    /\ queue \in Seq(Requests)
    /\ closed \in BOOLEAN
    /\ link \in {"down", "hello", "up"}
    /\ session \in {"none", "pending", "done"}
    /\ toNode \in Seq(Requests)
    /\ toPy \in Seq(Reply)
    /\ client \in {"none", "half", "live"}
    /\ outQ \in Seq(Reply)
    /\ waReady \in BOOLEAN
    /\ cache \in [Requests -> Receipt]
    /\ loaded \in BOOLEAN
    /\ stage \in [Requests -> Stages]
    /\ captured \in [Requests -> Seq(ReplyKinds)]
    /\ writes \in Seq(Requests)
    /\ snap \in [writing : BOOLEAN, receipts : [Requests -> Receipt]]
    /\ disk \in [Requests -> Receipt]
    /\ effects \in [Requests -> Nat]
    /\ faults \in Nat

\* No request reaches WhatsApp twice, whatever is retried, re-sent by a new
\* bridge process or replayed by a restarted gateway (dispatchAction).
AtMostOnce == \A r \in Requests : effects[r] <= 1

\* A caller that was told ok (PendingAcks.resolve) was told the truth: late,
\* replayed and re-sent acks of an id never confirm what did not happen.
OkMeansPerformed ==
    \A r \in Requests : call[r] \in {"ok", "done"} => effects[r] = 1

\* Whatever may have reached WhatsApp has a receipt in the file, so that a
\* gateway that restarts at any point cannot execute it again.
EffectHasReceipt ==
    \A r \in Requests :
        stage[r] \in {"executing", "executed"} \/ effects[r] > 0
            => disk[r] # NoReceipt

\* Every caller is answered: the delivery and the ack timers leave no future
\* of _dispatch_action pending for ever, whatever is lost.
CallsReturn ==
    \A r \in Requests :
        call[r] \in {"queued", "awaiting"} ~> call[r] \notin {"queued", "awaiting"}

-----------------------------------------------------------------------------
(* The inductive invariant behind AtMostOnce and OkMeansPerformed.         *)

\* A receipt that the pruning at load leaves alone.
Kept(receipt) ==
    /\ receipt # NoReceipt
    /\ \A i \in DOMAIN receipt.frames : receipt.frames[i] # "unsent"

\* Whatever copy of the receipts is current, in memory, on disk or being
\* written, the receipt of a request that reached WhatsApp is in it.
PerformedIsKept ==
    \A r \in Requests :
        effects[r] > 0 => /\ Kept(disk[r])
                          /\ loaded => Kept(cache[r])
                          /\ snap.writing => Kept(snap.receipts[r])

\* A claim is in memory, and on disk before it is executed.
ClaimsAreDurable ==
    \A r \in Requests :
        /\ stage[r] # "none" => loaded /\ cache[r] # NoReceipt
        /\ stage[r] \in {"claiming", "executing", "executed"}
               => cache[r] = Running
        /\ stage[r] \in {"claiming", "executing"} => effects[r] = 0
        /\ stage[r] = "executed" => effects[r] = 1
        /\ stage[r] \in {"executing", "executed"}
               => /\ Kept(disk[r])
                  /\ snap.writing => Kept(snap.receipts[r])
                  /\ \A i \in DOMAIN captured[r] : captured[r][i] # "unsent"

\* The chain of writes holds each claim that waits for it, once.
ChainHoldsClaims ==
    \A i \in DOMAIN writes :
        /\ loaded /\ stage[writes[i]] \in {"claiming", "storing"}
        /\ \A j \in DOMAIN writes : writes[i] = writes[j] => i = j

\* The write in progress belongs to the head of the chain and holds its claim.
WriteHoldsClaim ==
    snap.writing => /\ writes # <<>>
                    /\ stage[Head(writes)] = "claiming"
                          => snap.receipts[Head(writes)] = Running

\* Nobody holds an ok for a request that did not reach WhatsApp.
NoOk(kinds) == \A i \in DOMAIN kinds : kinds[i] # "ok"
NoOkFor(frames, r) == \A i \in DOMAIN frames : frames[i] # [req |-> r, kind |-> "ok"]
OkIsEarned ==
    \A r \in Requests :
        effects[r] = 0 => /\ call[r] \notin {"ok", "done"}
                          /\ NoOkFor(toPy, r) /\ NoOkFor(outQ, r)
                          /\ NoOk(captured[r])
                          /\ NoOk(cache[r].frames) /\ NoOk(disk[r].frames)
                          /\ NoOk(snap.receipts[r].frames)

ReceiptInv == /\ AtMostOnce /\ PerformedIsKept /\ ClaimsAreDurable
              /\ ChainHoldsClaims /\ WriteHoldsClaim
IInv       == TypeOK /\ ReceiptInv /\ OkIsEarned

-----------------------------------------------------------------------------
\* CONTRACT.md promises exactly one action_ack for an action.
ExactlyOneAck == \A r \in Requests : Len(disk[r].frames) <= 1

\* The action path implements its contract.
Contract == INSTANCE ActionContract WITH
    times  <- effects,
    answer <- [r \in Requests |->
                 IF call[r] \in {"ok", "done"} THEN "ok"
                 ELSE IF call[r] = "error" THEN "error" ELSE "none"]
ImplementsContract == Contract!Spec
=============================================================================
