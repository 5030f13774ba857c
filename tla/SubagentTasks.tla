---------------------------- MODULE SubagentTasks ----------------------------
(***************************************************************************)
(* The delegated tasks of one account, from execute_subtask to the last    *)
(* part of the result in the chat:                                         *)
(*                                                                         *)
(*   SubAgentCoordinator.submit_subtask --> SubAgentClient.submit          *)
(*      --> the sub-agent service --> SubAgentWebhookServer                *)
(*      --> SubTaskTracker (db/subagent_tracker.json)                      *)
(*      --> _deliver_subagent_result or recover_completion --> the gateway *)
(*                                                                         *)
(* Four kinds of actor deliver the same result: the task's own waiter, the *)
(* waiter's recovery after an exception, the webhook's recovery of a       *)
(* result nobody waits for, and the replay at start-up.  They meet in the  *)
(* tracker, in the per-chat lock and in the gateway's receipts.            *)
(*                                                                         *)
(* Abstractions.  A result is "local" (a verdict of the bridge: the wait   *)
(* timed out or the submit failed) or "real" (what the sub-agent sent); a  *)
(* real result has a report and one file.  What is sent is a payload: who  *)
(* worded it and which result it tells of.  Progress, queue positions and  *)
(* steering change no state that is kept here.  The bounds of the tracker  *)
(* (50 results of a chat, 4096 tombstones) are never reached.  A callback  *)
(* always names its chat (callback_context, and the session id itself),    *)
(* so the branch that defers an unknown completion cannot be reached.      *)
(***************************************************************************)
EXTENDS Naturals, Sequences, FiniteSets

CONSTANTS
    Tasks,        \* session ids, each used once
    Asked,        \* those a turn may ask for; the others are corrections
    Chats,
    ChatOf,       \* the chat a session id begins with
    Calls,        \* callback requests the webhook can be handling at once
    None,
    MaxAttempts,  \* attempts of _recover_owned_completion, 4
    Faults,       \* the kinds of fault that may happen
    MaxFaults     \* how many faults happen in a behaviour (a model bound)

ASSUME TasksAssumption ==
    /\ ChatOf \in [Tasks -> Chats]
    /\ Asked \subseteq Tasks
    /\ None \notin Tasks \cup {"local", "real"}
    /\ MaxAttempts \in Nat \ {0}
    /\ MaxFaults \in Nat

VARIABLES
    \* SubTaskTracker: in memory, and its state file
    mem, disk,
    \* SubAgentWebhookServer
    events,      \* _completion_events
    owned,       \* _waiter_owned_sessions
    call,        \* the callbacks being handled
    \* SubAgentCoordinator
    waiter,      \* the background task of each session
    woken,       \* completion events that are set
    turn,        \* who holds the lock of each chat, and what it is doing
    rec,         \* who runs recover_completion (_recovering_sessions)
    attempts,    \* failed attempts of _recover_owned_completion
    fix,         \* sessions that correct an earlier one
    \* AgentSession.run
    up,          \* how far the session has come
    starting,    \* the task recover_pending_completions is delivering
    pending,     \* the tasks it has not come to yet
    \* the sub-agent service and the gateway (external)
    remote,      \* the task at the service
    gate,        \* the gateway's receipt of each part, under its request id
    \* history
    acked,       \* real results answered with a 2xx status
    judged,      \* tasks the bridge gave a verdict of its own
    waived,      \* results dropped on purpose: /reset, or superseded
    postponed,   \* results left for the next start of the bridge
    faults

trackerVars == <<mem, disk>>
hookVars    == <<events, owned, call>>
coordVars   == <<waiter, woken, turn, rec, attempts, fix>>
startVars   == <<up, starting, pending>>
outerVars   == <<remote, gate>>
histVars    == <<acked, judged, waived, postponed>>
vars == <<trackerVars, hookVars, coordVars, startVars, outerVars, histVars, faults>>

-----------------------------------------------------------------------------
Results  == {"local", "real"}
Parts    == {"report", "file"}
Payload  == [how : {"llm", "raw", "file"}, of : Results \cup {None}]
Piece    == [part : Parts, payload : Payload]
Claim    == [state : {"none", "sent", "failed"}, payload : Payload \cup {None}]
NoClaim  == [state |-> "none", payload |-> None]
Sent(x)  == [state |-> "sent", payload |-> x]
Failed(x) == [state |-> "failed", payload |-> x]

Tracker == [active   : SUBSET Tasks,
            finished : [Tasks -> Results \cup {None}],
            tombs    : SUBSET Tasks,
            done     : [Tasks -> SUBSET Parts],
            intents  : [Tasks -> [Parts -> Payload \cup {None}]]]
EmptyTracker == [active   |-> {},
                 finished |-> [t \in Tasks |-> None],
                 tombs    |-> {},
                 done     |-> [t \in Tasks |-> {}],
                 intents  |-> [t \in Tasks |-> [p \in Parts |-> None]]]

Turn == [who    : {"nobody", "submit", "waiter", "recovery"},
         task   : Tasks \cup {None},
         phase  : {"none", "inputs", "compose", "prepare", "transmit", "mark"},
         result : Results \cup {None},
         todo   : Seq(Piece),
         fixes  : BOOLEAN]
NoTurn == [who |-> "nobody", task |-> None, phase |-> "none",
           result |-> None, todo |-> <<>>, fixes |-> FALSE]

WaiterStates == {"new", "off", "submitting", "waiting", "ready", "delivering", "retry"}
NoCall == [task |-> None, phase |-> "free"]

Init ==
    /\ mem = EmptyTracker
    /\ disk = EmptyTracker
    /\ events = {}
    /\ owned = {}
    /\ call = [k \in Calls |-> NoCall]
    /\ waiter = [t \in Tasks |-> "new"]
    /\ woken = {}
    /\ turn = [c \in Chats |-> NoTurn]
    /\ rec = [t \in Tasks |-> "none"]
    /\ attempts = [t \in Tasks |-> 0]
    /\ fix = {}
    /\ up = "cold"
    /\ starting = None
    /\ pending = {}
    /\ remote = [t \in Tasks |-> "idle"]
    /\ gate = [t \in Tasks |-> [p \in Parts |-> NoClaim]]
    /\ acked = {}
    /\ judged = {}
    /\ waived = {}
    /\ postponed = {}
    /\ faults = 0

Fault(kind) == /\ kind \in Faults /\ faults < MaxFaults
               /\ faults' = faults + 1

-----------------------------------------------------------------------------
(* SubTaskTracker: each mutator changes the memory and writes the file; a  *)
(* write that fails restores the memory (except in register and clear).    *)

FinishedIn(m) == {t \in Tasks : m.finished[t] # None}
ActiveIn(m, c) == {t \in m.active : ChatOf[t] = c}

Registered(m, t) == [m EXCEPT !.active = @ \cup {t}]

Finalized(m, t, r) ==
    IF t \in m.tombs THEN m
    ELSE [m EXCEPT !.active = @ \ {t}, !.finished[t] = r]

Prepared(m, t, p, x) ==
    IF m.intents[t][p] # None THEN m ELSE [m EXCEPT !.intents[t][p] = x]

PartDone(m, t, p) ==
    [m EXCEPT !.done[t] = @ \cup {p}, !.intents[t][p] = None]

Settled(m, t) ==
    [m EXCEPT !.finished[t] = None,
              !.tombs = @ \cup {t},
              !.done[t] = {},
              !.intents[t] = [p \in Parts |-> None]]

Cleared(m, c) ==
    LET gone == {t \in FinishedIn(m) : ChatOf[t] = c}
    IN  [m EXCEPT !.finished = [t \in Tasks |-> IF t \in gone THEN None ELSE @[t]],
                  !.tombs = @ \cup gone]

\* Mutant: the file is written later.
SaveLater(m) == mem' = m /\ UNCHANGED <<disk, faults>>
Save(m) == mem' = m /\ disk' = m /\ UNCHANGED faults
SaveFails == Fault("disk") /\ UNCHANGED trackerVars

-----------------------------------------------------------------------------
(* submit_subtask, called by the turn of a batch, under the chat's lock    *)

\* No task is active in the chat: stage the inputs (awaits the gateway).
SubmitBegin(t) ==
    LET c == ChatOf[t] IN
    /\ t \in Asked /\ waiter[t] = "new" /\ turn[c].who = "nobody"
    /\ ActiveIn(mem, c) = {}
    /\ turn' = [turn EXCEPT ![c] = [NoTurn EXCEPT !.who = "submit", !.task = t,
                                                  !.phase = "inputs"]]
    /\ waiter' = [waiter EXCEPT ![t] = "off"]
    /\ UNCHANGED <<trackerVars, hookVars, woken, rec, attempts, fix, startVars,
                   outerVars, histVars, faults>>

\* An input cannot be staged: the user is told, nothing is registered.
SubmitRefused(c) ==
    /\ turn[c].who = "submit"
    /\ turn' = [turn EXCEPT ![c] = NoTurn]
    /\ UNCHANGED <<trackerVars, hookVars, waiter, woken, rec, attempts, fix,
                   startVars, outerVars, histVars, faults>>

\* The events are registered before the background task submits.
Launch(t) ==
    /\ events' = events \cup {t}
    /\ owned' = owned \cup {t}
    /\ waiter' = [waiter EXCEPT ![t] = "submitting"]

SubmitRegister(c) ==
    LET t == turn[c].task IN
    /\ turn[c].who = "submit"
    /\ turn' = [turn EXCEPT ![c] = NoTurn]
    /\ \/ Save(Registered(mem, t)) /\ Launch(t)
       \/ /\ Fault("disk")              \* register keeps the task in memory
          /\ mem' = Registered(mem, t)
          /\ UNCHANGED <<disk, events, owned, waiter>>
    /\ UNCHANGED <<call, woken, rec, attempts, fix, startVars, outerVars, histVars>>

-----------------------------------------------------------------------------
(* _run_subagent_post_processing, up to the lock                           *)

Unregister(t) == events' = events \ {t} /\ owned' = owned \ {t}

\* The service accepted the task; its answer may still be lost.
RemoteAccepts(t) ==
    /\ waiter[t] = "submitting" /\ remote[t] = "idle"
    /\ remote' = [remote EXCEPT ![t] = "running"]
    /\ UNCHANGED <<trackerVars, hookVars, coordVars, startVars, gate, histVars, faults>>

RemoteFinishes(t) ==
    /\ remote[t] = "running"
    /\ remote' = [remote EXCEPT ![t] = "done"]
    /\ UNCHANGED <<trackerVars, hookVars, coordVars, startVars, gate, histVars, faults>>

Submitted(t) ==
    /\ waiter[t] = "submitting" /\ remote[t] # "idle"
    /\ waiter' = [waiter EXCEPT ![t] = "waiting"]
    /\ UNCHANGED <<trackerVars, hookVars, woken, turn, rec, attempts, fix,
                   startVars, outerVars, histVars, faults>>

\* The bridge gives a verdict of its own: the submit failed after its
\* retries, or the wait ended without a callback.
LocalVerdict(t, verdict) ==
    /\ Unregister(t)
    /\ judged' = judged \cup {t}
    /\ \/ /\ mem' = Finalized(mem, t, "local")
          /\ disk' = IF t \in mem.tombs THEN disk ELSE mem'
          /\ Fault(verdict)
          /\ waiter' = [waiter EXCEPT ![t] = "ready"]
       \/ /\ {verdict, "disk"} \subseteq Faults /\ faults + 2 <= MaxFaults
          /\ faults' = faults + 2
          /\ t \notin mem.tombs
          /\ UNCHANGED trackerVars
          /\ waiter' = [waiter EXCEPT ![t] = "retry"]
    /\ UNCHANGED <<call, woken, turn, rec, attempts, fix, startVars, outerVars,
                   acked, waived, postponed>>

SubmitFails(t) == waiter[t] = "submitting" /\ LocalVerdict(t, "submit")

WaitTimesOut(t) ==
    waiter[t] = "waiting" /\ t \notin woken /\ LocalVerdict(t, "timeout")

Woken(t) ==
    /\ waiter[t] = "waiting" /\ t \in woken
    /\ waiter' = [waiter EXCEPT ![t] = "ready"]
    /\ UNCHANGED <<trackerVars, hookVars, woken, turn, rec, attempts, fix,
                   startVars, outerVars, histVars, faults>>

-----------------------------------------------------------------------------
(* _deliver_subagent_result, under the chat's lock                         *)

\* The result is looked up once, before the model is asked to word it.
DeliverBegin(t) ==
    LET c == ChatOf[t] IN
    /\ waiter[t] = "ready" /\ turn[c].who = "nobody"
    /\ waiter' = [waiter EXCEPT ![t] = "delivering"]
    /\ turn' = [turn EXCEPT ![c] = [NoTurn EXCEPT !.who = "waiter", !.task = t,
                                       !.phase = "compose", !.result = mem.finished[t]]]
    /\ UNCHANGED <<trackerVars, hookVars, woken, rec, attempts, fix, startVars,
                   outerVars, histVars, faults>>

Pc(p, how, r) == [part |-> p, payload |-> [how |-> how, of |-> r]]
Files(r) == IF r = "real" THEN <<Pc("file", "file", r)>> ELSE <<>>

\* What the re-invoked model may answer; it answers nothing when it fails.
Answers == {"nothing", "reply", "fix", "replyFix"}

\* The fall-back reads the report of the task object, which a late
\* completion may have replaced since the lookup.
Texts(t, r, answer) ==
    LET now == IF mem.finished[t] # None THEN mem.finished[t] ELSE r IN
    CASE answer = "nothing" -> IF r = None THEN <<>> ELSE <<Pc("report", "raw", now)>>
      [] answer \in {"reply", "replyFix"} -> <<Pc("report", "llm", r)>>
      [] OTHER -> <<>>

Compose(c) ==
    LET t == turn[c].task  r == turn[c].result IN
    /\ turn[c].phase = "compose"
    /\ \E answer \in Answers :
          turn' = [turn EXCEPT ![c].phase = "prepare",
                               ![c].todo = Texts(t, r, answer) \o Files(r),
                               ![c].fixes = answer \in {"fix", "replyFix"}]
    /\ UNCHANGED <<trackerVars, hookVars, waiter, woken, rec, attempts, fix,
                   startVars, outerVars, histVars, faults>>

\* Staging the files or building the model's context raised.
ComposeFails(c) ==
    /\ turn[c].phase = "compose" /\ Fault("stage")
    /\ turn' = [turn EXCEPT ![c] = NoTurn]
    /\ waiter' = [waiter EXCEPT ![turn[c].task] = "retry"]
    /\ UNCHANGED <<trackerVars, hookVars, woken, rec, attempts, fix, startVars,
                   outerVars, histVars>>

-----------------------------------------------------------------------------
(* How a recovery ends, for each of its callers                            *)

\* _recover_owned_completion of a waiter or of the start-up: an attempt that
\* raised is repeated, and the last one leaves the task to the next start.
LoopEnds(t, who, ok) ==
    LET over == ok \/ attempts[t] + 1 >= MaxAttempts IN
    /\ attempts' = [attempts EXCEPT ![t] = IF over THEN 0 ELSE @ + 1]
    /\ postponed' = IF over /\ ~ok THEN postponed \cup {t} ELSE postponed
    /\ starting' = IF who = "startup" /\ over THEN None ELSE starting
    /\ IF who = "waiter" /\ over
       THEN waiter' = [waiter EXCEPT ![t] = "off"] /\ Unregister(t)
       ELSE UNCHANGED <<waiter, events, owned>>
    /\ UNCHANGED <<call, acked>>

\* The webhook answers 200, or 500 for the sender to retry.
CallbackEnds(t, ok) ==
    /\ call' = [k \in Calls |-> IF call[k] = [task |-> t, phase |-> "deliver"]
                                THEN NoCall ELSE call[k]]
    /\ acked' = IF ok THEN acked \cup {t} ELSE acked
    /\ UNCHANGED <<attempts, postponed, starting, waiter, events, owned>>

RecoveryEnds(t, ok) ==
    /\ rec' = [rec EXCEPT ![t] = "none"]
    /\ IF rec[t] = "callback" THEN CallbackEnds(t, ok) ELSE LoopEnds(t, rec[t], ok)

\* recover_completion returned: its caller writes the tombstone.
RecoveryReturns(t) ==
    \/ Save(Settled(mem, t)) /\ RecoveryEnds(t, TRUE)
    \/ SaveFails /\ RecoveryEnds(t, FALSE)

-----------------------------------------------------------------------------
(* Sending the pieces, for the waiter and for every recovery               *)

\* An exception: the waiter starts its recovery, a recovery ends.
Raise(c) ==
    LET t == turn[c].task IN
    /\ turn' = [turn EXCEPT ![c] = NoTurn]
    /\ IF turn[c].who = "waiter"
       THEN /\ waiter' = [waiter EXCEPT ![t] = "retry"]
            /\ UNCHANGED <<rec, attempts, postponed, starting, events, owned, call, acked>>
       ELSE RecoveryEnds(t, FALSE)

quietVars == <<rec, attempts, postponed, starting, waiter, events, owned, call, acked>>

\* prepare_delivery_part: the payload that was persisted first is the one
\* that is sent, now and after a restart.
Prepare(c) ==
    LET t == turn[c].task  q == turn[c].todo  x == Head(q) IN
    /\ turn[c].phase = "prepare" /\ q # <<>>
    /\ IF x.part \in mem.done[t]
       THEN /\ turn' = [turn EXCEPT ![c].todo = Tail(q)]
            /\ UNCHANGED <<trackerVars, faults, quietVars>>
       ELSE \/ /\ IF mem.intents[t][x.part] # None
                  THEN UNCHANGED <<trackerVars, faults>>
                  ELSE Save(Prepared(mem, t, x.part, x.payload))
               /\ turn' = [turn EXCEPT ![c].phase = "transmit",
                     ![c].todo = <<[x EXCEPT !.payload = mem'.intents[t][x.part]]>> \o Tail(q)]
               /\ UNCHANGED quietVars
            \/ mem.intents[t][x.part] = None /\ SaveFails /\ Raise(c)
    /\ UNCHANGED <<woken, fix, up, pending, outerVars, judged, waived>>

\* The gateway refuses an id that failed before or has another payload.
Refused(g, x) == g.state = "failed" \/ (g.state = "sent" /\ g.payload # x)

\* send_message(wait_for_ack) and _require_confirmed_send, with the receipt
\* the gateway keeps under _recovery_request_id(session, part).
Transmit(c) ==
    LET t == turn[c].task  x == Head(turn[c].todo)  g == gate[t][x.part] IN
    /\ turn[c].phase = "transmit"
    /\ \/ /\ ~Refused(g, x.payload)
          /\ gate' = [gate EXCEPT ![t][x.part] = Sent(x.payload)]
          /\ turn' = [turn EXCEPT ![c].phase = "mark"]
          /\ UNCHANGED <<faults, quietVars>>
       \/ Refused(g, x.payload) /\ Raise(c) /\ UNCHANGED <<gate, faults>>
       \/ /\ Fault("send")              \* not ready, or the ack is lost
          /\ \/ UNCHANGED gate
             \/ ~Refused(g, x.payload) /\ gate' = [gate EXCEPT ![t][x.part] = Sent(x.payload)]
          /\ Raise(c)
       \/ /\ Fault("reject") /\ g = NoClaim   \* WhatsApp refused, or Node died
          /\ gate' = [gate EXCEPT ![t][x.part] = Failed(x.payload)]
          /\ Raise(c)
    /\ UNCHANGED <<trackerVars, woken, fix, up, pending, remote, judged, waived>>

MarkPart(c) ==
    LET t == turn[c].task  x == Head(turn[c].todo) IN
    /\ turn[c].phase = "mark"
    /\ \/ /\ IF x.part \in mem.done[t] THEN UNCHANGED <<trackerVars, faults>>
             ELSE Save(PartDone(mem, t, x.part))
          /\ turn' = [turn EXCEPT ![c].phase = "prepare", ![c].todo = Tail(@)]
          /\ UNCHANGED quietVars
       \/ x.part \notin mem.done[t] /\ SaveFails /\ Raise(c)
    /\ UNCHANGED <<woken, fix, up, pending, outerVars, judged, waived>>

\* Mutants: done with the last piece, or with all, still to be sent.
AllSentButOne(c) == turn[c].phase = "prepare" /\ Len(turn[c].todo) <= 1
AllSentEarly(c)  == turn[c].phase = "prepare"

AllSent(c) == turn[c].phase = "prepare" /\ turn[c].todo = <<>>

RecoverFinish(c) ==
    /\ AllSent(c) /\ turn[c].who = "recovery"
    /\ turn' = [turn EXCEPT ![c] = NoTurn]
    /\ RecoveryReturns(turn[c].task)
    /\ UNCHANGED <<woken, fix, up, pending, outerVars, judged, waived>>

WaiterLeaves(t) ==
    /\ waiter' = [waiter EXCEPT ![t] = "off"]
    /\ Unregister(t)

DeliverFinish(c) ==
    LET t == turn[c].task IN
    /\ AllSent(c) /\ turn[c].who = "waiter" /\ ~turn[c].fixes
    /\ turn' = [turn EXCEPT ![c] = NoTurn]
    /\ \/ Save(Settled(mem, t)) /\ WaiterLeaves(t)
       \/ SaveFails /\ waiter' = [waiter EXCEPT ![t] = "retry"] /\ UNCHANGED <<events, owned>>
    /\ UNCHANGED <<call, woken, rec, attempts, fix, startVars, outerVars, histVars>>

-----------------------------------------------------------------------------
(* The model asked for a correction: a new task replaces the old one.  A   *)
(* correction of a correction, one beside an active task, one without an   *)
(* instruction or without its inputs is dropped, and with it the           *)
(* tombstone of the task it was to correct.                                *)

CorrectionDropped(c) ==
    LET t == turn[c].task IN
    /\ AllSent(c) /\ turn[c].who = "waiter" /\ turn[c].fixes
    /\ turn' = [turn EXCEPT ![c] = NoTurn]
    /\ WaiterLeaves(t)
    /\ postponed' = postponed \cup {t}
    /\ UNCHANGED <<trackerVars, call, woken, rec, attempts, fix, startVars,
                   outerVars, acked, judged, waived, faults>>

CorrectionLaunched(c, n) ==
    LET t == turn[c].task IN
    /\ AllSent(c) /\ turn[c].who = "waiter" /\ turn[c].fixes /\ t \notin fix
    /\ waiter[n] = "new" /\ ChatOf[n] = c /\ ActiveIn(mem, c) = {}
    /\ turn' = [turn EXCEPT ![c] = NoTurn]
    /\ fix' = fix \cup {n}
    /\ \/ /\ Save(Settled(Registered(mem, n), t))
          /\ waiter' = [waiter EXCEPT ![t] = "off", ![n] = "submitting"]
          /\ events' = (events \cup {n}) \ {t}
          /\ owned' = (owned \cup {n}) \ {t}
          /\ waived' = waived \cup {t} /\ UNCHANGED postponed
       \/ /\ Fault("disk")              \* register raises
          /\ mem' = Registered(mem, n)
          /\ waiter' = [waiter EXCEPT ![t] = "retry", ![n] = "off"]
          /\ UNCHANGED <<disk, events, owned, waived, postponed>>
       \/ /\ Fault("disk")              \* mark_delivered raises
          /\ mem' = Registered(mem, n) /\ disk' = mem'
          /\ waiter' = [waiter EXCEPT ![t] = "retry", ![n] = "off"]
          /\ events' = events \cup {n} /\ owned' = owned \cup {n}
          /\ postponed' = postponed \cup {n} /\ UNCHANGED waived
    /\ UNCHANGED <<call, woken, rec, attempts, startVars, outerVars, acked, judged>>

\* The confirmation cannot be sent: the old result is recovered.
CorrectionRaises(c) ==
    /\ AllSent(c) /\ turn[c].who = "waiter" /\ turn[c].fixes /\ Fault("send")
    /\ turn' = [turn EXCEPT ![c] = NoTurn]
    /\ waiter' = [waiter EXCEPT ![turn[c].task] = "retry"]
    /\ UNCHANGED <<trackerVars, hookVars, woken, rec, attempts, fix, startVars,
                   outerVars, histVars>>

-----------------------------------------------------------------------------
(* recover_completion, and the loop around it                              *)

Looping(t, who) == \/ who = "waiter" /\ waiter[t] = "retry"
                   \/ who = "startup" /\ starting = t

\* The call returns at once for a delivered task and raises while another
\* recovery of the task runs; otherwise it queues for the lock.
RecoverBegin(t, who) ==
    /\ Looping(t, who) /\ rec[t] # who
    /\ \/ /\ t \in mem.tombs
          /\ \/ Save(Settled(mem, t)) /\ LoopEnds(t, who, TRUE)
             \/ SaveFails /\ LoopEnds(t, who, FALSE)
          /\ UNCHANGED rec
       \/ /\ t \notin mem.tombs /\ rec[t] # "none"
          /\ LoopEnds(t, who, FALSE)
          /\ UNCHANGED <<trackerVars, rec, faults>>
       \/ /\ t \notin mem.tombs /\ rec[t] = "none"
          /\ rec' = [rec EXCEPT ![t] = who]
          /\ UNCHANGED <<trackerVars, faults, attempts, postponed, starting,
                         waiter, events, owned, call, acked>>
    /\ UNCHANGED <<woken, turn, fix, up, pending, outerVars, judged, waived>>

\* Under the lock: the raw report and the files of the stored result.
RecoverLocked(t) ==
    LET c == ChatOf[t]  r == mem.finished[t] IN
    /\ rec[t] # "none" /\ turn[c].who = "nobody"
    /\ \/ /\ t \in mem.tombs
          /\ RecoveryReturns(t)
          /\ UNCHANGED turn
       \/ /\ t \notin mem.tombs /\ r = None
          /\ RecoveryEnds(t, FALSE)
          /\ UNCHANGED <<trackerVars, turn, faults>>
       \/ /\ t \notin mem.tombs /\ r # None
          /\ turn' = [turn EXCEPT ![c] = [NoTurn EXCEPT !.who = "recovery", !.task = t,
                !.phase = "prepare", !.result = r,
                !.todo = <<Pc("report", "raw", r)>> \o Files(r)]]
          /\ UNCHANGED <<trackerVars, faults, quietVars>>
       \/ /\ t \notin mem.tombs /\ r # None     \* staging the files raised
          /\ Fault("stage")
          /\ RecoveryEnds(t, FALSE)
          /\ UNCHANGED <<trackerVars, turn>>
    /\ UNCHANGED <<woken, fix, up, pending, outerVars, judged, waived>>

-----------------------------------------------------------------------------
(* SubAgentWebhookServer._handle_callback, type "complete"                 *)

Ack(k, t) == call' = [call EXCEPT ![k] = NoCall] /\ acked' = acked \cup {t}
Nack(k)   == call' = [call EXCEPT ![k] = NoCall] /\ UNCHANGED acked

\* The service sends until it has a 2xx answer, and again if that is lost.
CallbackArrives(k, t) ==
    /\ remote[t] = "done" /\ call[k] = NoCall
    /\ IF \/ t \in mem.tombs
          \/ t \in owned \ events /\ mem.finished[t] # None
       THEN acked' = acked \cup {t} /\ UNCHANGED call
       ELSE /\ call' = [call EXCEPT ![k] = [task |-> t, phase |-> "fetch"]]
            /\ UNCHANGED acked
    /\ UNCHANGED <<trackerVars, events, owned, coordVars, startVars, outerVars,
                   judged, waived, postponed, faults>>

\* A download fails (502), or the output is refused (422).
CallbackFails(k) ==
    /\ call[k].phase \in {"fetch", "spool"}
    /\ Fault("fetch")
    /\ Nack(k)
    /\ UNCHANGED <<trackerVars, events, owned, coordVars, startVars, outerVars,
                   judged, waived, postponed>>

Known(t) == t \in mem.active \/ mem.finished[t] # None

\* The files are here.  A session the tracker does not know is registered.
CallbackFetched(k) ==
    LET t == call[k].task IN
    /\ call[k].phase = "fetch"
    /\ IF Known(t)
       THEN /\ call' = [call EXCEPT ![k].phase = "spool"]
            /\ UNCHANGED <<trackerVars, acked, faults>>
       ELSE \/ /\ Save(Registered(mem, t))
               /\ call' = [call EXCEPT ![k].phase = "spool"]
               /\ UNCHANGED acked
            \/ /\ Fault("disk")
               /\ mem' = Registered(mem, t)
               /\ UNCHANGED disk
               /\ Nack(k)
    /\ UNCHANGED <<events, owned, coordVars, startVars, outerVars, judged, waived, postponed>>

\* finalize, and then: wake the waiter, leave the delivery to whoever owns
\* it or to the start-up, or deliver before answering.
CallbackStores(k) ==
    LET t == call[k].task IN
    /\ call[k].phase = "spool"
    /\ \/ /\ IF t \in mem.tombs THEN UNCHANGED <<trackerVars, faults>>
             ELSE Save(Finalized(mem, t, "real"))
          /\ CASE t \in events ->
                    events' = events \ {t} /\ woken' = woken \cup {t}
                    /\ Ack(k, t) /\ UNCHANGED rec
               [] t \notin events /\ (t \in owned \/ t \in mem.tombs) ->
                    Ack(k, t) /\ UNCHANGED <<events, woken, rec>>
               [] t \notin events /\ t \notin owned /\ t \notin mem.tombs /\ up = "cold" ->
                    Ack(k, t) /\ UNCHANGED <<events, woken, rec>>
               [] t \notin events /\ t \notin owned /\ t \notin mem.tombs /\ up # "cold" ->
                    /\ IF rec[t] # "none" THEN Nack(k) /\ UNCHANGED rec
                       ELSE /\ call' = [call EXCEPT ![k].phase = "deliver"]
                            /\ rec' = [rec EXCEPT ![t] = "callback"]
                            /\ UNCHANGED acked
                    /\ UNCHANGED <<events, woken>>
       \/ /\ t \notin mem.tombs /\ SaveFails
          /\ Nack(k)
          /\ UNCHANGED <<events, woken, rec>>
    /\ UNCHANGED <<owned, waiter, turn, attempts, fix, startVars, outerVars,
                   judged, waived, postponed>>

-----------------------------------------------------------------------------
(* AgentSession: restart, recover_pending_completions, /reset              *)

\* Mutant: what was stored before is not listed.
OpenedEmpty ==
    /\ up = "cold" /\ up' = "replaying"
    /\ postponed' = {}
    /\ UNCHANGED <<trackerVars, hookVars, coordVars, starting, pending, outerVars,
                   acked, judged, waived, faults>>

\* WhatsApp is open: the recovery handler is set, and what is stored and
\* not delivered is listed for replay.
Opened ==
    /\ up = "cold"
    /\ up' = "replaying"
    /\ pending' = FinishedIn(mem) \ mem.tombs
    /\ postponed' = {}
    /\ UNCHANGED <<trackerVars, hookVars, coordVars, starting, outerVars, acked,
                   judged, waived, faults>>

ReplayNext ==
    /\ up = "replaying" /\ starting = None
    /\ IF pending = {} THEN up' = "up" /\ UNCHANGED <<starting, pending>>
       ELSE \E t \in pending : /\ starting' = t /\ pending' = pending \ {t}
                               /\ UNCHANGED up
    /\ UNCHANGED <<trackerVars, hookVars, coordVars, outerVars, histVars, faults>>

\* The process dies, or is stopped and cancels its tasks.
Restart ==
    /\ Fault("restart")
    /\ mem' = disk
    /\ events' = {} /\ owned' = {} /\ woken' = {}
    /\ call' = [k \in Calls |-> NoCall]
    /\ waiter' = [t \in Tasks |-> IF waiter[t] = "new" THEN "new" ELSE "off"]
    /\ turn' = [c \in Chats |-> NoTurn]
    /\ rec' = [t \in Tasks |-> "none"]
    /\ attempts' = [t \in Tasks |-> 0]
    /\ up' = "cold" /\ starting' = None /\ pending' = {}
    /\ UNCHANGED <<disk, fix, outerVars, histVars>>

\* clear_history: finished tasks are forgotten, without the chat's lock; a
\* write that fails leaves the memory cleared.
Reset(c) ==
    LET gone == {t \in FinishedIn(mem) : ChatOf[t] = c} IN
    /\ gone # {}
    /\ mem' = Cleared(mem, c)
    /\ \/ disk' = mem' /\ UNCHANGED faults
       \/ Fault("disk") /\ UNCHANGED disk
    /\ waived' = waived \cup gone
    /\ UNCHANGED <<hookVars, coordVars, startVars, outerVars, acked, judged, postponed>>

-----------------------------------------------------------------------------
Submitting(t) == SubmitBegin(t) \/ SubmitFails(t) \/ WaitTimesOut(t)
Remote(t)     == RemoteAccepts(t) \/ RemoteFinishes(t)
Waiting(t)    == Submitted(t) \/ Woken(t) \/ DeliverBegin(t)
Recovering(t) == RecoverBegin(t, "waiter") \/ RecoverBegin(t, "startup") \/ RecoverLocked(t)
Holding(c)    == \/ SubmitRefused(c) \/ SubmitRegister(c) \/ Compose(c)
                 \/ Prepare(c) \/ Transmit(c) \/ MarkPart(c)
                 \/ DeliverFinish(c) \/ RecoverFinish(c)
                 \/ ComposeFails(c) \/ CorrectionRaises(c) \/ CorrectionDropped(c)
                 \/ \E n \in Tasks : CorrectionLaunched(c, n)
Callback(k)   == \/ \E t \in Tasks : CallbackArrives(k, t)
                 \/ CallbackFails(k) \/ CallbackFetched(k) \/ CallbackStores(k)

Next ==
    \/ \E t \in Tasks : Submitting(t) \/ Remote(t) \/ Waiting(t) \/ Recovering(t)
    \/ \E c \in Chats : Holding(c) \/ Reset(c)
    \/ \E k \in Calls : Callback(k)
    \/ Opened \/ ReplayNext \/ Restart

Spec == Init /\ [][Next]_vars

Fairness ==
    /\ \A t \in Tasks : WF_vars(Remote(t)) /\ WF_vars(Waiting(t)) /\ SF_vars(Recovering(t))
    /\ \A c \in Chats : WF_vars(Holding(c))
    /\ \A k \in Calls : WF_vars(CallbackFetched(k)) /\ WF_vars(CallbackStores(k))
    /\ \A t \in Tasks : WF_vars(t \notin acked /\ \E k \in Calls : CallbackArrives(k, t))
    /\ WF_vars(Opened) /\ WF_vars(ReplayNext)

FairSpec == Spec /\ Fairness

-----------------------------------------------------------------------------
\* Every variable keeps its shape.
TypeOK ==
    /\ mem \in Tracker /\ disk \in Tracker
    /\ events \subseteq Tasks /\ owned \subseteq Tasks
    /\ call \in [Calls -> [task : Tasks \cup {None},
                           phase : {"free", "fetch", "spool", "deliver"}]]
    /\ waiter \in [Tasks -> WaiterStates]
    /\ woken \subseteq Tasks /\ fix \subseteq Tasks
    /\ turn \in [Chats -> Turn]
    /\ rec \in [Tasks -> {"none", "waiter", "startup", "callback"}]
    /\ attempts \in [Tasks -> Nat]
    /\ up \in {"cold", "replaying", "up"}
    /\ starting \in Tasks \cup {None} /\ pending \subseteq Tasks
    /\ remote \in [Tasks -> {"idle", "running", "done"}]
    /\ gate \in [Tasks -> [Parts -> Claim]]
    /\ acked \subseteq Tasks /\ judged \subseteq Tasks
    /\ waived \subseteq Tasks /\ postponed \subseteq Tasks
    /\ faults \in Nat

\* A completion answered with a 2xx status is in the state file, as a result or
\* as a tombstone: the service may delete its only copy (_handle_callback).
AckedIsDurable == acked \subseteq FinishedIn(disk) \cup disk.tombs

\* A tombstone means the chat has the report, and the file too when the result
\* was the sub-agent's own; except after /reset, and for the task a correction
\* replaced.
SettledIsShown ==
    \A t \in mem.tombs \ waived :
        /\ gate[t]["report"].state = "sent"
        /\ t \in acked \ judged => gate[t]["file"].state = "sent"

RealShown(t) == \E p \in Parts : gate[t][p].state = "sent" /\ gate[t][p].payload.of = "real"

\* A result the webhook took is kept until the chat has seen some of it, unless
\* the bridge had already given up on the task with a verdict of its own: then
\* the real result may replace the verdict while that is delivered, or be
\* replaced by it, and is lost.
AcceptedIsDelivered ==
    \A t \in acked \ (waived \cup judged) : mem.finished[t] = "real" \/ RealShown(t)

\* A receipt that says a part failed is replayed for ever under its id.
Poisoned(t) == \E p \in Parts : gate[t][p].state = "failed"
Left(t) == t \in postponed \cup pending

\* What is stored is delivered in the end, or left for the next start, by
\* whichever of the four actors comes to it; a part the gateway has recorded as
\* failed is the exception, since every retry has the same request id.
ResultsSettle ==
    \A t \in Tasks :
        mem.finished[t] # None ~> t \in mem.tombs \/ Left(t) \/ Poisoned(t)

\* The same without the exception: a result is retried until it is delivered.
ResultsReplayed ==
    \A t \in Tasks : mem.finished[t] # None ~> t \in mem.tombs \/ Left(t)
=============================================================================
