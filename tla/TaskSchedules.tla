--------------------------- MODULE TaskSchedules ---------------------------
(***************************************************************************)
(* The scheduled (one-shot) and daily tasks of one account: their rows in  *)
(* settings.db, the asyncio timers of the bridge, and the life of the      *)
(* session that arms them.                                                 *)
(*                                                                         *)
(*   AgentSession.run connects, waits for WhatsApp, recovers sub-agents,   *)
(*     arms what is stored, and at the end closes the socket before it     *)
(*     cancels its timers;                                                 *)
(*   the frame pump stores and arms new tasks, deletes daily tasks and     *)
(*     follows the status of WhatsApp, at any time of that life;           *)
(*   a timer sleeps, takes the chat lock, asks the model, leaves           *)
(*     typing_indicator and sends; then a one-shot task deletes its row    *)
(*     and a daily task arms its next day.                                 *)
(*                                                                         *)
(* Abstractions.  All tasks belong to one chat, so there is one lock; its  *)
(* other users are left out.  A turn sends one message.  Times are left    *)
(* out: a timer may wake at any time.  The status reaches the bridge late  *)
(* but not in the order of the other frames.  Task ids are fresh UUIDs, so *)
(* one frame creates a task and a session arms it at most twice: for the   *)
(* frame and for the stored row.  The next day's timer of a daily task     *)
(* takes the place of the one that just ended.                             *)
(***************************************************************************)
EXTENDS Naturals, Sequences, FiniteSets

CONSTANTS
    OneShot,      \* ids of /schedule-task tasks
    Daily,        \* ids of /daily-task tasks
    MaxSessions,  \* bound: how often the bridge's session starts
    MaxOutages    \* bound: how often WhatsApp stops being open

ASSUME TaskAssumption ==
    /\ OneShot \cap Daily = {}
    /\ MaxSessions \in Nat /\ MaxOutages \in Nat

VARIABLES
    phase,     \* how far AgentSession.run is
    sessions,  \* sessions started so far
    wa,        \* WhatsApp is open, at the gateway
    outages,   \* how often it was not
    known,     \* _whatsapp_open_event: what the bridge was told of it
    inbox,     \* reliable frames of the gateway that the pump has yet to read
    pump,      \* "reply": the pump waits for the chat lock to answer a deletion
    rows,      \* the tasks in settings.db
    pc,        \* how far each timer is
    cancel,    \* timers that will raise CancelledError when they next run
    slot,      \* DailyTaskRunner._timers
    asked,     \* tasks the users asked for
    loaded,    \* history: the tables this session read at its start
    stuck,     \* history: one-shot tasks this session failed to delete
    done,      \* history: messages sent for each one-shot task, counted to two
    notes      \* history: what else happened to a task

sessionVars == <<phase, sessions>>
linkVars    == <<wa, outages, known, inbox, pump>>
timerVars   == <<pc, cancel, slot>>
histVars    == <<asked, loaded, stuck, done, notes>>
vars == <<sessionVars, linkVars, rows, timerVars, histVars>>

-----------------------------------------------------------------------------
Tasks   == OneShot \cup Daily
Origins == {"frame", "rearm"}
Timers  == Tasks \X Origins
Task(i) == i[1]

Phases  == {"down", "connect", "waiting", "recover", "run", "closing", "closed", "cancelled"}
Up      == {"waiting", "recover", "run", "closing"}     \* the pump reads frames
Stages  == {"none", "new", "sleep", "turn", "model", "typing", "send"}
Frames  == [type : {"add", "delete"}, task : Tasks]
Reasons == {"stored",   \* its row was written
            "early",    \* its frame came before this session armed the stored rows
            "again",    \* its row outlived the message: the process stopped in between,
                        \* or the deletion failed
            "failed",   \* the model gave no reply, or the message could not be sent
            "cutOff",   \* the socket was closed under the turn
            "kept"}     \* typing_indicator swallowed the cancellation of its timer

Alive(i)   == pc[i] # "none"
Active(i)  == Alive(i) /\ i \notin cancel
Holders    == {i \in Timers : pc[i] \in {"model", "typing", "send"}}
Closed     == phase \in {"closed", "cancelled"}
Twice(n)   == IF n = 0 THEN 1 ELSE 2

Init ==
    /\ phase = "down" /\ sessions = 0
    /\ wa \in BOOLEAN /\ outages = 0 /\ known = FALSE
    /\ inbox = <<>> /\ pump = "idle"
    /\ rows = {}
    /\ pc = [i \in Timers |-> "none"] /\ cancel = {} /\ slot = [d \in Daily |-> "none"]
    /\ asked = {} /\ loaded = {} /\ stuck = {}
    /\ done = [o \in OneShot |-> 0] /\ notes = {}

-----------------------------------------------------------------------------
(* Timers.                                                                 *)

\* Task.cancel on the live timers of S.  While typing_indicator awaits its
\* keep-alive task, the cancellation goes to that task and is suppressed with
\* it (messaging/gateway.py): it is lost, or recorded if the timer is about to
\* resume.
Cancelled(S) ==
    {[set |-> {i \in S : Alive(i)} \ lost, lost |-> lost] :
        lost \in SUBSET {i \in S : Alive(i) /\ pc[i] = "typing"}}
Kept(c) == {<<Task(i), "kept">> : i \in c.lost}

\* Mutant: _arm forgets the previous timer instead of cancelling it.
PreviousNone(A) == {}

\* The timers DailyTaskRunner._arm finds for the tasks A.
Previous(A) == {<<d, slot[d]>> : d \in {e \in A \cap Daily : slot[e] # "none"}}

\* Mutant: only one-shot tasks get a timer.
ArmedOnce(A, origin) ==
    [i \in Timers |-> IF Task(i) \in A \cap OneShot /\ i[2] = origin THEN "new" ELSE pc[i]]

\* Every task of A has a new timer.
Armed(A, origin) ==
    [i \in Timers |-> IF Task(i) \in A /\ i[2] = origin THEN "new" ELSE pc[i]]

\* Only the daily runner remembers its timers.
Slots(A, origin) == [d \in Daily |-> IF d \in A THEN origin ELSE slot[d]]

\* ScheduledTaskRunner._arm and DailyTaskRunner._arm, which cancels the timer it
\* replaces.  "more" is what the caller notes of the tasks.
Arm(A, origin, more) ==
    \E c \in Cancelled(Previous(A)) :
        /\ pc' = Armed(A, origin)
        /\ cancel' = cancel \cup c.set
        /\ slot' = Slots(A, origin)
        /\ notes' = notes \cup Kept(c) \cup more

Moves(i, from, to) ==
    /\ pc[i] = from /\ i \notin cancel
    /\ pc' = [pc EXCEPT ![i] = to]
    /\ UNCHANGED <<sessionVars, linkVars, rows, cancel, slot, histVars>>

TimerStarts(i) == Moves(i, "new", "sleep")

\* The time of the task has come.  What is armed after the teardown cancelled the
\* timers is a daily task's next day, which comes after the end of the session.
TimerWakes(i) == phase # "cancelled" /\ Moves(i, "sleep", "turn")

\* reinvoke has read the chat context and takes the lock.
TakesLock(i) == Holders = {} /\ Moves(i, "turn", "model")

\* generate returned or raised: typing_indicator stops its keep-alive task.
ModelReturns(i) == Moves(i, "model", "typing")

\* Mutant: the row stays when the turn produced no message.
RowAfterKept(o, sent) == IF sent THEN rows \ {o} ELSE rows

\* The row of a one-shot task after its turn, however the turn ended.
RowAfter(o, sent) == rows \ {o}

\* _fire of a one-shot task deletes the row; the deletion may fail.
Retired(i, why) ==
    \E deleted \in BOOLEAN :
        /\ rows' = IF deleted THEN RowAfter(Task(i), why = "sent") ELSE rows
        /\ stuck' = IF deleted \/ Task(i) \notin rows THEN stuck ELSE stuck \cup {Task(i)}
        /\ notes' = notes
              \cup (IF why = "sent" THEN {} ELSE {<<Task(i), why>>})
              \cup (IF deleted \/ Task(i) \notin rows THEN {} ELSE {<<Task(i), "again">>})
        /\ pc' = [pc EXCEPT ![i] = "none"]
        /\ UNCHANGED <<cancel, slot>>

\* The end of a daily timer: it leaves _timers, and arms the next day in place
\* of the timer that took its slot meanwhile.
NextDay(i) ==
    LET d == Task(i)
        P == {j \in Previous({d}) : j # i}
    IN  \E c \in Cancelled(P) :
          /\ pc' = [pc EXCEPT ![i] = "new"]
          /\ cancel' = cancel \cup c.set
          /\ slot' = [slot EXCEPT ![d] = i[2]]
          /\ notes' = notes \cup Kept(c)
          /\ UNCHANGED <<rows, stuck>>

\* The turn of timer i is over.  "why" is "sent" or the reason it sent nothing.
TurnEnds(i, why) ==
    /\ done' = IF why = "sent" /\ Task(i) \in OneShot
               THEN [done EXCEPT ![Task(i)] = Twice(@)] ELSE done
    /\ IF Task(i) \in OneShot THEN Retired(i, why) ELSE NextDay(i)
    /\ UNCHANGED <<sessionVars, linkVars, asked, loaded>>

\* The model produced a reply to dispatch, or nothing.
TypingEnds(i) ==
    /\ pc[i] = "typing" /\ i \notin cancel
    /\ \/ Moves(i, "typing", "send")
       \/ TurnEnds(i, "failed")

\* The frame is written; a gateway whose WhatsApp is not open refuses it, which
\* the turn does not wait to hear.
Sends(i) ==
    /\ pc[i] = "send" /\ i \notin cancel /\ ~Closed
    /\ TurnEnds(i, IF wa THEN "sent" ELSE "failed")

\* The frame is not written in time, or the socket was closed.
SendFails(i) ==
    /\ pc[i] = "send" /\ i \notin cancel
    /\ TurnEnds(i, IF Closed THEN "cutOff" ELSE "failed")

\* Mutant: a cancelled fire deletes its row like any other.
RowsOnCancelNone(i) == IF pc[i] \in {"turn", "model", "typing", "send"} THEN rows \ {Task(i)} ELSE rows

\* A cancelled fire keeps its row.
RowsOnCancel(i) == rows

\* CancelledError is raised in the timer.  The message may have left before it.
CancelTakes(i) ==
    /\ Alive(i) /\ i \in cancel
    /\ pc' = [pc EXCEPT ![i] = "none"] /\ cancel' = cancel \ {i}
    /\ rows' = RowsOnCancel(i)
    /\ slot' = IF Task(i) \in Daily /\ pc[i] # "new" /\ slot[Task(i)] = i[2]
               THEN [slot EXCEPT ![Task(i)] = "none"] ELSE slot
    /\ \/ UNCHANGED <<done, notes>>
       \/ /\ pc[i] = "send" /\ wa /\ Task(i) \in OneShot
          /\ done' = [done EXCEPT ![Task(i)] = Twice(@)]
          /\ notes' = notes \cup {<<Task(i), "again">>}
    /\ UNCHANGED <<sessionVars, linkVars, asked, loaded, stuck>>

-----------------------------------------------------------------------------
(* The frame pump.                                                         *)

Reading == phase \in Up /\ pump = "idle"

\* An owner asks for a task, or for the deletion of a daily one.
Ask ==
    /\ wa
    /\ \/ \E t \in Tasks \ asked :
            /\ inbox' = Append(inbox, [type |-> "add", task |-> t])
            /\ asked' = asked \cup {t}
       \/ \E d \in asked \cap Daily :
            /\ ~\E k \in DOMAIN inbox : inbox[k] = [type |-> "delete", task |-> d]
            /\ d \in rows \/ inbox # <<>>
            /\ inbox' = Append(inbox, [type |-> "delete", task |-> d])
            /\ UNCHANGED asked
    /\ UNCHANGED <<sessionVars, wa, outages, known, pump, rows, timerVars, loaded, stuck, done, notes>>

\* schedule of either runner: the row first, then the timer.  A row that cannot
\* be written drops the task.
HandleAdd ==
    /\ Reading /\ inbox # <<>> /\ Head(inbox).type = "add"
    /\ inbox' = Tail(inbox)
    /\ LET t == Head(inbox).task IN
         \/ /\ rows' = rows \cup {t}
            /\ Arm({t}, "frame", ({t} \cap OneShot)
                     \X ({"stored"} \cup IF phase \in {"waiting", "recover"} THEN {"early"} ELSE {}))
         \/ UNCHANGED <<rows, timerVars, notes>>
    /\ UNCHANGED <<sessionVars, wa, outages, known, pump, asked, loaded, stuck, done>>

\* Mutant: a deletion spares a timer that is in its turn.
DeletedAsleep(d) == {i \in {<<d, slot[d]>>} : slot[d] # "none" /\ pc[i] \in {"new", "sleep"}}

\* The timer delete_for_chat cancels.
DeletedTimer(d) == {i \in {<<d, slot[d]>>} : slot[d] # "none"}

\* daily_task_delete: the row first, then the timer; then the reply waits for the
\* chat lock.  A row that cannot be deleted keeps its timer.
HandleDelete ==
    /\ Reading /\ inbox # <<>> /\ Head(inbox).type = "delete"
    /\ inbox' = Tail(inbox) /\ pump' = "reply"
    /\ LET d == Head(inbox).task IN
         \/ /\ d \in rows \cap Daily
            /\ rows' = rows \ {d}
            /\ slot' = [slot EXCEPT ![d] = "none"]
            /\ \E c \in Cancelled(DeletedTimer(d)) :
                 cancel' = cancel \cup c.set /\ notes' = notes \cup Kept(c)
            /\ UNCHANGED pc
         \/ UNCHANGED <<rows, timerVars, notes>>
    /\ UNCHANGED <<sessionVars, wa, outages, known, asked, loaded, stuck, done>>

\* _send_command_output: the reply enters the history under the chat lock and is sent.
PumpReplies ==
    /\ phase \in Up /\ pump = "reply" /\ Holders = {}
    /\ pump' = "idle"
    /\ UNCHANGED <<sessionVars, wa, outages, known, inbox, rows, timerVars, histVars>>

\* whatsapp_status reaches the bridge.
HandleStatus ==
    /\ Reading /\ known # wa
    /\ known' = wa
    /\ UNCHANGED <<sessionVars, wa, outages, inbox, pump, rows, timerVars, histVars>>

WaOpens ==
    /\ ~wa /\ wa' = TRUE
    /\ UNCHANGED <<sessionVars, outages, known, inbox, pump, rows, timerVars, histVars>>

WaDrops ==
    /\ wa /\ outages < MaxOutages
    /\ wa' = FALSE /\ outages' = outages + 1
    /\ UNCHANGED <<sessionVars, known, inbox, pump, rows, timerVars, histVars>>

-----------------------------------------------------------------------------
(* AgentSession.run.                                                       *)

Start ==
    /\ phase = "down" /\ sessions < MaxSessions
    /\ phase' = "connect" /\ sessions' = sessions + 1
    /\ UNCHANGED <<linkVars, rows, timerVars, histVars>>

\* hello_ack arrives with the status of WhatsApp.
Connects ==
    /\ phase = "connect"
    /\ phase' = "waiting" /\ known' = wa
    /\ UNCHANGED <<sessions, wa, outages, inbox, pump, rows, timerVars, histVars>>

\* _wait_for_whatsapp_open_or_stop; what sub-agents left is recovered next.
GateOpens ==
    /\ phase = "waiting" /\ known
    /\ phase' = "recover"
    /\ UNCHANGED <<sessions, linkVars, rows, timerVars, histVars>>

\* rearm_pending of both runners; either table may fail to load.
RearmPending ==
    /\ phase = "recover"
    /\ phase' = "run"
    /\ loaded' \in SUBSET {OneShot, Daily}
    /\ Arm(rows \cap UNION loaded', "rearm", {})
    /\ UNCHANGED <<sessions, linkVars, rows, asked, stuck, done>>

\* The supervisor or a signal stops the session.
StopRequested ==
    /\ phase \in {"connect", "waiting", "recover", "run"} /\ sessions < MaxSessions
    /\ phase' = "closing"
    /\ UNCHANGED <<sessions, linkVars, rows, timerVars, histVars>>

\* What the gateway wrote and the pump did not read is lost with the socket.
Unread == {SubSeq(inbox, k, Len(inbox)) : k \in 1 .. Len(inbox) + 1}

\* ws.disconnect closes the transport and ends the pump.
Closes ==
    /\ phase = "closing"
    /\ phase' = "closed" /\ pump' = "idle"
    /\ inbox' \in Unread
    /\ UNCHANGED <<sessions, wa, outages, known, rows, timerVars, histVars>>

\* Then every tracked timer is cancelled.
CancelAll ==
    /\ phase = "closed"
    /\ phase' = "cancelled"
    /\ \E c \in Cancelled(Timers) :
         cancel' = cancel \cup c.set /\ notes' = notes \cup Kept(c)
    /\ UNCHANGED <<sessions, linkVars, rows, pc, slot, asked, loaded, stuck, done>>

\* Nothing of a session outlives it but the rows.
Gone ==
    /\ phase' = "down" /\ known' = FALSE /\ pump' = "idle"
    /\ pc' = [i \in Timers |-> "none"] /\ cancel' = {} /\ slot' = [d \in Daily |-> "none"]
    /\ loaded' = {} /\ stuck' = {}
    /\ UNCHANGED <<sessions, wa, outages, rows, asked>>

\* gather returns.  Only a daily timer whose cancellation was swallowed is left; it
\* belongs to a closed socket.
SessionEnds ==
    /\ phase = "cancelled"
    /\ cancel = {} /\ \A i \in Timers : pc[i] \in {"none", "new", "sleep"}
    /\ Gone
    /\ UNCHANGED <<inbox, done, notes>>

\* The process dies, perhaps between a message and the deletion of its row.
Crash ==
    /\ phase # "down" /\ sessions < MaxSessions
    /\ Gone
    /\ inbox' \in IF phase \in Up THEN Unread ELSE {inbox}
    /\ \/ UNCHANGED <<done, notes>>
       \/ \E i \in Holders :
            /\ pc[i] = "send" /\ Task(i) \in OneShot /\ wa /\ ~Closed
            /\ done' = [done EXCEPT ![Task(i)] = Twice(@)]
            /\ notes' = notes \cup {<<Task(i), "again">>}

-----------------------------------------------------------------------------
Next ==
    \/ Ask \/ WaOpens \/ WaDrops
    \/ Start \/ Connects \/ GateOpens \/ RearmPending
    \/ StopRequested \/ Closes \/ CancelAll \/ SessionEnds \/ Crash
    \/ HandleAdd \/ HandleDelete \/ PumpReplies \/ HandleStatus
    \/ \E i \in Timers :
         \/ TimerStarts(i) \/ TimerWakes(i) \/ TakesLock(i) \/ ModelReturns(i)
         \/ TypingEnds(i) \/ Sends(i) \/ SendFails(i) \/ CancelTakes(i)

Spec == Init /\ [][Next]_vars

TimerRuns(i) ==
    TimerStarts(i) \/ TimerWakes(i) \/ ModelReturns(i) \/ TypingEnds(i)
    \/ Sends(i) \/ SendFails(i) \/ CancelTakes(i)

SessionRuns ==
    Start \/ Connects \/ GateOpens \/ RearmPending \/ Closes \/ CancelAll \/ SessionEnds

\* The event loop runs what is ready, the model and the sockets answer or time
\* out, a supervisor restarts the bridge, WhatsApp reconnects, and an asyncio.Lock
\* is granted in the order of the requests.
Fairness ==
    /\ WF_vars(SessionRuns) /\ WF_vars(WaOpens)
    /\ WF_vars(HandleStatus) /\ SF_vars(PumpReplies)
    /\ \A i \in Timers : WF_vars(TimerRuns(i)) /\ SF_vars(TakesLock(i))

FairSpec == Spec /\ Fairness

-----------------------------------------------------------------------------
TypeOK ==
    /\ phase \in Phases /\ sessions \in Nat
    /\ wa \in BOOLEAN /\ outages \in Nat /\ known \in BOOLEAN
    /\ inbox \in Seq(Frames) /\ pump \in {"idle", "reply"}
    /\ rows \subseteq Tasks
    /\ pc \in [Timers -> Stages] /\ cancel \subseteq Timers
    /\ slot \in [Daily -> Origins \cup {"none"}]
    /\ asked \subseteq Tasks /\ loaded \subseteq {OneShot, Daily} /\ stuck \subseteq OneShot
    /\ done \in [OneShot -> 0 .. 2] /\ notes \subseteq Tasks \X Reasons

Noted(t, why) == <<t, why>> \in notes

\* A daily task has at most one timer that will go on, and it is the one _timers
\* holds, so that nothing else can fire it (daily_task_runner.py _arm), unless a
\* cancellation was swallowed.
OneTimerPerDaily ==
    \A i \in Timers : Task(i) \in Daily /\ Active(i) =>
        slot[Task(i)] = i[2] \/ Noted(Task(i), "kept")

\* Once the stored tasks were loaded, every row has a timer: a task that is
\* stored will fire without a restart (rearm_pending, schedule), except a
\* one-shot task whose row could not be deleted after its turn.
StoredIsArmed ==
    phase = "run" => \A t \in rows :
        \/ \E o \in Origins : Active(<<t, o>>)
        \/ t \in stuck
        \/ \A S \in loaded : t \notin S

\* A daily task that was deleted never fires again, not even when it was deleted
\* during its turn (delete_for_chat), unless typing_indicator swallowed the
\* cancellation.
DeletedIsQuiet ==
    \A i \in Timers : Task(i) \in Daily \ rows /\ Active(i) => Noted(Task(i), "kept")

\* A one-shot task leaves the database only when its message was sent, when its
\* turn failed, or when the session closed the socket under the turn; being
\* cancelled does not lose it (_fire).
KeptUntilServed ==
    \A o \in OneShot : Noted(o, "stored") /\ o \notin rows =>
        done[o] > 0 \/ Noted(o, "failed") \/ Noted(o, "cutOff")

\* A one-shot task is answered once, unless its row outlived its message, or its
\* frame was handled before the stored tasks were armed.
AnsweredOnce ==
    \A o \in OneShot : done[o] = 2 => Noted(o, "again") \/ Noted(o, "early")

\* A stored one-shot task is served or given up in the end, across stops, crashes
\* and outages, unless the database failed this session.
Served ==
    \A o \in OneShot :
        []<>(o \notin rows \/ o \in stuck \/ (phase = "run" /\ OneShot \notin loaded))
=============================================================================
