-------------------------- MODULE SubagentProofs ----------------------------
(***************************************************************************)
(* Proofs about SubagentTasks, for any tasks, chats, callbacks, attempts   *)
(* and faults: what was answered with a 2xx status is in the state file, a *)
(* result with a tombstone was shown, and a result the webhook took is     *)
(* kept until then.                                                        *)
(*                                                                         *)
(* The file and the memory may differ, since a failed write leaves a       *)
(* registration or a /reset in memory only. What makes the first property  *)
(* inductive is that they never differ in which tasks have a result or a   *)
(* tombstone (SameKept): every mutator keeps those, and a failed write     *)
(* adds none.  So what the webhook finds in memory is in the file too.     *)
(*                                                                         *)
(* A tombstone is written at the end of a turn, when no piece is left to   *)
(* send.  What makes the other two inductive is what each turn owes: a     *)
(* part of the result is still on its list, or the gateway has a receipt   *)
(* that it was sent, or it need not be sent (Fine).  A part is taken off   *)
(* the list when it was sent, or when the tracker says so; and the tracker *)
(* in memory and in the file is right about that (Right).                  *)
(***************************************************************************)
EXTENDS SubagentTasks, SequenceTheorems, TLAPS

\* The tasks with a result or a tombstone.
Kept(m) == FinishedIn(m) \cup m.tombs

Names == {"active", "finished", "tombs", "done", "intents"}

\* As much of a tracker's shape as its mutators need.
IsTracker(m) ==
    /\ m = [k \in Names |-> m[k]]
    /\ m.finished \in [Tasks -> Results \cup {None}]

CallsNameTasks ==
    /\ call \in [Calls -> [task : Tasks \cup {None},
                           phase : {"free", "fetch", "spool", "deliver"}]]
    /\ \A k \in Calls : call[k].phase # "free" => call[k].task \in Tasks

SameKept == Kept(mem) = Kept(disk)

Inv == IsTracker(mem) /\ IsTracker(disk) /\ CallsNameTasks /\ SameKept /\ AckedIsDurable

-----------------------------------------------------------------------------
(* The mutators.                                                            *)

\* Nothing but the results and the tombstones counts.
LEMMA SameResults ==
    ASSUME NEW m, IsTracker(m), NEW n, n = [k \in Names |-> n[k]],
           n.finished = m.finished, n.tombs = m.tombs
    PROVE  IsTracker(n) /\ Kept(n) = Kept(m)
BY DEF IsTracker, Kept, FinishedIn

\* Registering a task leaves all results.
LEMMA RegisteredKeeps ==
    ASSUME NEW m, IsTracker(m), NEW t
    PROVE  IsTracker(Registered(m, t)) /\ Kept(Registered(m, t)) = Kept(m)
<1> DEFINE n == Registered(m, t)
<1>1. n = [k \in Names |-> n[k]] /\ n.finished = m.finished /\ n.tombs = m.tombs
  BY DEF IsTracker, Registered, Names
<1> QED
  BY <1>1, SameResults

\* A result is stored unless the task has a tombstone.
LEMMA FinalizedKeeps ==
    ASSUME NEW m, IsTracker(m), NEW t \in Tasks, NEW r \in Results
    PROVE  /\ IsTracker(Finalized(m, t, r))
           /\ Kept(Finalized(m, t, r)) = Kept(m) \cup {t}
<1>1. CASE t \in m.tombs
  BY <1>1 DEF Finalized, Kept
<1>2. CASE t \notin m.tombs
  <2> DEFINE n == Finalized(m, t, r)
  <2>1. /\ n = [k \in Names |-> n[k]]
        /\ n.finished = [m.finished EXCEPT ![t] = r]
        /\ n.tombs = m.tombs
    BY <1>2 DEF IsTracker, Finalized, Names
  <2>2. r # None
    BY TasksAssumption DEF Results
  <2>3. FinishedIn(n) = FinishedIn(m) \cup {t}
    BY <2>1, <2>2 DEF IsTracker, FinishedIn
  <2> QED
    BY <2>1, <2>3 DEF IsTracker, Kept
<1> QED
  BY <1>1, <1>2

\* Intents and marks of parts are no results.
LEMMA PreparedKeeps ==
    ASSUME NEW m, IsTracker(m), NEW t, NEW p, NEW x
    PROVE  IsTracker(Prepared(m, t, p, x)) /\ Kept(Prepared(m, t, p, x)) = Kept(m)
<1> DEFINE n == Prepared(m, t, p, x)
<1>1. n = [k \in Names |-> n[k]] /\ n.finished = m.finished /\ n.tombs = m.tombs
  BY DEF IsTracker, Prepared, Names
<1> QED
  BY <1>1, SameResults

LEMMA PartDoneKeeps ==
    ASSUME NEW m, IsTracker(m), NEW t, NEW p
    PROVE  IsTracker(PartDone(m, t, p)) /\ Kept(PartDone(m, t, p)) = Kept(m)
<1> DEFINE n == PartDone(m, t, p)
<1>1. n = [k \in Names |-> n[k]] /\ n.finished = m.finished /\ n.tombs = m.tombs
  BY DEF IsTracker, PartDone, Names
<1> QED
  BY <1>1, SameResults

\* A delivered result turns into a tombstone.
LEMMA SettledKeeps ==
    ASSUME NEW m, IsTracker(m), NEW t
    PROVE  IsTracker(Settled(m, t)) /\ Kept(Settled(m, t)) = Kept(m) \cup {t}
<1> DEFINE n == Settled(m, t)
<1>1. /\ n = [k \in Names |-> n[k]]
      /\ n.finished = [m.finished EXCEPT ![t] = None]
      /\ n.tombs = m.tombs \cup {t}
  BY DEF IsTracker, Settled, Names
<1>2. FinishedIn(n) = FinishedIn(m) \ {t}
  BY <1>1 DEF IsTracker, FinishedIn
<1> QED
  BY <1>1, <1>2 DEF IsTracker, Kept

\* So do the results of a chat at /reset.
LEMMA ClearedKeeps ==
    ASSUME NEW m, IsTracker(m), NEW c
    PROVE  IsTracker(Cleared(m, c)) /\ Kept(Cleared(m, c)) = Kept(m)
<1> DEFINE gone == {t \in FinishedIn(m) : ChatOf[t] = c}
           n == Cleared(m, c)
<1>1. n = [k \in Names |-> n[k]] /\ n.tombs = m.tombs \cup gone
  BY DEF IsTracker, Cleared, Names
<1>2. n.finished = [t \in Tasks |-> IF t \in gone THEN None ELSE m.finished[t]]
  BY DEF IsTracker, Cleared, Names
<1>3. FinishedIn(n) = FinishedIn(m) \ gone
  BY <1>2 DEF FinishedIn
<1>4. gone \subseteq FinishedIn(m)
  OBVIOUS
<1> QED
  BY <1>1, <1>2, <1>3, <1>4 DEF IsTracker, Kept

-----------------------------------------------------------------------------
(* The two ways to change memory and file together.                         *)

\* Memory and file stay trackers that keep the same tasks, and lose none.
Grows ==
    /\ IsTracker(mem') /\ IsTracker(disk')
    /\ Kept(mem') = Kept(disk') /\ Kept(mem) \subseteq Kept(mem')

LEMMA UntouchedGrows ==
    ASSUME Inv, UNCHANGED trackerVars
    PROVE  Grows
BY DEF Inv, SameKept, Grows, trackerVars

LEMMA SaveFailsGrows ==
    ASSUME Inv, SaveFails
    PROVE  Grows
BY UntouchedGrows DEF SaveFails

\* The file is written: both hold m.
LEMMA SaveGrows ==
    ASSUME NEW m, IsTracker(m), Kept(mem) \subseteq Kept(m), Save(m)
    PROVE  Grows /\ Kept(mem') = Kept(m)
BY DEF Save, Grows

\* The file is not written, and memory keeps what it kept.
LEMMA MemoryGrows ==
    ASSUME Inv, NEW m, IsTracker(m), Kept(m) = Kept(mem), mem' = m, UNCHANGED disk
    PROVE  Grows
BY DEF Inv, SameKept, Grows

\* The invariant holds again, and no result was forgotten.
Step == Inv' /\ Kept(mem) \subseteq Kept(mem')

\* What is acknowledged now was kept by one of the two.
LEMMA AcksKept ==
    ASSUME Inv, Grows, acked' \subseteq acked \cup Kept(mem'), CallsNameTasks'
    PROVE  Step
<1>1. acked \subseteq Kept(mem')
  BY DEF Inv, Grows, SameKept, AckedIsDurable, Kept
<1>2. acked' \subseteq Kept(disk')
  BY <1>1 DEF Grows
<1>3. AckedIsDurable'
  BY <1>2 DEF AckedIsDurable, Kept, FinishedIn
<1>4. SameKept'
  BY DEF Grows, SameKept, Kept, FinishedIn
<1>5. IsTracker(mem)' /\ IsTracker(disk)'
  BY DEF Grows, IsTracker
<1> QED
  BY <1>3, <1>4, <1>5 DEF Inv, Step, Grows

\* No answer is given.
LEMMA NoAck ==
    ASSUME Inv, Grows, UNCHANGED <<acked, call>>
    PROVE  Step
<1>1. CallsNameTasks'
  BY DEF Inv, CallsNameTasks
<1> QED
  BY <1>1, AcksKept

-----------------------------------------------------------------------------
(* How recoveries and callbacks end.                                        *)

LEMMA NoCallNamesNone == NoCall \in [task : Tasks \cup {None},
                                     phase : {"free", "fetch", "spool", "deliver"}]
                         /\ NoCall.phase = "free"
BY DEF NoCall

LEMMA CallbackEndsCalls ==
    ASSUME Inv, NEW t, NEW ok \in BOOLEAN, CallbackEnds(t, ok)
    PROVE  CallsNameTasks' /\ acked' \subseteq (IF ok THEN acked \cup {t} ELSE acked)
<1> DEFINE over(k) == call[k] = [task |-> t, phase |-> "deliver"]
<1>1. call' = [k \in Calls |-> IF over(k) THEN NoCall ELSE call[k]]
  BY DEF CallbackEnds
<1>2. CallsNameTasks'
  BY <1>1, NoCallNamesNone DEF Inv, CallsNameTasks
<1> QED
  BY <1>2 DEF CallbackEnds

LEMMA CallsStay ==
    ASSUME Inv, UNCHANGED call
    PROVE  CallsNameTasks'
BY DEF Inv, CallsNameTasks

LEMMA LoopEndsCalls ==
    ASSUME Inv, NEW t, NEW who, NEW ok \in BOOLEAN, LoopEnds(t, who, ok)
    PROVE  CallsNameTasks' /\ acked' = acked
BY CallsStay DEF LoopEnds

LEMMA RecoveryEndsCalls ==
    ASSUME Inv, NEW t, NEW ok \in BOOLEAN, RecoveryEnds(t, ok)
    PROVE  CallsNameTasks' /\ acked' \subseteq (IF ok THEN acked \cup {t} ELSE acked)
<1>1. CASE rec[t] = "callback"
  BY <1>1, CallbackEndsCalls DEF RecoveryEnds
<1>2. CASE rec[t] # "callback"
  <2>1. LoopEnds(t, rec[t], ok)
    BY <1>2 DEF RecoveryEnds
  <2> QED
    BY <2>1, LoopEndsCalls
<1> QED
  BY <1>1, <1>2

LEMMA RaiseCalls ==
    ASSUME Inv, NEW c, Raise(c)
    PROVE  CallsNameTasks' /\ acked' \subseteq acked
<1>1. CASE turn[c].who = "waiter"
  BY <1>1, CallsStay DEF Raise
<1>2. CASE turn[c].who # "waiter"
  BY <1>2, RecoveryEndsCalls DEF Raise
<1> QED
  BY <1>1, <1>2

\* A recovery that failed answers nothing.
LEMMA RecoveryFailsKeeps ==
    ASSUME Inv, Grows, NEW t, RecoveryEnds(t, FALSE)
    PROVE  Step
<1>1. CallsNameTasks' /\ acked' \subseteq acked
  BY RecoveryEndsCalls
<1> QED
  BY <1>1, AcksKept

\* One that delivered writes the tombstone first.
LEMMA RecoveryReturnsKeeps ==
    ASSUME Inv, NEW t, RecoveryReturns(t)
    PROVE  Step
<1>1. CASE Save(Settled(mem, t)) /\ RecoveryEnds(t, TRUE)
  <2>1. IsTracker(Settled(mem, t)) /\ Kept(Settled(mem, t)) = Kept(mem) \cup {t}
    BY SettledKeeps DEF Inv
  <2>2. Grows /\ t \in Kept(mem')
    BY <1>1, <2>1, SaveGrows
  <2>3. CallsNameTasks' /\ acked' \subseteq acked \cup {t}
    BY <1>1, RecoveryEndsCalls
  <2> QED
    BY <2>2, <2>3, AcksKept
<1>2. CASE SaveFails /\ RecoveryEnds(t, FALSE)
  BY <1>2, SaveFailsGrows, RecoveryFailsKeeps
<1> QED
  BY <1>1, <1>2 DEF RecoveryReturns

LEMMA RaiseKeeps ==
    ASSUME Inv, Grows, NEW c, Raise(c)
    PROVE  Step
<1>1. CallsNameTasks' /\ acked' \subseteq acked
  BY RaiseCalls
<1> QED
  BY <1>1, AcksKept

-----------------------------------------------------------------------------
(* The turns.                                                               *)

LEMMA SubmitRegisterKeeps ==
    ASSUME Inv, NEW c, SubmitRegister(c)
    PROVE  Step
<1> DEFINE t == turn[c].task
<1>1. IsTracker(Registered(mem, t)) /\ Kept(Registered(mem, t)) = Kept(mem)
  BY RegisteredKeeps DEF Inv
<1>2. CASE Save(Registered(mem, t))
  BY <1>1, <1>2, SaveGrows, NoAck DEF SubmitRegister, histVars
<1>3. CASE mem' = Registered(mem, t) /\ UNCHANGED disk
  BY <1>1, <1>3, MemoryGrows, NoAck DEF SubmitRegister, histVars
<1> QED
  BY <1>2, <1>3 DEF SubmitRegister

LEMMA LocalVerdictKeeps ==
    ASSUME Inv, NEW t \in Tasks, NEW verdict, LocalVerdict(t, verdict)
    PROVE  Step
<1> DEFINE m == Finalized(mem, t, "local")
<1>1. IsTracker(m) /\ Kept(m) = Kept(mem) \cup {t}
  BY FinalizedKeeps DEF Inv, Results
<1>2. UNCHANGED <<acked, call>>
  BY DEF LocalVerdict
<1>3. CASE mem' = m /\ t \in mem.tombs /\ UNCHANGED disk
  <2>1. Kept(m) = Kept(mem)
    BY <1>1, <1>3 DEF Kept
  <2> QED
    BY <1>1, <1>2, <1>3, <2>1, MemoryGrows, NoAck
<1>4. CASE mem' = m /\ disk' = mem'
  BY <1>1, <1>2, <1>4, NoAck DEF Grows
<1>5. CASE UNCHANGED trackerVars
  BY <1>2, <1>5, UntouchedGrows, NoAck
<1> QED
  BY <1>3, <1>4, <1>5 DEF LocalVerdict

LEMMA PrepareKeeps ==
    ASSUME Inv, NEW c, Prepare(c)
    PROVE  Step
<1> DEFINE t == turn[c].task
           x == Head(turn[c].todo)
           m == Prepared(mem, t, x.part, x.payload)
<1>1. CASE UNCHANGED trackerVars /\ UNCHANGED quietVars
  BY <1>1, UntouchedGrows, NoAck DEF quietVars
<1>2. CASE Save(m) /\ UNCHANGED quietVars
  <2>1. IsTracker(m) /\ Kept(m) = Kept(mem)
    BY PreparedKeeps DEF Inv
  <2> QED
    BY <1>2, <2>1, SaveGrows, NoAck DEF quietVars
<1>3. CASE SaveFails /\ Raise(c)
  BY <1>3, SaveFailsGrows, RaiseKeeps
<1> QED
  BY <1>1, <1>2, <1>3 DEF Prepare, trackerVars

LEMMA TransmitKeeps ==
    ASSUME Inv, NEW c, Transmit(c)
    PROVE  Step
<1>1. Grows
  BY UntouchedGrows DEF Transmit
<1>2. CASE Raise(c)
  BY <1>1, <1>2, RaiseKeeps
<1>3. CASE UNCHANGED quietVars
  BY <1>1, <1>3, NoAck DEF quietVars
<1> QED
  BY <1>2, <1>3 DEF Transmit

LEMMA MarkPartKeeps ==
    ASSUME Inv, NEW c, MarkPart(c)
    PROVE  Step
<1> DEFINE t == turn[c].task
           x == Head(turn[c].todo)
           m == PartDone(mem, t, x.part)
<1>1. CASE UNCHANGED trackerVars /\ UNCHANGED quietVars
  BY <1>1, UntouchedGrows, NoAck DEF quietVars
<1>2. CASE Save(m) /\ UNCHANGED quietVars
  <2>1. IsTracker(m) /\ Kept(m) = Kept(mem)
    BY PartDoneKeeps DEF Inv
  <2> QED
    BY <1>2, <2>1, SaveGrows, NoAck DEF quietVars
<1>3. CASE SaveFails /\ Raise(c)
  BY <1>3, SaveFailsGrows, RaiseKeeps
<1> QED
  BY <1>1, <1>2, <1>3 DEF MarkPart, trackerVars

LEMMA DeliverFinishKeeps ==
    ASSUME Inv, NEW c, DeliverFinish(c)
    PROVE  Step
<1> DEFINE m == Settled(mem, turn[c].task)
<1>1. UNCHANGED <<acked, call>>
  BY DEF DeliverFinish, histVars
<1>2. CASE Save(m)
  BY <1>1, <1>2, SettledKeeps, SaveGrows, NoAck DEF Inv
<1>3. CASE SaveFails
  BY <1>1, <1>3, SaveFailsGrows, NoAck
<1> QED
  BY <1>2, <1>3 DEF DeliverFinish

LEMMA CorrectionLaunchedKeeps ==
    ASSUME Inv, NEW c, NEW n, CorrectionLaunched(c, n)
    PROVE  Step
<1> DEFINE t == turn[c].task
           m == Registered(mem, n)
<1>1. UNCHANGED <<acked, call>>
  BY DEF CorrectionLaunched
<1>2. IsTracker(m) /\ Kept(m) = Kept(mem)
  BY RegisteredKeeps DEF Inv
<1>3. IsTracker(Settled(m, t)) /\ Kept(Settled(m, t)) = Kept(mem) \cup {t}
  BY <1>2, SettledKeeps
<1>4. CASE Save(Settled(m, t))
  BY <1>1, <1>3, <1>4, SaveGrows, NoAck
<1>5. CASE mem' = m /\ UNCHANGED disk
  BY <1>1, <1>2, <1>5, MemoryGrows, NoAck
<1>6. CASE mem' = m /\ disk' = mem'
  BY <1>1, <1>2, <1>6, NoAck DEF Grows
<1> QED
  BY <1>4, <1>5, <1>6 DEF CorrectionLaunched

-----------------------------------------------------------------------------
(* Recoveries.                                                              *)

LEMMA RecoverBeginKeeps ==
    ASSUME Inv, NEW t \in Tasks, NEW who, RecoverBegin(t, who)
    PROVE  Step
<1>1. CASE Save(Settled(mem, t)) /\ LoopEnds(t, who, TRUE)
  <2>1. Grows
    BY <1>1, SettledKeeps, SaveGrows DEF Inv
  <2>2. CallsNameTasks' /\ acked' = acked
    BY <1>1, LoopEndsCalls
  <2> QED
    BY <2>1, <2>2, AcksKept
<1>2. CASE SaveFails /\ LoopEnds(t, who, FALSE)
  <2>1. CallsNameTasks' /\ acked' = acked
    BY <1>2, LoopEndsCalls
  <2> QED
    BY <1>2, <2>1, SaveFailsGrows, AcksKept
<1>3. CASE LoopEnds(t, who, FALSE) /\ UNCHANGED trackerVars
  <2>1. CallsNameTasks' /\ acked' = acked
    BY <1>3, LoopEndsCalls
  <2> QED
    BY <1>3, <2>1, UntouchedGrows, AcksKept
<1>4. CASE UNCHANGED trackerVars /\ UNCHANGED <<acked, call>>
  BY <1>4, UntouchedGrows, NoAck
<1> QED
  BY <1>1, <1>2, <1>3, <1>4 DEF RecoverBegin

LEMMA RecoverLockedKeeps ==
    ASSUME Inv, NEW t \in Tasks, RecoverLocked(t)
    PROVE  Step
<1>1. CASE RecoveryReturns(t)
  BY <1>1, RecoveryReturnsKeeps
<1>2. CASE RecoveryEnds(t, FALSE) /\ UNCHANGED trackerVars
  BY <1>2, UntouchedGrows, RecoveryFailsKeeps
<1>3. CASE UNCHANGED trackerVars /\ UNCHANGED quietVars
  BY <1>3, UntouchedGrows, NoAck DEF quietVars
<1> QED
  BY <1>1, <1>2, <1>3 DEF RecoverLocked

-----------------------------------------------------------------------------
(* Callbacks.                                                               *)

\* A call moves on, or is over.
LEMMA CallMoves ==
    ASSUME Inv, NEW k \in Calls, NEW d, call' = [call EXCEPT ![k] = d],
           d = NoCall \/ (d.task \in Tasks /\ d \in [task : Tasks \cup {None},
                               phase : {"free", "fetch", "spool", "deliver"}])
    PROVE  CallsNameTasks'
BY NoCallNamesNone DEF Inv, CallsNameTasks

LEMMA CallbackArrivesKeeps ==
    ASSUME Inv, NEW k \in Calls, NEW t \in Tasks, CallbackArrives(k, t)
    PROVE  Step
<1>1. Grows /\ mem' = mem
  BY UntouchedGrows DEF CallbackArrives, trackerVars
<1>2. CASE acked' = acked \cup {t} /\ UNCHANGED call
           /\ (t \in mem.tombs \/ mem.finished[t] # None)
  <2>1. t \in Kept(mem')
    BY <1>1, <1>2 DEF Kept, FinishedIn
  <2> QED
    BY <1>1, <1>2, <2>1, CallsStay, AcksKept
<1>3. CASE call' = [call EXCEPT ![k] = [task |-> t, phase |-> "fetch"]] /\ UNCHANGED acked
  BY <1>1, <1>3, CallMoves, AcksKept
<1> QED
  BY <1>2, <1>3 DEF CallbackArrives

LEMMA CallbackFailsKeeps ==
    ASSUME Inv, NEW k \in Calls, CallbackFails(k)
    PROVE  Step
<1>1. Grows
  BY UntouchedGrows DEF CallbackFails
<1>2. call' = [call EXCEPT ![k] = NoCall] /\ UNCHANGED acked
  BY DEF CallbackFails, Nack
<1> QED
  BY <1>1, <1>2, CallMoves, AcksKept

\* A step of a call that names a task.
LEMMA PhaseMoves ==
    ASSUME Inv, NEW k \in Calls, call[k].phase # "free",
           NEW ph \in {"fetch", "spool", "deliver"},
           call' = [call EXCEPT ![k].phase = ph]
    PROVE  CallsNameTasks'
<1> DEFINE d == [call[k] EXCEPT !.phase = ph]
<1>1. call' = [call EXCEPT ![k] = d]
  BY DEF Inv, CallsNameTasks
<1>2. d.task \in Tasks /\ d \in [task : Tasks \cup {None},
                                 phase : {"free", "fetch", "spool", "deliver"}]
  BY DEF Inv, CallsNameTasks
<1> QED
  BY <1>1, <1>2, CallMoves

LEMMA CallbackFetchedKeeps ==
    ASSUME Inv, NEW k \in Calls, CallbackFetched(k)
    PROVE  Step
<1> DEFINE t == call[k].task
           m == Registered(mem, t)
<1>1. IsTracker(m) /\ Kept(m) = Kept(mem)
  BY RegisteredKeeps DEF Inv
<1>2. acked' = acked
  BY DEF CallbackFetched, Nack
<1>3. CallsNameTasks'
  <2>1. CASE call' = [call EXCEPT ![k].phase = "spool"]
    BY <2>1, PhaseMoves DEF CallbackFetched
  <2>2. CASE call' = [call EXCEPT ![k] = NoCall]
    BY <2>2, CallMoves
  <2> QED
    BY <2>1, <2>2 DEF CallbackFetched, Nack
<1>4. Grows
  <2>1. CASE UNCHANGED trackerVars
    BY <2>1, UntouchedGrows
  <2>2. CASE Save(m)
    BY <1>1, <2>2, SaveGrows
  <2>3. CASE mem' = m /\ UNCHANGED disk
    BY <1>1, <2>3, MemoryGrows
  <2> QED
    BY <2>1, <2>2, <2>3 DEF CallbackFetched
<1> QED
  BY <1>2, <1>3, <1>4, AcksKept

LEMMA CallbackStoresKeeps ==
    ASSUME Inv, NEW k \in Calls, CallbackStores(k)
    PROVE  Step
<1> DEFINE t == call[k].task
           m == Finalized(mem, t, "real")
<1>1. t \in Tasks /\ call[k].phase # "free"
  BY DEF CallbackStores, Inv, CallsNameTasks
<1>2. CallsNameTasks'
  <2>1. CASE call' = [call EXCEPT ![k].phase = "deliver"]
    BY <1>1, <2>1, PhaseMoves
  <2>2. CASE call' = [call EXCEPT ![k] = NoCall]
    BY <2>2, CallMoves
  <2> QED
    BY <2>1, <2>2 DEF CallbackStores, Ack, Nack
<1>3. CASE SaveFails /\ Nack(k)
  BY <1>2, <1>3, SaveFailsGrows, AcksKept DEF Nack
<1>4. CASE IF t \in mem.tombs THEN UNCHANGED <<trackerVars, faults>> ELSE Save(m)
  <2>1. Grows /\ t \in Kept(mem')
    <3>1. CASE t \in mem.tombs
      BY <1>4, <3>1, UntouchedGrows DEF Kept, trackerVars
    <3>2. CASE t \notin mem.tombs
      <4>1. IsTracker(m) /\ Kept(m) = Kept(mem) \cup {t}
        BY <1>1, FinalizedKeeps DEF Inv, Results
      <4> QED
        BY <1>4, <3>2, <4>1, SaveGrows
    <3> QED
      BY <3>1, <3>2
  <2>2. acked' \subseteq acked \cup {t}
    BY DEF CallbackStores, Ack, Nack
  <2> QED
    BY <1>2, <2>1, <2>2, AcksKept
<1> QED
  BY <1>3, <1>4 DEF CallbackStores

-----------------------------------------------------------------------------
(* The session.                                                             *)

LEMMA RestartKeeps ==
    ASSUME Inv, Restart
    PROVE  Step
<1>1. mem' = disk /\ disk' = disk /\ acked' = acked /\ call' = [k \in Calls |-> NoCall]
  BY DEF Restart, histVars
<1>2. Grows
  BY <1>1 DEF Inv, SameKept, Grows
<1>3. CallsNameTasks'
  BY <1>1, NoCallNamesNone DEF CallsNameTasks
<1> QED
  BY <1>1, <1>2, <1>3, AcksKept

LEMMA ResetKeeps ==
    ASSUME Inv, NEW c, Reset(c)
    PROVE  Step
<1> DEFINE m == Cleared(mem, c)
<1>1. IsTracker(m) /\ Kept(m) = Kept(mem)
  BY ClearedKeeps DEF Inv
<1>2. UNCHANGED <<acked, call>>
  BY DEF Reset, hookVars
<1>3. CASE mem' = m /\ disk' = mem'
  BY <1>1, <1>2, <1>3, NoAck DEF Grows
<1>4. CASE mem' = m /\ UNCHANGED disk
  BY <1>1, <1>2, <1>4, MemoryGrows, NoAck
<1> QED
  BY <1>3, <1>4 DEF Reset

-----------------------------------------------------------------------------
LEMMA InitInv == Init => Inv
<1> SUFFICES ASSUME Init PROVE Inv
  OBVIOUS
<1>1. IsTracker(EmptyTracker)
  BY DEF IsTracker, EmptyTracker, Names
<1>2. CallsNameTasks
  BY NoCallNamesNone DEF Init, CallsNameTasks
<1> QED
  BY <1>1, <1>2 DEF Init, Inv, SameKept, AckedIsDurable

\* A step that touches neither the tracker nor the callbacks.
LEMMA QuietKeeps ==
    ASSUME Inv, UNCHANGED <<trackerVars, call, acked>>
    PROVE  Step
BY UntouchedGrows, NoAck

LEMMA TaskKeeps ==
    ASSUME Inv, NEW t \in Tasks, Submitting(t) \/ Remote(t) \/ Waiting(t) \/ Recovering(t)
    PROVE  Step
<1>1. CASE SubmitBegin(t)
  BY <1>1, QuietKeeps DEF SubmitBegin, hookVars, histVars
<1>2. CASE SubmitFails(t)
  BY <1>2, LocalVerdictKeeps DEF SubmitFails
<1>3. CASE WaitTimesOut(t)
  BY <1>3, LocalVerdictKeeps DEF WaitTimesOut
<1>4. CASE RemoteAccepts(t)
  BY <1>4, QuietKeeps DEF RemoteAccepts, hookVars, histVars
<1>5. CASE RemoteFinishes(t)
  BY <1>5, QuietKeeps DEF RemoteFinishes, hookVars, histVars
<1>6. CASE Submitted(t)
  BY <1>6, QuietKeeps DEF Submitted, hookVars, histVars
<1>7. CASE Woken(t)
  BY <1>7, QuietKeeps DEF Woken, hookVars, histVars
<1>8. CASE DeliverBegin(t)
  BY <1>8, QuietKeeps DEF DeliverBegin, hookVars, histVars
<1>9. CASE Recovering(t)
  BY <1>9, RecoverBeginKeeps, RecoverLockedKeeps DEF Recovering
<1> QED
  BY <1>1, <1>2, <1>3, <1>4, <1>5, <1>6, <1>7, <1>8, <1>9
     DEF Submitting, Remote, Waiting

LEMMA HoldingKeeps ==
    ASSUME Inv, NEW c \in Chats, Holding(c)
    PROVE  Step
<1>1. CASE SubmitRefused(c)
  BY <1>1, QuietKeeps DEF SubmitRefused, hookVars, histVars
<1>2. CASE Compose(c)
  BY <1>2, QuietKeeps DEF Compose, hookVars, histVars
<1>3. CASE ComposeFails(c)
  BY <1>3, QuietKeeps DEF ComposeFails, hookVars, histVars
<1>4. CASE CorrectionRaises(c)
  BY <1>4, QuietKeeps DEF CorrectionRaises, hookVars, histVars
<1>5. CASE CorrectionDropped(c)
  BY <1>5, QuietKeeps DEF CorrectionDropped
<1>6. CASE RecoverFinish(c)
  BY <1>6, RecoveryReturnsKeeps DEF RecoverFinish
<1> QED
  BY <1>1, <1>2, <1>3, <1>4, <1>5, <1>6, SubmitRegisterKeeps, PrepareKeeps,
     TransmitKeeps, MarkPartKeeps, DeliverFinishKeeps, CorrectionLaunchedKeeps
     DEF Holding

LEMMA NextStep ==
    ASSUME Inv, [Next]_vars
    PROVE  Step
<1>1. CASE \E t \in Tasks : Submitting(t) \/ Remote(t) \/ Waiting(t) \/ Recovering(t)
  BY <1>1, TaskKeeps
<1>2. CASE \E c \in Chats : Holding(c) \/ Reset(c)
  BY <1>2, HoldingKeeps, ResetKeeps
<1>3. CASE \E k \in Calls : Callback(k)
  BY <1>3, CallbackArrivesKeeps, CallbackFailsKeeps, CallbackFetchedKeeps,
     CallbackStoresKeeps DEF Callback
<1>4. CASE Opened
  BY <1>4, QuietKeeps DEF Opened, hookVars
<1>5. CASE ReplayNext
  BY <1>5, QuietKeeps DEF ReplayNext, hookVars, histVars
<1>6. CASE Restart
  BY <1>6, RestartKeeps
<1>7. CASE UNCHANGED vars
  BY <1>7, QuietKeeps DEF vars, hookVars, histVars
<1> QED
  BY <1>1, <1>2, <1>3, <1>4, <1>5, <1>6, <1>7 DEF Next

LEMMA NextInv == Inv /\ [Next]_vars => Inv'
BY NextStep DEF Step

\* A completion answered with a 2xx status is in the state file, as a result or
\* as a tombstone, whatever fails and whenever the bridge restarts.
THEOREM AckedIsDurableAlways == Spec => []AckedIsDurable
<1>1. Inv => AckedIsDurable
  BY DEF Inv
<1> QED
  BY <1>1, InitInv, NextInv, PTL DEF Spec

-----------------------------------------------------------------------------
(* What a turn owes.                                                        *)

Shown(g, t, p) == g[t][p].state = "sent"

\* A task that may be a tombstone: waived, or its report was shown, and its
\* file too unless the bridge gave a verdict of its own.
Over(t, g, w, j) ==
    t \in w \/ (Shown(g, t, "report") /\ (t \in j \/ Shown(g, t, "file")))

\* A tracker that is right about the gateway g, the waived w and the judged j.
Right(m, g, w, j) ==
    /\ IsTracker(m)
    /\ m.done \in [Tasks -> SUBSET Parts]
    /\ m.intents \in [Tasks -> [Parts -> Payload \cup {None}]]
    /\ m.tombs \subseteq Tasks
    /\ \A t \in Tasks :
         /\ \A p \in Parts : p \in m.done[t] => Shown(g, t, p)
         /\ m.intents[t]["file"] # None => m.intents[t]["file"].of = "real"
         /\ m.finished[t] = "local" => t \in j
         /\ t \in m.tombs => Over(t, g, w, j)

IsPiece(x) ==
    /\ x = [k \in {"part", "payload"} |-> x[k]]
    /\ x.part \in Parts /\ x.payload \in Payload
    /\ x.part = "file" => x.payload.of = "real"

IsTodo(q) ==
    \/ q = <<>>
    \/ \E x : IsPiece(x) /\ q = <<x>>
    \/ \E x, y : IsPiece(x) /\ IsPiece(y) /\ q = <<x, y>>

Has(q, p) == \E i \in 1..Len(q) : q[i].part = p

TurnNames == {"who", "task", "phase", "result", "todo", "fixes"}

\* A turn that delivers has each part still to send, or it was shown, or it is
\* excused.
Fine(x, g, w, j) ==
    /\ x = [k \in TurnNames |-> x[k]]
    /\ x.who \in {"nobody", "submit"} => x.phase \in {"none", "inputs"}
    /\ x.who \notin {"nobody", "submit"} =>
         /\ x.who \in {"waiter", "recovery"}
         /\ x.task \in Tasks
         /\ x.phase \in {"compose", "prepare", "transmit", "mark"}
         /\ IsTodo(x.todo)
         /\ x.phase = "compose" =>
              /\ x.who = "waiter"
              /\ x.result \in Results \cup {None}
              /\ x.result = "real" \/ x.task \in w \cup j \/ Shown(g, x.task, "file")
              /\ x.result = None => x.task \in w \/ Shown(g, x.task, "report")
         /\ x.phase # "compose" =>
              /\ Has(x.todo, "file") \/ x.task \in w \cup j \/ Shown(g, x.task, "file")
              /\ \/ Has(x.todo, "report") \/ x.task \in w \/ Shown(g, x.task, "report")
                 \/ x.who = "waiter" /\ x.fixes
         /\ x.phase \in {"transmit", "mark"} => x.todo # <<>>
         /\ x.phase = "mark" => Shown(g, x.task, Head(x.todo).part)

Trackers == Right(mem, gate, waived, judged) /\ Right(disk, gate, waived, judged)

Turns ==
    /\ turn = [c \in Chats |-> turn[c]]
    /\ \A c \in Chats : Fine(turn[c], gate, waived, judged)

Receipts ==
    /\ gate = [t \in Tasks |-> [p \in Parts |-> gate[t][p]]]
    /\ \A t \in Tasks : Shown(gate, t, "file") => gate[t]["file"].payload.of = "real"

Waits ==
    /\ waiter = [t \in Tasks |-> waiter[t]]
    /\ woken \subseteq Tasks
    /\ \A t \in Tasks : waiter[t] = "ready" \/ t \in woken => t \in Kept(mem)

Delivery == Inv /\ Trackers /\ Turns /\ Receipts /\ Waits

-----------------------------------------------------------------------------
(* The mutators keep a tracker right.                                       *)

LEMMA RegisteredRight ==
    ASSUME NEW g, NEW w, NEW j, NEW m, Right(m, g, w, j), NEW t
    PROVE  Right(Registered(m, t), g, w, j)
<1> DEFINE n == Registered(m, t)
<1>1. n.finished = m.finished /\ n.tombs = m.tombs /\ n.done = m.done /\ n.intents = m.intents
  BY DEF Right, IsTracker, Registered, Names
<1>2. IsTracker(n)
  BY RegisteredKeeps DEF Right
<1> QED
  BY <1>1, <1>2 DEF Right

LEMMA FinalizedRight ==
    ASSUME NEW g, NEW w, NEW j, NEW m, Right(m, g, w, j), NEW t \in Tasks,
           NEW r \in Results, r = "local" => t \in j
    PROVE  Right(Finalized(m, t, r), g, w, j)
<1>1. CASE t \in m.tombs
  BY <1>1 DEF Finalized
<1>2. CASE t \notin m.tombs
  <2> DEFINE n == Finalized(m, t, r)
  <2>1. /\ n.finished = [m.finished EXCEPT ![t] = r]
        /\ n.tombs = m.tombs /\ n.done = m.done /\ n.intents = m.intents
    BY <1>2 DEF Right, IsTracker, Finalized, Names
  <2>2. IsTracker(n)
    BY FinalizedKeeps DEF Right
  <2>3. \A u \in Tasks : n.finished[u] = "local" => u \in j
    BY <2>1 DEF Right, IsTracker
  <2> QED
    BY <2>1, <2>2, <2>3 DEF Right
<1> QED
  BY <1>1, <1>2

LEMMA PreparedRight ==
    ASSUME NEW g, NEW w, NEW j, NEW m, Right(m, g, w, j), NEW t \in Tasks,
           NEW p \in Parts, NEW x \in Payload, p = "file" => x.of = "real"
    PROVE  Right(Prepared(m, t, p, x), g, w, j)
<1>1. CASE m.intents[t][p] # None
  BY <1>1 DEF Prepared
<1>2. CASE m.intents[t][p] = None
  <2> DEFINE n == Prepared(m, t, p, x)
  <2>1. /\ n.finished = m.finished /\ n.tombs = m.tombs /\ n.done = m.done
        /\ n.intents = [m.intents EXCEPT ![t][p] = x]
    BY <1>2 DEF Right, IsTracker, Prepared, Names
  <2>2. IsTracker(n)
    BY PreparedKeeps DEF Right
  <2> HIDE DEF n
  <2>3. m.intents \in [Tasks -> [Parts -> Payload \cup {None}]]
    BY DEF Right
  <2>4. n.intents \in [Tasks -> [Parts -> Payload \cup {None}]]
    BY <2>1, <2>3
  <2>5. \A u \in Tasks : \/ n.intents[u]["file"] = m.intents[u]["file"]
                          \/ (n.intents[u]["file"] = x /\ p = "file")
    BY <2>1, <2>3 DEF Parts
  <2>6. Right(n, g, w, j)
    BY <2>1, <2>2, <2>4, <2>5 DEF Right
  <2> QED
    BY <2>6 DEF n
<1> QED
  BY <1>1, <1>2

LEMMA PartDoneRight ==
    ASSUME NEW g, NEW w, NEW j, NEW m, Right(m, g, w, j), NEW t \in Tasks,
           NEW p \in Parts, Shown(g, t, p)
    PROVE  Right(PartDone(m, t, p), g, w, j)
<1> DEFINE n == PartDone(m, t, p)
<1>1. /\ n.finished = m.finished /\ n.tombs = m.tombs
      /\ n.done = [m.done EXCEPT ![t] = @ \cup {p}]
      /\ n.intents = [m.intents EXCEPT ![t][p] = None]
  BY DEF Right, IsTracker, PartDone, Names
<1>2. IsTracker(n)
  BY PartDoneKeeps DEF Right
<1> HIDE DEF n
<1>3. /\ m.intents \in [Tasks -> [Parts -> Payload \cup {None}]]
      /\ m.done \in [Tasks -> SUBSET Parts]
  BY DEF Right
<1>4. n.intents \in [Tasks -> [Parts -> Payload \cup {None}]]
  BY <1>1, <1>3
<1>5. n.done \in [Tasks -> SUBSET Parts]
  BY <1>1, <1>3
<1>6. \A u \in Tasks : n.intents[u]["file"] \in {m.intents[u]["file"], None}
  BY <1>1, <1>3 DEF Parts
<1>7. \A u \in Tasks : n.done[u] = m.done[u] \/ (u = t /\ n.done[u] = m.done[u] \cup {p})
  BY <1>1, <1>3
<1>8. \A u \in Tasks : \A q \in Parts : q \in n.done[u] => Shown(g, u, q)
  BY <1>7 DEF Right
<1>9. Right(n, g, w, j)
  BY <1>1, <1>2, <1>4, <1>5, <1>6, <1>8 DEF Right
<1> QED
  BY <1>9 DEF n

LEMMA SettledRight ==
    ASSUME NEW g, NEW w, NEW j, NEW m, Right(m, g, w, j), NEW t \in Tasks,
           Over(t, g, w, j)
    PROVE  Right(Settled(m, t), g, w, j)
<1> DEFINE n == Settled(m, t)
<1>1. /\ n.finished = [m.finished EXCEPT ![t] = None]
      /\ n.tombs = m.tombs \cup {t}
      /\ n.done = [m.done EXCEPT ![t] = {}]
      /\ n.intents = [m.intents EXCEPT ![t] = [p \in Parts |-> None]]
  BY DEF Right, IsTracker, Settled, Names
<1>2. IsTracker(n)
  BY SettledKeeps DEF Right
<1> HIDE DEF n
<1>3. /\ m.intents \in [Tasks -> [Parts -> Payload \cup {None}]]
      /\ m.done \in [Tasks -> SUBSET Parts]
      /\ m.finished \in [Tasks -> Results \cup {None}]
  BY DEF Right, IsTracker
<1>4. n.intents \in [Tasks -> [Parts -> Payload \cup {None}]]
  BY <1>1, <1>3
<1>5. n.done \in [Tasks -> SUBSET Parts]
  BY <1>1, <1>3
<1>6. \A u \in Tasks : n.intents[u]["file"] \in {m.intents[u]["file"], None}
  BY <1>1, <1>3 DEF Parts
<1>7. \A u \in Tasks : n.done[u] \subseteq m.done[u]
  BY <1>1, <1>3
<1>8. \A u \in Tasks : n.finished[u] \in {m.finished[u], None}
  BY <1>1, <1>3
<1>9. \A u \in Tasks : n.finished[u] = "local" => u \in j
  BY <1>8, TasksAssumption DEF Right
<1>10. \A u \in Tasks : u \in n.tombs => Over(u, g, w, j)
  BY <1>1 DEF Right
<1>11. \A u \in Tasks : \A q \in Parts : q \in n.done[u] => Shown(g, u, q)
  BY <1>7 DEF Right
<1>12. Right(n, g, w, j)
  BY <1>1, <1>2, <1>4, <1>5, <1>6, <1>9, <1>10, <1>11 DEF Right
<1> QED
  BY <1>12 DEF n

LEMMA ClearedRight ==
    ASSUME NEW g, NEW w, NEW j, NEW m, Right(m, g, w, j), NEW c,
           \A t \in FinishedIn(m) : ChatOf[t] = c => t \in w
    PROVE  Right(Cleared(m, c), g, w, j)
<1> DEFINE gone == {t \in FinishedIn(m) : ChatOf[t] = c}
           n == Cleared(m, c)
<1>1. /\ n.tombs = m.tombs \cup gone /\ n.done = m.done /\ n.intents = m.intents
      /\ n.finished = [t \in Tasks |-> IF t \in gone THEN None ELSE m.finished[t]]
  BY DEF Right, IsTracker, Cleared, Names
<1>2. IsTracker(n)
  BY ClearedKeeps DEF Right
<1>3. \A u \in Tasks : n.finished[u] = "local" => u \in j
  BY <1>1, TasksAssumption DEF Right
<1>4. \A u \in Tasks : u \in n.tombs => Over(u, g, w, j)
  BY <1>1 DEF Right, Over
<1>5. gone \subseteq Tasks
  BY DEF FinishedIn
<1> QED
  BY <1>1, <1>2, <1>3, <1>4, <1>5 DEF Right

-----------------------------------------------------------------------------
(* Lists of pieces.                                                         *)

LEMMA TwoPieces ==
    ASSUME NEW x, NEW y
    PROVE  <<x>> \o <<y>> = <<x, y>>
<1> DEFINE s == <<x>> \o <<y>>
           u == <<x, y>>
<1>1. <<x>> \in Seq({x, y}) /\ <<y>> \in Seq({x, y}) /\ u \in Seq({x, y})
  OBVIOUS
<1>2. s \in Seq({x, y})
  BY <1>1
<1>3. Len(s) = 2 /\ s[1] = x /\ s[2] = y
  OBVIOUS
<1>4. Len(u) = 2 /\ \A i \in 1..2 : s[i] = u[i]
  BY <1>3
<1> HIDE DEF s, u
<1>5. s = u
  BY <1>1, <1>2, <1>3, <1>4, SeqEqual
<1> QED
  BY <1>5 DEF s, u

LEMMA OnePiece ==
    ASSUME NEW x
    PROVE  <<x>> \o <<>> = <<x>>
OBVIOUS

LEMMA FirstPiece ==
    ASSUME NEW q, IsTodo(q), q # <<>>
    PROVE  /\ IsPiece(Head(q)) /\ IsTodo(Tail(q))
           /\ \A p : Has(q, p) => Head(q).part = p \/ Has(Tail(q), p)
<1>1. CASE \E x : IsPiece(x) /\ q = <<x>>
  BY <1>1 DEF IsTodo, Has
<1>2. CASE \E x, y : IsPiece(x) /\ IsPiece(y) /\ q = <<x, y>>
  <2>1. PICK x, y : IsPiece(x) /\ IsPiece(y) /\ q = <<x, y>>
    BY <1>2
  <2>2. Head(q) = x /\ Tail(q) = <<y>>
    BY <2>1
  <2>3. Has(<<y>>, y.part)
    BY DEF Has
  <2>4. \A p : Has(q, p) => x.part = p \/ y.part = p
    BY <2>1 DEF Has
  <2> QED
    BY <2>1, <2>2, <2>3, <2>4 DEF IsTodo
<1> QED
  BY <1>1, <1>2 DEF IsTodo

LEMMA OtherPayload ==
    ASSUME NEW q, IsTodo(q), q # <<>>, NEW x, IsPiece(x), x.part = Head(q).part
    PROVE  /\ IsTodo(<<x>> \o Tail(q)) /\ <<x>> \o Tail(q) # <<>>
           /\ Head(<<x>> \o Tail(q)) = x
           /\ \A p : Has(q, p) => Has(<<x>> \o Tail(q), p)
<1>1. CASE \E y : IsPiece(y) /\ q = <<y>>
  <2>1. PICK y : IsPiece(y) /\ q = <<y>>
    BY <1>1
  <2>2. <<x>> \o Tail(q) = <<x>>
    BY <2>1
  <2> QED
    BY <2>1, <2>2 DEF IsTodo, Has
<1>2. CASE \E y, z : IsPiece(y) /\ IsPiece(z) /\ q = <<y, z>>
  <2>1. PICK y, z : IsPiece(y) /\ IsPiece(z) /\ q = <<y, z>>
    BY <1>2
  <2>2. Tail(q) = <<z>>
    BY <2>1
  <2>3. <<x>> \o Tail(q) = <<x, z>>
    BY <2>2, TwoPieces
  <2>4. \A p : Has(q, p) => x.part = p \/ z.part = p
    BY <2>1 DEF Has
  <2>5. Has(<<x, z>>, x.part) /\ Has(<<x, z>>, z.part)
    BY DEF Has
  <2>6. IsTodo(<<x, z>>) /\ <<x, z>> # <<>> /\ Head(<<x, z>>) = x
    BY <2>1 DEF IsTodo
  <2> QED
    BY <2>3, <2>4, <2>5, <2>6
<1> QED
  BY <1>1, <1>2 DEF IsTodo

LEMMA PiecesOfResult ==
    ASSUME NEW how \in {"llm", "raw"}, NEW v \in Results \cup {None}
    PROVE  /\ IsPiece(Pc("report", how, v)) /\ Pc("report", how, v).part = "report"
           /\ IsPiece(Pc("file", "file", "real")) /\ Pc("file", "file", "real").part = "file"
BY DEF IsPiece, Pc, Parts, Payload, Results

\* A report and the files of a result.
LEMMA ReportAndFiles ==
    ASSUME NEW r, NEW how \in {"llm", "raw"}, NEW v \in Results \cup {None},
           NEW q, q = <<Pc("report", how, v)>> \o Files(r)
    PROVE  IsTodo(q) /\ Has(q, "report") /\ (r = "real" => Has(q, "file"))
<1>1. PICK x : IsPiece(x) /\ x.part = "report" /\ x = Pc("report", how, v)
  BY PiecesOfResult
<1>2. PICK y : IsPiece(y) /\ y.part = "file" /\ y = Pc("file", "file", "real")
  BY PiecesOfResult
<1>3. CASE r = "real"
  <2>1. q = <<x>> \o <<y>>
    BY <1>1, <1>2, <1>3 DEF Files
  <2>2. q = <<x, y>>
    BY <2>1, TwoPieces
  <2>3. Has(<<x, y>>, x.part) /\ Has(<<x, y>>, y.part)
    BY DEF Has
  <2> QED
    BY <1>1, <1>2, <2>2, <2>3 DEF IsTodo
<1>4. CASE r # "real"
  <2>1. q = <<x>> \o <<>>
    BY <1>1, <1>4 DEF Files
  <2>2. q = <<x>>
    BY <2>1, OnePiece
  <2>3. Has(<<x>>, x.part)
    BY DEF Has
  <2> QED
    BY <1>1, <1>4, <2>2, <2>3 DEF IsTodo
<1> QED
  BY <1>3, <1>4

LEMMA FilesOnly ==
    ASSUME NEW r, NEW q, q = <<>> \o Files(r)
    PROVE  IsTodo(q) /\ (r = "real" => Has(q, "file"))
<1>1. PICK y : IsPiece(y) /\ y.part = "file" /\ y = Pc("file", "file", "real")
  BY PiecesOfResult DEF Results
<1>2. CASE r = "real"
  <2>1. q = <<>> \o <<y>>
    BY <1>1, <1>2 DEF Files
  <2>2. q = <<y>>
    BY <2>1
  <2>3. Has(<<y>>, y.part)
    BY DEF Has
  <2> QED
    BY <1>1, <2>2, <2>3 DEF IsTodo
<1>3. CASE r # "real"
  BY <1>3 DEF Files, IsTodo
<1> QED
  BY <1>2, <1>3

-----------------------------------------------------------------------------
(* What was once shown, waived or judged stays so.                          *)

Later(g, w, j, h, v, i) ==
    /\ w \subseteq v /\ j \subseteq i
    /\ \A t \in Tasks, p \in Parts : Shown(g, t, p) => Shown(h, t, p)

Onward == Later(gate, waived, judged, gate', waived', judged')

LEMMA SameOnward ==
    ASSUME UNCHANGED <<gate, waived, judged>>
    PROVE  Onward
BY DEF Onward, Later

LEMMA OverLater ==
    ASSUME NEW g, NEW w, NEW j, NEW h, NEW v, NEW i, Later(g, w, j, h, v, i),
           NEW t \in Tasks, Over(t, g, w, j)
    PROVE  Over(t, h, v, i)
BY DEF Later, Over, Parts

LEMMA RightLater ==
    ASSUME NEW g, NEW w, NEW j, NEW h, NEW v, NEW i, Later(g, w, j, h, v, i),
           NEW m, Right(m, g, w, j)
    PROVE  Right(m, h, v, i)
<1>1. \A t \in Tasks : t \in m.tombs => Over(t, h, v, i)
  BY OverLater DEF Right
<1>2. \A t \in Tasks : m.finished[t] = "local" => t \in i
  BY DEF Right, Later
<1>3. \A t \in Tasks : \A p \in Parts : p \in m.done[t] => Shown(h, t, p)
  BY DEF Right, Later
<1> QED
  BY <1>1, <1>2, <1>3 DEF Right

LEMMA FineLater ==
    ASSUME NEW g, NEW w, NEW j, NEW h, NEW v, NEW i, Later(g, w, j, h, v, i),
           NEW x, Fine(x, g, w, j)
    PROVE  Fine(x, h, v, i)
<1>1. CASE x.who \in {"nobody", "submit"}
  BY <1>1 DEF Fine
<1>2. CASE x.who \notin {"nobody", "submit"}
  <2>1. x.task \in Tasks
    BY <1>2 DEF Fine
  <2>2. \A p \in Parts : Shown(g, x.task, p) => Shown(h, x.task, p)
    BY <2>1 DEF Later
  <2>3. x.phase = "mark" => Shown(h, x.task, Head(x.todo).part)
    <3>1. SUFFICES ASSUME x.phase = "mark" PROVE Shown(h, x.task, Head(x.todo).part)
      OBVIOUS
    <3>2. IsTodo(x.todo) /\ x.todo # <<>> /\ Shown(g, x.task, Head(x.todo).part)
      BY <1>2, <3>1 DEF Fine
    <3>3. Head(x.todo).part \in Parts
      BY <3>2, FirstPiece DEF IsPiece
    <3> QED
      BY <2>2, <3>2, <3>3
  <2>4. x.task \in w => x.task \in v
    BY DEF Later
  <2>5. x.task \in j => x.task \in i
    BY DEF Later
  <2>6. Shown(g, x.task, "file") => Shown(h, x.task, "file")
    BY <2>2 DEF Parts
  <2>7. Shown(g, x.task, "report") => Shown(h, x.task, "report")
    BY <2>2 DEF Parts
  <2> QED
    BY <1>2, <2>3, <2>4, <2>5, <2>6, <2>7 DEF Fine
<1> QED
  BY <1>1, <1>2

-----------------------------------------------------------------------------
(* The conjuncts, one by one.                                               *)

LEMMA RightNext ==
    ASSUME NEW m, Right(m, gate', waived', judged')
    PROVE  /\ mem' = m => Right(mem, gate, waived, judged)'
           /\ disk' = m => Right(disk, gate, waived, judged)'
BY DEF Right, IsTracker, Over, Shown

LEMMA TrackersStay ==
    ASSUME Trackers, Onward, UNCHANGED trackerVars
    PROVE  Trackers'
<1>1. Right(mem, gate', waived', judged') /\ Right(disk, gate', waived', judged')
  BY RightLater DEF Trackers, Onward
<1> QED
  BY <1>1, RightNext DEF Trackers, trackerVars

LEMMA TrackersSaved ==
    ASSUME NEW m, Right(m, gate', waived', judged'), mem' = m, disk' = m
    PROVE  Trackers'
BY RightNext DEF Trackers

LEMMA TrackersUnsaved ==
    ASSUME Trackers, Onward, NEW m, Right(m, gate', waived', judged'),
           mem' = m, UNCHANGED disk
    PROVE  Trackers'
<1>1. Right(disk, gate', waived', judged')
  BY RightLater DEF Trackers, Onward
<1> QED
  BY <1>1, RightNext DEF Trackers

LEMMA TurnSet ==
    ASSUME Turns, Onward, NEW c, NEW x, turn' = [turn EXCEPT ![c] = x],
           Fine(x, gate', waived', judged')
    PROVE  Turns'
<1>1. turn' = [d \in Chats |-> turn'[d]]
  BY DEF Turns
<1>2. \A d \in Chats : turn'[d] = turn[d] \/ turn'[d] = x
  BY DEF Turns
<1>3. \A d \in Chats : Fine(turn[d], gate', waived', judged')
  BY FineLater DEF Turns, Onward
<1>4. \A d \in Chats : Fine(turn'[d], gate', waived', judged')
  BY <1>2, <1>3
<1> QED
  BY <1>1, <1>4 DEF Turns, Fine, Shown

LEMMA TurnsStay ==
    ASSUME Turns, Onward, UNCHANGED turn
    PROVE  Turns'
<1>1. \A d \in Chats : Fine(turn'[d], gate', waived', judged')
  BY FineLater DEF Turns, Onward
<1> QED
  BY <1>1 DEF Turns, Fine, Shown

\* A turn that does not deliver.
LEMMA FreeFine ==
    ASSUME NEW g, NEW w, NEW j
    PROVE  /\ Fine(NoTurn, g, w, j)
           /\ \A t : Fine([NoTurn EXCEPT !.who = "submit", !.task = t, !.phase = "inputs"],
                          g, w, j)
BY DEF Fine, NoTurn, TurnNames

LEMMA TurnOver ==
    ASSUME Turns, Onward, NEW c, turn' = [turn EXCEPT ![c] = NoTurn]
    PROVE  Turns'
BY FreeFine, TurnSet

LEMMA ReceiptsStay ==
    ASSUME Receipts, UNCHANGED gate
    PROVE  Receipts'
BY DEF Receipts, Shown

\* Nobody is newly ready.
Calmer == /\ waiter' = [t \in Tasks |-> waiter'[t]]
          /\ \A t \in Tasks : waiter'[t] = "ready" => waiter[t] = "ready"

LEMMA WaitsMove ==
    ASSUME Waits, Step, waiter' = [t \in Tasks |-> waiter'[t]],
           \A t \in Tasks : waiter'[t] = "ready" => waiter[t] = "ready" \/ t \in Kept(mem'),
           woken' \subseteq Tasks,
           \A t \in woken' : t \in woken \/ t \in Kept(mem')
    PROVE  Waits'
<1>1. \A t \in Tasks : waiter'[t] = "ready" \/ t \in woken' => t \in Kept(mem')
  BY DEF Waits, Step
<1> QED
  BY <1>1 DEF Waits, Kept, FinishedIn

LEMMA WaitsCalm ==
    ASSUME Waits, Step, Calmer, UNCHANGED woken
    PROVE  Waits'
BY WaitsMove DEF Waits, Calmer

LEMMA CalmSame ==
    ASSUME Waits, UNCHANGED waiter
    PROVE  Calmer
BY DEF Waits, Calmer

LEMMA CalmSet ==
    ASSUME Waits, NEW t, NEW s, s # "ready", waiter' = [waiter EXCEPT ![t] = s]
    PROVE  Calmer
BY DEF Waits, Calmer

LEMMA LoopEndsCalm ==
    ASSUME Waits, NEW t, NEW who, NEW ok, LoopEnds(t, who, ok)
    PROVE  Calmer
<1>1. UNCHANGED waiter \/ waiter' = [waiter EXCEPT ![t] = "off"]
  BY DEF LoopEnds
<1> QED
  BY <1>1, CalmSame, CalmSet

LEMMA RecoveryEndsCalm ==
    ASSUME Waits, NEW t, NEW ok, RecoveryEnds(t, ok)
    PROVE  Calmer
BY LoopEndsCalm, CalmSame DEF RecoveryEnds, CallbackEnds

LEMMA RaiseCalm ==
    ASSUME Waits, NEW c, Raise(c)
    PROVE  Calmer /\ turn' = [turn EXCEPT ![c] = NoTurn]
<1>1. CASE turn[c].who = "waiter"
  BY <1>1, CalmSet DEF Raise
<1>2. CASE turn[c].who # "waiter"
  BY <1>2, RecoveryEndsCalm DEF Raise
<1> QED
  BY <1>1, <1>2

-----------------------------------------------------------------------------
(* The invariant holds again after a step.                                  *)

LEMMA Together ==
    ASSUME Step, Trackers', Turns', Receipts', Waits'
    PROVE  Delivery'
BY DEF Step, Delivery

\* A step that shows nothing, waives nothing and wakes nobody.
LEMMA CalmStep ==
    ASSUME Delivery, Step, UNCHANGED <<gate, waived, judged, woken>>,
           Trackers', Turns', Calmer
    PROVE  Delivery'
BY Together, ReceiptsStay, WaitsCalm DEF Delivery

\* One that leaves the turns and the tracker too.
LEMMA QuietStep ==
    ASSUME Delivery, Step, UNCHANGED <<trackerVars, turn, gate, waived, judged, woken>>, Calmer
    PROVE  Delivery'
<1>1. Trackers' /\ Turns'
  BY SameOnward, TrackersStay, TurnsStay DEF Delivery
<1> QED
  BY <1>1, CalmStep

\* The lock is given back.
LEMMA LeaveStep ==
    ASSUME Delivery, Step, UNCHANGED <<trackerVars, gate, waived, judged, woken>>,
           NEW c, turn' = [turn EXCEPT ![c] = NoTurn], Calmer
    PROVE  Delivery'
<1>1. Trackers' /\ Turns'
  BY SameOnward, TrackersStay, TurnOver DEF Delivery
<1> QED
  BY <1>1, CalmStep

\* A tombstone is written, or the write fails.
LEMMA SettleSaved ==
    ASSUME Trackers, UNCHANGED <<gate, waived, judged>>, NEW t \in Tasks,
           Over(t, gate, waived, judged), Save(Settled(mem, t)) \/ SaveFails
    PROVE  Trackers'
<1>1. CASE Save(Settled(mem, t))
  <2>1. Right(Settled(mem, t), gate, waived, judged)
    BY SettledRight DEF Trackers
  <2> QED
    BY <1>1, <2>1, TrackersSaved DEF Save
<1>2. CASE SaveFails
  BY <1>2, SameOnward, TrackersStay DEF SaveFails
<1> QED
  BY <1>1, <1>2

-----------------------------------------------------------------------------
(* Submission and the wait.                                                 *)

LEMMA SubmitBeginDelivers ==
    ASSUME Delivery, Step, NEW t \in Tasks, SubmitBegin(t)
    PROVE  Delivery'
<1>1. UNCHANGED <<trackerVars, gate, waived, judged, woken>>
  BY DEF SubmitBegin, outerVars, histVars
<1>2. Turns'
  <2>1. turn' = [turn EXCEPT ![ChatOf[t]] =
                   [NoTurn EXCEPT !.who = "submit", !.task = t, !.phase = "inputs"]]
    BY DEF SubmitBegin
  <2> QED
    BY <1>1, <2>1, SameOnward, FreeFine, TurnSet DEF Delivery
<1>3. Trackers'
  BY <1>1, SameOnward, TrackersStay DEF Delivery
<1>4. Calmer
  BY CalmSet DEF Delivery, SubmitBegin
<1> QED
  BY <1>1, <1>2, <1>3, <1>4, CalmStep

LEMMA SubmitRegisterDelivers ==
    ASSUME Delivery, Step, NEW c, SubmitRegister(c)
    PROVE  Delivery'
<1> DEFINE m == Registered(mem, turn[c].task)
<1>1. UNCHANGED <<gate, waived, judged, woken>>
  BY DEF SubmitRegister, outerVars, histVars
<1>2. Right(m, gate, waived, judged)
  BY RegisteredRight DEF Delivery, Trackers
<1>3. Right(m, gate', waived', judged')
  BY <1>1, <1>2
<1>4. Trackers'
  BY <1>1, <1>3, SameOnward, TrackersSaved, TrackersUnsaved DEF Delivery, SubmitRegister, Save
<1>5. Turns'
  BY <1>1, SameOnward, TurnOver DEF Delivery, SubmitRegister
<1>6. Calmer
  BY CalmSet, CalmSame DEF Delivery, SubmitRegister, Launch
<1> QED
  BY <1>1, <1>4, <1>5, <1>6, CalmStep

LEMMA LocalVerdictDelivers ==
    ASSUME Delivery, Step, NEW t \in Tasks, NEW verdict, LocalVerdict(t, verdict)
    PROVE  Delivery'
<1> DEFINE m == Finalized(mem, t, "local")
<1>1. UNCHANGED <<gate, waived, woken, turn>> /\ judged' = judged \cup {t}
  BY DEF LocalVerdict, outerVars
<1>2. Onward
  BY <1>1 DEF Onward, Later
<1>3. Right(mem, gate', waived', judged')
  BY <1>2, RightLater DEF Delivery, Trackers, Onward
<1>4. Right(m, gate', waived', judged')
  BY <1>1, <1>3, FinalizedRight DEF Results
<1>5. Trackers'
  <2>1. CASE mem' = m /\ disk' = mem'
    BY <1>4, <2>1, TrackersSaved
  <2>2. CASE mem' = m /\ UNCHANGED disk
    BY <1>2, <1>4, <2>2, TrackersUnsaved DEF Delivery
  <2>3. CASE UNCHANGED trackerVars
    BY <1>2, <2>3, TrackersStay DEF Delivery
  <2> QED
    BY <2>1, <2>2, <2>3 DEF LocalVerdict
<1>6. Waits'
  <2>1. CASE mem' = m /\ waiter' = [waiter EXCEPT ![t] = "ready"]
    <3>1. t \in Kept(mem')
      BY <2>1, FinalizedKeeps DEF Delivery, Inv, Results
    <3> QED
      BY <1>1, <2>1, <3>1, WaitsMove DEF Delivery, Waits
  <2>2. CASE waiter' = [waiter EXCEPT ![t] = "retry"]
    BY <1>1, <2>2, CalmSet, WaitsCalm DEF Delivery
  <2> QED
    BY <2>1, <2>2 DEF LocalVerdict
<1> QED
  BY <1>1, <1>2, <1>5, <1>6, TurnsStay, ReceiptsStay, Together DEF Delivery

LEMMA WokenDelivers ==
    ASSUME Delivery, Step, NEW t \in Tasks, Woken(t)
    PROVE  Delivery'
<1>1. UNCHANGED <<trackerVars, turn, gate, waived, judged, woken>>
  BY DEF Woken, outerVars, histVars
<1>2. t \in Kept(mem')
  BY DEF Delivery, Waits, Woken, Step
<1>3. Waits'
  BY <1>1, <1>2, WaitsMove DEF Delivery, Waits, Woken
<1> QED
  BY <1>1, <1>3, SameOnward, TrackersStay, TurnsStay, ReceiptsStay, Together DEF Delivery

-----------------------------------------------------------------------------
(* The turns.                                                               *)

\* Who is woken finds a result, or a tombstone.
LEMMA DeliverBeginDelivers ==
    ASSUME Delivery, Step, NEW t \in Tasks, DeliverBegin(t)
    PROVE  Delivery'
<1> DEFINE r == mem.finished[t]
           x == [NoTurn EXCEPT !.who = "waiter", !.task = t, !.phase = "compose", !.result = r]
<1>1. UNCHANGED <<trackerVars, gate, waived, judged, woken>>
  BY DEF DeliverBegin, outerVars, histVars
<1>2. Calmer
  BY CalmSet DEF Delivery, DeliverBegin
<1>3. r \in Results \cup {None}
  BY DEF Delivery, Inv, IsTracker
<1>4. r = "local" => t \in judged
  BY DEF Delivery, Trackers, Right
<1>5. r = None => Over(t, gate, waived, judged)
  <2>1. t \in Kept(mem)
    BY DEF Delivery, Waits, DeliverBegin
  <2>2. r = None => t \in mem.tombs
    BY <2>1 DEF Kept, FinishedIn
  <2> QED
    BY <2>2 DEF Delivery, Trackers, Right
<1>6. Fine(x, gate, waived, judged)
  BY <1>3, <1>4, <1>5 DEF Fine, NoTurn, TurnNames, Over, IsTodo, Results
<1>7. Turns'
  <2>1. turn' = [turn EXCEPT ![ChatOf[t]] = x]
    BY DEF DeliverBegin
  <2>2. Fine(x, gate', waived', judged')
    BY <1>1, <1>6
  <2> HIDE DEF x
  <2> QED
    BY <1>1, <2>1, <2>2, SameOnward, TurnSet DEF Delivery
<1>8. Trackers'
  BY <1>1, SameOnward, TrackersStay DEF Delivery
<1> QED
  BY <1>1, <1>2, <1>7, <1>8, CalmStep

\* What the model answers leaves nothing out, unless it asks for a correction.
LEMMA ComposedTodo ==
    ASSUME NEW t \in Tasks, NEW r \in Results \cup {None}, NEW answer \in Answers,
           mem.finished \in [Tasks -> Results \cup {None}],
           NEW q, q = Texts(t, r, answer) \o Files(r)
    PROVE  /\ IsTodo(q)
           /\ r = "real" => Has(q, "file")
           /\ r # None => Has(q, "report") \/ answer \in {"fix", "replyFix"}
<1>1. CASE answer = "nothing" /\ r # None
  <2>1. PICK v \in Results \cup {None} : Texts(t, r, answer) = <<Pc("report", "raw", v)>>
    BY <1>1 DEF Texts
  <2> QED
    BY <2>1, ReportAndFiles
<1>2. CASE answer \in {"reply", "replyFix"}
  <2>1. Texts(t, r, answer) = <<Pc("report", "llm", r)>>
    BY <1>2 DEF Texts
  <2> QED
    BY <2>1, ReportAndFiles
<1>3. CASE answer = "fix" \/ (answer = "nothing" /\ r = None)
  <2>1. Texts(t, r, answer) = <<>>
    BY <1>3 DEF Texts
  <2> QED
    BY <1>3, <2>1, FilesOnly
<1> QED
  BY <1>1, <1>2, <1>3 DEF Answers

LEMMA ComposeDelivers ==
    ASSUME Delivery, Step, NEW c \in Chats, Compose(c)
    PROVE  Delivery'
<1> DEFINE t == turn[c].task
           r == turn[c].result
<1>1. UNCHANGED <<trackerVars, waiter, gate, waived, judged, woken>>
  BY DEF Compose, outerVars, histVars
<1>2. PICK answer \in Answers :
        turn' = [turn EXCEPT ![c].phase = "prepare",
                             ![c].todo = Texts(t, r, answer) \o Files(r),
                             ![c].fixes = answer \in {"fix", "replyFix"}]
  BY DEF Compose
<1>3. PICK q : q = Texts(t, r, answer) \o Files(r)
  OBVIOUS
<1>4. PICK f : f = (answer \in {"fix", "replyFix"})
  OBVIOUS
<1>5. Fine(turn[c], gate, waived, judged) /\ turn[c].phase = "compose"
  BY DEF Delivery, Turns, Compose
<1>6. turn[c].who \notin {"nobody", "submit"}
  BY <1>5 DEF Fine
<1>7. t \in Tasks /\ r \in Results \cup {None} /\ turn[c].who = "waiter"
  BY <1>5, <1>6 DEF Fine
<1>8. /\ IsTodo(q) /\ (r = "real" => Has(q, "file"))
      /\ (r # None => Has(q, "report") \/ answer \in {"fix", "replyFix"})
  <2>1. mem.finished \in [Tasks -> Results \cup {None}]
    BY DEF Delivery, Inv, IsTracker
  <2>2. answer \in Answers
    BY <1>2
  <2>3. t \in Tasks /\ r \in Results \cup {None} /\ q = Texts(t, r, answer) \o Files(r)
    BY <1>3, <1>7
  <2> HIDE DEF t, r
  <2> QED
    BY <2>1, <2>2, <2>3, ComposedTodo
<1> DEFINE x == [turn[c] EXCEPT !.phase = "prepare", !.todo = q, !.fixes = f]
<1>9. /\ x = [k \in TurnNames |-> x[k]]
      /\ x.who = "waiter" /\ x.task = t /\ x.phase = "prepare" /\ x.todo = q /\ x.fixes = f
  BY <1>5, <1>7 DEF Fine, TurnNames
<1>10. turn' = [turn EXCEPT ![c] = x]
  BY <1>2, <1>3, <1>4 DEF Delivery, Turns
<1> HIDE DEF x
<1>11. Has(q, "file") \/ t \in waived \cup judged \/ Shown(gate, t, "file")
  BY <1>5, <1>6, <1>8 DEF Fine
<1>12. Has(q, "report") \/ t \in waived \/ Shown(gate, t, "report") \/ f
  BY <1>4, <1>5, <1>6, <1>8 DEF Fine
<1>13. Fine(x, gate, waived, judged)
  BY <1>7, <1>8, <1>9, <1>11, <1>12 DEF Fine
<1>14. Fine(x, gate', waived', judged')
  BY <1>1, <1>13
<1>15. Trackers' /\ Turns'
  BY <1>1, <1>10, <1>14, SameOnward, TrackersStay, TurnSet DEF Delivery
<1>16. Calmer
  BY <1>1, CalmSame DEF Delivery
<1> QED
  BY <1>1, <1>15, <1>16, CalmStep

\* What a turn that sends pieces owes.
LEMMA SendingTurn ==
    ASSUME Delivery, NEW c \in Chats, turn[c].phase \in {"prepare", "transmit", "mark"}
    PROVE  /\ turn[c] = [k \in TurnNames |-> turn[c][k]]
           /\ Fine(turn[c], gate, waived, judged)
           /\ turn[c].task \in Tasks /\ IsTodo(turn[c].todo)
           /\ turn[c].phase \in {"transmit", "mark"} => turn[c].todo # <<>>
           /\ turn[c].phase = "mark" => Shown(gate, turn[c].task, Head(turn[c].todo).part)
<1>1. Fine(turn[c], gate, waived, judged)
  BY DEF Delivery, Turns
<1>2. turn[c].who \notin {"nobody", "submit"}
  BY <1>1 DEF Fine
<1> QED
  BY <1>1, <1>2 DEF Fine

\* At its end nothing is owed, unless a correction is to come.
LEMMA AllSentOver ==
    ASSUME Delivery, NEW c \in Chats, AllSent(c), ~(turn[c].who = "waiter" /\ turn[c].fixes)
    PROVE  turn[c].task \in Tasks /\ Over(turn[c].task, gate, waived, judged)
<1>1. Fine(turn[c], gate, waived, judged) /\ turn[c].task \in Tasks
  BY SendingTurn DEF AllSent
<1>2. turn[c].who \notin {"nobody", "submit"} /\ turn[c].phase = "prepare"
  BY <1>1 DEF Fine, AllSent
<1>3. ~Has(turn[c].todo, "file") /\ ~Has(turn[c].todo, "report")
  BY DEF AllSent, Has
<1> QED
  BY <1>1, <1>2, <1>3 DEF Fine, Over

\* A list may lose only what was shown.
LEMMA PieceFine ==
    ASSUME NEW g, NEW w, NEW j, NEW x, Fine(x, g, w, j),
           NEW ph \in {"prepare", "transmit", "mark"}, NEW q, IsTodo(q),
           x.phase \in {"prepare", "transmit", "mark"},
           \A p \in Parts : Has(x.todo, p) => Has(q, p) \/ Shown(g, x.task, p),
           ph # "prepare" => q # <<>>,
           ph = "mark" => Shown(g, x.task, Head(q).part)
    PROVE  Fine([x EXCEPT !.phase = ph, !.todo = q], g, w, j)
<1> DEFINE y == [x EXCEPT !.phase = ph, !.todo = q]
<1>1. x.who \notin {"nobody", "submit"}
  BY DEF Fine
<1>2. /\ y = [k \in TurnNames |-> y[k]]
      /\ y.who = x.who /\ y.task = x.task /\ y.fixes = x.fixes
      /\ y.phase = ph /\ y.todo = q
  BY DEF Fine, TurnNames
<1> HIDE DEF y
<1>3. Has(q, "file") \/ x.task \in w \cup j \/ Shown(g, x.task, "file")
  BY <1>1 DEF Fine, Parts
<1>4. \/ Has(q, "report") \/ x.task \in w \/ Shown(g, x.task, "report")
      \/ (x.who = "waiter" /\ x.fixes)
  BY <1>1 DEF Fine, Parts
<1>5. x.task \in Tasks /\ x.who \in {"waiter", "recovery"}
  BY <1>1 DEF Fine
<1>6. Fine(y, g, w, j)
  BY <1>1, <1>2, <1>3, <1>4, <1>5 DEF Fine
<1> QED
  BY <1>6 DEF y

LEMMA PieceTurns ==
    ASSUME Delivery, Onward, NEW c \in Chats, turn[c].phase \in {"prepare", "transmit", "mark"},
           NEW ph \in {"prepare", "transmit", "mark"}, NEW q, IsTodo(q),
           turn' = [turn EXCEPT ![c] = [turn[c] EXCEPT !.phase = ph, !.todo = q]],
           \A p \in Parts : Has(turn[c].todo, p) => Has(q, p) \/ Shown(gate', turn[c].task, p),
           ph # "prepare" => q # <<>>,
           ph = "mark" => Shown(gate', turn[c].task, Head(q).part)
    PROVE  Turns'
<1>1. Fine(turn[c], gate', waived', judged')
  BY FineLater DEF Onward, Delivery, Turns
<1>2. Fine([turn[c] EXCEPT !.phase = ph, !.todo = q], gate', waived', judged')
  BY <1>1, PieceFine
<1> QED
  BY <1>2, TurnSet DEF Delivery

\* A piece whose part is done, or was shown, is taken off the list.
LEMMA TailTurns ==
    ASSUME Delivery, UNCHANGED <<gate, waived, judged>>, NEW c \in Chats,
           turn[c].phase \in {"prepare", "mark"}, turn[c].todo # <<>>,
           Shown(gate, turn[c].task, Head(turn[c].todo).part),
           turn' = [turn EXCEPT ![c] = [turn[c] EXCEPT !.phase = "prepare",
                                                       !.todo = Tail(turn[c].todo)]]
    PROVE  Turns'
<1>1. IsTodo(turn[c].todo)
  BY SendingTurn
<1>2. IsTodo(Tail(turn[c].todo))
  BY <1>1, FirstPiece
<1>3. \A p \in Parts : Has(turn[c].todo, p) =>
        Has(Tail(turn[c].todo), p) \/ Shown(gate', turn[c].task, p)
  BY <1>1, FirstPiece
<1> QED
  BY <1>2, <1>3, SameOnward, PieceTurns

LEMMA PrepareDelivers ==
    ASSUME Delivery, Step, NEW c \in Chats, Prepare(c)
    PROVE  Delivery'
<1> DEFINE t == turn[c].task
           q == turn[c].todo
           x == Head(q)
           m == Prepared(mem, t, x.part, x.payload)
<1>1. UNCHANGED <<gate, waived, judged, woken>> /\ turn[c].phase = "prepare" /\ q # <<>>
  BY DEF Prepare, outerVars
<1>2. /\ turn[c] = [k \in TurnNames |-> turn[c][k]]
      /\ t \in Tasks /\ IsTodo(q)
  BY <1>1, SendingTurn
<1>3. IsPiece(x)
  BY <1>1, <1>2, FirstPiece
<1>4. Right(mem, gate, waived, judged) /\ turn = [d \in Chats |-> turn[d]]
  BY DEF Delivery, Trackers, Turns
<1>5. CASE x.part \in mem.done[t]
  <2>1. turn' = [turn EXCEPT ![c].todo = Tail(q)] /\ UNCHANGED <<trackerVars, quietVars>>
    BY <1>5 DEF Prepare
  <2>2. [turn[c] EXCEPT !.todo = Tail(q)] = [turn[c] EXCEPT !.phase = "prepare", !.todo = Tail(q)]
    BY <1>1, <1>2 DEF TurnNames
  <2>3. turn' = [turn EXCEPT ![c] = [turn[c] EXCEPT !.phase = "prepare", !.todo = Tail(q)]]
    BY <1>4, <2>1, <2>2
  <2>4. Shown(gate, t, x.part)
    BY <1>2, <1>3, <1>4, <1>5 DEF Right, IsPiece
  <2>5. Turns'
    BY <1>1, <2>3, <2>4, TailTurns
  <2>6. Trackers' /\ Calmer
    BY <1>1, <2>1, SameOnward, TrackersStay, CalmSame DEF Delivery, quietVars
  <2> QED
    BY <1>1, <2>5, <2>6, CalmStep
<1>6. CASE SaveFails /\ Raise(c)
  <2>1. Calmer /\ turn' = [turn EXCEPT ![c] = NoTurn]
    BY <1>6, RaiseCalm DEF Delivery
  <2> QED
    BY <1>1, <1>6, <2>1, LeaveStep DEF SaveFails
<1>7. CASE /\ x.part \notin mem.done[t]
           /\ IF mem.intents[t][x.part] # None THEN UNCHANGED <<trackerVars, faults>>
                                               ELSE Save(m)
           /\ turn' = [turn EXCEPT ![c].phase = "transmit",
                 ![c].todo = <<[x EXCEPT !.payload = mem'.intents[t][x.part]]>> \o Tail(q)]
           /\ UNCHANGED quietVars
  <2>1. PICK v : v = mem'.intents[t][x.part]
    OBVIOUS
  <2>2. PICK y : y = [x EXCEPT !.payload = v]
    OBVIOUS
  <2>3. v \in Payload /\ (x.part = "file" => v.of = "real")
    <3>1. CASE mem.intents[t][x.part] # None
      <4>1. v = mem.intents[t][x.part]
        BY <1>7, <2>1, <3>1 DEF trackerVars
      <4>2. /\ mem.intents \in [Tasks -> [Parts -> Payload \cup {None}]]
            /\ mem.intents[t]["file"] # None => mem.intents[t]["file"].of = "real"
        BY <1>2, <1>4 DEF Right
      <4>3. x.part \in Parts
        BY <1>3 DEF IsPiece
      <4> HIDE DEF t, q, x
      <4> QED
        BY <1>2, <3>1, <4>1, <4>2, <4>3
    <3>2. CASE mem.intents[t][x.part] = None
      <4>1. m.intents = [mem.intents EXCEPT ![t][x.part] = x.payload]
        BY <1>4, <3>2 DEF Prepared, Right, IsTracker, Names
      <4>2. mem'.intents = [mem.intents EXCEPT ![t][x.part] = x.payload]
        BY <1>7, <3>2, <4>1 DEF Save
      <4>3. v = x.payload
        <5>1. mem.intents \in [Tasks -> [Parts -> Payload \cup {None}]]
          BY <1>4 DEF Right
        <5>2. t \in Tasks /\ x.part \in Parts
          BY <1>2, <1>3 DEF IsPiece
        <5> HIDE DEF t, q, x
        <5> QED
          BY <2>1, <4>2, <5>1, <5>2
      <4> QED
        BY <1>3, <4>3 DEF IsPiece
    <3> QED
      BY <3>1, <3>2
  <2>4. IsPiece(y) /\ y.part = x.part
    BY <1>3, <2>2, <2>3 DEF IsPiece
  <2>5. PICK z : z = <<y>> \o Tail(q)
    OBVIOUS
  <2>6. /\ IsTodo(z) /\ z # <<>>
        /\ \A p : Has(q, p) => Has(z, p)
    BY <1>1, <1>2, <2>4, <2>5, OtherPayload
  <2>7. turn' = [turn EXCEPT ![c] = [turn[c] EXCEPT !.phase = "transmit", !.todo = z]]
    BY <1>4, <1>7, <2>1, <2>2, <2>5
  <2>8. Turns'
    BY <1>1, <2>6, <2>7, SameOnward, PieceTurns
  <2>9. Trackers'
    <3>1. CASE UNCHANGED trackerVars
      BY <1>1, <3>1, SameOnward, TrackersStay DEF Delivery
    <3>2. CASE Save(m)
      <4>1. Right(m, gate, waived, judged)
        BY <1>2, <1>3, <1>4, PreparedRight DEF IsPiece
      <4> QED
        BY <1>1, <3>2, <4>1, TrackersSaved DEF Save
    <3> QED
      BY <1>7, <3>1, <3>2
  <2>10. Calmer
    BY <1>7, CalmSame DEF Delivery, quietVars
  <2> QED
    BY <1>1, <2>8, <2>9, <2>10, CalmStep
<1> QED
  BY <1>5, <1>6, <1>7 DEF Prepare

\* A new receipt of a part that had not been shown, or of what was sent.
LEMMA ReceiptSet ==
    ASSUME Delivery, NEW t \in Tasks, NEW x, IsPiece(x), UNCHANGED <<waived, judged>>,
           NEW d, gate' = [gate EXCEPT ![t][x.part] = d],
           d = Sent(x.payload) \/ (gate[t][x.part] = NoClaim /\ d = Failed(x.payload))
    PROVE  /\ Onward /\ Receipts'
           /\ d = Sent(x.payload) => Shown(gate', t, x.part)
<1>1. gate = [u \in Tasks |-> [p \in Parts |-> gate[u][p]]] /\ x.part \in Parts
  BY DEF Delivery, Receipts, IsPiece
<1>2. \A u \in Tasks, p \in Parts :
        gate'[u][p] = IF u = t /\ p = x.part THEN d ELSE gate[u][p]
  BY <1>1
<1>3. gate' = [u \in Tasks |-> [p \in Parts |-> gate'[u][p]]]
  BY <1>1
<1>4. d.payload = x.payload /\ (d.state = "sent" \/ gate[t][x.part].state # "sent")
  BY DEF Sent, Failed, NoClaim
<1>5. \A u \in Tasks, p \in Parts : Shown(gate, u, p) => Shown(gate', u, p)
  BY <1>2, <1>4 DEF Shown
<1>6. Onward
  BY <1>5 DEF Onward, Later
<1>7. \A u \in Tasks : Shown(gate', u, "file") => gate'[u]["file"].payload.of = "real"
  BY <1>1, <1>2, <1>4 DEF Shown, Delivery, Receipts, IsPiece, Parts
<1>8. Receipts'
  BY <1>3, <1>7 DEF Receipts, Shown
<1>9. d = Sent(x.payload) => Shown(gate', t, x.part)
  BY <1>1, <1>2 DEF Sent, Shown
<1> QED
  BY <1>6, <1>8, <1>9

LEMMA TransmitDelivers ==
    ASSUME Delivery, Step, NEW c \in Chats, Transmit(c)
    PROVE  Delivery'
<1> DEFINE t == turn[c].task
           q == turn[c].todo
           x == Head(q)
<1>1. UNCHANGED <<trackerVars, waived, judged, woken>> /\ turn[c].phase = "transmit"
  BY DEF Transmit
<1>2. turn[c] = [k \in TurnNames |-> turn[c][k]] /\ t \in Tasks /\ IsTodo(q) /\ q # <<>>
  BY <1>1, SendingTurn
<1>3. IsPiece(x) /\ turn = [d \in Chats |-> turn[d]]
  BY <1>2, FirstPiece DEF Delivery, Turns
<1>4. CASE /\ gate' = [gate EXCEPT ![t][x.part] = Sent(x.payload)]
           /\ turn' = [turn EXCEPT ![c].phase = "mark"]
           /\ UNCHANGED quietVars
  <2>1. Onward /\ Receipts' /\ Shown(gate', t, x.part)
    BY <1>1, <1>2, <1>3, <1>4, ReceiptSet
  <2>2. turn' = [turn EXCEPT ![c] = [turn[c] EXCEPT !.phase = "mark", !.todo = q]]
    <3>1. [turn[c] EXCEPT !.phase = "mark"] = [turn[c] EXCEPT !.phase = "mark", !.todo = q]
      BY <1>2 DEF TurnNames
    <3> QED
      BY <1>3, <1>4, <3>1
  <2>3. Turns'
    BY <1>1, <1>2, <2>1, <2>2, PieceTurns
  <2>4. Trackers' /\ Waits'
    BY <1>1, <1>4, <2>1, TrackersStay, CalmSame, WaitsCalm DEF Delivery, quietVars
  <2> QED
    BY <2>1, <2>3, <2>4, Together
<1>5. CASE /\ Raise(c)
           /\ \/ UNCHANGED gate
              \/ gate' = [gate EXCEPT ![t][x.part] = Sent(x.payload)]
              \/ /\ gate[t][x.part] = NoClaim
                 /\ gate' = [gate EXCEPT ![t][x.part] = Failed(x.payload)]
  <2>1. Onward /\ Receipts'
    <3>1. CASE UNCHANGED gate
      BY <1>1, <3>1, SameOnward, ReceiptsStay DEF Delivery
    <3>2. CASE gate' = [gate EXCEPT ![t][x.part] = Sent(x.payload)]
      BY <1>1, <1>2, <1>3, <3>2, ReceiptSet
    <3>3. CASE gate[t][x.part] = NoClaim
               /\ gate' = [gate EXCEPT ![t][x.part] = Failed(x.payload)]
      BY <1>1, <1>2, <1>3, <3>3, ReceiptSet
    <3> QED
      BY <1>5, <3>1, <3>2, <3>3
  <2>2. Calmer /\ turn' = [turn EXCEPT ![c] = NoTurn]
    BY <1>5, RaiseCalm DEF Delivery
  <2>3. Trackers' /\ Turns' /\ Waits'
    BY <1>1, <2>1, <2>2, TrackersStay, TurnOver, WaitsCalm DEF Delivery
  <2> QED
    BY <2>1, <2>3, Together
<1> QED
  BY <1>4, <1>5 DEF Transmit

LEMMA MarkPartDelivers ==
    ASSUME Delivery, Step, NEW c \in Chats, MarkPart(c)
    PROVE  Delivery'
<1> DEFINE t == turn[c].task
           q == turn[c].todo
           x == Head(q)
           m == PartDone(mem, t, x.part)
<1>1. UNCHANGED <<gate, waived, judged, woken>> /\ turn[c].phase = "mark"
  BY DEF MarkPart, outerVars
<1>2. /\ turn[c] = [k \in TurnNames |-> turn[c][k]]
      /\ t \in Tasks /\ IsTodo(q) /\ q # <<>> /\ Shown(gate, t, x.part)
  BY <1>1, SendingTurn
<1>3. IsPiece(x) /\ turn = [d \in Chats |-> turn[d]]
  BY <1>2, FirstPiece DEF Delivery, Turns
<1>4. CASE SaveFails /\ Raise(c)
  <2>1. Calmer /\ turn' = [turn EXCEPT ![c] = NoTurn]
    BY <1>4, RaiseCalm DEF Delivery
  <2> QED
    BY <1>1, <1>4, <2>1, LeaveStep DEF SaveFails
<1>5. CASE /\ IF x.part \in mem.done[t] THEN UNCHANGED <<trackerVars, faults>> ELSE Save(m)
           /\ turn' = [turn EXCEPT ![c].phase = "prepare", ![c].todo = Tail(@)]
           /\ UNCHANGED quietVars
  <2>1. turn' = [turn EXCEPT ![c] = [turn[c] EXCEPT !.phase = "prepare", !.todo = Tail(q)]]
    BY <1>2, <1>3, <1>5 DEF TurnNames
  <2>2. Turns'
    BY <1>1, <1>2, <2>1, TailTurns
  <2>3. Trackers'
    <3>1. CASE UNCHANGED trackerVars
      BY <1>1, <3>1, SameOnward, TrackersStay DEF Delivery
    <3>2. CASE Save(m)
      <4>1. Right(m, gate, waived, judged)
        BY <1>2, <1>3, PartDoneRight DEF IsPiece, Delivery, Trackers
      <4> QED
        BY <1>1, <3>2, <4>1, TrackersSaved DEF Save
    <3> QED
      BY <1>5, <3>1, <3>2
  <2>4. Calmer
    BY <1>5, CalmSame DEF Delivery, quietVars
  <2> QED
    BY <1>1, <2>2, <2>3, <2>4, CalmStep
<1> QED
  BY <1>4, <1>5 DEF MarkPart

LEMMA RecoveryReturnsCalm ==
    ASSUME Waits, NEW t, RecoveryReturns(t)
    PROVE  Calmer /\ (Save(Settled(mem, t)) \/ SaveFails)
BY RecoveryEndsCalm DEF RecoveryReturns

LEMMA RecoverFinishDelivers ==
    ASSUME Delivery, Step, NEW c \in Chats, RecoverFinish(c)
    PROVE  Delivery'
<1>1. UNCHANGED <<gate, waived, judged, woken>> /\ turn' = [turn EXCEPT ![c] = NoTurn]
  BY DEF RecoverFinish, outerVars
<1>2. turn[c].task \in Tasks /\ Over(turn[c].task, gate, waived, judged)
  BY AllSentOver DEF RecoverFinish
<1>3. Calmer /\ (Save(Settled(mem, turn[c].task)) \/ SaveFails)
  BY RecoveryReturnsCalm DEF RecoverFinish, Delivery
<1>4. Trackers' /\ Turns'
  BY <1>1, <1>2, <1>3, SettleSaved, SameOnward, TurnOver DEF Delivery
<1> QED
  BY <1>1, <1>3, <1>4, CalmStep

LEMMA DeliverFinishDelivers ==
    ASSUME Delivery, Step, NEW c \in Chats, DeliverFinish(c)
    PROVE  Delivery'
<1>1. UNCHANGED <<gate, waived, judged, woken>> /\ turn' = [turn EXCEPT ![c] = NoTurn]
  BY DEF DeliverFinish, outerVars, histVars
<1>2. turn[c].task \in Tasks /\ Over(turn[c].task, gate, waived, judged)
  BY AllSentOver DEF DeliverFinish
<1>3. Save(Settled(mem, turn[c].task)) \/ SaveFails
  BY DEF DeliverFinish
<1>4. Calmer
  BY CalmSet DEF DeliverFinish, WaiterLeaves, Delivery
<1>5. Trackers' /\ Turns'
  BY <1>1, <1>2, <1>3, SettleSaved, SameOnward, TurnOver DEF Delivery
<1> QED
  BY <1>1, <1>4, <1>5, CalmStep

\* The task a correction replaces is waived in the step that settles it.
LEMMA CorrectionLaunchedDelivers ==
    ASSUME Delivery, Step, NEW c \in Chats, NEW n \in Tasks, CorrectionLaunched(c, n)
    PROVE  Delivery'
<1> DEFINE t == turn[c].task
           m == Registered(mem, n)
<1>1. /\ UNCHANGED <<gate, judged, woken>> /\ turn' = [turn EXCEPT ![c] = NoTurn]
      /\ waived' = waived \cup {t} \/ waived' = waived
  BY DEF CorrectionLaunched, outerVars
<1>2. t \in Tasks
  BY SendingTurn DEF CorrectionLaunched, AllSent
<1>3. Onward
  BY <1>1 DEF Onward, Later
<1>4. Right(m, gate', waived', judged')
  <2>1. Right(mem, gate', waived', judged')
    BY <1>3, RightLater DEF Delivery, Trackers, Onward
  <2> QED
    BY <2>1, RegisteredRight
<1>5. Trackers'
  <2>1. CASE Save(Settled(m, t)) /\ waived' = waived \cup {t}
    <3>1. Over(t, gate', waived', judged')
      BY <2>1 DEF Over
    <3>2. Right(Settled(m, t), gate', waived', judged')
      BY <1>2, <1>4, <3>1, SettledRight
    <3> QED
      BY <2>1, <3>2, TrackersSaved DEF Save
  <2>2. CASE mem' = m /\ UNCHANGED disk
    BY <1>3, <1>4, <2>2, TrackersUnsaved DEF Delivery
  <2>3. CASE mem' = m /\ disk' = mem'
    BY <1>4, <2>3, TrackersSaved
  <2> QED
    BY <2>1, <2>2, <2>3 DEF CorrectionLaunched
<1>6. Calmer
  BY DEF CorrectionLaunched, Calmer, Delivery, Waits
<1>7. Turns' /\ Receipts' /\ Waits'
  BY <1>1, <1>3, <1>6, TurnOver, ReceiptsStay, WaitsCalm DEF Delivery
<1> QED
  BY <1>5, <1>7, Together

LEMMA HoldingDelivers ==
    ASSUME Delivery, Step, NEW c \in Chats, Holding(c)
    PROVE  Delivery'
<1>1. CASE SubmitRefused(c)
  BY <1>1, LeaveStep, CalmSame DEF SubmitRefused, outerVars, histVars, Delivery
<1>2. CASE ComposeFails(c)
  BY <1>2, LeaveStep, CalmSet DEF ComposeFails, outerVars, histVars, Delivery
<1>3. CASE CorrectionRaises(c)
  BY <1>3, LeaveStep, CalmSet DEF CorrectionRaises, outerVars, histVars, Delivery
<1>4. CASE CorrectionDropped(c)
  BY <1>4, LeaveStep, CalmSet DEF CorrectionDropped, WaiterLeaves, outerVars, Delivery
<1> QED
  BY <1>1, <1>2, <1>3, <1>4, SubmitRegisterDelivers, ComposeDelivers, PrepareDelivers,
     TransmitDelivers, MarkPartDelivers, RecoverFinishDelivers, DeliverFinishDelivers,
     CorrectionLaunchedDelivers DEF Holding

-----------------------------------------------------------------------------
(* Recoveries.                                                              *)

LEMMA RecoverBeginDelivers ==
    ASSUME Delivery, Step, NEW t \in Tasks, NEW who, RecoverBegin(t, who)
    PROVE  Delivery'
<1>1. UNCHANGED <<turn, gate, waived, judged, woken>>
  BY DEF RecoverBegin, outerVars
<1>2. CASE t \in mem.tombs /\ \/ Save(Settled(mem, t)) /\ LoopEnds(t, who, TRUE)
                              \/ SaveFails /\ LoopEnds(t, who, FALSE)
  <2>1. Over(t, gate, waived, judged)
    BY <1>2 DEF Delivery, Trackers, Right
  <2>2. Trackers'
    BY <1>1, <1>2, <2>1, SettleSaved DEF Delivery
  <2>3. Calmer
    BY <1>2, LoopEndsCalm DEF Delivery
  <2>4. Turns'
    BY <1>1, SameOnward, TurnsStay DEF Delivery
  <2> QED
    BY <1>1, <2>2, <2>3, <2>4, CalmStep
<1>3. CASE LoopEnds(t, who, FALSE) /\ UNCHANGED trackerVars
  BY <1>1, <1>3, LoopEndsCalm, QuietStep DEF Delivery
<1>4. CASE UNCHANGED trackerVars /\ UNCHANGED waiter
  BY <1>1, <1>4, CalmSame, QuietStep DEF Delivery
<1> QED
  BY <1>2, <1>3, <1>4 DEF RecoverBegin

\* A recovery sends all parts of the stored result.
LEMMA RecoveryFine ==
    ASSUME NEW t \in Tasks, NEW r \in Results, NEW g, NEW w, NEW j,
           r = "local" => t \in j,
           NEW q, IsTodo(q), Has(q, "report"), r = "real" => Has(q, "file")
    PROVE  Fine([NoTurn EXCEPT !.who = "recovery", !.task = t, !.phase = "prepare",
                               !.result = r, !.todo = q], g, w, j)
<1> DEFINE x == [NoTurn EXCEPT !.who = "recovery", !.task = t, !.phase = "prepare",
                               !.result = r, !.todo = q]
<1>1. /\ x = [k \in TurnNames |-> x[k]]
      /\ x.who = "recovery" /\ x.task = t /\ x.phase = "prepare" /\ x.todo = q
  BY DEF NoTurn, TurnNames
<1> HIDE DEF x
<1>2. Has(q, "file") \/ t \in w \cup j
  BY DEF Results
<1>3. Fine(x, g, w, j)
  BY <1>1, <1>2 DEF Fine
<1> QED
  BY <1>3 DEF x

LEMMA RecoverLockedDelivers ==
    ASSUME Delivery, Step, NEW t \in Tasks, RecoverLocked(t)
    PROVE  Delivery'
<1> DEFINE r == mem.finished[t]
<1>1. UNCHANGED <<gate, waived, judged, woken>>
  BY DEF RecoverLocked, outerVars
<1>2. CASE t \in mem.tombs /\ RecoveryReturns(t) /\ UNCHANGED turn
  <2>1. Over(t, gate, waived, judged)
    BY <1>2 DEF Delivery, Trackers, Right
  <2>2. Calmer /\ (Save(Settled(mem, t)) \/ SaveFails)
    BY <1>2, RecoveryReturnsCalm DEF Delivery
  <2>3. Trackers' /\ Turns'
    BY <1>1, <1>2, <2>1, <2>2, SettleSaved, SameOnward, TurnsStay DEF Delivery
  <2> QED
    BY <1>1, <2>2, <2>3, CalmStep
<1>3. CASE RecoveryEnds(t, FALSE) /\ UNCHANGED <<trackerVars, turn>>
  <2>1. Calmer
    BY <1>3, RecoveryEndsCalm DEF Delivery
  <2> QED
    BY <1>1, <1>3, <2>1, QuietStep
<1>4. CASE /\ r # None
           /\ turn' = [turn EXCEPT ![ChatOf[t]] = [NoTurn EXCEPT !.who = "recovery",
                !.task = t, !.phase = "prepare", !.result = r,
                !.todo = <<Pc("report", "raw", r)>> \o Files(r)]]
           /\ UNCHANGED <<trackerVars, quietVars>>
  <2>1. PICK v : v = r
    OBVIOUS
  <2>2. PICK q : q = <<Pc("report", "raw", v)>> \o Files(v)
    OBVIOUS
  <2>3. v \in Results /\ (v = "local" => t \in judged)
    BY <1>4, <2>1 DEF Delivery, Inv, IsTracker, Trackers, Right
  <2>4. IsTodo(q) /\ Has(q, "report") /\ (v = "real" => Has(q, "file"))
    BY <2>2, <2>3, ReportAndFiles
  <2> DEFINE x == [NoTurn EXCEPT !.who = "recovery", !.task = t, !.phase = "prepare",
                                 !.result = v, !.todo = q]
  <2>5. Fine(x, gate', waived', judged')
    BY <1>1, <2>3, <2>4, RecoveryFine
  <2>6. turn' = [turn EXCEPT ![ChatOf[t]] = x]
    BY <1>4, <2>1, <2>2
  <2> HIDE DEF x
  <2>7. Trackers' /\ Turns'
    BY <1>1, <1>4, <2>5, <2>6, SameOnward, TrackersStay, TurnSet DEF Delivery
  <2>8. Calmer
    BY <1>4, CalmSame DEF Delivery, quietVars
  <2> QED
    BY <1>1, <2>7, <2>8, CalmStep
<1> QED
  BY <1>2, <1>3, <1>4 DEF RecoverLocked

-----------------------------------------------------------------------------
(* Callbacks.                                                               *)

LEMMA CallbackFetchedDelivers ==
    ASSUME Delivery, Step, NEW k \in Calls, CallbackFetched(k)
    PROVE  Delivery'
<1> DEFINE m == Registered(mem, call[k].task)
<1>1. UNCHANGED <<turn, waiter, gate, waived, judged, woken>>
  BY DEF CallbackFetched, coordVars, outerVars
<1>2. Right(m, gate', waived', judged')
  BY <1>1, RegisteredRight DEF Delivery, Trackers
<1>3. Trackers'
  <2>1. CASE UNCHANGED trackerVars
    BY <1>1, <2>1, SameOnward, TrackersStay DEF Delivery
  <2>2. CASE Save(m)
    BY <1>2, <2>2, TrackersSaved DEF Save
  <2>3. CASE mem' = m /\ UNCHANGED disk
    BY <1>1, <1>2, <2>3, SameOnward, TrackersUnsaved DEF Delivery
  <2> QED
    BY <2>1, <2>2, <2>3 DEF CallbackFetched
<1>4. Turns' /\ Calmer
  BY <1>1, SameOnward, TurnsStay, CalmSame DEF Delivery
<1> QED
  BY <1>1, <1>3, <1>4, CalmStep

\* The event is set after the result was stored.
LEMMA CallbackStoresDelivers ==
    ASSUME Delivery, Step, NEW k \in Calls, CallbackStores(k)
    PROVE  Delivery'
<1> DEFINE t == call[k].task
           m == Finalized(mem, t, "real")
<1>1. UNCHANGED <<turn, waiter, gate, waived, judged>>
  BY DEF CallbackStores, outerVars
<1>2. t \in Tasks
  BY DEF CallbackStores, Delivery, Inv, CallsNameTasks
<1>3. CASE SaveFails /\ UNCHANGED woken
  <2>1. Trackers' /\ Turns' /\ Calmer
    BY <1>1, <1>3, SameOnward, TrackersStay, TurnsStay, CalmSame DEF SaveFails, Delivery
  <2> QED
    BY <1>1, <1>3, <2>1, CalmStep
<1>4. CASE /\ IF t \in mem.tombs THEN UNCHANGED <<trackerVars, faults>> ELSE Save(m)
           /\ woken' = woken \cup {t} \/ UNCHANGED woken
  <2>1. t \in Kept(mem')
    <3>1. CASE t \in mem.tombs
      BY <1>4, <3>1 DEF Kept, trackerVars
    <3>2. CASE t \notin mem.tombs
      BY <1>2, <1>4, <3>2, FinalizedKeeps DEF Save, Delivery, Inv, Results
    <3> QED
      BY <3>1, <3>2
  <2>2. Trackers'
    <3>1. CASE t \in mem.tombs
      BY <1>1, <1>4, <3>1, SameOnward, TrackersStay DEF Delivery
    <3>2. CASE t \notin mem.tombs
      <4>1. Right(m, gate', waived', judged')
        BY <1>1, <1>2, FinalizedRight DEF Delivery, Trackers, Results
      <4> QED
        BY <1>4, <3>2, <4>1, TrackersSaved DEF Save
    <3> QED
      BY <3>1, <3>2
  <2>3. Waits'
    BY <1>1, <1>2, <1>4, <2>1, WaitsMove DEF Delivery, Waits
  <2>4. Turns' /\ Receipts'
    BY <1>1, SameOnward, TurnsStay, ReceiptsStay DEF Delivery
  <2> QED
    BY <2>2, <2>3, <2>4, Together
<1>5. \/ SaveFails /\ UNCHANGED woken
      \/ /\ IF t \in mem.tombs THEN UNCHANGED <<trackerVars, faults>> ELSE Save(m)
         /\ woken' = woken \cup {t} \/ UNCHANGED woken
  BY DEF CallbackStores
<1> QED
  BY <1>3, <1>4, <1>5

LEMMA CallbackDelivers ==
    ASSUME Delivery, Step, NEW k \in Calls, Callback(k)
    PROVE  Delivery'
<1>1. CASE \E t \in Tasks : CallbackArrives(k, t)
  BY <1>1, QuietStep, CalmSame DEF CallbackArrives, coordVars, outerVars, Delivery
<1>2. CASE CallbackFails(k)
  BY <1>2, QuietStep, CalmSame DEF CallbackFails, coordVars, outerVars, Delivery
<1> QED
  BY <1>1, <1>2, CallbackFetchedDelivers, CallbackStoresDelivers DEF Callback

-----------------------------------------------------------------------------
(* The session.                                                             *)

LEMMA RestartDelivers ==
    ASSUME Delivery, Step, Restart
    PROVE  Delivery'
<1>1. /\ UNCHANGED <<gate, waived, judged>> /\ mem' = disk /\ disk' = disk
      /\ turn' = [c \in Chats |-> NoTurn] /\ woken' = {}
      /\ waiter' = [t \in Tasks |-> IF waiter[t] = "new" THEN "new" ELSE "off"]
  BY DEF Restart, outerVars, histVars
<1>2. Trackers'
  BY <1>1, TrackersSaved DEF Delivery, Trackers
<1>3. \A c \in Chats : Fine(NoTurn, gate', waived', judged') /\ turn'[c] = NoTurn
  BY <1>1, FreeFine
<1>4. Turns'
  <2>1. \A c \in Chats : Fine(turn'[c], gate', waived', judged')
    BY <1>3
  <2> QED
    BY <1>1, <2>1 DEF Turns, Fine, Shown
<1>5. Receipts' /\ Waits'
  BY <1>1, ReceiptsStay, WaitsMove DEF Delivery
<1> QED
  BY <1>2, <1>4, <1>5, Together

\* The tombstones that /reset writes are waived in the same step.
LEMMA ResetDelivers ==
    ASSUME Delivery, Step, NEW c, Reset(c)
    PROVE  Delivery'
<1> DEFINE m == Cleared(mem, c)
           gone == {t \in FinishedIn(mem) : ChatOf[t] = c}
<1>1. /\ UNCHANGED <<turn, waiter, woken, gate, judged>> /\ waived' = waived \cup gone
      /\ mem' = m /\ (disk' = mem' \/ UNCHANGED disk)
  BY DEF Reset, coordVars, outerVars
<1>2. Onward
  BY <1>1 DEF Onward, Later
<1>3. Right(mem, gate', waived', judged')
  BY <1>2, RightLater DEF Delivery, Trackers, Onward
<1>4. \A t \in FinishedIn(mem) : ChatOf[t] = c => t \in waived'
  BY <1>1
<1>5. Right(m, gate', waived', judged')
  BY <1>3, <1>4, ClearedRight
<1>6. Trackers'
  BY <1>1, <1>2, <1>5, TrackersSaved, TrackersUnsaved DEF Delivery
<1>7. Calmer
  BY <1>1, CalmSame DEF Delivery
<1>8. Turns' /\ Receipts' /\ Waits'
  BY <1>1, <1>2, <1>7, TurnsStay, ReceiptsStay, WaitsCalm DEF Delivery
<1> QED
  BY <1>6, <1>8, Together

-----------------------------------------------------------------------------
LEMMA EmptyRight ==
    ASSUME NEW g, NEW w, NEW j
    PROVE  Right(EmptyTracker, g, w, j)
<1> DEFINE m == EmptyTracker
<1>1. /\ m = [k \in Names |-> m[k]] /\ m.tombs = {}
      /\ m.finished = [t \in Tasks |-> None]
      /\ m.done = [t \in Tasks |-> {}]
      /\ m.intents = [t \in Tasks |-> [p \in Parts |-> None]]
  BY DEF EmptyTracker, Names
<1> HIDE DEF m
<1>2. IsTracker(m)
  BY <1>1 DEF IsTracker
<1>3. /\ m.done \in [Tasks -> SUBSET Parts]
      /\ m.intents \in [Tasks -> [Parts -> Payload \cup {None}]]
  BY <1>1
<1>4. \A t \in Tasks : m.intents[t]["file"] = None /\ m.finished[t] # "local" /\ m.done[t] = {}
  BY <1>1, TasksAssumption DEF Parts
<1>5. Right(m, g, w, j)
  BY <1>1, <1>2, <1>3, <1>4 DEF Right
<1> QED
  BY <1>5 DEF m

LEMMA InitDelivery == Init => Delivery
<1> SUFFICES ASSUME Init PROVE Delivery
  OBVIOUS
<1>1. Trackers
  BY EmptyRight DEF Init, Trackers
<1>2. Turns
  BY FreeFine DEF Init, Turns
<1>3. Receipts
  BY DEF Init, Receipts, Shown, NoClaim, Parts
<1>4. Waits
  BY DEF Init, Waits
<1> QED
  BY <1>1, <1>2, <1>3, <1>4, InitInv DEF Delivery

LEMMA TaskDelivers ==
    ASSUME Delivery, Step, NEW t \in Tasks,
           Submitting(t) \/ Remote(t) \/ Waiting(t) \/ Recovering(t)
    PROVE  Delivery'
<1>1. CASE Remote(t)
  BY <1>1, QuietStep, CalmSame
     DEF Remote, RemoteAccepts, RemoteFinishes, coordVars, histVars, Delivery
<1>2. CASE Submitted(t)
  BY <1>2, QuietStep, CalmSet DEF Submitted, outerVars, histVars, Delivery
<1> QED
  BY <1>1, <1>2, SubmitBeginDelivers, LocalVerdictDelivers, WokenDelivers,
     DeliverBeginDelivers, RecoverBeginDelivers, RecoverLockedDelivers
     DEF Submitting, SubmitFails, WaitTimesOut, Waiting, Recovering

LEMMA NextDelivery == Delivery /\ [Next]_vars => Delivery'
<1> SUFFICES ASSUME Delivery, [Next]_vars PROVE Delivery'
  OBVIOUS
<1>1. Step
  BY NextStep DEF Delivery
<1>2. CASE \E t \in Tasks : Submitting(t) \/ Remote(t) \/ Waiting(t) \/ Recovering(t)
  BY <1>1, <1>2, TaskDelivers
<1>3. CASE \E c \in Chats : Holding(c) \/ Reset(c)
  BY <1>1, <1>3, HoldingDelivers, ResetDelivers
<1>4. CASE \E k \in Calls : Callback(k)
  BY <1>1, <1>4, CallbackDelivers
<1>5. CASE Opened
  BY <1>1, <1>5, QuietStep, CalmSame DEF Opened, coordVars, outerVars, Delivery
<1>6. CASE ReplayNext
  BY <1>1, <1>6, QuietStep, CalmSame DEF ReplayNext, coordVars, outerVars, histVars, Delivery
<1>7. CASE Restart
  BY <1>1, <1>7, RestartDelivers
<1>8. CASE UNCHANGED vars
  BY <1>1, <1>8, QuietStep, CalmSame DEF vars, coordVars, outerVars, histVars, Delivery
<1> QED
  BY <1>2, <1>3, <1>4, <1>5, <1>6, <1>7, <1>8 DEF Next

\* A tombstone means the chat has the report, and the file too when the result
\* was the sub-agent's own, whoever delivered it and whatever failed before;
\* except after /reset, and for the task a correction replaced.
THEOREM SettledIsShownAlways == Spec => []SettledIsShown
<1>1. Delivery => SettledIsShown
  BY DEF Delivery, Trackers, Right, Over, Shown, SettledIsShown
<1> QED
  BY <1>1, InitDelivery, NextDelivery, PTL DEF Spec

\* A result the webhook took, which the bridge had not given up on and nobody
\* dropped, is still stored or the chat was shown some of it.
THEOREM AcceptedIsDeliveredAlways == Spec => []AcceptedIsDelivered
<1>1. Delivery => AcceptedIsDelivered
  <2> SUFFICES ASSUME Delivery, NEW t \in acked \ (waived \cup judged),
                      mem.finished[t] # "real"
               PROVE  RealShown(t)
    BY DEF AcceptedIsDelivered
  <2>1. t \in Kept(mem)
    BY DEF Delivery, Inv, SameKept, AckedIsDurable, Kept
  <2>2. t \in Tasks
    BY <2>1 DEF Kept, FinishedIn, Delivery, Trackers, Right
  <2>3. mem.finished[t] = None
    BY <2>2 DEF Delivery, Inv, IsTracker, Trackers, Right, Results
  <2>4. t \in mem.tombs
    BY <2>1, <2>3 DEF Kept, FinishedIn
  <2>5. Shown(gate, t, "file")
    BY <2>2, <2>4 DEF Delivery, Trackers, Right, Over
  <2>6. gate[t]["file"].payload.of = "real"
    BY <2>2, <2>5 DEF Delivery, Receipts
  <2> QED
    BY <2>5, <2>6 DEF RealShown, Shown, Parts
<1> QED
  BY <1>1, InitDelivery, NextDelivery, PTL DEF Spec
=============================================================================
