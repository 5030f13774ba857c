------------------------ MODULE TaskSchedulesProofs ------------------------
(***************************************************************************)
(* Proofs about TaskSchedules, for any set of tasks and any number of      *)
(* sessions and outages: every safety property its runs check is an        *)
(* invariant.                                                              *)
(*                                                                         *)
(* They are proved together, with four facts they rest on: a cancelled     *)
(* timer has not ended; stored tasks are armed only once a session, after  *)
(* the waiting; a task nobody asked for, or whose frame is unread, has     *)
(* left no trace; a frame's timer that exists before the stored rows are   *)
(* armed is known to be early.                                             *)
(***************************************************************************)
EXTENDS TaskSchedules, TLAPS

Before == {"down", "connect", "waiting", "recover"}

CancelledAlive == \A i \in cancel : Alive(i)

RearmedLater == phase \in Before => \A t \in Tasks : pc[<<t, "rearm">>] = "none"

Fresh(t) ==
    /\ t \notin rows
    /\ \A o \in Origins : pc[<<t, o>>] = "none"
    /\ t \in OneShot => done[t] = 0

PendingIsFresh ==
    /\ \A k, l \in DOMAIN inbox :
         inbox[k].type = "add" /\ inbox[l].type = "add" /\ inbox[k].task = inbox[l].task => k = l
    /\ \A k \in DOMAIN inbox :
         inbox[k].type = "add" => inbox[k].task \in asked /\ Fresh(inbox[k].task)

UnaskedIsFresh == \A t \in Tasks \ asked : Fresh(t)

EarlyFrames == \A o \in OneShot :
    pc[<<o, "frame">>] # "none" /\ (phase \in Before \/ pc[<<o, "rearm">>] # "none")
        => Noted(o, "early")

Over(o) == o \notin rows /\ \A g \in Origins : pc[<<o, g>>] = "none"

AnsweredIsOver == \A o \in OneShot :
    done[o] > 0 => Noted(o, "again") \/ Noted(o, "early") \/ Over(o)

\* The conjuncts of the inductive invariant beside the types.
Armament == CancelledAlive /\ RearmedLater /\ OneTimerPerDaily /\ DeletedIsQuiet /\ StoredIsArmed
Answers  == /\ PendingIsFresh /\ UnaskedIsFresh /\ EarlyFrames
            /\ AnsweredIsOver /\ AnsweredOnce /\ KeptUntilServed
Inv      == TypeOK /\ Armament /\ Answers

-----------------------------------------------------------------------------
(* Facts about timers and cancellation.                                    *)

\* A timer is a task and an origin.
LEMMA TimerFacts ==
    /\ \A i \in Timers : i = <<i[1], i[2]>> /\ i[1] \in Tasks /\ i[2] \in Origins
    /\ \A t \in Tasks : \A o \in Origins :
         <<t, o>> \in Timers /\ <<t, o>>[1] = t /\ <<t, o>>[2] = o
BY DEF Timers

\* The tasks of the two kinds.
LEMMA Kinds ==
    /\ OneShot \subseteq Tasks /\ Daily \subseteq Tasks
    /\ \A t \in Tasks : t \in OneShot \/ t \in Daily
    /\ \A t \in OneShot : t \notin Daily
BY TaskAssumption DEF Tasks

\* What a cancellation of S reaches: each live timer is recorded or noted.
LEMMA CancelledFacts ==
    ASSUME NEW S \in SUBSET Timers, NEW c \in Cancelled(S)
    PROVE  /\ c.set \subseteq S /\ \A i \in c.set : Alive(i)
           /\ \A i \in S : Alive(i) => i \in c.set \/ <<Task(i), "kept">> \in Kept(c)
           /\ Kept(c) \subseteq Tasks \X Reasons
           /\ \A n \in Kept(c) : n[2] = "kept"
<1>1. PICK lost \in SUBSET {i \in S : Alive(i) /\ pc[i] = "typing"} :
        c = [set |-> {i \in S : Alive(i)} \ lost, lost |-> lost]
  BY DEF Cancelled
<1>2. c.set = {i \in S : Alive(i)} \ lost /\ c.lost = lost
  BY <1>1
<1>3. Kept(c) = {<<Task(i), "kept">> : i \in lost}
  BY <1>2 DEF Kept
<1>4. \A i \in lost : Task(i) \in Tasks
  BY TimerFacts, <1>1 DEF Task
<1>5. Kept(c) \subseteq Tasks \X Reasons /\ \A n \in Kept(c) : n[2] = "kept"
  BY <1>3, <1>4 DEF Reasons
<1> QED
  BY <1>2, <1>3, <1>5

\* The timers _timers holds for some tasks.
LEMMA PreviousFacts ==
    ASSUME TypeOK, NEW A \in SUBSET Tasks
    PROVE  /\ Previous(A) \in SUBSET Timers
           /\ \A i \in Previous(A) : Task(i) \in A \cap Daily /\ slot[Task(i)] = i[2]
           /\ \A i \in Timers : Task(i) \in A \cap Daily /\ slot[Task(i)] = i[2] => i \in Previous(A)
<1>1. \A d \in Daily : slot[d] \in Origins \cup {"none"}
  BY DEF TypeOK
<1>2. \A d \in Daily : slot[d] # "none" => <<d, slot[d]>> \in Timers /\ <<d, slot[d]>>[1] = d
                                          /\ <<d, slot[d]>>[2] = slot[d]
  BY <1>1, TimerFacts, Kinds
<1>3. ASSUME NEW i \in Timers, Task(i) \in A \cap Daily, slot[Task(i)] = i[2]
      PROVE  i \in Previous(A)
  <2>1. i = <<Task(i), slot[Task(i)]>> /\ i[2] # "none"
    BY <1>3, TimerFacts DEF Task, Origins
  <2> QED
    BY <1>3, <2>1 DEF Previous
<1> QED
  BY <1>2, <1>3 DEF Previous, Task

-----------------------------------------------------------------------------
(* Types.                                                                  *)

\* The types hold at the start.
LEMMA TypeInitial == Init => TypeOK
<1> SUFFICES ASSUME Init PROVE TypeOK
  OBVIOUS
<1>1. pc \in [Timers -> Stages] /\ slot \in [Daily -> Origins \cup {"none"}]
  BY DEF Init, Stages
<1>2. done \in [OneShot -> 0 .. 2] /\ inbox \in Seq(Frames)
  BY DEF Init
<1> QED
  BY <1>1, <1>2 DEF Init, TypeOK, Phases

\* Arming keeps the types of timers and notes.
LEMMA ArmTypes ==
    ASSUME TypeOK, NEW A \in SUBSET Tasks, NEW origin \in Origins,
           NEW more \in SUBSET (Tasks \X Reasons), Arm(A, origin, more)
    PROVE  /\ pc' \in [Timers -> Stages] /\ cancel' \subseteq Timers
           /\ slot' \in [Daily -> Origins \cup {"none"}]
           /\ notes' \subseteq Tasks \X Reasons
<1>1. PICK c \in Cancelled(Previous(A)) :
        /\ pc' = Armed(A, origin) /\ cancel' = cancel \cup c.set
        /\ slot' = Slots(A, origin) /\ notes' = notes \cup Kept(c) \cup more
  BY DEF Arm
<1>2. Previous(A) \in SUBSET Timers
  BY PreviousFacts
<1>3. c.set \subseteq Timers /\ Kept(c) \subseteq Tasks \X Reasons
  BY <1>2, CancelledFacts
<1>4. Armed(A, origin) \in [Timers -> Stages]
  BY DEF Armed, Stages, TypeOK
<1>5. Slots(A, origin) \in [Daily -> Origins \cup {"none"}]
  BY DEF Slots, TypeOK
<1> QED
  BY <1>1, <1>3, <1>4, <1>5 DEF TypeOK

\* Counting a message keeps the counts of answers in range.
LEMMA DoneTypes ==
    ASSUME TypeOK, NEW o \in OneShot
    PROVE  [done EXCEPT ![o] = Twice(@)] \in [OneShot -> 0 .. 2]
BY DEF TypeOK, Twice

\* The end of a turn keeps the types.
LEMMA TurnEndsTypes ==
    ASSUME TypeOK, NEW i \in Timers, NEW why \in {"sent", "failed", "cutOff"}, TurnEnds(i, why)
    PROVE  TypeOK'
<1>1. Task(i) \in Tasks /\ i[2] \in Origins
  BY TimerFacts DEF Task
<1>2. done' \in [OneShot -> 0 .. 2]
  BY DoneTypes DEF TurnEnds, TypeOK
<1>3. UNCHANGED <<sessionVars, linkVars, asked, loaded>>
  BY DEF TurnEnds
<1>4. CASE Task(i) \in OneShot
  <2>1. Retired(i, why)
    BY <1>4 DEF TurnEnds
  <2>2. PICK deleted \in BOOLEAN :
          /\ rows' = IF deleted THEN RowAfter(Task(i), why = "sent") ELSE rows
          /\ stuck' = IF deleted \/ Task(i) \notin rows THEN stuck ELSE stuck \cup {Task(i)}
          /\ notes' = notes
                \cup (IF why = "sent" THEN {} ELSE {<<Task(i), why>>})
                \cup (IF deleted \/ Task(i) \notin rows THEN {} ELSE {<<Task(i), "again">>})
          /\ pc' = [pc EXCEPT ![i] = "none"]
          /\ UNCHANGED <<cancel, slot>>
    BY <2>1 DEF Retired
  <2>3. rows' \subseteq Tasks /\ stuck' \subseteq OneShot
    BY <2>2, <1>4 DEF TypeOK, RowAfter
  <2>4. notes' \subseteq Tasks \X Reasons
    BY <2>2, <1>1 DEF TypeOK, Reasons
  <2>5. pc' \in [Timers -> Stages]
    BY <2>2 DEF TypeOK, Stages
  <2> QED
    BY <1>2, <1>3, <2>2, <2>3, <2>4, <2>5 DEF TypeOK, sessionVars, linkVars
<1>5. CASE Task(i) \notin OneShot
  <2>1. NextDay(i) /\ Task(i) \in Daily
    BY <1>5, <1>1, Kinds DEF TurnEnds
  <2>2. PICK c \in Cancelled({j \in Previous({Task(i)}) : j # i}) :
          /\ pc' = [pc EXCEPT ![i] = "new"] /\ cancel' = cancel \cup c.set
          /\ slot' = [slot EXCEPT ![Task(i)] = i[2]] /\ notes' = notes \cup Kept(c)
          /\ UNCHANGED <<rows, stuck>>
    BY <2>1 DEF NextDay
  <2>3. {j \in Previous({Task(i)}) : j # i} \in SUBSET Timers
    BY PreviousFacts, <1>1
  <2>4. c.set \subseteq Timers /\ Kept(c) \subseteq Tasks \X Reasons
    BY <2>3, CancelledFacts
  <2>5. pc' \in [Timers -> Stages] /\ slot' \in [Daily -> Origins \cup {"none"}]
    BY <2>2, <1>1 DEF TypeOK, Stages
  <2> QED
    BY <1>2, <1>3, <2>2, <2>4, <2>5 DEF TypeOK, sessionVars, linkVars
<1> QED
  BY <1>4, <1>5

\* Nothing of a session is left when it is gone.
LEMMA GoneTypes ==
    ASSUME TypeOK, Gone
    PROVE  /\ phase' \in Phases /\ sessions' \in Nat
           /\ wa' \in BOOLEAN /\ outages' \in Nat /\ known' \in BOOLEAN
           /\ pump' \in {"idle", "reply"} /\ rows' \subseteq Tasks
           /\ pc' \in [Timers -> Stages] /\ cancel' \subseteq Timers
           /\ slot' \in [Daily -> Origins \cup {"none"}]
           /\ asked' \subseteq Tasks /\ loaded' \subseteq {OneShot, Daily}
           /\ stuck' \subseteq OneShot
BY DEF TypeOK, Gone, Phases, Stages

\* A suffix of the unread frames is a sequence of frames.
LEMMA UnreadTypes ==
    ASSUME TypeOK, NEW q \in Unread
    PROVE  q \in Seq(Frames)
<1>1. PICK k \in 1 .. Len(inbox) + 1 : q = SubSeq(inbox, k, Len(inbox))
  BY DEF Unread
<1>2. \A j \in k .. Len(inbox) : inbox[j] \in Frames
  BY <1>1 DEF TypeOK
<1> QED
  BY <1>1, <1>2 DEF TypeOK

\* The frame the pump reads, and those it leaves.
LEMMA HeadFacts ==
    ASSUME TypeOK, inbox # <<>>
    PROVE  /\ Head(inbox) = inbox[1] /\ Head(inbox).task \in Tasks /\ 1 \in DOMAIN inbox
           /\ Tail(inbox) \in Seq(Frames)
           /\ \A k \in DOMAIN Tail(inbox) : k + 1 \in DOMAIN inbox /\ Tail(inbox)[k] = inbox[k + 1]
<1>1. inbox \in Seq(Frames)
  BY DEF TypeOK
<1>2. Head(inbox) \in Frames
  BY <1>1
<1> QED
  BY <1>1, <1>2 DEF Frames

\* The timer that a deletion cancels.
LEMMA DeletedFacts ==
    ASSUME TypeOK, NEW d \in Daily
    PROVE  /\ DeletedTimer(d) \in SUBSET Timers
           /\ \A i \in DeletedTimer(d) : Task(i) = d
           /\ \A i \in Timers : Task(i) = d /\ slot[d] = i[2] => i \in DeletedTimer(d)
<1>1. slot[d] \in Origins \cup {"none"} /\ d \in Tasks
  BY Kinds DEF TypeOK
<1>2. slot[d] # "none" => <<d, slot[d]>> \in Timers /\ <<d, slot[d]>>[1] = d
  BY <1>1, TimerFacts
<1>3. ASSUME NEW i \in Timers, Task(i) = d, slot[d] = i[2]
      PROVE  i \in DeletedTimer(d)
  BY <1>3, TimerFacts DEF Task, Origins, DeletedTimer
<1> QED
  BY <1>2, <1>3 DEF DeletedTimer, Task

\* Every step keeps the types.
LEMMA TypeStep == TypeOK /\ [Next]_vars => TypeOK'
<1> SUFFICES ASSUME TypeOK, [Next]_vars PROVE TypeOK'
  OBVIOUS
<1> USE DEF sessionVars, linkVars, timerVars, histVars
<1>1. CASE Ask
  <2>1. inbox' \in Seq(Frames) /\ asked' \subseteq Tasks
    <3>1. \A t \in Tasks : \A y \in {"add", "delete"} :
            Append(inbox, [type |-> y, task |-> t]) \in Seq(Frames)
      BY DEF TypeOK, Frames
    <3>2. CASE \E t \in Tasks \ asked :
                 /\ inbox' = Append(inbox, [type |-> "add", task |-> t])
                 /\ asked' = asked \cup {t}
      BY <3>1, <3>2 DEF TypeOK
    <3>3. CASE \E d \in asked \cap Daily :
                 /\ inbox' = Append(inbox, [type |-> "delete", task |-> d])
                 /\ UNCHANGED asked
      BY <3>1, <3>3 DEF TypeOK
    <3> QED
      BY <1>1, <3>2, <3>3 DEF Ask
  <2> QED
    BY <1>1, <2>1 DEF Ask, TypeOK
<1>2. CASE WaOpens \/ WaDrops \/ PumpReplies \/ HandleStatus
  <2>1. wa' \in BOOLEAN /\ outages' \in Nat /\ known' \in BOOLEAN /\ pump' \in {"idle", "reply"}
    <3>1. CASE WaOpens
      BY <3>1 DEF WaOpens, TypeOK
    <3>2. CASE WaDrops
      <4>1. wa' \in BOOLEAN /\ known' \in BOOLEAN
        BY <3>2 DEF WaDrops, TypeOK
      <4>2. outages' \in Nat /\ pump' \in {"idle", "reply"}
        BY <3>2 DEF WaDrops, TypeOK
      <4> QED
        BY <4>1, <4>2
    <3>3. CASE PumpReplies
      BY <3>3 DEF PumpReplies, TypeOK
    <3>4. CASE HandleStatus
      BY <3>4 DEF HandleStatus, TypeOK, linkVars
    <3> QED
      BY <1>2, <3>1, <3>2, <3>3, <3>4
  <2>2. UNCHANGED <<sessionVars, inbox, rows, timerVars, histVars>>
    BY <1>2 DEF WaOpens, WaDrops, PumpReplies, HandleStatus
  <2> QED
    BY <2>1, <2>2 DEF TypeOK
<1>3. CASE Start \/ Connects \/ GateOpens \/ StopRequested
  BY <1>3 DEF Start, Connects, GateOpens, StopRequested, TypeOK, Phases
<1>4. CASE RearmPending
  <2>1. rows \cap UNION loaded' \in SUBSET Tasks /\ loaded' \subseteq {OneShot, Daily}
    BY <1>4 DEF RearmPending, TypeOK
  <2>2. Arm(rows \cap UNION loaded', "rearm", {})
    BY <1>4 DEF RearmPending
  <2>3. /\ pc' \in [Timers -> Stages] /\ cancel' \subseteq Timers
        /\ slot' \in [Daily -> Origins \cup {"none"}] /\ notes' \subseteq Tasks \X Reasons
    <3>1. {} \in SUBSET (Tasks \X Reasons) /\ "rearm" \in Origins
      BY DEF Origins
    <3> QED
      BY <2>1, <2>2, <3>1, ArmTypes
  <2> QED
    BY <1>4, <2>1, <2>3 DEF RearmPending, TypeOK, Phases
<1>5. CASE Closes
  <2>1. inbox' \in Seq(Frames)
    BY <1>5, UnreadTypes DEF Closes
  <2> QED
    BY <1>5, <2>1 DEF Closes, TypeOK, Phases
<1>6. CASE CancelAll
  <2>1. PICK c \in Cancelled(Timers) : cancel' = cancel \cup c.set /\ notes' = notes \cup Kept(c)
    BY <1>6 DEF CancelAll
  <2>2. c.set \subseteq Timers /\ Kept(c) \subseteq Tasks \X Reasons
    BY CancelledFacts
  <2> QED
    BY <1>6, <2>1, <2>2 DEF CancelAll, TypeOK, Phases
<1>7. CASE SessionEnds
  BY <1>7, GoneTypes DEF SessionEnds, TypeOK
<1>8. CASE Crash
  <2>1. inbox' \in Seq(Frames)
    BY <1>8, UnreadTypes DEF Crash, TypeOK
  <2>2. done' \in [OneShot -> 0 .. 2] /\ notes' \subseteq Tasks \X Reasons
    <3>1. CASE UNCHANGED <<done, notes>>
      BY <3>1 DEF TypeOK
    <3>2. CASE ~UNCHANGED <<done, notes>>
      <4>1. PICK i \in Holders :
              /\ Task(i) \in OneShot
              /\ done' = [done EXCEPT ![Task(i)] = Twice(@)]
              /\ notes' = notes \cup {<<Task(i), "again">>}
        BY <1>8, <3>2 DEF Crash
      <4> QED
        BY <4>1, DoneTypes, Kinds DEF TypeOK, Reasons
    <3> QED
      BY <3>1, <3>2
  <2> QED
    BY <1>8, <2>1, <2>2, GoneTypes DEF Crash, TypeOK
<1>9. CASE HandleAdd
  <2>1. inbox' \in Seq(Frames) /\ Head(inbox).task \in Tasks
    BY <1>9, HeadFacts DEF HandleAdd
  <2>2. CASE UNCHANGED <<rows, timerVars, notes>>
    BY <1>9, <2>1, <2>2 DEF HandleAdd, TypeOK
  <2>3. CASE ~UNCHANGED <<rows, timerVars, notes>>
    <3> DEFINE t == Head(inbox).task
               more == ({t} \cap OneShot)
                  \X ({"stored"} \cup IF phase \in {"waiting", "recover"} THEN {"early"} ELSE {})
    <3>1. rows' = rows \cup {t} /\ Arm({t}, "frame", more)
      BY <1>9, <2>3 DEF HandleAdd
    <3>2. more \in SUBSET (Tasks \X Reasons) /\ "frame" \in Origins /\ {t} \in SUBSET Tasks
      BY <2>1 DEF Reasons, Origins
    <3> HIDE DEF t, more
    <3>3. /\ pc' \in [Timers -> Stages] /\ cancel' \subseteq Timers
          /\ slot' \in [Daily -> Origins \cup {"none"}] /\ notes' \subseteq Tasks \X Reasons
      BY <3>1, <3>2, ArmTypes
    <3> QED
      BY <1>9, <2>1, <3>1, <3>3 DEF HandleAdd, TypeOK, t
  <2> QED
    BY <2>2, <2>3
<1>10. CASE HandleDelete
  <2>1. inbox' \in Seq(Frames)
    BY <1>10, HeadFacts DEF HandleDelete
  <2>2. CASE UNCHANGED <<rows, timerVars, notes>>
    BY <1>10, <2>1, <2>2 DEF HandleDelete, TypeOK
  <2>3. CASE ~UNCHANGED <<rows, timerVars, notes>>
    <3> DEFINE d == Head(inbox).task
    <3>1. PICK c \in Cancelled(DeletedTimer(d)) :
            /\ d \in Daily /\ rows' = rows \ {d} /\ slot' = [slot EXCEPT ![d] = "none"]
            /\ cancel' = cancel \cup c.set /\ notes' = notes \cup Kept(c) /\ UNCHANGED pc
      BY <1>10, <2>3 DEF HandleDelete
    <3> HIDE DEF d
    <3>2. c.set \subseteq Timers /\ Kept(c) \subseteq Tasks \X Reasons
      BY <3>1, DeletedFacts, CancelledFacts
    <3>3. rows' \subseteq Tasks /\ cancel' \subseteq Timers /\ notes' \subseteq Tasks \X Reasons
          /\ slot' \in [Daily -> Origins \cup {"none"}] /\ pc' \in [Timers -> Stages]
      BY <3>1, <3>2 DEF TypeOK
    <3> QED
      BY <1>10, <2>1, <3>3 DEF HandleDelete, TypeOK
  <2> QED
    BY <2>2, <2>3
<1>11. ASSUME NEW i \in Timers,
              TimerStarts(i) \/ TimerWakes(i) \/ TakesLock(i) \/ ModelReturns(i)
                \/ Moves(i, "typing", "send")
       PROVE  TypeOK'
  <2>1. PICK from \in Stages, to \in Stages : Moves(i, from, to)
    BY <1>11 DEF TimerStarts, TimerWakes, TakesLock, ModelReturns, Stages
  <2> QED
    BY <2>1 DEF Moves, TypeOK
<1>12. ASSUME NEW i \in Timers, TypingEnds(i) \/ Sends(i) \/ SendFails(i)
       PROVE  TypeOK'
  <2>1. CASE Moves(i, "typing", "send")
    BY <2>1, <1>11
  <2>2. CASE ~Moves(i, "typing", "send")
    <3>1. PICK why \in {"sent", "failed", "cutOff"} : TurnEnds(i, why)
      BY <1>12, <2>2 DEF TypingEnds, Sends, SendFails
    <3> QED
      BY <3>1, TurnEndsTypes
  <2> QED
    BY <2>1, <2>2
<1>13. ASSUME NEW i \in Timers, CancelTakes(i)
       PROVE  TypeOK'
  <2>1. rows' \subseteq Tasks /\ cancel' \subseteq Timers /\ pc' \in [Timers -> Stages]
    BY <1>13 DEF CancelTakes, RowsOnCancel, TypeOK, Stages
  <2>2. slot' \in [Daily -> Origins \cup {"none"}]
    BY <1>13 DEF CancelTakes, TypeOK
  <2>3. done' \in [OneShot -> 0 .. 2] /\ notes' \subseteq Tasks \X Reasons
    <3>1. CASE UNCHANGED <<done, notes>>
      BY <3>1 DEF TypeOK
    <3>2. CASE ~UNCHANGED <<done, notes>>
      <4>1. /\ Task(i) \in OneShot
            /\ done' = [done EXCEPT ![Task(i)] = Twice(@)]
            /\ notes' = notes \cup {<<Task(i), "again">>}
        BY <1>13, <3>2 DEF CancelTakes
      <4> QED
        BY <4>1, DoneTypes, Kinds DEF TypeOK, Reasons
    <3> QED
      BY <3>1, <3>2
  <2> QED
    BY <1>13, <2>1, <2>2, <2>3 DEF CancelTakes, TypeOK
<1>14. CASE UNCHANGED vars
  BY <1>14 DEF vars, TypeOK
<1> QED
  BY <1>1, <1>2, <1>3, <1>4, <1>5, <1>6, <1>7, <1>8, <1>9, <1>10, <1>11, <1>12, <1>13, <1>14
  DEF Next

-----------------------------------------------------------------------------
(* What steps of one shape keep.                                           *)

\* A step that neither arms nor ends a timer keeps the armament.
LEMMA ArmamentKept ==
    ASSUME TypeOK, Armament,
           UNCHANGED <<rows, cancel, slot, stuck, loaded>>, notes \subseteq notes',
           \A i \in Timers : pc'[i] = "none" <=> pc[i] = "none",
           phase' \in Before => phase \in Before, phase' = "run" => phase = "run"
    PROVE  Armament'
<1>1. cancel \subseteq Timers
  BY DEF TypeOK
<1>2. CancelledAlive'
  BY <1>1 DEF Armament, CancelledAlive, Alive
<1>3. RearmedLater'
  BY TimerFacts DEF Armament, RearmedLater, Origins
<1>4. \A i \in Timers : Active(i)' <=> Active(i)
  BY DEF Active, Alive
<1>5. OneTimerPerDaily' /\ DeletedIsQuiet'
  BY <1>4 DEF Armament, OneTimerPerDaily, DeletedIsQuiet, Noted
<1>6. StoredIsArmed'
  <2>1. \A t \in rows : \A o \in Origins : Active(<<t, o>>)' <=> Active(<<t, o>>)
    BY <1>4, TimerFacts DEF TypeOK
  <2> QED
    BY <2>1 DEF Armament, StoredIsArmed
<1> QED
  BY <1>2, <1>3, <1>5, <1>6 DEF Armament

\* A session that is gone has no timers.
LEMMA GoneArmament ==
    ASSUME TypeOK, Gone
    PROVE  Armament'
<1>1. \A i \in Timers : pc'[i] = "none"
  BY DEF Gone
<1>2. CancelledAlive' /\ OneTimerPerDaily' /\ DeletedIsQuiet'
  BY <1>1 DEF Gone, CancelledAlive, OneTimerPerDaily, DeletedIsQuiet, Active, Alive
<1>3. RearmedLater'
  BY <1>1, TimerFacts DEF RearmedLater, Origins
<1>4. StoredIsArmed'
  BY DEF Gone, StoredIsArmed
<1> QED
  BY <1>2, <1>3, <1>4 DEF Armament

\* The rest of a sequence of frames: its elements are those of inbox, moved.
RestOf(q) == \E m \in Nat : \A k \in DOMAIN q :
    k \in Nat /\ k + m \in DOMAIN inbox /\ q[k] = inbox[k + m]

\* What a socket loses, what the pump leaves and what it does not touch are rests.
LEMMA Rests ==
    ASSUME TypeOK
    PROVE  /\ RestOf(inbox)
           /\ inbox # <<>> => RestOf(Tail(inbox))
           /\ \A q \in Unread : RestOf(q)
<1>1. inbox \in Seq(Frames)
  BY DEF TypeOK
<1>2. RestOf(inbox)
  <2>1. \A k \in DOMAIN inbox : k \in Nat /\ k + 0 \in DOMAIN inbox /\ inbox[k] = inbox[k + 0]
    BY <1>1
  <2> QED
    BY <2>1 DEF RestOf
<1>3. ASSUME inbox # <<>> PROVE RestOf(Tail(inbox))
  <2>1. \A k \in DOMAIN Tail(inbox) : k \in Nat
    BY <1>1, <1>3
  <2> QED
    BY <1>3, <2>1, HeadFacts DEF RestOf
<1>4. ASSUME NEW q \in Unread PROVE RestOf(q)
  <2>1. PICK k \in 1 .. Len(inbox) + 1 : q = SubSeq(inbox, k, Len(inbox))
    BY DEF Unread
  <2>2. \A j \in DOMAIN q : j \in Nat /\ j + (k - 1) \in DOMAIN inbox /\ q[j] = inbox[j + (k - 1)]
    BY <1>1, <2>1
  <2>3. k - 1 \in Nat
    BY <1>1, <2>1
  <2> QED
    BY <2>2, <2>3 DEF RestOf
<1> QED
  BY <1>2, <1>3, <1>4

\* Frames that stay unread stay fresh when no step touches their tasks.
LEMMA PendingKept ==
    ASSUME TypeOK, PendingIsFresh, RestOf(inbox'), asked \subseteq asked',
           \A t \in Tasks : \A k \in DOMAIN inbox' :
               inbox'[k].type = "add" /\ inbox'[k].task = t /\ Fresh(t) => Fresh(t)'
    PROVE  PendingIsFresh'
<1>1. PICK m \in Nat : \A k \in DOMAIN inbox' :
        k \in Nat /\ k + m \in DOMAIN inbox /\ inbox'[k] = inbox[k + m]
  BY DEF RestOf
<1>2. ASSUME NEW k \in DOMAIN inbox', NEW l \in DOMAIN inbox', inbox'[k].type = "add",
             inbox'[l].type = "add", inbox'[k].task = inbox'[l].task
      PROVE  k = l
  <2>1. k + m = l + m
    BY <1>1, <1>2 DEF PendingIsFresh
  <2> QED
    BY <1>1, <2>1
<1>3. ASSUME NEW k \in DOMAIN inbox', inbox'[k].type = "add", NEW t, t = inbox'[k].task
      PROVE  t \in Tasks /\ t \in asked' /\ Fresh(t)'
  <2>1. inbox'[k] = inbox[k + m] /\ k + m \in DOMAIN inbox
    BY <1>1, <1>3
  <2>2. t \in asked /\ Fresh(t)
    BY <1>3, <2>1 DEF PendingIsFresh
  <2>3. t \in Tasks
    BY <2>2 DEF TypeOK
  <2> QED
    BY <1>3, <2>2, <2>3
<1>4. \A k \in DOMAIN inbox' : \A t : inbox'[k].type = "add" /\ t = inbox'[k].task =>
        t \in asked' /\ Fresh(t)'
  BY <1>3
<1> QED
  BY <1>2, <1>4 DEF PendingIsFresh, Fresh

\* A step that arms nothing and answers only what it notes to be answered again
\* keeps the answers.
LEMMA AnswersKept ==
    ASSUME TypeOK, Answers, RestOf(inbox'), asked' = asked,
           rows' \subseteq rows, \A o \in OneShot : o \in rows => o \in rows',
           notes \subseteq notes',
           \A o \in OneShot : <<o, "stored">> \in notes' => <<o, "stored">> \in notes,
           \A i \in Timers : pc'[i] # "none" => pc[i] # "none",
           \A o \in OneShot : done'[o] = done[o]
               \/ (<<o, "again">> \in notes' /\ ~Fresh(o) /\ done'[o] > 0),
           phase' \in Before => phase \in Before \/ \A i \in Timers : pc'[i] = "none"
    PROVE  Answers'
<1>1. \A t \in Tasks : \A o \in Origins : pc'[<<t, o>>] # "none" => pc[<<t, o>>] # "none"
  BY TimerFacts
<1>2. \A t \in Tasks : Fresh(t) => Fresh(t)'
  BY <1>1, Kinds DEF Fresh
<1>3. PendingIsFresh'
  BY <1>2, PendingKept DEF Answers
<1>4. UnaskedIsFresh'
  BY <1>2 DEF Answers, UnaskedIsFresh
<1>5. EarlyFrames'
  <2>1. \A o \in OneShot : /\ <<o, "frame">> \in Timers /\ <<o, "rearm">> \in Timers
                           /\ o \in Tasks
    BY Kinds, TimerFacts DEF Origins
  <2> QED
    BY <2>1 DEF Answers, EarlyFrames, Noted
<1>6. \A o \in OneShot : Over(o) => Over(o)'
  BY <1>1, Kinds DEF Over
<1>7. AnsweredIsOver' /\ AnsweredOnce'
  BY <1>6 DEF Answers, AnsweredIsOver, AnsweredOnce, Noted
<1>8. KeptUntilServed'
  BY DEF Answers, KeptUntilServed, Noted
<1> QED
  BY <1>3, <1>4, <1>5, <1>7, <1>8 DEF Answers

\* What Arm does when each of the timers it arms is none.
LEMMA ArmFacts ==
    ASSUME TypeOK, Armament, NEW A \in SUBSET Tasks, NEW origin \in Origins, NEW more,
           \A t \in A : pc[<<t, origin>>] = "none", Arm(A, origin, more)
    PROVE  /\ CancelledAlive' /\ OneTimerPerDaily'
           /\ \A t \in A : Active(<<t, origin>>)'
           /\ \A i \in Timers : Task(i) \notin A => pc'[i] = pc[i] /\ (Active(i)' <=> Active(i))
           /\ \A i \in Timers : i[2] # origin => pc'[i] = pc[i]
           /\ notes \subseteq notes' /\ more \subseteq notes'
           /\ \A n \in notes' : n \in notes \/ n[2] = "kept" \/ n \in more
<1>1. PICK c \in Cancelled(Previous(A)) :
        /\ pc' = Armed(A, origin) /\ cancel' = cancel \cup c.set
        /\ slot' = Slots(A, origin) /\ notes' = notes \cup Kept(c) \cup more
  BY DEF Arm
<1>2. /\ Previous(A) \in SUBSET Timers
      /\ \A i \in Previous(A) : Task(i) \in A \cap Daily
      /\ \A i \in Timers : Task(i) \in A \cap Daily /\ slot[Task(i)] = i[2] => i \in Previous(A)
  BY PreviousFacts
<1>3. /\ c.set \subseteq Previous(A) /\ \A i \in c.set : Alive(i)
      /\ \A i \in Previous(A) : Alive(i) => i \in c.set \/ <<Task(i), "kept">> \in Kept(c)
      /\ \A n \in Kept(c) : n[2] = "kept"
  BY <1>2, CancelledFacts
<1>4. \A i \in Timers : pc'[i] = IF Task(i) \in A /\ i[2] = origin THEN "new" ELSE pc[i]
  BY <1>1 DEF Armed
<1>5. \A d \in Daily : slot'[d] = IF d \in A THEN origin ELSE slot[d]
  BY <1>1 DEF Slots
<1>6. cancel \subseteq Timers /\ c.set \subseteq Timers
  BY <1>2, <1>3 DEF TypeOK
<1>7. CancelledAlive'
  BY <1>1, <1>3, <1>4, <1>6 DEF Armament, CancelledAlive, Alive
<1>8. ASSUME NEW t \in A PROVE Active(<<t, origin>>)'
  <2>1. /\ <<t, origin>> \in Timers /\ Task(<<t, origin>>) = t /\ <<t, origin>>[2] = origin
    BY TimerFacts DEF Task
  <2>2. ~Alive(<<t, origin>>)
    BY DEF Alive
  <2>3. <<t, origin>> \notin cancel'
    BY <1>1, <1>3, <2>2 DEF Armament, CancelledAlive
  <2> QED
    BY <1>4, <2>1, <2>3 DEF Active, Alive
<1>9. ASSUME NEW i \in Timers, Task(i) \notin A
      PROVE  pc'[i] = pc[i] /\ (Active(i)' <=> Active(i))
  BY <1>1, <1>2, <1>3, <1>4, <1>9 DEF Active, Alive
<1>10. ASSUME NEW i \in Timers, Task(i) \in Daily, Active(i)'
       PROVE  (slot[Task(i)] = i[2] \/ Noted(Task(i), "kept"))'
  <2>1. CASE Task(i) \notin A
    BY <1>1, <1>5, <1>9, <1>10, <2>1 DEF Armament, OneTimerPerDaily, Noted, Task
  <2>2. CASE Task(i) \in A /\ i[2] = origin
    BY <1>5, <1>10, <2>2 DEF Task
  <2>3. CASE Task(i) \in A /\ i[2] # origin
    <3>1. Active(i) /\ i \notin c.set
      BY <1>1, <1>4, <1>10, <2>3 DEF Active, Alive
    <3>2. slot[Task(i)] = i[2] \/ <<Task(i), "kept">> \in notes
      BY <1>10, <3>1 DEF Armament, OneTimerPerDaily, Noted
    <3>3. <<Task(i), "kept">> \in notes'
      BY <1>1, <1>2, <1>3, <1>10, <2>3, <3>1, <3>2 DEF Active
    <3> QED
      BY <3>3 DEF Noted, Task
  <2> QED
    BY <2>1, <2>2, <2>3
<1>11. OneTimerPerDaily'
  BY <1>10 DEF OneTimerPerDaily, Task
<1> QED
  BY <1>1, <1>3, <1>4, <1>7, <1>8, <1>9, <1>11

-----------------------------------------------------------------------------
(* The steps.                                                              *)

\* A step that touches neither tasks nor frames keeps both.
LEMMA QuietStep ==
    ASSUME Inv, UNCHANGED <<inbox, rows, cancel, slot, histVars>>,
           \A i \in Timers : pc'[i] = "none" <=> pc[i] = "none",
           phase' \in Before => phase \in Before, phase' = "run" => phase = "run"
    PROVE  Armament' /\ Answers'
<1>1. Armament'
  BY ArmamentKept DEF Inv, histVars
<1>2. RestOf(inbox')
  BY Rests DEF Inv
<1>3. Answers'
  BY <1>2, AnswersKept DEF Inv, histVars
<1> QED
  BY <1>1, <1>3

\* A new frame is the only one of its task, which has left no trace yet.
LEMMA AskStep == Inv /\ Ask => Armament' /\ Answers'
<1> SUFFICES ASSUME Inv, Ask PROVE Armament' /\ Answers'
  OBVIOUS
<1>1. UNCHANGED <<sessionVars, rows, timerVars, loaded, stuck, done, notes>>
  BY DEF Ask
<1>2. Armament'
  BY <1>1, ArmamentKept DEF Inv, sessionVars, timerVars, Before
<1>3. \A t \in Tasks : Fresh(t)' <=> Fresh(t)
  BY <1>1 DEF Fresh, timerVars
<1>4. inbox \in Seq(Frames) /\ asked \subseteq Tasks
  BY DEF Inv, TypeOK
<1>5. PICK t \in Tasks, y \in {"add", "delete"} :
        /\ inbox' = Append(inbox, [type |-> y, task |-> t])
        /\ y = "add" => t \notin asked
        /\ asked' = IF y = "add" THEN asked \cup {t} ELSE asked
  <2>1. CASE \E t \in Tasks \ asked :
               /\ inbox' = Append(inbox, [type |-> "add", task |-> t])
               /\ asked' = asked \cup {t}
    BY <2>1
  <2>2. CASE \E d \in asked \cap Daily :
               /\ inbox' = Append(inbox, [type |-> "delete", task |-> d])
               /\ UNCHANGED asked
    BY <2>2, <1>4
  <2> QED
    BY <2>1, <2>2 DEF Ask
<1>6. /\ DOMAIN inbox' = DOMAIN inbox \cup {Len(inbox) + 1} /\ Len(inbox) + 1 \notin DOMAIN inbox
      /\ \A k \in DOMAIN inbox : inbox'[k] = inbox[k]
      /\ inbox'[Len(inbox) + 1] = [type |-> y, task |-> t]
  BY <1>4, <1>5
<1>7. \A k \in DOMAIN inbox : inbox[k].type = "add" =>
        inbox[k].task \in asked /\ Fresh(inbox[k].task)
  BY DEF Inv, Answers, PendingIsFresh
<1>8. y = "add" => Fresh(t)
  BY <1>5 DEF Inv, Answers, UnaskedIsFresh
<1>9. ASSUME NEW k \in DOMAIN inbox', NEW l \in DOMAIN inbox', inbox'[k].type = "add",
             inbox'[l].type = "add", inbox'[k].task = inbox'[l].task
      PROVE  k = l
  BY <1>5, <1>6, <1>7, <1>9 DEF Inv, Answers, PendingIsFresh
<1>10. ASSUME NEW k \in DOMAIN inbox', inbox'[k].type = "add", NEW u, u = inbox'[k].task
       PROVE  u \in asked' /\ Fresh(u)'
  <2>1. u \in asked' /\ Fresh(u)
    BY <1>5, <1>6, <1>7, <1>8, <1>10
  <2> QED
    BY <1>1, <2>1 DEF Fresh, timerVars
<1>11. PendingIsFresh'
  <2>1. \A k \in DOMAIN inbox' : \A u : inbox'[k].type = "add" /\ u = inbox'[k].task =>
          u \in asked' /\ Fresh(u)'
    BY <1>10
  <2> QED
    BY <1>9, <2>1 DEF PendingIsFresh, Fresh
<1>12. UnaskedIsFresh'
  BY <1>3, <1>5 DEF Inv, Answers, UnaskedIsFresh
<1>13. EarlyFrames' /\ AnsweredIsOver' /\ AnsweredOnce' /\ KeptUntilServed'
  BY <1>1 DEF Inv, Answers, EarlyFrames, AnsweredIsOver, AnsweredOnce, KeptUntilServed, Over,
     Noted, timerVars, sessionVars
<1> QED
  BY <1>2, <1>11, <1>12, <1>13 DEF Answers

\* The socket closes: frames are lost, no timer is touched.
LEMMA ClosesStep == Inv /\ Closes => Armament' /\ Answers'
<1> SUFFICES ASSUME Inv, Closes PROVE Armament' /\ Answers'
  OBVIOUS
<1>1. UNCHANGED <<rows, cancel, slot, pc, histVars>> /\ phase' \notin Before /\ phase' # "run"
  BY DEF Closes, timerVars, Before
<1>2. Armament'
  BY <1>1, ArmamentKept DEF Inv, histVars
<1>3. RestOf(inbox')
  BY Rests DEF Inv, Closes
<1> QED
  BY <1>1, <1>2, <1>3, AnswersKept DEF Inv, histVars

\* The teardown cancels every live timer.
LEMMA CancelAllStep == Inv /\ CancelAll => Armament' /\ Answers'
<1> SUFFICES ASSUME Inv, CancelAll PROVE Armament' /\ Answers'
  OBVIOUS
<1>1. UNCHANGED <<inbox, rows, slot, pc, asked, loaded, stuck, done>>
      /\ phase' \notin Before /\ phase' # "run"
  BY DEF CancelAll, linkVars, Before
<1>2. PICK c \in Cancelled(Timers) : cancel' = cancel \cup c.set /\ notes' = notes \cup Kept(c)
  BY DEF CancelAll
<1>3. /\ c.set \subseteq Timers
      /\ \A i \in c.set : Alive(i)
      /\ \A n \in Kept(c) : n[2] = "kept"
  BY CancelledFacts
<1>4. CancelledAlive' /\ RearmedLater' /\ StoredIsArmed'
  BY <1>1, <1>2, <1>3 DEF Inv, Armament, CancelledAlive, RearmedLater, StoredIsArmed, Alive
<1>5. \A i \in Timers : Active(i)' => Active(i)
  BY <1>1, <1>2 DEF Active, Alive
<1>6. OneTimerPerDaily' /\ DeletedIsQuiet'
  BY <1>1, <1>2, <1>5 DEF Inv, Armament, OneTimerPerDaily, DeletedIsQuiet, Noted
<1>7. RestOf(inbox')
  BY <1>1, Rests DEF Inv
<1>8. \A o \in OneShot : <<o, "stored">> \in notes' => <<o, "stored">> \in notes
  <2>1. \A o : <<o, "stored">>[2] # "kept"
    OBVIOUS
  <2> QED
    BY <1>2, <1>3, <2>1
<1>9. Answers'
  BY <1>1, <1>2, <1>7, <1>8, AnswersKept DEF Inv
<1> QED
  BY <1>4, <1>6, <1>9 DEF Armament

\* The end of a session leaves the rows.
LEMMA SessionEndsStep == Inv /\ SessionEnds => Armament' /\ Answers'
<1> SUFFICES ASSUME Inv, SessionEnds PROVE Armament' /\ Answers'
  OBVIOUS
<1>1. Armament'
  BY GoneArmament DEF Inv, SessionEnds
<1>2. UNCHANGED <<inbox, rows, asked, done, notes>> /\ \A i \in Timers : pc'[i] = "none"
  BY DEF SessionEnds, Gone
<1>3. RestOf(inbox')
  BY <1>2, Rests DEF Inv
<1>4. Answers'
  BY <1>2, <1>3, AnswersKept DEF Inv
<1> QED
  BY <1>1, <1>4

\* A message sent although its task is not over: its task has a live timer.
LEMMA AnsweredAgain ==
    ASSUME TypeOK, NEW i \in Timers, Task(i) \in OneShot, pc[i] # "none",
           done' = [done EXCEPT ![Task(i)] = Twice(@)],
           notes' = notes \cup {<<Task(i), "again">>}
    PROVE  \A o \in OneShot : done'[o] = done[o]
               \/ (<<o, "again">> \in notes' /\ ~Fresh(o) /\ done'[o] > 0)
<1>1. ~Fresh(Task(i))
  BY TimerFacts DEF Fresh, Task
<1> QED
  BY <1>1 DEF TypeOK, Twice

\* The process dies, perhaps just after it sent a message.
LEMMA CrashStep == Inv /\ Crash => Armament' /\ Answers'
<1> SUFFICES ASSUME Inv, Crash PROVE Armament' /\ Answers'
  OBVIOUS
<1>1. Armament'
  BY GoneArmament DEF Inv, Crash
<1>2. UNCHANGED <<rows, asked>> /\ \A i \in Timers : pc'[i] = "none"
  BY DEF Crash, Gone
<1>3. RestOf(inbox')
  BY Rests DEF Inv, Crash
<1>4. CASE UNCHANGED <<done, notes>>
  BY <1>1, <1>2, <1>3, <1>4, AnswersKept DEF Inv
<1>5. CASE ~UNCHANGED <<done, notes>>
  <2>1. PICK i \in Holders :
          /\ pc[i] = "send" /\ Task(i) \in OneShot
          /\ done' = [done EXCEPT ![Task(i)] = Twice(@)]
          /\ notes' = notes \cup {<<Task(i), "again">>}
    BY <1>5 DEF Crash
  <2>2. \A o \in OneShot : done'[o] = done[o]
          \/ (<<o, "again">> \in notes' /\ ~Fresh(o) /\ done'[o] > 0)
    BY <2>1, AnsweredAgain DEF Inv, Holders
  <2>3. \A o \in OneShot : <<o, "stored">> \in notes' => <<o, "stored">> \in notes
    BY <2>1
  <2>4. Answers'
    BY <1>2, <1>3, <2>1, <2>2, <2>3, AnswersKept DEF Inv
  <2> QED
    BY <1>1, <2>4
<1> QED
  BY <1>4, <1>5

\* A cancelled timer ends; its message may have left.
LEMMA CancelTakesStep == ASSUME Inv, NEW i \in Timers, CancelTakes(i) PROVE Armament' /\ Answers'
<1>1. /\ Alive(i) /\ i \in cancel
      /\ pc' = [pc EXCEPT ![i] = "none"] /\ cancel' = cancel \ {i} /\ rows' = rows
      /\ UNCHANGED <<sessionVars, linkVars, asked, loaded, stuck>>
  BY DEF CancelTakes, RowsOnCancel
<1>2. \A j \in Timers : pc'[j] = IF j = i THEN "none" ELSE pc[j]
  BY <1>1 DEF Inv, TypeOK
<1>3. \A j \in Timers : Active(j)' <=> Active(j)
  BY <1>1, <1>2 DEF Active, Alive
<1>4. /\ notes \subseteq notes'
      /\ \A o \in OneShot : <<o, "stored">> \in notes' => <<o, "stored">> \in notes
      /\ \A o \in OneShot : done'[o] = done[o]
           \/ (<<o, "again">> \in notes' /\ ~Fresh(o) /\ done'[o] > 0)
  <2>1. CASE UNCHANGED <<done, notes>>
    BY <2>1
  <2>2. CASE ~UNCHANGED <<done, notes>>
    <3>1. /\ pc[i] = "send" /\ Task(i) \in OneShot
          /\ done' = [done EXCEPT ![Task(i)] = Twice(@)]
          /\ notes' = notes \cup {<<Task(i), "again">>}
      BY <2>2 DEF CancelTakes
    <3>2. \A o \in OneShot : done'[o] = done[o]
            \/ (<<o, "again">> \in notes' /\ ~Fresh(o) /\ done'[o] > 0)
      BY <3>1, AnsweredAgain DEF Inv
    <3> QED
      BY <3>1, <3>2
  <2> QED
    BY <2>1, <2>2
<1>5. CancelledAlive' /\ RearmedLater'
  <2>1. \A j \in cancel' : Alive(j)'
    BY <1>1, <1>2 DEF Inv, TypeOK, Armament, CancelledAlive, Alive
  <2>2. \A t \in Tasks : pc[<<t, "rearm">>] = "none" => pc'[<<t, "rearm">>] = "none"
    BY <1>2, TimerFacts DEF Origins
  <2> QED
    BY <1>1, <2>1, <2>2 DEF Inv, Armament, CancelledAlive, RearmedLater, sessionVars
<1>6. OneTimerPerDaily'
  <2>1. ASSUME NEW j \in Timers, Task(j) \in Daily, Active(j)'
        PROVE  (slot[Task(j)] = j[2] \/ Noted(Task(j), "kept"))'
    <3>1. Active(j) /\ j # i
      BY <1>2, <1>3, <2>1 DEF Active, Alive
    <3>2. slot[Task(j)] = j[2] \/ <<Task(j), "kept">> \in notes
      BY <2>1, <3>1 DEF Inv, Armament, OneTimerPerDaily, Noted
    <3>3. CASE slot[Task(j)] = j[2]
      <4>1. ~(Task(i) = Task(j) /\ i[2] = j[2])
        BY <3>1, TimerFacts DEF Task
      <4>2. slot'[Task(j)] = slot[Task(j)]
        BY <2>1, <3>3, <4>1 DEF CancelTakes, Inv, TypeOK
      <4> QED
        BY <3>3, <4>2 DEF Task
    <3> QED
      BY <1>4, <3>2, <3>3 DEF Noted, Task
  <2> QED
    BY <2>1 DEF OneTimerPerDaily, Task
<1>7. DeletedIsQuiet'
  BY <1>1, <1>3, <1>4 DEF Inv, Armament, DeletedIsQuiet, Noted
<1>8. StoredIsArmed'
  <2>1. \A t \in rows : \A o \in Origins : Active(<<t, o>>)' <=> Active(<<t, o>>)
    BY <1>3, TimerFacts DEF Inv, TypeOK
  <2> QED
    BY <1>1, <2>1 DEF Inv, Armament, StoredIsArmed, sessionVars
<1>9. RestOf(inbox') /\ phase' = phase
  BY <1>1, Rests DEF Inv, linkVars, sessionVars
<1>10. Answers'
  BY <1>1, <1>2, <1>4, <1>9, AnswersKept DEF Inv
<1> QED
  BY <1>5, <1>6, <1>7, <1>8, <1>10 DEF Armament

\* A new task is stored and armed; it was fresh.
LEMMA HandleAddStep == Inv /\ HandleAdd => Armament' /\ Answers'
<1> SUFFICES ASSUME Inv, HandleAdd PROVE Armament' /\ Answers'
  OBVIOUS
<1>1. /\ phase \in Up /\ inbox # <<>> /\ Head(inbox).type = "add" /\ inbox' = Tail(inbox)
      /\ UNCHANGED <<sessionVars, asked, loaded, stuck, done>>
  BY DEF HandleAdd, Reading
<1>2. RestOf(inbox')
  BY <1>1, Rests DEF Inv
<1>3. CASE UNCHANGED <<rows, timerVars, notes>>
  <2>1. Armament'
    BY <1>1, <1>3, ArmamentKept DEF Inv, timerVars, sessionVars
  <2>2. Answers'
    BY <1>1, <1>2, <1>3, AnswersKept DEF Inv, timerVars, sessionVars
  <2> QED
    BY <2>1, <2>2
<1>4. CASE ~UNCHANGED <<rows, timerVars, notes>>
  <2> DEFINE t == Head(inbox).task
             why == {"stored"} \cup IF phase \in {"waiting", "recover"} THEN {"early"} ELSE {}
             more == ({t} \cap OneShot) \X why
  <2>1. rows' = rows \cup {t} /\ Arm({t}, "frame", more)
    BY <1>4 DEF HandleAdd
  <2>2. /\ t \in Tasks /\ 1 \in DOMAIN inbox /\ inbox[1].type = "add" /\ inbox[1].task = t
        /\ \A k \in DOMAIN Tail(inbox) : k + 1 \in DOMAIN inbox /\ Tail(inbox)[k] = inbox[k + 1]
    BY <1>1, HeadFacts DEF Inv
  <2> HIDE DEF t
  <2>3. Fresh(t) /\ t \in asked
    BY <2>2 DEF Inv, Answers, PendingIsFresh
  <2>4. \A n \in more : n[1] = t /\ n[1] \in OneShot
    OBVIOUS
  <2>5. t \in OneShot => <<t, "stored">> \in more
                         /\ (phase \in {"waiting", "recover"} => <<t, "early">> \in more)
    OBVIOUS
  <2> HIDE DEF more, why
  <2>6. /\ CancelledAlive' /\ OneTimerPerDaily'
        /\ \A u \in {t} : Active(<<u, "frame">>)'
        /\ \A i \in Timers : Task(i) \notin {t} => pc'[i] = pc[i] /\ (Active(i)' <=> Active(i))
        /\ \A i \in Timers : i[2] # "frame" => pc'[i] = pc[i]
        /\ notes \subseteq notes' /\ more \subseteq notes'
        /\ \A n \in notes' : n \in notes \/ n[2] = "kept" \/ n \in more
    <3>1. "frame" \in Origins /\ {t} \in SUBSET Tasks /\ \A u \in {t} : pc[<<u, "frame">>] = "none"
      BY <2>2, <2>3 DEF Origins, Fresh
    <3> QED
      BY <2>1, <3>1, ArmFacts DEF Inv
  <2>7. \A u \in Tasks : /\ pc'[<<u, "rearm">>] = pc[<<u, "rearm">>]
                         /\ u # t => \A o \in Origins :
                              /\ pc'[<<u, o>>] = pc[<<u, o>>]
                              /\ Active(<<u, o>>)' <=> Active(<<u, o>>)
    BY <2>6, TimerFacts DEF Origins, Task
  <2>8. RearmedLater'
    BY <1>1, <2>7 DEF Inv, Armament, RearmedLater, sessionVars
  <2>9. DeletedIsQuiet'
    <3>1. ASSUME NEW i \in Timers, Task(i) \in Daily \ rows', Active(i)'
          PROVE  <<Task(i), "kept">> \in notes'
      BY <2>1, <2>6, <3>1 DEF Inv, Armament, DeletedIsQuiet, Noted
    <3> QED
      BY <3>1 DEF DeletedIsQuiet, Noted, Task
  <2>10. StoredIsArmed'
    <3>1. ASSUME phase = "run", NEW u \in rows'
          PROVE  \/ \E o \in Origins : Active(<<u, o>>)'
                 \/ u \in stuck
                 \/ \A S \in loaded : u \notin S
      <4>1. CASE u = t
        BY <2>6, <4>1 DEF Origins
      <4>2. CASE u # t
        <5>1. u \in rows /\ u \in Tasks
          BY <2>1, <3>1, <4>2 DEF Inv, TypeOK
        <5> QED
          BY <2>7, <3>1, <4>2, <5>1 DEF Inv, Armament, StoredIsArmed
      <4> QED
        BY <4>1, <4>2
    <3> QED
      BY <1>1, <3>1 DEF StoredIsArmed, sessionVars
  <2>11. \A u \in Tasks : u # t /\ Fresh(u) => Fresh(u)'
    BY <1>1, <2>1, <2>7 DEF Fresh
  <2>12. PendingIsFresh'
    <3>1. \A k \in DOMAIN inbox' : inbox'[k].type = "add" => inbox'[k].task # t
      <4>1. ASSUME NEW k \in DOMAIN inbox', inbox'[k].type = "add", inbox'[k].task = t
            PROVE  FALSE
        <5>1. k + 1 \in DOMAIN inbox /\ inbox[k + 1].type = "add" /\ inbox[k + 1].task = t
          BY <1>1, <2>2, <4>1
        <5>2. k + 1 = 1
          BY <2>2, <5>1 DEF Inv, Answers, PendingIsFresh
        <5>3. k \in Nat \ {0}
          BY <1>1 DEF Inv, TypeOK
        <5> QED
          BY <5>2, <5>3
      <4> QED
        BY <4>1
    <3> QED
      BY <1>1, <1>2, <2>11, <3>1, PendingKept DEF Inv, Answers
  <2>13. UnaskedIsFresh'
    BY <1>1, <2>3, <2>11 DEF Inv, Answers, UnaskedIsFresh
  <2>14. EarlyFrames'
    <3>1. ASSUME NEW o \in OneShot, pc'[<<o, "frame">>] # "none",
                 phase \in Before \/ pc'[<<o, "rearm">>] # "none"
          PROVE  <<o, "early">> \in notes'
      <4>1. o \in Tasks
        BY Kinds
      <4>2. CASE o = t
        <5>1. pc'[<<o, "rearm">>] = "none"
          BY <2>3, <2>7, <4>1, <4>2 DEF Fresh, Origins
        <5>2. phase \in {"waiting", "recover"}
          BY <1>1, <3>1, <5>1 DEF Before, Up
        <5> QED
          BY <2>5, <2>6, <4>2, <5>2
      <4>3. CASE o # t
        BY <2>6, <2>7, <3>1, <4>1, <4>3 DEF Inv, Answers, EarlyFrames, Noted, Origins
      <4> QED
        BY <4>2, <4>3
    <3> QED
      BY <1>1, <3>1 DEF EarlyFrames, Noted, sessionVars
  <2>15. AnsweredIsOver' /\ AnsweredOnce'
    <3>1. \A o \in OneShot : o # t /\ Over(o) => Over(o)'
      BY <2>1, <2>7, Kinds DEF Over
    <3> QED
      BY <1>1, <2>3, <2>6, <3>1 DEF Inv, Answers, AnsweredIsOver, AnsweredOnce, Noted, Fresh
  <2>16. KeptUntilServed'
    <3>1. \A o \in OneShot : o # t => (<<o, "stored">> \in notes' => <<o, "stored">> \in notes)
      <4>1. \A o : <<o, "stored">>[1] = o /\ <<o, "stored">>[2] # "kept"
        OBVIOUS
      <4> QED
        BY <2>4, <2>6, <4>1
    <3> QED
      BY <1>1, <2>1, <2>6, <3>1 DEF Inv, Answers, KeptUntilServed, Noted
  <2> QED
    BY <2>6, <2>8, <2>9, <2>10, <2>12, <2>13, <2>14, <2>15, <2>16 DEF Armament, Answers
<1> QED
  BY <1>3, <1>4

\* A daily task is deleted, and its timer is cancelled.
LEMMA HandleDeleteStep == Inv /\ HandleDelete => Armament' /\ Answers'
<1> SUFFICES ASSUME Inv, HandleDelete PROVE Armament' /\ Answers'
  OBVIOUS
<1>1. /\ inbox # <<>> /\ inbox' = Tail(inbox)
      /\ UNCHANGED <<sessionVars, asked, loaded, stuck, done>>
  BY DEF HandleDelete
<1>2. RestOf(inbox')
  BY <1>1, Rests DEF Inv
<1>3. CASE UNCHANGED <<rows, timerVars, notes>>
  <2>1. Armament'
    BY <1>1, <1>3, ArmamentKept DEF Inv, timerVars, sessionVars
  <2>2. Answers'
    BY <1>1, <1>2, <1>3, AnswersKept DEF Inv, timerVars, sessionVars
  <2> QED
    BY <2>1, <2>2
<1>4. CASE ~UNCHANGED <<rows, timerVars, notes>>
  <2> DEFINE d == Head(inbox).task
  <2>1. PICK c \in Cancelled(DeletedTimer(d)) :
          /\ d \in Daily /\ rows' = rows \ {d} /\ slot' = [slot EXCEPT ![d] = "none"]
          /\ cancel' = cancel \cup c.set /\ notes' = notes \cup Kept(c) /\ UNCHANGED pc
    BY <1>4 DEF HandleDelete
  <2> HIDE DEF d
  <2>2. /\ DeletedTimer(d) \in SUBSET Timers
        /\ \A i \in DeletedTimer(d) : Task(i) = d
        /\ \A i \in Timers : Task(i) = d /\ slot[d] = i[2] => i \in DeletedTimer(d)
    BY <2>1, DeletedFacts DEF Inv
  <2>3. /\ c.set \subseteq DeletedTimer(d)
        /\ \A i \in c.set : Alive(i)
        /\ \A i \in DeletedTimer(d) : Alive(i) => i \in c.set \/ <<Task(i), "kept">> \in Kept(c)
        /\ \A n \in Kept(c) : n[2] = "kept"
    BY <2>2, CancelledFacts
  <2>4. CancelledAlive' /\ RearmedLater'
    BY <1>1, <2>1, <2>3 DEF Inv, Armament, CancelledAlive, RearmedLater, Alive, sessionVars
  <2>5. \A i \in Timers : Active(i)' => Active(i) /\ i \notin c.set
    BY <2>1 DEF Active, Alive
  <2>6. ASSUME NEW i \in Timers, Task(i) = d, Active(i)'
        PROVE  <<d, "kept">> \in notes'
    <3>1. Active(i) /\ i \notin c.set
      BY <2>5, <2>6
    <3>2. CASE slot[d] = i[2]
      BY <2>1, <2>2, <2>3, <2>6, <3>1, <3>2 DEF Active
    <3>3. CASE slot[d] # i[2]
      BY <2>1, <2>6, <3>1, <3>3 DEF Inv, Armament, OneTimerPerDaily, Noted
    <3> QED
      BY <3>2, <3>3
  <2>7. OneTimerPerDaily'
    <3>1. ASSUME NEW i \in Timers, Task(i) \in Daily, Active(i)'
          PROVE  (slot[Task(i)] = i[2] \/ Noted(Task(i), "kept"))'
      <4>1. CASE Task(i) = d
        BY <2>6, <3>1, <4>1 DEF Noted, Task
      <4>2. CASE Task(i) # d
        <5>1. slot[Task(i)] = i[2] \/ <<Task(i), "kept">> \in notes
          BY <2>5, <3>1 DEF Inv, Armament, OneTimerPerDaily, Noted
        <5>2. slot'[Task(i)] = slot[Task(i)]
          BY <2>1, <3>1, <4>2 DEF Inv, TypeOK
        <5> QED
          BY <2>1, <5>1, <5>2 DEF Noted, Task
      <4> QED
        BY <4>1, <4>2
    <3> QED
      BY <3>1 DEF OneTimerPerDaily, Task
  <2>8. DeletedIsQuiet'
    <3>1. ASSUME NEW i \in Timers, Task(i) \in Daily \ rows', Active(i)'
          PROVE  <<Task(i), "kept">> \in notes'
      BY <2>1, <2>5, <2>6, <3>1 DEF Inv, Armament, DeletedIsQuiet, Noted
    <3> QED
      BY <3>1 DEF DeletedIsQuiet, Noted, Task
  <2>9. StoredIsArmed'
    <3>1. \A t \in rows' : \A o \in Origins : Active(<<t, o>>) => Active(<<t, o>>)'
      <4>1. ASSUME NEW t \in rows', NEW o \in Origins, Active(<<t, o>>)
            PROVE  Active(<<t, o>>)'
        <5>1. t \in Tasks /\ t # d
          BY <2>1 DEF Inv, TypeOK
        <5>2. Task(<<t, o>>) = t
          BY <5>1, TimerFacts DEF Task
        <5>3. <<t, o>> \notin c.set
          BY <2>2, <2>3, <5>1, <5>2
        <5> QED
          BY <2>1, <4>1, <5>3 DEF Active, Alive
      <4> QED
        BY <4>1
    <3> QED
      BY <1>1, <2>1, <3>1 DEF Inv, Armament, StoredIsArmed, sessionVars
  <2>10. \A o \in OneShot : <<o, "stored">> \in notes' => <<o, "stored">> \in notes
    <3>1. \A o : <<o, "stored">>[2] # "kept"
      OBVIOUS
    <3> QED
      BY <2>1, <2>3, <3>1
  <2>11. \A o \in OneShot : o \in rows => o \in rows'
    BY <2>1, Kinds
  <2>12. Answers'
    BY <1>1, <1>2, <2>1, <2>10, <2>11, AnswersKept DEF Inv, sessionVars
  <2> QED
    BY <2>4, <2>7, <2>8, <2>9, <2>12 DEF Armament
<1> QED
  BY <1>3, <1>4

\* The stored tasks are armed, once.
LEMMA RearmStep == Inv /\ RearmPending => Armament' /\ Answers'
<1> SUFFICES ASSUME Inv, RearmPending PROVE Armament' /\ Answers'
  OBVIOUS
<1> DEFINE more == {}
<1>0. \A n \in more : FALSE
  OBVIOUS
<1>1. PICK A \in SUBSET Tasks :
        /\ phase = "recover" /\ phase' = "run" /\ Arm(A, "rearm", more)
        /\ UNCHANGED <<linkVars, rows, asked, stuck, done>>
        /\ A = rows \cap UNION loaded'
  BY DEF RearmPending, Inv, TypeOK
<1> HIDE DEF more
<1>2. A \subseteq rows /\ \A t \in rows \ A : \A S \in loaded' : t \notin S
  BY <1>1
<1>3. /\ CancelledAlive' /\ OneTimerPerDaily'
      /\ \A t \in A : Active(<<t, "rearm">>)'
      /\ \A i \in Timers : Task(i) \notin A => pc'[i] = pc[i] /\ (Active(i)' <=> Active(i))
      /\ \A i \in Timers : i[2] # "rearm" => pc'[i] = pc[i]
      /\ notes \subseteq notes'
      /\ \A n \in notes' : n \in notes \/ n[2] = "kept" \/ n \in more
  <2>1. "rearm" \in Origins /\ \A t \in A : pc[<<t, "rearm">>] = "none"
    BY <1>1, <1>2 DEF Inv, Armament, RearmedLater, Before, Origins
  <2> QED
    BY <1>1, <1>2, <2>1, ArmFacts DEF Inv
<1>4. RearmedLater'
  BY <1>1 DEF RearmedLater, Before
<1>5. DeletedIsQuiet'
  <2>1. ASSUME NEW i \in Timers, Task(i) \in Daily \ rows, Active(i)'
        PROVE  <<Task(i), "kept">> \in notes'
    BY <1>2, <1>3, <2>1 DEF Inv, Armament, DeletedIsQuiet, Noted
  <2> QED
    BY <1>1, <2>1 DEF DeletedIsQuiet, Noted, Task
<1>6. StoredIsArmed'
  BY <1>1, <1>2, <1>3 DEF StoredIsArmed, Origins
<1>7. \A u \in Tasks : /\ pc'[<<u, "frame">>] = pc[<<u, "frame">>]
                       /\ u \notin rows => \A o \in Origins : pc'[<<u, o>>] = pc[<<u, o>>]
  BY <1>2, <1>3, TimerFacts DEF Origins, Task
<1>8. \A u \in Tasks : Fresh(u) => Fresh(u)'
  BY <1>1, <1>7 DEF Fresh
<1>9. RestOf(inbox')
  BY <1>1, Rests DEF Inv, linkVars
<1>10. PendingIsFresh' /\ UnaskedIsFresh'
  <2>1. PendingIsFresh'
    BY <1>1, <1>8, <1>9, PendingKept DEF Inv, Answers
  <2> QED
    BY <1>1, <1>8, <2>1 DEF Inv, Answers, UnaskedIsFresh
<1>11. EarlyFrames'
  BY <1>1, <1>3, <1>7, Kinds DEF Inv, Answers, EarlyFrames, Noted, Before
<1>12. AnsweredIsOver' /\ AnsweredOnce'
  <2>1. \A o \in OneShot : Over(o) => Over(o)'
    BY <1>1, <1>7, Kinds DEF Over
  <2> QED
    BY <1>1, <1>3, <2>1 DEF Inv, Answers, AnsweredIsOver, AnsweredOnce, Noted
<1>13. KeptUntilServed'
  <2>1. \A o : <<o, "stored">>[2] # "kept"
    OBVIOUS
  <2> QED
    BY <1>0, <1>1, <1>3, <2>1 DEF Inv, Answers, KeptUntilServed, Noted
<1> QED
  BY <1>3, <1>4, <1>5, <1>6, <1>10, <1>11, <1>12, <1>13 DEF Armament, Answers

\* The turn of a one-shot task ends: its timer ends, its row is deleted or stuck.
LEMMA RetiredStep ==
    ASSUME Inv, NEW i \in Timers, NEW why \in {"sent", "failed", "cutOff"},
           Active(i), Task(i) \in OneShot, TurnEnds(i, why)
    PROVE  Armament' /\ Answers'
<1>1. PICK o \in OneShot : o = Task(i) /\ o \in Tasks
  BY Kinds
<1>2. PICK deleted \in BOOLEAN :
        /\ rows' = IF deleted THEN rows \ {o} ELSE rows
        /\ stuck' = IF deleted \/ o \notin rows THEN stuck ELSE stuck \cup {o}
        /\ notes' = notes
              \cup (IF why = "sent" THEN {} ELSE {<<o, why>>})
              \cup (IF deleted \/ o \notin rows THEN {} ELSE {<<o, "again">>})
        /\ pc' = [pc EXCEPT ![i] = "none"]
        /\ UNCHANGED <<cancel, slot>>
  BY <1>1 DEF TurnEnds, Retired, RowAfter
<1>3. /\ UNCHANGED <<sessionVars, linkVars, asked, loaded>>
      /\ done' = IF why = "sent" THEN [done EXCEPT ![o] = Twice(@)] ELSE done
  BY <1>1 DEF TurnEnds
<1>4. \A j \in Timers : pc'[j] = IF j = i THEN "none" ELSE pc[j]
  BY <1>2 DEF Inv, TypeOK
<1>5. \A u \in Tasks : \A g \in Origins :
        /\ pc'[<<u, g>>] # "none" => pc[<<u, g>>] # "none"
        /\ u # o => pc'[<<u, g>>] = pc[<<u, g>>] /\ (Active(<<u, g>>)' <=> Active(<<u, g>>))
  <2>1. ASSUME NEW u \in Tasks, NEW g \in Origins
        PROVE  <<u, g>> \in Timers /\ (u # o => <<u, g>> # i)
    BY <1>1, TimerFacts DEF Task
  <2> QED
    BY <1>2, <1>4, <2>1 DEF Active, Alive
<1>6. CancelledAlive' /\ RearmedLater'
  <2>1. CancelledAlive'
    BY <1>2, <1>4 DEF Inv, TypeOK, Armament, CancelledAlive, Active, Alive
  <2>2. RearmedLater'
    BY <1>3, <1>5 DEF Inv, Armament, RearmedLater, sessionVars, Origins
  <2> QED
    BY <2>1, <2>2
<1>7. OneTimerPerDaily' /\ DeletedIsQuiet'
  <2>1. \A j \in Timers : Active(j)' => Active(j)
    BY <1>2, <1>4 DEF Active, Alive
  <2>2. \A d \in Daily : d \in rows => d \in rows'
    BY <1>1, <1>2, Kinds
  <2>3. notes \subseteq notes' /\ slot' = slot
    BY <1>2
  <2>4. OneTimerPerDaily'
    BY <2>1, <2>3 DEF Inv, Armament, OneTimerPerDaily, Noted
  <2>5. DeletedIsQuiet'
    BY <2>1, <2>2, <2>3 DEF Inv, Armament, DeletedIsQuiet, Noted
  <2> QED
    BY <2>4, <2>5
<1>8. StoredIsArmed'
  <2>1. ASSUME phase = "run", NEW u \in rows'
        PROVE  \/ \E g \in Origins : Active(<<u, g>>)'
               \/ u \in stuck'
               \/ \A S \in loaded : u \notin S
    <3>1. u \in rows /\ u \in Tasks /\ stuck \subseteq stuck'
      BY <1>2, <2>1 DEF Inv, TypeOK
    <3>2. CASE u = o
      BY <1>2, <2>1, <3>1, <3>2
    <3>3. CASE u # o
      BY <1>5, <2>1, <3>1, <3>3 DEF Inv, Armament, StoredIsArmed
    <3> QED
      BY <3>2, <3>3
  <2> QED
    BY <1>3, <2>1 DEF StoredIsArmed, sessionVars
<1>9. \A u \in Tasks : Fresh(u) => u # o
  BY <1>1, TimerFacts DEF Fresh, Active, Alive, Task
<1>10. \A u \in Tasks : Fresh(u) => Fresh(u)'
  BY <1>2, <1>3, <1>5, <1>9 DEF Fresh, Inv, TypeOK
<1>11. RestOf(inbox')
  BY <1>3, Rests DEF Inv, linkVars
<1>12. PendingIsFresh' /\ UnaskedIsFresh'
  <2>1. PendingIsFresh'
    BY <1>3, <1>10, <1>11, PendingKept DEF Inv, Answers
  <2> QED
    BY <1>3, <1>10, <2>1 DEF Inv, Answers, UnaskedIsFresh
<1>13. EarlyFrames'
  BY <1>2, <1>3, <1>5, Kinds DEF Inv, Answers, EarlyFrames, Noted, Origins, sessionVars
<1>14. \A u \in OneShot : u # o => (Over(u) => Over(u)') /\ done'[u] = done[u]
  BY <1>2, <1>3, <1>5, Kinds DEF Over, Inv, TypeOK
<1>15. <<o, "again">> \in notes' \/ <<o, "early">> \in notes' \/ Over(o)'
  <2>1. CASE \E g \in Origins : pc'[<<o, g>>] # "none"
    <3>1. PICK g \in Origins : pc'[<<o, g>>] # "none"
      BY <2>1
    <3>2. <<o, g>> # i /\ i = <<o, i[2]>> /\ i[2] \in Origins /\ pc[i] # "none" /\ pc[<<o, g>>] # "none"
      BY <1>1, <1>4, <1>5, <3>1, TimerFacts DEF Active, Alive, Task
    <3>3. pc[<<o, "frame">>] # "none" /\ pc[<<o, "rearm">>] # "none"
      BY <3>2 DEF Origins
    <3> QED
      BY <1>2, <3>3 DEF Inv, Answers, EarlyFrames, Noted
  <2>2. CASE \A g \in Origins : pc'[<<o, g>>] = "none"
    BY <1>2, <2>2 DEF Over
  <2> QED
    BY <2>1, <2>2
<1>16. AnsweredIsOver'
  BY <1>2, <1>14, <1>15 DEF Inv, Answers, AnsweredIsOver, Noted
<1>17. AnsweredOnce'
  <2>1. ASSUME done'[o] = 2 PROVE <<o, "again">> \in notes \/ <<o, "early">> \in notes
    <3>1. done[o] > 0
      BY <1>3, <2>1 DEF Inv, TypeOK, Twice
    <3>2. ~Over(o)
      BY <1>1, TimerFacts DEF Over, Active, Alive, Task
    <3> QED
      BY <3>1, <3>2 DEF Inv, Answers, AnsweredIsOver, Noted
  <2> QED
    BY <1>2, <1>14, <2>1 DEF Inv, Answers, AnsweredOnce, Noted
<1>18. KeptUntilServed'
  <2>1. \A u \in OneShot : <<u, "stored">> \in notes' => <<u, "stored">> \in notes
    BY <1>2
  <2>2. \/ done'[o] > 0
        \/ <<o, "failed">> \in notes' \/ <<o, "cutOff">> \in notes'
    BY <1>2, <1>3 DEF Inv, TypeOK, Twice
  <2>3. \A u \in OneShot : u # o => (u \notin rows' => u \notin rows)
    BY <1>2
  <2> QED
    BY <1>2, <1>14, <2>1, <2>2, <2>3 DEF Inv, Answers, KeptUntilServed, Noted
<1> QED
  BY <1>6, <1>7, <1>8, <1>12, <1>13, <1>16, <1>17, <1>18 DEF Armament, Answers

\* The turn of a daily task ends: its timer is the one of the next day.
LEMMA NextDayStep ==
    ASSUME Inv, NEW i \in Timers, NEW why \in {"sent", "failed", "cutOff"},
           Active(i), Task(i) \notin OneShot, TurnEnds(i, why)
    PROVE  Armament' /\ Answers'
<1>1. PICK d \in Daily : d = Task(i) /\ d \in Tasks /\ i[2] \in Origins
  BY Kinds, TimerFacts DEF Task
<1>2. /\ UNCHANGED <<sessionVars, linkVars, asked, loaded, rows, stuck, done>>
      /\ NextDay(i)
  BY DEF TurnEnds, NextDay
<1>3. PICK c \in Cancelled({j \in Previous({d}) : j # i}) :
        /\ pc' = [pc EXCEPT ![i] = "new"] /\ cancel' = cancel \cup c.set
        /\ slot' = [slot EXCEPT ![d] = i[2]] /\ notes' = notes \cup Kept(c)
  BY <1>1, <1>2 DEF NextDay
<1>4. /\ Previous({d}) \in SUBSET Timers
      /\ \A j \in Previous({d}) : Task(j) = d
      /\ \A j \in Timers : Task(j) = d /\ slot[d] = j[2] => j \in Previous({d})
  <2>1. {d} \in SUBSET Tasks
    BY <1>1
  <2> QED
    BY <2>1, PreviousFacts DEF Inv
<1>5. /\ c.set \subseteq Timers /\ i \notin c.set
      /\ \A j \in c.set : Alive(j) /\ Task(j) = d
      /\ \A j \in Previous({d}) : j # i /\ Alive(j) =>
           j \in c.set \/ <<Task(j), "kept">> \in Kept(c)
      /\ \A n \in Kept(c) : n[2] = "kept"
  <2>1. {j \in Previous({d}) : j # i} \in SUBSET Timers
    BY <1>4
  <2> QED
    BY <1>4, <2>1, CancelledFacts
<1>6. \A j \in Timers : pc'[j] = IF j = i THEN "new" ELSE pc[j]
  BY <1>3 DEF Inv, TypeOK
<1>7. /\ Active(i)'
      /\ \A j \in Timers : Active(j)' => Active(j) /\ (j # i => j \notin c.set)
      /\ \A j \in Timers : Task(j) # d /\ Active(j) => Active(j)'
  BY <1>1, <1>3, <1>5, <1>6 DEF Active, Alive
<1>8. CancelledAlive' /\ RearmedLater'
  <2>1. CancelledAlive'
    BY <1>3, <1>5, <1>6 DEF Inv, TypeOK, Armament, CancelledAlive, Alive
  <2>2. \A t \in Tasks : pc[<<t, "rearm">>] = "none" => pc'[<<t, "rearm">>] = "none"
    BY <1>6, TimerFacts DEF Origins, Active, Alive
  <2> QED
    BY <1>2, <2>1, <2>2 DEF Inv, Armament, RearmedLater, sessionVars
<1>9. OneTimerPerDaily'
  <2>1. ASSUME NEW j \in Timers, Task(j) \in Daily, Active(j)'
        PROVE  slot'[Task(j)] = j[2] \/ <<Task(j), "kept">> \in notes'
    <3>1. Active(j)
      BY <1>7, <2>1
    <3>2. slot[Task(j)] = j[2] \/ <<Task(j), "kept">> \in notes
      BY <2>1, <3>1 DEF Inv, Armament, OneTimerPerDaily, Noted
    <3>3. CASE j = i
      BY <1>1, <1>3, <3>3 DEF Inv, TypeOK
    <3>4. CASE j # i /\ Task(j) = d
      BY <1>3, <1>4, <1>5, <1>7, <2>1, <3>1, <3>2, <3>4 DEF Active
    <3>5. CASE Task(j) # d
      BY <1>3, <2>1, <3>2, <3>5 DEF Inv, TypeOK
    <3> QED
      BY <3>3, <3>4, <3>5
  <2> QED
    BY <2>1 DEF OneTimerPerDaily, Noted, Task
<1>10. DeletedIsQuiet'
  BY <1>2, <1>3, <1>7 DEF Inv, Armament, DeletedIsQuiet, Noted
<1>11. StoredIsArmed'
  <2>1. ASSUME phase = "run", NEW u \in rows
        PROVE  \/ \E g \in Origins : Active(<<u, g>>)'
               \/ u \in stuck
               \/ \A S \in loaded : u \notin S
    <3>1. u \in Tasks
      BY DEF Inv, TypeOK
    <3>2. CASE u = d
      <4>1. i = <<u, i[2]>>
        BY <1>1, <3>2, TimerFacts DEF Task
      <4> QED
        BY <1>1, <1>7, <4>1
    <3>3. CASE u # d
      <4>1. \A g \in Origins : Active(<<u, g>>) => Active(<<u, g>>)'
        BY <1>7, <3>1, <3>3, TimerFacts DEF Task
      <4> QED
        BY <2>1, <4>1 DEF Inv, Armament, StoredIsArmed
    <3> QED
      BY <3>2, <3>3
  <2> QED
    BY <1>2, <2>1 DEF StoredIsArmed, sessionVars
<1>12. \A o \in OneShot : <<o, "stored">> \in notes' => <<o, "stored">> \in notes
  <2>1. \A o : <<o, "stored">>[2] # "kept"
    OBVIOUS
  <2> QED
    BY <1>3, <1>5, <2>1
<1>13. \A j \in Timers : pc'[j] # "none" => pc[j] # "none"
  BY <1>6 DEF Active, Alive
<1>14. RestOf(inbox') /\ phase' = phase
  BY <1>2, Rests DEF Inv, linkVars, sessionVars
<1>15. Answers'
  BY <1>2, <1>3, <1>12, <1>13, <1>14, AnswersKept DEF Inv
<1> QED
  BY <1>8, <1>9, <1>10, <1>11, <1>15 DEF Armament

-----------------------------------------------------------------------------
(* The invariant.                                                          *)

\* The invariant holds at the start.
LEMMA InvInitial == Init => Inv
<1> SUFFICES ASSUME Init PROVE Inv
  OBVIOUS
<1>1. \A i \in Timers : pc[i] = "none"
  BY DEF Init
<1>2. \A t \in Tasks : \A o \in Origins : pc[<<t, o>>] = "none"
  BY <1>1, TimerFacts
<1>3. \A o \in OneShot : done[o] = 0
  BY DEF Init
<1>4. Armament
  BY <1>1, <1>2 DEF Init, Armament, CancelledAlive, RearmedLater, OneTimerPerDaily,
     DeletedIsQuiet, StoredIsArmed, Active, Alive, Origins
<1>5. PendingIsFresh
  BY DEF Init, PendingIsFresh
<1>6. UnaskedIsFresh
  BY <1>2, <1>3 DEF Init, UnaskedIsFresh, Fresh
<1>7. EarlyFrames
  BY <1>2, Kinds DEF EarlyFrames, Origins
<1>8. AnsweredIsOver /\ AnsweredOnce /\ KeptUntilServed
  BY <1>3 DEF Init, AnsweredIsOver, AnsweredOnce, KeptUntilServed, Noted
<1> QED
  BY <1>4, <1>5, <1>6, <1>7, <1>8, TypeInitial DEF Inv, Answers

\* Every step keeps the invariant.
LEMMA InvStep == Inv /\ [Next]_vars => Inv'
<1> SUFFICES ASSUME Inv, [Next]_vars PROVE Armament' /\ Answers'
  BY TypeStep DEF Inv
<1>1. CASE Ask \/ Closes \/ CancelAll \/ SessionEnds \/ Crash
  BY <1>1, AskStep, ClosesStep, CancelAllStep, SessionEndsStep, CrashStep
<1>2. CASE HandleAdd \/ HandleDelete \/ RearmPending
  BY <1>2, HandleAddStep, HandleDeleteStep, RearmStep
<1>3. CASE WaOpens \/ WaDrops \/ PumpReplies \/ HandleStatus
  <2>1. UNCHANGED <<phase, inbox, rows, cancel, slot, pc, histVars>>
    BY <1>3 DEF WaOpens, WaDrops, PumpReplies, HandleStatus, sessionVars, timerVars
  <2> QED
    BY <2>1, QuietStep
<1>4. CASE Start \/ Connects \/ GateOpens \/ StopRequested
  <2>1. /\ UNCHANGED <<inbox, rows, cancel, slot, pc, histVars>>
        /\ phase' \in Before => phase \in Before
        /\ phase' # "run"
    BY <1>4 DEF Start, Connects, GateOpens, StopRequested, linkVars, timerVars, Before
  <2> QED
    BY <2>1, QuietStep
<1>5. ASSUME NEW i \in Timers, NEW from \in Stages \ {"none"}, NEW to \in Stages \ {"none"},
             Moves(i, from, to)
      PROVE  Armament' /\ Answers'
  <2>1. UNCHANGED <<phase, inbox, rows, cancel, slot, histVars>>
    BY <1>5 DEF Moves, sessionVars, linkVars
  <2>2. \A j \in Timers : pc'[j] = "none" <=> pc[j] = "none"
    BY <1>5 DEF Moves, Inv, TypeOK
  <2> QED
    BY <2>1, <2>2, QuietStep
<1>6. ASSUME NEW i \in Timers,
             TimerStarts(i) \/ TimerWakes(i) \/ TakesLock(i) \/ ModelReturns(i)
               \/ Moves(i, "typing", "send")
      PROVE  Armament' /\ Answers'
  BY <1>5, <1>6 DEF TimerStarts, TimerWakes, TakesLock, ModelReturns, Stages
<1>7. ASSUME NEW i \in Timers, NEW why \in {"sent", "failed", "cutOff"}, Active(i), TurnEnds(i, why)
      PROVE  Armament' /\ Answers'
  BY <1>7, RetiredStep, NextDayStep
<1>8. ASSUME NEW i \in Timers, TypingEnds(i) \/ Sends(i) \/ SendFails(i)
      PROVE  Armament' /\ Answers'
  <2>1. Active(i)
    BY <1>8 DEF TypingEnds, Sends, SendFails, Active, Alive
  <2>2. Moves(i, "typing", "send") \/ \E why \in {"sent", "failed", "cutOff"} : TurnEnds(i, why)
    BY <1>8 DEF TypingEnds, Sends, SendFails
  <2> QED
    BY <1>6, <1>7, <2>1, <2>2
<1>9. ASSUME NEW i \in Timers, CancelTakes(i)
      PROVE  Armament' /\ Answers'
  BY <1>9, CancelTakesStep
<1>10. CASE UNCHANGED vars
  <2>1. UNCHANGED <<phase, inbox, rows, cancel, slot, pc, histVars>>
    BY <1>10 DEF vars, sessionVars, linkVars, timerVars
  <2> QED
    BY <2>1, QuietStep
<1> QED
  BY <1>1, <1>2, <1>3, <1>4, <1>6, <1>8, <1>9, <1>10 DEF Next

\* The invariant of the module.
THEOREM Invariance == Spec => []Inv
BY InvInitial, InvStep, PTL DEF Spec

\* The state of tasks, timers and session is always of its type.
THEOREM TypeCorrect == Spec => []TypeOK
<1>1. Inv => TypeOK
  BY DEF Inv
<1> QED
  BY Invariance, <1>1, PTL

\* A daily task always has at most one timer that will go on, the one of _timers
\* (DailyTaskRunner._arm), unless a cancellation was swallowed.
THEOREM OneTimerPerDailyAlways == Spec => []OneTimerPerDaily
<1>1. Inv => OneTimerPerDaily
  BY DEF Inv, Armament
<1> QED
  BY Invariance, <1>1, PTL

\* A deleted daily task never fires again (delete_for_chat), unless a
\* cancellation was swallowed.
THEOREM DeletedIsQuietAlways == Spec => []DeletedIsQuiet
<1>1. Inv => DeletedIsQuiet
  BY DEF Inv, Armament
<1> QED
  BY Invariance, <1>1, PTL

\* In a running session every stored task has a timer (rearm_pending, schedule),
\* except after a failure of the database.
THEOREM StoredIsArmedAlways == Spec => []StoredIsArmed
<1>1. Inv => StoredIsArmed
  BY DEF Inv, Armament
<1> QED
  BY Invariance, <1>1, PTL

\* A one-shot task leaves the database only after its turn (_fire): cancellations,
\* stops and crashes keep it.
THEOREM KeptUntilServedAlways == Spec => []KeptUntilServed
<1>1. Inv => KeptUntilServed
  BY DEF Inv, Answers
<1> QED
  BY Invariance, <1>1, PTL

\* A one-shot task is answered at most once, except where its row outlived its
\* message or its frame overtook rearm_pending.
THEOREM AnsweredOnceAlways == Spec => []AnsweredOnce
<1>1. Inv => AnsweredOnce
  BY DEF Inv, Answers
<1> QED
  BY Invariance, <1>1, PTL
=============================================================================
