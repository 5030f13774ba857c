-------------------------- MODULE ChatSessionProofs --------------------------
(***************************************************************************)
(* Theorems of ChatSession for any kinds, faults and bounds: one turn at a *)
(* time (OneTurnAtATime), and what the chat remembers (OwnOnce,            *)
(* UserTurnsInOrder) and forgets (ResetForgets).                           *)
(*                                                                         *)
(* The argument about the memory.  The messages that arrived are on their  *)
(* way in one line: the burst of the turn, what is drained, what waits,    *)
(* what is on the wire, each in order and each before the next (Line).     *)
(* The history holds the bot's messages once and the user's in order, and  *)
(* nothing of it is still to be remembered (Remembers).  AppendPayloads    *)
(* folds a burst into the history; what it keeps is shown for the least    *)
(* prefix that would break it (Least).                                     *)
(***************************************************************************)
EXTENDS ChatSession, SequenceTheorems, WellFoundedInduction, TLAPS

-----------------------------------------------------------------------------
(* The lock.                                                               *)

\* The lock is a queue of tasks and whoever works in a turn is at its head.
LockInv ==
    /\ lockQ \in Seq(Task)
    /\ turn \in [{"pump", "cold"} -> {"none", "lock", "llm2", "command"}]
    /\ OneTurnAtATime

\* Joining a queue leaves its head in place.
LEMMA JoinKeepsHead ==
    ASSUME NEW q \in Seq(Task), NEW t \in Task
    PROVE  /\ Append(q, t) \in Seq(Task)
           /\ q # <<>> => Append(q, t) # <<>> /\ Head(Append(q, t)) = Head(q)
  OBVIOUS

LEMMA InitLock == Init => LockInv
  BY DEF Init, LockInv, OneTurnAtATime, InTurn, WorkerTask, ColdTask, PumpTask, Task

\* Nobody enters a turn and the queue at most grows: the invariant stays.
LEMMA NobodyEnters ==
    ASSUME LockInv,
           lockQ' = lockQ \/ \E t \in Task : lockQ' = Append(lockQ, t),
           worker' \in InTurn => worker \in InTurn,
           turn' \in [{"pump", "cold"} -> {"none", "lock", "llm2", "command"}],
           \A a \in {"pump", "cold"} : turn'[a] = "llm2" => turn[a] = "llm2"
    PROVE  LockInv'
<1>1. /\ lockQ' \in Seq(Task)
      /\ lockQ # <<>> => lockQ' # <<>> /\ Head(lockQ') = Head(lockQ)
  BY JoinKeepsHead DEF LockInv
<1>2. OneTurnAtATime'
  BY <1>1 DEF LockInv, OneTurnAtATime, Holds, InTurn, WorkerTask, TaskOf, PumpTask, ColdTask
<1> QED BY <1>1, <1>2 DEF LockInv

\* The holder leaves its turn: nobody else was in one, so nobody is left.
LEMMA HolderLeaves ==
    ASSUME LockInv, lockQ # <<>>, Release,
           worker' \notin InTurn,
           turn' \in [{"pump", "cold"} -> {"none", "lock", "llm2", "command"}],
           \A a \in {"pump", "cold"} : turn'[a] # "llm2"
    PROVE  LockInv'
  BY DEF LockInv, OneTurnAtATime, Release

\* While one task is at the head of the queue the others are in no turn.
LEMMA OthersOut ==
    ASSUME LockInv
    PROVE  /\ Holds(WorkerTask) => \A a \in {"pump", "cold"} : turn[a] # "llm2"
           /\ \A a \in {"pump", "cold"} : Holds(TaskOf(a)) =>
                 /\ worker \notin InTurn
                 /\ \A b \in {"pump", "cold"} : turn[b] = "llm2" => b = a
           /\ \A n : Holds(AckTask(n)) =>
                 /\ worker \notin InTurn
                 /\ \A b \in {"pump", "cold"} : turn[b] # "llm2"
  BY DEF LockInv, OneTurnAtATime, Holds, TaskOf, WorkerTask, ColdTask, PumpTask, AckTask

LEMMA GatewayLock == LockInv /\ Gateway => LockInv'
<1> SUFFICES ASSUME LockInv, Gateway PROVE LockInv'
  OBVIOUS
<1>1. UNCHANGED <<worker, turn, lockQ>>
  BY DEF Gateway, Arrive, ArriveReset, ArriveEcho, ArriveAck, ArriveMedia, AskCommand, workVars
<1> QED BY <1>1, NobodyEnters DEF LockInv

LEMMA PumpLock == LockInv /\ Pump => LockInv'
<1> SUFFICES ASSUME LockInv, Pump PROVE LockInv'
  OBVIOUS
<1>0. PumpTask \in Task
  BY DEF PumpTask, Task
<1>1. CASE PumpRead
  <2>1. lockQ' = lockQ \/ lockQ' = Append(lockQ, PumpTask)
    BY <1>1 DEF PumpRead, ReadMessage, Enqueue, Join
  <2>2. worker' \in InTurn => worker \in InTurn
    BY <1>1 DEF PumpRead, ReadMessage, Enqueue, InTurn
  <2>3. \/ turn' = turn
        \/ turn' = [turn EXCEPT !["pump"] = "lock"]
        \/ turn' = [turn EXCEPT !["pump"] = "command"]
    BY <1>1 DEF PumpRead, ReadMessage, Enqueue
  <2>4. /\ turn' \in [{"pump", "cold"} -> {"none", "lock", "llm2", "command"}]
        /\ \A a \in {"pump", "cold"} : turn'[a] = "llm2" => turn[a] = "llm2"
    BY <2>3 DEF LockInv
  <2> QED BY <1>0, <2>1, <2>2, <2>4, NobodyEnters
<1>2. CASE PumpCommand
  <2>1. Holds(TaskOf("pump")) /\ turn["pump"] = "command"
    BY <1>2 DEF PumpCommand, TaskOf
  <2>2. worker \notin InTurn /\ turn["cold"] # "llm2"
    BY <2>1, OthersOut
  <2>3. worker' = worker /\ Release /\ turn' = [turn EXCEPT !["pump"] = "none"]
    BY <1>2 DEF PumpCommand, workVars
  <2>4. /\ turn' \in [{"pump", "cold"} -> {"none", "lock", "llm2", "command"}]
        /\ \A a \in {"pump", "cold"} : turn'[a] # "llm2"
    BY <2>2, <2>3 DEF LockInv
  <2> QED BY <2>1, <2>2, <2>3, <2>4, HolderLeaves DEF Holds
<1> QED BY <1>1, <1>2 DEF Pump

LEMMA ColdStartLock == LockInv /\ ColdStart => LockInv'
<1> SUFFICES ASSUME LockInv, ColdStart PROVE LockInv'
  OBVIOUS
<1>1. lockQ' = Append(lockQ, ColdTask) /\ ColdTask \in Task
  BY DEF ColdStart, Join, ColdTask, Task
<1>2. worker' = worker /\ turn' = [turn EXCEPT !["cold"] = "lock"]
  BY DEF ColdStart, workVars
<1>3. /\ turn' \in [{"pump", "cold"} -> {"none", "lock", "llm2", "command"}]
      /\ \A a \in {"pump", "cold"} : turn'[a] = "llm2" => turn[a] = "llm2"
  BY <1>2 DEF LockInv
<1> QED BY <1>1, <1>2, <1>3, NobodyEnters

LEMMA ColdLock ==
    ASSUME LockInv, NEW a \in {"pump", "cold"}, Cold(a)
    PROVE  LockInv'
<1>1. CASE ColdBegin(a)
  <2>1. Holds(TaskOf(a)) /\ lockQ' = lockQ /\ worker' = worker
    BY <1>1 DEF ColdBegin, SystemTurn, workVars
  <2>2. turn' = [turn EXCEPT ![a] = "llm2"]
    BY <1>1 DEF ColdBegin, SystemTurn
  <2>3. worker \notin InTurn /\ \A b \in {"pump", "cold"} : turn[b] = "llm2" => b = a
    BY <2>1, OthersOut
  <2>4. turn' \in [{"pump", "cold"} -> {"none", "lock", "llm2", "command"}]
    BY <2>2 DEF LockInv
  <2>5. \A b \in {"pump", "cold"} : turn'[b] = "llm2" => b = a
    BY <2>2, <2>3 DEF LockInv
  <2> QED BY <2>1, <2>3, <2>4, <2>5 DEF LockInv, OneTurnAtATime, Holds
<1>2. CASE ColdSend(a)
  <2>1. UNCHANGED <<worker, turn, lockQ>>
    BY <1>2 DEF ColdSend, workVars
  <2> QED BY <2>1, NobodyEnters DEF LockInv
<1>3. CASE ColdEnd(a)
  <2>1. turn[a] = "llm2" /\ Release /\ worker' = worker
        /\ turn' = [turn EXCEPT ![a] = "none"]
    BY <1>3 DEF ColdEnd, workVars
  <2>2. Holds(TaskOf(a))
    BY <2>1 DEF LockInv, OneTurnAtATime
  <2>3. worker \notin InTurn /\ \A b \in {"pump", "cold"} : turn[b] = "llm2" => b = a
    BY <2>2, OthersOut
  <2>4. /\ turn' \in [{"pump", "cold"} -> {"none", "lock", "llm2", "command"}]
        /\ \A b \in {"pump", "cold"} : turn'[b] # "llm2"
    BY <2>1, <2>3 DEF LockInv
  <2> QED BY <2>1, <2>2, <2>3, <2>4, HolderLeaves DEF Holds
<1> QED BY <1>1, <1>2, <1>3 DEF Cold

LEMMA AckLock ==
    ASSUME LockInv, NEW n \in 1 .. MaxSends, Ack(n)
    PROVE  LockInv'
<1>1. CASE AckStart(n)
  <2>1. AckTask(n) \in Task
    BY ChatAssumption DEF AckTask, Task, ChatAssumption
  <2>2. lockQ' = lockQ \/ lockQ' = Append(lockQ, AckTask(n))
    BY <1>1 DEF AckStart, Join
  <2>3. worker' = worker /\ turn' = turn
    BY <1>1 DEF AckStart, workVars
  <2> QED BY <2>1, <2>2, <2>3, NobodyEnters DEF LockInv
<1>2. CASE AckHydrate(n)
  <2>1. Holds(AckTask(n)) /\ Release /\ worker' = worker /\ turn' = turn
    BY <1>2 DEF AckHydrate, workVars
  <2> QED BY <2>1, OthersOut, HolderLeaves DEF LockInv, Holds
<1> QED BY <1>1, <1>2 DEF Ack

\* A turn of the worker that ends leaves nobody in a turn.
LEMMA TurnOverLock ==
    ASSUME LockInv, Holds(WorkerTask), TurnOver
    PROVE  LockInv'
<1>1. Release /\ worker' = "awake" /\ turn' = turn
  BY DEF TurnOver
<1> QED BY <1>1, OthersOut, HolderLeaves DEF LockInv, Holds, InTurn

LEMMA WorkerLock == LockInv /\ Worker => LockInv'
<1> SUFFICES ASSUME LockInv, Worker PROVE LockInv'
  OBVIOUS
<1>0. worker \in InTurn => Holds(WorkerTask)
  BY DEF LockInv, OneTurnAtATime
<1>1. CASE Exit \/ Drain \/ ProcessCommand \/ CommandFails
  <2>1. turn' = turn /\ lockQ' = lockQ /\ worker' \notin InTurn
    BY <1>1 DEF Exit, Drain, ProcessCommand, CommandFails, InTurn
  <2> QED BY <2>1, NobodyEnters DEF LockInv
<1>2. CASE AskLock
  <2>1. turn' = turn /\ worker' \notin InTurn
    BY <1>2 DEF AskLock, InTurn
  <2>2. (lockQ' = lockQ \/ lockQ' = Append(lockQ, WorkerTask)) /\ WorkerTask \in Task
    BY <1>2 DEF AskLock, Join, WorkerTask, Task
  <2> QED BY <2>1, <2>2, NobodyEnters DEF LockInv
<1>3. CASE RememberOnly
  BY <1>3, TurnOverLock DEF RememberOnly
<1>4. CASE BeginTurn
  <2>1. Holds(WorkerTask) /\ lockQ' = lockQ /\ turn' = turn
    BY <1>4 DEF BeginTurn
  <2> QED BY <2>1, OthersOut DEF LockInv, OneTurnAtATime, Holds
<1>5. CASE Route \/ Interrupt \/ MediaTimeout \/ Reply
  <2>1. turn' = turn /\ lockQ' = lockQ /\ worker \in InTurn
    BY <1>5 DEF Route, Interrupt, MediaTimeout, Reply, InTurn
  <2> QED BY <2>1, NobodyEnters DEF LockInv
<1>6. CASE Apply
  <2>1. Holds(WorkerTask)
    BY <1>0, <1>6 DEF Apply, InTurn
  <2>2. CASE TurnOver
    BY <2>1, <2>2, TurnOverLock
  <2>3. CASE ~TurnOver
    <3>1. turn' = turn /\ lockQ' = lockQ /\ worker \in InTurn
      BY <1>6, <2>3 DEF Apply, InTurn
    <3> QED BY <3>1, NobodyEnters DEF LockInv
  <2> QED BY <2>2, <2>3
<1>7. CASE EndTurn
  BY <1>0, <1>7, TurnOverLock DEF EndTurn, InTurn
<1>8. CASE HandlerError
  BY <1>0, <1>8, TurnOverLock DEF HandlerError
<1> QED BY <1>1, <1>2, <1>3, <1>4, <1>5, <1>6, <1>7, <1>8 DEF Worker

LEMMA LockStep == LockInv /\ [Next]_vars => LockInv'
<1> SUFFICES ASSUME LockInv, [Next]_vars PROVE LockInv'
  OBVIOUS
<1>1. CASE UNCHANGED vars
  BY <1>1, NobodyEnters DEF LockInv, vars, workVars
<1>2. CASE Next
  BY <1>2, GatewayLock, PumpLock, WorkerLock, ColdStartLock, ColdLock, AckLock DEF Next
<1> QED BY <1>1, <1>2

\* No two of the worker, a cold turn and a turn of the pump ever work on the
\* chat's history together: whoever is in a turn holds the asyncio.Lock, and the
\* lock passes from its holder to the first that waits.
THEOREM OneTurnAtATimeAlways == Spec => []OneTurnAtATime
<1>1. LockInv => OneTurnAtATime
  BY DEF LockInv
<1> QED BY <1>1, InitLock, LockStep, PTL DEF Spec

-----------------------------------------------------------------------------
(* The messages on their way, in the order of their arrival.               *)

Elems(q)      == {q[i] : i \in 1 .. Len(q)}
Increasing(q) == \A i, j \in 1 .. Len(q) : i < j => q[i] < q[j]
Before(S, T)  == \A x \in S : \A y \in T : x < y

\* The messages among the frames of the wire.
Told(w) == {w[i].id : i \in {j \in 1 .. Len(w) : w[j].type = "message"}}
ToldInOrder(w) ==
    \A i, j \in 1 .. Len(w) :
        i < j /\ w[i].type = "message" /\ w[j].type = "message" => w[i].id < w[j].id

\* A burst, what is drained, what waits and what is on the wire, of n messages.
Line(b, t, p, w, n) ==
    /\ n \in Nat
    /\ b \in Seq(1 .. n) /\ t \in Seq(1 .. n) /\ p \in Seq(1 .. n)
    /\ w \in Seq(Frame) /\ Told(w) \subseteq 1 .. n
    /\ Increasing(b) /\ Increasing(t) /\ Increasing(p) /\ ToldInOrder(w)
    /\ Before(Elems(b), Elems(t)) /\ Before(Elems(b), Elems(p)) /\ Before(Elems(b), Told(w))
    /\ Before(Elems(t), Elems(p)) /\ Before(Elems(t), Told(w))
    /\ Before(Elems(p), Told(w))

LEMMA Appended ==
    ASSUME NEW n \in Nat, NEW q \in Seq(1 .. n), NEW m \in 1 .. n
    PROVE  /\ Append(q, m) \in Seq(1 .. n)
           /\ Elems(Append(q, m)) = Elems(q) \cup {m}
           /\ Increasing(q) /\ Before(Elems(q), {m}) => Increasing(Append(q, m))
<1> DEFINE r == Append(q, m)
<1>1. /\ r \in Seq(1 .. n) /\ Len(r) = Len(q) + 1 /\ Len(q) \in Nat
      /\ \A i \in 1 .. Len(q) : r[i] = q[i]
      /\ r[Len(q) + 1] = m
  OBVIOUS
<1> HIDE DEF r
<1>2. Elems(r) = Elems(q) \cup {m}
  <2>1. ASSUME NEW x \in Elems(r) PROVE x \in Elems(q) \cup {m}
    <3>1. PICK i \in 1 .. Len(r) : x = r[i]
      BY <2>1 DEF Elems
    <3>2. i \in 1 .. Len(q) \/ i = Len(q) + 1
      BY <1>1, <3>1
    <3> QED BY <1>1, <3>1, <3>2 DEF Elems
  <2>2. ASSUME NEW x \in Elems(q) PROVE x \in Elems(r)
    <3>1. PICK i \in 1 .. Len(q) : x = q[i]
      BY <2>2 DEF Elems
    <3>2. i \in 1 .. Len(r) /\ x = r[i]
      BY <1>1, <3>1
    <3> QED BY <3>2 DEF Elems
  <2>3. m \in Elems(r)
    BY <1>1 DEF Elems
  <2> QED BY <2>1, <2>2, <2>3
<1>3. ASSUME Increasing(q), Before(Elems(q), {m}) PROVE Increasing(r)
  <2>1. \A i \in 1 .. Len(q) : q[i] < m
    BY <1>3 DEF Before, Elems
  <2> SUFFICES ASSUME NEW i \in 1 .. Len(r), NEW j \in 1 .. Len(r), i < j PROVE r[i] < r[j]
    BY DEF Increasing
  <2>2. i \in 1 .. Len(q) /\ r[i] = q[i]
    BY <1>1
  <2>3. CASE j \in 1 .. Len(q)
    <3>1. r[j] = q[j]
      BY <1>1, <2>3
    <3> QED BY <1>3, <2>2, <2>3, <3>1 DEF Increasing
  <2>4. CASE j \notin 1 .. Len(q)
    <3>2. Len(r) = Len(q) + 1 /\ Len(q) \in Nat
      BY <1>1
    <3>1. j = Len(q) + 1
      BY ONLY <2>4, <3>2, j \in 1 .. Len(r)
    <3> QED BY <1>1, <2>1, <2>2, <3>1
  <2> QED BY <2>3, <2>4
<1> QED BY <1>1, <1>2, <1>3 DEF r

LEMMA Taken ==
    ASSUME NEW n \in Nat, NEW q \in Seq(1 .. n), q # <<>>
    PROVE  /\ Tail(q) \in Seq(1 .. n) /\ Head(q) \in 1 .. n /\ Head(q) \in Elems(q)
           /\ Elems(Tail(q)) \subseteq Elems(q)
           /\ Elems(q) = Elems(Tail(q)) \cup {Head(q)}
           /\ Increasing(q) => Increasing(Tail(q)) /\ Before({Head(q)}, Elems(Tail(q)))
<1> DEFINE r == Tail(q)
<1>1. /\ r \in Seq(1 .. n) /\ Len(r) = Len(q) - 1 /\ Len(q) \in Nat \ {0}
      /\ \A i \in 1 .. Len(r) : r[i] = q[i + 1]
      /\ Head(q) = q[1] /\ q[1] \in 1 .. n
  OBVIOUS
<1> HIDE DEF r
<1>2. \A i \in 1 .. Len(r) : i + 1 \in 1 .. Len(q) /\ r[i] = q[i + 1]
  BY <1>1
<1>3. Elems(r) \subseteq Elems(q) /\ Head(q) \in Elems(q)
  <2>1. Elems(r) \subseteq Elems(q)
    BY <1>2 DEF Elems
  <2>2. 1 \in 1 .. Len(q)
    BY <1>1
  <2> QED BY <1>1, <2>1, <2>2 DEF Elems
<1>4. ASSUME NEW x \in Elems(q), x # Head(q) PROVE x \in Elems(r)
  <2>1. PICK i \in 1 .. Len(q) : x = q[i]
    BY <1>4 DEF Elems
  <2>2. i - 1 \in 1 .. Len(r) /\ x = r[i - 1]
    BY <1>1, <1>4, <2>1
  <2> QED BY <2>2 DEF Elems
<1>5. ASSUME Increasing(q) PROVE Increasing(r) /\ Before({Head(q)}, Elems(r))
  <2>1. Increasing(r)
    <3> SUFFICES ASSUME NEW i \in 1 .. Len(r), NEW j \in 1 .. Len(r), i < j PROVE r[i] < r[j]
      BY DEF Increasing
    <3>1. i + 1 < j + 1
      BY <1>1
    <3> QED BY <1>2, <1>5, <3>1 DEF Increasing
  <2>2. \A i \in 1 .. Len(r) : q[1] < r[i]
    <3> SUFFICES ASSUME NEW i \in 1 .. Len(r) PROVE q[1] < r[i]
      OBVIOUS
    <3>1. 1 \in 1 .. Len(q) /\ 1 < i + 1
      BY <1>1
    <3> QED BY <1>2, <1>5, <3>1 DEF Increasing
  <2> QED BY <1>1, <2>1, <2>2 DEF Before, Elems
<1> QED BY <1>1, <1>3, <1>4, <1>5 DEF r

LEMMA Joined ==
    ASSUME NEW n \in Nat, NEW q \in Seq(1 .. n), NEW r \in Seq(1 .. n)
    PROVE  /\ q \o r \in Seq(1 .. n)
           /\ Elems(q \o r) = Elems(q) \cup Elems(r)
           /\ Increasing(q) /\ Increasing(r) /\ Before(Elems(q), Elems(r))
                => Increasing(q \o r)
<1> DEFINE s == q \o r
<1>1. /\ s \in Seq(1 .. n) /\ Len(s) = Len(q) + Len(r) /\ Len(q) \in Nat /\ Len(r) \in Nat
      /\ \A i \in 1 .. Len(q) : s[i] = q[i]
      /\ \A i \in 1 .. Len(r) : s[Len(q) + i] = r[i]
  OBVIOUS
<1> HIDE DEF s
<1>2. \A i \in 1 .. Len(s) :
         \/ i \in 1 .. Len(q) /\ s[i] = q[i]
         \/ i > Len(q) /\ i - Len(q) \in 1 .. Len(r) /\ s[i] = r[i - Len(q)]
  <2> SUFFICES ASSUME NEW i \in 1 .. Len(s), i \notin 1 .. Len(q)
               PROVE  i > Len(q) /\ i - Len(q) \in 1 .. Len(r) /\ s[i] = r[i - Len(q)]
    BY <1>1
  <2>1. i > Len(q) /\ i - Len(q) \in 1 .. Len(r) /\ Len(q) + (i - Len(q)) = i
    BY <1>1
  <2> QED BY <1>1, <2>1
<1>3. Elems(s) \subseteq Elems(q) \cup Elems(r)
  BY <1>2 DEF Elems
<1>4. Elems(q) \subseteq Elems(s)
  <2>1. \A i \in 1 .. Len(q) : i \in 1 .. Len(s) /\ s[i] = q[i]
    BY <1>1
  <2> QED BY <2>1 DEF Elems
<1>5. Elems(r) \subseteq Elems(s)
  <2>1. \A i \in 1 .. Len(r) : Len(q) + i \in 1 .. Len(s) /\ s[Len(q) + i] = r[i]
    BY <1>1
  <2> QED BY <2>1 DEF Elems
<1>6. ASSUME Increasing(q), Increasing(r), Before(Elems(q), Elems(r)) PROVE Increasing(s)
  <2> SUFFICES ASSUME NEW i \in 1 .. Len(s), NEW j \in 1 .. Len(s), i < j PROVE s[i] < s[j]
    BY DEF Increasing
  <2>1. CASE j \in 1 .. Len(q)
    <3>1. i \in 1 .. Len(q)
      BY <1>1, <2>1
    <3> QED BY <1>1, <1>6, <2>1, <3>1 DEF Increasing
  <2>2. CASE i \notin 1 .. Len(q)
    <3>1. j \notin 1 .. Len(q)
      BY <1>1, <2>2
    <3>2. /\ i - Len(q) \in 1 .. Len(r) /\ s[i] = r[i - Len(q)]
          /\ j - Len(q) \in 1 .. Len(r) /\ s[j] = r[j - Len(q)]
      BY <1>2, <2>2, <3>1
    <3>3. i - Len(q) < j - Len(q)
      BY <1>1
    <3> QED BY <1>6, <3>2, <3>3 DEF Increasing
  <2>3. CASE i \in 1 .. Len(q) /\ j \notin 1 .. Len(q)
    <3>1. /\ s[i] = q[i]
          /\ j - Len(q) \in 1 .. Len(r) /\ s[j] = r[j - Len(q)]
      BY <1>2, <2>3
    <3>2. q[i] \in Elems(q) /\ r[j - Len(q)] \in Elems(r)
      BY <2>3, <3>1 DEF Elems
    <3> QED BY <1>6, <3>1, <3>2 DEF Before
  <2> QED BY <2>1, <2>2, <2>3
<1> QED BY <1>1, <1>3, <1>4, <1>5, <1>6 DEF s

LEMMA Nothing == Elems(<<>>) = {} /\ Increasing(<<>>) /\ \A n : <<>> \in Seq(1 .. n)
BY DEF Elems, Increasing

\* A frame more on the wire.
LEMMA ToldMore ==
    ASSUME NEW w \in Seq(Frame), NEW f \in Frame, ToldInOrder(w),
           f.type = "message" => Before(Told(w), {f.id})
    PROVE  /\ Append(w, f) \in Seq(Frame) /\ ToldInOrder(Append(w, f))
           /\ f.type # "message" => Told(Append(w, f)) = Told(w)
           /\ f.type = "message" => Told(Append(w, f)) = Told(w) \cup {f.id}
<1> DEFINE r == Append(w, f)
<1>1. /\ r \in Seq(Frame) /\ Len(r) = Len(w) + 1 /\ Len(w) \in Nat
      /\ \A i \in 1 .. Len(w) : r[i] = w[i]
      /\ r[Len(w) + 1] = f
  OBVIOUS
<1> HIDE DEF r
<1>2. \A i \in 1 .. Len(r) : (i \in 1 .. Len(w) /\ r[i] = w[i]) \/ (i = Len(w) + 1 /\ r[i] = f)
  BY <1>1
<1>3. Told(w) \subseteq Told(r)
  <2>1. \A i \in 1 .. Len(w) : i \in 1 .. Len(r) /\ r[i] = w[i]
    BY <1>1
  <2> QED BY <2>1 DEF Told
<1>4. f.type = "message" => f.id \in Told(r)
  <2>1. Len(w) + 1 \in 1 .. Len(r) /\ r[Len(w) + 1] = f
    BY <1>1
  <2> QED BY <2>1 DEF Told
<1>5. ASSUME NEW x \in Told(r) PROVE x \in Told(w) \/ (f.type = "message" /\ x = f.id)
  <2>1. PICK i \in 1 .. Len(r) : r[i].type = "message" /\ x = r[i].id
    BY <1>5 DEF Told
  <2> QED BY <1>2, <2>1 DEF Told
<1>6. ToldInOrder(r)
  <2> SUFFICES ASSUME NEW i \in 1 .. Len(r), NEW j \in 1 .. Len(r), i < j,
                      r[i].type = "message", r[j].type = "message"
               PROVE  r[i].id < r[j].id
    BY DEF ToldInOrder
  <2>1. i \in 1 .. Len(w) /\ r[i] = w[i]
    BY <1>1
  <2>2. CASE j \in 1 .. Len(w)
    BY <1>1, <2>1, <2>2 DEF ToldInOrder
  <2>3. CASE j \notin 1 .. Len(w)
    <3>1. r[j] = f
      BY <1>2, <2>3
    <3>2. r[i].id \in Told(w)
      BY <2>1 DEF Told
    <3> QED BY <3>1, <3>2 DEF Before
  <2> QED BY <2>2, <2>3
<1> QED BY <1>1, <1>3, <1>4, <1>5, <1>6 DEF r

\* A frame less.
LEMMA ToldLess ==
    ASSUME NEW w \in Seq(Frame), w # <<>>, ToldInOrder(w)
    PROVE  /\ Tail(w) \in Seq(Frame) /\ ToldInOrder(Tail(w)) /\ Head(w) \in Frame
           /\ Told(Tail(w)) \subseteq Told(w)
           /\ Head(w).type = "message" => /\ Head(w).id \in Told(w)
                                          /\ Before({Head(w).id}, Told(Tail(w)))
                                          /\ Told(w) = Told(Tail(w)) \cup {Head(w).id}
           /\ Head(w).type # "message" => Told(w) = Told(Tail(w))
<1> DEFINE r == Tail(w)
<1>1. /\ r \in Seq(Frame) /\ Len(r) = Len(w) - 1 /\ Len(w) \in Nat \ {0}
      /\ \A i \in 1 .. Len(r) : r[i] = w[i + 1]
      /\ Head(w) = w[1] /\ w[1] \in Frame
  OBVIOUS
<1> HIDE DEF r
<1>2. \A i \in 1 .. Len(r) : i + 1 \in 1 .. Len(w) /\ r[i] = w[i + 1]
  BY <1>1
<1>3. Told(r) \subseteq Told(w)
  BY <1>2 DEF Told
<1>4. ToldInOrder(r)
  BY <1>1, <1>2 DEF ToldInOrder
<1>5. w[1].type = "message" => w[1].id \in Told(w) /\ Before({w[1].id}, Told(r))
  <2> SUFFICES ASSUME w[1].type = "message" PROVE w[1].id \in Told(w) /\ Before({w[1].id}, Told(r))
    OBVIOUS
  <2>1. 1 \in 1 .. Len(w)
    BY <1>1
  <2>2. \A i \in 1 .. Len(r) : r[i].type = "message" => w[1].id < r[i].id
    BY <1>1, <1>2, <2>1 DEF ToldInOrder
  <2> QED BY <2>1, <2>2 DEF Told, Before
<1>6. ASSUME NEW x \in Told(w), x \notin Told(r) PROVE w[1].type = "message" /\ x = w[1].id
  <2>1. PICK i \in 1 .. Len(w) : w[i].type = "message" /\ x = w[i].id
    BY <1>6 DEF Told
  <2>2. CASE i # 1
    <3>1. i - 1 \in 1 .. Len(r) /\ r[i - 1] = w[i]
      BY <1>1, <2>1, <2>2
    <3> QED BY <1>6, <2>1, <3>1 DEF Told
  <2> QED BY <2>1, <2>2
<1> QED BY <1>1, <1>3, <1>4, <1>5, <1>6 DEF r

-----------------------------------------------------------------------------
(* What happens to the line of messages.                                   *)

LEMMA LineHears ==
    ASSUME NEW b, NEW t, NEW p, NEW w, NEW n, Line(b, t, p, w, n),
           NEW f \in Frame, f.type # "message"
    PROVE  Line(b, t, p, Append(w, f), n)
BY ToldMore DEF Line

LEMMA LineGrows ==
    ASSUME NEW b, NEW t, NEW p, NEW w, NEW n, Line(b, t, p, w, n)
    PROVE  Line(b, t, p, w, n + 1)
<1>1. n \in Nat /\ n + 1 \in Nat /\ 1 .. n \subseteq 1 .. n + 1
  BY DEF Line
<1>2. b \in Seq(1 .. n + 1) /\ t \in Seq(1 .. n + 1) /\ p \in Seq(1 .. n + 1)
  BY <1>1 DEF Line
<1> QED BY <1>1, <1>2 DEF Line

LEMMA ElemsIn ==
    ASSUME NEW n \in Nat, NEW q \in Seq(1 .. n)
    PROVE  Elems(q) \subseteq 1 .. n
BY DEF Elems

LEMMA LineArrives ==
    ASSUME NEW b, NEW t, NEW p, NEW w, NEW n, Line(b, t, p, w, n),
           NEW f \in Frame, f.type = "message", f.id = n + 1
    PROVE  Line(b, t, p, Append(w, f), n + 1)
<1>1. Line(b, t, p, w, n + 1) /\ n \in Nat /\ Told(w) \subseteq 1 .. n
  BY LineGrows DEF Line
<1>2. Elems(b) \subseteq 1 .. n /\ Elems(t) \subseteq 1 .. n /\ Elems(p) \subseteq 1 .. n
  BY ElemsIn DEF Line
<1>3. \A x \in 1 .. n : x < n + 1
  BY <1>1
<1>4. /\ Before(Elems(b), {n + 1}) /\ Before(Elems(t), {n + 1}) /\ Before(Elems(p), {n + 1})
      /\ Before(Told(w), {n + 1})
  BY <1>1, <1>2, <1>3 DEF Before
<1>5. /\ Append(w, f) \in Seq(Frame) /\ ToldInOrder(Append(w, f))
      /\ Told(Append(w, f)) = Told(w) \cup {n + 1}
  BY <1>1, <1>4, ToldMore DEF Line
<1>6. /\ Before(Elems(b), Told(Append(w, f))) /\ Before(Elems(t), Told(Append(w, f)))
      /\ Before(Elems(p), Told(Append(w, f)))
  BY <1>1, <1>4, <1>5 DEF Line, Before
<1>7. n + 1 \in 1 .. n + 1
  BY <1>1
<1>8. Told(Append(w, f)) \subseteq 1 .. n + 1
  BY <1>1, <1>5, <1>7 DEF Line
<1> QED BY <1>1, <1>5, <1>6, <1>8 DEF Line

LEMMA LineShrinks ==
    ASSUME NEW b, NEW t, NEW p, NEW w, NEW n, Line(b, t, p, w, n), w # <<>>
    PROVE  Line(b, t, p, Tail(w), n)
BY ToldLess DEF Line, Before

LEMMA LineReads ==
    ASSUME NEW b, NEW t, NEW p, NEW w, NEW n, Line(b, t, p, w, n), w # <<>>,
           Head(w).type = "message"
    PROVE  Line(b, t, Append(p, Head(w).id), Tail(w), n)
<1> DEFINE m == Head(w).id
<1>1. Line(b, t, p, Tail(w), n) /\ n \in Nat
  BY LineShrinks DEF Line
<1>2. m \in Told(w) /\ Before({m}, Told(Tail(w)))
  BY ToldLess DEF Line
<1>3. m \in 1 .. n /\ Before(Elems(b), {m}) /\ Before(Elems(t), {m}) /\ Before(Elems(p), {m})
  BY <1>2 DEF Line, Before
<1> HIDE DEF m
<1>4. /\ Append(p, m) \in Seq(1 .. n) /\ Elems(Append(p, m)) = Elems(p) \cup {m}
      /\ Increasing(Append(p, m))
  BY <1>1, <1>3, Appended DEF Line
<1>5. /\ Before(Elems(b), Elems(Append(p, m))) /\ Before(Elems(t), Elems(Append(p, m)))
      /\ Before(Elems(Append(p, m)), Told(Tail(w)))
  BY <1>1, <1>2, <1>3, <1>4 DEF Line, Before
<1>6. Line(b, t, Append(p, m), Tail(w), n)
  BY <1>1, <1>4, <1>5 DEF Line
<1> QED BY <1>6 DEF m

LEMMA LineDrains ==
    ASSUME NEW b, NEW p, NEW w, NEW n, Line(b, <<>>, p, w, n)
    PROVE  Line(b, p, <<>>, w, n)
BY Nothing DEF Line, Before

LEMMA LineKeeps ==
    ASSUME NEW b, NEW t, NEW p, NEW w, NEW n, Line(b, t, p, w, n), t # <<>>
    PROVE  /\ Line(Append(b, Head(t)), Tail(t), p, w, n)
           /\ Line(b, Tail(t), p, w, n)
<1> DEFINE m == Head(t)
<1>1. /\ Tail(t) \in Seq(1 .. n) /\ m \in 1 .. n /\ Elems(t) = Elems(Tail(t)) \cup {m}
      /\ Increasing(Tail(t)) /\ Before({m}, Elems(Tail(t))) /\ n \in Nat
  BY Taken DEF Line
<1> HIDE DEF m
<1>2. /\ Append(b, m) \in Seq(1 .. n) /\ Elems(Append(b, m)) = Elems(b) \cup {m}
      /\ Increasing(Append(b, m))
  BY <1>1, Appended DEF Line, Before
<1>3. /\ Before(Elems(Append(b, m)), Elems(Tail(t))) /\ Before(Elems(Append(b, m)), Elems(p))
      /\ Before(Elems(Append(b, m)), Told(w))
      /\ Before(Elems(Tail(t)), Elems(p)) /\ Before(Elems(Tail(t)), Told(w))
      /\ Before(Elems(b), Elems(Tail(t)))
  BY <1>1, <1>2 DEF Line, Before
<1>4. Line(Append(b, m), Tail(t), p, w, n)
  BY <1>1, <1>2, <1>3 DEF Line
<1>5. Line(b, Tail(t), p, w, n)
  BY <1>1, <1>3 DEF Line
<1> QED BY <1>4, <1>5 DEF m

LEMMA LineForgets ==
    ASSUME NEW b, NEW t, NEW p, NEW w, NEW n, Line(b, t, p, w, n)
    PROVE  Line(<<>>, t, p, w, n) /\ Line(<<>>, <<>>, p, w, n)
BY Nothing DEF Line, Before

LEMMA LineMerges ==
    ASSUME NEW b, NEW p, NEW w, NEW n, Line(b, <<>>, p, w, n)
    PROVE  Line(b \o p, <<>>, <<>>, w, n)
<1>1. /\ b \o p \in Seq(1 .. n) /\ Elems(b \o p) = Elems(b) \cup Elems(p)
      /\ Increasing(b \o p)
  BY Joined DEF Line
<1> QED BY <1>1, Nothing DEF Line, Before

-----------------------------------------------------------------------------
(* What the history remembers.                                             *)

AMessage == [kind : Kinds \cup {"echo"}, own : Nat]
IsCommand(arr, m) == arr[m].kind \in {"dump", "reset"}

\* Whom the entries of h are of, when arr arrived and n messages were sent.
Known(h, arr, n) ==
    /\ h \in Seq(Entry)
    /\ \A i \in 1 .. Len(h) :
         /\ h[i].from = "own" => h[i].id \in 1 .. n /\ h[i].mark # "none"
         /\ h[i].from = "user" => h[i].id \in 1 .. Len(arr)

\* The bot's own entries, with R the messages still to be remembered: an entry
\* of an echo is there once its echo arrived, which does not come again.
OwnEach(h) ==
    \A i, j \in 1 .. Len(h) :
        h[i].from = "own" /\ h[j].from = "own" /\ h[i].id = h[j].id => i = j
Echoed(h, R, arr) ==
    \A i \in 1 .. Len(h) : h[i].from = "own" /\ h[i].mark = "echo" =>
        /\ \E m \in 1 .. Len(arr) : arr[m].own = h[i].id
        /\ \A m \in R : arr[m].own # h[i].id

\* The turns of the user, which precede what is still to be remembered.
Sorted(h, arr) ==
    \A i, j \in 1 .. Len(h) :
        /\ i < j /\ h[i].from = "user" /\ h[j].from = "user"
        /\ ~IsCommand(arr, h[i].id) /\ ~IsCommand(arr, h[j].id)
        => h[i].id < h[j].id
Older(h, R, arr) ==
    \A i \in 1 .. Len(h) : h[i].from = "user" /\ ~IsCommand(arr, h[i].id) =>
        \A m \in R : h[i].id < m

Remembers(h, R, arr, n) ==
    /\ Known(h, arr, n) /\ OwnEach(h) /\ Echoed(h, R, arr) /\ Sorted(h, arr) /\ Older(h, R, arr)

\* new is h with e at its end and d entries fewer at its front.
Moved(new, h, e, d) ==
    /\ d \in 0 .. Len(h)
    /\ new \in Seq(Entry) /\ Len(new) = Len(h) + 1 - d
    /\ \A i \in 1 .. Len(new) : new[i] = IF i + d <= Len(h) THEN h[i + d] ELSE e

LEMMA AppendMoves ==
    ASSUME NEW h \in Seq(Entry), NEW e \in Entry
    PROVE  /\ \E d \in Nat : Moved(AppendEntry(h, e), h, e, d)
           /\ Moved(Append(h, e), h, e, 0)
<1> DEFINE longer == Append(h, e)
           excess == IF Len(longer) > HistoryLimit THEN Len(longer) - HistoryLimit ELSE 0
           new == SubSeq(longer, excess + 1, Len(longer))
<1>1. /\ longer \in Seq(Entry) /\ Len(longer) = Len(h) + 1 /\ Len(h) \in Nat
      /\ \A i \in 1 .. Len(h) : longer[i] = h[i]
      /\ longer[Len(h) + 1] = e
  OBVIOUS
<1>2. AppendEntry(h, e) = new
  BY DEF AppendEntry
<1> HIDE DEF longer
<1>3. excess \in 0 .. Len(h)
  BY <1>1, ChatAssumption DEF ChatAssumption
<1> HIDE DEF excess
<1>4. /\ new \in Seq(Entry) /\ Len(new) = Len(h) + 1 - excess
      /\ \A i \in 1 .. Len(new) : new[i] = longer[i + excess]
  <2>1. excess + 1 \in 1 .. Len(longer) + 1
    BY <1>1, <1>3
  <2>2. new \in Seq(Entry)
    BY <1>1, <1>3
  <2>3. Len(new) = Len(longer) - (excess + 1) + 1
    BY <1>1, <1>3
  <2>4. \A i \in 1 .. Len(longer) - excess : new[i] = longer[i + excess]
    <3> SUFFICES ASSUME NEW i \in 1 .. Len(longer) - excess PROVE new[i] = longer[i + excess]
      OBVIOUS
    <3>1. new[i] = longer[(excess + 1) + i - 1]
      BY <1>1, <1>3
    <3>2. (excess + 1) + i - 1 = i + excess
      BY <1>1, <1>3
    <3> QED BY <3>1, <3>2
  <2>5. Len(new) = Len(h) + 1 - excess /\ Len(longer) - excess = Len(h) + 1 - excess
    BY <1>1, <1>3, <2>3
  <2> QED BY <2>2, <2>4, <2>5
<1> HIDE DEF new
<1>5. \A i \in 1 .. Len(new) : new[i] = IF i + excess <= Len(h) THEN h[i + excess] ELSE e
  <2> SUFFICES ASSUME NEW i \in 1 .. Len(new)
               PROVE  new[i] = IF i + excess <= Len(h) THEN h[i + excess] ELSE e
    OBVIOUS
  <2>1. CASE i + excess <= Len(h)
    <3>1. i + excess \in 1 .. Len(h)
      BY <1>3, <1>4, <2>1
    <3> QED BY <1>1, <1>4, <2>1, <3>1
  <2>2. CASE ~(i + excess <= Len(h))
    <3>1. i + excess = Len(h) + 1
      BY <1>1, <1>3, <1>4, <2>2
    <3> QED BY <1>1, <1>4, <2>2, <3>1
  <2> QED BY <2>1, <2>2
<1>6. Moved(new, h, e, excess)
  BY <1>3, <1>4, <1>5 DEF Moved
<1>7. Moved(longer, h, e, 0)
  <2>1. 0 \in 0 .. Len(h) /\ Len(longer) = Len(h) + 1 - 0
    BY <1>1
  <2>2. \A i \in 1 .. Len(longer) : longer[i] = IF i + 0 <= Len(h) THEN h[i + 0] ELSE e
    <3> SUFFICES ASSUME NEW i \in 1 .. Len(longer)
                 PROVE  longer[i] = IF i <= Len(h) THEN h[i] ELSE e
      BY <1>1
    <3>1. i \in 1 .. Len(h) \/ (i = Len(h) + 1 /\ ~(i <= Len(h)))
      BY <1>1
    <3> QED BY <1>1, <3>1
  <2> QED BY <1>1, <2>1, <2>2 DEF Moved
<1>8. Moved(AppendEntry(h, e), h, e, excess) /\ excess \in Nat
  BY <1>2, <1>3, <1>6
<1> QED BY <1>7, <1>8 DEF longer

\* Every entry of a moved history is the new one, or one of before, in its order.
LEMMA MovedFrom ==
    ASSUME NEW new, NEW h \in Seq(Entry), NEW e, NEW d, Moved(new, h, e, d)
    PROVE  \A i \in 1 .. Len(new) :
              \/ i + d \in 1 .. Len(h) /\ new[i] = h[i + d]
              \/ i = Len(new) /\ new[i] = e /\ i + d = Len(h) + 1
<1> SUFFICES ASSUME NEW i \in 1 .. Len(new)
             PROVE  \/ i + d \in 1 .. Len(h) /\ new[i] = h[i + d]
                    \/ i = Len(new) /\ new[i] = e /\ i + d = Len(h) + 1
  OBVIOUS
<1>1. Len(h) \in Nat /\ d \in 0 .. Len(h) /\ Len(new) = Len(h) + 1 - d
  BY DEF Moved
<1>2. new[i] = IF i + d <= Len(h) THEN h[i + d] ELSE e
  BY DEF Moved
<1>3. CASE i + d <= Len(h)
  BY <1>1, <1>2, <1>3
<1>4. CASE ~(i + d <= Len(h))
  <2>1. i = Len(new) /\ i + d = Len(h) + 1
    BY <1>1, <1>4
  <2> QED BY <1>2, <1>4, <2>1
<1> QED BY <1>3, <1>4

\* Fewer messages to remember, or more that are new.
LEMMA RemembersLess ==
    ASSUME NEW h, NEW R, NEW S, NEW arr, NEW n, Remembers(h, R, arr, n), S \subseteq R
    PROVE  Remembers(h, S, arr, n)
BY DEF Remembers, Echoed, Older

\* A new entry at the end.
LEMMA RemembersNew ==
    ASSUME NEW h, NEW R, NEW S, NEW arr, NEW n \in Nat, NEW k \in Nat,
           Remembers(h, R, arr, n), S \subseteq R, n <= k,
           NEW e \in Entry, NEW d, NEW new, Moved(new, h, e, d),
           e.from = "own" =>
             /\ e.id \in 1 .. k /\ e.mark # "none"
             /\ \A i \in 1 .. Len(h) : h[i].from = "own" => h[i].id # e.id
             /\ e.mark = "echo" => /\ \E m \in 1 .. Len(arr) : arr[m].own = e.id
                                   /\ \A m \in S : arr[m].own # e.id,
           e.from = "user" =>
             /\ e.id \in 1 .. Len(arr)
             /\ ~IsCommand(arr, e.id) =>
                  /\ \A i \in 1 .. Len(h) :
                       h[i].from = "user" /\ ~IsCommand(arr, h[i].id) => h[i].id < e.id
                  /\ \A m \in S : e.id < m
    PROVE  Remembers(new, S, arr, k)
<1> USE DEF Remembers
<1>1. h \in Seq(Entry) /\ new \in Seq(Entry) /\ d \in Nat /\ Len(new) \in Nat /\ Len(h) \in Nat
  BY DEF Known, Moved
<1>2. \A i \in 1 .. Len(new) :
         \/ i + d \in 1 .. Len(h) /\ new[i] = h[i + d]
         \/ i = Len(new) /\ new[i] = e /\ i + d = Len(h) + 1
  BY <1>1, MovedFrom
<1>3. Known(new, arr, k)
  <2>1. 1 .. n \subseteq 1 .. k
    OBVIOUS
  <2> QED BY <1>1, <1>2, <2>1 DEF Known
<1>4. OwnEach(new)
  <2> SUFFICES ASSUME NEW i \in 1 .. Len(new), NEW j \in 1 .. Len(new),
                      new[i].from = "own", new[j].from = "own", new[i].id = new[j].id
               PROVE  i = j
    BY DEF OwnEach
  <2>1. CASE i + d \in 1 .. Len(h) /\ j + d \in 1 .. Len(h)
    <3>1. new[i] = h[i + d] /\ new[j] = h[j + d]
      BY <1>1, <1>2, <2>1
    <3>2. i + d = j + d
      BY <2>1, <3>1 DEF OwnEach
    <3> QED BY <1>1, <3>2
  <2>2. CASE i + d \in 1 .. Len(h) /\ j + d \notin 1 .. Len(h)
    BY <1>1, <1>2, <2>2
  <2>3. CASE i + d \notin 1 .. Len(h) /\ j + d \in 1 .. Len(h)
    BY <1>1, <1>2, <2>3
  <2>4. CASE i + d \notin 1 .. Len(h) /\ j + d \notin 1 .. Len(h)
    BY <1>2, <2>4
  <2> QED BY <2>1, <2>2, <2>3, <2>4
<1>5. Echoed(new, S, arr)
  BY <1>2 DEF Echoed
<1>6. Older(new, S, arr)
  BY <1>2 DEF Older
<1>7. Sorted(new, arr)
  <2> SUFFICES ASSUME NEW i \in 1 .. Len(new), NEW j \in 1 .. Len(new), i < j,
                      new[i].from = "user", new[j].from = "user",
                      ~IsCommand(arr, new[i].id), ~IsCommand(arr, new[j].id)
               PROVE  new[i].id < new[j].id
    BY DEF Sorted
  <2>1. i + d \in 1 .. Len(h) /\ new[i] = h[i + d]
    BY <1>1, <1>2
  <2>2. CASE j + d \in 1 .. Len(h)
    <3>1. new[j] = h[j + d] /\ i + d < j + d
      BY <1>1, <1>2, <2>2
    <3> QED BY <2>1, <2>2, <3>1 DEF Sorted
  <2>3. CASE j + d \notin 1 .. Len(h)
    <3>1. new[j] = e
      BY <1>2, <2>3
    <3> QED BY <2>1, <3>1
  <2> QED BY <2>2, <2>3
<1> QED BY <1>3, <1>4, <1>5, <1>6, <1>7

\* Entries that get another mark.
LEMMA RemembersMarked ==
    ASSUME NEW h, NEW R, NEW S, NEW arr, NEW n, Remembers(h, R, arr, n), S \subseteq R,
           NEW new \in Seq(Entry), Len(new) = Len(h),
           \A i \in 1 .. Len(h) :
             /\ new[i].from = h[i].from /\ new[i].id = h[i].id
             /\ h[i].from = "own" => new[i].mark # "none"
             /\ h[i].from = "own" /\ new[i].mark = "echo" =>
                  \/ h[i].mark = "echo"
                  \/ /\ \E m \in 1 .. Len(arr) : arr[m].own = h[i].id
                     /\ \A m \in S : arr[m].own # h[i].id
    PROVE  Remembers(new, S, arr, n)
<1> USE DEF Remembers
<1>1. Known(new, arr, n)
  BY DEF Known
<1>2. OwnEach(new)
  BY DEF OwnEach
<1>3. Echoed(new, S, arr)
  BY DEF Echoed
<1>4. Older(new, S, arr) /\ Sorted(new, arr)
  BY DEF Older, Sorted
<1> QED BY <1>1, <1>2, <1>3, <1>4

\* A message more that arrived.
LEMMA RemembersMore ==
    ASSUME NEW h, NEW R, NEW arr \in Seq(AMessage), NEW n, Remembers(h, R, arr, n),
           R \subseteq 1 .. Len(arr),
           NEW x \in AMessage,
           x.own = 0 \/ \A m \in 1 .. Len(arr) : arr[m].own # x.own
    PROVE  Remembers(h, R \cup {Len(arr) + 1}, Append(arr, x), n)
<1> USE DEF Remembers
<1> DEFINE longer == Append(arr, x)
           last == Len(arr) + 1
<1>1. /\ longer \in Seq(AMessage) /\ Len(longer) = last /\ Len(arr) \in Nat
      /\ \A m \in 1 .. Len(arr) : longer[m] = arr[m]
      /\ longer[last] = x
  OBVIOUS
<1> HIDE DEF longer
<1>2. 1 .. Len(arr) \subseteq 1 .. Len(longer) /\ \A m \in 1 .. Len(arr) : m < last
  BY <1>1
<1>3. \A m \in 1 .. Len(arr) : IsCommand(longer, m) <=> IsCommand(arr, m)
  BY <1>1 DEF IsCommand
<1>4. Known(h, longer, n)
  BY <1>2 DEF Known
<1>5. Sorted(h, longer)
  BY <1>3 DEF Sorted, Known
<1>6. Older(h, R \cup {last}, longer)
  BY <1>2, <1>3 DEF Older, Known
<1>7. Echoed(h, R \cup {last}, longer)
  <2> SUFFICES ASSUME NEW i \in 1 .. Len(h), h[i].from = "own", h[i].mark = "echo"
               PROVE  /\ \E m \in 1 .. Len(longer) : longer[m].own = h[i].id
                      /\ \A m \in R \cup {last} : longer[m].own # h[i].id
    BY DEF Echoed
  <2>1. PICK m \in 1 .. Len(arr) : arr[m].own = h[i].id
    BY DEF Echoed
  <2>2. longer[m].own = h[i].id /\ m \in 1 .. Len(longer)
    BY <1>1, <1>2, <2>1
  <2>3. h[i].id # 0
    BY DEF Known
  <2>4. x.own # h[i].id
    BY <2>1, <2>3
  <2>5. \A r \in R : longer[r].own # h[i].id
    BY <1>1 DEF Echoed
  <2> QED BY <1>1, <2>2, <2>4, <2>5
<1> QED BY <1>4, <1>5, <1>6, <1>7 DEF longer

\* The histories on the way through the first n messages of ms.
WayTo(a, n, h, ms) ==
    a = [i \in 0 .. n |-> IF i = 0 THEN h ELSE AppendPayload(a[i - 1], ms[i])]

\* A set of numbers that is not empty has a least one.
LEMMA Least ==
    ASSUME NEW S, S \subseteq Nat, S # {}
    PROVE  \E n \in S : \A m \in S : n <= m
<1> DEFINE R == {p \in Nat \X Nat : p[1] < p[2]}
<1>1. IsWellFoundedOn(R, Nat)
  BY NatLessThanWellFounded DEF OpToRel
<1>2. PICK n \in S : \A m \in S : <<m, n>> \notin R
  BY <1>1, WFMin
<1>3. \A m \in S : ~(m < n)
  BY <1>2
<1> QED BY <1>3

LEMMA WayExists ==
    ASSUME NEW h, NEW ms, Len(ms) \in Nat
    PROVE  \E a : WayTo(a, Len(ms), h, ms)
<1> DEFINE Bad == {n \in Nat : ~\E a : WayTo(a, n, h, ms)}
<1>1. SUFFICES Bad = {}
  BY <1>1
<1>2. SUFFICES ASSUME Bad # {} PROVE FALSE
  OBVIOUS
<1>3. PICK n \in Bad : \A m \in Bad : n <= m
  BY <1>2, Least
<1>4. CASE n = 0
  <2>1. WayTo([i \in 0 .. 0 |-> h], 0, h, ms)
    BY DEF WayTo
  <2> QED BY <1>4, <2>1
<1>5. CASE n # 0
  <2>1. n - 1 \in Nat /\ n - 1 \notin Bad /\ n \in Nat
    BY <1>3, <1>5
  <2>2. PICK a : WayTo(a, n - 1, h, ms)
    BY <2>1
  <2> DEFINE b == [i \in 0 .. n |-> IF i = n THEN AppendPayload(a[n - 1], ms[n]) ELSE a[i]]
  <2> HIDE DEF Bad
  <2>3. \A i \in 0 .. n - 1 : a[i] = IF i = 0 THEN h ELSE AppendPayload(a[i - 1], ms[i])
    BY <2>1, <2>2 DEF WayTo
  <2>4. \A i \in 0 .. n : b[i] = IF i = 0 THEN h ELSE AppendPayload(b[i - 1], ms[i])
    BY <1>5, <2>1, <2>3
  <2>5. WayTo(b, n, h, ms)
    BY <2>4 DEF WayTo
  <2> QED BY <1>3, <2>5 DEF Bad
<1> QED BY <1>4, <1>5

LEMMA TheWay ==
    ASSUME NEW h, NEW ms, Len(ms) \in Nat
    PROVE  \E a : WayTo(a, Len(ms), h, ms) /\ AppendPayloads(h, ms) = a[Len(ms)]
<1> DEFINE c == CHOOSE a : WayTo(a, Len(ms), h, ms)
<1>1. WayTo(c, Len(ms), h, ms)
  BY WayExists
<1>2. AppendPayloads(h, ms) = c[Len(ms)]
  BY DEF AppendPayloads, WayTo
<1> QED BY <1>1, <1>2

\* What the gateway shows of the bot's own messages: n were sent, and each is
\* echoed once.
EchoesOnce(arr, n) ==
    /\ \A m \in 1 .. Len(arr) :
         /\ arr[m].kind = "echo" <=> arr[m].own # 0
         /\ arr[m].own <= n
    /\ \A m, k \in 1 .. Len(arr) : arr[m].own = arr[k].own /\ arr[m].own # 0 => m = k

\* A message enters the history.
LEMMA PayloadRemembered ==
    ASSUME NEW h, NEW R, NEW S, NEW n \in Nat,
           arrived \in Seq(AMessage), EchoesOnce(arrived, n),
           Remembers(h, R, arrived, n), R \subseteq 1 .. Len(arrived),
           NEW m \in R, S \subseteq R \ {m},
           ~IsCommand(arrived, m) => \A r \in S : m < r
    PROVE  Remembers(AppendPayload(h, m), S, arrived, n)
<1> DEFINE own   == arrived[m].own
           local == {i \in DOMAIN h : IsProvisional(h[i]) /\ h[i].id = own}
<1>1. /\ h \in Seq(Entry) /\ DOMAIN h = 1 .. Len(h) /\ m \in 1 .. Len(arrived)
      /\ arrived[m] \in AMessage /\ own \in Nat /\ Len(arrived) \in Nat
  <2>1. h \in Seq(Entry)
    BY DEF Remembers, Known
  <2>2. m \in 1 .. Len(arrived)
    OBVIOUS
  <2>3. arrived[m] \in AMessage
    BY <2>2
  <2>4. own \in Nat
    BY <2>3 DEF AMessage
  <2> QED BY <2>1, <2>2, <2>3, <2>4
<1>2. CASE KindOf(m) # "echo"
  <2> DEFINE e == [from |-> "user", id |-> m, mark |-> "none"]
  <2>1. e \in Entry
    BY <1>1 DEF Entry
  <2>2. AppendPayload(h, m) = AppendEntry(h, e)
    BY <1>2 DEF AppendPayload
  <2>3. PICK d \in Nat : Moved(AppendEntry(h, e), h, e, d)
    BY <1>1, <2>1, AppendMoves
  <2>4. e.from = "user" /\ e.id = m
    OBVIOUS
  <2> HIDE DEF e
  <2>5. \A i \in 1 .. Len(h) : h[i].from = "user" /\ ~IsCommand(arrived, h[i].id) => h[i].id < m
    BY DEF Remembers, Older
  <2>6. S \subseteq R /\ n <= n
    OBVIOUS
  <2> QED BY <1>1, <2>1, <2>2, <2>3, <2>4, <2>5, <2>6, RemembersNew
<1>3. CASE KindOf(m) = "echo"
  <2>1. own # 0 /\ own \in 1 .. n
    BY <1>1, <1>3 DEF KindOf, EchoesOnce
  <2>2. \A r \in S : arrived[r].own # own
    BY <1>1, <2>1 DEF EchoesOnce
  <2>3. \A i \in 1 .. Len(h) : h[i].from = "own" /\ h[i].mark = "echo" => h[i].id # own
    BY DEF Remembers, Echoed
  <2>4. CASE local = {}
    <3> DEFINE e == [from |-> "own", id |-> own, mark |-> "echo"]
    <3>1. e \in Entry
      BY <1>1 DEF Entry
    <3>2. AppendPayload(h, m) = AppendEntry(h, e)
      BY <1>3, <2>4 DEF AppendPayload
    <3>3. PICK d \in Nat : Moved(AppendEntry(h, e), h, e, d)
      BY <1>1, <3>1, AppendMoves
    <3>4. e.from = "own" /\ e.id = own /\ e.mark = "echo"
      OBVIOUS
    <3>5. \A i \in 1 .. Len(h) : h[i].from = "own" => h[i].id # own
      <4> SUFFICES ASSUME NEW i \in 1 .. Len(h), h[i].from = "own", h[i].id = own PROVE FALSE
        OBVIOUS
      <4>1. h[i].mark # "none" /\ h[i] \in Entry
        BY <1>1 DEF Remembers, Known
      <4>2. h[i].mark \in {"local", "acked"}
        BY <2>3, <4>1 DEF Entry
      <4> QED BY <1>1, <2>4, <4>2 DEF IsProvisional
    <3> HIDE DEF e
    <3>6. S \subseteq R /\ n <= n
      OBVIOUS
    <3> QED BY <1>1, <2>1, <2>2, <3>1, <3>2, <3>3, <3>4, <3>5, <3>6, RemembersNew
  <2>5. CASE local # {}
    <3> DEFINE new == [i \in DOMAIN h |-> IF i \in local THEN [h[i] EXCEPT !.mark = "echo"]
                                          ELSE h[i]]
    <3>1. AppendPayload(h, m) = new
      BY <1>3, <2>5 DEF AppendPayload
    <3>2. \A i \in 1 .. Len(h) :
             /\ new[i] = IF i \in local THEN [h[i] EXCEPT !.mark = "echo"] ELSE h[i]
             /\ h[i] \in Entry
      BY <1>1
    <3>3. ASSUME NEW i \in 1 .. Len(h)
          PROVE  /\ new[i] \in Entry
                 /\ new[i].from = h[i].from /\ new[i].id = h[i].id
                 /\ new[i].mark = IF i \in local THEN "echo" ELSE h[i].mark
      BY <3>2, <3>3 DEF Entry
    <3>4. new \in Seq(Entry) /\ Len(new) = Len(h)
      BY <1>1, <3>3
    <3>5. \A i \in local : h[i].id = own
      OBVIOUS
    <3>6. \A i \in 1 .. Len(h) : h[i].from = "own" => h[i].mark # "none"
      BY DEF Remembers, Known
    <3> HIDE DEF new, local
    <3>7. \A i \in 1 .. Len(h) :
             /\ new[i].from = h[i].from /\ new[i].id = h[i].id
             /\ h[i].from = "own" => new[i].mark # "none"
             /\ h[i].from = "own" /\ new[i].mark = "echo" =>
                  \/ h[i].mark = "echo"
                  \/ /\ \E k \in 1 .. Len(arrived) : arrived[k].own = h[i].id
                     /\ \A k \in S : arrived[k].own # h[i].id
      BY <1>1, <2>2, <3>3, <3>5, <3>6
    <3>8. S \subseteq R
      OBVIOUS
    <3> QED BY <3>1, <3>4, <3>7, <3>8, RemembersMarked
  <2> QED BY <2>4, <2>5
<1> QED BY <1>2, <1>3

\* A burst enters the history, while the messages of T are still on their way.
LEMMA BurstRemembered ==
    ASSUME NEW h, NEW ms, NEW T, NEW n \in Nat,
           arrived \in Seq(AMessage), EchoesOnce(arrived, n),
           ms \in Seq(1 .. Len(arrived)), Increasing(ms),
           T \subseteq 1 .. Len(arrived), Before(Elems(ms), T),
           Remembers(h, Elems(ms) \cup T, arrived, n)
    PROVE  Remembers(AppendPayloads(h, ms), T, arrived, n)
<1>1. Len(ms) \in Nat /\ Elems(ms) \subseteq 1 .. Len(arrived)
  BY DEF Elems
<1>2. PICK a : WayTo(a, Len(ms), h, ms) /\ AppendPayloads(h, ms) = a[Len(ms)]
  BY <1>1, TheWay
<1>3. \A i \in 0 .. Len(ms) : a[i] = IF i = 0 THEN h ELSE AppendPayload(a[i - 1], ms[i])
  BY <1>2 DEF WayTo
<1> DEFINE Rest(i) == {ms[j] : j \in {k \in 1 .. Len(ms) : i < k}} \cup T
           Bad == {i \in 0 .. Len(ms) : ~Remembers(a[i], Rest(i), arrived, n)}
<1>4. Rest(Len(ms)) = T
  BY <1>1
<1>5. Rest(0) = Elems(ms) \cup T
  BY <1>1 DEF Elems
<1> HIDE DEF Rest
<1>6. SUFFICES ASSUME Bad # {} PROVE FALSE
  <2>1. Len(ms) \in 0 .. Len(ms)
    BY <1>1
  <2> QED BY <1>2, <1>4, <1>6, <2>1
<1>7. Bad \subseteq Nat
  BY <1>1
<1>8. PICK i \in Bad : \A j \in Bad : i <= j
  BY <1>6, <1>7, Least
<1>9. i # 0
  BY <1>1, <1>3, <1>5, <1>8
<1>10. i - 1 \in 0 .. Len(ms) /\ i - 1 \notin Bad /\ i \in 1 .. Len(ms)
  BY <1>1, <1>8, <1>9
<1>11. Remembers(a[i - 1], Rest(i - 1), arrived, n)
  BY <1>10
<1>12. a[i] = AppendPayload(a[i - 1], ms[i])
  BY <1>3, <1>9, <1>10
<1> HIDE DEF Bad
<1>13. ms[i] \in Rest(i - 1) /\ Rest(i - 1) \subseteq 1 .. Len(arrived)
  <2>1. i - 1 < i
    BY <1>10
  <2>2. ms[i] \in Rest(i - 1)
    BY <1>10, <2>1 DEF Rest
  <2>3. \A k \in 1 .. Len(ms) : ms[k] \in 1 .. Len(arrived)
    OBVIOUS
  <2>4. Rest(i - 1) \subseteq 1 .. Len(arrived)
    BY <2>3 DEF Rest
  <2> QED BY <2>2, <2>4
<1>14. \A r \in Rest(i) : ms[i] < r
  <2> SUFFICES ASSUME NEW r \in Rest(i) PROVE ms[i] < r
    OBVIOUS
  <2>1. CASE r \in T
    BY <1>10, <2>1 DEF Before, Elems
  <2>2. CASE r \notin T
    <3>1. PICK j \in 1 .. Len(ms) : i < j /\ r = ms[j]
      BY <2>2 DEF Rest
    <3> QED BY <1>10, <3>1 DEF Increasing
  <2> QED BY <2>1, <2>2
<1>15. Rest(i) \subseteq Rest(i - 1) \ {ms[i]}
  <2>1. Rest(i) \subseteq Rest(i - 1)
    <3>1. \A k \in 1 .. Len(ms) : i < k => i - 1 < k
      BY <1>10
    <3> QED BY <3>1 DEF Rest
  <2>2. ms[i] \in 1 .. Len(arrived)
    BY <1>10
  <2>3. ms[i] \notin Rest(i)
    BY <1>14, <2>2
  <2> QED BY <2>1, <2>3
<1>16. Remembers(a[i], Rest(i), arrived, n)
  BY <1>11, <1>12, <1>13, <1>14, <1>15, PayloadRemembered
<1> QED BY <1>8, <1>16 DEF Bad

-----------------------------------------------------------------------------
(* Whose turns the history holds.                                          *)

Users(h) == {h[i].id : i \in {j \in 1 .. Len(h) : h[j].from = "user"}}

LEMMA UsersMoved ==
    ASSUME NEW h \in Seq(Entry), NEW e \in Entry, NEW new, NEW d, Moved(new, h, e, d)
    PROVE  Users(new) \subseteq Users(h) \cup (IF e.from = "user" THEN {e.id} ELSE {})
<1> SUFFICES ASSUME NEW i \in 1 .. Len(new), new[i].from = "user"
             PROVE  new[i].id \in Users(h) \/ (e.from = "user" /\ new[i].id = e.id)
  BY DEF Users
<1>1. \/ i + d \in 1 .. Len(h) /\ new[i] = h[i + d]
      \/ new[i] = e
  BY MovedFrom
<1> QED BY <1>1 DEF Users

LEMMA UsersPayload ==
    ASSUME NEW h \in Seq(Entry), NEW m \in Nat, arrived[m].own \in Nat
    PROVE  /\ AppendPayload(h, m) \in Seq(Entry)
           /\ Users(AppendPayload(h, m)) \subseteq Users(h) \cup {m}
<1> DEFINE own   == arrived[m].own
           local == {i \in DOMAIN h : IsProvisional(h[i]) /\ h[i].id = own}
           u == [from |-> "user", id |-> m, mark |-> "none"]
           o == [from |-> "own", id |-> own, mark |-> "echo"]
           new == [i \in DOMAIN h |-> IF i \in local THEN [h[i] EXCEPT !.mark = "echo"]
                                      ELSE h[i]]
<1>1. u \in Entry /\ u.from = "user" /\ u.id = m /\ o \in Entry /\ o.from = "own"
  BY DEF Entry
<1>2. \/ AppendPayload(h, m) = AppendEntry(h, u)
      \/ AppendPayload(h, m) = AppendEntry(h, o)
      \/ AppendPayload(h, m) = new
  BY DEF AppendPayload
<1>3. new \in Seq(Entry) /\ Users(new) \subseteq Users(h)
  <2>1. \A i \in 1 .. Len(h) :
           /\ new[i] = IF i \in local THEN [h[i] EXCEPT !.mark = "echo"] ELSE h[i]
           /\ h[i] \in Entry
    OBVIOUS
  <2>2. ASSUME NEW i \in 1 .. Len(h)
        PROVE  new[i] \in Entry /\ new[i].from = h[i].from /\ new[i].id = h[i].id
    BY <2>1, <2>2 DEF Entry
  <2>4. DOMAIN h = 1 .. Len(h) /\ Len(h) \in Nat
    OBVIOUS
  <2>3. new \in Seq(Entry) /\ Len(new) = Len(h)
    BY <2>2, <2>4
  <2> HIDE DEF new
  <2> QED BY <2>2, <2>3 DEF Users
<1> HIDE DEF new, u, o
<1>4. CASE AppendPayload(h, m) = AppendEntry(h, u)
  <2>1. PICK d \in Nat : Moved(AppendEntry(h, u), h, u, d)
    BY <1>1, AppendMoves
  <2>2. Users(AppendEntry(h, u)) \subseteq Users(h) \cup {m}
    BY <1>1, <2>1, UsersMoved
  <2> QED BY <1>4, <2>1, <2>2 DEF Moved
<1>5. CASE AppendPayload(h, m) = AppendEntry(h, o)
  <2>1. PICK d \in Nat : Moved(AppendEntry(h, o), h, o, d)
    BY <1>1, AppendMoves
  <2>2. Users(AppendEntry(h, o)) \subseteq Users(h)
    BY <1>1, <2>1, UsersMoved
  <2> QED BY <1>5, <2>1, <2>2 DEF Moved
<1> QED BY <1>2, <1>3, <1>4, <1>5

LEMMA UsersBurst ==
    ASSUME NEW h \in Seq(Entry), NEW ms \in Seq(1 .. Len(arrived)), arrived \in Seq(AMessage)
    PROVE  /\ AppendPayloads(h, ms) \in Seq(Entry)
           /\ Users(AppendPayloads(h, ms)) \subseteq Users(h) \cup Elems(ms)
<1>1. Len(ms) \in Nat /\ \A i \in 1 .. Len(ms) : ms[i] \in 1 .. Len(arrived) /\ ms[i] \in Nat
  OBVIOUS
<1>2. PICK a : WayTo(a, Len(ms), h, ms) /\ AppendPayloads(h, ms) = a[Len(ms)]
  BY <1>1, TheWay
<1>3. \A i \in 0 .. Len(ms) : a[i] = IF i = 0 THEN h ELSE AppendPayload(a[i - 1], ms[i])
  BY <1>2 DEF WayTo
<1> DEFINE Fine(i) == a[i] \in Seq(Entry) /\ Users(a[i]) \subseteq Users(h) \cup Elems(ms)
           Bad == {i \in 0 .. Len(ms) : ~Fine(i)}
<1>4. SUFFICES ASSUME Bad # {} PROVE FALSE
  <2>1. Len(ms) \in 0 .. Len(ms)
    BY <1>1
  <2> QED BY <1>2, <1>4, <2>1
<1>5. Bad \subseteq Nat
  BY <1>1
<1>6. PICK i \in Bad : \A j \in Bad : i <= j
  BY <1>4, <1>5, Least
<1>7. i # 0
  <2>1. a[0] = h
    BY <1>1, <1>3
  <2> QED BY <1>6, <2>1
<1>8. i - 1 \in 0 .. Len(ms) /\ i - 1 \notin Bad /\ i \in 1 .. Len(ms)
  BY <1>1, <1>6, <1>7
<1>9. Fine(i - 1)
  BY <1>8
<1>10. a[i] = AppendPayload(a[i - 1], ms[i])
  BY <1>3, <1>7, <1>8
<1> HIDE DEF Bad
<1>11. ms[i] \in Nat /\ arrived[ms[i]].own \in Nat /\ ms[i] \in Elems(ms)
  <2>1. ms[i] \in 1 .. Len(arrived) /\ ms[i] \in Nat
    BY <1>1, <1>8
  <2>2. arrived[ms[i]] \in AMessage
    BY <2>1
  <2>3. ms[i] \in Elems(ms)
    BY <1>8 DEF Elems
  <2> QED BY <2>1, <2>2, <2>3 DEF AMessage
<1>12. Fine(i)
  BY <1>9, <1>10, <1>11, UsersPayload
<1> QED BY <1>6, <1>12 DEF Bad

-----------------------------------------------------------------------------
(* The chat's memory.                                                      *)

\* What is still to be remembered: the burst of a turn until it is applied, and
\* what the worker has not looked at.
Burst  == IF worker \in {"media", "llm2"} THEN {} ELSE Elems(batch)
Unread == Elems(todo) \cup Elems(pending) \cup Told(wire)

Gathered ==
    /\ arrived \in Seq(AMessage)
    /\ sent \in Seq({"sent", "acked", "lost"})
    /\ EchoesOnce(arrived, Len(sent))
    /\ Line(batch, todo, pending, wire, Len(arrived))
    /\ worker \in {"none", "awake"} => batch = <<>>
    /\ worker # "commands" => todo = <<>>

MemoryInv == Gathered /\ Remembers(history, Burst \cup Unread, arrived, Len(sent))

\* What a turn works with, or may.
Seen == Users(history) \cup Elems(batch) \cup (IF worker \in InTurn THEN prompt ELSE {})

\* A /reset is still to be looked at, or precedes all that is left; and what is
\* seen precedes what is not.
ResetInv ==
    /\ mode # "hybrid" /\ interrupt = FALSE
    /\ Seen \subseteq Messages
    /\ Before(Seen, Unread)
    /\ \A k \in Messages : KindOf(k) = "reset" =>
          k \in Unread \/ Before({k}, Seen \cup Unread)

LEMMA InitMemory == Init => MemoryInv
<1> SUFFICES ASSUME Init PROVE MemoryInv
  OBVIOUS
<1>1. /\ arrived = <<>> /\ sent = <<>> /\ history = <<>> /\ worker = "none"
      /\ batch = <<>> /\ todo = <<>> /\ pending = <<>> /\ wire = <<>>
  BY DEF Init
<1>2. Told(<<>>) = {} /\ ToldInOrder(<<>>)
  BY DEF Told, ToldInOrder
<1>3. Line(<<>>, <<>>, <<>>, <<>>, 0)
  BY <1>2, Nothing DEF Line, Before
<1>4. EchoesOnce(<<>>, 0)
  BY DEF EchoesOnce
<1>5. Gathered
  BY <1>1, <1>3, <1>4 DEF Gathered
<1>6. Remembers(<<>>, Burst \cup Unread, <<>>, 0)
  BY DEF Remembers, Known, OwnEach, Echoed, Sorted, Older
<1> QED BY <1>1, <1>5, <1>6 DEF MemoryInv

\* A message arrives, and a frame about it or none.
LEMMA ArrivalRemembered ==
    ASSUME MemoryInv, NEW x \in AMessage, arrived' = Append(arrived, x),
           \/ x.own = 0 /\ x.kind # "echo"
           \/ /\ x.kind = "echo" /\ x.own \in 1 .. Len(sent)
              /\ \A m \in Messages : arrived[m].own # x.own,
           UNCHANGED <<sent, worker, batch, todo, pending, history>>,
           Line(batch, todo, pending, wire', Len(arrived) + 1),
           Told(wire') \subseteq Told(wire) \cup {Len(arrived) + 1}
    PROVE  MemoryInv'
<1> DEFINE R == Burst \cup Unread
<1>1. /\ arrived \in Seq(AMessage) /\ Line(batch, todo, pending, wire, Len(arrived))
      /\ EchoesOnce(arrived, Len(sent)) /\ Remembers(history, R, arrived, Len(sent))
      /\ sent \in Seq({"sent", "acked", "lost"})
  BY DEF MemoryInv, Gathered
<1>2. R \subseteq 1 .. Len(arrived)
  BY <1>1, ElemsIn DEF Line, Burst, Unread
<1>3. /\ Len(arrived') = Len(arrived) + 1 /\ arrived' \in Seq(AMessage)
      /\ \A m \in 1 .. Len(arrived) : arrived'[m] = arrived[m]
      /\ arrived'[Len(arrived) + 1] = x /\ Len(arrived) \in Nat
  BY <1>1
<1>4. Remembers(history, R \cup {Len(arrived) + 1}, arrived', Len(sent))
  <2>1. x.own = 0 \/ \A m \in 1 .. Len(arrived) : arrived[m].own # x.own
    BY DEF Messages
  <2> QED BY <1>1, <1>2, <2>1, RemembersMore
<1>5. Burst' = Burst /\ Unread' \subseteq Unread \cup {Len(arrived) + 1}
  BY DEF Burst, Unread
<1>6. Remembers(history, Burst' \cup Unread', arrived', Len(sent))
  BY <1>4, <1>5, RemembersLess
<1>7. EchoesOnce(arrived', Len(sent))
  <2>1. x.kind = "echo" <=> x.own # 0
    BY <1>1
  <2>2. x.own <= Len(sent)
    BY <1>1
  <2>3. \A m \in 1 .. Len(arrived') : m \in 1 .. Len(arrived) \/ m = Len(arrived) + 1
    BY <1>3
  <2>4. \A m \in 1 .. Len(arrived) : arrived[m].own # x.own \/ x.own = 0
    BY DEF Messages
  <2> QED BY <1>1, <1>3, <2>1, <2>2, <2>3, <2>4 DEF EchoesOnce
<1> QED BY <1>1, <1>3, <1>6, <1>7 DEF MemoryInv, Gathered

\* Steps of the gateway without a message.
LEMMA FrameRemembered ==
    ASSUME MemoryInv, NEW f \in Frame, f.type # "message", wire' = Append(wire, f),
           UNCHANGED <<arrived, worker, batch, todo, pending, history>>,
           sent' \in Seq({"sent", "acked", "lost"}), Len(sent') = Len(sent)
    PROVE  MemoryInv'
<1>1. Line(batch, todo, pending, wire', Len(arrived))
  BY LineHears DEF MemoryInv, Gathered
<1>2. Told(wire') = Told(wire)
  BY ToldMore DEF MemoryInv, Gathered, Line
<1>3. Burst' = Burst /\ Unread' = Unread
  BY <1>2 DEF Burst, Unread
<1> QED BY <1>1, <1>3 DEF MemoryInv, Gathered

LEMMA MessageFrame ==
    ASSUME NEW n \in Nat
    PROVE  /\ [type |-> "message", id |-> n + 1] \in Frame
           /\ [type |-> "clear", id |-> 0] \in Frame
BY DEF Frame

LEMMA GatewayMemory == MemoryInv /\ Gateway => MemoryInv'
<1> SUFFICES ASSUME MemoryInv, Gateway PROVE MemoryInv'
  OBVIOUS
<1> DEFINE n == Len(arrived)
           message == [type |-> "message", id |-> n + 1]
           clear == [type |-> "clear", id |-> 0]
<1>1. /\ Line(batch, todo, pending, wire, n) /\ n \in Nat /\ wire \in Seq(Frame)
      /\ ToldInOrder(wire) /\ sent \in Seq({"sent", "acked", "lost"})
  BY DEF MemoryInv, Gathered, Line
<1>2. /\ message \in Frame /\ message.type = "message" /\ message.id = n + 1
      /\ clear \in Frame /\ clear.type = "clear"
  BY <1>1, MessageFrame
<1> HIDE DEF message, clear
<1>3. /\ Line(batch, todo, pending, Append(wire, message), n + 1)
      /\ Told(Append(wire, message)) = Told(wire) \cup {n + 1}
  <2>1. Line(batch, todo, pending, Append(wire, message), n + 1)
    BY <1>1, <1>2, LineArrives
  <2>2. Before(Told(wire), {n + 1})
    BY <1>1 DEF Line, Before
  <2> QED BY <1>1, <1>2, <2>1, <2>2, ToldMore
<1>4. /\ Line(batch, todo, pending, Append(wire, clear), n)
      /\ Told(Append(wire, clear)) = Told(wire)
  BY <1>1, <1>2, LineHears, ToldMore
<1>5. ASSUME NEW kind \in Kinds, Arrive(kind) PROVE MemoryInv'
  <2> DEFINE x == [kind |-> kind, own |-> 0]
  <2>1. x \in AMessage /\ x.own = 0 /\ x.kind # "echo"
    BY ChatAssumption DEF ChatAssumption, AMessage
  <2>2. /\ arrived' = Append(arrived, x) /\ wire' = Append(wire, message)
        /\ UNCHANGED <<sent, worker, batch, todo, pending, history>>
    BY <1>5 DEF Arrive, workVars, message
  <2> HIDE DEF x
  <2> QED BY <1>3, <2>1, <2>2, ArrivalRemembered
<1>6. CASE ArriveReset
  <2> DEFINE x == [kind |-> "reset", own |-> 0]
  <2>1. x \in AMessage /\ x.own = 0 /\ x.kind # "echo"
    BY <1>6 DEF AMessage, ArriveReset
  <2>2. /\ arrived' = Append(arrived, x)
        /\ UNCHANGED <<sent, worker, batch, todo, pending, history>>
    BY <1>6 DEF ArriveReset, workVars
  <2>3. \/ wire' = wire \o <<clear, message>>
        \/ wire' = wire \o <<message, clear>>
        \/ wire' = Append(wire, clear)
    BY <1>6 DEF ArriveReset, message, clear
  <2>4. /\ wire \o <<clear, message>> = Append(Append(wire, clear), message)
        /\ wire \o <<message, clear>> = Append(Append(wire, message), clear)
    BY <1>1, <1>2
  <2> HIDE DEF x
  <2>5. CASE wire' = Append(Append(wire, clear), message)
    <3>1. Line(batch, todo, pending, wire', n + 1)
      BY <1>2, <1>4, <2>5, LineArrives
    <3>2. Append(wire, clear) \in Seq(Frame) /\ ToldInOrder(Append(wire, clear))
      BY <1>4 DEF Line
    <3>3. Before(Told(Append(wire, clear)), {n + 1})
      BY <1>1, <1>4 DEF Line, Before
    <3>4. Told(wire') = Told(wire) \cup {n + 1}
      BY <1>2, <1>4, <2>5, <3>2, <3>3, ToldMore
    <3> QED BY <2>1, <2>2, <3>1, <3>4, ArrivalRemembered
  <2>6. CASE wire' = Append(Append(wire, message), clear)
    <3>1. Line(batch, todo, pending, wire', n + 1)
      BY <1>2, <1>3, <2>6, LineHears
    <3>2. Append(wire, message) \in Seq(Frame) /\ ToldInOrder(Append(wire, message))
      BY <1>3 DEF Line
    <3>3. Told(wire') = Told(wire) \cup {n + 1}
      BY <1>2, <1>3, <2>6, <3>2, ToldMore
    <3> QED BY <2>1, <2>2, <3>1, <3>3, ArrivalRemembered
  <2>7. CASE wire' = Append(wire, clear)
    <3>1. Line(batch, todo, pending, wire', n + 1)
      BY <1>4, <2>7, LineGrows
    <3>2. Told(wire') \subseteq Told(wire) \cup {n + 1}
      BY <1>4, <2>7
    <3> QED BY <2>1, <2>2, <3>1, <3>2, ArrivalRemembered
  <2> QED BY <2>3, <2>4, <2>5, <2>6, <2>7
<1>7. ASSUME NEW s \in DOMAIN sent, ArriveEcho(s) PROVE MemoryInv'
  <2> DEFINE x == [kind |-> "echo", own |-> s]
  <2>1. s \in 1 .. Len(sent) /\ s \in Nat
    BY <1>1
  <2>2. x \in AMessage /\ x.own \in 1 .. Len(sent) /\ x.kind = "echo"
    BY <2>1 DEF AMessage
  <2>3. /\ arrived' = Append(arrived, x) /\ wire' = Append(wire, message)
        /\ UNCHANGED <<sent, worker, batch, todo, pending, history>>
        /\ \A m \in Messages : arrived[m].own # x.own
    BY <1>7 DEF ArriveEcho, workVars, message
  <2> HIDE DEF x
  <2> QED BY <1>3, <2>2, <2>3, ArrivalRemembered
<1>8. ASSUME NEW s \in DOMAIN sent, ArriveAck(s) PROVE MemoryInv'
  <2> DEFINE f == [type |-> "ack", id |-> s]
  <2>1. f \in Frame /\ f.type = "ack"
    BY <1>1 DEF Frame
  <2>2. sent' = [sent EXCEPT ![s] = "acked"] /\ wire' = Append(wire, f)
        /\ UNCHANGED <<arrived, worker, batch, todo, pending, history>>
    BY <1>8 DEF ArriveAck, workVars
  <2>3. sent' \in Seq({"sent", "acked", "lost"}) /\ Len(sent') = Len(sent)
    BY <1>1, <2>2
  <2> HIDE DEF f
  <2> QED BY <2>1, <2>2, <2>3, FrameRemembered
<1>9. CASE ArriveMedia
  <2> DEFINE f == [type |-> "media", id |-> 0]
  <2>1. f \in Frame /\ f.type = "media"
    BY DEF Frame
  <2>2. wire' = Append(wire, f)
        /\ UNCHANGED <<sent, arrived, worker, batch, todo, pending, history>>
    BY <1>9 DEF ArriveMedia, workVars
  <2> HIDE DEF f
  <2> QED BY <1>1, <2>1, <2>2, FrameRemembered
<1>10. CASE AskCommand
  <2> DEFINE f == [type |-> "command", id |-> 0]
  <2>1. f \in Frame /\ f.type = "command"
    BY DEF Frame
  <2>2. wire' = Append(wire, f)
        /\ UNCHANGED <<sent, arrived, worker, batch, todo, pending, history>>
    BY <1>10 DEF AskCommand, workVars
  <2> HIDE DEF f
  <2> QED BY <1>1, <2>1, <2>2, FrameRemembered
<1> QED BY <1>5, <1>6, <1>7, <1>8, <1>9, <1>10 DEF Gateway

\* Steps that leave the history alone.
LEMMA StillRemembered ==
    ASSUME MemoryInv, UNCHANGED <<arrived, sent, history>>,
           Line(batch', todo', pending', wire', Len(arrived)),
           Burst' \cup Unread' \subseteq Burst \cup Unread,
           worker' \in {"none", "awake"} => batch' = <<>>,
           worker' # "commands" => todo' = <<>>
    PROVE  MemoryInv'
<1>1. Remembers(history, Burst' \cup Unread', arrived, Len(sent))
  BY RemembersLess DEF MemoryInv
<1> QED BY <1>1 DEF MemoryInv, Gathered

\* Steps that forget it.
LEMMA Forgotten ==
    ASSUME MemoryInv, UNCHANGED <<arrived, sent>>, history' = <<>>,
           Line(batch', todo', pending', wire', Len(arrived)),
           worker' \in {"none", "awake"} => batch' = <<>>,
           worker' # "commands" => todo' = <<>>
    PROVE  MemoryInv'
<1>1. Remembers(<<>>, Burst' \cup Unread', arrived, Len(sent))
  BY DEF Remembers, Known, OwnEach, Echoed, Sorted, Older
<1> QED BY <1>1 DEF MemoryInv, Gathered

\* Steps that rewrite it, or send.
LEMMA Rewritten ==
    ASSUME MemoryInv, UNCHANGED <<arrived, worker, batch, todo, pending, wire>>,
           sent' \in Seq({"sent", "acked", "lost"}), Len(sent) <= Len(sent'),
           Remembers(history', Burst \cup Unread, arrived, Len(sent'))
    PROVE  MemoryInv'
<1>1. Burst' = Burst /\ Unread' = Unread
  BY DEF Burst, Unread
<1>2. EchoesOnce(arrived, Len(sent'))
  <2>1. /\ arrived \in Seq(AMessage) /\ EchoesOnce(arrived, Len(sent))
        /\ Len(sent) \in Nat /\ Len(sent') \in Nat
    BY DEF MemoryInv, Gathered
  <2>2. \A m \in 1 .. Len(arrived) : arrived[m].own \in Nat
    <3> SUFFICES ASSUME NEW m \in 1 .. Len(arrived) PROVE arrived[m].own \in Nat
      OBVIOUS
    <3>1. arrived[m] \in AMessage
      BY <2>1
    <3> QED BY <3>1 DEF AMessage
  <2> QED BY <2>1, <2>2 DEF EchoesOnce
<1> QED BY <1>1, <1>2 DEF MemoryInv, Gathered

\* The bot sends, or tries to.
LEMMA SendRemembered ==
    ASSUME MemoryInv, UNCHANGED <<arrived, worker, batch, todo, pending, wire>>,
           NEW fate \in {"sent", "acked", "lost"}, sent' = Append(sent, fate),
           history' = AppendEntry(history,
                          [from |-> "own", id |-> NextSend, mark |-> "local"])
    PROVE  MemoryInv'
<1> DEFINE e == [from |-> "own", id |-> NextSend, mark |-> "local"]
           R == Burst \cup Unread
<1>1. /\ sent \in Seq({"sent", "acked", "lost"}) /\ Len(sent) \in Nat
      /\ Remembers(history, R, arrived, Len(sent)) /\ history \in Seq(Entry)
  BY DEF MemoryInv, Gathered, Remembers, Known
<1>2. e \in Entry /\ e.from = "own" /\ e.id = NextSend /\ e.mark = "local"
  BY <1>1 DEF Entry, NextSend
<1>3. history' = AppendEntry(history, e)
  OBVIOUS
<1> HIDE DEF e
<1>4. PICK d \in Nat : Moved(AppendEntry(history, e), history, e, d)
  BY <1>1, <1>2, AppendMoves
<1>5. /\ sent' \in Seq({"sent", "acked", "lost"}) /\ Len(sent') = NextSend
      /\ NextSend \in Nat /\ Len(sent) <= NextSend /\ NextSend \in 1 .. NextSend
  BY <1>1 DEF NextSend
<1>6. \A i \in 1 .. Len(history) : history[i].from = "own" => history[i].id # NextSend
  BY <1>1 DEF Remembers, Known, NextSend
<1> HIDE DEF R
<1>7. Remembers(history', R, arrived, NextSend)
  BY <1>1, <1>2, <1>3, <1>4, <1>5, <1>6, RemembersNew
<1> QED BY <1>5, <1>7, Rewritten DEF R

LEMMA LineFacts ==
    ASSUME MemoryInv
    PROVE  /\ Line(batch, todo, pending, wire, Len(arrived))
           /\ Burst \cup Unread \subseteq 1 .. Len(arrived) /\ Unread \subseteq 1 .. Len(arrived)
           /\ Before(Elems(batch), Unread)
<1>1. Line(batch, todo, pending, wire, Len(arrived))
  BY DEF MemoryInv, Gathered
<1> QED BY <1>1, ElemsIn DEF Line, Burst, Unread, Before

LEMMA PumpMemory == MemoryInv /\ Pump => MemoryInv'
<1> SUFFICES ASSUME MemoryInv, Pump PROVE MemoryInv'
  OBVIOUS
<1> DEFINE n == Len(arrived)
<1>1. Line(batch, todo, pending, wire, n)
  BY LineFacts
<1>2. CASE PumpRead
  <2> DEFINE m == Head(wire).id
  <2>1. /\ wire # <<>> /\ wire' = Tail(wire) /\ UNCHANGED <<arrived, sent, todo, batch>>
    BY <1>2 DEF PumpRead
  <2>2. Line(batch, todo, pending, wire', n)
    BY <1>1, <2>1, LineShrinks
  <2>3. Told(wire') \subseteq Told(wire)
    BY <1>1, <2>1, ToldLess DEF Line
  <2>4. CASE Head(wire).type = "message" /\ Enqueue(m)
    <3>1. /\ pending' = Append(pending, m) /\ history' = history
          /\ worker' = IF worker = "none" THEN "awake" ELSE worker
      BY <2>4 DEF Enqueue
    <3>2. Line(batch, todo, pending', wire', n)
      BY <1>1, <2>1, <2>4, <3>1, LineReads
    <3>3. m \in Told(wire) /\ m \in 1 .. n
      BY <1>1, <2>1, <2>4, ToldLess DEF Line
    <3> HIDE DEF m
    <3>4. Elems(pending') = Elems(pending) \cup {m}
      BY <1>1, <3>1, <3>3, Appended DEF Line
    <3>5. Burst' = Burst
      BY <2>1, <3>1 DEF Burst
    <3>6. Unread' \subseteq Unread
      BY <2>1, <2>3, <3>3, <3>4 DEF Unread
    <3>7. /\ worker' \in {"none", "awake"} => batch' = <<>>
          /\ worker' # "commands" => todo' = <<>>
      BY <2>1, <3>1 DEF MemoryInv, Gathered
    <3> QED BY <2>1, <3>1, <3>2, <3>5, <3>6, <3>7, StillRemembered
  <2>5. CASE UNCHANGED <<pending, worker, history>>
    <3>1. Burst' = Burst /\ Unread' \subseteq Unread
      BY <2>1, <2>3, <2>5 DEF Burst, Unread
    <3>2. /\ worker' \in {"none", "awake"} => batch' = <<>>
          /\ worker' # "commands" => todo' = <<>>
      BY <2>1, <2>5 DEF MemoryInv, Gathered
    <3> QED BY <2>1, <2>2, <2>5, <3>1, <3>2, StillRemembered
  <2>6. CASE history' = <<>> /\ UNCHANGED <<pending, worker>>
    <3>1. /\ worker' \in {"none", "awake"} => batch' = <<>>
          /\ worker' # "commands" => todo' = <<>>
      BY <2>1, <2>6 DEF MemoryInv, Gathered
    <3> QED BY <2>1, <2>2, <2>6, <3>1, Forgotten
  <2>7. CASE /\ worker' = IF worker = "media" THEN "llm2" ELSE worker
             /\ UNCHANGED <<pending, history>>
    <3>1. Burst' = Burst /\ Unread' \subseteq Unread
      BY <2>1, <2>3, <2>7 DEF Burst, Unread
    <3>2. /\ worker' \in {"none", "awake"} => batch' = <<>>
          /\ worker' # "commands" => todo' = <<>>
      BY <2>1, <2>7 DEF MemoryInv, Gathered
    <3> QED BY <2>1, <2>2, <2>7, <3>1, <3>2, StillRemembered
  <2> QED BY <1>2, <2>4, <2>5, <2>6, <2>7 DEF PumpRead, ReadMessage
<1>3. CASE PumpCommand
  <2>1. UNCHANGED <<arrived, worker, batch, todo, pending, wire>>
    BY <1>3 DEF PumpCommand, envVars, workVars
  <2>2. \/ \E fate \in {"sent", "lost"} :
             /\ sent' = Append(sent, fate)
             /\ history' = AppendEntry(history,
                               [from |-> "own", id |-> NextSend, mark |-> "local"])
        \/ UNCHANGED <<sent, history>>
    BY <1>3 DEF PumpCommand, SendOwn
  <2>3. CASE UNCHANGED <<sent, history>>
    BY <2>1, <2>3 DEF MemoryInv, Gathered, Burst, Unread
  <2> QED BY <2>1, <2>2, <2>3, SendRemembered
<1> QED BY <1>2, <1>3 DEF Pump

LEMMA ColdMemory == MemoryInv /\ (ColdStart \/ \E a \in {"pump", "cold"} : Cold(a)) => MemoryInv'
<1> DEFINE quiet == UNCHANGED <<arrived, sent, worker, batch, todo, pending, wire, history>>
<1>1. ASSUME MemoryInv, quiet PROVE MemoryInv'
  BY <1>1 DEF MemoryInv, Gathered, Burst, Unread
<1>2. ColdStart => quiet
  BY DEF ColdStart, workVars
<1>3. ASSUME NEW a, MemoryInv, ColdBegin(a) PROVE MemoryInv'
  <2> DEFINE e == [from |-> "system", id |-> 0, mark |-> "none"]
             R == Burst \cup Unread
             n == Len(sent)
  <2>1. /\ UNCHANGED <<arrived, sent, worker, batch, todo, pending, wire>>
        /\ history' = Append(history, e)
    BY <1>3 DEF ColdBegin, SystemTurn, envVars, workVars
  <2>2. e \in Entry /\ e.from = "system"
    BY DEF Entry
  <2> HIDE DEF e
  <2>3. /\ sent \in Seq({"sent", "acked", "lost"}) /\ n \in Nat /\ n <= n
        /\ Remembers(history, R, arrived, n) /\ history \in Seq(Entry) /\ R \subseteq R
    BY <1>3 DEF MemoryInv, Gathered, Remembers, Known
  <2>4. Moved(history', history, e, 0)
    BY <2>1, <2>2, <2>3, AppendMoves
  <2> HIDE DEF R
  <2>5. Remembers(history', R, arrived, n)
    BY <2>2, <2>3, <2>4, RemembersNew
  <2> QED BY <1>3, <2>1, <2>3, <2>5, Rewritten DEF R
<1>4. ASSUME NEW a, MemoryInv, ColdSend(a) PROVE MemoryInv'
  <2>1. /\ UNCHANGED <<arrived, worker, batch, todo, pending, wire>>
        /\ sent' = Append(sent, "sent")
        /\ history' = AppendEntry(history,
                          [from |-> "own", id |-> NextSend, mark |-> "local"])
    BY <1>4 DEF ColdSend, SendOwn, envVars, workVars
  <2> QED BY <1>4, <2>1, SendRemembered
<1>5. \A a : ColdEnd(a) => quiet
  BY DEF ColdEnd, envVars, workVars
<1> QED BY <1>1, <1>2, <1>3, <1>4, <1>5 DEF Cold

LEMMA AckMemory == MemoryInv /\ (\E n \in 1 .. MaxSends : Ack(n)) => MemoryInv'
<1> SUFFICES ASSUME MemoryInv, NEW n \in 1 .. MaxSends, Ack(n) PROVE MemoryInv'
  OBVIOUS
<1>1. CASE AckStart(n)
  BY <1>1 DEF AckStart, envVars, workVars, MemoryInv, Gathered, Burst, Unread
<1>2. CASE AckHydrate(n)
  <2> DEFINE mine(i) == /\ history[i].from = "own" /\ history[i].id = n
                        /\ history[i].mark = "local"
             R == Burst \cup Unread
  <2>1. /\ UNCHANGED <<arrived, sent, worker, batch, todo, pending, wire>>
        /\ history' = [i \in DOMAIN history |->
                         IF mine(i) THEN [history[i] EXCEPT !.mark = "acked"] ELSE history[i]]
    BY <1>2 DEF AckHydrate, envVars, workVars
  <2>2. /\ sent \in Seq({"sent", "acked", "lost"}) /\ Len(sent) <= Len(sent)
        /\ Remembers(history, R, arrived, Len(sent)) /\ history \in Seq(Entry) /\ R \subseteq R
    BY DEF MemoryInv, Gathered, Remembers, Known
  <2>3. DOMAIN history = 1 .. Len(history) /\ Len(history) \in Nat
    BY <2>2
  <2>4. \A i \in 1 .. Len(history) :
           /\ history'[i] = IF mine(i) THEN [history[i] EXCEPT !.mark = "acked"] ELSE history[i]
           /\ history[i] \in Entry
    BY <2>1, <2>2, <2>3
  <2> HIDE DEF mine, R
  <2>5. ASSUME NEW i \in 1 .. Len(history)
        PROVE  /\ history'[i] \in Entry
               /\ history'[i].from = history[i].from /\ history'[i].id = history[i].id
               /\ history'[i].mark = IF mine(i) THEN "acked" ELSE history[i].mark
    BY <2>4, <2>5 DEF Entry
  <2>6. history' \in Seq(Entry) /\ Len(history') = Len(history)
    BY <2>1, <2>3, <2>5
  <2>7. \A i \in 1 .. Len(history) : history[i].from = "own" => history[i].mark # "none"
    BY <2>2 DEF Remembers, Known
  <2>8. \A i \in 1 .. Len(history) :
           /\ history'[i].from = history[i].from /\ history'[i].id = history[i].id
           /\ history[i].from = "own" => history'[i].mark # "none"
           /\ history[i].from = "own" /\ history'[i].mark = "echo" => history[i].mark = "echo"
    BY <2>5, <2>7
  <2>9. Remembers(history', R, arrived, Len(sent))
    BY <2>2, <2>6, <2>8, RemembersMarked
  <2> QED BY <2>1, <2>2, <2>9, Rewritten DEF R
<1> QED BY <1>1, <1>2 DEF Ack

\* The worker drains a burst and runs its commands.
LEMMA CommandMemory ==
    MemoryInv /\ (Exit \/ Drain \/ ProcessCommand \/ CommandFails \/ AskLock) => MemoryInv'
<1> SUFFICES ASSUME MemoryInv, Exit \/ Drain \/ ProcessCommand \/ CommandFails \/ AskLock
             PROVE  MemoryInv'
  OBVIOUS
<1> DEFINE n == Len(arrived)
<1>1. /\ Line(batch, todo, pending, wire, n) /\ n \in Nat
      /\ todo \in Seq(1 .. n)
      /\ worker \in {"none", "awake"} => batch = <<>>
      /\ worker # "commands" => todo = <<>>
      /\ Remembers(history, Burst \cup Unread, arrived, Len(sent))
      /\ arrived \in Seq(AMessage) /\ EchoesOnce(arrived, Len(sent)) /\ Len(sent) \in Nat
      /\ Burst \cup Unread \subseteq 1 .. n
  BY LineFacts DEF MemoryInv, Gathered, Line
<1>2. CASE Exit
  <2>1. /\ UNCHANGED <<arrived, sent, batch, todo, pending, wire, history>>
        /\ worker = "awake" /\ worker' = "none"
    BY <1>2 DEF Exit, envVars
  <2>2. Burst' = Burst /\ Unread' = Unread
    BY <2>1 DEF Burst, Unread
  <2>3. Line(batch', todo', pending', wire', n) /\ todo' = <<>> /\ batch' = <<>>
    BY <1>1, <2>1
  <2> QED BY <2>1, <2>2, <2>3, StillRemembered
<1>3. CASE Drain
  <2>1. /\ UNCHANGED <<arrived, sent, batch, wire, history>>
        /\ worker = "awake" /\ worker' = "commands" /\ todo' = pending /\ pending' = <<>>
    BY <1>3 DEF Drain
  <2>2. Line(batch', todo', pending', wire', n)
    BY <1>1, <2>1, LineDrains
  <2>3. Burst' = Burst /\ Unread' \subseteq Unread
    BY <2>1, Nothing DEF Burst, Unread
  <2> QED BY <2>1, <2>2, <2>3, StillRemembered
<1>4. ASSUME worker = "commands", todo # <<>>,
             UNCHANGED <<arrived, sent, pending, wire>>
      PROVE  LET m == Head(todo) IN
             /\ m \in Elems(todo) /\ m \in Burst \cup Unread /\ m \in 1 .. n
             /\ Elems(todo) = Elems(Tail(todo)) \cup {m}
             /\ m \notin Elems(batch) /\ m \notin Elems(Tail(todo))
             /\ m \notin Elems(pending) /\ m \notin Told(wire)
             /\ Line(Append(batch, m), Tail(todo), pending, wire, n)
             /\ Line(batch, Tail(todo), pending, wire, n)
             /\ Line(<<>>, Tail(todo), pending, wire, n)
             /\ Line(<<>>, <<>>, pending, wire, n)
             /\ Elems(Append(batch, m)) = Elems(batch) \cup {m}
  <2> DEFINE m == Head(todo)
  <2>1. /\ m \in Elems(todo) /\ Elems(todo) = Elems(Tail(todo)) \cup {m}
        /\ Before({m}, Elems(Tail(todo))) /\ m \in 1 .. n
    BY <1>1, <1>4, Taken DEF Line
  <2>2. Line(Append(batch, m), Tail(todo), pending, wire, n)
    BY <1>1, <1>4, LineKeeps
  <2>3. Line(batch, Tail(todo), pending, wire, n)
    BY <1>1, <1>4, LineKeeps
  <2>4. Line(<<>>, Tail(todo), pending, wire, n) /\ Line(<<>>, <<>>, pending, wire, n)
    BY <2>3, LineForgets
  <2> HIDE DEF m
  <2>5. /\ m \notin Elems(batch) /\ m \notin Elems(Tail(todo))
        /\ m \notin Elems(pending) /\ m \notin Told(wire)
    <3>1. ~(m < m)
      BY <1>1, <2>1
    <3> QED BY <1>1, <2>1, <3>1 DEF Line, Before
  <2>6. Elems(Append(batch, m)) = Elems(batch) \cup {m}
    <3>1. batch \in Seq(1 .. n) /\ n \in Nat /\ m \in 1 .. n
      BY <1>1, <2>1 DEF Line
    <3> HIDE DEF n
    <3> QED BY <3>1, Appended
  <2>7. m \in Burst \cup Unread
    BY <2>1 DEF Unread
  <2> QED BY <2>1, <2>2, <2>3, <2>4, <2>5, <2>6, <2>7 DEF m
<1>5. CASE ProcessCommand
  <2> DEFINE m == Head(todo)
  <2>1. /\ worker = "commands" /\ worker' = worker /\ todo # <<>> /\ todo' = Tail(todo)
        /\ UNCHANGED <<arrived, sent, pending, wire>>
    BY <1>5 DEF ProcessCommand, envVars
  <2>2. \/ batch' = Append(batch, m) /\ UNCHANGED history
        \/ history' = <<>> /\ batch' = <<>>
        \/ KindOf(m) = "dump" /\ history' = AppendPayload(history, m) /\ UNCHANGED batch
    BY <1>5 DEF ProcessCommand, RunReset
  <2>3. /\ m \in Elems(todo) /\ m \in Burst \cup Unread
        /\ Elems(todo) = Elems(Tail(todo)) \cup {m}
        /\ m \notin Elems(batch) /\ m \notin Elems(Tail(todo))
        /\ m \notin Elems(pending) /\ m \notin Told(wire)
        /\ Line(Append(batch, m), Tail(todo), pending, wire, n)
        /\ Line(batch, Tail(todo), pending, wire, n)
        /\ Line(<<>>, Tail(todo), pending, wire, n)
        /\ Elems(Append(batch, m)) = Elems(batch) \cup {m}
    BY <1>4, <2>1
  <2> HIDE DEF m
  <2>4. CASE batch' = Append(batch, m) /\ UNCHANGED history
    <3>1. Burst' \cup Unread' \subseteq Burst \cup Unread
      BY <2>1, <2>3, <2>4 DEF Burst, Unread
    <3>2. Line(batch', todo', pending', wire', n)
      BY <2>1, <2>3, <2>4
    <3> QED BY <2>1, <2>4, <3>1, <3>2, StillRemembered
  <2>5. CASE history' = <<>> /\ batch' = <<>>
    <3>1. Line(batch', todo', pending', wire', n)
      BY <2>1, <2>3, <2>5
    <3> QED BY <2>1, <2>5, <3>1, Forgotten
  <2>6. CASE KindOf(m) = "dump" /\ history' = AppendPayload(history, m) /\ UNCHANGED batch
    <3>1. Burst' \cup Unread' \subseteq (Burst \cup Unread) \ {m}
      BY <2>1, <2>3, <2>6 DEF Burst, Unread
    <3>2. IsCommand(arrived, m)
      BY <2>6 DEF IsCommand, KindOf
    <3>3. Remembers(history', Burst' \cup Unread', arrived, Len(sent))
      BY <1>1, <2>3, <2>6, <3>1, <3>2, PayloadRemembered
    <3>4. Line(batch', todo', pending', wire', n)
      BY <2>1, <2>3, <2>6
    <3> QED BY <2>1, <3>3, <3>4 DEF MemoryInv, Gathered
  <2> QED BY <2>2, <2>4, <2>5, <2>6
<1>6. CASE CommandFails
  <2> DEFINE m == Head(todo)
  <2>1. /\ worker = "commands" /\ worker' = "none" /\ todo # <<>> /\ todo' = <<>> /\ batch' = <<>>
        /\ UNCHANGED <<arrived, sent, pending, wire>>
        /\ KindOf(m) = "dump" /\ history' = AppendPayload(history, m)
    BY <1>6 DEF CommandFails, envVars
  <2>2. /\ m \in Burst \cup Unread
        /\ m \notin Elems(pending) /\ m \notin Told(wire)
        /\ Line(<<>>, <<>>, pending, wire, n)
    BY <1>4, <2>1
  <2> HIDE DEF m
  <2>3. Burst' \cup Unread' \subseteq (Burst \cup Unread) \ {m}
    BY <2>1, <2>2, Nothing DEF Burst, Unread
  <2>4. IsCommand(arrived, m)
    BY <2>1 DEF IsCommand, KindOf
  <2>5. Remembers(history', Burst' \cup Unread', arrived, Len(sent))
    BY <1>1, <2>1, <2>2, <2>3, <2>4, PayloadRemembered
  <2>6. Line(batch', todo', pending', wire', n)
    BY <2>1, <2>2
  <2> QED BY <2>1, <2>5, <2>6 DEF MemoryInv, Gathered
<1>7. CASE AskLock
  <2>1. /\ UNCHANGED <<arrived, sent, batch, todo, pending, wire, history>>
        /\ worker = "commands" /\ todo = <<>>
        /\ worker' = "lock" \/ (worker' = "awake" /\ batch = <<>>)
    BY <1>7 DEF AskLock, envVars
  <2>2. Burst' = Burst /\ Unread' = Unread
    BY <2>1 DEF Burst, Unread
  <2>3. Line(batch', todo', pending', wire', n) /\ todo' = <<>>
    BY <1>1, <2>1
  <2> QED BY <2>1, <2>2, <2>3, StillRemembered
<1> QED BY <1>2, <1>3, <1>5, <1>6, <1>7

\* The worker takes a turn.
LEMMA TurnMemory ==
    /\ MemoryInv
    /\ \/ RememberOnly \/ BeginTurn \/ Route \/ Interrupt \/ Apply
       \/ MediaTimeout \/ Reply \/ EndTurn \/ HandlerError
    => MemoryInv'
<1> SUFFICES ASSUME MemoryInv,
                    \/ RememberOnly \/ BeginTurn \/ Route \/ Interrupt \/ Apply
                    \/ MediaTimeout \/ Reply \/ EndTurn \/ HandlerError
             PROVE  MemoryInv'
  OBVIOUS
<1> DEFINE n == Len(arrived)
<1>1. /\ Line(batch, todo, pending, wire, n) /\ n \in Nat
      /\ batch \in Seq(1 .. n) /\ Increasing(batch)
      /\ worker # "commands" => todo = <<>>
      /\ Remembers(history, Burst \cup Unread, arrived, Len(sent))
      /\ arrived \in Seq(AMessage) /\ EchoesOnce(arrived, Len(sent)) /\ Len(sent) \in Nat
      /\ Unread \subseteq 1 .. n /\ Before(Elems(batch), Unread)
      /\ sent \in Seq({"sent", "acked", "lost"})
  BY LineFacts DEF MemoryInv, Gathered, Line
<1>2. Line(<<>>, todo, pending, wire, n)
  BY <1>1, LineForgets
<1>3. ASSUME TurnOver, worker # "commands"
      PROVE  /\ UNCHANGED <<arrived, sent, todo, pending, wire>>
             /\ worker' = "awake" /\ batch' = <<>> /\ todo' = <<>>
             /\ Line(batch', todo', pending', wire', n)
             /\ Burst' = {} /\ Unread' = Unread
  <2>1. /\ UNCHANGED <<arrived, sent, todo, pending, wire>>
        /\ worker' = "awake" /\ batch' = <<>>
    BY <1>3 DEF TurnOver, envVars
  <2>2. Burst' = {} /\ Unread' = Unread
    BY <2>1, Nothing DEF Burst, Unread
  <2>3. Line(batch', todo', pending', wire', n)
    BY <1>2, <2>1
  <2> QED BY <1>1, <1>3, <2>1, <2>2, <2>3
<1>4. ASSUME worker \in {"lock", "apply"}, history' = AppendPayloads(history, batch)
      PROVE  Remembers(history', Unread, arrived, Len(sent))
  <2>1. Burst = Elems(batch)
    BY <1>4 DEF Burst
  <2> QED BY <1>1, <1>4, <2>1, BurstRemembered
<1>5. CASE RememberOnly
  <2>1. worker = "lock" /\ history' = AppendPayloads(history, batch) /\ TurnOver
    BY <1>5 DEF RememberOnly
  <2> QED BY <1>1, <1>3, <1>4, <2>1 DEF MemoryInv, Gathered
<1>6. CASE BeginTurn
  <2>1. /\ UNCHANGED <<arrived, sent, batch, todo, pending, wire, history>>
        /\ worker = "lock" /\ worker' \in {"apply", "llm1"}
    BY <1>6 DEF BeginTurn, envVars
  <2> QED BY <2>1 DEF MemoryInv, Gathered, Burst, Unread
<1>7. CASE Route
  <2>1. /\ UNCHANGED <<arrived, sent, batch, todo, pending, wire, history>>
        /\ worker = "llm1" /\ worker' = "apply"
    BY <1>7 DEF Route, envVars
  <2> QED BY <2>1 DEF MemoryInv, Gathered, Burst, Unread
<1>8. CASE Interrupt
  <2>1. /\ UNCHANGED <<arrived, sent, todo, wire, history>>
        /\ worker = "llm1" /\ worker' = "apply"
        /\ batch' = batch \o pending /\ pending' = <<>>
    BY <1>8 DEF Interrupt
  <2>2. todo = <<>>
    BY <1>1, <2>1
  <2>3. Line(batch', todo', pending', wire', n)
    BY <1>1, <2>1, <2>2, LineMerges
  <2>4. Elems(batch') = Elems(batch) \cup Elems(pending)
    BY <1>1, <2>1, Joined DEF Line
  <2>5. Burst' \cup Unread' \subseteq Burst \cup Unread
    BY <2>1, <2>4, Nothing DEF Burst, Unread
  <2> QED BY <2>1, <2>2, <2>3, <2>5, StillRemembered
<1>9. CASE Apply
  <2>1. worker = "apply" /\ history' = AppendPayloads(history, batch)
    BY <1>9 DEF Apply
  <2>2. Remembers(history', Unread, arrived, Len(sent))
    BY <1>4, <2>1
  <2>3. CASE TurnOver
    BY <1>1, <1>3, <2>1, <2>2, <2>3 DEF MemoryInv, Gathered
  <2>4. CASE /\ worker' \in {"media", "llm2"}
             /\ UNCHANGED <<envVars, sent, todo, batch, prompt, interrupt, turn, lockQ, ackVars>>
    <3>1. UNCHANGED <<arrived, sent, batch, todo, pending, wire>>
      BY <2>4 DEF envVars
    <3>2. Burst' = {} /\ Unread' = Unread
      BY <2>4, <3>1 DEF Burst, Unread
    <3>3. Line(batch', todo', pending', wire', n) /\ todo' = <<>>
      BY <1>1, <2>1, <3>1
    <3>4. worker' \notin {"none", "awake"}
      BY <2>4
    <3> QED BY <1>1, <2>2, <3>1, <3>2, <3>3, <3>4 DEF MemoryInv, Gathered
  <2> QED BY <1>9, <2>3, <2>4 DEF Apply
<1>10. CASE MediaTimeout
  <2>1. /\ UNCHANGED <<arrived, sent, batch, todo, pending, wire, history>>
        /\ worker = "media" /\ worker' = "llm2"
    BY <1>10 DEF MediaTimeout, envVars
  <2> QED BY <2>1 DEF MemoryInv, Gathered, Burst, Unread
<1>11. CASE Reply
  <2>1. /\ UNCHANGED <<arrived, worker, batch, todo, pending, wire>>
        /\ sent' = Append(sent, "sent")
        /\ history' = AppendEntry(history,
                          [from |-> "own", id |-> NextSend, mark |-> "local"])
    BY <1>11 DEF Reply, SendOwn, envVars, workVars
  <2> QED BY <2>1, SendRemembered
<1>12. CASE (EndTurn \/ HandlerError)
  <2>1. worker # "commands" /\ TurnOver /\ UNCHANGED history
    BY <1>12 DEF EndTurn, HandlerError, InTurn
  <2>2. Burst' \cup Unread' \subseteq Burst \cup Unread
    BY <1>3, <2>1
  <2> QED BY <1>3, <2>1, <2>2, StillRemembered
<1> QED BY <1>5, <1>6, <1>7, <1>8, <1>9, <1>10, <1>11, <1>12

LEMMA MemoryStep == MemoryInv /\ [Next]_vars => MemoryInv'
<1> SUFFICES ASSUME MemoryInv, [Next]_vars PROVE MemoryInv'
  OBVIOUS
<1>1. CASE UNCHANGED vars
  BY <1>1 DEF vars, envVars, workVars, MemoryInv, Gathered, Burst, Unread
<1>2. CASE Worker
  BY <1>2, CommandMemory, TurnMemory DEF Worker
<1> QED BY <1>1, <1>2, GatewayMemory, PumpMemory, ColdMemory, AckMemory DEF Next

LEMMA MemoryAlways == Spec => []MemoryInv
<1>1. Init => MemoryInv
  BY InitMemory
<1>2. MemoryInv /\ [Next]_vars => MemoryInv'
  BY MemoryStep
<1> QED BY <1>1, <1>2, PTL DEF Spec

\* The bot remembers each message it sent once, whichever of the ack, the echo
\* and the note of the send comes first, with every number of messages, every
\* mode, every fault and every length of the history.
THEOREM OwnOnceAlways == Spec => []OwnOnce
<1>1. MemoryInv => OwnOnce
  <2> SUFFICES ASSUME MemoryInv PROVE OwnOnce
    OBVIOUS
  <2>1. OwnEach(history) /\ DOMAIN history = 1 .. Len(history)
    BY DEF MemoryInv, Remembers, Known
  <2> QED BY <2>1 DEF OwnEach, OwnOnce
<1> QED BY <1>1, MemoryAlways, PTL

\* The turns of the user stand in the history in the order of their arrival,
\* each once, whatever was merged, drained, trimmed or reset.
THEOREM UserTurnsInOrderAlways == Spec => []UserTurnsInOrder
<1>1. MemoryInv => UserTurnsInOrder
  <2> SUFFICES ASSUME MemoryInv PROVE UserTurnsInOrder
    OBVIOUS
  <2>1. Sorted(history, arrived) /\ DOMAIN history = 1 .. Len(history)
    BY DEF MemoryInv, Remembers, Known
  <2> QED BY <2>1 DEF Sorted, UserTurnsInOrder, Command, KindOf, IsCommand
<1> QED BY <1>1, MemoryAlways, PTL

-----------------------------------------------------------------------------
(* What a /reset forgets.                                                  *)

LEMMA UnreadKnown == MemoryInv => Unread \subseteq Messages
BY LineFacts DEF Messages

\* A step of the session: what is no longer unread is seen or dropped, a /reset
\* only when all that is left comes after it.
LEMMA ResetCarries ==
    ASSUME MemoryInv, ResetInv, UNCHANGED <<arrived, mode>>, interrupt' = FALSE,
           Unread' \subseteq Unread, Seen' \subseteq Seen \cup Unread, Before(Seen', Unread'),
           \A k \in Unread \ Unread' :
               KindOf(k) = "reset" => Before({k}, Seen' \cup Unread')
    PROVE  ResetInv'
<1>1. Messages' = Messages /\ \A k : KindOf(k)' = KindOf(k)
  BY DEF Messages, KindOf
<1>2. Seen' \subseteq Messages
  BY UnreadKnown DEF ResetInv
<1>3. ASSUME NEW k \in Messages, KindOf(k) = "reset"
      PROVE  k \in Unread' \/ Before({k}, Seen' \cup Unread')
  <2>1. CASE k \in Unread
    BY <1>3, <2>1
  <2>2. CASE k \notin Unread
    <3>1. Before({k}, Seen \cup Unread)
      BY <1>3, <2>2 DEF ResetInv
    <3> QED BY <3>1 DEF Before
  <2> QED BY <2>1, <2>2
<1> HIDE DEF Seen, Unread
<1>4. mode' # "hybrid"
  BY DEF ResetInv
<1>5. \A k \in Messages' : KindOf(k)' = "reset" =>
         k \in Unread' \/ Before({k}, Seen' \cup Unread')
  BY <1>1, <1>3
<1> QED BY <1>1, <1>2, <1>4, <1>5 DEF ResetInv

\* Nothing is read and nothing more is seen.
LEMMA ResetKept ==
    ASSUME MemoryInv, ResetInv, UNCHANGED <<arrived, mode>>, interrupt' = FALSE,
           Unread' = Unread, Seen' \subseteq Seen
    PROVE  ResetInv'
<1>1. Before(Seen', Unread')
  BY DEF ResetInv, Before
<1> QED BY <1>1, ResetCarries

\* A message arrives and its frame is written.
LEMMA ResetArrives ==
    ASSUME MemoryInv, ResetInv, NEW x \in AMessage, arrived' = Append(arrived, x),
           UNCHANGED <<mode, interrupt>>, Seen' = Seen,
           Unread' = Unread \cup {Len(arrived) + 1}
    PROVE  ResetInv'
<1> DEFINE n == Len(arrived)
<1>1. /\ arrived \in Seq(AMessage) /\ n \in Nat /\ Len(arrived') = n + 1
      /\ \A k \in 1 .. n : arrived'[k] = arrived[k]
  BY DEF MemoryInv, Gathered
<1>2. Messages = 1 .. n /\ Messages' = 1 .. n + 1 /\ \A k \in Messages : k < n + 1
  BY <1>1 DEF Messages
<1>3. Seen' \subseteq Messages' /\ Messages \subseteq Messages'
  BY <1>2 DEF ResetInv
<1>4. Before(Seen', Unread')
  BY <1>2 DEF ResetInv, Before
<1>5. ASSUME NEW k \in Messages', KindOf(k)' = "reset"
      PROVE  k \in Unread' \/ Before({k}, Seen' \cup Unread')
  <2>1. CASE k = n + 1
    BY <2>1
  <2>2. CASE k # n + 1
    <3>1. k \in Messages
      BY <1>1, <1>2, <2>2
    <3>2. KindOf(k) = "reset"
      BY <1>1, <1>2, <1>5, <3>1 DEF KindOf
    <3>3. k < n + 1
      BY <1>2, <3>1
    <3> QED BY <3>1, <3>2, <3>3 DEF ResetInv, Before
  <2> QED BY <2>1, <2>2
<1>6. mode' # "hybrid" /\ interrupt' = FALSE
  BY DEF ResetInv
<1> HIDE DEF Seen, Unread
<1> QED BY <1>3, <1>4, <1>5, <1>6 DEF ResetInv

LEMMA GatewayResets ==
    ASSUME "lost" \notin Faults
    PROVE  MemoryInv /\ ResetInv /\ Gateway => ResetInv'
<1> SUFFICES ASSUME MemoryInv, ResetInv, Gateway PROVE ResetInv'
  OBVIOUS
<1> DEFINE n == Len(arrived)
           message == [type |-> "message", id |-> n + 1]
           clear == [type |-> "clear", id |-> 0]
<1>1. /\ n \in Nat /\ wire \in Seq(Frame) /\ ToldInOrder(wire)
      /\ Told(wire) \subseteq 1 .. n /\ sent \in Seq({"sent", "acked", "lost"})
  BY DEF MemoryInv, Gathered, Line
<1>2. /\ message \in Frame /\ message.type = "message" /\ message.id = n + 1
      /\ clear \in Frame /\ clear.type = "clear"
  BY <1>1, MessageFrame
<1> HIDE DEF message, clear
<1>3. Before(Told(wire), {n + 1})
  BY <1>1 DEF Before
<1>4. /\ Append(wire, message) \in Seq(Frame) /\ ToldInOrder(Append(wire, message))
      /\ Told(Append(wire, message)) = Told(wire) \cup {n + 1}
  BY <1>1, <1>2, <1>3, ToldMore
<1>5. /\ Append(wire, clear) \in Seq(Frame) /\ ToldInOrder(Append(wire, clear))
      /\ Told(Append(wire, clear)) = Told(wire)
  BY <1>1, <1>2, ToldMore
<1>6. ASSUME NEW x \in AMessage, arrived' = Append(arrived, x),
             UNCHANGED <<mode, interrupt, worker, batch, todo, prompt, pending, history>>,
             Told(wire') = Told(wire) \cup {n + 1}
      PROVE  ResetInv'
  <2>1. Seen' = Seen /\ Unread' = Unread \cup {n + 1}
    BY <1>6 DEF Seen, Unread
  <2> QED BY <1>6, <2>1, ResetArrives
<1>7. ASSUME NEW kind \in Kinds, Arrive(kind) PROVE ResetInv'
  <2> DEFINE x == [kind |-> kind, own |-> 0]
  <2>1. x \in AMessage
    BY DEF AMessage
  <2>2. /\ arrived' = Append(arrived, x) /\ wire' = Append(wire, message)
        /\ UNCHANGED <<mode, interrupt, worker, batch, todo, prompt, pending, history>>
    BY <1>7 DEF Arrive, workVars, message
  <2> HIDE DEF x
  <2> QED BY <1>4, <1>6, <2>1, <2>2
<1>8. CASE ArriveReset
  <2> DEFINE x == [kind |-> "reset", own |-> 0]
  <2>1. x \in AMessage
    BY <1>8 DEF AMessage, ArriveReset
  <2>2. /\ arrived' = Append(arrived, x)
        /\ UNCHANGED <<mode, interrupt, worker, batch, todo, prompt, pending, history>>
    BY <1>8 DEF ArriveReset, workVars
  <2>3. wire' = wire \o <<clear, message>> \/ wire' = wire \o <<message, clear>>
    BY <1>8 DEF ArriveReset, message, clear
  <2>4. /\ wire \o <<clear, message>> = Append(Append(wire, clear), message)
        /\ wire \o <<message, clear>> = Append(Append(wire, message), clear)
    BY <1>1, <1>2
  <2>5. Told(Append(Append(wire, clear), message)) = Told(wire) \cup {n + 1}
    BY <1>2, <1>3, <1>5, ToldMore
  <2>6. Told(Append(Append(wire, message), clear)) = Told(wire) \cup {n + 1}
    BY <1>2, <1>4, ToldMore
  <2> HIDE DEF x
  <2> QED BY <1>6, <2>1, <2>2, <2>3, <2>4, <2>5, <2>6
<1>9. ASSUME NEW s \in DOMAIN sent, ArriveEcho(s) PROVE ResetInv'
  <2> DEFINE x == [kind |-> "echo", own |-> s]
  <2>1. x \in AMessage
    BY <1>1 DEF AMessage
  <2>2. /\ arrived' = Append(arrived, x) /\ wire' = Append(wire, message)
        /\ UNCHANGED <<mode, interrupt, worker, batch, todo, prompt, pending, history>>
    BY <1>9 DEF ArriveEcho, workVars, message
  <2> HIDE DEF x
  <2> QED BY <1>4, <1>6, <2>1, <2>2
<1>10. ASSUME NEW f \in Frame, f.type # "message", wire' = Append(wire, f),
              UNCHANGED <<arrived, mode, interrupt, worker, batch, todo, prompt,
                          pending, history>>
       PROVE  ResetInv'
  <2>1. Told(wire') = Told(wire)
    BY <1>1, <1>10, ToldMore
  <2>2. Seen' = Seen /\ Unread' = Unread /\ interrupt' = FALSE
    BY <1>10, <2>1 DEF Seen, Unread, ResetInv
  <2> QED BY <1>10, <2>2, ResetKept
<1>11. ASSUME NEW s \in DOMAIN sent, ArriveAck(s) PROVE ResetInv'
  <2> DEFINE f == [type |-> "ack", id |-> s]
  <2>1. f \in Frame /\ f.type = "ack"
    BY <1>1 DEF Frame
  <2>2. /\ wire' = Append(wire, f)
        /\ UNCHANGED <<arrived, mode, interrupt, worker, batch, todo, prompt, pending, history>>
    BY <1>11 DEF ArriveAck, workVars
  <2> HIDE DEF f
  <2> QED BY <1>10, <2>1, <2>2
<1>12. CASE ArriveMedia
  <2> DEFINE f == [type |-> "media", id |-> 0]
  <2>1. f \in Frame /\ f.type = "media"
    BY DEF Frame
  <2>2. /\ wire' = Append(wire, f)
        /\ UNCHANGED <<arrived, mode, interrupt, worker, batch, todo, prompt, pending, history>>
    BY <1>12 DEF ArriveMedia, workVars
  <2> HIDE DEF f
  <2> QED BY <1>10, <2>1, <2>2
<1>13. CASE AskCommand
  <2> DEFINE f == [type |-> "command", id |-> 0]
  <2>1. f \in Frame /\ f.type = "command"
    BY DEF Frame
  <2>2. /\ wire' = Append(wire, f)
        /\ UNCHANGED <<arrived, mode, interrupt, worker, batch, todo, prompt, pending, history>>
    BY <1>13 DEF AskCommand, workVars
  <2> HIDE DEF f
  <2> QED BY <1>10, <2>1, <2>2
<1> QED BY <1>7, <1>8, <1>9, <1>11, <1>12, <1>13 DEF Gateway

\* The bot's own messages are no turns of the user.
LEMMA SentUsers ==
    ASSUME MemoryInv
    PROVE  /\ Users(AppendEntry(history, [from |-> "own", id |-> NextSend, mark |-> "local"]))
                 \subseteq Users(history)
           /\ Users(Append(history, [from |-> "system", id |-> 0, mark |-> "none"]))
                 \subseteq Users(history)
<1> DEFINE own == [from |-> "own", id |-> NextSend, mark |-> "local"]
           system == [from |-> "system", id |-> 0, mark |-> "none"]
<1>1. history \in Seq(Entry) /\ Len(sent) \in Nat
  BY DEF MemoryInv, Gathered, Remembers, Known
<1>2. own \in Entry /\ own.from = "own" /\ system \in Entry /\ system.from = "system"
  BY <1>1 DEF Entry, NextSend
<1> HIDE DEF own, system
<1>3. PICK d \in Nat : Moved(AppendEntry(history, own), history, own, d)
  BY <1>1, <1>2, AppendMoves
<1>4. Moved(Append(history, system), history, system, 0)
  BY <1>1, <1>2, AppendMoves
<1>5. Users(AppendEntry(history, own)) \subseteq Users(history)
  BY <1>1, <1>2, <1>3, UsersMoved
<1>6. Users(Append(history, system)) \subseteq Users(history)
  BY <1>1, <1>2, <1>4, UsersMoved
<1> QED BY <1>5, <1>6 DEF own, system

LEMMA PumpResets == MemoryInv /\ ResetInv /\ Pump => ResetInv'
<1> SUFFICES ASSUME MemoryInv, ResetInv, Pump PROVE ResetInv'
  OBVIOUS
<1>1. Line(batch, todo, pending, wire, Len(arrived))
  BY LineFacts
<1>2. interrupt = FALSE /\ mode # "hybrid"
  BY DEF ResetInv
<1>3. CASE PumpRead
  <2> DEFINE m == Head(wire).id
             gone == {m} \cap {k \in {m} : Head(wire).type = "message"}
  <2>1. /\ wire # <<>> /\ wire' = Tail(wire)
        /\ UNCHANGED <<arrived, mode, todo, batch, prompt>>
    BY <1>3 DEF PumpRead
  <2>2. Told(wire) = Told(wire') \cup gone
    BY <1>1, <2>1, ToldLess DEF Line
  <2>3. ASSUME Unread' \subseteq Unread, Seen' \subseteq Seen, interrupt' = FALSE,
               \A k \in Unread \ Unread' : KindOf(k) # "reset"
        PROVE  ResetInv'
    <3>1. Before(Seen', Unread')
      BY <2>3 DEF ResetInv, Before
    <3> QED BY <2>1, <2>3, <3>1, ResetCarries
  <2>4. CASE Head(wire).type = "message" /\ KindOf(m) \notin {"ignored", "added"} /\ Enqueue(m)
    <3>1. /\ pending' = Append(pending, m) /\ history' = history
          /\ worker' = IF worker = "none" THEN "awake" ELSE worker
      BY <2>4 DEF Enqueue
    <3>2. interrupt' = FALSE
      BY <1>2, <2>4 DEF Enqueue
    <3>3. m \in Told(wire) /\ m \in 1 .. Len(arrived)
      BY <1>1, <2>1, <2>4, ToldLess DEF Line
    <3>4. gone = {m}
      BY <2>4
    <3> HIDE DEF m
    <3>5. Elems(pending') = Elems(pending) \cup {m}
      BY <1>1, <3>1, <3>3, Appended DEF Line
    <3>6. Unread' = Unread
      BY <2>1, <2>2, <3>4, <3>5 DEF Unread
    <3>7. Seen' = Seen
      BY <2>1, <3>1 DEF Seen, InTurn
    <3> QED BY <2>1, <3>2, <3>6, <3>7, ResetKept
  <2>5. CASE /\ Head(wire).type = "message" => KindOf(m) \in {"ignored", "added"}
             /\ \/ UNCHANGED worker
                \/ worker' = IF worker = "media" THEN "llm2" ELSE worker
             /\ history' \in {<<>>, history} /\ UNCHANGED <<pending, interrupt>>
    <3>1. \A k \in gone : KindOf(k) # "reset"
      BY <2>5
    <3>2. Unread = Unread' \cup gone
      BY <2>1, <2>2, <2>5 DEF Unread
    <3>3. Users(<<>>) = {}
      BY DEF Users
    <3>4. Seen' \subseteq Seen
      BY <2>1, <2>5, <3>3 DEF Seen, InTurn
    <3> HIDE DEF gone
    <3> QED BY <1>2, <2>3, <2>5, <3>1, <3>2, <3>4
  <2> QED BY <1>3, <2>4, <2>5 DEF PumpRead, ReadMessage
<1>4. CASE PumpCommand
  <2>1. UNCHANGED <<arrived, mode, interrupt, worker, batch, todo, prompt, pending, wire>>
    BY <1>4 DEF PumpCommand, envVars, workVars
  <2>2. \/ history' = AppendEntry(history,
                          [from |-> "own", id |-> NextSend, mark |-> "local"])
        \/ UNCHANGED history
    BY <1>4 DEF PumpCommand, SendOwn
  <2>3. Users(history') \subseteq Users(history)
    BY <2>2, SentUsers
  <2>4. Unread' = Unread /\ Seen' \subseteq Seen
    BY <2>1, <2>3 DEF Unread, Seen
  <2> QED BY <1>2, <2>1, <2>4, ResetKept
<1> QED BY <1>3, <1>4 DEF Pump

LEMMA ColdResets ==
    /\ MemoryInv /\ ResetInv
    /\ ColdStart \/ \E a \in {"pump", "cold"} : Cold(a)
    => ResetInv'
<1> SUFFICES ASSUME MemoryInv, ResetInv, ColdStart \/ \E a \in {"pump", "cold"} : Cold(a)
             PROVE  ResetInv'
  OBVIOUS
<1>1. /\ UNCHANGED <<arrived, mode, interrupt, worker, batch, todo, prompt, pending, wire>>
      /\ \/ UNCHANGED history
         \/ history' = AppendEntry(history, [from |-> "own", id |-> NextSend, mark |-> "local"])
         \/ history' = Append(history, [from |-> "system", id |-> 0, mark |-> "none"])
  BY DEF ColdStart, Cold, ColdBegin, SystemTurn, ColdSend, ColdEnd, SendOwn, envVars, workVars
<1>2. Users(history') \subseteq Users(history)
  BY <1>1, SentUsers
<1>3. Unread' = Unread /\ Seen' \subseteq Seen /\ interrupt' = FALSE
  BY <1>1, <1>2 DEF Unread, Seen, ResetInv
<1> QED BY <1>1, <1>3, ResetKept

LEMMA AckResets == MemoryInv /\ ResetInv /\ (\E n \in 1 .. MaxSends : Ack(n)) => ResetInv'
<1> SUFFICES ASSUME MemoryInv, ResetInv, NEW n \in 1 .. MaxSends, Ack(n) PROVE ResetInv'
  OBVIOUS
<1>1. UNCHANGED <<arrived, mode, interrupt, worker, batch, todo, prompt, pending, wire>>
  BY DEF Ack, AckStart, AckHydrate, envVars, workVars
<1>2. Users(history') \subseteq Users(history)
  <2>1. CASE AckStart(n)
    BY <2>1 DEF AckStart
  <2>2. CASE AckHydrate(n)
    <3> DEFINE mine(i) == /\ history[i].from = "own" /\ history[i].id = n
                          /\ history[i].mark = "local"
    <3>1. history \in Seq(Entry)
      BY DEF MemoryInv, Remembers, Known
    <3>2. DOMAIN history = 1 .. Len(history) /\ Len(history) \in Nat
      BY <3>1
    <3>3. history' = [i \in DOMAIN history |->
                        IF mine(i) THEN [history[i] EXCEPT !.mark = "acked"] ELSE history[i]]
      BY <2>2 DEF AckHydrate
    <3>4. \A i \in 1 .. Len(history) :
             /\ history'[i] = IF mine(i) THEN [history[i] EXCEPT !.mark = "acked"]
                              ELSE history[i]
             /\ history[i] \in Entry
      BY <3>1, <3>2, <3>3
    <3> HIDE DEF mine
    <3>5. ASSUME NEW i \in 1 .. Len(history)
          PROVE  /\ history'[i] \in Entry
                 /\ history'[i].from = history[i].from /\ history'[i].id = history[i].id
      BY <3>4, <3>5 DEF Entry
    <3>6. history' \in Seq(Entry) /\ Len(history') = Len(history)
      BY <3>2, <3>3, <3>5
    <3> QED BY <3>5, <3>6 DEF Users
  <2> QED BY <2>1, <2>2 DEF Ack
<1>3. Unread' = Unread /\ Seen' \subseteq Seen /\ interrupt' = FALSE
  BY <1>1, <1>2 DEF Unread, Seen, ResetInv
<1> QED BY <1>1, <1>3, ResetKept

LEMMA CommandResets ==
    ASSUME "dump" \notin Faults
    PROVE  /\ MemoryInv /\ ResetInv
           /\ Exit \/ Drain \/ ProcessCommand \/ CommandFails \/ AskLock
           => ResetInv'
<1> SUFFICES ASSUME MemoryInv, ResetInv,
                    Exit \/ Drain \/ ProcessCommand \/ CommandFails \/ AskLock
             PROVE  ResetInv'
  OBVIOUS
<1> DEFINE n == Len(arrived)
<1>1. /\ Line(batch, todo, pending, wire, n) /\ n \in Nat /\ todo \in Seq(1 .. n)
      /\ batch \in Seq(1 .. n)
      /\ worker # "commands" => todo = <<>>
      /\ arrived \in Seq(AMessage) /\ history \in Seq(Entry)
      /\ interrupt = FALSE
  BY LineFacts DEF MemoryInv, Gathered, Line, ResetInv, Remembers, Known
<1>2. CASE Exit \/ AskLock
  <2>1. /\ UNCHANGED <<arrived, mode, interrupt, batch, todo, prompt, pending, wire, history>>
        /\ worker' \notin InTurn
    BY <1>2 DEF Exit, AskLock, envVars, InTurn
  <2>2. Unread' = Unread /\ Seen' \subseteq Seen
    BY <2>1 DEF Unread, Seen
  <2> QED BY <1>1, <2>1, <2>2, ResetKept
<1>3. CASE Drain
  <2>1. /\ UNCHANGED <<arrived, mode, interrupt, batch, prompt, wire, history>>
        /\ worker = "awake" /\ worker' = "commands" /\ todo' = pending /\ pending' = <<>>
    BY <1>3 DEF Drain
  <2>2. todo = <<>>
    BY <1>1, <2>1
  <2>3. Unread' = Unread /\ Seen' \subseteq Seen
    BY <2>1, <2>2, Nothing DEF Unread, Seen, InTurn
  <2> QED BY <1>1, <2>1, <2>3, ResetKept
<1>4. CASE ProcessCommand
  <2> DEFINE m == Head(todo)
  <2>1. /\ worker = "commands" /\ worker' = worker /\ todo # <<>> /\ todo' = Tail(todo)
        /\ UNCHANGED <<arrived, mode, interrupt, prompt, pending, wire>>
    BY <1>4 DEF ProcessCommand, envVars
  <2>2. \/ ~Command(m) /\ batch' = Append(batch, m) /\ UNCHANGED history
        \/ history' = <<>> /\ batch' = <<>>
        \/ KindOf(m) = "dump" /\ history' = AppendPayload(history, m) /\ UNCHANGED batch
    BY <1>4 DEF ProcessCommand, RunReset
  <2>3. /\ m \in Elems(todo) /\ Elems(todo) = Elems(Tail(todo)) \cup {m}
        /\ Before({m}, Elems(Tail(todo))) /\ m \in 1 .. n
    BY <1>1, <2>1, Taken DEF Line
  <2> HIDE DEF m
  <2>4. /\ Unread = Unread' \cup {m} /\ Before({m}, Unread') /\ m \in Unread
    BY <1>1, <2>1, <2>3 DEF Unread, Line, Before
  <2>5. ASSUME Seen' \subseteq Seen \cup {m}, KindOf(m) = "reset" => Seen' = {}
        PROVE  ResetInv'
    <3>1. Before(Seen', Unread')
      BY <2>4, <2>5 DEF ResetInv, Before
    <3>2. \A k \in Unread \ Unread' :
             KindOf(k) = "reset" => Before({k}, Seen' \cup Unread')
      BY <2>4, <2>5
    <3> QED BY <1>1, <2>1, <2>4, <2>5, <3>1, <3>2, ResetCarries
  <2>6. worker \notin InTurn /\ worker' \notin InTurn
    BY <2>1 DEF InTurn
  <2>7. CASE ~Command(m) /\ batch' = Append(batch, m) /\ UNCHANGED history
    <3>1. Elems(Append(batch, m)) = Elems(batch) \cup {m}
      <4>1. batch \in Seq(1 .. n) /\ n \in Nat /\ m \in 1 .. n
        BY <1>1, <2>3
      <4> HIDE DEF n
      <4> QED BY <4>1, Appended
    <3>2. Seen' \subseteq Seen \cup {m}
      BY <2>6, <2>7, <3>1 DEF Seen
    <3>3. KindOf(m) # "reset"
      BY <2>7 DEF Command
    <3> QED BY <2>5, <3>2, <3>3
  <2>8. CASE history' = <<>> /\ batch' = <<>>
    <3>1. Users(<<>>) = {}
      BY DEF Users
    <3>2. Seen' = {}
      BY <2>6, <2>8, <3>1, Nothing DEF Seen
    <3> QED BY <2>5, <3>2
  <2>9. CASE KindOf(m) = "dump" /\ history' = AppendPayload(history, m) /\ UNCHANGED batch
    <3>1. arrived[m] \in AMessage /\ m \in Nat
      BY <1>1, <2>3
    <3>2. Users(history') \subseteq Users(history) \cup {m}
      BY <1>1, <2>9, <3>1, UsersPayload DEF AMessage
    <3>3. Seen' \subseteq Seen \cup {m}
      BY <2>6, <2>9, <3>2 DEF Seen
    <3> QED BY <2>5, <2>9, <3>3
  <2> QED BY <2>2, <2>7, <2>8, <2>9
<1> QED BY <1>2, <1>3, <1>4 DEF CommandFails

LEMMA TurnResets ==
    /\ MemoryInv /\ ResetInv
    /\ \/ RememberOnly \/ BeginTurn \/ Route \/ Interrupt \/ Apply
       \/ MediaTimeout \/ Reply \/ EndTurn \/ HandlerError
    => ResetInv'
<1> SUFFICES ASSUME MemoryInv, ResetInv,
                    \/ RememberOnly \/ BeginTurn \/ Route \/ Interrupt \/ Apply
                    \/ MediaTimeout \/ Reply \/ EndTurn \/ HandlerError
             PROVE  ResetInv'
  OBVIOUS
<1> DEFINE added == Users(AppendPayloads(history, batch))
<1>1. interrupt = FALSE /\ added \subseteq Users(history) \cup Elems(batch)
  <2>1. /\ batch \in Seq(1 .. Len(arrived)) /\ arrived \in Seq(AMessage)
        /\ history \in Seq(Entry)
    BY DEF MemoryInv, Gathered, Line, Remembers, Known
  <2> QED BY <2>1, UsersBurst DEF ResetInv
<1> HIDE DEF added
<1>2. ASSUME UNCHANGED <<envVars, todo>>, interrupt' = FALSE,
             Users(history') \subseteq Users(history) \cup Elems(batch),
             Elems(batch') \subseteq Elems(batch),
             worker' \in InTurn => prompt' \subseteq Seen
      PROVE  ResetInv'
  <2>1. UNCHANGED <<arrived, mode, pending, wire>>
    BY <1>2 DEF envVars
  <2>2. Unread' = Unread
    BY <1>2, <2>1 DEF Unread
  <2>3. Seen' \subseteq Seen
    <3>1. Users(history') \subseteq Seen /\ Elems(batch') \subseteq Seen
      BY <1>2 DEF Seen
    <3> QED BY <1>2, <3>1 DEF Seen
  <2> QED BY <1>2, <2>1, <2>2, <2>3, ResetKept
<1>3. ASSUME TurnOver, Users(history') \subseteq Users(history) \cup Elems(batch)
      PROVE  ResetInv'
  <2>1. /\ UNCHANGED <<envVars, todo>> /\ interrupt' = interrupt
        /\ worker' = "awake" /\ batch' = <<>>
    BY <1>3 DEF TurnOver
  <2>2. Elems(batch') \subseteq Elems(batch) /\ worker' \notin InTurn
    BY <2>1, Nothing DEF InTurn
  <2> QED BY <1>1, <1>2, <1>3, <2>1, <2>2
<1>4. CASE RememberOnly
  BY <1>1, <1>3, <1>4 DEF RememberOnly, added
<1>5. CASE BeginTurn
  <2>1. /\ UNCHANGED <<envVars, todo, batch, history>> /\ interrupt' = FALSE
        /\ prompt' = {history[i].id : i \in {j \in DOMAIN history : history[j].from = "user"}}
    BY <1>1, <1>5 DEF BeginTurn
  <2>2. DOMAIN history = 1 .. Len(history)
    BY DEF MemoryInv, Remembers, Known
  <2>3. prompt' \subseteq Seen
    BY <2>1, <2>2 DEF Seen, Users
  <2> QED BY <1>2, <2>1, <2>3
<1>6. CASE Route \/ MediaTimeout
  <2>1. /\ UNCHANGED <<envVars, todo, batch, prompt, history, interrupt>>
        /\ worker \in InTurn
    BY <1>6 DEF Route, MediaTimeout, InTurn
  <2>2. prompt' \subseteq Seen
    BY <2>1 DEF Seen
  <2> QED BY <1>1, <1>2, <2>1, <2>2
<1>7. CASE Apply
  <2>1. CASE TurnOver
    BY <1>1, <1>3, <1>7, <2>1 DEF Apply, added
  <2>2. CASE UNCHANGED <<envVars, sent, todo, batch, prompt, interrupt, turn, lockQ, ackVars>>
    <3>1. worker \in InTurn /\ history' = AppendPayloads(history, batch)
      BY <1>7 DEF Apply, InTurn
    <3>2. prompt' \subseteq Seen
      BY <2>2, <3>1 DEF Seen
    <3> QED BY <1>1, <1>2, <2>2, <3>1, <3>2 DEF added
  <2> QED BY <1>7, <2>1, <2>2 DEF Apply
<1>8. CASE Reply
  <2>1. /\ UNCHANGED <<envVars, workVars>> /\ worker \in InTurn
        /\ history' = AppendEntry(history,
                          [from |-> "own", id |-> NextSend, mark |-> "local"])
    BY <1>8 DEF Reply, SendOwn, InTurn
  <2>2. Users(history') \subseteq Users(history)
    BY <2>1, SentUsers
  <2>3. UNCHANGED <<todo, batch, prompt, interrupt>>
    BY <2>1 DEF workVars
  <2>4. prompt' \subseteq Seen
    BY <2>1, <2>3 DEF Seen
  <2> QED BY <1>1, <1>2, <2>1, <2>2, <2>3, <2>4
<1>9. CASE EndTurn \/ HandlerError
  BY <1>3, <1>9 DEF EndTurn, HandlerError
<1> QED BY <1>1, <1>4, <1>5, <1>6, <1>7, <1>8, <1>9 DEF Interrupt

LEMMA ResetStep ==
    ASSUME "lost" \notin Faults, "dump" \notin Faults
    PROVE  MemoryInv /\ ResetInv /\ [Next]_vars => ResetInv'
<1> SUFFICES ASSUME MemoryInv, ResetInv, [Next]_vars PROVE ResetInv'
  OBVIOUS
<1>1. CASE UNCHANGED vars
  BY <1>1 DEF vars, envVars, workVars, ResetInv, Seen, Unread, Messages, KindOf
<1>2. CASE Worker
  BY <1>2, CommandResets, TurnResets DEF Worker
<1> QED BY <1>1, <1>2, GatewayResets, PumpResets, ColdResets, AckResets DEF Next

LEMMA InitResets ==
    ASSUME "hybrid" \notin Modes
    PROVE  Init => ResetInv
<1> SUFFICES ASSUME Init PROVE ResetInv
  OBVIOUS
<1>1. /\ mode \in Modes /\ arrived = <<>> /\ interrupt = FALSE /\ worker = "none"
      /\ batch = <<>> /\ history = <<>>
  BY DEF Init
<1>2. Users(<<>>) = {} /\ Messages = {}
  BY <1>1 DEF Users, Messages
<1>3. Seen = {}
  BY <1>1, <1>2, Nothing DEF Seen, InTurn
<1> QED BY <1>1, <1>2, <1>3 DEF ResetInv, Before

LEMMA TurnForgets == MemoryInv /\ ResetInv => ResetForgets
<1> SUFFICES ASSUME MemoryInv, ResetInv, worker \in InTurn,
                    NEW p \in Seen, NEW m \in Elems(batch), ResetBetween(p, m)
             PROVE  FALSE
  <2>1. DOMAIN batch = 1 .. Len(batch)
    BY DEF MemoryInv, Gathered, Line
  <2>2. \A i \in DOMAIN batch : batch[i] \in Elems(batch)
    BY <2>1 DEF Elems
  <2>3. Elems(batch) \subseteq Seen /\ (worker \in InTurn => prompt \subseteq Seen)
    BY DEF Seen
  <2> QED BY <2>2, <2>3 DEF ResetForgets
<1>1. PICK k \in p + 1 .. m - 1 : KindOf(k) = "reset"
  BY DEF ResetBetween
<1>2. m \in Seen
  BY DEF Seen
<1>3. Len(arrived) \in Nat /\ Messages = 1 .. Len(arrived)
  BY DEF MemoryInv, Gathered, Messages
<1>4. k \in Messages /\ p < k /\ k < m /\ ~(k < p) /\ ~(m < k)
  <2>1. p \in 1 .. Len(arrived) /\ m \in 1 .. Len(arrived)
    BY <1>2, <1>3 DEF ResetInv
  <2> HIDE DEF Seen
  <2> QED BY <1>3, <2>1
<1>5. k \notin Unread
  BY <1>2, <1>4 DEF ResetInv, Before
<1>6. Before({k}, Seen)
  BY <1>1, <1>4, <1>5 DEF ResetInv, Before
<1> QED BY <1>4, <1>6 DEF Before

\* A turn never works with a message that came before a /reset that came before
\* one of its own messages: in every chat that is not hybrid, when the message
\* of a /reset follows or precedes its clear_history and no dump fails.
THEOREM ResetForgetsAlways ==
    ASSUME "hybrid" \notin Modes, "lost" \notin Faults, "dump" \notin Faults
    PROVE  Spec => []ResetForgets
<1>1. Init => MemoryInv /\ ResetInv
  BY InitMemory, InitResets
<1>2. MemoryInv /\ ResetInv /\ [Next]_vars => (MemoryInv /\ ResetInv)'
  BY MemoryStep, ResetStep
<1>3. MemoryInv /\ ResetInv => ResetForgets
  BY TurnForgets
<1> QED BY <1>1, <1>2, <1>3, PTL DEF Spec
=============================================================================
