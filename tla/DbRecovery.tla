----------------------------- MODULE DbRecovery ------------------------------
(***************************************************************************)
(* The gateway and the bridge share a SQLite file.  Either of them, when   *)
(* it opens or queries a file SQLite calls malformed, drops its connection,*)
(* takes a lock file, checks the file again, moves the side files away,    *)
(* checks once more, moves the database itself away and opens a new one    *)
(* (withDbRecovery and openDbWithRecovery in Database.ts, _db_resilient    *)
(* and _new_conn in core.py).                                              *)
(*                                                                         *)
(* A file is a number: a file moved away keeps its number, and the next    *)
(* one created at the path gets a new one.  The side files (-wal, -shm,    *)
(* -journal) are one.  Of time the model knows that a lock file gets older *)
(* than the peers' patience with it (stale), and that a waiter gives up.   *)
(***************************************************************************)
EXTENDS Naturals, FiniteSets

CONSTANTS
    Procs,       \* the gateway and the bridge
    NodeProcs,   \* those of Procs that are the gateway
    Nobody,      \* none of them
    MaxDamages,  \* how many times a file becomes corrupt (a model bound)
    MaxCrashes   \* how often a process dies (a model bound)

VARIABLES
    main, side,    \* the files at the path; 0 is none
    bad,           \* corrupt files, as <<"main" or "side", number>>
    used,          \* the highest number used
    conn,          \* the files each process has open; <<0, 0>> is none
    lock,          \* the process whose lock file is at the path
    stale,         \* that lock file is old
    pc,            \* where each process is
    queried,       \* it recovers for a query, not for a first open
    reopens,       \* its recovery is the one inside the open
    \* history
    robbed,        \* a lock was removed from under a live recovery
    wasted,        \* databases that were moved away though all was sound
    damages, crashes

files  == <<main, side, bad, used>>
locks  == <<lock, stale, robbed>>
flow   == <<queried, reopens>>
bounds == <<damages, crashes>>
vars   == <<files, conn, locks, pc, flow, wasted, bounds>>

Inside == {"probe", "sides", "probe again", "main", "release"}
Steps  == Inside \cup {"idle", "lock", "unlink", "open", "shut"}
Closed == <<0, 0>>

Init ==
    /\ main = 1 /\ side = 1 /\ used = 1
    /\ bad = {}
    /\ conn = [p \in Procs |-> <<1, 1>>]
    /\ lock = Nobody
    /\ stale = FALSE
    /\ pc = [p \in Procs |-> "idle"]
    /\ queried = [p \in Procs |-> FALSE]
    /\ reopens = [p \in Procs |-> FALSE]
    /\ robbed = FALSE
    /\ wasted = {}
    /\ damages = 0
    /\ crashes = 0

\* What integrity_check says of the path; a path without a file is fine.
Sound == <<"main", main>> \notin bad /\ <<"side", side>> \notin bad
Hurts(p) == <<"main", conn[p][1]>> \in bad \/ <<"side", conn[p][2]>> \in bad

Go(p, step) == pc' = [pc EXCEPT ![p] = step]

-----------------------------------------------------------------------------
\* A file at the path gets corrupt.
Damage(f) ==
    /\ damages < MaxDamages
    /\ f[2] # 0 /\ f \notin bad
    /\ damages' = damages + 1
    /\ bad' = bad \cup {f}
    /\ UNCHANGED <<main, side, used, conn, locks, pc, flow, wasted, crashes>>

\* A query meets the corruption: the connection is dropped.
Query(p) ==
    /\ pc[p] = "idle" /\ conn[p] # Closed
    /\ Hurts(p)
    /\ conn' = [conn EXCEPT ![p] = Closed]
    /\ queried' = [queried EXCEPT ![p] = TRUE]
    /\ reopens' = [reopens EXCEPT ![p] = FALSE]
    /\ Go(p, "lock")
    /\ UNCHANGED <<files, locks, wasted, bounds>>

\* The recovery, or the open after it, raises.  The bridge opens again at its
\* next query, the gateway at the next hello if it was opening; a gateway that
\* recovered for a query is left with no connection and none to open it.
Fails(p) == Go(p, IF p \in NodeProcs /\ queried[p] THEN "shut" ELSE "idle")

\* open(lockPath, "wx"), O_CREAT | O_EXCL
TakeLock(p) ==
    /\ pc[p] = "lock" /\ lock = Nobody
    /\ lock' = p
    /\ stale' = FALSE
    /\ Go(p, "probe")
    /\ UNCHANGED <<files, conn, robbed, flow, wasted, bounds>>

\* Mutant: a process removes the lock files of its own pid only.
FindStaleOwn(p) ==
    /\ pc[p] = "lock" /\ lock = p /\ stale
    /\ Go(p, "unlink")
    /\ UNCHANGED <<files, conn, locks, flow, wasted, bounds>>

\* The lock file exists, and stat finds it old.
FindStale(p) ==
    /\ pc[p] = "lock" /\ lock # Nobody /\ stale
    /\ Go(p, "unlink")
    /\ UNCHANGED <<files, conn, locks, flow, wasted, bounds>>

\* What unlink removes is the lock file at the path by now.
Unlink(p) ==
    /\ pc[p] = "unlink"
    /\ robbed' = (robbed \/ (lock # Nobody /\ pc[lock] \in Inside))
    /\ lock' = Nobody
    /\ stale' = FALSE
    /\ Go(p, "lock")
    /\ UNCHANGED <<files, conn, flow, wasted, bounds>>

\* The wait ends, twice as long as a lock takes to grow old: somebody alive
\* has been holding it.
GiveUp(p) ==
    /\ pc[p] = "lock" /\ lock # Nobody /\ ~stale
    /\ pc[lock] \in Inside
    /\ Fails(p)
    /\ UNCHANGED <<files, conn, locks, flow, wasted, bounds>>

\* The lock of a dead process, or of a check that takes its time.
Age ==
    /\ lock # Nobody /\ ~stale
    /\ stale' = TRUE
    /\ UNCHANGED <<files, conn, lock, robbed, pc, flow, wasted, bounds>>

\* heartbeat: the bridge touches the lock file between its steps.  The timer of
\* the gateway does not fire, its recovery is one synchronous call.
Heartbeat(p) == stale' = (stale /\ (p \in NodeProcs \/ lock = Nobody))

\* Mutant: the first check is left out, a peer may have recovered meanwhile.
ProbeNot(p) ==
    /\ pc[p] = "probe"
    /\ Go(p, "main")
    /\ UNCHANGED <<files, conn, locks, flow, wasted, bounds>>

Probe(p) ==
    /\ pc[p] = "probe"
    /\ IF Sound THEN Go(p, "release") /\ UNCHANGED stale
                ELSE Go(p, "sides") /\ Heartbeat(p)
    /\ UNCHANGED <<files, conn, lock, robbed, flow, wasted, bounds>>

\* The side files go first: what they hold may be all that is corrupt.
MoveSides(p) ==
    /\ pc[p] = "sides"
    /\ side' = 0
    /\ Heartbeat(p)
    /\ Go(p, "probe again")
    /\ UNCHANGED <<main, bad, used, conn, lock, robbed, flow, wasted, bounds>>

ProbeAgain(p) ==
    /\ pc[p] = "probe again"
    /\ Go(p, IF Sound THEN "release" ELSE "main")
    /\ UNCHANGED <<files, conn, locks, flow, wasted, bounds>>

MoveMain(p) ==
    /\ pc[p] = "main"
    /\ wasted' = IF main # 0 /\ Sound THEN wasted \cup {main} ELSE wasted
    /\ main' = 0
    /\ Go(p, "release")
    /\ UNCHANGED <<side, bad, used, conn, locks, flow, bounds>>

\* The lock file at the path is removed, whoever's it is.
Release(p) ==
    /\ pc[p] = "release"
    /\ robbed' = (robbed \/ (lock \notin {p, Nobody} /\ pc[lock] \in Inside))
    /\ lock' = Nobody
    /\ stale' = FALSE
    /\ Go(p, "open")
    /\ UNCHANGED <<files, conn, flow, wasted, bounds>>

\* A first open, or the one after a recovery: the files are created if there
\* are none, and checked.  A corrupt one is recovered, once.
Open(p) ==
    LET first  == pc[p] = "idle" /\ conn[p] = Closed
        number == used + 1
        m      == IF main = 0 THEN number ELSE main
        s      == IF side = 0 THEN number ELSE side
    IN /\ first \/ pc[p] = "open"
       /\ main' = m /\ side' = s
       /\ used' = IF number \in {m, s} THEN number ELSE used
       /\ queried' = [queried EXCEPT ![p] = @ /\ ~first]
       /\ \/ /\ <<"main", m>> \notin bad /\ <<"side", s>> \notin bad
             /\ conn' = [conn EXCEPT ![p] = <<m, s>>]
             /\ Go(p, "idle")
             /\ UNCHANGED reopens
          \/ /\ <<"main", m>> \in bad \/ <<"side", s>> \in bad
             /\ first \/ ~reopens[p]
             /\ Go(p, "lock")
             /\ reopens' = [reopens EXCEPT ![p] = TRUE]
             /\ UNCHANGED conn
          \/ /\ <<"main", m>> \in bad \/ <<"side", s>> \in bad
             /\ ~first /\ reopens[p]
             /\ Fails(p)
             /\ UNCHANGED <<conn, reopens>>
       /\ UNCHANGED <<bad, locks, wasted, bounds>>

\* A process dies and is started again; its lock file stays.
Crash(p) ==
    /\ crashes < MaxCrashes
    /\ crashes' = crashes + 1
    /\ conn' = [conn EXCEPT ![p] = Closed]
    /\ Go(p, "idle")
    /\ UNCHANGED <<files, locks, flow, wasted, damages>>

-----------------------------------------------------------------------------
Work(p) ==
    \/ Query(p) \/ TakeLock(p) \/ FindStale(p) \/ Unlink(p)
    \/ Probe(p) \/ MoveSides(p) \/ ProbeAgain(p) \/ MoveMain(p)
    \/ Release(p) \/ Open(p)

Next ==
    \/ Damage(<<"main", main>>) \/ Damage(<<"side", side>>)
    \/ \E p \in Procs : Work(p) \/ GiveUp(p) \/ Crash(p)
    \/ Age

Spec == Init /\ [][Next]_vars
\* Processes run on, and the lock a dead process left grows old.
Fairness == (\A p \in Procs : WF_vars(Work(p))) /\ WF_vars(Age)
FairSpec == Spec /\ Fairness

-----------------------------------------------------------------------------
TypeOK ==
    /\ main \in Nat /\ side \in Nat /\ used \in Nat
    /\ bad \subseteq {"main", "side"} \X Nat
    /\ conn \in [Procs -> Nat \X Nat]
    /\ lock \in Procs \cup {Nobody}
    /\ stale \in BOOLEAN
    /\ pc \in [Procs -> Steps]
    /\ queried \in [Procs -> BOOLEAN]
    /\ reopens \in [Procs -> BOOLEAN]
    /\ robbed \in BOOLEAN
    /\ wasted \subseteq Nat
    /\ damages \in Nat /\ crashes \in Nat

\* Unless a lock was taken from a process that still recovers: a database that
\* is sound is not moved away, whatever two processes find at the same time, and
\* what a process has open is what is at the path, or holds the corruption that
\* the recovery of its peer moved away, so that a query of its own finds out. No
\* two processes keep working on two sound databases.
OneDatabase ==
    robbed \/ /\ wasted = {}
              /\ \A p \in Procs :
                   conn[p] = Closed \/ Hurts(p) \/ conn[p] = <<main, side>>

\* A process whose database got corrupt has it open again in the end, but for a
\* gateway whose recovery failed in a query: that one is shut until a restart.
Reopened == \A p \in Procs : []<>(pc[p] = "shut" \/ (pc[p] = "idle" /\ conn[p] # Closed))
=============================================================================
