------------------------- MODULE InstallationProofs -------------------------
(***************************************************************************)
(* Proofs about the components of one installation, for any processes,     *)
(* accounts, messages, targets and bounds: the recovery of the database    *)
(* (OneDatabase), the account registry (RegistryAgrees), the chat's worker *)
(* (PendingHasWorker), what a /reset forgets (ResetForgets), and a burst's *)
(* answer or silence (GivesUpLast and SilenceIsBounded).  A step of the    *)
(* installation is a step of one of them and leaves the others as they     *)
(* are, so each is proved by its own.                                      *)
(***************************************************************************)
EXTENDS Installation, TLAPS

\* A step of the installation is a step of the part at work, and none of the
\* others.
LEMMA BridgeSteps ==
    ASSUME [BridgeNext]_bridgeVars
    PROVE  /\ [Next]_vars /\ [Db!Next]_dbVars /\ [Accts!Next]_acctVars
           /\ [Sched!Next]_taskVars /\ [Chat!Next]_chatVars
BY DEF BridgeNext, bridgeVars

LEMMA BridgeInits ==
    ASSUME BridgeInit
    PROVE  Init /\ Db!Init /\ Accts!Init /\ Sched!Init /\ Chat!Init
BY DEF BridgeInit

-----------------------------------------------------------------------------
(* The database.                                                            *)

Corrupt == <<"main", main>> \in bad \/ <<"side", side>> \in bad

DbTypes ==
    /\ main \in Nat /\ side \in Nat /\ used \in Nat
    /\ pc \in [Procs -> Db!Steps]
    /\ conn \in [Procs -> Nat \X Nat]
    /\ lock \in Procs \cup {None}

\* No file has the number 0.
Numbered ==
    /\ <<"main", 0>> \notin bad /\ <<"side", 0>> \notin bad
    /\ \A q \in Procs : conn[q] # Db!Closed => conn[q][1] # 0 /\ conn[q][2] # 0

\* Whoever recovers has the lock, and moves a file only where it found one that
\* is corrupt and still is.
Locked ==
    /\ \A q \in Procs : pc[q] \in Db!Inside => lock = q
    /\ \A q \in Procs : pc[q] \in {"sides", "main"} => Corrupt

Follows(q) == conn[q] = Db!Closed \/ Db!Hurts(q) \/ conn[q] = <<main, side>>

OneInv ==
    /\ wasted = {}
    /\ \A q \in Procs : Follows(q)

DbInv == DbTypes /\ Numbered /\ (~robbed => Locked /\ OneInv)

LEMMA DbInit == Db!Init => DbInv
BY DEF Db!Init, DbInv, DbTypes, Numbered, Locked, OneInv, Follows, Db!Steps,
       Db!Inside, Db!Closed, Db!Hurts, Corrupt

\* Files and connections stay.
LEMMA FilesStay ==
    ASSUME DbInv, UNCHANGED <<main, side, bad, used, conn, wasted>>,
           pc' \in [Procs -> Db!Steps], lock' \in Procs \cup {None},
           ~robbed' => ~robbed /\ Locked'
    PROVE  DbInv'
<1>1. DbTypes' /\ Numbered'
  BY DEF DbInv, DbTypes, Numbered, Db!Closed
<1>2. OneInv => OneInv'
  BY DEF OneInv, Follows, Db!Closed, Db!Hurts
<1> QED
  BY <1>1, <1>2 DEF DbInv

\* One process goes on, where no file changes: outside the recovery, or inside
\* with the lock that it has.
LEMMA OneGoesOn ==
    ASSUME DbInv, NEW p \in Procs, NEW step \in Db!Steps,
           pc' = [pc EXCEPT ![p] = step],
           UNCHANGED <<main, side, bad, used, conn, wasted, lock, robbed>>,
           step \in Db!Inside => pc[p] \in Db!Inside,
           step \in {"sides", "main"} => Corrupt
    PROVE  DbInv'
<1>1. pc' \in [Procs -> Db!Steps] /\ lock' \in Procs \cup {None}
  BY DEF DbInv, DbTypes
<1>2. ASSUME Locked PROVE Locked'
  <2>1. Corrupt' = Corrupt
    BY DEF Corrupt
  <2>2. ASSUME NEW q \in Procs, pc'[q] \in Db!Inside PROVE lock' = q
    BY <1>2, <2>2 DEF DbInv, DbTypes, Locked
  <2>3. ASSUME NEW q \in Procs, pc'[q] \in {"sides", "main"} PROVE Corrupt'
    BY <1>2, <2>1, <2>3 DEF DbInv, DbTypes, Locked
  <2> QED BY <2>2, <2>3 DEF Locked
<1> QED
  BY <1>1, <1>2, FilesStay DEF DbInv

\* A lock file goes away while nobody recovers, or robs the one that does.
LEMMA LockGoes ==
    ASSUME DbInv, NEW p \in Procs, NEW step \in Db!Steps \ Db!Inside,
           pc' = [pc EXCEPT ![p] = step],
           UNCHANGED <<main, side, bad, used, conn, wasted>>,
           lock' = None,
           ~robbed' => /\ ~robbed
                       /\ lock \in {p, None} \/ pc[lock] \notin Db!Inside
                       /\ pc[p] \in Db!Inside \/ lock = None \/ pc[lock] \notin Db!Inside
    PROVE  DbInv'
<1>1. pc' \in [Procs -> Db!Steps] /\ lock' \in Procs \cup {None}
  BY DEF DbInv, DbTypes
<1>2. ASSUME ~robbed' PROVE Locked'
  <2>1. Locked
    BY <1>2 DEF DbInv
  <2>2. \A q \in Procs : q # p => pc[q] \notin Db!Inside
    BY <1>2, <2>1, ProcsAssumption DEF Locked
  <2>3. \A q \in Procs : pc'[q] \notin Db!Inside
    BY <2>2 DEF DbInv, DbTypes
  <2> QED BY <2>3 DEF Locked, Db!Inside
<1> QED
  BY <1>1, <1>2, FilesStay

LEMMA DamageOne ==
    ASSUME DbInv, NEW f, f \in {<<"main", main>>, <<"side", side>>}, Db!Damage(f)
    PROVE  DbInv'
<1>1. /\ f[2] # 0 /\ bad' = bad \cup {f}
      /\ UNCHANGED <<main, side, used, conn, lock, robbed, pc, wasted>>
  BY DEF Db!Damage, Db!locks
<1>2. DbTypes' /\ Numbered'
  BY <1>1 DEF DbInv, DbTypes, Numbered, Db!Closed
<1>3. Corrupt => Corrupt'
  BY <1>1 DEF Corrupt
<1>4. Locked => Locked'
  BY <1>1, <1>3 DEF Locked
<1>5. OneInv => OneInv'
  BY <1>1 DEF OneInv, Follows, Db!Closed, Db!Hurts
<1> QED BY <1>1, <1>2, <1>4, <1>5 DEF DbInv

LEMMA QueryOne == ASSUME DbInv, NEW p \in Procs, Db!Query(p) \/ Db!Crash(p) PROVE DbInv'
<1>1. PICK step \in {"lock", "idle"} :
        /\ pc' = [pc EXCEPT ![p] = step]
        /\ conn' = [conn EXCEPT ![p] = Db!Closed]
        /\ UNCHANGED <<main, side, bad, used, lock, robbed, wasted>>
  BY DEF Db!Query, Db!Crash, Db!Go, Db!files, Db!locks
<1>2. DbTypes'
  BY <1>1 DEF DbInv, DbTypes, Db!Closed, Db!Steps
<1>3. \A q \in Procs : conn'[q] = conn[q] \/ conn'[q] = Db!Closed
  BY <1>1 DEF DbInv, DbTypes
<1>4. Numbered'
  BY <1>1, <1>3 DEF DbInv, Numbered, Db!Closed
<1>5. Locked => Locked'
  BY <1>1 DEF DbInv, DbTypes, Locked, Db!Inside, Corrupt
<1>6. OneInv => OneInv'
  BY <1>1, <1>3 DEF OneInv, Follows, Db!Closed, Db!Hurts
<1> QED BY <1>1, <1>2, <1>4, <1>5, <1>6 DEF DbInv

LEMMA TakeOne == ASSUME DbInv, NEW p \in Procs, Db!TakeLock(p) PROVE DbInv'
<1>1. /\ lock = None /\ lock' = p /\ pc' = [pc EXCEPT ![p] = "probe"]
      /\ UNCHANGED <<main, side, bad, used, conn, robbed, wasted>>
  BY DEF Db!TakeLock, Db!Go, Db!files
<1>2. pc' \in [Procs -> Db!Steps] /\ lock' \in Procs \cup {None}
  BY <1>1 DEF DbInv, DbTypes, Db!Steps, Db!Inside
<1>3. Locked => Locked'
  BY <1>1, ProcsAssumption DEF Locked, DbInv, DbTypes, Db!Inside
<1> QED BY <1>1, <1>2, <1>3, FilesStay DEF DbInv

LEMMA FirstAndSecond ==
    ASSUME NEW a \in Nat, NEW b \in Nat, NEW c, c = <<a, b>>
    PROVE  c[1] = a /\ c[2] = b
<1>1. <<a, b>>[1] = a /\ <<a, b>>[2] = b
  OBVIOUS
<1> QED BY <1>1, Zenon

\* A file that is corrupt is moved away by whoever has the lock: who has it open
\* finds out.
LEMMA MoveOne ==
    ASSUME DbInv, NEW p \in Procs, Db!MoveSides(p) \/ Db!MoveMain(p)
    PROVE  DbInv'
<1>1. PICK step \in {"probe again", "release"} :
        /\ pc' = [pc EXCEPT ![p] = step]
        /\ main' \in {main, 0} /\ side' \in {side, 0}
        /\ UNCHANGED <<bad, used, conn, lock, robbed>>
  BY DEF Db!MoveSides, Db!MoveMain, Db!Go, Db!locks
<1>2. pc[p] \in {"sides", "main"}
  BY DEF Db!MoveSides, Db!MoveMain
<1>3. DbTypes'
  <2>0. main \in Nat /\ side \in Nat /\ used \in Nat /\ 0 \in Nat
    BY DEF DbInv, DbTypes
  <2>1. main' \in Nat /\ side' \in Nat /\ used' \in Nat
    BY ONLY <1>1, <2>0, Zenon
  <2>2. step \in Db!Steps
    BY DEF Db!Steps, Db!Inside
  <2>3. pc' \in [Procs -> Db!Steps] /\ conn' \in [Procs -> Nat \X Nat]
        /\ lock' \in Procs \cup {None}
    BY <1>1, <2>2 DEF DbInv, DbTypes
  <2> QED BY <2>1, <2>3 DEF DbTypes
<1>4. Numbered'
  BY <1>1 DEF DbInv, Numbered, Db!Closed
<1>5. ASSUME Locked, OneInv PROVE Locked' /\ OneInv'
  <2>1. Corrupt
    BY <1>2, <1>5 DEF Locked
  <2>2. wasted' = wasted
    BY <2>1 DEF Db!MoveSides, Db!MoveMain, Db!Sound, Corrupt
  <2>3. \A q \in Procs : Follows(q)'
    <3> SUFFICES ASSUME NEW q \in Procs PROVE Follows(q)'
      OBVIOUS
    <3>1. ASSUME conn[q] = <<main, side>> PROVE Db!Hurts(q)
      <4>0. main \in Nat /\ side \in Nat
        BY DEF DbInv, DbTypes
      <4>1. conn[q][1] = main /\ conn[q][2] = side
        BY <3>1, <4>0, FirstAndSecond
      <4> QED BY <2>1, <4>1 DEF Corrupt, Db!Hurts
    <3> QED BY <1>1, <1>5, <3>1 DEF OneInv, Follows, Db!Hurts, Db!Closed
  <2>4. \A q \in Procs : q # p => pc[q] \notin Db!Inside
    BY <1>2, <1>5 DEF Locked, Db!Inside
  <2>5. \A q \in Procs : pc'[q] \notin {"sides", "main"}
    BY <1>1, <2>4 DEF DbInv, DbTypes, Db!Inside
  <2>6. Locked'
    BY <1>1, <1>2, <1>5, <2>4, <2>5 DEF Locked, Db!Inside, DbInv, DbTypes
  <2> QED BY <1>5, <2>2, <2>3, <2>6 DEF OneInv
<1> QED BY <1>1, <1>3, <1>4, <1>5 DEF DbInv

\* An open creates what is not there, and leaves open what is at the path.
LEMMA OpenOne == ASSUME DbInv, NEW p \in Procs, Db!Open(p) PROVE DbInv'
<1> DEFINE m == IF main = 0 THEN used + 1 ELSE main
           s == IF side = 0 THEN used + 1 ELSE side
<1>1. /\ main' = m /\ side' = s
      /\ used' = used \/ used' = used + 1
      /\ UNCHANGED <<bad, lock, robbed, wasted>>
  BY DEF Db!Open, Db!locks
<1>2. m \in Nat \ {0} /\ s \in Nat \ {0} /\ used' \in Nat
  BY <1>1 DEF DbInv, DbTypes
<1>3. /\ main # 0 => m = main
      /\ side # 0 => s = side
  OBVIOUS
<1>4. \/ conn' = conn
      \/ conn' = [conn EXCEPT ![p] = <<m, s>>]
  BY DEF Db!Open
<1>5. \E step \in Db!Steps \ Db!Inside : pc' = [pc EXCEPT ![p] = step]
  BY DEF Db!Open, Db!Go, Db!Fails, Db!Steps, Db!Inside
<1> HIDE DEF m, s
<1>6. DbTypes'
  BY <1>1, <1>2, <1>4, <1>5 DEF DbInv, DbTypes
<1>7. \A q \in Procs : conn'[q] = conn[q] \/ conn'[q] = <<m, s>>
  BY <1>4 DEF DbInv, DbTypes
<1>8. Numbered'
  BY <1>1, <1>2, <1>7 DEF DbInv, Numbered, Db!Closed
<1>9. Corrupt => Corrupt'
  <2>1. Corrupt => (main # 0 /\ <<"main", main>> \in bad) \/ (side # 0 /\ <<"side", side>> \in bad)
    BY DEF Corrupt, DbInv, Numbered
  <2> QED BY <1>1, <1>3, <2>1 DEF Corrupt
<1>10. Locked => Locked'
  BY <1>1, <1>5, <1>9 DEF Locked, DbInv, DbTypes, Db!Inside
<1>11. ASSUME OneInv PROVE OneInv'
  <2> SUFFICES ASSUME NEW q \in Procs PROVE Follows(q)'
    BY <1>1, <1>11 DEF OneInv
  <2>1. CASE conn'[q] = <<m, s>>
    BY <1>1, <2>1 DEF Follows
  <2>2. CASE conn'[q] = conn[q]
    <3>1. Follows(q)
      BY <1>11 DEF OneInv
    <3>2. CASE conn[q] = Db!Closed \/ Db!Hurts(q)
      BY <1>1, <2>2, <3>2 DEF Follows, Db!Hurts, Db!Closed
    <3>3. CASE conn[q] = <<main, side>> /\ conn[q] # Db!Closed
      <4>1. main # 0 /\ side # 0
        BY <3>3 DEF DbInv, Numbered
      <4> QED BY <1>1, <1>3, <2>2, <3>3, <4>1 DEF Follows
    <3> QED BY <3>1, <3>2, <3>3 DEF Follows
  <2> QED BY <1>7, <2>1, <2>2
<1> QED BY <1>1, <1>6, <1>8, <1>10, <1>11 DEF DbInv

LEMMA DbStep ==
    ASSUME DbInv, [Db!Next]_dbVars
    PROVE  DbInv'
<1>1. CASE UNCHANGED dbVars
  <2>1. /\ UNCHANGED <<main, side, bad, used, conn, wasted, pc, lock, robbed>>
        /\ Corrupt' = Corrupt
    BY <1>1 DEF dbVars, Corrupt
  <2>2. Locked => Locked'
    BY <2>1 DEF Locked
  <2> QED BY <2>1, <2>2, FilesStay DEF DbInv, DbTypes
<1>2. CASE Db!Damage(<<"main", main>>) \/ Db!Damage(<<"side", side>>)
  BY <1>2, DamageOne
<1>3. CASE Db!Age
  <2>1. /\ UNCHANGED <<main, side, bad, used, conn, wasted, pc, lock, robbed>>
        /\ Corrupt' = Corrupt
    BY <1>3 DEF Db!Age, Db!files, Corrupt
  <2>2. Locked => Locked'
    BY <2>1 DEF Locked
  <2> QED BY <2>1, <2>2, FilesStay DEF DbInv, DbTypes
<1>4. ASSUME NEW p \in Procs, Db!Work(p) \/ Db!GiveUp(p) \/ Db!Crash(p) PROVE DbInv'
  <2>1. CASE Db!Query(p) \/ Db!Crash(p)
    BY <2>1, QueryOne
  <2>2. CASE Db!TakeLock(p)
    BY <2>2, TakeOne
  <2>3. CASE Db!FindStale(p)
    <3>1. /\ pc' = [pc EXCEPT ![p] = "unlink"]
          /\ UNCHANGED <<main, side, bad, used, conn, wasted, lock, robbed>>
      BY <2>3 DEF Db!FindStale, Db!Go, Db!files, Db!locks
    <3>2. "unlink" \in Db!Steps /\ "unlink" \notin Db!Inside
      BY DEF Db!Steps, Db!Inside
    <3> QED BY <3>1, <3>2, OneGoesOn DEF Db!Inside
  <2>4. CASE Db!GiveUp(p)
    <3>1. PICK step \in {"shut", "idle"} :
            /\ pc' = [pc EXCEPT ![p] = step]
            /\ UNCHANGED <<main, side, bad, used, conn, wasted, lock, robbed>>
      BY <2>4 DEF Db!GiveUp, Db!Fails, Db!Go, Db!files, Db!locks
    <3>2. step \in Db!Steps /\ step \notin Db!Inside /\ step \notin {"sides", "main"}
      BY DEF Db!Steps, Db!Inside
    <3> QED BY <3>1, <3>2, OneGoesOn
  <2>5. CASE Db!Unlink(p)
    <3>1. /\ pc' = [pc EXCEPT ![p] = "lock"] /\ lock' = None
          /\ robbed' = (robbed \/ (lock # None /\ pc[lock] \in Db!Inside))
          /\ UNCHANGED <<main, side, bad, used, conn, wasted>>
      BY <2>5 DEF Db!Unlink, Db!Go, Db!files
    <3>2. "lock" \in Db!Steps \ Db!Inside
      BY DEF Db!Steps, Db!Inside
    <3> QED BY <3>1, <3>2, LockGoes
  <2>6. CASE Db!Release(p)
    <3>1. /\ pc' = [pc EXCEPT ![p] = "open"] /\ lock' = None
          /\ robbed' = (robbed \/ (lock \notin {p, None} /\ pc[lock] \in Db!Inside))
          /\ pc[p] \in Db!Inside
          /\ UNCHANGED <<main, side, bad, used, conn, wasted>>
      BY <2>6 DEF Db!Release, Db!Go, Db!files, Db!Inside
    <3>2. "open" \in Db!Steps \ Db!Inside
      BY DEF Db!Steps, Db!Inside
    <3> QED BY <3>1, <3>2, LockGoes
  <2>7. CASE Db!Probe(p) \/ Db!ProbeAgain(p)
    <3>1. PICK step \in {"release", "sides", "main"} :
            /\ pc' = [pc EXCEPT ![p] = step]
            /\ pc[p] \in Db!Inside
            /\ step \in {"sides", "main"} => Corrupt
            /\ UNCHANGED <<main, side, bad, used, conn, wasted, lock, robbed>>
      BY <2>7 DEF Db!Probe, Db!ProbeAgain, Db!Sound, Corrupt, Db!Go, Db!files, Db!locks, Db!Inside
    <3>2. step \in Db!Steps
      BY DEF Db!Steps, Db!Inside
    <3> QED BY <3>1, <3>2, OneGoesOn
  <2>8. CASE Db!MoveSides(p) \/ Db!MoveMain(p)
    BY <2>8, MoveOne
  <2>9. CASE Db!Open(p)
    BY <2>9, OpenOne
  <2> QED BY <1>4, <2>1, <2>2, <2>3, <2>4, <2>5, <2>6, <2>7, <2>8, <2>9 DEF Db!Work
<1> QED BY <1>1, <1>2, <1>3, <1>4 DEF Db!Next

\* Unless a lock was taken from a process that still recovers, no sound database
\* is moved away and no two processes go on with two sound databases: for any
\* number of processes, corruptions, crashes and recoveries that cross.
THEOREM OneDatabaseAlways == BridgeSpec => []OneDatabase
<1>1. BridgeInit => DbInv
  BY BridgeInits, DbInit
<1>2. DbInv /\ [BridgeNext]_bridgeVars => DbInv'
  BY BridgeSteps, DbStep
<1>3. DbInv => OneDatabase
  BY DEF DbInv, OneInv, Follows, OneDatabase, Db!OneDatabase
<1> QED BY <1>1, <1>2, <1>3, PTL DEF BridgeSpec

-----------------------------------------------------------------------------
(* The account registry.                                                    *)

\* A catalog: entries of accounts, each with its slot and its credential.
Entry(e) == e = [slot |-> e.slot, token |-> e.token] /\ e.token \in Nat
Listed(c) ==
    /\ c = [a \in DOMAIN c |-> c[a]]
    /\ \A a \in DOMAIN c : a \in Accounts /\ Entry(c[a])

\* The handshake admits the accounts of c with their credentials, and no other.
Admits(c) ==
    /\ allowed \ blocked = DOMAIN c
    /\ \A a \in DOMAIN c : tokens[a] = c[a].token

Job(k, a, c, m) == [kind |-> k, account |-> a, next |-> c, moved |-> m]

RegTypes ==
    /\ minted \in Nat
    /\ Listed(catalog)
    /\ tokens \in [Accounts -> Nat]
    /\ allowed \subseteq Accounts /\ blocked \subseteq Accounts
    /\ write = Job(write.kind, write.account, write.next, write.moved)
    /\ write.kind \in {"none", "add", "remove", "tokens"}
    /\ write.kind = "none" <=> write = Accts!NoJob
    /\ write.account \in Accounts /\ Listed(write.next) /\ write.moved \in BOOLEAN

\* The write of an account that is added or removed differs from what the
\* handshake admits in this account alone.
Planned ==
    /\ write.kind = "add" =>
         /\ node = "up"
         /\ DOMAIN write.next = (allowed \ blocked) \cup {write.account}
         /\ \A a \in DOMAIN write.next : write.next[a].token # 0
    /\ write.kind = "remove" =>
         /\ node = "up"
         /\ DOMAIN write.next = (allowed \ blocked) \ {write.account}
         /\ \A a \in DOMAIN write.next : write.next[a].token = tokens[a]
    /\ write.kind = "tokens" => node = "boot"

Placed == write.moved => file = "ok" /\ catalog = write.next

\* A removed account has no connection but one that a removal overtook.
Apart ==
    /\ links \in [Accounts -> Accts!Links]
    /\ \A a \in blocked : links[a] \in {"none", "overtaken", "late"}

RegInv ==
    /\ RegTypes /\ Planned /\ Placed /\ Apart
    /\ node = "up" /\ write.kind = "none" =>
         Admits(catalog) /\ (file = "absent" => catalog = Accts!Fallback)

LEMMA NoJobParts ==
    /\ Accts!NoJob.kind = "none" /\ Accts!NoJob.account = Legacy
    /\ Listed(Accts!NoJob.next) /\ Accts!NoJob.moved = FALSE
    /\ Accts!NoJob = Job(Accts!NoJob.kind, Accts!NoJob.account, Accts!NoJob.next,
                         Accts!NoJob.moved)
<1>1. /\ Accts!NoJob.kind = "none" /\ Accts!NoJob.account = Legacy
      /\ Accts!NoJob.next = Accts!Nothing /\ Accts!NoJob.moved = FALSE
  BY DEF Accts!NoJob
<1>2. Accts!NoJob = Job("none", Legacy, Accts!Nothing, FALSE)
  BY DEF Accts!NoJob, Job
<1>3. Listed(Accts!Nothing)
  BY DEF Listed, Accts!Nothing
<1> QED BY <1>1, <1>2, <1>3

LEMMA EntryParts ==
    ASSUME NEW s, NEW t \in Nat
    PROVE  Entry([slot |-> s, token |-> t])
BY DEF Entry

LEMMA FallbackListed ==
    Listed(Accts!Fallback) /\ DOMAIN Accts!Fallback = {Legacy}
<1>1. Entry([slot |-> 0, token |-> 0])
  BY EntryParts
<1>2. /\ DOMAIN Accts!Fallback = {Legacy}
      /\ \A a \in {Legacy} : Accts!Fallback[a] = [slot |-> 0, token |-> 0]
      /\ Accts!Fallback = [a \in DOMAIN Accts!Fallback |-> Accts!Fallback[a]]
  BY DEF Accts!Fallback
<1> QED BY <1>1, <1>2, AccountsAssumption DEF Listed

\* Every entry of a catalog that is secured has a credential.
LEMMA SecuredListed ==
    ASSUME NEW c, Listed(c), minted \in Nat
    PROVE  /\ Listed(Accts!Secured(c))
           /\ DOMAIN Accts!Secured(c) = DOMAIN c
           /\ \A a \in DOMAIN c : Accts!Secured(c)[a].token # 0
<1> DEFINE d == Accts!Secured(c)
<1>1. DOMAIN d = DOMAIN c /\ d = [a \in DOMAIN d |-> d[a]]
  BY DEF Accts!Secured
<1>2. ASSUME NEW a \in DOMAIN c PROVE Entry(d[a]) /\ d[a].token # 0 /\ a \in Accounts
  <2>1. Entry(c[a]) /\ a \in Accounts
    BY DEF Listed
  <2>2. CASE c[a].token # 0
    BY <2>1, <2>2 DEF Accts!Secured
  <2>3. CASE c[a].token = 0
    <3>1. d[a] = [c[a] EXCEPT !.token = minted + 1]
      BY <2>3 DEF Accts!Secured
    <3>2. d[a] = [slot |-> c[a].slot, token |-> minted + 1]
      BY <2>1, <3>1 DEF Entry
    <3>3. minted + 1 \in Nat /\ minted + 1 # 0
      BY minted \in Nat
    <3>4. d[a].token = minted + 1
      BY <3>2
    <3> HIDE DEF d
    <3> QED BY <2>1, <3>2, <3>3, <3>4, EntryParts
  <2> QED BY <2>2, <2>3
<1> QED BY <1>1, <1>2 DEF Listed

LEMMA WithoutListed ==
    ASSUME NEW c, Listed(c), NEW x
    PROVE  /\ Listed(Accts!Without(c, x))
           /\ DOMAIN Accts!Without(c, x) = DOMAIN c \ {x}
           /\ \A a \in DOMAIN c \ {x} : Accts!Without(c, x)[a] = c[a]
BY DEF Accts!Without, Listed

\* What a reader of the catalog gets, where one can be read, is what the
\* handshake admits.
LEMMA ReadIsAdmitted ==
    ASSUME RegInv
    PROVE  /\ Listed(Accts!Read)
           /\ Accts!Readable /\ node = "up" /\ write.kind = "none" =>
                Accts!Read = catalog /\ Admits(catalog)
<1>1. Listed(Accts!Read)
  BY FallbackListed DEF RegInv, RegTypes, Accts!Read
<1>2. Accts!Readable /\ node = "up" /\ write.kind = "none" =>
        Accts!Read = catalog /\ Admits(catalog)
  BY DEF RegInv, Accts!Read, Accts!Readable
<1> QED BY <1>1, <1>2

LEMMA RegInit == ASSUME Accts!Init PROVE RegInv
<1>1. /\ minted = 1 /\ allowed = {} /\ blocked = {} /\ node = "down"
      /\ tokens = [a \in Accounts |-> 0] /\ write = Accts!NoJob
  BY DEF Accts!Init
<1>2. Listed(catalog)
  <2>1. CASE catalog = Accts!Fallback
    BY <2>1, FallbackListed
  <2>2. CASE catalog = [a \in {Legacy} |-> [slot |-> 0, token |-> 1]]
    <3>1. Entry([slot |-> 0, token |-> 1])
      BY EntryParts
    <3>2. DOMAIN catalog = {Legacy} /\ catalog = [a \in DOMAIN catalog |-> catalog[a]]
          /\ \A a \in {Legacy} : catalog[a] = [slot |-> 0, token |-> 1]
      BY <2>2
    <3> QED BY <3>1, <3>2, AccountsAssumption DEF Listed
  <2> QED BY <2>1, <2>2 DEF Accts!Init
<1>3. /\ write.kind = "none" /\ write.moved = FALSE /\ Listed(write.next)
      /\ write.account = Legacy
      /\ write = Job(write.kind, write.account, write.next, write.moved)
  BY <1>1, NoJobParts
<1>4. RegTypes
  BY <1>1, <1>2, <1>3, AccountsAssumption DEF RegTypes
<1>5. Apart
  BY <1>1 DEF Apart, Accts!Init, Accts!Unlinked, Accts!Links
<1> QED BY <1>1, <1>3, <1>4, <1>5 DEF RegInv, Planned, Placed

\* A write that begins.
LEMMA StartKeeps ==
    ASSUME RegInv, NEW k \in {"add", "remove", "tokens"}, NEW a \in Accounts, NEW c, Listed(c),
           Accts!StartWrite(k, a, c), minted' \in Nat,
           UNCHANGED <<catalog, allowed, tokens, blocked, links>>,
           k = "add" => /\ node' = "up" /\ DOMAIN c = (allowed \ blocked) \cup {a}
                        /\ \A b \in DOMAIN c : c[b].token # 0,
           k = "remove" => /\ node' = "up" /\ DOMAIN c = (allowed \ blocked) \ {a}
                           /\ \A b \in DOMAIN c : c[b].token = tokens[b],
           k = "tokens" => node' = "boot"
    PROVE  RegInv'
<1>1. write' = Job(k, a, c, FALSE)
  BY DEF Accts!StartWrite, Job
<1>2. /\ write'.kind = k /\ write'.account = a /\ write'.next = c /\ write'.moved = FALSE
      /\ write' = Job(write'.kind, write'.account, write'.next, write'.moved)
  <2>1. /\ write'.kind = k /\ write'.account = a /\ write'.next = c /\ write'.moved = FALSE
    BY <1>1 DEF Job
  <2> QED BY <1>1, <2>1
<1>3. Accts!NoJob.kind = "none"
  BY NoJobParts
<1>4. RegTypes'
  <2>1. write' # Accts!NoJob /\ k # "none"
    BY <1>2, <1>3
  <2>2. Listed(catalog)' /\ Listed(write'.next)
    BY <1>2 DEF RegInv, RegTypes, Listed
  <2> QED BY <1>2, <2>1, <2>2 DEF RegInv, RegTypes, Listed, Accts!NoJob, Accts!Nothing
<1>5. Planned'
  BY <1>2 DEF Planned
<1>6. Placed'
  BY <1>2 DEF Placed
<1>7. Apart'
  BY DEF RegInv, Apart, Accts!Links
<1> QED BY <1>2, <1>4, <1>5, <1>6, <1>7 DEF RegInv

\* A write that is over, and where the gateway runs it admits the catalog.
LEMMA WriteOverKeeps ==
    ASSUME RegInv, write' = Accts!NoJob, minted' \in Nat, Listed(catalog'),
           tokens' \in [Accounts -> Nat], allowed' \subseteq Accounts, blocked' \subseteq Accounts,
           Apart',
           node' = "up" => Admits(catalog)' /\ (file' = "absent" => catalog' = Accts!Fallback)
    PROVE  RegInv'
<1>1. /\ write'.kind = "none" /\ write'.moved = FALSE /\ Listed(write'.next)
      /\ write'.account = Legacy
      /\ write' = Job(write'.kind, write'.account, write'.next, write'.moved)
  BY NoJobParts
<1>2. Listed(catalog)' /\ Listed(write.next)'
  BY <1>1 DEF Listed, Entry
<1>3. RegTypes'
  BY <1>1, <1>2, AccountsAssumption DEF RegTypes, Accts!NoJob, Accts!Nothing
<1>4. Planned' /\ Placed'
  BY <1>1 DEF Planned, Placed
<1> QED BY <1>3, <1>4 DEF RegInv, Accts!Fallback

\* Nothing of the gateway's changes but, at most, connections.
LEMMA OtherKeeps ==
    ASSUME RegInv, UNCHANGED <<minted, catalog, tokens, allowed, blocked, write, node>>,
           Apart',
           file' = file \/ (write.kind = "none" /\ file' # "absent")
    PROVE  RegInv'
<1>1. RegTypes'
  BY DEF RegInv, RegTypes, Listed, Entry, Job, Accts!NoJob, Accts!Nothing
<1>2. Planned'
  BY DEF RegInv, Planned
<1>3. write.kind = "none" => write.moved = FALSE
  <2>1. Accts!NoJob.moved = FALSE
    BY NoJobParts
  <2> QED BY <2>1 DEF RegInv, RegTypes
<1>4. Placed'
  BY <1>3 DEF RegInv, Placed
<1> QED BY <1>1, <1>2, <1>4 DEF RegInv, Admits, Accts!Fallback

-----------------------------------------------------------------------------
LEMMA AddKeeps ==
    ASSUME RegInv, NEW x \in Accounts, Accts!AddAccount(x)
    PROVE  RegInv'
<1> DEFINE v == [slot |-> Accts!AllocateSlot(Accts!SlotsOf(Accts!Read)), token |-> minted + 1]
           c == Accts!With(Accts!Secured(Accts!Read), x, v)
<1>1. /\ node = "up" /\ Accts!Readable /\ minted' = minted + 1 /\ write = Accts!NoJob
      /\ Accts!StartWrite("add", x, c)
      /\ UNCHANGED <<catalog, node, allowed, tokens, blocked, links>>
  BY DEF Accts!AddAccount, Accts!gateway, Accts!StartWrite
<1>2. minted \in Nat /\ minted + 1 \in Nat /\ minted + 1 # 0 /\ write.kind = "none"
  BY <1>1 DEF RegInv, RegTypes
<1>3. /\ Listed(Accts!Read) /\ DOMAIN Accts!Read = allowed \ blocked
  BY <1>1, <1>2, ReadIsAdmitted DEF Admits
<1>4. /\ Listed(Accts!Secured(Accts!Read))
      /\ DOMAIN Accts!Secured(Accts!Read) = allowed \ blocked
      /\ \A a \in allowed \ blocked : Accts!Secured(Accts!Read)[a].token # 0
  BY <1>2, <1>3, SecuredListed
<1>5. Entry(v) /\ v.token # 0
  BY <1>2, EntryParts
<1> HIDE DEF v
<1>6. /\ Listed(c) /\ DOMAIN c = (allowed \ blocked) \cup {x}
      /\ \A a \in DOMAIN c : c[a].token # 0
  <2> DEFINE d == Accts!Secured(Accts!Read)
  <2>1. Listed(d) /\ DOMAIN d = allowed \ blocked
        /\ \A a \in DOMAIN d : d[a].token # 0
    BY <1>4
  <2> HIDE DEF d
  <2>2. /\ Listed(Accts!With(d, x, v)) /\ DOMAIN Accts!With(d, x, v) = DOMAIN d \cup {x}
        /\ Accts!With(d, x, v)[x] = v
        /\ \A a \in DOMAIN d \ {x} : Accts!With(d, x, v)[a] = d[a]
    BY <1>5, <2>1 DEF Accts!With, Listed
  <2>3. c = Accts!With(d, x, v)
    BY DEF d
  <2> HIDE DEF c
  <2> QED BY <1>5, <2>1, <2>2, <2>3
<1> HIDE DEF c
<1> QED BY <1>1, <1>2, <1>6, StartKeeps

LEMMA RemoveKeeps ==
    ASSUME RegInv, NEW x \in Accounts, Accts!RemoveAccount(x)
    PROVE  RegInv'
<1> DEFINE c == Accts!Without(Accts!Read, x)
<1>1. /\ node = "up" /\ Accts!Readable /\ write = Accts!NoJob
      /\ Accts!StartWrite("remove", x, c)
      /\ UNCHANGED <<catalog, node, allowed, tokens, blocked, links, minted>>
  BY DEF Accts!RemoveAccount, Accts!gateway, Accts!StartWrite
<1>2. minted \in Nat /\ write.kind = "none"
  BY <1>1 DEF RegInv, RegTypes
<1>3. /\ Listed(Accts!Read) /\ DOMAIN Accts!Read = allowed \ blocked
      /\ \A a \in DOMAIN Accts!Read : Accts!Read[a].token = tokens[a]
  BY <1>1, <1>2, ReadIsAdmitted DEF Admits
<1>4. /\ Listed(c) /\ DOMAIN c = (allowed \ blocked) \ {x}
      /\ \A a \in DOMAIN c : c[a].token = tokens[a]
  <2> DEFINE d == Accts!Read
  <2>1. Listed(d) /\ DOMAIN d = allowed \ blocked
        /\ \A a \in DOMAIN d : d[a].token = tokens[a]
    BY <1>3
  <2> HIDE DEF d
  <2>2. /\ Listed(Accts!Without(d, x)) /\ DOMAIN Accts!Without(d, x) = DOMAIN d \ {x}
        /\ \A a \in DOMAIN d \ {x} : Accts!Without(d, x)[a] = d[a]
    BY <2>1, WithoutListed
  <2>3. c = Accts!Without(d, x)
    BY DEF d
  <2> HIDE DEF c
  <2> QED BY <2>1, <2>2, <2>3
<1> HIDE DEF c
<1> QED BY <1>1, <1>2, <1>4, StartKeeps

LEMMA RenameKeeps == ASSUME RegInv, Accts!Rename PROVE RegInv'
<1>1. /\ write # Accts!NoJob /\ write' = [write EXCEPT !.moved = TRUE]
      /\ file' = "ok" /\ catalog' = write.next
      /\ UNCHANGED <<minted, node, allowed, tokens, blocked, links>>
  BY DEF Accts!Rename, Accts!fixed, Accts!gateway
<1>2. write' = Job(write.kind, write.account, write.next, TRUE)
  <2>1. write = Job(write.kind, write.account, write.next, write.moved)
    BY DEF RegInv, RegTypes
  <2> QED BY <1>1, <2>1 DEF Job
<1>3. /\ write'.kind = write.kind /\ write'.account = write.account
      /\ write'.next = write.next /\ write'.moved = TRUE
      /\ write' = Job(write'.kind, write'.account, write'.next, write'.moved)
  <2>1. /\ write'.kind = write.kind /\ write'.account = write.account
        /\ write'.next = write.next /\ write'.moved = TRUE
    BY <1>2 DEF Job
  <2> QED BY <1>2, <2>1
<1>4. write.kind # "none" /\ write' # Accts!NoJob
  <2>1. Accts!NoJob.kind = "none"
    BY NoJobParts
  <2>2. write.kind # "none"
    BY <1>1 DEF RegInv, RegTypes
  <2> QED BY <1>3, <2>1, <2>2
<1>5. Listed(catalog)' /\ Listed(write.next)'
  <2>1. Listed(write.next)
    BY DEF RegInv, RegTypes
  <2>2. catalog' = write.next /\ write'.next = write.next
    BY <1>1, <1>3
  <2> QED BY <2>1, <2>2 DEF Listed, Entry
<1>6. RegTypes'
  BY <1>1, <1>3, <1>4, <1>5 DEF RegInv, RegTypes, Accts!NoJob, Accts!Nothing
<1>7. Planned'
  BY <1>1, <1>3 DEF RegInv, Planned
<1>8. Placed'
  BY <1>1, <1>3 DEF Placed
<1>9. Apart'
  BY <1>1 DEF RegInv, Apart, Accts!Links
<1> QED BY <1>1, <1>3, <1>4, <1>6, <1>7, <1>8, <1>9 DEF RegInv

LEMMA AllowKeeps == ASSUME RegInv, Accts!Allow PROVE RegInv'
<1>1. /\ write.moved /\ write.kind = "add" /\ write' = Accts!NoJob
      /\ allowed' = allowed \cup DOMAIN write.next
      /\ tokens' = [a \in Accounts |-> IF a \in DOMAIN write.next /\ write.next[a].token # 0
                                       THEN write.next[a].token ELSE tokens[a]]
      /\ blocked' = blocked \ {write.account}
      /\ UNCHANGED <<minted, file, catalog, node, links>>
  BY DEF Accts!Allow, Accts!fixed
<1>2. /\ file = "ok" /\ catalog = write.next /\ Listed(catalog)
      /\ DOMAIN catalog = (allowed \ blocked) \cup {write.account}
      /\ \A a \in DOMAIN catalog : catalog[a].token # 0
  BY <1>1 DEF RegInv, RegTypes, Placed, Planned
<1>3. \A a \in DOMAIN catalog : a \in Accounts /\ catalog[a].token \in Nat
  BY <1>2 DEF Listed, Entry
<1>4. tokens' \in [Accounts -> Nat]
  BY <1>1, <1>2, <1>3 DEF RegInv, RegTypes
<1>5. /\ allowed' \subseteq Accounts /\ blocked' \subseteq Accounts /\ Apart'
  BY <1>1, <1>2, <1>3 DEF RegInv, RegTypes, Apart, Accts!Links
<1>6. Admits(catalog)'
  <2>1. allowed' \ blocked' = DOMAIN catalog
    BY <1>1, <1>2
  <2>2. \A a \in DOMAIN catalog : tokens'[a] = catalog[a].token
    BY <1>1, <1>2, <1>3
  <2> QED BY <1>1, <2>1, <2>2 DEF Admits
<1> QED BY <1>1, <1>2, <1>4, <1>5, <1>6, WriteOverKeeps DEF RegInv, RegTypes

LEMMA BlockKeeps == ASSUME RegInv, Accts!Block PROVE RegInv'
<1> DEFINE x == write.account
<1>1. /\ write.moved /\ write.kind = "remove" /\ write' = Accts!NoJob
      /\ blocked' = blocked \cup {x}
      /\ links' = [links EXCEPT ![x] =
                     IF @ \in {"asked", "overtaken"} THEN "overtaken" ELSE "none"]
      /\ UNCHANGED <<minted, file, catalog, node, allowed, tokens>>
  BY DEF Accts!Block, Accts!fixed
<1>2. /\ file = "ok" /\ catalog = write.next /\ Listed(catalog)
      /\ DOMAIN catalog = (allowed \ blocked) \ {x}
      /\ \A a \in DOMAIN catalog : catalog[a].token = tokens[a]
  BY <1>1 DEF RegInv, RegTypes, Placed, Planned
<1>3. Admits(catalog)'
  BY <1>1, <1>2 DEF Admits
<1>4. blocked' \subseteq Accounts
  BY <1>1 DEF RegInv, RegTypes
<1>5. Apart'
  <2>1. links' \in [Accounts -> Accts!Links]
    BY <1>1 DEF RegInv, Apart, Accts!Links
  <2>2. ASSUME NEW a \in blocked' PROVE links'[a] \in {"none", "overtaken", "late"}
    BY <1>1, <1>4 DEF RegInv, Apart
  <2> QED BY <2>1, <2>2 DEF Apart
<1> QED BY <1>1, <1>2, <1>3, <1>4, <1>5, WriteOverKeeps DEF RegInv, RegTypes

\* A gateway that configures itself with a catalog.
LEMMA ConfigureKeeps ==
    ASSUME RegInv, NEW c, Listed(c), Accts!Configure(c), catalog' = c,
           write' = Accts!NoJob, minted' = minted, links' = links,
           file' = "absent" => c = Accts!Fallback
    PROVE  RegInv'
<1>1. /\ node' = "up" /\ allowed' = DOMAIN c /\ blocked' = {}
      /\ tokens' = [a \in Accounts |-> IF a \in DOMAIN c THEN c[a].token ELSE 0]
  BY DEF Accts!Configure
<1>2. \A a \in DOMAIN c : a \in Accounts /\ c[a].token \in Nat
  BY DEF Listed, Entry
<1>3. tokens' \in [Accounts -> Nat] /\ allowed' \subseteq Accounts
  BY <1>1, <1>2
<1>4. Admits(catalog)'
  BY <1>1, <1>2 DEF Admits
<1>5. blocked' \subseteq Accounts /\ Apart'
  BY <1>1 DEF RegInv, Apart, Accts!Links
<1> QED BY <1>1, <1>3, <1>4, <1>5, WriteOverKeeps DEF RegInv, RegTypes

LEMMA BootKeeps == ASSUME RegInv, Accts!Boot PROVE RegInv'
<1>0. Listed(Accts!Read) /\ minted \in Nat
  BY ReadIsAdmitted DEF RegInv, RegTypes
<1>1. CASE Accts!Read # Accts!Secured(Accts!Read) /\ file = "ok"
  <2>1. /\ Accts!StartWrite("tokens", Legacy, Accts!Secured(Accts!Read))
        /\ node' = "boot" /\ minted' = minted + 1
        /\ UNCHANGED <<catalog, allowed, tokens, blocked, links>>
    BY <1>1 DEF Accts!Boot
  <2>2. Listed(Accts!Secured(Accts!Read))
    BY <1>0, SecuredListed
  <2>3. minted' \in Nat
    BY <1>0, <2>1
  <2> QED BY <2>1, <2>2, <2>3, AccountsAssumption, StartKeeps
<1>2. CASE ~(Accts!Read # Accts!Secured(Accts!Read) /\ file = "ok")
  <2>1. /\ node = "down" /\ Accts!Readable /\ Accts!Configure(Accts!Read) /\ catalog' = Accts!Read
        /\ UNCHANGED <<file, write, minted, links>>
    BY <1>2 DEF Accts!Boot
  <2>2. write = Accts!NoJob
    BY <2>1 DEF RegInv, RegTypes, Planned
  <2>3. file = "absent" => Accts!Read = Accts!Fallback
    BY DEF Accts!Read
  <2> QED BY <1>0, <2>1, <2>2, <2>3, ConfigureKeeps
<1> QED BY <1>1, <1>2

LEMMA BootedKeeps == ASSUME RegInv, Accts!Booted PROVE RegInv'
<1>1. /\ write.moved /\ Accts!Configure(write.next) /\ write' = Accts!NoJob
      /\ UNCHANGED <<minted, file, catalog, links>>
  BY DEF Accts!Booted, Accts!fixed
<1>2. file = "ok" /\ catalog = write.next /\ Listed(write.next)
  BY <1>1 DEF RegInv, RegTypes, Placed
<1> QED BY <1>1, <1>2, ConfigureKeeps

LEMMA DiesKeeps == ASSUME RegInv, Accts!GatewayDies PROVE RegInv'
<1>1. /\ node' = "down" /\ write' = Accts!NoJob /\ links' = Accts!Unlinked
      /\ UNCHANGED <<minted, catalog, allowed, tokens, blocked>>
  BY DEF Accts!GatewayDies, Accts!fixed
<1>2. Apart'
  BY <1>1 DEF RegInv, RegTypes, Apart, Accts!Unlinked, Accts!Links
<1> QED BY <1>1, <1>2, WriteOverKeeps DEF RegInv, RegTypes

LEMMA RegStep ==
    ASSUME RegInv, [Accts!Next]_acctVars
    PROVE  RegInv'
<1>1. CASE UNCHANGED acctVars
  <2>1. Apart'
    BY <1>1 DEF acctVars, RegInv, Apart, Accts!Links
  <2> QED BY <1>1, <2>1, OtherKeeps DEF acctVars
<1>2. CASE Accts!Rename
  BY <1>2, RenameKeeps
<1>3. CASE Accts!Allow
  BY <1>3, AllowKeeps
<1>4. CASE Accts!Block
  BY <1>4, BlockKeeps
<1>5. CASE Accts!Booted
  BY <1>5, BootedKeeps
<1>6. CASE Accts!Boot
  BY <1>6, BootKeeps
<1>7. CASE Accts!GatewayDies
  BY <1>7, DiesKeeps
<1>8. CASE Accts!Poll \/ Accts!Reconciled \/ Accts!BootBridge \/ Accts!BridgeDies
  <2>1. /\ UNCHANGED <<minted, catalog, tokens, allowed, blocked, write, node, file>>
        /\ links' = links \/ links' = Accts!Unlinked
    BY <1>8 DEF Accts!Poll, Accts!Reconciled, Accts!BootBridge, Accts!BridgeDies,
                Accts!fixed, Accts!gateway
  <2>2. Apart'
    BY <2>1 DEF RegInv, RegTypes, Apart, Accts!Unlinked, Accts!Links
  <2> QED BY <2>1, <2>2, OtherKeeps
<1>9. CASE Accts!Break \/ Accts!Mend
  <2>1. /\ UNCHANGED <<minted, catalog, tokens, allowed, blocked, write, node, links>>
        /\ file' # "absent" /\ write = Accts!NoJob
    BY <1>9 DEF Accts!Break, Accts!Mend, Accts!fixed, Accts!gateway
  <2>2. Apart'
    BY <2>1 DEF RegInv, Apart, Accts!Links
  <2> QED BY <2>1, <2>2, OtherKeeps DEF RegInv, RegTypes
<1>10. ASSUME NEW a \in Accounts,
              Accts!Close(a) \/ Accts!Start(a) \/ Accts!StartFails(a) \/ Accts!SessionEnds(a)
                \/ Accts!Disconnect(a) \/ Accts!Handshake(a)
       PROVE  RegInv'
  <2>1. /\ UNCHANGED <<minted, catalog, tokens, allowed, blocked, write, node, file>>
        /\ \/ links' \in {links, Accts!Unlinked, [links EXCEPT ![a] = "none"]}
           \/ a \notin blocked /\ links' = [links EXCEPT ![a] = "asked"]
           \/ /\ links[a] \in {"asked", "overtaken"}
              /\ links' = [links EXCEPT ![a] = IF @ = "asked" THEN "bound" ELSE "late"]
    BY <1>10 DEF Accts!Close, Accts!Start, Accts!StartFails, Accts!SessionEnds, Accts!Cut,
                 Accts!Disconnect, Accts!Handshake, Accts!Hello, Accts!BindClient,
                 Accts!fixed, Accts!gateway
  <2>2. Apart'
    BY <2>1 DEF RegInv, RegTypes, Apart, Accts!Unlinked, Accts!Links
  <2> QED BY <2>1, <2>2, OtherKeeps
<1>11. ASSUME NEW a \in Accounts, Accts!AddAccount(a) \/ Accts!RemoveAccount(a) PROVE RegInv'
  BY <1>11, AddKeeps, RemoveKeeps
<1> QED
  BY <1>1, <1>2, <1>3, <1>4, <1>5, <1>6, <1>7, <1>8, <1>9, <1>10, <1>11
     DEF Accts!Next, Accts!Work

\* Between two writes the handshake admits the accounts of the catalog with their
\* credentials and no other, and a removed account has a connection only by a
\* hello that the removal overtook while it waited for its socket: for any
\* accounts, and whatever dies or breaks in the middle of a write.
THEOREM RegistryAgreesAlways == BridgeSpec => []RegistryAgrees
<1>1. BridgeInit => RegInv
  BY BridgeInits, RegInit
<1>2. RegInv /\ [BridgeNext]_bridgeVars => RegInv'
  BY BridgeSteps, RegStep
<1>3. RegInv => RegistryAgrees
  BY DEF RegInv, RegTypes, Apart, Admits, RegistryAgrees, Accts!RegistryAgrees
<1> QED BY <1>1, <1>2, <1>3, PTL DEF BridgeSpec

-----------------------------------------------------------------------------
(* The chat's worker.                                                       *)

Waits == pending # <<>> => worker # "none"

\* The worker ends only where it found the queue empty, or where a command fails.
LEMMA WorkerStays ==
    ASSUME "dump" \notin Faults, Waits, [Chat!Next]_chatVars
    PROVE  Waits'
<1>1. CASE UNCHANGED chatVars
  BY <1>1 DEF Waits, chatVars
<1>2. CASE Chat!Gateway
  BY <1>2 DEF Waits, Chat!Gateway, Chat!Arrive, Chat!ArriveReset, Chat!ArriveEcho, Chat!ArriveAck,
              Chat!ArriveMedia, Chat!AskCommand, Chat!workVars
<1>3. CASE Chat!PumpRead
  BY <1>3 DEF Waits, Chat!PumpRead, Chat!ReadMessage, Chat!Enqueue
<1>4. CASE Chat!PumpCommand \/ Chat!ColdStart
  BY <1>4 DEF Waits, Chat!PumpCommand, Chat!ColdStart, Chat!envVars, Chat!workVars
<1>5. ASSUME NEW a \in {"pump", "cold"}, Chat!Cold(a) PROVE Waits'
  BY <1>5 DEF Waits, Chat!Cold, Chat!ColdBegin, Chat!SystemTurn, Chat!ColdSend, Chat!ColdEnd, Chat!envVars, Chat!workVars
<1>6. ASSUME NEW n \in 1 .. MaxSends, Chat!Ack(n) PROVE Waits'
  BY <1>6 DEF Waits, Chat!Ack, Chat!AckStart, Chat!AckHydrate, Chat!envVars, Chat!workVars
<1>7. CASE Chat!Worker
  <2>1. CASE Chat!Exit
    BY <2>1 DEF Waits, Chat!Exit, Chat!envVars
  <2>2. CASE Chat!CommandFails
    BY <2>2 DEF Chat!CommandFails
  <2>3. CASE Chat!Drain \/ Chat!AskLock \/ Chat!BeginTurn
    BY <2>3 DEF Chat!Drain, Chat!AskLock, Chat!BeginTurn, Waits
  <2>4. CASE Chat!ProcessCommand
    BY <2>4 DEF Waits, Chat!ProcessCommand, Chat!envVars
  <2>5. CASE Chat!Route \/ Chat!Interrupt \/ Chat!MediaTimeout
    BY <2>5 DEF Waits, Chat!Route, Chat!Interrupt, Chat!MediaTimeout
  <2>6. CASE Chat!Reply
    BY <2>6 DEF Waits, Chat!Reply, Chat!envVars, Chat!workVars
  <2>7. CASE Chat!RememberOnly \/ Chat!Apply \/ Chat!EndTurn \/ Chat!HandlerError
    BY <2>7 DEF Waits, Chat!RememberOnly, Chat!Apply, Chat!EndTurn, Chat!HandlerError, Chat!TurnOver
  <2> QED BY <1>7, <2>1, <2>2, <2>3, <2>4, <2>5, <2>6, <2>7 DEF Chat!Worker
<1> QED BY <1>1, <1>2, <1>3, <1>4, <1>5, <1>6, <1>7 DEF Chat!Next, Chat!Pump

\* As long as no command of the worker fails to answer, messages that wait always
\* have a worker: the worker looks at the queue and ends in one step, so the pump
\* cannot queue a message between the two.
THEOREM PendingHasWorkerAlways ==
    ASSUME "dump" \notin Faults
    PROVE  BridgeSpec => []PendingHasWorker
<1>1. BridgeInit => Waits
  BY BridgeInits DEF Chat!Init, Waits
<1>2. Waits /\ [BridgeNext]_bridgeVars => Waits'
  BY BridgeSteps, WorkerStays
<1>3. Waits => PendingHasWorker
  BY DEF Waits, PendingHasWorker, Chat!PendingHasWorker
<1> QED BY <1>1, <1>2, <1>3, PTL DEF BridgeSpec

-----------------------------------------------------------------------------
(* A burst: an answer or silence.  GivesUpLast looks at a turn that is over. *)
(* What makes it inductive is the same fact about the targets already left  *)
(* behind while the call is still under way (Behind), and that the router   *)
(* is never shown media.                                                    *)

\* Target i was asked in a way that lets the bot go on to the next one.
Given_up(i) ==
    \E c \in asked :
        /\ c[1] = i
        /\ c[3] # "usable"
        /\ c[2] = "multimodal" => c[3] \in {"timeout", "unusable", "raised"}

Calls ==
    /\ targets \in Offers /\ offered.route \in Offers /\ offered.write \in Offers
    /\ at \in Nat

Behind ==
    stage # "quiet" =>
        /\ end = "none"
        /\ \A i \in 1..at - 1 : Given_up(i)
        /\ stage = "route" => mode = "text"

AnswerInv == Calls /\ Behind /\ GivesUpLast

\* The counts are numbers, and the idle setting is one of the known ones.
Counts ==
    /\ silent \in Nat /\ burst \in Nat
    /\ limits \in Limits \cup {NoLimits}

-----------------------------------------------------------------------------
\* The calls already made are never forgotten within a stage.
LEMMA GivenUpStays ==
    ASSUME asked \subseteq asked', NEW i, Given_up(i)
    PROVE  Given_up(i)'
BY DEF Given_up

\* A call that failed is the reason to leave its target.
LEMMA GivenUpNow ==
    ASSUME NEW outcome, asked' = asked \cup {<<at, mode, outcome>>},
           outcome # "usable",
           mode = "multimodal" => outcome \in {"timeout", "unusable", "raised"},
           NEW i, i = at
    PROVE  Given_up(i)'
<1> DEFINE c == <<at, mode, outcome>>
<1>1. c \in asked' /\ c[1] = i /\ c[2] = mode /\ c[3] = outcome
  OBVIOUS
<1>2. c[3] # "usable" /\ (c[2] = "multimodal" => c[3] \in {"timeout", "unusable", "raised"})
  BY <1>1
<1> QED
  BY <1>1, <1>2 DEF Given_up

-----------------------------------------------------------------------------
(* One call.                                                                *)

\* The same call to the next target keeps the account of the earlier ones.
LEMMA NextTargetKeeps ==
    ASSUME AnswerInv, stage # "quiet", NEW outcome, Next_target(outcome),
           outcome # "usable",
           mode = "multimodal" => outcome \in {"timeout", "unusable"}
    PROVE  AnswerInv'
<1>1. Calls'
  BY DEF AnswerInv, Calls, Next_target, operator
<1>2. Behind'
  <2>1. end' = "none" /\ stage' = stage
    BY DEF AnswerInv, Behind, Next_target
  <2>2. stage' = "route" => mode' = "text"
    BY DEF AnswerInv, Behind, Next_target
  <2>3. \A i \in 1..at' - 1 : Given_up(i)'
    <3> TAKE i \in 1..at' - 1
    <3>1. asked' = asked \cup {<<at, mode, outcome>>} /\ at' = at + 1 /\ at \in Nat
      BY DEF Next_target, AnswerInv, Calls
    <3>2. CASE i = at
      BY <3>1, <3>2, GivenUpNow
    <3>3. CASE i # at
      <4>1. i \in 1..at - 1
        BY <3>1, <3>3
      <4> QED
        BY <4>1, <3>1, GivenUpStays DEF AnswerInv, Behind
    <3> QED
      BY <3>2, <3>3
  <2> QED
    BY <2>1, <2>2, <2>3 DEF Behind
<1>3. GivesUpLast'
  BY DEF GivesUpLast, AnswerInv, Behind, Next_target
<1> QED
  BY <1>1, <1>2, <1>3 DEF AnswerInv

\* Giving up: every target up to this one has been given up, and the ones after
\* it are left unasked only where the answer broke the code.
LEMMA OverKeeps ==
    ASSUME AnswerInv, stage # "quiet", NEW how, NEW outcome, Over(how, outcome),
           how \in {"failed", "unanswered", "useless", "broken"} =>
               /\ HasNext => outcome = "raised"
               /\ outcome # "usable"
               /\ mode = "multimodal" => outcome \in {"timeout", "unusable", "raised"}
    PROVE  AnswerInv'
<1>1. Calls'
  BY DEF AnswerInv, Calls, Over, operator
<1>2. Behind'
  BY DEF Behind, Over
<1>3. /\ asked' = asked \cup {<<at, mode, outcome>>} /\ end' = how
      /\ at' = at /\ mode' = mode /\ targets' = targets
  BY DEF Over
<1>4. CASE how \in {"failed", "unanswered", "useless", "broken"}
  <2>1. ASSUME NEW i \in 1..at PROVE Given_up(i)'
    <3>1. CASE i = at
      BY <1>3, <1>4, <3>1, GivenUpNow
    <3>2. CASE i # at
      <4>1. i \in 1..at - 1
        BY <3>2 DEF AnswerInv, Calls
      <4> QED
        BY <4>1, <1>3, GivenUpStays DEF AnswerInv, Behind
    <3> QED
      BY <3>1, <3>2
  <2>2. at < Len(targets) => <<at, mode, "raised">> \in asked'
    BY <1>3, <1>4 DEF HasNext
  <2>3. GivesUpLast'
    BY <1>3, <2>1, <2>2 DEF GivesUpLast, Given_up
  <2> QED
    BY <1>1, <1>2, <2>3 DEF AnswerInv
<1>5. CASE how \notin {"failed", "unanswered", "useless", "broken"}
  <2>1. GivesUpLast'
    BY <1>3, <1>5 DEF GivesUpLast
  <2> QED
    BY <1>1, <1>2, <2>1 DEF AnswerInv
<1> QED
  BY <1>4, <1>5

\* LLM2 takes over from LLM1: nothing is behind it yet.
LEMMA WriteKeeps ==
    ASSUME AnswerInv, stage # "quiet", Write
    PROVE  AnswerInv'
<1>1. Calls'
  BY DEF AnswerInv, Calls, Write, operator
<1>2. Behind'
  BY DEF AnswerInv, Behind, Write
<1>3. GivesUpLast'
  BY DEF AnswerInv, Behind, GivesUpLast, Write
<1> QED
  BY <1>1, <1>2, <1>3 DEF AnswerInv

\* A decision not to answer, after the last target where it is a failure.
LEMMA SkipKeeps ==
    ASSUME AnswerInv, stage = "route", NEW how, NEW outcome, Skip(how, outcome),
           how \in {"failed", "unanswered", "useless", "broken"} =>
               ~HasNext /\ outcome # "usable"
    PROVE  AnswerInv'
<1>1. CASE Over(how, outcome)
  <2>1. mode # "multimodal"
    BY DEF AnswerInv, Behind
  <2> QED
    BY <1>1, <2>1, OverKeeps
<1>2. CASE Write
  BY <1>2, WriteKeeps
<1> QED
  BY <1>1, <1>2 DEF Skip

-----------------------------------------------------------------------------
\* A failure of LLM2 that is not a refusal of media.
LEMMA WriterFailedKeeps ==
    ASSUME AnswerInv, stage = "write", NEW outcome \in {"timeout", "error"},
           WriterFailed(outcome),
           mode = "multimodal" => outcome = "timeout"
    PROVE  AnswerInv'
<1>1. CASE Next_target(outcome)
  BY <1>1, NextTargetKeeps
<1>2. CASE WriterSilent(outcome)
  <2>1. ~HasNext /\ Over("unanswered", outcome)
    BY <1>2 DEF WriterSilent
  <2> QED
    BY <2>1, OverKeeps
<1> QED
  BY <1>1, <1>2 DEF WriterFailed

LEMMA RouterKeeps == ASSUME AnswerInv, Router PROVE AnswerInv'
<1>1. CASE RouterYes
  BY <1>1, WriteKeeps DEF RouterYes
<1>2. CASE RouterNo
  BY <1>2, SkipKeeps DEF RouterNo
<1>3. CASE RouterExpresses
  <2>1. stage # "quiet" /\ Over("expressed", "express")
    BY <1>3 DEF RouterExpresses
  <2> QED
    BY <2>1, OverKeeps
<1>4. CASE RouterRaises
  <2>1. stage # "quiet" /\ Over("broken", "raised")
    BY <1>4 DEF RouterRaises
  <2> QED
    BY <2>1, OverKeeps
<1>5. ASSUME NEW f \in Failures, RouterFails(f) PROVE AnswerInv'
  <2>1. stage = "route" /\ f # "usable" /\ mode = "text"
    BY <1>5 DEF RouterFails, Failures, AnswerInv, Behind
  <2>2. CASE Next_target(f)
    BY <2>1, <2>2, NextTargetKeeps
  <2>3. CASE ~HasNext /\ Skip("failed", f)
    BY <2>1, <2>3, SkipKeeps
  <2> QED
    BY <1>5, <2>2, <2>3 DEF RouterFails
<1> QED
  BY <1>1, <1>2, <1>3, <1>4, <1>5 DEF Router

LEMMA WriterKeeps == ASSUME AnswerInv, Writer PROVE AnswerInv'
<1>1. CASE WriterReplies
  <2>1. stage # "quiet" /\ Over("answered", "usable")
    BY <1>1 DEF WriterReplies
  <2> QED
    BY <2>1, OverKeeps
<1>2. CASE WriterUnusable
  <2>1. stage = "write"
    BY <1>2 DEF WriterUnusable
  <2>2. CASE Next_target("unusable")
    BY <2>1, <2>2, NextTargetKeeps
  <2>3. CASE ~HasNext /\ Over("useless", "unusable")
    BY <2>1, <2>3, OverKeeps
  <2> QED
    BY <1>2, <2>2, <2>3 DEF WriterUnusable
<1>3. CASE WriterTimesOut
  <2>1. CASE attempt <= RetryMax
    <3>1. UNCHANGED <<operator, stage, burst, media, targets, at, mode, asked, silent, end>>
      BY <1>3, <2>1 DEF WriterTimesOut
    <3> QED
      BY <3>1 DEF AnswerInv, Calls, Behind, GivesUpLast, Given_up, operator
  <2>2. CASE ~(attempt <= RetryMax)
    <3>1. stage = "write" /\ WriterFailed("timeout")
      BY <1>3, <2>2 DEF WriterTimesOut
    <3> QED
      BY <3>1, WriterFailedKeeps
  <2> QED
    BY <2>1, <2>2
<1>4. CASE WriterErrs
  <2>1. CASE mode = "multimodal"
    <3>1. /\ stage = "write" /\ asked \subseteq asked'
          /\ UNCHANGED <<operator, stage, targets, at, end>>
      BY <1>4, <2>1 DEF WriterErrs
    <3>2. Calls' /\ GivesUpLast'
      BY <3>1 DEF AnswerInv, Calls, Behind, GivesUpLast, operator
    <3>3. Behind'
      BY <3>1, GivenUpStays DEF AnswerInv, Behind
    <3> QED
      BY <3>2, <3>3 DEF AnswerInv
  <2>2. CASE mode # "multimodal"
    <3>1. stage = "write" /\ WriterFailed("error")
      BY <1>4, <2>2 DEF WriterErrs
    <3> QED
      BY <2>2, <3>1, WriterFailedKeeps
  <2> QED
    BY <2>1, <2>2
<1>5. CASE WriterRaises
  <2>1. stage # "quiet" /\ Over("broken", "raised")
    BY <1>5 DEF WriterRaises
  <2> QED
    BY <2>1, OverKeeps
<1> QED
  BY <1>1, <1>2, <1>3, <1>4, <1>5 DEF Writer

-----------------------------------------------------------------------------
\* The invariant holds at the start.
LEMMA InitAnswerInv == Init => AnswerInv
BY AnswersAssumption DEF Init, AnswerInv, Calls, Behind, GivesUpLast

\* Every step keeps it.
LEMMA NextAnswerInv == AnswerInv /\ [Next]_vars => AnswerInv'
<1> SUFFICES ASSUME AnswerInv, [Next]_vars PROVE AnswerInv'
  OBVIOUS
<1>1. CASE Begin
  <2>1. Calls'
    BY <1>1 DEF Begin, AnswerInv, Calls, operator
  <2>2. Behind' /\ GivesUpLast'
    BY <1>1 DEF Begin, Behind, GivesUpLast
  <2> QED
    BY <2>1, <2>2 DEF AnswerInv
<1>2. CASE Router
  BY <1>2, RouterKeeps
<1>3. CASE Writer
  BY <1>3, WriterKeeps
<1>4. CASE Reset
  BY <1>4 DEF Reset, operator, call, AnswerInv, Calls, Behind, GivesUpLast, Given_up
<1>5. ASSUME NEW s \in {"route", "write"}, NEW offer \in Offers, Configure(s, offer)
      PROVE  AnswerInv'
  <2>1. UNCHANGED <<stage, targets, at, mode, asked, end>>
    BY <1>5 DEF Configure, call
  <2>2. offered' = [offered EXCEPT ![s] = offer]
    BY <1>5 DEF Configure
  <2> QED
    BY <2>1, <2>2 DEF AnswerInv, Calls, Behind, GivesUpLast, Given_up
<1>6. ASSUME NEW l \in Limits \cup {NoLimits}, SetIdle(l) PROVE AnswerInv'
  BY <1>6 DEF SetIdle, call, AnswerInv, Calls, Behind, GivesUpLast, Given_up
<1>7. CASE UNCHANGED vars
  BY <1>7 DEF vars, operator, call, AnswerInv, Calls, Behind, GivesUpLast, Given_up
<1> QED
  BY <1>1, <1>2, <1>3, <1>4, <1>5, <1>6, <1>7 DEF Next

\* The bot gives up on a burst only after every target configured when the
\* stage began has failed, and one that refused the media was asked without
\* them, unless an answer broke the code, which leaves the targets after it
\* unasked: for any targets, retries and changes of the configuration meanwhile.
THEOREM GivesUpLastAlways == BridgeSpec => []GivesUpLast
<1>1. BridgeInit => AnswerInv
  BY BridgeInits, InitAnswerInv
<1>2. AnswerInv /\ [BridgeNext]_bridgeVars => AnswerInv'
  BY BridgeSteps, NextAnswerInv
<1>3. AnswerInv => GivesUpLast
  BY DEF AnswerInv
<1> QED
  BY <1>1, <1>2, <1>3, PTL DEF BridgeSpec

-----------------------------------------------------------------------------
(* Silence.                                                                 *)

\* Every step keeps the counts.
LEMMA NextCounts == Counts /\ [Next]_vars => Counts'
<1> SUFFICES ASSUME Counts, [Next]_vars PROVE Counts'
  OBVIOUS
<1> USE DEF Counts
<1>1. CASE Begin
  BY <1>1, AnswersAssumption DEF Begin, operator
<1>2. CASE Router
  BY <1>2 DEF Router, RouterYes, RouterNo, RouterExpresses, RouterRaises, RouterFails,
              Skip, Over, Write, Next_target, operator
<1>3. CASE Writer
  BY <1>3 DEF Writer, WriterReplies, WriterUnusable, WriterTimesOut, WriterErrs, WriterRaises,
              WriterFailed, WriterSilent, Over, Next_target, operator
<1>4. CASE Reset
  BY <1>4 DEF Reset, operator
<1>5. ASSUME NEW s \in {"route", "write"}, NEW offer \in Offers, Configure(s, offer)
      PROVE  Counts'
  BY <1>5 DEF Configure
<1>6. ASSUME NEW l \in Limits \cup {NoLimits}, SetIdle(l) PROVE Counts'
  BY <1>6 DEF SetIdle
<1>7. CASE UNCHANGED vars
  BY <1>7 DEF vars, operator
<1> QED
  BY <1>1, <1>2, <1>3, <1>4, <1>5, <1>6, <1>7 DEF Next

\* What the trigger lets pass is below its maximum, and so is a count it resets.
LEMMA PassesBelow ==
    ASSUME Counts, limits # NoLimits, NEW n \in Nat, MayWait(n)
    PROVE  n < limits.max
BY AnswersAssumption DEF Counts, MayWait

LEMMA ZeroBelow ==
    ASSUME Counts, limits # NoLimits
    PROVE  0 < limits.max
BY AnswersAssumption DEF Counts

Ends == stage # "quiet" /\ stage' = "quiet" /\ end' # "broken"

\* A turn that ends leaves a count that the trigger let pass, or none.
LEMMA EndsLow ==
    ASSUME Counts, Next, Ends
    PROVE  silent' = 0 \/ (silent' = silent + burst /\ MayWait(silent + burst))
<1> USE DEF Ends
<1>1. CASE Begin
  BY <1>1 DEF Begin
<1>2. CASE Router
  <2>1. CASE RouterYes
    BY <2>1 DEF RouterYes, Write
  <2>2. CASE RouterNo
    BY <2>2 DEF RouterNo, Skip
  <2>3. CASE RouterExpresses
    BY <2>3 DEF RouterExpresses
  <2>4. CASE RouterRaises
    BY <2>4 DEF RouterRaises, Over
  <2>5. ASSUME NEW f \in Failures, RouterFails(f)
        PROVE  silent' = 0 \/ (silent' = silent + burst /\ MayWait(silent + burst))
    BY <2>5 DEF RouterFails, Next_target, Skip
  <2> QED
    BY <1>2, <2>1, <2>2, <2>3, <2>4, <2>5 DEF Router
<1>3. CASE Writer
  BY <1>3 DEF Writer, WriterReplies, WriterUnusable, WriterTimesOut, WriterErrs, WriterRaises,
              WriterFailed, WriterSilent, Over, Next_target
<1>4. CASE Reset
  BY <1>4 DEF Reset
<1>5. ASSUME NEW s \in {"route", "write"}, NEW offer \in Offers, Configure(s, offer)
      PROVE  FALSE
  BY <1>5 DEF Configure
<1>6. ASSUME NEW l \in Limits \cup {NoLimits}, SetIdle(l) PROVE FALSE
  BY <1>6 DEF SetIdle
<1> QED
  BY <1>1, <1>2, <1>3, <1>4, <1>5, <1>6 DEF Next

\* When a turn ends without breaking the code, the bot has been silent for
\* fewer messages than its idle setting allows.
THEOREM SilenceIsBoundedAlways == BridgeSpec => SilenceIsBounded
<1>1. BridgeInit => Counts
  BY BridgeInits DEF Init, Counts
<1>2. Counts /\ [BridgeNext]_bridgeVars => Counts'
  BY BridgeSteps, NextCounts
<1>3. Counts /\ [BridgeNext]_bridgeVars
        => [Ends /\ limits # NoLimits => silent' < limits.max]_vars
  <2> SUFFICES ASSUME Counts, Next, Ends, limits # NoLimits
               PROVE  silent' < limits.max
    BY BridgeSteps
  <2>1. silent + burst \in Nat
    BY DEF Counts
  <2>2. CASE silent' = 0
    BY <2>2, ZeroBelow
  <2>3. CASE silent' = silent + burst /\ MayWait(silent + burst)
    BY <2>1, <2>3, PassesBelow
  <2> QED
    BY <2>2, <2>3, EndsLow
<1> QED
  BY <1>1, <1>2, <1>3, PTL DEF BridgeSpec, SilenceIsBounded, Ends

-----------------------------------------------------------------------------
(* What a /reset forgets.                                                   *)

\* The chat with its proofs.
Turns == INSTANCE ChatSessionProofs WITH
    mode <- reply, asked <- requests, todo <- drained

\* The chat of Installation is the one of ChatSessionProofs.
LEMMA SameHistory ==
    ASSUME NEW h, NEW x
    PROVE  /\ Turns!AppendEntry(h, x) = Chat!AppendEntry(h, x)
           /\ Turns!AppendPayload(h, x) = Chat!AppendPayload(h, x)
           /\ Turns!AppendPayloads(h, x) = Chat!AppendPayloads(h, x)
<1>1. Turns!AppendEntry(h, x) = Chat!AppendEntry(h, x)
  BY DEF Turns!AppendEntry, Chat!AppendEntry
<1>2. Turns!AppendPayload(h, x) = Chat!AppendPayload(h, x)
  BY DEF Turns!AppendPayload, Chat!AppendPayload, Turns!AppendEntry, Chat!AppendEntry,
         Turns!IsProvisional, Chat!IsProvisional, Turns!KindOf, Chat!KindOf
<1>3. Turns!AppendPayloads(h, x) = Chat!AppendPayloads(h, x)
  BY DEF Turns!AppendPayloads, Chat!AppendPayloads, Turns!AppendPayload, Chat!AppendPayload,
         Turns!AppendEntry, Chat!AppendEntry,
         Turns!IsProvisional, Chat!IsProvisional, Turns!KindOf, Chat!KindOf
<1> QED BY <1>1, <1>2, <1>3

LEMMA SameChat ==
    /\ Chat!Init => Turns!Init
    /\ Turns!ResetForgets <=> Chat!ResetForgets
    /\ [Chat!Next]_chatVars => [Turns!Next]_(Turns!vars)
<1>1. Chat!Init => Turns!Init
  BY DEF Chat!Init, Turns!Init
<1>2. Turns!ResetForgets <=> Chat!ResetForgets
  BY DEF Chat!ResetForgets, Turns!ResetForgets, Chat!ResetBetween, Turns!ResetBetween,
         Chat!KindOf, Turns!KindOf, Chat!InTurn, Turns!InTurn
<1>3. Chat!Gateway => Turns!Gateway
  BY DEF Chat!Gateway, Turns!Gateway, Chat!Arrive, Turns!Arrive, Chat!ArriveReset,
         Turns!ArriveReset, Chat!ArriveEcho, Turns!ArriveEcho, Chat!ArriveAck,
         Turns!ArriveAck, Chat!ArriveMedia, Turns!ArriveMedia, Chat!AskCommand,
         Turns!AskCommand, Chat!workVars, Turns!workVars, Chat!ackVars, Turns!ackVars,
         Chat!Messages, Turns!Messages
<1>4. Chat!Pump => Turns!Pump
  <2>1. Chat!PumpRead => Turns!PumpRead
    BY DEF Chat!PumpRead, Turns!PumpRead, Chat!ReadMessage, Turns!ReadMessage,
           Chat!Enqueue, Turns!Enqueue, Chat!MayCall, Turns!MayCall, Chat!KindOf, Turns!KindOf,
           Chat!Join, Turns!Join, Chat!PumpTask, Turns!PumpTask
  <2>2. Chat!PumpCommand => Turns!PumpCommand
    BY SameHistory DEF Chat!PumpCommand, Turns!PumpCommand, Chat!SendOwn, Turns!SendOwn,
           Chat!NextSend, Turns!NextSend, Chat!Release, Turns!Release, Chat!Holds, Turns!Holds,
           Chat!PumpTask, Turns!PumpTask, Chat!envVars, Turns!envVars,
           Chat!workVars, Turns!workVars
  <2> QED BY <2>1, <2>2 DEF Chat!Pump, Turns!Pump
<1>5. Chat!ColdStart => Turns!ColdStart
  BY DEF Chat!ColdStart, Turns!ColdStart, Chat!Join, Turns!Join, Chat!ColdTask, Turns!ColdTask,
         Chat!workVars, Turns!workVars, Chat!ackVars, Turns!ackVars
<1>6. ASSUME NEW a, Chat!Cold(a) PROVE Turns!Cold(a)
  BY <1>6, SameHistory
     DEF Chat!Cold, Turns!Cold, Chat!ColdBegin, Turns!ColdBegin, Chat!SystemTurn,
         Turns!SystemTurn, Chat!ColdSend, Turns!ColdSend, Chat!ColdEnd, Turns!ColdEnd,
         Chat!SendOwn, Turns!SendOwn, Chat!NextSend, Turns!NextSend,
         Chat!Release, Turns!Release, Chat!Holds, Turns!Holds, Chat!TaskOf, Turns!TaskOf,
         Chat!PumpTask, Turns!PumpTask, Chat!ColdTask, Turns!ColdTask,
         Chat!envVars, Turns!envVars, Chat!workVars, Turns!workVars, Chat!ackVars, Turns!ackVars
<1>7. ASSUME NEW n, Chat!Ack(n) PROVE Turns!Ack(n)
  BY <1>7 DEF Chat!Ack, Turns!Ack, Chat!AckStart, Turns!AckStart, Chat!AckHydrate,
         Turns!AckHydrate, Chat!AckTask, Turns!AckTask, Chat!Join, Turns!Join,
         Chat!Release, Turns!Release, Chat!Holds, Turns!Holds,
         Chat!envVars, Turns!envVars, Chat!workVars, Turns!workVars, Chat!ackVars, Turns!ackVars
<1>8. Chat!Worker => Turns!Worker
  <2> USE DEF Chat!envVars, Turns!envVars, Chat!ackVars, Turns!ackVars
  <2>1. Chat!TurnOver => Turns!TurnOver
    BY DEF Chat!TurnOver, Turns!TurnOver, Chat!Release, Turns!Release
  <2>2. /\ Chat!Exit => Turns!Exit
        /\ Chat!Drain => Turns!Drain
        /\ Chat!CommandFails => Turns!CommandFails
        /\ Chat!AskLock => Turns!AskLock
    BY SameHistory DEF Chat!Exit, Turns!Exit, Chat!Drain, Turns!Drain,
       Chat!CommandFails, Turns!CommandFails, Chat!KindOf, Turns!KindOf,
       Chat!AskLock, Turns!AskLock, Chat!Join, Turns!Join, Chat!WorkerTask, Turns!WorkerTask
  <2>3. Chat!ProcessCommand => Turns!ProcessCommand
    BY SameHistory DEF Chat!ProcessCommand, Turns!ProcessCommand, Chat!Command, Turns!Command,
       Chat!RunReset, Turns!RunReset, Chat!KindOf, Turns!KindOf
  <2>4. Chat!BeginTurn => Turns!BeginTurn
    BY DEF Chat!BeginTurn, Turns!BeginTurn, Chat!Triggers, Turns!Triggers, Chat!KindOf,
       Turns!KindOf, Chat!Holds, Turns!Holds, Chat!WorkerTask, Turns!WorkerTask
  <2>5. /\ Chat!RememberOnly => Turns!RememberOnly
        /\ Chat!EndTurn => Turns!EndTurn
        /\ Chat!HandlerError => Turns!HandlerError
        /\ Chat!Apply => Turns!Apply
    BY <2>1, SameHistory DEF Chat!RememberOnly, Turns!RememberOnly, Chat!EndTurn,
       Turns!EndTurn, Chat!HandlerError, Turns!HandlerError, Chat!Apply, Turns!Apply,
       Chat!InTurn, Turns!InTurn, Chat!Holds, Turns!Holds, Chat!WorkerTask, Turns!WorkerTask
  <2>6. /\ Chat!Route => Turns!Route
        /\ Chat!Interrupt => Turns!Interrupt
        /\ Chat!MediaTimeout => Turns!MediaTimeout
    BY DEF Chat!Route, Turns!Route, Chat!Interrupt, Turns!Interrupt, Chat!MediaTimeout,
       Turns!MediaTimeout
  <2>7. Chat!Reply => Turns!Reply
    BY SameHistory DEF Chat!Reply, Turns!Reply, Chat!SendOwn, Turns!SendOwn,
       Chat!NextSend, Turns!NextSend, Chat!workVars, Turns!workVars
  <2> QED BY <2>2, <2>3, <2>4, <2>5, <2>6, <2>7 DEF Chat!Worker, Turns!Worker
<1>9. UNCHANGED chatVars => UNCHANGED Turns!vars
  BY DEF chatVars, Turns!vars, Turns!envVars, Turns!workVars, Turns!ackVars
<1>10. Chat!Next => Turns!Next
  BY <1>3, <1>4, <1>5, <1>6, <1>7, <1>8 DEF Chat!Next, Turns!Next
<1> QED BY <1>1, <1>2, <1>9, <1>10

\* A turn never works with messages from both sides of a /reset: in every chat
\* that is not hybrid (its worker merges what is pending without looking for
\* commands), when the gateway forwards the message of the /reset and no dump
\* fails (the messages drained with it, a /reset among them, are then lost).
THEOREM ResetForgetsAlways ==
    ASSUME "hybrid" \notin Modes, "lost" \notin Faults, "dump" \notin Faults
    PROVE  BridgeSpec => []ResetForgets
<1>1. BridgeInit => Turns!MemoryInv /\ Turns!ResetInv
  BY TurnsAssumption, SameChat, Turns!InitMemory, Turns!InitResets DEF BridgeInit
<1>2. Turns!MemoryInv /\ Turns!ResetInv /\ [BridgeNext]_bridgeVars
        => (Turns!MemoryInv /\ Turns!ResetInv)'
  <2> SUFFICES ASSUME Turns!MemoryInv, Turns!ResetInv, [BridgeNext]_bridgeVars
               PROVE  Turns!MemoryInv' /\ Turns!ResetInv'
    OBVIOUS
  <2>1. [Chat!Next]_chatVars
    BY DEF BridgeNext, bridgeVars
  <2>2. [Turns!Next]_(Turns!vars)
    BY <2>1, SameChat
  <2> QED BY <2>2, TurnsAssumption, Turns!MemoryStep, Turns!ResetStep
<1>3. Turns!MemoryInv /\ Turns!ResetInv => ResetForgets
  BY TurnsAssumption, SameChat, Turns!TurnForgets DEF ResetForgets
<1> QED BY <1>1, <1>2, <1>3, PTL DEF BridgeSpec
=============================================================================
