---------------------------- MODULE Installation ----------------------------
(* Components of one installation that share no state: a behaviour works    *)
(* with one of them at a time, named by part, and the others stay as they   *)
(* are.                                                                     *)
EXTENDS Answers

CONSTANTS
    None,
    \* the processes that share a database
    Procs, NodeProcs, MaxDamages, MaxCrashes,
    \* the accounts
    Accounts, Legacy, LastSlot, MaxTokens, MaxFaults,
    \* scheduled tasks
    OneShot, Daily, MaxSessions, MaxOutages,
    \* one chat
    Modes, Kinds, HistoryLimit, Faults, MaxMessages, MaxSends, MaxRequests

\* No process is the absence of one, and the account of an installation without
\* a catalog is one of its accounts.
ASSUME ProcsAssumption == None \notin Procs
ASSUME AccountsAssumption == Legacy \in Accounts

\* What a chat assumes (ChatAssumption).
ASSUME TurnsAssumption ==
    /\ Modes \subseteq {"auto", "prefix", "hybrid", "private"}
    /\ Kinds \subseteq {"plain", "prefix", "context", "dump", "reset", "added", "ignored"}
    /\ HistoryLimit \in Nat \ {0}
    /\ Faults \subseteq {"lost", "dump", "error", "send"}
    /\ MaxMessages \in Nat /\ MaxSends \in Nat /\ MaxRequests \in Nat

VARIABLES
    part,
    \* the recovery of a database
    main, side, bad, used, conn, lock, stale, pc, queried, reopens, robbed,
    wasted, damages, crashes,
    \* the bridge's accounts
    explicit, file, catalog, write, node, supervisor, allowed, tokens, blocked,
    sessions, todo, links, minted, faults,
    \* scheduled tasks
    phase, runs, wa, outages, scheduled, inbox, pump, taskRows, timers, cancel,
    slot, questions, loaded, stuck, done, notes,
    \* one chat
    reply, arrived, sent, requests, wire, pending, interrupt, worker, drained,
    batch, prompt, turn, lockQ, registered, acks, history

Db == INSTANCE DbRecovery WITH Nobody <- None

Accts == INSTANCE Supervision WITH job <- write, bridge <- supervisor

Sched == INSTANCE TaskSchedules WITH
    sessions <- runs, known <- scheduled, rows <- taskRows, pc <- timers,
    asked <- questions

Chat == INSTANCE ChatSession WITH
    mode <- reply, asked <- requests, todo <- drained

acctVars == <<explicit, file, catalog, write, node, supervisor, allowed, tokens,
              blocked, sessions, todo, links, minted, faults>>
dbVars   == <<main, side, bad, used, conn, lock, stale, pc, queried, reopens,
              robbed, wasted, damages, crashes>>
taskVars == <<phase, runs, wa, outages, scheduled, inbox, pump, taskRows, timers,
              cancel, slot, questions, loaded, stuck, done, notes>>
chatVars == <<reply, arrived, sent, requests, wire, pending, interrupt, worker,
              drained, batch, prompt, turn, lockQ, registered, acks, history>>
bridgeVars == <<part, vars, dbVars, acctVars, taskVars, chatVars>>

\* The parts that are not worked with start in one of their initial states.
Still ==
    /\ part # "accounts" => ~explicit /\ file = "absent"
    /\ part # "turns" => limits = NoLimits /\ offered.route = <<>> /\ Len(offered.write) = 1
    /\ part # "tasks" => wa = TRUE

BridgeInit ==
    /\ part \in {"db", "accounts", "turns", "tasks", "chat"}
    /\ Init /\ Db!Init /\ Accts!Init /\ Sched!Init /\ Chat!Init
    /\ Still

BridgeNext ==
    \/ /\ part = "db" /\ Db!Next
       /\ UNCHANGED <<part, vars, acctVars, taskVars, chatVars>>
    \/ /\ part = "accounts" /\ Accts!Next
       /\ UNCHANGED <<part, vars, dbVars, taskVars, chatVars>>
    \/ /\ part = "turns" /\ Next
       /\ UNCHANGED <<part, dbVars, acctVars, taskVars, chatVars>>
    \/ /\ part = "tasks" /\ Sched!Next
       /\ UNCHANGED <<part, vars, dbVars, acctVars, chatVars>>
    \/ /\ part = "chat" /\ Chat!Next
       /\ UNCHANGED <<part, vars, dbVars, acctVars, taskVars>>

\* The fairness of each part, where it is worked with.
BridgeFairness ==
    /\ \A n \in Procs : WF_dbVars(part = "db" /\ Db!Work(n))
    /\ WF_dbVars(part = "db" /\ Db!Age)
    /\ WF_acctVars(part = "accounts" /\ Accts!Rename)
    /\ WF_acctVars(part = "accounts" /\ (Accts!Allow \/ Accts!Block \/ Accts!Booted))
    /\ WF_acctVars(part = "accounts" /\ Accts!Poll)
    /\ WF_acctVars(part = "accounts" /\ Accts!Reconciled)
    /\ \A n \in Accounts :
         /\ WF_acctVars(part = "accounts" /\ Accts!Close(n))
         /\ WF_acctVars(part = "accounts" /\ Accts!Start(n))
         /\ WF_acctVars(part = "accounts" /\ Accts!Handshake(n))
    /\ WF_taskVars(part = "tasks" /\ Sched!SessionRuns)
    /\ WF_taskVars(part = "tasks" /\ Sched!WaOpens)
    /\ WF_taskVars(part = "tasks" /\ Sched!HandleStatus)
    /\ SF_taskVars(part = "tasks" /\ Sched!PumpReplies)
    /\ \A n \in Sched!Timers :
         /\ WF_taskVars(part = "tasks" /\ Sched!TimerRuns(n))
         /\ SF_taskVars(part = "tasks" /\ Sched!TakesLock(n))
    /\ WF_chatVars(part = "chat" /\ Chat!Pump)
    /\ WF_chatVars(part = "chat" /\ Chat!Worker)
    /\ \A n \in {"pump", "cold"} : WF_chatVars(part = "chat" /\ Chat!Cold(n))
    /\ \A n \in 1 .. MaxSends :
         /\ WF_chatVars(part = "chat" /\ Chat!AckStart(n))
         /\ WF_chatVars(part = "chat" /\ Chat!AckHydrate(n))

BridgeSpec == BridgeInit /\ [][BridgeNext]_bridgeVars /\ BridgeFairness

-----------------------------------------------------------------------------
\* The supervisor's sessions come to be those of the catalog.
FollowsCatalog == Accts!FollowsCatalog
\* Between two writes the handshake admits the accounts of the catalog.
RegistryAgrees == Accts!RegistryAgrees
\* Two processes never work on two sound databases.
OneDatabase == Db!OneDatabase
\* A process whose database got corrupt has it open again in the end.
Reopened == Db!Reopened
\* A task that was accepted is served.
Served == Sched!Served
\* A turn never works with messages from both sides of a /reset.
ResetForgets == Chat!ResetForgets
\* Messages that wait have a worker.
PendingHasWorker == Chat!PendingHasWorker
\* The id of a message that was acknowledged reaches the history.
Hydrated == Chat!Hydrated
=============================================================================
