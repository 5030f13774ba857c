----------------------------- MODULE Supervision -----------------------------
(***************************************************************************)
(* The accounts of one installation.  The control panel keeps them in a    *)
(* catalog file (accountCatalog.ts), the gateway in the allowlist its      *)
(* handshake consults (accountRegistry.ts, wsServer.ts), and the bridge's  *)
(* supervisor polls the file and starts and stops one session for each     *)
(* (account_supervisor.py, accounts.py, main.py).                          *)
(*                                                                         *)
(* A catalog is a function from the accounts in it to the slot and the     *)
(* credential of each; a credential is the number of the write that minted *)
(* it, 0 is none.  All accounts dial one gateway.  A hello that is         *)
(* admitted waits for the account's socket before it is bound; what        *)
(* happens during the wait is the subject of AccountLifecycle.             *)
(* Connections are those the bridge has: one that is lost while it waits   *)
(* is gone.                                                                *)
(***************************************************************************)
EXTENDS Naturals, FiniteSets

CONSTANTS
    Accounts,
    Legacy,      \* the account of an installation without a catalog
    LastSlot,    \* 999
    MaxTokens,   \* credentials ever minted (a model bound)
    MaxFaults    \* broken files, crashes, dead sessions, busy ports (a bound)

VARIABLES
    explicit,   \* ACCOUNTS_JSON names the file
    file,       \* what a reader meets: "ok", "absent" or "broken"
    catalog,    \* the catalog last written
    job,        \* the catalog write under way in the gateway
    node, bridge,   \* the processes: "up", "down", and "boot" in between
    allowed,    \* configuredAccounts
    tokens,     \* configuredAccountTokens; 0 is no entry
    blocked,    \* blockedAccounts
    sessions,   \* the supervisor's sessions, those being stopped included
    todo,       \* what the reconcile under way planned; Done is none
    links,      \* the connection of each account's session; "overtaken" and
                \* "late" are "asked" and "bound" after a removal overtook them
    minted, faults

gateway    == <<node, allowed, tokens, blocked>>
supervisor == <<bridge, sessions, todo>>
fixed      == <<explicit, minted>>
vars == <<explicit, file, catalog, job, node, bridge, allowed, tokens, blocked,
          sessions, todo, links, minted, faults>>

Nothing == [a \in {} |-> 0]
NoJob   == [kind |-> "none", account |-> Legacy, next |-> Nothing, moved |-> FALSE]
Done    == [plan |-> Nothing, on |-> FALSE]
States  == {"live", "ended", "closing"}
Links   == {"none", "asked", "bound", "overtaken", "late"}
Unlinked == [a \in Accounts |-> "none"]
Cut(a)   == links' = [links EXCEPT ![a] = "none"]

Without(f, a) == [b \in DOMAIN f \ {a} |-> f[b]]
With(f, a, v) == [b \in DOMAIN f \cup {a} |-> IF b = a THEN v ELSE f[b]]
SlotsOf(c)    == {c[a].slot : a \in DOMAIN c}

AllocateSlot(used) ==
    CHOOSE s \in (0 .. LastSlot) \ used : \A r \in 0 .. s - 1 : r \in used

Fallback == [a \in {Legacy} |-> [slot |-> 0, token |-> 0]]

Init ==
    /\ explicit \in BOOLEAN
    /\ file \in {"ok", "absent"} /\ (explicit => file = "ok")
    /\ minted = 1
    /\ catalog \in {Fallback, [a \in {Legacy} |-> [slot |-> 0, token |-> 1]]}
    /\ file = "absent" => catalog = Fallback
    /\ job = NoJob
    /\ node = "down" /\ bridge = "down"
    /\ allowed = {} /\ blocked = {}
    /\ tokens = [a \in Accounts |-> 0]
    /\ sessions = Nothing
    /\ todo = Done
    /\ links = Unlinked
    /\ faults = 0

-----------------------------------------------------------------------------
(* The gateway: the catalog, one write at a time, and the allowlist.        *)

\* A read of the catalog throws on a file that is broken, or is named and
\* not there; without a file there is the one account of the environment.
Readable == file = "ok" \/ (file = "absent" /\ ~explicit)
Read     == IF file = "ok" THEN catalog ELSE Fallback

Secured(c) == [a \in DOMAIN c |-> IF c[a].token # 0 THEN c[a]
                                  ELSE [c[a] EXCEPT !.token = minted + 1]]

\* The new file is complete under another name; the move takes the old one
\* away before it renames.
StartWrite(kind, a, next) ==
    /\ job = NoJob
    /\ job' = [kind |-> kind, account |-> a, next |-> next, moved |-> FALSE]
    /\ file' = "absent"

AddAccount(a) ==
    /\ node = "up" /\ Readable /\ minted < MaxTokens
    /\ a \notin DOMAIN Read
    /\ StartWrite("add", a,
         With(Secured(Read), a,
              [slot |-> AllocateSlot(SlotsOf(Read)), token |-> minted + 1]))
    /\ minted' = minted + 1
    /\ UNCHANGED <<explicit, catalog, gateway, supervisor, links, faults>>

RemoveAccount(a) ==
    /\ node = "up" /\ Readable
    /\ a \in DOMAIN Read /\ Cardinality(DOMAIN Read) > 1
    /\ StartWrite("remove", a, Without(Read, a))
    /\ UNCHANGED <<explicit, catalog, gateway, supervisor, links, minted, faults>>

Rename ==
    /\ job # NoJob /\ ~job.moved
    /\ job' = [job EXCEPT !.moved = TRUE]
    /\ file' = "ok"
    /\ catalog' = job.next
    /\ UNCHANGED <<fixed, gateway, supervisor, links, faults>>

\* The panel's handler after its write: the account added is registered with
\* every other one of the catalog, and a tombstone of an earlier life lifted.
Allow ==
    /\ job.moved /\ job.kind = "add"
    /\ allowed' = allowed \cup DOMAIN job.next
    /\ tokens' = [a \in Accounts |-> IF a \in DOMAIN job.next /\ job.next[a].token # 0
                                     THEN job.next[a].token ELSE tokens[a]]
    /\ blocked' = blocked \ {job.account}
    /\ job' = NoJob
    /\ UNCHANGED <<fixed, file, catalog, node, supervisor, links, faults>>

\* Mutant: the bridge of a removed account is left connected.
BlockOnly ==
    /\ job.moved /\ job.kind = "remove"
    /\ blocked' = blocked \cup {job.account}
    /\ job' = NoJob
    /\ UNCHANGED <<fixed, file, catalog, node, allowed, tokens, supervisor, links, faults>>

\* The account removed is blocked and the connection that is bound closed; a
\* hello that waits for its socket is bound to nothing yet and stays.
Block ==
    /\ job.moved /\ job.kind = "remove"
    /\ blocked' = blocked \cup {job.account}
    /\ links' = [links EXCEPT ![job.account] =
                   IF @ \in {"asked", "overtaken"} THEN "overtaken" ELSE "none"]
    /\ job' = NoJob
    /\ UNCHANGED <<fixed, file, catalog, node, allowed, tokens, supervisor, faults>>

Configure(c) ==
    /\ node' = "up"
    /\ allowed' = DOMAIN c
    /\ tokens' = [a \in Accounts |-> IF a \in DOMAIN c THEN c[a].token ELSE 0]
    /\ blocked' = {}

\* bootstrap: a catalog file with accounts that have no credential is written
\* again first (ensureWsTokens).
Boot ==
    /\ node = "down" /\ Readable
    /\ IF Read # Secured(Read) /\ file = "ok"
       THEN /\ minted < MaxTokens
            /\ StartWrite("tokens", Legacy, Secured(Read))
            /\ node' = "boot" /\ minted' = minted + 1
            /\ UNCHANGED <<catalog, allowed, tokens, blocked>>
       ELSE /\ Configure(Read)
            /\ catalog' = Read
            /\ UNCHANGED <<file, job, minted>>
    /\ UNCHANGED <<explicit, supervisor, links, faults>>

Booted ==
    /\ job.moved /\ job.kind = "tokens"
    /\ Configure(job.next)
    /\ job' = NoJob
    /\ UNCHANGED <<fixed, file, catalog, supervisor, links, faults>>

\* A hello carries the credential the session was built with.  Once admitted it
\* waits for createOrResumeAccount.
Hello(a) ==
    /\ node = "up" /\ a \in DOMAIN sessions /\ links[a] = "none"
    /\ sessions[a].state = "live"
    /\ tokens[a] # 0 => sessions[a].token = tokens[a]
    /\ a \in allowed
    /\ a \notin blocked
    /\ links' = [links EXCEPT ![a] = "asked"]
    /\ UNCHANGED <<fixed, file, catalog, job, gateway, supervisor, faults>>

\* The socket is there: the client is bound without a second look.
BindClient(a) ==
    /\ links[a] \in {"asked", "overtaken"}
    /\ links' = [links EXCEPT ![a] = IF @ = "asked" THEN "bound" ELSE "late"]
    /\ UNCHANGED <<fixed, file, catalog, job, gateway, supervisor, faults>>

Handshake(a) == Hello(a) \/ BindClient(a)

-----------------------------------------------------------------------------
(* The supervisor.                                                          *)

\* load_accounts raises only for a named file: one found by its place is
\* taken for absent when it is broken, and the fallback for the catalog.
Raises == explicit /\ file # "ok"

\* An account without a slot keeps the one it runs in.
Assigned(c) ==
    IF file = "ok" THEN c
    ELSE [a \in {Legacy} |->
            [slot |-> IF Legacy \in DOMAIN sessions THEN sessions[Legacy].slot ELSE 0,
             token |-> 0]]

\* Mutant: a session that has ended counts as running.
StoppedUnlessEnded(plan) ==
    {a \in DOMAIN sessions :
        \/ a \notin DOMAIN plan
        \/ plan[a].slot # sessions[a].slot}
Stopped(plan) ==
    {a \in DOMAIN sessions :
        \/ a \notin DOMAIN plan
        \/ plan[a].slot # sessions[a].slot
        \/ sessions[a].state = "ended"}

Reconcile(plan) ==
    /\ sessions' = [a \in DOMAIN sessions |->
                      IF a \in Stopped(plan) THEN [sessions[a] EXCEPT !.state = "closing"]
                      ELSE sessions[a]]
    /\ todo' = [plan |-> plan, on |-> TRUE]

BootBridge ==
    /\ bridge = "down" /\ ~Raises
    /\ bridge' = "boot"
    /\ Reconcile(Assigned(catalog))
    /\ UNCHANGED <<fixed, file, catalog, job, gateway, links, faults>>

Poll ==
    /\ bridge = "up" /\ todo = Done /\ ~Raises
    /\ Reconcile(Assigned(catalog))
    /\ UNCHANGED <<fixed, file, catalog, job, gateway, bridge, links, faults>>

\* A session that was told to stop has ended, by itself or cancelled, and has
\* given up its callback port.
Close(a) ==
    /\ a \in DOMAIN sessions /\ sessions[a].state = "closing"
    /\ sessions' = Without(sessions, a)
    /\ Cut(a)
    /\ UNCHANGED <<fixed, file, catalog, job, gateway, bridge, todo, faults>>

Closing == {a \in DOMAIN sessions : sessions[a].state = "closing"}
Waiting == IF todo.on THEN DOMAIN todo.plan \ DOMAIN sessions ELSE {}

\* build_session: its ports follow from the slot.
Built(entry) == [slot |-> entry.slot, token |-> entry.token, state |-> "live"]

Start(a) ==
    /\ Closing = {} /\ a \in Waiting
    /\ sessions' = With(sessions, a, Built(todo.plan[a]))
    /\ UNCHANGED <<fixed, file, catalog, job, gateway, bridge, todo, links, faults>>

Reconciled ==
    /\ todo.on /\ Closing = {} /\ Waiting = {}
    /\ todo' = Done
    /\ bridge' = "up"
    /\ UNCHANGED <<fixed, file, catalog, job, gateway, sessions, links, faults>>

\* The callback port is taken: what was still to start waits for the next
\* poll.  In the first reconcile this ends the bridge.
StartFails(a) ==
    /\ Closing = {} /\ a \in Waiting
    /\ faults < MaxFaults /\ faults' = faults + 1
    /\ todo' = Done
    /\ IF bridge = "boot"
       THEN bridge' = "down" /\ sessions' = Nothing /\ links' = Unlinked
       ELSE UNCHANGED <<bridge, sessions, links>>
    /\ UNCHANGED <<fixed, file, catalog, job, gateway>>

-----------------------------------------------------------------------------
(* The environment.  Nobody edits the file while the gateway writes it.     *)

Fault == faults < MaxFaults /\ faults' = faults + 1

Break ==
    /\ Fault /\ job = NoJob /\ file = "ok"
    /\ file' = "broken"
    /\ UNCHANGED <<fixed, catalog, job, gateway, supervisor, links>>

Mend ==
    /\ job = NoJob /\ (file = "broken" \/ (file = "absent" /\ explicit))
    /\ file' = "ok"
    /\ UNCHANGED <<fixed, catalog, job, gateway, supervisor, links, faults>>

SessionEnds(a) ==
    /\ Fault
    /\ a \in DOMAIN sessions /\ sessions[a].state = "live"
    /\ sessions' = [sessions EXCEPT ![a].state = "ended"]
    /\ Cut(a)
    /\ UNCHANGED <<fixed, file, catalog, job, gateway, bridge, todo>>

\* The connection is lost, or the account could not be resumed and it is closed.
Disconnect(a) ==
    /\ Fault
    /\ links[a] # "none"
    /\ Cut(a)
    /\ UNCHANGED <<fixed, file, catalog, job, gateway, supervisor>>

GatewayDies ==
    /\ Fault
    /\ node # "down"
    /\ node' = "down" /\ job' = NoJob /\ links' = Unlinked
    /\ UNCHANGED <<fixed, file, catalog, allowed, tokens, blocked, supervisor>>

BridgeDies ==
    /\ Fault
    /\ bridge # "down"
    /\ bridge' = "down" /\ sessions' = Nothing /\ todo' = Done /\ links' = Unlinked
    /\ UNCHANGED <<fixed, file, catalog, job, gateway>>

Work ==
    \/ Rename \/ Allow \/ Block \/ Booted
    \/ Poll \/ Reconciled
    \/ \E a \in Accounts : Close(a) \/ Start(a) \/ Handshake(a)

Next ==
    \/ Work \/ Boot \/ BootBridge
    \/ Break \/ Mend \/ GatewayDies \/ BridgeDies
    \/ \E a \in Accounts :
         AddAccount(a) \/ RemoveAccount(a) \/ StartFails(a) \/ SessionEnds(a)
         \/ Disconnect(a)

Fairness ==
    /\ WF_vars(Rename) /\ WF_vars(Allow \/ Block \/ Booted)
    /\ WF_vars(Poll) /\ WF_vars(Reconciled)
    /\ \A a \in Accounts :
         WF_vars(Close(a)) /\ WF_vars(Start(a)) /\ WF_vars(Handshake(a))

Spec == Init /\ [][Next]_vars /\ Fairness

-----------------------------------------------------------------------------
(* Properties.                                                              *)

TypeOK ==
    /\ explicit \in BOOLEAN /\ file \in {"ok", "absent", "broken"}
    /\ node \in {"up", "down", "boot"} /\ bridge \in {"up", "down", "boot"}
    /\ DOMAIN catalog \subseteq Accounts /\ DOMAIN sessions \subseteq Accounts
    /\ allowed \subseteq Accounts /\ blocked \subseteq Accounts
    /\ links \in [Accounts -> Links]
    /\ tokens \in [Accounts -> 0 .. MaxTokens]
    /\ \A a \in DOMAIN sessions :
         sessions[a] \in [slot : 0 .. LastSlot, token : 0 .. MaxTokens, state : States]

\* Two sessions never hold one callback port, whatever is added, removed, added
\* again or broken between two polls.
OnePort ==
    \A a, b \in DOMAIN sessions : sessions[a].slot = sessions[b].slot => a = b

\* Between two writes the handshake admits the accounts of the catalog, with
\* the credential the catalog has for each, and no other; and a removed account
\* has a connection, or waits for one, only by a hello that was admitted before
\* the removal and waited for its socket while the account was removed.
RegistryAgrees ==
    job = NoJob =>
        /\ \A a \in blocked : links[a] \in {"none", "overtaken", "late"}
        /\ node = "up" =>
             /\ allowed \ blocked = DOMAIN catalog
             /\ \A a \in DOMAIN catalog : tokens[a] = catalog[a].token

\* The supervisor's sessions come to be those of the catalog, each in its slot
\* and alive, unless the bridge is down or cannot read the catalog.
Followed ==
    /\ DOMAIN sessions = DOMAIN catalog
    /\ \A a \in DOMAIN sessions : sessions[a].state = "live" /\ sessions[a].slot = catalog[a].slot
FollowsCatalog == []<>(bridge = "down" \/ file # "ok" \/ Followed)

\* "The account becomes live without restarting Node or the Python bridge": an
\* account of the catalog gets a connection while both processes are up.
BecomesLive ==
    \A a \in Accounts :
        []<>(node # "up" \/ bridge # "up" \/ file # "ok" \/ a \notin DOMAIN catalog
             \/ links[a] \in {"bound", "late"})

\* "Existing sessions remain untouched when parsing a transient/manual invalid
\* edit fails": no poll stops a session over a file it cannot parse.
UntouchedWhenBroken ==
    [][file = "broken" =>
         \A a \in DOMAIN sessions :
            sessions[a].state = "live" /\ a \in DOMAIN sessions' => sessions'[a].state # "closing"]_vars
=============================================================================
