-------------------------- MODULE AccountLifecycle --------------------------
(***************************************************************************)
(* The WhatsApp socket of one account of the gateway: who may build it,    *)
(* who may take it away, and which of its updates count.                   *)
(*                                                                         *)
(*   createOrResumeAccount, by a bridge's hello, a pairing request or an   *)
(*     added account, shares one build per account (socketBuilds);         *)
(*   the connection listener of each socket, which must tell its own       *)
(*     socket from one that replaced it;                                   *)
(*   the control panel: reconnect, disconnect, remove and add;             *)
(*   bridge connections, bound after hello and unbound by their close.     *)
(*                                                                         *)
(* Abstractions.  Everything between two awaits is one step, and so is the *)
(* wake-up of those who wait for a build, which precedes any other event.  *)
(* An entry leaves the registry with its socket detached, so only the      *)
(* fields of the registered entry are kept; the listener of a socket       *)
(* remembers which entry it was built for.  Pairing codes, statuses sent   *)
(* to the bridge and databases are left out.  Identifiers are used again   *)
(* once nothing refers to them.                                            *)
(***************************************************************************)
EXTENDS Naturals, Sequences, FiniteSets

CONSTANTS
    Sockets,    \* WhatsApp sockets
    Entries,    \* AccountEntry objects
    Clients,    \* connections of the bridge
    None,       \* no socket, entry or client
    Operators,  \* what the control panel is used for
    Faults      \* whether a build may fail, or the request of a pairing code

ASSUME AccountAssumption ==
    /\ None \notin Sockets \cup Entries \cup Clients
    /\ Operators \subseteq {"pair", "reconnect", "disconnect", "remove"}
    /\ Faults \subseteq {"build", "code"}

VARIABLES
    entry,    \* the registered AccountEntry
    blocked,  \* the account was removed: blockedAccounts
    auth,     \* the auth folder holds registered credentials
    builds,   \* socketBuilds: the build in flight, if any
    failed,   \* history: the last build failed, or a code was refused since
    waiters,  \* hellos that wait for the build
    conn,     \* each bridge connection as the gateway sees it
    reached,  \* the connection the bridge sees, if any
    wa,       \* each WhatsApp socket
    owner,    \* the entry the listener of each socket was built for
    logout    \* how far a disconnect of the control panel got

bridgeVars == <<waiters, conn, reached>>
socketVars == <<wa, owner>>
vars == <<entry, blocked, auth, builds, failed, bridgeVars, socketVars, logout>>

-----------------------------------------------------------------------------
Statuses == {"connecting", "open", "close"}
Entry    == [id : Entries \cup {None}, sock : Sockets \cup {None}, status : Statuses,
             client : Clients \cup {None}, cooldown : BOOLEAN]
Build    == [id : Entries, creds : BOOLEAN]
LiveStates == {"new", "up", "open"}   \* "new": connecting, and not registered yet
Live(s)  == wa[s] \in LiveStates

\* An entry as getOrCreate makes it.
Blank(e) == [id |-> e, sock |-> None, status |-> "connecting", client |-> None,
             cooldown |-> FALSE]

Init ==
    /\ entry \in {Blank(e) : e \in Entries}
    /\ blocked = FALSE /\ auth \in BOOLEAN
    /\ builds = <<>> /\ failed = FALSE
    /\ waiters = <<>> /\ conn = [c \in Clients |-> "closed"] /\ reached = None
    /\ wa = [s \in Sockets |-> "none"] /\ owner = [s \in Sockets |-> None]
    /\ logout = "none"

\* getOrCreate: the registered entry, or a new one.
InUse      == {entry.id} \cup {builds[i].id : i \in DOMAIN builds}
                         \cup {owner[s] : s \in {t \in Sockets : wa[t] # "none"}}
Registered == IF entry.id # None THEN {entry}
              ELSE {Blank(e) : e \in Entries \ InUse}

Building   == builds # <<>>

NeedsBuild(e) == e.sock = None /\ ~Building /\ ~e.cooldown

\* ensureSocketBuilt: one build at a time, none while pairing cools down.
EnsureBuilt(e) ==
    builds' = IF NeedsBuild(e) THEN Append(builds, [id |-> e.id, creds |-> auth]) ELSE builds

\* The listener of a socket hears it while its entry still holds it.
Heard(s) == entry.sock = s /\ owner[s] = entry.id

-----------------------------------------------------------------------------
(* Building a socket.                                                      *)

\* The socket is bound to whatever entry is registered now, its listener to the
\* entry of the build, and every hello that waited is bound, the last one last.
FinishBuild ==
    /\ Building
    /\ \E s \in {t \in Sockets : wa[t] = "none"}, e \in Registered :
          /\ entry' = [e EXCEPT !.sock = s,
                         !.client = IF waiters = <<>> THEN @ ELSE waiters[Len(waiters)]]
          /\ wa' = [wa EXCEPT ![s] = IF Head(builds).creds THEN "up" ELSE "new"]
          /\ owner' = [owner EXCEPT ![s] = Head(builds).id]
    /\ conn' = [c \in Clients |-> IF conn[c] = "waiting" THEN "bound" ELSE conn[c]]
    /\ waiters' = <<>> /\ builds' = Tail(builds) /\ failed' = entry.cooldown
    /\ UNCHANGED <<blocked, auth, reached, logout>>

\* A build fails: hellos that waited are closed, a reconnect is only logged.
BuildFails ==
    /\ "build" \in Faults /\ Building
    /\ builds' = Tail(builds) /\ failed' = TRUE /\ waiters' = <<>>
    /\ conn' = [c \in Clients |-> IF conn[c] = "waiting" THEN "closed" ELSE conn[c]]
    /\ reached' = IF reached # None /\ conn[reached] = "waiting" THEN None ELSE reached
    /\ UNCHANGED <<entry, blocked, auth, socketVars, logout>>

-----------------------------------------------------------------------------
(* The connection listener.                                                *)

SockConnecting(s) ==
    /\ wa[s] \in {"new", "up"} /\ Heard(s) /\ entry.status # "connecting"
    /\ entry' = [entry EXCEPT !.status = "connecting"]
    /\ UNCHANGED <<blocked, auth, builds, failed, bridgeVars, socketVars, logout>>

\* creds.update saves the credentials whether or not the update is heard.
SockOpen(s) ==
    /\ wa[s] \in {"new", "up"}
    /\ wa' = [wa EXCEPT ![s] = "open"] /\ auth' = TRUE
    /\ entry' = IF Heard(s)
                THEN [entry EXCEPT !.status = "open", !.cooldown = FALSE] ELSE entry
    /\ UNCHANGED <<blocked, builds, failed, bridgeVars, owner, logout>>

\* A close that is heard takes the socket away; then a first pairing cools down,
\* a closed connection is rebuilt and a logged-out one loses its credentials.
HandleClose(s, reason) ==
    LET closed == [entry EXCEPT !.status = "close", !.sock = None]
    IN  \/ /\ reason = "pairing" /\ entry' = [closed EXCEPT !.cooldown = TRUE]
           /\ auth' \in {auth, FALSE} /\ UNCHANGED builds
        \/ /\ reason = "network" /\ entry' = closed
           /\ EnsureBuilt(closed) /\ UNCHANGED auth
        \/ /\ reason = "loggedOut" /\ entry' = closed /\ auth' = FALSE
           /\ UNCHANGED builds

\* Mutant: the listener does not look whether its socket was replaced.
OnCloseUnguarded(s, reason) ==
    IF entry.id # None /\ owner[s] = entry.id THEN HandleClose(s, reason)
    ELSE UNCHANGED <<entry, auth, builds>>

\* Mutant: the rebuild is asked for before the closed socket is let go.
OnCloseEarly(s, reason) ==
    IF Heard(s)
    THEN /\ entry' = [entry EXCEPT !.status = "close", !.sock = None]
         /\ EnsureBuilt(entry) /\ auth' = (auth /\ reason # "loggedOut")
    ELSE UNCHANGED <<entry, auth, builds>>

OnClose(s, reason) ==
    IF Heard(s) THEN HandleClose(s, reason) ELSE UNCHANGED <<entry, auth, builds>>

SockClose(s, reason) ==
    /\ Live(s) /\ (reason = "pairing" => wa[s] = "new")
    /\ wa' = [wa EXCEPT ![s] = "none"]
    /\ OnClose(s, reason)
    /\ UNCHANGED <<blocked, failed, bridgeVars, owner, logout>>

\* A socket the gateway has ended still delivers its close.
LateClose(s, reason) ==
    /\ wa[s] = "ended" /\ reason # "pairing"
    /\ wa' = [wa EXCEPT ![s] = "none"]
    /\ OnClose(s, reason)
    /\ UNCHANGED <<blocked, failed, bridgeVars, owner, logout>>

\* A pairing code is refused: the entry cools down, whichever socket it holds now.
CodeRefused(s) ==
    /\ "code" \in Faults /\ wa[s] \in {"new", "ended"}
    /\ entry.id # None /\ ~entry.cooldown /\ owner[s] = entry.id
    /\ entry' = [entry EXCEPT !.cooldown = TRUE] /\ failed' = TRUE
    /\ UNCHANGED <<blocked, auth, builds, bridgeVars, socketVars, logout>>

CooldownEnds ==
    /\ entry.cooldown /\ entry' = [entry EXCEPT !.cooldown = FALSE]
    /\ UNCHANGED <<blocked, auth, builds, failed, bridgeVars, socketVars, logout>>

-----------------------------------------------------------------------------
(* The control panel.                                                      *)

\* Mutant: a detached entry keeps its status.
DetachedOpen == [entry EXCEPT !.sock = None, !.cooldown = FALSE]

\* detachSocket, by an operation that also ends a pairing cooldown.
Detached == [entry EXCEPT !.sock = None, !.status = "close", !.cooldown = FALSE]

\* The socket the entry held, if it lives, is in the state given from now on.
Part(state) ==
    wa' = [s \in Sockets |-> IF s = entry.sock /\ Live(s) THEN state ELSE wa[s]]

Pair ==
    /\ "pair" \in Operators /\ entry.id # None /\ entry.status # "open"
    /\ NeedsBuild(entry) /\ EnsureBuilt(entry)
    /\ UNCHANGED <<entry, blocked, auth, failed, bridgeVars, socketVars, logout>>

Reconnect ==
    /\ "reconnect" \in Operators /\ entry.id # None
    /\ entry' = Detached /\ Part("ended") /\ EnsureBuilt(Detached)
    /\ UNCHANGED <<blocked, auth, failed, bridgeVars, owner, logout>>

\* disconnectAccount: the socket logs out, for 10 s at most; a socket that is
\* already closed refuses at once.
Disconnect ==
    /\ "disconnect" \in Operators /\ entry.id # None /\ logout = "none"
    /\ entry' = Detached /\ Part("leaving")
    /\ logout' = IF entry.sock # None /\ Live(entry.sock) THEN "asked" ELSE "left"
    /\ UNCHANGED <<blocked, auth, builds, failed, bridgeVars, owner>>

LogoutEnds ==
    /\ logout = "asked" /\ logout' = "left"
    /\ wa' = [s \in Sockets |-> IF wa[s] = "leaving" THEN "ended" ELSE wa[s]]
    /\ UNCHANGED <<entry, blocked, auth, builds, failed, bridgeVars, owner>>

\* The auth folder is emptied and the bridge is told: sendReliableToClient.
AuthEmptied ==
    /\ logout = "left" /\ logout' = "none" /\ auth' = FALSE
    /\ entry' \in Registered
    /\ UNCHANGED <<blocked, builds, failed, bridgeVars, socketVars>>

\* An account is removed: its entry is forgotten, its bridge closed.
Remove ==
    /\ "remove" \in Operators /\ entry.id # None /\ ~blocked
    /\ blocked' = TRUE /\ entry' = Blank(None) /\ Part("ended")
    /\ conn' = [c \in Clients |-> IF c = entry.client THEN "closed" ELSE conn[c]]
    /\ reached' = IF reached = entry.client THEN None ELSE reached
    /\ UNCHANGED <<auth, builds, failed, waiters, owner, logout>>

\* A removed account is added again, and asks for a pairing code.
Add ==
    /\ blocked /\ blocked' = FALSE
    /\ \E e \in Registered : entry' = e /\ EnsureBuilt(e)
    /\ UNCHANGED <<auth, failed, bridgeVars, socketVars, logout>>

-----------------------------------------------------------------------------
(* Connections of the bridge.                                              *)

\* The bridge waits before it reconnects, and by then an earlier hello was read.
BridgeConnect(c) ==
    /\ reached = None /\ conn[c] = "closed" /\ entry.client # c
    /\ \A i \in DOMAIN waiters : waiters[i] # c
    /\ \A d \in Clients : conn[d] # "open"
    /\ conn' = [conn EXCEPT ![c] = "open"] /\ reached' = c
    /\ UNCHANGED <<entry, blocked, auth, builds, failed, waiters, socketVars, logout>>

BridgeLoses ==
    /\ reached # None /\ reached' = None
    /\ UNCHANGED <<entry, blocked, auth, builds, failed, waiters, conn, socketVars, logout>>

\* handleHello: a removed account is refused; otherwise the client is bound once
\* the account has a socket, or cannot have one now.
Refused(c) ==
    /\ blocked
    /\ conn' = [conn EXCEPT ![c] = "closed"]
    /\ reached' = IF reached = c THEN None ELSE reached
    /\ UNCHANGED <<entry, builds, waiters>>

Welcomed(c) ==
    /\ ~blocked
    /\ \E e \in Registered :
          /\ EnsureBuilt(e)
          /\ IF e.sock = None /\ (Building \/ NeedsBuild(e))
             THEN /\ entry' = e
                  /\ conn' = [conn EXCEPT ![c] = "waiting"]
                  /\ waiters' = Append(waiters, c)
             ELSE /\ entry' = [e EXCEPT !.client = c]
                  /\ conn' = [conn EXCEPT ![c] = "bound"]
                  /\ UNCHANGED waiters
    /\ UNCHANGED reached

ReadHello(c) ==
    /\ conn[c] = "open"
    /\ Refused(c) \/ Welcomed(c)
    /\ UNCHANGED <<blocked, auth, failed, socketVars, logout>>

\* Mutant: the close of any connection unbinds the client.
UnboundAny(c) == [entry EXCEPT !.client = None]

\* unbindClient: only the client that is bound is unbound by its close.
Unbound(c) == IF entry.client = c THEN [entry EXCEPT !.client = None] ELSE entry

\* The gateway sees that a connection is gone; its hello was read before that.
NodeCloses(c) ==
    /\ reached # c /\ conn[c] \in {"waiting", "bound"}
    /\ conn' = [conn EXCEPT ![c] = "closed"]
    /\ entry' = IF conn[c] = "bound" THEN Unbound(c) ELSE entry
    /\ UNCHANGED <<blocked, auth, builds, failed, waiters, reached, socketVars, logout>>

-----------------------------------------------------------------------------
Reasons     == {"pairing", "network", "loggedOut"}
WhatsApp(s) == \/ SockConnecting(s) \/ SockOpen(s) \/ CodeRefused(s)
               \/ \E r \in Reasons : SockClose(s, r) \/ LateClose(s, r)
Panel       == \/ Pair \/ Reconnect \/ Disconnect \/ LogoutEnds \/ AuthEmptied
               \/ Remove \/ Add
Bridge      == \/ BridgeLoses
               \/ \E c \in Clients : BridgeConnect(c) \/ ReadHello(c) \/ NodeCloses(c)

Next == \/ FinishBuild \/ BuildFails \/ CooldownEnds \/ Panel \/ Bridge
        \/ \E s \in Sockets : WhatsApp(s)

Spec == Init /\ [][Next]_vars

\* Builds and logouts end, queued updates are delivered, the bridge's supervisor
\* reconnects and what it sends is read.
Fairness ==
    /\ WF_vars(FinishBuild) /\ WF_vars(LogoutEnds) /\ WF_vars(AuthEmptied)
    /\ WF_vars(\E c \in Clients : BridgeConnect(c))
    /\ \A c \in Clients : WF_vars(ReadHello(c)) /\ WF_vars(NodeCloses(c))
    /\ \A s \in Sockets : WF_vars(\E r \in Reasons : LateClose(s, r))

FairSpec == Spec /\ Fairness

-----------------------------------------------------------------------------
TypeOK ==
    /\ entry \in Entry
    /\ blocked \in BOOLEAN /\ auth \in BOOLEAN /\ failed \in BOOLEAN
    /\ builds \in Seq(Build)
    /\ waiters \in Seq(Clients)
    /\ conn \in [Clients -> {"open", "waiting", "bound", "closed"}]
    /\ reached \in Clients \cup {None}
    /\ wa \in [Sockets -> {"none", "leaving", "ended"} \cup LiveStates]
    /\ owner \in [Sockets -> Entries \cup {None}]
    /\ logout \in {"none", "asked", "left"}

\* A socket that lives, and is not logging out, is the one the registry holds: no
\* update, reconnect, disconnect, removal or pair of hellos leaves a second one
\* running, or one nobody can end.
LiveSocketIsBound ==
    \A s \in Sockets : Live(s) => entry.id # None /\ entry.sock = s

\* However many ask at once, after a close, a failure or a cooldown, one build
\* runs, and none beside a socket.
OneBuild == Len(builds) <= IF entry.sock = None THEN 1 ELSE 0

\* The status the dispatcher's readiness gate reads is open only while the socket
\* that is bound is open.
StatusIsTrue ==
    entry.status = "open" => entry.sock # None /\ wa[entry.sock] = "open"

\* The connection the bridge is using stays bound, whenever the gateway notices
\* that an older one is gone.
NewestIsBound ==
    reached # None /\ conn[reached] = "bound" => entry.client = reached

\* An account with credentials that has lost its socket gets another one without
\* help, unless the build itself fails or a refused pairing code stands in its way.
Down == /\ entry.id # None /\ ~blocked /\ auth /\ ~failed
        /\ entry.sock = None /\ ~entry.cooldown
Rebuilt == Down ~> ~Down

\* "The tombstone prevents that reconnect from recreating the tenant after the
\* operator removed it" (accountRegistry.ts:45-48): no reconnect of the bridge
\* binds a client to an account that is removed.
NoResurrection == blocked => entry.client = None
=============================================================================
