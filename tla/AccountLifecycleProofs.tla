----------------------- MODULE AccountLifecycleProofs -----------------------
(***************************************************************************)
(* Theorems of AccountLifecycle for any sockets, entries, bridge           *)
(* connections, operators and faults.                                      *)
(***************************************************************************)
EXTENDS AccountLifecycle, SequenceTheorems, TLAPS

\* LiveSocketIsBound is not inductive: a finished build registers its socket in
\* place of the one the entry held, so there must be none, which OneBuild says;
\* and a new entry holds none, so an account that is not registered must not.
SocketInv ==
    /\ LiveSocketIsBound
    /\ OneBuild
    /\ entry.id = None => entry.sock = None

LEMMA NoneApart == None \notin Sockets /\ None \notin Entries
  BY AccountAssumption

\* Adding a build, and taking the first one.
LEMMA BuildQueue ==
    ASSUME NEW q \in Seq(Build)
    PROVE  /\ Len(q) \in Nat
           /\ q # <<>> => /\ Head(q) \in Build /\ Tail(q) \in Seq(Build)
                          /\ Len(q) >= 1 /\ Len(Tail(q)) = Len(q) - 1
           /\ \A b \in Build : Append(q, b) \in Seq(Build) /\ Len(Append(q, b)) = Len(q) + 1
  OBVIOUS

LEMMA BlankEntry ==
    ASSUME NEW x \in Entries \cup {None}
    PROVE  Blank(x) \in Entry /\ Blank(x).id = x /\ Blank(x).sock = None
  BY DEF Blank, Entry, Statuses

\* getOrCreate returns an entry, which is the registered one or holds no socket.
LEMMA RegisteredEntry ==
    ASSUME TypeOK, NEW e \in Registered
    PROVE  /\ e \in Entry /\ e.id \in Entries
           /\ entry.id # None => e = entry
           /\ entry.id = None => e.sock = None
<1>1. CASE entry.id # None
  BY <1>1 DEF TypeOK, Registered, Entry
<1>2. CASE entry.id = None
  <2>1. PICK x \in Entries : e = Blank(x)
    BY <1>2 DEF Registered
  <2> QED BY <1>2, <2>1, BlankEntry
<1> QED BY <1>1, <1>2

-----------------------------------------------------------------------------
(* The types.                                                              *)

LEMMA InitTypes == Init => TypeOK
<1> SUFFICES ASSUME Init PROVE TypeOK
  OBVIOUS
<1>1. entry \in Entry
  BY BlankEntry DEF Init
<1>2. builds \in Seq(Build) /\ waiters \in Seq(Clients)
  BY DEF Init
<1> QED BY <1>1, <1>2 DEF Init, TypeOK

\* Asking for a socket adds a well-formed build at most.
LEMMA EnsureTypes ==
    ASSUME TypeOK, NEW e, e.id \in Entries, EnsureBuilt(e)
    PROVE  builds' \in Seq(Build)
<1>1. [id |-> e.id, creds |-> auth] \in Build
  BY DEF TypeOK, Build
<1> QED BY <1>1, BuildQueue DEF EnsureBuilt, TypeOK

\* A detached entry is well formed, and so are the sockets after it.
LEMMA DetachTypes ==
    ASSUME TypeOK
    PROVE  /\ Detached \in Entry /\ Detached.id = entry.id /\ Detached.sock = None
           /\ \A state \in {"leaving", "ended"} :
                 Part(state) => wa' \in [Sockets -> {"none", "leaving", "ended"} \cup LiveStates]
  BY DEF TypeOK, Detached, Entry, Statuses, Part

LEMMA BuildTypes == TypeOK /\ (FinishBuild \/ BuildFails \/ CooldownEnds) => TypeOK'
<1> SUFFICES ASSUME TypeOK, FinishBuild \/ BuildFails \/ CooldownEnds PROVE TypeOK'
  OBVIOUS
<1>1. CASE FinishBuild
  <2>1. PICK s \in Sockets, e \in Registered :
           /\ entry' = [e EXCEPT !.sock = s,
                           !.client = IF waiters = <<>> THEN @ ELSE waiters[Len(waiters)]]
           /\ wa' = [wa EXCEPT ![s] = IF Head(builds).creds THEN "up" ELSE "new"]
           /\ owner' = [owner EXCEPT ![s] = Head(builds).id]
    BY <1>1 DEF FinishBuild
  <2>2. Head(builds) \in Build /\ Tail(builds) \in Seq(Build)
    BY <1>1, BuildQueue DEF FinishBuild, Building, TypeOK
  <2>3. waiters # <<>> => waiters[Len(waiters)] \in Clients
    BY DEF TypeOK
  <2>4. entry' \in Entry
    BY <2>1, <2>3, RegisteredEntry DEF Entry
  <2>5. /\ wa' \in [Sockets -> {"none", "leaving", "ended"} \cup LiveStates]
        /\ owner' \in [Sockets -> Entries \cup {None}]
    BY <2>1, <2>2 DEF TypeOK, LiveStates, Build
  <2>6. failed' \in BOOLEAN
    BY <1>1 DEF FinishBuild, TypeOK, Entry
  <2>7. conn' \in [Clients -> {"open", "waiting", "bound", "closed"}]
    BY <1>1 DEF FinishBuild, TypeOK
  <2>8. waiters' \in Seq(Clients) /\ builds' \in Seq(Build)
    <3>1. <<>> \in Seq(Clients)
      OBVIOUS
    <3> QED BY <1>1, <2>2, <3>1 DEF FinishBuild
  <2> QED BY <1>1, <2>4, <2>5, <2>6, <2>7, <2>8 DEF FinishBuild, TypeOK
<1>2. CASE BuildFails
  <2>1. builds' \in Seq(Build) /\ failed' \in BOOLEAN
    BY <1>2, BuildQueue DEF BuildFails, Building, TypeOK
  <2>2. waiters' \in Seq(Clients)
    <3>1. <<>> \in Seq(Clients)
      OBVIOUS
    <3> QED BY <1>2, <3>1 DEF BuildFails
  <2>3. /\ conn' \in [Clients -> {"open", "waiting", "bound", "closed"}]
        /\ reached' \in Clients \cup {None}
    BY <1>2 DEF BuildFails, TypeOK
  <2> QED BY <1>2, <2>1, <2>2, <2>3 DEF BuildFails, TypeOK, socketVars
<1>3. CASE CooldownEnds
  BY <1>3 DEF CooldownEnds, TypeOK, Entry, bridgeVars, socketVars
<1> QED BY <1>1, <1>2, <1>3

LEMMA CloseTypes ==
    ASSUME TypeOK, SocketInv, NEW s \in Sockets, NEW reason, OnClose(s, reason)
    PROVE  entry' \in Entry /\ builds' \in Seq(Build) /\ auth' \in BOOLEAN
<1>1. CASE Heard(s)
  <2> DEFINE closed == [entry EXCEPT !.status = "close", !.sock = None]
  <2>1. /\ closed \in Entry /\ closed.id = entry.id
        /\ [closed EXCEPT !.cooldown = TRUE] \in Entry
    BY DEF TypeOK, Entry, Statuses
  <2>2. HandleClose(s, reason)
    BY <1>1 DEF OnClose
  <2>3. entry' \in Entry /\ auth' \in BOOLEAN
    BY <2>1, <2>2 DEF HandleClose, TypeOK
  <2>4. builds' = builds \/ EnsureBuilt(closed)
    BY <2>2 DEF HandleClose
  <2>5. EnsureBuilt(closed) => builds' \in Seq(Build)
    <3>1. entry.id \in Entries
      BY <1>1, NoneApart DEF Heard, SocketInv, TypeOK, Entry
    <3> QED BY <2>1, <3>1, EnsureTypes
  <2> QED BY <2>3, <2>4, <2>5 DEF TypeOK
<1>2. CASE ~Heard(s)
  BY <1>2 DEF OnClose, TypeOK
<1> QED BY <1>1, <1>2

LEMMA WhatsAppTypes ==
    ASSUME TypeOK, SocketInv, NEW s \in Sockets, WhatsApp(s)
    PROVE  TypeOK'
<1>1. CASE SockConnecting(s)
  BY <1>1 DEF SockConnecting, TypeOK, Entry, Statuses, bridgeVars, socketVars
<1>2. CASE SockOpen(s)
  <2>1. entry' \in Entry
    BY <1>2 DEF SockOpen, TypeOK, Entry, Statuses
  <2>2. wa' \in [Sockets -> {"none", "leaving", "ended"} \cup LiveStates]
    BY <1>2 DEF SockOpen, TypeOK, LiveStates
  <2> QED BY <1>2, <2>1, <2>2 DEF SockOpen, TypeOK, bridgeVars
<1>3. CASE \E r \in Reasons : SockClose(s, r) \/ LateClose(s, r)
  <2>1. PICK r \in Reasons : SockClose(s, r) \/ LateClose(s, r)
    BY <1>3
  <2>2. OnClose(s, r) /\ wa' = [wa EXCEPT ![s] = "none"]
    BY <2>1 DEF SockClose, LateClose
  <2>3. UNCHANGED <<blocked, failed, bridgeVars, owner, logout>>
    BY <2>1 DEF SockClose, LateClose
  <2>4. entry' \in Entry /\ builds' \in Seq(Build) /\ auth' \in BOOLEAN
    BY <2>2, CloseTypes
  <2> QED BY <2>2, <2>3, <2>4 DEF TypeOK, bridgeVars
<1>4. CASE CodeRefused(s)
  BY <1>4 DEF CodeRefused, TypeOK, Entry, bridgeVars, socketVars
<1> QED BY <1>1, <1>2, <1>3, <1>4 DEF WhatsApp

LEMMA PanelTypes == TypeOK /\ Panel => TypeOK'
<1> SUFFICES ASSUME TypeOK, Panel PROVE TypeOK'
  OBVIOUS
<1>1. CASE Pair
  <2>1. builds' \in Seq(Build)
    <3>1. entry.id \in Entries
      BY <1>1 DEF Pair, TypeOK, Entry
    <3> QED BY <1>1, <3>1, EnsureTypes DEF Pair
  <2> QED BY <1>1, <2>1 DEF Pair, TypeOK, bridgeVars, socketVars
<1>2. CASE Reconnect
  <2>1. builds' \in Seq(Build)
    <3>1. Detached.id \in Entries
      BY <1>2, DetachTypes DEF Reconnect, TypeOK, Entry
    <3> QED BY <1>2, <3>1, EnsureTypes DEF Reconnect
  <2> QED BY <1>2, <2>1, DetachTypes DEF Reconnect, TypeOK, bridgeVars
<1>3. CASE Disconnect
  BY <1>3, DetachTypes DEF Disconnect, TypeOK, bridgeVars
<1>4. CASE LogoutEnds
  <2>1. wa' \in [Sockets -> {"none", "leaving", "ended"} \cup LiveStates]
    BY <1>4 DEF LogoutEnds, TypeOK
  <2> QED BY <1>4, <2>1 DEF LogoutEnds, TypeOK, bridgeVars
<1>5. CASE AuthEmptied
  BY <1>5, RegisteredEntry DEF AuthEmptied, TypeOK, bridgeVars, socketVars
<1>6. CASE Remove
  <2>1. entry' \in Entry
    BY <1>6, BlankEntry DEF Remove
  <2>2. /\ conn' \in [Clients -> {"open", "waiting", "bound", "closed"}]
        /\ reached' \in Clients \cup {None}
    BY <1>6 DEF Remove, TypeOK
  <2> QED BY <1>6, <2>1, <2>2, DetachTypes DEF Remove, TypeOK
<1>7. CASE Add
  <2>1. PICK e \in Registered : entry' = e /\ EnsureBuilt(e)
    BY <1>7 DEF Add
  <2>2. entry' \in Entry /\ builds' \in Seq(Build)
    BY <2>1, RegisteredEntry, EnsureTypes
  <2> QED BY <1>7, <2>2 DEF Add, TypeOK, bridgeVars, socketVars
<1> QED BY <1>1, <1>2, <1>3, <1>4, <1>5, <1>6, <1>7 DEF Panel

LEMMA BridgeTypes == TypeOK /\ Bridge => TypeOK'
<1> SUFFICES ASSUME TypeOK, Bridge PROVE TypeOK'
  OBVIOUS
<1>1. CASE BridgeLoses
  BY <1>1 DEF BridgeLoses, TypeOK, socketVars
<1>2. ASSUME NEW c \in Clients, BridgeConnect(c) PROVE TypeOK'
  BY <1>2 DEF BridgeConnect, TypeOK, socketVars
<1>3. ASSUME NEW c \in Clients, ReadHello(c) PROVE TypeOK'
  <2>1. CASE Refused(c)
    BY <1>3, <2>1 DEF ReadHello, Refused, TypeOK, socketVars
  <2>2. CASE Welcomed(c)
    <3>1. PICK e \in Registered :
             /\ EnsureBuilt(e)
             /\ entry' = e \/ entry' = [e EXCEPT !.client = c]
             /\ conn' = [conn EXCEPT ![c] = "waiting"] \/ conn' = [conn EXCEPT ![c] = "bound"]
             /\ waiters' = Append(waiters, c) \/ waiters' = waiters
      BY <2>2 DEF Welcomed
    <3>2. entry' \in Entry /\ builds' \in Seq(Build)
      BY <3>1, RegisteredEntry, EnsureTypes DEF Entry
    <3>3. waiters' \in Seq(Clients)
      <4>1. waiters \in Seq(Clients)
        BY DEF TypeOK
      <4>2. Append(waiters, c) \in Seq(Clients)
        BY <4>1
      <4> QED BY <3>1, <4>1, <4>2
    <3>4. conn' \in [Clients -> {"open", "waiting", "bound", "closed"}]
      BY <3>1 DEF TypeOK
    <3> QED BY <1>3, <2>2, <3>2, <3>3, <3>4 DEF ReadHello, Welcomed, TypeOK, socketVars
  <2> QED BY <1>3, <2>1, <2>2 DEF ReadHello
<1>4. ASSUME NEW c \in Clients, NodeCloses(c) PROVE TypeOK'
  <2>1. entry' \in Entry
    BY <1>4 DEF NodeCloses, Unbound, TypeOK, Entry
  <2> QED BY <1>4, <2>1 DEF NodeCloses, TypeOK, socketVars
<1> QED BY <1>1, <1>2, <1>3, <1>4 DEF Bridge

LEMMA StepTypes == TypeOK /\ SocketInv /\ [Next]_vars => TypeOK'
<1> SUFFICES ASSUME TypeOK, SocketInv, [Next]_vars PROVE TypeOK'
  OBVIOUS
<1>1. CASE UNCHANGED vars
  BY <1>1 DEF vars, bridgeVars, socketVars, TypeOK
<1> QED BY <1>1, BuildTypes, PanelTypes, BridgeTypes, WhatsAppTypes DEF Next

-----------------------------------------------------------------------------
(* The sockets.                                                            *)

LEMMA InitSockets == Init => SocketInv
<1> SUFFICES ASSUME Init PROVE SocketInv
  OBVIOUS
<1>1. entry.id \in Entries /\ entry.sock = None
  BY BlankEntry DEF Init
<1>2. LiveSocketIsBound
  BY DEF Init, LiveSocketIsBound, Live, LiveStates
<1>3. OneBuild
  BY <1>1 DEF Init, OneBuild
<1> QED BY <1>1, <1>2, <1>3 DEF SocketInv

\* The entry keeps its socket and no socket comes to life.
LEMMA SocketStays ==
    ASSUME SocketInv, OneBuild',
           entry'.sock = entry.sock, entry'.id = None => entry.id = None,
           \A s \in Sockets : wa'[s] \in LiveStates => wa[s] \in LiveStates
    PROVE  SocketInv'
  BY DEF SocketInv, LiveSocketIsBound, Live

\* The entry lets its socket go, which is dead, and no socket comes to life.
LEMMA SocketGoes ==
    ASSUME SocketInv, OneBuild', entry'.sock = None,
           \A s \in Sockets : wa'[s] \in LiveStates => wa[s] \in LiveStates /\ s # entry.sock
    PROVE  SocketInv'
  BY DEF SocketInv, LiveSocketIsBound, Live

\* A socket that came to an end is live no more; the others are as they were.
LEMMA SocketEnds ==
    ASSUME TypeOK, NEW s \in Sockets, wa' = [wa EXCEPT ![s] = "none"]
    PROVE  \A t \in Sockets : wa'[t] \in LiveStates => wa[t] \in LiveStates /\ t # s
  BY DEF TypeOK, LiveStates

\* A detached socket is live no more.
LEMMA SocketParts ==
    ASSUME TypeOK, NEW state \in {"leaving", "ended"}, Part(state)
    PROVE  \A t \in Sockets : wa'[t] \in LiveStates => wa[t] \in LiveStates /\ t # entry.sock
  BY DEF TypeOK, Part, Live, LiveStates

\* A build is started only for an entry without a socket, and only alone.
LEMMA EnsuresOne ==
    ASSUME TypeOK, NEW e, e.id \in Entries, EnsureBuilt(e),
           Len(builds) <= IF e.sock = None THEN 1 ELSE 0
    PROVE  Len(builds') <= IF e.sock = None THEN 1 ELSE 0
<1>1. CASE NeedsBuild(e)
  <2>1. Len(builds) = 0 /\ e.sock = None
    BY <1>1 DEF NeedsBuild, Building
  <2>2. [id |-> e.id, creds |-> auth] \in Build
    BY DEF TypeOK, Build
  <2>3. Len(builds') = 1
    BY <1>1, <2>1, <2>2, BuildQueue DEF EnsureBuilt, TypeOK
  <2> QED BY <2>1, <2>3
<1>2. CASE ~NeedsBuild(e)
  BY <1>2 DEF EnsureBuilt
<1> QED BY <1>1, <1>2

\* A build in flight is the only one.
LEMMA LastBuild ==
    ASSUME NEW n \in Nat, NEW m, NEW free \in BOOLEAN, n >= 1, m = n - 1,
           n <= IF free THEN 1 ELSE 0
    PROVE  n = 1 /\ m = 0 /\ free
<1>1. CASE free
  BY <1>1
<1>2. CASE ~free
  BY <1>2
<1> QED BY <1>1, <1>2

\* No build in flight is no build too many.
LEMMA NoBuilds == Len(builds') = 0 => OneBuild'
<1> SUFFICES ASSUME Len(builds') = 0 PROVE OneBuild'
  OBVIOUS
<1>1. CASE entry'.sock = None
  BY <1>1 DEF OneBuild
<1>2. CASE entry'.sock # None
  BY <1>2 DEF OneBuild
<1> QED BY <1>1, <1>2

LEMMA BuildSockets == TypeOK /\ SocketInv /\ (FinishBuild \/ BuildFails \/ CooldownEnds) => SocketInv'
<1> SUFFICES ASSUME TypeOK, SocketInv, FinishBuild \/ BuildFails \/ CooldownEnds PROVE SocketInv'
  OBVIOUS
<1>1. CASE FinishBuild
  <2>1. Len(builds) = 1 /\ entry.sock = None /\ Len(Tail(builds)) = 0
    <3>1. builds \in Seq(Build) /\ builds # <<>>
      BY <1>1 DEF FinishBuild, Building, TypeOK
    <3>2. Len(builds) \in Nat /\ Len(builds) >= 1 /\ Len(Tail(builds)) = Len(builds) - 1
      BY <3>1, BuildQueue
    <3>3. Len(builds) <= IF entry.sock = None THEN 1 ELSE 0
      BY DEF SocketInv, OneBuild
    <3> QED BY <3>2, <3>3, LastBuild
  <2>2. PICK s \in Sockets, e \in Registered :
           /\ entry' = [e EXCEPT !.sock = s,
                           !.client = IF waiters = <<>> THEN @ ELSE waiters[Len(waiters)]]
           /\ wa' = [wa EXCEPT ![s] = IF Head(builds).creds THEN "up" ELSE "new"]
    BY <1>1 DEF FinishBuild
  <2>3. entry'.sock = s /\ entry'.id \in Entries
    BY <2>2, RegisteredEntry DEF Entry
  <2>4. \A t \in Sockets : wa[t] \notin LiveStates
    BY <2>1, NoneApart DEF SocketInv, LiveSocketIsBound, Live
  <2>5. LiveSocketIsBound'
    BY <2>2, <2>3, <2>4, NoneApart DEF LiveSocketIsBound, Live, TypeOK
  <2>6. OneBuild'
    BY <1>1, <2>1, NoBuilds DEF FinishBuild
  <2> QED BY <2>3, <2>5, <2>6, NoneApart DEF SocketInv
<1>2. CASE BuildFails
  <2>1. OneBuild'
    <3>1. builds \in Seq(Build) /\ builds # <<>>
      BY <1>2 DEF BuildFails, Building, TypeOK
    <3>2. Len(builds) \in Nat /\ Len(builds) >= 1 /\ Len(Tail(builds)) = Len(builds) - 1
      BY <3>1, BuildQueue
    <3>3. builds' = Tail(builds) /\ entry' = entry
      BY <1>2 DEF BuildFails
    <3>4. Len(builds) <= IF entry.sock = None THEN 1 ELSE 0
      BY DEF SocketInv, OneBuild
    <3>5. Len(Tail(builds)) = 0 /\ entry.sock = None
      BY <3>2, <3>4, LastBuild
    <3> QED BY <3>3, <3>5, NoBuilds
  <2> QED BY <1>2, <2>1, SocketStays DEF BuildFails, socketVars
<1>3. CASE CooldownEnds
  <2>1. entry'.sock = entry.sock /\ entry'.id = entry.id
    BY <1>3 DEF CooldownEnds, TypeOK, Entry
  <2>2. builds' = builds /\ wa' = wa
    BY <1>3 DEF CooldownEnds, socketVars
  <2> QED BY <2>1, <2>2, SocketStays DEF SocketInv, OneBuild
<1> QED BY <1>1, <1>2, <1>3

LEMMA CloseSockets ==
    ASSUME TypeOK, SocketInv, NEW s \in Sockets, NEW reason,
           OnClose(s, reason), wa' = [wa EXCEPT ![s] = "none"]
    PROVE  SocketInv'
<1>1. CASE Heard(s)
  <2> DEFINE closed == [entry EXCEPT !.status = "close", !.sock = None]
  <2>1. entry.id \in Entries /\ entry.sock = s
    BY <1>1, NoneApart DEF Heard, SocketInv, TypeOK, Entry
  <2>2. closed.id = entry.id /\ closed.sock = None
    BY DEF TypeOK, Entry
  <2>3. HandleClose(s, reason)
    BY <1>1 DEF OnClose
  <2>4. entry'.sock = None
    BY <2>3 DEF HandleClose, TypeOK, Entry
  <2>5. builds' = builds \/ EnsureBuilt(closed)
    BY <2>3 DEF HandleClose
  <2>6. Len(builds) <= 1
    BY BuildQueue DEF SocketInv, OneBuild, TypeOK
  <2>7. Len(builds') <= 1
    <3> HIDE DEF closed
    <3> QED BY <2>1, <2>2, <2>5, <2>6, EnsuresOne
  <2>8. OneBuild'
    BY <2>4, <2>7 DEF OneBuild
  <2> QED BY <2>1, <2>4, <2>8, SocketEnds, SocketGoes
<1>2. CASE ~Heard(s)
  <2>1. entry' = entry /\ builds' = builds
    BY <1>2 DEF OnClose
  <2> QED BY <2>1, SocketEnds, SocketStays DEF SocketInv, OneBuild
<1> QED BY <1>1, <1>2

LEMMA WhatsAppSockets ==
    ASSUME TypeOK, SocketInv, NEW s \in Sockets, WhatsApp(s)
    PROVE  SocketInv'
<1>1. CASE SockConnecting(s) \/ CodeRefused(s)
  <2>1. entry'.sock = entry.sock /\ entry'.id = entry.id
    BY <1>1 DEF SockConnecting, CodeRefused, TypeOK, Entry
  <2>2. builds' = builds /\ wa' = wa
    BY <1>1 DEF SockConnecting, CodeRefused, socketVars
  <2> QED BY <2>1, <2>2, SocketStays DEF SocketInv, OneBuild
<1>2. CASE SockOpen(s)
  <2>1. entry'.sock = entry.sock /\ entry'.id = entry.id
    BY <1>2 DEF SockOpen, TypeOK, Entry
  <2>2. builds' = builds /\ \A t \in Sockets : wa'[t] \in LiveStates => wa[t] \in LiveStates
    BY <1>2 DEF SockOpen, TypeOK, LiveStates
  <2> QED BY <2>1, <2>2, SocketStays DEF SocketInv, OneBuild
<1>3. CASE \E r \in Reasons : SockClose(s, r) \/ LateClose(s, r)
  <2>1. PICK r \in Reasons : SockClose(s, r) \/ LateClose(s, r)
    BY <1>3
  <2>2. OnClose(s, r) /\ wa' = [wa EXCEPT ![s] = "none"]
    BY <2>1 DEF SockClose, LateClose
  <2> QED BY <2>2, CloseSockets
<1> QED BY <1>1, <1>2, <1>3 DEF WhatsApp

LEMMA PanelSockets == TypeOK /\ SocketInv /\ Panel => SocketInv'
<1> SUFFICES ASSUME TypeOK, SocketInv, Panel PROVE SocketInv'
  OBVIOUS
<1>0. Len(builds) <= 1
  BY BuildQueue DEF SocketInv, OneBuild, TypeOK
<1>1. CASE Pair
  <2>1. entry.id \in Entries /\ EnsureBuilt(entry)
    BY <1>1 DEF Pair, TypeOK, Entry
  <2>2. Len(builds') <= IF entry.sock = None THEN 1 ELSE 0
    BY <2>1, EnsuresOne DEF SocketInv, OneBuild
  <2> QED BY <1>1, <2>2, SocketStays DEF Pair, OneBuild, socketVars
<1>2. CASE Reconnect
  <2>1. Detached.id \in Entries /\ Detached.sock = None /\ EnsureBuilt(Detached)
    BY <1>2, DetachTypes DEF Reconnect, TypeOK, Entry
  <2>2. Len(builds') <= 1
    BY <1>0, <2>1, EnsuresOne
  <2>3. entry'.sock = None /\ Part("ended")
    BY <1>2, <2>1 DEF Reconnect
  <2> QED BY <2>2, <2>3, SocketParts, SocketGoes DEF OneBuild
<1>3. CASE Disconnect
  <2>1. entry'.sock = None /\ Part("leaving") /\ builds' = builds
    BY <1>3, DetachTypes DEF Disconnect
  <2> QED BY <1>0, <2>1, SocketParts, SocketGoes DEF OneBuild
<1>4. CASE LogoutEnds
  <2>1. \A t \in Sockets : wa'[t] \in LiveStates => wa[t] \in LiveStates
    BY <1>4 DEF LogoutEnds, TypeOK, LiveStates
  <2> QED BY <1>4, <2>1, SocketStays DEF LogoutEnds, SocketInv, OneBuild
<1>5. CASE AuthEmptied
  <2>1. entry'.sock = entry.sock /\ entry'.id \in Entries
    BY <1>5, RegisteredEntry DEF AuthEmptied, SocketInv
  <2>2. builds' = builds /\ wa' = wa
    BY <1>5 DEF AuthEmptied, socketVars
  <2> QED BY <2>1, <2>2, NoneApart, SocketStays DEF SocketInv, OneBuild
<1>6. CASE Remove
  <2>1. entry'.sock = None /\ Part("ended") /\ builds' = builds
    BY <1>6, BlankEntry DEF Remove
  <2> QED BY <1>0, <2>1, SocketParts, SocketGoes DEF OneBuild
<1>7. CASE Add
  <2>1. PICK e \in Registered : entry' = e /\ EnsureBuilt(e)
    BY <1>7 DEF Add
  <2>2. e.sock = entry.sock /\ e.id \in Entries
    BY RegisteredEntry DEF SocketInv
  <2>3. Len(builds') <= IF e.sock = None THEN 1 ELSE 0
    BY <2>1, <2>2, EnsuresOne DEF SocketInv, OneBuild
  <2> QED BY <1>7, <2>1, <2>2, <2>3, NoneApart, SocketStays DEF Add, OneBuild, socketVars
<1> QED BY <1>1, <1>2, <1>3, <1>4, <1>5, <1>6, <1>7 DEF Panel

LEMMA BridgeSockets == TypeOK /\ SocketInv /\ Bridge => SocketInv'
<1> SUFFICES ASSUME TypeOK, SocketInv, Bridge PROVE SocketInv'
  OBVIOUS
<1>1. CASE BridgeLoses \/ \E c \in Clients : BridgeConnect(c)
  BY <1>1, SocketStays DEF BridgeLoses, BridgeConnect, socketVars, SocketInv, OneBuild
<1>2. ASSUME NEW c \in Clients, ReadHello(c) PROVE SocketInv'
  <2>1. CASE Refused(c)
    BY <1>2, <2>1, SocketStays DEF ReadHello, Refused, socketVars, SocketInv, OneBuild
  <2>2. CASE Welcomed(c)
    <3>1. PICK e \in Registered : EnsureBuilt(e) /\ (entry' = e \/ entry' = [e EXCEPT !.client = c])
      BY <2>2 DEF Welcomed
    <3>2. e \in Entry /\ e.sock = entry.sock /\ e.id \in Entries
      BY RegisteredEntry DEF SocketInv
    <3>3. entry'.sock = e.sock /\ entry'.id = e.id
      BY <3>1, <3>2 DEF Entry
    <3>4. Len(builds') <= IF e.sock = None THEN 1 ELSE 0
      BY <3>1, <3>2, EnsuresOne DEF SocketInv, OneBuild
    <3>5. wa' = wa
      BY <1>2 DEF ReadHello, socketVars
    <3> QED BY <3>2, <3>3, <3>4, <3>5, NoneApart, SocketStays DEF OneBuild
  <2> QED BY <1>2, <2>1, <2>2 DEF ReadHello
<1>3. ASSUME NEW c \in Clients, NodeCloses(c) PROVE SocketInv'
  <2>1. entry'.sock = entry.sock /\ entry'.id = entry.id
    BY <1>3 DEF NodeCloses, Unbound, TypeOK, Entry
  <2>2. builds' = builds /\ wa' = wa
    BY <1>3 DEF NodeCloses, socketVars
  <2> QED BY <2>1, <2>2, SocketStays DEF SocketInv, OneBuild
<1> QED BY <1>1, <1>2, <1>3 DEF Bridge

LEMMA StepSockets == TypeOK /\ SocketInv /\ [Next]_vars => SocketInv'
<1> SUFFICES ASSUME TypeOK, SocketInv, [Next]_vars PROVE SocketInv'
  OBVIOUS
<1>1. CASE UNCHANGED vars
  BY <1>1 DEF vars, socketVars, SocketInv, LiveSocketIsBound, Live, OneBuild
<1> QED BY <1>1, BuildSockets, PanelSockets, BridgeSockets, WhatsAppSockets DEF Next

-----------------------------------------------------------------------------
(* The status.                                                             *)

\* StatusIsTrue needs that the socket which opened is heard, so that its close is.
StatusInv ==
    entry.status = "open" =>
        entry.sock \in Sockets /\ wa[entry.sock] = "open" /\ Heard(entry.sock)

LEMMA InitStatus == Init => StatusInv
  BY DEF Init, Blank, StatusInv

\* Whoever keeps the entry's socket, status and identity keeps what it says.
LEMMA StatusStays ==
    ASSUME StatusInv,
           entry'.status # "open" \/
              ( /\ entry'.status = entry.status
                /\ entry'.sock = entry.sock /\ entry'.id = entry.id ),
           wa' = wa, owner' = owner
    PROVE  StatusInv'
  BY DEF StatusInv, Heard

LEMMA RegisteredStatus ==
    ASSUME TypeOK, NEW e \in Registered
    PROVE  e.status # "open" \/ e = entry
<1>1. CASE entry.id # None
  BY <1>1, RegisteredEntry
<1>2. CASE entry.id = None
  <2>1. PICK x \in Entries : e = Blank(x)
    BY <1>2 DEF Registered
  <2> QED BY <2>1 DEF Blank
<1> QED BY <1>1, <1>2

LEMMA BuildStatus ==
    TypeOK /\ SocketInv /\ StatusInv /\ (FinishBuild \/ BuildFails \/ CooldownEnds) => StatusInv'
<1> SUFFICES ASSUME TypeOK, SocketInv, StatusInv, FinishBuild \/ BuildFails \/ CooldownEnds
             PROVE StatusInv'
  OBVIOUS
<1>1. CASE FinishBuild
  <2>1. entry.status # "open"
    <3>1. builds \in Seq(Build) /\ builds # <<>>
      BY <1>1 DEF FinishBuild, Building, TypeOK
    <3>2. Len(builds) \in Nat /\ Len(builds) >= 1 /\ Len(Tail(builds)) = Len(builds) - 1
      BY <3>1, BuildQueue
    <3>3. Len(builds) <= IF entry.sock = None THEN 1 ELSE 0
      BY DEF SocketInv, OneBuild
    <3>4. entry.sock = None
      BY <3>2, <3>3, LastBuild
    <3> QED BY <3>4, NoneApart DEF StatusInv
  <2>2. PICK s \in Sockets, e \in Registered :
           entry' = [e EXCEPT !.sock = s,
                        !.client = IF waiters = <<>> THEN @ ELSE waiters[Len(waiters)]]
    BY <1>1 DEF FinishBuild
  <2>3. e \in Entry /\ e.status # "open"
    BY <2>1, RegisteredEntry, RegisteredStatus
  <2>4. entry'.status = e.status
    BY <2>2, <2>3 DEF Entry
  <2> QED BY <2>3, <2>4 DEF StatusInv
<1>2. CASE BuildFails
  BY <1>2, StatusStays DEF BuildFails, socketVars
<1>3. CASE CooldownEnds
  <2>1. entry'.status = entry.status /\ entry'.sock = entry.sock /\ entry'.id = entry.id
    BY <1>3 DEF CooldownEnds, TypeOK, Entry
  <2> QED BY <1>3, <2>1, StatusStays DEF CooldownEnds, socketVars
<1> QED BY <1>1, <1>2, <1>3

LEMMA WhatsAppStatus ==
    ASSUME TypeOK, SocketInv, StatusInv, NEW s \in Sockets, WhatsApp(s)
    PROVE  StatusInv'
<1>1. CASE SockConnecting(s)
  <2>1. entry'.status # "open"
    BY <1>1 DEF SockConnecting, TypeOK, Entry
  <2> QED BY <2>1 DEF StatusInv
<1>2. CASE SockOpen(s)
  <2>1. owner' = owner /\ wa' = [wa EXCEPT ![s] = "open"] /\ wa'[s] = "open"
    BY <1>2 DEF SockOpen, TypeOK
  <2>2. CASE Heard(s)
    <3>1. entry'.sock = s /\ entry'.id = entry.id /\ owner[s] = entry.id
      BY <1>2, <2>2 DEF SockOpen, Heard, TypeOK, Entry
    <3> QED BY <2>1, <3>1 DEF StatusInv, Heard
  <2>3. CASE ~Heard(s)
    <3>1. entry' = entry
      BY <1>2, <2>3 DEF SockOpen
    <3> QED BY <2>1, <3>1 DEF StatusInv, Heard, TypeOK
  <2> QED BY <2>2, <2>3
<1>3. CASE \E r \in Reasons : SockClose(s, r) \/ LateClose(s, r)
  <2>1. PICK r \in Reasons : SockClose(s, r) \/ LateClose(s, r)
    BY <1>3
  <2>2. OnClose(s, r) /\ wa' = [wa EXCEPT ![s] = "none"] /\ owner' = owner
    BY <2>1 DEF SockClose, LateClose
  <2>3. CASE Heard(s)
    <3>1. entry'.status = "close"
      BY <2>2, <2>3 DEF OnClose, HandleClose, TypeOK, Entry
    <3> QED BY <3>1 DEF StatusInv
  <2>4. CASE ~Heard(s)
    <3>1. entry' = entry
      BY <2>2, <2>4 DEF OnClose
    <3>2. entry.status = "open" => entry.sock # s
      BY <2>4 DEF StatusInv
    <3> QED BY <2>2, <3>1, <3>2 DEF StatusInv, Heard, TypeOK
  <2> QED BY <2>3, <2>4
<1>4. CASE CodeRefused(s)
  <2>1. entry'.status = entry.status /\ entry'.sock = entry.sock /\ entry'.id = entry.id
    BY <1>4 DEF CodeRefused, TypeOK, Entry
  <2> QED BY <1>4, <2>1, StatusStays DEF CodeRefused, socketVars
<1> QED BY <1>1, <1>2, <1>3, <1>4 DEF WhatsApp

LEMMA PanelStatus == TypeOK /\ StatusInv /\ Panel => StatusInv'
<1> SUFFICES ASSUME TypeOK, StatusInv, Panel PROVE StatusInv'
  OBVIOUS
<1>1. CASE Pair
  BY <1>1, StatusStays DEF Pair, socketVars
<1>2. CASE Reconnect \/ Disconnect
  <2>1. entry'.status # "open"
    BY <1>2 DEF Reconnect, Disconnect, Detached, TypeOK, Entry
  <2> QED BY <2>1 DEF StatusInv
<1>3. CASE LogoutEnds
  <2>1. entry' = entry /\ owner' = owner
    BY <1>3 DEF LogoutEnds
  <2>2. \A t \in Sockets : wa[t] = "open" => wa'[t] = "open"
    BY <1>3 DEF LogoutEnds
  <2> QED BY <2>1, <2>2 DEF StatusInv, Heard
<1>4. CASE AuthEmptied
  <2>1. entry'.status # "open" \/ entry' = entry
    BY <1>4, RegisteredStatus DEF AuthEmptied
  <2> QED BY <1>4, <2>1, StatusStays DEF AuthEmptied, socketVars
<1>5. CASE Remove
  <2>1. entry'.status # "open"
    BY <1>5 DEF Remove, Blank
  <2> QED BY <2>1 DEF StatusInv
<1>6. CASE Add
  <2>1. entry'.status # "open" \/ entry' = entry
    BY <1>6, RegisteredStatus DEF Add
  <2> QED BY <1>6, <2>1, StatusStays DEF Add, socketVars
<1> QED BY <1>1, <1>2, <1>3, <1>4, <1>5, <1>6 DEF Panel

LEMMA BridgeStatus == TypeOK /\ StatusInv /\ Bridge => StatusInv'
<1> SUFFICES ASSUME TypeOK, StatusInv, Bridge PROVE StatusInv'
  OBVIOUS
<1>1. CASE BridgeLoses \/ \E c \in Clients : BridgeConnect(c)
  BY <1>1, StatusStays DEF BridgeLoses, BridgeConnect, socketVars
<1>2. ASSUME NEW c \in Clients, ReadHello(c) PROVE StatusInv'
  <2>1. CASE Refused(c)
    BY <1>2, <2>1, StatusStays DEF ReadHello, Refused, socketVars
  <2>2. CASE Welcomed(c)
    <3>1. PICK e \in Registered : entry' = e \/ entry' = [e EXCEPT !.client = c]
      BY <2>2 DEF Welcomed
    <3>2. /\ entry'.status = e.status /\ entry'.sock = e.sock /\ entry'.id = e.id
          /\ e.status # "open" \/ e = entry
      BY <3>1, RegisteredEntry, RegisteredStatus DEF Entry
    <3> QED BY <1>2, <3>2, StatusStays DEF ReadHello, socketVars
  <2> QED BY <1>2, <2>1, <2>2 DEF ReadHello
<1>3. ASSUME NEW c \in Clients, NodeCloses(c) PROVE StatusInv'
  <2>1. entry'.status = entry.status /\ entry'.sock = entry.sock /\ entry'.id = entry.id
    BY <1>3 DEF NodeCloses, Unbound, TypeOK, Entry
  <2> QED BY <1>3, <2>1, StatusStays DEF NodeCloses, socketVars
<1> QED BY <1>1, <1>2, <1>3 DEF Bridge

LEMMA StepStatus == TypeOK /\ SocketInv /\ StatusInv /\ [Next]_vars => StatusInv'
<1> SUFFICES ASSUME TypeOK, SocketInv, StatusInv, [Next]_vars PROVE StatusInv'
  OBVIOUS
<1>1. CASE UNCHANGED vars
  BY <1>1 DEF vars, socketVars, StatusInv, Heard
<1> QED BY <1>1, BuildStatus, PanelStatus, BridgeStatus, WhatsAppStatus DEF Next

-----------------------------------------------------------------------------
(* The bridge's connections.                                               *)

\* The connection the bridge uses is the last that waits, or it is bound and no
\* one waits; so the end of a build, which binds the last, binds no older one.
ClientInv ==
    /\ entry.id = None => entry.client = None
    /\ waiters # <<>> => Building
    /\ \A c \in Clients : conn[c] = "open" => reached \in {c, None}
    /\ reached # None /\ conn[reached] = "bound" => entry.client = reached /\ waiters = <<>>
    /\ reached # None /\ conn[reached] = "waiting"
         => waiters # <<>> /\ waiters[Len(waiters)] = reached

LEMMA InitClients == Init => ClientInv
  BY DEF Init, Blank, ClientInv

\* Whoever leaves the connections and the entry's client alone, and takes no
\* build away, keeps it.
LEMMA ClientsStay ==
    ASSUME ClientInv, UNCHANGED bridgeVars, Building => builds' # <<>>,
           entry'.client = entry.client, entry'.id = None => entry'.client = None
    PROVE  ClientInv'
  BY DEF ClientInv, bridgeVars, Building

\* getOrCreate keeps the client that is bound.
LEMMA RegisteredClient ==
    ASSUME TypeOK, ClientInv, NEW e \in Registered
    PROVE  e.client = entry.client /\ e.id # None
<1>1. CASE entry.id # None
  BY <1>1, RegisteredEntry DEF Registered
<1>2. CASE entry.id = None
  <2>1. PICK x \in Entries : e = Blank(x)
    BY <1>2 DEF Registered
  <2> QED BY <1>2, <2>1, NoneApart DEF Blank, ClientInv
<1> QED BY <1>1, <1>2

\* Asking for a socket takes no build away.
LEMMA EnsureKeepsBuilds ==
    ASSUME TypeOK, NEW e, e.id \in Entries, EnsureBuilt(e) \/ builds' = builds
    PROVE  /\ Building => builds' # <<>>
           /\ NeedsBuild(e) /\ EnsureBuilt(e) => builds' # <<>>
<1> DEFINE b == [id |-> e.id, creds |-> auth]
<1>1. b \in Build /\ builds \in Seq(Build)
  BY DEF TypeOK, Build
<1>2. Append(builds, b) # <<>>
  <2>1. Len(Append(builds, b)) >= 1
    BY <1>1, BuildQueue
  <2> QED BY <2>1
<1> QED BY <1>2 DEF EnsureBuilt, Building

LEMMA BuildClients ==
    TypeOK /\ SocketInv /\ ClientInv /\ (FinishBuild \/ BuildFails \/ CooldownEnds) => ClientInv'
<1> SUFFICES ASSUME TypeOK, SocketInv, ClientInv, FinishBuild \/ BuildFails \/ CooldownEnds
             PROVE ClientInv'
  OBVIOUS
<1>1. CASE FinishBuild
  <2>1. PICK s \in Sockets, e \in Registered :
           entry' = [e EXCEPT !.sock = s,
                        !.client = IF waiters = <<>> THEN @ ELSE waiters[Len(waiters)]]
    BY <1>1 DEF FinishBuild
  <2>2. e \in Entry /\ e.client = entry.client /\ e.id # None
    BY RegisteredEntry, RegisteredClient
  <2>3. /\ entry'.id # None
        /\ entry'.client = IF waiters = <<>> THEN entry.client ELSE waiters[Len(waiters)]
    BY <2>1, <2>2 DEF Entry
  <2>4. /\ conn' = [c \in Clients |-> IF conn[c] = "waiting" THEN "bound" ELSE conn[c]]
        /\ waiters' = <<>> /\ reached' = reached
    BY <1>1 DEF FinishBuild
  <2>5. reached \in Clients \cup {None}
    BY DEF TypeOK
  <2> QED BY <2>3, <2>4, <2>5 DEF ClientInv
<1>2. CASE BuildFails
  <2>1. /\ conn' = [c \in Clients |-> IF conn[c] = "waiting" THEN "closed" ELSE conn[c]]
        /\ reached' = IF reached # None /\ conn[reached] = "waiting" THEN None ELSE reached
        /\ waiters' = <<>> /\ entry' = entry
    BY <1>2 DEF BuildFails
  <2>2. reached \in Clients \cup {None}
    BY DEF TypeOK
  <2> QED BY <2>1, <2>2 DEF ClientInv
<1>3. CASE CooldownEnds
  <2>1. entry'.client = entry.client /\ entry'.id = entry.id
    BY <1>3 DEF CooldownEnds, TypeOK, Entry
  <2> QED BY <1>3, <2>1, ClientsStay DEF CooldownEnds, ClientInv, Building
<1> QED BY <1>1, <1>2, <1>3

LEMMA WhatsAppClients ==
    ASSUME TypeOK, SocketInv, ClientInv, NEW s \in Sockets, WhatsApp(s)
    PROVE  ClientInv'
<1>1. UNCHANGED bridgeVars
  BY DEF WhatsApp, SockConnecting, SockOpen, SockClose, LateClose, CodeRefused
<1>2. entry'.client = entry.client /\ entry'.id = entry.id
  BY DEF WhatsApp, SockConnecting, SockOpen, SockClose, LateClose, CodeRefused, OnClose,
         HandleClose, TypeOK, Entry
<1>3. Building => builds' # <<>>
  <2> DEFINE closed == [entry EXCEPT !.status = "close", !.sock = None]
  <2>1. builds' = builds \/ (EnsureBuilt(closed) /\ Heard(s))
    BY DEF WhatsApp, SockConnecting, SockOpen, SockClose, LateClose, CodeRefused, OnClose,
           HandleClose
  <2>2. CASE EnsureBuilt(closed) /\ Heard(s)
    <3>1. closed.id = entry.id /\ entry.id \in Entries
      BY <2>2, NoneApart DEF Heard, SocketInv, TypeOK, Entry
    <3> HIDE DEF closed
    <3> QED BY <2>2, <3>1, EnsureKeepsBuilds
  <2> QED BY <2>1, <2>2 DEF Building
<1> QED BY <1>1, <1>2, <1>3, ClientsStay DEF ClientInv

LEMMA PanelClients == TypeOK /\ SocketInv /\ ClientInv /\ Panel => ClientInv'
<1> SUFFICES ASSUME TypeOK, SocketInv, ClientInv, Panel PROVE ClientInv'
  OBVIOUS
<1>1. CASE Pair
  <2>1. entry.id \in Entries
    BY <1>1 DEF Pair, TypeOK, Entry
  <2> QED BY <1>1, <2>1, EnsureKeepsBuilds, ClientsStay DEF Pair, ClientInv
<1>2. CASE Reconnect \/ Disconnect
  <2>1. Detached.client = entry.client /\ Detached.id = entry.id /\ entry.id \in Entries
    BY <1>2 DEF Reconnect, Disconnect, Detached, TypeOK, Entry
  <2>2. entry' = Detached /\ UNCHANGED bridgeVars /\ (EnsureBuilt(Detached) \/ builds' = builds)
    BY <1>2 DEF Reconnect, Disconnect
  <2>3. Building => builds' # <<>>
    BY <2>1, <2>2, EnsureKeepsBuilds
  <2> QED BY <2>1, <2>2, <2>3, ClientsStay DEF ClientInv
<1>3. CASE LogoutEnds
  BY <1>3, ClientsStay DEF LogoutEnds, ClientInv, Building
<1>4. CASE AuthEmptied
  <2>1. entry'.client = entry.client /\ entry'.id # None
    BY <1>4, RegisteredClient DEF AuthEmptied
  <2> QED BY <1>4, <2>1, ClientsStay DEF AuthEmptied, Building
<1>5. CASE Remove
  <2>1. /\ conn' = [c \in Clients |-> IF c = entry.client THEN "closed" ELSE conn[c]]
        /\ reached' = IF reached = entry.client THEN None ELSE reached
        /\ waiters' = waiters /\ builds' = builds /\ entry'.client = None
    BY <1>5 DEF Remove, Blank
  <2>2. reached \in Clients \cup {None}
    BY DEF TypeOK
  <2> QED BY <2>1, <2>2 DEF ClientInv, Building
<1>6. CASE Add
  <2>1. PICK e \in Registered : entry' = e /\ EnsureBuilt(e)
    BY <1>6 DEF Add
  <2>2. e.client = entry.client /\ e.id \in Entries /\ e.id # None
    BY RegisteredEntry, RegisteredClient
  <2>3. Building => builds' # <<>>
    BY <2>1, <2>2, EnsureKeepsBuilds
  <2> QED BY <1>6, <2>1, <2>2, <2>3, ClientsStay DEF Add
<1> QED BY <1>1, <1>2, <1>3, <1>4, <1>5, <1>6 DEF Panel

\* A hello is bound at once only when no one waits.
LEMMA HelloClients ==
    ASSUME TypeOK, SocketInv, ClientInv, NEW c \in Clients, conn[c] = "open", Welcomed(c)
    PROVE  ClientInv'
<1>1. PICK e \in Registered :
        /\ EnsureBuilt(e)
        /\ IF e.sock = None /\ (Building \/ NeedsBuild(e))
           THEN /\ entry' = e
                /\ conn' = [conn EXCEPT ![c] = "waiting"]
                /\ waiters' = Append(waiters, c)
           ELSE /\ entry' = [e EXCEPT !.client = c]
                /\ conn' = [conn EXCEPT ![c] = "bound"]
                /\ UNCHANGED waiters
  BY DEF Welcomed
<1>2. e \in Entry /\ e.client = entry.client /\ e.id \in Entries /\ e.id # None
  BY RegisteredEntry, RegisteredClient
<1>3. reached' = reached /\ reached \in {c, None}
  BY DEF Welcomed, ClientInv
<1>4. conn \in [Clients -> {"open", "waiting", "bound", "closed"}]
  BY DEF TypeOK
<1>5. CASE e.sock = None /\ (Building \/ NeedsBuild(e))
  <2>1. entry' = e /\ conn' = [conn EXCEPT ![c] = "waiting"] /\ waiters' = Append(waiters, c)
    BY <1>1, <1>5
  <2>2. waiters' # <<>> /\ waiters'[Len(waiters')] = c
    <3>1. waiters \in Seq(Clients)
      BY DEF TypeOK
    <3> QED BY <2>1, <3>1, AppendProperties
  <2>3. builds' # <<>>
    BY <1>1, <1>2, <1>5, EnsureKeepsBuilds
  <2> QED BY <1>2, <1>3, <1>4, <2>1, <2>2, <2>3 DEF ClientInv, Building
<1>6. CASE ~(e.sock = None /\ (Building \/ NeedsBuild(e)))
  <2>1. entry' = [e EXCEPT !.client = c] /\ conn' = [conn EXCEPT ![c] = "bound"]
        /\ waiters' = waiters
    BY <1>1, <1>6
  <2>2. entry'.client = c /\ entry'.id = e.id
    BY <1>2, <2>1 DEF Entry
  <2>3. ~Building
    <3>1. CASE e.sock = None
      BY <1>6, <3>1
    <3>2. CASE e.sock # None
      <4>1. entry.sock # None
        BY <3>2, RegisteredEntry
      <4>2. Len(builds) <= 0 /\ builds \in Seq(Build)
        BY <4>1 DEF SocketInv, OneBuild, TypeOK
      <4> QED BY <4>2, BuildQueue DEF Building
    <3> QED BY <3>1, <3>2
  <2>4. waiters = <<>>
    BY <2>3 DEF ClientInv
  <2>5. c # None
    BY AccountAssumption
  <2> QED BY <1>2, <1>3, <1>4, <2>1, <2>2, <2>4, <2>5 DEF ClientInv
<1> QED BY <1>5, <1>6

LEMMA BridgeClients == TypeOK /\ SocketInv /\ ClientInv /\ Bridge => ClientInv'
<1> SUFFICES ASSUME TypeOK, SocketInv, ClientInv, Bridge PROVE ClientInv'
  OBVIOUS
<1>1. conn \in [Clients -> {"open", "waiting", "bound", "closed"}]
      /\ reached \in Clients \cup {None}
  BY DEF TypeOK
<1>2. CASE BridgeLoses
  BY <1>2 DEF BridgeLoses, ClientInv, Building
<1>3. ASSUME NEW c \in Clients, BridgeConnect(c) PROVE ClientInv'
  <2>1. /\ conn' = [conn EXCEPT ![c] = "open"] /\ reached' = c
        /\ \A d \in Clients : conn[d] # "open"
        /\ UNCHANGED <<entry, builds, waiters>>
    BY <1>3 DEF BridgeConnect
  <2> QED BY <1>1, <2>1 DEF ClientInv, Building
<1>4. ASSUME NEW c \in Clients, ReadHello(c) PROVE ClientInv'
  <2>1. CASE Refused(c)
    <3>1. /\ conn' = [conn EXCEPT ![c] = "closed"]
          /\ reached' = IF reached = c THEN None ELSE reached
          /\ UNCHANGED <<entry, builds, waiters>>
      BY <2>1 DEF Refused
    <3> QED BY <1>1, <3>1 DEF ClientInv, Building
  <2>2. CASE Welcomed(c)
    BY <1>4, <2>2, HelloClients DEF ReadHello
  <2> QED BY <1>4, <2>1, <2>2 DEF ReadHello
<1>5. ASSUME NEW c \in Clients, NodeCloses(c) PROVE ClientInv'
  <2>1. /\ reached # c /\ conn' = [conn EXCEPT ![c] = "closed"]
        /\ UNCHANGED <<builds, waiters, reached>>
    BY <1>5 DEF NodeCloses
  <2>2. /\ entry'.id = entry.id
        /\ entry'.client = entry.client \/ (entry.client = c /\ entry'.client = None)
    BY <1>5 DEF NodeCloses, Unbound, TypeOK, Entry
  <2> QED BY <1>1, <2>1, <2>2 DEF ClientInv, Building
<1> QED BY <1>2, <1>3, <1>4, <1>5 DEF Bridge

LEMMA StepClients == TypeOK /\ SocketInv /\ ClientInv /\ [Next]_vars => ClientInv'
<1> SUFFICES ASSUME TypeOK, SocketInv, ClientInv, [Next]_vars PROVE ClientInv'
  OBVIOUS
<1>1. CASE UNCHANGED vars
  BY <1>1 DEF vars, bridgeVars, ClientInv, Building
<1> QED BY <1>1, BuildClients, PanelClients, BridgeClients, WhatsAppClients DEF Next

-----------------------------------------------------------------------------
LEMMA Inductive == Spec => [](TypeOK /\ SocketInv /\ StatusInv /\ ClientInv)
<1>1. Init => TypeOK /\ SocketInv /\ StatusInv /\ ClientInv
  BY InitTypes, InitSockets, InitStatus, InitClients
<1>2. TypeOK /\ SocketInv /\ StatusInv /\ ClientInv /\ [Next]_vars
        => (TypeOK /\ SocketInv /\ StatusInv /\ ClientInv)'
  BY StepTypes, StepSockets, StepStatus, StepClients
<1> QED BY <1>1, <1>2, PTL DEF Spec

\* Every state is well formed (the account registry's entries, socketBuilds, the
\* sockets and the bridge's connections).
THEOREM TypeCorrect == Spec => []TypeOK
  BY Inductive, PTL

\* Whatever the order of hellos, closes, failures and operators, the registry
\* holds the only live socket (bindSock, detachSocket, the listener's guard).
THEOREM LiveSocketIsBoundAlways == Spec => []LiveSocketIsBound
<1>1. SocketInv => LiveSocketIsBound
  BY DEF SocketInv
<1> QED BY <1>1, Inductive, PTL

\* ensureSocketBuilt never runs two builds, nor one beside a registered socket.
THEOREM OneBuildAlways == Spec => []OneBuild
<1>1. SocketInv => OneBuild
  BY DEF SocketInv
<1> QED BY <1>1, Inductive, PTL

\* The status that the dispatcher's readiness gate reads says open only while
\* the registered socket is open (detachSocket, the connection listener).
THEOREM StatusIsTrueAlways == Spec => []StatusIsTrue
<1>1. StatusInv => StatusIsTrue
  BY NoneApart DEF StatusInv, StatusIsTrue
<1> QED BY <1>1, Inductive, PTL

\* The connection the bridge uses stays bound when the end of an older one is
\* noticed late, or a build it did not ask for ends (bindClient, unbindClient).
THEOREM NewestIsBoundAlways == Spec => []NewestIsBound
<1>1. ClientInv => NewestIsBound
  BY DEF ClientInv, NewestIsBound
<1> QED BY <1>1, Inductive, PTL
=============================================================================
