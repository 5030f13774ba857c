---------------------------- MODULE SettingCaches ----------------------------
(***************************************************************************)
(* The settings of one account's chats.  Both processes write the same     *)
(* SQLite file: the gateway for every command and control panel request,   *)
(* the bridge when it handles a set_llm2_model frame.  The bridge keeps    *)
(* what it read in process-wide caches that never expire; it learns from   *)
(* the gateway's control frames that an entry is out of date.  The frames  *)
(* go through the account's reliable queue (accountRegistry.ts) and are    *)
(* handled one by one (event_router.py).                                   *)
(*                                                                         *)
(* Abstractions.  "mode" stands for mode, permission and triggers, which   *)
(* are stored, cached and announced alike; what the bridge does not cache  *)
(* (idle trigger, announcements, compatibility) is left out.  A value is a *)
(* small number, 0 for NULL.  A scope's memories are one optional entry.   *)
(* A statement of a gateway handler and the frames that follow it are one  *)
(* step: the gateway runs them without an await, and what the bridge reads *)
(* between two of them the frames clear afterwards.                        *)
(***************************************************************************)
EXTENDS Naturals, Sequences, FiniteSets
Ext == INSTANCE SequencesExt

CONSTANTS
    Chats,
    Settings,    \* of "mode" and "subagent", those an instance looks at
    Global,      \* the scope of the __global__ row
    None,
    Models,      \* model ids, in the order of the catalog: 1, 2, ...
    Values,     \* the values of a setting
    QueueMax,    \* MAX_RELIABLE_QUEUE
    MaxWrites,   \* writes of the owner in a behaviour (a model bound)
    MaxCached,   \* entries the caches hold at once (a model bound)
    MaxBreaks    \* lost connections in a behaviour (a model bound)

Fields   == Settings \cup {"prompt", "model"}
Scopes   == Chats \cup {Global}
NoModel  == 0

ASSUME CachesAssumption ==
    /\ IsFiniteSet(Chats) /\ Global \notin Chats
    /\ Settings \subseteq {"mode", "subagent"}
    /\ Models \subseteq Nat \ {NoModel}
    /\ 0 \in Values
    /\ QueueMax \in Nat \ {0}
    /\ None \notin [Fields -> Values \cup Models]
    /\ None \notin Values \cup Models \cup {NoModel}

VARIABLES
    \* settings.db
    row,         \* chat_settings: the row of each scope, None when absent
    memory,      \* memories: the entry of each scope
    catalog,     \* llm_models: known, active, and the default
    \* the bridge's caches: None is an entry that is missing
    cache,       \* of each field and scope
    memCache,
    defCache,
    \* the control frames
    online,      \* the bridge has a live connection
    queue,       \* reliableQueue, while it has none
    wire,        \* sent, and not yet handled by the bridge
    \* history
    chosen,      \* the model the gateway last stored in each row
    missed,      \* entries that went stale without a frame that reaches them
    overtaken,   \* scopes where a later write met an older frame under way
    writes, breaks

dbVars    == <<row, memory, catalog>>
cacheVars == <<cache, memCache, defCache>>
linkVars  == <<online, queue, wire>>
vars == <<dbVars, cacheVars, linkVars, chosen, missed, overtaken, writes, breaks>>

-----------------------------------------------------------------------------
\* The database.

Value(f) == IF f = "model" THEN Models \cup {NoModel} ELSE Values
Row == {r \in [Fields -> Values \cup Models \cup {NoModel}] :
           \A f \in Fields : r[f] \in Value(f)}
Catalog == [known : SUBSET Models, active : SUBSET Models,
            default : Models \cup {NoModel}]

\* initSettingsTables seeds the row the others fall back to.
Defaults == [f \in Fields |-> 0]

Init ==
    /\ row = [s \in Scopes |-> IF s = Global THEN Defaults ELSE None]
    /\ memory = [s \in Scopes |-> 0]
    /\ catalog = [known |-> Models, active |-> Models,
                  default |-> IF Models = {} THEN NoModel
                              ELSE CHOOSE m \in Models : \A n \in Models : m <= n]
    /\ cache = [f \in Fields |-> [s \in Scopes |-> None]]
    /\ memCache = [c \in Chats |-> None]
    /\ defCache = NoModel
    /\ online = TRUE
    /\ queue = <<>>
    /\ wire = <<>>
    /\ chosen = [s \in Scopes |-> IF s = Global THEN NoModel ELSE None]
    /\ missed = {}
    /\ overtaken = {}
    /\ writes = 0
    /\ breaks = 0

\* The row a chat's settings come from.
RowOf(r, s) == IF r[s] = None THEN r[Global] ELSE r[s]

\* A chat that has no row of its own gets a copy of the __global__ row.
EnsureRow(r, s) == [r EXCEPT ![s] = RowOf(r, s)]

\* What a getter returns for an entry that is not cached.  The prompt of a
\* chat is cached as its own row has it, and falls back at every read.
Stored(r, f, s) ==
    IF f = "prompt"
        THEN IF r[s] = None THEN 0 ELSE r[s][f]
        ELSE RowOf(r, s)[f]
Remembered(mem, c) == <<mem[Global], mem[c]>>

-----------------------------------------------------------------------------
\* The entries of the caches, and the frames that clear them.

Entries == (Fields \X Scopes) \cup ({"memory"} \X Chats) \cup {<<"default", Global>>}
Cached(e) ==
    CASE e[1] = "memory"  -> memCache[e[2]] # None
      [] e[1] = "default" -> defCache # NoModel
      [] OTHER            -> cache[e[1]][e[2]] # None
Fresh(e) ==
    CASE e[1] = "memory"  -> memCache[e[2]] = Remembered(memory, e[2])
      [] e[1] = "default" -> defCache = catalog.default
      [] OTHER            -> \/ cache[e[1]][e[2]] = Stored(row, e[1], e[2])
                             \* no prompt of its own, or the one it falls back to
                             \/ /\ e[1] = "prompt"
                                /\ cache[e[1]][e[2]] = 0
                                /\ Stored(row, e[1], e[2]) = row[Global][e[1]]
Stale == {e \in Entries : Cached(e) /\ ~Fresh(e)}

Frame == [kind : {"settings", "clear", "subagent", "catalog"},
          scope : Scopes \cup {"global"}, model : {NoModel}]
         \cup [kind : {"setModel", "model"}, scope : Scopes, model : Models \cup {NoModel}]
SettingsChanged(s)   == [kind |-> "settings", scope |-> s, model |-> NoModel]
SubagentChanged(s)    == [kind |-> "subagent", scope |-> s, model |-> NoModel]
ClearHistory(s) == [kind |-> "clear", scope |-> s, model |-> NoModel]
CatalogChanged == [kind |-> "catalog", scope |-> "global", model |-> NoModel]
SetModel(s, m) == [kind |-> "setModel", scope |-> s, model |-> m]
ModelChanged(s) == [kind |-> "model", scope |-> s, model |-> NoModel]

\* Everything but the two frames about one chat's model ends in
\* reset_settings_connection, which empties every cache.
Clears(frame) ==
    CASE frame.kind = "setModel" -> Fields \X {frame.scope}
      [] frame.kind = "model"    -> {<<"model", frame.scope>>}
      [] OTHER                   -> Entries
InFlight == {queue[i] : i \in DOMAIN queue} \cup {wire[i] : i \in DOMAIN wire}
Announced == UNION {Clears(frame) : frame \in InFlight}

-----------------------------------------------------------------------------
\* Sending.  Without a live client the frames wait in the account's queue, and
\* the oldest are dropped when it is full.

ModelFrames(frames) == {f.scope : f \in {g \in frames : g.kind = "setModel"}}

Send(frames) ==
    IF online
    THEN /\ wire' = wire \o frames
         /\ UNCHANGED <<online, queue>>
    ELSE LET all   == queue \o frames
             extra == IF Len(all) > QueueMax THEN Len(all) - QueueMax ELSE 0
         IN /\ queue' = SubSeq(all, extra + 1, Len(all))
            /\ UNCHANGED <<online, wire>>

\* The frames a Send drops.
Dropped(frames) ==
    LET all == queue \o frames
    IN IF online \/ Len(all) <= QueueMax THEN {}
       ELSE {all[i] : i \in 1..(Len(all) - QueueMax)}

\* A write of the gateway to chat_settings; it stores the model of S.
ModelIn(r, s) == IF r[s] = None THEN None ELSE r[s]["model"]
Write(r, S, frames, over) ==
    /\ writes < MaxWrites
    /\ writes' = writes + 1
    /\ row' = r
    /\ chosen' = [s \in Scopes |-> IF s \in S THEN ModelIn(r, s) ELSE chosen[s]]
    /\ Send(frames)
    /\ overtaken' = over \cup ModelFrames(Dropped(frames))
    /\ UNCHANGED <<cacheVars, breaks>>

\* Entries that a lost frame leaves out of date.
Misses(lost) == missed' = IF lost = {} THEN missed ELSE missed \cup Stale'

-----------------------------------------------------------------------------
\* Commands and buttons.

Announce(f, scope) == IF f = "subagent" THEN SubagentChanged(scope) ELSE SettingsChanged(scope)

\* /mode, /permission, /trigger, /prompt and /subagent for one chat.
SetChat(c, f, v) ==
    LET r == [EnsureRow(row, c) EXCEPT ![c][f] = v] IN
    /\ Write(r, IF row[c] = None THEN {c} ELSE {}, <<Announce(f, c)>>, overtaken)
    /\ UNCHANGED <<memory, catalog>>
    /\ Misses(Dropped(<<Announce(f, c)>>))

\* The same with "global": every row there is.
SetGlobal(f, v) ==
    LET r == [s \in Scopes |-> IF row[s] = None THEN None ELSE [row[s] EXCEPT ![f] = v]] IN
    /\ Write(r, {}, <<Announce(f, "global")>>, overtaken)
    /\ UNCHANGED <<memory, catalog>>
    /\ Misses(Dropped(<<Announce(f, "global")>>))

\* The same with "default": the __global__ row alone.
SetDefault(f, v) ==
    /\ Write([row EXCEPT ![Global][f] = v], {}, <<Announce(f, "global")>>, overtaken)
    /\ UNCHANGED <<memory, catalog>>
    /\ Misses(Dropped(<<Announce(f, "global")>>))

\* /model takes an active model; the button of an older menu takes any.
SelectModel(c, m, button) ==
    LET frames == <<SetModel(c, m), ModelChanged(c)>> IN
    /\ button \/ m \in catalog.active
    /\ Write([EnsureRow(row, c) EXCEPT ![c]["model"] = m], {c}, frames, overtaken \ {c})
    /\ UNCHANGED <<memory, catalog>>
    /\ Misses(Dropped(frames))

\* setAutoDevice: the first message of an admin gives the chat its own row.
LearnDevice(c) ==
    /\ row[c] = None
    /\ Write(EnsureRow(row, c), {c}, <<>>, overtaken)
    /\ UNCHANGED <<memory, catalog, missed>>

\* /memory add and delete, and the panel's memories; 0 is no entry.
SetMemory(s, m) ==
    LET frames == <<SettingsChanged(IF s = Global THEN "global" ELSE s)>> IN
    /\ memory[s] # m
    /\ 0 \in {m, memory[s]}
    /\ memory' = [memory EXCEPT ![s] = m]
    /\ Write(row, {}, frames, overtaken)
    /\ UNCHANGED catalog
    /\ Misses(Dropped(frames))

-----------------------------------------------------------------------------
\* The control panel's chat settings.

\* updateChatSettings checks and stores one field after the other.
Rank == [f \in Fields |-> CASE f = "prompt" -> 1 [] f = "mode" -> 2
                            [] f = "subagent" -> 3 [] f = "model" -> 4]

Stores(s, body, upTo) ==
    LET done == {f \in DOMAIN body : Rank[f] < upTo}
        base == IF done = {} THEN row ELSE EnsureRow(row, s)
    IN IF done = {} THEN row
       ELSE [base EXCEPT ![s] = [f \in Fields |-> IF f \in done THEN body[f] ELSE base[s][f]]]

PanelFrames(s, body, r) ==
    (IF "model" \in DOMAIN body
        THEN <<SetModel(s, body["model"]), ModelChanged(s)>> ELSE <<>>)
    \o <<SettingsChanged(IF s = Global THEN "global" ELSE s)>>
    \o (IF "subagent" \in Settings /\ RowOf(r, s)["subagent"] # RowOf(row, s)["subagent"]
        THEN <<SubagentChanged(IF s = Global THEN "global" ELSE s)>> ELSE <<>>)

PanelUpdate(s, body) ==
    LET r      == Stores(s, body, 5)
        frames == PanelFrames(s, body, r)
        models == "model" \in DOMAIN body
    IN /\ models => body["model"] \in catalog.known \cup {NoModel}
       /\ Write(r, IF models \/ row[s] = None THEN {s} ELSE {}, frames,
                IF models THEN overtaken \ {s} ELSE overtaken)
       /\ UNCHANGED <<memory, catalog>>
       /\ Misses(Dropped(frames))

\* A field fails its check: the fields before it stay stored, unannounced.
PanelRejected(s, body, bad) ==
    /\ bad \in DOMAIN body
    /\ Write(Stores(s, body, Rank[bad]), IF row[s] = None THEN {s} ELSE {}, <<>>, overtaken)
    /\ UNCHANGED <<memory, catalog>>
    /\ missed' = missed \cup Stale'

\* The chat goes back to the defaults.
PanelClear(c) ==
    LET late == {s \in {c} : s \in ModelFrames(InFlight)} IN
    /\ Write([row EXCEPT ![c] = None], {c}, <<SettingsChanged(c)>>, overtaken \cup late)
    /\ UNCHANGED <<memory, catalog>>
    /\ Misses(Dropped(<<SettingsChanged(c)>>))

-----------------------------------------------------------------------------
\* The model catalog: /modelcfg, its buttons and the panel.

First(S) == CHOOSE m \in S : \A n \in S : m <= n
\* normalizeDefaultModel
Normalised(c) ==
    [c EXCEPT !.default = IF @ \in c.active THEN @
                          ELSE IF c.active = {} THEN NoModel ELSE First(c.active)]

ChangeCatalog(c) ==
    /\ catalog' = c
    /\ Write(row, {}, <<CatalogChanged>>, overtaken)
    /\ UNCHANGED memory
    /\ Misses(Dropped(<<CatalogChanged>>))

AddModel(m) ==
    /\ m \notin catalog.known
    /\ ChangeCatalog(Normalised([catalog EXCEPT !.known = @ \cup {m}, !.active = @ \cup {m}]))

UpdateModel(m, isActive) ==
    /\ m \in catalog.known
    /\ ChangeCatalog(Normalised([catalog EXCEPT
           !.active = IF isActive THEN @ \cup {m} ELSE @ \ {m}]))

SetDefaultModel(m) ==
    /\ m \in catalog.known
    /\ ChangeCatalog([catalog EXCEPT !.active = @ \cup {m}, !.default = m])

\* Mutant: the bridge learns that the catalog changed, and nothing of the rows.
DeleteFramesCatalogOnly(S, byPanel) == <<CatalogChanged>>

\* A deleted model is taken out of the rows that name it, and the bridge told
\* of each of them.  The panel leaves the chats their history.
DeleteFrames(S, byPanel) ==
    LET order == Ext!SetToSeq(S)
        each(s) == IF byPanel THEN <<SetModel(s, NoModel), ModelChanged(s)>>
                   ELSE <<SetModel(s, NoModel), ClearHistory(s), ModelChanged(s)>>
        n == IF byPanel THEN 2 ELSE 3
    IN <<CatalogChanged>> \o [i \in 1..(n * Len(order)) |->
           each(order[((i - 1) \div n) + 1])[((i - 1) % n) + 1]]

DeleteModel(m, byPanel) ==
    LET S == {s \in Scopes : ModelIn(row, s) = m}
        frames == DeleteFrames(S, byPanel)
    IN /\ m \in catalog.known
       /\ catalog' = Normalised([catalog EXCEPT !.known = @ \ {m}, !.active = @ \ {m}])
       /\ Write([s \in Scopes |-> IF s \in S THEN [row[s] EXCEPT !["model"] = NoModel]
                                  ELSE row[s]], S, frames, overtaken \ S)
       /\ UNCHANGED memory
       /\ Misses(Dropped(frames))

-----------------------------------------------------------------------------
\* The bridge reads: an entry that is missing is filled from the database.

Fill(f, s) == [cache EXCEPT ![f][s] = IF @ = None THEN Stored(row, f, s) ELSE @]

ReadSetting(f, c) ==
    /\ f \in Settings \cup {"model"}
    /\ cache[f][c] = None
    /\ cache' = Fill(f, c)
    /\ UNCHANGED <<memCache, defCache>>

\* get_prompt looks at the global prompt when the chat has none.
ReadPrompt(c) ==
    LET own == Fill("prompt", c) IN
    /\ cache' = IF own["prompt"][c] = 0 /\ own["prompt"][Global] = None
                THEN [own EXCEPT !["prompt"][Global] = Stored(row, "prompt", Global)]
                ELSE own
    /\ cache' # cache
    /\ UNCHANGED <<memCache, defCache>>

ReadMemories(c) ==
    /\ memCache[c] = None
    /\ memCache' = [memCache EXCEPT ![c] = Remembered(memory, c)]
    /\ UNCHANGED <<cache, defCache>>

\* A catalog without a default is looked up again at every read.
ReadDefault ==
    /\ defCache = NoModel
    /\ defCache' = catalog.default
    /\ defCache' # NoModel
    /\ UNCHANGED <<cache, memCache>>

Read ==
    /\ Cardinality({e \in Entries : Cached(e)}) < MaxCached
    /\ \/ \E f \in Fields, c \in Chats : ReadSetting(f, c)
       \/ \E c \in Chats : ReadPrompt(c)
       \/ \E c \in Chats : ReadMemories(c)
       \/ ReadDefault
    /\ UNCHANGED <<dbVars, linkVars, chosen, missed, overtaken, writes, breaks>>

-----------------------------------------------------------------------------
\* The bridge handles the next frame.

\* Mutant: a cache added later is not listed in reset_settings_connection.
EmptyCachesButMemories ==
    /\ cache' = [f \in Fields |-> [s \in Scopes |-> None]]
    /\ memCache' = memCache
    /\ defCache' = NoModel
    /\ missed' = {}

EmptyCaches ==
    /\ cache' = [f \in Fields |-> [s \in Scopes |-> None]]
    /\ memCache' = [c \in Chats |-> None]
    /\ defCache' = NoModel
    /\ missed' = {}

\* invalidate_chat_settings, clear_history, set_subagent_enabled and
\* invalidate_default_model, for one chat or all.
HandleReset(frame) ==
    /\ frame.kind \in {"settings", "clear", "subagent", "catalog"}
    /\ EmptyCaches
    /\ UNCHANGED row

\* set_llm2_model: the bridge stores the model a second time.
HandleSetModel(frame) ==
    LET s == frame.scope IN
    /\ frame.kind = "setModel"
    /\ row' = [EnsureRow(row, s) EXCEPT ![s]["model"] = frame.model]
    /\ cache' = [f \in Fields |-> [cache[f] EXCEPT ![s] =
                    IF f = "model" THEN frame.model ELSE None]]
    /\ UNCHANGED <<memCache, defCache>>
    /\ missed' = (missed \ Clears(frame))
                 \cup {e \in Stale' : s = Global /\ e[1] = "model"}

HandleModelChanged(frame) ==
    /\ frame.kind = "model"
    /\ cache' = [cache EXCEPT !["model"][frame.scope] = None]
    /\ missed' = missed \ Clears(frame)
    /\ UNCHANGED <<row, memCache, defCache>>

Handle ==
    /\ wire # <<>>
    /\ wire' = Tail(wire)
    /\ UNCHANGED <<memory, catalog, online, queue, chosen, overtaken, writes, breaks>>
    /\ \/ HandleReset(Head(wire))
       \/ HandleSetModel(Head(wire))
       \/ HandleModelChanged(Head(wire))

-----------------------------------------------------------------------------
\* The connection.

\* It breaks: what was written to it and not handled is lost.
Break ==
    /\ online
    /\ breaks < MaxBreaks
    /\ breaks' = breaks + 1
    /\ online' = FALSE
    /\ wire' = <<>>
    /\ overtaken' = overtaken \cup ModelFrames({wire[i] : i \in DOMAIN wire})
    /\ missed' = IF wire = <<>> THEN missed ELSE missed \cup Stale
    /\ UNCHANGED <<dbVars, cacheVars, queue, chosen, writes>>

\* The same with the process: a new one starts with empty caches.
BridgeCrash ==
    /\ breaks < MaxBreaks
    /\ breaks' = breaks + 1
    /\ online' = FALSE
    /\ wire' = <<>>
    /\ overtaken' = overtaken \cup ModelFrames({wire[i] : i \in DOMAIN wire})
    /\ EmptyCaches
    /\ UNCHANGED <<dbVars, queue, chosen, writes>>

\* hello, and the queue is flushed.
Connect ==
    /\ ~online
    /\ online' = TRUE
    /\ wire' = queue
    /\ queue' = <<>>
    /\ UNCHANGED <<dbVars, cacheVars, chosen, missed, overtaken, writes, breaks>>

-----------------------------------------------------------------------------
Owner ==
    \/ \E c \in Chats, f \in Fields \ {"model"}, v \in Values : SetChat(c, f, v)
    \/ \E f \in Fields \ {"model"}, v \in Values : SetGlobal(f, v)
    \/ \E f \in Fields \ {"model"}, v \in Values : SetDefault(f, v)
    \/ \E c \in Chats, m \in Models, button \in BOOLEAN : SelectModel(c, m, button)
    \/ \E c \in Chats : LearnDevice(c)
    \/ \E s \in Scopes, m \in {0, 1} : SetMemory(s, m)
    \/ \E c \in Chats : PanelClear(c)

Panel ==
    \E s \in Scopes : \E S \in SUBSET Fields :
       \E body \in {b \in [S -> Values \cup Models \cup {NoModel}] :
                       \A f \in S : b[f] \in Value(f)} :
          \/ PanelUpdate(s, body)
          \/ \E bad \in S : PanelRejected(s, body, bad)

Modelcfg ==
    \E m \in Models :
       \/ AddModel(m)
       \/ \E isActive \in BOOLEAN : UpdateModel(m, isActive)
       \/ SetDefaultModel(m)
       \/ \E byPanel \in BOOLEAN : DeleteModel(m, byPanel)

Next == Owner \/ Panel \/ Modelcfg \/ Read \/ Handle \/ Break \/ BridgeCrash \/ Connect
Spec == Init /\ [][Next]_vars

-----------------------------------------------------------------------------
TypeOK ==
    /\ row \in [Scopes -> Row \cup {None}]
    /\ row[Global] # None
    /\ memory \in [Scopes -> {0, 1}]
    /\ catalog \in Catalog
    /\ cache \in [Fields -> [Scopes -> Values \cup Models \cup {NoModel, None}]]
    /\ memCache \in [Chats -> ({0, 1} \X {0, 1}) \cup {None}]
    /\ defCache \in Models \cup {NoModel}
    /\ online \in BOOLEAN
    /\ queue \in Seq(Frame)
    /\ wire \in Seq(Frame)
    /\ chosen \in [Scopes -> Models \cup {NoModel, None}]
    /\ missed \subseteq Entries
    /\ overtaken \subseteq Scopes
    /\ writes \in Nat
    /\ breaks \in Nat

\* What the bridge has cached is what the database holds, or a frame that
\* clears the entry is under way.  Known exceptions are in missed: a rejected
\* panel request, a lost frame, and a default model the bridge itself stores.
CachesFresh == Stale \subseteq Announced \cup missed

\* When no set_llm2_model for a scope is under way, its row holds the model the
\* gateway stored last, although the bridge stores every model again, later.
\* Known exceptions are in overtaken: the row was reset, or a frame was lost,
\* while one was under way.
ModelsKept ==
    \A s \in Scopes \ overtaken :
        s \in ModelFrames(InFlight) \/ ModelIn(row, s) = chosen[s]

=============================================================================
