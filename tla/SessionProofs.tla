--------------------------- MODULE SessionProofs ----------------------------
(***************************************************************************)
(* Proofs about what the bridge's session of one account keeps, for any    *)
(* chats, models, messages, queue, bounds and number of lost connections:  *)
(* the settings it caches (CachesFresh), the model of a chat (ModelsKept), *)
(* files of messages (Paths), the actions of a reply (Acts) and mutes      *)
(* (Gate).  A step of the account is a step of one of its parts.           *)
(*                                                                         *)
(* Settings: a frame clears every entry, or the entries of one chat.       *)
(* After a write that sends one of the first kind there is nothing to      *)
(* show; the others rest on lemmas that say how far a row reaches: only    *)
(* the row of a scope and the Global row are read for its entries.         *)
(***************************************************************************)
EXTENDS Account, SequenceTheorems, FiniteSetTheorems, TLAPS

\* A step of the account is a step of the part at work, and none of the others.
LEMMA PartSteps ==
    ASSUME [GatewayNext]_allVars
    PROVE  /\ [Next]_vars /\ [Ids!Next]_idsVars /\ [Group!Next]_groupVars
           /\ [Paths!Next]_pathVars /\ [Acts!Next]_actVars /\ [Gate!Next]_gateVars
BY DEF GatewayNext, allVars

LEMMA PartInits ==
    ASSUME GatewayInit
    PROVE  Init /\ Ids!Init /\ Group!Init /\ Paths!Init /\ Acts!Init /\ Gate!Init
BY DEF GatewayInit

-----------------------------------------------------------------------------
(* Cached settings.                                                         *)

\* Rows with a value in every field, whatever its kind.
AnyRow == [Fields -> Values \cup Models \cup {NoModel}]

Rows ==
    /\ row \in [Scopes -> AnyRow \cup {None}]
    /\ row[Global] # None

Shape ==
    /\ cache = [f \in Fields |-> [s \in Scopes |-> cache[f][s]]]
    /\ memCache = [c \in Chats |-> memCache[c]]

Link ==
    /\ wire \in Seq(Frame) /\ queue \in Seq(Frame)
    /\ ~online => wire = <<>>
    /\ Len(queue) <= QueueMax

Inv == Rows /\ Shape /\ Link /\ CachesFresh

-----------------------------------------------------------------------------
(* Entries and what makes them stale.                                       *)

FieldFresh(f, s) ==
    \/ cache[f][s] = Stored(row, f, s)
    \/ f = "prompt" /\ cache[f][s] = 0 /\ Stored(row, f, s) = row[Global][f]

FieldStale(f, s) == cache[f][s] # None /\ ~FieldFresh(f, s)
MemoryStale(c)   == memCache[c] # None /\ memCache[c] # Remembered(memory, c)
DefaultStale     == defCache # NoModel /\ defCache # catalog.default

\* The fields are settings, and no other entry has the name of one.
LEMMA FieldNames ==
    /\ "prompt" \in Fields /\ "model" \in Fields
    /\ "memory" \notin Fields /\ "default" \notin Fields
    /\ Global \in Scopes /\ Chats \subseteq Scopes
BY CachesAssumption DEF Fields, Scopes

\* The three kinds of entries.
LEMMA EntryKinds ==
    ASSUME NEW e \in Entries
    PROVE  \/ \E f \in Fields, s \in Scopes : e = <<f, s>>
           \/ \E c \in Chats : e = <<"memory", c>>
           \/ e = <<"default", Global>>
BY DEF Entries

LEMMA StaleField ==
    ASSUME NEW f \in Fields, NEW s \in Scopes
    PROVE  <<f, s>> \in Stale <=> FieldStale(f, s)
BY FieldNames DEF Stale, Entries, Cached, Fresh, FieldStale, FieldFresh

LEMMA StaleMemory ==
    ASSUME NEW c \in Chats
    PROVE  <<"memory", c>> \in Stale <=> MemoryStale(c)
BY DEF Stale, Entries, Cached, Fresh, MemoryStale

LEMMA StaleDefault == <<"default", Global>> \in Stale <=> DefaultStale
BY DEF Stale, Entries, Cached, Fresh, DefaultStale

\* The same of the next state.
LEMMA StaleFieldNext ==
    ASSUME NEW f \in Fields, NEW s \in Scopes
    PROVE  <<f, s>> \in Stale' <=> FieldStale(f, s)'
BY FieldNames DEF Stale, Entries, Cached, Fresh, FieldStale, FieldFresh

LEMMA StaleMemoryNext ==
    ASSUME NEW c \in Chats
    PROVE  <<"memory", c>> \in Stale' <=> MemoryStale(c)'
BY DEF Stale, Entries, Cached, Fresh, MemoryStale

LEMMA StaleDefaultNext == <<"default", Global>> \in Stale' <=> DefaultStale'
BY DEF Stale, Entries, Cached, Fresh, DefaultStale

\* To compare what is stale before and after a step, kind by kind.
LEMMA StaleWithin ==
    ASSUME NEW C,
           \A f \in Fields, s \in Scopes :
               FieldStale(f, s)' => FieldStale(f, s) \/ <<f, s>> \in C,
           \A c \in Chats : MemoryStale(c)' => MemoryStale(c) \/ <<"memory", c>> \in C,
           DefaultStale' => DefaultStale \/ <<"default", Global>> \in C
    PROVE  Stale' \subseteq Stale \cup C
<1> SUFFICES ASSUME NEW e \in Stale' PROVE e \in Stale \cup C
  OBVIOUS
<1>1. e \in Entries
  BY DEF Stale, Entries
<1>2. ASSUME NEW f \in Fields, NEW s \in Scopes, e = <<f, s>> PROVE e \in Stale \cup C
  BY <1>2, StaleField, StaleFieldNext
<1>3. ASSUME NEW c \in Chats, e = <<"memory", c>> PROVE e \in Stale \cup C
  BY <1>3, StaleMemory, StaleMemoryNext
<1>4. CASE e = <<"default", Global>>
  BY <1>4, StaleDefault, StaleDefaultNext
<1> QED
  BY <1>1, <1>2, <1>3, <1>4, EntryKinds

\* Nothing is stale in empty caches.
LEMMA EmptyIsFresh == EmptyCaches => Stale' = {}
<1> SUFFICES ASSUME EmptyCaches PROVE Stale' = {}
  OBVIOUS
<1>1. \A f \in Fields, s \in Scopes : ~FieldStale(f, s)'
  BY DEF EmptyCaches, FieldStale
<1>2. \A c \in Chats : ~MemoryStale(c)'
  BY DEF EmptyCaches, MemoryStale
<1>3. ~DefaultStale'
  BY DEF EmptyCaches, DefaultStale
<1>4. ASSUME NEW e \in Stale' PROVE FALSE
  <2>1. e \in Entries
    BY DEF Stale, Entries
  <2> QED
    BY <1>1, <1>2, <1>3, <2>1, EntryKinds, StaleFieldNext, StaleMemoryNext, StaleDefaultNext
<1> QED
  BY <1>4

-----------------------------------------------------------------------------
(* How far a row reaches.                                                   *)

\* What is stored for a scope depends on its row and the Global one.
LEMMA SameRows ==
    ASSUME NEW f, NEW s, cache'[f][s] = cache[f][s], row'[s] = row[s], row'[Global] = row[Global]
    PROVE  FieldStale(f, s)' <=> FieldStale(f, s)
BY DEF FieldStale, FieldFresh, Stored, RowOf

-----------------------------------------------------------------------------
(* Frames.                                                                  *)

LEMMA KnownFrames ==
    /\ \A s \in Scopes \cup {"global"} :
         SettingsChanged(s) \in Frame /\ SubagentChanged(s) \in Frame /\ ClearHistory(s) \in Frame
    /\ \A s \in Scopes : ModelChanged(s) \in Frame
    /\ CatalogChanged \in Frame
    /\ \A s \in Scopes, m \in Models \cup {NoModel} : SetModel(s, m) \in Frame
BY DEF Frame, SettingsChanged, SubagentChanged, ClearHistory, ModelChanged, CatalogChanged, SetModel

\* A frame of these kinds clears every entry.
LEMMA ClearsAll ==
    ASSUME NEW s
    PROVE  /\ Clears(SettingsChanged(s)) = Entries
           /\ Clears(SubagentChanged(s)) = Entries
           /\ Clears(CatalogChanged) = Entries
BY DEF Clears, SettingsChanged, SubagentChanged, CatalogChanged

LEMMA ClearsOne ==
    ASSUME NEW s, NEW m
    PROVE  /\ Clears(SetModel(s, m)) = Fields \X {s}
           /\ Clears(ModelChanged(s)) = {<<"model", s>>}
BY DEF Clears, SetModel, ModelChanged

\* Every frame under way is a position of the wire or of the queue.
LEMMA FrameUnderWay ==
    ASSUME NEW frame \in InFlight
    PROVE  Clears(frame) \subseteq Announced
BY DEF Announced

\* Frames that are sent, none of them dropped, join those under way.
LEMMA SendKeeps ==
    ASSUME Link, NEW frames \in Seq(Frame), Send(frames)
    PROVE  /\ Link'
           /\ Dropped(frames) = {} =>
                /\ InFlight \subseteq InFlight'
                /\ \A i \in 1..Len(frames) : frames[i] \in InFlight'
<1>1. CASE online
  <2>1. wire' = wire \o frames /\ UNCHANGED <<online, queue>>
    BY <1>1 DEF Send
  <2>2. wire \in Seq(Frame) /\ queue \in Seq(Frame)
    BY DEF Link
  <2>3. /\ wire' \in Seq(Frame)
        /\ Len(wire') = Len(wire) + Len(frames)
        /\ \A i \in 1..Len(wire) + Len(frames) :
             wire'[i] = IF i <= Len(wire) THEN wire[i] ELSE frames[i - Len(wire)]
    BY <2>1, <2>2, ConcatProperties
  <2>4. Len(wire) \in Nat /\ Len(frames) \in Nat /\ DOMAIN wire = 1..Len(wire)
        /\ DOMAIN wire' = 1..Len(wire')
    BY <2>2, <2>3, LenProperties
  <2>5. ASSUME NEW i \in DOMAIN wire PROVE i \in DOMAIN wire' /\ wire'[i] = wire[i]
    BY <2>3, <2>4
  <2>6. ASSUME NEW i \in 1..Len(frames)
        PROVE  i + Len(wire) \in DOMAIN wire' /\ wire'[i + Len(wire)] = frames[i]
    BY <2>3, <2>4
  <2>7. Link'
    BY <1>1, <2>1, <2>2, <2>3 DEF Link
  <2>8. InFlight \subseteq InFlight'
    BY <2>1, <2>5 DEF InFlight
  <2>9. \A i \in 1..Len(frames) : frames[i] \in InFlight'
    <3> TAKE i \in 1..Len(frames)
    <3> QED
      BY <2>6 DEF InFlight
  <2> QED
    BY <2>7, <2>8, <2>9
<1>2. CASE ~online
  <2> DEFINE all == queue \o frames
  <2>1. queue \in Seq(Frame) /\ wire \in Seq(Frame) /\ wire = <<>>
    BY <1>2 DEF Link
  <2>2. /\ all \in Seq(Frame)
        /\ Len(all) = Len(queue) + Len(frames)
        /\ \A i \in 1..Len(queue) + Len(frames) :
             all[i] = IF i <= Len(queue) THEN queue[i] ELSE frames[i - Len(queue)]
    BY <2>1, ConcatProperties
  <2>3. Len(queue) \in Nat /\ Len(frames) \in Nat /\ DOMAIN queue = 1..Len(queue)
        /\ Len(all) \in Nat /\ DOMAIN all = 1..Len(all)
    BY <2>1, <2>2, LenProperties
  <2> DEFINE extra == IF Len(all) > QueueMax THEN Len(all) - QueueMax ELSE 0
  <2>4. queue' = SubSeq(all, extra + 1, Len(all)) /\ UNCHANGED <<online, wire>>
    BY <1>2 DEF Send
  <2>5. extra \in Nat
    BY <2>3, CachesAssumption
  <2>6. queue' \in Seq(Frame) /\ Len(queue') <= QueueMax
    <3>1. \A i \in extra + 1 .. Len(all) : all[i] \in Frame
      BY <2>2, <2>3, <2>5, ElementOfSeq
    <3>2. Len(all) - extra <= QueueMax /\ extra <= Len(all) /\ Len(all) \in Nat /\ extra \in Nat
          /\ QueueMax \in Nat
      BY <2>3, CachesAssumption
    <3> HIDE DEF all, extra
    <3>3. /\ queue' \in Seq(Frame)
          /\ Len(queue') = IF extra + 1 <= Len(all) THEN Len(all) - (extra + 1) + 1 ELSE 0
      BY <2>3, <2>4, <2>5, <3>1, SubSeqProperties
    <3>4. CASE extra + 1 <= Len(all)
      BY <3>2, <3>3, <3>4
    <3>5. CASE ~(extra + 1 <= Len(all))
      BY <3>2, <3>3, <3>5
    <3> QED
      BY <3>4, <3>5
  <2>7. Link'
    BY <1>2, <2>1, <2>4, <2>6 DEF Link
  <2>8. ASSUME Dropped(frames) = {}
        PROVE  /\ InFlight \subseteq InFlight'
               /\ \A i \in 1..Len(frames) : frames[i] \in InFlight'
    <3>1. extra = 0
      <4>1. SUFFICES ASSUME Len(all) > QueueMax PROVE FALSE
        OBVIOUS
      <4>2. 1 \in 1..(Len(all) - QueueMax)
        BY <4>1, <2>3, CachesAssumption
      <4>3. all[1] \in Dropped(frames)
        BY <1>2, <4>1, <4>2, <2>3, CachesAssumption DEF Dropped
      <4> QED
        BY <2>8, <4>3
    <3>2. queue' = all
      <4>1. queue' = SubSeq(all, 1, Len(all))
        BY <2>4, <3>1
      <4> QED
        BY <2>2, <4>1, SubSeqFull
    <3>3. ASSUME NEW i \in DOMAIN queue PROVE i \in DOMAIN queue' /\ queue'[i] = queue[i]
      BY <2>2, <2>3, <3>2
    <3>4. ASSUME NEW i \in 1..Len(frames)
          PROVE  i + Len(queue) \in DOMAIN queue' /\ queue'[i + Len(queue)] = frames[i]
      BY <2>2, <2>3, <3>2
    <3> QED
      BY <2>4, <3>3, <3>4 DEF InFlight
  <2> QED
    BY <2>7, <2>8
<1> QED
  BY <1>1, <1>2

-----------------------------------------------------------------------------
(* Writes.                                                                  *)

\* A write whose frames clear every entry, or are in part dropped.
LEMMA AnnouncedWrite ==
    ASSUME Link, NEW frames \in Seq(Frame), Send(frames), Misses(Dropped(frames)),
           NEW i \in 1..Len(frames), Clears(frames[i]) = Entries
    PROVE  Link' /\ CachesFresh'
<1>1. Link'
  BY SendKeeps
<1>2. Stale' \subseteq Entries
  BY DEF Stale, Entries
<1>3. CASE Dropped(frames) = {}
  <2>1. frames[i] \in InFlight'
    BY <1>3, SendKeeps
  <2>2. Clears(frames[i]) \subseteq Announced'
    BY <2>1 DEF Announced, Clears, Entries
  <2> QED
    BY <1>1, <1>2, <2>2 DEF CachesFresh
<1>4. CASE Dropped(frames) # {}
  BY <1>1, <1>4 DEF Misses, CachesFresh
<1> QED
  BY <1>3, <1>4

\* A write that makes nothing stale but what its frames clear.
LEMMA NarrowWrite ==
    ASSUME Link, CachesFresh, NEW frames \in Seq(Frame), Send(frames),
           Misses(Dropped(frames)),
           NEW C, Stale' \subseteq Stale \cup C,
           \A e \in C : \E i \in 1..Len(frames) : e \in Clears(frames[i])
    PROVE  Link' /\ CachesFresh'
<1>1. Link'
  BY SendKeeps
<1>2. CASE Dropped(frames) = {}
  <2>1. InFlight \subseteq InFlight' /\ \A i \in 1..Len(frames) : frames[i] \in InFlight'
    BY <1>2, SendKeeps
  <2>2. Announced \subseteq Announced'
    BY <2>1 DEF Announced, Clears, Entries
  <2>3. C \subseteq Announced'
    BY <2>1 DEF Announced, Clears, Entries
  <2>4. missed \subseteq missed'
    BY <1>2 DEF Misses
  <2> QED
    BY <1>1, <2>2, <2>3, <2>4 DEF CachesFresh
<1>3. CASE Dropped(frames) # {}
  BY <1>1, <1>3 DEF Misses, CachesFresh
<1> QED
  BY <1>2, <1>3

-----------------------------------------------------------------------------
(* Rows.                                                                    *)

LEMMA NoneIsNoRow == None \notin AnyRow
<1>1. Values \cup Models \cup {NoModel} = Values \cup Models
  BY CachesAssumption DEF NoModel
<1> QED
  BY <1>1, CachesAssumption DEF AnyRow

\* A scope that is given a row of its own; the other rows stay.
LEMMA EnsuredRow ==
    ASSUME Rows, NEW s \in Scopes
    PROVE  /\ EnsureRow(row, s) \in [Scopes -> AnyRow \cup {None}]
           /\ EnsureRow(row, s)[s] \in AnyRow
           /\ \A t \in Scopes \ {s} : EnsureRow(row, s)[t] = row[t]
           /\ EnsureRow(row, s)[Global] = row[Global]
BY FieldNames DEF Rows, EnsureRow, RowOf

\* One field of it is stored.
LEMMA StoredField ==
    ASSUME Rows, NEW s \in Scopes, NEW f \in Fields,
           NEW v \in Values \cup Models \cup {NoModel},
           row' = [EnsureRow(row, s) EXCEPT ![s][f] = v]
    PROVE  /\ Rows'
           /\ row'[s] \in AnyRow /\ row'[s][f] = v
           /\ \A t \in Scopes \ {s} : row'[t] = row[t]
<1> DEFINE e == EnsureRow(row, s)
<1>1. /\ e \in [Scopes -> AnyRow \cup {None}] /\ e[s] \in AnyRow
      /\ \A t \in Scopes \ {s} : e[t] = row[t]
      /\ e[Global] = row[Global]
  BY EnsuredRow
<1> HIDE DEF e
<1>2. row' = [e EXCEPT ![s] = [e[s] EXCEPT ![f] = v]]
  BY <1>1 DEF e
<1>3. [e[s] EXCEPT ![f] = v] \in AnyRow /\ [e[s] EXCEPT ![f] = v][f] = v
  BY <1>1 DEF AnyRow
<1> QED
  BY <1>1, <1>2, <1>3, NoneIsNoRow, FieldNames DEF Rows

\* Settings other than the model take values.
LEMMA ShapeStays == ASSUME Shape, UNCHANGED cacheVars PROVE Shape'
BY DEF Shape, cacheVars

-----------------------------------------------------------------------------
(* Commands and buttons.                                                    *)

LEMMA AnnounceClears ==
    ASSUME NEW f, NEW s \in Scopes \cup {"global"}
    PROVE  /\ <<Announce(f, s)>> \in Seq(Frame)
           /\ Clears(<<Announce(f, s)>>[1]) = Entries
           /\ 1 \in 1..Len(<<Announce(f, s)>>)
BY KnownFrames, ClearsAll DEF Announce

LEMMA SetChatKeeps ==
    ASSUME Inv, NEW c \in Chats, NEW f \in Fields \ {"model"}, NEW v \in Values, SetChat(c, f, v)
    PROVE  Inv'
<1>1. c \in Scopes
  BY FieldNames
<1>2. /\ row' = [EnsureRow(row, c) EXCEPT ![c][f] = v]
      /\ Send(<<Announce(f, c)>>) /\ Misses(Dropped(<<Announce(f, c)>>))
      /\ UNCHANGED cacheVars
  BY DEF SetChat, Write
<1>3. Rows'
  BY <1>1, <1>2, StoredField DEF Inv
<1>4. Link' /\ CachesFresh'
  BY <1>1, <1>2, AnnounceClears, AnnouncedWrite DEF Inv
<1> QED
  BY <1>2, <1>3, <1>4, ShapeStays DEF Inv

LEMMA SetGlobalKeeps ==
    ASSUME Inv, NEW f \in Fields \ {"model"}, NEW v \in Values, SetGlobal(f, v)
    PROVE  Inv'
<1>1. /\ row' = [s \in Scopes |-> IF row[s] = None THEN None ELSE [row[s] EXCEPT ![f] = v]]
      /\ Send(<<Announce(f, "global")>>) /\ Misses(Dropped(<<Announce(f, "global")>>))
      /\ UNCHANGED cacheVars
  BY DEF SetGlobal, Write
<1>2. \A s \in Scopes : row[s] # None => [row[s] EXCEPT ![f] = v] \in AnyRow
  BY DEF Inv, Rows, AnyRow
<1>3. Rows'
  BY <1>1, <1>2, NoneIsNoRow, FieldNames DEF Inv, Rows
<1>4. Link' /\ CachesFresh'
  BY <1>1, AnnounceClears, AnnouncedWrite DEF Inv
<1> QED
  BY <1>1, <1>3, <1>4, ShapeStays DEF Inv

LEMMA SetDefaultKeeps ==
    ASSUME Inv, NEW f \in Fields \ {"model"}, NEW v \in Values, SetDefault(f, v)
    PROVE  Inv'
<1>1. /\ row' = [row EXCEPT ![Global][f] = v]
      /\ Send(<<Announce(f, "global")>>) /\ Misses(Dropped(<<Announce(f, "global")>>))
      /\ UNCHANGED cacheVars
  BY DEF SetDefault, Write
<1>2. row[Global] \in AnyRow /\ [row[Global] EXCEPT ![f] = v] \in AnyRow
  BY FieldNames DEF Inv, Rows, AnyRow
<1>3. Rows'
  BY <1>1, <1>2, NoneIsNoRow, FieldNames DEF Inv, Rows
<1>4. Link' /\ CachesFresh'
  BY <1>1, AnnounceClears, AnnouncedWrite DEF Inv
<1> QED
  BY <1>1, <1>3, <1>4, ShapeStays DEF Inv

\* The two frames of a model clear the entries of the chat; no other scope reads
\* its row.
LEMMA SelectModelKeeps ==
    ASSUME Inv, NEW c \in Chats, NEW m \in Models, NEW button, SelectModel(c, m, button)
    PROVE  Inv'
<1> DEFINE frames == <<SetModel(c, m), ModelChanged(c)>>
<1>1. c \in Scopes /\ c # Global /\ Global \in Scopes
  BY FieldNames, CachesAssumption
<1>2. /\ row' = [EnsureRow(row, c) EXCEPT ![c]["model"] = m]
      /\ Send(frames) /\ Misses(Dropped(frames))
      /\ UNCHANGED <<cacheVars, memory, catalog>>
  BY DEF SelectModel, Write
<1>3. Rows' /\ \A t \in Scopes \ {c} : row'[t] = row[t]
  BY <1>1, <1>2, StoredField, FieldNames DEF Inv
<1>4. frames \in Seq(Frame) /\ Len(frames) = 2 /\ frames[1] = SetModel(c, m)
  BY <1>1, KnownFrames
<1>5. Stale' \subseteq Stale \cup (Fields \X {c})
  <2>1. \A f \in Fields, s \in Scopes :
           FieldStale(f, s)' => FieldStale(f, s) \/ <<f, s>> \in Fields \X {c}
    <3> TAKE f \in Fields, s \in Scopes
    <3>1. CASE s = c
      BY <3>1
    <3>2. CASE s # c
      BY <1>1, <1>2, <1>3, <3>2, SameRows DEF cacheVars
    <3> QED
      BY <3>1, <3>2
  <2>2. (\A d \in Chats : MemoryStale(d)' <=> MemoryStale(d)) /\ (DefaultStale' <=> DefaultStale)
    BY <1>2 DEF MemoryStale, DefaultStale, Remembered, cacheVars
  <2> QED
    BY <2>1, <2>2, StaleWithin
<1>6. \A e \in Fields \X {c} : e \in Clears(frames[1]) /\ 1 \in 1..Len(frames)
  BY <1>4, ClearsOne
<1>7. Link' /\ CachesFresh'
  <2> HIDE DEF frames
  <2> QED
    BY <1>2, <1>4, <1>5, <1>6, NarrowWrite DEF Inv
<1> QED
  BY <1>2, <1>3, <1>7, ShapeStays DEF Inv

LEMMA NothingSent ==
    ASSUME Link
    PROVE  <<>> \in Seq(Frame) /\ Dropped(<<>>) = {}
<1>1. queue \o <<>> = queue
  BY ConcatEmptySeq DEF Link
<1> QED
  BY <1>1 DEF Dropped, Link

\* The chat's row is a copy of the one its settings came from.
LEMMA LearnDeviceKeeps ==
    ASSUME Inv, NEW c \in Chats, LearnDevice(c)
    PROVE  Inv'
<1>1. c \in Scopes /\ c # Global /\ Global \in Scopes
  BY FieldNames, CachesAssumption
<1>2. /\ row[c] = None /\ row' = EnsureRow(row, c)
      /\ Send(<<>>) /\ UNCHANGED <<cacheVars, memory, catalog, missed>>
  BY DEF LearnDevice, Write
<1>3. /\ row' \in [Scopes -> AnyRow \cup {None}]
      /\ \A t \in Scopes \ {c} : row'[t] = row[t]
  BY <1>1, <1>2, EnsuredRow DEF Inv
<1>4. row'[c] = row[Global] /\ row[Global] # None
  BY <1>1, <1>2 DEF EnsureRow, RowOf, Inv, Rows
<1>5. Stale' \subseteq Stale \cup {}
  <2>1. ASSUME NEW f \in Fields, NEW s \in Scopes, FieldStale(f, s)' PROVE FieldStale(f, s)
    <3>1. CASE s = c
      BY <1>1, <1>2, <1>3, <1>4, <2>1, <3>1
      DEF FieldStale, FieldFresh, Stored, RowOf, cacheVars
    <3>2. CASE s # c
      BY <1>1, <1>2, <1>3, <2>1, <3>2, SameRows DEF cacheVars
    <3> QED
      BY <3>1, <3>2
  <2>2. (\A d \in Chats : MemoryStale(d)' <=> MemoryStale(d)) /\ (DefaultStale' <=> DefaultStale)
    BY <1>2 DEF MemoryStale, DefaultStale, Remembered, cacheVars
  <2> QED
    BY <2>1, <2>2, StaleWithin
<1>6. Link' /\ CachesFresh'
  BY <1>2, <1>5, NothingSent, NarrowWrite DEF Inv, Misses
<1> QED
  BY <1>1, <1>2, <1>3, <1>4, <1>6, ShapeStays DEF Inv, Rows

LEMMA SetMemoryKeeps ==
    ASSUME Inv, NEW s \in Scopes, NEW m \in {0, 1}, SetMemory(s, m)
    PROVE  Inv'
<1> DEFINE scope == IF s = Global THEN "global" ELSE s
           frames == <<SettingsChanged(scope)>>
<1>1. row' = row /\ Send(frames) /\ Misses(Dropped(frames)) /\ UNCHANGED cacheVars
  BY DEF SetMemory, Write
<1>2. frames \in Seq(Frame) /\ Clears(frames[1]) = Entries /\ 1 \in 1..Len(frames)
  BY KnownFrames, ClearsAll
<1> HIDE DEF frames
<1>3. Link' /\ CachesFresh'
  BY <1>1, <1>2, AnnouncedWrite DEF Inv
<1> QED
  BY <1>1, <1>3, ShapeStays DEF Inv, Rows

-----------------------------------------------------------------------------
(* The control panel.                                                       *)

Body(S) == {b \in [S -> Values \cup Models \cup {NoModel}] : \A f \in S : b[f] \in Value(f)}

LEMMA StoresRows ==
    ASSUME Rows, NEW s \in Scopes, NEW S \in SUBSET Fields, NEW body \in Body(S), NEW n,
           row' = Stores(s, body, n)
    PROVE  Rows'
<1> DEFINE done == {f \in DOMAIN body : Rank[f] < n}
           base == EnsureRow(row, s)
           stored == [f \in Fields |-> IF f \in done THEN body[f] ELSE base[s][f]]
<1>1. CASE done = {}
  BY <1>1 DEF Stores, Rows
<1>2. CASE done # {}
  <2>1. row' = [base EXCEPT ![s] = stored]
    BY <1>2 DEF Stores
  <2>2. /\ base \in [Scopes -> AnyRow \cup {None}] /\ base[s] \in AnyRow
        /\ base[Global] = row[Global]
    BY EnsuredRow
  <2>3. stored \in AnyRow
    <3>1. \A f \in done : body[f] \in Values \cup Models \cup {NoModel}
      BY DEF Body
    <3>2. \A f \in Fields : base[s][f] \in Values \cup Models \cup {NoModel}
      BY <2>2 DEF AnyRow
    <3> HIDE DEF done, base
    <3> QED
      BY <3>1, <3>2 DEF AnyRow
  <2> HIDE DEF stored, base
  <2> QED
    BY <2>1, <2>2, <2>3, NoneIsNoRow, FieldNames DEF Rows
<1> QED
  BY <1>1, <1>2

\* Among the frames of an update is one that clears every entry.
LEMMA UpdateFrames ==
    ASSUME NEW s \in Scopes, NEW S \in SUBSET Fields, NEW body \in Body(S), NEW r
    PROVE  /\ PanelFrames(s, body, r) \in Seq(Frame)
           /\ \E i \in 1..Len(PanelFrames(s, body, r)) :
                Clears(PanelFrames(s, body, r)[i]) = Entries
<1> DEFINE scope == IF s = Global THEN "global" ELSE s
           A == IF "model" \in DOMAIN body
                   THEN <<SetModel(s, body["model"]), ModelChanged(s)>> ELSE <<>>
           B == <<SettingsChanged(scope)>>
           C == IF "subagent" \in Settings /\ RowOf(r, s)["subagent"] # RowOf(row, s)["subagent"]
                   THEN <<SubagentChanged(scope)>> ELSE <<>>
<1>1. A \in Seq(Frame)
  <2>1. "model" \in DOMAIN body => body["model"] \in Models \cup {NoModel}
    BY DEF Body, Value
  <2> QED
    BY <2>1, KnownFrames
<1>2. B \in Seq(Frame) /\ C \in Seq(Frame) /\ Len(B) = 1 /\ Clears(B[1]) = Entries
  BY KnownFrames, ClearsAll
<1>3. PanelFrames(s, body, r) = (A \o B) \o C
  BY DEF PanelFrames
<1> HIDE DEF A, B, C
<1>4. /\ A \o B \in Seq(Frame) /\ Len(A \o B) = Len(A) + 1 /\ Len(A) \in Nat
      /\ (A \o B)[Len(A) + 1] = B[1]
  <2>1. Len(A) \in Nat
    BY <1>1, LenProperties
  <2>2. Len(A) + 1 \in 1..Len(A) + Len(B) /\ ~(Len(A) + 1 <= Len(A)) /\ Len(A) + 1 - Len(A) = 1
    BY <1>2, <2>1
  <2>3. /\ A \o B \in Seq(Frame) /\ Len(A \o B) = Len(A) + Len(B)
        /\ \A i \in 1..Len(A) + Len(B) :
             (A \o B)[i] = IF i <= Len(A) THEN A[i] ELSE B[i - Len(A)]
    BY <1>1, <1>2, ConcatProperties
  <2>4. (A \o B)[Len(A) + 1] = B[Len(A) + 1 - Len(A)]
    BY <2>2, <2>3
  <2> QED
    BY <1>2, <2>1, <2>2, <2>3, <2>4
<1>5. /\ (A \o B) \o C \in Seq(Frame)
      /\ Len((A \o B) \o C) = Len(A) + 1 + Len(C) /\ Len(C) \in Nat
      /\ ((A \o B) \o C)[Len(A) + 1] = B[1]
  <2>1. Len(C) \in Nat
    BY <1>2, LenProperties
  <2>2. Len(A) + 1 \in 1..Len(A \o B) + Len(C) /\ Len(A) + 1 <= Len(A \o B)
    BY <1>4, <2>1
  <2> QED
    BY <1>2, <1>4, <2>1, <2>2, ConcatProperties
<1>6. Len(A) + 1 \in 1..Len(A) + 1 + Len(C)
  BY <1>4, <1>5
<1> QED
  BY <1>2, <1>3, <1>5, <1>6

LEMMA PanelUpdateKeeps ==
    ASSUME Inv, NEW s \in Scopes, NEW S \in SUBSET Fields, NEW body \in Body(S),
           PanelUpdate(s, body)
    PROVE  Inv'
<1> DEFINE frames == PanelFrames(s, body, Stores(s, body, 5))
<1>1. /\ row' = Stores(s, body, 5)
      /\ Send(frames) /\ Misses(Dropped(frames)) /\ UNCHANGED cacheVars
  BY DEF PanelUpdate, Write
<1>2. frames \in Seq(Frame) /\ \E i \in 1..Len(frames) : Clears(frames[i]) = Entries
  BY UpdateFrames
<1> HIDE DEF frames
<1>3. Link' /\ CachesFresh'
  BY <1>1, <1>2, AnnouncedWrite DEF Inv
<1> QED
  BY <1>1, <1>3, StoresRows, ShapeStays DEF Inv

\* What a rejected request left stale is a known miss.
LEMMA PanelRejectedKeeps ==
    ASSUME Inv, NEW s \in Scopes, NEW S \in SUBSET Fields, NEW body \in Body(S), NEW bad,
           PanelRejected(s, body, bad)
    PROVE  Inv'
<1>1. /\ row' = Stores(s, body, Rank[bad]) /\ Send(<<>>) /\ UNCHANGED cacheVars
      /\ missed' = missed \cup Stale'
  BY DEF PanelRejected, Write
<1>2. Link'
  BY <1>1, NothingSent, SendKeeps DEF Inv
<1>3. CachesFresh'
  BY <1>1 DEF CachesFresh
<1> QED
  BY <1>1, <1>2, <1>3, StoresRows, ShapeStays DEF Inv

LEMMA PanelClearKeeps ==
    ASSUME Inv, NEW c \in Chats, PanelClear(c)
    PROVE  Inv'
<1> DEFINE frames == <<SettingsChanged(c)>>
<1>1. row' = [row EXCEPT ![c] = None] /\ Send(frames) /\ Misses(Dropped(frames))
      /\ UNCHANGED cacheVars
  BY DEF PanelClear, Write
<1>2. c \in Scopes /\ c # Global
  BY FieldNames, CachesAssumption
<1>3. frames \in Seq(Frame) /\ Clears(frames[1]) = Entries /\ 1 \in 1..Len(frames)
  BY <1>2, KnownFrames, ClearsAll
<1>4. Rows'
  BY <1>1, <1>2, FieldNames DEF Inv, Rows
<1> HIDE DEF frames
<1>5. Link' /\ CachesFresh'
  BY <1>1, <1>3, AnnouncedWrite DEF Inv
<1> QED
  BY <1>1, <1>4, <1>5, ShapeStays DEF Inv

-----------------------------------------------------------------------------
(* The catalog of models.                                                   *)

LEMMA ChangeCatalogKeeps ==
    ASSUME Inv, NEW k, ChangeCatalog(k)
    PROVE  Inv'
<1> DEFINE frames == <<CatalogChanged>>
<1>1. row' = row /\ Send(frames) /\ Misses(Dropped(frames)) /\ UNCHANGED cacheVars
  BY DEF ChangeCatalog, Write
<1>2. frames \in Seq(Frame) /\ Clears(frames[1]) = Entries /\ 1 \in 1..Len(frames)
  BY KnownFrames, ClearsAll
<1> HIDE DEF frames
<1>3. Link' /\ CachesFresh'
  BY <1>1, <1>2, AnnouncedWrite DEF Inv
<1> QED
  BY <1>1, <1>3, ShapeStays DEF Inv, Rows

\* An order of a set of scopes lists nothing else.
LEMMA OrderOfScopes ==
    ASSUME NEW S \in SUBSET Scopes
    PROVE  Ext!SetToSeq(S) \in Seq(S) /\ Len(Ext!SetToSeq(S)) \in Nat
<1>1. IsFiniteSet(S)
  BY FS_AddElement, FS_Subset, CachesAssumption DEF Scopes
<1>2. Cardinality(S) \in Nat /\ ExistsBijection(1..Cardinality(S), S)
  BY <1>1, FS_CardinalityType
<1>3. Ext!Cardinality(S) = Cardinality(S)
  BY DEF Cardinality, Ext!Cardinality, Ext!IsFiniteSet
<1>4. PICK g \in [1..Cardinality(S) -> S] : Ext!IsInjective(g)
  BY <1>2 DEF ExistsBijection, Bijection, Injection, IsInjective, Ext!IsInjective
<1>5. Ext!SetToSeq(S) \in [1..Cardinality(S) -> S]
  BY <1>3, <1>4 DEF Ext!SetToSeq
<1> QED
  BY <1>2, <1>5, SeqDef, LenProperties

\* The catalog frame comes first, and clears every entry.
LEMMA DeleteFramesClear ==
    ASSUME NEW S \in SUBSET Scopes, NEW byPanel \in BOOLEAN
    PROVE  /\ DeleteFrames(S, byPanel) \in Seq(Frame)
           /\ 1 \in 1..Len(DeleteFrames(S, byPanel))
           /\ Clears(DeleteFrames(S, byPanel)[1]) = Entries
<1> DEFINE order == Ext!SetToSeq(S)
           each(s) == IF byPanel THEN <<SetModel(s, NoModel), ModelChanged(s)>>
                      ELSE <<SetModel(s, NoModel), ClearHistory(s), ModelChanged(s)>>
           n == IF byPanel THEN 2 ELSE 3
           rest == [i \in 1..(n * Len(order)) |->
                      each(order[((i - 1) \div n) + 1])[((i - 1) % n) + 1]]
<1>1. DeleteFrames(S, byPanel) = <<CatalogChanged>> \o rest
  BY DEF DeleteFrames
<1>2. order \in Seq(S) /\ Len(order) \in Nat
  BY OrderOfScopes
<1>3. \A s \in S, j \in 1..n : each(s)[j] \in Frame
  BY KnownFrames
<1>4. \A i \in 1..(n * Len(order)) :
          ((i - 1) \div n) + 1 \in 1..Len(order) /\ ((i - 1) % n) + 1 \in 1..n
  <2> HIDE DEF order
  <2>1. CASE byPanel
    BY <1>2, <2>1
  <2>2. CASE ~byPanel
    BY <1>2, <2>2
  <2> QED
    BY <2>1, <2>2
<1>5. n * Len(order) \in Nat
  BY <1>2
<1>6. \A i \in 1..(n * Len(order)) : rest[i] \in Frame
  <2> HIDE DEF n, each, order
  <2> TAKE i \in 1..(n * Len(order))
  <2>1. order[((i - 1) \div n) + 1] \in S
    BY <1>2, <1>4, ElementOfSeq
  <2> QED
    BY <1>3, <1>4, <2>1
<1> HIDE DEF n, each, order
<1>7. rest \in Seq(Frame)
  <2>1. rest \in [1..(n * Len(order)) -> Frame]
    BY <1>6
  <2> HIDE DEF rest
  <2> QED
    BY <1>5, <2>1, SeqDef
<1> HIDE DEF rest
<1>8. <<CatalogChanged>> \in Seq(Frame) /\ Len(<<CatalogChanged>>) = 1
  BY KnownFrames
<1>9. Len(rest) \in Nat
  BY <1>7, LenProperties
<1>10. /\ <<CatalogChanged>> \o rest \in Seq(Frame)
       /\ Len(<<CatalogChanged>> \o rest) = 1 + Len(rest)
       /\ \A i \in 1..1 + Len(rest) : (<<CatalogChanged>> \o rest)[i] =
             IF i <= 1 THEN <<CatalogChanged>>[i] ELSE rest[i - 1]
  BY <1>7, <1>8, ConcatProperties
<1>11. 1 \in 1..1 + Len(rest)
  BY <1>9
<1> QED
  BY <1>1, <1>10, <1>11, ClearsAll

LEMMA DeleteModelKeeps ==
    ASSUME Inv, NEW m \in Models, NEW byPanel \in BOOLEAN, DeleteModel(m, byPanel)
    PROVE  Inv'
<1> DEFINE S == {s \in Scopes : ModelIn(row, s) = m}
           frames == DeleteFrames(S, byPanel)
<1>1. /\ row' = [s \in Scopes |-> IF s \in S THEN [row[s] EXCEPT !["model"] = NoModel]
                                  ELSE row[s]]
      /\ Send(frames) /\ Misses(Dropped(frames)) /\ UNCHANGED cacheVars
  BY DEF DeleteModel, Write
<1>2. \A s \in S : row[s] \in AnyRow
  BY CachesAssumption DEF ModelIn, Inv, Rows
<1>3. \A s \in S : [row[s] EXCEPT !["model"] = NoModel] \in AnyRow
  BY <1>2 DEF AnyRow
<1>4. Rows'
  <2> HIDE DEF S
  <2> QED
    BY <1>1, <1>3, NoneIsNoRow, FieldNames DEF Inv, Rows
<1>5. S \in SUBSET Scopes
  OBVIOUS
<1>6. frames \in Seq(Frame) /\ 1 \in 1..Len(frames) /\ Clears(frames[1]) = Entries
  BY <1>5, DeleteFramesClear
<1> HIDE DEF frames
<1>7. Link' /\ CachesFresh'
  BY <1>1, <1>6, AnnouncedWrite DEF Inv
<1> QED
  BY <1>1, <1>4, <1>7, ShapeStays DEF Inv

-----------------------------------------------------------------------------
(* The bridge reads.                                                        *)

\* Entries may only become fresh while nothing else moves.
LEMMA FreshStays ==
    ASSUME CachesFresh, Stale' \subseteq Stale, UNCHANGED <<linkVars, missed>>
    PROVE  CachesFresh'
BY DEF CachesFresh, Announced, InFlight, Clears, Entries, linkVars

LEMMA ReadKeeps ==
    ASSUME Inv, Read
    PROVE  Inv'
<1>1. UNCHANGED <<dbVars, linkVars, missed>>
  BY DEF Read
<1>2. UNCHANGED <<row, memory, catalog>>
  BY <1>1 DEF dbVars
<1>3. Rows' /\ Link'
  BY <1>1, <1>2 DEF Inv, Rows, Link, linkVars
<1>4. ASSUME NEW f \in Fields, NEW c \in Chats, ReadSetting(f, c)
      PROVE  Shape' /\ Stale' \subseteq Stale \cup {}
  <2>1. /\ cache' = Fill(f, c) /\ UNCHANGED <<memCache, defCache>> /\ c \in Scopes
    BY <1>4, FieldNames DEF ReadSetting
  <2>2. Shape'
    BY <2>1 DEF Inv, Shape, Fill
  <2>3. ASSUME NEW g \in Fields, NEW s \in Scopes, FieldStale(g, s)' PROVE FieldStale(g, s)
    <3>1. cache'[g][s] = IF g = f /\ s = c /\ cache[g][s] = None THEN Stored(row, f, c)
                         ELSE cache[g][s]
      BY <2>1 DEF Fill, Inv, Shape
    <3>2. Stored(row', g, s) = Stored(row, g, s)
      BY <1>2
    <3> QED
      BY <1>2, <2>3, <3>1, <3>2 DEF FieldStale, FieldFresh
  <2>4. (\A d \in Chats : MemoryStale(d)' <=> MemoryStale(d)) /\ (DefaultStale' <=> DefaultStale)
    BY <1>2, <2>1 DEF MemoryStale, DefaultStale, Remembered
  <2> QED
    BY <2>2, <2>3, <2>4, StaleWithin
<1>5. ASSUME NEW c \in Chats, ReadPrompt(c)
      PROVE  Shape' /\ Stale' \subseteq Stale \cup {}
  <2> DEFINE own == Fill("prompt", c)
  <2>1. /\ UNCHANGED <<memCache, defCache>> /\ c \in Scopes
        /\ cache' = IF own["prompt"][c] = 0 /\ own["prompt"][Global] = None
                    THEN [own EXCEPT !["prompt"][Global] = Stored(row, "prompt", Global)]
                    ELSE own
    BY <1>5, FieldNames DEF ReadPrompt
  <2>2. own = [f \in Fields |-> [s \in Scopes |-> own[f][s]]]
    BY FieldNames DEF Fill, Inv, Shape
  <2>3. \A g \in Fields, s \in Scopes :
           own[g][s] = cache[g][s] \/ own[g][s] = Stored(row, g, s)
    BY FieldNames DEF Fill, Inv, Shape
  <2> HIDE DEF own
  <2>4. Shape'
    <3>1. cache' = own \/ cache' = [own EXCEPT !["prompt"][Global] = Stored(row, "prompt", Global)]
      BY <2>1
    <3>2. cache' = [f \in Fields |-> [s \in Scopes |-> cache'[f][s]]]
      BY <2>2, <3>1
    <3> QED
      BY <2>1, <3>2 DEF Inv, Shape
  <2>5. ASSUME NEW g \in Fields, NEW s \in Scopes, FieldStale(g, s)' PROVE FieldStale(g, s)
    <3>1. cache'[g][s] = cache[g][s] \/ cache'[g][s] = Stored(row, g, s)
      BY <2>1, <2>2, <2>3, FieldNames
    <3>2. Stored(row', g, s) = Stored(row, g, s)
      BY <1>2
    <3> QED
      BY <1>2, <2>5, <3>1, <3>2 DEF FieldStale, FieldFresh
  <2>6. (\A d \in Chats : MemoryStale(d)' <=> MemoryStale(d)) /\ (DefaultStale' <=> DefaultStale)
    BY <1>2, <2>1 DEF MemoryStale, DefaultStale, Remembered
  <2> QED
    BY <2>4, <2>5, <2>6, StaleWithin
<1>6. ASSUME NEW c \in Chats, ReadMemories(c)
      PROVE  Shape' /\ Stale' \subseteq Stale \cup {}
  <2>1. memCache' = [memCache EXCEPT ![c] = Remembered(memory, c)] /\ UNCHANGED <<cache, defCache>>
    BY <1>6 DEF ReadMemories
  <2>2. Shape'
    BY <2>1 DEF Inv, Shape
  <2>3. \A f \in Fields, s \in Scopes : FieldStale(f, s)' <=> FieldStale(f, s)
    BY <1>2, <2>1, SameRows
  <2>4. \A d \in Chats : MemoryStale(d)' => MemoryStale(d)
    BY <1>2, <2>1 DEF MemoryStale, Remembered, Inv, Shape
  <2>5. DefaultStale' <=> DefaultStale
    BY <1>2, <2>1 DEF DefaultStale
  <2> QED
    BY <2>2, <2>3, <2>4, <2>5, StaleWithin
<1>7. ASSUME ReadDefault PROVE Shape' /\ Stale' \subseteq Stale \cup {}
  <2>1. defCache' = catalog.default /\ UNCHANGED <<cache, memCache>>
    BY <1>7 DEF ReadDefault
  <2>2. Shape'
    BY <2>1 DEF Inv, Shape
  <2>3. \A f \in Fields, s \in Scopes : FieldStale(f, s)' <=> FieldStale(f, s)
    BY <1>2, <2>1, SameRows
  <2>4. \A d \in Chats : MemoryStale(d)' <=> MemoryStale(d)
    BY <1>2, <2>1 DEF MemoryStale, Remembered
  <2>5. ~DefaultStale'
    BY <1>2, <2>1 DEF DefaultStale
  <2> QED
    BY <2>2, <2>3, <2>4, <2>5, StaleWithin
<1>8. Shape' /\ Stale' \subseteq Stale \cup {}
  BY <1>4, <1>5, <1>6, <1>7 DEF Read
<1> QED
  BY <1>1, <1>3, <1>8, FreshStays DEF Inv

-----------------------------------------------------------------------------
(* The bridge handles a frame, and the connection.                          *)

\* What the handled frame does not clear, another one still does.
LEMMA HandledFrame ==
    ASSUME Link, wire # <<>>, wire' = Tail(wire), UNCHANGED queue,
           NEW e \in Announced, e \notin Clears(Head(wire))
    PROVE  e \in Announced'
<1>1. PICK frame \in InFlight : e \in Clears(frame)
  BY DEF Announced
<1>2. /\ Tail(wire) \in Seq(Frame) /\ Len(Tail(wire)) = Len(wire) - 1
      /\ \A i \in 1..Len(Tail(wire)) : Tail(wire)[i] = wire[i + 1]
  BY HeadTailProperties DEF Link
<1>3. /\ Len(wire) \in Nat /\ DOMAIN wire = 1..Len(wire)
      /\ Len(Tail(wire)) \in Nat /\ DOMAIN Tail(wire) = 1..Len(Tail(wire))
      /\ Head(wire) = wire[1]
  BY <1>2, LenProperties DEF Link
<1>4. frame \in InFlight'
  <2>1. CASE frame \in {queue[i] : i \in DOMAIN queue}
    BY <2>1 DEF InFlight
  <2>2. ASSUME NEW i \in DOMAIN wire, frame = wire[i] PROVE frame \in InFlight'
    <3>1. i # 1
      BY <1>1, <1>3, <2>2
    <3>2. i - 1 \in 1..Len(Tail(wire)) /\ (i - 1) + 1 = i
      BY <1>2, <1>3, <3>1
    <3>3. Tail(wire)[i - 1] = frame
      BY <1>2, <2>2, <3>2
    <3>4. i - 1 \in DOMAIN wire' /\ wire'[i - 1] = frame
      BY <1>3, <3>2, <3>3
    <3> QED
      BY <3>4 DEF InFlight
  <2> QED
    BY <1>1, <2>1, <2>2 DEF InFlight
<1> QED
  BY <1>1, <1>4 DEF Announced, Clears, Entries

\* A handled frame makes its own entries fresh, or the ones it misses known.
LEMMA HandledOne ==
    ASSUME Link, CachesFresh, wire # <<>>, wire' = Tail(wire), UNCHANGED queue,
           missed \ Clears(Head(wire)) \subseteq missed',
           Stale' \subseteq (Stale \ Clears(Head(wire))) \cup missed'
    PROVE  CachesFresh'
<1> SUFFICES ASSUME NEW e \in Stale', e \notin missed' PROVE e \in Announced'
  BY DEF CachesFresh
<1>1. e \in Stale /\ e \notin Clears(Head(wire))
  OBVIOUS
<1>2. e \in Announced
  BY <1>1 DEF CachesFresh
<1> QED
  BY <1>1, <1>2, HandledFrame

\* The model's entry of the scope is stored with the row; the other entries of
\* the scope are emptied.
LEMMA SetModelHandled ==
    ASSUME Inv, wire # <<>>, wire' = Tail(wire), UNCHANGED <<queue, online, memory, catalog>>,
           HandleSetModel(Head(wire))
    PROVE  Rows' /\ Shape' /\ CachesFresh'
<1>1. PICK frame \in Frame : frame = Head(wire)
  BY HeadTailProperties DEF Inv, Link
<1> DEFINE s == frame.scope
           m == frame.model
<1>2. frame.kind = "setModel" /\ s \in Scopes /\ m \in Models \cup {NoModel}
  BY <1>1 DEF HandleSetModel, Frame
<1>3. /\ row' = [EnsureRow(row, s) EXCEPT ![s]["model"] = m]
      /\ cache' = [f \in Fields |-> [cache[f] EXCEPT ![s] =
                      IF f = "model" THEN m ELSE None]]
      /\ UNCHANGED <<memCache, defCache>>
      /\ missed' = (missed \ Clears(frame)) \cup {e \in Stale' : s = Global /\ e[1] = "model"}
  BY <1>1 DEF HandleSetModel
<1> HIDE DEF s, m
<1>4. /\ Rows' /\ row'[s] \in AnyRow /\ row'[s]["model"] = m
      /\ \A t \in Scopes \ {s} : row'[t] = row[t]
  BY <1>2, <1>3, StoredField, FieldNames DEF Inv
<1>5. \A f \in Fields, t \in Scopes :
         cache'[f][t] = IF t = s THEN IF f = "model" THEN m ELSE None ELSE cache[f][t]
  BY <1>3 DEF Inv, Shape
<1>6. Shape'
  BY <1>3 DEF Inv, Shape
<1>7. Clears(frame) = Fields \X {s}
  BY <1>2 DEF Clears, s
<1>8. \A f \in Fields : ~FieldStale(f, s)'
  <2> TAKE f \in Fields
  <2>1. CASE f = "model"
    <3>1. Stored(row', f, s) = m
      BY <1>4, <2>1, NoneIsNoRow DEF Stored, RowOf
    <3> QED
      BY <1>2, <1>5, <2>1, <3>1 DEF FieldStale, FieldFresh
  <2>2. CASE f # "model"
    BY <1>2, <1>5, <2>2 DEF FieldStale
  <2> QED
    BY <2>1, <2>2
<1>9. ASSUME NEW f \in Fields, NEW t \in Scopes \ {s}, FieldStale(f, t)',
             ~(s = Global /\ f = "model")
      PROVE  FieldStale(f, t)
  <2>1. CASE s # Global
    BY <1>4, <1>5, <1>9, <2>1, SameRows, FieldNames
  <2>2. CASE s = Global /\ f # "model"
    <3>1. row'[Global][f] = row[Global][f]
      <4>1. EnsureRow(row, Global) = row
        BY DEF EnsureRow, RowOf, Inv, Rows
      <4>2. row' = [row EXCEPT ![Global]["model"] = m]
        BY <1>3, <2>2, <4>1
      <4> QED
        BY <2>2, <4>2, FieldNames DEF Inv, Rows, AnyRow
    <3>2. row'[t] = row[t] /\ cache'[f][t] = cache[f][t]
      BY <1>4, <1>5
    <3> QED
      BY <1>9, <3>1, <3>2 DEF FieldStale, FieldFresh, Stored, RowOf
  <2> QED
    BY <1>9, <2>1, <2>2
<1>10. ASSUME NEW e \in Stale'
       PROVE  e \in (Stale \ Clears(frame)) \cup missed'
  <2>1. e \in Entries
    BY DEF Stale, Entries
  <2>2. ASSUME NEW f \in Fields, NEW t \in Scopes, e = <<f, t>>
        PROVE  e \in (Stale \ Clears(frame)) \cup missed'
    <3>1. FieldStale(f, t)' /\ t # s
      BY <1>8, <2>2, StaleFieldNext
    <3>2. CASE s = Global /\ f = "model"
      BY <1>3, <2>2, <3>2
    <3>3. CASE ~(s = Global /\ f = "model")
      <4>1. FieldStale(f, t)
        BY <1>9, <3>1, <3>3
      <4>2. e \in Stale
        BY <2>2, <4>1, StaleField
      <4>3. e \notin Clears(frame)
        BY <1>7, <2>2, <3>1
      <4> QED
        BY <4>2, <4>3
    <3> QED
      BY <3>2, <3>3
  <2>3. ASSUME NEW c \in Chats, e = <<"memory", c>>
        PROVE  e \in Stale \ Clears(frame)
    <3>1. MemoryStale(c)
      BY <1>3, <2>3, StaleMemoryNext DEF MemoryStale, Remembered
    <3> QED
      BY <1>7, <2>3, <3>1, StaleMemory, FieldNames
  <2>4. CASE e = <<"default", Global>>
    <3>1. DefaultStale
      BY <1>3, <2>4, StaleDefaultNext DEF DefaultStale
    <3> QED
      BY <1>7, <2>4, <3>1, StaleDefault, FieldNames
  <2> QED
    BY <2>1, <2>2, <2>3, <2>4, EntryKinds
<1>11. missed \ Clears(frame) \subseteq missed'
  BY <1>3
<1>12. CachesFresh'
  BY <1>1, <1>10, <1>11, HandledOne DEF Inv
<1> QED
  BY <1>4, <1>6, <1>12

LEMMA ModelChangedHandled ==
    ASSUME Inv, wire # <<>>, wire' = Tail(wire), UNCHANGED <<queue, online, memory, catalog>>,
           HandleModelChanged(Head(wire))
    PROVE  Rows' /\ Shape' /\ CachesFresh'
<1>1. PICK frame \in Frame : frame = Head(wire)
  BY HeadTailProperties DEF Inv, Link
<1> DEFINE s == frame.scope
<1>2. frame.kind = "model" /\ s \in Scopes
  BY <1>1 DEF HandleModelChanged, Frame
<1>3. /\ cache' = [cache EXCEPT !["model"][s] = None]
      /\ missed' = missed \ Clears(frame)
      /\ UNCHANGED <<row, memCache, defCache>>
  BY <1>1 DEF HandleModelChanged
<1> HIDE DEF s
<1>4. Rows' /\ Shape'
  <2>1. cache' = [f \in Fields |-> [t \in Scopes |-> cache'[f][t]]]
    BY <1>3 DEF Inv, Shape
  <2> QED
    BY <1>3, <2>1 DEF Inv, Rows, Shape
<1>5. Clears(frame) = {<<"model", s>>}
  BY <1>2 DEF Clears, s
<1>6. \A f \in Fields, t \in Scopes :
         cache'[f][t] = IF f = "model" /\ t = s THEN None ELSE cache[f][t]
  BY <1>2, <1>3 DEF Inv, Shape
<1>7. Stale' \subseteq Stale \cup {}
  <2>1. ASSUME NEW f \in Fields, NEW t \in Scopes, FieldStale(f, t)' PROVE FieldStale(f, t)
    <3>1. cache'[f][t] = cache[f][t]
      BY <1>6, <2>1 DEF FieldStale
    <3> QED
      BY <1>3, <2>1, <3>1, SameRows
  <2>2. (\A d \in Chats : MemoryStale(d)' <=> MemoryStale(d)) /\ (DefaultStale' <=> DefaultStale)
    BY <1>3 DEF MemoryStale, DefaultStale, Remembered
  <2> QED
    BY <2>1, <2>2, StaleWithin
<1>8. <<"model", s>> \notin Stale'
  BY <1>2, <1>6, FieldNames, StaleFieldNext DEF FieldStale
<1>9. CachesFresh'
  BY <1>1, <1>3, <1>5, <1>7, <1>8, HandledOne DEF Inv
<1> QED
  BY <1>4, <1>9

LEMMA HandleKeeps ==
    ASSUME Inv, Handle
    PROVE  Inv'
<1>1. /\ wire # <<>> /\ wire' = Tail(wire)
      /\ UNCHANGED <<queue, online, memory, catalog>>
  BY DEF Handle
<1>2. Link'
  BY <1>1, HeadTailProperties DEF Inv, Link
<1>3. CASE HandleReset(Head(wire))
  <2>1. EmptyCaches /\ UNCHANGED row
    BY <1>3 DEF HandleReset
  <2> QED
    BY <1>2, <2>1, EmptyIsFresh DEF Inv, Rows, Shape, EmptyCaches, CachesFresh
<1>4. CASE HandleSetModel(Head(wire))
  BY <1>1, <1>2, <1>4, SetModelHandled DEF Inv
<1>5. CASE HandleModelChanged(Head(wire))
  BY <1>1, <1>2, <1>5, ModelChangedHandled DEF Inv
<1> QED
  BY <1>3, <1>4, <1>5 DEF Handle

\* What is stale does not depend on the connection.
LEMMA SameStale ==
    ASSUME UNCHANGED <<dbVars, cacheVars>>
    PROVE  Stale' = Stale
BY DEF Stale, Cached, Fresh, Entries, Stored, RowOf, Remembered, dbVars, cacheVars

LEMMA BreakKeeps == ASSUME Inv, Break PROVE Inv'
<1>1. /\ wire' = <<>> /\ UNCHANGED <<dbVars, cacheVars, queue>>
      /\ missed' = IF wire = <<>> THEN missed ELSE missed \cup Stale
  BY DEF Break
<1>2. Rows' /\ Shape' /\ Link'
  BY <1>1 DEF Inv, Rows, Shape, Link, dbVars, cacheVars
<1>3. Stale' = Stale
  BY <1>1, SameStale
<1>4. CachesFresh'
  <2>1. CASE wire = <<>>
    BY <1>1, <1>3, <2>1 DEF Inv, CachesFresh, Announced, InFlight, Clears, Entries
  <2>2. CASE wire # <<>>
    BY <1>1, <1>3, <2>2 DEF CachesFresh
  <2> QED
    BY <2>1, <2>2
<1> QED
  BY <1>2, <1>4 DEF Inv

LEMMA BridgeCrashKeeps == ASSUME Inv, BridgeCrash PROVE Inv'
<1>1. wire' = <<>> /\ UNCHANGED <<dbVars, queue>> /\ EmptyCaches
  BY DEF BridgeCrash
<1>2. Rows' /\ Shape' /\ Link'
  BY <1>1 DEF Inv, Rows, Shape, Link, dbVars, EmptyCaches
<1> QED
  BY <1>1, <1>2, EmptyIsFresh DEF Inv, CachesFresh

\* The queue is written to the new connection as it is.
LEMMA ConnectKeeps == ASSUME Inv, Connect PROVE Inv'
<1>1. /\ ~online /\ online' = TRUE /\ wire' = queue /\ queue' = <<>>
      /\ UNCHANGED <<dbVars, cacheVars, missed>>
  BY DEF Connect
<1>2. wire = <<>>
  BY <1>1 DEF Inv, Link
<1>3. Rows' /\ Shape'
  BY <1>1 DEF Inv, Rows, Shape, dbVars, cacheVars
<1>4. Link'
  BY <1>1, CachesAssumption DEF Inv, Link
<1>5. InFlight' = InFlight
  BY <1>1, <1>2 DEF InFlight
<1>6. Stale' = Stale
  BY <1>1, SameStale
<1>7. CachesFresh'
  BY <1>1, <1>5, <1>6 DEF Inv, CachesFresh, Announced, Clears, Entries
<1> QED
  BY <1>3, <1>4, <1>7 DEF Inv

-----------------------------------------------------------------------------
LEMMA InitInv == Init => Inv
<1> SUFFICES ASSUME Init PROVE Inv
  OBVIOUS
<1>1. Defaults \in AnyRow
  BY CachesAssumption DEF Defaults, AnyRow
<1>2. Rows
  BY <1>1, NoneIsNoRow, FieldNames DEF Init, Rows
<1>3. Shape
  BY DEF Init, Shape
<1>4. Link
  BY CachesAssumption DEF Init, Link
<1>5. \A e \in Entries : ~Cached(e)
  <2>1. \A f \in Fields, s \in Scopes : ~Cached(<<f, s>>)
    BY FieldNames DEF Init, Cached
  <2>2. \A c \in Chats : ~Cached(<<"memory", c>>)
    BY DEF Init, Cached
  <2>3. ~Cached(<<"default", Global>>)
    BY DEF Init, Cached
  <2> QED
    BY <2>1, <2>2, <2>3, EntryKinds
<1>6. CachesFresh
  BY <1>5 DEF CachesFresh, Stale
<1> QED
  BY <1>2, <1>3, <1>4, <1>6 DEF Inv

LEMMA NextInv == Inv /\ [Next]_vars => Inv'
<1> SUFFICES ASSUME Inv, [Next]_vars PROVE Inv'
  OBVIOUS
<1>1. CASE Owner
  BY <1>1, SetChatKeeps, SetGlobalKeeps, SetDefaultKeeps, SelectModelKeeps, LearnDeviceKeeps,
     SetMemoryKeeps, PanelClearKeeps DEF Owner
<1>2. CASE Panel
  <2>1. PICK s \in Scopes, S \in SUBSET Fields : \E body \in Body(S) :
           PanelUpdate(s, body) \/ \E bad \in S : PanelRejected(s, body, bad)
    BY <1>2 DEF Panel, Body
  <2>2. PICK body \in Body(S) :
           PanelUpdate(s, body) \/ \E bad \in S : PanelRejected(s, body, bad)
    BY <2>1
  <2> QED
    BY <2>2, PanelUpdateKeeps, PanelRejectedKeeps
<1>3. CASE Modelcfg
  <2>1. ASSUME NEW m \in Models, AddModel(m) PROVE Inv'
    BY <2>1, ChangeCatalogKeeps DEF AddModel
  <2>2. ASSUME NEW m \in Models, NEW b \in BOOLEAN, UpdateModel(m, b) PROVE Inv'
    BY <2>2, ChangeCatalogKeeps DEF UpdateModel
  <2>3. ASSUME NEW m \in Models, SetDefaultModel(m) PROVE Inv'
    BY <2>3, ChangeCatalogKeeps DEF SetDefaultModel
  <2> QED
    BY <1>3, <2>1, <2>2, <2>3, DeleteModelKeeps DEF Modelcfg
<1>4. CASE UNCHANGED vars
  <2>1. UNCHANGED <<dbVars, cacheVars>> /\ UNCHANGED <<online, queue, wire, missed>>
    BY <1>4 DEF vars, linkVars
  <2>2. Stale' = Stale
    BY <2>1, SameStale
  <2>3. CachesFresh'
    BY <2>1, <2>2 DEF Inv, CachesFresh, Announced, InFlight, Clears, Entries
  <2> QED
    BY <2>1, <2>3 DEF Inv, Rows, Shape, Link, dbVars, cacheVars
<1> QED
  BY <1>1, <1>2, <1>3, <1>4, ReadKeeps, HandleKeeps, BreakKeeps, BridgeCrashKeeps, ConnectKeeps
  DEF Next

\* The caches of the bridge: whatever it has cached is what the database holds,
\* or a frame that clears the entry is under way, or the entry is one of the
\* known misses.
THEOREM CachesFreshAlways == GatewaySpec => []CachesFresh
<1>1. GatewayInit => Inv
  BY PartInits, InitInv
<1>2. Inv /\ [GatewayNext]_allVars => Inv'
  BY PartSteps, NextInv
<1>3. Inv => CachesFresh
  BY DEF Inv
<1> QED
  BY <1>1, <1>2, <1>3, PTL DEF GatewaySpec

-----------------------------------------------------------------------------
(* The model of a chat.                                                     *)

\* The frames on their way, oldest first: all on the wire, or all in the queue.
Pipe == IF online THEN wire ELSE queue

SetsModel(frame, s) == frame.kind = "setModel" /\ frame.scope = s

\* Position i of q has the last frame that sets the model of s.
LastOf(q, s, i) ==
    /\ i \in 1 .. Len(q) /\ SetsModel(q[i], s)
    /\ \A j \in 1 .. Len(q) : SetsModel(q[j], s) => j <= i

Awaits(q, s) == \E i \in 1 .. Len(q) : SetsModel(q[i], s)

\* The last of the frames brings the model the gateway chose, and has a row to
\* bring it to; without one the row has that model.
Kept(s) ==
    /\ \A i \in 1 .. Len(Pipe) : LastOf(Pipe, s, i) => Pipe[i].model = chosen[s]
    /\ Awaits(Pipe, s) => row[s] # None
    /\ ~Awaits(Pipe, s) => ModelIn(row, s) = chosen[s]

KeptInv ==
    /\ Rows /\ Link
    /\ online => queue = <<>>
    /\ \A s \in Scopes \ overtaken : Kept(s)

\* A frame is on its way exactly if it is in the pipe.
LEMMA PipeInFlight ==
    ASSUME KeptInv
    PROVE  /\ Pipe \in Seq(Frame) /\ Len(Pipe) \in Nat
           /\ \A s : s \in ModelFrames(InFlight) <=> Awaits(Pipe, s)
<1>1. Pipe \in Seq(Frame) /\ Len(Pipe) \in Nat /\ DOMAIN Pipe = 1 .. Len(Pipe)
  BY DEF KeptInv, Link, Pipe
<1>2. InFlight = {Pipe[i] : i \in DOMAIN Pipe}
  <2>1. DOMAIN <<>> = {}
    OBVIOUS
  <2> QED
    BY <2>1 DEF KeptInv, Link, InFlight, Pipe
<1> QED
  BY <1>1, <1>2 DEF ModelFrames, Awaits, SetsModel

LEMMA KeptMeans == KeptInv => ModelsKept
BY PipeInFlight DEF KeptInv, Kept, ModelsKept

\* What the pipe holds of a scope after a Send that drops nothing of it.
Follows(new, prior, frames, s) ==
    \E d \in Nat :
        /\ new \in Seq(Frame) /\ Len(new) + d = Len(prior) + Len(frames)
        /\ \A i \in 1 .. Len(new) :
              new[i] = IF i + d <= Len(prior) THEN prior[i + d] ELSE frames[i + d - Len(prior)]
        /\ \A i \in 1 .. Len(prior) : SetsModel(prior[i], s) => d < i
        /\ \A i \in 1 .. Len(frames) : SetsModel(frames[i], s) => d < i + Len(prior)

LEMMA WhatIsLeft ==
    ASSUME NEW all \in Nat, NEW d \in Nat, d <= all,
           NEW n, n = IF d + 1 <= all THEN all - (d + 1) + 1 ELSE 0
    PROVE  n + d = all /\ n \in Nat
OBVIOUS

LEMMA SendFollows ==
    ASSUME KeptInv, NEW frames \in Seq(Frame), Send(frames),
           NEW s \in Scopes \ ModelFrames(Dropped(frames))
    PROVE  Follows(Pipe', Pipe, frames, s) /\ Link' /\ (online => queue = <<>>)'
<1>0. wire \in Seq(Frame) /\ queue \in Seq(Frame) /\ Link
  BY DEF KeptInv, Link
<1>1. Link'
  BY <1>0, SendKeeps
<1>2. CASE online
  <2>1. Pipe = wire /\ Pipe' = wire \o frames /\ online' = online /\ queue' = queue
    BY <1>2 DEF Send, Pipe
  <2>2. /\ Pipe' \in Seq(Frame)
        /\ Len(Pipe') = Len(wire) + Len(frames)
        /\ \A i \in 1..Len(wire) + Len(frames) :
             Pipe'[i] = IF i <= Len(wire) THEN wire[i] ELSE frames[i - Len(wire)]
    BY <1>0, <2>1, ConcatProperties
  <2>3. Len(wire) \in Nat /\ Len(frames) \in Nat
    BY <1>0, LenProperties
  <2>4. Len(Pipe') + 0 = Len(wire) + Len(frames)
    BY <2>2, <2>3
  <2>5. \A i \in 1 .. Len(Pipe') :
           Pipe'[i] = IF i + 0 <= Len(wire) THEN wire[i + 0] ELSE frames[i + 0 - Len(wire)]
    BY <2>2, <2>3
  <2>6. /\ \A i \in 1 .. Len(wire) : 0 < i
        /\ \A i \in 1 .. Len(frames) : 0 < i + Len(wire)
    BY <2>3
  <2>7. Follows(Pipe', Pipe, frames, s)
    BY <2>1, <2>2, <2>4, <2>5, <2>6 DEF Follows
  <2> QED
    BY <1>1, <2>1, <2>7 DEF KeptInv
<1>3. CASE ~online
  <2> DEFINE all == queue \o frames
             d == IF Len(all) > QueueMax THEN Len(all) - QueueMax ELSE 0
  <2>1. Pipe = queue /\ online' = online /\ Pipe' = SubSeq(all, d + 1, Len(all))
    BY <1>3 DEF Send, Pipe
  <2>2. /\ all \in Seq(Frame)
        /\ Len(all) = Len(queue) + Len(frames)
        /\ \A i \in 1..Len(queue) + Len(frames) :
             all[i] = IF i <= Len(queue) THEN queue[i] ELSE frames[i - Len(queue)]
    BY <1>0, ConcatProperties
  <2>3. Len(queue) \in Nat /\ Len(frames) \in Nat /\ Len(all) \in Nat
    BY <1>0, <2>2, LenProperties
  <2>4. d \in Nat /\ d <= Len(all)
    BY <2>3, CachesAssumption
  <2>5. \A i \in 1 .. d : i \in 1 .. Len(all) /\ ~SetsModel(all[i], s)
    <3> SUFFICES ASSUME NEW i \in 1 .. d, SetsModel(all[i], s) PROVE FALSE
      BY <2>3, <2>4
    <3>1. Len(all) > QueueMax /\ d = Len(all) - QueueMax
      BY <2>3
    <3>2. ~(Len(all) <= QueueMax)
      BY <2>3, <3>1, CachesAssumption
    <3>3. all[i] \in Dropped(frames)
      <4> HIDE DEF all
      <4>1. i \in 1 .. (Len(all) - QueueMax)
        BY <3>1
      <4> QED
        BY <1>3, <3>2, <4>1 DEF Dropped, all
    <3> QED
      BY <3>3 DEF ModelFrames, SetsModel
  <2> HIDE DEF all, d
  <2>6. \A i \in d + 1 .. Len(all) : all[i] \in Frame
    BY <2>2, <2>3, <2>4, ElementOfSeq
  <2>7. /\ Pipe' \in Seq(Frame)
        /\ Len(Pipe') = IF d + 1 <= Len(all) THEN Len(all) - (d + 1) + 1 ELSE 0
        /\ \A i \in 1 .. Len(all) - (d + 1) + 1 : Pipe'[i] = all[(d + 1) + i - 1]
    BY <2>1, <2>2, <2>3, <2>4, <2>6, SubSeqProperties
  <2>8. Len(Pipe') + d = Len(queue) + Len(frames) /\ Len(Pipe') \in Nat
    <3>1. Len(Pipe') + d = Len(all) /\ Len(Pipe') \in Nat
      BY <2>3, <2>4, <2>7, WhatIsLeft
    <3> QED
      BY <2>2, <3>1
  <2>9. \A i \in 1 .. Len(Pipe') :
           Pipe'[i] = IF i + d <= Len(queue) THEN queue[i + d] ELSE frames[i + d - Len(queue)]
    <3> SUFFICES ASSUME NEW i \in 1 .. Len(Pipe')
                 PROVE  Pipe'[i] = IF i + d <= Len(queue) THEN queue[i + d]
                                   ELSE frames[i + d - Len(queue)]
      OBVIOUS
    <3>1. PICK k \in 1 .. Len(queue) + Len(frames) : k = i + d
      BY <2>2, <2>3, <2>4, <2>8
    <3>2. i \in 1 .. Len(all) - (d + 1) + 1 /\ (d + 1) + i - 1 = k
      BY <2>2, <2>3, <2>4, <2>8, <3>1
    <3>3. Pipe'[i] = all[k]
      BY <2>7, <3>2
    <3>4. all[k] = IF k <= Len(queue) THEN queue[k] ELSE frames[k - Len(queue)]
      BY <2>2
    <3>5. CASE k <= Len(queue)
      <4>1. i + d <= Len(queue) /\ Pipe'[i] = queue[i + d]
        BY ONLY <3>1, <3>3, <3>4, <3>5
      <4> QED
        BY ONLY <4>1
    <3>6. CASE ~(k <= Len(queue))
      <4>1. ~(i + d <= Len(queue)) /\ Pipe'[i] = frames[i + d - Len(queue)]
        <5>1. k - Len(queue) = i + d - Len(queue)
          BY <2>3, <2>4, <2>8, <3>1
        <5> QED
          BY <2>3, <2>4, <2>8, <3>1, <3>3, <3>4, <3>6, <5>1
      <4> QED
        BY ONLY <4>1
    <3> QED
      BY ONLY <3>5, <3>6
  <2>10. \A i \in 1 .. Len(queue) : SetsModel(queue[i], s) => d < i
    <3> SUFFICES ASSUME NEW i \in 1 .. Len(queue), SetsModel(queue[i], s), ~(d < i)
                 PROVE  FALSE
      OBVIOUS
    <3>1. i \in 1 .. d /\ i \in 1 .. Len(queue) + Len(frames) /\ i <= Len(queue)
      BY <2>3, <2>4
    <3>2. all[i] = queue[i]
      BY <2>2, <3>1
    <3> QED
      BY <2>5, <3>1, <3>2
  <2>11. \A i \in 1 .. Len(frames) : SetsModel(frames[i], s) => d < i + Len(queue)
    <3> SUFFICES ASSUME NEW i \in 1 .. Len(frames), SetsModel(frames[i], s),
                        ~(d < i + Len(queue))
                 PROVE  FALSE
      OBVIOUS
    <3>1. /\ i + Len(queue) \in 1 .. d /\ i + Len(queue) \in 1 .. Len(queue) + Len(frames)
          /\ ~(i + Len(queue) <= Len(queue)) /\ i + Len(queue) - Len(queue) = i
      BY <2>3, <2>4
    <3>2. all[i + Len(queue)] = frames[i]
      BY <2>2, <3>1
    <3> QED
      BY <2>5, <3>1, <3>2
  <2>12. Follows(Pipe', Pipe, frames, s)
    BY <2>1, <2>4, <2>7, <2>8, <2>9, <2>10, <2>11 DEF Follows
  <2> QED
    BY <1>1, <1>3, <2>1, <2>12
<1> QED
  BY <1>2, <1>3

\* Frames that do not set the model of a scope leave it what is on its way.
LEMMA FollowsNone ==
    ASSUME NEW prior \in Seq(Frame), NEW new, NEW frames \in Seq(Frame), NEW s,
           Follows(new, prior, frames, s),
           \A i \in 1 .. Len(frames) : ~SetsModel(frames[i], s)
    PROVE  /\ Awaits(new, s) <=> Awaits(prior, s)
           /\ \A i \in 1 .. Len(new) : LastOf(new, s, i) =>
                 \E j \in 1 .. Len(prior) : LastOf(prior, s, j) /\ prior[j] = new[i]
<1> PICK d \in Nat :
        /\ new \in Seq(Frame) /\ Len(new) + d = Len(prior) + Len(frames)
        /\ \A i \in 1 .. Len(new) :
              new[i] = IF i + d <= Len(prior) THEN prior[i + d] ELSE frames[i + d - Len(prior)]
        /\ \A i \in 1 .. Len(prior) : SetsModel(prior[i], s) => d < i
        /\ \A i \in 1 .. Len(frames) : SetsModel(frames[i], s) => d < i + Len(prior)
  BY DEF Follows
<1>1. Len(prior) \in Nat /\ Len(new) \in Nat /\ Len(frames) \in Nat
  BY LenProperties
<1>2. \A i \in 1 .. Len(new) : SetsModel(new[i], s) =>
          i + d \in 1 .. Len(prior) /\ new[i] = prior[i + d]
  <2> SUFFICES ASSUME NEW i \in 1 .. Len(new), SetsModel(new[i], s)
               PROVE  i + d \in 1 .. Len(prior) /\ new[i] = prior[i + d]
    OBVIOUS
  <2>1. CASE i + d <= Len(prior)
    BY <1>1, <2>1
  <2>2. CASE ~(i + d <= Len(prior))
    <3>1. i + d - Len(prior) \in 1 .. Len(frames)
      BY <1>1, <2>2
    <3> QED
      BY <2>2, <3>1
  <2> QED
    BY <2>1, <2>2
<1>3. \A j \in 1 .. Len(prior) : SetsModel(prior[j], s) =>
          j - d \in 1 .. Len(new) /\ new[j - d] = prior[j]
  <2> SUFFICES ASSUME NEW j \in 1 .. Len(prior), SetsModel(prior[j], s)
               PROVE  j - d \in 1 .. Len(new) /\ new[j - d] = prior[j]
    OBVIOUS
  <2>1. j - d \in 1 .. Len(new) /\ (j - d) + d = j /\ j <= Len(prior)
    BY <1>1
  <2> QED
    BY <2>1
<1>4. Awaits(new, s) <=> Awaits(prior, s)
  BY <1>2, <1>3 DEF Awaits
<1>5. ASSUME NEW i \in 1 .. Len(new), LastOf(new, s, i)
      PROVE  \E j \in 1 .. Len(prior) : LastOf(prior, s, j) /\ prior[j] = new[i]
  <2>1. SetsModel(new[i], s)
    BY <1>5 DEF LastOf
  <2>2. i + d \in 1 .. Len(prior) /\ new[i] = prior[i + d]
    BY <1>2, <2>1
  <2>3. ASSUME NEW k \in 1 .. Len(prior), SetsModel(prior[k], s) PROVE k <= i + d
    <3>1. k - d \in 1 .. Len(new) /\ SetsModel(new[k - d], s)
      BY <1>3, <2>3
    <3>2. k - d <= i
      BY <1>5, <3>1 DEF LastOf
    <3> QED
      BY <1>1, <3>2
  <2> QED
    BY <2>1, <2>2, <2>3 DEF LastOf
<1> QED
  BY <1>4, <1>5

\* The last frame of a scope that is sent comes last.
LEMMA FollowsSome ==
    ASSUME NEW prior \in Seq(Frame), NEW new, NEW frames \in Seq(Frame), NEW s, NEW v,
           Follows(new, prior, frames, s), Awaits(frames, s),
           \A i \in 1 .. Len(frames) : SetsModel(frames[i], s) => frames[i].model = v
    PROVE  /\ Awaits(new, s)
           /\ \A i \in 1 .. Len(new) : LastOf(new, s, i) => new[i].model = v
<1> PICK d \in Nat :
        /\ new \in Seq(Frame) /\ Len(new) + d = Len(prior) + Len(frames)
        /\ \A i \in 1 .. Len(new) :
              new[i] = IF i + d <= Len(prior) THEN prior[i + d] ELSE frames[i + d - Len(prior)]
        /\ \A i \in 1 .. Len(prior) : SetsModel(prior[i], s) => d < i
        /\ \A i \in 1 .. Len(frames) : SetsModel(frames[i], s) => d < i + Len(prior)
  BY DEF Follows
<1>1. Len(prior) \in Nat /\ Len(new) \in Nat /\ Len(frames) \in Nat
  BY LenProperties
<1> PICK k \in 1 .. Len(frames) : SetsModel(frames[k], s)
  BY DEF Awaits
<1>2. /\ k + Len(prior) - d \in 1 .. Len(new)
      /\ ~(k + Len(prior) - d + d <= Len(prior)) /\ k + Len(prior) - d + d - Len(prior) = k
  BY <1>1
<1>3. SetsModel(new[k + Len(prior) - d], s)
  BY <1>2
<1>4. ASSUME NEW i \in 1 .. Len(new), LastOf(new, s, i) PROVE new[i].model = v
  <2>1. k + Len(prior) - d <= i /\ SetsModel(new[i], s)
    BY <1>2, <1>3, <1>4 DEF LastOf
  <2>2. i + d - Len(prior) \in 1 .. Len(frames) /\ ~(i + d <= Len(prior))
    BY <1>1, <2>1
  <2>3. new[i] = frames[i + d - Len(prior)]
    BY <2>2
  <2> QED
    BY <2>1, <2>2, <2>3
<1> QED
  BY <1>2, <1>3, <1>4 DEF Awaits

-----------------------------------------------------------------------------
(* What a write does to the model of a scope.                               *)

\* It touches neither the row's model nor the frames about it.
Leaves(r, S, frames, s) ==
    /\ s \notin overtaken /\ ~Awaits(frames, s) /\ s \notin S
    /\ ModelIn(r, s) = ModelIn(row, s) /\ (row[s] # None => r[s] # None)

\* It gives the row a model, while no frame about it is on its way.
Rewrites(S, frames, s) ==
    s \notin overtaken /\ ~Awaits(frames, s) /\ s \in S /\ ~Awaits(Pipe, s)

\* The frames have no other model for the scope.
OnlyModel(frames, s, v) ==
    \A i \in 1 .. Len(frames) : SetsModel(frames[i], s) => frames[i].model = v

\* It gives the row a model and announces it.
Announces(r, S, frames, s) ==
    /\ Awaits(frames, s) /\ OnlyModel(frames, s, ModelIn(r, s))
    /\ s \in S /\ r[s] # None

LEMMA WriteKeeps ==
    ASSUME KeptInv, Rows', NEW r, NEW S, NEW frames \in Seq(Frame), NEW over,
           Write(r, S, frames, over),
           \A s \in Scopes \ (over \cup ModelFrames(Dropped(frames))) :
               Leaves(r, S, frames, s) \/ Rewrites(S, frames, s) \/ Announces(r, S, frames, s)
    PROVE  KeptInv'
<1>1. /\ row' = r /\ Send(frames)
      /\ chosen' = [s \in Scopes |-> IF s \in S THEN ModelIn(r, s) ELSE chosen[s]]
      /\ overtaken' = over \cup ModelFrames(Dropped(frames))
  BY DEF Write
<1>2. Link' /\ (online => queue = <<>>)'
  <2>1. CASE online
    BY <1>1, <2>1, SendKeeps DEF KeptInv, Send
  <2>2. CASE ~online
    BY <1>1, <2>2, SendKeeps DEF KeptInv, Send
  <2> QED
    BY <2>1, <2>2
<1>3. Pipe \in Seq(Frame) /\ Len(Pipe) \in Nat
  BY PipeInFlight
<1>4. ASSUME NEW s \in Scopes \ overtaken' PROVE Kept(s)'
  <2>1. s \in Scopes \ ModelFrames(Dropped(frames)) /\ s \in Scopes
    BY <1>1, <1>4
  <2>2. Follows(Pipe', Pipe, frames, s)
    BY <1>1, <2>1, SendFollows
  <2> DEFINE pipe == Pipe
             next == Pipe'
  <2>3. ASSUME ~Awaits(frames, s)
        PROVE  /\ Awaits(next, s) <=> Awaits(pipe, s)
               /\ \A i \in 1 .. Len(next) : LastOf(next, s, i) =>
                     \E j \in 1 .. Len(pipe) : LastOf(pipe, s, j) /\ pipe[j] = next[i]
    <3>1. \A i \in 1 .. Len(frames) : ~SetsModel(frames[i], s)
      BY <2>3 DEF Awaits
    <3>2. pipe \in Seq(Frame) /\ Follows(next, pipe, frames, s)
      BY <1>3, <2>2
    <3> HIDE DEF pipe, next
    <3> QED
      BY <3>1, <3>2, FollowsNone
  <2>4. ModelIn(row, s)' = ModelIn(r, s) /\ row'[s] = r[s]
    BY <1>1 DEF ModelIn
  <2>5. CASE Leaves(r, S, frames, s)
    <3>1. /\ s \notin overtaken /\ ~Awaits(frames, s) /\ chosen'[s] = chosen[s]
          /\ ModelIn(r, s) = ModelIn(row, s) /\ (row[s] # None => r[s] # None)
      BY <1>1, <2>1, <2>5 DEF Leaves
    <3>2. Kept(s)
      BY <2>1, <3>1 DEF KeptInv
    <3>3. ASSUME NEW i \in 1 .. Len(next), LastOf(next, s, i) PROVE next[i].model = chosen[s]
      <4>1. PICK j \in 1 .. Len(pipe) : LastOf(pipe, s, j) /\ pipe[j] = next[i]
        BY <2>3, <3>1, <3>3
      <4> QED
        BY <3>2, <4>1 DEF Kept
    <3> QED
      BY <2>3, <2>4, <3>1, <3>2, <3>3 DEF Kept
  <2>6. CASE Rewrites(S, frames, s)
    <3>1. /\ ~Awaits(frames, s) /\ ~Awaits(pipe, s)
          /\ chosen'[s] = ModelIn(r, s)
      BY <1>1, <2>1, <2>6 DEF Rewrites
    <3>2. ~Awaits(next, s) /\ \A i \in 1 .. Len(next) : ~LastOf(next, s, i)
      BY <2>3, <3>1 DEF Awaits, LastOf
    <3> QED
      BY <2>4, <3>1, <3>2 DEF Kept
  <2>7. CASE Announces(r, S, frames, s)
    <3>1. /\ Awaits(frames, s) /\ r[s] # None /\ chosen'[s] = ModelIn(r, s)
          /\ \A i \in 1 .. Len(frames) :
                SetsModel(frames[i], s) => frames[i].model = ModelIn(r, s)
      BY <1>1, <2>1, <2>7 DEF Announces, OnlyModel
    <3>2. /\ Awaits(next, s)
          /\ \A i \in 1 .. Len(next) : LastOf(next, s, i) => next[i].model = ModelIn(r, s)
      BY <1>3, <2>2, <3>1, FollowsSome
    <3> QED
      BY <2>4, <3>1, <3>2 DEF Kept
  <2> QED
    BY <1>1, <1>4, <2>1, <2>5, <2>6, <2>7
<1> QED
  BY <1>2, <1>4 DEF KeptInv

-----------------------------------------------------------------------------
(* The frames of the commands.                                              *)

\* A frame that is no set_llm2_model sets no model.
LEMMA NoModelFrames ==
    ASSUME NEW s
    PROVE  /\ ~Awaits(<<>>, s)
           /\ \A f, t : ~Awaits(<<Announce(f, t)>>, s)
           /\ \A t : ~Awaits(<<SettingsChanged(t)>>, s)
           /\ ~Awaits(<<CatalogChanged>>, s)
<1>1. ~Awaits(<<>>, s)
  BY DEF Awaits
<1>2. ASSUME NEW g, g.kind # "setModel" PROVE ~Awaits(<<g>>, s)
  BY <1>2 DEF Awaits, SetsModel
<1>3. \A f, t : ~Awaits(<<Announce(f, t)>>, s)
  <2> TAKE f, t
  <2>1. Announce(f, t).kind # "setModel"
    BY DEF Announce, SettingsChanged, SubagentChanged
  <2> QED
    BY <1>2, <2>1
<1>4. \A t : ~Awaits(<<SettingsChanged(t)>>, s)
  <2> TAKE t
  <2>1. SettingsChanged(t).kind # "setModel"
    BY DEF SettingsChanged
  <2> QED
    BY <1>2, <2>1
<1>5. ~Awaits(<<CatalogChanged>>, s)
  <2>1. CatalogChanged.kind # "setModel"
    BY DEF CatalogChanged
  <2> QED
    BY <1>2, <2>1
<1> QED
  BY <1>1, <1>3, <1>4, <1>5

\* The two frames of a model: the first one sets it.
LEMMA ModelPair ==
    ASSUME NEW s, NEW t, NEW m
    PROVE  LET frames == <<SetModel(s, m), ModelChanged(s)>>
           IN  Awaits(frames, s) /\ OnlyModel(frames, s, m) /\ (Awaits(frames, t) => t = s)
<1> DEFINE frames == <<SetModel(s, m), ModelChanged(s)>>
<1>1. Len(frames) = 2 /\ frames[1] = SetModel(s, m) /\ frames[2] = ModelChanged(s)
  OBVIOUS
<1> HIDE DEF frames
<1>2. SetsModel(frames[1], s) /\ frames[1].model = m /\ (SetsModel(frames[1], t) => t = s)
  BY <1>1 DEF SetsModel, SetModel
<1>3. ~SetsModel(frames[2], s) /\ ~SetsModel(frames[2], t)
  BY <1>1 DEF SetsModel, ModelChanged
<1>4. \A i \in 1 .. Len(frames) : i = 1 \/ i = 2
  BY <1>1
<1>5. 1 \in 1 .. Len(frames)
  BY <1>1
<1>6. Awaits(frames, s) /\ OnlyModel(frames, s, m) /\ (Awaits(frames, t) => t = s)
  BY <1>2, <1>3, <1>4, <1>5 DEF Awaits, OnlyModel
<1> QED
  BY <1>6 DEF frames

\* Frames one after the other.
LEMMA JoinedFrames ==
    ASSUME NEW a \in Seq(Frame), NEW b \in Seq(Frame), NEW s, NEW v
    PROVE  /\ a \o b \in Seq(Frame)
           /\ Awaits(a \o b, s) <=> Awaits(a, s) \/ Awaits(b, s)
           /\ OnlyModel(a \o b, s, v) <=> OnlyModel(a, s, v) /\ OnlyModel(b, s, v)
<1> DEFINE c == a \o b
<1>1. /\ c \in Seq(Frame) /\ Len(c) = Len(a) + Len(b)
      /\ \A i \in 1 .. Len(a) + Len(b) : c[i] = IF i <= Len(a) THEN a[i] ELSE b[i - Len(a)]
  BY ConcatProperties
<1> HIDE DEF c
<1>2. Len(a) \in Nat /\ Len(b) \in Nat
  BY LenProperties
<1>3. \A i \in 1 .. Len(a) : i \in 1 .. Len(c) /\ c[i] = a[i]
  BY <1>1, <1>2
<1>4. ASSUME NEW i \in 1 .. Len(b) PROVE \E k \in 1 .. Len(c) : c[k] = b[i]
  <2>1. /\ i + Len(a) \in 1 .. Len(a) + Len(b) /\ ~(i + Len(a) <= Len(a))
        /\ i + Len(a) - Len(a) = i
    BY <1>2
  <2>2. c[i + Len(a)] = b[i]
    BY <1>1, <2>1
  <2> QED
    BY <1>1, <2>1, <2>2
<1>5. ASSUME NEW k \in 1 .. Len(c)
      PROVE  (\E i \in 1 .. Len(a) : c[k] = a[i]) \/ (\E i \in 1 .. Len(b) : c[k] = b[i])
  <2>1. CASE k <= Len(a)
    BY <1>1, <1>2, <2>1
  <2>2. CASE ~(k <= Len(a))
    <3>1. k - Len(a) \in 1 .. Len(b)
      BY <1>1, <1>2, <2>2
    <3> QED
      BY <1>1, <2>2, <3>1
  <2> QED
    BY <2>1, <2>2
<1>6. Awaits(c, s) <=> Awaits(a, s) \/ Awaits(b, s)
  BY <1>3, <1>4, <1>5 DEF Awaits
<1>7. OnlyModel(c, s, v) <=> OnlyModel(a, s, v) /\ OnlyModel(b, s, v)
  <2>1. OnlyModel(c, s, v) => OnlyModel(a, s, v)
    BY <1>3 DEF OnlyModel
  <2>2. ASSUME OnlyModel(c, s, v), NEW i \in 1 .. Len(b), SetsModel(b[i], s)
        PROVE  b[i].model = v
    <3>1. PICK k \in 1 .. Len(c) : c[k] = b[i]
      BY <1>4
    <3> QED
      BY <2>2, <3>1 DEF OnlyModel
  <2>3. OnlyModel(c, s, v) => OnlyModel(b, s, v)
    BY <2>2 DEF OnlyModel
  <2>4. ASSUME OnlyModel(a, s, v), OnlyModel(b, s, v), NEW k \in 1 .. Len(c),
               SetsModel(c[k], s)
        PROVE  c[k].model = v
    BY <1>5, <2>4 DEF OnlyModel
  <2>5. OnlyModel(a, s, v) /\ OnlyModel(b, s, v) => OnlyModel(c, s, v)
    BY <2>4 DEF OnlyModel
  <2> QED
    BY <2>1, <2>3, <2>5
<1> QED
  BY <1>1, <1>6, <1>7 DEF c

\* Where nothing is awaited, no model is set at all.
LEMMA OnlyNone == ASSUME NEW q, NEW s, NEW v, ~Awaits(q, s) PROVE OnlyModel(q, s, v)
BY DEF Awaits, OnlyModel

\* The frames of an update set the model of the scope it is about, if any.
LEMMA UpdateSets ==
    ASSUME NEW s \in Scopes, NEW S \in SUBSET Fields, NEW body \in Body(S), NEW r, NEW t
    PROVE  LET frames == PanelFrames(s, body, r)
           IN  /\ Awaits(frames, t) <=> "model" \in DOMAIN body /\ t = s
               /\ OnlyModel(frames, s, body["model"])
<1> DEFINE scope == IF s = Global THEN "global" ELSE s
           A == IF "model" \in DOMAIN body
                   THEN <<SetModel(s, body["model"]), ModelChanged(s)>> ELSE <<>>
           B == <<SettingsChanged(scope)>>
           C == IF "subagent" \in Settings /\ RowOf(r, s)["subagent"] # RowOf(row, s)["subagent"]
                   THEN <<SubagentChanged(scope)>> ELSE <<>>
           v == body["model"]
<1>1. A \in Seq(Frame)
  <2>1. "model" \in DOMAIN body => body["model"] \in Models \cup {NoModel}
    BY DEF Body, Value
  <2> QED
    BY <2>1, KnownFrames
<1>2. B \in Seq(Frame) /\ C \in Seq(Frame)
  BY KnownFrames
<1>3. PanelFrames(s, body, r) = (A \o B) \o C
  BY DEF PanelFrames
<1>4. /\ Awaits(A, t) <=> "model" \in DOMAIN body /\ t = s
      /\ OnlyModel(A, s, v)
  <2>1. CASE "model" \in DOMAIN body
    BY <2>1, ModelPair
  <2>2. CASE "model" \notin DOMAIN body
    BY <2>2, NoModelFrames, OnlyNone
  <2> QED
    BY <2>1, <2>2
<1>5. \A x \in {s, t} : ~Awaits(B, x) /\ ~Awaits(C, x)
  <2> TAKE x \in {s, t}
  <2>1. ~Awaits(B, x)
    BY NoModelFrames
  <2>2. ~Awaits(<<SubagentChanged(scope)>>, x)
    <3>1. <<Announce("subagent", scope)>> = <<SubagentChanged(scope)>>
      BY DEF Announce
    <3> QED
      BY <3>1, NoModelFrames
  <2>3. ~Awaits(C, x)
    BY <2>2, NoModelFrames
  <2> QED
    BY <2>1, <2>3
<1>6. OnlyModel(B, s, v) /\ OnlyModel(C, s, v)
  BY <1>5, OnlyNone
<1> HIDE DEF A, B, C, v
<1>7. /\ A \o B \in Seq(Frame) /\ (Awaits(A \o B, t) <=> Awaits(A, t))
      /\ OnlyModel(A \o B, s, v)
  <2>1. /\ A \o B \in Seq(Frame)
        /\ Awaits(A \o B, t) <=> Awaits(A, t) \/ Awaits(B, t)
    BY <1>1, <1>2, JoinedFrames
  <2>2. OnlyModel(A \o B, s, v) <=> OnlyModel(A, s, v) /\ OnlyModel(B, s, v)
    BY <1>1, <1>2, JoinedFrames
  <2> QED
    BY <1>4, <1>5, <1>6, <2>1, <2>2
<1> DEFINE D == A \o B
<1>8. D \in Seq(Frame) /\ (Awaits(D, t) <=> Awaits(A, t)) /\ OnlyModel(D, s, v)
  BY <1>7
<1>9. PanelFrames(s, body, r) = D \o C
  BY <1>3
<1> HIDE DEF D
<1>10. Awaits(D \o C, t) <=> Awaits(D, t) \/ Awaits(C, t)
  BY <1>2, <1>8, JoinedFrames
<1>11. OnlyModel(D \o C, s, v) <=> OnlyModel(D, s, v) /\ OnlyModel(C, s, v)
  BY <1>2, <1>8, JoinedFrames
<1> QED
  BY <1>4, <1>5, <1>6, <1>8, <1>9, <1>10, <1>11 DEF v

\* An order of a set of scopes lists all of them.
LEMMA OrderListsAll ==
    ASSUME NEW S \in SUBSET Scopes, NEW t \in S
    PROVE  \E k \in 1 .. Len(Ext!SetToSeq(S)) : Ext!SetToSeq(S)[k] = t
<1> DEFINE order == Ext!SetToSeq(S)
           n == Cardinality(S)
<1>1. IsFiniteSet(S)
  BY FS_AddElement, FS_Subset, CachesAssumption DEF Scopes
<1>2. n \in Nat /\ ExistsBijection(1 .. n, S)
  BY <1>1, FS_CardinalityType
<1>3. Ext!Cardinality(S) = n
  BY DEF Cardinality, Ext!Cardinality, Ext!IsFiniteSet
<1>4. PICK g \in [1 .. n -> S] : Ext!IsInjective(g)
  BY <1>2 DEF ExistsBijection, Bijection, Injection, IsInjective, Ext!IsInjective
<1>5. order \in [1 .. n -> S] /\ Ext!IsInjective(order)
  BY <1>3, <1>4 DEF Ext!SetToSeq
<1> HIDE DEF order
<1>6. order \in Injection(1 .. n, S)
  BY <1>5 DEF Injection, IsInjective, Ext!IsInjective
<1>7. Cardinality(1 .. n) = n
  <2>1. n \in Int /\ 1 \in Int
    BY <1>2
  <2>2. Cardinality(1 .. n) = IF 1 > n THEN 0 ELSE n - 1 + 1
    BY <2>1, FS_Interval
  <2> HIDE DEF n
  <2> QED
    BY <1>2, <2>2
<1>8. order \in Surjection(1 .. n, S)
  BY <1>1, <1>6, <1>7, FS_Injection
<1>9. DOMAIN order = 1 .. n /\ order \in Seq(S)
  BY <1>2, <1>5, SeqDef
<1>10. Len(order) = n
  <2> HIDE DEF n
  <2>1. Len(order) \in Nat /\ DOMAIN order = 1 .. Len(order)
    BY <1>9, LenProperties
  <2> QED
    BY <1>2, <1>9, <2>1
<1>11. \E k \in 1 .. Len(order) : order[k] = t
  <2> HIDE DEF n
  <2> QED
    BY <1>8, <1>10 DEF Surjection
<1> QED
  BY <1>11 DEF order

\* The frames of a deleted model take it from exactly the scopes that had it.
LEMMA DeleteSets ==
    ASSUME NEW S \in SUBSET Scopes, NEW byPanel \in BOOLEAN, NEW t
    PROVE  /\ Awaits(DeleteFrames(S, byPanel), t) <=> t \in S
           /\ OnlyModel(DeleteFrames(S, byPanel), t, NoModel)
<1> DEFINE order == Ext!SetToSeq(S)
           each(s) == IF byPanel THEN <<SetModel(s, NoModel), ModelChanged(s)>>
                      ELSE <<SetModel(s, NoModel), ClearHistory(s), ModelChanged(s)>>
           n == IF byPanel THEN 2 ELSE 3
           size == n * Len(order)
           at(k) == n * (k - 1) + 1
           ofScope(i) == ((i - 1) \div n) + 1
           share(i) == ((i - 1) % n) + 1
           rest == [i \in 1..(n * Len(order)) |->
                      each(order[((i - 1) \div n) + 1])[((i - 1) % n) + 1]]
<1>1. DeleteFrames(S, byPanel) = <<CatalogChanged>> \o rest
  BY DEF DeleteFrames
<1>2. order \in Seq(S) /\ Len(order) \in Nat
  BY OrderOfScopes
<1>3. \A s \in S, j \in 1..n : each(s)[j] \in Frame
  BY KnownFrames
<1>4. /\ \A s : SetsModel(each(s)[1], s) /\ each(s)[1].model = NoModel
      /\ \A s : \A j \in 1..n : SetsModel(each(s)[j], t) => t = s /\ each(s)[j].model = NoModel
  <2>1. \A s : each(s)[1] = SetModel(s, NoModel)
    OBVIOUS
  <2>2. ASSUME NEW s, NEW j \in 1..n
        PROVE  each(s)[j] \in {SetModel(s, NoModel), ClearHistory(s), ModelChanged(s)}
    OBVIOUS
  <2> HIDE DEF each, n
  <2>3. \A s : SetsModel(SetModel(s, NoModel), s) /\ SetModel(s, NoModel).model = NoModel
    BY DEF SetsModel, SetModel
  <2>4. ASSUME NEW s, NEW f \in {SetModel(s, NoModel), ClearHistory(s), ModelChanged(s)},
               SetsModel(f, t)
        PROVE  t = s /\ f.model = NoModel
    BY <2>4 DEF SetsModel, SetModel, ClearHistory, ModelChanged
  <2> QED
    BY <2>1, <2>2, <2>3, <2>4
<1>5. \A i \in 1..size : ofScope(i) \in 1..Len(order) /\ share(i) \in 1..n
  <2> HIDE DEF order
  <2>1. CASE byPanel
    BY <1>2, <2>1
  <2>2. CASE ~byPanel
    BY <1>2, <2>2
  <2> QED
    BY <2>1, <2>2
<1>6. \A k \in 1..Len(order) :
          /\ at(k) \in 1..size
          /\ ofScope(at(k)) = k
          /\ share(at(k)) = 1
  <2> HIDE DEF order
  <2>1. CASE byPanel
    BY <1>2, <2>1
  <2>2. CASE ~byPanel
    BY <1>2, <2>2
  <2> QED
    BY <2>1, <2>2
<1>7. size \in Nat
  BY <1>2
<1>8. rest = [i \in 1..size |-> each(order[ofScope(i)])[share(i)]]
  OBVIOUS
<1> HIDE DEF n, each, order, size, at, ofScope, share, rest
<1>9. ASSUME NEW i \in 1..size
      PROVE  /\ rest[i] \in Frame
             /\ SetsModel(rest[i], t) => t \in S /\ rest[i].model = NoModel
  <2>1. PICK k \in 1..Len(order), j \in 1..n : rest[i] = each(order[k])[j]
    BY <1>5, <1>8
  <2>2. order[k] \in S
    BY <1>2, ElementOfSeq
  <2>3. SetsModel(each(order[k])[j], t) => t = order[k] /\ each(order[k])[j].model = NoModel
    BY <1>4
  <2> QED
    BY <1>3, <2>1, <2>2, <2>3
<1>10. ASSUME NEW k \in 1..Len(order)
       PROVE  at(k) \in 1..size /\ rest[at(k)] = each(order[k])[1]
  <2>1. PICK i \in 1..size :
           i = at(k) /\ ofScope(i) = k /\ share(i) = 1
    BY <1>6
  <2>2. rest[i] = each(order[k])[1]
    BY <1>8, <2>1
  <2> QED
    BY <2>1, <2>2
<1>11. rest \in Seq(Frame) /\ Len(rest) = size
  <2>1. rest \in [1..size -> Frame]
    BY <1>8, <1>9
  <2>2. rest \in Seq(Frame) /\ DOMAIN rest = 1..size
    BY <1>7, <2>1, SeqDef
  <2>3. Len(rest) \in Nat /\ DOMAIN rest = 1..Len(rest)
    BY <2>2, LenProperties
  <2>4. 1..size = 1..Len(rest)
    BY <2>2, <2>3
  <2>5. Len(rest) > 0 => Len(rest) \in 1..Len(rest)
    BY <2>3
  <2>6. size > 0 => size \in 1..size
    BY <1>7
  <2>7. Len(rest) > 0 => Len(rest) \in 1..size
    BY <2>4, <2>5
  <2>8. size > 0 => size \in 1..Len(rest)
    BY <2>4, <2>6
  <2>9. Len(rest) = size
    <3>1. Len(rest) > 0 => Len(rest) <= size
      BY <2>7
    <3>2. size > 0 => size <= Len(rest)
      BY <2>8
    <3>3. Len(rest) \in Nat /\ size \in Nat
      BY <1>7, <2>3
    <3> QED
      BY ONLY <3>1, <3>2, <3>3
  <2> QED
    BY <2>2, <2>9
<1>12. Awaits(rest, t) => t \in S
  BY <1>9, <1>11 DEF Awaits
<1>13. ASSUME t \in S PROVE Awaits(rest, t)
  <2>1. PICK k \in 1..Len(order) : order[k] = t
    BY <1>13, OrderListsAll DEF order
  <2>2. at(k) \in 1..Len(rest)
    BY <1>10, <1>11
  <2>3. SetsModel(rest[at(k)], t)
    BY <1>4, <1>10, <2>1
  <2> QED
    BY <2>2, <2>3 DEF Awaits
<1>14. OnlyModel(rest, t, NoModel)
  BY <1>9, <1>11 DEF OnlyModel
<1>15. <<CatalogChanged>> \in Seq(Frame)
  BY KnownFrames
<1>16. ~Awaits(<<CatalogChanged>>, t) /\ OnlyModel(<<CatalogChanged>>, t, NoModel)
  BY NoModelFrames, OnlyNone
<1>17. /\ Awaits(<<CatalogChanged>> \o rest, t)
             <=> Awaits(<<CatalogChanged>>, t) \/ Awaits(rest, t)
       /\ OnlyModel(<<CatalogChanged>> \o rest, t, NoModel)
             <=> OnlyModel(<<CatalogChanged>>, t, NoModel) /\ OnlyModel(rest, t, NoModel)
  BY <1>11, <1>15, JoinedFrames
<1> QED
  BY <1>1, <1>12, <1>13, <1>14, <1>16, <1>17

-----------------------------------------------------------------------------
(* The commands keep the models.                                            *)

\* A scope whose row is missing has no frame on its way.
LEMMA NoRowNoFrame ==
    ASSUME KeptInv, NEW s \in Scopes \ overtaken, row[s] = None
    PROVE  ~Awaits(Pipe, s)
BY DEF KeptInv, Kept

\* A row that stays is left as it is.
LEMMA SameRowLeaves ==
    ASSUME NEW r, NEW S, NEW frames, NEW s, s \notin overtaken, s \notin S,
           ~Awaits(frames, s), r[s] = row[s]
    PROVE  Leaves(r, S, frames, s)
BY DEF Leaves, ModelIn

\* So is one of which another field is stored.
LEMMA OtherFieldLeaves ==
    ASSUME NEW r, NEW S, NEW frames, NEW s, s \notin overtaken, s \notin S,
           ~Awaits(frames, s), row[s] # None, r[s] # None,
           r[s]["model"] = row[s]["model"]
    PROVE  Leaves(r, S, frames, s)
BY DEF Leaves, ModelIn

LEMMA SetChatKept ==
    ASSUME KeptInv, NEW c \in Chats, NEW f \in Fields \ {"model"}, NEW v \in Values,
           SetChat(c, f, v)
    PROVE  KeptInv'
<1> DEFINE frames == <<Announce(f, c)>>
           S == IF row[c] = None THEN {c} ELSE {}
           r == [EnsureRow(row, c) EXCEPT ![c][f] = v]
<1>1. c \in Scopes /\ frames \in Seq(Frame) /\ \A s : ~Awaits(frames, s)
  BY FieldNames, AnnounceClears, NoModelFrames
<1>2. Write(r, S, frames, overtaken) /\ row' = r
  BY DEF SetChat, Write
<1>3. Rows' /\ r[c] \in AnyRow /\ \A t \in Scopes \ {c} : r[t] = row[t]
  BY <1>1, <1>2, StoredField DEF KeptInv
<1>4. row[c] # None => r[c]["model"] = row[c]["model"]
  <2>1. /\ EnsureRow(row, c) \in [Scopes -> AnyRow \cup {None}]
        /\ EnsureRow(row, c)[c] \in AnyRow
    BY <1>1, EnsuredRow DEF KeptInv
  <2>2. r[c] = [EnsureRow(row, c)[c] EXCEPT ![f] = v]
    BY <1>1, <2>1
  <2>3. r[c]["model"] = EnsureRow(row, c)[c]["model"]
    BY <2>1, <2>2, FieldNames DEF AnyRow
  <2>4. row[c] # None => EnsureRow(row, c)[c] = row[c]
    BY <1>1 DEF EnsureRow, RowOf, KeptInv, Rows
  <2> QED
    BY <2>3, <2>4
<1> HIDE DEF frames, r
<1>5. ASSUME NEW s \in Scopes, s \notin overtaken
      PROVE  Leaves(r, S, frames, s) \/ Rewrites(S, frames, s)
  <2>1. CASE s # c
    BY <1>1, <1>3, <1>5, <2>1, SameRowLeaves
  <2>2. CASE s = c /\ row[c] # None
    BY <1>1, <1>3, <1>4, <1>5, <2>2, OtherFieldLeaves, NoneIsNoRow
  <2>3. CASE s = c /\ row[c] = None
    BY <1>1, <1>5, <2>3, NoRowNoFrame DEF Rewrites
  <2> QED
    BY <2>1, <2>2, <2>3
<1> QED
  BY <1>1, <1>2, <1>3, <1>5, WriteKeeps

LEMMA SetGlobalKept ==
    ASSUME KeptInv, NEW f \in Fields \ {"model"}, NEW v \in Values, SetGlobal(f, v)
    PROVE  KeptInv'
<1> DEFINE frames == <<Announce(f, "global")>>
           r == [s \in Scopes |-> IF row[s] = None THEN None ELSE [row[s] EXCEPT ![f] = v]]
<1>1. frames \in Seq(Frame) /\ \A s : ~Awaits(frames, s)
  BY AnnounceClears, NoModelFrames
<1>2. Write(r, {}, frames, overtaken) /\ row' = r
  BY DEF SetGlobal, Write
<1>3. \A s \in Scopes : row[s] # None =>
          /\ [row[s] EXCEPT ![f] = v] \in AnyRow
          /\ [row[s] EXCEPT ![f] = v]["model"] = row[s]["model"]
  BY FieldNames DEF KeptInv, Rows, AnyRow
<1>4. Rows'
  BY <1>2, <1>3, NoneIsNoRow, FieldNames DEF KeptInv, Rows
<1>5. ASSUME NEW s \in Scopes, s \notin overtaken PROVE Leaves(r, {}, frames, s)
  <2>1. CASE row[s] = None
    <3>1. r[s] = row[s]
      BY <2>1
    <3> HIDE DEF frames, r
    <3> QED
      BY <1>1, <1>5, <3>1, SameRowLeaves
  <2>2. CASE row[s] # None
    <3>1. r[s] # None /\ r[s]["model"] = row[s]["model"]
      BY <1>3, <2>2, NoneIsNoRow
    <3> HIDE DEF frames, r
    <3> QED
      BY <1>1, <1>5, <2>2, <3>1, OtherFieldLeaves
  <2> QED
    BY <2>1, <2>2
<1> HIDE DEF frames, r
<1> QED
  BY <1>1, <1>2, <1>4, <1>5, WriteKeeps

LEMMA SetDefaultKept ==
    ASSUME KeptInv, NEW f \in Fields \ {"model"}, NEW v \in Values, SetDefault(f, v)
    PROVE  KeptInv'
<1> DEFINE frames == <<Announce(f, "global")>>
           r == [row EXCEPT ![Global][f] = v]
<1>1. frames \in Seq(Frame) /\ \A s : ~Awaits(frames, s)
  BY AnnounceClears, NoModelFrames
<1>2. Write(r, {}, frames, overtaken) /\ row' = r
  BY DEF SetDefault, Write
<1>3. row[Global] \in AnyRow /\ [row[Global] EXCEPT ![f] = v] \in AnyRow
      /\ [row[Global] EXCEPT ![f] = v]["model"] = row[Global]["model"]
  BY FieldNames DEF KeptInv, Rows, AnyRow
<1>4. Rows'
  BY <1>2, <1>3, NoneIsNoRow, FieldNames DEF KeptInv, Rows
<1>5. ASSUME NEW s \in Scopes, s \notin overtaken PROVE Leaves(r, {}, frames, s)
  <2>1. CASE s # Global
    <3>1. r[s] = row[s]
      BY <2>1 DEF KeptInv, Rows
    <3> HIDE DEF frames, r
    <3> QED
      BY <1>1, <1>5, <3>1, SameRowLeaves
  <2>2. CASE s = Global
    <3>1. row[s] # None /\ r[s] # None /\ r[s]["model"] = row[s]["model"]
      BY <1>3, <2>2, NoneIsNoRow DEF KeptInv, Rows
    <3> HIDE DEF frames, r
    <3> QED
      BY <1>1, <1>5, <3>1, OtherFieldLeaves
  <2> QED
    BY <2>1, <2>2
<1> HIDE DEF frames, r
<1> QED
  BY <1>1, <1>2, <1>4, <1>5, WriteKeeps

LEMMA SelectModelKept ==
    ASSUME KeptInv, NEW c \in Chats, NEW m \in Models, NEW button, SelectModel(c, m, button)
    PROVE  KeptInv'
<1> DEFINE frames == <<SetModel(c, m), ModelChanged(c)>>
           r == [EnsureRow(row, c) EXCEPT ![c]["model"] = m]
<1>1. c \in Scopes /\ frames \in Seq(Frame)
  BY FieldNames, KnownFrames
<1>2. Write(r, {c}, frames, overtaken \ {c}) /\ row' = r
  BY DEF SelectModel, Write
<1>3. /\ Rows' /\ r[c] \in AnyRow /\ r[c]["model"] = m
      /\ \A t \in Scopes \ {c} : r[t] = row[t]
  BY <1>1, <1>2, StoredField, FieldNames DEF KeptInv
<1>4. /\ Awaits(frames, c) /\ OnlyModel(frames, c, m)
      /\ \A t : Awaits(frames, t) => t = c
  BY ModelPair
<1> HIDE DEF frames, r
<1>5. ASSUME NEW s \in Scopes, s \notin overtaken \ {c}
      PROVE  Leaves(r, {c}, frames, s) \/ Announces(r, {c}, frames, s)
  <2>1. CASE s # c
    BY <1>3, <1>4, <1>5, <2>1, SameRowLeaves
  <2>2. CASE s = c
    <3>1. ModelIn(r, c) = m /\ r[c] # None
      BY <1>3, NoneIsNoRow DEF ModelIn
    <3> QED
      BY <1>4, <2>2, <3>1 DEF Announces
  <2> QED
    BY <2>1, <2>2
<1> QED
  BY <1>1, <1>2, <1>3, <1>5, WriteKeeps

LEMMA LearnDeviceKept ==
    ASSUME KeptInv, NEW c \in Chats, LearnDevice(c)
    PROVE  KeptInv'
<1> DEFINE r == EnsureRow(row, c)
<1>1. c \in Scopes /\ <<>> \in Seq(Frame) /\ \A s : ~Awaits(<<>>, s)
  BY FieldNames, NoModelFrames
<1>2. Write(r, {c}, <<>>, overtaken) /\ row' = r /\ row[c] = None
  BY DEF LearnDevice, Write
<1>3. Rows' /\ \A t \in Scopes \ {c} : r[t] = row[t]
  BY <1>1, <1>2, EnsuredRow DEF KeptInv, Rows
<1> HIDE DEF r
<1>4. ASSUME NEW s \in Scopes, s \notin overtaken
      PROVE  Leaves(r, {c}, <<>>, s) \/ Rewrites({c}, <<>>, s)
  <2>1. CASE s # c
    BY <1>1, <1>3, <1>4, <2>1, SameRowLeaves
  <2>2. CASE s = c
    BY <1>1, <1>2, <1>4, <2>2, NoRowNoFrame DEF Rewrites
  <2> QED
    BY <2>1, <2>2
<1> QED
  BY <1>1, <1>2, <1>3, <1>4, WriteKeeps

\* A write that leaves all rows as they are.
LEMMA SameRowsKept ==
    ASSUME KeptInv, NEW frames \in Seq(Frame), \A s : ~Awaits(frames, s),
           Write(row, {}, frames, overtaken)
    PROVE  KeptInv'
<1>1. Rows'
  BY DEF KeptInv, Rows, Write
<1>2. \A s \in Scopes : s \notin overtaken => Leaves(row, {}, frames, s)
  BY SameRowLeaves
<1> QED
  BY <1>1, <1>2, WriteKeeps

LEMMA SetMemoryKept ==
    ASSUME KeptInv, NEW s \in Scopes, NEW m \in {0, 1}, SetMemory(s, m)
    PROVE  KeptInv'
<1> DEFINE frames == <<SettingsChanged(IF s = Global THEN "global" ELSE s)>>
<1>1. Write(row, {}, frames, overtaken)
  BY DEF SetMemory
<1>2. frames \in Seq(Frame) /\ \A t : ~Awaits(frames, t)
  BY KnownFrames, NoModelFrames
<1> HIDE DEF frames
<1> QED
  BY <1>1, <1>2, SameRowsKept

LEMMA ChangeCatalogKept ==
    ASSUME KeptInv, NEW k, ChangeCatalog(k)
    PROVE  KeptInv'
<1> DEFINE frames == <<CatalogChanged>>
<1>1. Write(row, {}, frames, overtaken)
  BY DEF ChangeCatalog
<1>2. frames \in Seq(Frame) /\ \A t : ~Awaits(frames, t)
  BY KnownFrames, NoModelFrames
<1> HIDE DEF frames
<1> QED
  BY <1>1, <1>2, SameRowsKept

\* What a panel request leaves of the rows, checked up to the fields of rank n.
LEMMA StoresModel ==
    ASSUME Rows, NEW s \in Scopes, NEW S \in SUBSET Fields, NEW body \in Body(S), NEW n,
           NEW r, r = Stores(s, body, n)
    PROVE  /\ \A t \in Scopes \ {s} : r[t] = row[t]
           /\ row[s] # None => r[s] # None
           /\ "model" \in S /\ Rank["model"] < n => r[s] # None /\ r[s]["model"] = body["model"]
           /\ row[s] # None /\ ~("model" \in S /\ Rank["model"] < n) =>
                 r[s]["model"] = row[s]["model"]
<1> DEFINE done == {f \in DOMAIN body : Rank[f] < n}
           base == EnsureRow(row, s)
           stored == [f \in Fields |-> IF f \in done THEN body[f] ELSE base[s][f]]
<1>1. DOMAIN body = S
  BY DEF Body
<1>2. "model" \in done <=> "model" \in S /\ Rank["model"] < n
  BY <1>1
<1>3. CASE done = {}
  <2>1. r = row /\ "model" \notin done
    BY <1>3 DEF Stores
  <2> HIDE DEF done
  <2> QED
    BY <1>2, <2>1
<1>4. CASE done # {}
  <2>1. r = [base EXCEPT ![s] = stored]
    BY <1>4 DEF Stores
  <2>2. /\ base \in [Scopes -> AnyRow \cup {None}] /\ base[s] \in AnyRow
        /\ \A t \in Scopes \ {s} : base[t] = row[t]
        /\ row[s] # None => base[s] = row[s]
    BY EnsuredRow DEF EnsureRow, RowOf, Rows
  <2>3. stored \in AnyRow
    <3>1. \A f \in done : body[f] \in Values \cup Models \cup {NoModel}
      BY DEF Body
    <3>2. \A f \in Fields : base[s][f] \in Values \cup Models \cup {NoModel}
      BY <2>2 DEF AnyRow
    <3> HIDE DEF done, base
    <3> QED
      BY <3>1, <3>2 DEF AnyRow
  <2>4. stored["model"] = IF "model" \in done THEN body["model"] ELSE base[s]["model"]
    BY FieldNames
  <2> HIDE DEF stored, base, done
  <2>5. r[s] = stored /\ \A t \in Scopes \ {s} : r[t] = row[t]
    BY <2>1, <2>2
  <2> QED
    BY <1>2, <2>2, <2>3, <2>4, <2>5, NoneIsNoRow
<1> QED
  BY <1>3, <1>4

\* The model is the last field to be checked.
LEMMA Ranks ==
    /\ Rank["model"] = 4 /\ Rank["model"] < 5
    /\ \A f \in Fields : ~(Rank["model"] < Rank[f])
<1>1. \A f \in Fields : Rank[f] \in 1 .. 4
  BY CachesAssumption DEF Rank, Fields
<1>2. Rank["model"] = 4
  BY FieldNames DEF Rank
<1> QED
  BY <1>1, <1>2

LEMMA PanelUpdateKept ==
    ASSUME KeptInv, NEW s \in Scopes, NEW S \in SUBSET Fields, NEW body \in Body(S),
           PanelUpdate(s, body)
    PROVE  KeptInv'
<1> DEFINE r == Stores(s, body, 5)
           frames == PanelFrames(s, body, r)
           models == "model" \in DOMAIN body
           X == IF models \/ row[s] = None THEN {s} ELSE {}
           over == IF models THEN overtaken \ {s} ELSE overtaken
<1>1. Write(r, X, frames, over) /\ row' = r
  BY DEF PanelUpdate, Write
<1>2. frames \in Seq(Frame)
  BY UpdateFrames
<1>3. /\ \A t : Awaits(frames, t) <=> models /\ t = s
      /\ OnlyModel(frames, s, body["model"])
  BY UpdateSets
<1>4. DOMAIN body = S
  BY DEF Body
<1>5. Rows'
  BY <1>1, StoresRows DEF KeptInv
<1>6. /\ \A t \in Scopes \ {s} : r[t] = row[t]
      /\ models => r[s] # None /\ r[s]["model"] = body["model"]
      /\ row[s] # None /\ ~models => r[s] # None /\ r[s]["model"] = row[s]["model"]
  BY <1>4, StoresModel, Ranks DEF KeptInv
<1> HIDE DEF frames, r, models
<1>7. ASSUME NEW t \in Scopes, t \notin over
      PROVE  Leaves(r, X, frames, t) \/ Rewrites(X, frames, t) \/ Announces(r, X, frames, t)
  <2>1. CASE t # s
    <3>1. t \notin overtaken /\ t \notin X /\ r[t] = row[t] /\ ~Awaits(frames, t)
      BY <1>3, <1>6, <1>7, <2>1
    <3> QED
      BY <3>1, SameRowLeaves
  <2>2. CASE t = s /\ models
    <3>1. ModelIn(r, s) = body["model"]
      BY <1>6, <2>2 DEF ModelIn
    <3> QED
      BY <1>3, <1>6, <2>2, <3>1 DEF Announces
  <2>3. CASE t = s /\ ~models /\ row[s] = None
    <3>1. ~Awaits(Pipe, s)
      BY <1>7, <2>3, NoRowNoFrame
    <3> QED
      BY <1>3, <1>7, <2>3, <3>1 DEF Rewrites
  <2>4. CASE t = s /\ ~models /\ row[s] # None
    <3>1. /\ s \notin overtaken /\ s \notin X /\ ~Awaits(frames, s)
          /\ r[s] # None /\ r[s]["model"] = row[s]["model"]
      BY <1>3, <1>6, <1>7, <2>4
    <3> HIDE DEF X
    <3> QED
      BY <2>4, <3>1, OtherFieldLeaves
  <2> QED
    BY <2>1, <2>2, <2>3, <2>4
<1> HIDE DEF X, over
<1> QED
  BY <1>1, <1>2, <1>5, <1>7, WriteKeeps

\* The fields before the one that fails are never the model.
LEMMA PanelRejectedKept ==
    ASSUME KeptInv, NEW s \in Scopes, NEW S \in SUBSET Fields, NEW body \in Body(S), NEW bad,
           PanelRejected(s, body, bad)
    PROVE  KeptInv'
<1> DEFINE r == Stores(s, body, Rank[bad])
           X == IF row[s] = None THEN {s} ELSE {}
<1>1. Write(r, X, <<>>, overtaken) /\ row' = r /\ bad \in DOMAIN body
  BY DEF PanelRejected, Write
<1>2. <<>> \in Seq(Frame) /\ \A t : ~Awaits(<<>>, t)
  BY NoModelFrames
<1>3. DOMAIN body = S
  BY DEF Body
<1>4. Rows'
  BY <1>1, StoresRows DEF KeptInv
<1>5. /\ \A t \in Scopes \ {s} : r[t] = row[t]
      /\ row[s] # None => r[s] # None /\ r[s]["model"] = row[s]["model"]
  BY <1>1, <1>3, StoresModel, Ranks DEF KeptInv
<1> HIDE DEF r
<1>6. ASSUME NEW t \in Scopes, t \notin overtaken
      PROVE  Leaves(r, X, <<>>, t) \/ Rewrites(X, <<>>, t)
  <2>1. CASE t # s
    BY <1>2, <1>5, <1>6, <2>1, SameRowLeaves
  <2>2. CASE t = s /\ row[s] = None
    BY <1>2, <1>6, <2>2, NoRowNoFrame DEF Rewrites
  <2>3. CASE t = s /\ row[s] # None
    BY <1>2, <1>5, <1>6, <2>3, OtherFieldLeaves
  <2> QED
    BY <2>1, <2>2, <2>3
<1> HIDE DEF X
<1> QED
  BY <1>1, <1>2, <1>4, <1>6, WriteKeeps

LEMMA PanelClearKept ==
    ASSUME KeptInv, NEW c \in Chats, PanelClear(c)
    PROVE  KeptInv'
<1> DEFINE frames == <<SettingsChanged(c)>>
           r == [row EXCEPT ![c] = None]
           late == {s \in {c} : s \in ModelFrames(InFlight)}
<1>1. c \in Scopes /\ c # Global /\ frames \in Seq(Frame) /\ \A s : ~Awaits(frames, s)
  BY FieldNames, CachesAssumption, KnownFrames, NoModelFrames
<1>2. Write(r, {c}, frames, overtaken \cup late) /\ row' = r
  BY DEF PanelClear, Write
<1>3. Rows' /\ \A t \in Scopes \ {c} : r[t] = row[t]
  BY <1>1, <1>2, FieldNames DEF KeptInv, Rows
<1> HIDE DEF frames, r
<1>4. ASSUME NEW s \in Scopes, s \notin overtaken \cup late
      PROVE  Leaves(r, {c}, frames, s) \/ Rewrites({c}, frames, s)
  <2>1. CASE s # c
    BY <1>1, <1>3, <1>4, <2>1, SameRowLeaves
  <2>2. CASE s = c
    <3>1. ~Awaits(Pipe, s)
      BY <1>4, <2>2, PipeInFlight
    <3> QED
      BY <1>1, <1>4, <2>2, <3>1 DEF Rewrites
  <2> QED
    BY <2>1, <2>2
<1> HIDE DEF late
<1> QED
  BY <1>1, <1>2, <1>3, <1>4, WriteKeeps

LEMMA DeleteModelKept ==
    ASSUME KeptInv, NEW m \in Models, NEW byPanel \in BOOLEAN, DeleteModel(m, byPanel)
    PROVE  KeptInv'
<1> DEFINE S == {s \in Scopes : ModelIn(row, s) = m}
           frames == DeleteFrames(S, byPanel)
           r == [s \in Scopes |-> IF s \in S THEN [row[s] EXCEPT !["model"] = NoModel]
                                  ELSE row[s]]
<1>1. Write(r, S, frames, overtaken \ S) /\ row' = r
  BY DEF DeleteModel, Write
<1>2. S \in SUBSET Scopes
  OBVIOUS
<1>3. \A s \in S : row[s] \in AnyRow
  BY CachesAssumption DEF ModelIn, KeptInv, Rows
<1>4. \A s \in S : /\ [row[s] EXCEPT !["model"] = NoModel] \in AnyRow
                   /\ [row[s] EXCEPT !["model"] = NoModel]["model"] = NoModel
  BY <1>3, FieldNames DEF AnyRow
<1>5. frames \in Seq(Frame)
  BY <1>2, DeleteFramesClear
<1>6. \A t : (Awaits(frames, t) <=> t \in S) /\ OnlyModel(frames, t, NoModel)
  BY <1>2, DeleteSets
<1> HIDE DEF S
<1>7. Rows'
  BY <1>1, <1>2, <1>4, NoneIsNoRow, FieldNames DEF KeptInv, Rows
<1>8. ASSUME NEW s \in Scopes
      PROVE  IF s \in S THEN r[s] # None /\ r[s]["model"] = NoModel ELSE r[s] = row[s]
  BY <1>4, NoneIsNoRow
<1> HIDE DEF frames, r
<1>9. ASSUME NEW s \in Scopes, s \notin overtaken \ S
      PROVE  Leaves(r, S, frames, s) \/ Announces(r, S, frames, s)
  <2>1. CASE s \notin S
    BY <1>6, <1>8, <1>9, <2>1, SameRowLeaves
  <2>2. CASE s \in S
    <3>1. ModelIn(r, s) = NoModel /\ r[s] # None
      BY <1>8, <2>2 DEF ModelIn
    <3> QED
      BY <1>6, <2>2, <3>1 DEF Announces
  <2> QED
    BY <2>1, <2>2
<1> QED
  BY <1>1, <1>5, <1>7, <1>9, WriteKeeps

-----------------------------------------------------------------------------
(* The bridge and the connection.                                           *)

\* Of the scope of the handled frame, the last one on the wire is left, or it
\* was the last one itself.
LEMMA TailKeeps ==
    ASSUME wire \in Seq(Frame), wire # <<>>, NEW s
    PROVE  /\ \A i \in 1 .. Len(Tail(wire)) :
                 LastOf(Tail(wire), s, i) => LastOf(wire, s, i + 1)
                                             /\ wire[i + 1] = Tail(wire)[i]
           /\ Awaits(Tail(wire), s) => Awaits(wire, s)
           /\ Awaits(wire, s) /\ ~Awaits(Tail(wire), s) =>
                 1 \in 1 .. Len(wire) /\ LastOf(wire, s, 1) /\ SetsModel(Head(wire), s)
           /\ Head(wire) = wire[1] /\ Head(wire) \in Frame
<1> DEFINE rest == Tail(wire)
<1>1. /\ rest \in Seq(Frame) /\ Len(rest) = Len(wire) - 1
      /\ \A i \in 1 .. Len(rest) : rest[i] = wire[i + 1]
      /\ Head(wire) = wire[1] /\ Head(wire) \in Frame
  BY HeadTailProperties
<1>2. Len(wire) \in Nat /\ Len(rest) \in Nat
  BY <1>1, LenProperties
<1> HIDE DEF rest
<1>3. \A i \in 1 .. Len(rest) : i + 1 \in 1 .. Len(wire) /\ wire[i + 1] = rest[i]
  BY <1>1, <1>2
<1>4. \A i \in 1 .. Len(wire) : i = 1 \/ \E j \in 1 .. Len(rest) : i = j + 1 /\ wire[i] = rest[j]
  <2> TAKE i \in 1 .. Len(wire)
  <2>1. CASE i # 1
    <3>1. i - 1 \in 1 .. Len(rest) /\ (i - 1) + 1 = i
      BY <1>1, <1>2, <2>1
    <3> QED
      BY <1>3, <3>1
  <2> QED
    BY <2>1
<1>5. ASSUME NEW i \in 1 .. Len(rest), LastOf(rest, s, i)
      PROVE  LastOf(wire, s, i + 1) /\ wire[i + 1] = rest[i]
  <2>1. i + 1 \in 1 .. Len(wire) /\ wire[i + 1] = rest[i] /\ SetsModel(rest[i], s)
    BY <1>3, <1>5 DEF LastOf
  <2>2. ASSUME NEW k \in 1 .. Len(wire), SetsModel(wire[k], s) PROVE k <= i + 1
    <3>1. CASE k = 1
      BY <1>2, <3>1
    <3>2. ASSUME NEW j \in 1 .. Len(rest), k = j + 1, wire[k] = rest[j] PROVE k <= i + 1
      <4>1. j <= i
        BY <1>5, <2>2, <3>2 DEF LastOf
      <4> QED
        BY <1>2, <3>2, <4>1
    <3> QED
      BY <1>4, <3>1, <3>2
  <2> QED
    BY <2>1, <2>2 DEF LastOf
<1>6. Awaits(rest, s) => Awaits(wire, s)
  BY <1>3 DEF Awaits
<1>7. ASSUME Awaits(wire, s), ~Awaits(rest, s)
      PROVE  1 \in 1 .. Len(wire) /\ LastOf(wire, s, 1) /\ SetsModel(Head(wire), s)
  <2>1. \A k \in 1 .. Len(wire) : SetsModel(wire[k], s) => k = 1
    BY <1>4, <1>7 DEF Awaits
  <2>2. PICK k \in 1 .. Len(wire) : SetsModel(wire[k], s) /\ k = 1
    BY <1>7, <2>1 DEF Awaits
  <2>3. \A j \in 1 .. Len(wire) : SetsModel(wire[j], s) => j <= 1
    BY <1>2, <2>1
  <2> QED
    BY <1>1, <2>2, <2>3 DEF LastOf
<1> QED
  BY <1>1, <1>5, <1>6, <1>7 DEF rest

\* The model of a frame is stored for its scope, and only there.
LEMMA HandledRow ==
    ASSUME Rows, NEW frame \in Frame, HandleSetModel(frame)
    PROVE  /\ Rows' /\ frame.scope \in Scopes
           /\ SetsModel(frame, frame.scope)
           /\ row'[frame.scope] # None /\ row'[frame.scope]["model"] = frame.model
           /\ \A t \in Scopes \ {frame.scope} : row'[t] = row[t]
<1>1. frame.kind = "setModel" /\ frame.scope \in Scopes /\ frame.model \in Models \cup {NoModel}
  BY DEF HandleSetModel, Frame
<1> DEFINE s == frame.scope
           m == frame.model
<1>2. row' = [EnsureRow(row, s) EXCEPT ![s]["model"] = m]
  BY DEF HandleSetModel
<1>3. s \in Scopes /\ m \in Values \cup Models \cup {NoModel} /\ "model" \in Fields
  BY <1>1, FieldNames
<1>4. SetsModel(frame, s)
  BY <1>1 DEF SetsModel
<1> HIDE DEF s, m
<1>5. /\ Rows' /\ row'[s] \in AnyRow /\ row'[s]["model"] = m
      /\ \A t \in Scopes \ {s} : row'[t] = row[t]
  BY <1>2, <1>3, StoredField
<1> QED
  BY <1>3, <1>4, <1>5, NoneIsNoRow DEF s, m

LEMMA HandleKept ==
    ASSUME KeptInv, Handle
    PROVE  KeptInv'
<1>1. /\ wire # <<>> /\ wire' = Tail(wire)
      /\ UNCHANGED <<queue, online, chosen, overtaken>>
      /\ \/ HandleReset(Head(wire)) \/ HandleSetModel(Head(wire))
         \/ HandleModelChanged(Head(wire))
  BY DEF Handle
<1>2. wire \in Seq(Frame) /\ online /\ Pipe = wire /\ Pipe' = Tail(wire)
  BY <1>1 DEF KeptInv, Link, Pipe
<1>3. Link' /\ (online => queue = <<>>)'
  BY <1>1, HeadTailProperties DEF KeptInv, Link
<1>4. PICK frame \in Frame : frame = Head(wire)
  BY <1>1, <1>2, TailKeeps
<1>5. CASE HandleSetModel(frame)
  <2>1. /\ Rows' /\ SetsModel(frame, frame.scope)
        /\ row'[frame.scope] # None /\ row'[frame.scope]["model"] = frame.model
        /\ \A t \in Scopes \ {frame.scope} : row'[t] = row[t]
    BY <1>5, HandledRow DEF KeptInv
  <2>2. ASSUME NEW s \in Scopes \ overtaken PROVE Kept(s)'
    <3>1. Kept(s)
      BY <2>2 DEF KeptInv
    <3> DEFINE rest == Tail(wire)
    <3>2. /\ \A i \in 1 .. Len(rest) : LastOf(rest, s, i) => LastOf(wire, s, i + 1)
                                                            /\ wire[i + 1] = rest[i]
          /\ Awaits(rest, s) => Awaits(wire, s)
          /\ Awaits(wire, s) /\ ~Awaits(rest, s) =>
                1 \in 1 .. Len(wire) /\ LastOf(wire, s, 1) /\ SetsModel(frame, s)
          /\ frame = wire[1]
      BY <1>1, <1>2, <1>4, TailKeeps
    <3> HIDE DEF rest
    <3>3. \A i \in 1 .. Len(rest) : LastOf(rest, s, i) => rest[i].model = chosen[s]
      <4> SUFFICES ASSUME NEW i \in 1 .. Len(rest), LastOf(rest, s, i)
                   PROVE  rest[i].model = chosen[s]
        OBVIOUS
      <4>1. LastOf(wire, s, i + 1) /\ wire[i + 1] = rest[i]
        BY <3>2
      <4>2. i + 1 \in 1 .. Len(wire)
        BY <4>1 DEF LastOf
      <4> QED
        BY <1>2, <3>1, <4>1, <4>2 DEF Kept
    <3>4. Awaits(rest, s) => row'[s] # None
      BY <1>2, <2>1, <3>1, <3>2 DEF Kept
    <3>5. ASSUME ~Awaits(rest, s) PROVE ModelIn(row', s) = chosen[s]
      <4>1. CASE Awaits(wire, s)
        <5>1. s = frame.scope /\ frame.model = chosen[s]
          BY <1>2, <3>1, <3>2, <3>5, <4>1 DEF Kept, SetsModel
        <5> QED
          BY <2>1, <5>1 DEF ModelIn
      <4>2. CASE ~Awaits(wire, s)
        <5>1. s # frame.scope
          <6>1. 1 \in 1 .. Len(wire)
            BY <1>1, <1>2, EmptySeq, LenProperties
          <6> QED
            BY <2>1, <3>2, <4>2, <6>1 DEF Awaits
        <5>2. row'[s] = row[s]
          BY <2>1, <2>2, <5>1
        <5> QED
          BY <1>2, <3>1, <4>2, <5>2 DEF Kept, ModelIn
      <4> QED
        BY <4>1, <4>2
    <3>6. Pipe' = rest /\ chosen' = chosen /\ (ModelIn(row, s))' = ModelIn(row', s)
      BY <1>1, <1>2 DEF rest, ModelIn
    <3> QED
      BY <3>3, <3>4, <3>5, <3>6 DEF Kept
  <2> QED
    BY <1>1, <1>3, <2>1, <2>2 DEF KeptInv
<1>6. CASE ~HandleSetModel(frame)
  <2>1. row' = row /\ frame.kind # "setModel"
    BY <1>1, <1>4, <1>6 DEF HandleReset, HandleModelChanged
  <2>2. Rows'
    BY <2>1 DEF KeptInv, Rows
  <2>3. ASSUME NEW s \in Scopes \ overtaken PROVE Kept(s)'
    <3>1. Kept(s)
      BY <2>3 DEF KeptInv
    <3> DEFINE rest == Tail(wire)
    <3>2. /\ \A i \in 1 .. Len(rest) : LastOf(rest, s, i) => LastOf(wire, s, i + 1)
                                                            /\ wire[i + 1] = rest[i]
          /\ Awaits(rest, s) => Awaits(wire, s)
          /\ Awaits(wire, s) /\ ~Awaits(rest, s) => SetsModel(frame, s)
      BY <1>1, <1>2, <1>4, TailKeeps
    <3> HIDE DEF rest
    <3>3. Awaits(rest, s) <=> Awaits(wire, s)
      BY <2>1, <3>2 DEF SetsModel
    <3>4. \A i \in 1 .. Len(rest) : LastOf(rest, s, i) => rest[i].model = chosen[s]
      <4> SUFFICES ASSUME NEW i \in 1 .. Len(rest), LastOf(rest, s, i)
                   PROVE  rest[i].model = chosen[s]
        OBVIOUS
      <4>1. LastOf(wire, s, i + 1) /\ wire[i + 1] = rest[i]
        BY <3>2
      <4>2. i + 1 \in 1 .. Len(wire)
        BY <4>1 DEF LastOf
      <4> QED
        BY <1>2, <3>1, <4>1, <4>2 DEF Kept
    <3>5. Pipe' = rest /\ chosen' = chosen /\ (ModelIn(row, s))' = ModelIn(row, s)
      BY <1>1, <1>2, <2>1 DEF rest, ModelIn
    <3> QED
      BY <1>2, <2>1, <3>1, <3>3, <3>4, <3>5 DEF Kept
  <2> QED
    BY <1>1, <1>3, <2>2, <2>3 DEF KeptInv
<1> QED
  BY <1>5, <1>6

\* Where the pipe stays as it is, so does what is kept.
LEMMA PipeStays ==
    ASSUME KeptInv, Link', (online => queue = <<>>)', Pipe' = Pipe,
           row' = row, chosen' = chosen, overtaken \subseteq overtaken'
    PROVE  KeptInv'
<1>1. Rows'
  BY DEF KeptInv, Rows
<1>2. ASSUME NEW s \in Scopes \ overtaken' PROVE Kept(s)'
  <2>1. Kept(s)
    BY <1>2 DEF KeptInv
  <2>2. (ModelIn(row, s))' = ModelIn(row, s)
    BY DEF ModelIn
  <2> QED
    BY <2>1, <2>2 DEF Kept
<1> QED
  BY <1>1, <1>2 DEF KeptInv

\* A lost connection takes the frames on the wire with it.
LEMMA LostKept ==
    ASSUME KeptInv, online' = FALSE, wire' = <<>>, queue' = queue,
           overtaken' = overtaken \cup ModelFrames({wire[i] : i \in DOMAIN wire}),
           row' = row, chosen' = chosen
    PROVE  KeptInv'
<1>1. Link' /\ (online => queue = <<>>)'
  BY DEF KeptInv, Link
<1>2. CASE ~online
  BY <1>1, <1>2, PipeStays DEF Pipe
<1>3. CASE online
  <2>1. Pipe = wire /\ Pipe' = <<>> /\ wire \in Seq(Frame)
    BY <1>3 DEF KeptInv, Link, Pipe
  <2>2. Rows'
    BY DEF KeptInv, Rows
  <2>3. ASSUME NEW s \in Scopes \ overtaken' PROVE Kept(s)'
    <3>1. Kept(s)
      BY <2>3 DEF KeptInv
    <3>2. DOMAIN wire = 1 .. Len(wire)
      BY <2>1, LenProperties
    <3>3. ~Awaits(wire, s)
      BY <2>3, <3>2 DEF Awaits, SetsModel, ModelFrames
    <3>4. Len(<<>>) = 0 /\ \A i \in 1 .. 0 : FALSE
      OBVIOUS
    <3>5. (ModelIn(row, s))' = ModelIn(row, s)
      BY DEF ModelIn
    <3> QED
      BY <2>1, <3>1, <3>3, <3>4, <3>5 DEF Kept, Awaits
  <2> QED
    BY <1>1, <2>2, <2>3 DEF KeptInv
<1> QED
  BY <1>2, <1>3

LEMMA ConnectKept == ASSUME KeptInv, Connect PROVE KeptInv'
<1>1. /\ ~online /\ online' = TRUE /\ wire' = queue /\ queue' = <<>>
      /\ row' = row /\ UNCHANGED <<chosen, overtaken>>
  BY DEF Connect, dbVars
<1>2. Link' /\ (online => queue = <<>>)'
  BY <1>1, CachesAssumption DEF KeptInv, Link
<1>3. Pipe' = Pipe
  BY <1>1 DEF Pipe
<1> QED
  BY <1>1, <1>2, <1>3, PipeStays

\* Reads and steps of other components move none of it.
LEMMA SameLinkKept ==
    ASSUME KeptInv, row' = row, UNCHANGED linkVars, UNCHANGED <<chosen, overtaken>>
    PROVE  KeptInv'
<1>1. Link' /\ (online => queue = <<>>)' /\ Pipe' = Pipe
  BY DEF KeptInv, Link, Pipe, linkVars
<1> QED
  BY <1>1, PipeStays

LEMMA InitKept == Init => KeptInv
<1> SUFFICES ASSUME Init PROVE KeptInv
  OBVIOUS
<1>1. Rows /\ Link
  BY InitInv DEF Inv
<1>2. Pipe = <<>> /\ queue = <<>>
  BY DEF Init, Pipe
<1>3. Len(<<>>) = 0 /\ \A i \in 1 .. 0 : FALSE
  OBVIOUS
<1>4. Defaults["model"] = NoModel /\ Defaults # None
  <2>1. Defaults \in AnyRow
    BY CachesAssumption DEF Defaults, AnyRow
  <2> QED
    BY <2>1, NoneIsNoRow, FieldNames DEF Defaults, NoModel
<1>5. ASSUME NEW s \in Scopes PROVE Kept(s)
  <2>1. ModelIn(row, s) = chosen[s]
    BY <1>4 DEF Init, ModelIn
  <2> QED
    BY <1>2, <1>3, <2>1 DEF Kept, Awaits
<1> QED
  BY <1>1, <1>2, <1>5 DEF KeptInv

LEMMA NextKept == KeptInv /\ [Next]_vars => KeptInv'
<1> SUFFICES ASSUME KeptInv, [Next]_vars PROVE KeptInv'
  OBVIOUS
<1>1. CASE Owner
  BY <1>1, SetChatKept, SetGlobalKept, SetDefaultKept, SelectModelKept, LearnDeviceKept,
     SetMemoryKept, PanelClearKept DEF Owner
<1>2. CASE Panel
  <2>1. PICK s \in Scopes, S \in SUBSET Fields : \E body \in Body(S) :
           PanelUpdate(s, body) \/ \E bad \in S : PanelRejected(s, body, bad)
    BY <1>2 DEF Panel, Body
  <2>2. PICK body \in Body(S) :
           PanelUpdate(s, body) \/ \E bad \in S : PanelRejected(s, body, bad)
    BY <2>1
  <2> QED
    BY <2>2, PanelUpdateKept, PanelRejectedKept
<1>3. CASE Modelcfg
  <2>1. ASSUME NEW m \in Models, AddModel(m) PROVE KeptInv'
    BY <2>1, ChangeCatalogKept DEF AddModel
  <2>2. ASSUME NEW m \in Models, NEW b \in BOOLEAN, UpdateModel(m, b) PROVE KeptInv'
    BY <2>2, ChangeCatalogKept DEF UpdateModel
  <2>3. ASSUME NEW m \in Models, SetDefaultModel(m) PROVE KeptInv'
    BY <2>3, ChangeCatalogKept DEF SetDefaultModel
  <2> QED
    BY <1>3, <2>1, <2>2, <2>3, DeleteModelKept DEF Modelcfg
<1>4. CASE Read
  <2>1. row' = row /\ UNCHANGED linkVars /\ UNCHANGED <<chosen, overtaken>>
    BY <1>4 DEF Read, dbVars
  <2> QED
    BY <2>1, SameLinkKept
<1>5. CASE Break
  <2>1. /\ online' = FALSE /\ wire' = <<>> /\ queue' = queue
        /\ overtaken' = overtaken \cup ModelFrames({wire[i] : i \in DOMAIN wire})
        /\ row' = row /\ chosen' = chosen
    BY <1>5 DEF Break, dbVars
  <2> QED
    BY <2>1, LostKept
<1>6. CASE BridgeCrash
  <2>1. /\ online' = FALSE /\ wire' = <<>> /\ queue' = queue
        /\ overtaken' = overtaken \cup ModelFrames({wire[i] : i \in DOMAIN wire})
        /\ row' = row /\ chosen' = chosen
    BY <1>6 DEF BridgeCrash, dbVars
  <2> QED
    BY <2>1, LostKept
<1>7. CASE UNCHANGED vars
  <2>1. row' = row /\ UNCHANGED linkVars /\ UNCHANGED <<chosen, overtaken>>
    BY <1>7 DEF vars, dbVars, linkVars
  <2> QED
    BY <2>1, SameLinkKept
<1> QED
  BY <1>1, <1>2, <1>3, <1>4, <1>5, <1>6, <1>7, HandleKept, ConnectKept DEF Next

\* The model of a chat: when no set_llm2_model for a scope is under way, its row
\* holds the model the gateway stored last, although the bridge stores every one
\* of them again, later; the scopes in overtaken are the known exceptions.
THEOREM ModelsKeptAlways == GatewaySpec => []ModelsKept
<1>1. GatewayInit => KeptInv
  BY PartInits, InitKept
<1>2. KeptInv /\ [GatewayNext]_allVars => KeptInv'
  BY PartSteps, NextKept
<1> QED
  BY <1>1, <1>2, KeptMeans, PTL DEF GatewaySpec

-----------------------------------------------------------------------------
(* Files of messages.                                                       *)

Media == Images \cup Documents
Entry == [of : Media, path : BOOLEAN, blocked : BOOLEAN]
Attached == [of : Media, stamp : Media \cup {None}, path : BOOLEAN, tried : BOOLEAN]

PathTypes ==
    /\ store \in [Media -> SUBSET Entry]
    /\ waiting \in Seq(Media)
    /\ batch \in [step : {"idle", "quoted", "fetching", "resolve", "visual", "acting"},
                  base : Media \cup {None}, atts : SUBSET Attached]

\* What has a path has a file.
OnDisk ==
    /\ \A m \in Media : \A e \in store[m] : e.path => e.of \in disk
    /\ \A a \in batch.atts : a.path => a.of \in disk

\* The attachments of a batch are filed under their own message or the last of
\* the batch, whose own attachment is among them.
Stamped(atts) == \A a \in atts : a.stamp \in {a.of, None}
HasOwn(atts, m) == \E a \in atts : a.of = m /\ a.stamp = m
OwnAmong ==
    /\ Stamped(batch.atts)
    /\ batch.step # "idle" => HasOwn(batch.atts, batch.base)

\* Before a large document arrives nothing is known of it.
Unheard ==
    /\ \A k \in 1 .. Len(waiting) : waiting[k] \in arrived
    /\ batch.base \in arrived \cup {None}
    /\ \A a \in batch.atts : a.stamp \in arrived \cup {None}
    /\ \A m \in Large : m \notin arrived =>
         /\ store[m] = {} /\ <<"task", m>> \notin downloads /\ <<m, m>> \notin given
    /\ \A m \in Large : <<"arrival", m>> \notin downloads /\ <<"quoted", m>> \notin downloads

\* Its mark lasts in the store, and nobody downloads it.
Barred(m) == \E e \in store[m] : e.blocked
MarkLasts ==
    \A m \in toolarge :
        /\ m \in Large /\ m \in marked /\ m \in arrived
        /\ Barred(m) /\ <<"task", m>> \notin downloads

PathInv == PathTypes /\ OnDisk /\ OwnAmong /\ Unheard /\ MarkLasts /\ TooLargeStays

-----------------------------------------------------------------------------
NewEntries(atts, base, barred, m) ==
    {[of |-> a.of, path |-> a.path, blocked |-> a.of \in barred] :
        a \in {b \in atts : Paths!Filed(b, base) = m}}

LEMMA StoredAt ==
    ASSUME NEW atts, NEW base, NEW barred, NEW m \in Media
    PROVE  Paths!Stored(atts, base, barred)[m] =
             IF \/ NewEntries(atts, base, barred, m) = {}
                \/ /\ Paths!HasFile(store[m], disk)
                   /\ \A e \in NewEntries(atts, base, barred, m) : ~e.path
             THEN store[m] ELSE NewEntries(atts, base, barred, m)
BY DEF Paths!Stored, NewEntries, Paths!Messages, Media

LEMMA NewTypes ==
    ASSUME NEW atts \in SUBSET Attached, NEW base, NEW barred, NEW m
    PROVE  NewEntries(atts, base, barred, m) \in SUBSET Entry
<1>1. ASSUME NEW a \in atts
      PROVE  [of |-> a.of, path |-> a.path, blocked |-> a.of \in barred] \in Entry
  <2>1. a.of \in Media /\ a.path \in BOOLEAN
    BY DEF Attached
  <2> DEFINE b == a.of \in barred
  <2>2. b \in BOOLEAN
    OBVIOUS
  <2> HIDE DEF b
  <2>3. [of |-> a.of, path |-> a.path, blocked |-> b] \in Entry
    BY <2>1, <2>2 DEF Entry
  <2> QED
    BY <2>3 DEF b
<1> QED
  BY <1>1 DEF NewEntries

LEMMA StoredTypes ==
    ASSUME PathTypes, NEW atts \in SUBSET Attached, NEW base, NEW barred
    PROVE  Paths!Stored(atts, base, barred) \in [Media -> SUBSET Entry]
<1>1. \A m \in Media : Paths!Stored(atts, base, barred)[m] \in SUBSET Entry
  BY StoredAt, NewTypes DEF PathTypes
<1>2. Paths!Stored(atts, base, barred)
        = [m \in Media |-> Paths!Stored(atts, base, barred)[m]]
  BY DEF Paths!Stored, Paths!Messages, Media
<1> QED
  BY <1>1, <1>2

LEMMA StoredOnDisk ==
    ASSUME PathTypes, OnDisk, NEW atts \in SUBSET Attached, NEW base, NEW barred,
           \A a \in atts : a.path => a.of \in disk
    PROVE  \A m \in Media : \A e \in Paths!Stored(atts, base, barred)[m] : e.path => e.of \in disk
<1>1. \A m : \A e \in NewEntries(atts, base, barred, m) : e.path => e.of \in disk
  BY DEF NewEntries
<1> QED
  BY <1>1, StoredAt DEF OnDisk

\* A message whose file is known keeps it, or has a foreign one filed under it.
Learnt(m, filed) == \E e \in filed : e.of = m /\ e.path
Foreign(m, filed) == \E e \in filed : e.of # m

LEMMA StoredLearns ==
    ASSUME PathTypes, OnDisk, NEW atts \in SUBSET Attached, NEW base, NEW barred,
           NEW m \in Media, Learnt(m, store[m])
    PROVE  LET s == Paths!Stored(atts, base, barred)[m] IN Learnt(m, s) \/ Foreign(m, s)
<1>1. Paths!HasFile(store[m], disk)
  BY DEF Learnt, OnDisk, Paths!HasFile
<1>2. CASE Paths!Stored(atts, base, barred)[m] = store[m]
  BY <1>2
<1>3. CASE \E e \in NewEntries(atts, base, barred, m) : e.path
  BY <1>1, <1>3, StoredAt DEF Learnt, Foreign
<1> QED
  BY <1>1, <1>2, <1>3, StoredAt

\* A mark in the store lasts when a message is stored with its own attachment.
LEMMA StoredBarred ==
    ASSUME NEW atts, NEW base, NEW barred, NEW m \in Media,
           m \in barred, m # None,
           Stamped(atts), base = m => HasOwn(atts, m),
           Barred(m) \/ (HasOwn(atts, m) /\ store[m] = {})
    PROVE  \E e \in Paths!Stored(atts, base, barred)[m] : e.blocked
<1> DEFINE new == NewEntries(atts, base, barred, m)
<1>1. \A a \in atts : a.of = m /\ a.stamp = m =>
         \E e \in new : e.blocked
  <2> SUFFICES ASSUME NEW a \in atts, a.of = m, a.stamp = m
               PROVE  \E e \in new : e.blocked
    OBVIOUS
  <2> DEFINE e == [of |-> a.of, path |-> a.path, blocked |-> a.of \in barred]
  <2>1. Paths!Filed(a, base) = m
    BY DEF Paths!Filed
  <2>2. e \in new
    BY <2>1 DEF NewEntries
  <2>3. e.blocked
    OBVIOUS
  <2> QED
    BY <2>2, <2>3
<1>2. new # {} => HasOwn(atts, m)
  BY DEF NewEntries, Paths!Filed, Stamped, HasOwn
<1>3. new # {} => \E e \in new : e.blocked
  BY <1>1, <1>2 DEF HasOwn
<1>4. HasOwn(atts, m) => new # {}
  BY DEF NewEntries, Paths!Filed, HasOwn
<1>5. store[m] = {} => ~Paths!HasFile(store[m], disk)
  BY DEF Paths!HasFile
<1> HIDE DEF new
<1>6. Paths!Stored(atts, base, barred)[m] = new \/ Paths!Stored(atts, base, barred)[m] = store[m]
  BY StoredAt DEF new
<1>7. CASE Barred(m)
  BY <1>3, <1>7, StoredAt DEF Barred, new
<1>8. CASE HasOwn(atts, m) /\ store[m] = {}
  BY <1>3, <1>4, <1>5, <1>8, StoredAt DEF new
<1> QED
  BY <1>7, <1>8

LEMMA StoredElsewhere ==
    ASSUME NEW atts, NEW base, NEW barred, NEW m \in Media,
           \A a \in atts : Paths!Filed(a, base) # m
    PROVE  Paths!Stored(atts, base, barred)[m] = store[m]
<1>1. NewEntries(atts, base, barred, m) = {}
  BY DEF NewEntries
<1> QED
  BY <1>1, StoredAt

LEMMA QuotesMedia ==
    ASSUME PathInv, batch.base \in Media
    PROVE  Paths!Quoted \in Media \cup {None}
BY PathsAssumption DEF Paths!Quoted, Media

LEMMA OwnAttachment ==
    ASSUME NEW m \in Media
    PROVE  LET a == Paths!Attachment(m)
           IN  /\ a \in Attached /\ a.of = m /\ a.stamp = m /\ ~a.path
               /\ m # None /\ \A base : Paths!Filed(a, base) = m
BY PathsAssumption DEF Paths!Attachment, Attached, Media, Paths!Filed

\* What a step does to the files the store knows.
Learns == \A m \in Media : Learnt(m, store[m]) /\ store'[m] # {} =>
                              Learnt(m, store'[m]) \/ Foreign(m, store'[m])

LEMMA SameStore == store' = store => Learns
BY DEF Learns

LEMMA ArriveKeeps ==
    ASSUME PathInv, NEW m \in Media, Paths!Arrive(m, TRUE)
    PROVE  PathInv' /\ Learns
<1> DEFINE atts == {Paths!Attachment(m)}
           stored == Paths!Stored(atts, m, marked')
<1>1. /\ m \notin arrived /\ arrived' = arrived \cup {m}
      /\ waiting' = Append(waiting, m)
      /\ marked' = marked \cup ({m} \cap Large)
      /\ store' = stored
      /\ downloads' = downloads \cup {<<"arrival", m>> : x \in {m} \ Large}
      /\ toolarge' = toolarge \cup ({m} \cap Large)
      /\ UNCHANGED <<disk, old, batch, given>>
  BY DEF Paths!Arrive
<1>2. /\ atts \in SUBSET Attached /\ Stamped(atts) /\ HasOwn(atts, m) /\ m # None
      /\ \A a \in atts : ~a.path /\ Paths!Filed(a, m) = m
  BY OwnAttachment DEF Stamped, HasOwn
<1> HIDE DEF atts
<1>3. stored \in [Media -> SUBSET Entry]
  BY <1>2, StoredTypes DEF PathInv
<1>4. \A x \in Media : \A e \in stored[x] : e.path => e.of \in disk
  BY <1>2, StoredOnDisk DEF PathInv
<1>5. \A x \in Media : Learnt(x, store[x]) => Learnt(x, stored[x]) \/ Foreign(x, stored[x])
  BY <1>2, StoredLearns DEF PathInv
<1>6. \A x \in Media : x # m => stored[x] = store[x]
  BY <1>2, StoredElsewhere
<1>7. m \in Large => \E e \in stored[m] : e.blocked
  <2> SUFFICES ASSUME m \in Large PROVE \E e \in stored[m] : e.blocked
    OBVIOUS
  <2>1. m \in marked' /\ store[m] = {}
    BY <1>1 DEF PathInv, Unheard
  <2> QED
    BY <1>2, <2>1, StoredBarred
<1> HIDE DEF stored
<1>8. PathTypes'
  BY <1>1, <1>3 DEF PathInv, PathTypes
<1>9. OnDisk' /\ OwnAmong'
  BY <1>1, <1>4 DEF PathInv, OnDisk, OwnAmong, Stamped, HasOwn
<1>10. Unheard'
  <2>1. \A k \in 1 .. Len(waiting') : waiting'[k] \in arrived'
    BY <1>1 DEF PathInv, PathTypes, Unheard
  <2>2. \A x \in Large : x \notin arrived' =>
          /\ store'[x] = {} /\ <<"task", x>> \notin downloads' /\ <<x, x>> \notin given'
    BY <1>1, <1>6, PathsAssumption DEF PathInv, Unheard, Media
  <2>3. \A x \in Large : <<"arrival", x>> \notin downloads' /\ <<"quoted", x>> \notin downloads'
    BY <1>1 DEF PathInv, Unheard
  <2> QED
    BY <1>1, <2>1, <2>2, <2>3 DEF PathInv, Unheard
<1>11. MarkLasts' /\ TooLargeStays'
  <2> SUFFICES ASSUME NEW x \in toolarge'
               PROVE  /\ x \in Large /\ x \in marked' /\ x \in arrived'
                      /\ Barred(x)' /\ <<"task", x>> \notin downloads'
                      /\ <<x, x>> \notin given'
    BY DEF MarkLasts, TooLargeStays, Paths!TooLargeStays
  <2>1. CASE x = m
    <3>1. m \in Large /\ m \in marked' /\ m \in arrived'
      BY <1>1, <2>1 DEF PathInv, MarkLasts
    <3>2. Barred(x)'
      BY <1>1, <1>7, <2>1, <3>1 DEF Barred
    <3> QED
      BY <1>1, <2>1, <3>1, <3>2 DEF PathInv, Unheard
  <2>2. CASE x # m
    <3>1. /\ x \in toolarge /\ x \in Large /\ x \in Media /\ x \in marked /\ x \in arrived
          /\ Barred(x) /\ <<"task", x>> \notin downloads /\ <<x, x>> \notin given
      BY <1>1, <2>2, PathsAssumption
      DEF PathInv, MarkLasts, TooLargeStays, Paths!TooLargeStays, Media
    <3> QED
      BY <1>1, <1>6, <2>2, <3>1 DEF Barred
  <2> QED
    BY <2>1, <2>2
<1>12. Learns
  BY <1>1, <1>5 DEF Learns
<1> QED
  BY <1>8, <1>9, <1>10, <1>11, <1>12 DEF PathInv

\* A step that leaves the store, and what it is about, as they are.
LEMMA AtRest ==
    ASSUME PathInv,
           UNCHANGED <<store, marked, toolarge, waiting>>, disk \subseteq disk',
           arrived \subseteq arrived', PathTypes', OwnAmong',
           \A a \in batch'.atts : a.path => a.of \in disk',
           batch'.base \in arrived' \cup {None},
           \A a \in batch'.atts : a.stamp \in arrived' \cup {None},
           \A m \in Large :
              /\ <<m, m>> \in given' => <<m, m>> \in given \/ (m \in arrived' /\ ~Barred(m))
              /\ <<"task", m>> \in downloads' =>
                   <<"task", m>> \in downloads \/ (m \in arrived' /\ ~Barred(m))
              /\ <<"arrival", m>> \notin downloads' /\ <<"quoted", m>> \notin downloads'
    PROVE  PathInv' /\ Learns
<1>1. OnDisk'
  BY DEF PathInv, OnDisk
<1>2. Unheard'
  BY DEF PathInv, Unheard
<1>3. MarkLasts' /\ TooLargeStays'
  BY DEF PathInv, MarkLasts, Barred, TooLargeStays, Paths!TooLargeStays
<1> QED
  BY <1>1, <1>2, <1>3, SameStore DEF PathInv

LEMMA ArriveOnlyKeeps ==
    ASSUME PathInv, NEW m \in Media, Paths!Arrive(m, FALSE)
    PROVE  PathInv' /\ Learns
<1>1. /\ arrived' = arrived \cup {m} /\ waiting' = Append(waiting, m)
      /\ UNCHANGED <<marked, store, downloads, toolarge, disk, old, batch, given>>
  BY DEF Paths!Arrive
<1>2. PathTypes' /\ OnDisk' /\ OwnAmong'
  BY <1>1 DEF PathInv, PathTypes, OnDisk, OwnAmong, Stamped, HasOwn
<1>3. \A k \in 1 .. Len(waiting') : waiting'[k] \in arrived'
  BY <1>1 DEF PathInv, PathTypes, Unheard
<1>4. Unheard'
  BY <1>1, <1>3 DEF PathInv, Unheard
<1>5. MarkLasts' /\ TooLargeStays'
  BY <1>1 DEF PathInv, MarkLasts, Barred, TooLargeStays, Paths!TooLargeStays
<1> QED
  BY <1>1, <1>2, <1>4, <1>5, SameStore DEF PathInv

LEMMA FetchedKeeps ==
    ASSUME PathInv, NEW m \in Media, NEW who \in {"arrival", "quoted", "task"},
           Paths!Fetch(who, m)
    PROVE  PathInv' /\ Learns
<1>1. /\ <<who, m>> \in downloads /\ downloads' = downloads \ {<<who, m>>}
      /\ given' \subseteq given \cup {<<m, m>>} /\ given \subseteq given'
      /\ (who # "task" => given' = given)
      /\ UNCHANGED <<arrived, waiting, marked, batch, toolarge>>
  BY DEF Paths!Fetch, Paths!inbound
<1>2. m \notin toolarge
  BY <1>1 DEF PathInv, MarkLasts, Unheard
<1>3. m \in Large => who = "task" /\ m \in arrived
  BY <1>1 DEF PathInv, Unheard
<1>4. CASE UNCHANGED <<disk, store>>
  <2>1. PathTypes' /\ OnDisk' /\ OwnAmong'
    BY <1>1, <1>4 DEF PathInv, PathTypes, OnDisk, OwnAmong, Stamped, HasOwn
  <2>2. Unheard'
    BY <1>1, <1>3, <1>4 DEF PathInv, Unheard
  <2>3. MarkLasts' /\ TooLargeStays'
    BY <1>1, <1>2, <1>4 DEF PathInv, MarkLasts, Barred, TooLargeStays, Paths!TooLargeStays
  <2> QED
    BY <1>4, <2>1, <2>2, <2>3, SameStore DEF PathInv
<1>5. CASE disk' = disk \cup {m} /\ store' = [store EXCEPT ![m] = Paths!Downloaded(m)]
  <2> DEFINE d == Paths!Downloaded(m)
  <2>1. d \in SUBSET Entry /\ Learnt(m, d) /\ \A e \in d : e.of = m
    BY DEF Paths!Downloaded, Entry, Learnt
  <2> HIDE DEF d
  <2>2. store'[m] = d /\ \A x \in Media : x # m => store'[x] = store[x]
    BY <1>5 DEF PathInv, PathTypes, d
  <2>3. PathTypes'
    BY <1>1, <1>5, <2>1 DEF PathInv, PathTypes, d
  <2>4. OnDisk'
    BY <1>1, <1>5, <2>1, <2>2 DEF PathInv, OnDisk
  <2>5. OwnAmong'
    BY <1>1 DEF PathInv, OwnAmong, Stamped, HasOwn
  <2>6. Unheard'
    <3>1. \A x \in Large : x \in Media
      BY PathsAssumption DEF Media
    <3> QED
      BY <1>1, <1>3, <2>2, <3>1 DEF PathInv, Unheard
  <2>7. MarkLasts' /\ TooLargeStays'
    <3>1. \A x \in toolarge : x \in Media /\ x # m
      BY <1>2, PathsAssumption DEF PathInv, MarkLasts, Media
    <3> QED
      BY <1>1, <2>2, <3>1 DEF PathInv, MarkLasts, Barred, TooLargeStays, Paths!TooLargeStays
  <2>8. Learns
    BY <2>1, <2>2 DEF Learns
  <2> QED
    BY <2>3, <2>4, <2>5, <2>6, <2>7, <2>8 DEF PathInv
<1> QED
  BY <1>4, <1>5 DEF Paths!Fetch

\* A pass over the burst: each payload is stored with its own attachment.
LEMMA TurnStartKeeps == ASSUME PathInv, Paths!TurnStart PROVE PathInv' /\ Learns
<1> DEFINE atts == {Paths!Attachment(m) : m \in Paths!Burst}
           stored == Paths!Stored(atts, None, marked)
           last == waiting[Len(waiting)]
<1>1. /\ batch = Paths!Idle /\ waiting # <<>>
      /\ store' = Paths!Kept(stored)
      /\ batch' = [step |-> "quoted", base |-> last, atts |-> atts]
      /\ waiting' = <<>> /\ toolarge' = toolarge \ (old \ Paths!Burst)
      /\ UNCHANGED <<arrived, disk, marked, downloads, given>>
  BY DEF Paths!TurnStart
<1>2. Paths!Burst \in SUBSET Media /\ Paths!Burst \subseteq arrived
  BY DEF PathInv, PathTypes, Unheard, Paths!Burst
<1>3. last \in Paths!Burst
  <2>1. Len(waiting) \in 1 .. Len(waiting)
    BY <1>1 DEF PathInv, PathTypes
  <2> QED
    BY <2>1 DEF Paths!Burst
<1>4. /\ atts \in SUBSET Attached /\ Stamped(atts)
      /\ \A a \in atts : ~a.path /\ a.stamp \in arrived
      /\ \A m \in Paths!Burst : HasOwn(atts, m)
  BY <1>2, OwnAttachment DEF Stamped, HasOwn
<1> HIDE DEF atts
<1>5. stored \in [Media -> SUBSET Entry]
  BY <1>4, StoredTypes DEF PathInv
<1>6. \A x \in Media : \A e \in stored[x] : e.path => e.of \in disk
  BY <1>4, StoredOnDisk DEF PathInv
<1>7. \A x \in Media : Learnt(x, store[x]) => Learnt(x, stored[x]) \/ Foreign(x, stored[x])
  BY <1>4, StoredLearns DEF PathInv
<1>8. \A x \in Large : x \in toolarge => \E e \in stored[x] : e.blocked
  <2> SUFFICES ASSUME NEW x \in Large, x \in toolarge
               PROVE  \E e \in stored[x] : e.blocked
    OBVIOUS
  <2>1. x \in Media /\ x # None /\ x \in marked /\ Barred(x)
    BY PathsAssumption DEF PathInv, MarkLasts, Media
  <2> QED
    BY <1>4, <2>1, StoredBarred
<1>9. \A x \in Large : x \notin arrived => stored[x] = store[x]
  <2> SUFFICES ASSUME NEW x \in Large, x \notin arrived PROVE stored[x] = store[x]
    OBVIOUS
  <2>1. x \in Media /\ x # None
    BY PathsAssumption DEF Media
  <2>2. \A a \in atts : Paths!Filed(a, None) # x
    BY <1>4, <2>1 DEF Paths!Filed
  <2> QED
    BY <2>1, <2>2, StoredElsewhere
<1> HIDE DEF stored
<1>10. \A x \in Media : store'[x] = IF x \in old /\ x \notin Paths!Burst THEN {} ELSE stored[x]
  BY <1>1 DEF Paths!Kept, Paths!Messages, Media
<1>11. PathTypes'
  <2>1. store' \in [Media -> SUBSET Entry]
    <3>1. store' = [x \in Media |-> IF x \in old /\ x \notin Paths!Burst THEN {} ELSE stored[x]]
      BY <1>1 DEF Paths!Kept, Paths!Messages, Media
    <3> QED
      BY <1>5, <3>1
  <2>2. waiting' \in Seq(Media) /\ last \in Media
    BY <1>1, <1>2, <1>3
  <2> QED
    BY <1>1, <1>4, <2>1, <2>2 DEF PathTypes
<1>12. OnDisk' /\ OwnAmong'
  BY <1>1, <1>3, <1>4, <1>6, <1>10 DEF OnDisk, OwnAmong
<1>13. Unheard'
  <2>1. \A x \in Large : x \in Media
    BY PathsAssumption DEF Media
  <2>2. \A x \in Large : x \notin arrived' => store'[x] = {}
    BY <1>1, <1>9, <1>10, <2>1 DEF PathInv, Unheard
  <2>3. batch'.base \in arrived' /\ \A a \in batch'.atts : a.stamp \in arrived'
    BY <1>1, <1>2, <1>3, <1>4
  <2> QED
    BY <1>1, <2>2, <2>3 DEF PathInv, Unheard
<1>14. MarkLasts' /\ TooLargeStays'
  <2>1. \A x \in toolarge' : x \in toolarge /\ x \in Large /\ x \in Media /\ store'[x] = stored[x]
    BY <1>1, <1>10, PathsAssumption DEF PathInv, MarkLasts, Media
  <2> QED
    BY <1>1, <1>8, <2>1 DEF PathInv, MarkLasts, Barred, TooLargeStays, Paths!TooLargeStays
<1>15. Learns
  BY <1>7, <1>10 DEF Learns
<1> QED
  BY <1>11, <1>12, <1>13, <1>14, <1>15 DEF PathInv

\* The batch goes on with attachments as they were.
LEMMA BatchGoesOn ==
    ASSUME PathInv, batch.step # "idle",
           NEW step \in {"quoted", "fetching", "resolve", "visual", "acting"},
           batch' = [batch EXCEPT !.step = step],
           UNCHANGED <<store, marked, toolarge, waiting, disk, arrived, given>>,
           \A m \in Large : <<"task", m>> \in downloads' => <<"task", m>> \in downloads,
           \A m \in Large : <<"arrival", m>> \notin downloads' /\ <<"quoted", m>> \notin downloads'
    PROVE  PathInv' /\ Learns
<1>1. /\ batch'.base = batch.base /\ batch'.atts = batch.atts /\ batch'.step = step
      /\ PathTypes'
  BY DEF PathInv, PathTypes
<1>2. OwnAmong'
  BY <1>1 DEF PathInv, OwnAmong, Stamped, HasOwn
<1>3. /\ \A a \in batch'.atts : a.path => a.of \in disk'
      /\ batch'.base \in arrived' \cup {None}
      /\ \A a \in batch'.atts : a.stamp \in arrived' \cup {None}
  BY <1>1 DEF PathInv, OnDisk, Unheard
<1> QED
  BY <1>1, <1>2, <1>3, AtRest

LEMMA SameDownloads ==
    ASSUME PathInv, downloads' = downloads
    PROVE  \A m \in Large : <<"arrival", m>> \notin downloads' /\ <<"quoted", m>> \notin downloads'
BY DEF PathInv, Unheard

LEMMA AskQuotedKeeps == ASSUME PathInv, Paths!AskQuoted PROVE PathInv' /\ Learns
<1>1. /\ batch.step = "quoted"
      /\ UNCHANGED <<store, marked, toolarge, waiting, disk, arrived, given>>
  BY DEF Paths!AskQuoted, Paths!inbound
<1>2. CASE /\ Paths!Quoted \in Images
           /\ downloads' = downloads \cup {<<"quoted", Paths!Quoted>>}
           /\ batch' = [batch EXCEPT !.step = "fetching"]
  <2>1. \A m \in Large : m # Paths!Quoted
    BY <1>2, PathsAssumption
  <2>2. \A m \in Large :
          /\ <<"task", m>> \in downloads' => <<"task", m>> \in downloads
          /\ <<"arrival", m>> \notin downloads' /\ <<"quoted", m>> \notin downloads'
    BY <1>2, <2>1 DEF PathInv, Unheard
  <2> QED
    BY <1>1, <1>2, <2>2, BatchGoesOn
<1>3. CASE batch' = [batch EXCEPT !.step = "resolve"] /\ downloads' = downloads
  BY <1>1, <1>3, SameDownloads, BatchGoesOn
<1> QED
  BY <1>2, <1>3 DEF Paths!AskQuoted

LEMMA BlindKeeps == ASSUME PathInv, Paths!Blind PROVE PathInv' /\ Learns
BY SameDownloads, BatchGoesOn DEF Paths!Blind, Paths!inbound

LEMMA ResolveKeeps == ASSUME PathInv, Paths!Resolve PROVE PathInv' /\ Learns
<1> DEFINE found == IF Paths!Quoted = None THEN {}
                    ELSE {e \in store[Paths!Quoted] : e.path /\ e.of \in disk}
           more == {[of |-> e.of, stamp |-> None, path |-> TRUE, tried |-> FALSE] : e \in found}
<1>1. /\ batch.step \in {"resolve", "fetching"}
      /\ batch' = [batch EXCEPT !.step = "visual", !.atts = @ \cup more]
      /\ UNCHANGED <<store, marked, toolarge, waiting, disk, arrived, given, downloads>>
  BY DEF Paths!Resolve, Paths!inbound
<1>2. \A e \in found : e.of \in Media /\ e.of \in disk
  <2>1. CASE Paths!Quoted \in Media
    BY <2>1 DEF PathInv, PathTypes, Entry
  <2>2. CASE Paths!Quoted = None
    BY <2>2
  <2>3. Paths!Quoted \in Media \cup {None}
    BY <1>1, QuotesMedia DEF PathInv, OwnAmong, HasOwn, PathTypes, Attached
  <2> QED
    BY <2>1, <2>2, <2>3
<1>3. more \in SUBSET Attached /\ \A a \in more : a.stamp = None /\ a.of \in disk
  <2>1. ASSUME NEW e \in found
        PROVE  [of |-> e.of, stamp |-> None, path |-> TRUE, tried |-> FALSE] \in Attached
    BY <1>2 DEF Attached
  <2> QED
    BY <1>2, <2>1
<1> HIDE DEF more, found
<1>4. /\ batch'.base = batch.base /\ batch'.atts = batch.atts \cup more /\ batch'.step = "visual"
      /\ PathTypes'
  BY <1>1, <1>3 DEF PathInv, PathTypes
<1>5. OwnAmong'
  BY <1>1, <1>3, <1>4 DEF PathInv, OwnAmong, Stamped, HasOwn
<1>6. /\ \A a \in batch'.atts : a.path => a.of \in disk'
      /\ batch'.base \in arrived' \cup {None}
      /\ \A a \in batch'.atts : a.stamp \in arrived' \cup {None}
  BY <1>1, <1>3, <1>4 DEF PathInv, OnDisk, Unheard
<1> QED
  BY <1>1, <1>4, <1>5, <1>6, SameDownloads, AtRest

LEMMA MaterializeKeeps ==
    ASSUME PathInv, NEW a \in batch.atts, Paths!Materialize(a)
    PROVE  PathInv' /\ Learns
<1> DEFINE b == [a EXCEPT !.tried = TRUE, !.path = a.of \in cached]
<1>1. /\ batch.step = "visual"
      /\ disk' = IF a.of \in cached THEN disk \cup {a.of} ELSE disk
      /\ batch' = [batch EXCEPT !.atts = (@ \ {a}) \cup {b}]
      /\ UNCHANGED <<store, marked, toolarge, waiting, arrived, given, downloads>>
  BY DEF Paths!Materialize, Paths!inbound
<1>2. b \in Attached /\ b.of = a.of /\ b.stamp = a.stamp /\ (b.path <=> a.of \in cached)
  <2> DEFINE p == a.of \in cached
  <2>1. p \in BOOLEAN /\ a \in Attached
    BY DEF PathInv, PathTypes
  <2> HIDE DEF p
  <2>2. LET x == [a EXCEPT !.tried = TRUE, !.path = p]
        IN  x \in Attached /\ x.of = a.of /\ x.stamp = a.stamp /\ x.path = p
    BY <2>1 DEF Attached
  <2> QED
    BY <2>2 DEF p
<1> HIDE DEF b
<1>3. /\ batch'.base = batch.base /\ batch'.atts = (batch.atts \ {a}) \cup {b}
      /\ batch'.step = batch.step /\ PathTypes'
  BY <1>1, <1>2 DEF PathInv, PathTypes
<1>4. OwnAmong'
  BY <1>1, <1>2, <1>3 DEF PathInv, OwnAmong, Stamped, HasOwn
<1>5. /\ \A x \in batch'.atts : x.path => x.of \in disk'
      /\ batch'.base \in arrived' \cup {None}
      /\ \A x \in batch'.atts : x.stamp \in arrived' \cup {None}
  BY <1>1, <1>2, <1>3 DEF PathInv, OnDisk, Unheard
<1> QED
  BY <1>1, <1>3, <1>4, <1>5, SameDownloads, AtRest

\* The second pass over the last payload of the batch.
LEMMA MaterializedKeeps == ASSUME PathInv, Paths!Materialized PROVE PathInv' /\ Learns
<1> DEFINE stored == Paths!Stored(batch.atts, batch.base, marked)
<1>1. /\ batch.step = "visual" /\ batch' = [batch EXCEPT !.step = "acting"]
      /\ store' = stored \/ store' = store
      /\ UNCHANGED <<marked, toolarge, waiting, disk, arrived, given, downloads>>
  BY DEF Paths!Materialized, Paths!inbound
<1>2. CASE store' = store
  BY <1>1, <1>2, SameDownloads, BatchGoesOn
<1>3. CASE store' = stored
  <2>1. /\ batch.atts \in SUBSET Attached /\ Stamped(batch.atts) /\ HasOwn(batch.atts, batch.base)
        /\ \A a \in batch.atts : a.path => a.of \in disk
    BY <1>1 DEF PathInv, PathTypes, OwnAmong, OnDisk
  <2>2. stored \in [Media -> SUBSET Entry]
    BY <2>1, StoredTypes DEF PathInv
  <2>3. \A x \in Media : \A e \in stored[x] : e.path => e.of \in disk
    BY <2>1, StoredOnDisk DEF PathInv
  <2>4. \A x \in Media : Learnt(x, store[x]) => Learnt(x, stored[x]) \/ Foreign(x, stored[x])
    BY <2>1, StoredLearns DEF PathInv
  <2>5. \A x \in toolarge : x \in Media /\ \E e \in stored[x] : e.blocked
    <3> SUFFICES ASSUME NEW x \in toolarge PROVE x \in Media /\ \E e \in stored[x] : e.blocked
      OBVIOUS
    <3>1. x \in Media /\ x # None /\ x \in marked /\ Barred(x)
      BY PathsAssumption DEF PathInv, MarkLasts, Media
    <3> QED
      BY <2>1, <3>1, StoredBarred
  <2>6. \A x \in Large : x \notin arrived => stored[x] = store[x]
    <3> SUFFICES ASSUME NEW x \in Large, x \notin arrived PROVE stored[x] = store[x]
      OBVIOUS
    <3>1. x \in Media /\ x # None
      BY PathsAssumption DEF Media
    <3>2. \A a \in batch.atts : Paths!Filed(a, batch.base) # x
      BY <3>1 DEF Paths!Filed, PathInv, Unheard
    <3> QED
      BY <3>1, <3>2, StoredElsewhere
  <2> HIDE DEF stored
  <2>7. batch'.base = batch.base /\ batch'.atts = batch.atts /\ PathTypes'
    BY <1>1, <1>3, <2>2 DEF PathInv, PathTypes
  <2>8. OnDisk' /\ OwnAmong'
    BY <1>1, <1>3, <2>1, <2>3, <2>7 DEF OnDisk, OwnAmong, Stamped, HasOwn
  <2>9. Unheard'
    BY <1>1, <1>3, <2>6, <2>7 DEF PathInv, Unheard
  <2>10. MarkLasts' /\ TooLargeStays'
    BY <1>1, <1>3, <2>5 DEF PathInv, MarkLasts, Barred, TooLargeStays, Paths!TooLargeStays
  <2>11. Learns
    BY <1>3, <2>4 DEF Learns
  <2> QED
    BY <2>7, <2>8, <2>9, <2>10, <2>11 DEF PathInv
<1> QED
  BY <1>1, <1>2, <1>3

LEMMA IdleBatch ==
    ASSUME PathInv, batch' = Paths!Idle, UNCHANGED <<store, waiting>>
    PROVE  /\ PathTypes' /\ OwnAmong' /\ batch'.atts = {} /\ batch'.base = None
BY DEF PathInv, PathTypes, Paths!Idle, OwnAmong, Stamped

\* Nothing is given, or downloaded for a task, that is blocked.
LEMMA TaskKeeps ==
    ASSUME PathInv, NEW m \in Media, Paths!Task(m)
    PROVE  PathInv' /\ Learns
<1>1. /\ m \in arrived /\ batch' = Paths!Idle
      /\ UNCHANGED <<store, marked, toolarge, waiting, disk, arrived>>
  BY DEF Paths!Task, Paths!inbound
<1>2. \A x \in Large :
        /\ <<x, x>> \in given' => <<x, x>> \in given \/ (x = m /\ ~Barred(m))
        /\ <<"task", x>> \in downloads' => <<"task", x>> \in downloads \/ (x = m /\ ~Barred(m))
        /\ <<"arrival", x>> \notin downloads' /\ <<"quoted", x>> \notin downloads'
  <2>1. CASE UNCHANGED <<given, downloads>>
    BY <2>1, SameDownloads
  <2>2. CASE /\ ~Barred(m) /\ downloads' = downloads
             /\ given' = given \cup {<<m, e.of>> : e \in store[m]}
    BY <2>2, SameDownloads
  <2>3. CASE ~Barred(m) /\ given' = given /\ downloads' = downloads \cup {<<"task", m>>}
    BY <2>3 DEF PathInv, Unheard
  <2> QED
    BY <2>1, <2>2, <2>3 DEF Paths!Task, Barred
<1> QED
  BY <1>1, <1>2, IdleBatch, AtRest

LEMMA ReplyKeeps == ASSUME PathInv, Paths!Reply PROVE PathInv' /\ Learns
<1>1. /\ batch' = Paths!Idle
      /\ UNCHANGED <<store, marked, toolarge, waiting, disk, arrived, given, downloads>>
  BY DEF Paths!Reply, Paths!inbound
<1> QED
  BY <1>1, IdleBatch, SameDownloads, AtRest

LEMMA OutsideKeeps ==
    ASSUME PathInv, Paths!Age \/ \E m \in Media : Paths!Evict(m)
    PROVE  PathInv' /\ Learns
<1>1. UNCHANGED <<store, marked, toolarge, waiting, disk, arrived, given, downloads, batch>>
  BY DEF Paths!Age, Paths!Evict, Paths!inbound
<1>2. PathInv'
  BY <1>1 DEF PathInv, PathTypes, OnDisk, OwnAmong, Stamped, HasOwn, Unheard, MarkLasts, Barred,
              TooLargeStays, Paths!TooLargeStays
<1> QED
  BY <1>1, <1>2, SameStore

LEMMA PathInit == Paths!Init => PathInv
<1> SUFFICES ASSUME Paths!Init PROVE PathInv
  OBVIOUS
<1>1. /\ arrived = {} /\ waiting = <<>> /\ batch = Paths!Idle /\ downloads = {}
      /\ given = {} /\ toolarge = {}
      /\ store = [m \in Media |-> {}]
  BY DEF Paths!Init, Paths!Messages, Media
<1>2. PathTypes
  BY <1>1 DEF PathTypes, Paths!Idle
<1>3. OnDisk /\ OwnAmong
  BY <1>1 DEF OnDisk, OwnAmong, Stamped, Paths!Idle
<1>4. Unheard
  BY <1>1, PathsAssumption DEF Unheard, Paths!Idle, Media
<1>5. MarkLasts /\ TooLargeStays
  BY <1>1 DEF MarkLasts, TooLargeStays, Paths!TooLargeStays
<1> QED
  BY <1>2, <1>3, <1>4, <1>5 DEF PathInv

LEMMA PathNext == PathInv /\ [Paths!Next]_pathVars => PathInv' /\ Learns
<1> SUFFICES ASSUME PathInv, [Paths!Next]_pathVars PROVE PathInv' /\ Learns
  OBVIOUS
<1>1. CASE Paths!TurnStart \/ Paths!AskQuoted \/ Paths!Resolve \/ Paths!Materialized
           \/ Paths!Blind \/ Paths!Reply \/ Paths!Age
  BY <1>1, TurnStartKeeps, AskQuotedKeeps, ResolveKeeps, MaterializedKeeps, BlindKeeps,
     ReplyKeeps, OutsideKeeps
<1>2. ASSUME NEW a \in batch.atts, Paths!Materialize(a) PROVE PathInv' /\ Learns
  BY <1>2, MaterializeKeeps
<1>3. ASSUME NEW m \in Media,
             Paths!Arrive(m, TRUE) \/ Paths!Arrive(m, FALSE) \/ Paths!Task(m) \/ Paths!Evict(m)
      PROVE  PathInv' /\ Learns
  BY <1>3, ArriveKeeps, ArriveOnlyKeeps, TaskKeeps, OutsideKeeps
<1>4. ASSUME NEW m \in Media, NEW who \in {"arrival", "quoted", "task"}, Paths!Fetch(who, m)
      PROVE  PathInv' /\ Learns
  BY <1>4, FetchedKeeps
<1>5. CASE UNCHANGED pathVars
  <2>1. UNCHANGED <<store, marked, toolarge, waiting, disk, arrived, given, downloads, batch>>
    BY <1>5 DEF pathVars
  <2>2. PathInv'
    BY <2>1 DEF PathInv, PathTypes, OnDisk, OwnAmong, Stamped, HasOwn, Unheard, MarkLasts, Barred,
                TooLargeStays, Paths!TooLargeStays
  <2> QED
    BY <2>1, <2>2, SameStore
<1> QED
  BY <1>1, <1>2, <1>3, <1>4, <1>5 DEF Paths!Next, Paths!Messages, Media

\* A document too large for a sub-agent is not given to one, whichever message it
\* is quoted or filed under, while the mark of the bridge's run lasts.
THEOREM TooLargeStaysAlways == GatewaySpec => []TooLargeStays
<1>1. GatewayInit => PathInv
  BY PartInits, PathInit
<1>2. PathInv /\ [GatewayNext]_allVars => PathInv'
  BY PartSteps, PathNext
<1>3. PathInv => TooLargeStays
  BY DEF PathInv
<1> QED
  BY <1>1, <1>2, <1>3, PTL DEF GatewaySpec

\* A message whose file the store knows does not lose it to a later pass over a
\* payload, as long as the file exists and the message is remembered at all.
THEOREM NeverUnlearnsAlways == GatewaySpec => NeverUnlearns
<1>1. GatewayInit => PathInv
  BY PartInits, PathInit
<1>2. PathInv /\ [GatewayNext]_allVars => PathInv'
  BY PartSteps, PathNext
<1>3. ASSUME PathInv, [GatewayNext]_allVars
      PROVE  [\A m \in Paths!Messages :
                (\E e \in store[m] : e.of = m /\ e.path) /\ store'[m] # {} =>
                   \/ \E e \in store'[m] : e.of = m /\ e.path
                   \/ \E e \in store'[m] : e.of # m]_(Paths!vars)
  BY <1>3, PartSteps, PathNext DEF Learns, Learnt, Foreign, Paths!Messages, Media
<1> QED
  BY <1>1, <1>2, <1>3, PTL DEF GatewaySpec, NeverUnlearns, Paths!NeverUnlearns

-----------------------------------------------------------------------------
(* Actions of a reply.                                                      *)

Lined == Seq(Nat)
Action == [kind : {"send", "react", "sticker"}, to : SUBSET Acts!Tokens, with : Lined]

\* How many actions of a reply hold a line.
Holders(acts, w) == {k \in 1 .. Len(acts) : Acts!Uses(acts[k].with, w) > 0}
Held(acts, w) == Cardinality(Holders(acts, w))

\* The sizes the instance speaks of are those the theorems about sets speak of.
LEMMA SameSize == \A S : Acts!Cardinality(S) = Cardinality(S)
BY DEF Acts!Cardinality, Cardinality

LEMMA UsesIsNat ==
    ASSUME NEW body \in Lined, NEW w
    PROVE  /\ IsFiniteSet({k \in 1 .. Len(body) : body[k] = w})
           /\ Acts!Uses(body, w) \in Nat
<1>1. IsFiniteSet(1 .. Len(body))
  BY FS_Interval DEF Lined
<1>2. IsFiniteSet({k \in 1 .. Len(body) : body[k] = w})
  BY <1>1, FS_Subset
<1> QED
  BY <1>2, FS_CardinalityType, SameSize DEF Acts!Uses

LEMMA UsesNone ==
    ASSUME NEW body \in Lined, NEW w, \A k \in 1 .. Len(body) : body[k] # w
    PROVE  Acts!Uses(body, w) = 0
<1>1. {k \in 1 .. Len(body) : body[k] = w} = {}
  OBVIOUS
<1> QED
  BY <1>1, FS_EmptySet, SameSize DEF Acts!Uses

LEMMA UsesAppend ==
    ASSUME NEW body \in Lined, NEW v \in Nat, NEW w
    PROVE  Acts!Uses(Append(body, v), w)
             = IF v = w THEN Acts!Uses(body, w) + 1 ELSE Acts!Uses(body, w)
<1> DEFINE places == {k \in 1 .. Len(body) : body[k] = w}
           longer == Append(body, v)
<1>1. /\ Len(longer) = Len(body) + 1 /\ longer[Len(body) + 1] = v
      /\ \A k \in 1 .. Len(body) : longer[k] = body[k]
      /\ Len(body) \in Nat
  BY DEF Lined
<1>2. IsFiniteSet(places)
  BY UsesIsNat
<1>5. Len(body) + 1 \notin places
  BY <1>1
<1> HIDE DEF longer
<1>3. CASE v = w
  <2>1. {k \in 1 .. Len(longer) : longer[k] = w} = places \cup {Len(body) + 1}
    BY <1>1, <1>3
  <2>2. Cardinality(places \cup {Len(body) + 1}) = Cardinality(places) + 1
    BY <1>2, <1>5, FS_AddElement
  <2> QED
    BY <1>3, <2>1, <2>2, SameSize DEF Acts!Uses, longer
<1>4. CASE v # w
  <2>1. {k \in 1 .. Len(longer) : longer[k] = w} = places
    BY <1>1, <1>4
  <2> QED
    BY <1>4, <2>1 DEF Acts!Uses, longer
<1> QED
  BY <1>3, <1>4

LEMMA UsesOne ==
    ASSUME NEW v \in Nat, NEW w
    PROVE  <<v>> \in Lined /\ Acts!Uses(<<v>>, w) = IF v = w THEN 1 ELSE 0
<1>1. <<>> \in Lined /\ <<v>> = Append(<<>>, v) /\ <<v>> \in Lined
  BY DEF Lined
<1>2. Acts!Uses(<<>>, w) = 0
  BY <1>1, UsesNone
<1>3. Acts!Uses(Append(<<>>, v), w)
        = IF v = w THEN Acts!Uses(<<>>, w) + 1 ELSE Acts!Uses(<<>>, w)
  BY <1>1, UsesAppend
<1> QED
  BY <1>1, <1>2, <1>3

LEMMA Elements ==
    ASSUME NEW acts \in Seq(Action), NEW k \in 1 .. Len(acts)
    PROVE  acts[k] \in Action /\ acts[k].with \in Lined
<1>1. acts[k] \in Action
  OBVIOUS
<1>2. \A a \in Action : a.with \in Lined
  BY DEF Action
<1> QED
  BY <1>1, <1>2

LEMMA HeldAppend ==
    ASSUME NEW acts \in Seq(Action), NEW a \in Action, NEW w
    PROVE  /\ Held(acts, w) \in Nat
           /\ Held(Append(acts, a), w)
                = IF Acts!Uses(a.with, w) > 0 THEN Held(acts, w) + 1 ELSE Held(acts, w)
<1> DEFINE n == Len(acts)
           longer == Append(acts, a)
<1>1. /\ Len(longer) = n + 1 /\ longer[n + 1] = a
      /\ \A k \in 1 .. n : longer[k] = acts[k]
      /\ n \in Nat
  OBVIOUS
<1>2. IsFiniteSet(Holders(acts, w)) /\ n + 1 \notin Holders(acts, w)
  <2>1. IsFiniteSet(1 .. n)
    BY <1>1, FS_Interval
  <2> QED
    BY <1>1, <2>1, FS_Subset DEF Holders
<1>3. Held(acts, w) \in Nat
  BY <1>2, FS_CardinalityType DEF Held
<1> HIDE DEF longer, n
<1>4. CASE Acts!Uses(a.with, w) > 0
  <2>1. Holders(longer, w) = Holders(acts, w) \cup {n + 1}
    BY <1>1, <1>4 DEF Holders, n
  <2>2. Cardinality(Holders(acts, w) \cup {n + 1}) = Held(acts, w) + 1
    BY <1>2, FS_AddElement DEF Held
  <2> QED
    BY <1>3, <1>4, <2>1, <2>2 DEF Held, longer
<1>5. CASE ~(Acts!Uses(a.with, w) > 0)
  <2>1. Holders(longer, w) = Holders(acts, w)
    BY <1>1, <1>5 DEF Holders, n
  <2> QED
    BY <1>3, <1>5, <2>1 DEF Held, longer
<1> QED
  BY <1>3, <1>4, <1>5 DEF longer

LEMMA HeldNone ==
    ASSUME NEW acts \in Seq(Action), NEW w,
           \A k \in 1 .. Len(acts) : \A j \in 1 .. Len(acts[k].with) : acts[k].with[j] # w
    PROVE  Held(acts, w) = 0
<1>1. \A k \in 1 .. Len(acts) : acts[k].with \in Lined
  BY Elements
<1>2. \A k \in 1 .. Len(acts) : Acts!Uses(acts[k].with, w) = 0
  BY <1>1, UsesNone
<1>3. Holders(acts, w) = {}
  BY <1>2 DEF Holders
<1> QED
  BY <1>3, FS_EmptySet DEF Held

\* Sending lines keeps the count of a line that stands among them once.
LEMMA SentCounts ==
    ASSUME NEW acts \in Seq(Action), NEW body \in Lined, NEW to \in Acts!Tokens
    PROVE  /\ acts \o Acts!SendOf(body, to) \in Seq(Action)
           /\ \A w : Acts!Uses(body, w) <= 1 =>
                 Held(acts \o Acts!SendOf(body, to), w) = Held(acts, w) + Acts!Uses(body, w)
           /\ \A k \in 1 .. Len(acts \o Acts!SendOf(body, to)) :
                 \/ k \in 1 .. Len(acts) /\ (acts \o Acts!SendOf(body, to))[k] = acts[k]
                 \/ (acts \o Acts!SendOf(body, to))[k].with = body
<1> DEFINE a == [kind |-> "send", to |-> {to}, with |-> body]
<1>1. CASE body = <<>>
  <2>1. acts \o Acts!SendOf(body, to) = acts
    BY <1>1 DEF Acts!SendOf
  <2>2. \A w : Acts!Uses(body, w) = 0
    BY <1>1, UsesNone
  <2>3. \A w : Held(acts, w) \in Nat
    <3> TAKE w
    <3> a \in Action
      BY DEF Action
    <3> QED
      BY HeldAppend
  <2> QED
    BY <2>1, <2>2, <2>3
<1>2. CASE body # <<>>
  <2>1. Acts!SendOf(body, to) = <<a>>
    BY <1>2 DEF Acts!SendOf, Acts!Act
  <2>2. a \in Action /\ a.with = body
    BY DEF Action
  <2> HIDE DEF a
  <2>3. acts \o Acts!SendOf(body, to) = Append(acts, a) /\ Append(acts, a) \in Seq(Action)
    BY <2>1, <2>2
  <2>4. \A w : Acts!Uses(body, w) <= 1 => Held(Append(acts, a), w) = Held(acts, w) + Acts!Uses(body, w)
    <3> SUFFICES ASSUME NEW w, Acts!Uses(body, w) <= 1
                 PROVE  Held(Append(acts, a), w) = Held(acts, w) + Acts!Uses(body, w)
      OBVIOUS
    <3>1. Acts!Uses(body, w) \in Nat
      BY UsesIsNat
    <3>2. Held(acts, w) \in Nat
      BY <2>2, HeldAppend
    <3>3. Held(Append(acts, a), w)
            = IF Acts!Uses(body, w) > 0 THEN Held(acts, w) + 1 ELSE Held(acts, w)
      BY <2>2, HeldAppend
    <3> QED
      BY <3>1, <3>2, <3>3
  <2>5. \A k \in 1 .. Len(Append(acts, a)) :
           (k \in 1 .. Len(acts) /\ Append(acts, a)[k] = acts[k]) \/ Append(acts, a)[k] = a
    BY <2>2
  <2> QED
    BY <2>2, <2>3, <2>4, <2>5
<1> QED
  BY <1>1, <1>2

-----------------------------------------------------------------------------
\* No line beyond the n-th.
Within(body, n) == \A k \in 1 .. Len(body) : body[k] <= n

LineTypes ==
    form = "lines" =>
        /\ parts \in Nat /\ words \subseteq 1 .. parts
        /\ reply \in [open : BOOLEAN, to : Acts!Tokens, body : Lined]
        /\ sticker \in [open : BOOLEAN, to : Acts!Tokens]
        /\ react \subseteq Acts!Tokens /\ fallback \in Acts!Tokens
        /\ orphans \in Lined /\ actions \in Seq(Action)

LinesRead ==
    form = "lines" =>
        /\ Within(reply.body, parts) /\ Within(orphans, parts)
        /\ \A k \in 1 .. Len(actions) : Within(actions[k].with, parts)

ActsInv ==
    /\ LineTypes /\ LinesRead
    /\ form = "calls" => words = {}
    /\ EachLineOnce

\* EachLineOnce, in the words of the lemmas.
Once(body, others, acts, w) == Acts!Uses(body, w) + Acts!Uses(others, w) + Held(acts, w) = 1

LEMMA OnceIsOnce ==
    /\ EachLineOnce <=> \A w \in words : Once(reply.body, orphans, actions, w)
    /\ EachLineOnce' <=> \A w \in words' : Once(reply.body', orphans', actions', w)
<1>1. EachLineOnce <=> \A w \in words : Once(reply.body, orphans, actions, w)
  BY SameSize DEF EachLineOnce, Acts!EachLineOnce, Once, Held, Holders
<1>2. EachLineOnce' <=> \A w \in words' : Once(reply.body', orphans', actions', w)
  BY SameSize DEF EachLineOnce, Acts!EachLineOnce, Once, Held, Holders
<1> QED
  BY <1>1, <1>2

LEMMA ResolvesToToken ==
    ASSUME NEW t \in Acts!Tokens, NEW other \in Acts!Tokens
    PROVE  Acts!Resolve(t, other) \in Acts!Tokens
BY DEF Acts!Resolve, Acts!Tokens

LEMMA ActsInvInit == GatewayInit => ActsInv
<1> SUFFICES ASSUME GatewayInit PROVE ActsInv
  OBVIOUS
<1>1. Acts!Init
  BY PartInits
<1>2. <<>> \in Lined /\ <<>> \in Seq(Action)
  BY DEF Lined
<1>3. LineTypes
  BY <1>1, <1>2 DEF Acts!Init, LineTypes, Acts!NoReply, Acts!NoSticker, Acts!Tokens
<1>4. LinesRead
  BY <1>1 DEF Acts!Init, LinesRead, Within, Acts!NoReply
<1>5. words = {}
  BY <1>1 DEF Acts!Init
<1> QED
  BY <1>3, <1>4, <1>5 DEF ActsInv, EachLineOnce, Acts!EachLineOnce

LEMMA NotHeldYet ==
    ASSUME NEW acts \in Seq(Action), NEW n \in Nat,
           \A k \in 1 .. Len(acts) : Within(acts[k].with, n)
    PROVE  Held(acts, n + 1) = 0
<1>1. \A k \in 1 .. Len(acts) : \A j \in 1 .. Len(acts[k].with) : acts[k].with[j] # n + 1
  <2> SUFFICES ASSUME NEW k \in 1 .. Len(acts), NEW j \in 1 .. Len(acts[k].with)
               PROVE  acts[k].with[j] # n + 1
    OBVIOUS
  <2>1. acts[k].with \in Lined
    BY Elements
  <2>2. acts[k].with[j] \in Nat
    BY <2>1 DEF Lined
  <2> QED
    BY <2>2 DEF Within
<1> QED
  BY <1>1, HeldNone

\* What the lines read so far have in common when one is flushed.
LEMMA FlushKeeps ==
    ASSUME ActsInv, form = "lines",
           NEW n \in Nat, parts <= n,
           NEW all, all = actions \o Acts!SendOf(reply.body, reply.to)
    PROVE  /\ all \in Seq(Action)
           /\ \A k \in 1 .. Len(all) : Within(all[k].with, n)
           /\ \A w \in words : Once(<<>>, orphans, all, w)
<1>1. /\ parts \in Nat /\ words \subseteq 1 .. parts
      /\ reply.body \in Lined /\ reply.to \in Acts!Tokens
      /\ orphans \in Lined /\ actions \in Seq(Action)
  BY DEF ActsInv, LineTypes
<1>2. /\ Within(reply.body, parts)
      /\ \A k \in 1 .. Len(actions) : Within(actions[k].with, parts)
  BY DEF ActsInv, LinesRead
<1>3. \A k \in 1 .. Len(all) : \/ k \in 1 .. Len(actions) /\ all[k] = actions[k]
                              \/ all[k].with = reply.body
  BY <1>1, SentCounts
<1>4. all \in Seq(Action)
  BY <1>1, SentCounts
<1>5. \A k \in 1 .. Len(all) : Within(all[k].with, n)
  <2> SUFFICES ASSUME NEW k \in 1 .. Len(all) PROVE Within(all[k].with, n)
    OBVIOUS
  <2>1. Within(all[k].with, parts)
    BY <1>2, <1>3
  <2>2. all[k].with \in Lined
    BY <1>4, Elements
  <2> QED
    <3>1. \A j \in 1 .. Len(all[k].with) : all[k].with[j] \in Nat
      <4>1. \A b \in Lined : \A j \in 1 .. Len(b) : b[j] \in Nat
        BY DEF Lined
      <4> QED
        BY <2>2, <4>1
    <3>2. \A m \in Nat : m <= parts => m <= n
      BY <1>1
    <3> QED
      BY <2>1, <3>1, <3>2 DEF Within
<1>6. \A w \in words : Once(<<>>, orphans, all, w)
  <2> SUFFICES ASSUME NEW w \in words PROVE Once(<<>>, orphans, all, w)
    OBVIOUS
  <2>1. Once(reply.body, orphans, actions, w)
    BY OnceIsOnce DEF ActsInv
  <2>2. /\ Acts!Uses(reply.body, w) \in Nat /\ Acts!Uses(orphans, w) \in Nat
        /\ Held(actions, w) \in Nat
    <3>1. [kind |-> "send", to |-> {}, with |-> orphans] \in Action
      BY <1>1 DEF Action
    <3> QED
      BY <1>1, <3>1, UsesIsNat, HeldAppend
  <2>3. Acts!Uses(<<>>, w) = 0
    <3>1. <<>> \in Lined
      BY DEF Lined
    <3> QED
      BY <3>1, UsesNone
  <2>4. Acts!Uses(reply.body, w) <= 1
    BY <2>1, <2>2 DEF Once
  <2>5. Held(all, w) = Held(actions, w) + Acts!Uses(reply.body, w)
    BY <1>1, <2>4, SentCounts
  <2> QED
    BY <2>1, <2>2, <2>3, <2>5 DEF Once
<1> QED
  BY <1>4, <1>5, <1>6

LEMMA WithinMore ==
    ASSUME NEW body \in Lined, NEW n \in Nat, Within(body, n)
    PROVE  Within(body, n + 1) /\ Within(Append(body, n + 1), n + 1)
<1>1. \A k \in 1 .. Len(body) : body[k] \in Nat
  BY DEF Lined
<1>2. Within(body, n + 1)
  BY <1>1 DEF Within
<1>3. \A k \in 1 .. Len(Append(body, n + 1)) :
         (k \in 1 .. Len(body) /\ Append(body, n + 1)[k] = body[k])
         \/ Append(body, n + 1)[k] = n + 1
  BY DEF Lined
<1> QED
  BY <1>2, <1>3 DEF Within

LEMMA WithinUnused ==
    ASSUME NEW body \in Lined, NEW n \in Nat, Within(body, n)
    PROVE  Acts!Uses(body, n + 1) = 0
<1>1. \A k \in 1 .. Len(body) : body[k] \in Nat
  BY DEF Lined
<1>2. \A k \in 1 .. Len(body) : body[k] # n + 1
  BY <1>1 DEF Within
<1> QED
  BY <1>2, UsesNone

\* A new line goes to one place: the block, what stands outside, an action.
LEMMA TextLineKeeps ==
    ASSUME ActsInv, Acts!TextLine
    PROVE  ActsInv'
<1> DEFINE v == parts + 1
<1>1. /\ form = "lines" /\ form' = "lines" /\ parts' = v
      /\ words' = words \cup {v} /\ fallback' = fallback
  BY DEF Acts!TextLine, Acts!Line, Acts!KeptByLines
<1>2. /\ parts \in Nat /\ words \subseteq 1 .. parts
      /\ reply \in [open : BOOLEAN, to : Acts!Tokens, body : Lined]
      /\ sticker \in [open : BOOLEAN, to : Acts!Tokens]
      /\ react \subseteq Acts!Tokens /\ fallback \in Acts!Tokens
      /\ orphans \in Lined /\ actions \in Seq(Action)
      /\ Within(reply.body, parts) /\ Within(orphans, parts)
      /\ \A k \in 1 .. Len(actions) : Within(actions[k].with, parts)
  BY <1>1 DEF ActsInv, LineTypes, LinesRead
<1>3. v \in Nat /\ v \notin words /\ v \in 1 .. v /\ words' \subseteq 1 .. v
  BY <1>1, <1>2
<1>4. reply.body \in Lined
  BY <1>2
\* An action for the line.
<1>5. ASSUME NEW to \in SUBSET Acts!Tokens, NEW kind \in {"react", "sticker"},
             actions' = Append(actions, [kind |-> kind, to |-> to, with |-> <<v>>]),
             UNCHANGED <<reply, orphans>>,
             sticker' \in [open : BOOLEAN, to : Acts!Tokens], react' \subseteq Acts!Tokens
      PROVE  ActsInv'
  <2> DEFINE a == [kind |-> kind, to |-> to, with |-> <<v>>]
  <2>1. <<v>> \in Lined /\ \A w : Acts!Uses(<<v>>, w) = IF v = w THEN 1 ELSE 0
    BY <1>3, UsesOne
  <2>2. a \in Action /\ a.with = <<v>>
    BY <2>1 DEF Action
  <2> HIDE DEF a
  <2>3. actions' = Append(actions, a)
    BY <1>5 DEF a
  <2>4. /\ actions' \in Seq(Action)
        /\ \A k \in 1 .. Len(actions') :
              (k \in 1 .. Len(actions) /\ actions'[k] = actions[k]) \/ actions'[k] = a
    BY <1>2, <2>2, <2>3
  <2>5. \A k \in 1 .. Len(actions') : Within(actions'[k].with, v)
    <3>1. Within(<<v>>, v)
      BY <1>3 DEF Within
    <3>2. \A k \in 1 .. Len(actions) : Within(actions[k].with, v)
      BY <1>2, Elements, WithinMore
    <3> QED
      BY <2>2, <2>4, <3>1, <3>2
  <2>6. Within(reply.body, v) /\ Within(orphans, v)
    BY <1>2, <1>4, WithinMore
  <2>7. \A w \in words' : Once(reply.body, orphans, actions', w)
    <3> SUFFICES ASSUME NEW w \in words' PROVE Once(reply.body, orphans, actions', w)
      OBVIOUS
    <3>1. Held(actions, w) \in Nat
          /\ Held(actions', w) = IF v = w THEN Held(actions, w) + 1 ELSE Held(actions, w)
      <4>1. /\ Held(actions, w) \in Nat
            /\ Held(Append(actions, a), w)
                 = IF Acts!Uses(a.with, w) > 0 THEN Held(actions, w) + 1 ELSE Held(actions, w)
        BY <1>2, <2>2, HeldAppend
      <4>2. Acts!Uses(a.with, w) > 0 <=> v = w
        BY <2>1, <2>2
      <4> QED
        BY <2>3, <4>1, <4>2
    <3>2. CASE w = v
      <4>1. Acts!Uses(reply.body, w) = 0 /\ Acts!Uses(orphans, w) = 0
        BY <1>2, <1>4, <3>2, WithinUnused
      <4>2. Held(actions, w) = 0
        BY <1>2, <3>2, NotHeldYet
      <4> QED
        BY <3>1, <3>2, <4>1, <4>2 DEF Once
    <3>3. CASE w # v
      <4>1. w \in words /\ Once(reply.body, orphans, actions, w)
        BY <1>1, <3>3, OnceIsOnce DEF ActsInv
      <4> QED
        BY <3>1, <3>3, <4>1 DEF Once
    <3> QED
      BY <3>2, <3>3
  <2>8. LineTypes'
    <3> HIDE DEF v
    <3> QED
      BY <1>1, <1>2, <1>3, <1>5, <2>4 DEF LineTypes, Acts!Tokens
  <2>9. LinesRead'
    <3> HIDE DEF v
    <3> QED
      BY <1>1, <1>5, <2>5, <2>6 DEF LinesRead, Within
  <2> QED
    BY <1>1, <1>5, <2>7, <2>8, <2>9, OnceIsOnce DEF ActsInv
\* The line joins the block or what stands outside.
<1>6. ASSUME NEW before \in Lined, NEW other \in Lined, NEW new,
             new = Append(before, v), Within(before, parts), Within(other, parts),
             \A w \in words : Acts!Uses(before, w) + Acts!Uses(other, w) + Held(actions, w) = 1
      PROVE  /\ new \in Lined /\ Within(new, v) /\ Within(other, v)
             /\ \A w \in words' :
                    Acts!Uses(new, w) + Acts!Uses(other, w) + Held(actions, w) = 1
  <2>1. new \in Lined /\ Within(new, v) /\ Within(other, v)
    <3>1. new \in Lined
      BY <1>3, <1>6 DEF Lined
    <3> QED
      BY <1>2, <1>6, <3>1, WithinMore
  <2> SUFFICES ASSUME NEW w \in words'
               PROVE  Acts!Uses(new, w) + Acts!Uses(other, w) + Held(actions, w) = 1
    BY <2>1
  <2>2. Acts!Uses(before, w) \in Nat /\ Acts!Uses(other, w) \in Nat
    BY <1>6, UsesIsNat
  <2>3. Acts!Uses(new, w) = IF v = w THEN Acts!Uses(before, w) + 1 ELSE Acts!Uses(before, w)
    BY <1>3, <1>6, UsesAppend
  <2>4. CASE w = v
    <3>1. Acts!Uses(before, w) = 0 /\ Acts!Uses(other, w) = 0
      BY <1>2, <1>6, <2>4, WithinUnused
    <3>2. Held(actions, w) = 0
      BY <1>2, <2>4, NotHeldYet
    <3> QED
      BY <2>3, <2>4, <3>1, <3>2
  <2>5. CASE w # v
    <3>1. w \in words
      BY <1>1, <2>5
    <3> QED
      BY <1>6, <2>3, <2>5, <3>1
  <2> QED
    BY <2>4, <2>5
<1>7. \A w \in words : Once(reply.body, orphans, actions, w)
  BY OnceIsOnce DEF ActsInv
<1>8. \A k \in 1 .. Len(actions) : Within(actions[k].with, v)
  BY <1>2, Elements, WithinMore
<1>9. CASE sticker.open
  <2>1. {sticker.to} \in SUBSET Acts!Tokens
    BY <1>2
  <2>2. Acts!NoSticker \in [open : BOOLEAN, to : Acts!Tokens]
    BY DEF Acts!NoSticker, Acts!Tokens
  <2> QED
    BY <1>2, <1>5, <1>9, <2>1, <2>2 DEF Acts!TextLine, Acts!Act
<1>10. CASE ~sticker.open /\ react # {}
  BY <1>2, <1>5, <1>10 DEF Acts!TextLine, Acts!Act
<1>11. CASE ~sticker.open /\ react = {} /\ reply.open
  <2>1. /\ reply' = [reply EXCEPT !.body = Append(reply.body, v)]
        /\ UNCHANGED <<react, sticker, orphans, actions>>
    BY <1>11 DEF Acts!TextLine
  <2>2. reply'.body = Append(reply.body, v)
    BY <1>2, <2>1
  <2>3. /\ reply'.body \in Lined /\ Within(reply'.body, v) /\ Within(orphans, v)
        /\ \A w \in words' :
              Acts!Uses(reply'.body, w) + Acts!Uses(orphans, w) + Held(actions, w) = 1
    BY <1>2, <1>4, <1>6, <1>7, <2>2 DEF Once
  <2>4. LineTypes'
    <3>1. reply' \in [open : BOOLEAN, to : Acts!Tokens, body : Lined]
      BY <1>2, <2>1, <2>2, <2>3
    <3> HIDE DEF v
    <3> QED
      BY <1>1, <1>2, <1>3, <2>1, <3>1 DEF LineTypes, Acts!Tokens
  <2>5. LinesRead'
    <3> HIDE DEF v
    <3> QED
      BY <1>1, <1>8, <2>1, <2>3 DEF LinesRead, Within
  <2>6. \A w \in words' : Once(reply.body', orphans', actions', w)
    BY <2>1, <2>3 DEF Once
  <2> QED
    BY <1>1, <2>4, <2>5, <2>6, OnceIsOnce DEF ActsInv
<1>12. CASE ~sticker.open /\ react = {} /\ ~reply.open
  <2>1. /\ orphans' = Append(orphans, v)
        /\ UNCHANGED <<reply, react, sticker, actions>>
    BY <1>12 DEF Acts!TextLine
  <2>2. \A w \in words : Acts!Uses(orphans, w) + Acts!Uses(reply.body, w) + Held(actions, w) = 1
    <3> SUFFICES ASSUME NEW w \in words
                 PROVE  Acts!Uses(orphans, w) + Acts!Uses(reply.body, w) + Held(actions, w) = 1
      OBVIOUS
    <3>1. Acts!Uses(orphans, w) \in Nat /\ Acts!Uses(reply.body, w) \in Nat
      BY <1>2, <1>4, UsesIsNat
    <3> QED
      BY <1>7, <3>1 DEF Once
  <2>3. /\ orphans' \in Lined /\ Within(orphans', v) /\ Within(reply.body, v)
        /\ \A w \in words' :
              Acts!Uses(orphans', w) + Acts!Uses(reply.body, w) + Held(actions, w) = 1
    BY <1>2, <1>4, <1>6, <2>1, <2>2
  <2>4. LineTypes'
    <3> HIDE DEF v
    <3> QED
      BY <1>1, <1>2, <1>3, <2>1, <2>3 DEF LineTypes, Acts!Tokens
  <2>5. LinesRead'
    <3> HIDE DEF v
    <3> QED
      BY <1>1, <1>8, <2>1, <2>3 DEF LinesRead, Within
  <2>6. \A w \in words' : Once(reply.body', orphans', actions', w)
    <3> SUFFICES ASSUME NEW w \in words' PROVE Once(reply.body', orphans', actions', w)
      OBVIOUS
    <3>1. Acts!Uses(orphans', w) \in Nat /\ Acts!Uses(reply.body, w) \in Nat
      BY <1>4, <2>3, UsesIsNat
    <3> QED
      BY <2>1, <2>3, <3>1 DEF Once
  <2> QED
    BY <1>1, <2>4, <2>5, <2>6, OnceIsOnce DEF ActsInv
<1> QED
  BY <1>9, <1>10, <1>11, <1>12

\* The last block is sent, or what stands outside when there is nothing else.
LEMMA EndOfLinesKeeps ==
    ASSUME ActsInv, Acts!EndOfLines
    PROVE  ActsInv'
<1> DEFINE all == actions \o Acts!SendOf(reply.body, reply.to)
<1>1. /\ form = "lines" /\ form' = "done" /\ words' = words /\ reply' = Acts!NoReply
      /\ actions' = IF all = <<>> THEN Acts!SendOf(orphans, fallback) ELSE all
      /\ orphans' = IF all = <<>> THEN <<>> ELSE orphans
  BY DEF Acts!EndOfLines
<1>2. parts \in Nat /\ orphans \in Lined /\ fallback \in Acts!Tokens
  BY <1>1 DEF ActsInv, LineTypes
<1>3. \A w \in words : Once(<<>>, orphans, all, w)
  <2>1. parts <= parts
    BY <1>2
  <2> QED
    BY <1>1, <1>2, <2>1, FlushKeeps
<1>4. <<>> \in Lined /\ <<>> \in Seq(Action) /\ \A w : Acts!Uses(<<>>, w) = 0
  <2>1. <<>> \in Lined /\ <<>> \in Seq(Action)
    BY DEF Lined
  <2> QED
    BY <2>1, UsesNone
<1>5. reply'.body = <<>>
  BY <1>1 DEF Acts!NoReply
<1>6. \A w \in words' : Once(reply.body', orphans', actions', w)
  <2>1. CASE all # <<>>
    BY <1>1, <1>3, <1>5, <2>1
  <2>2. CASE all = <<>>
    <3> SUFFICES ASSUME NEW w \in words PROVE Once(<<>>, <<>>, actions', w)
      BY <1>1, <1>5, <2>2
    <3>1. Held(<<>>, w) = 0
      <4>1. \A k \in 1 .. Len(<<>>) : FALSE
        OBVIOUS
      <4> QED
        BY <1>4, <4>1, HeldNone
    <3>2. Acts!Uses(orphans, w) \in Nat
      BY <1>2, UsesIsNat
    <3>3. Acts!Uses(orphans, w) = 1
      BY <1>3, <1>4, <2>2, <3>1, <3>2 DEF Once
    <3>4. actions' = <<>> \o Acts!SendOf(orphans, fallback)
      <4> DEFINE a == [kind |-> "send", to |-> {fallback}, with |-> orphans]
      <4>1. Acts!SendOf(orphans, fallback) = <<>> \/ Acts!SendOf(orphans, fallback) = <<a>>
        BY DEF Acts!SendOf, Acts!Act
      <4> QED
        BY <1>1, <2>2, <4>1
    <3>5. Held(actions', w) = Held(<<>>, w) + Acts!Uses(orphans, w)
      <4>1. Acts!Uses(orphans, w) <= 1
        BY <3>3
      <4>2. Held(<<>> \o Acts!SendOf(orphans, fallback), w) = Held(<<>>, w) + Acts!Uses(orphans, w)
        BY <1>2, <1>4, <4>1, SentCounts
      <4> QED
        BY <3>4, <4>2
    <3> QED
      BY <1>4, <3>1, <3>3, <3>5 DEF Once
  <2> QED
    BY <2>1, <2>2
<1> QED
  BY <1>1, <1>6, OnceIsOnce DEF ActsInv, LineTypes, LinesRead

LEMMA ActsInvStep == ActsInv /\ [GatewayNext]_allVars => ActsInv'
<1> SUFFICES ASSUME ActsInv, [GatewayNext]_allVars PROVE ActsInv'
  OBVIOUS
<1>1. [Acts!Next]_actVars
  BY PartSteps
<1>nil. <<>> \in Lined /\ <<>> \in Seq(Action)
  BY DEF Lined
\* A step that leaves the lines and the actions alone.
<1>same. ASSUME UNCHANGED <<form, parts, reply, react, sticker, orphans, words, actions, fallback>>
         PROVE  ActsInv'
  BY <1>same DEF ActsInv, LineTypes, LinesRead, EachLineOnce, Acts!EachLineOnce
\* A step that forgets the block, its lines sent.
<1>flush. ASSUME form = "lines", form' = "lines", parts' = parts + 1,
                 UNCHANGED <<orphans, words, fallback>>,
                 actions' = actions \o Acts!SendOf(reply.body, reply.to),
                 reply' \in [open : BOOLEAN, to : Acts!Tokens, body : {<<>>}],
                 sticker' \in [open : BOOLEAN, to : Acts!Tokens],
                 react' \subseteq Acts!Tokens
          PROVE  ActsInv'
  <2>1. /\ parts \in Nat /\ words \subseteq 1 .. parts /\ fallback \in Acts!Tokens
        /\ orphans \in Lined /\ Within(orphans, parts)
    BY <1>flush DEF ActsInv, LineTypes, LinesRead
  <2>2. /\ actions' \in Seq(Action)
        /\ \A k \in 1 .. Len(actions') : Within(actions'[k].with, parts + 1)
        /\ \A w \in words : Once(<<>>, orphans, actions', w)
    <3>1. parts + 1 \in Nat /\ parts <= parts + 1
      BY <2>1
    <3> QED
      BY <1>flush, <3>1, FlushKeeps
  <2>3. reply'.body = <<>> /\ reply' \in [open : BOOLEAN, to : Acts!Tokens, body : Lined]
    BY <1>flush, <1>nil
  <2>4. LineTypes'
    <3>1. words' \subseteq 1 .. parts' /\ parts' \in Nat
      BY <1>flush, <2>1
    <3> QED
      BY <1>flush, <2>1, <2>2, <2>3, <3>1 DEF LineTypes, Acts!Tokens
  <2>5. LinesRead'
    <3>1. Within(<<>>, parts + 1)
      BY DEF Within
    <3>2. Within(orphans, parts + 1)
      BY <2>1 DEF Within, Lined
    <3> QED
      BY <1>flush, <2>2, <2>3, <3>1, <3>2 DEF LinesRead, Within
  <2>6. \A w \in words' : Once(reply.body', orphans', actions', w)
    BY <1>flush, <2>2, <2>3
  <2> QED
    BY <1>flush, <2>4, <2>5, <2>6, OnceIsOnce DEF ActsInv
<1>2. CASE UNCHANGED actVars
  BY <1>2, <1>same DEF actVars
<1>3. ASSUME Acts!TextLine PROVE ActsInv'
  BY <1>3, TextLineKeeps
<1>4. ASSUME Acts!EndOfLines PROVE ActsInv'
  BY <1>4, EndOfLinesKeeps
<1>5. ASSUME NEW t \in Acts!Tokens, Acts!ReplyLine(t) PROVE ActsInv'
  <2>1. Acts!Resolve(t, fallback) \in Acts!Tokens
    BY <1>5, ResolvesToToken DEF Acts!ReplyLine, Acts!Line, ActsInv, LineTypes
  <2>2. sticker \in [open : BOOLEAN, to : Acts!Tokens]
    BY <1>5 DEF Acts!ReplyLine, Acts!Line, ActsInv, LineTypes
  <2> QED
    BY <1>5, <2>1, <2>2, <1>flush DEF Acts!ReplyLine, Acts!Line, Acts!KeptByLines
<1>6. ASSUME NEW t \in Acts!Tokens, Acts!StickerLine(t) PROVE ActsInv'
  <2>1. Acts!Resolve(t, fallback) \in Acts!Tokens
    BY <1>6, ResolvesToToken DEF Acts!StickerLine, Acts!Line, ActsInv, LineTypes
  <2> QED
    BY <1>6, <2>1, <1>flush DEF Acts!StickerLine, Acts!Line, Acts!KeptByLines, Acts!Flushed,
                              Acts!NoReply, Acts!Tokens
<1>7. ASSUME NEW ts \in SUBSET (Known \cup {Invented}), Acts!ReactLine(ts) PROVE ActsInv'
  BY <1>7, <1>flush DEF Acts!ReactLine, Acts!Line, Acts!KeptByLines, Acts!Flushed,
                        Acts!NoReply, Acts!NoSticker, Acts!Tokens
\* Calls: there are no lines.
<1>8. ASSUME form = "calls", form' # "lines", UNCHANGED <<reply, orphans, words>>
      PROVE  ActsInv'
  BY <1>8 DEF ActsInv, LineTypes, LinesRead, EachLineOnce, Acts!EachLineOnce
<1>9. ASSUME Acts!Calls PROVE ActsInv'
  <2>1. ASSUME NEW new, Acts!Call(new) PROVE ActsInv'
    BY <2>1, <1>8 DEF Acts!Call, Acts!parser
  <2> QED
    BY <1>9, <2>1, <1>8 DEF Acts!Calls, Acts!EndOfCalls, Acts!CallHtml, Acts!CallReact,
         Acts!CallQuiz, Acts!CallSubtask, Acts!CallReply, Acts!parser
<1>10. ASSUME Acts!Perform PROVE ActsInv'
  BY <1>10, <1>same DEF Acts!Perform, Acts!parser
<1>11. ASSUME NEW k \in running, Acts!Execute(k) PROVE ActsInv'
  BY <1>11, <1>same DEF Acts!Execute, Acts!parser
<1> QED
  BY <1>1, <1>2, <1>3, <1>4, <1>5, <1>6, <1>7, <1>9, <1>10, <1>11 DEF Acts!Next, Acts!Lines

\* Whatever the order of control lines, tools and text in a reply, each line of
\* text is still to be placed or stands in exactly one action.
THEOREM EachLineOnceAlways == GatewaySpec => []EachLineOnce
<1>1. ActsInv => EachLineOnce
  BY DEF ActsInv
<1> QED
  BY <1>1, ActsInvInit, ActsInvStep, PTL DEF GatewaySpec

-----------------------------------------------------------------------------
(* Mutes.                                                                   *)

AMute == [at : 0 .. Horizon, minutes : 1 .. Longest]
EndOf(m) == m.at + m.minutes
Order == [who : People \cup {None}, minutes : Nat]

\* A mute that is stored or cached ends when its member may speak again; where
\* there is none, or the cache says so, the member may.
GateInv ==
    /\ now \in 0 .. Horizon
    /\ orders \in Seq(Order)
    /\ rows \in [People -> AMute \cup {None}]
    /\ muted \in [People -> AMute \cup {Unasked, Free}]
    /\ until \in [People -> Nat]
    /\ \A p \in People :
         /\ rows[p] \in AMute => EndOf(rows[p]) = until[p]
         /\ rows[p] = None => until[p] <= now
         /\ muted[p] \in AMute => EndOf(muted[p]) = until[p]
         /\ muted[p] = Free => until[p] <= now
    /\ GateIsRight

LEMMA NoMutes == None \notin AMute /\ Unasked \notin AMute /\ Free \notin AMute /\ Unasked # Free
BY MutesAssumption DEF AMute

LEMMA ActiveMute ==
    ASSUME GateInv, NEW m \in AMute
    PROVE  Gate!Active(m) <=> now < EndOf(m)
BY DEF Gate!Active, EndOf

LEMMA GateInit == Gate!Init => GateInv
<1> SUFFICES ASSUME Gate!Init PROVE GateInv
  OBVIOUS
<1>1. now \in 0 .. Horizon /\ orders \in Seq(Order)
  BY MutesAssumption DEF Gate!Init
<1>2. /\ rows \in [People -> AMute \cup {None}]
      /\ muted \in [People -> AMute \cup {Unasked, Free}]
      /\ until \in [People -> Nat]
  BY DEF Gate!Init
<1>3. \A p \in People : rows[p] = None /\ muted[p] = Unasked /\ until[p] = 0
  BY DEF Gate!Init
<1>4. GateIsRight
  BY DEF Gate!Init, GateIsRight, Gate!GateIsRight
<1> QED
  BY <1>1, <1>2, <1>3, <1>4, NoMutes DEF GateInv

LEMMA AddedMute ==
    ASSUME NEW d \in Nat \ {0}, now \in 0 .. Horizon
    PROVE  LET m == Gate!Mute(now, Gate!Least(d, Longest))
           IN  m \in AMute /\ EndOf(m) = now + m.minutes /\ EndOf(m) \in Nat
BY MutesAssumption DEF Gate!Mute, Gate!Least, AMute, EndOf

LEMMA OrderKeeps == ASSUME GateInv, Gate!Handle PROVE GateInv'
<1> DEFINE o == Head(orders)
<1>1. o \in Order /\ Tail(orders) \in Seq(Order) /\ orders' = Tail(orders)
  BY DEF Gate!Handle, GateInv
<1>2. now' = now /\ verdict' = verdict /\ orders' \in Seq(Order)
  BY <1>1 DEF Gate!Handle
<1>3. GateIsRight'
  BY <1>2 DEF GateInv, GateIsRight, Gate!GateIsRight
<1>4. CASE o.who = None
  <2>1. /\ rows' = [p \in People |-> None]
        /\ muted' = [p \in People |-> Unasked]
        /\ until' = [p \in People |-> now]
    BY <1>4 DEF Gate!Handle, Gate!Clear
  <2> QED
    BY <2>1, <1>2, <1>3, NoMutes DEF GateInv
<1>5. CASE o.who # None /\ o.minutes = 0
  <2> DEFINE q == o.who
  <2>1. q \in People
    BY <1>1, <1>5 DEF Order
  <2>2. /\ rows' = [rows EXCEPT ![q] = None]
        /\ muted' = [muted EXCEPT ![q] = Unasked]
        /\ until' = [until EXCEPT ![q] = now]
    BY <1>5 DEF Gate!Handle, Gate!Remove
  <2> HIDE DEF q
  <2> QED
    BY <2>1, <2>2, <1>2, <1>3, NoMutes DEF GateInv
<1>6. CASE o.who # None /\ o.minutes # 0
  <2> DEFINE q == o.who
             m == Gate!Mute(now, Gate!Least(o.minutes, Longest))
  <2>1. q \in People /\ o.minutes \in Nat \ {0}
    BY <1>1, <1>6 DEF Order
  <2>2. /\ rows' = [rows EXCEPT ![q] = m]
        /\ muted' = [muted EXCEPT ![q] = m]
        /\ until' = [until EXCEPT ![q] = now + m.minutes]
    BY <1>6 DEF Gate!Handle, Gate!Add
  <2>3. m \in AMute /\ EndOf(m) = now + m.minutes /\ EndOf(m) \in Nat
    BY <2>1, AddedMute DEF GateInv
  <2> HIDE DEF q, m
  <2> QED
    BY <2>1, <2>2, <2>3, <1>2, <1>3, NoMutes DEF GateInv
<1> QED
  BY <1>4, <1>5, <1>6

LEMMA AnswersKeep ==
    ASSUME GateInv, NEW p \in People, Gate!FromCache(p) \/ Gate!FromRow(p)
    PROVE  GateInv'
<1>0. UNCHANGED <<now, orders, until>>
  BY DEF Gate!FromCache, Gate!FromRow
<1>1. CASE Gate!FromCache(p)
  <2>1. rows' = rows /\ muted[p] \in AMute \cup {Free}
    BY <1>1 DEF Gate!FromCache, GateInv
  <2>2. muted' = muted \/ muted' = [muted EXCEPT ![p] = Unasked]
    BY <1>1 DEF Gate!FromCache
  <2>3. (muted[p] # Free /\ Gate!Active(muted[p])) <=> now < until[p]
    BY <2>1, ActiveMute, NoMutes DEF GateInv
  <2>4. verdict' = [deleted |-> muted[p] # Free /\ Gate!Active(muted[p]), due |-> now < until[p]]
    BY <1>1 DEF Gate!FromCache, Gate!Judged
  <2>5. GateIsRight'
    BY <2>3, <2>4, <1>0 DEF GateIsRight, Gate!GateIsRight
  <2> QED
    BY <1>0, <2>1, <2>2, <2>5, NoMutes DEF GateInv
<1>2. CASE Gate!FromRow(p)
  <2> DEFINE active == rows[p] # None /\ Gate!Active(rows[p])
  <2>1. active <=> now < until[p]
    BY ActiveMute, NoMutes DEF GateInv
  <2>2. /\ muted' = [muted EXCEPT ![p] = IF active THEN rows[p] ELSE Free]
        /\ rows' = [rows EXCEPT ![p] = IF active THEN rows[p] ELSE None]
        /\ verdict' = [deleted |-> active, due |-> now < until[p]]
    BY <1>2 DEF Gate!FromRow, Gate!Judged
  <2>3. active => rows[p] \in AMute
    BY DEF GateInv
  <2>4. GateIsRight'
    BY <2>1, <2>2, <1>0 DEF GateIsRight, Gate!GateIsRight
  <2> HIDE DEF active
  <2>5. CASE active
    BY <1>0, <2>2, <2>3, <2>4, <2>5, NoMutes DEF GateInv
  <2>6. CASE ~active
    BY <1>0, <2>1, <2>2, <2>4, <2>6, NoMutes DEF GateInv
  <2> QED
    BY <2>5, <2>6
<1> QED
  BY <1>1, <1>2

LEMMA ListKeeps == ASSUME GateInv, Gate!List PROVE GateInv'
<1> DEFINE expired == {p \in People : rows[p] # None /\ ~Gate!Active(rows[p])}
<1>1. /\ rows' = [p \in People |-> IF p \in expired THEN None ELSE rows[p]]
      /\ muted' = [p \in People |-> IF p \in expired THEN Unasked ELSE muted[p]]
      /\ UNCHANGED <<now, orders, until, verdict>>
  BY DEF Gate!List
<1>2. \A p \in expired : until[p] <= now
  BY ActiveMute DEF GateInv
<1> HIDE DEF expired
<1>3. GateIsRight'
  BY <1>1 DEF GateInv, GateIsRight, Gate!GateIsRight
<1> QED
  BY <1>1, <1>2, <1>3, NoMutes DEF GateInv

LEMMA GateNext == GateInv /\ [Gate!Next]_gateVars => GateInv'
<1> SUFFICES ASSUME GateInv, [Gate!Next]_gateVars PROVE GateInv'
  OBVIOUS
<1>1. CASE Gate!Handle
  BY <1>1, OrderKeeps
<1>2. CASE Gate!List
  BY <1>2, ListKeeps
<1>3. ASSUME NEW p \in People, Gate!FromCache(p) \/ Gate!FromRow(p) PROVE GateInv'
  BY <1>3, AnswersKeep
<1>4. CASE Gate!Demote \/ \E p \in People, d \in Durations : Gate!Ask(p, d)
  <2>1. PICK o \in Order : orders' = Append(orders, o)
    <3>1. CASE Gate!Demote
      BY <3>1 DEF Gate!Demote, Order
    <3>2. ASSUME NEW p \in People, NEW d \in Durations, Gate!Ask(p, d)
          PROVE  \E o \in Order : orders' = Append(orders, o)
      <4>1. [who |-> p, minutes |-> d] \in Order
        BY MutesAssumption DEF Order
      <4> QED
        BY <3>2, <4>1 DEF Gate!Ask
    <3> QED
      BY <1>4, <3>1, <3>2
  <2>2. orders' \in Seq(Order)
    BY <2>1 DEF GateInv
  <2>3. UNCHANGED <<now, rows, muted, until, verdict>>
    BY <1>4 DEF Gate!Demote, Gate!Ask
  <2> QED
    BY <2>2, <2>3 DEF GateInv, GateIsRight, Gate!GateIsRight
<1>5. CASE Gate!Restart
  BY <1>5, NoMutes DEF Gate!Restart, GateInv, GateIsRight, Gate!GateIsRight
<1>6. CASE Gate!Tick
  BY <1>6, MutesAssumption DEF Gate!Tick, GateInv, GateIsRight, Gate!GateIsRight
<1>7. CASE UNCHANGED gateVars
  BY <1>7 DEF gateVars, GateInv, GateIsRight, Gate!GateIsRight
<1> QED
  BY <1>1, <1>2, <1>3, <1>4, <1>5, <1>6, <1>7 DEF Gate!Next

\* The gate deletes a message exactly if its sender is muted at that time: for any
\* orders, lengths, expiries, restarts and the cache of mutes over the table.
THEOREM GateIsRightAlways == GatewaySpec => []GateIsRight
<1>1. GatewayInit => GateInv
  BY PartInits, GateInit
<1>2. GateInv /\ [GatewayNext]_allVars => GateInv'
  BY PartSteps, GateNext
<1>3. GateInv => GateIsRight
  BY DEF GateInv
<1> QED
  BY <1>1, <1>2, <1>3, PTL DEF GatewaySpec
=============================================================================
