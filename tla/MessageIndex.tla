--------------------------- MODULE MessageIndex ---------------------------
(* The short message numbers (contextMsgId) of one gateway account: how the *)
(* inbound handler, the join events and the outbound sends allot them, the  *)
(* two bounded maps they are kept in, and how the bridge's actions find a   *)
(* WhatsApp message by one.                                                 *)
(*                                                                          *)
(* The number of a message is allotted when its upsert arrives, before the  *)
(* awaits of its handler; the message is indexed and told to the bridge at  *)
(* the end of them.  A sent message gets its number when WhatsApp answered. *)
(* The maps are kept in the order of first insertion, as a JavaScript Map   *)
(* is.  "nth" and "at" are history values: the ordinal of the allotment in  *)
(* its chat, and that of the insertion into the first map.                 *)
EXTENDS Integers, Sequences, FiniteSets

CONSTANTS
    Chats,      \* the account's chats
    Incoming,   \* messages other people send, join notices among them
    Own,        \* messages the bot sends: the parts of its sends
    Sends,      \* requests of the bridge that send
    Loose,      \* quizzes and Lottie stickers: no queue, and a lost reply target is let be
    ChatOf,     \* the chat of a message or of a send
    Kind,       \* what an incoming message holds: "text", "empty" or "join"
    Parts,      \* the parts of a send, in order
    Modulus,    \* 1,000,000 in the code
    IndexSize,  \* MAX_KEY_INDEX, shared by the chats of the account
    Deliveries, \* bound: how often WhatsApp delivers a message, its echo for an own one
    MaxNumbers, \* bound: allotments per chat and life
    MaxLives,   \* bound: 1 + restarts of the gateway
    None

Messages == Incoming \cup Own

VARIABLES
    counter,   \* contextCounterByChat
    index,     \* messageKeyIndex: [chat, id, msg, nth, at], oldest key first
    byId,      \* messageIdToContextId: [msg, id, nth], oldest key first
    jobs,      \* handlers under way: the rest of an upsert's messages of a chat
    line,      \* the queue of sends of each chat (withJidQueue)
    sends,     \* each send: [at, quoted, done]
    copies,    \* how often each message was delivered
    allotted,  \* numbers allotted in each chat in this life (history)
    inserted,  \* insertions into messageKeyIndex in this life (history)
    life,      \* which life of the gateway this is
    told,      \* the numbers the bridge knows of each chat
    acted      \* what this step aimed at by a number, and what it reached

vars == <<counter, index, byId, jobs, line, sends, copies, allotted,
          inserted, life, told, acted>>
maps == <<index, byId, inserted>>
ask  == <<line, sends>>

----------------------------------------------------------------------------
(* The bounded maps.                                                        *)

\* Mutant: the map gives way when it is full, not when it is over.
GivesWayEarly(map, limit) == IF Len(map) >= limit THEN Tail(map) ELSE map

\* Past the limit the key that was inserted first goes.
GivesWay(map, limit) == IF Len(map) > limit THEN Tail(map) ELSE map

\* cacheSetBounded, "hits" being where the map has the key of the entry: a known
\* key keeps its place, whichever key was just written.
Bounded(map, hits, entry, limit) ==
    GivesWay(IF hits = {} THEN Append(map, entry)
             ELSE [i \in DOMAIN map |-> IF i \in hits THEN entry ELSE map[i]], limit)

\* Mutant: the index is keyed by the number alone.
KeyedByNumber(e, c, i) == e.id = i
KeyedBy(e, c, i) == e.chat = c /\ e.id = i

\* The entry of number i of chat c, as a set of at most one.
EntriesOf(c, i) == {index[k] : k \in {k \in DOMAIN index : KeyedBy(index[k], c, i)}}

\* getIndexedMessageByContextId
Lookup(c, i) ==
    IF EntriesOf(c, i) = {} THEN None ELSE (CHOOSE e \in EntriesOf(c, i) : TRUE).msg

\* An item with its place in the order of insertions (history).
Placed(item) ==
    LET old == EntriesOf(ChatOf[item.msg], item.id)
    IN  [msg |-> item.msg, id |-> item.id, nth |-> item.nth,
         at |-> IF old = {} THEN inserted + 1 ELSE (CHOOSE e \in old : TRUE).at]

\* rememberMessageKeyIndex: both maps learn that item.msg is number item.id.
Remember(item) ==
    LET c == ChatOf[item.msg]
    IN  /\ index' = Bounded(index, {k \in DOMAIN index : KeyedBy(index[k], c, item.id)},
                            [chat |-> c, msg |-> item.msg, id |-> item.id,
                             nth |-> item.nth, at |-> Placed(item).at], IndexSize)
        /\ byId' = Bounded(byId, {k \in DOMAIN byId : byId[k].msg = item.msg}, item,
                           2 * IndexSize)
        /\ inserted' = IF EntriesOf(c, item.id) = {} THEN inserted + 1 ELSE inserted

----------------------------------------------------------------------------
(* Allotting numbers.                                                       *)

\* Bound: a chat allots at most MaxNumbers, and never laps a number that a
\* handler still holds or that the second map still gives out.
MayAllot(c, count) ==
    /\ allotted[c] + count <= MaxNumbers
    /\ \A j \in jobs : \A k \in DOMAIN j :
          ChatOf[j[k].msg] = c /\ Kind[j[k].msg] # "join"
             => allotted[c] + count <= j[k].nth + Modulus
    /\ \A k \in DOMAIN byId :
          ChatOf[byId[k].msg] = c => allotted[c] + count <= byId[k].nth + Modulus

\* nextContextMsgId, called "count" times: the items of messages ms.
Numbered(c, k, m) ==
    [msg |-> m, id |-> (counter[c] + k - 1) % Modulus, nth |-> allotted[c] + k - 1]

Allot(c, count) ==
    /\ MayAllot(c, count)
    /\ counter' = [counter EXCEPT ![c] = (@ + count) % Modulus]
    /\ allotted' = [allotted EXCEPT ![c] = @ + count]

\* The bridge learns the numbers of some messages of chat c.
Tell(c, items) ==
    told' = [told EXCEPT ![c] = @ \cup
                {[life |-> life, msg |-> items[k].msg, id |-> items[k].id,
                  nth |-> items[k].nth, at |-> items[k].at] : k \in DOMAIN items}]

----------------------------------------------------------------------------
(* Inbound messages.                                                        *)

Idle == [at |-> "idle", reply |-> None, ids |-> <<>>]

Init ==
    /\ counter = [c \in Chats |-> 0]
    /\ index = <<>> /\ byId = <<>>
    /\ jobs = {}
    /\ line = [c \in Chats |-> <<>>]
    /\ sends = [s \in Sends |-> Idle]
    /\ copies = [m \in Messages |-> 0]
    /\ allotted = [c \in Chats |-> 0]
    /\ inserted = 0
    /\ life = 1
    /\ told = [c \in Chats |-> {}]
    /\ acted = None

\* WhatsApp has the k-th part of a send while the gateway waits for the answer.
OutThere(m) ==
    \/ m \in Incoming
    \/ \E s \in Sends : /\ sends[s].at # "idle" /\ sends[s].at # "queued"
                        /\ \E k \in DOMAIN Parts[s] :
                              Parts[s][k] = m /\ k <= Len(sends[s].ids) + 1

\* messages.upsert: every message of the batch that is not a join notice gets
\* the number it already has or the next one, before any handler runs; then
\* one handler walks through the batch.
Upsert(c, batch) ==
    LET known(m)  == {k \in DOMAIN byId : byId[k].msg = m}
        new       == {k \in DOMAIN batch : Kind[batch[k]] # "join" /\ known(batch[k]) = {}}
        item(k)   == IF k \in new
                     THEN Numbered(c, Cardinality({l \in new : l <= k}), batch[k])
                     ELSE IF Kind[batch[k]] = "join"
                     THEN [msg |-> batch[k], id |-> 0, nth |-> 0]
                     ELSE byId[CHOOSE l \in known(batch[k]) : TRUE]
    IN  /\ \A k \in DOMAIN batch :
             /\ ChatOf[batch[k]] = c /\ OutThere(batch[k])
             /\ copies[batch[k]] < Deliveries[batch[k]]
        /\ Allot(c, Cardinality(new))
        /\ jobs' = jobs \cup {[k \in DOMAIN batch |-> item(k)]}
        /\ copies' = [m \in Messages |->
                        IF \E k \in DOMAIN batch : batch[k] = m THEN copies[m] + 1
                        ELSE copies[m]]
        /\ UNCHANGED <<maps, ask, life, told>>

\* The loop of a handler goes on with the next message of its batch.
NextOf(j) == jobs' = (jobs \ {j}) \cup (IF Len(j) > 1 THEN {Tail(j)} ELSE {})

\* The end of handleIncomingMessage: forwarded, then indexed.
Forward(j) ==
    LET m == j[1].msg IN
    /\ Kind[m] = "text"
    /\ Remember(j[1])
    /\ Tell(ChatOf[m], <<Placed(j[1])>>)
    /\ NextOf(j)
    /\ UNCHANGED <<counter, allotted, ask, copies, life>>

\* Nothing the bridge could be told, but a reply may quote it.
KeepUnread(j) ==
    /\ Kind[j[1].msg] = "empty"
    /\ Remember(j[1])
    /\ NextOf(j)
    /\ UNCHANGED <<counter, allotted, ask, copies, life, told>>

\* The activation gate, or an error on the way: the number is lost.
Skip(j) ==
    /\ \/ Kind[j[1].msg] = "text"
       \/ Kind[j[1].msg] = "join"
    /\ NextOf(j)
    /\ UNCHANGED <<counter, allotted, maps, ask, copies, life, told>>

\* emitGroupJoinContextEvent: numbered, indexed and told in one go.
Joined(j) ==
    LET c == ChatOf[j[1].msg]
        item == Numbered(c, 1, j[1].msg)
    IN  /\ Kind[j[1].msg] = "join"
        /\ Allot(c, 1)
        /\ Remember(item)
        /\ Tell(c, <<Placed(item)>>)
        /\ NextOf(j)
        /\ UNCHANGED <<ask, copies, life>>

----------------------------------------------------------------------------
(* Outbound messages and actions on a number.                               *)

\* In this life, and its number has not come round again.
Recent(c, t) == t.life = life /\ allotted[c] <= t.nth + Modulus

Meant(c, t, hit) == [meant |-> t.msg, hit |-> hit, recent |-> Recent(c, t)]

\* The bridge asks for a send, in reply to a message it knows or to none.
Request(s, t) ==
    /\ sends[s].at = "idle"
    /\ sends' = [sends EXCEPT ![s] = [at |-> "queued", reply |-> t, ids |-> <<>>]]
    /\ line' = IF s \in Loose THEN line ELSE [line EXCEPT ![ChatOf[s]] = Append(@, s)]
    /\ UNCHANGED <<counter, maps, jobs, copies, allotted, life, told>>

\* withJidQueue: one send of a chat at a time.
MyTurn(s) == s \notin Loose /\ line[ChatOf[s]] # <<>> /\ Head(line[ChatOf[s]]) = s
NextTurn(s) == line' = [line EXCEPT ![ChatOf[s]] = Tail(@)]

\* The reply's target of a send is found once, before anything is sent.
Target(s) ==
    IF sends[s].reply = None THEN None ELSE Lookup(ChatOf[s], sends[s].reply.id)

Quotes(s) ==
    /\ sends' = [sends EXCEPT ![s].at = "running"]
    /\ acted' = IF Target(s) = None THEN None ELSE Meant(ChatOf[s], sends[s].reply, Target(s))
    /\ UNCHANGED <<counter, maps, jobs, line, copies, allotted, life, told>>

Start(s) ==
    /\ sends[s].at = "queued" /\ MyTurn(s)
    /\ sends[s].reply = None \/ Target(s) # None
    /\ Quotes(s)

StartLoose(s) == sends[s].at = "queued" /\ s \in Loose /\ Quotes(s)

\* "reply target not found", or WhatsApp refuses a part: what was sent before
\* keeps its numbers, which the bridge never learns.
Fails(s) ==
    /\ MyTurn(s)
    /\ \/ sends[s].at = "queued" /\ sends[s].reply # None /\ Target(s) = None
       \/ sends[s].at = "running"
    /\ sends' = [sends EXCEPT ![s].at = "failed"]
    /\ NextTurn(s)
    /\ UNCHANGED <<counter, maps, jobs, copies, allotted, life, told>>

\* WhatsApp answered for the next part: it is numbered and indexed; after the
\* last one the ack tells the bridge all the numbers.
Sent(s) ==
    LET c    == ChatOf[s]
        k    == Len(sends[s].ids) + 1
        item == Numbered(c, 1, Parts[s][k])
        ids  == Append(sends[s].ids, Placed(item))
        last == k = Len(Parts[s])
    IN  /\ sends[s].at = "running" /\ MyTurn(s)
        /\ Allot(c, 1)
        /\ Remember(item)
        /\ sends' = [sends EXCEPT ![s] = [at    |-> IF last THEN "done" ELSE "running",
                                          reply |-> @.reply,
                                          ids   |-> ids]]
        /\ IF last THEN Tell(c, ids) /\ NextTurn(s) ELSE UNCHANGED <<told, line>>
        /\ UNCHANGED <<jobs, copies, life>>

\* The same for a quiz or a sticker, which is one message; or it fails.
SentLoose(s) ==
    LET c == ChatOf[s]
        item == Numbered(c, 1, Parts[s][1])
    IN  /\ sends[s].at = "running" /\ s \in Loose
        /\ \/ /\ Allot(c, 1)
              /\ Remember(item)
              /\ Tell(c, <<Placed(item)>>)
              /\ sends' = [sends EXCEPT ![s].at = "done"]
           \/ /\ sends' = [sends EXCEPT ![s].at = "failed"]
              /\ UNCHANGED <<counter, allotted, maps, told>>
        /\ UNCHANGED <<jobs, line, copies, life>>

\* An action of the bridge on a message it knows, by its number; one the index
\* does not hold is refused, and changes nothing.
Reach(c, t) ==
    /\ Lookup(c, t.id) # None
    /\ acted' = Meant(c, t, Lookup(c, t.id))
    /\ UNCHANGED <<counter, maps, jobs, line, sends, copies, allotted, life, told>>

React(c, t)    == Reach(c, t)   \* react_message
Delete(c, t)   == Reach(c, t)   \* delete_message
Anchor(c, t)   == Reach(c, t)   \* run_command, on a message
Download(c, t) == Reach(c, t)   \* download_media

\* The gateway starts again with empty maps; the bridge keeps what it knows.
Restart ==
    /\ life < MaxLives
    /\ life' = life + 1
    /\ counter' = [c \in Chats |-> 0]
    /\ index' = <<>> /\ byId' = <<>> /\ jobs' = {}
    /\ line' = [c \in Chats |-> <<>>]
    /\ sends' = [s \in Sends |->
                   IF sends[s].at \in {"queued", "running"}
                   THEN [sends[s] EXCEPT !.at = "failed"] ELSE sends[s]]
    /\ allotted' = [c \in Chats |-> 0]
    /\ inserted' = 0
    /\ UNCHANGED <<copies, told>>

Batches(c) ==
    LET here == {m \in Messages : ChatOf[m] = c}
    IN  {<<m>> : m \in here} \cup {p \in here \X here : p[1] # p[2]}

\* An action that aims at nothing by its number.
Numbering ==
    \/ \E c \in Chats : \E batch \in Batches(c) : Upsert(c, batch)
    \/ \E j \in jobs : Forward(j) \/ KeepUnread(j) \/ Skip(j) \/ Joined(j)
    \/ \E s \in Sends : \E t \in told[ChatOf[s]] \cup {None} : Request(s, t)
    \/ \E s \in Sends : Fails(s) \/ Sent(s) \/ SentLoose(s)
    \/ Restart

Next ==
    \/ Numbering /\ acted' = None
    \/ \E s \in Sends : Start(s) \/ StartLoose(s)
    \/ \E c \in Chats : \E t \in told[c] :
          React(c, t) \/ Delete(c, t) \/ Anchor(c, t) \/ Download(c, t)

Spec == Init /\ [][Next]_vars

----------------------------------------------------------------------------
(* Properties.                                                              *)

Item == [msg : Messages, id : 0 .. Modulus - 1, nth : Nat]

\* Every map, handler and send holds what the code puts there.
TypeOK ==
    /\ counter \in [Chats -> 0 .. Modulus - 1]
    /\ \A k \in DOMAIN index : index[k].chat \in Chats /\ index[k].msg \in Messages
    /\ Len(index) <= IndexSize /\ Len(byId) <= 2 * IndexSize
    /\ \A k \in DOMAIN byId : byId[k] \in Item
    /\ \A j \in jobs : Len(j) > 0 /\ \A k \in DOMAIN j : j[k] \in Item
    /\ allotted \in [Chats -> Nat]

\* An action the bridge aims at a number it was told in this life of the
\* gateway, and that has not come round since, reaches the message it was told
\* for, whatever was numbered, evicted or delivered twice in between
\* (identifiers.ts, rememberMessage and getIndexedMessageByContextId).
ActsOnTheMeant == acted # None /\ acted.recent => acted.hit = acted.meant

\* What the bridge was told can be acted on until the index has taken in
\* IndexSize messages more, as long as the numbers have not wrapped: no number
\* is told before, or without, its message being indexed.
StillActionable ==
    \A c \in Chats : \A t \in told[c] :
        t.life = life /\ inserted - t.at < IndexSize /\ allotted[c] <= Modulus
           => Lookup(c, t.id) = t.msg
=============================================================================
