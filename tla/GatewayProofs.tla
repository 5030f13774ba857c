--------------------------- MODULE GatewayProofs ----------------------------
(***************************************************************************)
(* Proofs about what the gateway of one account keeps: the numbers its     *)
(* messages are known by (Ids, of MessageIndex) and who is an admin of a   *)
(* group (Group, of GroupRoles), for any chats, messages, members, bounds, *)
(* deliveries that cross and restarts.  A step of the account is a step of *)
(* one of its parts, so each is proved by its own.                         *)
(*                                                                         *)
(* ActsOnTheMeant rests on IdsCore: which entries of the index were        *)
(* inserted when, and that a number comes round only after Modulus of its  *)
(* chat.  JudgedByTheNews rests on GroupInv: how old a snapshot, a fetch   *)
(* and the news in between may be.                                         *)
(***************************************************************************)
EXTENDS Account, FiniteSetTheorems, TLAPS

\* A step of the account is a step of the part at work, and none of the others.
LEMMA PartSteps ==
    ASSUME [GatewayNext]_allVars
    PROVE  /\ [Next]_vars /\ [Ids!Next]_idsVars /\ [Group!Next]_groupVars
           /\ [Paths!Next]_pathVars /\ [Acts!Next]_actVars /\ [Gate!Next]_gateVars
BY DEF GatewayNext, allVars

LEMMA PartInits ==
    ASSUME GatewayInit
    PROVE  Init /\ Ids!Init /\ Group!Init /\ Paths!Init /\ Acts!Init /\ Gate!Init
BY DEF GatewayInit

-----------------------------------------------------------------------------
(* Numbers that come round.                                                 *)

LEMMA Division ==
    ASSUME NEW m \in Nat \ {0}, NEW a \in Nat
    PROVE  /\ a \div m \in Nat /\ a % m \in 0 .. m - 1
           /\ a = m * (a \div m) + (a % m)
OBVIOUS

LEMMA Multiples ==
    ASSUME NEW m \in Nat \ {0}, NEW p \in Int, NEW q \in Int,
           m * p - m * q < m, m * q - m * p < m
    PROVE  p = q
<1>1. m * p - m * q = m * (p - q)
  OBVIOUS
<1>2. CASE p > q
  <2>1. m * (p - q) >= m
    BY <1>2
  <2> QED
  BY <1>1, <2>1
<1>3. CASE q > p
  <2>1. m * (q - p) >= m
    BY <1>3
  <2>2. m * (q - p) = m * q - m * p
    OBVIOUS
  <2> QED
  BY <2>2, <2>1
<1> QED
  BY <1>2, <1>3

LEMMA ModSame ==
    ASSUME NEW m \in Nat \ {0}, NEW a \in Nat, NEW b \in Nat,
           a % m = b % m, a < b + m, b < a + m
    PROVE a = b
<1> DEFINE p == a \div m  q == b \div m  r == a % m
<1>1. p \in Nat /\ q \in Nat /\ r \in 0 .. m - 1 /\ a = m * p + r /\ b = m * q + r
  BY Division
<1> HIDE DEF p, q, r
<1>2. m * p \in Int /\ m * q \in Int
  BY <1>1
<1>3. m * p - m * q < m /\ m * q - m * p < m
  BY <1>1, <1>2
<1>4. p = q
  BY <1>1, <1>3, Multiples
<1> QED
  BY <1>1, <1>4

LEMMA ModUnique ==
    ASSUME NEW m \in Nat \ {0}, NEW a \in Nat, NEW q \in Nat, NEW r \in 0 .. m - 1,
           a = m * q + r
    PROVE  a % m = r
<1> DEFINE p == a \div m  s == a % m
<1>1. p \in Nat /\ s \in 0 .. m - 1 /\ a = m * p + s
  BY Division
<1> HIDE DEF p, s
<1>2. m * p \in Int /\ m * q \in Int
  BY <1>1
<1>3. m * p - m * q < m /\ m * q - m * p < m
  BY <1>1, <1>2
<1>4. p = q
  BY <1>1, <1>3, Multiples
<1>5. s = r
  BY <1>1, <1>4, <1>2
<1> QED
  BY <1>5 DEF s

LEMMA ModAdd ==
    ASSUME NEW m \in Nat \ {0}, NEW a \in Nat, NEW b \in Nat
    PROVE  ((a % m) + b) % m = (a + b) % m
<1> DEFINE p == a \div m  r == a % m  q == (r + b) \div m  s == (r + b) % m
<1>1. p \in Nat /\ r \in 0 .. m - 1 /\ a = m * p + r
  BY Division
<1> HIDE DEF p, r
<1>2. r + b \in Nat
  BY <1>1
<1>3. q \in Nat /\ s \in 0 .. m - 1 /\ r + b = m * q + s
  BY <1>2, Division
<1> HIDE DEF q, s
<1>4. m * (p + q) = m * p + m * q
  BY <1>1, <1>3
<1>5. m * p \in Int /\ m * q \in Int /\ p + q \in Nat /\ a + b \in Nat
  BY <1>1, <1>3
<1>6. a + b = m * (p + q) + s
  BY <1>1, <1>3, <1>4, <1>5
<1>7. (a + b) % m = s
  BY <1>3, <1>5, <1>6, ModUnique
<1> QED
  BY <1>7 DEF s, r
-----------------------------------------------------------------------------
(* A bounded map, in order of first insertion.                              *)

\* What a map holds when an entry is written where it has the key.
Written(new, S, map, hits, e, limit) ==
    /\ new \in Seq(S) /\ Len(new) <= limit
    /\ \/ /\ hits # {} /\ Len(new) = Len(map)
          /\ \A k \in 1 .. Len(map) : new[k] = IF k \in hits THEN e ELSE map[k]
       \/ /\ hits = {} /\ Len(map) < limit /\ Len(new) = Len(map) + 1
          /\ new[Len(map) + 1] = e
          /\ \A k \in 1 .. Len(map) : new[k] = map[k]
       \/ /\ hits = {} /\ Len(map) = limit /\ Len(new) = limit
          /\ new[limit] = e
          /\ \A k \in 1 .. limit - 1 : new[k] = map[k + 1]

LEMMA BoundedMap ==
    ASSUME NEW S, NEW map \in Seq(S), NEW hits \in SUBSET (1 .. Len(map)), NEW e \in S,
           NEW limit \in Nat \ {0}, Len(map) <= limit
    PROVE  Written(Ids!Bounded(map, hits, e, limit), S, map, hits, e, limit)
<1> SUFFICES ASSUME NEW new, new = Ids!Bounded(map, hits, e, limit)
             PROVE  Written(new, S, map, hits, e, limit)
  OBVIOUS
<1> DEFINE n == Len(map)
           longer == Append(map, e)
           written == [k \in DOMAIN map |-> IF k \in hits THEN e ELSE map[k]]
<1>1. n \in Nat /\ DOMAIN map = 1 .. n /\ \A k \in 1 .. n : map[k] \in S
  OBVIOUS
<1>2. CASE hits # {}
  <2>1. written \in [1 .. n -> S]
    BY <1>1
  <2>2. written \in Seq(S) /\ Len(written) = n
    BY <1>1, <2>1
  <2>3. \A k \in 1 .. n : written[k] = IF k \in hits THEN e ELSE map[k]
    BY <1>1
  <2>4. new = written
    <3> HIDE DEF written
    <3>1. ~(Len(written) > limit)
      BY <2>2
    <3> QED
      BY <1>2, <3>1 DEF Ids!Bounded, Ids!GivesWay, written
  <2>5. new \in Seq(S) /\ Len(new) = Len(map) /\ Len(new) <= limit
        /\ \A k \in 1 .. Len(map) : new[k] = IF k \in hits THEN e ELSE map[k]
    BY <2>2, <2>3, <2>4
  <2> QED
    BY ONLY <1>2, <2>5 DEF Written
<1>3. /\ longer \in Seq(S) /\ Len(longer) = n + 1 /\ longer[n + 1] = e
      /\ \A k \in 1 .. n : longer[k] = map[k]
  BY <1>1
<1> HIDE DEF longer
<1>4. CASE hits = {} /\ n < limit
  <2>1. new = longer
    <3>1. ~(Len(longer) > limit)
      BY <1>1, <1>3, <1>4
    <3> QED
      BY <1>4, <3>1 DEF Ids!Bounded, Ids!GivesWay, longer
  <2>2. Len(longer) <= limit
    BY <1>1, <1>3, <1>4
  <2>3. /\ new \in Seq(S) /\ Len(new) <= limit
        /\ hits = {} /\ Len(map) < limit /\ Len(new) = Len(map) + 1
        /\ new[Len(map) + 1] = e /\ \A k \in 1 .. Len(map) : new[k] = map[k]
    BY <1>3, <1>4, <2>1, <2>2
  <2> QED
    BY ONLY <2>3 DEF Written
<1>5. CASE hits = {} /\ n = limit
  <2>1. new = Tail(longer)
    <3>1. Len(longer) > limit
      BY <1>1, <1>3, <1>5
    <3> QED
      BY <1>5, <3>1 DEF Ids!Bounded, Ids!GivesWay, longer
  <2>2. /\ Tail(longer) \in Seq(S) /\ Len(Tail(longer)) = n
        /\ \A k \in 1 .. n : Tail(longer)[k] = longer[k + 1]
    BY <1>1, <1>3
  <2>3. \A k \in 1 .. n - 1 : Tail(longer)[k] = map[k + 1]
    BY <1>1, <1>3, <2>2
  <2>4. Tail(longer)[n] = e
    BY <1>1, <1>3, <1>5, <2>2
  <2> DEFINE m == Tail(longer)
  <2>5. m \in Seq(S) /\ Len(m) = limit /\ m[limit] = e
        /\ \A k \in 1 .. limit - 1 : m[k] = map[k + 1]
    BY <1>5, <2>2, <2>3, <2>4
  <2>6. new = m
    BY <2>1
  <2> HIDE DEF m
  <2>7. new \in Seq(S) /\ Len(new) = limit /\ new[limit] = e
        /\ \A k \in 1 .. limit - 1 : new[k] = map[k + 1]
    BY <2>5, <2>6
  <2>8. Len(new) <= limit
    BY <2>7
  <2>9. hits = {} /\ Len(map) = limit
    BY <1>5
  <2> QED
    BY ONLY <2>7, <2>8, <2>9 DEF Written
<1>6. hits # {} \/ (hits = {} /\ n < limit) \/ (hits = {} /\ n = limit)
  <2>1. n \in Nat /\ limit \in Nat /\ n <= limit
    BY <1>1
  <2> HIDE DEF n
  <2> QED
    BY ONLY <2>1
<1> QED
  BY <1>2, <1>4, <1>5, <1>6

-----------------------------------------------------------------------------
(* The invariant.                                                           *)

Place    == [msg : Ids!Messages, id : 0 .. Modulus - 1, nth : Nat, at : Nat]
Entry    == [chat : Rooms, msg : Ids!Messages, id : 0 .. Modulus - 1, nth : Nat, at : Nat]
ToldItem == [life : Nat, msg : Ids!Messages, id : 0 .. Modulus - 1, nth : Nat, at : Nat]
Request  == [at : {"idle", "queued", "running", "done", "failed"},
             reply : ToldItem \cup {None}, ids : Seq(Place)]

ItemOf(x)  == [msg |-> x.msg, id |-> x.id, nth |-> x.nth]
PlaceOf(x) == [msg |-> x.msg, id |-> x.id, nth |-> x.nth, at |-> x.at]
Room(x) == ChatOf[x.msg]

\* A number a handler holds, or that the second map still gives out.
Pending(x) ==
    \/ Kind[x.msg] # "join" /\ \E j \in jobs : \E k \in 1 .. Len(j) : j[k] = x
    \/ \E k \in 1 .. Len(byId) : byId[k] = x

\* What the bridge was told in this life, or will be when a send is done.
Claimed(p) ==
    \/ \E c \in Rooms : \E t \in told[c] : t.life = life /\ PlaceOf(t) = p
    \/ \E s \in Sends : /\ sends[s].at = "running"
                        /\ \E k \in 1 .. Len(sends[s].ids) : sends[s].ids[k] = p

\* A number given to a message in this life and still to be found somewhere.
Carried(x) ==
    \/ Pending(x)
    \/ \E k \in 1 .. Len(index) : ItemOf(index[k]) = x
    \/ \E p \in Place : Claimed(p) /\ ItemOf(p) = x

IdsTypes ==
    /\ allotted \in [Rooms -> Nat] /\ counter \in [Rooms -> 0 .. Modulus - 1]
    /\ inserted \in Nat /\ life \in Nat
    /\ index \in Seq(Entry) /\ Len(index) <= IndexSize
    /\ byId \in Seq(Ids!Item) /\ Len(byId) <= 2 * IndexSize
    /\ jobs \subseteq Seq(Ids!Item) \ {<<>>}
    /\ told \in [Rooms -> SUBSET ToldItem]
    /\ sends \in [Sends -> Request]

InStep == \A c \in Rooms : counter[c] = allotted[c] % Modulus

\* Everything is kept where its chat is.
IndexAtHome == \A k \in 1 .. Len(index) : index[k].chat = Room(index[k])

AtHome ==
    /\ \A c \in Rooms : \A t \in told[c] : t.life <= life /\ Room(t) = c
    /\ \A s \in Sends :
          /\ sends[s].reply \in told[ChatOf[s]] \cup {None}
          /\ sends[s].at = "running" =>
                /\ Len(sends[s].ids) < Len(Parts[s])
                /\ \A k \in 1 .. Len(sends[s].ids) : Room(sends[s].ids[k]) = ChatOf[s]
          /\ sends[s].at \in {"idle", "queued"} => sends[s].ids = <<>>

\* A number comes from an allotment of its chat, made for one message only.
Allotted ==
    \A x \in Ids!Item : Carried(x) => x.nth < allotted[Room(x)] /\ x.id = x.nth % Modulus

OneMessage ==
    \A x, y \in Ids!Item :
        Carried(x) /\ Carried(y) /\ Room(x) = Room(y) /\ x.nth = y.nth => x.msg = y.msg

\* What may still be indexed has not been lapped.
Unlapped == \A x \in Ids!Item : Pending(x) => allotted[Room(x)] <= x.nth + Modulus

\* The index holds the last insertions, in their order, each key once.
InOrder ==
    /\ \A k \in 1 .. Len(index) : index[k].at = inserted - Len(index) + k
    /\ Len(index) <= inserted
    /\ Len(index) = IndexSize \/ Len(index) = inserted

OneEntry ==
    \A k, l \in 1 .. Len(index) :
        index[k].chat = index[l].chat /\ index[k].id = index[l].id => k = l

\* What the bridge was told and has not been lapped is what the index holds
\* under the number, if anything.
Meant ==
    \A p \in Place : Claimed(p) /\ allotted[Room(p)] <= p.nth + Modulus =>
        \A k \in 1 .. Len(index) :
            index[k].chat = Room(p) /\ index[k].id = p.id => index[k].msg = p.msg

\* An insertion stays under the key it was made for.
KeysStay ==
    \A p \in Place : Claimed(p) =>
        /\ p.at \in 1 .. inserted
        /\ \A k \in 1 .. Len(index) :
              index[k].at = p.at => index[k].chat = Room(p) /\ index[k].id = p.id

IdsCore == /\ IdsTypes /\ InStep /\ AtHome /\ Allotted /\ OneMessage /\ Unlapped
           /\ IndexAtHome /\ InOrder /\ OneEntry /\ Meant /\ KeysStay

IdsInv == IdsCore /\ ActsOnTheMeant

-----------------------------------------------------------------------------
LEMMA Rooms1 ==
    /\ \A m \in Ids!Messages : ChatOf[m] \in Rooms
    /\ \A s \in Sends : ChatOf[s] \in Rooms
    /\ \A x \in Ids!Item : Room(x) \in Rooms /\ x.id \in 0 .. Modulus - 1 /\ x.nth \in Nat
    /\ \A x \in Place : Room(x) \in Rooms /\ x.id \in 0 .. Modulus - 1 /\ x.nth \in Nat
    /\ Modulus \in Nat \ {0}
<1>1. \A m \in Ids!Messages : ChatOf[m] \in Rooms
  BY NumbersAssumption DEF Ids!Messages
<1> QED
  BY <1>1, NumbersAssumption DEF Ids!Item, Place, Room

LEMMA Projected ==
    ASSUME NEW x, x \in Place \/ x \in Entry \/ x \in ToldItem
    PROVE  /\ ItemOf(x) \in Ids!Item /\ PlaceOf(x) \in Place
           /\ ItemOf(x).msg = x.msg /\ ItemOf(x).id = x.id /\ ItemOf(x).nth = x.nth
           /\ PlaceOf(x).msg = x.msg /\ PlaceOf(x).id = x.id /\ PlaceOf(x).nth = x.nth
           /\ PlaceOf(x).at = x.at /\ ItemOf(PlaceOf(x)) = ItemOf(x)
           /\ Room(ItemOf(x)) = Room(x) /\ Room(PlaceOf(x)) = Room(x)
BY DEF Place, Entry, ToldItem, Ids!Item, ItemOf, PlaceOf, Room

\* A step that gives the numbers "fresh", the next ones of its chat.
LEMMA NumbersKept ==
    ASSUME IdsTypes, IdsTypes', Allotted, OneMessage, Unlapped,
           \A d \in Rooms : allotted[d] <= allotted'[d],
           NEW c \in Rooms, NEW fresh \in SUBSET Ids!Item,
           \A x \in fresh : /\ Room(x) = c /\ x.id = x.nth % Modulus
                            /\ allotted[c] <= x.nth /\ x.nth < allotted'[c],
           \A x, y \in fresh : x.nth = y.nth => x.msg = y.msg,
           \A x \in Ids!Item : Carried(x)' => Carried(x) \/ x \in fresh
    PROVE  Allotted' /\ OneMessage'
<1>1. \A x \in Ids!Item : Carried(x)' =>
         \/ Carried(x) /\ x.nth < allotted[Room(x)] /\ x.id = x.nth % Modulus
         \/ x \in fresh
  BY DEF Allotted
<1>2. \A d \in Rooms : allotted[d] \in Nat /\ allotted'[d] \in Nat
  BY DEF IdsTypes
<1>3. Allotted'
  <2> SUFFICES ASSUME NEW x \in Ids!Item, Carried(x)'
               PROVE  x.nth < allotted'[Room(x)] /\ x.id = x.nth % Modulus
    BY DEF Allotted, Room
  <2>1. Room(x) \in Rooms /\ x.nth \in Nat
    BY Rooms1
  <2> QED
    BY <1>1, <1>2, <2>1
<1>4. OneMessage'
  <2> SUFFICES ASSUME NEW x \in Ids!Item, NEW y \in Ids!Item, Carried(x)', Carried(y)',
                      Room(x) = Room(y), x.nth = y.nth
               PROVE  x.msg = y.msg
    BY DEF OneMessage, Room
  <2>1. Room(x) \in Rooms /\ x.nth \in Nat /\ Room(y) \in Rooms /\ y.nth \in Nat
    BY Rooms1
  <2> QED
    BY <1>1, <1>2, <2>1 DEF OneMessage
<1> QED
  BY <1>3, <1>4

\* The bound of the numbers: an allotment laps nothing that is pending.
LEMMA AllotLapsNothing ==
    ASSUME IdsTypes, Unlapped, NEW c \in Rooms, NEW count \in 0 .. 2, Ids!Allot(c, count),
           NEW fresh \in SUBSET Ids!Item, \A x \in fresh : Room(x) = c /\ allotted[c] <= x.nth,
           \A x \in Ids!Item : Pending(x)' => Pending(x) \/ x \in fresh
    PROVE  Unlapped'
<1> SUFFICES ASSUME NEW x \in Ids!Item, Pending(x)'
             PROVE  allotted'[Room(x)] <= x.nth + Modulus
  BY DEF Unlapped, Room
<1>1. Room(x) \in Rooms /\ x.nth \in Nat /\ Modulus \in Nat /\ Modulus >= 2
  BY Rooms1, NumbersAssumption
<1>2. /\ allotted' = [allotted EXCEPT ![c] = @ + count]
      /\ allotted[c] \in Nat /\ \A d \in Rooms : allotted[d] \in Nat
  BY DEF Ids!Allot, IdsTypes
<1>3. CASE Room(x) # c
  <2>1. Pending(x)
    BY <1>3
  <2> QED
    BY <1>1, <1>2, <1>3, <2>1 DEF Unlapped, IdsTypes
<1>4. CASE Room(x) = c
  <2>1. allotted'[c] = allotted[c] + count
    BY <1>2 DEF IdsTypes
  <2>2. CASE x \in fresh
    BY <1>1, <1>2, <1>4, <2>1, <2>2
  <2>3. CASE Pending(x)
    <3>1. /\ \A j \in jobs : \A k \in DOMAIN j :
               ChatOf[j[k].msg] = c /\ Kind[j[k].msg] # "join"
                 => allotted[c] + count <= j[k].nth + Modulus
          /\ \A k \in DOMAIN byId :
               ChatOf[byId[k].msg] = c => allotted[c] + count <= byId[k].nth + Modulus
      BY DEF Ids!Allot, Ids!MayAllot
    <3>2. \A j \in jobs : DOMAIN j = 1 .. Len(j)
      BY DEF IdsTypes
    <3>3. DOMAIN byId = 1 .. Len(byId)
      BY DEF IdsTypes
    <3> QED
      BY <1>4, <2>1, <2>3, <3>1, <3>2, <3>3 DEF Pending, Room
  <2> QED
    BY <2>2, <2>3
<1> QED
  BY <1>3, <1>4

\* A step that leaves the index alone and claims nothing new.
LEMMA IndexKept ==
    ASSUME IdsCore, IdsTypes', UNCHANGED <<index, inserted>>,
           \A d \in Rooms : allotted[d] <= allotted'[d],
           \A p \in Place : Claimed(p)' => Claimed(p)
    PROVE  IndexAtHome' /\ InOrder' /\ OneEntry' /\ Meant' /\ KeysStay'
<1>1. IndexAtHome' /\ InOrder' /\ OneEntry'
  BY DEF IdsCore, IndexAtHome, InOrder, OneEntry, Room
<1>2. Meant'
  <2> SUFFICES ASSUME NEW p \in Place, Claimed(p)', allotted'[Room(p)] <= p.nth + Modulus,
                      NEW k \in 1 .. Len(index), index[k].chat = Room(p), index[k].id = p.id
               PROVE  index[k].msg = p.msg
    BY DEF Meant, Room
  <2>1. Room(p) \in Rooms /\ p.nth \in Nat /\ Modulus \in Nat
    BY Rooms1
  <2>2. allotted[Room(p)] <= p.nth + Modulus
    BY <2>1 DEF IdsCore, IdsTypes
  <2> QED
    BY <2>2 DEF IdsCore, Meant
<1>3. KeysStay'
  BY DEF IdsCore, KeysStay, Room
<1> QED
  BY <1>1, <1>2, <1>3

\* What indexing an item does to the maps.
LEMMA IndexWritten ==
    ASSUME IdsTypes, InOrder, OneEntry, NEW z \in Ids!Item, Ids!Remember(z)
    PROVE  /\ index' \in Seq(Entry) /\ Len(index') <= IndexSize
           /\ byId' \in Seq(Ids!Item) /\ Len(byId') <= 2 * IndexSize
           /\ \A k \in 1 .. Len(byId') :
                 byId'[k] = z \/ \E l \in 1 .. Len(byId) : byId'[k] = byId[l]
           /\ Ids!Placed(z) \in Place /\ ItemOf(Ids!Placed(z)) = z
           /\ inserted' \in Nat /\ inserted <= inserted'
           /\ Ids!Placed(z).at \in 1 .. inserted'
           /\ InOrder' /\ OneEntry'
           /\ \A k \in 1 .. Len(index') :
                 \/ /\ ItemOf(index'[k]) = z /\ index'[k].chat = Room(z)
                    /\ index'[k].at = Ids!Placed(z).at
                 \/ \E l \in 1 .. Len(index) : index'[k] = index[l]
           /\ \A k \in 1 .. Len(index') :
                 index'[k].chat = Room(z) /\ index'[k].id = z.id => index'[k].msg = z.msg
           /\ \A k \in 1 .. Len(index') : index'[k].at = Ids!Placed(z).at =>
                 index'[k].chat = Room(z) /\ index'[k].id = z.id
           /\ \A k \in 1 .. Len(index') : index'[k].at <= inserted =>
                 \E l \in 1 .. Len(index) :
                    /\ index'[k].at = index[l].at /\ index'[k].chat = index[l].chat
                    /\ index'[k].id = index[l].id
<1> DEFINE n == Len(index)
           hits == {k \in 1 .. n : index[k].chat = Room(z) /\ index[k].id = z.id}
           place == IF hits = {} THEN inserted + 1 ELSE index[CHOOSE k \in hits : TRUE].at
           e == [chat |-> Room(z), msg |-> z.msg, id |-> z.id, nth |-> z.nth, at |-> place]
<1>1. /\ n \in Nat /\ n <= IndexSize /\ IndexSize \in Nat \ {0} /\ DOMAIN index = 1 .. n
      /\ inserted \in Nat /\ \A k \in 1 .. n : index[k] \in Entry
      /\ Room(z) \in Rooms /\ z.msg \in Ids!Messages /\ z.id \in 0 .. Modulus - 1 /\ z.nth \in Nat
  BY NumbersAssumption, Rooms1 DEF IdsTypes, Ids!Item
<1>num. n \in Nat /\ n <= IndexSize /\ IndexSize \in Nat /\ inserted \in Nat
  BY <1>1
\* The key is in one place of the index at most.
<1>2. \A k \in hits : hits = {k} /\ place = index[k].at
  BY DEF OneEntry
<1>3. Ids!EntriesOf(Room(z), z.id) = {index[k] : k \in hits}
  BY <1>1 DEF Ids!EntriesOf, Ids!KeyedBy
<1>4. \A k \in 1 .. n : index[k].at = inserted - n + k /\ index[k].at \in Nat
                       /\ index[k].chat \in Rooms /\ index[k].id \in 0 .. Modulus - 1
                       /\ index[k].msg \in Ids!Messages /\ index[k].nth \in Nat
  BY <1>1 DEF InOrder, Entry
<1>5. n <= inserted /\ (n = IndexSize \/ n = inserted)
  BY DEF InOrder
<1>6. Ids!Placed(z).at = place
  <2>1. CASE hits = {}
    BY <1>3, <2>1 DEF Ids!Placed, Room
  <2>2. CASE hits # {}
    <3> PICK k \in hits : TRUE
      BY <2>2
    <3>1. hits = {k} /\ place = index[k].at
      BY <1>2
    <3>2. Ids!EntriesOf(Room(z), z.id) = {index[k]}
      BY <1>3, <3>1
    <3> HIDE DEF hits, place
    <3> QED
      BY <3>1, <3>2 DEF Ids!Placed, Room
  <2> QED
    BY <2>1, <2>2
<1>7. place \in Nat /\ (hits # {} => place \in 1 .. inserted)
  <2>1. CASE hits = {}
    BY <1>1, <2>1
  <2>2. CASE hits # {}
    <3> PICK k \in hits : TRUE
      BY <2>2
    <3>1. place = index[k].at
      BY <1>2
    <3>2. k \in 1 .. n /\ index[k].at = inserted - n + k
      BY <1>4
    <3>3. place = inserted - n + k
      BY <3>1, <3>2
    <3>4. n <= inserted
      BY <1>5
    <3> HIDE DEF place, hits, n
    <3>5. place \in 1 .. inserted
      BY ONLY <1>num, <3>2, <3>3, <3>4
    <3> QED
      BY <1>num, <3>5
  <2> QED
    BY <2>1, <2>2
<1>8. e \in Entry
  BY <1>1, <1>7 DEF Entry
<1>9. /\ index' = Ids!Bounded(index, hits, e, IndexSize)
      /\ inserted' = IF hits = {} THEN inserted + 1 ELSE inserted
  <2>1. {k \in DOMAIN index : Ids!KeyedBy(index[k], ChatOf[z.msg], z.id)} = hits
    BY <1>1 DEF Ids!KeyedBy, Room
  <2>2. Ids!EntriesOf(Room(z), z.id) = {} <=> hits = {}
    BY <1>3
  <2> HIDE DEF hits, place
  <2> QED
    BY <1>6, <2>1, <2>2 DEF Ids!Remember, Room
<1>10. /\ byId' \in Seq(Ids!Item) /\ Len(byId') <= 2 * IndexSize
       /\ \A k \in 1 .. Len(byId') :
             byId'[k] = z \/ \E l \in 1 .. Len(byId) : byId'[k] = byId[l]
  <2> DEFINE mine == {k \in DOMAIN byId : byId[k].msg = z.msg}
  <2>1. byId' = Ids!Bounded(byId, mine, z, 2 * IndexSize)
    BY DEF Ids!Remember
  <2>2. /\ mine \in SUBSET (1 .. Len(byId)) /\ 2 * IndexSize \in Nat \ {0}
        /\ byId \in Seq(Ids!Item) /\ Len(byId) <= 2 * IndexSize /\ Len(byId) \in Nat
    BY <1>1 DEF IdsTypes
  <2> HIDE DEF mine
  <2>3. Written(Ids!Bounded(byId, mine, z, 2 * IndexSize), Ids!Item, byId, mine, z,
                2 * IndexSize)
    BY <2>2, BoundedMap
  <2>4. Written(byId', Ids!Item, byId, mine, z, 2 * IndexSize)
    BY <2>1, <2>3
  <2> QED
    BY <2>2, <2>4 DEF Written
<1>written. /\ index' \in Seq(Entry) /\ Len(index') <= IndexSize
          /\ \/ /\ hits # {} /\ Len(index') = n
                /\ \A k \in 1 .. n : index'[k] = IF k \in hits THEN e ELSE index[k]
             \/ /\ hits = {} /\ n < IndexSize /\ Len(index') = n + 1
                /\ index'[n + 1] = e /\ \A k \in 1 .. n : index'[k] = index[k]
             \/ /\ hits = {} /\ n = IndexSize /\ Len(index') = IndexSize
                /\ index'[IndexSize] = e
                /\ \A k \in 1 .. IndexSize - 1 : index'[k] = index[k + 1]
  <2>1. hits \in SUBSET (1 .. n) /\ index \in Seq(Entry)
    BY DEF IdsTypes
  <2> HIDE DEF hits, e
  <2>2. n <= IndexSize /\ IndexSize \in Nat \ {0}
    BY <1>1
  <2>3. Written(Ids!Bounded(index, hits, e, IndexSize), Entry, index, hits, e, IndexSize)
    BY <1>8, <2>1, <2>2, BoundedMap
  <2> QED
    BY <1>9, <2>3 DEF Written
<1>11. \/ /\ hits # {} /\ Len(index') = n
          /\ \A k \in 1 .. n : index'[k] = IF k \in hits THEN e ELSE index[k]
       \/ /\ hits = {} /\ n < IndexSize /\ Len(index') = n + 1
          /\ index'[n + 1] = e /\ \A k \in 1 .. n : index'[k] = index[k]
       \/ /\ hits = {} /\ n = IndexSize /\ Len(index') = n
          /\ index'[n] = e /\ \A k \in 1 .. n - 1 : index'[k] = index[k + 1]
  <2> HIDE DEF hits, e
  <2> QED
    BY <1>written
<1>12. index' \in Seq(Entry) /\ Len(index') <= IndexSize
  BY <1>written
<1>13. /\ Ids!Placed(z) \in Place /\ ItemOf(Ids!Placed(z)) = z
       /\ inserted' \in Nat /\ inserted <= inserted' /\ place \in 1 .. inserted'
  <2>1. Ids!Placed(z) = [msg |-> z.msg, id |-> z.id, nth |-> z.nth, at |-> Ids!Placed(z).at]
    BY DEF Ids!Placed
  <2>2. z = [msg |-> z.msg, id |-> z.id, nth |-> z.nth]
    BY DEF Ids!Item
  <2>3. inserted' \in Nat /\ inserted <= inserted' /\ place \in 1 .. inserted'
    BY <1>1, <1>7, <1>9
  <2> HIDE DEF place
  <2> QED
    BY <1>1, <1>6, <1>7, <2>1, <2>2, <2>3 DEF Place, ItemOf
<1>14. e.chat = Room(z) /\ e.msg = z.msg /\ e.id = z.id /\ e.at = place /\ ItemOf(e) = z
  BY DEF ItemOf, Ids!Item
\* The places of the entries, which are those of an unchanged index but for e.
<1>15. \A k \in 1 .. Len(index') :
          \/ index'[k] = e /\ (k \in hits \/ (hits = {} /\ k = Len(index')))
          \/ \E l \in 1 .. n : l \notin hits /\ index'[k] = index[l]
                               /\ inserted - n + l = inserted' - Len(index') + k
  <2> SUFFICES ASSUME NEW k \in 1 .. Len(index')
               PROVE  \/ index'[k] = e /\ (k \in hits \/ (hits = {} /\ k = Len(index')))
                      \/ \E l \in 1 .. n : l \notin hits /\ index'[k] = index[l]
                               /\ inserted - n + l = inserted' - Len(index') + k
    OBVIOUS
  <2> HIDE DEF e
  <2>1. CASE hits # {}
    <3> HIDE DEF hits
    <3> QED
      BY <1>1, <1>9, <1>11, <2>1
  <2>2. CASE hits = {} /\ n < IndexSize
    <3>1. inserted' = inserted + 1 /\ Len(index') = n + 1
      BY <1>9, <1>11, <2>2
    <3>2. inserted' - Len(index') + k = inserted - n + k
      BY <1>1, <3>1
    <3>3. k \in 1 .. n + 1 /\ n \in Nat
      BY <1>1, <3>1
    <3>4. k = n + 1 \/ k \in 1 .. n
      <4> HIDE DEF n
      <4> QED
        BY ONLY <3>3
    <3>5. CASE k = n + 1
      BY <1>11, <2>2, <3>1, <3>5
    <3>6. CASE k \in 1 .. n
      <4>1. index'[k] = index[k] /\ k \notin hits
        BY <1>11, <2>2, <3>6
      <4> HIDE DEF hits, n
      <4> QED
        BY <3>2, <3>6, <4>1
    <3> QED
      BY <3>4, <3>5, <3>6
  <2>3. CASE hits = {} /\ n = IndexSize
    <3>1. inserted' = inserted + 1 /\ Len(index') = n
      BY <1>9, <1>11, <2>3
    <3>2. CASE k # n
      <4>1. k + 1 \in 1 .. n /\ k \in 1 .. n - 1
        <5>1. k \in 1 .. n /\ n \in Nat
          BY <1>1, <3>1
        <5> HIDE DEF n
        <5> QED
          BY ONLY <3>2, <5>1
      <4>2. inserted' - Len(index') + k = inserted - n + (k + 1)
        BY <1>1, <3>1
      <4> HIDE DEF hits
      <4> QED
        BY <1>11, <2>3, <4>1, <4>2
    <3>3. CASE k = n
      <4> HIDE DEF hits
      <4> QED
        <5>1. ~(n < IndexSize)
          BY <1>num, <2>3
        <5>2. index'[n] = e
          BY <1>11, <2>3, <5>1
        <5> QED
          BY <2>3, <3>1, <3>3, <5>2
    <3> QED
      BY <3>2, <3>3
  <2>4. hits # {} \/ (hits = {} /\ n < IndexSize) \/ (hits = {} /\ n = IndexSize)
    BY <1>num
  <2> QED
    BY <2>1, <2>2, <2>3, <2>4
<1>16. Len(index') \in Nat
  BY <1>12
<1>17. InOrder'
  <2>1. \A k \in 1 .. Len(index') : index'[k].at = inserted' - Len(index') + k
    <3> SUFFICES ASSUME NEW k \in 1 .. Len(index')
                 PROVE  index'[k].at = inserted' - Len(index') + k
      OBVIOUS
    <3>1. CASE \E l \in 1 .. n : l \notin hits /\ index'[k] = index[l]
                               /\ inserted - n + l = inserted' - Len(index') + k
      BY <1>4, <3>1
    <3>2. CASE index'[k] = e /\ k \in hits
      <4>1. hits = {k} /\ place = index[k].at /\ k \in 1 .. n
        BY <1>2, <3>2
      <4>2. inserted' = inserted /\ Len(index') = n /\ index'[k].at = place
        BY <1>9, <1>11, <1>14, <3>2
      <4> HIDE DEF hits, place, e
      <4> QED
        BY <1>4, <4>1, <4>2
    <3>3. CASE index'[k] = e /\ hits = {} /\ k = Len(index')
      <4>1. place = inserted + 1 /\ inserted' = inserted + 1 /\ index'[k].at = place
        BY <1>9, <1>14, <3>3
      <4> HIDE DEF hits, place, e
      <4> QED
        BY <1>1, <1>16, <3>3, <4>1
    <3> QED
      BY <1>15, <3>1, <3>2, <3>3
  <2>2. /\ Len(index') <= inserted'
        /\ Len(index') = IndexSize \/ Len(index') = inserted'
    <3> HIDE DEF hits, e
    <3>1. CASE hits # {}
      BY <1>5, <1>9, <1>11, <3>1
    <3>2. CASE hits = {} /\ n < IndexSize
      <4>1. n # IndexSize
        BY <1>num, <3>2
      <4>2. inserted' = inserted + 1 /\ Len(index') = n + 1 /\ n = inserted
        BY <1>5, <1>9, <1>11, <3>2, <4>1
      <4> QED
        BY <1>1, <4>2
    <3>3. CASE hits = {} /\ n = IndexSize
      <4>1. inserted' = inserted + 1 /\ Len(index') = n
        BY <1>9, <1>11, <3>3
      <4> QED
        BY <1>1, <1>5, <3>3, <4>1
    <3>4. n < IndexSize \/ n = IndexSize
      BY <1>num
    <3> QED
      BY <3>1, <3>2, <3>3, <3>4
  <2> QED
    BY <2>1, <2>2 DEF InOrder
<1>18. OneEntry'
  <2> SUFFICES ASSUME NEW k \in 1 .. Len(index'), NEW l \in 1 .. Len(index'),
                      index'[k].chat = index'[l].chat, index'[k].id = index'[l].id
               PROVE  k = l
    BY DEF OneEntry
  <2> DEFINE from(a, b) == b \notin hits /\ index'[a] = index[b]
                           /\ inserted - n + b = inserted' - Len(index') + a
  <2>1. CASE index'[k] = e /\ index'[l] = e
    <3>1. index'[k].at = index'[l].at
      BY <2>1
    <3>2. /\ index'[k].at = inserted' - Len(index') + k
          /\ index'[l].at = inserted' - Len(index') + l
      BY <1>17 DEF InOrder
    <3>3. inserted' - Len(index') \in Int
      BY <1>13, <1>16
    <3>4. k \in Int /\ l \in Int
      BY <1>16
    <3>5. \A x, y, w \in Int : w + x = w + y => x = y
      OBVIOUS
    <3> QED
      BY <3>1, <3>2, <3>3, <3>4, <3>5
  <2>2. \A a \in 1 .. Len(index') : \A b \in 1 .. n :
           from(a, b) => ~(index'[a].chat = Room(z) /\ index'[a].id = z.id)
    OBVIOUS
  <2>3. CASE (\E a \in 1 .. n : from(k, a)) /\ (\E b \in 1 .. n : from(l, b))
    <3> PICK a \in 1 .. n : from(k, a)
      BY <2>3
    <3> PICK b \in 1 .. n : from(l, b)
      BY <2>3
    <3>1. a = b
      BY DEF OneEntry
    <3>2. inserted' - Len(index') \in Int
      BY <1>13, <1>16
    <3>3. inserted' - Len(index') + k = inserted' - Len(index') + l
      BY <3>1
    <3>4. k \in Int /\ l \in Int
      BY <1>16
    <3>5. \A x, y, w \in Int : w + x = w + y => x = y
      OBVIOUS
    <3> QED
      BY <3>2, <3>3, <3>4, <3>5
  <2>4. \A a \in 1 .. Len(index') : index'[a] = e \/ \E b \in 1 .. n : from(a, b)
    BY <1>15
  <2> HIDE DEF from, hits, e
  <2>5. CASE index'[k] = e /\ index'[l] # e
    <3> PICK b \in 1 .. n : from(l, b)
      BY <2>4, <2>5
    <3> QED
      BY <1>14, <2>2, <2>5
  <2>6. CASE index'[k] # e /\ index'[l] = e
    <3> PICK b \in 1 .. n : from(k, b)
      BY <2>4, <2>6
    <3> QED
      BY <1>14, <2>2, <2>6
  <2> QED
    BY <2>1, <2>3, <2>4, <2>5, <2>6
<1>19. \A k \in 1 .. Len(index') :
          index'[k].chat = Room(z) /\ index'[k].id = z.id => index'[k].msg = z.msg
  BY <1>14, <1>15
<1>20. \A k \in 1 .. Len(index') : index'[k].at <= inserted =>
          \E l \in 1 .. n : /\ index'[k].at = index[l].at /\ index'[k].chat = index[l].chat
                            /\ index'[k].id = index[l].id
  <2> SUFFICES ASSUME NEW k \in 1 .. Len(index'), index'[k].at <= inserted
               PROVE  \E l \in 1 .. n :
                         /\ index'[k].at = index[l].at /\ index'[k].chat = index[l].chat
                         /\ index'[k].id = index[l].id
    OBVIOUS
  <2>1. CASE index'[k] = e /\ hits = {}
    BY <1>1, <1>14, <2>1
  <2>2. CASE index'[k] = e /\ k \in hits
    BY <1>2, <1>14, <2>2
  <2> QED
    BY <1>15, <2>1, <2>2
<1>21. \A k \in 1 .. Len(index') :
          \/ /\ ItemOf(index'[k]) = z /\ index'[k].chat = Room(z) /\ index'[k].at = place
          \/ \E l \in 1 .. n : index'[k] = index[l]
  BY <1>14, <1>15
<1>22. /\ Ids!Placed(z).at \in 1 .. inserted'
       /\ \A k \in 1 .. Len(index') :
             \/ /\ ItemOf(index'[k]) = z /\ index'[k].chat = Room(z)
                /\ index'[k].at = Ids!Placed(z).at
             \/ \E l \in 1 .. n : index'[k] = index[l]
  BY <1>6, <1>13, <1>21
<1>23. \A k \in 1 .. Len(index') :
          index'[k].at = place => index'[k].chat = Room(z) /\ index'[k].id = z.id
  <2> SUFFICES ASSUME NEW k \in 1 .. Len(index'), index'[k].at = place,
                      NEW l \in 1 .. n, l \notin hits, index'[k] = index[l]
               PROVE  FALSE
    BY <1>14, <1>15
  <2>1. inserted - n + l = place /\ l \in Int
    BY <1>4, <1>num
  <2>2. CASE hits = {}
    <3>1. place = inserted + 1 /\ l <= n
      BY <2>2
    <3> HIDE DEF place, hits, n
    <3> QED
      BY <1>num, <2>1, <3>1
  <2>3. CASE hits # {}
    <3> PICK h \in hits : TRUE
      BY <2>3
    <3>1. inserted - n + h = place /\ h \in Int
      <4>1. place = index[h].at
        BY <1>2
      <4>2. index[h].at = inserted - n + h
        BY <1>4
      <4>3. h \in Int
        BY <1>num
      <4> QED
        BY <4>1, <4>2, <4>3
    <3> HIDE DEF place, hits, n
    <3> QED
      BY <1>num, <2>1, <3>1
  <2> QED
    BY <2>2, <2>3
<1>24. \A k \in 1 .. Len(index') : index'[k].at = Ids!Placed(z).at =>
          index'[k].chat = Room(z) /\ index'[k].id = z.id
  BY <1>6, <1>23
<1> HIDE DEF hits, place, e
<1> QED
  BY <1>10, <1>12, <1>13, <1>17, <1>18, <1>19, <1>20, <1>22, <1>24, Zenon

\* Indexing an item keeps the claims, the item's own among them.
LEMMA IndexMeans ==
    ASSUME IdsCore, IdsTypes', NEW z \in Ids!Item, Ids!Remember(z),
           \A d \in Rooms : allotted[d] <= allotted'[d],
           Allotted', OneMessage', allotted'[Room(z)] <= z.nth + Modulus,
           \A p \in Place : Claimed(p)' => Claimed(p) \/ p = Ids!Placed(z)
    PROVE  Meant' /\ KeysStay'
<1>0. IdsTypes /\ InOrder /\ OneEntry /\ Meant /\ KeysStay
  BY DEF IdsCore
<1>1. Meant'
  <2> SUFFICES ASSUME NEW p \in Place, Claimed(p)', allotted'[Room(p)] <= p.nth + Modulus,
                      NEW k \in 1 .. Len(index'),
                      index'[k].chat = Room(p), index'[k].id = p.id
               PROVE  index'[k].msg = p.msg
    BY DEF Meant, Room
  <2>1. /\ Ids!Placed(z) \in Place /\ ItemOf(Ids!Placed(z)) = z
        /\ index'[k].chat = Room(z) /\ index'[k].id = z.id => index'[k].msg = z.msg
    BY <1>0, IndexWritten
  <2>2. \/ ItemOf(index'[k]) = z /\ index'[k].chat = Room(z)
        \/ \E l \in 1 .. Len(index) : index'[k] = index[l]
    BY <1>0, IndexWritten
  <2>3. CASE p = Ids!Placed(z)
    <3>1. Room(p) = Room(z) /\ p.id = z.id /\ p.msg = z.msg
      BY <2>1, <2>3, Projected
    <3> QED
      BY <2>1, <3>1
  <2>4. CASE Claimed(p) /\ \E l \in 1 .. Len(index) : index'[k] = index[l]
    <3>1. allotted[Room(p)] <= p.nth + Modulus
      <4>1. Room(p) \in Rooms /\ p.nth \in Nat /\ Modulus \in Nat
        BY Rooms1
      <4>2. allotted[Room(p)] \in Nat /\ allotted'[Room(p)] \in Nat
        BY <1>0, <4>1 DEF IdsTypes
      <4> QED
        BY <4>1, <4>2
    <3> QED
      BY <1>0, <2>4, <3>1 DEF Meant
  <2>5. CASE Claimed(p) /\ ItemOf(index'[k]) = z /\ index'[k].chat = Room(z)
    <3> DEFINE x == ItemOf(p)
    <3>1. /\ x \in Ids!Item /\ x.msg = p.msg /\ x.id = p.id /\ x.nth = p.nth /\ Room(x) = Room(p)
      BY Projected
    <3>2. Carried(x)'
      BY DEF Carried
    <3>8. Carried(z)'
      BY <2>5 DEF Carried
    <3>3. z.id = p.id /\ z.msg = index'[k].msg
      BY <2>5 DEF ItemOf
    <3>4. Room(z) = Room(p)
      BY <2>5
    <3> HIDE DEF x
    <3>5. /\ x.nth < allotted'[Room(z)] /\ x.id = x.nth % Modulus
          /\ z.nth < allotted'[Room(z)] /\ z.id = z.nth % Modulus
      BY <3>1, <3>2, <3>4, <3>8 DEF Allotted, Room
    <3>6. x.nth = z.nth
      <4>1. x.nth \in Nat /\ z.nth \in Nat /\ Modulus \in Nat \ {0} /\ allotted'[Room(z)] \in Nat
        BY <3>1, Rooms1 DEF IdsTypes
      <4>2. x.nth < z.nth + Modulus /\ z.nth < x.nth + Modulus
        BY <3>1, <3>4, <3>5, <4>1
      <4> QED
        BY <3>1, <3>3, <3>5, <4>1, <4>2, ModSame
    <3>7. x.msg = z.msg
      BY <3>1, <3>2, <3>4, <3>6, <3>8 DEF OneMessage, Room
    <3> QED
      BY <3>1, <3>3, <3>7
  <2> QED
    BY <2>2, <2>3, <2>4, <2>5
<1>2. KeysStay'
  <2> SUFFICES ASSUME NEW p \in Place, Claimed(p)'
               PROVE  /\ p.at \in 1 .. inserted'
                      /\ \A k \in 1 .. Len(index') :
                            index'[k].at = p.at => index'[k].chat = Room(p) /\ index'[k].id = p.id
    BY DEF KeysStay, Room
  <2>1. /\ Ids!Placed(z) \in Place /\ ItemOf(Ids!Placed(z)) = z
        /\ inserted' \in Nat /\ inserted <= inserted' /\ Ids!Placed(z).at \in 1 .. inserted'
        /\ \A k \in 1 .. Len(index') : index'[k].at = Ids!Placed(z).at =>
              index'[k].chat = Room(z) /\ index'[k].id = z.id
        /\ \A k \in 1 .. Len(index') : index'[k].at <= inserted =>
                 \E l \in 1 .. Len(index) :
                    /\ index'[k].at = index[l].at /\ index'[k].chat = index[l].chat
                    /\ index'[k].id = index[l].id
    BY <1>0, IndexWritten
  <2>2. CASE p = Ids!Placed(z)
    <3>1. Room(p) = Room(z) /\ p.id = z.id
      BY <2>1, <2>2, Projected
    <3> QED
      BY <2>1, <2>2, <3>1
  <2>3. CASE Claimed(p)
    <3>1. /\ p.at \in 1 .. inserted
          /\ \A k \in 1 .. Len(index) :
                index[k].at = p.at => index[k].chat = Room(p) /\ index[k].id = p.id
      BY <1>0, <2>3 DEF KeysStay
    <3>2. p.at \in 1 .. inserted' /\ p.at <= inserted
      BY <1>0, <2>1, <3>1 DEF IdsTypes
    <3> QED
      BY <2>1, <3>1, <3>2
  <2> QED
    BY <2>2, <2>3
<1> QED
  BY <1>1, <1>2

-----------------------------------------------------------------------------
(* Steps that number, forward, tell.                                        *)

\* The counter is the number of allotments, and an item numbered with it is
\* the next one of its chat.
LEMMA NumbersGiven ==
    ASSUME IdsTypes, InStep, NEW c \in Rooms, NEW count \in 0 .. 2, Ids!Allot(c, count)
    PROVE  /\ counter' \in [Rooms -> 0 .. Modulus - 1] /\ allotted' \in [Rooms -> Nat]
           /\ InStep'
           /\ \A d \in Rooms : allotted[d] <= allotted'[d]
           /\ allotted'[c] = allotted[c] + count
           /\ \A k \in {1, 2} : \A m \in Ids!Messages :
                 /\ Ids!Numbered(c, k, m) \in Ids!Item
                 /\ Ids!Numbered(c, k, m).msg = m
                 /\ Ids!Numbered(c, k, m).nth = allotted[c] + k - 1
                 /\ Ids!Numbered(c, k, m).id = (allotted[c] + k - 1) % Modulus
<1>1. /\ counter' = [counter EXCEPT ![c] = (@ + count) % Modulus]
      /\ allotted' = [allotted EXCEPT ![c] = @ + count]
  BY DEF Ids!Allot
<1>2. /\ Modulus \in Nat \ {0} /\ \A d \in Rooms : allotted[d] \in Nat
      /\ count \in Nat /\ counter[c] = allotted[c] % Modulus /\ counter[c] \in Nat
      /\ allotted[c] \in Nat
  BY Rooms1 DEF IdsTypes, InStep
<1>3. allotted' \in [Rooms -> Nat] /\ \A d \in Rooms : allotted[d] <= allotted'[d]
  <2>1. allotted \in [Rooms -> Nat] /\ allotted' = [allotted EXCEPT ![c] = allotted[c] + count]
    BY <1>1 DEF IdsTypes
  <2>2. allotted[c] + count \in Nat /\ allotted[c] <= allotted[c] + count
    BY ONLY <1>2
  <2>3. \A d \in Rooms : allotted'[d] = IF d = c THEN allotted[c] + count ELSE allotted[d]
    BY <2>1
  <2>4. \A d \in Rooms : allotted[d] <= allotted[d]
    BY ONLY <1>2
  <2>5. allotted' \in [Rooms -> Nat]
    BY <2>1, <2>2
  <2> QED
    BY <2>2, <2>3, <2>4, <2>5
<1>4. allotted'[c] = allotted[c] + count
  BY <1>1 DEF IdsTypes
<1>5. \A n \in Nat : (counter[c] + n) % Modulus = (allotted[c] + n) % Modulus
  BY <1>2, ModAdd
<1>6. \A n \in Nat : n % Modulus \in 0 .. Modulus - 1
  BY <1>2, Division
<1>7. counter'[c] = (allotted[c] + count) % Modulus
  <2>1. counter'[c] = (counter[c] + count) % Modulus
    BY <1>1 DEF IdsTypes
  <2> QED
    BY <1>2, <1>5, <2>1
<1>8. counter' \in [Rooms -> 0 .. Modulus - 1]
  <2>1. (counter[c] + count) % Modulus \in 0 .. Modulus - 1
    <3>1. counter[c] + count \in Nat
      BY <1>2
    <3> QED
      BY <1>6, <3>1
  <2> QED
    BY <1>1, <2>1 DEF IdsTypes
<1>9. InStep'
  <2> SUFFICES ASSUME NEW d \in Rooms PROVE counter'[d] = allotted'[d] % Modulus
    BY DEF InStep
  <2>1. CASE d = c
    BY <1>4, <1>7, <2>1
  <2>2. CASE d # c
    <3>1. counter'[d] = counter[d] /\ allotted'[d] = allotted[d]
      BY <1>1, <2>2 DEF IdsTypes
    <3> QED
      BY <3>1 DEF InStep
  <2> QED
    BY <2>1, <2>2
<1>10. ASSUME NEW k \in {1, 2}, NEW m \in Ids!Messages
       PROVE  /\ Ids!Numbered(c, k, m) \in Ids!Item
              /\ Ids!Numbered(c, k, m).msg = m
              /\ Ids!Numbered(c, k, m).nth = allotted[c] + k - 1
              /\ Ids!Numbered(c, k, m).id = (allotted[c] + k - 1) % Modulus
  <2>1. /\ k - 1 \in Nat /\ allotted[c] + k - 1 = allotted[c] + (k - 1)
        /\ counter[c] + k - 1 = counter[c] + (k - 1)
        /\ allotted[c] + k - 1 \in Nat
    BY <1>2
  <2>2. (counter[c] + k - 1) % Modulus = (allotted[c] + k - 1) % Modulus
    BY <1>5, <2>1
  <2>3. (allotted[c] + k - 1) % Modulus \in 0 .. Modulus - 1
    BY <1>6, <2>1
  <2> QED
    BY <2>1, <2>2, <2>3 DEF Ids!Numbered, Ids!Item
<1> QED
  BY <1>3, <1>4, <1>8, <1>9, <1>10

\* Everything about the numbers and the index, after an item is indexed.
LEMMA RememberKeeps ==
    ASSUME IdsCore, IdsTypes', AtHome', NEW z \in Ids!Item, Ids!Remember(z),
           \A x \in Ids!Item : Pending(x)' => Pending(x) \/ x = z,
           \A p \in Place : Claimed(p)' => Claimed(p) \/ p = Ids!Placed(z),
           \/ Pending(z) /\ UNCHANGED <<counter, allotted>>
           \/ /\ Ids!Allot(Room(z), 1)
              /\ z = Ids!Numbered(Room(z), 1, z.msg)
    PROVE  IdsCore'
<1>0. /\ IdsTypes /\ InStep /\ Allotted /\ OneMessage /\ Unlapped /\ IndexAtHome
      /\ InOrder /\ OneEntry
  BY DEF IdsCore
<1>1. /\ Room(z) \in Rooms /\ z.nth \in Nat /\ z.msg \in Ids!Messages
      /\ Modulus \in Nat /\ Modulus >= 2 /\ \A d \in Rooms : allotted[d] \in Nat
  BY <1>0, Rooms1, NumbersAssumption DEF IdsTypes, Ids!Item
<1>2. \A x \in Ids!Item : Carried(x)' => Carried(x) \/ x = z
  <2> SUFFICES ASSUME NEW x \in Ids!Item, Carried(x)', x # z PROVE Carried(x)
    OBVIOUS
  <2>1. CASE Pending(x)'
    BY <2>1 DEF Carried
  <2>2. ASSUME NEW k \in 1 .. Len(index'), ItemOf(index'[k]) = x PROVE Carried(x)
    <3>1. \E l \in 1 .. Len(index) : index'[k] = index[l]
      BY <1>0, <2>2, IndexWritten
    <3> QED
      BY <2>2, <3>1 DEF Carried
  <2>3. ASSUME NEW p \in Place, Claimed(p)', ItemOf(p) = x PROVE Carried(x)
    <3>1. ItemOf(Ids!Placed(z)) = z
      BY <1>0, IndexWritten
    <3>2. Claimed(p)
      BY <2>3, <3>1
    <3> QED
      BY <2>3, <3>2 DEF Carried
  <2> QED
    BY <2>1, <2>2, <2>3 DEF Carried
<1>3. /\ InStep' /\ Allotted' /\ OneMessage' /\ Unlapped'
      /\ \A d \in Rooms : allotted[d] <= allotted'[d]
      /\ allotted'[Room(z)] <= z.nth + Modulus
  <2>1. CASE Pending(z) /\ UNCHANGED <<counter, allotted>>
    <3>1. \A x \in Ids!Item : Carried(x)' => Carried(x) \/ x \in {}
      BY <1>2, <2>1 DEF Carried
    <3>2. \A d \in Rooms : allotted[d] <= allotted'[d]
      BY <1>1, <2>1
    <3>3. Allotted' /\ OneMessage'
      <4>1. {} \in SUBSET Ids!Item
        OBVIOUS
      <4> QED
        BY <1>0, <1>1, <3>1, <3>2, <4>1, NumbersKept
    <3>4. InStep' /\ Unlapped'
      BY <1>0, <2>1 DEF InStep, Unlapped, Room
    <3> QED
      BY <1>0, <2>1, <3>2, <3>3, <3>4 DEF Unlapped
  <2>2. CASE Ids!Allot(Room(z), 1) /\ z = Ids!Numbered(Room(z), 1, z.msg)
    <3>1. /\ InStep' /\ \A d \in Rooms : allotted[d] <= allotted'[d]
          /\ allotted'[Room(z)] = allotted[Room(z)] + 1
      BY <1>0, <1>1, <2>2, NumbersGiven
    <3>2. z.nth = allotted[Room(z)] + 1 - 1 /\ z.id = (allotted[Room(z)] + 1 - 1) % Modulus
      <4>1. 1 \in {1, 2} /\ 1 \in 0 .. 2
        OBVIOUS
      <4> QED
        BY <1>0, <1>1, <2>2, <4>1, NumbersGiven
    <3>3. z.nth = allotted[Room(z)] /\ z.id = z.nth % Modulus
      BY <1>1, <3>2
    <3>4. Allotted' /\ OneMessage'
      <4>1. {z} \in SUBSET Ids!Item
        OBVIOUS
      <4>2. \A x \in {z} : /\ Room(x) = Room(z) /\ x.id = x.nth % Modulus
                           /\ allotted[Room(z)] <= x.nth /\ x.nth < allotted'[Room(z)]
        BY <1>1, <3>1, <3>3
      <4>3. \A x \in Ids!Item : Carried(x)' => Carried(x) \/ x \in {z}
        BY <1>2
      <4> QED
        BY <1>0, <1>1, <3>1, <4>1, <4>2, <4>3, NumbersKept
    <3>5. Unlapped'
      <4>1. {z} \in SUBSET Ids!Item /\ 1 \in 0 .. 2
        OBVIOUS
      <4>2. \A x \in {z} : Room(x) = Room(z) /\ allotted[Room(z)] <= x.nth
        BY <1>1, <3>3
      <4>3. \A x \in Ids!Item : Pending(x)' => Pending(x) \/ x \in {z}
        OBVIOUS
      <4> QED
        BY <1>0, <1>1, <2>2, <4>1, <4>2, <4>3, AllotLapsNothing
    <3> QED
      BY <1>1, <3>1, <3>3, <3>4, <3>5
  <2> QED
    BY <2>1, <2>2
<1>4. Meant' /\ KeysStay'
  BY <1>3, IndexMeans
<1>5. InOrder' /\ OneEntry'
  BY <1>0, IndexWritten
<1>6. IndexAtHome'
  <2> SUFFICES ASSUME NEW k \in 1 .. Len(index') PROVE index'[k].chat = Room(index'[k])
    BY DEF IndexAtHome, Room
  <2>1. \/ ItemOf(index'[k]) = z /\ index'[k].chat = Room(z)
        \/ \E l \in 1 .. Len(index) : index'[k] = index[l]
    BY <1>0, IndexWritten
  <2>2. CASE ItemOf(index'[k]) = z /\ index'[k].chat = Room(z)
    BY <2>2 DEF ItemOf, Room
  <2>3. CASE \E l \in 1 .. Len(index) : index'[k] = index[l]
    BY <1>0, <2>3 DEF IndexAtHome
  <2> QED
    BY <2>1, <2>2, <2>3
<1> QED
  BY <1>3, <1>4, <1>5, <1>6 DEF IdsCore

\* A step that numbers, indexes and tells nothing.
LEMMA QuietKeeps ==
    ASSUME IdsCore, IdsTypes', AtHome', UNCHANGED <<counter, allotted, index, inserted>>,
           \A x \in Ids!Item : Pending(x)' => Pending(x),
           \A p \in Place : Claimed(p)' => Claimed(p)
    PROVE  IdsCore'
<1>0. IdsTypes /\ InStep /\ Allotted /\ OneMessage /\ Unlapped
  BY DEF IdsCore
<1>1. \A d \in Rooms : allotted[d] <= allotted'[d]
  BY <1>0 DEF IdsTypes
<1>2. IndexAtHome' /\ InOrder' /\ OneEntry' /\ Meant' /\ KeysStay'
  BY <1>1, IndexKept
<1>3. \A x \in Ids!Item : Carried(x)' => Carried(x)
  BY DEF Carried
<1>4. Allotted' /\ OneMessage' /\ InStep' /\ Unlapped'
  BY <1>0, <1>3 DEF Allotted, OneMessage, InStep, Unlapped, Room
<1> QED
  BY <1>2, <1>4 DEF IdsCore

\* The bridge is told of some messages of a chat.
LEMMA ToldGrows ==
    ASSUME IdsTypes, NEW c \in Rooms, NEW items \in Seq(Place), Ids!Tell(c, items)
    PROVE  /\ told' \in [Rooms -> SUBSET ToldItem]
           /\ \A d \in Rooms : told[d] \subseteq told'[d]
           /\ \A d \in Rooms : \A t \in told'[d] :
                 \/ t \in told[d]
                 \/ /\ d = c /\ t.life = life
                    /\ \E k \in 1 .. Len(items) : PlaceOf(t) = items[k]
<1> DEFINE new == {[life |-> life, msg |-> items[k].msg, id |-> items[k].id,
                    nth |-> items[k].nth, at |-> items[k].at] : k \in DOMAIN items}
<1>1. told' = [told EXCEPT ![c] = @ \cup new]
  BY DEF Ids!Tell
<1>2. DOMAIN items = 1 .. Len(items) /\ \A k \in 1 .. Len(items) : items[k] \in Place
  OBVIOUS
<1>3. \A p \in Place : /\ p = [msg |-> p.msg, id |-> p.id, nth |-> p.nth, at |-> p.at]
                       /\ [life |-> life, msg |-> p.msg, id |-> p.id, nth |-> p.nth,
                           at |-> p.at] \in ToldItem
  BY DEF Place, ToldItem, IdsTypes
<1>4. \A t \in new : /\ t \in ToldItem /\ t.life = life
                     /\ \E k \in 1 .. Len(items) : PlaceOf(t) = items[k]
  <2> SUFFICES ASSUME NEW k \in 1 .. Len(items)
               PROVE  LET t == [life |-> life, msg |-> items[k].msg, id |-> items[k].id,
                                nth |-> items[k].nth, at |-> items[k].at]
                      IN  t \in ToldItem /\ t.life = life /\ PlaceOf(t) = items[k]
    BY <1>2
  <2> QED
    BY <1>2, <1>3 DEF PlaceOf
<1> HIDE DEF new
<1>5. new \subseteq ToldItem
  BY <1>4
<1> QED
  BY <1>1, <1>4, <1>5 DEF IdsTypes

\* A handler goes on with what is left of its batch.
LEMMA HandlerMoves ==
    ASSUME IdsTypes, NEW j \in jobs, Ids!NextOf(j)
    PROVE  /\ jobs' \subseteq Seq(Ids!Item) \ {<<>>}
           /\ j[1] \in Ids!Item /\ 1 \in 1 .. Len(j)
           /\ \A i \in jobs' : \A k \in 1 .. Len(i) :
                 \E h \in jobs : \E l \in 1 .. Len(h) : h[l] = i[k]
<1>1. j \in Seq(Ids!Item) /\ j # <<>> /\ Len(j) \in Nat
  BY DEF IdsTypes
<1>2. Len(j) >= 1
  BY <1>1
<1>3. 1 \in 1 .. Len(j) /\ j[1] \in Ids!Item
  BY <1>1, <1>2
<1>4. ASSUME Len(j) > 1
      PROVE  /\ Tail(j) \in Seq(Ids!Item) \ {<<>>}
             /\ \A k \in 1 .. Len(Tail(j)) : k + 1 \in 1 .. Len(j) /\ j[k + 1] = Tail(j)[k]
  <2>1. /\ Tail(j) \in Seq(Ids!Item) /\ Len(Tail(j)) = Len(j) - 1
        /\ \A k \in 1 .. Len(j) - 1 : Tail(j)[k] = j[k + 1]
    BY <1>1, <1>4
  <2>2. Len(<<>>) = 0
    OBVIOUS
  <2>3. Tail(j) # <<>>
    <3>1. Len(Tail(j)) # 0
      BY <1>1, <1>4, <2>1
    <3> DEFINE rest == Tail(j)
    <3> HIDE DEF rest
    <3>2. rest = <<>> => Len(rest) = 0
      BY <2>2
    <3> QED
      BY <3>1, <3>2 DEF rest
  <2>4. \A k \in 1 .. Len(j) - 1 : k + 1 \in 1 .. Len(j)
    BY <1>1
  <2> QED
    BY <2>1, <2>3, <2>4
<1>5. jobs' = jobs \ {j} \/ (Len(j) > 1 /\ jobs' = (jobs \ {j}) \cup {Tail(j)})
  BY DEF Ids!NextOf
<1> QED
  BY <1>3, <1>4, <1>5 DEF IdsTypes

-----------------------------------------------------------------------------
(* The steps.                                                               *)

LEMMA ToldAtHome ==
    ASSUME IdsTypes, AtHome, UNCHANGED <<sends, life>>,
           NEW z, ItemOf(Ids!Placed(z)) = z,
           \A d \in Rooms : told[d] \subseteq told'[d],
           \A d \in Rooms : \A t \in told'[d] :
              \/ t \in told[d]
              \/ d = Room(z) /\ t.life = life /\ PlaceOf(t) = Ids!Placed(z)
    PROVE  AtHome'
<1>1. ASSUME NEW d \in Rooms, NEW t \in told'[d]
      PROVE  t.life <= life /\ Room(t) = d
  <2>1. CASE t \in told[d]
    BY <2>1 DEF AtHome
  <2>2. CASE d = Room(z) /\ t.life = life /\ PlaceOf(t) = Ids!Placed(z)
    <3>1. t.msg = z.msg
      BY <2>2 DEF ItemOf, PlaceOf
    <3> QED
      BY <2>2, <3>1 DEF IdsTypes, Room
  <2> QED
    BY <1>1, <2>1, <2>2
<1>2. \A s \in Sends : sends'[s].reply \in told'[ChatOf[s]] \cup {None}
  BY Rooms1 DEF AtHome
<1> QED
  BY <1>1, <1>2 DEF AtHome, Room

LEMMA ForwardKeeps ==
    ASSUME IdsCore, NEW j \in jobs, Ids!Forward(j)
    PROVE  IdsCore'
<1> DEFINE z == j[1]
           items == <<Ids!Placed(z)>>
<1>0. IdsTypes /\ InOrder /\ OneEntry /\ AtHome
  BY DEF IdsCore
<1>1. /\ Kind[z.msg] = "text" /\ Ids!Remember(z) /\ Ids!Tell(Room(z), items)
      /\ Ids!NextOf(j) /\ UNCHANGED <<counter, allotted, sends, life>>
  BY DEF Ids!Forward, Ids!ask, Room
<1>2. /\ jobs' \subseteq Seq(Ids!Item) \ {<<>>} /\ z \in Ids!Item
      /\ \A i \in jobs' : \A k \in 1 .. Len(i) :
            \E h \in jobs : \E l \in 1 .. Len(h) : h[l] = i[k]
  BY <1>0, <1>1, HandlerMoves
<1>3. Pending(z)
  BY <1>0, <1>1, HandlerMoves DEF Pending
<1> HIDE DEF z
<1>4. /\ Ids!Placed(z) \in Place /\ ItemOf(Ids!Placed(z)) = z
      /\ index' \in Seq(Entry) /\ Len(index') <= IndexSize
      /\ byId' \in Seq(Ids!Item) /\ Len(byId') <= 2 * IndexSize
      /\ \A k \in 1 .. Len(byId') :
            byId'[k] = z \/ \E l \in 1 .. Len(byId) : byId'[k] = byId[l]
      /\ inserted' \in Nat
  BY <1>0, <1>1, <1>2, IndexWritten
<1>5. items \in Seq(Place) /\ Len(items) = 1 /\ items[1] = Ids!Placed(z) /\ Room(z) \in Rooms
  BY <1>2, <1>4, Rooms1
<1>6. /\ told' \in [Rooms -> SUBSET ToldItem]
      /\ \A d \in Rooms : told[d] \subseteq told'[d]
      /\ \A d \in Rooms : \A t \in told'[d] :
            \/ t \in told[d]
            \/ d = Room(z) /\ t.life = life /\ PlaceOf(t) = Ids!Placed(z)
  <2>1. Ids!Tell(Room(z), items)
    BY <1>1
  <2> HIDE DEF items
  <2>2. \A k \in 1 .. Len(items) : items[k] = Ids!Placed(z)
    BY <1>5
  <2> QED
    BY <1>0, <1>5, <2>1, <2>2, ToldGrows
<1>7. IdsTypes'
  BY <1>0, <1>1, <1>2, <1>4, <1>6 DEF IdsTypes
<1>8. AtHome'
  BY <1>0, <1>1, <1>4, <1>6, ToldAtHome
<1>9. \A x \in Ids!Item : Pending(x)' => Pending(x) \/ x = z
  <2> SUFFICES ASSUME NEW x \in Ids!Item, Pending(x)' PROVE Pending(x) \/ x = z
    OBVIOUS
  <2>1. CASE \E k \in 1 .. Len(byId') : byId'[k] = x
    BY <1>4, <2>1 DEF Pending
  <2>2. CASE Kind[x.msg] # "join" /\ \E h \in jobs' : \E k \in 1 .. Len(h) : h[k] = x
    BY <1>2, <2>2 DEF Pending
  <2> QED
    BY <2>1, <2>2 DEF Pending
<1>10. \A p \in Place : Claimed(p)' => Claimed(p) \/ p = Ids!Placed(z)
  BY <1>1, <1>6 DEF Claimed
<1> QED
  BY <1>1, <1>2, <1>3, <1>7, <1>8, <1>9, <1>10, RememberKeeps

LEMMA KeepUnreadKeeps ==
    ASSUME IdsCore, NEW j \in jobs, Ids!KeepUnread(j)
    PROVE  IdsCore'
<1> DEFINE z == j[1]
<1>0. IdsTypes /\ InOrder /\ OneEntry /\ AtHome
  BY DEF IdsCore
<1>1. /\ Kind[z.msg] = "empty" /\ Ids!Remember(z)
      /\ Ids!NextOf(j) /\ UNCHANGED <<counter, allotted, sends, life, told>>
  BY DEF Ids!KeepUnread, Ids!ask
<1>2. /\ jobs' \subseteq Seq(Ids!Item) \ {<<>>} /\ z \in Ids!Item
      /\ \A i \in jobs' : \A k \in 1 .. Len(i) :
            \E h \in jobs : \E l \in 1 .. Len(h) : h[l] = i[k]
  BY <1>0, <1>1, HandlerMoves
<1>3. Pending(z)
  BY <1>0, <1>1, HandlerMoves DEF Pending
<1> HIDE DEF z
<1>4. /\ index' \in Seq(Entry) /\ Len(index') <= IndexSize
      /\ byId' \in Seq(Ids!Item) /\ Len(byId') <= 2 * IndexSize
      /\ \A k \in 1 .. Len(byId') :
            byId'[k] = z \/ \E l \in 1 .. Len(byId) : byId'[k] = byId[l]
      /\ inserted' \in Nat
  BY <1>0, <1>1, <1>2, IndexWritten
<1>5. IdsTypes'
  BY <1>0, <1>1, <1>2, <1>4 DEF IdsTypes
<1>6. AtHome'
  BY <1>0, <1>1 DEF AtHome, Room
<1>7. \A x \in Ids!Item : Pending(x)' => Pending(x) \/ x = z
  BY <1>2, <1>4 DEF Pending
<1>8. \A p \in Place : Claimed(p)' => Claimed(p) \/ p = Ids!Placed(z)
  BY <1>1 DEF Claimed
<1> QED
  BY <1>1, <1>2, <1>3, <1>5, <1>6, <1>7, <1>8, RememberKeeps

LEMMA SkipKeeps ==
    ASSUME IdsCore, NEW j \in jobs, Ids!Skip(j)
    PROVE  IdsCore'
<1>0. IdsTypes /\ AtHome
  BY DEF IdsCore
<1>1. /\ Ids!NextOf(j)
      /\ UNCHANGED <<counter, allotted, index, byId, inserted, sends, life, told>>
  BY DEF Ids!Skip, Ids!maps, Ids!ask
<1>2. /\ jobs' \subseteq Seq(Ids!Item) \ {<<>>}
      /\ \A i \in jobs' : \A k \in 1 .. Len(i) :
            \E h \in jobs : \E l \in 1 .. Len(h) : h[l] = i[k]
  BY <1>0, <1>1, HandlerMoves
<1>3. IdsTypes' /\ AtHome'
  BY <1>0, <1>1, <1>2 DEF IdsTypes, AtHome, Room
<1>4. \A x \in Ids!Item : Pending(x)' => Pending(x)
  BY <1>1, <1>2 DEF Pending
<1>5. \A p \in Place : Claimed(p)' => Claimed(p)
  BY <1>1 DEF Claimed
<1> QED
  BY <1>1, <1>3, <1>4, <1>5, QuietKeeps

LEMMA JoinedKeeps ==
    ASSUME IdsCore, NEW j \in jobs, Ids!Joined(j)
    PROVE  IdsCore'
<1> DEFINE c == ChatOf[j[1].msg]
           z == Ids!Numbered(c, 1, j[1].msg)
           items == <<Ids!Placed(z)>>
<1>0. IdsTypes /\ InStep /\ InOrder /\ OneEntry /\ AtHome
  BY DEF IdsCore
<1>1. /\ Ids!Allot(c, 1) /\ Ids!Remember(z) /\ Ids!Tell(c, items)
      /\ Ids!NextOf(j) /\ UNCHANGED <<sends, life>>
  BY DEF Ids!Joined, Ids!ask
<1>2. /\ jobs' \subseteq Seq(Ids!Item) \ {<<>>} /\ j[1] \in Ids!Item
      /\ \A i \in jobs' : \A k \in 1 .. Len(i) :
            \E h \in jobs : \E l \in 1 .. Len(h) : h[l] = i[k]
  BY <1>0, <1>1, HandlerMoves
<1>3. /\ c \in Rooms /\ j[1].msg \in Ids!Messages
  BY <1>2, Rooms1 DEF Ids!Item, Room
<1>given. /\ z \in Ids!Item /\ z.msg = j[1].msg
          /\ counter' \in [Rooms -> 0 .. Modulus - 1] /\ allotted' \in [Rooms -> Nat]
  <2>1. 1 \in {1, 2} /\ 1 \in 0 .. 2
    OBVIOUS
  <2> HIDE DEF c
  <2> QED
    BY <1>0, <1>1, <1>3, <2>1, NumbersGiven
<1>room. Room(z) = c /\ z = Ids!Numbered(Room(z), 1, z.msg)
  BY <1>given DEF Room
<1> HIDE DEF z, c
<1>4. /\ Ids!Placed(z) \in Place /\ ItemOf(Ids!Placed(z)) = z
      /\ index' \in Seq(Entry) /\ Len(index') <= IndexSize
      /\ byId' \in Seq(Ids!Item) /\ Len(byId') <= 2 * IndexSize
      /\ \A k \in 1 .. Len(byId') :
            byId'[k] = z \/ \E l \in 1 .. Len(byId) : byId'[k] = byId[l]
      /\ inserted' \in Nat
  BY <1>0, <1>1, <1>given, IndexWritten
<1>5. items \in Seq(Place) /\ Len(items) = 1 /\ items[1] = Ids!Placed(z)
  BY <1>4
<1>6. /\ told' \in [Rooms -> SUBSET ToldItem]
      /\ \A d \in Rooms : told[d] \subseteq told'[d]
      /\ \A d \in Rooms : \A t \in told'[d] :
            \/ t \in told[d]
            \/ d = Room(z) /\ t.life = life /\ PlaceOf(t) = Ids!Placed(z)
  <2>1. Ids!Tell(c, items)
    BY <1>1
  <2> HIDE DEF items
  <2>2. \A k \in 1 .. Len(items) : items[k] = Ids!Placed(z)
    BY <1>5
  <2> QED
    BY <1>0, <1>3, <1>5, <1>room, <2>1, <2>2, ToldGrows
<1>7. IdsTypes'
  BY <1>0, <1>1, <1>2, <1>4, <1>6, <1>given DEF IdsTypes
<1>8. AtHome'
  BY <1>0, <1>1, <1>4, <1>6, ToldAtHome
<1>9. \A x \in Ids!Item : Pending(x)' => Pending(x) \/ x = z
  BY <1>2, <1>4 DEF Pending
<1>10. \A p \in Place : Claimed(p)' => Claimed(p) \/ p = Ids!Placed(z)
  BY <1>1, <1>6 DEF Claimed
<1> QED
  BY <1>1, <1>given, <1>room, <1>7, <1>8, <1>9, <1>10, RememberKeeps

\* A send that goes on without a message being sent.
LEMMA SendMoves ==
    ASSUME IdsCore, NEW s \in Sends, NEW new \in Request,
           sends' = [sends EXCEPT ![s] = new],
           UNCHANGED <<counter, allotted, index, byId, inserted, jobs, life, told>>,
           new.reply \in told[ChatOf[s]] \cup {None},
           new.at \in {"idle", "queued", "running"} => new.ids = <<>>
    PROVE  IdsCore'
<1>0. IdsTypes /\ AtHome
  BY DEF IdsCore
<1>1. \A r \in Sends : sends'[r] = IF r = s THEN new ELSE sends[r]
  BY <1>0 DEF IdsTypes
<1>2. IdsTypes'
  BY <1>0 DEF IdsTypes
<1>3. \A r \in Sends :
         /\ sends'[r].reply \in told[ChatOf[r]] \cup {None}
         /\ sends'[r].at = "running" =>
               /\ Len(sends'[r].ids) < Len(Parts[r])
               /\ \A k \in 1 .. Len(sends'[r].ids) : Room(sends'[r].ids[k]) = ChatOf[r]
         /\ sends'[r].at \in {"idle", "queued"} => sends'[r].ids = <<>>
  <2> SUFFICES ASSUME NEW r \in Sends
               PROVE  /\ sends'[r].reply \in told[ChatOf[r]] \cup {None}
                      /\ sends'[r].at = "running" =>
                            /\ Len(sends'[r].ids) < Len(Parts[r])
                            /\ \A k \in 1 .. Len(sends'[r].ids) :
                                  Room(sends'[r].ids[k]) = ChatOf[r]
                      /\ sends'[r].at \in {"idle", "queued"} => sends'[r].ids = <<>>
    OBVIOUS
  <2>1. CASE r = s
    <3>1. Len(<<>>) = 0 /\ Len(Parts[s]) > 0 /\ \A k \in 1 .. Len(<<>>) : FALSE
      BY NumbersAssumption
    <3> QED
      BY <1>1, <2>1, <3>1
  <2>2. CASE r # s
    BY <1>0, <1>1, <2>2 DEF AtHome
  <2> QED
    BY <2>1, <2>2
<1>4. AtHome'
  BY <1>0, <1>3 DEF AtHome, Room
<1>5. \A x \in Ids!Item : Pending(x)' => Pending(x)
  BY DEF Pending
<1>6. \A p \in Place : Claimed(p)' => Claimed(p)
  <2> SUFFICES ASSUME NEW p \in Place,
                      NEW r \in Sends, sends'[r].at = "running",
                      NEW k \in 1 .. Len(sends'[r].ids), sends'[r].ids[k] = p
               PROVE  Claimed(p)
    BY DEF Claimed
  <2>1. CASE r = s
    <3>1. \A l \in 1 .. Len(<<>>) : FALSE
      OBVIOUS
    <3> QED
      BY <1>1, <2>1, <3>1
  <2>2. CASE r # s
    BY <1>1, <2>2 DEF Claimed
  <2> QED
    BY <2>1, <2>2
<1> QED
  BY <1>2, <1>4, <1>5, <1>6, QuietKeeps

LEMMA RequestKeeps ==
    ASSUME IdsCore, NEW s \in Sends, NEW t \in told[ChatOf[s]] \cup {None}, Ids!Request(s, t)
    PROVE  IdsCore'
<1> DEFINE new == [at |-> "queued", reply |-> t, ids |-> <<>>]
<1>1. /\ sends' = [sends EXCEPT ![s] = new]
      /\ UNCHANGED <<counter, allotted, index, byId, inserted, jobs, life, told>>
  BY DEF Ids!Request, Ids!maps
<1>2. t \in ToldItem \cup {None} /\ <<>> \in Seq(Place)
  BY Rooms1 DEF IdsCore, IdsTypes
<1>3. new \in Request
  BY <1>2 DEF Request
<1> QED
  BY <1>1, <1>3, SendMoves

\* A queued send finds its target, or does without.
LEMMA QuotesKeeps ==
    ASSUME IdsCore, NEW s \in Sends, sends[s].at = "queued", Ids!Quotes(s)
    PROVE  IdsCore'
<1> DEFINE new == [sends[s] EXCEPT !.at = "running"]
<1>1. /\ sends' = [sends EXCEPT ![s] = new]
      /\ UNCHANGED <<counter, allotted, index, byId, inserted, jobs, life, told>>
  <2>1. sends' = [sends EXCEPT ![s].at = "running"]
    BY DEF Ids!Quotes
  <2>2. sends' = [sends EXCEPT ![s] = new]
    BY ONLY <2>1
  <2> QED
    BY <2>2 DEF Ids!Quotes, Ids!maps
<1>2. sends[s] \in Request /\ sends[s].ids = <<>> /\ sends[s].reply \in told[ChatOf[s]] \cup {None}
  BY DEF IdsCore, IdsTypes, AtHome
<1>3. /\ new \in Request /\ new.ids = sends[s].ids /\ new.reply = sends[s].reply
  BY <1>2 DEF Request
<1> QED
  BY <1>1, <1>2, <1>3, SendMoves

LEMMA FailsKeeps ==
    ASSUME IdsCore, NEW s \in Sends, Ids!Fails(s)
    PROVE  IdsCore'
<1> DEFINE new == [sends[s] EXCEPT !.at = "failed"]
<1>1. /\ sends' = [sends EXCEPT ![s] = new]
      /\ UNCHANGED <<counter, allotted, index, byId, inserted, jobs, life, told>>
  BY DEF Ids!Fails, Ids!maps
<1>2. sends[s] \in Request /\ sends[s].reply \in told[ChatOf[s]] \cup {None}
  BY DEF IdsCore, IdsTypes, AtHome
<1>3. new \in Request /\ new.at = "failed" /\ new.reply = sends[s].reply
  BY <1>2 DEF Request
<1> QED
  BY <1>1, <1>2, <1>3, SendMoves

\* A part of a send is out: numbered, indexed and, with the last one, told.
LEMMA SentKeeps ==
    ASSUME IdsCore, NEW s \in Sends, Ids!Sent(s)
    PROVE  IdsCore'
<1> DEFINE c == ChatOf[s]
           n == Len(sends[s].ids)
           m == Parts[s][n + 1]
           z == Ids!Numbered(c, 1, m)
           p == Ids!Placed(z)
           ids == Append(sends[s].ids, p)
           last == n + 1 = Len(Parts[s])
<1>0. IdsTypes /\ InStep /\ InOrder /\ OneEntry /\ AtHome
  BY DEF IdsCore
<1>1. /\ sends[s].at = "running" /\ Ids!Allot(c, 1) /\ Ids!Remember(z)
      /\ sends' = [sends EXCEPT ![s] = [at    |-> IF last THEN "done" ELSE "running",
                                        reply |-> sends[s].reply, ids |-> ids]]
      /\ last => Ids!Tell(c, ids)
      /\ ~last => told' = told
      /\ UNCHANGED <<jobs, life>>
  BY DEF Ids!Sent
<1>2. /\ sends[s] \in Request /\ sends[s].ids \in Seq(Place) /\ n \in Nat
      /\ n < Len(Parts[s]) /\ \A k \in 1 .. n : Room(sends[s].ids[k]) = c
      /\ sends[s].reply \in told[c] \cup {None}
  <2>1. sends[s] \in Request
    BY <1>0 DEF IdsTypes
  <2>2. sends[s].ids \in Seq(Place)
    BY <2>1 DEF Request
  <2> QED
    BY <1>0, <1>1, <2>1, <2>2 DEF AtHome
<1>3. c \in Rooms /\ m \in Ids!Messages /\ ChatOf[m] = c
  <2>1. Parts[s] \in Seq(Own) /\ n + 1 \in 1 .. Len(Parts[s])
    BY <1>2, NumbersAssumption
  <2> QED
    BY <2>1, Rooms1, NumbersAssumption DEF Ids!Messages
<1>given. /\ z \in Ids!Item /\ z.msg = m
          /\ counter' \in [Rooms -> 0 .. Modulus - 1] /\ allotted' \in [Rooms -> Nat]
  <2>1. 1 \in {1, 2} /\ 1 \in 0 .. 2
    OBVIOUS
  <2> HIDE DEF c, m
  <2> QED
    BY <1>0, <1>1, <1>3, <2>1, NumbersGiven
<1>room. Room(z) = c /\ z = Ids!Numbered(Room(z), 1, z.msg)
  BY <1>3, <1>given DEF Room
<1> HIDE DEF z, m, p
<1>4. /\ p \in Place /\ ItemOf(p) = z
      /\ index' \in Seq(Entry) /\ Len(index') <= IndexSize
      /\ byId' \in Seq(Ids!Item) /\ Len(byId') <= 2 * IndexSize
      /\ \A k \in 1 .. Len(byId') :
            byId'[k] = z \/ \E l \in 1 .. Len(byId) : byId'[k] = byId[l]
      /\ inserted' \in Nat
  BY <1>0, <1>1, <1>given, IndexWritten DEF p
<1>5. /\ ids \in Seq(Place) /\ Len(ids) = n + 1
      /\ \A k \in 1 .. n + 1 : ids[k] = p \/ (k \in 1 .. n /\ ids[k] = sends[s].ids[k])
  BY <1>2, <1>4
<1>6. Room(p) = c /\ \A k \in 1 .. n + 1 : Room(ids[k]) = c
  <2>1. Room(p) = c
    BY <1>4, <1>room DEF ItemOf, Room
  <2> QED
    BY <1>2, <1>5, <2>1
<1> HIDE DEF ids
\* Each of the parts is claimed already, but for the new one.
<1>7. \A k \in 1 .. n + 1 : ids[k] = p \/ Claimed(ids[k])
  BY <1>1, <1>5 DEF Claimed
<1>8. /\ sends' \in [Sends -> Request]
      /\ sends'[s].reply = sends[s].reply
      /\ sends'[s].at = "running" => ~last /\ sends'[s].ids = ids
      /\ sends'[s].at \notin {"idle", "queued"}
      /\ \A r \in Sends : r # s => sends'[r] = sends[r]
  <2> DEFINE new == [at    |-> IF last THEN "done" ELSE "running",
                     reply |-> sends[s].reply, ids |-> ids]
  <2> HIDE DEF last
  <2>1. /\ new \in Request /\ new.reply = sends[s].reply /\ new.ids = ids
        /\ new.at = IF last THEN "done" ELSE "running"
    BY <1>2, <1>5 DEF Request
  <2>2. sends' = [sends EXCEPT ![s] = new]
    BY <1>1 DEF last
  <2> HIDE DEF new
  <2>3. sends'[s] = new /\ sends' \in [Sends -> Request]
        /\ \A r \in Sends : r # s => sends'[r] = sends[r]
    BY <1>0, <2>1, <2>2 DEF IdsTypes
  <2> QED
    BY <2>1, <2>3
<1>9. /\ told' \in [Rooms -> SUBSET ToldItem]
      /\ \A d \in Rooms : told[d] \subseteq told'[d]
      /\ \A d \in Rooms : \A t \in told'[d] :
            \/ t \in told[d]
            \/ d = c /\ t.life = life /\ \E k \in 1 .. n + 1 : PlaceOf(t) = ids[k]
  <2> HIDE DEF last
  <2>1. CASE last
    <3>1. Ids!Tell(c, ids)
      BY <1>1, <2>1
    <3> QED
      BY <1>0, <1>3, <1>5, <3>1, ToldGrows
  <2>2. CASE ~last
    BY <1>0, <1>1, <2>2 DEF IdsTypes
  <2> QED
    BY <2>1, <2>2
<1>10. IdsTypes'
  BY <1>0, <1>1, <1>4, <1>8, <1>9, <1>given DEF IdsTypes
<1>11. AtHome'
  <2>1. ASSUME NEW d \in Rooms, NEW t \in told'[d]
        PROVE  t.life <= life /\ Room(t) = d
    <3>1. CASE t \in told[d]
      BY <1>0, <3>1 DEF AtHome
    <3>2. CASE d = c /\ t.life = life /\ \E k \in 1 .. n + 1 : PlaceOf(t) = ids[k]
      <4>1. Room(t) = c
        BY <1>6, <3>2 DEF PlaceOf, Room
      <4> QED
        BY <1>0, <3>2, <4>1 DEF IdsTypes
    <3> QED
      BY <1>9, <2>1, <3>1, <3>2
  <2>2. ASSUME NEW r \in Sends
        PROVE  /\ sends'[r].reply \in told'[ChatOf[r]] \cup {None}
               /\ sends'[r].at = "running" =>
                     /\ Len(sends'[r].ids) < Len(Parts[r])
                     /\ \A k \in 1 .. Len(sends'[r].ids) : Room(sends'[r].ids[k]) = ChatOf[r]
               /\ sends'[r].at \in {"idle", "queued"} => sends'[r].ids = <<>>
    <3>1. CASE r = s
      <4>1. Len(Parts[s]) \in Nat
        BY NumbersAssumption
      <4>2. ~last => n + 1 < Len(Parts[s])
        BY <1>2, <4>1
      <4> HIDE DEF last
      <4> QED
        BY <1>2, <1>3, <1>5, <1>6, <1>8, <1>9, <3>1, <4>2
    <3>2. CASE r # s
      <4>1. ChatOf[r] \in Rooms
        BY Rooms1
      <4> QED
        BY <1>0, <1>8, <1>9, <3>2, <4>1 DEF AtHome
    <3> QED
      BY <3>1, <3>2
  <2> QED
    BY <1>1, <2>1, <2>2 DEF AtHome, Room
<1>12. \A x \in Ids!Item : Pending(x)' => Pending(x) \/ x = z
  BY <1>1, <1>4 DEF Pending
<1>13. \A q \in Place : Claimed(q)' => Claimed(q) \/ q = p
  <2> SUFFICES ASSUME NEW q \in Place, Claimed(q)' PROVE Claimed(q) \/ q = p
    OBVIOUS
  <2>1. CASE \E d \in Rooms : \E t \in told'[d] : t.life = life /\ PlaceOf(t) = q
    BY <1>7, <1>9, <2>1 DEF Claimed
  <2>2. ASSUME NEW r \in Sends, sends'[r].at = "running",
               NEW k \in 1 .. Len(sends'[r].ids), sends'[r].ids[k] = q
        PROVE  Claimed(q) \/ q = p
    <3>1. CASE r = s
      <4>1. sends'[r].ids = ids
        BY <1>8, <2>2, <3>1
      <4> QED
        BY <1>5, <1>7, <2>2, <4>1
    <3>2. CASE r # s
      <4>1. sends'[r] = sends[r]
        BY <1>8, <3>2
      <4> QED
        BY <2>2, <4>1 DEF Claimed
    <3> QED
      BY <3>1, <3>2
  <2>3. life' = life
    BY <1>1
  <2>4. \/ \E d \in Rooms : \E t \in told'[d] : t.life = life' /\ PlaceOf(t) = q
        \/ \E r \in Sends : /\ sends'[r].at = "running"
                            /\ \E k \in 1 .. Len(sends'[r].ids) : sends'[r].ids[k] = q
    BY DEF Claimed, PlaceOf
  <2> QED
    BY <2>1, <2>2, <2>3, <2>4
<1> QED
  BY <1>1, <1>given, <1>room, <1>10, <1>11, <1>12, <1>13, RememberKeeps DEF p


\* A quiz or a sticker is out, or failed.
LEMMA SentLooseKeeps ==
    ASSUME IdsCore, NEW s \in Sends, Ids!SentLoose(s)
    PROVE  IdsCore'
<1> DEFINE c == ChatOf[s]
           m == Parts[s][1]
           z == Ids!Numbered(c, 1, m)
           items == <<Ids!Placed(z)>>
<1>0. IdsTypes /\ InStep /\ InOrder /\ OneEntry /\ AtHome
  BY DEF IdsCore
<1>1. sends[s] \in Request /\ sends[s].reply \in told[c] \cup {None}
  BY <1>0 DEF IdsTypes, AtHome
<1>2. CASE /\ sends' = [sends EXCEPT ![s].at = "failed"]
           /\ UNCHANGED <<counter, allotted, Ids!maps, told>>
  <2> DEFINE new == [sends[s] EXCEPT !.at = "failed"]
  <2>1. sends' = [sends EXCEPT ![s] = new]
    BY <1>2
  <2>2. UNCHANGED <<counter, allotted, index, byId, inserted, jobs, life, told>>
    BY <1>2 DEF Ids!SentLoose, Ids!maps
  <2>3. new \in Request /\ new.at = "failed" /\ new.reply = sends[s].reply
    BY <1>1 DEF Request
  <2> QED
    BY <1>1, <2>1, <2>2, <2>3, SendMoves
<1>3. CASE /\ Ids!Allot(c, 1) /\ Ids!Remember(z) /\ Ids!Tell(c, items)
           /\ sends' = [sends EXCEPT ![s].at = "done"]
  <2>1. UNCHANGED <<jobs, life>>
    BY DEF Ids!SentLoose
  <2>2. c \in Rooms /\ m \in Ids!Messages /\ ChatOf[m] = c
    <3>1. Parts[s] \in Seq(Own) /\ 1 \in 1 .. Len(Parts[s])
      BY NumbersAssumption
    <3> QED
      BY <3>1, Rooms1, NumbersAssumption DEF Ids!Messages
  <2>given. /\ z \in Ids!Item /\ z.msg = m
            /\ counter' \in [Rooms -> 0 .. Modulus - 1] /\ allotted' \in [Rooms -> Nat]
    <3>1. 1 \in {1, 2} /\ 1 \in 0 .. 2
      OBVIOUS
    <3>2. Ids!Allot(c, 1)
      BY <1>3
    <3> HIDE DEF c, m
    <3> QED
      BY <1>0, <2>2, <3>1, <3>2, NumbersGiven
  <2>room. Room(z) = c /\ z = Ids!Numbered(Room(z), 1, z.msg)
    BY <2>2, <2>given DEF Room
  <2> HIDE DEF z, m
  <2>4. /\ Ids!Placed(z) \in Place /\ ItemOf(Ids!Placed(z)) = z
        /\ index' \in Seq(Entry) /\ Len(index') <= IndexSize
        /\ byId' \in Seq(Ids!Item) /\ Len(byId') <= 2 * IndexSize
        /\ \A k \in 1 .. Len(byId') :
              byId'[k] = z \/ \E l \in 1 .. Len(byId) : byId'[k] = byId[l]
        /\ inserted' \in Nat
    BY <1>0, <1>3, <2>given, IndexWritten
  <2>5. items \in Seq(Place) /\ Len(items) = 1 /\ items[1] = Ids!Placed(z)
    BY <2>4
  <2>6. /\ told' \in [Rooms -> SUBSET ToldItem]
        /\ \A d \in Rooms : told[d] \subseteq told'[d]
        /\ \A d \in Rooms : \A t \in told'[d] :
              \/ t \in told[d]
              \/ d = Room(z) /\ t.life = life /\ PlaceOf(t) = Ids!Placed(z)
    <3>1. Ids!Tell(c, items)
      BY <1>3
    <3> HIDE DEF items
    <3>2. \A k \in 1 .. Len(items) : items[k] = Ids!Placed(z)
      BY <2>5
    <3> QED
      BY <1>0, <2>2, <2>5, <2>room, <3>1, <3>2, ToldGrows
  <2>7. /\ sends' \in [Sends -> Request]
        /\ sends'[s].reply = sends[s].reply /\ sends'[s].at = "done"
        /\ \A r \in Sends : r # s => sends'[r] = sends[r]
    <3> DEFINE new == [sends[s] EXCEPT !.at = "done"]
    <3>1. sends' = [sends EXCEPT ![s] = new]
      BY <1>3
    <3>2. new \in Request /\ new.at = "done" /\ new.reply = sends[s].reply
      BY <1>1 DEF Request
    <3> HIDE DEF new
    <3>3. sends'[s] = new /\ sends' \in [Sends -> Request]
          /\ \A r \in Sends : r # s => sends'[r] = sends[r]
      BY <1>0, <3>1, <3>2 DEF IdsTypes
    <3> QED
      BY <3>2, <3>3
  <2>8. IdsTypes'
    BY <1>0, <2>1, <2>4, <2>6, <2>7, <2>given DEF IdsTypes
  <2>9. AtHome'
    <3>1. ASSUME NEW d \in Rooms, NEW t \in told'[d]
          PROVE  t.life <= life /\ Room(t) = d
      <4>1. CASE t \in told[d]
        BY <1>0, <4>1 DEF AtHome
      <4>2. CASE d = Room(z) /\ t.life = life /\ PlaceOf(t) = Ids!Placed(z)
        <5>1. t.msg = z.msg
          BY <2>4, <4>2 DEF ItemOf, PlaceOf
        <5> QED
          BY <1>0, <4>2, <5>1 DEF IdsTypes, Room
      <4> QED
        BY <2>6, <3>1, <4>1, <4>2
    <3>2. ASSUME NEW r \in Sends
          PROVE  /\ sends'[r].reply \in told'[ChatOf[r]] \cup {None}
                 /\ sends'[r].at = "running" =>
                       /\ Len(sends'[r].ids) < Len(Parts[r])
                       /\ \A k \in 1 .. Len(sends'[r].ids) : Room(sends'[r].ids[k]) = ChatOf[r]
                 /\ sends'[r].at \in {"idle", "queued"} => sends'[r].ids = <<>>
      <4>1. ChatOf[r] \in Rooms
        BY Rooms1
      <4>2. CASE r = s
        BY <1>1, <2>6, <2>7, <4>1, <4>2
      <4>3. CASE r # s
        BY <1>0, <2>6, <2>7, <4>1, <4>3 DEF AtHome
      <4> QED
        BY <4>2, <4>3
    <3> QED
      BY <2>1, <3>1, <3>2 DEF AtHome, Room
  <2>10. \A x \in Ids!Item : Pending(x)' => Pending(x) \/ x = z
    BY <2>1, <2>4 DEF Pending
  <2>11. \A q \in Place : Claimed(q)' => Claimed(q) \/ q = Ids!Placed(z)
    <3> SUFFICES ASSUME NEW q \in Place, Claimed(q)'
                 PROVE  Claimed(q) \/ q = Ids!Placed(z)
      OBVIOUS
    <3>1. \/ \E d \in Rooms : \E t \in told'[d] : t.life = life' /\ PlaceOf(t) = q
          \/ \E r \in Sends : /\ sends'[r].at = "running"
                              /\ \E k \in 1 .. Len(sends'[r].ids) : sends'[r].ids[k] = q
      BY DEF Claimed, PlaceOf
    <3>2. CASE \E d \in Rooms : \E t \in told'[d] : t.life = life' /\ PlaceOf(t) = q
      BY <2>1, <2>6, <3>2 DEF Claimed
    <3>3. ASSUME NEW r \in Sends, sends'[r].at = "running",
                 NEW k \in 1 .. Len(sends'[r].ids), sends'[r].ids[k] = q
          PROVE  Claimed(q)
      <4>1. sends'[r] = sends[r]
        BY <2>7, <3>3
      <4> QED
        BY <3>3, <4>1 DEF Claimed
    <3> QED
      BY <3>1, <3>2, <3>3
  <2> QED
    BY <1>3, <2>given, <2>room, <2>8, <2>9, <2>10, <2>11, RememberKeeps
<1> QED
  BY <1>2, <1>3 DEF Ids!SentLoose

LEMMA SameCount == \A S : Ids!Cardinality(S) = Cardinality(S)
BY DEF Ids!Cardinality, Cardinality

\* The new messages of a batch get consecutive numbers.
LEMMA Ranks ==
    ASSUME NEW new \in SUBSET {1, 2}
    PROVE  LET rank(k) == Ids!Cardinality({l \in new : l <= k})
           IN  /\ Ids!Cardinality(new) \in 0 .. 2
               /\ \A k \in new : rank(k) \in {1, 2} /\ rank(k) <= Ids!Cardinality(new)
               /\ \A k, l \in new : rank(k) = rank(l) => k = l
<1> DEFINE rank(k) == Ids!Cardinality({l \in new : l <= k})
<1>1. Ids!Cardinality({}) = 0 /\ Ids!Cardinality({1}) = 1 /\ Ids!Cardinality({2}) = 1
  BY SameCount, FS_EmptySet, FS_Singleton
<1>2. Ids!Cardinality({1, 2}) = 2
  <2>1. IsFiniteSet({1}) /\ Cardinality({1}) = 1
    BY FS_Singleton
  <2>2. Cardinality({1} \cup {2}) = 2
    BY <2>1, FS_AddElement
  <2>3. {1, 2} = {1} \cup {2}
    OBVIOUS
  <2> QED
    BY <2>2, <2>3, SameCount
<1>3. new = {} \/ new = {1} \/ new = {2} \/ new = {1, 2}
  OBVIOUS
<1>4. CASE new = {}
  BY <1>1, <1>4
<1>5. CASE new = {1}
  <2>1. {l \in new : l <= 1} = {1}
    BY <1>5
  <2> QED
    BY <1>1, <1>5, <2>1
<1>6. CASE new = {2}
  <2>1. {l \in new : l <= 2} = {2}
    BY <1>6
  <2> QED
    BY <1>1, <1>6, <2>1
<1>7. CASE new = {1, 2}
  <2>1. {l \in new : l <= 1} = {1} /\ {l \in new : l <= 2} = {1, 2}
    BY <1>7
  <2> QED
    BY <1>1, <1>2, <1>7, <2>1
<1> QED
  BY <1>3, <1>4, <1>5, <1>6, <1>7

\* A batch arrives: its new messages are numbered, and a handler has them.
LEMMA UpsertKeeps ==
    ASSUME IdsCore, NEW c \in Rooms, NEW pack \in Ids!Batches(c), Ids!Upsert(c, pack)
    PROVE  IdsCore'
<1> DEFINE held(m) == {k \in DOMAIN byId : byId[k].msg = m}
           new     == {k \in DOMAIN pack : Kind[pack[k]] # "join" /\ held(pack[k]) = {}}
           count   == Ids!Cardinality(new)
           rank(k) == Ids!Cardinality({l \in new : l <= k})
           item(k) == IF k \in new THEN Ids!Numbered(c, rank(k), pack[k])
                      ELSE IF Kind[pack[k]] = "join"
                      THEN [msg |-> pack[k], id |-> 0, nth |-> 0]
                      ELSE byId[CHOOSE l \in held(pack[k]) : TRUE]
           job     == [k \in DOMAIN pack |-> item(k)]
           fresh   == {item(k) : k \in new}
<1>0. /\ IdsTypes /\ InStep /\ Allotted /\ OneMessage /\ Unlapped /\ AtHome
  BY DEF IdsCore
<1>1. /\ pack \in Seq(Ids!Messages) /\ Len(pack) \in {1, 2}
      /\ DOMAIN pack = 1 .. Len(pack) /\ DOMAIN pack \subseteq {1, 2}
      /\ \A k \in DOMAIN pack : pack[k] \in Ids!Messages
  <2> DEFINE here == {m \in Ids!Messages : ChatOf[m] = c}
  <2>1. pack \in {<<m>> : m \in here} \cup {p \in here \X here : p[1] # p[2]}
    BY DEF Ids!Batches
  <2>2. ASSUME NEW m \in Ids!Messages, pack = <<m>>
        PROVE  /\ pack \in Seq(Ids!Messages) /\ Len(pack) = 1 /\ DOMAIN pack = 1 .. 1
               /\ pack[1] = m
    BY <2>2
  <2>3. ASSUME NEW m \in Ids!Messages, NEW o \in Ids!Messages, pack = <<m, o>>
        PROVE  /\ pack \in Seq(Ids!Messages) /\ Len(pack) = 2 /\ DOMAIN pack = 1 .. 2
               /\ pack[1] = m /\ pack[2] = o
    BY <2>3
  <2>4. \/ \E m \in Ids!Messages : pack = <<m>>
        \/ \E m \in Ids!Messages, o \in Ids!Messages : pack = <<m, o>>
    BY <2>1
  <2>5. CASE \E m \in Ids!Messages : pack = <<m>>
    BY <2>2, <2>5
  <2>6. CASE \E m \in Ids!Messages, o \in Ids!Messages : pack = <<m, o>>
    BY <2>3, <2>6
  <2> QED
    BY <2>4, <2>5, <2>6
<1>2. /\ \A k \in DOMAIN pack : ChatOf[pack[k]] = c
      /\ Ids!Allot(c, count) /\ jobs' = jobs \cup {job}
      /\ UNCHANGED <<index, byId, inserted, sends, life, told>>
  BY DEF Ids!Upsert, Ids!maps, Ids!ask
<1>3. /\ count \in 0 .. 2
      /\ \A k \in new : rank(k) \in {1, 2} /\ rank(k) <= count
      /\ \A k, l \in new : rank(k) = rank(l) => k = l
  <2>1. new \in SUBSET {1, 2}
    BY <1>1
  <2> HIDE DEF new
  <2> QED
    BY <2>1, Ranks
<1>4. /\ counter' \in [Rooms -> 0 .. Modulus - 1] /\ allotted' \in [Rooms -> Nat]
      /\ InStep'
      /\ \A d \in Rooms : allotted[d] <= allotted'[d]
      /\ allotted'[c] = allotted[c] + count
      /\ \A k \in {1, 2} : \A m \in Ids!Messages :
            /\ Ids!Numbered(c, k, m) \in Ids!Item
            /\ Ids!Numbered(c, k, m).msg = m
            /\ Ids!Numbered(c, k, m).nth = allotted[c] + k - 1
            /\ Ids!Numbered(c, k, m).id = (allotted[c] + k - 1) % Modulus
  <2>1. Ids!Allot(c, count)
    BY <1>2
  <2> HIDE DEF count
  <2> QED
    BY <1>0, <1>3, <2>1, NumbersGiven
\* What the handler holds of each message.
<1>5. \A k \in new : /\ item(k) \in Ids!Item /\ Room(item(k)) = c /\ item(k).msg = pack[k]
                     /\ item(k).nth = allotted[c] + rank(k) - 1
                     /\ item(k).id = (allotted[c] + rank(k) - 1) % Modulus
  <2> SUFFICES ASSUME NEW k \in new
               PROVE  /\ item(k) \in Ids!Item /\ Room(item(k)) = c /\ item(k).msg = pack[k]
                      /\ item(k).nth = allotted[c] + rank(k) - 1
                      /\ item(k).id = (allotted[c] + rank(k) - 1) % Modulus
    OBVIOUS
  <2>1. k \in DOMAIN pack /\ pack[k] \in Ids!Messages /\ ChatOf[pack[k]] = c
    BY <1>1, <1>2
  <2>2. rank(k) \in {1, 2}
    BY <1>3
  <2>3. item(k) = Ids!Numbered(c, rank(k), pack[k])
    OBVIOUS
  <2> HIDE DEF rank, item, new
  <2> QED
    BY <1>4, <2>1, <2>2, <2>3 DEF Room
<1>6. \A k \in DOMAIN pack : k \notin new /\ Kind[pack[k]] = "join" =>
         item(k) \in Ids!Item /\ item(k).msg = pack[k]
  <2>1. 0 \in 0 .. Modulus - 1
    BY NumbersAssumption
  <2> QED
    BY <1>1, <2>1 DEF Ids!Item
<1>7. \A k \in DOMAIN pack : k \notin new /\ Kind[pack[k]] # "join" =>
         \E l \in 1 .. Len(byId) : item(k) = byId[l]
  <2> SUFFICES ASSUME NEW k \in DOMAIN pack, k \notin new, Kind[pack[k]] # "join"
               PROVE  \E l \in 1 .. Len(byId) : item(k) = byId[l]
    OBVIOUS
  <2>1. held(pack[k]) # {}
    OBVIOUS
  <2>2. (CHOOSE l \in held(pack[k]) : TRUE) \in held(pack[k])
    BY <2>1
  <2>3. DOMAIN byId = 1 .. Len(byId)
    BY <1>0 DEF IdsTypes
  <2>4. item(k) = byId[CHOOSE l \in held(pack[k]) : TRUE]
    OBVIOUS
  <2> QED
    BY <2>2, <2>3, <2>4
<1>8. \A l \in 1 .. Len(byId) : byId[l] \in Ids!Item
  BY <1>0 DEF IdsTypes
<1>9. \A k \in DOMAIN pack : item(k) \in Ids!Item
  <2> HIDE DEF item, new
  <2> QED
    BY <1>5, <1>6, <1>7, <1>8
<1>10. job \in Seq(Ids!Item) \ {<<>>} /\ Len(job) = Len(pack)
       /\ \A k \in 1 .. Len(job) : k \in DOMAIN pack /\ job[k] = item(k)
  <2> HIDE DEF item, new
  <2>1. job \in [1 .. Len(pack) -> Ids!Item] /\ Len(pack) \in Nat
    BY <1>1, <1>9
  <2>2. job \in Seq(Ids!Item) /\ Len(job) = Len(pack)
    BY <2>1
  <2>3. Len(job) # 0
    BY <1>1, <2>2
  <2>4. \A k \in 1 .. Len(job) : k \in DOMAIN pack /\ job[k] = item(k)
    BY <1>1, <2>2
  <2> HIDE DEF job
  <2>5. Len(<<>>) = 0
    OBVIOUS
  <2> QED
    BY <2>2, <2>3, <2>4, <2>5
<1>11. IdsTypes'
  <2> HIDE DEF job
  <2> QED
    BY <1>0, <1>2, <1>4, <1>10 DEF IdsTypes
<1>12. AtHome'
  BY <1>0, <1>2 DEF AtHome, Room
<1>13. \A x \in Ids!Item : Pending(x)' => Pending(x) \/ x \in fresh
  <2> SUFFICES ASSUME NEW x \in Ids!Item, Pending(x)' PROVE Pending(x) \/ x \in fresh
    OBVIOUS
  <2>1. CASE \E k \in 1 .. Len(byId') : byId'[k] = x
    BY <1>2, <2>1 DEF Pending
  <2>2. ASSUME Kind[x.msg] # "join", NEW h \in jobs', NEW k \in 1 .. Len(h), h[k] = x
        PROVE  Pending(x) \/ x \in fresh
    <3>1. CASE h \in jobs
      BY <2>2, <3>1 DEF Pending
    <3>2. CASE h = job
      <4>1. k \in DOMAIN pack /\ x = item(k)
        BY <1>10, <2>2, <3>2
      <4>2. CASE k \in new
        BY <4>1, <4>2
      <4>3. CASE k \notin new /\ Kind[pack[k]] = "join"
        <5> HIDE DEF item, new
        <5> QED
          BY <1>6, <2>2, <4>1, <4>3
      <4>4. CASE k \notin new /\ Kind[pack[k]] # "join"
        <5> HIDE DEF item, new
        <5> QED
          BY <1>7, <4>1, <4>4 DEF Pending
      <4> QED
        BY <4>2, <4>3, <4>4
    <3> HIDE DEF job
    <3> QED
      BY <1>2, <2>2, <3>1, <3>2
  <2>3. \/ \E k \in 1 .. Len(byId') : byId'[k] = x
        \/ Kind[x.msg] # "join" /\ \E h \in jobs' : \E k \in 1 .. Len(h) : h[k] = x
    BY DEF Pending
  <2> HIDE DEF fresh
  <2> QED
    BY <2>1, <2>2, <2>3
<1>14. \A q \in Place : Claimed(q)' => Claimed(q)
  BY <1>2 DEF Claimed
<1>15. \A x \in Ids!Item : Carried(x)' => Carried(x) \/ x \in fresh
  <2> HIDE DEF fresh
  <2> QED
    BY <1>2, <1>13, <1>14 DEF Carried
<1>16. fresh \in SUBSET Ids!Item
  <2> HIDE DEF item, new
  <2> QED
    BY <1>5
<1>17. \A x \in fresh : /\ Room(x) = c /\ x.id = x.nth % Modulus
                        /\ allotted[c] <= x.nth /\ x.nth < allotted'[c]
  <2> SUFFICES ASSUME NEW k \in new
               PROVE  /\ Room(item(k)) = c /\ item(k).id = item(k).nth % Modulus
                      /\ allotted[c] <= item(k).nth /\ item(k).nth < allotted'[c]
    OBVIOUS
  <2>1. rank(k) \in {1, 2} /\ rank(k) <= count /\ count \in 0 .. 2
    BY <1>3
  <2>2. allotted[c] \in Nat
    BY <1>0 DEF IdsTypes
  <2> HIDE DEF item, new, rank, count
  <2> QED
    BY <1>4, <1>5, <2>1, <2>2
<1>18. \A x, y \in fresh : x.nth = y.nth => x.msg = y.msg
  <2> SUFFICES ASSUME NEW k \in new, NEW l \in new, item(k).nth = item(l).nth
               PROVE  item(k).msg = item(l).msg
    OBVIOUS
  <2>1. rank(k) \in {1, 2} /\ rank(l) \in {1, 2} /\ (rank(k) = rank(l) => k = l)
    BY <1>3
  <2>2. allotted[c] \in Nat
    BY <1>0 DEF IdsTypes
  <2>3. /\ item(k).nth = allotted[c] + rank(k) - 1 /\ item(k).msg = pack[k]
        /\ item(l).nth = allotted[c] + rank(l) - 1 /\ item(l).msg = pack[l]
    <3> HIDE DEF item, new, rank
    <3> QED
      BY <1>5
  <2> HIDE DEF item, new, rank, count
  <2>4. \A x \in Nat : \A a, b \in {1, 2} : x + a - 1 = x + b - 1 => a = b
    OBVIOUS
  <2>5. allotted[c] + rank(k) - 1 = allotted[c] + rank(l) - 1
    BY <2>3
  <2>6. rank(k) = rank(l)
    BY ONLY <2>1, <2>2, <2>4, <2>5
  <2> QED
    BY <2>1, <2>3, <2>6
<1>19. Ids!Allot(c, count) /\ UNCHANGED <<index, inserted>>
  BY <1>2
<1> HIDE DEF fresh, count
<1>20. Allotted' /\ OneMessage'
  BY <1>0, <1>4, <1>11, <1>15, <1>16, <1>17, <1>18, NumbersKept
<1>21. Unlapped'
  BY <1>0, <1>3, <1>13, <1>16, <1>17, <1>19, AllotLapsNothing
<1>22. IndexAtHome' /\ InOrder' /\ OneEntry' /\ Meant' /\ KeysStay'
  BY <1>4, <1>11, <1>14, <1>19, IndexKept
<1> QED
  BY <1>4, <1>11, <1>12, <1>20, <1>21, <1>22 DEF IdsCore

\* A restart empties the maps, and what the bridge knows is of another life.
LEMMA RestartKeeps ==
    ASSUME IdsCore, Ids!Restart
    PROVE  IdsCore'
<1>0. IdsTypes /\ AtHome
  BY DEF IdsCore
<1>1. /\ life' = life + 1 /\ counter' = [c \in Rooms |-> 0] /\ allotted' = [c \in Rooms |-> 0]
      /\ index' = <<>> /\ byId' = <<>> /\ jobs' = {} /\ inserted' = 0 /\ told' = told
      /\ sends' = [s \in Sends |-> IF sends[s].at \in {"queued", "running"}
                                   THEN [sends[s] EXCEPT !.at = "failed"] ELSE sends[s]]
  BY DEF Ids!Restart
<1>2. /\ Modulus \in Nat \ {0} /\ IndexSize \in Nat \ {0} /\ life \in Nat /\ life' \in Nat
      /\ Len(<<>>) = 0 /\ \A k \in 1 .. Len(<<>>) : FALSE
  BY <1>0, <1>1, Rooms1, NumbersAssumption DEF IdsTypes
<1>3. \A s \in Sends : /\ sends'[s] \in Request /\ sends'[s].reply = sends[s].reply
                       /\ sends'[s].ids = sends[s].ids
                       /\ sends'[s].at \notin {"queued", "running"}
                       /\ sends'[s].at = "idle" => sends[s].at = "idle"
  <2> SUFFICES ASSUME NEW s \in Sends
               PROVE  /\ sends'[s] \in Request /\ sends'[s].reply = sends[s].reply
                      /\ sends'[s].ids = sends[s].ids
                      /\ sends'[s].at \notin {"queued", "running"}
                      /\ sends'[s].at = "idle" => sends[s].at = "idle"
    OBVIOUS
  <2>1. sends[s] \in Request
    BY <1>0 DEF IdsTypes
  <2>2. sends'[s] = IF sends[s].at \in {"queued", "running"}
                    THEN [sends[s] EXCEPT !.at = "failed"] ELSE sends[s]
    BY <1>1
  <2> QED
    BY <2>1, <2>2 DEF Request
<1>4. IdsTypes'
  <2>1. sends' \in [Sends -> Request]
    BY <1>1, <1>3
  <2>2. 0 \in 0 .. Modulus - 1 /\ 0 <= IndexSize /\ 0 <= 2 * IndexSize
    BY <1>2
  <2>3. <<>> \in Seq(Entry) /\ <<>> \in Seq(Ids!Item)
    OBVIOUS
  <2>4. counter' \in [Rooms -> 0 .. Modulus - 1] /\ allotted' \in [Rooms -> Nat]
    BY <1>1, <2>2
  <2>5. told' \in [Rooms -> SUBSET ToldItem]
    BY <1>0, <1>1 DEF IdsTypes
  <2> QED
    BY <1>1, <1>2, <2>1, <2>2, <2>3, <2>4, <2>5 DEF IdsTypes
<1>5. AtHome'
  <2>1. \A d \in Rooms : \A t \in told[d] : t.life \in Nat /\ t.life <= life /\ Room(t) = d
    BY <1>0 DEF AtHome, IdsTypes, ToldItem
  <2>2. \A d \in Rooms : \A t \in told'[d] : t.life <= life' /\ Room(t) = d
    BY <1>1, <1>2, <2>1
  <2>3. \A s \in Sends : /\ sends'[s].reply \in told'[ChatOf[s]] \cup {None}
                         /\ sends'[s].at \in {"idle", "queued"} => sends'[s].ids = <<>>
    BY <1>0, <1>1, <1>3 DEF AtHome
  <2> QED
    BY <1>3, <2>2, <2>3 DEF AtHome, Room
<1>6. \A p \in Place : ~Claimed(p)'
  <2> SUFFICES ASSUME NEW p \in Place, Claimed(p)' PROVE FALSE
    OBVIOUS
  <2>1. \/ \E d \in Rooms : \E t \in told'[d] : t.life = life'
        \/ \E r \in Sends : sends'[r].at = "running"
    BY DEF Claimed
  <2>2. \A d \in Rooms : \A t \in told'[d] : t.life \in Nat /\ t.life <= life
    BY <1>0, <1>1 DEF AtHome, IdsTypes, ToldItem
  <2> QED
    BY <1>1, <1>2, <1>3, <2>1, <2>2
<1>7. \A x : ~Pending(x)'
  BY <1>1, <1>2 DEF Pending
<1>8. \A x \in Ids!Item : ~Carried(x)'
  BY <1>1, <1>2, <1>6, <1>7 DEF Carried
<1>9. InStep'
  <2>1. 0 = Modulus * 0 + 0 /\ 0 \in 0 .. Modulus - 1
    BY <1>2
  <2>2. 0 % Modulus = 0
    BY <1>2, <2>1, ModUnique
  <2> QED
    BY <1>1, <2>2 DEF InStep
<1>10. Allotted' /\ OneMessage' /\ Unlapped'
  BY <1>7, <1>8 DEF Allotted, OneMessage, Unlapped
<1>11. IndexAtHome' /\ InOrder' /\ OneEntry'
  BY <1>1, <1>2 DEF IndexAtHome, InOrder, OneEntry
<1>12. Meant' /\ KeysStay'
  BY <1>6 DEF Meant, KeysStay
<1> QED
  BY <1>4, <1>5, <1>9, <1>10, <1>11, <1>12 DEF IdsCore

\* What the bridge was told in this life is claimed.
LEMMA ToldIsClaimed ==
    ASSUME IdsCore, NEW c \in Rooms, NEW t \in told[c], t.life = life
    PROVE  /\ t \in ToldItem /\ PlaceOf(t) \in Place /\ Claimed(PlaceOf(t))
           /\ Room(PlaceOf(t)) = c
           /\ PlaceOf(t).msg = t.msg /\ PlaceOf(t).id = t.id
           /\ PlaceOf(t).nth = t.nth /\ PlaceOf(t).at = t.at
<1>1. t \in ToldItem /\ Room(t) = c
  BY DEF IdsCore, IdsTypes, AtHome
<1>2. Claimed(PlaceOf(t))
  BY DEF Claimed
<1> QED
  BY <1>1, <1>2, Projected

\* A number that was told and has not been lapped finds its message or nothing.
LEMMA LookupFinds ==
    ASSUME IdsCore, NEW c \in Rooms, NEW t \in told[c], Ids!Recent(c, t)
    PROVE  \A e \in Ids!EntriesOf(c, t.id) : e.msg = t.msg
<1>1. t.life = life /\ allotted[c] <= t.nth + Modulus
  BY DEF Ids!Recent
<1>2. /\ PlaceOf(t) \in Place /\ Claimed(PlaceOf(t)) /\ Room(PlaceOf(t)) = c
      /\ PlaceOf(t).msg = t.msg /\ PlaceOf(t).id = t.id /\ PlaceOf(t).nth = t.nth
  BY <1>1, ToldIsClaimed
<1>3. \A k \in 1 .. Len(index) : index[k].chat = c /\ index[k].id = t.id => index[k].msg = t.msg
  BY <1>1, <1>2 DEF IdsCore, Meant
<1>4. DOMAIN index = 1 .. Len(index)
  BY DEF IdsCore, IdsTypes
<1> QED
  BY <1>3, <1>4 DEF Ids!EntriesOf, Ids!KeyedBy

LEMMA ReachMeant ==
    ASSUME IdsCore, NEW c \in Rooms, NEW t \in told[c], Ids!EntriesOf(c, t.id) # {},
           aimed' = Ids!Meant(c, t, Ids!Lookup(c, t.id))
    PROVE  ActsOnTheMeant'
<1> SUFFICES ASSUME aimed'.recent PROVE aimed'.hit = aimed'.meant
  BY DEF ActsOnTheMeant, Ids!ActsOnTheMeant
<1>1. /\ aimed'.recent = Ids!Recent(c, t) /\ aimed'.meant = t.msg
      /\ aimed'.hit = Ids!Lookup(c, t.id)
  BY DEF Ids!Meant
<1>2. \A e \in Ids!EntriesOf(c, t.id) : e.msg = t.msg
  BY <1>1, LookupFinds
<1>3. Ids!Lookup(c, t.id) = t.msg
  BY <1>2 DEF Ids!Lookup
<1> QED
  BY <1>1, <1>3

LEMMA IdsInvInit ==
    ASSUME Ids!Init
    PROVE  IdsInv
<1>1. /\ life = 1 /\ counter = [c \in Rooms |-> 0] /\ allotted = [c \in Rooms |-> 0]
      /\ index = <<>> /\ byId = <<>> /\ jobs = {} /\ inserted = 0
      /\ told = [c \in Rooms |-> {}] /\ aimed = None
      /\ sends = [s \in Sends |-> [at |-> "idle", reply |-> None, ids |-> <<>>]]
  BY DEF Ids!Init, Ids!Idle
<1>2. /\ Modulus \in Nat \ {0} /\ IndexSize \in Nat \ {0}
      /\ Len(<<>>) = 0 /\ \A k \in 1 .. Len(<<>>) : FALSE
  BY Rooms1, NumbersAssumption
<1>3. IdsTypes
  <2>1. sends \in [Sends -> Request]
    <3>1. [at |-> "idle", reply |-> None, ids |-> <<>>] \in Request
      BY DEF Request
    <3> QED
      BY <1>1, <3>1
  <2>2. 0 \in 0 .. Modulus - 1 /\ 0 <= IndexSize /\ 0 <= 2 * IndexSize
    BY <1>2
  <2>3. <<>> \in Seq(Entry) /\ <<>> \in Seq(Ids!Item)
    OBVIOUS
  <2>4. counter \in [Rooms -> 0 .. Modulus - 1] /\ allotted \in [Rooms -> Nat]
    BY <1>1, <2>2
  <2>5. told \in [Rooms -> SUBSET ToldItem]
    BY <1>1
  <2> QED
    BY <1>1, <1>2, <2>1, <2>2, <2>3, <2>4, <2>5 DEF IdsTypes
<1>4. AtHome
  BY <1>1, Rooms1 DEF AtHome
<1>5. \A p \in Place : ~Claimed(p)
  BY <1>1 DEF Claimed
<1>6. \A x : ~Pending(x)
  BY <1>1, <1>2 DEF Pending
<1>7. \A x \in Ids!Item : ~Carried(x)
  BY <1>1, <1>2, <1>5, <1>6 DEF Carried
<1>8. InStep
  <2>1. 0 = Modulus * 0 + 0 /\ 0 \in 0 .. Modulus - 1
    BY <1>2
  <2>2. 0 % Modulus = 0
    BY <1>2, <2>1, ModUnique
  <2> QED
    BY <1>1, <2>2 DEF InStep
<1>9. Allotted /\ OneMessage /\ Unlapped
  BY <1>6, <1>7 DEF Allotted, OneMessage, Unlapped
<1>10. IndexAtHome /\ InOrder /\ OneEntry
  BY <1>1, <1>2 DEF IndexAtHome, InOrder, OneEntry
<1>11. Meant /\ KeysStay
  BY <1>5 DEF Meant, KeysStay
<1>12. ActsOnTheMeant
  BY <1>1 DEF ActsOnTheMeant, Ids!ActsOnTheMeant
<1> QED
  BY <1>3, <1>4, <1>8, <1>9, <1>10, <1>11, <1>12 DEF IdsInv, IdsCore

LEMMA IdsInvStep ==
    ASSUME IdsInv, [Ids!Next]_idsVars
    PROVE  IdsInv'
<1>0. IdsCore /\ IdsTypes
  BY DEF IdsInv, IdsCore
<1>1. CASE Ids!Numbering /\ aimed' = None
  <2>1. ActsOnTheMeant'
    BY <1>1 DEF ActsOnTheMeant, Ids!ActsOnTheMeant
  <2>2. IdsCore'
    <3>1. ASSUME NEW c \in Rooms, NEW b \in Ids!Batches(c), Ids!Upsert(c, b) PROVE IdsCore'
      BY <1>0, <3>1, UpsertKeeps
    <3>2. ASSUME NEW j \in jobs,
                 Ids!Forward(j) \/ Ids!KeepUnread(j) \/ Ids!Skip(j) \/ Ids!Joined(j)
          PROVE  IdsCore'
      BY <1>0, <3>2, ForwardKeeps, KeepUnreadKeeps, SkipKeeps, JoinedKeeps
    <3>3. ASSUME NEW s \in Sends, NEW t \in told[ChatOf[s]] \cup {None}, Ids!Request(s, t)
          PROVE  IdsCore'
      BY <1>0, <3>3, RequestKeeps
    <3>4. ASSUME NEW s \in Sends, Ids!Fails(s) \/ Ids!Sent(s) \/ Ids!SentLoose(s)
          PROVE  IdsCore'
      BY <1>0, <3>4, FailsKeeps, SentKeeps, SentLooseKeeps
    <3>5. CASE Ids!Restart
      BY <1>0, <3>5, RestartKeeps
    <3> QED
      BY <1>1, <3>1, <3>2, <3>3, <3>4, <3>5 DEF Ids!Numbering
  <2> QED
    BY <2>1, <2>2 DEF IdsInv
<1>2. ASSUME NEW s \in Sends, Ids!Start(s) \/ Ids!StartLoose(s)
      PROVE  IdsInv'
  <2>1. sends[s].at = "queued" /\ Ids!Quotes(s)
    BY <1>2 DEF Ids!Start, Ids!StartLoose
  <2>2. IdsCore'
    BY <1>0, <2>1, QuotesKeeps
  <2>3. ActsOnTheMeant'
    <3>1. CASE Ids!Target(s) = None
      BY <2>1, <3>1 DEF Ids!Quotes, ActsOnTheMeant, Ids!ActsOnTheMeant
    <3>2. CASE Ids!Target(s) # None
      <4>1. /\ sends[s].reply # None
            /\ Ids!Target(s) = Ids!Lookup(ChatOf[s], sends[s].reply.id)
        BY <3>2 DEF Ids!Target
      <4>2. ChatOf[s] \in Rooms /\ sends[s].reply \in told[ChatOf[s]]
        BY <1>0, <4>1, Rooms1 DEF IdsCore, AtHome
      <4>3. Ids!EntriesOf(ChatOf[s], sends[s].reply.id) # {}
        BY <3>2, <4>1 DEF Ids!Lookup
      <4>4. aimed' = Ids!Meant(ChatOf[s], sends[s].reply,
                               Ids!Lookup(ChatOf[s], sends[s].reply.id))
        BY <2>1, <3>2, <4>1 DEF Ids!Quotes
      <4> QED
        BY <1>0, <4>2, <4>3, <4>4, ReachMeant
    <3> QED
      BY <3>1, <3>2
  <2> QED
    BY <2>2, <2>3 DEF IdsInv
<1>3. ASSUME NEW c \in Rooms, NEW t \in told[c], Ids!Reach(c, t)
      PROVE  IdsInv'
  <2>1. Ids!EntriesOf(c, t.id) # {}
    BY <1>3 DEF Ids!Reach, Ids!Lookup
  <2>2. ActsOnTheMeant'
    <3>1. aimed' = Ids!Meant(c, t, Ids!Lookup(c, t.id))
      BY <1>3 DEF Ids!Reach
    <3> QED
      BY <1>0, <2>1, <3>1, ReachMeant
  <2>3. UNCHANGED <<counter, index, byId, inserted, jobs, sends, allotted, life, told>>
    BY <1>3 DEF Ids!Reach, Ids!maps
  <2>4. IdsTypes' /\ AtHome'
    BY <1>0, <2>3 DEF IdsCore, IdsTypes, AtHome, Room
  <2>5. \A x \in Ids!Item : Pending(x)' => Pending(x)
    BY <2>3 DEF Pending
  <2>6. \A p \in Place : Claimed(p)' => Claimed(p)
    BY <2>3 DEF Claimed
  <2>7. IdsCore'
    BY <1>0, <2>3, <2>4, <2>5, <2>6, QuietKeeps
  <2> QED
    BY <2>2, <2>7 DEF IdsInv
<1>4. CASE UNCHANGED idsVars
  <2>1. UNCHANGED <<counter, index, byId, inserted, jobs, sends, allotted, life, told, aimed>>
    BY <1>4 DEF idsVars
  <2>2. IdsTypes' /\ AtHome'
    BY <1>0, <2>1 DEF IdsCore, IdsTypes, AtHome, Room
  <2>3. \A x \in Ids!Item : Pending(x)' => Pending(x)
    BY <2>1 DEF Pending
  <2>4. \A p \in Place : Claimed(p)' => Claimed(p)
    BY <2>1 DEF Claimed
  <2>5. IdsCore'
    BY <1>0, <2>1, <2>2, <2>3, <2>4, QuietKeeps
  <2>6. ActsOnTheMeant'
    BY <2>1 DEF IdsInv, ActsOnTheMeant, Ids!ActsOnTheMeant
  <2> QED
    BY <2>5, <2>6 DEF IdsInv
<1> QED
  BY <1>1, <1>2, <1>3, <1>4
     DEF Ids!Next, Ids!React, Ids!Delete, Ids!Anchor, Ids!Download

LEMMA InOrderActionable ==
    ASSUME IdsInv
    PROVE  StillActionable
<1> SUFFICES ASSUME NEW c \in Rooms, NEW t \in told[c], t.life = life,
                    inserted - t.at < IndexSize, allotted[c] <= Modulus
             PROVE  Ids!Lookup(c, t.id) = t.msg
  BY DEF StillActionable, Ids!StillActionable
<1>0. IdsCore /\ IdsTypes
  BY DEF IdsInv, IdsCore
<1>1. /\ t \in ToldItem /\ PlaceOf(t) \in Place /\ Claimed(PlaceOf(t)) /\ Room(PlaceOf(t)) = c
      /\ PlaceOf(t).id = t.id /\ PlaceOf(t).nth = t.nth /\ PlaceOf(t).at = t.at
  BY <1>0, ToldIsClaimed
<1>2. t.nth \in Nat /\ t.at \in 1 .. inserted
  BY <1>0, <1>1 DEF ToldItem, IdsCore, KeysStay
<1> DEFINE n == Len(index)  k == t.at - inserted + n
<1>3. k \in 1 .. n
  <2>1. /\ n \in Nat /\ inserted \in Nat /\ IndexSize \in Nat
        /\ (n = IndexSize \/ n = inserted)
    BY <1>0, NumbersAssumption DEF IdsCore, IdsTypes, InOrder
  <2>2. inserted - t.at < IndexSize
    OBVIOUS
  <2>3. t.at \in Nat /\ 1 <= t.at /\ t.at <= inserted
    BY <1>2, <2>1
  <2>4. t.at - inserted + n \in 1 .. n
    <3> HIDE DEF n
    <3> QED
      BY ONLY <2>1, <2>2, <2>3
  <2> QED
    BY <2>4
<1>4. index[k].at = t.at
  <2>1. index[k].at = inserted - n + k
    BY <1>0, <1>3 DEF IdsCore, InOrder
  <2>2. n \in Nat /\ inserted \in Nat /\ t.at \in Nat
    BY <1>0, <1>2 DEF IdsTypes
  <2>3. inserted - n + (t.at - inserted + n) = t.at
    <3> HIDE DEF n
    <3> QED
      BY ONLY <2>2
  <2> QED
    BY <2>1, <2>3
<1> HIDE DEF k
<1>5. index[k].chat = c /\ index[k].id = t.id
  BY <1>0, <1>1, <1>3, <1>4 DEF IdsCore, KeysStay
<1>6. index[k] \in Ids!EntriesOf(c, t.id)
  <2>1. DOMAIN index = 1 .. n
    BY <1>0 DEF IdsTypes
  <2> QED
    BY <1>3, <1>5, <2>1 DEF Ids!EntriesOf, Ids!KeyedBy
<1>7. Ids!Recent(c, t)
  <2>1. allotted[c] \in Nat /\ Modulus \in Nat
    BY <1>0, Rooms1 DEF IdsTypes
  <2> QED
    BY <1>2, <2>1 DEF Ids!Recent
<1>8. \A e \in Ids!EntriesOf(c, t.id) : e.msg = t.msg
  BY <1>0, <1>7, LookupFinds
<1> QED
  BY <1>6, <1>8 DEF Ids!Lookup

\* An action the bridge aims at a number it was told in this life of the
\* gateway, and that has not come round since, reaches the message it was told
\* for (rememberMessage and getIndexedMessageByContextId of identifiers.ts).
THEOREM ActsOnTheMeantAlways == GatewaySpec => []ActsOnTheMeant
<1>1. GatewayInit => IdsInv
  BY PartInits, IdsInvInit
<1>2. IdsInv /\ [GatewayNext]_allVars => IdsInv'
  BY PartSteps, IdsInvStep
<1>3. IdsInv => ActsOnTheMeant
  BY DEF IdsInv
<1> QED
  BY <1>1, <1>2, <1>3, PTL DEF GatewaySpec

\* What the bridge was told is found by its number until the index has taken in
\* IndexSize messages more, as long as the numbers of the chat have not come
\* round (cacheSetBounded and rememberMessageKeyIndex of identifiers.ts).
THEOREM StillActionableAlways == GatewaySpec => []StillActionable
<1>1. GatewayInit => IdsInv
  BY PartInits, IdsInvInit
<1>2. IdsInv /\ [GatewayNext]_allVars => IdsInv'
  BY PartSteps, IdsInvStep
<1>3. IdsInv => StillActionable
  BY InOrderActionable
<1> QED
  BY <1>1, <1>2, <1>3, PTL DEF GatewaySpec

-----------------------------------------------------------------------------
(* Roles in a group.                                                        *)

RoleMap  == [Members \cup {Bot} -> {"out", "member", "admin"}]
ARequest  == [do : {"kick", "command", "run", "button", "name", "join"},
             of : Members \cup {Bot}]
Snapshot == [roles : RoleMap, seen : 0 .. MaxRoleChanges, late : BOOLEAN,
             age : {"fresh", "expired"}]
AFetch   == [id : 1 .. 3, seen : 0 .. MaxRoleChanges \cup {None},
             roles : RoleMap \cup {None}, late : BOOLEAN, asking : SUBSET ARequest]
Notice   == [nth : 0 .. MaxRoleChanges, joins : BOOLEAN]

GroupTypes ==
    /\ roles \in RoleMap
    /\ changes \in 0 .. MaxRoleChanges /\ handled \in 0 .. MaxRoleChanges
    /\ notices \in Seq(Notice)
    /\ metadata \in Snapshot \cup {None}
    /\ cooling \in BOOLEAN
    /\ fetches \in SUBSET AFetch
    /\ miss \subseteq Nameless
    /\ failures \in Nat
    /\ lookups \in [Nameless -> Nat]

\* What is told as news of has happened.
OldNews ==
    /\ handled <= changes
    /\ \A k \in 1 .. Len(notices) : notices[k].nth <= changes

\* What is cached or was read holds the news, or was under way when it came.
Informed(s) == s.seen >= handled \/ s.late
Snapshots ==
    /\ metadata # None => Informed(metadata)
    /\ \A f \in fetches : f.seen # None => Informed(f) /\ f.roles \in RoleMap

\* One fetch at a time, none during a cooldown, and a cooldown per failure.
OneFetch ==
    /\ inflight = 0 => fetches = {}
    /\ inflight # 0 => \E f \in AFetch : fetches = {f} /\ f.id = inflight
    /\ cooling => fetches = {}
    /\ ~cooling => failures = 0
    /\ failures <= 1

\* Who was looked up is waited for, or remembered not to be found.
NoAnswer(p) == p \in miss \/ \E f \in fetches : Group!Name(p) \in f.asking
LookedUp == \A p \in Nameless : lookups[p] <= 1 /\ (lookups[p] = 1 => NoAnswer(p))

GroupInv == GroupTypes /\ OldNews /\ Snapshots /\ OneFetch /\ LookedUp /\ JudgedByTheNews

LEMMA NoSnapshot == None \notin Snapshot /\ None \notin 0 .. MaxRoleChanges
BY RolesAssumption DEF Snapshot, RoleMap

LEMMA Requests ==
    /\ \A p \in Members : /\ Group!Kick(p) \in ARequest /\ Group!Command(p) \in ARequest
                          /\ Group!Name(p) \in ARequest
                          /\ [do |-> "button", of |-> p] \in ARequest
    /\ Group!RunCommand \in ARequest /\ Group!Join \in ARequest
BY DEF Group!Kick, Group!Command, Group!Name, Group!RunCommand, Group!Join, ARequest

\* Nobody is let through by the snapshot that knows nobody.
LEMMA DefaultRefuses ==
    ASSUME NEW q \in ARequest
    PROVE  ~Group!LetThrough(q, Group!Default)
BY DEF ARequest, Group!LetThrough, Group!KickAllowed, Group!SenderIsAdmin,
       Group!Default, Group!Jids

\* A decision by a snapshot that is informed, or refuses everything.
LEMMA DecideJudges ==
    ASSUME NEW qs \in SUBSET ARequest, NEW g, Group!Decide(qs, g), handled' = handled,
           Informed(g) \/ \A q \in qs : ~Group!LetThrough(q, g)
    PROVE  JudgedByTheNews'
<1>1. \A x \in judged' : \E q \in qs : Group!LetThrough(q, g) /\ x.seen = g.seen /\ x.late = g.late
  BY DEF Group!Decide
<1>2. \A x \in judged' : x.seen >= handled \/ x.late
  BY <1>1 DEF Informed
<1> QED
  BY <1>2 DEF JudgedByTheNews, Group!JudgedByTheNews

LEMMA FreshestJudges ==
    ASSUME GroupInv, NEW qs \in SUBSET ARequest, Group!Decide(qs, Group!Freshest), handled' = handled
    PROVE  JudgedByTheNews'
<1>1. CASE Group!Fresh
  <2>1. Group!Freshest = Group!Cached /\ Informed(Group!Cached)
    BY <1>1 DEF GroupInv, Snapshots, Group!Fresh, Group!Freshest, Group!Cached, Informed
  <2> QED
    BY <2>1, DecideJudges
<1>2. CASE ~Group!Fresh
  <2>1. Group!Freshest = Group!Default
    BY <1>2 DEF Group!Freshest
  <2>2. \A q \in qs : ~Group!LetThrough(q, Group!Freshest)
    BY <2>1, DefaultRefuses
  <2> QED
    BY <2>2, DecideJudges
<1> QED
  BY <1>1, <1>2

LEMMA DecideMisses ==
    ASSUME NEW qs \in SUBSET ARequest, NEW g, Group!Decide(qs, g), miss \subseteq Nameless
    PROVE  /\ miss' \subseteq Nameless /\ miss \subseteq miss'
           /\ \A p \in Nameless : Group!Name(p) \in qs => p \in miss'
<1>1. miss' = miss \cup {q.of : q \in {q \in qs : q.do = "name" /\ q.of \in Nameless}}
  BY DEF Group!Decide
<1>2. \A p \in Nameless : Group!Name(p).do = "name" /\ Group!Name(p).of = p
  BY DEF Group!Name
<1>3. \A p \in Nameless : Group!Name(p) \in qs => p \in miss'
  BY <1>1, <1>2
<1> QED
  BY <1>1, <1>3

\* Dropping what is cached, or keeping it, leaves the snapshots informed.
LEMMA CacheStays ==
    ASSUME GroupInv, metadata' = metadata \/ metadata' = None, handled' = handled
    PROVE  metadata' \in Snapshot \cup {None} /\ (metadata' # None => Informed(metadata)')
BY DEF GroupInv, GroupTypes, Snapshots, Informed

\* The fetch under way, with more who ask for it or news that came late.
LEMMA FetchGrows ==
    ASSUME GroupInv, NEW f \in AFetch, fetches = {f}, NEW g \in AFetch, fetches' = {g},
           g.id = f.id, f.asking \subseteq g.asking, miss' = miss,
           UNCHANGED <<inflight, cooling, failures, lookups>>
    PROVE  OneFetch' /\ LookedUp'
<1>1. OneFetch'
  BY DEF GroupInv, OneFetch
<1>2. \A p \in Nameless : NoAnswer(p) => NoAnswer(p)'
  BY DEF NoAnswer
<1> QED
  BY <1>1, <1>2 DEF GroupInv, LookedUp

LEMMA NoFetch == GroupInv /\ inflight = 0 => fetches = {}
BY DEF GroupInv, OneFetch

LEMMA TheFetch ==
    GroupInv /\ inflight # 0 => \E f \in AFetch : fetches = {f} /\ f.id = inflight
BY DEF GroupInv, OneFetch

\* A new fetch, when there is none.
LEMMA FirstFetch ==
    ASSUME NEW q \in ARequest, fetches = {}
    PROVE  LET f == Group!NewFetch(q)
           IN  f \in AFetch /\ f.id \in 1 .. 3 /\ f.seen = None /\ f.asking = {q}
<1> DEFINE n == CHOOSE n \in 1 .. 3 : \A f \in fetches : f.id # n
<1>1. n \in 1 .. 3
  <2>1. \E k \in 1 .. 3 : \A f \in fetches : f.id # k
    <3>1. 1 \in 1 .. 3
      OBVIOUS
    <3> QED
      BY <3>1
  <2> QED
    BY <2>1
<1>2. Group!NewFetch(q) = [id |-> n, seen |-> None, roles |-> None, late |-> FALSE, asking |-> {q}]
  BY DEF Group!NewFetch
<1> HIDE DEF n
<1> QED
  BY <1>1, <1>2 DEF AFetch

\* A look-up asks for somebody of whom no answer is known.
Fitting(q) == q.do = "name" => q.of \in Nameless /\ ~NoAnswer(q.of)

LEMMA AskKeeps ==
    ASSUME GroupInv, NEW q \in ARequest, NEW force, Group!Ask(q, force), Fitting(q),
           metadata' = metadata \/ metadata' = None,
           UNCHANGED <<roles, changes, notices, handled, cooling, failures>>
    PROVE  GroupInv'
<1>1. metadata' \in Snapshot \cup {None} /\ (metadata' # None => Informed(metadata)')
  BY CacheStays
<1>2. OldNews'
  BY DEF GroupInv, OldNews
<1>3. CASE cooling
  <2>1. Group!Decide({q}, Group!Freshest) /\ UNCHANGED <<fetches, inflight, lookups>>
    BY <1>3 DEF Group!Ask
  <2>2. JudgedByTheNews'
    BY <2>1, FreshestJudges
  <2>3. miss' \subseteq Nameless /\ miss \subseteq miss'
    BY <2>1, DecideMisses DEF GroupInv, GroupTypes
  <2>4. Snapshots' /\ OneFetch'
    BY <1>1, <2>1 DEF GroupInv, Snapshots, OneFetch, Informed
  <2>5. LookedUp'
    BY <2>1, <2>3 DEF GroupInv, LookedUp, NoAnswer
  <2>6. GroupTypes'
    BY <1>1, <2>1, <2>3 DEF GroupInv, GroupTypes
  <2> QED
    BY <1>2, <2>2, <2>4, <2>5, <2>6 DEF GroupInv
<1>4. CASE ~cooling
  <2>1. Group!Wait /\ IF inflight # 0 THEN Group!JoinFetch(q) ELSE Group!Begin(q)
    BY <1>4 DEF Group!Ask
  <2>2. judged' = {} /\ miss' = miss
    BY <2>1 DEF Group!Wait
  <2>3. JudgedByTheNews'
    BY <2>2 DEF JudgedByTheNews, Group!JudgedByTheNews
  <2>4. CASE inflight # 0
    <3>1. PICK f \in AFetch : fetches = {f} /\ f.id = inflight
      BY <2>4, TheFetch
    <3> DEFINE g == [f EXCEPT !.asking = @ \cup {q}]
    <3>2. /\ g \in AFetch /\ g.id = f.id /\ g.seen = f.seen /\ g.late = f.late
          /\ g.roles = f.roles /\ f.asking \subseteq g.asking
      BY DEF AFetch
    <3>3. fetches' = {g} /\ UNCHANGED <<inflight, lookups>>
      BY <2>1, <2>4, <3>1 DEF Group!JoinFetch
    <3> HIDE DEF g
    <3>4. OneFetch' /\ LookedUp'
      BY <2>2, <3>1, <3>2, <3>3, FetchGrows
    <3>5. Snapshots'
      BY <1>1, <3>1, <3>2, <3>3 DEF GroupInv, Snapshots, Informed
    <3>6. GroupTypes'
      BY <1>1, <2>2, <3>2, <3>3 DEF GroupInv, GroupTypes
    <3> QED
      BY <1>2, <2>3, <3>4, <3>5, <3>6 DEF GroupInv
  <2>5. CASE inflight = 0
    <3> DEFINE f == Group!NewFetch(q)
    <3>1. fetches = {}
      BY <2>5, NoFetch
    <3>2. f \in AFetch /\ f.id \in 1 .. 3 /\ f.seen = None /\ f.asking = {q}
      BY <3>1, FirstFetch
    <3>3. /\ fetches' = {f} /\ inflight' = f.id
          /\ lookups' = IF q.do = "name" THEN [lookups EXCEPT ![q.of] = @ + 1] ELSE lookups
      BY <2>1, <2>5, <3>1 DEF Group!Begin
    <3> HIDE DEF f
    <3>4. OneFetch'
      <4>1. inflight' # 0 /\ cooling' = FALSE /\ failures' = failures
        BY <1>4, <3>2, <3>3 DEF GroupInv, GroupTypes
      <4> QED
        BY <4>1, <1>4, <3>2, <3>3 DEF GroupInv, OneFetch
    <3>5. Snapshots'
      BY <1>1, <3>2, <3>3 DEF GroupInv, Snapshots, Informed
    <3>6. GroupTypes'
      BY <1>1, <2>2, <3>2, <3>3 DEF GroupInv, GroupTypes, Fitting
    <3>7. LookedUp'
      <4> SUFFICES ASSUME NEW p \in Nameless
                   PROVE  lookups'[p] <= 1 /\ (lookups'[p] = 1 => NoAnswer(p)')
        BY DEF LookedUp
      <4>1. lookups[p] \in Nat /\ lookups[p] <= 1 /\ (lookups[p] = 1 => p \in miss)
        BY <3>1 DEF GroupInv, GroupTypes, LookedUp, NoAnswer
      <4>2. CASE q.do = "name" /\ q.of = p
        <5>1. ~NoAnswer(p)
          BY <4>2 DEF Fitting
        <5>2. lookups[p] = 0 /\ lookups'[p] = 1
          BY <4>1, <4>2, <5>1, <3>3 DEF NoAnswer, GroupInv, GroupTypes
        <5>3. q = Group!Name(p)
          BY <4>2 DEF ARequest, Group!Name
        <5> QED
          BY <5>2, <5>3, <3>2, <3>3 DEF NoAnswer
      <4>3. CASE ~(q.do = "name" /\ q.of = p)
        <5>1. lookups'[p] = lookups[p]
          BY <4>3, <3>3 DEF GroupInv, GroupTypes
        <5> QED
          BY <4>1, <5>1, <2>2 DEF NoAnswer
      <4> QED
        BY <4>2, <4>3
    <3> QED
      BY <1>2, <2>3, <3>4, <3>5, <3>6, <3>7 DEF GroupInv
  <2> QED
    BY <2>4, <2>5
<1> QED
  BY <1>3, <1>4

\* What a handler that asks leaves alone besides.
LEMMA Answered ==
    ASSUME GroupInv, NEW qs \in SUBSET ARequest, Group!Decide(qs, Group!Freshest),
           metadata' = metadata \/ metadata' = None,
           UNCHANGED <<roles, changes, notices, handled, cooling, failures, fetches,
                       inflight, lookups>>
    PROVE  GroupInv'
<1>1. metadata' \in Snapshot \cup {None} /\ (metadata' # None => Informed(metadata)')
  BY CacheStays
<1>2. JudgedByTheNews'
  BY FreshestJudges
<1>3. miss' \subseteq Nameless /\ miss \subseteq miss'
  BY DecideMisses DEF GroupInv, GroupTypes
<1>4. Snapshots' /\ OneFetch' /\ OldNews'
  BY <1>1 DEF GroupInv, Snapshots, OneFetch, Informed, OldNews
<1>5. LookedUp'
  BY <1>3 DEF GroupInv, LookedUp, NoAnswer
<1>6. GroupTypes'
  BY <1>1, <1>3 DEF GroupInv, GroupTypes
<1> QED
  BY <1>2, <1>4, <1>5, <1>6 DEF GroupInv

LEMMA DropOldDrops == Group!DropOld => metadata' = metadata \/ metadata' = None
BY DEF Group!DropOld

LEMMA AskCachedKeeps ==
    ASSUME GroupInv, NEW q \in ARequest, q.do # "name", Group!AskCached(q)
    PROVE  GroupInv'
<1>1. /\ metadata' = metadata \/ metadata' = None
      /\ UNCHANGED <<roles, changes, notices, handled, cooling, failures>>
  BY DropOldDrops DEF Group!AskCached, Group!world
<1>2. CASE Group!Fresh
  <2>1. Group!Decide({q}, Group!Freshest) /\ UNCHANGED <<fetches, inflight, lookups>>
    BY <1>2 DEF Group!AskCached, Group!Freshest
  <2> QED
    BY <1>1, <2>1, Answered
<1>3. CASE ~Group!Fresh
  BY <1>1, <1>3, AskKeeps DEF Group!AskCached, Fitting
<1> QED
  BY <1>2, <1>3

LEMMA AskForcedKeeps ==
    ASSUME GroupInv, NEW q \in ARequest, q.do # "name", Group!AskForced(q)
    PROVE  GroupInv'
<1>1. /\ metadata' = metadata \/ metadata' = None
      /\ UNCHANGED <<roles, changes, notices, handled, cooling, failures>>
  BY DEF Group!AskForced, Group!world
<1> QED
  BY <1>1, AskKeeps DEF Group!AskForced, Fitting

LEMMA ButtonKeeps ==
    ASSUME GroupInv, NEW p \in Members, Group!Button(p)
    PROVE  GroupInv'
BY DropOldDrops, Answered, Requests DEF Group!Button, Group!world

LEMMA LookUpKeeps ==
    ASSUME GroupInv, NEW p \in Members, Group!LookUpName(p)
    PROVE  GroupInv'
<1>1. /\ metadata' = metadata \/ metadata' = None
      /\ UNCHANGED <<roles, changes, notices, handled, cooling, failures>>
  BY DropOldDrops DEF Group!LookUpName, Group!world
<1>2. Fitting(Group!Name(p))
  BY DEF Group!LookUpName, Fitting, NoAnswer, Group!Pending, Group!Name
<1> QED
  BY <1>1, <1>2, Requests, AskKeeps DEF Group!LookUpName

LEMMA FetchIsAlone ==
    ASSUME GroupInv, NEW f \in fetches
    PROVE  fetches = {f} /\ f \in AFetch /\ f.id = inflight /\ inflight # 0 /\ ~cooling
           /\ failures = 0
BY DEF GroupInv, GroupTypes, OneFetch

LEMMA ReadKeeps ==
    ASSUME GroupInv, NEW f \in fetches, Group!Read(f)
    PROVE  GroupInv'
<1> DEFINE g == [f EXCEPT !.seen = changes, !.roles = roles]
<1>1. fetches = {f} /\ f \in AFetch
  BY FetchIsAlone
<1>2. /\ g \in AFetch /\ g.id = f.id /\ g.seen = changes /\ g.late = f.late
      /\ g.roles = roles /\ g.asking = f.asking
  BY <1>1 DEF AFetch, GroupInv, GroupTypes
<1>3. fetches' = {g} /\ judged' = {}
      /\ UNCHANGED <<roles, changes, notices, handled, metadata, cooling, inflight,
                     miss, failures, lookups>>
  BY <1>1 DEF Group!Read, Group!world
<1> HIDE DEF g
<1>4. OneFetch' /\ LookedUp'
  BY <1>1, <1>2, <1>3, FetchGrows
<1>5. Snapshots' /\ OldNews'
  BY <1>2, <1>3 DEF GroupInv, Snapshots, Informed, OldNews, GroupTypes
<1>6. GroupTypes'
  BY <1>2, <1>3 DEF GroupInv, GroupTypes
<1>7. JudgedByTheNews'
  BY <1>3 DEF JudgedByTheNews, Group!JudgedByTheNews
<1> QED
  BY <1>4, <1>5, <1>6, <1>7 DEF GroupInv

\* A fetch that has settled is gone, and who waited for it is answered.
LEMMA SettledKeeps ==
    ASSUME GroupInv, NEW f \in fetches, NEW g, Group!Decide(f.asking, g), Group!Settled(f),
           UNCHANGED lookups
    PROVE  LookedUp' /\ miss' \subseteq Nameless /\ fetches' = {} /\ inflight' = 0
<1>1. fetches = {f} /\ f.asking \in SUBSET ARequest
  BY FetchIsAlone DEF AFetch
<1>2. fetches' = {} /\ inflight' = 0
  BY <1>1 DEF Group!Settled
<1>3. /\ miss' \subseteq Nameless /\ miss \subseteq miss'
      /\ \A p \in Nameless : Group!Name(p) \in f.asking => p \in miss'
  BY <1>1, DecideMisses DEF GroupInv, GroupTypes
<1>4. LookedUp'
  BY <1>1, <1>2, <1>3 DEF GroupInv, LookedUp, NoAnswer
<1> QED
  BY <1>2, <1>3, <1>4

LEMMA FetchDoneKeeps ==
    ASSUME GroupInv, NEW f \in fetches, Group!FetchDone(f)
    PROVE  GroupInv'
<1>1. f \in AFetch /\ ~cooling /\ failures = 0 /\ f.asking \in SUBSET ARequest
  BY FetchIsAlone DEF AFetch
<1>2. /\ metadata' = Group!Stored(f) /\ cooling' = FALSE
      /\ Group!Decide(f.asking, f) /\ Group!Settled(f)
      /\ UNCHANGED <<roles, changes, notices, handled, failures, lookups>>
  BY DEF Group!FetchDone, Group!world
<1>3. LookedUp' /\ miss' \subseteq Nameless /\ fetches' = {} /\ inflight' = 0
  BY <1>2, SettledKeeps
<1>4. f.seen \in 0 .. MaxRoleChanges /\ Informed(f)
  BY <1>1 DEF Group!FetchDone, AFetch, GroupInv, Snapshots
<1>5. JudgedByTheNews'
  BY <1>1, <1>2, <1>4, DecideJudges
<1>6. f.roles \in RoleMap
  BY DEF GroupInv, GroupTypes, Snapshots, Group!FetchDone
<1>7. metadata' \in Snapshot
  BY <1>1, <1>2, <1>4, <1>6 DEF Group!Stored, AFetch, Snapshot
<1>8. OneFetch' /\ OldNews'
  BY <1>1, <1>2, <1>3 DEF GroupInv, OneFetch, OldNews
<1>9. Snapshots'
  BY <1>2, <1>3, <1>4 DEF Snapshots, Informed, Group!Stored
<1>10. GroupTypes'
  BY <1>2, <1>3, <1>7 DEF GroupInv, GroupTypes
<1> QED
  BY <1>3, <1>5, <1>8, <1>9, <1>10 DEF GroupInv

LEMMA FetchFailsKeeps ==
    ASSUME GroupInv, NEW f \in fetches, Group!FetchFails(f)
    PROVE  GroupInv'
<1>1. f \in AFetch /\ ~cooling /\ failures = 0 /\ f.asking \in SUBSET ARequest
  BY FetchIsAlone DEF AFetch
<1>2. /\ metadata' = metadata \/ metadata' = None
      /\ cooling' = TRUE /\ failures' = 1
      /\ Group!Decide(f.asking, Group!Freshest) /\ Group!Settled(f)
      /\ UNCHANGED <<roles, changes, notices, handled, lookups>>
  BY <1>1, DropOldDrops DEF Group!FetchFails, Group!world
<1>3. LookedUp' /\ miss' \subseteq Nameless /\ fetches' = {} /\ inflight' = 0
  BY <1>2, SettledKeeps
<1>4. metadata' \in Snapshot \cup {None} /\ (metadata' # None => Informed(metadata)')
  BY <1>2, CacheStays
<1>5. JudgedByTheNews'
  BY <1>1, <1>2, FreshestJudges
<1>6. OneFetch' /\ OldNews' /\ Snapshots'
  BY <1>2, <1>3, <1>4 DEF GroupInv, OneFetch, OldNews, Snapshots
<1>7. GroupTypes'
  BY <1>2, <1>3, <1>4 DEF GroupInv, GroupTypes
<1> QED
  BY <1>3, <1>5, <1>6, <1>7 DEF GroupInv

LEMMA ExpireKeeps == ASSUME GroupInv, Group!Expire PROVE GroupInv'
<1>1. metadata \in Snapshot /\ metadata' = [metadata EXCEPT !.age = "expired"]
  BY DEF Group!Expire, Group!Fresh, GroupInv, GroupTypes
<1>2. metadata' \in Snapshot /\ metadata'.seen = metadata.seen /\ metadata'.late = metadata.late
  BY <1>1 DEF Snapshot
<1>3. judged' = {} /\ UNCHANGED <<roles, changes, notices, handled, cooling, fetches, inflight,
                                  miss, failures, lookups>>
  BY DEF Group!Expire, Group!world
<1>4. Snapshots'
  BY <1>1, <1>2, <1>3, NoSnapshot DEF GroupInv, Snapshots, Informed
<1>5. GroupTypes' /\ OldNews'
  BY <1>2, <1>3 DEF GroupInv, GroupTypes, OldNews
<1>6. OneFetch' /\ LookedUp'
  BY <1>3 DEF GroupInv, OneFetch, LookedUp, NoAnswer
<1>7. JudgedByTheNews'
  BY <1>3 DEF JudgedByTheNews, Group!JudgedByTheNews
<1> QED
  BY <1>4, <1>5, <1>6, <1>7 DEF GroupInv

LEMMA CooldownOverKeeps == ASSUME GroupInv, Group!CooldownOver PROVE GroupInv'
<1>1. /\ cooling /\ cooling' = FALSE /\ failures' = 0 /\ judged' = {}
      /\ UNCHANGED <<roles, changes, notices, handled, metadata, fetches, inflight, miss, lookups>>
  BY DEF Group!CooldownOver, Group!world
<1>2. GroupTypes' /\ OldNews' /\ Snapshots'
  BY <1>1 DEF GroupInv, GroupTypes, OldNews, Snapshots, Informed
<1>3. OneFetch' /\ LookedUp'
  BY <1>1 DEF GroupInv, OneFetch, LookedUp, NoAnswer
<1>4. JudgedByTheNews'
  BY <1>1 DEF JudgedByTheNews, Group!JudgedByTheNews
<1> QED
  BY <1>2, <1>3, <1>4 DEF GroupInv

LEMMA MissOverKeeps ==
    ASSUME GroupInv, NEW p \in Members, Group!MissOver(p)
    PROVE  GroupInv'
<1>1. /\ p \in Nameless /\ miss' = miss \ {p} /\ lookups' = [lookups EXCEPT ![p] = 0]
      /\ judged' = {}
      /\ UNCHANGED <<roles, changes, notices, handled, metadata, cooling, fetches, inflight,
                     failures>>
  BY DEF Group!MissOver, Group!world, GroupInv, GroupTypes
<1>2. GroupTypes' /\ OldNews' /\ Snapshots' /\ OneFetch'
  BY <1>1 DEF GroupInv, GroupTypes, OldNews, Snapshots, Informed, OneFetch
<1>3. LookedUp'
  BY <1>1 DEF GroupInv, GroupTypes, LookedUp, NoAnswer
<1>4. JudgedByTheNews'
  BY <1>1 DEF JudgedByTheNews, Group!JudgedByTheNews
<1> QED
  BY <1>2, <1>3, <1>4 DEF GroupInv

LEMMA ChangedKeeps ==
    ASSUME GroupInv, NEW j \in Members \cup {Bot}, NEW role \in {"out", "member", "admin"},
           Group!Changed(j, role)
    PROVE  GroupInv'
<1> DEFINE n == [nth |-> changes + 1, joins |-> roles[j] = "out" /\ role # "out"]
<1>1. changes \in 0 .. MaxRoleChanges /\ changes + 1 \in 0 .. MaxRoleChanges
  BY RolesAssumption DEF Group!Changed, GroupInv, GroupTypes
<1>2. n \in Notice /\ n.nth = changes + 1
  BY <1>1 DEF Notice
<1>3. /\ roles' = [roles EXCEPT ![j] = role] /\ changes' = changes + 1
      /\ notices' = Append(notices, n) /\ judged' = {}
      /\ UNCHANGED <<handled, metadata, cooling, fetches, inflight, miss, failures, lookups>>
  BY DEF Group!Changed
<1> HIDE DEF n
<1>4. OldNews'
  <2>1. handled' <= changes'
    BY <1>1, <1>3 DEF GroupInv, GroupTypes, OldNews
  <2>2. ASSUME NEW k \in 1 .. Len(notices') PROVE notices'[k].nth <= changes'
    <3>1. notices \in Seq(Notice) /\ Len(notices) \in Nat
      BY DEF GroupInv, GroupTypes
    <3>2. CASE k = Len(notices) + 1
      BY <1>1, <1>2, <1>3, <3>1, <3>2
    <3>3. CASE k \in 1 .. Len(notices)
      <4>1. notices'[k] = notices[k] /\ notices[k] \in Notice
        BY <1>2, <1>3, <3>1, <3>3
      <4>2. notices[k].nth <= changes /\ notices[k].nth \in Nat
        BY <3>3, <4>1 DEF GroupInv, OldNews, Notice
      <4> QED
        BY <1>1, <1>3, <4>1, <4>2
    <3> QED
      BY <1>2, <1>3, <3>1, <3>2, <3>3
  <2> QED
    BY <2>1, <2>2 DEF OldNews
<1>5. GroupTypes'
  BY <1>1, <1>2, <1>3 DEF GroupInv, GroupTypes, RoleMap
<1>6. Snapshots' /\ OneFetch' /\ LookedUp'
  BY <1>3 DEF GroupInv, Snapshots, Informed, OneFetch, LookedUp, NoAnswer
<1>7. JudgedByTheNews'
  BY <1>3 DEF JudgedByTheNews, Group!JudgedByTheNews
<1> QED
  BY <1>4, <1>5, <1>6, <1>7 DEF GroupInv

LEMMA KickAnsweredKeeps ==
    ASSUME GroupInv, NEW p \in Members, Group!KickAnswered(p)
    PROVE  GroupInv'
<1>1. CASE Group!Changed(p, "out")
  BY <1>1, ChangedKeeps
<1>2. CASE /\ judged' = {}
           /\ UNCHANGED <<roles, changes, notices, handled, metadata, cooling, fetches,
                          inflight, miss, failures, lookups>>
  BY <1>2 DEF GroupInv, GroupTypes, OldNews, Snapshots, Informed, OneFetch, LookedUp, NoAnswer,
              JudgedByTheNews, Group!JudgedByTheNews
<1> QED
  BY <1>1, <1>2 DEF Group!KickAnswered, Group!world

\* The news empties the cache and is late for the fetch under way.
LEMMA HandleNoticeKeeps == ASSUME GroupInv, Group!HandleNotice PROVE GroupInv'
<1> DEFINE n == Head(notices)
           late == {[f EXCEPT !.late = TRUE] : f \in fetches}
<1>1. /\ notices \in Seq(Notice) /\ notices # <<>>
      /\ notices' = Tail(notices) /\ handled' = n.nth /\ metadata' = None
      /\ judged' = {} /\ miss' = miss
      /\ UNCHANGED <<roles, changes, cooling, failures, lookups>>
  BY DEF Group!HandleNotice, Group!Invalidate, Group!Wait, GroupInv, GroupTypes
<1>2. n \in Notice /\ n.nth <= changes /\ notices' \in Seq(Notice)
  BY <1>1 DEF GroupInv, OldNews
<1>3. OldNews'
  <2>1. \A k \in 1 .. Len(notices') : k + 1 \in 1 .. Len(notices) /\ notices'[k] = notices[k + 1]
    BY <1>1
  <2> QED
    BY <1>1, <1>2, <2>1 DEF GroupInv, OldNews
<1>4. JudgedByTheNews'
  BY <1>1 DEF JudgedByTheNews, Group!JudgedByTheNews
<1> HIDE DEF n
<1>5. /\ Snapshots' <=> \A f \in fetches' : f.seen # None => Informed(f)' /\ f.roles \in RoleMap
      /\ GroupTypes' <=> fetches' \in SUBSET AFetch
  <2>1. GroupTypes' <=> fetches' \in SUBSET AFetch
    BY <1>1, <1>2 DEF GroupInv, GroupTypes, Notice
  <2> QED
    BY <1>1, <2>1 DEF Snapshots
<1>6. CASE fetches = {} /\ fetches' = {} /\ inflight' = inflight
  <2>1. OneFetch' /\ LookedUp'
    BY <1>1, <1>6 DEF GroupInv, OneFetch, LookedUp, NoAnswer
  <2> QED
    BY <1>3, <1>4, <1>5, <1>6, <2>1 DEF GroupInv
<1>7. ASSUME NEW f \in AFetch, fetches = {f}, NEW g \in AFetch, fetches' = {g}, g.late,
             g.id = f.id, g.seen = f.seen, g.roles = f.roles, f.asking \subseteq g.asking,
             inflight' = inflight
      PROVE  GroupInv'
  <2>1. OneFetch' /\ LookedUp'
    BY <1>1, <1>7, FetchGrows
  <2>2. g.seen # None => g.roles \in RoleMap
    BY <1>7 DEF GroupInv, Snapshots
  <2>3. Snapshots' /\ GroupTypes'
    BY <1>5, <1>7, <2>2 DEF Informed
  <2> QED
    BY <1>3, <1>4, <2>1, <2>3 DEF GroupInv
<1>8. CASE fetches' = late /\ inflight' = inflight
  <2>1. CASE inflight = 0
    <3>1. fetches = {}
      BY <2>1, NoFetch
    <3> QED
      BY <1>6, <1>8, <3>1
  <2>2. CASE inflight # 0
    <3>1. PICK f \in AFetch : fetches = {f} /\ f.id = inflight
      BY <2>2, TheFetch
    <3> DEFINE g == [f EXCEPT !.late = TRUE]
    <3>2. /\ g \in AFetch /\ g.late /\ g.id = f.id /\ g.seen = f.seen /\ g.roles = f.roles
          /\ g.asking = f.asking
      BY DEF AFetch
    <3>3. fetches' = {g}
      BY <1>8, <3>1
    <3> HIDE DEF g
    <3> QED
      BY <1>7, <1>8, <3>1, <3>2, <3>3
  <2> QED
    BY <2>1, <2>2
<1>9. CASE /\ inflight # 0 /\ inflight' = inflight
           /\ fetches' = {IF f.id = inflight THEN [f EXCEPT !.asking = @ \cup {Group!Join}]
                          ELSE f : f \in late}
  <2>1. PICK f \in AFetch : fetches = {f} /\ f.id = inflight
    BY <1>9, TheFetch
  <2> DEFINE l == [f EXCEPT !.late = TRUE]
             g == [l EXCEPT !.asking = @ \cup {Group!Join}]
  <2>2. /\ l \in AFetch /\ l.late /\ l.id = f.id /\ l.seen = f.seen /\ l.roles = f.roles
        /\ l.asking = f.asking
    BY DEF AFetch
  <2>3. late = {l}
    BY <2>1
  <2> HIDE DEF l, late
  <2>4. /\ g \in AFetch /\ g.late /\ g.id = f.id /\ g.seen = f.seen /\ g.roles = f.roles
        /\ f.asking \subseteq g.asking
    BY <2>2, Requests DEF AFetch
  <2>5. fetches' = {g}
    BY <1>9, <2>1, <2>2, <2>3
  <2> HIDE DEF g
  <2> QED
    BY <1>7, <1>9, <2>1, <2>4, <2>5
<1>10. CASE /\ ~cooling /\ inflight = 0
            /\ fetches' = late \cup {Group!NewFetch(Group!Join)}
            /\ inflight' = Group!NewFetch(Group!Join).id
  <2> DEFINE f == Group!NewFetch(Group!Join)
  <2>1. fetches = {}
    BY <1>10, NoFetch
  <2>2. f \in AFetch /\ f.id \in 1 .. 3 /\ f.seen = None
    BY <2>1, FirstFetch, Requests
  <2>3. fetches' = {f} /\ inflight' = f.id
    BY <1>10, <2>1
  <2> HIDE DEF f
  <2>4. OneFetch'
    <3>1. inflight' # 0 /\ ~cooling' /\ failures' = 0
      BY <1>1, <1>10, <2>2, <2>3 DEF GroupInv, OneFetch
    <3> QED
      BY <2>2, <2>3, <3>1 DEF OneFetch
  <2>5. LookedUp'
    BY <1>1, <2>1 DEF GroupInv, LookedUp, NoAnswer
  <2>6. Snapshots' /\ GroupTypes'
    BY <1>5, <2>2, <2>3
  <2> QED
    BY <1>3, <1>4, <2>4, <2>5, <2>6 DEF GroupInv
<1> QED
  BY <1>8, <1>9, <1>10 DEF Group!HandleNotice

LEMMA GroupInit == Group!Init => GroupInv
<1> SUFFICES ASSUME Group!Init PROVE GroupInv
  OBVIOUS
<1>1. GroupTypes
  <2>1. roles \in RoleMap
    BY DEF Group!Init, RoleMap, Group!Jids
  <2>2. lookups \in [Nameless -> Nat]
    BY DEF Group!Init
  <2>3. changes \in 0 .. MaxRoleChanges /\ handled \in 0 .. MaxRoleChanges /\ failures \in Nat
    BY RolesAssumption DEF Group!Init
  <2>4. notices \in Seq(Notice) /\ metadata = None /\ fetches = {} /\ miss = {} /\ cooling = FALSE
    BY DEF Group!Init
  <2> QED
    BY <2>1, <2>2, <2>3, <2>4 DEF GroupTypes
<1>2. OldNews /\ Snapshots /\ OneFetch /\ LookedUp
  BY DEF Group!Init, OldNews, Snapshots, OneFetch, LookedUp
<1>3. JudgedByTheNews
  BY DEF Group!Init, JudgedByTheNews, Group!JudgedByTheNews
<1> QED
  BY <1>1, <1>2, <1>3 DEF GroupInv

LEMMA GroupNext == GroupInv /\ [Group!Next]_groupVars => GroupInv'
<1> SUFFICES ASSUME GroupInv, [Group!Next]_groupVars PROVE GroupInv'
  OBVIOUS
<1>1. ASSUME NEW p \in Members, Group!AskCached(Group!Command(p)) PROVE GroupInv'
  BY <1>1, Requests, AskCachedKeeps DEF Group!Command
<1>2. ASSUME NEW p \in Members, Group!AskForced(Group!Kick(p)) PROVE GroupInv'
  BY <1>2, Requests, AskForcedKeeps DEF Group!Kick
<1>3. CASE Group!AskCached(Group!RunCommand)
  BY <1>3, Requests, AskCachedKeeps DEF Group!RunCommand
<1>4. ASSUME NEW p \in Members,
             Group!Button(p) \/ Group!LookUpName(p) \/ Group!MissOver(p) \/ Group!KickAnswered(p)
      PROVE  GroupInv'
  BY <1>4, ButtonKeeps, LookUpKeeps, MissOverKeeps, KickAnsweredKeeps
<1>5. ASSUME NEW f \in fetches, Group!Read(f) \/ Group!FetchDone(f) \/ Group!FetchFails(f)
      PROVE  GroupInv'
  BY <1>5, ReadKeeps, FetchDoneKeeps, FetchFailsKeeps
<1>6. ASSUME NEW j \in Group!Jids, NEW role \in {"out", "member", "admin"}, Group!Change(j, role)
      PROVE  GroupInv'
  BY <1>6, ChangedKeeps DEF Group!Change, Group!Jids
<1>7. CASE Group!Expire \/ Group!CooldownOver \/ Group!HandleNotice
  BY <1>7, ExpireKeeps, CooldownOverKeeps, HandleNoticeKeeps
<1>8. CASE UNCHANGED groupVars
  BY <1>8 DEF groupVars, GroupInv, GroupTypes, OldNews, Snapshots, Informed, OneFetch, LookedUp,
              NoAnswer, JudgedByTheNews, Group!JudgedByTheNews
<1> QED
  BY <1>1, <1>2, <1>3, <1>4, <1>5, <1>6, <1>7, <1>8 DEF Group!Next

\* A kick, command, button or lookup of a name is never judged by roles older than
\* the news of the group that the gateway has handled, for any members, changes
\* and fetches that cross (groupContext.ts).
THEOREM JudgedByTheNewsAlways == GatewaySpec => []JudgedByTheNews
<1>1. GatewayInit => GroupInv
  BY PartInits, GroupInit
<1>2. GroupInv /\ [GatewayNext]_allVars => GroupInv'
  BY PartSteps, GroupNext
<1>3. GroupInv => JudgedByTheNews
  BY DEF GroupInv
<1> QED
  BY <1>1, <1>2, <1>3, PTL DEF GatewaySpec

\* The metadata of a group is under one fetch at most for those who wait for it,
\* and a person no metadata names is not looked up again before news of the group.
THEOREM AskedSparinglyAlways == GatewaySpec => []AskedSparingly
<1>1. GatewayInit => GroupInv
  BY PartInits, GroupInit
<1>2. GroupInv /\ [GatewayNext]_allVars => GroupInv'
  BY PartSteps, GroupNext
<1>3. GroupInv => AskedSparingly
  BY DEF GroupInv, OneFetch, LookedUp, AskedSparingly, Group!AskedSparingly
<1> QED
  BY <1>1, <1>2, <1>3, PTL DEF GatewaySpec
=============================================================================
