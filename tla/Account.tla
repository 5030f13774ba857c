------------------------------ MODULE Account ------------------------------
(* Components of one account's gateway and session that share no state: a   *)
(* behaviour works with one of them at a time, named by part, and the       *)
(* others stay as they are.                                                 *)
EXTENDS SettingCaches

CONSTANTS
    \* message numbers
    Rooms,               \* the account's chats
    Incoming, Own, Sends, Loose, ChatOf, Kind, Parts, Modulus, IndexSize,
    Deliveries, MaxNumbers, MaxLives,
    \* roles in a group
    Members, Bot, Nameless, MaxRoleChanges,
    \* files of messages
    Images, Documents, Large, QuoteOf, MaxLosses,
    \* actions of a reply
    Known, Invented, Absent, Letters, Numbers, Padded, Added, MaxMemories,
    MaxLines, MaxCalls,
    \* mutes
    People, Longest, Durations, Unasked, Free, Horizon, MaxOrders

\* None is no answer of WhatsApp's, and no snapshot.
ASSUME RolesAssumption ==
    /\ Nameless \subseteq Members
    /\ MaxRoleChanges \in Nat
    /\ None \notin 0 .. MaxRoleChanges
    /\ None \notin [roles : [Members \cup {Bot} -> {"out", "member", "admin"}],
                    seen : 0 .. MaxRoleChanges, late : BOOLEAN,
                    age : {"fresh", "expired"}]

\* None is no message, and only documents are too large.
ASSUME PathsAssumption ==
    /\ None \notin Images \cup Documents
    /\ Large \subseteq Documents
    /\ Images \cap Documents = {}
    /\ QuoteOf \in [Images \cup Documents -> Images \cup Documents \cup {None}]

\* What is cached of a member, or stored, and is no mute.
ASSUME MutesAssumption ==
    /\ Longest \in Nat \ {0} /\ Horizon \in Nat
    /\ Durations \subseteq Nat
    /\ None \notin People
    /\ Unasked # Free
    /\ [at : 0 .. Horizon, minutes : 1 .. Longest] \cap {None, Unasked, Free} = {}

\* A batch of two is numbered before the numbers come round, and the parts of a
\* send are the bot's messages in the chat it sends to.
ASSUME NumbersAssumption ==
    /\ Modulus \in Nat /\ Modulus >= 2
    /\ IndexSize \in Nat \ {0}
    /\ ChatOf \in [Incoming \cup Own \cup Sends -> Rooms]
    /\ Parts \in [Sends -> Seq(Own)]
    /\ \A s \in Sends : /\ Len(Parts[s]) > 0
                        /\ \A k \in 1 .. Len(Parts[s]) : ChatOf[Parts[s][k]] = ChatOf[s]

VARIABLES
    part,
    \* message numbers
    counter, index, byId, jobs, line, sends, copies, allotted, inserted, life,
    told, aimed,
    \* roles in a group
    roles, changes, notices, handled, metadata, cooling, fetches, inflight,
    miss, kicks, failures, lookups, judged,
    \* files of messages
    arrived, waiting, cached, disk, marked, store, old, downloads, batch, given,
    toolarge, losses,
    \* actions of a reply
    known, fallback, form, parts, reply, react, sticker, orphans, words, actions,
    performed, running, entries, named,
    \* mutes
    now, orders, ordered, rows, muted, until, verdict

Ids == INSTANCE MessageIndex WITH Chats <- Rooms, acted <- aimed

Group == INSTANCE GroupRoles WITH
    People <- Members, MaxChanges <- MaxRoleChanges, cache <- metadata,
    acted <- judged

Paths == INSTANCE MediaPaths WITH Unstamped <- None, turn <- batch

Acts == INSTANCE ReplyActions WITH
    Unknown <- Invented, allowed <- known, memory <- entries

Gate == INSTANCE Mutes WITH Unknown <- Unasked, given <- ordered, cache <- muted

idsVars   == <<counter, index, byId, jobs, line, sends, copies, allotted,
               inserted, life, told, aimed>>
groupVars == <<roles, changes, notices, handled, metadata, cooling, fetches,
               inflight, miss, kicks, failures, lookups, judged>>
pathVars == <<arrived, waiting, cached, disk, marked, store, old, downloads,
              batch, given, toolarge, losses>>
actVars  == <<known, fallback, form, parts, reply, react, sticker, orphans,
              words, actions, performed, running, entries, named>>
gateVars == <<now, orders, ordered, rows, muted, until, verdict>>

allVars  == <<part, vars, idsVars, groupVars, pathVars, actVars, gateVars>>

GatewayInit ==
    /\ part \in {"settings", "ids", "roles", "paths", "actions", "mutes"}
    /\ Init /\ Ids!Init /\ Group!Init /\ Paths!Init /\ Acts!Init /\ Gate!Init
    /\ part # "roles" => roles = [n \in Group!Jids |-> "member"]
    /\ part # "actions" => known = {} /\ fallback = None /\ form = "lines"

GatewayNext ==
    \/ /\ part = "settings" /\ Next
       /\ UNCHANGED <<part, idsVars, groupVars, pathVars, actVars, gateVars>>
    \/ /\ part = "ids" /\ Ids!Next
       /\ UNCHANGED <<part, vars, groupVars, pathVars, actVars, gateVars>>
    \/ /\ part = "roles" /\ Group!Next
       /\ UNCHANGED <<part, vars, idsVars, pathVars, actVars, gateVars>>
    \/ /\ part = "paths" /\ Paths!Next
       /\ UNCHANGED <<part, vars, idsVars, groupVars, actVars, gateVars>>
    \/ /\ part = "actions" /\ Acts!Next
       /\ UNCHANGED <<part, vars, idsVars, groupVars, pathVars, gateVars>>
    \/ /\ part = "mutes" /\ Gate!Next
       /\ UNCHANGED <<part, vars, idsVars, groupVars, pathVars, actVars>>

GatewaySpec == GatewayInit /\ [][GatewayNext]_allVars

\* An action the bridge aims at a number reaches the message it was told for.
ActsOnTheMeant == Ids!ActsOnTheMeant
\* What the bridge was told can be acted on for as long as the index is large.
StillActionable == Ids!StillActionable
\* Nobody is judged by roles older than the news the gateway has handled.
JudgedByTheNews == Group!JudgedByTheNews
\* WhatsApp is asked for the metadata of a group sparingly.
AskedSparingly == Group!AskedSparingly
\* A message whose file the store knows does not lose it to a later pass.
NeverUnlearns == Paths!NeverUnlearns
\* What is too large for a sub-agent is not given to one while its mark lasts.
TooLargeStays == Paths!TooLargeStays
\* A line of text the model wrote stands in exactly one place.
EachLineOnce == Acts!EachLineOnce
\* The gate deletes a message exactly if its sender is muted.
GateIsRight == Gate!GateIsRight
=============================================================================
