----------------------------- MODULE MediaPaths ------------------------------
(***************************************************************************)
(* Where the bridge finds the files of one chat's messages.  The gateway   *)
(* forwards an attachment without its bytes; the bridge downloads it when  *)
(* a vision model or a sub-agent needs it and remembers the path under the *)
(* number of a message (media/resolver.py, and its callers in              *)
(* batch_processor.py and subagent_coordinator.py).                        *)
(*                                                                         *)
(* A message has at most one attachment.  An entry of the store says which *)
(* message the attachment came with (of), whether it has a path, and       *)
(* whether it is blocked for being too large; an attachment of a payload   *)
(* also says under which message it would be filed (stamp), which is       *)
(* Unstamped when the payload does not.  The numbers of MessageIndex are   *)
(* unique here.                                                            *)
(***************************************************************************)
EXTENDS Naturals, Sequences

CONSTANTS
    Images, Documents,   \* the messages, by what they carry
    Large,               \* documents above 200 MB
    QuoteOf,             \* the message each replies to, or Unstamped
    Unstamped,
    MaxLosses            \* protos the gateway evicts (a model bound)

Messages == Images \cup Documents

VARIABLES
    arrived, waiting,    \* messages seen, and those the next batch will hold
    cached,              \* messages whose proto the gateway still has
    disk,                \* messages whose file is on disk
    marked,              \* payloads that carry subagentBlockedReason
    store,               \* media_paths_by_chat: message -> entries
    old,                 \* messages whose entries are past 24 hours
    downloads,           \* downloads under way, as <<who asked, message>>
    turn,                \* the batch being processed
    given,               \* files a sub-agent was given, as <<asked for, of>>
    toolarge,            \* messages found too large since their last expiry
    losses

inbound == <<arrived, waiting, marked>>
vars == <<arrived, waiting, cached, disk, marked, store, old, downloads, turn,
          given, toolarge, losses>>

Idle == [step |-> "idle", base |-> Unstamped, atts |-> {}]

Init ==
    /\ arrived = {} /\ waiting = <<>>
    /\ cached = {} /\ disk = {} /\ marked = {}
    /\ store = [m \in Messages |-> {}]
    /\ old = {}
    /\ downloads = {}
    /\ turn = Idle
    /\ given = {} /\ toolarge = {}
    /\ losses = 0

-----------------------------------------------------------------------------
(* The store.                                                               *)

Attachment(m) == [of |-> m, stamp |-> m, path |-> FALSE, tried |-> FALSE]
Filed(a, base) == IF a.stamp = Unstamped THEN base ELSE a.stamp

HasFile(entries, files) == \E e \in entries : e.path /\ e.of \in files

\* Mutant: a second pass over a payload replaces what an earlier one stored.
Recorded(atts, base, blocked) ==
    [m \in Messages |->
       LET new == {[of |-> a.of, path |-> a.path, blocked |-> a.of \in blocked] :
                     a \in {b \in atts : Filed(b, base) = m}}
       IN IF new = {} THEN store[m] ELSE new]

\* _store_media_path: a pass that brings no path keeps what has a file.
Stored(atts, base, blocked) ==
    [m \in Messages |->
       LET new == {[of |-> a.of, path |-> a.path, blocked |-> a.of \in blocked] :
                     a \in {b \in atts : Filed(b, base) = m}}
       IN IF \/ new = {}
             \/ HasFile(store[m], disk) /\ \A e \in new : ~e.path
          THEN store[m] ELSE new]

Downloaded(m) == {[of |-> m, path |-> TRUE, blocked |-> FALSE]}

-----------------------------------------------------------------------------
(* Messages arrive.                                                         *)

\* Mutant: the mark of an oversized file is put on a copy of the attachment.
ArriveCopied(m, enabled) ==
    /\ m \notin arrived
    /\ QuoteOf[m] # Unstamped => QuoteOf[m] \in arrived
    /\ arrived' = arrived \cup {m}
    /\ waiting' = Append(waiting, m)
    /\ cached' = cached \cup {m}
    /\ IF enabled
       THEN /\ store' = Stored({Attachment(m)}, m, Large)
            /\ downloads' = downloads \cup {<<"arrival", m>> : x \in {m} \ Large}
            /\ toolarge' = toolarge \cup ({m} \cap Large)
       ELSE UNCHANGED <<store, downloads, toolarge>>
    /\ UNCHANGED <<disk, marked, old, turn, given, losses>>

\* dispatch_incoming: for a chat with the sub-agent on, what is too large is
\* marked, the payload stored, and the rest downloaded at once in a task.
Arrive(m, enabled) ==
    /\ m \notin arrived
    /\ QuoteOf[m] # Unstamped => QuoteOf[m] \in arrived
    /\ arrived' = arrived \cup {m}
    /\ waiting' = Append(waiting, m)
    /\ cached' = cached \cup {m}
    /\ IF enabled
       THEN /\ marked' = marked \cup ({m} \cap Large)
            /\ store' = Stored({Attachment(m)}, m, marked')
            /\ downloads' = downloads \cup {<<"arrival", m>> : x \in {m} \ Large}
            /\ toolarge' = toolarge \cup ({m} \cap Large)
       ELSE UNCHANGED <<marked, store, downloads, toolarge>>
    /\ UNCHANGED <<disk, old, turn, given, losses>>

\* A download for a sub-agent ends: the one entry replaces what there was.
Fetch(who, m) ==
    /\ <<who, m>> \in downloads
    /\ downloads' = downloads \ {<<who, m>>}
    /\ IF m \in cached
       THEN /\ disk' = disk \cup {m}
            /\ store' = [store EXCEPT ![m] = Downloaded(m)]
            /\ old' = old \ {m}
       ELSE UNCHANGED <<disk, store, old>>
    /\ given' = IF who = "task" /\ m \in cached THEN given \cup {<<m, m>>} ELSE given
    /\ UNCHANGED <<inbound, cached, turn, toolarge, losses>>

-----------------------------------------------------------------------------
(* A batch is processed, one at a time in a chat.                           *)

Burst == {waiting[i] : i \in 1 .. Len(waiting)}

\* _cleanup_stale_media_paths, before the batch is stored again.
Kept(stored) == [m \in Messages |-> IF m \in old /\ m \notin Burst THEN {} ELSE stored[m]]

\* Entries past 24 hours go, every payload of the batch is stored again, and
\* the attachments of the burst are merged, each stamped with its message.
TurnStart ==
    /\ turn = Idle /\ waiting # <<>>
    /\ LET atts == {Attachment(m) : m \in Burst}
       IN /\ store' = Kept(Stored(atts, Unstamped, marked))
          /\ turn' = [step |-> "quoted", base |-> waiting[Len(waiting)], atts |-> atts]
    /\ waiting' = <<>>
    /\ toolarge' = toolarge \ (old \ Burst)
    /\ old' = {}
    /\ UNCHANGED <<arrived, cached, disk, marked, downloads, given, losses>>

Quoted == QuoteOf[turn.base]

\* The file of the message replied to is fetched unless it is there.
AskQuoted ==
    /\ turn.step = "quoted"
    /\ IF Quoted \in Images /\ ~HasFile(store[Quoted], disk)
       THEN downloads' = downloads \cup {<<"quoted", Quoted>>} /\ turn' = [turn EXCEPT !.step = "fetching"]
       ELSE turn' = [turn EXCEPT !.step = "resolve"] /\ UNCHANGED downloads
    /\ UNCHANGED <<inbound, cached, disk, store, old, given, toolarge, losses>>

Resolve ==
    /\ \/ turn.step = "resolve"
       \/ turn.step = "fetching" /\ <<"quoted", Quoted>> \notin downloads
    /\ LET found == IF Quoted = Unstamped THEN {}
                    ELSE {e \in store[Quoted] : e.path /\ e.of \in disk}
       IN turn' = [turn EXCEPT !.step = "visual",
                               !.atts = @ \cup {[of |-> e.of, stamp |-> Unstamped, path |-> TRUE,
                                                 tried |-> FALSE] : e \in found}]
    /\ UNCHANGED <<inbound, cached, disk, store, old, downloads, given, toolarge, losses>>

Untried == {a \in turn.atts : a.of \in Images /\ ~a.path /\ ~a.tried}

\* materialize_visual_media: one download after the other.
Materialize(a) ==
    /\ turn.step = "visual" /\ a \in Untried
    /\ disk' = IF a.of \in cached THEN disk \cup {a.of} ELSE disk
    /\ turn' = [turn EXCEPT !.atts = (@ \ {a}) \cup
                  {[a EXCEPT !.tried = TRUE, !.path = a.of \in cached]}]
    /\ UNCHANGED <<inbound, cached, store, old, downloads, given, toolarge, losses>>

\* If one of them brought a file, the payload is stored once more.
Materialized ==
    /\ turn.step = "visual" /\ Untried = {}
    /\ store' = IF \E a \in turn.atts : a.tried /\ a.path
                THEN Stored(turn.atts, turn.base, marked) ELSE store
    /\ turn' = [turn EXCEPT !.step = "acting"]
    /\ UNCHANGED <<inbound, cached, disk, old, downloads, given, toolarge, losses>>

\* The model has no vision: nothing is downloaded.
Blind ==
    /\ turn.step = "quoted"
    /\ turn' = [turn EXCEPT !.step = "acting"]
    /\ UNCHANGED <<inbound, cached, disk, store, old, downloads, given, toolarge, losses>>

\* The model delegates a task over m: its files are those of the store when all
\* of them are on disk, and one download otherwise.
Task(m) ==
    /\ turn.step = "acting" /\ m \in arrived
    /\ IF \E e \in store[m] : e.blocked THEN UNCHANGED <<given, downloads>>
       ELSE IF store[m] # {} /\ \A e \in store[m] : e.path /\ e.of \in disk
       THEN given' = given \cup {<<m, e.of>> : e \in store[m]} /\ UNCHANGED downloads
       ELSE downloads' = downloads \cup {<<"task", m>>} /\ UNCHANGED given
    /\ turn' = Idle
    /\ UNCHANGED <<inbound, cached, disk, store, old, toolarge, losses>>

Reply ==
    /\ turn.step = "acting"
    /\ turn' = Idle
    /\ UNCHANGED <<inbound, cached, disk, store, old, downloads, given, toolarge, losses>>

-----------------------------------------------------------------------------
(* The environment: the gateway's cache drops a message, a day goes by.     *)
(* Nothing in the program removes a downloaded file.                        *)

Evict(m) ==
    /\ losses < MaxLosses /\ losses' = losses + 1
    /\ m \in cached /\ cached' = cached \ {m}
    /\ UNCHANGED <<inbound, disk, store, old, downloads, turn, given, toolarge>>

Age ==
    /\ turn = Idle /\ downloads = {}
    /\ old' = {m \in Messages : store[m] # {}}
    /\ old' # old
    /\ UNCHANGED <<inbound, cached, disk, store, downloads, turn, given, toolarge, losses>>

Next ==
    \/ TurnStart \/ AskQuoted \/ Resolve \/ Materialized \/ Blind \/ Reply \/ Age
    \/ \E a \in turn.atts : Materialize(a)
    \/ \E m \in Messages :
         \/ Arrive(m, TRUE) \/ Arrive(m, FALSE) \/ Task(m) \/ Evict(m)
         \/ \E who \in {"arrival", "quoted", "task"} : Fetch(who, m)

Spec == Init /\ [][Next]_vars

-----------------------------------------------------------------------------
(* Properties.                                                              *)

TypeOK ==
    /\ Burst \subseteq arrived /\ arrived \subseteq Messages
    /\ disk \subseteq arrived /\ cached \subseteq arrived
    /\ \A m \in Messages : \A e \in store[m] : e \in [of : Messages, path : BOOLEAN, blocked : BOOLEAN]

\* A message whose own file the store knows does not lose it to a later pass
\* over its payload, whatever downloads end in between: only entries past their
\* day go, or one that a foreign file was filed under (FilesAreTheirs).
NeverUnlearns ==
    [][\A m \in Messages :
         (\E e \in store[m] : e.of = m /\ e.path) /\ store'[m] # {} =>
             \/ \E e \in store'[m] : e.of = m /\ e.path
             \/ \E e \in store'[m] : e.of # m]_vars

\* What was found too large for a sub-agent on arrival is not given to one
\* while its mark lasts, through every later pass over the payload.
TooLargeStays == \A m \in toolarge : <<m, m>> \notin given

\* "keying everything under the payload's top-level contextMsgId would mis-file
\* them": a file given to a sub-agent for a message is that message's own.
FilesAreTheirs == \A g \in given : g[1] = g[2]
=============================================================================
