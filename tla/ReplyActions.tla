---------------------------- MODULE ReplyActions -----------------------------
(***************************************************************************)
(* What a reply of LLM2 makes the bot do: the reply, control lines or tool *)
(* calls, is turned into actions (messaging/actions.py), which the batch   *)
(* performs in order (agent/batch_processor.py); commands run at the       *)
(* gateway, where /memory keeps entries under two-character ids            *)
(* (src/wa/commands/memory.ts).                                            *)
(*                                                                         *)
(* A message is its number; a line of text is its place in the reply.  A   *)
(* token of the model names a message, is Absent (null) or says "none"     *)
(* (None).  A command is the entries it deletes, the entry it adds, or     *)
(* something else.                                                         *)
(***************************************************************************)
EXTENDS Naturals, Sequences, FiniteSets

CONSTANTS
    Known,         \* numbers in the chat's history
    Unknown,       \* a number the model made up
    None, Absent,
    Letters,       \* ids of memory entries that are no number
    Numbers,       \* ids that read the same as a number, such as 42
    Padded,        \* ids that do not, such as 07
    Added,         \* entries a reply may add
    MaxMemories,
    MaxLines, MaxCalls   \* of a reply (model bounds)

Entries == Letters \cup Numbers \cup Padded
Tokens  == Known \cup {Unknown, None, Absent}

VARIABLES
    allowed,     \* allowed_context_ids
    fallback,    \* fallback_reply_to
    form,        \* "lines", "calls", or "done" when the actions are ready
    parts,       \* lines or calls read
    reply,       \* the REPLY_TO block: open, its target, its lines
    react,       \* the targets of an open REACT_TO line
    sticker,     \* the STICKER line: open, its target
    orphans,     \* lines outside any block
    words,       \* the places of the text lines
    actions,     \* the actions
    performed,   \* how many of them are performed
    running,     \* commands the gateway has not executed
    memory, named \* the entries, and those a command of the reply deletes

parser == <<reply, react, sticker, orphans, words>>
vars   == <<allowed, fallback, form, parts, parser, actions, performed,
            running, memory, named>>

NoReply   == [open |-> FALSE, to |-> Absent, body |-> <<>>]
NoSticker == [open |-> FALSE, to |-> Absent]

Init ==
    /\ allowed \in {Known, {}}
    /\ fallback \in Known \cup {None}
    /\ form \in {"lines", "calls"}
    /\ parts = 0
    /\ reply = NoReply /\ react = {} /\ sticker = NoSticker
    /\ orphans = <<>> /\ words = {}
    /\ actions = <<>> /\ performed = 0
    /\ running = {}
    /\ memory = Entries /\ named = {}

-----------------------------------------------------------------------------
(* Targets.                                                                 *)

Valid(t) == t \in Known \cup {Unknown} /\ (allowed # {} => t \in allowed)

\* _resolve_reply_target
Resolve(t, default) ==
    IF t = Absent THEN default ELSE IF Valid(t) THEN t ELSE None

-----------------------------------------------------------------------------
(* Actions: what is done, to which messages, with which lines or command.   *)

Act(kind, to, with) == [kind |-> kind, to |-> to, with |-> with]
SendOf(body, to) == IF body = <<>> THEN <<>> ELSE <<Act("send", {to}, body)>>

-----------------------------------------------------------------------------
(* Control lines (_extract_actions).                                        *)

Line == form = "lines" /\ parts < MaxLines /\ parts' = parts + 1
KeptByLines == UNCHANGED <<allowed, fallback, form, performed, running, memory,
                           named>>

\* Mutant: the block's lines are not forgotten with it.
FlushedKeeping == /\ reply' = [reply EXCEPT !.open = FALSE]
                  /\ actions' = actions \o SendOf(reply.body, reply.to)

\* flush_reply_block
Flushed == /\ reply' = NoReply
           /\ actions' = actions \o SendOf(reply.body, reply.to)

TextLine ==
    LET w == parts + 1
    IN  /\ Line
        /\ words' = words \cup {w}
        /\ IF sticker.open
           THEN /\ actions' = Append(actions, Act("sticker", {sticker.to}, <<w>>))
                /\ sticker' = NoSticker
                /\ UNCHANGED <<reply, react, orphans>>
           ELSE IF react # {}
           THEN /\ actions' = Append(actions, Act("react", react, <<w>>))
                /\ react' = {}
                /\ UNCHANGED <<reply, sticker, orphans>>
           ELSE IF reply.open
           THEN /\ reply' = [reply EXCEPT !.body = Append(@, w)]
                /\ UNCHANGED <<react, sticker, orphans, actions>>
           ELSE /\ orphans' = Append(orphans, w)
                /\ UNCHANGED <<reply, react, sticker, actions>>
        /\ KeptByLines

\* An open STICKER line stays open.
ReplyLine(t) ==
    /\ Line
    /\ react' = {}
    /\ reply' = [open |-> TRUE, to |-> Resolve(t, fallback), body |-> <<>>]
    /\ actions' = actions \o SendOf(reply.body, reply.to)
    /\ UNCHANGED <<sticker, orphans, words>>
    /\ KeptByLines

ReactLine(ts) ==
    /\ Line
    /\ Flushed
    /\ sticker' = NoSticker
    /\ react' = {t \in ts : Valid(t)}
    /\ UNCHANGED <<orphans, words>>
    /\ KeptByLines

StickerLine(t) ==
    /\ Line
    /\ Flushed
    /\ react' = {}
    /\ sticker' = [open |-> TRUE, to |-> Resolve(t, fallback)]
    /\ UNCHANGED <<orphans, words>>
    /\ KeptByLines

\* A reply without any action is sent as it is; otherwise what stands outside
\* the blocks is dropped.
EndOfLines ==
    LET all == actions \o SendOf(reply.body, reply.to)
    IN  /\ form = "lines" /\ parts > 0
        /\ form' = "done"
        /\ reply' = NoReply /\ react' = {} /\ sticker' = NoSticker
        /\ actions' = IF all = <<>> THEN SendOf(orphans, fallback) ELSE all
        /\ orphans' = IF all = <<>> THEN <<>> ELSE orphans
        /\ UNCHANGED <<allowed, fallback, parts, words, performed, running,
                       memory, named>>

-----------------------------------------------------------------------------
(* Tool calls (_extract_actions_from_tool_calls).                           *)

Commands == [op : {"delete"}, ids : SUBSET Entries \ {{}}]
            \cup [op : {"add"}, ids : {{e} : e \in Added}]
            \cup [op : {"other"}, ids : {{}}]

Call(new) ==
    /\ form = "calls" /\ parts < MaxCalls
    /\ parts' = parts + 1
    /\ actions' = actions \o new
    /\ UNCHANGED <<allowed, fallback, form, parser, performed, running, memory>>

\* reply_message, with the command it may carry.
CallReply(t, commands) ==
    LET to == Resolve(t, fallback)
    IN  /\ Call(<<Act("send", {to}, <<parts + 1>>)>>
                \o [i \in 1..Len(commands) |-> Act("run", {to}, commands[i])])
        /\ named' = named \cup
              UNION {commands[i].ids : i \in {j \in 1..Len(commands) :
                                                commands[j].op = "delete"}}

\* react_to_message, send_sticker
CallReact(t) ==
    /\ Call(IF Valid(t) THEN <<Act("react", {t}, <<parts + 1>>)>> ELSE <<>>)
    /\ UNCHANGED named

\* send_quiz: nothing without a question and two choices.
CallQuiz(t, complete) ==
    /\ Call(IF complete THEN <<Act("quiz", {Resolve(t, fallback)}, <<parts + 1>>)>>
            ELSE <<>>)
    /\ UNCHANGED named

CallHtml == Call(<<Act("html", {}, <<parts + 1>>)>>) /\ UNCHANGED named

\* execute_subtask: nothing at all if one of its files is not in the history.
CallSubtask(ts) ==
    /\ Call(IF ts \subseteq allowed
            THEN <<Act("confirm", ts, <<parts + 1>>), Act("subtask", ts, <<>>)>>
            ELSE <<>>)
    /\ UNCHANGED named

\* _coalesce_memory_commands: one deletion, of the ids that are numbers, then
\* the additions, then the other commands.
Coalesced ==
    LET IsRun(a)    == a.kind = "run"
        IsOther(a)  == a.kind # "run"
        IsAdd(a)    == IsRun(a) /\ a.with.op = "add"
        IsOtherRun(a) == IsRun(a) /\ a.with.op = "other"
        Deletes     == {i \in 1..Len(actions) :
                          IsRun(actions[i]) /\ actions[i].with.op = "delete"}
        ids         == UNION {actions[i].with.ids : i \in Deletes}
        indices     == ids \ Letters
        first       == CHOOSE i \in Deletes :
                          /\ actions[i].with.ids \ Letters # {}
                          /\ \A j \in Deletes :
                                actions[j].with.ids \ Letters # {} => i <= j
        merged      == IF indices = {} THEN <<>>
                       ELSE <<Act("run", actions[first].to,
                                  [op |-> "delete", ids |-> ids \cap Numbers])>>
    IN  IF indices = {} /\ SelectSeq(actions, IsAdd) = <<>> THEN actions
        ELSE SelectSeq(actions, IsOther) \o merged
             \o SelectSeq(actions, IsAdd) \o SelectSeq(actions, IsOtherRun)

EndOfCalls ==
    /\ form = "calls" /\ parts > 0
    /\ form' = "done"
    /\ actions' = Coalesced
    /\ UNCHANGED <<allowed, fallback, parts, parser, performed, running, memory,
                   named>>

-----------------------------------------------------------------------------
(* The batch performs the actions; a command only goes to the gateway, which *)
(* works on several at a time.                                              *)

Perform ==
    LET a == actions[performed + 1]
    IN  /\ form = "done" /\ performed < Len(actions)
        /\ performed' = performed + 1
        /\ running' = IF a.kind = "run" THEN running \cup {performed + 1}
                      ELSE running
        /\ UNCHANGED <<allowed, fallback, form, parts, parser, actions, memory,
                       named>>

\* /memory delete takes what it knows of the ids, /memory add is refused when
\* the memory is full.
Execute(i) ==
    LET c == actions[i].with
    IN  /\ running' = running \ {i}
        /\ memory' = CASE c.op = "delete" -> memory \ c.ids
                       [] c.op = "add" /\ Cardinality(memory) < MaxMemories
                            -> memory \cup c.ids
                       [] OTHER -> memory
        /\ UNCHANGED <<allowed, fallback, form, parts, parser, actions,
                       performed, named>>

Lines ==
    \/ TextLine \/ EndOfLines
    \/ \E t \in Tokens : ReplyLine(t) \/ StickerLine(t)
    \/ \E ts \in SUBSET (Known \cup {Unknown}) : ReactLine(ts)

Calls ==
    \/ EndOfCalls \/ CallHtml
    \/ \E t \in Tokens : CallReact(t) \/ CallQuiz(t, TRUE) \/ CallQuiz(t, FALSE)
    \/ \E ts \in SUBSET (Known \cup {Unknown}) : CallSubtask(ts)
    \/ \E to \in Tokens : CallReply(to, <<>>)
    \/ \E to \in Tokens, c \in Commands : CallReply(to, <<c>>)

Next == Lines \/ Calls \/ Perform \/ \E i \in running : Execute(i)
Spec == Init /\ [][Next]_vars

-----------------------------------------------------------------------------
TypeOK ==
    /\ allowed \in {Known, {}} /\ fallback \in Known \cup {None}
    /\ form \in {"lines", "calls", "done"}
    /\ reply.open \in BOOLEAN /\ reply.to \in Tokens
    /\ react \subseteq Known \cup {Unknown}
    /\ sticker.open \in BOOLEAN /\ sticker.to \in Tokens
    /\ \A i \in 1..Len(actions) : actions[i].to \subseteq Tokens
    /\ performed \in 0..Len(actions)
    /\ running \subseteq 1..performed
    /\ memory \subseteq Entries \cup Added /\ named \subseteq Entries

Uses(body, w) == Cardinality({i \in 1..Len(body) : body[i] = w})

\* A line of text the model wrote stands in exactly one place: in an action, in
\* the open block, or outside the blocks.
EachLineOnce ==
    \A w \in words :
        Uses(reply.body, w) + Uses(orphans, w)
        + Cardinality({i \in 1..Len(actions) : Uses(actions[i].with, w) > 0})
        = 1

\* When the commands of a reply have run, the entries it told the bot to delete
\* are gone.
NamedAreGone ==
    form = "done" /\ performed = Len(actions) /\ running = {} =>
        named \cap memory = {}
=============================================================================
