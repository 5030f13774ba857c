---------------------------- MODULE ChatSession ----------------------------
(***************************************************************************)
(* One chat of one AgentSession.  Five kinds of task of one event loop     *)
(* work on the chat's history:                                             *)
(*                                                                         *)
(*   the frame pump, which reads every frame of the account in order and   *)
(*     awaits its handler before it reads the next one;                    *)
(*   the chat's worker, flush_pending: drain a burst, run its commands,    *)
(*     then a turn under the chat lock (assemble, route with LLM1, apply   *)
(*     the decision, reply with LLM2, send);                               *)
(*   cold turns of ChatReinvoker, started by timers or by the pump itself  *)
(*     when the bot joins a group;                                         *)
(*   one task per action_ack, which fills in the id of a message sent.     *)
(*                                                                         *)
(* A step runs from one await to the next.  The chat lock is an            *)
(* asyncio.Lock: its waiters get it in the order they asked for it.        *)
(*                                                                         *)
(* Abstractions.  A message is its place in the order of arrival and its   *)
(* kind.  Texts the bot sends differ and echoes come within the merge      *)
(* window, so an echo matches one entry.  What the models answer, when a   *)
(* burst is quiet, when it is too old and when the idle trigger fires are  *)
(* free choices.  A command reply, a turn and a send write one frame.  An  *)
(* ack cannot be read between the write of a frame and the registration    *)
(* of its request by the same task.                                        *)
(***************************************************************************)
EXTENDS Integers, Sequences

CONSTANTS
    Modes,         \* the reply modes of the chat
    Kinds,         \* the kinds of message that may arrive
    HistoryLimit,  \* HISTORY_LIMIT, 20
    Faults,        \* which faults may happen
    MaxMessages,   \* how many messages arrive (a model bound)
    MaxSends,      \* how many messages the bot sends (a model bound)
    MaxRequests    \* how many cold turns and command replies are asked for
                   \* (a model bound)

ASSUME ChatAssumption ==
    /\ Modes \subseteq {"auto", "prefix", "hybrid", "private"}
    /\ Kinds \subseteq {"plain", "prefix", "context", "dump", "reset", "added", "ignored"}
    /\ HistoryLimit \in Nat \ {0}
    /\ Faults \subseteq {"lost", "dump", "error", "send"}
    /\ MaxMessages \in Nat /\ MaxSends \in Nat /\ MaxRequests \in Nat

VARIABLES
    mode,       \* the chat's mode: get_mode, or a private chat
    arrived,    \* the messages the gateway forwarded, oldest first
    sent,       \* what became of each message the bot sent
    asked,      \* cold turns and command replies asked for so far
    wire,       \* frames the pump has not read
    pending,    \* PendingChat.payloads
    interrupt,  \* PendingChat.prefix_interrupt
    worker,     \* PendingChat.task
    todo,       \* the drained messages whose command is still to be looked at
    batch,      \* non_empty_payloads
    prompt,     \* the user messages of history_before_current
    turn,       \* what the pump and a cold turn are doing
    lockQ,      \* per_chat_lock: its holder, then those who wait for it
    registered, \* pending_send_request_chat
    acks,       \* hydration tasks that have not started
    history     \* per_chat

workVars == <<interrupt, worker, todo, batch, prompt>>
ackVars  == <<registered, acks>>
envVars  == <<mode, arrived, asked, wire, pending>>
vars     == <<envVars, sent, workVars, turn, lockQ, ackVars, history>>

-----------------------------------------------------------------------------
Messages    == 1 .. Len(arrived)
Message     == [kind : Kinds \cup {"echo"}, own : 0 .. MaxSends]
Frame       == [type : {"message", "clear", "ack", "media", "command"}, id : Nat]
Entry       == [from : {"user", "own", "system"}, id : Nat,
                mark : {"none", "local", "acked", "echo"}]
WorkerTask  == <<"worker", 0>>
ColdTask    == <<"cold", 0>>
PumpTask    == <<"pump", 0>>
AckTask(n)  == <<"ack", n>>
Task        == {"worker", "cold", "pump", "ack"} \X Nat

KindOf(m)   == arrived[m].kind
Triggers(m) == KindOf(m) \in {"plain", "prefix"}
Command(m)  == KindOf(m) \in {"dump", "reset"}
IsProvisional(entry) == entry.from = "own" /\ entry.mark \in {"local", "acked"}
Spoken(entry) == entry.from # "system"
NextSend    == Len(sent) + 1
InTurn      == {"llm1", "apply", "media", "llm2"}

Init ==
    /\ mode \in Modes
    /\ arrived = <<>> /\ sent = <<>> /\ asked = 0
    /\ wire = <<>> /\ pending = <<>> /\ interrupt = FALSE
    /\ worker = "none" /\ todo = <<>> /\ batch = <<>> /\ prompt = {}
    /\ turn = [a \in {"pump", "cold"} |-> "none"]
    /\ lockQ = <<>> /\ registered = {} /\ acks = {} /\ history = <<>>

-----------------------------------------------------------------------------
(* The chat lock.                                                          *)

Join(task)  == lockQ' = Append(lockQ, task)
Holds(task) == lockQ # <<>> /\ Head(lockQ) = task
Release     == lockQ' = Tail(lockQ)

-----------------------------------------------------------------------------
(* The history.                                                            *)

\* _append_history: the oldest entries make room.
AppendEntry(h, entry) ==
    LET longer == Append(h, entry)
        excess == IF Len(longer) > HistoryLimit THEN Len(longer) - HistoryLimit ELSE 0
    IN  SubSeq(longer, excess + 1, Len(longer))

\* Mutant: an echo is appended beside its provisional entry.
AppendUnmerged(h, m) ==
    AppendEntry(h, IF KindOf(m) = "echo"
                   THEN [from |-> "own", id |-> arrived[m].own, mark |-> "echo"]
                   ELSE [from |-> "user", id |-> m, mark |-> "none"])

\* _append_or_merge_history_payload: the echo of a message the bot sent
\* replaces its provisional entry, anything else is appended.
AppendPayload(h, m) ==
    LET own   == arrived[m].own
        local == {i \in DOMAIN h : IsProvisional(h[i]) /\ h[i].id = own}
    IN  IF KindOf(m) # "echo"
        THEN AppendEntry(h, [from |-> "user", id |-> m, mark |-> "none"])
        ELSE IF local = {}
        THEN AppendEntry(h, [from |-> "own", id |-> own, mark |-> "echo"])
        ELSE [i \in DOMAIN h |-> IF i \in local THEN [h[i] EXCEPT !.mark = "echo"]
                                 ELSE h[i]]

\* One after the other: after[i] is the history with the first i of them.
AppendPayloads(h, ms) ==
    LET after[i \in 0 .. Len(ms)] ==
            IF i = 0 THEN h ELSE AppendPayload(after[i - 1], ms[i])
    IN  after[Len(ms)]

\* A message of the bot is sent and noted with no id yet.
SendOwn ==
    /\ NextSend <= MaxSends
    /\ sent' = Append(sent, "sent")
    /\ history' = AppendEntry(history, [from |-> "own", id |-> NextSend, mark |-> "local"])
    /\ registered' = registered \cup {NextSend}

-----------------------------------------------------------------------------
(* The gateway.                                                            *)

Arrive(kind) ==
    /\ Len(arrived) < MaxMessages /\ kind # "reset"
    /\ arrived' = Append(arrived, [kind |-> kind, own |-> 0])
    /\ wire' = Append(wire, [type |-> "message", id |-> Len(arrived) + 1])
    /\ UNCHANGED <<mode, asked, pending, sent, workVars, turn, lockQ, ackVars, history>>

\* /reset runs in one listener of the gateway, which sends clear_history
\* reliably; another listener forwards the message itself, best effort.
ArriveReset ==
    /\ Len(arrived) < MaxMessages /\ "reset" \in Kinds
    /\ arrived' = Append(arrived, [kind |-> "reset", own |-> 0])
    /\ LET clear   == [type |-> "clear", id |-> 0]
           message == [type |-> "message", id |-> Len(arrived) + 1]
       IN  \/ wire' = wire \o <<clear, message>>
           \/ wire' = wire \o <<message, clear>>
           \/ "lost" \in Faults /\ wire' = Append(wire, clear)
    /\ UNCHANGED <<mode, asked, pending, sent, workVars, turn, lockQ, ackVars, history>>

\* WhatsApp shows the bot its own message, once.
ArriveEcho(n) ==
    /\ sent[n] # "lost"
    /\ \A m \in Messages : arrived[m].own # n
    /\ arrived' = Append(arrived, [kind |-> "echo", own |-> n])
    /\ wire' = Append(wire, [type |-> "message", id |-> Len(arrived) + 1])
    /\ UNCHANGED <<mode, asked, pending, sent, workVars, turn, lockQ, ackVars, history>>

ArriveAck(n) ==
    /\ sent[n] = "sent"
    /\ sent' = [sent EXCEPT ![n] = "acked"]
    /\ wire' = Append(wire, [type |-> "ack", id |-> n])
    /\ UNCHANGED <<mode, arrived, asked, pending, workVars, turn, lockQ, ackVars, history>>

\* The download a turn waits for is answered.
ArriveMedia ==
    /\ worker = "media"
    /\ \A i \in DOMAIN wire : wire[i].type # "media"
    /\ wire' = Append(wire, [type |-> "media", id |-> 0])
    /\ UNCHANGED <<mode, arrived, asked, pending, sent, workVars, turn, lockQ,
                   ackVars, history>>

\* A user asks for the list of daily tasks, or deletes one.
AskCommand ==
    /\ asked < MaxRequests /\ asked' = asked + 1
    /\ wire' = Append(wire, [type |-> "command", id |-> 0])
    /\ UNCHANGED <<mode, arrived, pending, sent, workVars, turn, lockQ, ackVars, history>>

-----------------------------------------------------------------------------
(* The frame pump.                                                         *)

\* Any message but a plain one may call the bot: a prefix message does, and a
\* command or an echo of the bot may name it.
MayCall(m) == IF KindOf(m) = "prefix" THEN {TRUE}
              ELSE IF KindOf(m) = "plain" THEN {FALSE} ELSE BOOLEAN

\* dispatch_incoming: the message joins the burst, interrupts a hybrid chat's
\* LLM1 if it calls the bot, and starts a worker if there is none.
Enqueue(m) ==
    /\ pending' = Append(pending, m)
    /\ \E calls \in MayCall(m) :
          interrupt' = (interrupt \/ (mode = "hybrid" /\ calls))
    /\ worker' = IF worker = "none" THEN "awake" ELSE worker
    /\ UNCHANGED <<turn, lockQ, acks, history>>

ReadMessage(m) ==
    \/ KindOf(m) \notin {"ignored", "added"} /\ Enqueue(m)
    \/ /\ KindOf(m) = "ignored"
       /\ UNCHANGED <<pending, interrupt, worker, turn, lockQ, acks, history>>
    \/ /\ KindOf(m) = "added"
       /\ turn' = [turn EXCEPT !["pump"] = "lock"] /\ Join(PumpTask)
       /\ UNCHANGED <<pending, interrupt, worker, acks, history>>

\* The pump reads the next frame and runs its handler up to the first await.
PumpRead ==
    /\ turn["pump"] = "none" /\ wire # <<>>
    /\ wire' = Tail(wire)
    /\ LET frame == Head(wire)
       IN  \/ frame.type = "message" /\ ReadMessage(frame.id)
           \/ /\ frame.type = "clear" /\ history' = <<>>
              /\ UNCHANGED <<pending, interrupt, worker, turn, lockQ, acks>>
           \/ /\ frame.type = "ack" /\ acks' = acks \cup {frame.id}
              /\ UNCHANGED <<pending, interrupt, worker, turn, lockQ, history>>
           \/ /\ frame.type = "media"
              /\ worker' = IF worker = "media" THEN "llm2" ELSE worker
              /\ UNCHANGED <<pending, interrupt, turn, lockQ, acks, history>>
           \/ /\ frame.type = "command"
              /\ turn' = [turn EXCEPT !["pump"] = "command"] /\ Join(PumpTask)
              /\ UNCHANGED <<pending, interrupt, worker, acks, history>>
    /\ UNCHANGED <<mode, arrived, asked, sent, todo, batch, prompt, registered>>

\* _send_command_output has the lock: the reply is noted, then sent; if the
\* send raises, only its registration is taken back.
PumpCommand ==
    /\ turn["pump"] = "command" /\ Holds(PumpTask)
    /\ \/ SendOwn
       \/ /\ "send" \in Faults /\ NextSend <= MaxSends
          /\ sent' = Append(sent, "lost")
          /\ history' = AppendEntry(history,
                            [from |-> "own", id |-> NextSend, mark |-> "local"])
          /\ UNCHANGED registered
       \/ NextSend > MaxSends /\ UNCHANGED <<sent, history, registered>>
    /\ turn' = [turn EXCEPT !["pump"] = "none"]
    /\ Release
    /\ UNCHANGED <<envVars, workVars, acks>>

-----------------------------------------------------------------------------
(* Cold turns: ChatReinvoker.reinvoke, by a timer or by the pump.          *)

TaskOf(a) == IF a = "pump" THEN PumpTask ELSE ColdTask

ColdStart ==
    /\ turn["cold"] = "none" /\ asked < MaxRequests
    /\ asked' = asked + 1
    /\ turn' = [turn EXCEPT !["cold"] = "lock"]
    /\ Join(ColdTask)
    /\ UNCHANGED <<mode, arrived, wire, pending, sent, workVars, ackVars, history>>

SystemTurn(a) ==
    /\ turn[a] = "lock"
    /\ turn' = [turn EXCEPT ![a] = "llm2"]
    /\ history' = Append(history, [from |-> "system", id |-> 0, mark |-> "none"])
    /\ UNCHANGED <<envVars, sent, workVars, lockQ, ackVars>>

\* Mutant: the re-invoker does not take the lock.
BeginUnlocked(a) == SystemTurn(a)

\* The system turn is appended as it is; the history is not trimmed here.
ColdBegin(a) == Holds(TaskOf(a)) /\ SystemTurn(a)

ColdSend(a) ==
    /\ turn[a] = "llm2" /\ SendOwn
    /\ UNCHANGED <<envVars, workVars, turn, lockQ, acks>>

\* The reply is dispatched, or there is none, or a send raises.
ColdEnd(a) ==
    /\ turn[a] = "llm2"
    /\ turn' = [turn EXCEPT ![a] = "none"]
    /\ Release
    /\ UNCHANGED <<envVars, sent, workVars, ackVars, history>>

-----------------------------------------------------------------------------
(* The ack tasks.                                                          *)

\* Mutant: an ack that finds the chat busy is dropped.
AckIfFree(n) ==
    /\ n \in acks /\ acks' = acks \ {n}
    /\ registered' = registered \ {n}
    /\ IF n \in registered /\ lockQ = <<>> THEN Join(AckTask(n)) ELSE UNCHANGED lockQ
    /\ UNCHANGED <<envVars, sent, workVars, turn, history>>

\* handle_action_ack: the registration is taken before the lock is asked for.
AckStart(n) ==
    /\ n \in acks /\ acks' = acks \ {n}
    /\ registered' = registered \ {n}
    /\ IF n \in registered THEN Join(AckTask(n)) ELSE UNCHANGED lockQ
    /\ UNCHANGED <<envVars, sent, workVars, turn, history>>

AckHydrate(n) ==
    /\ Holds(AckTask(n))
    /\ history' = [i \in DOMAIN history |->
                     IF history[i].from = "own" /\ history[i].id = n
                        /\ history[i].mark = "local"
                     THEN [history[i] EXCEPT !.mark = "acked"] ELSE history[i]]
    /\ Release
    /\ UNCHANGED <<envVars, sent, workVars, turn, ackVars>>

-----------------------------------------------------------------------------
(* The chat's worker: flush_pending and process_message_batch.             *)

\* Mutant: the worker ends after a batch without another look.
ExitUnchecked ==
    /\ worker = "awake" /\ worker' = "none"
    /\ UNCHANGED <<envVars, sent, interrupt, todo, batch, prompt, turn, lockQ,
                   ackVars, history>>

Exit ==
    /\ worker = "awake" /\ pending = <<>> /\ worker' = "none"
    /\ UNCHANGED <<envVars, sent, interrupt, todo, batch, prompt, turn, lockQ,
                   ackVars, history>>

Drain ==
    /\ worker = "awake" /\ pending # <<>>
    /\ todo' = pending /\ pending' = <<>> /\ worker' = "commands"
    /\ UNCHANGED <<mode, arrived, asked, wire, sent, interrupt, batch, prompt,
                   turn, lockQ, ackVars, history>>

\* Mutant: a /reset keeps the messages of its batch that came before it.
ResetKeepsBatch(m) ==
    /\ KindOf(m) = "reset" /\ history' = <<>> /\ UNCHANGED batch

\* /reset forgets the history and the messages of its batch that precede it.
RunReset(m) ==
    /\ KindOf(m) = "reset" /\ history' = <<>> /\ batch' = <<>>

\* _process_slash_commands looks at the next message: it keeps it for the
\* turn, resets, or appends the command to the history at once.
ProcessCommand ==
    /\ worker = "commands" /\ todo # <<>>
    /\ todo' = Tail(todo)
    /\ LET m == Head(todo)
       IN  \/ ~Command(m) /\ batch' = Append(batch, m) /\ UNCHANGED history
           \/ RunReset(m)
           \/ /\ KindOf(m) = "dump" /\ history' = AppendPayload(history, m)
              /\ UNCHANGED batch
    /\ UNCHANGED <<envVars, sent, interrupt, worker, prompt, turn, lockQ, ackVars>>

\* The dump cannot be sent, and neither can the message that says so: the
\* exception ends the worker and what it had drained.
CommandFails ==
    /\ "dump" \in Faults
    /\ worker = "commands" /\ todo # <<>> /\ KindOf(Head(todo)) = "dump"
    /\ history' = AppendPayload(history, Head(todo))
    /\ worker' = "none" /\ todo' = <<>> /\ batch' = <<>>
    /\ UNCHANGED <<envVars, sent, interrupt, prompt, turn, lockQ, ackVars>>

\* What the commands left is a turn of the chat: it asks for the lock.
AskLock ==
    /\ worker = "commands" /\ todo = <<>>
    /\ IF batch = <<>>
       THEN worker' = "awake" /\ UNCHANGED lockQ
       ELSE worker' = "lock" /\ Join(WorkerTask)
    /\ UNCHANGED <<envVars, sent, interrupt, todo, batch, prompt, turn, ackVars, history>>

\* The turn is over: the lock is free and the worker looks for more.
TurnOver ==
    /\ worker' = "awake" /\ batch' = <<>> /\ prompt' = {}
    /\ Release
    /\ UNCHANGED <<envVars, sent, todo, interrupt, turn, ackVars>>

\* A burst with no trigger, or too old a trigger, is only remembered; so is one
\* that does not call the bot in prefix mode.
RememberOnly ==
    /\ worker = "lock" /\ Holds(WorkerTask)
    /\ history' = AppendPayloads(history, batch)
    /\ TurnOver

\* _assemble_burst and the start of _run_llm1.  Private chats, and bursts that
\* call the bot or wake it after a silence in prefix and hybrid mode, need no
\* routing; in hybrid mode an interrupt of the past is forgotten.
BeginTurn ==
    /\ worker = "lock" /\ Holds(WorkerTask)
    /\ \E i \in DOMAIN batch : Triggers(batch[i])
    /\ prompt' = {history[i].id : i \in {j \in DOMAIN history : history[j].from = "user"}}
    /\ LET called == \E i \in DOMAIN batch : KindOf(batch[i]) = "prefix"
       IN  IF mode \in {"private", "prefix"} \/ (mode = "hybrid" /\ called)
           THEN worker' = "apply" /\ UNCHANGED interrupt
           ELSE worker' = "llm1" /\ interrupt' = FALSE
    /\ UNCHANGED <<envVars, sent, todo, batch, turn, lockQ, ackVars, history>>

\* LLM1 answers.
Route ==
    /\ worker = "llm1" /\ ~interrupt
    /\ worker' = "apply"
    /\ UNCHANGED <<envVars, sent, interrupt, todo, batch, prompt, turn, lockQ,
                   ackVars, history>>

\* Mutant: the messages merged into the running turn stay pending.
InterruptUndrained ==
    /\ worker = "llm1" /\ interrupt
    /\ batch' = batch \o pending /\ UNCHANGED pending /\ interrupt' = FALSE
    /\ worker' = "apply"
    /\ UNCHANGED <<mode, arrived, asked, wire, sent, todo, prompt, turn, lockQ,
                   ackVars, history>>

\* A hybrid chat's LLM1 is cancelled: all that is pending joins the turn.
Interrupt ==
    /\ worker = "llm1" /\ interrupt
    /\ batch' = batch \o pending /\ pending' = <<>> /\ interrupt' = FALSE
    /\ worker' = "apply"
    /\ UNCHANGED <<mode, arrived, asked, wire, sent, todo, prompt, turn, lockQ,
                   ackVars, history>>

\* _apply_llm1_decision: the burst enters the history; the decision is silence
\* (or a reaction), or a reply, which may need a download first.
Apply ==
    /\ worker = "apply"
    /\ history' = AppendPayloads(history, batch)
    /\ \/ TurnOver
       \/ /\ worker' \in {"media", "llm2"}
          /\ UNCHANGED <<envVars, sent, todo, batch, prompt, interrupt, turn,
                         lockQ, ackVars>>

\* The last attempt of the download times out; the turn goes on without it.
MediaTimeout ==
    /\ worker = "media" /\ worker' = "llm2"
    /\ UNCHANGED <<envVars, sent, interrupt, todo, batch, prompt, turn, lockQ,
                   ackVars, history>>

Reply ==
    /\ worker = "llm2" /\ SendOwn
    /\ UNCHANGED <<envVars, workVars, turn, lockQ, acks>>

EndTurn == worker = "llm2" /\ TurnOver /\ UNCHANGED history

\* An exception anywhere in the turn: it ends, the lock is free.
HandlerError ==
    /\ "error" \in Faults /\ worker \in InTurn /\ worker # "media"
    /\ TurnOver /\ UNCHANGED history

-----------------------------------------------------------------------------
Gateway == \/ \E kind \in Kinds : Arrive(kind)
           \/ \E n \in DOMAIN sent : ArriveEcho(n) \/ ArriveAck(n)
           \/ ArriveReset \/ ArriveMedia \/ AskCommand
Pump    == PumpRead \/ PumpCommand
Cold(a) == ColdBegin(a) \/ ColdSend(a) \/ ColdEnd(a)
Ack(n)  == AckStart(n) \/ AckHydrate(n)
Worker  == \/ Exit \/ Drain \/ ProcessCommand \/ CommandFails \/ AskLock
           \/ RememberOnly \/ BeginTurn \/ Route \/ Interrupt \/ Apply
           \/ MediaTimeout \/ Reply \/ EndTurn \/ HandlerError

Next == \/ Gateway \/ Pump \/ Worker \/ ColdStart
        \/ \E a \in {"pump", "cold"} : Cold(a)
        \/ \E n \in 1 .. MaxSends : Ack(n)

Spec == Init /\ [][Next]_vars

\* The event loop runs every task that can run; models and timers answer.
Fairness == /\ WF_vars(Pump) /\ WF_vars(Worker)
            /\ \A a \in {"pump", "cold"} : WF_vars(Cold(a))
            /\ \A n \in 1 .. MaxSends : WF_vars(AckStart(n)) /\ WF_vars(AckHydrate(n))

FairSpec == Spec /\ Fairness

-----------------------------------------------------------------------------
TypeOK ==
    /\ mode \in Modes
    /\ arrived \in Seq(Message)
    /\ sent \in Seq({"sent", "acked", "lost"}) /\ Len(sent) <= MaxSends
    /\ asked \in 0 .. MaxRequests
    /\ wire \in Seq(Frame)
    /\ pending \in Seq(Messages) /\ todo \in Seq(Messages) /\ batch \in Seq(Messages)
    /\ interrupt \in BOOLEAN
    /\ worker \in {"none", "awake", "commands", "lock"} \cup InTurn
    /\ prompt \in SUBSET Messages
    /\ turn \in [{"pump", "cold"} -> {"none", "lock", "llm2", "command"}]
    /\ lockQ \in Seq(Task)
    /\ registered \in SUBSET (1 .. MaxSends) /\ acks \in SUBSET (1 .. MaxSends)
    /\ history \in Seq(Entry)
    /\ Len(SelectSeq(history, Spoken)) <= HistoryLimit

\* One turn at a time: the worker, a cold turn and a turn of the pump never
\* work on the chat's history together (per_chat_lock).
OneTurnAtATime ==
    /\ worker \in InTurn => Holds(WorkerTask)
    /\ \A a \in {"pump", "cold"} : turn[a] = "llm2" => Holds(TaskOf(a))

\* The bot remembers each message it sent once, whichever of the ack, the echo
\* and the note of the send comes first and whatever was trimmed or forgotten.
OwnOnce ==
    \A i, j \in DOMAIN history :
        /\ history[i].from = "own" /\ history[j].from = "own"
        /\ history[i].id = history[j].id
        => i = j

\* The turns of the user stand in the history in the order of their arrival,
\* each once: merged, drained and remembered bursts never reorder or repeat.
UserTurnsInOrder ==
    \A i, j \in DOMAIN history :
        /\ i < j /\ history[i].from = "user" /\ history[j].from = "user"
        /\ ~Command(history[i].id) /\ ~Command(history[j].id)
        => history[i].id < history[j].id

\* A turn never works with a message that came before a /reset that came before
\* one of its own messages (_process_slash_commands and clear_history).
ResetBetween(p, m) == \E k \in p + 1 .. m - 1 : KindOf(k) = "reset"
ResetForgets ==
    worker \in InTurn =>
        \A i, j \in DOMAIN batch :
            /\ ~ResetBetween(batch[j], batch[i])
            /\ \A p \in prompt : ~ResetBetween(p, batch[i])

\* Messages that wait have a worker (flush_pending keeps the same task alive).
PendingHasWorker == pending # <<>> => worker # "none"

\* The id of a message that was acknowledged reaches the history: no entry stays
\* without one once the gateway has answered, however busy the chat is.
Awaits(n) ==
    /\ n \in DOMAIN sent /\ sent[n] = "acked"
    /\ \E i \in DOMAIN history :
         history[i].from = "own" /\ history[i].id = n /\ history[i].mark = "local"
Hydrated == \A n \in 1 .. MaxSends : []<>(~Awaits(n))
=============================================================================
