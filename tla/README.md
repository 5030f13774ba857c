# WazzapAgent: a TLA+ verification project

WazzapAgent lets a language model take part in WhatsApp chats. A **gateway**
(TypeScript, `src/src`) keeps one WhatsApp socket per account with the Baileys
library. A **bridge** (Python, `src/python`) runs one agent session per account,
talks to the models and tells the gateway what to send. A WebSocket joins the
two: events go to Python, actions to Node, and acknowledgements back. Both
processes also share SQLite files, and an optional third process, the
**sub-agent service**, works on longer tasks and calls the bridge back.

This directory holds TLA+ modules of the parts where order, failure and timing
decide whether that works, the TLC configurations that check them on small
instances, and TLAPS proofs of the most important invariants for every value of
the constants. Paths below are relative to the repository; `PROJECT.json` maps
every definition to the lines it stands for.

| module | what it is |
|---|---|
| `ActionContract` | abstract: what the action path promises |
| `ActionDelivery` | an acknowledged action from the bridge to WhatsApp and back, with crashes, retries and receipts |
| `ChatSession` | one chat of one session: frame pump, worker, chat lock, history |
| `Answers` | one burst's way through the router and the writer, with their fallbacks, and the idle counter |
| `ReplyActions` | what a reply of the writer makes the bot do, and the memory commands it runs |
| `AccountLifecycle` | the WhatsApp socket of one account: builds, stale sockets, operators, bridge connections |
| `Supervision` | the list of accounts in the panel, the gateway's allowlist and the bridge's supervisor |
| `TaskSchedules` | scheduled and daily tasks: rows, timers and the life of the session that arms them |
| `SubagentTasks` | delegated tasks: submission, callback, state file, delivery, recovery and replay |
| `SettingCaches` | chat settings, models and memories in two processes, and the frames that keep caches fresh |
| `DbRecovery` | two processes that recover one corrupt database |
| `MessageIndex` | the short message numbers the bridge acts on, and their bounded indexes |
| `GroupRoles` | the cached roles in a group, and what is decided by them |
| `MediaPaths` | the files of messages: downloads, filing, what a sub-agent is given |
| `Mutes` | mutes: orders, the table, the cache over it, and the gate |
| `Account` | the components of one account that share no state: settings, numbers, roles, files, replies, mutes |
| `Installation` | those of one installation: database, accounts, turns, tasks, chat |
| `ActionDeliveryProofs`, `ChatSessionProofs`, `AccountLifecycleProofs`, `TaskSchedulesProofs` | theorems of the module of that name |
| `SubagentProofs` | theorems of `SubagentTasks` |
| `GatewayProofs` | theorems of `Account` about `MessageIndex` and `GroupRoles` |
| `SessionProofs` | theorems of `Account` about `SettingCaches`, `MediaPaths`, `ReplyActions` and `Mutes` |
| `InstallationProofs` | theorems of `Installation` about `DbRecovery`, `Supervision`, `ChatSession` and `Answers` |
| `MC*` and `*.cfg` | small instances for TLC |

To check: `tlc -config ActionReceipts.cfg MCActionDelivery.tla` (and so on, see
the table of runs) and `tlapm ActionDeliveryProofs.tla`.

## 1. Inventory

For each component: its state, its operations, what makes it hard, and what
makes it correct. `PROJECT.json` lists each with its status, and 40 hazards at
the line where they bite, with the properties that look at them; two go wrong in the code
and are covered by none, for the reason given there.

### The link and the action path (`ActionDelivery`)

* **wasocket transport** (`python/wasocket/transport.py`). State: the connection,
  the reliable queue, the supervisor and heartbeat tasks. Operations: connect,
  `send` (best effort), `send_reliable`, flush, close. Hard: the socket counts as
  connected before the handshake is complete; a frame is written, queued or
  refused depending on a moment; a flush may fail half way.
* **wasocket SDK** (`socket.py`, `correlation.py`). State: `PendingAcks`, one future
  and timer per request id. Operations: `_dispatch_action` (three attempts with one
  id), route a frame, disconnect. Hard: late acks, timers that race them, a
  retry of an action that is still executing. Correct if every caller gets one
  answer, and *ok* only for what happened.
* **WebSocket server and account registry** (`server/wsServer.ts`,
  `server/accountRegistry.ts`). State: one entry per account with its client, its
  WhatsApp socket, its status and its reliable queue; tombstones of removed
  accounts; the configured accounts with their credentials. Operations: hello,
  bind, unbind, send, flush, allow, block. Hard: half-open connections, the
  close of an old connection that comes after a new one was bound, an account that is
  removed while an admitted hello waits for its socket.
* **action dispatcher** (`account/actionDispatcher.ts`). State: the receipt cache
  and file, claims in progress, captured replies, the chain of writes. Operations:
  readiness gate, claim, execute, capture, store, replay. Hard: a crash between
  any two of these, failing writes, duplicates in the middle. Correct if no
  request reaches WhatsApp twice and *ok* means it did.

### The agent session (`ChatSession`, `Answers`, `ReplyActions`)

* **session, frame pump, event router** (`bridge/session.py`, `agent/event_router.py`).
  The pump reads every frame of the account in order and awaits its handler.
  Hard: a handler that waits for something only the pump can bring.
* **batch processor** (`agent/batch_processor.py`). State per chat: payloads that
  wait, a worker task, the chat lock, the history. Operations: queue a message,
  drain a burst, run its commands, route it, decide, reply. Hard: messages that
  arrive at any await, interrupts in hybrid mode, `/reset` that comes by two routes.
* **ack hydrator, chat re-invoker** (`agent/ack_hydrator.py`, `agent/chat_reinvoker.py`).
  Tasks beside the worker that read and write the same history. Correct if turns
  exclude each other, own messages are remembered once, user turns stay in order,
  a reset is a boundary, and nothing that waits is forgotten.
* **LLM clients** (`llm/llm1.py`, `llm/llm2.py`, `llm/client.py`). State: the targets
  in order, the attempt, whether media is still shown. Hard: each target fails in its own
  ways, a refusal of media changes the next call, a validator that raises ends
  the turn. Correct if nothing gives up while something is left to ask.
* **idle trigger** (`agent/idle_trigger.py`). State: messages since the bot last spoke.
  Hard: each of the many ways a turn ends must reset or keep the counter.
* **reply actions** (`messaging/actions.py`). A parser of control lines or tool calls with
  three blocks that may be open. Hard: what a block does to the one before it,
  commands merged across a reply. Correct if no line is lost or sent twice and
  what is named is what is deleted.

### Tasks and the life of a session (`TaskSchedules`, `Supervision`)

* **scheduled and daily tasks** (`agent/scheduled_task_runner.py`,
  `agent/daily_task_runner.py`, `bridge/db/*_tasks_repository.py`). State: a row per task
  in `settings.db`, an asyncio timer per armed task, and for daily tasks the map
  `_timers`. Operations: schedule, fire, re-arm what is stored, delete the daily tasks of a chat.
  Hard: frames arrive while a session starts, a timer is cancelled at any await,
  the process stops between a message and the deletion of its row, WhatsApp drops
  after the timers were armed. Correct if what is stored has a timer, what is deleted
  stays quiet, and no task is lost or answered twice.
* **account supervisor and account list** (`bridge/account_supervisor.py`,
  `bridge/accounts.py`, `account/accountCatalog.ts`). State: the catalog file, the allowlist in
  the gateway, one session per account in the bridge with a slot that gives it its ports.
  Operations: add, remove, poll, reconcile, start, stop. Hard: a file read while it
  is written, a stop that takes long, crashes of either process between two writes.
  Correct if the three lists come to agree.

### Delegated tasks (`SubagentTasks`)

* **coordinator, tracker, webhook** (`agent/subagent_coordinator.py`, `subagent/tracker.py`,
  `subagent/webhook_server.py`). State: the state file with active tasks, results, tombstones
  and delivery marks; a waiter per task; the set of sessions under recovery. Four actors
  deliver the same result: the waiter, its recovery, the webhook's recovery and the replay at
  start. Hard: they meet after any await, the file may fail to be written, the gateway refuses
  or loses the answer, a process stops between a part and its mark, and the waiter may have
  given up when the result comes. Correct if an acknowledged result is durable, a settled one
  was shown, and a stored one settles.

### The gateway's accounts (`AccountLifecycle`)

* **Baileys life cycle** (`account/baileysFactory.ts`). State: `entry.sock`,
  `entry.waStatus`, `socketBuilds`, the cooldown after a failed pairing, the auth folder.
  Operations: create or resume, build, listen, reconnect, disconnect, stop.
  Hard: updates of replaced sockets, several who ask for a build at once, operations
  that arrive during a build or a logout. Correct if one socket lives, the registry holds it,
  its status is true and it comes back.
* **control panel** (`controlPanel/server.ts`): account operations here; settings, models and
  memories in `SettingCaches`; the catalog in `Supervision`.

### What both processes read and write (`SettingCaches`, `DbRecovery`, `Mutes`)

* **settings repositories and caches** (`bridge/db/core.py` and its repositories, `db/`,
  `wa/commands/*`). State: rows per chat with a global row, the model catalog, memories; the
  bridge's caches; frames on their way. Hard: caches never expire, so a write whose frame is
  missing, late or lost is never noticed; the bridge stores models a second time when the
  frame arrives. Correct if whatever is stale has a frame on its way.
* **database recovery** (`db/Database.ts`, `bridge/db/core.py`). Two processes find the same
  corruption and must not move each other's new file away.
* **moderation** (`db/moderation_repository.py`, `agent/mute_gate.py`): rows, a cache
  of three kinds of entry, expiry.

### Messages, groups and files (`MessageIndex`, `GroupRoles`, `MediaPaths`)

* **identifiers, inbound, send queue** (`wa/domain/identifiers.ts`, `wa/inbound.ts`, `wa/outbound*`).
  State: a counter per chat, two bounded maps, a line of sends per chat. Hard: numbers are
  allotted before an await and indexed after it, sends fail midway, maps evict, numbers wrap.
* **group context** (`wa/domain/groupContext.ts`) and who uses it: commands, buttons, kicks,
  name lookups. State: a snapshot with its age, a fetch callers share, a cooldown. Hard: a notice
  arrives while a fetch is under way; a storm of refusals.
* **media resolver** (`media/resolver.py`). State: paths by message, marks of what is too
  large, downloads under way. Hard: downloads end in any order, payloads are processed twice.

### How the parts interact

    chat users -> Baileys -> gateway --frames--> frame pump -> worker -> models
                     ^        |   ^                  |            |
                     |   receipts | hello, actions   |            +-- sub-agent service
                     +-- dispatcher <--- SDK, reliable queue <----+        |
                              |                                   ^        |
                              +-- acks --> registry queue --> PendingAcks  |
                                                                  webhook <+
    panel -> catalog file -> supervisor        gateway <- settings.db -> bridge

The models meet at few places. `ActionDelivery` has one event for the
handshake (`BindClient`) and one bit for WhatsApp (`waReady`); `AccountLifecycle`
is what decides when these happen. `ChatSession` has one step for "a message is
sent" and a later, possible ack; `ActionDelivery` is what lies between them, and
`ReplyActions` what is sent. Its free choice of what the models answer is `Answers`. A timer of
`TaskSchedules` and a result of `SubagentTasks` end in a cold turn of `ChatSession`, of which they
keep only the lock, the order of the awaits and whether a message was sent. `Supervision` starts
the session that `TaskSchedules` follows, and between its `Hello` and its `BindClient` lies the build of `AccountLifecycle`.
`SettingCaches` relies on the reliable queue of the registry and on the serial pump.
Components that share no state are composed side by side (`Account`, `Installation`), one at a time, and checked in one run each.


## 2. The models and the code

### ActionDelivery

State is split as the processes are: the caller's side (`call`, `attempt`,
`queue`, `closed`), the link (`link`, `session`, `toNode`, `toPy`), the registry entry
(`client`, `outQ`), the dispatcher (`cache`, `loaded`, `stage`, `captured`,
`writes`, `snap`), the receipt file (`disk`) and two histories (`effects`, `faults`).
`stage` is the place of a request in `dispatchAction`: claimed and waiting for the
write, executing, executed, waiting for the write of its result.

* `Start`, `SendTimeout`, `AckTimeout`, `ReceiveReply`: `_dispatch_action` and `PendingAcks`.
* `Connect`, `BindClient`, `HelloAck`, `Drop`, `NodeClose`, `RejectBeforeHello`: the
  link. A frame written before hello_ack is rejected with its connection.
* `DispatchAction`, `StartWrite`, `FinishWrite`, `Perform`, `Finish`: the dispatcher.
  Writes are chained, and each stores the cache of the moment its turn comes.
* `Disconnect`, `PyRestart`, `NodeRestart`, `WaClose` and failing writes are faults.

A request is its id: retries carry the same payload, so the branches for another
fingerprint are left out. The reply `ok=false` and the `error` that follows it
are one reply, as only the first settles the future.

`ActionContract` is the promise: performed at most once, *ok* only after that,
an error at any time, and a restarted bridge may forget and ask again.
`ImplementsContract` checks that `ActionDelivery` implements it under the mapping
`times <- effects`, `answer <-` what the caller holds.

### ChatSession

A step runs from one await to the next. The variables name the code's: `pending`,
`interrupt` and `worker` are the fields of `PendingChat`, `lockQ` the asyncio lock
with its waiters in order, `history` is `per_chat`, `registered` is
`pending_send_request_chat`. `worker` is where the chat's task stands: drained,
in its commands, waiting for the lock, in LLM1, applying the decision, waiting
for a download, in LLM2.

Messages have a kind, which says whether they trigger, are a command, or are only
context. What the models answer, when a burst is quiet and when the idle trigger
fires are free choices here (`Answers` has the mechanism). Echoes of own messages, acks, the two
frames of `/reset` and the download ack arrive in any order the gateway can produce.

### Answers

One burst from the router to the writer. `targets` are those of the call under way and `at` the one
being asked, `offered` those configured now, `silent` the counter of `agent/idle_trigger.py`. Each call
ends as the code tells its endings apart; `asked` records the calls of a stage and how they ended, `end` how
the turn did. `Configure` and `SetIdle` change the targets and the limits between two steps, as the
caches of the bridge change under a running turn.

### ReplyActions

`Lines` and `Calls` are the two parsers of `messaging/actions.py`: a fold over the control lines or tool
calls with at most one open reply, reaction and sticker; `Perform` is the loop of the batch over the
actions, `Execute` what `/memory` does at the gateway. The commands of one reply run concurrently,
so `running` is a set.

### AccountLifecycle

`entry` is the registered `AccountEntry` (an entry leaves the registry with its
socket detached, so the fields of others do not matter), `builds` is
`socketBuilds`, `waiters` the hellos that wait for the build, `wa` the life of each socket,
`owner` the entry that the listener of each socket was made for. A detached socket is
`leaving` (it logs out) or `ended`, and still delivers a close later.

* `FinishBuild` is the end of `buildSocket` with the wake-up of everyone who waited:
  these are microtasks and precede any other event.
* `Heard` is the listener's guard; `HandleClose` its three branches: a first
  pairing that failed cools down, a lost connection is rebuilt, a logout empties the auth.
* `Reconnect`, `Disconnect` (up to ten seconds: `LogoutEnds`, `AuthEmptied`),
  `Remove`, `Add`, `Pair`: the operations of the control panel.
* `CodeRefused`: a pairing code is refused, and the entry cools down even if the
  socket that asked was replaced.
* `BridgeConnect` has one assumption: the bridge waits before it reconnects, so an
  earlier hello was read by then.

### Supervision

Three copies of one list: `catalog` with its `file` (a write is a temporary file and a `Rename`), the
gateway's `allowed`, `blocked` and `tokens`, and the bridge's `sessions`, which `Poll` compares with the
file into `todo`, the plan that `Close`, `Start` and `Reconciled` work off with an await between any two.
`links` is what becomes of the connection of each session: `Hello` checks the credential, the allowlist and the tombstone and
then awaits `createOrResumeAccount` (`"asked"`), `BindClient` binds without a second look (`"bound"`). A removal closes only a
bound client, so a hello that waits survives it (`"overtaken"`) and is bound later (`"late"`). Either process may die in between and may be started again; `Break` and `Mend`
are a file that someone edits by hand.

### TaskSchedules

`phase` is the place of `AgentSession.run`: connecting, waiting for WhatsApp,
recovering sub-agents, running, closing, closed, cancelled. The frame pump runs beside
it from `waiting` to `closing`, which is why its handlers are guarded by `Up` and not by
`run`. A timer is named by its task and by what armed it, `"frame"` or `"rearm"`; `pc` is
where it stands: new, asleep, due and waiting for the chat lock, in the model call,
leaving `typing_indicator`, sending. `cancel` holds the timers that will see
`CancelledError` when they next run, `slot` is `DailyTaskRunner._timers`.

* `HandleAdd`, `HandleDelete`, `PumpReplies`, `HandleStatus`: the handlers of the pump. The
  reply to a deletion waits for the chat lock, and the pump with it.
* `Start`, `Connects`, `GateOpens`, `RearmPending`, `StopRequested`, `Closes`, `CancelAll`,
  `SessionEnds`, `Crash`: the session. The socket is closed before the timers are
  cancelled, as in the code.
* `TimerStarts`, `TimerWakes`, `TakesLock`, `ModelReturns`, `TypingEnds`, `Sends`,
  `SendFails`, `CancelTakes`: a timer. The end of a turn is one step with what follows it:
  a one-shot task deletes its row (which may fail), a daily task arms the next day.
* `Cancelled`: `Task.cancel` of a timer that leaves `typing_indicator` may be lost. That
  function cancels its keep-alive task and awaits it under `suppress(CancelledError)`, so
  a cancellation of the timer that arrives during this await is suppressed too. The
  step has both outcomes.

Every row, timer and frame is of one chat with one lock. Times are left out: a timer
may wake at any time, except that what is armed during the teardown is a daily
task's next day and does not come due before the session ends. `notes` is a history
of what happened to each task; the properties name their exceptions by it.

### SubagentTasks

`mem` and `disk` are the tracker and its file: active tasks, results, tombstones, delivered parts and the
payloads prepared for a part. `waiter` is the background task of a session id, `turn` who holds a chat's lock
and which pieces are still to be sent, `rec` the set `_recovering_sessions` with who runs each recovery, `call`
the callbacks being handled, `gate` the gateway's receipt of each part.

* `SubmitBegin`, `SubmitRegister`, `Submitted`, `SubmitFails`, `WaitTimesOut`, `Woken`: a task until its result.
* `DeliverBegin`, `Compose`, `Prepare`, `Transmit`, `MarkPart`, `DeliverFinish`: the waiter under the lock; `Prepare`
  to `MarkPart` are shared with the recoveries, as the persisted parts and their request ids are in the code.
* `CorrectionDropped`, `CorrectionLaunched`, `CorrectionRaises`: the model asked for another attempt.
* `RecoverBegin`, `RecoverLocked`, `RecoverFinish` with `LoopEnds` and `CallbackEnds`: a recovery for each of its three callers.
* `CallbackArrives`, `CallbackFetched`, `CallbackStores`, `CallbackFails`: the three steps of a callback, between which it awaits.
* `Opened`, `ReplayNext`, `Restart`, `Reset`: the session. What may fail is a `Fault` of its own kind.

### SettingCaches

The database (`row`, `memory`, `catalog`), the bridge's caches of each of them, and the frames on their way: `queue`
while the bridge is away, `wire` when it is there. A gateway handler's statements and its frames are one step, since
there is no await between them. `Owner` and `Panel` are the writes from a chat and from the control panel, `Modelcfg`
those to the catalog; `Handle` takes the next frame, and for `set_llm2_model` stores the model a second time. `missed` and
`overtaken` are histories of the entries the code itself gives up.

### DbRecovery

Both processes run the same protocol on one path (`main`, `side`). They differ in two points: the bridge touches its lock
file between its steps and the gateway's timer for that cannot fire in synchronous code, and after a failed recovery the
bridge opens again while the gateway may be left without a connection. `pc` is the place in `withDbRecovery`, `lock` and
`stale` the lock file and its age, `robbed` says that a lock was taken from a live holder.

### MessageIndex, GroupRoles, MediaPaths, Mutes

* `MessageIndex`: `Numbering` is the inbound handler from its upsert (which allots a number) to its end (which
  indexes it and tells the bridge), and the line of sends, which allots when WhatsApp answers; the other actions are what the bridge
  does with a number it was told. `index` and `byId` evict in order of insertion.
* `GroupRoles`: `AskCached`, `AskForced` and `Button` are the three ways to judge somebody; `Read`, `FetchDone` and
  `FetchFails` are a shared fetch, `HandleNotice` empties the cache without stopping it.
* `MediaPaths`: a turn materializes its attachments with an await per download (`Fetch`), beside the downloads of
  arrivals, quoted messages and tasks; `store` is filed under the stamp the payload has.
* `Mutes`: an order with minutes that each layer clamps, a row, a cache of three kinds of entry, and the gate that
  looks at the cache first (`FromCache`, `FromRow`); `Tick` is the clock.

### Account and Installation

These compose components that share no state, those of one account in `Account` and those of one installation in
`Installation`. `part` names the one that works and the others keep their initial state, so that the states add up and do
not multiply; each part has its own constants and variables, under names of its own (`INSTANCE ... WITH`).
`MCGateway` and `MCBridge` give them values for TLC, and the proofs are about them, so that a theorem and a run state the
same property of the same specification, `GatewaySpec` or `BridgeSpec`. Components that share state are composed within one
module, as in `SubagentTasks` (service, webhook, tracker, coordinator, gateway) and `ActionDelivery`.

## 3. What is checked

| run | instance | what it shows |
|---|---|---|
| `action_receipts` | one recoverable request, three attempts, queues of 1 and 2, all seven faults, three of them | `AtMostOnce`, `OkMeansPerformed`, `ImplementsContract` |
| `action_concurrency` | two requests that share the file, its chain and both queues; two attempts, one fault of three kinds; fair | `EffectHasReceipt`, `CallsReturn` |
| `chat_turns` | all modes, kinds and faults; two messages, one send, one cold turn; history of two | `OneTurnAtATime`, `OwnOnce`, `UserTurnsInOrder` |
| `account_sockets` | two sockets, two entries, two bridge connections; pair, reconnect, disconnect, remove; failing builds and refused codes; fair | `LiveSocketIsBound`, `StatusIsTrue`, `NewestIsBound`, `Rebuilt` |
| `tasks` | one scheduled and one daily task, two sessions, one outage of WhatsApp, failing database, crashes, swallowed cancellations | `OneTimerPerDaily`, `StoredIsArmed`, `DeletedIsQuiet`, `KeptUntilServed` |
| `subagent_results` | a task and the correction that may replace it, in one chat; one callback at once; two faults among file, time-out, send, refusal, restart | `AckedIsDurable`, `SettledIsShown`, `AcceptedIsDelivered` |
| `subagent_settles` | one task, two faults among all eight; fair | `ResultsSettle` |
| `gateway` | six components, one at a time (see below) | `CachesFresh`, `ModelsKept`, `ActsOnTheMeant`, `StillActionable`, `JudgedByTheNews`, `AskedSparingly`, `NeverUnlearns`, `TooLargeStays`, `EachLineOnce`, `GateIsRight` |
| `bridge` | five components, one at a time; fair | `OneDatabase`, `Reopened`, `RegistryAgrees`, `FollowsCatalog`, `GivesUpLast`, `SilenceIsBounded`, `Served`, `ResetForgets`, `PendingHasWorker`, `Hydrated` |
| `action_acks` | one request, no fault | **violates** `ExactlyOneAck` |
| `account_removed` | two sockets, two entries, two bridge connections; no operation but removal and adding, no failing build | **violates** `NoResurrection` |
| `reply_memory` | one reply of up to two lines or calls, three memories | **violates** `NamedAreGone` |

For every property of the nine passing runs there is a mutant of the modelled code (a dropped
guard, a missing trim, an unchained write ...) under which TLC finds it violated. `TypeOK` of every
module was checked on the same instances; it stands in no configuration, as it says nothing about the code.

### Why the bounds are enough

* One request suffices for `AtMostOnce` and the refinement: receipts of different
  requests meet only in the chain of writes, the file and the queues, and
  `action_concurrency` has two for that. Three faults allow a crash, a second
  crash during recovery and a lost reply in between; three attempts are the code's own number.
  Queues of one and two entries are full in most behaviours.
* A history of two is trimmed by every turn. Two or three messages allow a burst, a
  message that arrives during the turn, and one after a reset; one send with its
  note, ack and echo gives all orders of these. A second send repeats the first.
* Two sockets are a replaced one that still speaks and its successor; two entries
  a removed one and its successor; two connections a stale one and a new one. Three sockets and
  three entries, with two connections and without refused codes, were explored once
  (8 million states) with the same result.
* Tasks meet only in the chat lock, the pump's order and the moment a session starts or
  ends, and each row, timer and slot belongs to one task: one of each kind shows every
  pairing of two turns. Each may be armed twice, by its frame and by the stored row.
  Two sessions are a stop or a crash and the session that re-arms; in `bridge` there is a third,
  for a stop during the repetition. One outage may begin and end in any phase.
* Delegated tasks meet in the chat lock and, as a correction, in each other. The second task is
  both a correction and a task beside an active one. One callback at a time is enough
  for a second one of the same task, which the service sends as long as it has no answer; two faults are a
  restart after a failed write, or a refusal after a lost answer. Two attempts stand for the four of the code.
* `gateway`: *settings* has one chat beside the global row, two models, values 0 and 1, a frame queue
  of two, two writes and one break of the link, so that a cache is filled before, between and after a
  write's two frames. *ids* has two chats with a message or a join and a send each, numbers modulo two, an index of
  two and two lives of the gateway, so that numbers wrap, repeat and are evicted. *roles* has a person, the bot
  and two changes: one before and one during a fetch. *paths* has two images, a document that is too large and one
  lost download. *actions* has every reply of up to four lines or two calls over seven tokens. *mutes* has two people, a longest mute of
  two, durations below, at and above it and four ticks.
* `bridge`: *db* has two damages and one crash; *accounts* the first account and one more, three credentials, one fault;
  *turns* lists of none, one or two targets, one retry, bursts of two and two limits with one change of them;
  *tasks* one scheduled task, three sessions, one outage; *chat* three messages with resets and a greeting, failing models.
* `Max*` constants that are not named in the modules as the code's own bound the behaviours only.
  Deadlock is not checked: a system in which nothing more is asked may stop; that it does not
  stop too early is what the liveness properties are for.

### Fairness

* `ActionDelivery!Fairness`: timers fire (`wait_for`, the ack timer), file operations
  end, handlers return or throw. Nothing is assumed about the link, WhatsApp or restarts.
* `ChatSession!Fairness`: the event loop runs every task that can run, the lock
  is handed on, and models and downloads answer or time out (each call in the code has a timeout).
  Arrival of messages is not fair.
* `AccountLifecycle!Fairness`: builds and logouts end (the logout has a timer of ten
  seconds), queued closes are delivered, the bridge's supervisor reconnects, hellos
  and closes are read. Nothing is assumed about operators or WhatsApp. `Rebuilt`
  excludes an account whose last build failed, or whose last pairing code was
  refused: the code retries neither.
* `TaskSchedules!Fairness`: the session's coroutine goes on, the timers run, the status
  of WhatsApp reaches the bridge and WhatsApp comes back. Taking the chat lock is
  strongly fair, as `asyncio.Lock` serves its waiters in order while turns come and go. A
  stop, a crash, a failing database and a lost reply are never forced. `Served` counts
  as given up a task whose turn failed or whose row could not be deleted, and leaves out a
  session whose read of the table failed: it does not try again.
* `SubagentTasks!Fairness`: the service works and sends a callback until it is acknowledged, the
  tasks of the event loop go on, downloads and writes end, the session opens and replays. A recovery is
  strongly fair: it queues for the same lock. Its exception is a part the gateway has recorded as failed (see Findings).
* `DbRecovery!Fairness`: both processes go on and a lock that is held becomes old. Damage and crashes are not forced;
  a process whose waiting time ran out may give up.
* `Supervision!Fairness`: a write that has begun ends, the supervisor polls, its closes and starts happen,
  and a session's hello is read and, once admitted, bound: the wait for the socket ends, as builds do. That the account could not be resumed
  is a fault (`Disconnect`).
  Operators, faults and the start of a process that is down are free.
* `Installation` states these per part (`BridgeFairness`), as each part's steps are steps of the whole.

## 4. What is proved

With TLAPS, for every value of the constants that satisfies their assumptions:

* `ActionDeliveryProofs`: `TypeCorrect`, `AtMostOnceAlways`, `EffectHasReceiptAlways`, `OkMeansPerformedAlways`,
  `ImplementsContractAlways`.
  `AtMostOnce` is not inductive. The argument: a request executes only with its claim
  in the file (`ClaimsAreDurable`); the chain holds each claim once and the write in
  progress holds its claim (`ChainHoldsClaims`, `WriteHoldsClaim`), so a claim is known
  durable exactly when its own write ends; and a receipt of what was performed is
  in every copy, in memory, on disk and being written, in a form that the pruning at
  load keeps (`PerformedIsKept`). So after a crash at any step the receipt is there.
  An ok may wait in many places; `OkIsEarned` says of a request that has not reached WhatsApp that neither its caller, nor a
  frame on the link or in the gateway's queue, nor any copy of its receipt holds one.
  The refinement of `ActionContract` follows step by step; besides, a frame is queued once and only while its caller waits
  (`WaitsFor`), so that a flush tells nobody anything.
* `ChatSessionProofs`:
  * `OneTurnAtATimeAlways`. Whoever is in a turn is at the head of
    the lock's queue, joining leaves the head in place and only the head releases.
  * `OwnOnceAlways` and `UserTurnsInOrderAlways`, by `MemoryInv`. The messages on their way form one line, the burst
    of the turn, what is drained, what waits and what is on the wire, each in the order of arrival and each before the
    next (`Line`); a hybrid chat's interrupt joins two neighbours, a drain moves one part to the next. What the
    history has of the user precedes what is still to be remembered (`Older`), so that it grows in order; an entry
    marked as echoed is one whose echo has been read, and no echo comes twice (`Echoed`, `EchoesOnce`), so that an
    echo finds the provisional entry or none of its message at all. A burst enters the history by a fold
    (`AppendPayloads`), and what the fold keeps is an induction over its length. The library's induction theorems
    cannot be used, but the proof by the least counterexample can: a set of prefixes that break it has a least one
    (`Least`, from `WFMin`), which is not the empty one and whose predecessor does not break it (`BurstRemembered`).
* `AccountLifecycleProofs`: `TypeCorrect`, `LiveSocketIsBoundAlways`, `OneBuildAlways`,
  `StatusIsTrueAlways`, `NewestIsBoundAlways`. The registered socket is the only live one because a build
  ends only when the entry holds none, which `OneBuild` says; and because an
  account that is not registered holds none, so that a new entry replaces nothing (`SocketInv`).
  The status is true because a socket that opened is heard by its listener until it is let
  go (`StatusInv`).
  The connection the bridge uses is the last of those that wait for the build, or is bound while nobody waits, so that
  the end of a build binds no older one after it (`ClientInv`).
* `TaskSchedulesProofs`: `TypeCorrect`, `OneTimerPerDailyAlways`, `DeletedIsQuietAlways`,
  `StoredIsArmedAlways`, `KeptUntilServedAlways`, `AnsweredOnceAlways`. The properties are
  proved together, as they support each other: a deletion reaches the timer that
  would fire because `_timers` holds every daily timer that will go on (`OneTimerPerDaily`),
  and re-arming starts a timer that is not already cancelled because a cancelled timer
  is alive (`CancelledAlive`) and nothing was re-armed before (`RearmedLater`). A new
  frame's task has no row, timer or message (`PendingIsFresh`, `UnaskedIsFresh`); a
  frame's timer beside a re-armed one was noted as early (`EarlyFrames`); so a task that
  was answered has neither row nor timer, unless it is one of the two exceptions
  (`AnsweredIsOver`), and cannot be answered again.
* `SubagentProofs`: `AckedIsDurableAlways`. Memory and file may differ, since a failed write leaves a
  registration or a reset in memory only; but never in which tasks have a result or a tombstone (`SameKept`). So what
  the webhook finds in memory when it answers is in the file too.
  `SettledIsShownAlways` and `AcceptedIsDeliveredAlways` come by one invariant (`Delivery`). A
  tombstone is written when a turn has no piece left, so the invariant says what each turn owes: a part of the result is
  still on its list, or the gateway has a receipt that it was sent, or nobody is owed it (`Fine`). A part leaves the list
  when it was sent or when the tracker says so, and the tracker is right about that, in memory and in the file, since a
  restart goes back to the file (`Right`). A waiter that was woken finds a result or a tombstone (`Waits`): with neither,
  it would send nothing and settle the task.
* `GatewayProofs`, of `GatewaySpec`:
  * `ActsOnTheMeantAlways` and `StillActionableAlways`, by one invariant (`IdsCore`) of eleven parts. A number is counted
    modulo `Modulus`, so the proof follows the allotment behind it (`nth`, a history): every number that is still to be
    found somewhere, in a handler, an index, a send or the bridge, comes from an allotment of its chat that was made for one message
    only (`Allotted`, `OneMessage`), and what may still be written into the index has not been lapped
    (`Unlapped`). Two of them with equal numbers and less than a lap apart are then one allotment, and so one message
    (`Meant`). For the second, the index holds the last insertions in their order (`InOrder`), each key once (`OneEntry`),
    and an insertion stays under the key it was made for (`KeysStay`), so that `IndexSize` later ones have to come before it is evicted.
  * `JudgedByTheNewsAlways` and `AskedSparinglyAlways`, by `GroupInv`. The first: what is cached or was read
    holds the news, or was under way when it came (`Snapshots`). The second: there is one fetch at a time, none during
    a cooldown and a cooldown per failure (`OneFetch`), and who was looked up is waited for or remembered not to be found (`LookedUp`).
* `SessionProofs`, of `GatewaySpec`:
  * `CachesFreshAlways`. An entry that differs from the database has a frame on its way that
    will clear it. After a write whose frame clears every entry there is nothing to show; for the others, only the row of a scope and
    the global row are read for its entries, so a write reaches no more entries than its frame names. A frame is lost only with the
    link or from a full queue (`Link`), and what that leaves stale is in `missed`.
  * `ModelsKeptAlways`. The property looks at scopes without a frame under way; its invariant (`Kept`) says of the others that the
    last frame about a scope brings the model chosen last. The frames are all on the wire or all in the queue (`Pipe`), whatever the link does.
  * `TooLargeStaysAlways` and `NeverUnlearnsAlways`, by `PathInv`: the mark is in the store with the entry it bars, nobody has a
    download of the document under way (`MarkLasts`), and a pass over a burst files every attachment under its own message or the
    last one, whose own attachment is among them (`OwnAmong`). The second is an action property, shown for each step that files.
  * `EachLineOnceAlways`, by `ActsInv`: the parser numbers lines as it reads them, and no line it holds has a later
    number (`LinesRead`), so that a new line is nowhere yet and the block that is closed takes its lines along.
  * `GateIsRightAlways`, by `GateInv`: a mute that is stored or cached ends when its member may speak again by the orders
    the bridge handled, and where there is none, or the cache says so, the member may.
* `InstallationProofs`, of `BridgeSpec`:
  * `OneDatabaseAlways`, by `DbInv`: as long as no lock was taken from a live holder, whoever recovers has it and moves a file only
    where it found one that still is corrupt (`Locked`); so no sound one is moved, and what a process has open is at the path or
    holds the corruption that was moved away (`Follows`).
  * `RegistryAgreesAlways`, by `RegInv`: between two steps of a write the handshake differs from the catalog only in the account that
    is added or removed (`Planned`), and a renamed file is the write's (`Placed`); so the last step makes them equal, and
    so does the read at the start of a gateway that died in between. A removed account that has a connection, or waits for one, has it by
    a hello that was waiting when the account was blocked (`Apart`): a blocked account is refused, and what is bound is closed by the removal.
  * `PendingHasWorkerAlways`: the worker sees the empty queue and ends in one step. It assumes that no command fails to answer,
    `"dump" \notin Faults`: an exception in a command leaves the worker, and with that fault TLC finds the property violated.
  * `ResetForgetsAlways`, by `MemoryInv` and `ResetInv` of `ChatSessionProofs`, whose steps are those of the chat here
    (`SameChat`): what a turn may see precedes all that is unread, and a `/reset` either is unread or precedes both.
    It assumes what the property needs, and the run too: no hybrid chat, whose interrupt merges queued messages
    without running their commands; no `"lost"` message of a `/reset`, as `clear_history` empties the history and not
    the burst that is waiting; no `"dump"` that fails, as what was drained with it is lost.
  * `GivesUpLastAlways` and `SilenceIsBoundedAlways`. `GivesUpLast` looks at a turn that is over, in whichever way it ended without a
    decision or an answer; its one exception, an answer that raises where it is read, is in the formula (see Findings);
    `Behind` says the same of the targets already left while the call is under way. The second, an action property, needs only that the
    counter is a number and the limits are known ones (`Counts`).

The assumptions are those on the constants: `Durable \subseteq Awaited \subseteq Requests`,
positive `MaxAttempts`, natural bounds, known names of kinds, modes, faults and
operators, `None` apart from the rest, scheduled and daily tasks with ids of their own, and the account of an installation without a
catalog among the accounts. For numbers, `Modulus >= 2` (the code counts modulo 10^6): with one number only, the two messages of a batch
would be one to the index; and the parts of a send are messages of the chat it goes to. TLC evaluates them in every run.

Only model-checked is liveness, which the provers do not reach: `CallsReturn`, `Hydrated`, `Rebuilt`, `Served`, `ResultsSettle`,
`Reopened`, `FollowsCatalog`. Every safety invariant and every action property of the passing runs is a theorem.

Where a module walks through a sequence it does so by recursive functions or folds, never by recursive operators.

## 5. Findings

* **Two answers for one request** (`action_acks`). When the ack timer fires while the
  action still executes, the duplicate is refused, and the refusal is captured into
  the receipt of the original. The caller is told of a failure although the message
  is sent, and every replay repeats both. `CONTRACT.md` promises exactly one.
* **A removed account comes back** (`account_removed`). TLC's behaviour: the bridge connects, its hello is admitted and starts the
  build of the socket, the account is removed, the build ends. `bindSock` and `bindClient` then make a new entry with the socket and the
  client, although the account is blocked; the tombstone is there to prevent it (`accountRegistry.ts:45-48`). `RegistryAgrees` shows that
  this is the only way for a removed account to have a connection.
* **A memory that was named stays** (`reply_memory`). When a reply deletes two memories or more, the commands are merged
  and ids that are not numbers are left out, and `07` becomes `7`; a lone deletion is passed on as it is. Ids are letters and digits.

### Behaviours the properties name

No source says what should happen instead, so they are exceptions or free choices of the models:

* Tasks: `"kept"`, a cancellation swallowed by `typing_indicator` (`messaging/gateway.py:460-485`)
  leaves a deleted daily task running, and it arms its next day; `"cutOff"`, the teardown closes the socket before it cancels the timers
  (`session.py:481-487`), so that a one-shot turn that ends in between fails to send
  and deletes its row; `"early"`, a frame handled before `rearm_pending` arms a one-shot task twice; `"again"`, a crash, a
  cancellation or a failed deletion after the message leaves the row, and the next session answers it again.
  A one-shot task that comes due while WhatsApp reconnects is deleted with nothing sent.
* Chat: an exception in a command leaves the worker with what is queued; an interrupt in hybrid mode merges queued messages
  without running their commands, so that a `/reset` among them is no boundary; replies to task commands take the chat lock inside the frame
  pump, while the turn that holds it may wait for a download ack only the pump can read, until a timeout.
* Answers: a chat's own model overrides the model of the fallback too.
* Replies: a sticker before a reply keeps the sticker open; a reply without text drops its commands (`actions.py:371`).
* Delegated tasks: a real result is lost when the bridge's own verdict was delivered first; a registration whose write
  fails stays in memory; two callbacks of one task may both pass the check before the first is stored.
* Settings: a panel request that fails half way leaves what it did; frames lost with the link leave caches stale until the next change.
* Database: the gateway's process stays without a connection after a failed query (`Database.ts:382-395`); the lock of a slow
  holder is removed as stale, and its release removes whoever's lock is there (`robbed`).
* Numbers: messages whose handlers take different time are told out of order; the numbers start again with the process, and
  a message that arrives twice has two. Groups: a fetch that was under way when a notice was handled fills the cache with
  the older roles for one period.

One exception goes against what the repository says. An express decision with a confidence above 100, or with a reason of one letter,
raises out of `call_llm1` (`llm1.py:519`), and the bot's message number as an integer raises in `actions.py:428`, through the validator at
`llm2.py:649`. The turn ends with the fallback unasked, although `llm1.py:27-29` promises the fallback for an "invalid response" and
`llm2.py:646-648` says that "an invalid result is treated like a provider failure so the next target gets a chance". `GivesUpLast` excepts
such an answer by name, and `InvalidIsAFailure` is the promise without the exception.

### Stated in the modules, checked by no run

`FilesAreTheirs` (`MediaPaths`: a quoted file may be filed under the wrong message, `resolver.py:64-73`), `BecomesLive`
(`Supervision`: a changed credential is not picked up by a running session) `UntouchedWhenBroken` (a file that cannot be parsed
counts as the built-in list, `accounts.py:139-143`), `InvalidIsAFailure` (`Answers`: the answer that raises, above), and `ResultsReplayed` (`SubagentTasks`: a refused part leaves a receipt that is replayed
for ever, `actionDispatcher.ts:1050-1113`) are violated by the models, as these behaviours are the code's. They are kept
beside the properties that hold, to show what their exceptions are for. A mute of up to 43200 minutes is accepted by the command
(`group.ts:181-197`) and cut to 1440 by the bridge (`moderation_repository.py:56`); `Longest` is the second.

## 6. Not modelled

* *direct-invoke endpoint*: a token, a size, and a cold turn of `ChatSession`.
* *reply dedup*: one look into a window of recent texts; it is updated before the send and never learns the outcome.
* *activation codes*: single statements under SQLite's atomicity.
* *update manager*: runs git and the package manager in turn and exits.
* *dashboard, logging, configuration, stickers and visual tools*: counters, wording, environment and images.
* Of `ChatSession`: the global reset, the merge window of echoes, attachments of
  sub-agents, the prompt. Of `AccountLifecycle`: pairing codes, databases. Of `ActionDelivery`: the fingerprint of a payload,
  back-off times. Of `TaskSchedules`: the times of tasks, other chats and other users of the lock, turns of more than one message,
  drops of the link (they are in `ActionDelivery`). Of `SubagentTasks`: progress, steering, queue positions, and the tracker's
  bounds of 50 results and 4096 tombstones. Of `Supervision`: the start-up checks. Of `SettingCaches`: columns the bridge does not cache.
* Hazards of the list whose lines lie in these parts carry the properties of the parts around them.
