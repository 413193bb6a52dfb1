# TLA+ verification of hive-claw

hive-claw is a Rust workspace around an LLM agent: chat channels feed a message
bus, an agent loop turns each message into a run of a model with tools, sessions
are kept in files, a cron service starts turns on its own, and a second program
(hiveweb) serves a public assistant from a catalog of agents, tools, workflows and
WASM plugins that administrators edit while it runs.  This directory holds TLA+ models of
the parts whose correctness depends on interleavings, failures and order, the TLC
configurations that check them on small instances, and TLAPS proofs.

Paths below are relative to `src/`.

## 1. Inventory

### How the parts interact

    channel adapters --publish_inbound--> MessageBus --consume--> AgentLoop::run
                                                                    | spawn, gate (3)
    cron timer ----- on_job handler ------------------------> process_inbound
    heartbeat ------ tick handler --------------------------> process_inbound
    HTTP API ------- AgentLoopApi::generate ----------------> process_message
                                                                    |
           SessionManager (one async mutex, cache + files) <--------+
           tools: message, cron, spawn, files ...          <--------+
           LlmProvider (FallbackProvider -> presets)       <--------+
                                                                    |
    channel adapters <--send_once-- dispatch_outbound <--MessageBus-+

    assistant request -> quota (Redis), slot, session (MySQL) -> orchestrator task
        orchestrator hop -> fetch_content (Redis cache over MySQL) -> hooks, model, tools
        tool or hook -> PluginInvoker -> InstancePool, or WorkflowExecutor
    administrators -> services (plugins, functions, tools, agents, workflows) -> MySQL, S3, Redis

Everything runs on one multi-threaded tokio runtime.  Interaction is by calls into
shared objects behind mutexes, by the two lanes of the bus, by callbacks (cron and
heartbeat handlers, stream deltas), by files shared between two cron services, by
rows, keys and row locks in MySQL and Redis, and by `JoinHandle::abort` and dropped
futures, which cut a task at its next await.

### Components

| component | state | operations | what is hard | what makes it correct |
|---|---|---|---|---|
| message bus `crates/bus` | two unbounded channels, receiver mutex, atomic counter | publish, consume, size | counter and channel are two steps; consume is dropped by timeouts | FIFO, nothing lost or doubled, receiver never left locked, counter exact when quiet |
| cron service `crates/cron` | `Inner` (store, running, timer_active, timer handle), `jobs.json`, `action.jsonl` | start, stop, add/remove/enable/update/run/register/list, timer task | lock given up during handlers; every change aborts and respawns the timer; a second service appends to the log; crashes | one timer task; always armed while running; due jobs do not starve; the durable list changes only as asked |
| cron tool `agent/src/tools/cron.rs` | a CronService never started | add, remove, list | shares the directory with the started one | as above |
| channel manager `crates/channels/src/manager.rs` | replay buffer, message in hand | filter, coalesce, send with retry, start, stop | publishers race the drain of deltas; one task for all chats | FIFO per chat, streams apart, nobody blocked |
| agent loop, bus turns `agent/src/loop_.rs` | gate, active tasks, message tool context | run, process_inbound, cancel_active_tasks | lock released during the model call; three turns and cron turns at once; abort | whole exchanges, nothing overwritten, permits returned |
| agent loop, API turns `loop_.rs`, `cli/src/adapter.rs` | semaphore per session, TurnContext | generate, process_message | offsets into a message list (`save_skip`), interrupted turns | one turn per session, outputs saved once |
| session manager `crates/session` | cache, JSONL files | get_or_create, save, history selection, trimming | save fails half way; legal tool-call boundaries | cache = file; history is a legal message list |
| fallback provider `providers/src/fallback_provider.rs` | failure counter, trip time | chat, chat_stream | two shared words updated apart; failure after streaming | one voice, whole chain, breaker consistent |
| plugin pool `hiveweb/src/runtime/{pool,invoker}.rs` | idle queues, in_use, gauges | acquire, release, invoke | cold starts without lock; blocking calls outlive futures | reset before reuse, gauges account for all |
| agent runner `agent/src/runner.rs` | messages of a run, retry counters | iterations, responses, tool execution, context governance | damaged histories, cuts inside a tool block, counters that reset each other | requests whose calls and results match, the current turn kept, an end |
| subagents `agent/src/subagent.rs` | registry of tasks | spawn, completion, cancel | completion before registration | planned |
| heartbeat `crates/heartbeat` | task handle | start, stop, tick | `blocking_lock` in the runtime, tick survives stop | planned |
| memory, dream, autocompact `agent/src/{memory,autocompact}.rs` | history file, cursor, archiving set | append, dream, compact | cursor against concurrent appends | planned |
| agent context `agent/src/context/` | lifecycle, lock, merge | acquire, merge | merge conflicts | planned |
| hiveclaw gateway `crates/hiveclaw` | stream per request | OpenResponses requests | cancellation | planned |
| assistant API and orchestrator `hiveweb/src/{api/chat_assistant,api/chat_common,runtime/orchestrator,runtime/hook}.rs` | quota key, slots, sessions, one task per request | charge, refund, slot, session, hop, hooks, routing, finalize | the client leaves at any await; the key expires; the task outlives the handler; cyclic catalogs | quota exact, failures free, turns apart, no return, everything settles |
| workflow executor `hiveweb/src/runtime/workflow`, `services/workflow.rs` | rows of the graph, indegrees, outputs of a run | put_graph, delete, load, layers, timeout | three reads without a transaction; doubled edges; the cycle check is what the executor relies on | nodes after their ancestors, never stuck |
| catalog services `hiveweb/src/services/{plugin,function,tool,agent}.rs` | rows, S3 objects, row locks, cached contents | upload, create, update, delete, fetch_content | check-then-act across statements, soft deletes, cascades, invalidation | no dangling reference, no binding lost, no stale content |
| hooks CRUD, skills, accounts, games, settings in `hiveweb/src/services` | rows | CRUD | limits checked before the insert | not modelled |
| providers, channel adapters, tools, commands, config, CLI, GUI, web front ends | wire formats, I/O, presentation | | | not modelled |

`PROJECT.json` lists each component with its sources and status, and the hazards
line by line with the properties that cover them.

## 2. Modules and how they correspond to the code

A step of a model is one critical section of the mutex that guards the state (or
one atomic operation): that is the grain at which the tasks of the runtime can
interleave.  Text, ids and payloads are model values.  Operators marked "Broken
variant" are deliberate mistakes; no specification uses them, they are what the
properties are tested against.

**BusLane** (`bus/src/queue.rs`, `Lane`).  `Send`/`FetchAdd` are the two steps of
`publish`, `StartConsume`/`LockRx`/`Recv`/`FetchSub` those of `consume`,
`DropConsume` the caller's `tokio::time::timeout` at either await.  The counter is
a machine word: arithmetic is modulo `WordSize`.

**CronService** (`cron/src/service.rs`).  `disk` and `alog` are the two files,
`store`, `running`, `timerActive`, `handle` the fields of `Inner`; `st`, `wake`,
`due`, `cur` describe the spawned timer tasks and `rj` the `run_job` calls whose
handler runs.  One action per public call; `on_timer` is `EnterTick`, then
`StartJob`/`WriteBack` for each due job, then `FinishTick`, because the lock is
released around each handler.  `LoadStore`, `SaveStore`, `ArmTimer`,
`RecomputeNextRuns`, `ComputeNextRun`, `Executed` are the private helpers with the
same names.  `ToolAdd`/`ToolRemove` are the cron tool's own service, which has a mutex
of its own: while the started service writes `jobs.json` the tool may read half of it
(`MayTear`; `tool` is then "torn"), and `ToolRename` later moves the file aside, with
whatever it holds by then.  `Crash`, `CrashInMerge`, `CrashInSave` are the death of the
process between critical sections, between the truncation of the log and the save of
the merged store, and inside the rewrite of `jobs.json`.  `ran` and `harmed` are history
variables: one-shots that a tick ran since a call last named them, and jobs that one of
four accidents happened to (the two crashes inside a write, the tool's rename, a
`run_job` that writes back a clone a call has overtaken).  Job order in the file, names, payloads and run
history are left out; a cron expression is a period aligned to the epoch.
**CronCatalog** is the abstract specification: the list a restart would load
changes by one requested job at a time and otherwise only loses one-shots that ran;
the promise ends for a job that is harmed.

**ChannelDispatch** (`channels/src/manager.rs`).  `hand` is the message being
handled, `pending` the replay buffer, `bus` the outbound lane; the bus itself is the
FIFO that BusLane establishes.  A message carries the numbers of the published
parts merged into it.  **OutboundFifo** is the abstract promise to a chat.

**AgentTurns** (`agent/src/loop_.rs` `run`, `process_inbound`;
`tools/message.rs`; `session/src/manager.rs` `save`).  One task per message; `pc`
walks through the critical sections of `process_inbound`.  `tool` is the single
`MessageContext`; `crossed` is a history variable (turns that used it while another
did).  No caller installs a command prefilter, so that early return is left out;
heartbeat turns use a session of their own and are left out.

**ApiTurns** (`loop_.rs` `process_message` and its states, `adapter.rs`,
`context/builder.rs`).  Each `state_*` function is one action; `TimedOut` is the
server's timeout (`api/src/server.rs`), which drops `generate` at one of its awaits.  The consolidator is
absent, as in every construction of the loop for the API.  A session file may come
from a version that stored the pending marker.

**FallbackBreaker** (`providers/src/fallback_provider.rs`).  `failures` is the
atomic, `trippedAt` the mutex; what a provider does, and the verdict of
`should_fallback`, are nondeterministic.  `overlapped` is a history variable.

**InstancePool** (`hiveweb/src/runtime/pool.rs`, `invoker.rs`).  `pc` of a call is
its place in `invoke`; `DropFuture`/`OrphanEnds` are a client that goes away while
the blocking thread still runs.  `leaked` is a history variable that counts
invocations that never call `release`.

**AgentRunner** (`agent/src/runner.rs`, with `find_legal_message_start` and
`maybe_persist_tool_result` of `utils/src/helpers.rs` and the lookup budget of
`utils/src/runtime.rs`).  One run of `AgentRunner::run`.  `Govern` is the pipeline
before each request, one operator per pass; `Ask`, `Respond*`, `ExecuteTool` and
`ToolsDone` are the parts of an iteration; `caller` says who built the
`AgentRunSpec`, because workspace, context window and `fail_on_tool_error` come from
there.  A message is its role, its calls or call id, and its number of characters;
`PromptTokens` and `MessageTokens` are the two estimators `snip_history` uses, the first
to see whether there is anything to cut, the second, which also counts parts that are not
text (`Media`), to cut; `SnipLimit` is `max(128, budget)`.  A run starts
from any subsequence of a stored conversation, since a session file is loaded
without the lines that do not parse.

**AssistantChat** (`hiveweb/src/api/chat_assistant.rs`, `chat_common.rs`,
`newsession.rs`, `services/chat_user.rs`, `runtime/orchestrator.rs`, `hook.rs`).
`req` holds the handlers, one step per await (INCR, EXPIRE, slot, session, message,
drain, DECR); `orch` the spawned tasks, one step per hop, because between two cancel
checks a hop touches only its own state; a hop is the set of states it may leave
(`HopStates`), composed of the trigger points, the answer, the tool calls in order
and the end of the round.  `Disconnect` drops a handler at any await, and
`ReleaseSlot` is the task its guard spawns.  `drift`, `paid`, `left` and `back` are
history variables.

**WebCatalog** (`hiveweb/src/services/{plugin,function,tool,agent,cache_helper,
optimistic_lock}.rs`).  A request is a sequence of SQL statements; `locks` are the
InnoDB row locks they take and hold until the transaction ends, including the shared
one a foreign key takes on the referenced row.  `Leave` is a client that goes away
between the commit and the last DEL; GET, SETEX and DEL may fail.  MySQL, S3 and Redis are external and
modelled as the code uses them.  `again`, `alone` and `clean` are history variables.

**WorkflowRun** (`hiveweb/src/services/workflow.rs`,
`runtime/workflow/workflow_executor.rs`, `node_executor.rs`).  `wf` holds the rows,
`edit` a `put_graph` between its checks and its transaction, `run` an execution:
workflow, nodes and edges are read in three steps, then layers are picked, run and
applied.  `BuildInputs` is `build_node_input` for a layer: it fails on a mapping whose
node has no output, and may fail on any value.  `DetectCycle` is the depth-first search of the code with its explicit
stack, one turn of its loops at a time; what it guarantees to the executor is proved.

The `MC` modules give the set-valued constants; the other runs instantiate the
specification directly.

## 3. Runs

| run | checks | shows |
|---|---|---|
| bus_lane | PendingAccurate, FifoNoLoss, EventuallyConsumed | two producers, two consumers with timeouts, three messages |
| cron_service | SingleTimer, TickKeepsCache, AlwaysArmed, DueJobRuns | every call, four in a behaviour, a `run_job` in flight, the tool, all three crashes: 627 000 states |
| cron_catalog | CatalogRefined | three jobs, four calls, a `run_job` in flight, torn reads by the tool, all three crashes: 774 000 states |
| channel_dispatch | StreamsStaySeparate, FifoPerChat, EveryMessageDecided | three targets (one unknown), eight shapes of metadata, three messages, stop and restart anywhere |
| agent_turns | ExchangesWhole, CacheIsDurable, RepliesWhenAlone, HistoryOnlyGrows, EveryTurnEnds | two bus turns for one permit and a cron turn beside them, two chats, a use of the message tool, a failing save, aborts: 869 000 states |
| api_turns | NoSessionRace, OutputsSaved, EveryRequestEnds | two requests, two sessions, with and without text, interrupted sessions, a failing save, timeouts at any await |
| fallback | OneVoice, ErrorsAreExhaustive, BreakerConsistent | two requesters that come back for ever, trips, cooldowns, recoveries |
| instance_pool | IdleIsReset, InUseAccounted | three invocations of two plugins, failed resets, panics, dropped futures |
| agent_runner | RequestsLegal, RequestKeepsTurn, TranscriptSound, RunEnds | every subsequence of a conversation with two tool exchanges, three callers and three budgets, every kind of response, three iterations: 1 062 000 states |
| assistant_chat | QuotaExact, WithinLimit, FailureIsFree, TurnsApart, NoReturn, Settles | two requests, a limit of one, one slot, a cyclic catalog, hooks, disconnects, an expiry, a session reset, a fault |
| web_catalog | ReferencesLive, CacheFresh, BindingsKept | two administrators, any three requests, statement by statement, a failing Redis or a client that leaves: 1 010 000 states |
| workflow_run | InputsReady, NeverStuck | all 25 acyclic graphs on three keys and those on fewer, two replacements and a delete at any point of an execution, inputs that fail to build: 216 000 states |

### Bounds and why they are enough

- `MaxSends = 3`, `WordSize = 8` (BusLane): two messages in flight while a third is
  counted, with room for the counter to wrap below zero.
- `Tasks = {t1, t2}` (cron): `ArmTimer` needs the old task and the new one; a third
  would have to come from a task that escaped its handle, and `SingleTimer` is what
  forbids it.  When both ids are busy the model would block, so the invariant that
  keeps one of them free is checked by `SingleTimer` itself.
- `MaxOps = 4`, `MaxTime = 2`, `MaxSleep = 1` (cron): start, add, then two calls
  that hit a tick, before and after the first due time; the schedules are one
  recurring and one one-shot, and in cron_catalog a cron period.
- `MaxMsgs = 3` (dispatch): a delta in hand, one that joins it and one that does not.
- `Permits = 1` (agent): with two bus turns the gate is contended; the cron turn
  supplies the overlap of turns.  The two chats are alike, so the first message comes
  from the first of them (`MCOrigins`).
- `MaxNew = 3` (API): tool call, result, answer, cut short anywhere.
- `Threshold = 2`, `Cooldown = 1`, `MaxTime = 2` (fallback): closed, tripped, half
  open, tripped again, recovered.
- `MaxPerPlugin = 1`, three instances, three calls, `MaxLeaks = 1` (pool): one idle
  instance, concurrent cold starts, an instance turned away at release.
- `Budgets = {0, 12, 34}`, `SnipFloor = 20` (128 in the code), `MaxResult = 12`,
  `KeepRecent = 1`, `MaxIterations = 3` (runner): no budget, one below the floor and one
  above it, so that a request fits, is cut inside a tool block, or is too large for its
  last exchange alone, under either limit; results are persisted or not, compacted or not; blank answers reach the
  finalization retry (two) and truncated ones their limit (one).  `Tools` are a lookup
  tool, whose budget can run out, and one that can fail.
- `MaxTimes = 1`, `Cap = 1`, two requests (assistant): the second request is over the
  limit, or refused a slot, or charged in the next window.  `MaxHops = 3` over three
  agents lets a conversation come back to the first if the visited list allows it.
- `MaxOps = 3`, two administrators (catalog): every pair of requests overlaps and a
  third one, a read or a write, follows or precedes them.
- `MaxPuts = 2`, three keys (workflow): one graph to run and one to replace it with
  between any two reads; three nodes have chains, joins, forks and all small cycles.
- `MaxFaults`, `MaxSends`, `MaxLeaks` bound failures and tool calls, never their place.

`CHECK_DEADLOCK FALSE` is set where all calls or requests of a behaviour can be used
up: the cron, agent turns, API, assistant, catalog and workflow runs.  In web_catalog
that also covers two transactions that wait for each other's row lock: MySQL ends one
of them with an error, which commits nothing.
`SYMMETRY` is used in web_catalog, over the administrators, and in cron_catalog, over
the jobs that are not protected and the timer tasks, with safety properties only.

### Fairness

Weak fairness of a task's own steps: the tokio runtime polls every task that is
woken, and the awaited operations end (handlers, runs of the model with bounded
iterations, provider calls with timeouts).  In BusLane `LockRx` and `Recv` have
strong fairness: tokio's mutex queues its waiters in order and `timeout` polls its
future before it looks at the deadline, so a consumer that keeps calling is not
always timed out with an item ready.  No publisher, caller, client, crash, timeout,
stop or cancellation is ever forced.  The clock is fair in the cron run only, up to
its bound.  In AssistantChat the handlers, the tasks and the guards' release tasks are
fair; the fairness of a task is written out without ENABLED, because a hop has
hundreds of outcomes.  `RunEnds` of AgentRunner needs no fairness: every step lowers a
measure.

## 4. Proofs

Eight modules hold proofs.  Each EXTENDS a component's module and proves its theorems for
every value of the constants, under the assumption the component's module states and TLC
evaluates in its run.  Three of them EXTEND a second, neighbouring component as well and
hold its theorems; so that both can be in scope, the initial condition, next-state
relation and specification of that component carry its name (`ApiSpec`, `BreakerSpec`,
`WorkflowSpec`).

| module | theorems | what they say |
|---|---|---|
| CronServiceProofs | CronInvariant, CronTypeCorrect, CronSingleTimer, CronTickKeepsCache, CronAlwaysArmed | `Spec => []IInv`, and the run's invariants from it |
| | CronRefinesCatalog | `Spec => CatalogRefined`: the refinement of CronCatalog |
| BusLaneProofs | TypeCorrect, FifoNoLossHolds, PendingAccurateHolds | both invariants of the run, any number of producers and consumers |
| ChannelDispatchProofs | TypeCorrect, StreamsStaySeparateHolds, ShownInOrderHolds | the run's invariant, and order of publication per chat |
| | FifoPerChatHolds | `Spec => FifoPerChat`: the refinement of OutboundFifo |
| AgentTurnsProofs | CacheIsDurableHolds, ExchangesWholeHolds, RepliesWhenAloneHolds, HistoryOnlyGrowsHolds, GateBound | all safety properties of agent_turns (the fourth an action property), and the permits of the gate |
| | ApiNoSessionRace, ApiOutputsSaved | both invariants of api_turns |
| AgentRunnerProofs | RequestsAreLegal, RequestsKeepTurn, TranscriptsSound, RunsEnd | all properties of agent_runner (the last an action property) |
| | BreakerTypeCorrect, OneVoiceHolds, ErrorsAreExhaustiveHolds, BreakerConsistentHolds | all invariants of fallback |
| AssistantChatProofs | StagesHold, CountsHold, QuotaExactHolds, WithinLimitHolds, FailureIsFreeHolds, TurnsApartHolds, NoReturnHolds | all invariants of the run, and the two inductive ones they rest on |
| WebCatalogProofs | LocksHold, ReferencesLiveHolds, CacheFreshHolds, BindingsKeptHolds | all properties of the run (the last an action property), and what the row locks keep |
| WebRuntimeProofs | IdleIsResetHolds, InUseAccountedHolds | all invariants of instance_pool |
| | WorkflowInputsReady, WorkflowNeverStuck | both invariants of workflow_run |

Each proof has one lemma or step per action, and below it one per conjunct the action
can disturb.  Where a model computes over a sequence it does so by a recursive function on
its positions.  The library's induction theorems take a predicate as a parameter, which the
provers cannot instantiate; the proofs use their own `NatInduct` and `SeqInduct`, which
take a *set* that contains 0 (or `<<>>`) and is closed under successors (or `Append`), and
prove by the first that each recursive function exists (`KeepAtRec`, `IdsForRec`,
`DetectRec`, ...).

**Cron service.**  Assumption: schedules have a kind and a natural number, the marker
values are distinct from real ones.  The inductive invariant is
`TypeOK /\ TimerInv /\ AlwaysArmed`, where `TimerInv` is
`SingleTimer /\ TickKeepsCache /\ ExecCurrent`.  `ExecCurrent` (a task inside a
handler executes a job it still holds in `due`) is what makes the clone that
`WriteBack` stores a job.  `TickKeepsCache` rests on `SingleTimer`: the task that
ends its tick clears `timer_active`, which would uncover the tick of any other live
task, and `arm_timer` aborts only the stored handle (`ArmTimerResult`: afterwards
the new task is the only one alive).  `AlwaysArmed` has to allow for `run_job` calls
in flight, because `run_job` sets `running` before anything is armed; each way back
to `running` without such a call ends in `ArmTimer`, whose sleep is bounded by
`WakeAtBound`.  That bound needs that a non-empty set of naturals has a least element
(`NatMin`, by well-foundedness); `Replay` needs that a non-empty set of positions has
a greatest one (`PositionMax`).

*The refinement of CronCatalog.*  No hypothesis restricts callers or crashes; what the
code does not keep (section 6) is in `harmed`.  On top of `IInv` the invariant is
`UnharmedInv`: every job is harmed, or `CatalogInv` holds.  `CatalogInv` says that
`jobs.json` parses; that the store in memory differs from it only by one-shots that have
run, apart from jobs that are harmed or that the action log speaks of (`CacheAgrees`); and
that the clones a tick still has to execute are jobs of the store (`DueAgrees`).  A save
then changes no class but that of the job the call names, because `Replay` takes a
logged job from the log and any other from the file (`ReplayLogged`, `ReplayUnlogged`,
`ReplayAppend`, `SaveStep`), and `load_store` never changes what the files stand for
(`LoadKeeps`).  A call that would leave `due` behind the file it has just saved re-arms the
timer and so aborts the tick (`ArmNoTick`).  `NextPromise` says this of every action,
`NextTraced` what each does to the history variables, and `CatalogNext` makes a step of
CronCatalog of the two.

**Bus lane.**  Assumption: finitely many producers and consumers, and a word larger
than what can be pending.  `LockInv` (the mutex names exactly the consumer that is
between taking and giving it back) and `OrderInv` (taken and waiting items are numbered
without a gap) are inductive; `PendingAccurate` is inductive with the arithmetic of
remainders (`ModUnique`, `ModStep`).

**Channel dispatch.**  `DispatchInv`: what was sent to any chat was published before the
message in hand, that one before the message set aside, that one before the bus; at most
one message is set aside, and none during a merge, so that popping the replay buffer
from its back cannot reorder.  A message in a merge is open: only deltas, no end.

*The refinement of OutboundFifo.*  `IdsFor` turns a lane into the ids it holds for a chat;
it maps concatenation to concatenation (`IdsForConcat`), so that the abstract queue is
the ids in hand, then those set aside, then those of the bus (`QueueNow`).  `Publish` is
`Fifo!Publish`, a send that succeeds is `Fifo!Deliver` of all the parts in hand, and every
other step is `Fifo!Discard`: taking a message, joining a delta and setting one aside leave
each queue as it is, because a merge takes from the front of the bus and at most one message
is set aside; a filter, a skip, the last failed attempt and `stop_all` cut a queue at its
front.

**Fallback provider.**  `VoiceInv` (what the caller saw comes from the provider it is
with now), `ChainInv` (the fallbacks up to the current one were asked) and `BreakerInv`
(counter and circuit disagree only between the two halves of one success or failure, as
long as requests have not overlapped).

**Agent runner.**  Assumption: the stored conversation has results only in the block behind
their call and call ids that are never used twice (`Threaded`), as the runner writes it;
what a run starts from is any subsequence of it.  `RunType` gives the types, and
`RunsEnd` follows from it by arithmetic.  `RunInv` (the part a run has added is `Tidy`: calls
answered in the block behind them, no result without a call, up to the calls that are just
being executed) and `LookupInv` (the counter of lookups is the number executed) give
`TranscriptsSound`.  `ThreadInv` says that the whole transcript stays threaded while it
grows, since a response's ids are new.

*Requests.*  The four passes of `Govern` are followed one by one.  Dropping orphans leaves only
declared results (`Declared`); with them, threaded blocks and the placeholders inserted
at the end of each block, every call is answered exactly where it should be
(`Building` goes through the transcript message by message), so the result is `Tidy`.
Compacting and budgeting change sizes only (`Alike`).  Snipping keeps the system message and
a tail that begins at a user message; no block of results reaches across such a message, so
the tail is tidy, `find_legal_message_start` finds nothing to cut in it, and the passes that
follow do not change it (`Snipped`).  For `RequestsKeepTurn` the same steps carry the
messages since the newest user message (`EndsAlike`).

**Instance pool.**  Types with a holder for each instance, and `OneOwner` (an instance is
in one place), an internal part of the inductive invariant: in Rust it is the move of a
value that is not Clone.  `ResetInv` adds to `IdleIsReset` the instance that waits for release after a reset
that succeeded.  `InUseAccounted` counts holders by cardinality of finite sets.

**Agent turns.**  `CacheIsDurable` is inductive; `WholeInv` says that the files hold
exactly the exchanges of turns past their save; `AloneInv` follows a turn that nobody
crossed through the shared context of the message tool; `GateInv` places every permit
in the gate or with one turn.

**API turns.**  `PermitInv`: a turn from its restore to its answer holds the permit of its
session, so nobody else changes the session between the history it reads and its save.
`SaveInv` follows the list of messages from build through run to save: `save_skip` is the
length of what was there before the run, with or without a text and with or without a
merged user message, and the outputs of other turns are untouched by the append.

**Assistant.**  `Inv` relates the stage of a request to its slot, its payment and its
task; `CountInv` says what quota and slots count.  Both count over the requests under
way, hence induct on cardinalities.  `NoReturn` needs that a round of tool calls, a
recursive function over the calls, keeps the visited set growing (`AfterCallsOnward`);
its induction is a descent in a non-empty set of naturals without a least element
(`NatLeast`).

**Catalog.**  `CatalogInv`: row locks exclude each other, the foreign keys hold, and
what each request has read under its lock is still so (`ClientInv`, one clause per
statement a request may be at).  `BytesInv` and `UploadInv` follow the bytes of a plugin
through an upload for `ReferencesLive`; `EntriesInv` and `AloneInv` follow the cache
entries a lone write has still to drop for `CacheFresh`.  Assumption: the sets of ids are
disjoint and the seeded rows refer to each other properly, as the migrations create them.

**Workflow.**  Assumption: finitely many node keys (a key is a VARCHAR(32)).
`DetectSound` is about the search: `SearchInv` numbers the nodes in the order in which the
search leaves them, so that every edge out of a Black node goes to a smaller number, and the
Gray nodes are those on the stack; each turn of the loop lowers `Work`, so the search ends
within its rounds; when it ends without a cycle all nodes are Black and the numbering is a
rank that falls along every edge.  `RowsInv` keeps this of the rows, and `NodesRead` of
what a run has read from one or two versions of them.  `LayerInv`: the indegree of a node
that remains is the number of edge rows, doubled ones counted twice, from nodes without
output; outputs are closed under predecessors, hence contain all ancestors of a node that
is scheduled.  Among the nodes that remain the one of the highest rank has no unresolved edge
(`SomeScheduled`), so `run_layers` never gets stuck.

Only model-checked, and why: the liveness properties `EventuallyConsumed`, `DueJobRuns`,
`EveryMessageDecided`, `EveryTurnEnds`, `EveryRequestEnds` and `Settles`.  Fairness and ENABLED
are outside the prover's reach.  All other properties of the runs, invariants, action
properties and both refinements, are also theorems.

## 5. Plan

Done: BusLane, CronService with CronCatalog and proofs, ChannelDispatch with
OutboundFifo, AgentTurns, ApiTurns, FallbackBreaker, InstancePool, AgentRunner,
AssistantChat, WebCatalog, WorkflowRun, with proofs of all their safety properties.

Next models, most important first:

1. SubagentManager: registry against completion and cancellation
   (`subagent.rs:226` stores the handle after the task was started);
2. heartbeat and the shutdown sequence of the gateway (`blocking_lock`, a tick that
   survives `stop`, `flush_sessions` with `try_lock`);
3. cron x agent: a composition of CronService and AgentTurns for the delivery of a
   job's answer (`gateway.rs:308`);
4. dream cursor and autocompact; agent context lifecycle and merge;
5. session trimming (`retain_recent_legal_suffix`, `enforce_file_cap`) with the
   legality of AgentRunner as its reference; the retry policy of the providers.

Next proofs: those of the models above.

## 6. Where code and documents disagree

All of these were met while modelling.  Where the part is modelled the model behaves as
the code does, and the properties are stated so that they say what does hold; stale
contents after tool, hook and skill edits and the limit of hooks are outside the models.

- `execute_job` leaves a `delete_after_run` one-shot for "the caller (on_timer /
  run_job)" (`cron/src/service.rs:748`); `run_job` does not delete it (line 463), so it
  runs again at the next tick.
- "Propagate per-turn context to the channel-routed tools" (`loop_.rs:2216`): the
  context of the message tool is one object for all turns; with two turns at once a
  message without target goes to the other turn's chat.  By the same sharing a final
  answer may be dropped or doubled (`sent_in_turn`); `RepliesWhenAlone` is what is left
  of the promise.
- "Persist the triggering user message before the turn starts" (`loop_.rs:1499`):
  `state_build` persists it on a clone that is dropped (line 1944), and `save_skip` then
  skips it: requests with text are never stored.
- An exhausted hop loop should count as a failure
  (`specs/007-external-assistant-api/spec.md`, FR-011): a route on the last hop ends the
  loop without an error event, an empty row is saved and the request is charged as a
  success (`NextHop`, `Saves`).
- A client that leaves between INCR and EXPIRE, or a refund after the key expired,
  leaves a quota key without time to live; a refund in a later window gives that window
  one request more (`drift` in `QuotaExact` and `WithinLimit`).
- A disconnect frees the slot at once while the old task runs to its next hop, so two
  tasks of a user may overlap; `TurnsApart` speaks of connected clients.
- `runtime/hook.rs:3` calls hooks read-only observers; the functions and workflows they
  call may write extensions, the response and a loop break (`Writes`).
- Uploading an existing (identifier, version) overwrites the object of the plugin and
  then deletes it when the INSERT fails (`plugin.rs:162-198`): the plugin stays without
  bytes (`again` in `ReferencesLive`).
- `agent.update` refuses only an agent that is its own parent: longer cycles pass and
  the depth of descendants is not updated.  `check_and_bump` compares and updates in two
  statements, with a precision of a second.
- "Every write path ... must call `invalidate_content_cache`" (`agent.rs:567`): creating,
  changing or deleting a tool that all agents load, a hook or a skill, or changing the
  description of a child, does not; the content stays stale until its time to live ends.
- A `put_graph` between the executor's read of the nodes and of the edges makes it drop
  every edge: the nodes run at once, in no order (`KnownEdges`; `whole` in
  `InputsReady`), although
  `specs/004-agent-runtime/spec.md` (FR-017) has a run follow the order of its graph.
- The limit of hooks per trigger point is checked before the insert, in two statements.
- `publish` counts after it sends, so `inbound_size()` may read a wrapped value for
  a moment (`PendingAccurate` says exactly by how much).
- A call that re-arms the timer during a tick aborts that tick between two due jobs
  or inside a handler; `DueJobRuns` shows that they are run later, though a handler
  that was cut runs again.
- `run_job` restores the `running` it read before its handler, and so undoes a
  `stop()` made meanwhile; it also writes back a clone over concurrent edits of the
  same job (`RunJobEnd` puts such a job into `harmed`).
- A crash while `action.jsonl` is merged loses the actions it held, and one while
  `jobs.json` is rewritten loses the list (`CrashInMerge`, `CrashInSave`).
- The cron tool reads `jobs.json` without a lock that the started service takes
  (`service.rs:506`, `599`): a list or remove in the middle of a save finds a file that
  does not parse and renames it away, with all jobs once the save has ended
  (`ToolRename`).
- A snipped request may exceed a budget below 128, since what is kept is counted against
  `max(128, budget)` (`runner.rs:415`), and by another estimate than the one that decides
  whether to cut (`runner.rs:394`, `422`); `RequestKeepsTurn` says exactly this.
- `acquire` limits neither the instances of a plugin nor their total
  (`specs/004-agent-runtime/spec.md:248` promises a cap), and an instance whose call
  was interrupted returns to the pool when its reset succeeds (line 253 says it does
  not).

## 7. Not modelled

Wire formats and network clients (providers, channel adapters), file, shell and web
tools, configuration, command-line wiring, user interfaces, request handlers that only
wrap a service, and example plugins: their behaviour is I/O or presentation.  Hooks
CRUD, skills, accounts, games and settings of hiveweb: mostly one statement per
request.  Subagents, heartbeat, dream, autocompact and the agent context have state
worth modelling and are in the plan.  In the modelled parts:
wording, logging and the audit record; what the API server does around a call of
`generate` apart from its timeout (the lock it holds over a first and a second call, and
the chunks of a stream).
