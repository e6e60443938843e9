# A verification of oxios

TLA+ models of the parts of oxios that decide what happens to a chat turn, to
its live stream and its tool calls, to scheduled automations and to the daemon
itself; the TLC runs that check them on small instances; and proofs, checked by
TLAPS, of the properties that matter most for every size of the system.

Paths are given from the repository's root as this project sees it (`src/...`);
`K/` stands for `src/crates/oxios-kernel/src/`, `G/` for
`src/crates/oxios-gateway/src/` and `A/` for `src/src/api/`.

| module | what it is | models |
|---|---|---|
| `TurnService` | what users of a chat are promised | (abstract) |
| `TurnLifecycle` | one turn from the inbox to its terminal frame, with its agents | `G/gateway.rs`, `K/turn_registry.rs`, `K/agent_lifecycle.rs`, `K/supervisor.rs` |
| `TurnLifecycleMC` | instances of it for TLC | |
| `TurnLifecycleProofs` | its inductive invariant and its safety theorems; `TurnLifecycle` implements `TurnService` | |
| `Filter` | the entries of a sequence that are in a set, in their order (`Among`) | what `replay` and the forwarder pass on |
| `FilterProofs` | what `Among` computes, for every sequence | |
| `ReliabilityLayer` | numbering, replay buffer, replay | `G/reliability.rs` |
| `ReliabilityLayerProofs` | its theorems | |
| `Delivery` | `ReliabilityLayer` composed with the web bridge, the connection and the client's cursor | `A/bridge.rs`, `A/plugin.rs`, `A/routes/chat.rs`, `src/web/src/stores/chat.ts` |
| `DeliveryMC`, `DeliveryProofs` | instances, theorems | |
| `RecoveryLadder` | retries, fallbacks and their budget | `K/resilience/coordinator.rs`, `K/resilience/budget.rs` |
| `RecoveryLadderMC`, `RecoveryLadderProofs` | instances, theorems | |
| `Stream` | the streaming sinks, an agent's deltas, the collector and the terminal frame | `K/streaming_sink.rs`, `K/agent_runtime.rs`, `G/gateway.rs` |
| `StreamMC`, `StreamProofs` | instance, theorems | |
| `Automation` | automations, their runs, the tick loops | `K/automation/`, `A/plugin.rs` |
| `Supervisor` | the task supervisor of the daemon | `src/src/supervisor.rs` |
| `Daemon` | the two composed over the start of the web surface | `src/src/surface.rs`, `A/plugin.rs`, `src/src/main.rs` |
| `DaemonMC`, `DaemonProofs` | instance, theorems of all three | |
| `ApprovalConfig` | the approval configuration and its three copies | `K/kernel_handle/infra_api.rs`, `A/routes/security_routes.rs`, `A/routes/system.rs`, `K/config.rs` |
| `ToolConsent` | a tool call that needs consent, over `ApprovalConfig` | `K/tools/gated_tool.rs`, `K/tools/pending_*.rs`, `K/approval/` |
| `ToolConsentMC`, `ConsentProofs` | instance, theorems of both | |

## 1. The system

oxios is a daemon that runs language-model agents for a user. A message comes
in by a *channel* (web, command line, chat services), the *gateway* queues it
and gives it a task, the *orchestrator* turns it into a directive, the
*lifecycle manager* has the *supervisor* run agents for the directive, under
the retries of the *recovery coordinator*; the answer goes back by the gateway
and the channel. Around this path are the *automations* (scheduled work with
its own runner), the stores, and the managers of skills, personas, projects and
knowledge. Everything runs in one process on a multi-threaded tokio runtime;
components share state behind `parking_lot` and `tokio` locks, and talk through
mpsc, broadcast and watch channels.

### Inventory

Modelled in this project, wholly or in part:

* **Gateway event loop and dispatch** (`G/gateway.rs`). State: the inbox (an
  mpsc buffer), a semaphore of `MAX_CONCURRENT_ROUTES` permits, the channel
  table, a watch channel for shutdown, and one task per message. Operations:
  receive, take a permit, spawn `dispatch`, answer, shut down, register and
  unregister channels. Hard: the loop awaits a permit with a message in hand,
  the dispatch races `handle_unified` against a cancel token in a biased
  `select!`, and each of its exits must close the turn, send one terminal frame
  and release one permit.
* **Turn registry** (`K/turn_registry.rs`). State: a map from a key (session id,
  or request id when there is none) to a cancel token and the bound agent.
  Operations: `open`, `bind_agent`, `cancel`, `close`. Hard: `cancel` and
  `bind_agent` come from different threads, and turns of a session share a key.
* **Agent lifecycle manager** (`K/agent_lifecycle.rs`). State: the A2A cards of
  live agents. Operation: `execute_directive`: fork, bind, card, run under a
  timeout, clean up. Hard: it is a future that can be dropped at any await.
* **Agent supervisor** (`K/supervisor.rs`). State: the agent table with its
  statuses and the table of task handles. Operations: `fork_directive`,
  `run_with_directive`, `kill`. Hard: `kill` takes two locks, one after the
  other, while the run's end takes the same two in its own order.
* **Recovery coordinator** (`K/resilience/`). State: one attempt budget per
  directive, the best result so far, the routing statistics. Operation:
  `execute` with its levels L0 (first run), L1 (same model), L2 (fallback
  models), L4 (another agent; never armed), L5 (give up). Hard: three levels
  draw on one budget, four kinds of outcome leave each level differently.
* **Reliability layer** (`G/reliability.rs`). State: an atomic counter and a
  ring buffer with a time to live. Operations: `assign_seq`, `replay`. Hard:
  the number is drawn outside the lock; the cursor comparison is an
  off-by-one away from losing a message silently.
* **Web bridge and WebSocket delivery** (`A/bridge.rs`, `A/plugin.rs`,
  `A/routes/chat.rs`, `src/web/src/stores/chat.ts`). State: a broadcast channel, the forwarder of each
  connection, the client's cursor. Operations: `send`, `replay_after`, connect,
  resume, disconnect. Hard: turns outlive the connection they came from, a
  resume overlaps live frames, and numbers start over when the daemon does.

* **Streaming sinks** (`K/streaming_sink.rs`, `K/agent_runtime.rs`,
  `G/gateway.rs`). State: a map from a session to a weak reference to the sender
  of partials, one bounded channel and one collector task per turn. Operations:
  register, look up, `try_send`, collect, drain, unregister. Hard: the entry is
  shared by the turns of a session, an agent orphaned by a timeout still writes
  to it, a full channel loses deltas, and the collector must be drained before
  the terminal frame. Properties: the terminal frame is last and what the channel took came before
  it; reasoning spans are well formed whatever is lost; no sink outlives its turn.
* **Automation store and runner** (`K/automation/`, `A/plugin.rs`). State:
  definitions and run rows in SQLite, executions in memory, tick loops.
  Operations: create, edit, pause, `begin_run`, `finish_run`, the verify and
  repair loop, `recover_stranded_runs`. Hard: runs of one automation overlap, a
  run's end writes a definition that was edited during the run, a daemon that
  stops in between leaves a run open, a second tick loop starts beside the first.
  Properties: a schedule stops only for a reason; a gated run succeeds only with
  the result that was verified; the count is the number of runs; open rows are
  live once recovery has run.
* **Daemon supervisor** (`src/src/supervisor.rs`). State: the handles it watches,
  the web server's retries and back-off, the shutdown token. Hard: a server that
  dies again during its restart, a start that fails, a signal at any point.
  Properties: the web server is never forgotten while the daemon watches, and
  its restarts are bounded.
* **Approval gate and pending approvals** (`K/approval/`,
  `K/tools/gated_tool.rs`, `K/tools/pending_*.rs`, the approval routes). State:
  the configuration in memory, in the web server's copy and on disk; the
  registries of open cards; directories allowed for a while. Operations:
  evaluate, show a card, answer, remember, expire, re-evaluate; add and remove a
  grant, patch, put. Hard: an answer, a deadline and a re-evaluation race; a
  request reads, works and writes without a lock; the file is truncated before it
  is filled; the daemon may stop anywhere. Properties: no tool runs without
  consent and none is refused without a reason; cards and waiting calls match;
  answered changes survive; every call returns.

Not modelled yet, in the order of the plan below:

* **Provider health** (`K/resilience/health.rs`) and the **A2A protocol with its
  circuit breaker** (`K/a2a/`). State: failure counts, windows, half-open
  breakers, pending messages. Properties: an open breaker admits one probe;
  a delegated task is answered or expires. Nothing calls `set_health`, nor
  `set_a2a_breaker`, at this commit.
* **Budget manager** (`K/budget.rs`). State: reservations against resetting
  windows. Property: no window is overdrawn.

Left aside, with the reason in `PROJECT.json`: the orchestrator's planning, the
intent engine, the knowledge base, the calendar, skills, personas and projects
(text, prompts and catalogues), the access manager (decisions on static
tables), stores and backup, MCP, remote access (I/O and cryptography), HTTP
routes and the command line (translation), workers and daemons (timers around
I/O), the event bus (lossy by design).

### What can go wrong here

`PROJECT.json` lists each hazard with its line. The families are:
two threads meeting on a shared map (a cancel and a bind; a kill and the insertion of
a handle; two turns on one key), futures dropped at an await (a cancel or a
timeout between the registration of a card and its removal), resources counted
on many exits (permits, budget, buffer slots), numbers drawn in one order and
used in another, state that outlives what it was computed from (the class of a
first failure, the client's cursor, a turn whose connection is gone, a sink
whose turn is over), rows and files a crash leaves half done, read-modify-write
across requests, and things that must end although an agent or a user never answers.

## 2. Plan

The order is by what the rest of the system depends on.

1. *Done.* `TurnLifecycle` under `TurnService`: the turn with its registry,
   permits, agents, cancels, kills, timeouts and shutdown; its inductive
   invariant and the refinement, proved.
2. *Done.* `ReliabilityLayer`, and `Delivery`, which composes it with the bridge
   and the client; the theorems of both.
3. *Done.* `RecoveryLadder` with its theorems. `TurnLifecycle` keeps only what
   the ladder may do next (`Retry`, `Return`); `RetryDiscipline` is the fact
   about the ladder on which `Retry` relies.
4. *Done.* `Stream`: sinks, collector, partials and the terminal frame of two
   turns of one session, with agents that outlive their turn; its theorems.
5. *Done.* `Automation`: the transactions of the store as actions, the runner's
   loop, edits, ticks and a crash between any two; its theorems.
6. *Done.* `Supervisor`, and `Daemon`, which composes it with the automations;
   the theorem that the composition implements both.
7. *Done:* `ApprovalConfig` and `ToolConsent`, with theorems. *Left:*
   `ProviderHealth`, `A2ABreaker`, `Budget`, small state machines.
   `RecoveryLadder` lets the health registry read either way; with
   `ProviderHealth` it could read what was recorded, once the code records it.
8. *More proofs.* Done: every invariant and every action property that a
   passing run checks is stated by a theorem. Left is what the prover does not
   reach (section 6).

The list of runs is kept short: one for each question. A run checks liveness
together with safety where the instance is the same.

## 3. The models and the code

### TurnLifecycle

An action is what one task of the runtime does between two points at which
another can act on state they share: an await at which the future can be dropped
or another task observed, or the release of a lock. Straight-line code under
one lock is one action, and so is a sequence whose intermediate states nobody
else can read.

State. `inbox`, `free`, `loop`, `stopReq` and `channelUp` are the gateway's
mpsc buffer, semaphore, event loop, shutdown watch and channel table. `pc`
is where the dispatch task of a turn is; the places stand for the awaits of
`dispatch`, `handle_unified`, `execute_directive` and `run_with_directive`.
`entry` and `bound` are the registry by key, `cancelled` the token's flag;
`status`, `handles` and `task` are the supervisor's two tables and the spawned
task itself; `cards` the A2A registry. `killing` is how far a kill has come
between its two locks. `orphaned` is history: agents whose awaiting future is gone.

| code | actions |
|---|---|
| `Gateway::run` | `Receive`, `Dispatch`, `DropHeld`, `ObserveShutdown` |
| `signal_shutdown`, `finish_shutdown`, `register`/`unregister` | `RequestShutdown`, `FinishShutdown`, `ChannelRestart` |
| `Gateway::dispatch` | `Open`, `DropFuture`, `Answer`, `Close`, `CloseCancelled`, `NotifyCancelled` |
| `execute_directive` | `Fork`, `BindLive`, `BindCancelled`, `RegisterCard`, `TimeoutRun`, `CleanUp` |
| `run_with_directive` | `StartRun`, `InsertHandle`, `Settle`; the spawned task: `TaskFinish` |
| `TurnRegistry::cancel`, `Supervisor::kill` | `Cancel`, `KillAgent`, then `KillAbort` and `KillMark` |
| the ladder, the orchestrator's return | `Retry`, `Return` |

`DropFuture` is possible only at the places where `handle_unified` really is
suspended (`Suspended`): the `select!` polls the token first, so a cancel is
seen at a poll and never between two statements of one. That is why `Fork` of a
first attempt is guarded by the token, and why `BindCancelled` exists: a
cancel that comes between `Fork` and the bind is found by `bind_agent`, not by the token.

Abstractions. A message is its turn. A frame is its kind. The model that runs in an
agent may end with any result, at any time, or never. Two kills of one agent
are taken one at a time. The web surface's restart is a channel that is away
for a while. The streaming collector is in `Stream`.

### ReliabilityLayer and Delivery

A message is its number. `assign_seq` is two actions, `Draw` (the atomic) and
`Push` (the purge, eviction and push under the lock), for as many tasks as
`Senders` has. Time is `stale`: how many entries from the front have outlived
the ttl; insertion times grow with the order of pushes, so the expired entries
are always a prefix. `Resyncs` and `Replayed` are the two answers of `replay`; the
second is the buffer's numbers after the cursor, by the filter `Among`.
`overtaken` is history: numbers pushed after a larger one.

`Delivery` extends the layer with what happens to a number: `Buffered` (then it
is in the dispatch task's hand, to be sent), `Broadcast` (to every forwarder; each keeps what is
addressed to its connection), `Receive` (the client applies it and raises its
cursor), `Connect` with the stored cursor, `HandleResume`, `Disconnect`,
`Restart` of the daemon. The layer that answers a resume is a second instance
of `ReliabilityLayer`, in its initial state for ever: that is what the code
does (`A/plugin.rs` builds it and nothing calls its `assign_seq`).

`target` is the `target_conn_id` of a number's frame. A turn that came over the
WebSocket has the connection it came over; a turn of `POST /api/chat`, which inserts
no `conn_id`, has none (`Everyone`), and its frame goes to every WebSocket and
moves its client's cursor, as the forwarder's filter has it
(`A/routes/chat.rs:1198`). Turns of other clients and other channels take numbers
from the same layer (`Elsewhere`). `OtherTurns` says which of the two kinds there
are besides the client's own. `sent` (frames broadcast since the connection is up) and
`resumed` (the cursor it began with) are history.

### RecoveryLadder

One action is what `RecoveryCoordinator` does between two awaits: `Start`, then
the end of the first run (`L0Error`, `L0Settled`, `L0Escalates`), the loop of
L1 (`Restart` pays, `Wake` after the backoff, `L1Succeeds`, `L1Fails`,
`L1Error`, `EndRestarts`), that of L2 (`Skip`, `Swap`, `L2Succeeds`,
`L2Fails`, `L2Error`, `Exhausted`), the end (`Terminal`) and `Drop` when the turn
is cancelled. A run may report what `BasicSupervisor` really builds: a success, a
classified failure (which carries no steps and perhaps a checkpoint), a failure
without a class (a killed agent), or a lifecycle error. `runs` is history: the
completed executions with what each reported, the model it used and the run
whose checkpoint it continued from.

The A2A level is no action: its guard reads a breaker that nothing sets. Both
readings of the health registry are possible at every candidate when
`HealthGated`. The master switch is chosen at the start of a behaviour.

### Stream

One action is a step of one of three tasks. The dispatch task: `Open` (register
the sink over whatever the session's entry was, spawn the collector), `Leave`
(`handle_unified` returns or the token is cancelled; the sender is dropped),
`Answer` and `AnswerCancelled` (the collector was awaited; the terminal frame;
the cancelled branch unregisters once more). The agent: `Fork`, `Event` (the
callback looks the session's sink up and upgrades it, or streams nothing),
`TrySend` (one delta; a full channel loses it; after the last one the sender is let go),
`AgentEnds`. The collector: `Collect` (a delta becomes frames, `was_reasoning`
follows), `CollectorEnds` (no sender is left: the last span is closed, the session's entry
removed, whosever it is). The registry holds a sender weakly, so `Strong` says who
keeps a channel open: the dispatch task, or a callback between its lookup and its last
`try_send`. Nothing ties an agent to the turn it began in: it writes to whatever sink its
session has. The model announcement and tool-call deltas pass through like text
and are left out. `taken` is history: the text and reasoning a channel accepted, in
order. `CompleteBeforeTerminal` compares it with the same fragments of what was
sent, each once and in the same order.

### Automation, Supervisor and Daemon

`Automation`. A method of `AutomationStore` is one action, since it holds the
connection's lock (`CreateAutomation`, `DeleteAutomation`, `Activate`, `SetStatus`,
`SetTrigger`, `SetVerify`, `BeginRun` in `RunNow` and `Fire`, `FinishRun`,
`RecoverStranded`). `begin_run` is one action in particular: its reads, the new row and
the count are one immediate transaction of SQLite inside the lock. The runner is the
actions between them (`ExecEnds`, `Verdict` with its repairs, `FireNothing`); a tick
loop is `SpawnLoop`, `RecoverStranded`, `Tick`, `Fire`. A manual run is begun by the run
route or by the agent's tool. The tool, like the tick loop, spawns a task that nobody
drops; the route awaits the execution in the handler of the request, which
ends where it is when the client goes away (`awaited`, `HangUp`): `finish_run` is then
never called and the row stays open while the daemon lives on. Time is where `next_run_at`
stands: NULL, future or due (`ComesDue`). `def` and `row` survive `LoseMemory`,
the rest does not. `lapsed` is history: whether something that may stop the schedule
happened since the user last armed it.

`Supervisor`. The biased `select!` of `watch` is the order of the guards of
`SeeSignal`, `SeeCriticalEnd`, `SeeWebEnd`, `RestartWeb`; `RestartFails` is a
start that does not succeed, `RanStably` the passing of `reset_after`, `Exit`
and `Abort` the two ends of the process, `Boot` the next start by the operating
system's supervisor.

`Daemon`. Each start of the web surface, failed ones included, spawns a tick
loop before the port is bound (`StartSurface`); the end of the process stops
all of them; an automation steps only while the process is up. It is a
composition in the literal sense: each of its steps is a step of one part or of
both. `EarlyRequests` bounds whether a run may begin before the recovery of a start
has run; with it, `recover_stranded_runs` can close such a run too.

### ApprovalConfig and ToolConsent

`ApprovalConfig` has the three copies of the approval configuration: `live`
(what the gate reads), `shadow` (`AppState.config`) and `disk`. A request is a
sequence of actions, because no lock spans it: a grant or a patch goes
`ReadLive`, `SetLive`, `Render`, `Open` (which truncates), `Fill`, `Sync`; a PUT
or PATCH of the whole configuration goes `Merge`, `Open`, `Fill`, `Sync`; a
write may fail (`WriteFails`), and the daemon may stop at any point and read
what is there (`Boot`). The write is also the only await of these handlers: a client
that goes away during it ends its request there (`HangUp`), while the blocking thread
writes on, so that the server's copy stays behind the file. `disk` is the set of texts that lie in the file: none
from its truncation to the write, two when two writes were laid over each
other; the daemon does not start on such a file. `promised` is history: the
configuration after the requests answered so far, as long as they came one after the
other and no client went away.

`ToolConsent` extends it with the calls. A call checks its path and the policy
(`Call`), shows a card for what is not allowed, and waits in a `select!` that is
polled: `Poll` finds no answer and takes the first timer that is ready, then
`TimesOut` or `Reevaluates`; an answer is taken at the next poll (`TakeAnswer`).
`DeadlinePasses` is time, `Drop` the abort of the agent's task, which leaves the
card in the registry. The user's answer is a request: `Respond` looks the card
up, remembers the answer by an `add_grant` of `ApprovalConfig` or allows the
directory (`AllowPath`), and then `Resolve` takes the card out and sends; a client that
goes away while its grant is written leaves the card open (`Leave`).
`permitted` (which hurdles the configuration made needless during the call), `said` and
`expired` are history. Evaluating and registering a card are one action: the
receiver exists before anything else can know of the card. The capability check before the
path, the headless arm, `ask_user` and the matching of commands by the
blacklist are left out; the calls are those of one agent.

## 4. Runs

Every run ends within five minutes on two workers; `Consent` takes about three,
`TurnTwo`, `DeliveryLive`, `Stream` and `Daemon` one to two, the others less.

| run | question | instance |
|---|---|---|
| `TurnOne` | do cards, agents, frames and the registry survive every mixture of cancel, kill, timeout, restart and shutdown, and does a cancel end its turn? | one turn, two attempts, everything enabled |
| `TurnTwo` | do permits add up, and does no entry outlive its turn although turns share it? | two turns of one session, two permits, cancels and timeouts |
| `TurnLive` | does each turn and each shutdown come to an end, though agents may never answer, and is this the service of `TurnService`? | two turns with keys of both kinds, one permit, execution timeout on, no cancels |
| `DeliveryLive` | do frames reach their own connection, once, with concurrent dispatch tasks and restarts, and is a replay of the layer without a silent gap? | two senders, buffer of 2, 3 messages per boot, 3 connections, 1 restart, frames of others and of no connection |
| `LadderBudget` | is the budget exact, is the right result returned, do fallbacks leave what failed, does the ladder end? | budget 4, two retries, three fallbacks, all failure classes |
| `Stream` | is a turn's stream complete before its terminal frame, are spans well formed, are sinks released, is every turn answered? | two turns of one session, a channel of 1, three events in all |
| `Daemon` | do schedules, counts, verification and recovery survive overlapping runs, edits, web restarts and crashes, and is the web server looked after? | one automation, two runs, two tick loops, two edits, one retry, two boots |
| `Consent` | does a call run or get refused only as the user and the configuration say, do changes survive, does every call return? | two calls that share a grant key, one with a path outside the allowed directories, two requests of any kind |
| `TurnKillRace`, `TurnUncancellable`, `DeliveryResume`, `DaemonRecovery` | what a comment or a document says and the code does not do | see Divergences |

**Bounds, and why they are enough.** Turns interact through the permits, the
inbox, the shutdown and, when they share one, a key. Two turns are the least
that compete for a permit or overwrite an entry, and an agent belongs to one
turn: three turns add no kind of interaction. Two attempts are the least that
show an earlier agent beside a current one. The cancelled exit is in `TurnOne` and
`TurnTwo`: with it the liveness of two turns is beyond five minutes, so that
`ImplementsService` is checked in `TurnLive` without cancels, and with them proved
(section 6). In `Delivery`, three numbers overflow a
buffer of two, so that eviction, expiry and overtaking meet; three
connections show a turn outlive its connection and the next, one restart is
the least that reuses numbers. In the ladder a budget
of 4 runs out in L1 for some behaviours and in L2 for others, and the chain has a
fallback of the same provider, the failed model itself and another provider.

In `Stream` a channel of one is full after one delta, so loss and every mixture
of two agents in one channel come up; two turns of a session are what replaces and removes
each other's entries, and three events let each agent stream and one of them
outlive its turn. In `Daemon`, `MaxEdits` 2 is the creation and one more call,
which is what a run can overlap with; two runs overlap or follow each other; two boots have one
crash with its recovery, two loops one web restart, one retry a restart that may be the
last. In `Consent` two requests are
an answer that is remembered beside any other change, or two answers to
one card, and one patch changes mode and override; a PUT gives the rest of the configuration
another value than its default, to see that neither kind of endpoint undoes the other's part.
`RestartRestores` looks at each restart in that run: what the three copies are after
it, and that an emptied file costs exactly the whole configuration.

The safety properties of the turn, the layer, the delivery, the ladder, the stream, the
automations, the supervisor and of consent are also proved for every value of
the constants (section 6).

Deadlock is not checked: a system whose turns are done, whose connections,
numbers, runs or requests are used up or whose ladder has returned stops, as it
should. `DaemonMC` declares its runs and its loops symmetric, `DeliveryMC` its
senders; neither run has a liveness property.

## 5. Fairness

`TurnLifecycle!Fairness` is what tokio gives: a task that is ready is polled,
and a timer that ran out makes its task ready. So the event loop proceeds
(`Receive`, `ObserveShutdown`, `FinishShutdown`), each turn's dispatch task
proceeds, its execution timeout included, and a kill that was begun is
finished. It is weak fairness on the disjunction of a task's steps, not on each
step: which branch a task takes is not ours to choose. Nothing is assumed of users
(`Send`, `Cancel`, `KillAgent`, `RequestShutdown`), of the agents (`TaskFinish`
may never come) or of restarts of the web surface. A wait for a permit is
weakly fair because the semaphore queues: whoever waits is granted the next
permit released, and the loop is the only one who waits. The last steps of a
turn end because `send_with_retry` bounds its retries, and because the collector
it waits for ends with the sender that the dispatch task has just dropped: the
streaming registry keeps weak references only, and the runtime upgrades them
for one delta at a time.

`RecoveryLadder!FairSpec` assumes that an execution ends. `execute_directive`
bounds it when `max_execution_time_secs` is positive; with 0 the code does not
guarantee it, and `LadderEnds` then depends on the provider's own timeouts. A drop
of the ladder is never assumed.

`Stream!StreamFairness`: the runtime polls the dispatch task that waits for its
collector, the collector, and a callback that holds a sender (`try_send` does
not block). No turn is assumed to return and no agent to end, so `TurnAnswered`
says that a terminal frame waits for nobody but the collector.

`ToolConsent!ConsentFairness`: the task of a waiting call is polled
(`CallStep`) and time passes (`DeadlinePasses`). Nothing is assumed of the user or of
requests. `Daemon` states no fairness: its properties are safety.

## 6. What is proved

All theorems hold for every value of the constants that satisfies the module's
assumption: any finite set of turns, any sessions and assignment of sessions to
turns (shared keys too, unless a property speaks of `DistinctKeys`), any number
of permits and attempts, with or without timeouts, cancels, kills and restarts
of the web surface (`ConstantsAssumption`); any buffer size
(`LayerAssumption`); any models, providers, fallback chain, budget and retry count
(`LadderAssumption`); any turns, sessions and channel capacity
(`StreamAssumption`); any automations, run rows, loops, ceilings, gates and retry
budget (`AutomationAssumption`, `SupervisorAssumption`, `DaemonAssumption`); any
calls, tools, keys, requests and well-formed patches (`ConfigAssumption`,
`PatchAssumption`, `CallAssumption`).

**TurnLifecycle.** None of the safety properties is inductive alone. That no
card is left needs to know whose card it is while the turn runs (`CardOwner`);
that an agent is settled needs to know, of each task, who awaits it
(`TaskOwner`), and that agents of attempts to come do not exist yet (`Fresh`);
that permits add up needs each message to be in the inbox once and at one place
(`InboxQueued`); that a cancelled turn's agent is killed needs the
registry to hold the turn's own token (`OwnEntry`). `IInv` is their conjunction.
`TurnLifecycleProofs` has a lemma for each conjunct, with a step for each
action, which assumes only the conjuncts it needs; `Ownership` puts them
together, and the theorems `TypeCorrect`, `PermitsAddUp`, `EntriesAreLive`,
`EntriesAreOwn`, `CancelNeverMissed`, `CardsAreReleased` and `AgentsAreSettled`
follow from it. `OneFrame` is an action property: a frame is written from two
places only, and `FrameAtEnd` says that there is none before.

Two promises the code does not keep, a kill and an addressable turn, have a
theorem each that says how far it does keep them. `RunningTasksInReach`: a running
task has its handle in the table, but for the step between the spawn and
`handles.insert`. With it `LateKillsStop` proves `KilledAgentsStop` for every
behaviour in which no kill aborts within that step (`LateKills`), so the window
that `TurnKillRace` finds is the only one; it needs that a kill whose abort is behind
it has stopped its agent (`KillsHold`), and that a waiting agent has no task yet
(`WaitsToRun`). `OnlyOthersHide`: a turn under way has no entry only if a turn with
the same key ended, whence `AloneAddressable`, that with distinct keys
`InFlightAddressable` holds from `open` to `close`.

`TurnsShrink` is what of `TurnEnds` and `CancelEnds` does not need fairness. Each
step of a turn lowers `Left`, its place on the way to the end plus eight for each
attempt it may still make, and no step of another turn, an agent, a kill or the
shutdown raises it. A turn can therefore only stand still, never go round.

**Refinement.** The last section of `TurnLifecycleProofs` maps the place of a turn
to a phase of the service and its token to "asked". Most steps do not change the phase (`QuietStep`); `Dispatch` is `Admit`
because `PermitAccounting` turns a free permit into a count of served turns
below the capacity; `Answer` and `NotifyCancelled` are `Reply`, the second with
"cancelled" only for a turn that was (`Asked`).

**ReliabilityLayer.** `Accounted`: whatever the interleaving of senders, each
number drawn is in one hand or was pushed, none is in the buffer twice, and the
buffer keeps its bound. `ReplayCovers`: with any number of senders, everything pushed after a
cursor is in the buffer or the client is told to resync, unless the entry at the
buffer's front was overtaken. The invariant says of every position of the
buffer that has not been overtaken what lies behind it, so that it survives
the eviction of the front. `Gapless`: with one sender at a time nothing is
overtaken, the buffer is the run of numbers that ends at the last one pushed, and
a replay is exactly the numbers after the cursor, in order (`ExactSlice`): a run
of numbers filtered by "after the cursor" is its suffix (`AmongSuffix`).

**Filter.** `Among` is a recursive function on how far it has looked, not a
`SelectSeq`, because a definition of that form can be reasoned about: it is
what the replay, the forwarder and the completeness of a stream are made of.
`FilterProofs` proves what it computes for every sequence: that the entries of
the result are those of the set (`AmongEntries`), what it gives on a suffix
(`AmongSuffix`) and on two sequences joined (`AmongConcat`). These are inductions on
a length. The library's induction theorems cannot be used, so each is proved as
the absence of a least exception (`Least`, from the well-foundedness of the
naturals): the lengths at which the statement fails would have a least one, which is not
0 and whose predecessor holds. `Join` is the concatenation under a name the
provers do not expand.

**Delivery.** `DInv` says where a frame of this boot is: in one outbox
(`OutboxFresh`), once on the wire (`WireFresh`), or given, and that whatever is in any
of these places was pushed in this boot (`Past`), so that a number that a restart
uses again meets no trace of itself; and that no frame is for a connection yet to be
opened (`Targets`). From it `FramesStayHome`, `NoFrameTwice`,
`CursorPastAll`, `LiveDelivery` and `DeliveryTypes`. `LayerSurvives` takes the layer's
own properties through the composition, and `BootsAreLayers` says why that works: between
two restarts every step is a step of `ReliabilityLayer` or a stutter.
`ResumesBringNothing` proves the cause of the run `DeliveryResume`: whatever the
sizes, the answer to a resume leaves the wire as it is. It also means that
`GivenOnce` has never had to stand a replay that brings frames: were the bridge given
the gateway's layer, a frame broadcast just after the reconnection could be
replayed as well, and the theorem would have to be proved again.
`FirstConnectionComplete` is the other side of that run: as long as the client has
connected once only and is connected, it has every frame of its own turns once all is
quiet, because on one connection every frame that left the outbox is given, or is
still on the wire.

**RecoveryLadder.** `LInv` adds to the properties where the ladder is (`Shape`: who
has paid, that no run has succeeded while it climbs) and what it carries
(`BestSoFar`: the best result is the furthest failure so far). From it
`BudgetKept`, `SuccessEnds`, `BestReturned` and the action property
`RetriesDisciplined`. `WorkIsKept` adds that the run a checkpoint came from is an earlier
one; `SwapsLeave` that the first run used the override and that a candidate is
held against it when it leaves the chain, and assumes that there is an override
(see Divergences for what happens without one). `LadderShrinks` gives the ladder a
measure (`ToGo`) that every step lowers, `RunsAreBounded` one that caps the executions
when `max_total_attempts` is 0. The first is why the ladder cannot go round for ever;
that it does not stand still before its end takes fairness, and is `LadderEnds`.

**Stream.** `SInv` says whose sender an entry of the registry is (`Owned`), that
the channel of an ended collector is empty and has no sender left, not even one
just looked up (`Drained`), which spans are open (`Worded`), and that the text and
reasoning a channel accepted is what was sent joined with what is still in the
channel (`Conserved`). From it `SinksAreLive`, `SpansAreWellFormed`, `TerminalIsLast`
and `StreamTypes`; `StreamsAreComplete` is `Conserved` at the terminal frame, when
`Drained` has nothing left in the channel. That each step conserves the fragments is
`AmongConcat`: the frames a delta becomes, markers of spans included, hold
the fragment of that delta and no other (`FramesKeepFragments`).
`ChannelsStayClosed` is the half of `TurnAnswered` that needs no fairness: once a
turn let its sender go and no callback has it, the weak reference left in the
registry cannot be upgraded any more, by an agent left running either.

**Automation, Supervisor, Daemon.** `ScheduleKept` is inductive with the types.
`VerifiedSuccess` needs what the gate has seen in every phase (`Judged`,
`GateArmed`), `RunsCounted` and `OpenRunsLive` what a row says of its definition and its
execution (`RowsMatch`), the latter also that only a manual run can have been dropped
with its request (`Awaited`), `RestartsBounded` how much of the budget is spent while a restart is
pending (`Spending`) and that the end of the process forgets it all (`Forgotten`).
`WebNeverForgotten` follows from the same invariant, for every budget and set of
critical tasks.
`DaemonRunsAutomations` and `DaemonSupervises` show that each step of the
daemon is a step or a stutter of each part, so that `DaemonKeepsPromises`
follows from the theorems of the parts.

`LiveRunsOpen` does not hold (`DaemonRecovery`), and two theorems say what breaks
it. `IdleRecoveryKeepsRuns`: nothing but a `recover_stranded` that finds an
execution under way parts the row from the run. `OneStartKeepsRuns`: in the daemon
that happens only after a second start of the web surface in one process, or when
a request is served before the first recovery (`EarlyRequests`); otherwise the loop
that recovers is the first thing in its process (`FirstThing`).

**ToolConsent.** `WInv` follows an answer from the request that gives it to the call
that takes it: a card in a registry has not been answered (`OpenCards`), a call that
waits without an answer has its card there (`Waits`), an answer under way is what was said
(`Answers`), nothing is said of a card not yet shown (`NotShown`) and nothing
twice (`OneWay`); then what a call beyond a card stands on (`Taken`) and what a
refusal does (`Refusals`). `ConsentGiven`, `RefusalsJustified` and
`CardsAreMatched` follow. `ConsentTypes` also follows each request through the
configuration and needs `PatchAssumption`.

`AnsweredIsDurable` is about the three copies of the configuration. While requests come
one after the other, at most one is at work, and `Progress` says how far it has
brought its change: into its text, the live copy, the file, the server's copy, in
this order; when none is at work the three agree with what was promised
(`Orderly`). What a restart finds in the file is what `Progress` says of the request
it interrupts. `RestartOutcomes` proves `RestartRestores` from it: a restart between
requests loses nothing, one during a request leaves the old configuration or the new
one in all three copies, except between the truncation and the write, where it leaves
the default.

`CallsGoForward` is the half of `CallReturns` that needs no fairness: a call goes from
the path card to the tool card to its end and never back (`Stand`), and a
deadline that passed is not forgotten by the re-evaluation every half second.

The type invariants of `RecoveryLadder`, `Stream`, `Daemon` and `ToolConsent`,
the capacity and the order of the layer's buffer and `SuccessIsFinal` are
proved and have no run of their own.

Only model-checked: liveness (`TurnEnds`, `CancelEnds`, `ShutdownCompletes`,
`LadderEnds`, `TurnAnswered`, `CallReturns`), since fairness and `ENABLED` are out
of the prover's reach; and the violations themselves. Of these liveness
properties the part that is safety is proved where there is one to state: that
nothing goes round or comes back (`TurnsShrink`, `LadderShrinks`,
`ChannelsStayClosed`, `CallsGoForward`). What TLC adds is that, with the fairness of
section 5, no one stands still for ever. For `TurnAnswered` a bound matters:
`MaxEvents` ends the streaming of the agents. With streams that never end, two agents
of one session could pass the sender of a turn that has left from callback to
callback, each upgrading the registry's weak reference while the other still holds
it, and the collector would wait; the run says that nothing else delays it.

## 7. Divergences

Found while modelling, each at a line of the code and against what is said of
it. The first four have a run that finds the behaviour.

* *A kill can miss a running task* (`TurnKillRace`). `kill` aborts the handle it
  finds; between `bind_agent` and `handles.insert` (`K/supervisor.rs:442`) there
  is none. The agent is marked stopped and its task runs on, against
  `src/docs/rfc-049-turn-cancellation.md:45`. No other kill misses
  (`LateKillsStop`), and one that comes
  after the handle is stored stops the task (`RunningTasksInReach`).
* *One turn closes another's entry* (`TurnUncancellable`). `close`
  (`K/turn_registry.rs:121`) removes the key whoever opened it; of two turns of a
  session the second to end cannot be cancelled any more. A turn alone in its
  session can (`AloneAddressable`).
* *A resume replays nothing* (`DeliveryResume`). The bridge's layer is not the
  gateway's (`A/plugin.rs:421`): the answer to every cursor is an empty replay,
  without a resync, against `src/web/src/stores/chat.ts:962`. Before the first
  reconnect nothing is missing (`FirstConnectionComplete`).
* *A run that goes on is marked failed* (`DaemonRecovery`). Every start of the web
  surface spawns a tick loop that first closes all open runs
  (`A/plugin.rs:499`); after a restart of the web server inside the process
  (`src/src/supervisor.rs:421`) these are live, against "stranded at `running` by
  a prior process crash" at `K/automation/store.rs:680`. The old loop goes on
  too, and two loops can fire one due slot twice; `src/src/supervisor.rs:166` says
  that `start` "always spawns exactly one server task". Without that second start no live
  run is disowned (`OneStartKeepsRuns`).
* *A turn without a connection is shown to all.* The frame of a `POST /api/chat`
  turn has no target and is passed on by every WebSocket (`A/routes/chat.rs:1198`),
  as `G/message.rs:155` says it should be ("None means broadcast to all
  connections"), of a field "Used to prevent cross-tab message leakage in multi-session scenarios".
  `OwnConnection` speaks of frames that have one.
* *A run whose client goes away stays open.* The run route awaits the whole execution
  (`A/routes/automation_routes.rs:244`); dropped with its request, it never
  reaches `finish_run`, and the row is `running` until the next start of the web
  surface marks it failed, as if it were one of "a prior process crash"
  (`K/automation/store.rs:680`). `OpenRunsLive` says that no other run of a living
  daemon is left so.
* *A fallback can be the model that failed.* Without an
  override the primary is read from the failed result, which has no model id
  (`K/supervisor.rs:578`), against `K/resilience/coordinator.rs:227`.
* *The timeout leaves the task running.* `cleanup_on_failure` only removes the
  card (`K/agent_lifecycle.rs:174`), under a comment at line 171 that says it
  aborts the task.
* *A cancel leaves a card.* A dropped `execute_directive` never reaches its
  clean-up; `src/docs/ARCHITECTURE.md:286` says "Always cleans up". `CardsReleased`
  excludes cancelled turns for this reason.
* *A cancel can be answered as an error.* `bind_agent`'s finding comes back as an
  error (`K/agent_lifecycle.rs:123`) which the `select!` can take before it polls
  the token again; `src/docs/rfc-049-turn-cancellation.md:130` calls a cancel "a
  user-initiated stop, not a fault". `TurnService` allows both replies.
* *A shutdown waits for a permit.* The loop awaits a permit inside the branch of
  `recv` (`G/gateway.rs:332`). Without an execution timeout and with every permit held by
  agents that do not answer, `run` does not return. `TurnLive` has the timeout on.
* *Numbers are pushed out of order.* The number is drawn before the lock is
  taken (`G/reliability.rs:82`); of two concurrent dispatch tasks the later
  number may be pushed first, evicted first, and be missing from a slice that is
  returned without a resync (lines 9 and 80 say "gapless" and "order").
  `NoSilentGap` excepts a front that was overtaken for this reason, and `Gapless`
  has one sender.
* *`last_seq = 0` is not a full replay* once anything was evicted
  (`G/reliability.rs:120`, against line 111): the answer is a resync.
* *A killed retry is retried.* L1 leaves its loop only for a class
  (`K/resilience/coordinator.rs:203`); a killed agent has none (against line 152).
* *Unknown failures are retried as often as transient ones*
  (`K/resilience/coordinator.rs:180`), against "one same-model retry" in
  `src/crates/oxios-ouroboros/src/resilience.rs:49`.
* *L2 decides by the first failure's class* (`K/resilience/coordinator.rs:229`): an
  L1 run that failed on authentication does not rule out its provider (against line 202).
* *The checkpoint is the best run's, not the previous one's*
  (`K/resilience/coordinator.rs:264`, against line 261). `CheckpointIsFurthest` states
  what does hold: no work is undone.
* *A ladder can end without a class* (`K/resilience/coordinator.rs:354`, against
  line 15): a classless run with more steps becomes the best.
* *Streams of one session mix.* An earlier turn's collector unregisters a later
  turn's sink, which then gets no more partials; the deltas of an agent left
  running appear in the next turn's stream. `NoStaleSink` and
  `CompleteBeforeTerminal` state what holds all the same.
* *A reasoning span can be ended twice.* After a text delta closed it, a late
  `ThinkingEnd` sends a second `reasoning.end`, against "never double-fires" in
  `K/agent_runtime.rs`. `SpansWellFormed` speaks of open spans only.
* *A run's end can undo a pause.* A scheduled success, and a manual run that begins,
  set a paused definition active (`K/automation/store.rs:514`, against
  `K/automation/model.rs:22`); a trigger set while it is paused, followed by a
  success, leaves it active without a next run.
* *A lowered ceiling leaves the row active.* `set_trigger` may set
  `max_executions` below the count; the row stays active and due, and is only
  skipped (`K/automation/store.rs:203`). A manual run that races a tick can
  exceed the ceiling by one.
* *A web surface that fails at boot is only logged* (`src/src/surface.rs:96`): the supervisor
  has no handle to watch and nothing restarts it. `NeverForgotten` speaks of a
  server that was started.
* *Concurrent changes of the approval configuration are lost.* Grants are
  read-modify-write under two separate locks (`K/kernel_handle/infra_api.rs:110`):
  of two overlapping requests one can undo the other. A PUT of the whole
  configuration overwrites what a grant put there, against
  `A/routes/security_routes.rs:63`; a PUT of the approval section "requires a restart", and the
  next grant takes it off the disk again. `UpdatesDurable` is about requests that follow
  one another.
* *The configuration file can be emptied or garbled.* `tokio::fs::write` truncates
  first: a stop in between leaves an empty file, which is the default
  configuration (`RestartRestores`); two overlapping writes may leave a text that does
  not parse, on which the daemon does not start.
* *A configuration request can be half done.* Its handler is dropped at the write if the
  client goes away: the file and the live copy have the change, the server's copy
  (`A/routes/security_routes.rs:64`) does not, and the next PUT takes it off the disk.
  `UpdatesDurable` is about requests whose clients wait.
* *An accepted answer can come too late.* An approval answered with 200 in the
  round in which the deadline was polled is denied; a denial in the round of a
  re-evaluation is ignored if the policy now allows the call. A remembered
  approval may be answered 404 although its grant took effect.
* *An aborted call leaves its card.* Nothing takes it out of the registry
  (`K/tools/pending_tool_approvals.rs:30` says "in-flight"; `cancel_all` at line
  73 is never called), and answering it returns 200. `CardsMatch` allows cards of
  dropped calls.
* *A path answer is not checked again.* The result's comment says "re-check and
  proceed"; the code proceeds. `Manual` and `AllowList` decide alike
  (`K/approval/policy.rs:39`).

## 8. What is not modelled, and what that means

Of section 1: provider health, the A2A breaker and the budget manager are
planned; the others are left aside for the reasons in `PROJECT.json`. Nothing here
speaks of a second daemon on the same store, or of what a disk does beyond
truncating before it writes.

`Stream` and `TurnLifecycle` are two views of a dispatch task: the first has no
permits and no registry of turns, the second no partials. `Automation` leaves
out `set_next_run`, which only tests call, and the instants that cron
expressions stand for. `ToolConsent` has calls of one agent, so that a
directory allowed for a while is allowed to all of them; a headless run, which shows no card, and
`ask_user`, which has no deadline, are not in it.

`TurnLifecycle` has one channel, and no shutdown by force: a dispatch task
that outlives `SHUTDOWN_TIMEOUT` goes on in the model, as it does in the code
until the process exits. `execute_with_feedback`, the review and its single retry
are not on the path of a chat turn. Memory ordering is taken as sequentially
consistent: the flags are atomics read under locks or by the task that polls them.

## 9. Running it

`tlasany M.tla` parses a module, `tlc -workers 2 -config R.cfg M` makes a run (the
module of each run is in `PROJECT.json`), `tlapm M.tla` checks the proofs of a module
whose name ends in `Proofs`. Definitions that begin with a comment "Mutant of ..." are
not part of the model: they are plausible mistakes, put in the place of the
definition they name to see that the properties notice.
