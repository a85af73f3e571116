# A verification development of jingwei

Jingwei is a Rust harness for agents: a program registers plugins, the harness
composes and starts their services, and every *turn* of an agent runs against
an append-only *Session* log through three canonical runtimes (agent, model,
tool), under a *budget* that outlives the process. This directory holds TLA+
models of its concurrent core, TLC configurations that check them on small
instances, and theorems about them checked by TLAPS. `PROJECT.json` is the
index: components, runs, the code each definition stands for (`map`), hazards
and theorems.

Paths below are relative to `src/crates/`.

## 1. The system

| Component | Where | State it keeps | Operations |
|---|---|---|---|
| Plugin composition | `plugin/plugin` | registries of agents, tools, guards, hooks; factories; the ledger of started lifecycles | resolve, commit plans, activate (construct, start), roll back, shutdown |
| Agent runtime | `runtime/agent` | lifecycle, jobs, detached closure failures; per turn: cancellation reason, the shared Session lease | start, start_turn, cancel, wait, drive_turn, stop |
| Session coordinator | `session/runtime` | `stopping`, map of coordinators; per Session: mailbox, log in memory, active turn, lease tokens, pending Begins, poison | begin_turn, append, settle, abandon (drop), shutdown |
| JSONL persistence | `session/jsonl` | a file per Session; per Session gate: uncertain latch, writer lock; operation count | load, commit_durable, reclaim, stop |
| LLM runtime | `llm/runtime` | lifecycle, jobs with phases, FIFO queue, occupied slots, unacknowledged failures; per turn: open, jobs, failures | start, bind_turn, generate, generate_stream, finish, stop |
| Tool runtime | `tools/runtime` | the same without queue; guards, authorizers, approvals | start, bind_turn, call, finish, stop |
| Budget ledger | `core/budget/src/lib.rs` | charged, reserved and pending amounts of a task and its run, stop reasons, waiters | begin_run, reserve, mark_started, settle, cancel, expire, stop_with, finish |
| Budget checkpoints | `core/budget/src/{checkpoint,execution,grant,recovery}.rs`, `budget/file` | revisions of a task's ledger in a compare-and-swap store | claim, commit_closed, grant, recover |
| Task coordinator | `task/runtime`, `task/state`, `task/file` | one active run; snapshots of a task's state by revision | start, cancel, close, publish |
| Context builder | `context/context` | none (pure) | select and render history under a size limit |
| Agent actions, reference agent | `agent/action`, `agent/reference` | the steps of one turn | a loop of model and tool calls |
| OpenAI provider | `llm/openai` | the SSE decoder | generate, generate_stream |
| Harness and facades | `runtime/runtime`, `runtime/standard`, `sdk/facade` | none | forward |
| Core contracts | `core/core`, `core/agent`, `llm/llm`, `tools/tool`, `session/session` | none | types, traits, validation |

**Interactions.** `Harness` calls the Agent runtime. `drive_turn` begins a
Session turn, binds a model turn and a tool turn to it, and runs the agent,
which reaches both through gateways. Model and tool jobs reserve from the
turn's budget, append a request (call) and a result record through the one
Session lease the Agent runtime holds, and are drained by `finish` before the
terminal event is appended and the lease settled. A durable turn then commits
its budget checkpoint, and the Task coordinator publishes the task's state.
Shutdown goes through the lifecycles in reverse order of construction.

**What is hard.** Every operation may be dropped by its caller at an await;
drivers run detached from their callers; capacity, tables and ledgers are
shared under locks that are released between two steps; notifications are
permits that may be stale; the outcome of a durable write may be unknown;
shutdown runs against all of it. The hazards are listed with their lines in
`PROJECT.json` with the properties that would show them going wrong; the two
that have none say why.

**What makes each component correct.**
Session: turns never overlap, the log consists of whole turns, callers and
observers are told what is durable, no lease is lost, shutdown returns.
JSONL: nothing is acknowledged that a crash can lose; after an unknown outcome
nothing is answered from the file until it was synced by a new provider.
LLM runtime: slots are exact, the queue is served in order, no call without
slot, charge and durable request, no failure unreported, closure returns.
Tool runtime: no body before its durable call, none without its result.
Budget: no limit exceeded by admissions, nothing spent is refunded, a stop
wakes every waiter. Checkpoints: one executor at a time, revisions contiguous,
a crash after a claim is seen. Task: one run at a time, a cancel reaches its
turn, a snapshot matches its evidence. Plugins: started before dependents,
stopped after them, once. Agent runtime: every turn that begins is closed, the
first reason of a cancellation is reported.

## 2. What is modelled

One module per component. Two kinds of composition occur. Where components
share state in the program, one module holds them: the coordinator with its
callers and its storage, the task coordinators with their three stores, the
agent driver with its Session, its capabilities and its budget, the hosts with
the checkpoint store. Components that share nothing are checked side by side in
one run: the MC module instantiates each with the values of its own constants,
a variable `scenario`, fixed by the initial state, names the one a behaviour is
about, and the variables of the others do not change. A property of such a run
says for each scenario what holds in it. Most MC modules also extend their
components, so that the property a run lists is the formula the theorems prove;
the `Narrow` of `MCModelScheduler`, `MCSessionCoordinator` and `MCAgentRuntime`
bounds a behaviour to what its scenario, or its storage, is about.

| MC module | Composes |
|---|---|
| `MCSessionCoordinator` | `SessionCoordinator` with two storages: one that fails but completes no write late, and one with every fault |
| `MCModelScheduler` | `ModelScheduler` in three scenarios |
| `MCStores` | `JsonlPersistence` and `CheckpointFile`, twice each |
| `MCBudget` | `BudgetWaiters`, and `BudgetLedger` with two sets of limits |
| `MCBudgetExecution` | `BudgetExecution` |
| `MCTask` | `TaskCoordinator`, and `TaskHistory` without and with snapshots |
| `MCTools` | `ToolRuntime` twice, and `ToolRecovery` for two kinds of effect |
| `MCAgentRuntime` | `AgentRuntime` in three scenarios |
| `MCPlugins` | `PluginLifecycle`, `PluginGraph`, and `PluginSelection` with two sets of compositions |
| `MCEnds` | `ModelScheduler`, `ToolRuntime` (twice), `AgentRuntime`, `TaskCoordinator`, `PluginLifecycle`: what must end |

Three modules are abstract specifications that others are shown to implement:
`SessionLog` (by `SessionCoordinator`), `DurableLog` (by `JsonlPersistence` and
`CheckpointFile`), and `ExecutionClaim` (by `BudgetExecution`); the claims that
`TaskCoordinator` takes are those of `ExecutionClaim`, one atomic step each.

### `SessionCoordinator` (with `MCSessionCoordinator`) and `SessionLog`

`SessionCoordinator` is one Session of `session/runtime/src/coordinator.rs`:
the coordinator task, its mailbox, the callers that use it, the storage and
the shutdown. An action is what runs between two points where somebody else
may act: an await, or a read of the shared `stopping` flag or of a channel
whose other side may close. `task.at` names the await the coordinator is at.

| Variables | Code |
|---|---|
| `stopping`, `down` | `RuntimeControl.stopping`; where `shutdown` is |
| `coord`, `mailbox` | the coordinator's channel (absent, open, closed, exited) and its commands |
| `task` | the await point of `run_coordinator` and the locals that survive it |
| `loaded`, `events`, `active`, `nextToken`, `pending`, `poisoned` | `CoordinatorState` |
| `durable`, `limbo`, `faults` | the storage; an event whose commit failed and may yet appear; what the storage may do wrong, one of `Storages`, fixed from the start (`Sound`: no late write) |
| `pc`, `reply`, `lease`, `history` | a caller: where it is, its oneshot, its `LeaseRelease`, its admission snapshot |
| `observed` | what the observers were given |

*Callers*: `BeginCheck`, `BeginLocate`, `BeginRecheck`, `BeginSend`,
`BeginReturn`, `BeginCancel` are `begin_turn` cut at its reads of shared state;
`AppendSend/Return/Cancel`, `SettleSend/Return/Cancel`, `TurnDrop` the rest of
the API, each cancellable while it awaits. *Coordinator*: one `Receive...` per
command, `Sweep` (`grant_pending`), `Load` and `Grant` (`admit`), `Commit...`
(one per outcome of the storage), `Reload` (`reconcile_indeterminate`),
`Observe`, `Exit`. *Storage* is external: it may fail definitely or
indeterminately, be unreadable or corrupt, or complete an uncertain write late.
Names, timestamps and payloads of events are abstracted to an identifier, a
kind (a delta or the terminal `done`), a turn and a sequence number; a turn is
named by its lease token, since both are fresh at the same point.

`SessionLog` is the abstract promise: one log, one open turn, events appended
at the head under fresh identifiers, nothing after a terminal event.
`SessionCoordinator` implements it under `log <- durable`,
`turn <- active.token`, `last <- nextToken - 1` (`ImplementsLog`).

### `ModelScheduler` (with `MCModelScheduler`)

The canonical LLM runtime, `llm/runtime/src/{lib,scheduling,budget}.rs`. A step
is what runs under one acquisition of the runtime's lock, or between two awaits
of a driver. `at[j]` names where the driver of job `j` is; `phase[j]` is
`ScheduledJob.phase` (`none` before admission, `gone` after removal).

| Variables | Code |
|---|---|
| `lifecycle`, `queue`, `occupied`, `unack` | `RuntimeControl` |
| `open`, `ledger` | `TurnControl` |
| `drained`, `turnDrained`, `wake` | the permits of the three `Notify`s |
| `cancelled`, `turnCancelled`, `budgetStopped`, `expired`, `dropped` | the signals of `JobExecution::interrupted` |
| `reservation` | `JobBudget` |
| `recorded`, `failed` | records known durable; jobs whose driver ends in a closure failure |
| `stopper`, `finisher`, `told` | where `stop` and each `finish` are and what they returned |

`Release` is `release_execution` with the `dispatch_waiters` it ends in, one
atomic step; `Popped` says which queue entries that loop takes off, among them
those that died while they waited. `Admit`; the driver steps
`RecordInterrupted`, `RecordRequest`, `RecordFailed`, `CheckSlot`, `AwaitSlot`,
`Preflight`, `StartProvider`, `ProviderEnds`, `CallInterrupted`, `Settle`,
`RecordResult`; the guard `Close`, `LeaveTables` and `Unwind`; `Finish...` and
`Stop...`. The provider is external: it answers, fails, panics or hangs.
Reasons for stopping are merged where the code goes on in the same way; request
contents and stream deltas are abstracted. `finish` is called once per turn
(it consumes the turn) and `stop` once (the registry owns the lifecycle).

### `JsonlPersistence` and `CheckpointFile` (with `MCStores`), and `DurableLog`

`JsonlPersistence` is the storage of one Session, `session/jsonl/src/lib.rs`,
as several providers use it, in one process or in more.

| Variables | Code |
|---|---|
| `file`, `synced` | the lines of the Session's file; how many of them survive a loss of power |
| `owner` | the OS lock on the writer lock file |
| `prov` | `OperationControl` (`stopping`, the count, the permit of `drained`), the gate and the `uncertain` latch of the Session's state, where `stop` is |
| `job` | an operation: its place, whether its future still waits, its answer |
| `acked` | events a caller was told are durable (history) |

`Call`, `Count`, `Recheck` are `admit`, cut around its `fetch_add`; `Enter` takes
the gate and decides (`Decide` has the checks of `commit_sync` and `load_sync`);
`Write` and `Sync` are the two system calls, each of which may fail; `JoinFails`,
`Take` and `Cancel` are the ends of a future whose blocking task goes on without
it; `StopBegin/StopStep` are `stop`, `Drop` the last handle, `Crash` and
`PowerLoss` the process and the machine. `Recovery` providers are those of a
`JsonlRecoveryOwnership`.

`CheckpointFile` is the store both `budget/file` and `task/file` implement:
`store` is `Control` (`accepting`, operations in flight), `lock` the OS lock
each operation takes with `try_lock`, `closer` a call of `close` with its
`Notified`. `Admit`, `Enter`, `Write`, `Sync`, `Take`, `Cancel`, `Close`,
`CloseStep` mirror the code; an operation that finds its own candidate at the
tail syncs before it answers. The two crates differ in the record they hold,
which is a sequence number and an identity here.

`DurableLog` is what both promise: the lines that survive every crash only grow
at the end and stay well formed, and what was acknowledged is among them. Both
implement it under `kept <- SubSeq(file, 1, synced)`.

*Assumed of the system*: a successful sync covers every line the file shows,
also those another process wrote; that a new file's directory entry is durable
is the host's concern.

### `BudgetLedger` and `BudgetWaiters` (with `MCBudget`)

`BudgetLedger` is `core/budget/src/lib.rs` with the sealing and restoring of
`checkpoint.rs`. Every operation holds the ledger's lock from its first line to
its last, so an action is an operation: `BeginRun`, `Finish`, `DropRun`,
`Expire`, `StopRun`, `BeginCleanup`, `PrepareReport`, `FinishPending` on the run,
`Reserve` on a scope, `MarkStarted`, `CancelBeforeStart`, `Settle`,
`DropReservation` on a reservation, `Seal` and `Restore` at a transfer. `Tick`,
with which each begins, samples the clock, which may run backwards. `account` is
`State`, `runHeld` and `held` are the handles that still matter; `PendingSum`, the
total of one resource over the open reservations, counts their units. Amounts have a
width (`MaxValue` stands for `u64::MAX`, 4 in the run), and so have identifiers,
so that every checked and saturating operation meets its boundary.

`BudgetWaiters` is `BudgetScope::stopped`: `Enlist`, `Register`, `Check` are the
steps of a poll, `Use`, `Collect`, `Wake` those of whoever stops the ledger
and then looks for waiters, under two locks nobody holds together.

### `BudgetExecution` and `ExecutionClaim` (with `MCBudgetExecution`)

The life of a task's checkpoint, `core/budget/src/{checkpoint,execution,grant,recovery}.rs`:
hosts acquire it, run a turn, close it, raise its limit and recover it after a
crash, over a compare-and-swap store.

| Variables | Code |
|---|---|
| `chain` | the images the store committed |
| `jobs` | compare-and-exchanges on their way; a cancelled host leaves its own behind |
| `pc`, `base`, `claim`, `ledger` | a host: its step, the image it loaded, the one it claimed with, its leased budget |
| `log`, `open`, `owner` | the Session's closed turns, an unfinished one, who may write it (external) |
| `execs` | execution identifiers, which are fresh (external: they are random) |
| `kept`, `told` | final images retained from failed commits; operations somebody was told are applied |

`Acquire`, `BeginTurn`, `CloseTurn`, `CommitClosed`, `DropLease`, `Grant`,
`Recover`, `Cancel`, `Crash` are the host's; `CompareExchange` and `Refuse` the
store's, which answers, loses its answer or is late. `Transition` is
`validate_successor`, with its clauses on grants and recoveries. Images keep
what these decide on: revision, execution, anchor in the log, spending, limit,
stop, audits.

`ExecutionClaim` is the abstract claim: free, held, or orphaned; it covers one
turn, is released with it paid, and its identifier is never claimed again.

### `TaskCoordinator` and `TaskHistory` (with `MCTask`)

`TaskCoordinator` is `task/runtime/src/lib.rs` over its three stores: `state`
(snapshots), `budget` (checkpoint) and `log` with `open` (the Session). An
action is what a worker does between two awaits, in the order of the code:
`LoadState`, `LoadBudget`, `LoadHistory`, `Authorized`, `ClaimLoaded` or
`Claim`, `Recheck`, `Restate`, `StartTurn`, `Publish` (of its canceller),
`Look`, `TurnEnds`, `Waited`, `PublishEvidence`, `Commit`; `Cancel` and
`CancelTurn` are the two halves of `cancel`, `Close` and `CloseStep` those of
`close`, `Crash` the process. `Host` steps, `Reconcile`, `Grant` and `Retry`,
are what the owner of the stores may do between any two of them. `Verified`,
`Capture` and `Succeeds` are the evidence checks of `task/state`.

`TaskHistory` is `assess_task_history` (`task/state/src/history.rs`), one event
a step, with the snapshot of its settled steps; events of a foreign writer come
up in it. The code's maps ordered by key are read off by `InOrder`. Its reference definitions are `WellFormed` and `Matched`, which say of
a whole history what the loop finds out event by event.

### `ToolRuntime` and `ToolRecovery` (with `MCTools`)

`ToolRuntime` is `tools/runtime/src/lib.rs`. A step is what runs under one
acquisition of the runtime's lock, or between two awaits of a driver: `Call`
(the checks), `Admit`, `RecordCall`, `Check`, `Answer` (of guards and
authorizers), `Enter`, `BodyEnds`, `Settle`, `RecordResult`, `Close`;
`Interrupt` is `select_interruption` at any of them, `Unwind` the drop of the
driver, `Finish...` and `Stop...` the closures. The variables are those of
`ModelScheduler` without queue and slots, plus `entered`, `outcome` and `log`.
Guards, authorizers and bodies are external: they answer, panic or hang.

`ToolRecovery` is `tools/tool/src/recovery.rs`: `Valid` is the validation of a
history of attempts, `Retryable` the decision, `Prepare`, `Take` a plan with its
clones. `effect` is the tool's declared effect; `ran`, which no operator of the
code reads, is what the tool really did.

### `AgentRuntime` (with `MCAgentRuntime`)

`runtime/agent/src/lib.rs`: `turn[t].at` names the await a driver is at, in the
order of `drive_turn`.

| Variables | Code |
|---|---|
| `lifecycle`, `jobs`, `detached`, `stopper` | `RuntimeControl`, with its bounded list of failures; `stop` |
| `turn` | a driver: place, cancellation reason, receipts, the results of the closures |
| `budget` | the turn's run, its stop, its leftovers |
| `controller` | a `TurnController` and the oneshot to it |
| `log`, `holder`, `sick` | the Session: log, lease, whether it is poisoned |
| `checkpoint` | the durable image and its claim |

`Admit`, `RecordUser`, `Works` (the agent's body, external: it calls models and
tools, emits, returns or hangs), `FinishModels`, `FinishTools`, `BeginCleanup`,
`RecordMessage`, `Prepare`, `RecordReport`, `RecordTerminal`, `Settle`,
`Finalize`, `Send`, `Leave`; `CancelTurn`, `Requested`, `Unwind`, `Read`,
`DropController`, `Stop...`. The Session is what `SessionCoordinator` promises
a holder of a lease: an append that is written, one that is not, or one after
which it answers nothing more.

### `PluginOrder`, `PluginGraph`, `PluginSelection`, `PluginLifecycle` (with `MCPlugins`)

`PluginOrder` and `PluginGraph` are `plugin/plugin/src/graph.rs`: `Pop` is an
iteration of `resolve_order`, compared with the least topological order;
`SmallestCyclicComponent` of `PluginGraph` is the two depth-first searches,
compared with real cycles.
`PluginSelection` is `Registrar::finish` up to the activation: `Validate`,
`Decide` (one pass of the selection of providers), `Mount`. `PluginLifecycle` is
the rest: `Constructed`, `StartOk`, `StartFails`, `RolledBack`, and `shutdown`
with its lock (`Acquire`, `StopNext`, `StopEnds`, `Answer`), any of whose
futures may be dropped (`DropCall`, `DropFinish`, `DropHarness`).

## 3. Runs

| Run | Scenarios | Properties | Result |
|---|---|---|---|
| `session_safety` | 2 callers, 3 drafts (one reuses an identifier), a fresh or used Session, storage that fails definitely, indeterminately, or cannot be read; and a storage that completes writes late | `LeaseExclusive`: turns never overlap. `LeasesEnd`: no lease is lost, nobody is left in the queue of an idle Session, shutdown leaves no coordinator. `MemoryTruthful`: whole turns, memory is the log. `ObserversFollow`. `AnswersTruthful` | holds |
| `session_live` | 2 callers, a sound storage with failures | `ImplementsLog`; `FairlyAnswered`: every Begin is answered; `ShutdownCompletes` | holds |
| `scheduler` | 3 jobs for a slot (FIFO, limits); 2 jobs of a turn, one a stream, every signal and fault; 2 turns with failing closures | `SlotsRight`, `NoOvertaking`, `DrainedQuiet`, `ClosureTruthful` | holds |
| `stores` | 2 JSONL providers and 2 checkpoint stores on one file each with crashes and lost power; a provider that stops beside a recovery owner; a store at its limit that closes | `DefiniteIsTrue`: an operation that says "not committed" has not touched the file. `StopsAndCloses`. `LatchAndIsolation`. `ImplementsPromise` (`DurableLog`) | holds |
| `budget` | 2 waiters beside 2 users; runs and reservations at their limits; clocks that jump | `NoLostWakeup`, `AccountsExact`, `Transferable`, `SpentForGood` | holds |
| `budget_execution` | 2 hosts, lost and late answers, crashes, a grant, a recovery | `OneExecutor`, `ImageTruthful`, `ClosedByItsTurn`, `ImplementsClaim` | holds |
| `task` | 2 coordinators and a host; a history with a foreign writer; a longer history with snapshots | `OneContinuation`, `SnapshotTrue`, `HistoryRead` | holds |
| `tools` | 2 calls under every signal and fault; a runtime for one call; attempts of a tool whose effect must not, and of one whose effect may be repeated | `BodyAccounted`, `ClosureTruthful`, `AttemptsSound` | holds |
| `agent` | a turn with both capabilities and every fault; a durable one that calls its model; a durable one and a turn that takes its place | `ToldTruly` (`OkIsTrue`, `LeaseComesBack`, `FailureKept`), `RecordSound` (`EnvelopeOrdered`, `BoundaryKept`, `ReadyIsClosed`) | holds |
| `agent_report` | the turn, with a deadline that passes late | `ReportAgrees` | **violated** |
| `plugins` | 4 services with any dependencies and 3 calls of shutdown; 3 plugins with any requirements; compositions to be refused; every graph of up to 4 plugins | `LifeOrdered`, `CompositionRight`, `OrderRight` | holds |
| `ends` | 2 model jobs on one slot, 2 tool calls, a turn, a task, 3 services | `SchedulerEnds`, `ToolsEnd`, `TurnsEnd`, `TasksEnd`, `PluginsEnd` | holds |

**The finding.** `drive_turn` looks whether the budget has stopped
(`runtime/agent/src/lib.rs:879`) and then calls `begin_cleanup`, which samples
the clock once more while the time still counts as active. A deadline that
passes in between stops the run: the report says `Budget`, the terminal event
`Done(Completed)`. `validate_closed_tail` calls this "report and terminal
dispositions disagree" (`core/budget/src/execution.rs:300`) and refuses it, so
that `commit_closed` fails and the durable task stays claimed. `agent_report`
shows the steps on a turn without tools and models.
The other runs have the fault (`"late"`) too: what they check holds with it.

**Bounds.** They are named in the modules and set in the `.cfg` files or the
`WITH` clauses, each as small as lets the case happen it is there for.
*Session*: `TokenLimit = 3` stands for `u64::MAX`, so that tokens run out; two
turns are admitted, and a stale Abandon of the first meets the second.
`MaxQueue = 2` bounds what callers have sent and not yet been given; more in the
mailbox are only further stale Abandons and cancelled Begins. *Scheduler*: three
jobs are what lets one be overtaken; two suffice for closure, which does not
depend on the queue. *Stores*: three events of which two compete for a place,
two operations at once, two instances; with three operations against
`MaxJobs = 2` a store refuses one. *Budget*: amounts up to 4 against limits of
2 and 3 can be overrun, saturate and overflow. *Execution*: six revisions allow
two claims with their closing, a grant and a recovery. *Task*: two turns, three
revisions. *Histories*: six events of any writer, eight of a runtime: two turns
with two operations. *Tools*: two calls for one turn's closure; four attempts,
so that a retry of a retry exists. *Plugins*: four services, so that a rollback
can be at any distance from both ends. Interchangeable names (callers, jobs,
hosts, providers, coordinators) are symmetry sets of safety runs; `session_live`
and `ends` use none.

**Deadlock** is checked where the system is open-ended; `Terminated` or `Done`
is the stutter of one that was shut down. It is not checked in `budget`, `task`,
`tools` and `ends`, where bounded callers have nothing more to ask, or
cancelled futures, hanging guards and providers nobody will ever answer, leave
nothing to do: what must go on there is stated by the properties of `ends`.

**Fairness.** Only what the executor polls is fair: tasks that were spawned, and
futures somebody awaits. That an append, a load or an exchange ends is part of
the storage contract and so of the driver's step.

* `session_live`: the coordinator and the steps of shutdown. `FairCallers`
  is a premise of `FairlyAnswered` alone: a caller takes its answer and in the
  end gives up its turn; without it another may hold the Session for ever, as
  the API says. Shutdown returns without it.
* `SchedulerEnds`: drivers and closures; providers need not answer. `DeadlinesPass`,
  which the timer does, is a premise of `FinishCompletes` and `JobCloses` only:
  without deadline `finish` waits for a provider that hangs, as documented.
* `ToolsEnd`: the same; bodies, guards and authorizers need not answer.
* `TurnsEnd`: the driver and `stop`; capability calls end once they are hurried
  by a cancelled turn. The agent, unhurried calls and controllers need not act.
* `TasksEnd`: the worker, and the turn once it is cancelled.
* `PluginsEnd`: whoever awaits is polled; `construct`, `start` and `stop` of a
  service return, as no timeout guards them.

Each property has a *mutant* in `PROJECT.json`: a definition changed the way a
plausible bug would, under which the same run finds the property violated.

## 4. What is proved

Eight modules of proofs, for every value of the constants. Each proves an
inductive invariant `Inv` by one step per action and derives its theorems from
it. They use the named assumptions of the modules on constants, which TLC
evaluates in the runs (`JobsAssumption`, that there are finitely many
operations, is the only one that is about the model rather than the code: an
unbounded supply of operations is what every finite set of them approximates),
and the library's theorems on sequences and finite sets. Every inductive
invariant was checked by TLC on the instances of the runs before it was proved.

**`SessionCoordinatorProofs`**, for any callers, drafts, storages and bounds:

* `TypeCorrect == Spec => []TypeOK`. `TypeOK` is not inductive by itself: that
  a commit the coordinator takes up is an event, and not `None`, depends on
  `EventAtHand`, and that the commands of the mailbox carry a draft or a
  response when their operation needs one on `mailbox \in Seq(Sendable)`.
* `LeaseIsExclusive == Spec => []LeaseExclusive`: turns of a Session never
  overlap, whatever is cancelled, dropped, delayed or shut down. The inductive
  invariant `LeaseInv` says that tokens below `nextToken` are spent
  (`TokensSpent`); that no two of a caller's lease, the grants on their way
  and the leases offered carry the same token (`TokensUnique`); that who holds
  a turn owns the active lease of a running coordinator (`OwnersActive`); that
  nothing in the mailbox would release a lease its owner still holds
  (`NoReleaseSent`) - which is why an old Abandon is harmless; that the
  coordinator admits only while no turn is active (`AdmittingIdle`); and that
  commands exist only for a coordinator that does (`MailboxNeedsCoordinator`).
* `LeasesAreEnded == Spec => []LeasesEnd`. `ChannelInv` follows each response
  channel: the command that answers a caller who waits is in exactly one place,
  the mailbox, the pending queue or the coordinator's hands, or it has been
  answered. `EndsInv` follows the lease: an active one is with its caller, in a
  reply, or in a release on its way (`LeaseOnItsWay`); an idle Session that is
  about to receive has swept its queue (`QueueSwept`); a coordinator that saw
  the shutdown admits nobody (`Halting`).
* `MemoryIsTruthful`, `ObserversAreShown`, `AnswersAreTruthful`. `LogInv` says,
  for any storage, that memory is a prefix of the log (`MemoryFollows`), that a
  write that may yet appear would leave the log whole (`LimboFollows`), and that
  the log is numbered, without repetition, and in whole turns up to the open
  one. `SoundInv`, for a storage that completes no write late, adds that memory
  is the log except while a reload looks (`Current`), and that an answer on its
  way is still true when it is taken (`AnswersKept`): behind an append that is
  answered no other append of its turn is left (`LastWord`).
* `CoordinatorImplementsLog == Spec /\ Sound => ImplementsLog`: each step that
  changes the log, the open turn or the tokens is one of `SessionLog`'s, all
  others stutter. `Sound` is needed: with a late write the log grows outside of
  any turn, which is what `session_safety` shows memory is protected against.

**`ModelSchedulerProofs`**, for any jobs, turns, capacities, signals and faults:
`TypesCorrect`, `SlotsAreRight`, `DrainsAreQuiet`, `ClosuresAreTruthful` and
`NobodyOvertakes`. `Slotted` is the heart: `occupied` is the number of jobs in
`Preparing` or `Executing`, the queue holds each `Queued` job once, and while
the runtime runs it is empty or every slot is taken. One lemma, `Dispatch`,
says what `dispatch_waiters` keeps of that for any queue and any free slots:
the entries it takes off are a prefix, of which the live ones fill the slots.
`NobodyOvertakes` follows from the same lemma. `Traces` says what a job has
recorded, reserved and been given at each place where it can be interrupted or
lost; `Closed` that a closure which saw the last job leave has let nobody in;
`Failures` that a failure waits in both ledgers or was told.

**`JsonlPersistenceProofs`**, for any providers, recovery owners, operations and
events: `TypesCorrect`, `DefiniteAnswersTrue`, `StopsAreClean`, `LatchHolds`,
`RecoveryIsolated` and the refinement `StoreKeepsPromise` of `DurableLog`.
`Holds` says that whoever holds the gate holds the writer lock and finds the
file as it read it, with the latch set until what it wrote is synced; `Durable`
that what was acknowledged, or will be, lies below `synced`; `Provides` that a
provider counts what works for it, and that `stop` waits for no less.
Of `CheckpointFile`, for any stores, operations and candidates:
`FileTypesCorrect`, `FileAnswersTrue`, `ClosesAreClean`, `OneCandidateWins` and
the same refinement, `FileKeepsPromise`. `FileInv` says that whoever holds the OS
lock finds the lines it has read when it writes, and its own record as the last
when it syncs (`FileHeld`), which is why two candidates for a place never both
get it; that the synced lines are records in a row and hold what was told
(`FileDurable`); and that permits count the work in flight, which a closed store
has waited for (`Permits`, `Closings`).
(`StopsAndCloses`, which the run lists, puts together what these theorems say of
the two kinds of stores.)

**`BudgetExecutionProofs`**, for any hosts, operations, limits and revisions:
`OneExecutes`, `ImagesAreTruthful`, `ClaimsCloseWhole`, and the refinement
`StoreImplementsClaim`.
Exchanges outlive the hosts that asked for them, so what matters is what each
would do if it were the store's next (`Claims`, `Raises`, `Closes`, together
`JobsFit`): a claim brings an identifier the store has never seen, a closing image
follows the claim whose turn is the last of the log. Each host awaits one
exchange, no two carry the same identifier (`Awaited`). A host that executes has
the latest image, and no pending exchange or retained image succeeds it
(`Holds`): that is why nobody else can start. `Books` relates anchors and log.
`Truth` adds what each pending exchange would do to the spending and the audits
of the image it replaces (`Proposals`), and that ledgers only spend.
The module also proves of `BudgetWaiters`, for any waiters and users,
`WakeupNotLost` and `WaitersTyped`. `NoLostWakeup` speaks of the time after the
stop; what is inductive is that a waiter past its registration has a waker or
was woken (`Armed`). Of `BudgetLedger`, for any limits and widths:
`LedgerIsExact` (of `AccountsExact`), `AlwaysTransferable` and `SpentStaysSpent`.
`LedgerInv` says that the account is `Whole` - it would pass the validation of a
checkpoint at any time, which contains that what is reserved is the sum over the
pending reservations - and that the handles hosts still hold name a run and
pending reservations. A lemma on each way a reservation comes, shrinks or goes
says what it does to that sum. Every operation makes an account that `Follows`
the one before it: nothing spent comes back, the first stop stays.

**`TaskCoordinatorProofs`**, for any coordinators: `OneContinues`
(of `TurnsContinueTail` and `OneTurnAtOnce`), `SnapshotsStayTrue` (of
`SnapshotsAreTrue`), `CancelsAreHeard`, `ClosesDrained`, `StateMovesForward`.
The log only grows, so
what a snapshot says of its prefix stays true (`Faithful`, in `Books`), also of
one that is committed late. `Asked`: from its checks on a worker knows the phase
of the turn it means to continue, and since `Recheck` compares the claim's
anchor with the log again, that turn is still the last when its own starts.
`Exclusive`: only the holder of the claim can have a turn open. `Heard`: a
request is either seen by the worker or still carried by the caller of `cancel`,
who looks for the canceller after setting the flag. `Publishable` is why a
retained snapshot can be committed later: whatever names a checkpoint names it
with the same place of the log, none ahead of the store (`Agreed`); a snapshot
made from the one in the store names no older checkpoint (`Successors`); and
what a worker loaded is still in the store or was replaced (`Current`).
Of `TaskHistory`, for any identifiers and histories: `AssessmentIsExact` (of
`HistoryRead`). The loop refuses a history exactly if it breaks one of the rules
that are stated of it as a whole, reports exactly what is unresolved, and its
snapshots only grow. `HistoryInv` says so of what was read so far, from
`Recalled`, what the loop's maps know of the events behind it; `AcceptedWellFormed`
and `AcceptedMatched` say that an event it takes keeps the rules,
`LawfulAccepted` that it takes whatever keeps them, `InOrderSorts` what an
ordered map lists.

**`ToolRuntimeProofs`**, for any calls, turns and limit: `BodiesAccounted` (of
`CallIsDurable`, `RefusedDidNotRun`, `EnteredStaysCharged`) and
`ClosuresTruthful` (of `DrainedIsQuiet`, `FinishIsTruthful`, `FailuresAreKept`).
`Trace` says what a call has recorded, reserved and run at each place where it
can be interrupted or lost; `Flights` which calls are in the tables; `Failures`
that a failure is in its turn's ledger and with the runtime until it was told.
Of `ToolRecovery`, for any attempts and either effect: `AttemptsAreSound` (of
`AttemptsSound`). `RecoveryInv` adds to the validity of the history that what was
refused was not entered, that a plan not yet taken is for the latest attempt
(`Latest`), and that of a tool whose effect must not be repeated only the latest
attempt runs or has run, and none while a plan may make another (`LastOnly`).

**`PluginLifecycleProofs`**, for any services, dependencies and callers:
`LifeIsOrdered` (of `DependenciesUp`, `StopsOnce`, `NothingIsLeft`,
`FailuresAreTold`). The services that can still be stopped are in one place, the
ledger or the call that took it (`Holders`, `Places`), they are the first of the
order (`Ordered`), and whoever stops them takes the last. `Told` adds that what
is told has failed and is told by one call.
Of `PluginSelection`, for any descriptors, requirements and selections:
`CompositionsAreRight` (of `CompositionRight`). While the loop runs, what is
bound is in every complete set of plugins (`Resolved`, by `RequiredDemanded`);
when it has nothing more to add (`Fixed`), what is active is complete
(`ActiveComplete`), and so the least. `NextReady`: as long as nothing waits for
itself, some plugin can be mounted next, and it is mounted behind what it
depends on and fills only its own slot (`Filling`).
Of `PluginOrder`, for any plugins: `OrderIsRight` (of `LoopRight`). `OrderInv`
says that indegrees count what is not yet in the order, and that `ready` has
exactly the plugins of which nothing is missing: the set of which
`PluginSelection` mounts the least. That the loop stops short only of plugins
that wait for each other (`StuckOnCycle`) is why `Cyclic` may stand for its error
there.

**`AgentRuntimeProofs`**, for any turns (durable ones among them), limits and
faults: `TypesCorrect`, `OutcomesAreTrue` (of `ToldTruly`) and `RecordsAreSound`
(of `RecordSound`). `Placed` says, at each place of `drive_turn`, what of a turn
there is: what its capabilities still have in flight (`Stage`), what was made of
its intent and from which receipts (`Judged`), where its budget run is
(`Running`), whether it or a call it left has the lease (`Leasing`), which kinds
of events it has in the log (`Wrote`), that a report and a terminal event that
were confirmed are its last (`Recorded`), and that a durable turn that holds the
lease wrote all there is (`Alone`). A step is about one turn (`Frame`); the
others stay placed because only the holder of the lease appends, whose events
are the end of the log (`Ending`). `Ready` adds that the turn behind a ready
checkpoint writes no more, and `Stopping` that `stop` takes the failures only
when no job is left to report another, which is what `FailureKept` needs.

**Only model-checked**: of the invariants the runs check, `CycleIsReal`, a part
of `OrderRight`: the depth-first searches of `PluginGraph` are recursive
operators, and what they find in every graph would be an induction over data.
(`StopsAndCloses` is proved in its parts.) Out of the prover's reach are liveness
under fairness (`session_live`'s other properties and all of `ends`) and
`ENABLED`.

## 5. What is not modelled

* *Context builder*: pure text selection under an estimate, no state; its unit
  tests enumerate the order of its cuts.
* *Agent actions and the reference agent*: a sequential loop; the runtimes admit
  any order of the calls it makes.
* *OpenAI provider*: HTTP, JSON and the SSE decoder; a provider is a call that
  answers, fails, panics or hangs.
* *Core types, harness and facades*: data and forwarding.
* In modelled components: panics of the coordinator task (the contract does not
  speak of them), a runtime dropped without shutdown, the construction of
  runtimes from plugin bindings, validation and accumulation of model output,
  schemas and arguments of tools, the text of events, errors and names, the
  cap of 16 failures in each ledger of the model and tool runtimes, the metrics
  of a budget run, the versions of images, and clocks other than by what they
  do to a deadline.

Two hazards have no property: the queue of Begins, which no code or document
bounds, and a panic of the coordinator task.

**Observations** made while modelling, of behaviour no document of the
repository contradicts:

* An execution whose host had tighter limits than the image it claimed cannot be
  recovered: its final image has the tightened limits, and a recovery must leave
  those of the claim (`core/budget/src/recovery.rs:223`).
* The failure `tool_output_limit` is never recorded: all of the limit was
  reserved, so that an output above it breaches the budget, whose outcome
  replaces it (`Settle` of `ToolRuntime`).
* Two plans prepared from one tool history can both be taken. The model's host
  holds one plan at a time, and its clones.
* A controller dropped unread just after its turn's result was sent takes a
  closure failure with it (`runtime/agent/src/lib.rs:541`); `FailureKept` of
  `AgentRuntime` names that case `discarded`.
* A turn without a durable budget whose terminal receipt is not for its event is
  still reported done (`OkIsTrue` is therefore about receipts for such turns).
* `shutdown`, called after a shutdown that was dropped or that failed, answers
  Ok: the services the first one took with it are stopped by nobody, and its
  failures are not told again.
* An operation without a result in a turn that has closed stays unresolved, so
  that no later snapshot of that task can be captured.

## 6. Plan

The components with concurrency, failure or recovery are modelled, and those
with the most interleavings are proved.
What is left is `CycleIsReal`, for every graph, and liveness, for every value of
the constants; both need a prover with induction.
