# Formal models of hades-system

TLA+ specifications of the concurrent core of hades-system, TLC configurations
that check them on small instances, and TLAPS proofs of what matters most.
Everything is read beside the Go sources: `PROJECT.json` ("map") names the
source lines of every definition that models code, lists the components, runs,
mutants, findings and theorems, and keeps the list of hazards the properties are
for.

## 1. The system

hades-system is a local daemon (`hades-ctld`) that coordinates autonomous coding
work: it accepts a build, decides how many workers to run, gives each worker a
git worktree, watches budget and health, asks the operator when a decision is
his, and merges what the workers produced. The command line, the TUI, a Hermes
plugin and four MCP servers are clients of the daemon; Caronte is an in-process
code-graph engine. The program's own concurrent logic is in
`internal/orchestrator` and in the parts of `internal/daemon` and
`internal/workforce` that drive it.

### Inventory

| component | state it keeps | operations | what makes it correct |
|---|---|---|---|
| supervisor state machine (`state_machine.go`) | one of nine states | Transition (append first, then move), IsLegal | only table edges; no move without a record |
| supervisor lifecycle (`orchestrator.go`) | initialized, shutdown | Init, RunStage4, unwind, Shutdown | one build at a time, honest outcome, back to Idle, every call returns |
| main loop (`main_loop.go`) | death streak | handleRecord | reacts to records without breaking the build in progress |
| worktree pool (`worktreepool/`) | warm slice, leased map, total counter, token channel, closed flag | Lease, Release, Close, prewarm loop, GC loop, PruneOrphans | exclusive leases, exact budget, no lost wake-up, a clean Close |
| worker dispatcher (`dispatcher.go`) | tracked leases, shutdown | Dispatch, Shutdown | every lease goes back, workers are isolated, all results are counted, a cancelled call returns |
| confirmation handler, policy, watcher | pending request | RequestConfirmation, HandleAck, HandleDeny, timeout sweep | paused until decided, recorded before applied, no leaked pause, every request decided |
| operator gate (`workforce/gate`) | gate state, in memory and on disk | Pause, Resume, load | persist before memory |
| cost gating (`cost_gating*.go`) | threshold table, row in force, walk in progress | poll, Evaluate, Apply, recovery walk | settles on the row of the budget, retries, does not lift a hold by itself |
| event log (`eventlog/`) | persisted records, subscribers with bounded channels | Append, Subscribe, Close, Query, Replay | persist then publish, publishers never block, no record twice, a record is dropped only for the sake of another |
| recovery (`recovery*.go`) | retry counters per task and class | HandleWorkerDeath, heartbeat sweep, ReconstructInFlight | bounded retries, what the log names as in flight is found after a crash |
| merge engine (`merge/`) | outcome cache, mutex per target | Merge, rollback | one fast-forward at a time, a cancelled merge leaves the branch alone |
| hierarchical review (`hra/`) | a ticker, buffer and window per layer, escalation counters | Run, cadence loops, aggregation, escalation, voting | windows neither overlap nor leave gaps, no escalation lost at shutdown |
| team leads and queues (`workforce/`) | Kanban rows, fix prompts, in SQLite | claim, advance, plan, children, drain of prompts | one worker per row (two planners of one session excepted), success means every child is in review, one success per parent |
| amendment, apply, autonomy, safety net | cooldowns, files | apply, revert, checks | a failed amendment leaves no trace |
| subprocess manager (`workforce/subprocess`) | live sessions, stored rows | Spawn, AcquirePersistent, eviction, crash scan, Shutdown | one session per key, no process is lost, Shutdown leaves only what overlaps with it |
| session transport (`openclaude_session.go`) | two channels, a child's pipes, the first error | Send, Receive, Close, three loops | frames in order and once, Close returns and leaves no child |
| tier orchestrator (`daemon/orchestrator`, `daemon/dispatcher`) | breaker state per provider | Forward, Permit, Record*, AttemptRecovery | an unhealthy provider is not used, a healthy one is again |
| cost ledger (`cost_emit.go`, `cost_counters.go`) | event channel, table, rolling sums | Emit, worker, Record, Rebuild | an accepted cost has a row, is refused or finds its key taken; none is counted twice |
| event ingestion (`daemon/batcher.go`, `server.go`) | channel, batch | POST /events, Run, Stop | an accepted event is written, in order, once |
| embedder process (`research/ecosystem/embedder.go`) | a child's pipes, a mutex, a shared Scanner | Embed*, EmbedBatch, Close | each call gets the vectors of its own texts |
| remote execution (`sshexec/`) | two streams, a prompt detector, a watchdog | Run | at most one closing row, every byte accounted for, no prompt reported as success |
| budget, quota, scheduler, inbox | ledgers, virtual clock, schedules | gate, fair queue, firing, batching | caps hold, nobody starves, nothing fires twice |
| audit (`audit/`) | hash chain, transparency log, replicas | Emit, Backfill, seal, walk, restore | every row is linked to a row that exists, across crashes |
| doctrine (`doctrine/`) | active doctrine | resolve, reload | validate before swap, overrides only tighten |
| the rest | | | listed in `PROJECT.json` with the reason they are left out |

How they interact. RunStage4 drives the state machine, calls the dispatcher and
blocks; the dispatcher leases from the pool and starts workers through the
workforce interface. Everything appends to the event log; the main loop
subscribes to it and moves the *same* state machine that RunStage4 is using. In
the daemon (`cmd/hades-ctld/plan5_background_runtime.go`) the confirmation
handler, its watcher, the cost engine's actuator and the main loop share one
machine. `RunStage4`, `orchestrator.New`, this dispatcher's `NewDispatcher` and
`HandleAck` have no caller outside tests in this tree: they are the package's
interface, and the models use them as that interface is meant to be used.

What is hard: five clients of one state machine, each reading a state and acting
on it later; goroutines that leave a lock to run git and come back; signals
through buffered channels; cancelled contexts reaching the cleanup code;
timeouts racing late answers; a failed append between two state changes; a
restart with only the gate and the log on disk. `PROJECT.json` ("hazards") has
each one at its line with the property that would notice, or with the reason no
property does yet.

## 2. The modules

| module | models | composes |
|---|---|---|
| `StateMachine` | states, table, Transition and its three ways to fail | |
| `Supervisor` | RunStage4, unwind, Init, Shutdown, main loop | extends `StateMachine` |
| `Confirmation` | handler, policy, watcher, gate, restart | extends `StateMachine` |
| `CostGating` | threshold tables, poll, Apply, walk, actuator, main-loop reaction | extends `StateMachine` |
| `LeaseLedger` | abstract: what a pool promises its callers | |
| `WorktreePool` | the pool, its goroutines, git and the disk | refines `LeaseLedger` |
| `Dispatcher` | Dispatch calls, workers, Shutdown | uses `LeaseLedger` as its pool |
| `EventLog` | Append, the subscriber hub, bounded channels | |
| `ProviderCascade` | Forward over a cascade, the circuit breaker, probes | |
| `SubprocessManager` | sessions of one key, evictor, crash detector, Shutdown | |
| `SessionTransport` | one session: its pipes, channels and three loops | |
| `MergeEngine` | Merge, cache, rollback, restart | |
| `RetryBudget` | decisions of the recovery engine, per doctrine | |
| `RecoveryReplay` | the log of a build and what a restart infers from it | |
| `Workforce` | team leads, workers, SQLite's snapshots | |
| `AuditChain` | raw writers, Emit, Backfill | |
| `EventBatcher` | ingestion, batcher, the order of Stop and exit | |
| `CostLedger` | emitter, table, rolling counters | |
| `ReviewCadence` | review layers, windows, escalations | |
| `EmbedderProcess` | embedding requests over one child process | |
| `RemoteExec` | one remote command, its streams and its watchdog | |
| `WorktreePoolProofs`, `ConfirmationProofs` | theorems of one module | extend it |
| `BuildProofs` | theorems about RunStage4 and Dispatch, apart and together | extends `MCBuild` |
| `FailureProofs` | theorems about failures and what is left of them | extends `ProviderCascade`, `RetryBudget`, `SubprocessManager`, `CostGating` |
| `LogProofs` | theorems about records others rely on | extends `MergeEngine`, `EventLog`, `CostLedger` |
| `TeamProofs` | theorems about leads, workers and reviews | extends `Workforce`, `ReviewCadence` |
| `ServiceProofs` | theorems about services of the daemon | extends `AuditChain`, `EventBatcher`, `SessionTransport`, `RecoveryReplay`, `EmbedderProcess`, `RemoteExec` |
| `CompositionProofs` | that the services' theorems hold of their composition | extends `MCServices` and the five proof modules of its components |
| `MCServices` | one instance of sixteen components | extends `WorktreePool`, `CostGating` and the fourteen from `EventLog` on |
| `MCBuild` | `Supervisor` and `Dispatcher` side by side | extends both |
| other `MC*` | values for the constants | extend one module |

One action is one critical section, one call out of the process (git, the event
log, the disk) or one arm of a select: where the code leaves a lock, the model
has a state in between. Program counters (`pc`, `run`, `at`) name those points.

`WorktreePool`. `warm`, `leased`, `total`, `slot` (tokens in the buffered
channel) and `closed` are the fields of `concretePool`; `disk` and `admin` are
what the file system and `git worktree list` would show. Lease is split at the
points where `p.mu` is released to spawn; Release where git resets and cleans;
PruneOrphans at its two snapshots, each membership test and each removal. A
failed `git worktree add` may leave a directory behind. `Reapers` are callers
that also release what others leased, as `Dispatcher.Shutdown` does.

`LeaseLedger`. Worktrees on lease, who was handed what, and whether the pool has
begun to close. `WorktreePool` is shown to implement it (`ImplementsLedger`, run
and theorem), so `Dispatcher` can be checked against the three-variable ledger
instead of the pool.

`Dispatcher`. `got` is the local slice of a Dispatch call, `tracked` the
dispatcher's own list that Shutdown takes, `workers` the running workers. The
select's arms are separate actions, so a result, the closed channel, an ended
context and the drain deadline race as in the code. Shutdown's release of
worktrees a call still has in its slice, and that call's second release after
the pool leased them again, are both there.

`Supervisor`. Each RunStage4 call has a program counter; the main loop handles
any record at any time; a cancelled context makes every later transition of its
call fail, as `Transition` refuses it.

`Confirmation`. The handler's mutex makes one call at a time the holder, whose
point is `at`; the machine and the gate are *not* protected by it, so other
clients interleave between its steps. A restart keeps the gate and the log.

`CostGating`. The table is built from the doctrine's profile and a project
override that may only tighten; a percentage is the truncated quotient. Apply is
split at the actuator's read, its transition, the assignment of the row in force
and the append; the recovery walk runs beside the poll.

`EventLog`. `rows` is the table, `hub` the list of subscriptions, a channel is a
sequence of row numbers. publish runs in its caller: it copies the hub, visits
the copy with one select per step, and on a full channel takes the oldest out
and tries again; two publishers do so at once, take each other's room, and one of
them may end by dropping its own record. `freed` counts the room the consumer made. A
subscription that was made while
a publisher that met a closed one was on its way is dropped from the hub; that
is the exception `PrunesWhatItSaw` names.

`ProviderCascade`. The breaker's state, streaks and both cooldowns per provider.
A reply and a probe's verdict are written into whatever the breaker has become.

`SubprocessManager`. `entry` is the persistent session of one key (keys share
only the mutex), `ephemerals` the other map; `open` is ground truth: processes
started and not closed. Starting, closing and storing are steps outside the mutex.
`late` are the sessions filed after Shutdown emptied the maps, `quiet` says that no call
overlapped with it.

`SessionTransport`. The child writes good, malformed or oversize frames, reads
its input or does not, and exits as it likes. The loops, Send, Receive and two
closers interleave at every channel operation. `closeErr` is modelled with the
dynamic type of what is stored, because `atomic.Value` panics when it changes.

`MergeEngine`. `ref` is where each branch points, `tip` where the last merge that
lasted left it. Every git command is a step that a cancelled context can kill
before or after it took effect. `spoilt` marks branches after a git failure, a
crash or the rollback that `merge_rollback` is about; a rollback that goes back to a
known commit does not mark its branch, which is checked from then on.

`RetryBudget` and `RecoveryReplay`. The first has the decision tables with the
doctrines of the daemon; the heartbeat charges the same budget and drops the
decision. The second keeps the rows with the times their writers read and the ids the
adapter gave them, and compares ReconstructInFlight with the tasks that really were in
flight. An insert may fail, which every writer ignores, so a dispatch or a completion
may have no row. The adapter counts ids in memory: a restart begins at 1 again, and
since a query sorts by id, rows of two lives are read interleaved (`ReadBefore`).
`named` chooses between rows that name worker and task (what the code of the
replay expects) and the rows of the dispatcher, which do not.

`Workforce`. `Lead` are callers of TeamLead.Run for one parent. `session` says whose
leads share a session, hence a thread: callers of one lead, which takes no lock, and
leads of one (spec, doctrine), to which the manager hands the same session; every
sharing is an initial state. A transaction that a commit has overtaken is in `behind`,
and its write is refused. Failures and restarts are actions, and markFailed may itself
fail.

`AuditChain`. A hash is the pair of the event and the previous hash, so that
equality of hashes is equality of histories. Emit is its four statements. The batch
of Backfill is the set of the first unlinked rows after its cursor, taken in order.

`EventBatcher`. Stop, the return of Start, the cancellation of the batcher and the
end of the process are separate steps, as in `server.go` and `main.go`.

`CostLedger`. A sum is the set of samples in it, so that a sample lost or counted
twice shows. An attempt is a key and a number, so that two attempts with one key are two
events, of which the table takes one; `ownRow` keeps the attempts that got a row. The
worker writes the table only; Record writes both, as in the code.
A boot queries the table once and replays the rows it got one at a time
(`RebuildFromLedger`, `ReplayRow`), each of them added to the windows as Add does it.

`ReviewCadence`. A ticker has a channel of one and drops ticks; a window's end is
the tick's time, not the time it is handled. The strategic loop is off in the
instance because its handler is that of the tactical layer.

`EmbedderProcess`. A request holds the mutex while it writes its line and waits; the
answer is read by a goroutine of its own from a Scanner that all share. A request
whose context ends leaves that goroutine behind, which is what `abandoned` records.
Two Scans at a time race on the buffer, so what they decode is left open.

`RemoteExec`. The select of Run, the 200 ms of grace and the second look at the
detector are separate steps, between which the two copies go on reading. The emitter
may fail to write any row; Run reports that of the Started row and of no other.

`MCServices`. The sixteen components share no variable with each other, so a
behaviour is about one of them, named by `focus`, and the others keep their
initial state: the state space is the sum, not the product, and nothing is lost,
because an interleaving of components without common state is decided component
by component.

## 3. The runs

| run | shows |
|---|---|
| `pool_safety` | 3 clients, budget 2, two leases each, one git failure, Close at any point: exact slot counter, ceiling, exclusive leases, no lost wake-up, directories exist, nothing added after Close, every step a step of the ledger |
| `pool_sweep` | *violation*: the orphan sweep deletes a worktree added between its two snapshots |
| `build_safety` | 2 RunStage4 calls, cancellations, failing appends, Shutdown, main loop: one build at a time, honest outcomes (success only with every transition made, and a stopped event unless its own append failed); and 2 Dispatch calls of width 2 on 2 worktrees, so that each can hold what the other needs: leases go back, workers isolated, nil means all counted; and everything that was begun or cancelled returns (`BuildReturns`) |
| `supervisor_stuck` | *violation*: a cancelled build cannot take the machine back to Idle |
| `confirmation_faults` | 2 requests against every failure the code handles: gate closed while pending, no leaked pause, recorded before cleared, a late timeout never hits the next request, every request is decided in the log |
| `confirmation_stuck` | *violation*: a failed request can leave the machine waiting with nothing to answer |
| `cost_retry` | *violation*: a failed append is not retried |
| `cost_held` | *violation*: a held build runs again without a confirmation |
| `services_safety` | the safety properties of the fourteen components that `MCServices` adds (below) |
| `services_live` | calls return and loops settle, in the components of `MCServices` that promise it |
| `merge_rollback` | *violation*: a cancelled merge deletes its target branch |
| `embed_answer` | *violation*: after a request was given up, a call gets the vector of another text |

Every property of a passing run is broken by a mutant: a copy of one mapped
definition with a plausible bug, marked "Mutant" in its module. `pool_safety`
uses `UnsweptSpec`, the pool without PruneOrphans: nothing in the daemon calls
the sweep, and with it `LiveOnDisk` is what `pool_sweep` refutes.

What `services_safety` checks, component by component:

- `DeliverySound`, `PrunesWhatItSaw` (`EventLog`): no record twice, and the room that
  publishers make in a full channel is filled again, by two of them at once in a
  channel of two with four rows, where one may take the other's room and drop its own
  record; and a publisher removes from the hub only what it saw closed or could not see.
- `MergeSound` (`MergeEngine`): the cache answers only with merges that lasted;
  a branch nobody is merging into is at the last of them, also after cancelled and
  rolled-back merges.
- `RedispatchesBounded` (`RetryBudget`): however failures of different classes
  and heartbeat sweeps are mixed, a task is dispatched again at most as often as
  its doctrine's budgets, tiers and fallback policy add up to.
- `ReplaySound` (`RecoveryReplay`): what was in flight is found again and what
  was finished is not, with late, lost and undecodable rows and the ids of several
  lives, as far as the rows name what they are about. Two exceptions are in the
  property because they are in the code: a completion that has lost its dispatch is
  credited to an earlier one, and one that is read after a dispatch of a later life is
  credited to that. Of the rows that the dispatcher itself writes it says that replay
  makes nothing of them but one dispatch of the empty task.
- `TripsAtThreshold` (`ProviderCascade`): late replies and probes never leave a
  breaker closed after its threshold of failures in a row, but for the rate limit
  in between that the definition names.
- `SessionsAccounted` (`SubprocessManager`): every live process is in a map or in
  the hands of a goroutine that will put it there or close it, unless a failed store
  write undid another's entry; and what runs after Shutdown has returned belongs to a
  call that overlapped with it. That is weaker than its documentation (section 4).
- `TransportSound` (`SessionTransport`): frames in order, once, without a gap;
  Close leaves no child and reports its failure, and an error once returned stays the
  kind of error that later Closes return. Also weaker than the documentation.
- `WorkSound`, `SettledStays` (`Workforce`): one run per row, but for planners in one
  session; an honest success, and one per parent; a settled row is not worked at again
  and leaves review only to fail, in the cases the property names.
- `ChainSound` (`AuditChain`): every `prev_hash` is the hash of a row, and a boot
  leaves no row unlinked, through failing statements and crashes.
- `AcceptedKept` (`EventBatcher`): an accepted event is in one place, in order;
  what is left in the channel came after the cancellation.
- `CostsKept` (`CostLedger`): no cost is counted twice on its way from the emitter to
  the table, the counters and back at boot, and an accepted one is written, refused by
  the database or finds its key taken; a boot is refused for a row on the edge of the
  window only.
- `ReviewsSound` (`ReviewCadence`): architectural windows are contiguous; a review
  is written completely even when the context ends in the middle.
- `ToolsSound` (`EmbedderProcess`, `RemoteExec`): as long as no request was given up,
  every vector is that of its own text; a command that ran to its end has one row that
  says how, or none if the emitter failed, never two; all its bytes were read, and a detected prompt is not a normal end.

`services_live`: `CallsReturn` (a Lease of an open pool, publish, Merge, the
manager's Shutdown, a lead's Run, a POST of events, a session's Close, the Run of
the reviews, an embedding call, a remote command that has ended) and `LoopsSettle` (the cost engine reaches the row of its budget and
its walks end, a provider that works again is used again, idle and dead sessions
are evicted, a failing task is given up). Because the focus never changes, the
properties of the modules (`LeaseReturns`, `PublishReturns`, ...) are checked together,
one leads-to per position of `CallWaits` and `LoopWaits`.

Bounds and why they are enough. Two of everything that competes for one thing
(calls for the machine, requests for the handler, dispatches for the pool,
publishers for a channel, mergers for a branch, leads for a row, closers for a
session) give every pairwise interleaving; three clients on a budget of two are
needed for a token stolen by a third Lease, and two leases each for the reuse of
a warm worktree. `services_safety` has one client of the pool, because
`pool_safety` has three; it is there for the reaper's double release and the
sweep. One git or append failure meets every point where it is handled; two
failures would only repeat a recovery that ends in the state it began in. Two
budget changes cover a threshold crossed and crossed back while a walk is under
way. Four rows through a channel of two make two publishers drop at once; four log
rows give a dispatch, its death, a redispatch and a checkpoint, or two dispatches and
their completions in two lives; two callers with one Run each are two Runs of one
lead, of leads that share a session or of leads that do not, at once or one after the
other and across a restart; two attempts within a tick share a key; three audit rows and
three boots give a batch, a remainder and a crash in a backfill; three events per
request against a channel of four and a batch of two fill both; three ticks pass
both cost windows; two frames against a channel of one block the reader. The
bounds are named `Max*` (`MaxCalls`, `MaxFailures`, `MaxRows`, ...) in the
modules. Symmetry over clients is used in `pool_safety` only, which checks no
liveness. `services_live` has instances of its own: two clients of the pool, a
channel of one row, one lead with two children, one request with more events than
the channel takes, a session whose reader meets a full channel and whose child need
not read; replay, audit chain and cost ledger promise no liveness and rest.
`CHECK_DEADLOCK FALSE` is set where the bounded callers have finished and the
system may rest.

Fairness. Weak fairness on the steps of goroutines that can run, on tickers and
on timers, which the Go scheduler and runtime give. For the pool also: git
subprocesses end, the runtime serves receivers of one channel in order, and a
holder releases. For `EveryRequestDecided`, strong fairness of the watcher's two
steps: it competes for a mutex that others hold now and then, and Go's mutex does
not starve a waiter. In `build_safety` nothing is assumed of workers, of the
pool or of callers: that a cancelled Dispatch returns follows from the drain deadline
and from a parked Lease seeing its context end. In `services_live`, `ProcessStep(n)` is the
n-th process of the component in focus (weak fairness) and `Contended(n)` the
steps that compete (strong fairness): a target's mutex, a loop's shutdown arm
beside its ticker, a full channel that serves senders in order, and probes that
are made and in the end succeed. Of a session's child nothing is assumed: it may
never read its input and never exit; the grace period after which it is killed
does pass.

## 4. The disagreements the runs show

1. `pool_sweep`: `gc.go` says membership in leased and warm closes the race with
   a spawn in flight; a worktree whose add finished after the git listing and
   whose spawner has not retaken the lock is in neither.
2. `supervisor_stuck`: unwind uses the caller's context, which is usually the
   reason for unwinding; both transitions are refused.
3. `confirmation_stuck`: the rollback asks for a transition the table does not
   have from WAITING, and drops the error.
4. `cost_retry`: the comment promises that a failed Apply leaves the row in force
   alone; Apply replaces it before the append that may fail.
5. `cost_held`: the main loop degrades the machine on the record of the very
   action that put it in WAITING, and a recovered budget then restores Running.
6. `merge_rollback`: the error of `git rev-parse` is dropped, and the rollback takes
   the empty answer for "the branch did not exist" and deletes it.
7. `embed_answer`: a request whose context ends unlocks while its answer is still to
   come and its goroutine still reads the shared Scanner; the next request may be
   given that answer, without an error (`embedder.go:368` against `20-21`).

Sentences of the repository that the code does not meet and that have no run of their
own; the property of the module states what does hold instead, with the exception in
its definition:

- `subprocess/manager.go:131-135` and `subprocess/doc.go:54-55`: Shutdown returns with
  every live session closed. AcquirePersistent and SpawnEphemeral do not look at the
  shutdown channel, so a call that overlaps with Shutdown leaves a process behind
  (`ShutdownCloses`: nothing is left if there is no such call).
- `subprocess/doc.go:60-62`, `session.go:97-99`: every Close returns the error of the
  first, and after Close both Send and Receive return ErrSessionClosed. The writer may
  fail after a first Close has returned nil, Receive still returns buffered frames, and
  a Send past its first check may be accepted (`TransportSound`: an error that was
  returned stays the kind of error that is returned).
- `cost_counters.go:381-383, 391-392`: a mismatch after the rebuild is a bug of routing
  or arithmetic, and the cutoff matches the window's. A row on the edge of thirty days,
  or one that expires between the two readings of the clock, refuses a correct boot
  (`CountersExact`: only such a row does).

Seen while reading and not stated as a run, because no line of the repository
says the opposite plainly, or because it needs a path the daemon does not have:

- Pool: the GC cadence runs the git prune only, although `worktreepool/doc.go:37`
  also promises the file-system sweep.
- Supervisor: a build whose machine was moved by the main loop while Dispatch
  succeeded reports `transition_failed`; `Dispatch` never reads `d.shutdown`; a
  confirmation request outlives its build.
- Merge: `update-ref` has no ancestor check, so a second merge prepared on the old
  base replaces the first; `Cache.Rebuild` has no caller outside tests.
- Recovery: the dispatcher's rows carry no worker or task, so heartbeat and replay
  see nothing of what it started; ids of a session start at 1 again with every daemon,
  so replay reads the rows of two lives interleaved; ReconstructInFlight has no caller
  outside tests.
- Subprocess manager: the undo of a failed store deletes the key's entry even when it
  belongs to another caller by then.
- Session: the error value's dynamic type differs between an oversize frame and the
  rest, so the second store panics and the daemon dies; `TransportSound` accepts this
  panic and shows that it needs an oversize frame; `Wait` runs while the reader still reads, so last frames may be lost; after a write error
  the session stays open and Sends wait for their own context.
- Workforce: a refused second lead may mark failed a parent that the first finished;
  of two planner runs in one session the second works at the row of the first, and its
  markFailed may fail a row in review;
  a worker's row whose `markFailed` fails stays in progress and cannot be claimed
  again; prompts taken out for a send that fails are gone.
- Audit: a raw row before a linked one, or two Emits that read one tip, fork the
  chain, so that Walk would report gaps without tampering.
- Batcher: main returns when Serve does, so accepted events may still be in the channel;
  a failed flush drops its batch.
- Cost ledger: dispatched costs reach the table and not the counters (Record has no
  caller in the daemon), so the counters move at boot only; the sink has no rates,
  so rows cost 0; a second attempt of one session in the same millisecond with the same
  outcome has the key of the first and no row.
- Reviews: a record stamped at or after the tick, or before the window, is cleared
  uncounted; with the max-scope cadences the strategic row of a common tick falls
  outside both architectural windows around it; if the first architectural tick
  finds nothing, the next window is one cadence long and not two.
- Embedder: Close waits for the mutex behind a request whose write the child does not
  read, and neither looks at a context.
- Remote execution: the detector's window counts the bytes of both streams together,
  although `interactive.go:13` speaks of the first 1024 bytes per stream; a pipe or a
  start that fails leaves a Started row without a closing one, and so does an emitter
  that fails, whose error Run drops.
- Augmentation: the pipeline is not wired in the daemon (its knowledge index is nil).
- Budget: the rolled sums are a stub, so caps never block; a gate check blocks on
  expired pauses that `IsPaused` ignores.

## 5. The proofs

All hold for every value of the constants that satisfies the named assumptions
in the modules (finite sets of clients, natural bounds, positive width, the
validation of `PoolConfig`, ids that are not empty). Every inductive invariant named
here was also checked by TLC on the instance of its run, but for those with an
unbounded quantifier: the sums of `StreamInv` and the queues of the reviews.

`WorktreePoolProofs`. `TypeCorrect`. `AccountingCorrect` and `CeilingCorrect`
are not inductive alone: counting needs to know that a worktree is in one place
at a time, so `BudgetInv` joins the exact counter and `total <= ElasticMax` with
`Separate` (warm, leased and in-flight worktrees are disjoint and no id is reused).
Every step is first shown to be one of seven abstract moves of the accounts
(reserve, give back, deposit, ...), and the moves preserve `BudgetInv`.
`LedgerImplemented` maps each step to a ledger step or a stutter; the grant's
room comes from `BudgetInv`. `ExclusiveCorrect` follows on the ledger: without
reapers what a client holds is on lease to it alone (`OneHolderPerSlot`). `CloseCorrect`
is an action property, by the re-check of `closed` under the lock.
`WakeupCorrect` needs `TokenPerWarm`: until Close there is a token or a
goroutine about to send or to look for *every* warm worktree; the weaker "for
some" is not kept when a token is consumed. A full buffer needs no new token
because its capacity is the elastic maximum. `DiskCorrect` (`LiveOnDisk` under
`UnsweptSpec`) from `OnDisk`: until Close, warm and leased worktrees and those that a
goroutine has added or is resetting exist; `Separate` keeps a removal away from them.

`BuildProofs`, of the dispatcher. `DispatchTypeCorrect` with `Phases` (a call that releases has
something to release, from the last lease to the first release the slice has
Width entries). `LeasesCorrect`: a worktree on lease is in the slice of a call
that will release it; inductive with the phases, and true through a concurrent
Shutdown because releases by others only shrink what is on lease.
`IsolationCorrect`: until a deadline or Shutdown (`Calm`), the entries of all
slices are on lease and pairwise different, and a worker sits in its own entry of
the slice of a draining call. `CountsCorrect` from `Counts`: while a call drains,
results counted, results in the channel and running workers add up to Width.

Of the supervisor: `TypeCorrect`; `OneBuildCorrect` from `Occupied` (while a
call is active the machine is out of Idle, and the table leads into Initializing
from Idle only); `OutcomeCorrect` from `Recorded` (what has been written at each
point of a call, and which calls had a transition refused). `BuildIsBoth`: a behaviour of the instance that TLC checks is one of
both modules, so the theorems hold of it.

`ConfirmationProofs`. `TypeCorrect` with `Holding` (what the holder of the mutex
relies on at each point); `PausedCorrect` from `GateClosed` (the gate stays
closed from a request's Pause to its decision); `ResolvedCorrect`, an action
property; `NoLeakCorrect` from `GateExplained` (a closed gate has a reason);
`TimeoutCorrect`, an action property, from `Timely` (requests are numbered once, so
the request of the watcher's snapshot, if still pending, is the one found too old).

`FailureProofs`. `BreakerCorrect` from `CascadeInv`: a call that awaits a reply is at
a registered provider, and a rate-limited breaker counts its limits, which is what
makes the exception of `TripsAtThreshold` exact. `BudgetCorrect` from `SpentAtMost`:
what a task has cost so far is at most a change of tier and the LLM budget for
every tier below the current one plus what is counted on this one. `SessionsCorrect`
from `ManagerInv`: an entry marked evicted is in the hands of the loop that marked it
(`MarkedClosing`), what is in a map after Shutdown emptied it came late
(`ShutdownPhases`), and without an overlapping call nothing did (`QuietInv`). Of the cost engine: `CostTypeCorrect`, `RowsCorrect` (an override
never loosens the doctrine, and whatever row is in force, polled or walked is one of
the table) and `WalkCorrect` (a walk only goes down) from `CostInv`. It needs that a row is its
threshold and the table's action there, for the walk and for the poll apart, because
each assigns the row in force between reads of the other; every step then does one of
three things to the rows (`RowStep`), and only one of them, `NextRow`, moves a walk, to
a lower threshold (`Height`).

`LogProofs`. `MergeCorrect` from `MergeInv`: what a call may rely on at each step
(`CallOK`: the branch is at its tip until the call moves the ref and once the merge is
decided), one holder per target (`OneHolder`), and a log that tells of lasting
merges only (`LogTruth`). `DeliveryCorrect` from `LogInv`: no two publishers have the
same row (`RowsApart`), a publisher sends to each subscription of its copy once
(`SentBefore`); and from `RoomRefilled` itself, which is inductive beside it: a
publisher that takes a record out, or finds none, tries to send again, and one that
then finds the channel full leaves it full.
`PruningCorrect` is an action property, from what a call has passed (`Sees`).

Of the cost ledger, also in `LogProofs`. `EmissionCorrect` (`EventsWritten`, a part of
`CostsKept`) from `EmitInv`: an accepted attempt was tried or is in the channel
(`NoneLost`), a row of the emitter is that of one attempt (`RowsOwned`), and the worker ends only behind a closed and empty channel
(`EndsEmpty`). `CostsCorrect` (all of `CostsKept`) from `CountInv`: the samples of a
window are sorted by time, none twice, and are the rows the counters were given
that are young enough, less those a Record is about to add (`WindowsHave`); a Record
past its insert has its row among them (`RecordsLoaded`); what the query of a boot
returned is loaded or still to be replayed (`RebuildCovers`). Because samples are
sorted, Add and Prune act on an initial segment, whose length is the cardinality of
the samples that are not later: this states what a filter computes without
induction over sequences. It is also why the rebuild replays one row in a step, as
the loop of the code does, and does not fold over all of them.

`TeamProofs`. `WorkCorrect` from `WorkInv`: a transaction that nothing has overtaken
still reads what it read (`SnapshotsHold`), a run at work owns its row (`RunsOwn`: the
row holds the run's thread, and only a run in the same session can have settled it
meanwhile), the planner runs while its lead plans and the children while it
dispatches (`LeadPhases`), a run that succeeded left its row in review, from where only
a planner in its session can take it (`SuccessTrue`), and of all planners at most one
succeeded (`OneDelivery`), because review is reached from in progress only. The last is
what makes success unique: a second planner of the session finds the row settled.
`SettledCorrect` is an action property over the same invariant. `ReviewsCorrect` from
`ReviewInv`: waiting ticks are later than the last architectural window
(`TicksAfter`), the windows so far meet and end at `lastArchAt` (`WindowsMeet`), and of
the finding a loop is at, what should be appended has been (`NoReviewLost`).

`ServiceProofs`. `ChainCorrect` from `AuditInv`: a tip that Emit or Backfill read
however long ago is the hash of a row still (`TipsKnown`, because a linked row never
changes), and Backfill has left nothing unlinked behind its cursor (`Cursor`).
`IngestCorrect` from `BatcherInv`: stored, batch and channel, in this order, are the
events accepted less the dropped ones, in order (`Account`, kept by an append at the
end and by dropping a middle part). `TransportCorrect` from two invariants. `PipeInv`:
the frames in the pipe are in order and later than those handed on, and until the
reader ends none but malformed ones is missing before them, so the head, if good, is
the next good frame. `ExitInv`: the child ends, then its error is stored, then
`exitCh` is closed, and only then does a Close load the error; a Close that waits in
closeOnce is behind one that has seen the exit; an error that was stored keeps its kind.

`ReplayCorrect` (also in `ServiceProofs`, as the rest of this section) from
`ReplayInv`. Rows other than deaths carry the time at which they were appended and a
death an earlier one (`RowsTimed`, `SweepBehind`), so "the last dispatch of a worker"
is the same by time and by position; a completion whose dispatch is on record is of
what that gave, the last of its worker, and has a later id, because both were written in
one life (`CompletionsGiven`, `RunningGiven`), and a death that names no task
came before any legible dispatch of its worker (`DeathsAssigned`). It assumes that no
id is empty, because the code takes an empty worker or task id for a missing one
(recovery_replay.go:123, 158, 224; recovery.go:447).

`EmbedCorrect` (`EmbedSound`, half of `ToolsSound`) from `EmbedInv`, which holds until a
request is given up: the mutex admits one request (`OneRequest`), whoever reads is
awaited by it (`ReadersAwaited`), and its line is in one of the two pipes at most
(`LineInOnePlace`). The violation of section 4 is what is left without the
hypothesis. `ExecCorrect` (`ExecSound`, the other half) from `ExecInv`: the bytes read
and the chunks on the wire add up to the bytes sent (`StreamInv`; the sum is stated by
its partial sums, a function, so that no fold has to be unrolled), and `PhaseInv` says
what Run has decided and written at each of its points, a row that the emitter failed
to write included.

`CompositionProofs`. `ServicesAreComponents`: a step of the composition is a step of the
component in focus and a stutter of the others, so every behaviour satisfies all
sixteen specifications, and what is proved of a component holds of the instance that the
runs check. `ServicesTypeCorrect` (`ServicesTypeOK`) then puts together the type
theorems of the components, which the proof modules end with. Most follow from the
inductive invariant of a safety theorem; the others say that something stays within its
capacity and needed an invariant of their own: the two channels of a session, one
of which holds one frame more while the writer writes (`ChannelBounds`); the batcher's
channel and batch; the emitter's channel; the subscriptions and tickers of the reviews;
Backfill's cursor; the pipes and the mutex of the embedder, also after a request was
given up (`EmbedBounds`); and the bytes of a remote command, where no copy is ahead of
what was sent because chunks lead upwards (`AddsUpward`). `ToolsCorrect`
(`ToolsSound`) is `EmbedCorrect` and `ExecCorrect` in the composition.

Only model-checked, and why:

- liveness (`BuildReturns`, `EveryRequestDecided`, `CallsReturn`, `LoopsSettle`):
  fairness is outside what the prover does (nor `ENABLED`, on which it rests);
- the violations of section 4, which are counterexamples on an instance;
- that `MCServices` loses nothing by giving a behaviour to one component at a time.
  `CompositionProofs` shows the direction that the theorems need, and no more.

Every other invariant and action property of a passing run is a theorem.

## 6. Not modelled

Payloads, event names, logging, rationales and metrics. Real time: a timeout is
an action that may happen once it is armed. Floating point: a percentage of the budget is
an exact quotient, truncated, where `cost_gating.go:415` truncates a float. In
`CostGating` the request for a confirmation is one step that succeeds or fails as a
whole; its half-failures and their rollback (`confirmation_handler.go:180-213`) are in
`Confirmation`. The workforce manager is an
interface; workers end when they please and may ignore an abort. Git, the file
system, SQLite and child processes are external actions with their failures.

Components listed as `not_modelled` in `PROJECT.json` are left out for one of two
reasons. Some are outside what a model of this kind says something about: parsing
and indexing (Caronte), retrieval (research, knowledge), SQL, cryptography and cloud
storage, HTTP plumbing, generated event types, user interfaces, one-shot tools.
They are most of the repository, which is why the map covers a small share of
its lines: the concurrent core is about a tenth of the code, and much of that is
again encoding and wiring. The others are protocols that nothing runs: the fair
queue, the schedule's Fire, the doctrine reload watcher, the amendment applier, the
inbox aggregator and outbox, the review votes and manual ticks have no caller in
the daemon, so there is no environment to model them in and no scheduling to take
fairness from.

Inside modelled components, left out for the same reason: sealing and walking the
audit chain, the cap checks of the tier orchestrator, `Tick` and `OnPhaseBoundary` of
the reviews.

## 7. Plan

Done: the modules of section 2, the theorems of section 5.

Modules that would follow if the daemon came to run them: the scheduler's catch-up,
the fair queue, the doctrine reload, the amendment applier.
