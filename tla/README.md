# Specifications of the Codex harness orchestration

TLA+ models, TLC runs and TLAPS proofs of the orchestration harness in
`src/scripts/` (paths below are relative to the repository's root). The harness
coordinates coding agents through files: a workflow is a DAG of agent stages, a
scheduler script turns runnable nodes into request files, agents answer with
result files, and a document per task, `runs/<task>/dag.json`, holds the state.
Nothing runs by itself: every step is a command that a person, a script or an
agent starts, possibly while another one is running.

## 1. Inventory

| Component | State | Operations | Hard behaviour | What makes it correct |
|---|---|---|---|---|
| Scheduler core (`orchestration/lib/workflow`, `scheduler-safety`, `results`, `invocation`) | the document: node statuses, retry counts, request and attempt ids, worktrees, `requests`, `locks` | propagate blocks, choose runnable nodes, allocate worktrees, dispatch, validate and apply a result, prepare a retry | counters over several runs, stale and duplicated results, a conflict in the middle of the dispatch loop, fixpoint over the graph | dependency order, pool limits, agreement of request ledger and nodes, retry budget, worktree isolation, finality of settled nodes |
| Commands and `dag.json` (`legacy-scheduler`, `parallel-*`, `dag-init`, `dynamic-scheduler`) | `dag.json`, `requests/*.json` | `parallel:init`, `parallel:run` / `dag:run`, `parallel:complete`, `parallel:retry` | read-modify-write without a file lock, in-place write, kill at any point, several owners | the file is always a legal document; recorded requests have files; accepted results stay |
| Dynamic DAG compiler (`dag-input`, `dag-compile`, `compileDag`, `validateWorkflow`) | `dag-input.json`, `compiled-workflow.json` | derive signals, select nodes and dependencies, validate | combinations of eight signals and the risk level | the result is accepted and verifies every code branch |
| Feedback loop (`feedback-*`, `dag-recompile-feedback`) | `shared/<task>/feedback/*.json`, the workflow, `dag.json` | record, classify, recompile, reset | events are never consumed, the loop runs beside the scheduler | order and repetition do not matter; upstream work survives; no request is repeated |
| Sequential runner (`runner`, `run-init`, `transition`, `worktree-create`, `task-create`, `gate`, `lib/state`, `lib/gates`) | `run.json`, `queue/tasks.json`, artifacts, requests, results | next stage, gates, request, state transition | the queue file is shared by all tasks and read long before it is written; evidence left over from an earlier run | a request follows evidence; the queue never shows a state the task has not had; the history grows |
| Codex adapter (`native-runner`, `codex-*`) | child process, pending RPCs, `threads.json` | start, resume or start thread, start turn, stop | answers that never come, child exit, stop during a turn | turns run on threads the server knows; every command ends |
| Coordination (`persistence/lib/runtime-coordination`) | `task_leases`, `idempotency_keys` | acquire, release, remember | concurrent transactions, expiry against the time of BEGIN, lost answers, a second process of one owner | one owner relies on a task, one answer per key |
| Approvals and governance (`governance/*`, `persistence/lib/approval`) | `approval.json`, `policy-decision.json`, table `approvals` | evaluate, request, decide, gate | two stores, re-evaluation between request, decision and gate, snapshot racing a decision | what passes alone is harmless by policy, all else was approved by a person |
| Persistence and events (`persistence/*`) | tables, `events`, `schema_migrations` | migrate, check readiness, upsert, save DAG, save approval, append event | event outside the transaction; migrators of several releases at once | every decision has its event; the schema is what its table says |
| Control plane (`control-plane/*`) | HTTP requests, SSE clients, draining flag, audit file | read models, approve, run, shutdown | awaits against shutdown, child processes | each request is answered once, audit before effect |
| Deployment (`deploy/ubuntu/bin/*`) | dumps, checksums, passfiles, off-site copies, secret documents | backup, restore, off-site copy and its restore, start of the control plane | kill between rename and checksum, a copy taken during a backup, names of one second | finished backups stay, only whole verified dumps are restored, the passfile goes away with its command |
| Memory, observability, evaluation, graph, harness checks, forum API, web apps | files, read-only data | | mostly none | |

Interactions: `dag:input` → `dag:compile` write the workflow the scheduler
loads on every command; the scheduler writes requests that agents read and agents
write results that `parallel:complete` reads; the impact agent writes
`impact.json`, which decides conditional nodes and the signals of the compiler;
`feedback:loop` edits the workflow and `dag.json` behind the scheduler's back;
the control plane starts the governance and runner scripts as child processes
and reads the same files or the database copies that `persist:snapshot` makes.

The hazards found in this code are listed, with their lines, under `hazards` in
`PROJECT.json`.

## 2. Modules

| Module | Models | State and actions |
|---|---|---|
| `Workflow` | a validated, normalised workflow and pool; the pure functions of `lib/workflow.mjs` | constants and operators only; the assumption `ValidWorkflow` is what `validateWorkflow` has checked |
| `DagState` | the document and `scheduleRunnableNodes`, `applyStageResult`, `prepareRetry`, `markConditionalNodes`, `parallel-init` | a document is a record; an operation gives the documents that may come out; `DocumentInv` collects what a legal document is |
| `Scheduler` | the commands one at a time, agents answering old and new requests, `impact.json` | `dag`, `issued`, `impact`, `run`; one action per command |
| `RequestLog` | what the field `requests` of `dag.json` promises | `requests`, `run`; add requests or settle one that waits (`Work`), or begin a new run without any (`StartAnew`) |
| `DagFile` | the same commands as processes: load, write request files, truncate, fill, crash | adds `pc`, the memory of each process, `torn` and history variables |
| `CycleSearch` | `cycleErrors`, the depth-first search of `validateWorkflow`, over any dependency table | `calls`, `left`, `visiting`, `visited`, `verdict`; a step per call, return and test of `visit` |
| `SchedulerLoops` | a scheduler run as the code performs it (extends `Scheduler` and `CycleSearch`): validate, lock, sweep until nothing changes, walk the nodes with the pool counters, send until a worktree conflicts, write | `phase`, `work` (the document in memory), `index`, `changed`, `usage`, `runnable`, `requests`; one action per turn of a loop |
| `DynamicDag` | `compileDag`, the graph errors of `validateWorkflow`, classification and recompilation, its two loops as recursive functions | `workflow`, `events`, `classified`, `refused` |
| `Feedback` | `feedback-reset-nodes` beside the scheduler (extends `Scheduler`) | adds `resets` |
| `ApprovalLedger` | what the table `harness.approvals` promises of one task | `ledger`; open a round, decide an open round |
| `Approvals` | `approval-request`, `approval-decide` over the file or the database, `runtime-run` with the snapshot's `saveApproval` | `file`, `rows`, `events`, and `proc`, what each child process is doing; one action per read, truncation, fill, statement, commit or exit, and `Die` |
| `ControlPlane` | the HTTP server of `server.mjs` (extends `Approvals`): a handler is cut where it awaits, child processes run between | `phase`, `kind`, `pc`, `link`, `answer` per request, `sse`, `audit` |
| `Runner` | `runner`, `native-runner` up to its session, `run-init`, `transition`, `worktree-create`, `task-create`, gates, agents' artifacts and results | `queue` (one file for all tasks), `run`, `files`, `request`, `passed` per task; `proc`, the copies a process works with; one action per file read or written |
| `CodexRunner` | the Codex session of `native-runner` and `codex-stage` (extends `Runner`) | `threads` (`threads.json`), `session` (the child, the threads it has loaded, the turn); one action per JSON-RPC answer, `ChildExits`, `Vanish` |
| `Coordination` | leases and idempotency keys as transactions: BEGIN, statements, COMMIT | `lease`, `key` (the rows), `tx`, `held`, `clock`; `Commit(p, heard)` with an answer that may be lost, `Rollback` |
| `Migration` | `db:migrate` by concurrent migrators and `checkDatabaseReadiness` | `tracked`, `applied`, `mig`; `ran` is history |
| `Database` | `Coordination` and `Migration` over one database | a call begins only after readiness was seen |
| `Governance` | `dag:input`, `risk`, `policy`, `approval:request`, `approval:decide`, `approval:gate`, `path-check` over the files of one task | `impact`, `dagRisk`, `risk`, `policy`, `approval`, `proc`; one action per read and per write |
| `Backup` | `postgres-backup`, `restic-backup`, `secret-runtime`, the start of the control plane | `dumps`, `sums`, `partials`, `pgpass`, `snapshot`, `document`, `proc`; one action per await, and `Kill` |
| `DagStateProofs`, `SchedulerProofs`, `DagFileProofs`, `ControlPlaneProofs`, `DatabaseProofs`, `GovernanceProofs`, `RunnerProofs`, `BackupProofs` | proofs | |
| `MC*` | instances for TLC | |

`Scheduler` and `DagFile` are two compositions over the same document
operations. `Workflow` and `DagState` define the result of each loop
declaratively (a set of blocked nodes, a set of runnable nodes); that the loops
of the code compute just that is the refinement `SchedulerLoops` ⇒ `Scheduler`.

Abstractions. `requestId` and `attemptId` are written and cleared together and
contain the node id and `retryCount + 1`; the model keeps the number. The
structural checks of a result (task, artifacts, summary, provenance) are one
Boolean `sound`. An allocated worktree and its branch are made from the node id
together; a declared one has the path and the branch the workflow gives it, and
conflicts are found by either (`WorktreeConflict`). `ready`, a status nothing in
the code ever writes, is absent. A command that throws or refuses writes nothing
and is not a step.

In `Approvals` and `ControlPlane` one task stands for all (rows, files and
children of two tasks do not meet). The snapshot's reading of `approval.json`
(`persist-snapshot.mjs:29`) and the INSERT of the row (`repository.mjs:81`) are one
step, `ImportRow`, so a row is never older than the file; the import asks nothing of
the table, and no property compares a row with the file. An approval is its
decision and the child
that made it; `by = None` marks one that was made before, by hand, or requested.
The transaction of `decidePostgresApproval` is three steps: the sub-select with
the snapshot of the statement (`StartUpdate`), the UPDATE that waits for the row
lock and checks the condition on the row as it then is (`UpdateRow`, PostgreSQL's
READ COMMITTED), and the COMMIT that shows row and event at once (`Commit`). A
handler runs without interruption between two awaits, so `Arrive` (up to the
first query), `LoadRun` (audit, spawn, answer) and `BodyRead` (audit, spawn) are
one step each. `lost` is a handler that waits for a body whose client left
before `parseJsonBody` put up its listeners. `/health`, which
changes nothing, and the periodic snapshot event are left out; refusals for
origin, token or task id are one action, `Refuse`.

In `Runner` a stage's state is identified with the stage, and a request with its
task and stage: `invoke.mjs` always writes attempt 1. The parts of a result that
`results.mjs` checks are one Boolean, already modelled in `Scheduler`; `passed`
is "the result file is there, valid and says passed". The history of `run.json`
is the set of the numbers of the commands that added entries. `harness:verify`
succeeds or fails. In `CodexRunner` a session has one request open at a time, as
in `codex-execute.mjs`; prompts, and the notifications it only prints, are left
out. A child that cannot be spawned, or whose stdin breaks, ends the process
like an exit.

In `Coordination` one task and one key stand for all: rows of two tasks do not
meet. `now()` is the clock at BEGIN, the row lock is that no other transaction
has written the row, and an update looks at the row as it is when it gets the
lock. The response of a call is its number, so two different answers differ.
`Migration` numbers the files in the order of their names; a release has a prefix.

A release gets its traffic when its readiness check has once answered yes
(`ShiftTraffic`), as the runbook has it; nobody asks again before a call.

In `Governance` pairs of signals the code treats alike (`dropTable`,
`dropColumn`) are one, and the two reads of `risk-evaluate.mjs:13-19`
(`impact.json`, then `dag-input.json`) are one step, `StartRisk`. An evaluation of
an impact with the risk of a later one is thereby left out; one property speaks of
the evaluation's own input, the other excepts tasks whose impact was rewritten.

In `Backup` a dump is the command that made it and whether it is whole, a checksum
is the dump it was computed from, and a directory maps the stamp in a name to a
file. The passfile is there from the open of `writeFile` on; from then until its
removal every call may fail, those of the `finally` block included. Left out:
pruning, `restic check`, and what `buildPostgresEnvironment` takes out of the
environment of pg_dump.

## 3. Runs

| Run | Instance and bounds | Shows |
|---|---|---|
| `parallel` | the shipped workflow (9 nodes) and pool, one retry per retryable node, one owner | `DagPoolRespected`, `DeliveryGate`, `FailureReachesDescendants`, and under fairness `TaskSettles` |
| `join` | 7 nodes, 2 owners, 2 initialisations, limits 2/2/1, a join accepting one of two possible skips, a declared worktree whose path collides with an allocated one | `DagDependencyOrder`, `DagWorktreeIsolation`, `NoReadyNodeIsPassedOver` (a node waits for the read-only pool while a later mutable one has room), `SettledIsFinal` |
| `file` | 4 nodes, 2 processes; overlapping commands without kills, or one command at a time with up to 2 kills and one more initialisation | `FileLegal`, `NoRequestLost`, `AcceptedIsKept` |
| `loops` | a cycle search over every dependency table of three nodes, then scheduler runs, pass by pass, on six nodes whose file order goes against some of the dependencies, with a pool that fills up and a declared branch that is the allocated branch of another node (101,343 states) | `CycleSearchIsExact`; the refinement `RunHasTheDefinedOutcome`: what the loops write is a step of `Scheduler` |
| `dynamic` | the repository's policies and catalogs, every signal combination, every risk level, one failure | `CompileIsAccepted`, `CodeIsVerified`, `FeedbackIsOrderFree` |
| `feedback` | the compiled chain of a backend change, 2 resets, 2 initialisations | `FeedbackKeepsUpstream`, `RequestsAreSentOnce`, the refinement `LogSpec` |
| `control_plane` | 2 requests of any kind about one task, both stores, a task that was or was not imported or decided before, one new round or one restart (`MaxOutside`), crashes and kills anywhere | `AuditTrail`, `AnsweredMeansDecided`, `DecisionsAreRecorded`, the refinement `LedgerSpec`, and under fairness `ShutdownCompletes` and `HandlersSettle` |
| `runner` | 2 processes, 2 tasks, a chain of 3 stages (gate and report; conditional and mutable; report and verify), 2 threads, starting after the commands that created the tasks, 2 more commands (`MaxCommands` = 5) | `RequestsFollowEvidence`, `QueueNeverAhead`, `TurnOnLoadedThread`, `HistoryIsKept`, and under fairness `CommandsEnd` |
| `database` | 3 processes with up to 3 owners, clock to 3, leases of 2 and keys of 1, readiness asked once, 2 migrators, 2 files, 4 calls and migrators together (`MaxActivity`) | `LatestGrantStands`, `OwnersExclude`, `OneAnswerPerKey`, `SchemaIsWhole`, `TablesAreThere` |
| `governance` | 2 processes, 8 commands, the repository's `policy.json`, 3 impacts, one rewriting | `AutoMeansHarmless`, `PassIsApproved` |
| `backup` | 2 processes, 4 commands of which 2 are backups (`MaxBackups`) and 1 may be cut short (`MaxCutShort`: killed, or unable to fill or remove a temporary file), every other call of every command may fail, a clock over two seconds of two ticks, both kinds of secret document | `FinishedBackupStays`, `RestoredIsWhole`, `PassfileIsTemporary` |
| `daily_backup` | the same, with the document of `control-plane.json.example` | a statement of the documentation that the code does not keep (violation; see section 5 and `findings`) |

The type invariants of the proved modules are theorems and are not run again,
and so are the retry budget (`RequestBudget`), the request ledger
(`DagRequestLedger`, which `FileLegal` contains) and `StreamsAreLive`.

Why the bounds are enough. Retry limits act per node, and the first retry is
where a number is reused or a count goes wrong; the proofs cover all limits. Two
processes make every pairwise overlap of read and write; a third only adds
chains of them, which the proof of `FileStaysLegal` covers for any number. Kills are
interesting once per phase. Two initialisations give old answers to new requests. In
`dynamic`, `FeedbackIsOrderFree` itself quantifies over all pairs of
classifications, so one recorded failure is enough to reach all workflows.
In `file`, the two halves (overlap, kills) are explored separately through the
constant-after-Init variable `serial`, because together they exceed the time of
a run; the proofs do not need that restriction.

In `control_plane`, two requests are two concurrent decisions, a decision beside
an import, or either beside a stream; one restart brings a second shutdown and
one new round a second row. A request is used once, so requests bound the
behaviours; the proofs hold for any number of requests, rounds and restarts.

In `runner`, the interesting overlaps are those of two commands: two runners of
one task, of two tasks over the queue, a native runner beside a transition. The
instance starts where `task:create` of one task and `run:init` of both have been carried
out, a reachable state, so that the two commands left are runners; agents and
marks are not bounded. In `database`, an overlap needs two calls, a late
release a third, and the fourth is the one whose exclusion could fail; the clock
passes the expiry of a lease while another transaction waits. All its
properties are proved without any bound. In `governance`, the chain from impact
to gate has six commands; eight leave room for a request, decision or evaluation
out of turn. In `backup`, a backup, an off-site copy, its restore and a database
restore are the longest chain, four commands; two backups may fall into one
second or into two. One command that is cut short leaves a torn dump, a dump
without its checksum, or a passfile, at any point; two of them only leave two such
files, which have different names or are `Shared`. The proofs bound neither.

Fairness. Nothing in the repository calls the commands. `TaskSettles` therefore
assumes an operator who keeps running the scheduler
as one owner and retries what may be retried, and agents that answer (`Driven`):
weak fairness of `RunScheduler(owner)`, and of `ApplyResult(n)` and `Retry(n)`
for each node. Nothing is assumed of `parallel:init`, the impact agent or
`feedback:loop`. With two owners the second one is refused for ever (no code
releases the lock), so the fair runs have one.

`FairSpec` of `CodexRunner` (`Progress(p)`) assumes that a process takes its own
steps and that the app server answers an open request, with a result or an
error, or exits. There is no timeout that would end a silent child
(`turnTimeoutMs` of `codex.json` is read by nobody), so this is an assumption
about the environment. Nothing is assumed of users, agents or turns.

`FairSpec` of `ControlPlane` assumes that a query answers or fails, that Node
runs the callback of a child that has closed, that its timers fire
(`requestTimeout` ends a request without its body, `shutdownTimeoutMs` ends the
wait for connections) and that `pool.end` returns. It assumes nothing of clients,
and nothing of children: `approval-decide` has no timeout in the server and,
with postgres, leaves its pool open, so it ends only after
`HARNESS_DB_IDLE_TIMEOUT_MS`, where 0 means never. `HandlersSettle` therefore
ends at "its child is still running".

Deadlock checking is off where a task comes to rest: when all nodes are settled and
the bounds are used up, no command changes anything.

## 4. Proofs

Assumptions: `ValidWorkflow` (what `validateWorkflow` checked: unique ids, known
dependencies, retry fields, positive limits, no cycle), `PathAssumption` (the
allocated path contains the node id, so it is unique), and the types of the
bounds. TLC evaluates them in every run.

`DagStateProofs` proves, operation by operation, that a legal document stays
legal: `DocumentInv` = `IsDocument` ∧ `DependencyOrder` ∧ `PoolRespected` ∧
`RequestLedger` ∧ `RetryBudget` ∧ `WorktreeIsolation`. No part is inductive
alone: that a dispatched node is not a duplicate needs the ledger; that a skip or
block never hits a dependency of a started node needs the dependency order; that
the ledger survives a retry needs that failed nodes carry their last attempt.
The pool part needs an argument about sums over one dispatch: a set that
satisfies the runnable-set equation is bounded by looking at its last member in
file order (`Position` is injective, so there is one).

The model defines what the loops of a scheduler run compute by equations: the
block set is a fixed point, and a node is runnable if it fits beside the
runnable nodes before it. `DagStateProofs` shows that nothing hides in that. Both
equations have exactly one solution in every state (`OneBlockSet`,
`OneRunnableSet`), so a scheduler run is a function of its inputs
(`SchedulerIsDeterministic`) and it has an outcome whenever it has the lock
(`SchedulerHasOutcome`; without this, a contradictory equation would switch the
action off and make every safety property true). Existence of the block set is
the intersection of all sets closed under one sweep; for uniqueness, take the
nodes on which two solutions differ and among them one that depends on no
other, which a workflow without cycles has. For runnable sets that is the first
node in file order (`FirstNode`), and a solution is found node by node: at
the first place without one (`LeastNumber`), the one before it can be extended.

And the loops of the code compute these solutions. The specification `LoopSpec`
of `SchedulerLoops` takes a turn of a loop per step, and its invariant is
`LoopInv` = `IInv` ∧ `SearchInv` ∧ `RunInv`, one loop invariant per phase:

- `SearchInv`: every node on the stack of `visit` depends on the next one,
  "visiting" is what is on the stack, and "visited" is closed under dependencies
  and holds no set in which every node waits for another (`VisitedInOrder`). When
  every node was visited there is no such set at all, and a dependency found on
  the stack closes one: `SearchIsExact`, for every table over every finite set of
  nodes. This is what justifies the assumption of no cycle in `ValidWorkflow`
  and the predicate `HasNoCycle` of `DynamicDag`.
- `RunInv`: while the sweeps run, each node they have blocked has a dependency
  that failed or was blocked, and behind the index of a sweep without a change no
  other pending node has, so its end is a block set (`BlocksInv`); the walk's
  counters are those of the running nodes and the nodes taken, and what it has
  taken is the runnable set as far as it has come (`ChooseInv`); the sending
  loop has sent a prefix of it, up to the first conflict (`SendInv`,
  `StoppedInv`).

`LoopsImplementScheduler` follows: the step that writes the document is
`RunScheduler`, every other step of a loop stutters.

`SchedulerProofs` adds what ties the document to its surroundings (recorded
requests were issued, passed nodes have evidence, attempts are within budget) and
derives the theorems of `PROJECT.json`: all safety properties of the runs
`parallel` and `join`, for every workflow, pool, owner set and number of
initialisations. `FailureReaches` and `NobodyIsPassedOver` hold of every document
whatever, not only of reachable ones.

`FeedbackSpec` does not keep `DocumentInv`: a reopened `review` breaks the
dependency order of a `pr` at work, and its request is settled while the node is
pending. What survives is `KeptDocument` (types, pool, isolation, retry budget, and
for each node that its attempt is 0 or its retry count plus one, that a started
node has one, and that a running node's request is waiting). `FInv` adds that
every request issued in this initialisation is on record, so that a node with a
duplicate is passed over and never started. Both are inductive together and give
`FeedbackStaysLegal`, `SentOnce` and, with the fact that only `LifecycleEnd` is
ever opened, `UpstreamStays`.
`LogImplemented` and `FeedbackImplementsLog` map a scheduler run to `Sent`, a
result to `Settled`, `parallel:init` to `StartAnew` and every other step to a
stutter. The number of the run is the abstract `run`, so requests may only go
when a new run begins.

`DagFileProofs` shows that the file and the document each process is about to write are legal and that every request a
document records is on disk or still on the list of its writer, so interleaving,
overwriting and kills cannot produce an illegal document (`FileStaysLegal`) nor
lose a request file (`RequestsStayOnDisk`), for any number of processes.
Where the users run one command at a time (`serial`), `OneAtATime` holds beside
it: the one command at work has in memory a document that follows the file in
the log and has all accepted answers settled. So an accepted result is never open
again (`AcceptedStays`), and every write of the file is a step of `RequestLog`
(`FileImplementsLog`), however many commands are killed before, between or after
their writes. `CommandsAreAtomic` says it of all of the document, not only of
its requests: every such write puts back what one operation of `DagState` makes
of the very document it replaces (`CommandFrom`), because a command that is at
work holds what it computed from the file as it still is (`FromTheFile`). That is
the reduction that `Scheduler` presupposes, whose commands are single steps.
Without `serial` neither holds: the later of two
overlapping writes takes the earlier back.

`ControlPlaneProofs` proves all safety properties of the run `control_plane` and
the refinement, for any number of requests, any decisions, and any number of
rounds and restarts, from `ApprovalConstants` and `ServerConstants` (the constants
are distinct). The invariant `IInv` adds to the properties what a handler knows
of its child (`HandlerInv`: before the body is read there is none, while the task
is read again it has succeeded), what a child in the middle of its work relies on
(`ChildInv`: a row that a transaction holds is pending and no other transaction
holds it) and who is named in a row (`RowInv`: only a child that has
committed; and a committed decision is still there, because only pending rows are
overwritten and a pending row names nobody). `RowChange` says that a step keeps
the table, appends an undecided or imported round, or is the commit of an open
round by a child that decided none: the three ways the ledger has, which gives
`LedgerImplemented`.

`RunnerProofs` proves the safety properties of the run `runner`, for any workflow
with distinct stage ids (`RunnerConstants`), any number of tasks, processes and
threads, and any number of commands. `IInv` = `TypeOK` ∧ `EvidenceInv` ∧
`QueueInv` ∧ `HistoryInv`. `EvidenceInv`: every requested stage, and the stage a
runner at work has chosen, has the answers of all earlier unconditional stages;
the runner needs its own clause because the evidence it has seen may be gone
when it writes the request. `QueueInv`: also the copies of the queue that
runners hold show only states that `run.json` has had. `HistoryInv`: a runner at
work has the last `run.json` of its task, unless two commands overlapped there.
`ThreadInv` is inductive beside the types.

`DatabaseProofs` proves the three properties of `Coordination` for any number
of processes, owners and calls, any lease duration and any clock. The argument is
in layers: `KeyInv` (the insert of a key holds the lock, and there is no row
meanwhile); `LockInv` and `StagedInv` (one writer of the lease row, and what it
has staged matches the row); `TokenInv` (a token is carried or held by one
process only, so a release by an old holder hits nobody else's grant);
`LatestInv` and `TimeInv` (an expiry is at most one duration after the BEGIN of
its transaction, hence a takeover is later than the expiry of what it takes over);
and `SoleInv`, which gives `OwnersExclude` for owners that are one process each.
A step of `Database` is a step of `Coordination` or a stutter
(`Coordinates`), so these properties carry over, and `MigrationInv` gives
`SchemaIsWhole` for any releases and migrators. `TablesAreThere` needs that the
files that ran stay run, so that the one answer which let the traffic in
(`TrafficInv`) is still true when a call begins.

`GovernanceProofs` proves both properties for every `policy.json`: `FilesInv`
(each file of the chain agrees with the impact unless that was rewritten),
`ProcInv` (so does what a process has read), `PassInv` (what went through the
gate). All three are needed, since a process writes from what it read before.

It also proves the three properties of the run `dynamic`, for every catalog
(`CatalogAssumption`; the ids in it are those of entries whose own fields
`validateWorkflow` has nothing against) and every `feedback-policy.json`. Of
`dag-policy.json` all that `compileDag` reads is a constant: the nodes of every
workflow, the two switches for `test` and `integration`, and the risk rules
(`PolicyAssumption` gives their types). What the theorems ask of it is stated in
them, and the run assumes both of the shipped policy (`ShippedPolicy`):

- `PolicyDecidesAcceptance`: what is compiled is accepted for every evidence
  exactly under a complete policy (`PolicyIsComplete`: it names catalog entries, and
  `planner`, `review` and `pr` are selected at every risk level). The edges go
  from later groups of nodes to earlier ones (`SelectedDependenciesBounds`), so
  group by group no node can be in a set in which all wait for another, and no
  policy makes a cycle. `CompilerAccepts` follows.
- `CompiledCodeIsVerified`, under a policy that tests code, joins parallel
  branches and adds no code branch by a risk rule (`PolicyVerifiesCode`;
  `compileDag` applies these rules after it has decided on `test` and
  `integration`, so a branch added there would go untested). The invariant
  `VerifiedInv` says it edge by edge (`IsVerified`); that two edges are upstream
  is `UpstreamReaches`, an induction over the recursive function `Upstream`.
- `FeedbackOrderIrrelevant`, under every policy: the two loops of `dag-recompile-feedback` are
  recursive functions, whose result is given in closed form (`AddRuleResult`,
  `AddRulesResult`): the nodes the rules name, each with the dependencies it has
  in the workflow as it was (`NewDependenciesStable`: what is added is never what a
  fix waits for). The closed form depends on the set of failures only, and
  taking it twice is taking it once (`RewiredAgain`).

The induction here is over one formula at a time: the numbers at which it holds
are a set, and a set with 0 that is closed under adding 1 has all numbers up to a
bound (`CountingUp`, from the least number missing).

`BackupProofs` proves the three properties of the run `backup` for any number of
processes, commands and seconds, any secret documents and any environments.
`IInv` = `TypeOK` ∧ `NameInv` ∧ `IdInv` ∧ `FinishInv` ∧ `RestoreInv` ∧ `PassInv`.
`NameInv`: what has a final name among the backups, and every checksum, also in
a snapshot or in the memory of a process, is of a whole dump by a backup that
started in the second the name tells; so backups that share a name are `Shared`.
`FinishInv`: a backup that hashes its dump and writes the checksum has its own
dump in place, unless it is `Shared`. `RestoreInv`: what a restore has compared
is still there, and in the restored directory it is the dump compared, because
no snapshot is extracted meanwhile (`Restoring`: the order of the runbook, which
is an assumption about the operator). `IdInv`: the numbers of
the commands at work differ from each other and from those of finished backups.
`PassInv`: a passfile belongs to a command between `FillPassfile` and
`RemovePassfile`, or to one that was cut short; a backup that has come to the last
step has no partial file; a backup that has reported success has neither. That a
step adds files of its own command only is `OwnFiles`, that a command with a
passfile goes on with it, removes it or is cut short is `KeepsHold`.

Proved but not run: the type invariants, `RequestBudget`, `DagRequestLedger`,
`StreamsAreLive`, `OneBlockSet` to `SchedulerHasOutcome`, `FeedbackStaysLegal`,
`LogImplemented` (the run `feedback` checks the stronger one),
`FileImplementsLog`, `CommandsAreAtomic` and `PolicyDecidesAcceptance`.

Model-checked only:

- `TaskSettles`, `CommandsEnd`, `ShutdownCompletes`, `HandlersSettle`: liveness
  under fairness is out of the prover's reach.
- `DailyBackupRuns`, which is violated.

## 5. What the code does not keep

The run `daily_backup` states a sentence of the documentation and finds it
violated: the backup unit is given the control plane's secret document and
refuses it (`findings` quotes the lines).

Violations that earlier runs showed and that keep no run of their own, because
the project keeps to a dozen:

- A join of which one dependency failed is not released from `blocked`, also
  after the retry passed (`docs/orchestration/parallel-failure-isolation.md:5`;
  `workflow.mjs:221`).
- The task lock is in the document that it protects and taken without a file
  lock (`parallel-dag.md:16`; `scheduler-safety.mjs:12`).
- A workflow recompiled from a feedback event can have a cycle and is refused by
  every later command (`self-correction-guardrails.md:11`;
  `dag-recompile-feedback.mjs:55`).
- A message that contains "build" or "require" contains "ui" and is classified
  as a UI failure (`failure-classification.md:23-25`; `feedback-classify.mjs:20`).
- A review that feedback reopens is not sent again (`feedback-loop.md:14`;
  `feedback-reset-nodes.mjs:27`).

Met while modelling: a killed
write leaves `dag.json` unreadable (`torn`), though `docs/orchestration/overview.md`
promises resumption; a conditional node is skipped before `impact.json` exists;
`parallel:init` reuses attempt identities of an earlier initialisation;
`failure.retryable` is checked and then ignored by `prepareRetry`; `dag:run` and
`parallel:run` load different workflows for the same `dag.json` if both exist.

Of approvals and the control plane: with the postgres store `approval-gate`
still reads only `approval.json`, which no decision reaches, and the snapshot
after a run inserts that file, usually pending, as a new latest row above a decided one
(`ImportRow`), although `docs/persistence/fallback.md:11` wants the same entities
readable from either store. With the filesystem store a decision does not ask
whether one was made before: of two at the same time both are answered 200 and
one is gone. `child.on("close", async ...)` (`server.mjs:287`) does not catch a
failing query, so the rejection ends the server after the decision was stored
(`RereadFails`). A client that leaves while the task is read may leave its handler
waiting for ever (`lost`).

Of the runner and the Codex adapter: the app server is stopped right after
`turn/start` was answered, while the turn may just have begun; `turnTimeoutMs` is
read by nobody, and a `codex-stage` whose child exits ends silently with exit
status 0. Failures are not retried and the attempt number never rises.
`run:init` starts a new run beside the requests and results of the old one, so
old evidence counts. The outcome entry of a native runner may overwrite, or be
overwritten by, a command that is at work on the task (hence `overlapped`).

Of the database: `releaseTaskLock` has no caller; an idempotency key that has
expired can neither be claimed nor replayed; when a second process takes the
lease again for the same owner, the first one's release deletes nothing and its
claim has silently ended. Of governance: an approval of an earlier, milder
evaluation passes a later one; a `dag-input.json` risk, however old, takes
precedence over a new `impact.json`; `approval-gate` passes `manual-only` once
something is approved; `protected-paths.json` is read by nobody. Of the backup:
two backups in one second share their names. The passfile, which
`docs/control-plane/ubuntu-deployment.md:101` calls temporary, stays behind without
a kill in three cases: `writeFile` or `chmod` fails after the file was opened
(`postgres-backup.mjs:163-168`, before the `try`), the removal of the partial file
throws (229, so that 230 is not reached), or its own removal does.
`PassfileIsTemporary` excepts just these and kills (`cutShort`).

## 6. Not modelled, and the plan

Not modelled, and why:

- agent memory (a record and an index written one after the other by single
  commands; the two files can differ after a kill);
- harness checks, graph queries, observability and evaluation reports, the read
  models of the control plane, `gate`, `resume`, `status`: they read files and
  print, and change nothing;
- the seed of the database (one script over one SQL file), and the copies of
  tasks and DAGs in the tables (rows overwritten with what the files say);
- `validate-target`, pruning and `restic check`: read-only, or the work of restic;
- the forum sample and the web applications: request by request, without state
  that several steps share.

Git worktree creation is taken to succeed or to abort the command. Two tasks of
the parallel scheduler never share a document, so one task is modelled; the
sequential runner's tasks share the queue, so there are two.

`DagFile`, also with serial use, is not a refinement of `Scheduler` as it stands:
the impact verdict a command uses is read with the file and not kept, and
`issued` of `Scheduler` does not say which run wrote a request file.
`CommandsAreAtomic` is the part that does not depend on either.

Still open: the memory index under kills.

Runs are kept to a dozen: a new question takes the place of a smaller run or
joins an existing one.
