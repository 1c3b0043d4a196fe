# JobSlayer: a TLA+ verification project

JobSlayer is a control plane for AI-assisted development: agents do the work,
and deterministic code owns task state, authority, evidence and completion.
This directory models that deterministic code in TLA+, checks it with TLC on
small instances and proves its central properties with TLAPS for all
instances. Paths below are relative to `src/src/jobslayer/`.

## 1. Inventory

| Component | State it keeps | Operations | What is hard |
|---|---|---|---|
| Worker leases (`workers`, `adapters/sqlite_workers.py`) | a row per lease: holder, run, status, version, acquired, heartbeat, expiry | acquire, heartbeat, request_cancel, release, recover_orphans | callers act on copies, with timestamps sampled before a lock wait; any process may sweep |
| Long-running execution (`long_running`, `adapters/sqlite_long_runs.py`, `application/long_running_execution.py`) | a handle per run (status, attempt, lease, cursor, usage) projected from an event chain | admit, bind_provider, observe, checkpoint, request_cancel, finish, recover, authorize_retry | two stores that commit separately; late observations; takeover; limits over attempts |
| Workflow kernel (`workflow/kernel.py`) | none; reads a journal | transition | legality, authority and evidence of every step |
| Transactional execution (`application/transactional_execution.py`, `adapters/sqlite_state.py`, `application/controller.py`) | task history, run records, artifact metadata, outbox | execute, prepare_review, apply_decision, integrate, cleanup | side effects before the commit; repeated and overlapping calls; crashes between Git and database |
| Local Git integration (`adapters/local_git_integration.py`) | worktree and target branch | integrate | commit and fast-forward are two durable steps; the target drifts |
| Governed execution (`application/governed_executor.py`, `adapters/sqlite_budgets.py`) | reservation, lease copy, grant, usage counters | start, events, cancel, collect | four parties released one after the other; polling; cancellation order |
| JSONL journal, run ledger (`workflow/journal.py`, `application/run_records.py`) | an append-only file with a hash chain | append, read_all | read, check and publish; one process only |
| Local runs and recovery (`application/local_run.py`, `adapters/local_recovery.py`) | journal + ledger + artifacts + Git of a run | run, decide, integrate, cleanup, recover | a missing record is supplied only if all facts agree |
| Task-manager runs (`application/task_manager_execution.py`, `task_manager/execution.py`) | node runs of a finalized plan | bind, start, advance, accept, review, validate, complete | gates over evidence, independence of reviewers |
| Task-manager coordinator (`application/task_manager_coordinator.py`) | a pending intent per run | tick, recover | one action per tick; partial commands |
| Task orchestration (`application/task_orchestration.py`, `orchestration`, `adapters/local_orchestration.py`) | plan revisions with graph, target and pending proposal | create, discuss, edit, derive, apply, reject, archive, restore, finalize | slow agents; optimistic concurrency; two APIs with different guards |
| Task-manager service (`application/task_manager.py`) | none; reads plan and runs | edits of a plan without a run, assembly, commands on the run of a task | checks on one store, changes on another |
| Durable Codex worker, Quick Agent, CLI agents (`adapters/task_manager_codex*.py`, `codex_quick_agent.py`, `codex_cli.py`) | files and processes of an agent | start_or_locate, observe, cancel, collect | process death, reader threads, timeouts |
| Identity, artifacts, verification, sandbox, command runner | signed sessions, content-addressed files, reports | pure checks and subprocesses | mostly data |
| Desktop, CLI, web views, UI design and advice | none of their own | assembly and rendering | – |

Interactions. The coordinator calls the controller, which drives an agent
executor; a `GovernedAgentExecutor` puts budget store, lease store and
credential broker around that executor. Long-running execution uses the same
lease store. All of them reach the workflow kernel only through a journal,
which in the transactional path is a private buffer that one commit publishes,
in the file-based path a file of the run directory, and in the task manager
part of the node's record. A task's plan is finalized by the orchestration
service, bound by an assembly to a task-manager run, and that run is advanced
by direct commands and by the coordinator's ticks, which start durable Codex
workers in a shared workspace.

`PROJECT.json` lists every component with its status, and the hazards at their
lines; the properties below are aimed at those hazards.

## 2. Modules

| Module | Models | State and actions |
|---|---|---|
| `RunOwnership` | what leases are for | `owner` of every run; `Take`, `Lapse`. The abstract specification of `WorkerLeases` |
| `LeaseTable` | the lease store as operators on a table | each store transaction is a guard (`CanHeartbeat`) and an update (`Heartbeat`) |
| `WorkerLeases` | workers that hold leases | `clock`, `leases` (the table), `held` (the copy a worker works with); one action per store call, `Tick`, `Abandon` (a holder dies) |
| `LongRuns` | the long-run service over both stores | `handles`, `leases`, `providers`, `calls`; a call is read, lease write, append, and for bind a compensation, each its own step |
| `WorkflowKernel` | the transition table, authority and evidence gates | operators on a history |
| `TransactionalExecution` | the coordinator over store, registry and Git | `history`, `records`, `manifests` (database), `registry` (artifact files), `workspace`, `base`, `target` (Git), `launches`, `calls` |
| `RunPipeline` | what the stages of a run are for | `told` (the results in the records of a run), `started` (its agents), `merged`, `removed`; one action per record, `Start`, `Merge`, `Remove`. The abstract specification of `TransactionalExecution` and `LocalRuns` |
| `GovernedExecution` | one use of the governed executor per worker process | `budgets`, `leases`, `agents`, `executors` (their step, copies and counters), `crashes` |
| `LocalRunEvidence` | what the files of one local run say about it | operators on the stores of a run directory: `Inspects`, the gaps, `Assess` |
| `LocalRuns` | the commands of file-based runs, and `recover-run` | `runs` (stores of every run), `target`, `launches`, `call` (the command that executes), `faults`; one action per durable step |
| `RunNodes` | the nodes of a task-manager run | operators: when a node is satisfied, the stage, the one step the coordinator decides on |
| `DurableCodex` | the files and processes of one start key | operators: `Locate`, `Claim`, `Launch`, `PublishTerminal`, … |
| `TaskManagerRuns` | commands, coordinator, workers, validation, checkpoint of one run | `run` (latest revision), `interactions`, `providers`, `validations`, `tree` and `branch` (the shared workspace), `results`, `cursor`, `lease`, `ticks`, `server`, `command` |
| `TaskPlanGraphs` | task graphs and their direct edits | operators: `WellFormed`, the edits, what an assessment blocks |
| `TaskPlans` | the plan of a task and the runs assembled from it, under both APIs | `history` (plan revisions), `runs`, `source` (the target's bundle), `calls`; a call is accept, read, append |
| `WorkerLeasesProofs`, `LongRunsProofs`, `TransactionalExecutionProofs`, `TransactionalHistoryProofs`, `GovernedExecutionProofs`, `LocalRunsProofs`, `TaskManagerRunsProofs`, `TaskPlansProofs` | – | theorems and proofs |
| `MC*` | – | instances for TLC |

`LeaseTable` is shared by `WorkerLeases`, `LongRuns` and `GovernedExecution`;
`WorkflowKernel` by `TransactionalExecution`, `LocalRunEvidence` and
`RunNodes`; `TaskManagerRuns` composes `RunNodes` and `DurableCodex`, and
`LocalRuns` is `LocalRunEvidence` in motion.

Refinement. `WorkerLeases` implements `RunOwnership` with `owner` mapped to the
worker that believes in a lease of the run (its copy is live and its deadline
has not passed). Stale instants, late calls, sweeps, cancel requests and deaths
are then either taking a free run or lapsing. `TransactionalExecution` and
`LocalRuns`, the two ways to execute a run, implement one `RunPipeline`: `told`
is the states in the records of a job's run (of a ledger), `started` the
launches, `merged` the jobs on the target branch, `removed` those whose
worktree is gone. Journals, artifacts, cards, commits in a worktree, lost or
repeated calls and recovery are steps the pipeline does not see. A second merge
of one run would not be seen either; `IntegratedOnlyIfApproved` and
`GitFollowsLedger` exclude it. The pipeline says nothing of when a run stops.

Abstractions that matter:

* Leases. Time is a number; a call may use any instant between its worker's
  last call and now, at most `MaxWait` old (the busy timeout). The wall clock
  does not step back; if it did, a heartbeat could store a row whose expiry
  precedes its acquisition, outside what is claimed here.
* Long runs. The counted usage dimensions are one. Soft limits and stall
  warnings choose event types and are left out. An observation is delivered at
  any later time, so it may be stale when it is used.
* Transactional execution. One commit is one step (SQLite's write lock; the
  expected sequence lengths and the primary key are its guards). The
  artifacts of a job are numbered by registration. The target branch grows by
  this system's merges and by commits made elsewhere; it is never rewound.
  What the controller does inside one execution appears as its outcome and the
  transitions it buffers.
* Governed execution. Bindings, credential validity, context hash and sandbox
  capabilities are checked before the first store call and either hold or end
  `start` without a trace, so they are not state. The counted usage dimensions
  are one. The agent's events carry cumulative counters. The controller's
  deadline may pass at any time while the agent runs.
* Local runs. The ledger and the journal are published by one rename each, so
  an append happens or not; a card is created and written in two steps. One
  command at a time works on a run directory, as the classes document; other
  runs and other committers move the target branch meanwhile. A record keeps
  its stage and the state it tells; what it cites is whether the artifact is
  registered.
* Task-manager runs. A patch is the set of changes (which attempt of which
  node, which path) that the workspace has against a commit; digests compare
  such sets. A pid may answer for a worker that ended (a zombie or a reused
  pid). A killed worker leaves its Codex running, which goes on writing. The
  coordinator's lease is held or free, and free at any moment: `WorkerLeases`
  says what a lease is. Conversations and assistance requests are counted,
  their text is data.
* Task plans. A node has a content of which only its fitness matters (a
  validation without requirements; instructions of another target). Relations
  and labels of edges are one. The source bundle of a target is its digest. An
  agent may answer with any of the given graphs, or not at all.

## 3. Runs

| Run | Instance | Shows |
|---|---|---|
| `worker_leases` | 2 workers, 2 leases, 1 run, time 0..4, lock wait 1, lease lengths 1 and 2, fairness | exclusive ownership, one live lease, rows decode, elapsed leases reclaimed, implements `RunOwnership` |
| `long_runs_contention` | 2 supervisors, 2 leases, 1 attempt, time 0..3 | order of the two stores, takeover only after expiry, monotone progress |
| `long_runs_attempts` | 1 supervisor with 1 crash, 2 attempts, 3 leases, time 0..3 | usage counted once over a retry, completion inside every hard limit |
| `long_runs_lost` | 1 supervisor, 1 attempt | **violated**, see section 6 |
| `transactional_execution` | 2 callers, 2 runs of one task, 2 intents each, 1 crash, 1 foreign commit of the target, fairness | one launch per job, one legal history, records and history agree, Git changes only under approval, an approved run completes unless the target drifted, implements `RunPipeline` |
| `governed_execution` | 2 executors for one run, 1 crash, 2 reports, time 0..3, fairness | one launch, cancellation persisted first, no completion over budget, grant revoked last, overage reaches the agent |
| `governed_grant`, `governed_reports` | 1 executor, no crash | **violated**, see section 6 |
| `local_run` | 2 runs on one target (one admitted by a human, one by policy), 2 faults, 1 foreign commit, fairness | evidence never contradicts itself, a repair supplies the missing record and nothing else, ledger tells journal, Git follows the ledger, recoverable gaps are closed, implements `RunPipeline` |
| `task_manager_commands` | a task and a validation, both roots; 2 principals, 2 attempts, 2 server stops, 1 worker killed; no ticks | one Codex per start key; a commit holds what two principals approved, on the commit that was verified |
| `task_manager_coordinator` | scope gate, task, final gate, the task listed before the gate it depends on; one ticker, 1 stop, 1 worker killed, fairness | satisfied nodes are proven, the cursor is true to the run, a recorded intent is resolved or wedged for a stated reason |
| `task_plans` | 2 threads, 2 nodes, 2 digests, 5 revisions, 2 runs | runs bind finalized revisions, proposals and finalizations are of the graph that was seen, an ended task stays ended |

Every run takes between some seconds and about three minutes with two workers.

Why the bounds are enough. The lease and long-run protocols are about pairs: a
holder and a rival, an old lease and its successor, an attempt and the next
one; three leases allow a bind, a takeover and a retry. Time is long enough
for a lease to be taken, renewed and to elapse, and for a stale instant to
straddle its deadline. `MaxVersion` bounds renewals only. The unique
reservation lets one executor of a run reach the lease store, so one lease id
is enough in the governed run. Two intents let an execute be repeated after a
crash while another is in flight. Two faults let a command of a local run be
cut off and its repair be cut off too. In the task manager, two attempts let a
killed attempt's Codex write into the workspace of the next one, and a task
beside a validation lets both use it at once. One ticker races with commands
made directly beside it; a second one takes its lease over when it expires in
the middle of a tick, and then both append to one cursor. With liveness that
instance does not fit: it was explored once for its safety (two tickers, 1
stop, 1 worker killed: 3.0 million states, no violation) and is not a run, so
the stale branches of `RecordIntent` and `Project` fire in no run. Five revisions hold a
proposal, its application, a target, a finalization and an edit behind it. The
model of plans lets any call end without a trace, so calls that are refused or
whose agent fails need no bound of their own.

Deadlock is not checked where the system really may stop: a run that ended, a
clock, revisions or faults at their bound, and a wedged intent legitimately
leave nothing to do.

Symmetry is used for supervisors, lease ids, callers, digests and principals in
runs without liveness properties.

Every property has a mutant in `PROJECT.json`: an operator such as
`ElapsedEarly` beside `Elapsed` describes a plausible mistake at that place,
and TLC refutes the property when it is substituted. Most types and
some strengthenings are proved and not checked again in a run (the `TypeOK` of
every module but `TaskManagerRuns`, `LaunchInv`, `TerminalLeasesFrozen`).

## 4. Fairness

* `WorkerLeases`: weak fairness of `Tick` and `Sweep`. Time passes, and every
  tick of the task-manager coordinator starts with `recover_orphans`; nothing
  is assumed of workers, who may die.
* `LongRuns`: a call that began goes on, and supervisors keep reconciling
  (strong fairness of polling with finish and with recover). This run is a
  refutation, so the generous assumption strengthens it.
* `TransactionalExecution`: some call that began goes on, none in particular,
  and somebody retries an integration that is due (strong fairness over all
  callers together, because the retry is disabled while calls are in flight).
* `GovernedExecution`: the controller's loop keeps polling, and an agent ends
  in the end, by the timeout the CLI adapter enforces itself
  (`adapters/codex_cli.py:489`). No fairness of the clock or of the sweep.
* `LocalRuns`: a command that began goes on, and the operator runs
  `recover-run` again on a run that keeps being recoverable.
* `TaskManagerRuns`: processes are scheduled, a server that stopped is started
  again, the operator keeps ticking and a thread is not starved of the command
  lock (strong fairness of a tick's next step), leases expire. Nothing is
  assumed of reviewers, of Codex's success or of what it writes.
* `TaskPlans`: none; its properties are safety.

## 5. Proofs

`WorkerLeasesProofs` (constants: any sets of leases, workers and runs, any
lock wait, any positive durations) proves that the inductive invariant `Inv`
holds and from it type correctness, one live lease per run, decodability of
every row, exclusive ownership, that terminal leases are frozen, and that the
protocol implements `RunOwnership`. Exclusive ownership is not inductive:
whether a worker believes in its lease depends on its copy. `CopiesFaithful` is
the strengthening: while a lease is live only its holder changes it, so the
copy is exact; a lease is expired under its holder only after the deadline of
the copy. Two believers would then have two live leases of one run, which the
index excludes. The refinement uses the same invariant: a step either gives a
free run to a worker without one, or takes runs away.

`LongRunsProofs` (any runs, leases, supervisors, attempts, limits and crashes)
proves types, that a handle follows its lease, that a run is completed only
inside every hard limit, that a takeover needs an expired lease, that progress
is monotone, and that usage is counted once. The invariant `LongInv` has two
halves. The lease table only grows: a row that was drawn keeps its run, its
version goes up and its status only goes on. And a version determines the
handle, so a call whose append is accepted appends to the handle it read
(`ReadOK`), whatever it wrote in the lease store before (`WroteOK`). Limits of
the whole task, once exceeded, stay exceeded (`RemembersLimits`), although
`finish` looks only at the attempt it ends. For usage, `UsageInv` adds that
the attempts before a handle's own are over and that of its own attempt the
handle counts what its cursor says. `Spent` sums over the attempts with a
recursive function; that two sums agree when their attempts do is shown by the
least attempt at which they would differ, as the induction theorem itself is
out of reach.

`TransactionalExecutionProofs` (any tasks, runs, jobs, callers, repetitions,
foreign commits and crashes) proves type correctness and that an agent is
launched at most once for a job. The strengthening is `LaunchInv`: artifact 1
of a job is in every list made after an intent was registered, so the first
intent that commits makes every other one violate the primary key, and only
one call at a time is between the commit and the launch.

`TransactionalHistoryProofs` (the same constants; a job is its task and run,
`JobAssumption`) proves that histories are workflow paths, that records and
history agree, and what Git may hold. Every commit appends a record to the one
run of its task. So the number of records that a call has read decides, when
the commit compares it, that the state of the task is still the one the call
was based on (`StageCallOK`); and what a call has done in Git stays done,
because the target only grows and a worktree only goes on (`WorktreeOK`). With
`PipelineInv` (records tell the stages in order, after the launch, the last one
of a removed worktree) every step maps to one of `RunPipeline` or to none.

`GovernedExecutionProofs` (any executors, leases, limits, reports and crashes)
proves types and the four safety properties of the governed run. A
reservation admits one executor to a run; from then on budget, agent and lease
of the run change only in step with it. `GovernedInv` therefore speaks of one
executor at a time: at each of its steps it says what the lease store
(`LeaseFollows`), the reservation (`BudgetFollows`) and the agent
(`AgentFollows`) hold, and what of the reports is charged.

`LocalRunsProofs` (any runs, interruptions, failed writes and commits made
elsewhere) proves types, all five safety properties of local runs, and
that they implement `RunPipeline`. The number of
ledger records fixes what journal, artifacts, worktree and target branch may
be: the workflow is at most the transition of the next stage ahead
(`JournalOK`, `Ahead`), and what that stage registers first is then there
(`ArtifactsOK`, `WorkspaceOK`). `Assess` sees nothing else, so its verdict is
computed from the invariant, at rest and in the middle of a command alike, and
recovery, which starts on such a verdict, finds the rest of its stage done.
That a run is merged once is the place of its merge, one behind its base. The
refinement needs one more fact, that an outcome follows a launch (`StartedInv`).

`TaskManagerRunsProofs` (any finalized plan, paths, principals, tickers,
attempts, stops and killed workers) proves that Codex starts once per start
key, that commits hold what was approved, and that satisfied nodes are proven.
The invariant `RunInv` says in named parts what the stores owe to each other.
Three of its conjuncts are the strengthening. A node past `implementing` has a
quiet Codex: only an ended Codex reports success, so nothing of the node's own
attempt is written once its evidence is collected. A command of the integration
keeps what it found, because the command lock admits no other and Codex only
adds to the workspace: until it commits, the workspace `Holds` the reviewed
patch, and afterwards the commit does (`Landed`). The base of the evidence is
the place of the commit, which gives one commit per node without counting.
That Codex starts once is the lock file alone (`ProviderOK`): whatever spawns
workers, `Claim` admits one, and it launches only from `none`.

A second invariant, `CoordinatorInv`, is about the ticks and carries type
correctness and `CursorShowsNextStep`. A tick or a cursor that names the latest
revision holds that revision's decision; each append raises the revision, so
whatever is older is recognised by its number. Gates only wait and tasks are
dispatched with an attempt, so a provider is only ever observed under a key
that an authorized attempt has. That the decision is of one node rests on the
plan's list of nodes, each listed once, of which it takes the first that
qualifies. The list need not be in the order of the dependencies: an edge may
lead from a later node to an earlier one, and `RunNodesAssumption` asks only
for what `validate_task_plan_graph` checks, unique nodes without cycles (the
proofs do not need the latter).

`TaskPlansProofs` (any threads, nodes, contents, proposals, digests, numbers of
revisions and runs) proves types, that runs bind finalized revisions, that
proposals are current, that a finalized revision is the draft that was
assessed, and that an ended task stays ended. The lemmas on graphs say that
every accepted edit of a graph is a graph, deletion of a node with its edges
included. The invariant `PlanInv` adds `CallsInv`: what a call has read is
still there, because histories only grow, and an edit that found itself
allowed by a revision is allowed by *that* revision; `AppendRevision` proceeds
only if that revision is still the latest one. An assembled revision has
nothing pending and nothing blocked because it is finalized, which
`FinalizedAsReviewed` ties to those facts; so the three properties are proved
together.

Every invariant, action property and refinement that a passing run checks is thus proved
for all values of the constants. Only model-checked is what must happen in the
end: `ElapsedLeasesReclaimed`, `ApprovedRunCompletes`, `OverageIsCancelled`,
`IntentsAreResolved` and `GapsAreClosed` rest on fairness, whose ENABLED the
prover does not handle. The three refutations of section 6 are TLC's.

## 6. Findings

1. `long_runs_lost`. ADR-0035 says a provider run that cannot be found is
   recorded as lost. Once the run's lease is expired, `recover` refuses an
   ended provider and points to `finish`, and `finish` cannot release an
   expired lease: the run stays running for ever.
2. `governed_grant`. ADR-0025 says the grant is revoked after the terminal
   state. If the lease elapsed and was swept before the result is collected,
   heartbeat, cancel or release raises, and neither the reservation nor the
   grant of the ended run is given back.
3. `governed_reports`. `collect` reads all events at every poll and charges
   each as a new absolute reading. An agent that reported twice, growing and
   inside its budget, is cancelled at the next poll because the first report
   is below the last.

Observations without a run of their own, met while modelling and allowed for in
the properties named:

* One task, one run. ADR-0058 (decision 1) says a task that has a run refuses
  discussion, application, target changes and finalization.
  `_require_plan_without_run` (`application/task_manager.py:921`) looks once,
  before the planning agent answers, and `assemble_run` does not look for
  another run of the task but only for one of the same revision. So a
  discussion passes the check and asks its agent, the finalized revision is
  assembled, and the agent's proposal is appended, because the plan itself did
  not move: it grows behind its run. `_require_execution_run` then
  finds no run for the latest revision and refuses every command on the one
  that is live, and after a further finalization through the planning API
  (`orchestration/web.py`), which has no such check, a second run can be
  assembled. `RunsBindFinalizedRevisions` states what holds: each run is bound
  to its own finalized revision.
* Recovery of a run whose review asked for changes. `_assess_decision_application_gap`
  (`adapters/local_recovery.py:594`) takes any state but `merge_review` after
  two records for a decision whose record is missing, so a healthy run in
  `repairing` is `invalid_evidence`, although ADR-0016 makes recovery of a
  healthy run an idempotent read. `EvidenceStaysValid` excludes that state.
* A card cut off between creation and write. Recovery removes the file it
  could not write (`local_recovery.py:383`), the review command leaves it
  (`application/local_run.py:1020`), and a torn card is never overwritten.
  `EvidenceStaysValid`, `RepairsAreConclusive` and `GapsAreClosed` exclude it.
* Independence of the final approver. ADR-0044 wants another principal than
  the last reviewer of the direct dependencies; `approve_completion_gate`
  (`application/task_manager_execution.py:565`) compares with the actor of the
  dependency's last transition, which for source-changing work is who approved
  the checkpoint, not who reviewed it.
* Two tasks with one patch. A commit message carries the node's
  `Integration-Key` (`adapters/task_manager_git_checkpoint.py:247`), but the
  recovery of `integrate_checkpoint` (line 117) takes any commit for its own
  whose parent is the base and whose patch has the reviewed bytes. Two tasks
  that are active together, by direct commands and not under the serial
  coordinator, can be verified with the one patch of their shared workspace;
  after one is committed, the other completes on the same commit. ADR-0042
  (decision 5) names just these tests for a repeated call; its consequences say
  that every source node leaves an exact commit. `SatisfiedIsProven`
  therefore asks for a commit with all of the patch and not for the node's own.
* Wedged intents. `IntentsAreResolved` holds up to `Wedged`: a worker that died
  between its lock and its claim is never replaced, and a workspace that a
  late Codex changed makes the recorded command fail for ever.

## 7. Not modelled

Rendering, argument parsing and assembly (`desktop`, `cli`, the web views, UI
design and advice) hold no protocol state; the HTTP server appears as the
overlapping calls of `TaskPlans`. Identity, verification, sandbox and the
command runner are pure checks or operating-system effects whose outcome is an
input of the models. The PostgreSQL store implements the transaction contract
of the SQLite store. Repair attempts of the budget store have no caller in the
governed executor, nor has `pin_execution_target_source` of the orchestration
service. Two processes on one run directory are outside what the JSONL classes
support. The Quick Agent (its App Server connection, turns and interrupts) and
the reader threads of the CLI adapters are not modelled. Readiness and the
Phase 0 corpus read stored runs.

## 8. Plan

1. Done: leases and their refinement, long runs, kernel, transactional and
   governed execution, local runs and recovery, task-manager runs with the
   coordinator and the durable worker, task plans; proofs of all their safety
   properties.
2. `QuickAgent`: sessions, turns and interrupts over the App Server connection,
   with late notifications.
3. A four-node plan for the coordinator (a task and a validation between two
   gates), once its instance is made smaller.
