----------------------- MODULE TransactionalExecution -----------------------
(***************************************************************************)
(* TransactionalExecutionCoordinator over the transactional state store:   *)
(* execute, prepare_review, apply_decision, integrate and cleanup, called  *)
(* by independent processes that may overlap, repeat each other and die    *)
(* anywhere.                                                               *)
(*                                                                         *)
(* A call reads the histories, performs its side effects (artifact files,  *)
(* the agent, Git, the worktree) without a transaction, and commits its    *)
(* transitions, its run record and the new artifact metadata together if   *)
(* both sequences still have the lengths it read.  One commit is one step. *)
(* The outbox event every commit carries has no consumer in the code.      *)
(*                                                                         *)
(* A job is the pair of task and run that an execution names.  The         *)
(* artifacts registered for a job are numbered in the order of their       *)
(* registration; artifacts registered without a run are never listed and   *)
(* are left out.  The target branch only grows, by merges of this system    *)
(* and by commits made elsewhere: a commit of it is known by its position. *)
(***************************************************************************)
EXTENDS WorkflowKernel, FiniteSets

CONSTANTS Jobs, Tasks, Runs, Callers,
          TaskOf, RunOf,    \* task_id and run_id of a job
          AuthorityOf,      \* the actor type that authorized its execution
          Elsewhere,        \* a commit of the target that no job made
          MaxIntents,       \* bound: executions begun for one job
          MaxTarget,        \* bound: commits made elsewhere come below it
          Crashes           \* bound: calls cut off by a crash

ASSUME TransactionalExecutionAssumption ==
    /\ TaskOf \in [Jobs -> Tasks]
    /\ RunOf \in [Jobs -> Runs]
    /\ AuthorityOf \in [Jobs -> {"human", "policy"}]
    /\ Elsewhere \notin Jobs
    /\ {MaxIntents, MaxTarget, Crashes} \subseteq Nat

\* A job is the pair, so no two jobs name the same task and run.
ASSUME JobAssumption ==
    \A j, k \in Jobs : TaskOf[j] = TaskOf[k] /\ RunOf[j] = RunOf[k] => j = k

VARIABLES history,     \* workflow_transitions of every task
          records,     \* run_records of every run
          registry,    \* how many artifacts are registered for a job
          manifests,   \* artifact_manifests: the numbers committed
          launches,    \* executions of a job handed to the controller
          workspace,   \* the worktree of a job
          base,        \* resolved_base_commit of the worktree
          target,      \* the commits of the target branch since the start
          calls,       \* the call each process is in
          crashes      \* calls cut off so far

store == <<history, records, manifests>>
git == <<workspace, base, target>>
vars == <<history, records, registry, manifests, launches, workspace, base, target, calls, crashes>>

Record == [task: Tasks, stage: {"execution", "implementation_review", "decision_application",
                                "source_integration", "workspace_cleanup"},
           state: TaskStates]

Operations == {"execute", "review", "decide", "integrate", "cleanup"}
Steps == {"list", "intent", "launch", "collect", "outcome",
          "git_commit", "git_merge", "remove", "commit"}

\* The transitions a call has buffered, and the result its record will tell.
Call == [op: Operations, step: Steps, job: Jobs, known: SUBSET Nat,
         buffered: Seq(Transition), state: TaskStates, task_seq: Nat, run_seq: Nat]

Idle == [op |-> "idle"]

TypeOK ==
    /\ history \in [Tasks -> Seq(Transition)]
    /\ records \in [Runs -> Seq(Record)]
    /\ registry \in [Jobs -> Nat]
    /\ manifests \in [Jobs -> SUBSET Nat]
    /\ launches \in [Jobs -> Nat]
    /\ workspace \in [Jobs -> {"none", "changed", "committed", "removed"}]
    /\ base \in [Jobs -> Nat]
    /\ target \in Seq(Jobs \cup {Elsewhere})
    /\ calls \in [Callers -> Call \cup {Idle}]
    /\ crashes \in 0..Crashes

Init ==
    /\ history = [t \in Tasks |-> <<>>]
    /\ records = [r \in Runs |-> <<>>]
    /\ registry = [j \in Jobs |-> 0]
    /\ manifests = [j \in Jobs |-> {}]
    /\ launches = [j \in Jobs |-> 0]
    /\ workspace = [j \in Jobs |-> "none"]
    /\ base = [j \in Jobs |-> 0]
    /\ target = <<>>
    /\ calls = [c \in Callers |-> Idle]
    /\ crashes = 0

-----------------------------------------------------------------------------
(* The store and the journal buffer *)

At(c, step) == calls[c] # Idle /\ calls[c].step = step

\* The call goes on at another step, or it ends: it returned or it raised.
Goto(c, step) == calls' = [calls EXCEPT ![c].step = step]
End(c) == calls' = [calls EXCEPT ![c] = Idle]

\* list_manifests(task, run)
ListManifests(registered) == 1..registered

\* registering the intent without its run, where list_manifests misses it
RegisterIntentWithoutRun(registered) == registered

RegisterIntent(registered) == registered + 1

\* a transaction that trusts the run sequence alone
TransactionAppliesToRun(j, task_seq, run_seq, inserted) ==
    Len(records[RunOf[j]]) = run_seq /\ inserted \cap manifests[j] = {}

\* SqliteStateTransaction: the expected sequences when the write lock is
\* taken, and the primary key of artifact_manifests when it commits.
TransactionApplies(j, task_seq, run_seq, inserted) ==
    /\ Len(history[TaskOf[j]]) = task_seq
    /\ Len(records[RunOf[j]]) = run_seq
    /\ inserted \cap manifests[j] = {}

\* WorkflowKernel.transition on the buffered journal
Step(from, to, actor) == [from |-> from, to |-> to, actor |-> actor]

\* execute_implementation: the transitions of a run with this outcome, by
\* the authority that admitted it.
ExecutionPath(outcome, authority) ==
    LET begun == <<Step("draft", "planned", "system"), Step("planned", "implementing", authority)>>
    IN  IF outcome = "failed"
        THEN Append(begun, Step("implementing", "failed", "system"))
        ELSE begun \o <<Step("implementing", "verifying", "system"),
                        Step("verifying", outcome, "system")>>

-----------------------------------------------------------------------------
(* execute *)

\* The identities are unused; the intent artifact is registered.
BeginExecute(c, j) ==
    /\ calls[c] = Idle
    /\ registry[j] < MaxIntents
    /\ history[TaskOf[j]] = <<>> /\ records[RunOf[j]] = <<>>
    /\ registry' = [registry EXCEPT ![j] = RegisterIntent(@)]
    /\ calls' = [calls EXCEPT ![c] =
          [op |-> "execute", step |-> "list", job |-> j, known |-> {},
           buffered |-> <<>>, state |-> "draft", task_seq |-> 0, run_seq |-> 0]]
    /\ UNCHANGED <<store, git, launches, crashes>>

ListPreexisting(c) ==
    /\ At(c, "list")
    /\ calls' = [calls EXCEPT ![c].step = "intent",
                              ![c].known = ListManifests(registry[calls[c].job])]
    /\ UNCHANGED <<store, registry, git, launches, crashes>>

CommitIntent(c) ==
    LET j == calls[c].job
    IN  /\ At(c, "intent")
        /\ IF TransactionApplies(j, 0, 0, calls[c].known)
           THEN /\ manifests' = [manifests EXCEPT ![j] = @ \cup calls[c].known]
                /\ Goto(c, "launch")
           ELSE End(c) /\ UNCHANGED manifests
        /\ UNCHANGED <<history, records, registry, git, launches, crashes>>

\* The controller creates the worktree on the commit the task names and
\* starts the agent in it; it raises when the worktree exists.
Launch(c) ==
    LET j == calls[c].job
    IN  /\ At(c, "launch")
        /\ launches' = [launches EXCEPT ![j] = @ + 1]
        /\ IF workspace[j] = "none"
           THEN /\ workspace' = [workspace EXCEPT ![j] = "changed"]
                /\ \E b \in 0..Len(target) : base' = [base EXCEPT ![j] = b]
                /\ Goto(c, "collect")
           ELSE End(c) /\ UNCHANGED <<workspace, base>>
        /\ UNCHANGED <<store, registry, target, crashes>>

\* The agent ended and its patch was verified: the outcome is registered.
CollectOutcome(c, outcome) ==
    LET j == calls[c].job
    IN  /\ At(c, "collect")
        /\ registry' = [registry EXCEPT ![j] = @ + 1]
        /\ calls' = [calls EXCEPT ![c].step = "outcome", ![c].state = outcome,
                                  ![c].buffered = ExecutionPath(outcome, AuthorityOf[j])]
        /\ UNCHANGED <<store, git, launches, crashes>>

\* No terminal result: failed is buffered, and lost when the error is raised.
LifecycleError(c) ==
    /\ At(c, "collect")
    /\ registry' = [registry EXCEPT ![calls[c].job] = @ + 1]
    /\ End(c)
    /\ UNCHANGED <<store, git, launches, crashes>>

CommitOutcome(c) ==
    LET j == calls[c].job
        t == TaskOf[j]
        r == RunOf[j]
        inserted == ListManifests(registry[j]) \ calls[c].known
    IN  /\ At(c, "outcome")
        /\ IF TransactionApplies(j, 0, 0, inserted)
           THEN /\ history' = [history EXCEPT ![t] = @ \o calls[c].buffered]
                /\ records' = [records EXCEPT ![r] = Append(@,
                      [task |-> t, stage |-> "execution", state |-> calls[c].state])]
                /\ manifests' = [manifests EXCEPT ![j] = @ \cup inserted]
           ELSE UNCHANGED store
        /\ End(c)
        /\ UNCHANGED <<registry, git, launches, crashes>>

-----------------------------------------------------------------------------
(* The stages after the execution *)

StageOf(op) ==
    CASE op = "review" -> "implementation_review"
      [] op = "decide" -> "decision_application"
      [] op = "integrate" -> "source_integration"
      [] OTHER -> "workspace_cleanup"

\* stages that look at the number of records and nothing else
StageReadyByCount(op, recs, state) ==
    Len(recs) = CASE op = "review" -> 1 [] op = "decide" -> 2
                  [] op = "integrate" -> 3 [] op = "cleanup" -> 4

\* What each stage requires of the records and of the workflow state.
StageReady(op, recs, state) ==
    CASE op = "review" -> Len(recs) = 1 /\ recs[1].state = "reviewing" /\ state = "reviewing"
      [] op = "decide" -> Len(recs) = 2 /\ recs[2].state = "merge_review" /\ state = "merge_review"
      [] op = "integrate" -> Len(recs) = 3 /\ recs[3].state = "integrating" /\ state = "integrating"
      [] op = "cleanup" -> Len(recs) = 4 /\ state = "completed"

\* The results a stage can record, and who is the actor of its transition:
\* the reviewer, or the human who decided.
StageResults(op) ==
    CASE op = "review" -> {"merge_review", "repairing"}
      [] op = "decide" -> {"integrating", "repairing", "cancelled"}
      [] OTHER -> {"completed"}

StageActors(op) == IF op = "review" THEN {"agent", "human"} ELSE {"human"}

\* A stage reads records, history and committed artifacts.  review and decide
\* make their transition and go on to commit it, integrate makes it after
\* its side effects in Git, cleanup has side effects and no transition.
BeginStage(c, j, op, result, actor) ==
    LET t == TaskOf[j]
        recs == records[RunOf[j]]
        state == current_state(history[t])
        staged == IF op = "cleanup" THEN <<>> ELSE <<Step(state, result, actor)>>
    IN  /\ calls[c] = Idle
        /\ op \in Operations \ {"execute"}
        /\ recs # <<>> /\ recs[1].task = t
        /\ StageReady(op, recs, state)
        /\ result \in StageResults(op) /\ actor \in StageActors(op)
        /\ op \in {"review", "decide"} =>
              CanTransition(state, result, actor, "passing", "none", TRUE)
        /\ registry' = [registry EXCEPT ![j] = IF op = "decide" THEN @ + 1 ELSE @]
        /\ calls' = [calls EXCEPT ![c] =
              [op |-> op, job |-> j, known |-> manifests[j], buffered |-> staged, state |-> result,
               task_seq |-> Len(history[t]), run_seq |-> Len(recs),
               step |-> CASE op = "integrate" -> "git_commit"
                          [] op = "cleanup" -> "remove"
                          [] OTHER -> "commit"]]
        /\ UNCHANGED <<store, git, launches, crashes>>

\* an integrator that cannot continue from a commit an earlier call left
CommitReachableOnce(j) == workspace[j] = "changed" /\ Len(target) = base[j]

\* LocalGitIntegrator before the merge: commit the reviewed worktree on an
\* unmoved target, or recognise the commit an earlier call left.
CommitReachable(j) ==
    \/ workspace[j] = "changed" /\ Len(target) = base[j]
    \/ workspace[j] = "committed"

GitCommit(c) ==
    LET j == calls[c].job
    IN  /\ At(c, "git_commit")
        /\ IF CommitReachable(j)
           THEN workspace' = [workspace EXCEPT ![j] = "committed"] /\ Goto(c, "git_merge")
           ELSE End(c) /\ UNCHANGED workspace
        /\ UNCHANGED <<store, registry, base, target, launches, crashes>>

\* The source commit is the head of the target.
MergedLast(j) == target # <<>> /\ target[Len(target)] = j

\* a moved target taken for one that already has the commit
MergeAlreadyDoneAnyHead(j) == Len(target) # base[j]

MergeAlreadyDone(j) == MergedLast(j)

\* The kernel's transition of integrate, on the history it read at first.
CompleteTransition(c) ==
    LET step == calls[c].buffered[1]
    IN  IF CanTransition(step.from, step.to, step.actor, "passing", "matching", TRUE)
        THEN Goto(c, "commit") ELSE End(c)

\* Fast-forward from the base, or find the merge done; then the result is
\* registered as an artifact and the transition made.
GitMerge(c) ==
    LET j == calls[c].job
    IN  /\ At(c, "git_merge")
        /\ \/ /\ workspace[j] = "committed" /\ Len(target) = base[j]
              /\ target' = Append(target, j)
              /\ registry' = [registry EXCEPT ![j] = @ + 1]
              /\ CompleteTransition(c)
           \/ /\ workspace[j] = "committed" /\ Len(target) # base[j] /\ MergeAlreadyDone(j)
              /\ registry' = [registry EXCEPT ![j] = @ + 1]
              /\ CompleteTransition(c)
              /\ UNCHANGED target
           \/ /\ workspace[j] # "committed" \/ (Len(target) # base[j] /\ ~MergeAlreadyDone(j))
              /\ End(c)
              /\ UNCHANGED <<registry, target>>
        /\ UNCHANGED <<store, workspace, base, launches, crashes>>

\* Somebody else's commit arrives on the target branch.
TargetAdvances ==
    /\ Len(target) < MaxTarget
    /\ target' = Append(target, Elsewhere)
    /\ UNCHANGED <<store, registry, workspace, base, launches, calls, crashes>>

\* An already removed worktree is accepted; a dirty one is refused.
RemoveWorkspace(c) ==
    LET j == calls[c].job
    IN  /\ At(c, "remove")
        /\ IF workspace[j] \in {"committed", "removed"}
           THEN /\ workspace' = [workspace EXCEPT ![j] = "removed"]
                /\ registry' = [registry EXCEPT ![j] = @ + 1]
                /\ Goto(c, "commit")
           ELSE End(c) /\ UNCHANGED <<workspace, registry>>
        /\ UNCHANGED <<store, base, target, launches, crashes>>

\* _commit_stage
CommitStage(c) ==
    LET j == calls[c].job
        t == TaskOf[j]
        inserted == ListManifests(registry[j]) \ calls[c].known
    IN  /\ At(c, "commit")
        /\ IF TransactionApplies(j, calls[c].task_seq, calls[c].run_seq, inserted)
           THEN /\ history' = [history EXCEPT ![t] = @ \o calls[c].buffered]
                /\ records' = [records EXCEPT ![RunOf[j]] = Append(@,
                      [task |-> t, stage |-> StageOf(calls[c].op), state |-> calls[c].state])]
                /\ manifests' = [manifests EXCEPT ![j] = @ \cup inserted]
           ELSE UNCHANGED store
        /\ End(c)
        /\ UNCHANGED <<registry, git, launches, crashes>>

\* The process dies, or an error outside the model ends the call.
Crash(c) ==
    /\ calls[c] # Idle
    /\ crashes < Crashes
    /\ crashes' = crashes + 1
    /\ End(c)
    /\ UNCHANGED <<store, registry, git, launches>>

-----------------------------------------------------------------------------

CallStep(c) ==
    \/ ListPreexisting(c)
    \/ CommitIntent(c)
    \/ Launch(c)
    \/ \E outcome \in {"failed", "repairing", "reviewing"} : CollectOutcome(c, outcome)
    \/ LifecycleError(c)
    \/ CommitOutcome(c)
    \/ GitCommit(c)
    \/ GitMerge(c)
    \/ RemoveWorkspace(c)
    \/ CommitStage(c)

BeginAnyStage(c, j, op) ==
    \E result \in StageResults(op), actor \in StageActors(op) : BeginStage(c, j, op, result, actor)

CallerNext(c) ==
    \/ CallStep(c)
    \/ Crash(c)
    \/ \E j \in Jobs :
          \/ BeginExecute(c, j)
          \/ \E op \in {"review", "decide", "integrate", "cleanup"} : BeginAnyStage(c, j, op)

Next ==
    \/ TargetAdvances
    \/ \E c \in Callers : CallerNext(c)

Spec == Init /\ [][Next]_vars

\* Some call that began goes on (none of them in particular), and somebody
\* retries an integration that is still due.
FairSpec ==
    /\ Spec
    /\ WF_vars(\E c \in Callers : CallStep(c))
    /\ \A j \in Jobs : SF_vars(\E c \in Callers : BeginAnyStage(c, j, "integrate"))

-----------------------------------------------------------------------------
(* Properties *)

StateOf(j) == current_state(history[TaskOf[j]])

\* The run of the job, and no other run of its task, has records.
Owns(j) == records[RunOf[j]] # <<>> /\ records[RunOf[j]][1].task = TaskOf[j]

\* An agent is started at most once for a task and run, however often
\* execute is repeated, concurrently or after a crash, although nothing but
\* the primary key of the artifact table is common to two attempts.
AtMostOneLaunch == \A j \in Jobs : launches[j] <= 1

\* The inductive strengthening of AtMostOneLaunch.  Artifact 1 is in every
\* list that was made after the intent was registered, so the first commit
\* of an intent makes every other one fail.
IntentHeld(c) ==
    LET j == calls[c].job
    IN  /\ At(c, "list") => registry[j] >= 1
        /\ At(c, "intent") => 1 \in calls[c].known
        /\ At(c, "launch") => 1 \in manifests[j] /\ launches[j] = 0

LaunchInv ==
    /\ \A j \in Jobs : launches[j] <= 1 /\ (launches[j] = 1 => 1 \in manifests[j])
    /\ \A c \in Callers : IntentHeld(c)
    /\ \A c, d \in Callers :
          At(c, "launch") /\ At(d, "launch") /\ calls[c].job = calls[d].job => c = d

\* Whatever calls raced, the stored history of a task is one path of the
\* workflow made by entitled actors: no transition was buffered on a state
\* that the commit no longer finds.
HistoryIsWorkflowPath == \A t \in Tasks : IsWorkflowPath(history[t])

\* The two append-only truths agree: one run per task, its last record tells
\* the state the task is in.
RecordsMatchHistory ==
    /\ \A r \in Runs : records[r] # <<>> =>
          LET last == records[r][Len(records[r])]
          IN  current_state(history[last.task]) = last.state
    /\ \A j, k \in Jobs : TaskOf[j] = TaskOf[k] /\ Owns(j) /\ Owns(k) => RunOf[j] = RunOf[k]

\* Git changes only under a committed approval: a worktree is committed or
\* merged only for a run whose decision was approve, and merged once.
IntegratedOnlyIfApproved ==
    /\ \A j \in Jobs :
          (workspace[j] \in {"committed", "removed"} \/ \E i \in 1..Len(target) : target[i] = j) =>
              Owns(j) /\ Len(records[RunOf[j]]) >= 3 /\ records[RunOf[j]][3].state = "integrating"
    /\ \A i, k \in 1..Len(target) : target[i] = target[k] /\ target[i] # Elsewhere => i = k

\* A completed task is merged, and a worktree is removed only when its
\* content is: no crash, retry or late call loses an approved patch.
CompletedIsMerged ==
    \A j \in Jobs :
        (Owns(j) /\ StateOf(j) = "completed") \/ workspace[j] = "removed" =>
            \E i \in 1..Len(target) : target[i] = j

\* The target moved past the approved patch; a human has to reconcile it.
Drifted(j) == Len(target) # base[j] /\ ~MergedLast(j)

\* An approved run is completed in the end, whatever step of integrate a
\* crash cut off, unless the target branch drifted away.
ApprovedRunCompletes ==
    \A j \in Jobs :
        (Owns(j) /\ StateOf(j) = "integrating") ~> (StateOf(j) = "completed" \/ Drifted(j))

-----------------------------------------------------------------------------
(* What all this implements *)

\* The results that the records of a job's run tell
Told(j) ==
    IF Owns(j) THEN [i \in 1..Len(records[RunOf[j]]) |-> records[RunOf[j]][i].state] ELSE <<>>

Pipeline == INSTANCE RunPipeline WITH
    Runs <- Jobs,
    told <- [j \in Jobs |-> Told(j)],
    started <- launches,
    merged <- {j \in Jobs : \E i \in 1..Len(target) : target[i] = j},
    removed <- {j \in Jobs : workspace[j] = "removed"}

\* Whatever calls race, repeat each other or die, each job is one run of the
\* pipeline: one agent, the stages in order, a merge only between approval
\* and completion, a worktree removed only after that.
ImplementsPipeline == Pipeline!Spec
=============================================================================
