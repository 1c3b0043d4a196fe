------------------------------ MODULE LocalRuns ------------------------------
(***************************************************************************)
(* LocalRuns: the file-based runs of the command line.  One command works  *)
(* on a run directory at a time (the journal serializes the writers of one *)
(* process only, and the code supports one controller), but it makes       *)
(* several durable steps (artifact, journal, Git, ledger, card), may die   *)
(* between any two of them, and shares the target branch with other runs   *)
(* and with commits made elsewhere.  recover-run supplies what is missing. *)
(***************************************************************************)
EXTENDS LocalRunEvidence, FiniteSets

CONSTANTS Runs,
          AuthorityOf,  \* who admitted a run: a human, or the policy of scripted replays
          Elsewhere,    \* a commit of the target branch that no run made
          MaxElsewhere, \* bound on such commits
          MaxFaults     \* bound on interrupted commands and failed writes

ASSUME LocalRunsAssumption ==
    /\ AuthorityOf \in [Runs -> {"human", "policy"}]
    /\ Elsewhere \notin Runs
    /\ MaxElsewhere \in Nat /\ MaxFaults \in Nat

VARIABLES runs,      \* the stores of every run
          target,    \* the commits of the target branch since the start
          launches,  \* agents started for a run
          call,      \* the command that is executing
          faults     \* commands interrupted and writes failed so far

vars == <<runs, target, launches, call, faults>>

Steps == {"intent", "workspace", "planned", "implementing", "launch", "collect", "verify",
          "outcome", "transition", "register", "commit", "merge", "attest", "remove",
          "record", "create", "write", "confirm"}

\* by tells a command from the recovery that repeats part of it; state is
\* the state the ledger record will tell.
Call == [by: {"command", "recovery"}, run: Runs, stage: Stages \cup {"card"},
         step: Steps, state: TaskStates]
Idle == [by |-> "nobody"]

TypeOK ==
    /\ runs \in [Runs -> Stores]
    /\ target \in Seq(Runs \cup {Elsewhere})
    /\ launches \in [Runs -> Nat]
    /\ call \in Call \cup {Idle}
    /\ faults \in 0..MaxFaults

Init ==
    /\ runs = [r \in Runs |-> NoRun]
    /\ target = <<>>
    /\ launches = [r \in Runs |-> 0]
    /\ call = Idle
    /\ faults = 0

-----------------------------------------------------------------------------
(* Steps of the command in progress *)

run == runs[call.run]

At(stage, step) == call # Idle /\ call.stage = stage /\ call.step = step

Goto(step) == call' = [call EXCEPT !.step = step]
GotoWith(step, state) == call' = [call EXCEPT !.step = step, !.state = state]
End == call' = Idle

\* The command on run r begins at a step.
Begin(by, r, stage, step, state) ==
    call' = [by |-> by, run |-> r, stage |-> stage, step |-> step, state |-> state]

Register(kind) == runs' = [runs EXCEPT ![call.run].artifacts = @ \cup {kind}]

\* WorkflowKernel.transition with the JSONL journal: published by one rename
Journal(to, actor) ==
    /\ CanTransition(State(run), to, actor,
                     IF to = "repairing" /\ State(run) = "verifying" THEN "failing" ELSE "passing",
                     "matching", TRUE)
    /\ runs' = [runs EXCEPT ![call.run].journal =
                    Append(@, [from |-> State(run), to |-> to, actor |-> actor])]

-----------------------------------------------------------------------------
(* execute *)

\* mkdir that accepts an existing directory
BeginExecuteInPlace(r) ==
    /\ call = Idle
    /\ launches[r] < 2
    /\ runs' = [runs EXCEPT ![r].directory = TRUE, ![r].base = Len(target)]
    /\ Begin("command", r, "execution", "intent", "draft")
    /\ UNCHANGED <<target, launches, faults>>

\* The target stands on the registered baseline and the directory is new.
BeginExecute(r) ==
    /\ call = Idle
    /\ ~runs[r].directory
    /\ runs' = [runs EXCEPT ![r].directory = TRUE, ![r].base = Len(target)]
    /\ Begin("command", r, "execution", "intent", "draft")
    /\ UNCHANGED <<target, launches, faults>>

RegisterIntent ==
    /\ At("execution", "intent")
    /\ Register("intent")
    /\ Goto("workspace")
    /\ UNCHANGED <<target, launches, faults>>

\* execute_implementation up to the agent
CreateWorkspace ==
    /\ At("execution", "workspace")
    /\ runs' = [runs EXCEPT ![call.run].workspace = "changed"]
    /\ Goto("planned")
    /\ UNCHANGED <<target, launches, faults>>

Plan ==
    /\ At("execution", "planned")
    /\ Journal("planned", "system")
    /\ Goto("implementing")
    /\ UNCHANGED <<target, launches, faults>>

Authorize ==
    /\ At("execution", "implementing")
    /\ Journal("implementing", AuthorityOf[call.run])
    /\ Goto("launch")
    /\ UNCHANGED <<target, launches, faults>>

Launch ==
    /\ At("execution", "launch")
    /\ launches' = [launches EXCEPT ![call.run] = @ + 1]
    /\ Goto("collect")
    /\ UNCHANGED <<runs, target, faults>>

\* A life-cycle error is journalled and raised: there is no outcome.
LifecycleError ==
    /\ At("execution", "collect")
    /\ Journal("failed", "system")
    /\ End
    /\ UNCHANGED <<target, launches, faults>>

\* The agent, its logs or its patch failed, or there is a patch to verify.
Collect ==
    /\ At("execution", "collect")
    /\ \/ Journal("failed", "system") /\ GotoWith("outcome", "failed")
       \/ Journal("verifying", "system") /\ Goto("verify")
    /\ UNCHANGED <<target, launches, faults>>

Verify ==
    /\ At("execution", "verify")
    /\ \E verdict \in {"repairing", "reviewing"} :
          Journal(verdict, "system") /\ GotoWith("outcome", verdict)
    /\ UNCHANGED <<target, launches, faults>>

RegisterOutcome ==
    /\ At("execution", "outcome")
    /\ runs' = [runs EXCEPT ![call.run].artifacts = @ \cup {"outcome"},
                            ![call.run].outcome = call.state]
    /\ Goto("record")
    /\ UNCHANGED <<target, launches, faults>>

-----------------------------------------------------------------------------
(* review and apply_decision *)

\* One record, of a run in review
BeginReview(r, verdict) ==
    /\ call = Idle
    /\ Len(runs[r].ledger) = 1 /\ runs[r].ledger[1].state = "reviewing"
    /\ State(runs[r]) = "reviewing"
    /\ verdict \in {"repairing", "merge_review"}
    /\ Begin("command", r, "implementation_review", "transition", verdict)
    /\ UNCHANGED <<runs, target, launches, faults>>

\* prepare_merge_review; the reports it registers bind nothing until then
ApplyReview(actor) ==
    /\ At("implementation_review", "transition")
    /\ Journal(call.state, actor)
    /\ Goto("record")
    /\ UNCHANGED <<target, launches, faults>>

\* Two records, the second an accepted review
BeginDecision(r, decision) ==
    /\ call = Idle
    /\ Len(runs[r].ledger) = 2 /\ CardExpected(runs[r])
    /\ decision \in {"integrating", "repairing", "cancelled"}
    /\ Begin("command", r, "decision_application", "register", decision)
    /\ UNCHANGED <<runs, target, launches, faults>>

\* the decision registered without its run, where nothing finds it
RegisterDecisionUnbound ==
    /\ At("decision_application", "register")
    /\ Goto("transition")
    /\ UNCHANGED <<runs, target, launches, faults>>

RegisterDecision ==
    /\ At("decision_application", "register")
    /\ Register("decision")
    /\ Goto("transition")
    /\ UNCHANGED <<target, launches, faults>>

\* DecisionApplicationService.apply: the card's task must be in merge_review
ApplyDecision ==
    /\ At("decision_application", "transition")
    /\ IF State(run) = "merge_review"
       THEN Journal(call.state, "human") /\ Goto("record")
       ELSE End /\ UNCHANGED runs
    /\ UNCHANGED <<target, launches, faults>>

-----------------------------------------------------------------------------
(* integrate and cleanup *)

\* Git is changed only while the workflow is integrating; a completed one is
\* attested.
IntegrateFrom(state) == IF state = "completed" THEN "attest" ELSE "commit"

\* integrate by the workflow state alone
BeginIntegrateByState(r) ==
    /\ call = Idle
    /\ State(runs[r]) \in {"integrating", "completed"}
    /\ Begin("command", r, "source_integration", IntegrateFrom(State(runs[r])), "completed")
    /\ UNCHANGED <<runs, target, launches, faults>>

\* Three records, the third an approval
BeginIntegrate(r) ==
    /\ call = Idle
    /\ Len(runs[r].ledger) = 3 /\ runs[r].ledger[3].state = "integrating"
    /\ State(runs[r]) \in {"integrating", "completed"}
    /\ Begin("command", r, "source_integration", IntegrateFrom(State(runs[r])), "completed")
    /\ UNCHANGED <<runs, target, launches, faults>>

\* LocalGitIntegrator: commit on an unmoved target, or find the commit made
CommitReachable(w) ==
    w.workspace = "committed" \/ (w.workspace = "changed" /\ Len(target) = w.base)

GitCommit ==
    /\ At("source_integration", "commit")
    /\ IF CommitReachable(run)
       THEN runs' = [runs EXCEPT ![call.run].workspace = "committed"] /\ Goto("merge")
       ELSE End /\ UNCHANGED runs
    /\ UNCHANGED <<target, launches, faults>>

\* Fast-forward an unmoved target, or find the merge done
GitMerge ==
    /\ At("source_integration", "merge")
    /\ \/ Len(target) = run.base /\ target' = Append(target, call.run) /\ Goto("register")
       \/ Len(target) # run.base /\ MergedLast(call.run, target) /\ Goto("register") /\ UNCHANGED target
       \/ Len(target) # run.base /\ ~MergedLast(call.run, target) /\ End /\ UNCHANGED target
    /\ UNCHANGED <<runs, launches, faults>>

RegisterIntegration ==
    /\ At("source_integration", "register")
    /\ Register("integration")
    /\ Goto("transition")
    /\ UNCHANGED <<target, launches, faults>>

CompleteRun ==
    /\ At("source_integration", "transition")
    /\ Journal("completed", "human")
    /\ Goto("record")
    /\ UNCHANGED <<target, launches, faults>>

AttestIntegration ==
    /\ At("source_integration", "attest")
    /\ IF Attested(call.run, run, target) THEN Goto("record") ELSE End
    /\ UNCHANGED <<runs, target, launches, faults>>

BeginCleanup(r) ==
    /\ call = Idle
    /\ Len(runs[r].ledger) = 4 /\ State(runs[r]) = "completed"
    /\ Begin("command", r, "workspace_cleanup", "remove", "completed")
    /\ UNCHANGED <<runs, target, launches, faults>>

\* Remove a worktree that is still there; its branch is kept.
RemoveWorkspace ==
    /\ At("workspace_cleanup", "remove")
    /\ runs' = [runs EXCEPT ![call.run].workspace = "removed"]
    /\ Goto("record")
    /\ UNCHANGED <<target, launches, faults>>

-----------------------------------------------------------------------------
(* The ledger record, the card, and the end of a command *)

\* What follows the record: an accepted review leaves its card, recovery
\* assesses the run again, a command is done.
AfterRecord ==
    IF call.by = "recovery" THEN Goto("confirm")
    ELSE IF call.stage = "implementation_review" /\ call.state = "merge_review"
         THEN Goto("create")
         ELSE End

\* LocalRunLedger.append: a new generation of the file published by one rename
AppendRecord ==
    /\ call # Idle /\ call.step = "record"
    /\ IF NextStage(run.ledger) = call.stage
       THEN /\ runs' = [runs EXCEPT ![call.run].ledger =
                            Append(@, [stage |-> call.stage, state |-> call.state])]
            /\ AfterRecord
       ELSE End /\ UNCHANGED runs
    /\ UNCHANGED <<target, launches, faults>>

\* Exclusive creation of the card, then its content
CreateCard ==
    /\ call # Idle /\ call.step = "create"
    /\ IF run.card = "absent"
       THEN runs' = [runs EXCEPT ![call.run].card = "torn"] /\ Goto("write")
       ELSE End /\ UNCHANGED runs
    /\ UNCHANGED <<target, launches, faults>>

WriteCard ==
    /\ call # Idle /\ call.step = "write"
    /\ runs' = [runs EXCEPT ![call.run].card = "written"]
    /\ IF call.by = "recovery" THEN Goto("confirm") ELSE End
    /\ UNCHANGED <<target, launches, faults>>

\* The write fails (a full disk): recovery unlinks the file it created,
\* review leaves it.
WriteCardFails ==
    /\ call # Idle /\ call.step = "write"
    /\ faults < MaxFaults
    /\ faults' = faults + 1
    /\ runs' = [runs EXCEPT ![call.run].card = IF call.by = "recovery" THEN "absent" ELSE @]
    /\ End
    /\ UNCHANGED <<target, launches>>

\* recover ends with an assessment of its own result; it raises when that is
\* not consistent.
Confirm ==
    /\ call # Idle /\ call.step = "confirm"
    /\ End
    /\ UNCHANGED <<runs, target, launches, faults>>

-----------------------------------------------------------------------------
(* recover *)

AssessOf(r) == Assess(r, runs[r], target)

\* repairs taken for steps of their name
RepairByName(repair, state) == repair

\* The step of each repair: execution and decision are only recorded,
\* integrate and cleanup are called for the rest.
RepairFrom(repair, state) ==
    CASE repair \in {"execution", "decision_application"} -> "record"
      [] repair = "source_integration" -> IntegrateFrom(state)
      [] repair = "workspace_cleanup" -> "remove"
      [] OTHER -> "create"

\* A recoverable run is repaired; any other is only classified.
BeginRecover(r) ==
    LET repair == AssessOf(r).repair
    IN  /\ call = Idle
        /\ AssessOf(r).status = "recoverable"
        /\ Begin("recovery", r, repair, RepairFrom(repair, State(runs[r])), State(runs[r]))
        /\ UNCHANGED <<runs, target, launches, faults>>

-----------------------------------------------------------------------------
(* The environment *)

\* The process dies between two durable steps.
Crash ==
    /\ call # Idle
    /\ faults < MaxFaults
    /\ faults' = faults + 1
    /\ End
    /\ UNCHANGED <<runs, target, launches>>

TargetAdvances ==
    /\ Cardinality({i \in 1..Len(target) : target[i] = Elsewhere}) < MaxElsewhere
    /\ target' = Append(target, Elsewhere)
    /\ UNCHANGED <<runs, launches, call, faults>>

CommandStep ==
    \/ RegisterIntent \/ CreateWorkspace \/ Plan \/ Authorize \/ Launch
    \/ LifecycleError \/ Collect \/ Verify \/ RegisterOutcome
    \/ \E actor \in {"agent", "human"} : ApplyReview(actor)
    \/ RegisterDecision \/ ApplyDecision
    \/ GitCommit \/ GitMerge \/ RegisterIntegration \/ CompleteRun \/ AttestIntegration
    \/ RemoveWorkspace
    \/ AppendRecord \/ CreateCard \/ WriteCard \/ Confirm

Next ==
    \/ CommandStep \/ WriteCardFails \/ Crash \/ TargetAdvances
    \/ \E r \in Runs :
          \/ BeginExecute(r)
          \/ \E verdict \in {"repairing", "merge_review"} : BeginReview(r, verdict)
          \/ \E decision \in {"integrating", "repairing", "cancelled"} : BeginDecision(r, decision)
          \/ BeginIntegrate(r) \/ BeginCleanup(r) \/ BeginRecover(r)

Spec == Init /\ [][Next]_vars

\* A command that began goes on, and the operator runs recover-run again on
\* a run that is recoverable and stays so.
FairSpec == Spec /\ WF_vars(CommandStep) /\ \A r \in Runs : SF_vars(BeginRecover(r))

-----------------------------------------------------------------------------
(* Properties *)

\* The target moved past an approved commit: ADR-0017 leaves the run to a human.
Drifted(r) == State(runs[r]) = "completed" /\ ~MergedLast(r, target)

\* No crash, failed write or late command makes the evidence of a run
\* contradict itself: a run at rest is invalid only because the target
\* drifted before its integration was recorded, because the card was cut off
\* between creation and write, or because its review asked for changes
\* (which the decision gap of assess takes for an unrecognisable decision).
EvidenceStaysValid ==
    \A r \in Runs :
        call = Idle /\ runs[r].directory /\ AssessOf(r) = Invalid =>
            \/ Drifted(r) /\ Len(runs[r].ledger) = 3
            \/ runs[r].card = "torn"
            \/ Len(runs[r].ledger) = 2 /\ runs[r].ledger[2].state = "repairing"

\* A repair that was carried through leaves the run consistent, or with
\* nothing but its card to restore or distrust: recover's own final
\* assessment agrees that the record it supplied was the missing one.
RepairsAreConclusive ==
    call # Idle /\ call.step = "confirm" =>
        \/ AssessOf(call.run) \in {Consistent, Recoverable("card")}
        \/ run.card = "torn"

\* Recovery supplies records and cards only: no transition, no agent, no
\* commit, no merge, no worktree removed, no artifact.
RecoveryOnlyRecords ==
    [][call # Idle /\ call.by = "recovery" =>
          /\ UNCHANGED launches
          /\ target' \in {target, Append(target, Elsewhere)}
          /\ \A r \in Runs :
                /\ runs[r].journal = runs'[r].journal
                /\ runs[r].artifacts = runs'[r].artifacts
                /\ runs[r].workspace = runs'[r].workspace]_vars

\* The ledger tells the journal: every record's state was reached, in order,
\* and the workflow is at most the one transition of an unrecorded stage
\* ahead of the last record.
LedgerTellsJournal ==
    \A r \in Runs :
        LET ledger == runs[r].ledger
            states == <<"draft">> \o [i \in 1..Len(runs[r].journal) |-> runs[r].journal[i].to]
            last == IF ledger = <<>> THEN "draft" ELSE ledger[Len(ledger)].state
        IN  /\ IsWorkflowPath(runs[r].journal)
            /\ \E i \in 1..Len(states) :
                  /\ states[i] = last
                  /\ ledger # <<>> => Len(states) - i <= 1

\* Git changes under a recorded approval only, and once: a commit or merge
\* needs the decision in the ledger, a run starts one agent and is merged
\* once, a completed run is merged, a worktree goes only after that is
\* recorded.
GitFollowsLedger ==
    \A r \in Runs :
        /\ launches[r] <= 1
        /\ Cardinality({i \in 1..Len(target) : target[i] = r}) <= 1
        /\ runs[r].workspace \in {"committed", "removed"} =>
              Len(runs[r].ledger) >= 3 /\ runs[r].ledger[3].state = "integrating"
        /\ State(runs[r]) = "completed" => \E i \in 1..Len(target) : target[i] = r
        /\ runs[r].workspace = "removed" => Len(runs[r].ledger) >= 4

\* A gap that recovery accepts is closed in the end, unless the target
\* drifts away or the card is cut off first.
GapsAreClosed ==
    \A r \in Runs :
        (AssessOf(r).status = "recoverable") ~>
            (AssessOf(r) = Consistent \/ Drifted(r) \/ runs[r].card = "torn")

-----------------------------------------------------------------------------
(* What all this implements *)

Pipeline == INSTANCE RunPipeline WITH
    told <- [r \in Runs |-> [i \in 1..Len(runs[r].ledger) |-> runs[r].ledger[i].state]],
    started <- launches,
    merged <- {r \in Runs : \E i \in 1..Len(target) : target[i] = r},
    removed <- {r \in Runs : runs[r].workspace = "removed"}

\* Whatever is interrupted and recovered, each run directory is one run of
\* the pipeline: one agent, the stages in order, a merge only between the
\* records of approval and completion, a worktree removed only after that.
ImplementsPipeline == Pipeline!Spec
=============================================================================
