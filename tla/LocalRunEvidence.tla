-------------------------- MODULE LocalRunEvidence --------------------------
(***************************************************************************)
(* LocalRunEvidence: what the files of one local run say about it.  Pure   *)
(* operators on the stores of a run directory (the JSONL journal, the run  *)
(* ledger, the artifact registry, the decision-card projection), its Git   *)
(* worktree and the head of the target branch: what inspect accepts, and   *)
(* how the recovery manager classifies a run.                              *)
(***************************************************************************)
EXTENDS WorkflowKernel

StageSequence == <<"execution", "implementation_review", "decision_application",
                   "source_integration", "workspace_cleanup">>

Stages == {StageSequence[i] : i \in 1..5}
Outcomes == {"failed", "repairing", "reviewing"}
ArtifactKinds == {"intent", "outcome", "decision", "integration"}

\* A run directory and the worktree of its run.  The card is torn between
\* its exclusive creation and its write; outcome is what the outcome
\* artifact says.
Stores == [directory: BOOLEAN, artifacts: SUBSET ArtifactKinds, outcome: Outcomes \cup {"none"},
           journal: Seq(Transition), ledger: Seq([stage: Stages, state: TaskStates]),
           card: {"absent", "torn", "written"},
           workspace: {"none", "changed", "committed", "removed"}, base: Nat]

NoRun == [directory |-> FALSE, artifacts |-> {}, outcome |-> "none", journal |-> <<>>,
          ledger |-> <<>>, card |-> "absent", workspace |-> "none", base |-> 0]

\* a stage sequence one stage too short
NextStageButLast(ledger) == IF Len(ledger) < 4 THEN StageSequence[Len(ledger) + 1] ELSE "none"

\* validate_run_stage_sequence, and LocalRunLedger.append
NextStage(ledger) == IF Len(ledger) < 5 THEN StageSequence[Len(ledger) + 1] ELSE "none"

State(run) == current_state(run.journal)
LastTransition(run) == run.journal[Len(run.journal)]

\* The source commit of run r is the head of the target branch.
MergedLast(r, target) == target # <<>> /\ target[Len(target)] = r

-----------------------------------------------------------------------------
(* inspect *)

\* _expected_decision_card: the review was accepted
CardExpected(run) == Len(run.ledger) >= 2 /\ run.ledger[2].state = "merge_review"

\* The worktree can be inspected until its removal is recorded, and then is gone.
WorkspaceAsRecorded(run) ==
    IF Len(run.ledger) < 5
    THEN run.workspace \in {"changed", "committed"}
    ELSE run.workspace = "removed"

\* The intent and the outcome that the execution record names can be read.
ExecutionReadable(run) == {"intent", "outcome"} \subseteq run.artifacts

Inspects(run) ==
    /\ run.ledger # <<>> /\ run.journal # <<>>
    /\ State(run) = run.ledger[Len(run.ledger)].state
    /\ WorkspaceAsRecorded(run) /\ ExecutionReadable(run)

\* artifacts_valid: so can the evidence of the later records
ArtifactsValid(run) ==
    /\ Len(run.ledger) >= 3 => "decision" \in run.artifacts
    /\ Len(run.ledger) >= 4 => "integration" \in run.artifacts

-----------------------------------------------------------------------------
(* assess *)

Verdict(status, repair) == [status |-> status, repair |-> repair]
Consistent == Verdict("consistent", "none")
Manual == Verdict("manual_intervention", "none")
Invalid == Verdict("invalid_evidence", "none")
Recoverable(repair) == Verdict("recoverable", repair)

\* _load_execution_gap: the journal ends in the state of the outcome and the
\* worktree still holds the patch
OutcomeSupported(run) == State(run) = run.outcome /\ run.workspace = "changed"

\* an intent taken for permission to record
ExecutionGapOfIntent(run) == IF "intent" \in run.artifacts THEN Recoverable("execution") ELSE Manual

\* _assess_execution_gap
ExecutionGap(run) ==
    IF {"intent", "outcome"} \subseteq run.artifacts
    THEN IF OutcomeSupported(run) THEN Recoverable("execution") ELSE Invalid
    ELSE Manual

\* _assess_decision_application_gap: any state but merge_review is taken for
\* a decision whose record is missing
DecisionGap(run) == Len(run.ledger) = 2 /\ State(run) # "merge_review"

\* _load_applied_decision_gap: the transition left merge_review and cites
\* its registered decision and authority
DecisionSupported(run) == LastTransition(run).from = "merge_review" /\ "decision" \in run.artifacts

\* _assess_source_integration_gap
IntegrationGap(run) == Len(run.ledger) = 3 /\ State(run) = "completed"

\* _completed_integration_evidence: the completing transition cites its
\* registered result.
CitesIntegration(run) == State(run) = "completed" /\ "integration" \in run.artifacts

\* verify_existing_integration finds the commit at the head of the target.
Attested(r, run, target) ==
    /\ run.ledger[3].state = "integrating" /\ CitesIntegration(run)
    /\ run.workspace = "committed" /\ MergedLast(r, target)

\* a completed run without its last record, whatever became of the worktree
CleanupGapUnchecked(run) == Len(run.ledger) = 4 /\ State(run) = "completed"

\* _assess_workspace_cleanup_gap, once the worktree is gone: its branch
\* still names the integrated commit, nothing deletes it
CleanupGap(run) == Len(run.ledger) = 4 /\ State(run) = "completed" /\ run.workspace = "removed"

\* The projection against the review record
CardVerdict(run) ==
    IF CardExpected(run)
    THEN CASE run.card = "absent" -> Recoverable("card")
           [] run.card = "torn" -> Invalid
           [] OTHER -> Consistent
    ELSE IF run.card = "absent" THEN Consistent ELSE Invalid

\* LocalRunRecoveryManager.assess
Assess(r, run, target) ==
    IF ~run.directory THEN Invalid
    ELSE CASE run.ledger = <<>> -> ExecutionGap(run)
           [] DecisionGap(run) ->
                  IF DecisionSupported(run) THEN Recoverable("decision_application") ELSE Invalid
           [] IntegrationGap(run) ->
                  IF Attested(r, run, target) THEN Recoverable("source_integration") ELSE Invalid
           [] CleanupGap(run) -> Recoverable("workspace_cleanup")
           [] OTHER -> IF ~Inspects(run) THEN Manual
                       ELSE IF ArtifactsValid(run) THEN CardVerdict(run) ELSE Invalid
=============================================================================
