--------------------------- MODULE WorkflowKernel ---------------------------
(***************************************************************************)
(* WorkflowKernel: which transition of a task is legal, who may make it,   *)
(* and what evidence it needs.  Pure operators on a task's history, the    *)
(* sequence of its transition records; the journal that stores a history   *)
(* belongs to the modules that use this one.                               *)
(***************************************************************************)
EXTENDS Naturals, Sequences

TaskStates ==
    {"draft", "planned", "plan_review", "implementing", "blocked", "failed",
     "verifying", "repairing", "reviewing", "merge_review", "integrating",
     "completed", "cancelled", "gate_approved", "deliverable_accepted"}

ActorTypes == {"human", "agent", "system", "policy"}

\* A verification report as the gate tells reports apart, and likewise a
\* source integration result ("matching": this task, the verified patch).
Reports == {"none", "passing", "failing", "other_task"}
Integrations == {"none", "matching", "mismatched"}

Transition == [from: TaskStates, to: TaskStates, actor: ActorTypes]

ALLOWED_TRANSITIONS ==
    [s \in TaskStates |->
        CASE s = "draft" -> {"planned"}
          [] s = "planned" -> {"plan_review", "implementing"}
          [] s = "plan_review" -> {"planned", "implementing", "cancelled", "gate_approved"}
          [] s = "implementing" -> {"verifying", "blocked", "failed"}
          [] s \in {"blocked", "failed"} -> {"implementing", "cancelled"}
          [] s = "verifying" -> {"repairing", "reviewing"}
          [] s = "repairing" -> {"verifying"}
          [] s = "reviewing" -> {"repairing", "merge_review", "deliverable_accepted"}
          [] s = "merge_review" -> {"repairing", "integrating", "cancelled"}
          [] s = "integrating" -> {"completed", "cancelled"}
          [] OTHER -> {}]

current_state(history) ==
    IF history = <<>> THEN "draft" ELSE history[Len(history)].to

\* _authorize
Authorized(actor, from, to) ==
    /\ (\/ from \in {"plan_review", "merge_review"}
        \/ to \in {"completed", "cancelled", "gate_approved", "deliverable_accepted"})
       => actor \in {"human", "policy"}
    /\ to = "implementing" => actor # "agent"

\* _enforce_verification
EvidenceSuffices(from, to, report, integration, evidence) ==
    /\ to \in {"deliverable_accepted", "gate_approved"} => evidence
    /\ to \in {"reviewing", "integrating", "completed", "deliverable_accepted"}
       => report = "passing"
    /\ to = "completed" => from = "integrating" /\ integration = "matching"
    /\ from = "verifying" /\ to = "repairing" => report = "failing"

\* WorkflowKernel.transition, without what the journal does with the record
CanTransition(from, to, actor, report, integration, evidence) ==
    /\ to \in ALLOWED_TRANSITIONS[from]
    /\ Authorized(actor, from, to)
    /\ EvidenceSuffices(from, to, report, integration, evidence)

\* What every stored history must be: a path of the workflow from draft on,
\* each step made by an actor entitled to it.
IsWorkflowPath(history) ==
    \A i \in 1..Len(history) :
        /\ history[i].from = (IF i = 1 THEN "draft" ELSE history[i - 1].to)
        /\ history[i].to \in ALLOWED_TRANSITIONS[history[i].from]
        /\ Authorized(history[i].actor, history[i].from, history[i].to)
=============================================================================
