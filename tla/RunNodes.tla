------------------------------ MODULE RunNodes ------------------------------
(***************************************************************************)
(* The nodes of one TaskManager run: what a node's execution record holds, *)
(* when its dependencies are satisfied, the stage of the run, and the one  *)
(* next step the serial coordinator reads off the nodes.  Pure operators;  *)
(* the steps of a node are the transitions WorkflowKernel allows.          *)
(***************************************************************************)
EXTENDS WorkflowKernel, FiniteSets, SequencesExt

CONSTANTS
    Order,      \* the nodes of the finalized plan, as it lists them
    KindOf,     \* node -> "task" (or milestone), "validation", "human_gate"
    DepsOf,     \* node -> the nodes it depends on
    Paths,      \* paths of the run workspace that Codex may change
    Actors,     \* principals a server may be started for
    NoActor, NoEvidence

Nodes == ToSet(Order)

\* validate_task_plan_graph accepts acyclic graphs; a node may be listed
\* before what it depends on.
ASSUME RunNodesAssumption ==
    /\ Order \in Seq(Nodes) /\ IsInjective(Order) /\ Order # <<>>
    /\ KindOf \in [Nodes -> {"task", "validation", "human_gate"}]
    /\ DepsOf \in [Nodes -> SUBSET Nodes]
    /\ \A S \in SUBSET Nodes : S # {} => \E n \in S : DepsOf[n] \cap S = {}
    /\ NoActor \notin Actors

\* One change that the Codex of an attempt makes in the run workspace.
Writes == [node: Nodes, attempt: Nat, path: Paths]

\* What verification collected: the commit at HEAD (its place on the run
\* branch), the patch of the workspace against it, and the gate's answer.
Evidence == [base: Nat, patch: SUBSET Writes, passes: BOOLEAN]

NodeRecord ==
    [state: TaskStates,
     attempt: Nat,                             \* transitions to implementing
     bound: BOOLEAN,                           \* provider_reference is set
     seen: {"none", "running", "lost", "failed", "succeeded"},  \* latest_observation
     evidence: Evidence \cup {NoEvidence},
     reviewer: Actors \cup {NoActor},          \* source_review, or who accepted the deliverable
     approver: Actors \cup {NoActor},          \* source_approved_by, or who approved the gate
     last: Actors \cup {NoActor}]              \* actor of the last transition, NoActor for the system

\* What assemble binds: planned, and a human gate awaiting its decision.
NewNode(n) ==
    [state |-> IF KindOf[n] = "human_gate" THEN "plan_review" ELSE "planned",
     attempt |-> 0, bound |-> FALSE, seen |-> "none", evidence |-> NoEvidence,
     reviewer |-> NoActor, approver |-> NoActor, last |-> NoActor]

-----------------------------------------------------------------------------
SatisfiedStates == {"completed", "gate_approved", "deliverable_accepted"}

Satisfied(nodes, n) == nodes[n].state \in SatisfiedStates

DependenciesSatisfied(nodes, n) == \A d \in DepsOf[n] : Satisfied(nodes, d)

\* derive_run_stage; no command of a run cancels a node.
Stage(nodes) ==
    LET states == {nodes[n].state : n \in Nodes} IN
    IF states \subseteq SatisfiedStates THEN "completed"
    ELSE IF "implementing" \in states THEN "running"
    ELSE IF states \cap {"blocked", "failed", "repairing"} # {} THEN "needs_attention"
    ELSE IF states \cap {"verifying", "reviewing", "merge_review", "integrating"} # {} THEN "verifying"
    ELSE "ready"

ActiveStates ==
    {"implementing", "verifying", "repairing", "reviewing", "merge_review",
     "integrating", "blocked", "failed"}

Active(nodes) == {n \in Nodes : nodes[n].state \in ActiveStates}

SideEffects == {"start", "validate", "observe", "verify", "integrate"}

Decision(action, n) == [action |-> action, node |-> n]
NoNode == "-"

\* _active_decision: the next step of the one active node
ActiveDecision(n, node) ==
    Decision(CASE node.state = "implementing" /\ ~node.bound
                  -> IF KindOf[n] = "validation" THEN "validate" ELSE "start"
               [] node.state = "implementing" /\ node.bound -> "observe"
               [] node.state = "verifying" -> "verify"
               [] node.state = "integrating" -> "integrate"
               [] node.state \in {"reviewing", "merge_review"} -> "wait_review"
               [] OTHER -> "attention", n)

\* the next step when no node is active: the first listed node that is ready
ReadyDecision(nodes) ==
    LET ready == {i \in DOMAIN Order : /\ nodes[Order[i]].state \in {"planned", "plan_review"}
                                       /\ DependenciesSatisfied(nodes, Order[i])}
        n == Order[Min(ready)]
    IN  IF ready = {} THEN Decision("attention", NoNode)
        ELSE Decision(CASE KindOf[n] = "human_gate" -> "wait_human"
                        [] KindOf[n] = "validation" -> "validate"
                        [] OTHER -> "start", n)

Decide(nodes) ==
    LET active == Active(nodes) IN
    CASE Stage(nodes) = "completed" -> Decision("complete", NoNode)
      [] Stage(nodes) # "completed" /\ active = {} -> ReadyDecision(nodes)
      [] Stage(nodes) # "completed" /\ Cardinality(active) = 1
         -> LET n == CHOOSE m \in active : TRUE IN ActiveDecision(n, nodes[n])
      [] OTHER -> Decision("attention", NoNode)
=============================================================================
