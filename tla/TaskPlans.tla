------------------------------ MODULE TaskPlans ------------------------------
(***************************************************************************)
(* The plan of one task and the execution runs assembled from it: the      *)
(* append-only plan history behind TaskOrchestrationService, the runs      *)
(* behind TaskManagerExecutionService, and the calls of HTTP threads that  *)
(* change either.  The TaskManager API checks that the task has no run     *)
(* before it edits the plan; the planning API beside it edits without that *)
(* check.  No lock spans both stores: between what a call reads and what   *)
(* it appends, for as long as the planning agent takes, others proceed.    *)
(***************************************************************************)
EXTENDS Naturals, Sequences, TaskPlanGraphs

CONSTANTS
    Callers,     \* threads of the HTTP server
    Proposals,   \* graphs the planning agent may answer with
    Digests,     \* contents the source bundle of the execution target may have
    NoTarget,
    NoProposal,
    NoCall,
    MaxRevision, \* bound: revisions of the plan
    MaxRuns      \* bound: runs assembled from it

ASSUME TaskPlansAssumption ==
    /\ Proposals \subseteq TaskGraphs
    /\ NoTarget \notin Digests
    /\ NoProposal \notin [based: Nat, graph: Proposals]
    /\ MaxRevision \in Nat /\ MaxRuns \in Nat

VARIABLES
    history, \* the revisions of the plan
    runs,    \* the runs of the task, in the order of their assembly
    source,  \* the source bundle of the target as it is now
    calls    \* thread -> the call it processes

vars == <<history, runs, source, calls>>

ByManager == {"discuss", "target", "apply", "reject", "finalize"}
ByPlanning == {"discuss", "apply", "reject", "edit", "derive", "archive", "restore", "finalize"}

Revision ==
    [status: {"draft", "finalized"}, graph: TaskGraphs, target: Digests \cup {NoTarget},
     pending: [based: Nat, graph: Proposals] \cup {NoProposal}, archived: BOOLEAN]
Run == [plan: Nat, digest: Digests, stage: {"live", "terminal"}]
Call ==
    [op: ByManager \cup ByPlanning \cup {"create", "assemble", "command"},
     step: {"read", "act"}, rev: Nat, digest: Digests \cup {NoTarget}, run: Nat]

TypeOK ==
    /\ history \in Seq(Revision) /\ runs \in Seq(Run)
    /\ source \in Digests
    /\ calls \in [Callers -> Call \cup {NoCall}]

Init ==
    /\ history = <<>> /\ runs = <<>>
    /\ source \in Digests
    /\ calls = [c \in Callers |-> NoCall]

-----------------------------------------------------------------------------
(* What a revision allows *)

Editable(rev) == ~rev.archived /\ rev.pending = NoProposal

\* The guards of the service's operations on the revision they read; a
\* proposal is applied to a revision that may be archived, but an archived
\* one has none.
Allows(rev, op, digest) ==
    CASE op = "discuss" -> ~rev.archived
      [] op = "target" -> Editable(rev) /\ rev.target # digest
      [] op = "apply" -> rev.pending # NoProposal
      [] op = "reject" -> ~rev.archived /\ rev.pending # NoProposal
      [] op \in {"edit", "derive"} -> Editable(rev)
      [] op = "archive" -> rev.pending = NoProposal /\ ~rev.archived
      [] op = "restore" -> rev.pending = NoProposal /\ rev.archived
      [] op = "finalize" -> Editable(rev) /\ ~PlanBlocked(rev.graph)
      [] OTHER -> FALSE

\* assess_plan_for_target finds no blocker.
ReadyForTarget(rev, digest) == rev.target = digest /\ ~OffTarget(rev.graph)

\* the status of the revision before is kept
NextSnapshotKeepingStatus(rev) == rev

\* _next_snapshot: whatever is changed, the next revision is a draft again.
NextSnapshot(rev) == [rev EXCEPT !.status = "draft"]

\* A planning agent, shown the graph of revision n, answers with a well-formed
\* graph if it answers at all; the service adds the revision it was shown.
AgentProposals(n) == {[based |-> n, graph |-> g] : g \in Proposals}

\* The revisions that op may make from revision n.
Edited(n, op, digest) ==
    LET rev == history[n]
        next == NextSnapshot(rev)
    IN CASE op = "discuss" -> {[next EXCEPT !.pending = p] : p \in AgentProposals(n)}
         [] op = "target" -> {[next EXCEPT !.target = digest]}
         [] op = "apply" -> {[next EXCEPT !.graph = rev.pending.graph, !.pending = NoProposal]}
         [] op = "reject" -> {[next EXCEPT !.pending = NoProposal]}
         [] op = "edit" -> {[next EXCEPT !.graph = g] : g \in DirectEdits(rev.graph)}
         [] op = "derive" -> {[next EXCEPT !.graph = history[s].graph] : s \in 1..n}
         [] op = "archive" -> {[next EXCEPT !.archived = TRUE]}
         [] op = "restore" -> {[next EXCEPT !.archived = FALSE]}
         [] op = "finalize" -> {[rev EXCEPT !.status = "finalized"]}
         [] OTHER -> {}

-----------------------------------------------------------------------------
(* Calls.  One that is refused, or whose agent or store fails, just ends. *)

Ends(c) ==
    /\ calls[c] # NoCall
    /\ calls' = [calls EXCEPT ![c] = NoCall]
    /\ UNCHANGED <<history, runs, source>>

\* A call is accepted and reads its first.  Its request names the revision
\* that its user saw; one that is not the latest by then is refused.
Accepted(c, op, step, digest, run) ==
    /\ calls[c] = NoCall
    /\ calls' = [calls EXCEPT ![c] = [op |-> op, step |-> step, rev |-> Len(history),
                                      digest |-> digest, run |-> run]]
    /\ UNCHANGED <<history, runs, source>>

At(c, op, step) == calls[c] # NoCall /\ calls[c].op = op /\ calls[c].step = step

\* any revision is extended
IsLatestOrOlder(rev) == rev <= Len(history)

\* the revision that was read is still the latest
IsLatest(rev) == rev = Len(history)

\* create finds no history under the plan's name and asks the agent.
BeginCreate(c) == history = <<>> /\ Accepted(c, "create", "act", NoTarget, 0)

\* An operation of the planning API: it reads the latest revision and is allowed.
BeginEdit(c, op) ==
    /\ history # <<>> /\ Allows(history[Len(history)], op, NoTarget)
    /\ Accepted(c, op, "act", NoTarget, 0)

\* TaskManagerService before an edit: the task has no run, terminal ones
\* included; the target that is selected, or that finalization is assessed
\* for, is resolved as it is now.
RequirePlanWithoutRun(c, op) ==
    /\ history # <<>> /\ runs = <<>>
    /\ op = "finalize" => ReadyForTarget(history[Len(history)], source)
    /\ Accepted(c, op, "read", IF op = "target" THEN source ELSE NoTarget, 0)

\* Then the operation itself reads, and finds itself allowed.
ReadPlan(c, op) ==
    /\ At(c, op, "read") /\ IsLatest(calls[c].rev)
    /\ Allows(history[calls[c].rev], op, calls[c].digest)
    /\ calls' = [calls EXCEPT ![c].step = "act"]
    /\ UNCHANGED <<history, runs, source>>

\* store.append, after the agent answered: under its lock it refuses a
\* snapshot that does not follow the latest revision.
AppendRevision(c, op) ==
    /\ At(c, op, "act") /\ IsLatest(calls[c].rev) /\ Len(history) < MaxRevision
    /\ \E next \in Edited(calls[c].rev, op, calls[c].digest) : history' = Append(history, next)
    /\ calls' = [calls EXCEPT ![c] = NoCall]
    /\ UNCHANGED <<runs, source>>

\* create: revision 1 holds the proposal that the agent made for revision 0.
CreatePlan(c) ==
    /\ At(c, "create", "act") /\ history = <<>>
    /\ \E p \in AgentProposals(0) :
          history' = <<[status |-> "draft", graph |-> EmptyGraph, target |-> NoTarget,
                        pending |-> p, archived |-> FALSE]>>
    /\ calls' = [calls EXCEPT ![c] = NoCall]
    /\ UNCHANGED <<runs, source>>

-----------------------------------------------------------------------------
(* Runs *)

\* assemble_run reads the plan before it waits for the command lock.
BeginAssembly(c) == history # <<>> /\ Accepted(c, "assemble", "act", NoTarget, 0)

\* no run is looked for
AssemblyAllowedAgain(rev) ==
    /\ history[rev].status = "finalized" /\ ~history[rev].archived
    /\ ReadyForTarget(history[rev], source)

AssemblyAllowed(rev) ==
    /\ history[rev].status = "finalized" /\ ~history[rev].archived
    /\ \A r \in DOMAIN runs : runs[r].plan # rev
    /\ ReadyForTarget(history[rev], source)

\* assemble, under the command lock, of the revision that was read
Assemble(c) ==
    /\ At(c, "assemble", "act") /\ Len(runs) < MaxRuns
    /\ AssemblyAllowed(calls[c].rev)
    /\ runs' = Append(runs, [plan |-> calls[c].rev, digest |-> source, stage |-> "live"])
    /\ calls' = [calls EXCEPT ![c] = NoCall]
    /\ UNCHANGED <<history, source>>

\* _require_execution_run: the run is the one of the latest revision
RequireExecutionRun(c, r) ==
    IsLatest(runs[r].plan) /\ Accepted(c, "command", "act", NoTarget, r)

\* A command that changes the run, or that completes or cancels it.
CommandRun(c) ==
    /\ At(c, "command", "act")
    /\ runs[calls[c].run].stage = "live"
    /\ \E stage \in {"live", "terminal"} : runs' = [runs EXCEPT ![calls[c].run].stage = stage]
    /\ calls' = [calls EXCEPT ![c] = NoCall]
    /\ UNCHANGED <<history, source>>

\* The target's runbook, task or profile changes.
SourceDrifts ==
    /\ source' \in Digests
    /\ UNCHANGED <<history, runs, calls>>

Next ==
    \/ \E c \in Callers :
          \/ Ends(c) \/ BeginCreate(c) \/ CreatePlan(c)
          \/ \E op \in ByPlanning : BeginEdit(c, op)
          \/ \E op \in ByManager : RequirePlanWithoutRun(c, op) \/ ReadPlan(c, op)
          \/ \E op \in ByManager \cup ByPlanning : AppendRevision(c, op)
          \/ BeginAssembly(c) \/ Assemble(c)
          \/ \E r \in DOMAIN runs : RequireExecutionRun(c, r)
          \/ CommandRun(c)
    \/ SourceDrifts

Spec == Init /\ [][Next]_vars

-----------------------------------------------------------------------------
(* What is displayed *)

RunsAtLatest == {r \in DOMAIN runs : IsLatest(runs[r].plan)}
TerminalRuns == {r \in DOMAIN runs : runs[r].stage = "terminal"}

\* only the run of the latest revision
ShownRunsExact == RunsAtLatest

\* _run_for: the run of the latest revision or else the last terminal one
ShownRuns == IF RunsAtLatest # {} THEN RunsAtLatest ELSE TerminalRuns

\* TaskManagerService._stage
Stage ==
    CASE history = <<>> -> "none"
      [] history # <<>> /\ history[Len(history)].archived -> "archived"
      [] history # <<>> /\ ~history[Len(history)].archived ->
         IF ShownRuns \cap TerminalRuns # {} THEN "ended"
         ELSE IF history[Len(history)].pending # NoProposal THEN "proposal_pending"
         ELSE IF ShownRuns # {} THEN "running"
         ELSE IF history[Len(history)].status = "finalized" THEN "ready" ELSE "planning"

-----------------------------------------------------------------------------
(* Properties *)

\* Whatever is edited, archived or assembled at the same time, a run is bound
\* to a revision that was finalized as ready, for the source bundle that was
\* pinned there, and no revision has two runs.
RunsBindFinalizedRevisions ==
    \A r \in DOMAIN runs :
        /\ runs[r].plan \in DOMAIN history
        /\ LET rev == history[runs[r].plan] IN
           /\ rev.status = "finalized" /\ ~rev.archived /\ rev.pending = NoProposal
           /\ rev.target = runs[r].digest /\ ~PlanBlocked(rev.graph) /\ ~OffTarget(rev.graph)
        /\ \A q \in DOMAIN runs : runs[q].plan = runs[r].plan => q = r

\* However long an agent took, a pending proposal answers the revision just
\* before it, and would replace the graph that the agent was shown.
ProposalsAreCurrent ==
    \A n \in DOMAIN history :
        history[n].pending # NoProposal
        => /\ history[n].pending.based = n - 1
           /\ n > 1 => history[n].graph = history[n - 1].graph

\* A finalized revision has the graph and the target of the draft that was
\* assessed and that its user saw, with no proposal left undecided.
FinalizedAsReviewed ==
    \A n \in DOMAIN history :
        history[n].status = "finalized"
        => /\ n > 1 /\ ~PlanBlocked(history[n].graph)
           /\ Editable(history[n - 1]) /\ Editable(history[n])
           /\ history[n].graph = history[n - 1].graph
           /\ history[n].target = history[n - 1].target

\* ADR-0058: an ended task is not reopened by planning records written later;
\* it is shown as ended until a further run is assembled or it is archived.
EndedStaysShown ==
    [][Stage = "ended" /\ UNCHANGED runs => Stage' \in {"ended", "archived"}]_vars
=============================================================================
