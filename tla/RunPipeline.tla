----------------------------- MODULE RunPipeline -----------------------------
(***************************************************************************)
(* What the stages of a run are for, without journals, artifacts, cards,   *)
(* lost commits and recovery: one agent, one record per stage, each stage  *)
(* on the result of the one before it, and Git changed only in its place   *)
(* between two records.  What a run was told to do cannot be taken back,   *)
(* and a run may stop for ever after any step.  TransactionalExecution and *)
(* LocalRuns implement it.                                                 *)
(***************************************************************************)
EXTENDS Naturals, Sequences

CONSTANT Runs

VARIABLES told,     \* the results in the records of a run, oldest first
          started,  \* the agents started for a run
          merged,   \* runs whose patch is on the target branch
          removed   \* runs whose worktree is gone

vars == <<told, started, merged, removed>>

\* The results of a run whose patch may be merged
Approved == <<"reviewing", "merge_review", "integrating">>

Init ==
    /\ told = [r \in Runs |-> <<>>]
    /\ started = [r \in Runs |-> 0]
    /\ merged = {} /\ removed = {}

\* The next record of a run with these results so far
Tell(r, results, result) ==
    /\ told[r] = results
    /\ told' = [told EXCEPT ![r] = Append(results, result)]
    /\ UNCHANGED <<started, merged, removed>>

Start(r) ==
    /\ started[r] = 0
    /\ started' = [started EXCEPT ![r] = 1]
    /\ UNCHANGED <<told, merged, removed>>

RecordExecution(r) ==
    /\ started[r] > 0
    /\ \E result \in {"failed", "repairing", "reviewing"} : Tell(r, <<>>, result)

RecordReview(r) ==
    \E result \in {"repairing", "merge_review"} : Tell(r, <<"reviewing">>, result)

RecordDecision(r) ==
    \E result \in {"integrating", "repairing", "cancelled"} :
        Tell(r, <<"reviewing", "merge_review">>, result)

Merge(r) ==
    /\ told[r] = Approved /\ r \notin merged
    /\ merged' = merged \cup {r}
    /\ UNCHANGED <<told, started, removed>>

RecordIntegration(r) == r \in merged /\ Tell(r, Approved, "completed")

Remove(r) ==
    /\ told[r] = Append(Approved, "completed") /\ r \notin removed
    /\ removed' = removed \cup {r}
    /\ UNCHANGED <<told, started, merged>>

RecordCleanup(r) == r \in removed /\ Tell(r, Append(Approved, "completed"), "completed")

Next ==
    \E r \in Runs :
        \/ Start(r) \/ RecordExecution(r) \/ RecordReview(r) \/ RecordDecision(r)
        \/ Merge(r) \/ RecordIntegration(r) \/ Remove(r) \/ RecordCleanup(r)

Spec == Init /\ [][Next]_vars
=============================================================================
