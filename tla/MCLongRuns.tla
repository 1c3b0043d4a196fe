----------------------------- MODULE MCLongRuns -----------------------------
(* LongRuns for TLC: one run, with two supervisors that compete for it, or
   with one that crashes and retries. *)
EXTENDS LongRuns, TLC

\* Supervisors and lease ids are interchangeable.
Interchangeable == Permutations(Workers) \cup Permutations(LeaseIds)
=============================================================================
