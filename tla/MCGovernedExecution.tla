------------------------ MODULE MCGovernedExecution ------------------------
(* GovernedExecution for TLC: executors that were built for one run. *)
EXTENDS GovernedExecution
=============================================================================
