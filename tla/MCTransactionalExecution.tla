---------------------- MODULE MCTransactionalExecution ----------------------
(* TransactionalExecution for TLC: two runs of one task, which contend for
   the task's history, on a branch that also moves elsewhere. *)
EXTENDS TransactionalExecution, TLC

CONSTANTS t1, r1, r2, j1, j2

SameTask == j1 :> t1 @@ j2 :> t1
OwnRun == j1 :> r1 @@ j2 :> r2
EitherAuthority == j1 :> "human" @@ j2 :> "policy"
=============================================================================
