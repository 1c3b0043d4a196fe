--------------------------- MODULE MCWorkerLeases ---------------------------
(* WorkerLeases for TLC: two workers and one run, two lease ids so that the
   run changes hands, stale timestamps of up to one unit. *)
EXTENDS WorkerLeases
=============================================================================
