------------------------- MODULE MCTaskManagerRuns -------------------------
(* TaskManagerRuns for TLC: a plan of a task and a validation, both roots, or
   one of a task between two gates, listed before the gate it depends on. *)
EXTENDS TaskManagerRuns

CONSTANTS scope, work, check, final

TaskAndCheck == <<work, check>>
GatedTask == <<work, scope, final>>
TaskAndCheckKinds == work :> "task" @@ check :> "validation"
GatedTaskKinds == scope :> "human_gate" @@ work :> "task" @@ final :> "human_gate"
BothRoots == work :> {} @@ check :> {}
Chain == scope :> {} @@ work :> {scope} @@ final :> {work}

Interchangeable == Permutations(Tickers) \cup Permutations(Actors)
=============================================================================
