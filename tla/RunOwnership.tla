---------------------------- MODULE RunOwnership ----------------------------
(***************************************************************************)
(* What the worker leases are for, without leases, versions and deadlines: *)
(* a run has at most one owner, a worker owns at most one run, a run       *)
(* changes hands only by way of having no owner, and ownership may lapse   *)
(* at any moment, for several runs at once.  WorkerLeases implements it.   *)
(***************************************************************************)
CONSTANTS Workers, Runs, NoWorker

VARIABLE owner

Init == owner = [r \in Runs |-> NoWorker]

Take(w, r) ==
    /\ owner[r] = NoWorker
    /\ \A q \in Runs : owner[q] # w
    /\ owner' = [owner EXCEPT ![r] = w]

Lapse(lost) == owner' = [r \in Runs |-> IF r \in lost THEN NoWorker ELSE owner[r]]

Next ==
    \/ \E w \in Workers, r \in Runs : Take(w, r)
    \/ \E lost \in SUBSET Runs : Lapse(lost)

Spec == Init /\ [][Next]_owner
=============================================================================
