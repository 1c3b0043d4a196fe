---------------------------- MODULE MCTaskPlans ----------------------------
(* TaskPlans for TLC: two HTTP threads, two nodes, and an agent that proposes
   a node that fits the execution target or one that does not. *)
EXTENDS TaskPlans, TLC

CONSTANTS n1, n2, sound, foreign

TwoNodes == {n1, n2}
TwoContents == {sound, foreign}
None == {}
OnlyForeign == {foreign}
OneNode == {[content |-> n1 :> c, edges |-> {}] : c \in TwoContents}

Interchangeable == Permutations(Callers) \cup Permutations(Digests)
=============================================================================
