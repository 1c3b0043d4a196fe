----------------------------- MODULE MCLocalRuns -----------------------------
(* LocalRuns for TLC: one run admitted by a human, one by the policy of
   scripted replays, on one target branch that also moves elsewhere. *)
EXTENDS LocalRuns, TLC

CONSTANTS r1, r2

HumanAndPolicy == r1 :> "human" @@ r2 :> "policy"
=============================================================================
