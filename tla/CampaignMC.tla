------------------------------ MODULE CampaignMC ------------------------------
(* A small fleet for Campaign: projects are matched in a fixed order. *)
EXTENDS Campaign, TLC

CONSTANTS p1, p2, p3, i1, i2

TwoProjects   == p1 :> 1 @@ p2 :> 2
ThreeProjects == TwoProjects @@ p3 :> 3

\* A canary first, then the batch.
CanaryFirst == i1 :> {FALSE} @@ i2 :> {TRUE}

\* Either command with or without --apply.
AnyFlags == [i \in {i1, i2} |-> BOOLEAN]
=============================================================================
