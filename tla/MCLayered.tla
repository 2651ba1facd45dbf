------------------------------ MODULE MCLayered ------------------------------
(* Instances of Layered small enough for TLC.                              *)
EXTENDS LayeredTickets, LayeredDrop, LayeredInvariant, TLC

CONSTANTS p1, p2, t1, c1

OnePerLayer2 == p1 :> 0 @@ c1 :> 1
OnePerLayer3 == p1 :> 0 @@ t1 :> 1 @@ c1 :> 2
TwoProducers == p1 :> 0 @@ p2 :> 0 @@ c1 :> 1
=============================================================================
