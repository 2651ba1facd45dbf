------------------------------- MODULE MCMpmc -------------------------------
(* Instances of Mpmc small enough for TLC.                                 *)
EXTENDS MpmcTickets, MpmcDrop, MpmcInvariant, TLC

ThreadSymmetry == Permutations(Producers) \cup Permutations(Consumers)
=============================================================================
