----------------------------- MODULE MCTripsAPI -----------------------------
(***************************************************************************)
(* TripsAPI for TLC: up to five trips, read two to a page, and ints of     *)
(* four bits.                                                              *)
(***************************************************************************)
EXTENDS TripsAPI, TLC

CONSTANTS t1, t2, t3, t4, t5

MCTimes == 1..4

\* The first page under three names, and a page whose offset is negative.
MCFirsts == {-1, 0, 1, 6}

\* The instance is one that theorem NothingIsMissed speaks about.
ASSUME InstanceAssumption == FromTheFirstPage

Symmetry == Permutations(TripIds)

=============================================================================
