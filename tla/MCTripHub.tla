------------------------------ MODULE MCTripHub ------------------------------
(* Small instances of TripHub for TLC. *)
EXTENDS TripHub, TLC

Symmetry == Permutations(Clients) \cup Permutations(Trips)
=============================================================================
