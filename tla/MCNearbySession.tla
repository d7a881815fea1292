--------------------------- MODULE MCNearbySession ---------------------------
(* Small instances of NearbySession for TLC. *)
EXTENDS NearbySession, TLC

Symmetry == Permutations(Conns) \cup Permutations(Addrs)
=============================================================================
