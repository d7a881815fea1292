--------------------------- MODULE MCRouteService ---------------------------
(* Small instances of RouteService for TLC. *)
EXTENDS RouteService, TLC

\* The settings under which requests can wait for a graph load.  A flight
\* without a deadline behaves as one whose deadline never passes.
LazySettings == {c \in AllSettings : c.enabled /\ c.lazy /\ c.deadline}

Symmetry == Permutations(Requests)
=============================================================================
