-------------------------- MODULE MCSessionRoutes --------------------------
(* SessionRoutes for TLC. *)
EXTENDS SessionRoutes, TLC

Symmetry == Permutations(Conns) \cup Permutations(Workers)
              \cup Permutations(Sessions)
=============================================================================
