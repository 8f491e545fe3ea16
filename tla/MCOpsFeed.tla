------------------------------ MODULE MCOpsFeed ------------------------------
(***************************************************************************)
(* OpsFeed for TLC: the symmetry of the set of model values.               *)
(***************************************************************************)
EXTENDS OpsFeed, TLC

Symmetry == Permutations(Requests)
=============================================================================
