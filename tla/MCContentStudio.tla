---------------------------- MODULE MCContentStudio ----------------------------
(***************************************************************************)
(* ContentStudio for TLC: the symmetry of the sets of model values.        *)
(***************************************************************************)
EXTENDS ContentStudio, TLC

Symmetry == Permutations(Sections) \cup Permutations(Positions)
              \cup Permutations(Texts) \cup Permutations(Revisions)
              \cup Permutations(Requests)
=============================================================================
