----------------------------- MODULE MCLabAccess -----------------------------
(***************************************************************************)
(* LabAccess for TLC: the symmetry of the sets of model values.            *)
(***************************************************************************)
EXTENDS LabAccess, TLC

Symmetry == Permutations(Users) \cup Permutations(Keys)
              \cup Permutations(Requests)
=============================================================================
