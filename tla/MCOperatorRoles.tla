---------------------------- MODULE MCOperatorRoles ----------------------------
(***************************************************************************)
(* OperatorRoles for TLC: the symmetry of the sets of model values.        *)
(***************************************************************************)
EXTENDS OperatorRoles, TLC

Symmetry == Permutations(Users) \cup Permutations(Courses)
              \cup Permutations(Workshops) \cup Permutations(Requests)
=============================================================================
