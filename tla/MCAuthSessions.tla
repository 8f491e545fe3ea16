---------------------------- MODULE MCAuthSessions ----------------------------
(***************************************************************************)
(* AuthSessions for TLC: the symmetry of the sets of model values.         *)
(***************************************************************************)
EXTENDS AuthSessions, TLC

Symmetry == Permutations(Users) \cup Permutations(Tokens)
              \cup Permutations(Requests)
=============================================================================
