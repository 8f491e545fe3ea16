-------------------------- MODULE MCSubnetAllocator --------------------------
(***************************************************************************)
(* SubnetAllocator for TLC: the octets of the code up to a small maximum.  *)
(***************************************************************************)
EXTENDS SubnetAllocator, TLC

Reserved == {0, 1}

Symmetry == Permutations(Users) \cup Permutations(Callers)
=============================================================================
