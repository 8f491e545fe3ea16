----------------------------- MODULE MCLabWorkers -----------------------------
(***************************************************************************)
(* LabWorkers for TLC: the symmetry of the sets of model values.           *)
(***************************************************************************)
EXTENDS LabWorkers, TLC

Symmetry == Permutations(Deployments) \cup Permutations(ProvWorkers)
              \cup Permutations(CleanWorkers)
=============================================================================
