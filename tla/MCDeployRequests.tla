--------------------------- MODULE MCDeployRequests ---------------------------
(***************************************************************************)
(* DeployRequests for TLC: the symmetry of the sets of model values.       *)
(***************************************************************************)
EXTENDS DeployRequests, TLC

Symmetry == Permutations(Deployments) \cup Permutations(Requests)
              \cup Permutations(Learners)
=============================================================================
