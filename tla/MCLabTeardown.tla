---------------------------- MODULE MCLabTeardown ----------------------------
(***************************************************************************)
(* LabTeardown for TLC: the lab types of the deployments.                  *)
(***************************************************************************)
EXTENDS LabTeardown, TLC

CONSTANTS d1, d2, d3

Mixed == [d \in Deployments |-> IF d = d3 THEN "aws" ELSE "windows"]

\* The two labs of lab-1 may change places: claims order rows by the times of
\* their columns alone, and take any one of those that are equal.
Symmetry == Permutations({d1, d2})
              \cup Permutations(ProvWorkers) \cup Permutations(CleanWorkers)
=============================================================================
