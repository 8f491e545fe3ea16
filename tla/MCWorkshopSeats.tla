---------------------------- MODULE MCWorkshopSeats ----------------------------
(***************************************************************************)
(* WorkshopSeats for TLC: the symmetry of the sets of model values.        *)
(***************************************************************************)
EXTENDS WorkshopSeats, TLC

Symmetry == Permutations(Learners) \cup Permutations(Invites)
              \cup Permutations(Requests)
=============================================================================
