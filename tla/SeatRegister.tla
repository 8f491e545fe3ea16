----------------------------- MODULE SeatRegister -----------------------------
(***************************************************************************)
(* What the seats and invitations of a workshop promise, as if every       *)
(* request did its work in one instant: a seat is given for good while     *)
(* fewer than Limit are taken, an address has one open invitation, and an  *)
(* invitation is accepted in the step that seats its addressee, or is      *)
(* revoked, never both.  WorkshopSeats, where requests count, lock, wait   *)
(* and look again, implements this module.                                 *)
(***************************************************************************)
EXTENDS Naturals, FiniteSets

CONSTANTS
  Learners, Invites, None,
  Limit           \* the seats there may be, see OvershootBounded

VARIABLES
  seats,          \* the learners that have one
  status,         \* each invitation's
  addressee       \* the learner it was made for

vars == <<seats, status, addressee>>

Init ==
  /\ seats = {}
  /\ status = [i \in Invites |-> "none"]
  /\ addressee = [i \in Invites |-> None]

Invite(i, l) ==
  /\ status[i] = "none"
  /\ \A j \in Invites : status[j] = "pending" => addressee[j] # l
  /\ status' = [status EXCEPT ![i] = "pending"]
  /\ addressee' = [addressee EXCEPT ![i] = l]
  /\ UNCHANGED seats

Settle(i, to) ==
  /\ status[i] = "pending"
  /\ status' = [status EXCEPT ![i] = to]
  /\ UNCHANGED addressee

Revoke(i) == Settle(i, "revoked") /\ UNCHANGED seats

\* (Whoever has a seat may be given it again.)
Seat(l) ==
  /\ l \in seats \/ Cardinality(seats) < Limit
  /\ seats' = seats \cup {l}

Grant(l) == Seat(l) /\ UNCHANGED <<status, addressee>>

Redeem(i) == Settle(i, "accepted") /\ Seat(addressee[i])

Next ==
  \/ \E i \in Invites : Revoke(i) \/ Redeem(i) \/ \E l \in Learners : Invite(i, l)
  \/ \E l \in Learners : Grant(l)

Spec == Init /\ [][Next]_vars
=============================================================================
