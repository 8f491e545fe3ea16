---------------------------- MODULE WorkshopSeats ----------------------------
(***************************************************************************)
(* The seats of one workshop: its cap, the entitlements that fill it, the  *)
(* column used_seats that a trigger recounts, and the invitations that are *)
(* redeemed for a seat.  Operators grant seats and invite, learners redeem *)
(* the token they were sent, sys admins edit the workshop, all at once and *)
(* each in a READ COMMITTED transaction.                                   *)
(*                                                                         *)
(* Steps are the statements whose outcome another request may change.  A   *)
(* seat is two: the INSERT, with the snapshot in which the trigger's       *)
(* UPDATE of used_seats counts, and the rest of that UPDATE up to the      *)
(* commit.  Between them the UPDATE may have waited for the workshop's row *)
(* lock, and PostgreSQL then sees the new row but counts the entitlements  *)
(* of its old snapshot.                                                    *)
(***************************************************************************)
EXTENDS Naturals, FiniteSets

CONSTANTS
  Learners,       \* users, by their e-mail address
  Invites,        \* ids of invitations that may be made
  Requests,       \* requests that may be in progress at once
  None,           \* no learner, no invitation
  MaxCap,         \* bound: the values of seat_cap
  MaxResends      \* bound: how often an invitation is sent again

ASSUME SeatsAssumption ==
  /\ IsFiniteSet(Learners) /\ IsFiniteSet(Invites) /\ IsFiniteSet(Requests)
  /\ Requests # {}
  /\ None \notin Learners \cup Invites
  /\ MaxCap \in Nat /\ MaxResends \in Nat

VARIABLES
  cap,            \* workshops.seat_cap
  open,           \* active, paid for or free, and between its dates
  used,           \* workshops.used_seats
  active,         \* users with an active entitlement of the workshop
  invite,         \* workshop_invites.status; "none" before the INSERT
  email,          \* workshop_invites.email
  token,          \* how often the token was replaced
  lapsed,         \* invitations past their expires_at
  pc, kind,       \* each request: how far it is, and what it is
  who, about,     \* the learner and the invitation it is about
  read,           \* the cap, the used_seats and the token it has read
  count           \* the number of seats in its trigger's snapshot

workshop == <<cap, open>>
invitation == <<invite, email, token, lapsed>>
request == <<pc, kind, who, about, read, count>>
vars == <<workshop, used, active, invitation, request>>

\* The table knows "expired" too, which nothing ever writes.
Statuses == {"none", "pending", "accepted", "revoked", "expired"}
Nothing == [cap |-> 0, used |-> 0, token |-> 0]

Init ==
  /\ cap \in 0..MaxCap /\ open \in BOOLEAN
  /\ used = 0 /\ active = {}
  /\ invite = [i \in Invites |-> "none"]
  /\ email = [i \in Invites |-> None]
  /\ token = [i \in Invites |-> 0]
  /\ lapsed = {}
  /\ pc = [r \in Requests |-> "idle"]
  /\ kind = [r \in Requests |-> "none"]
  /\ who = [r \in Requests |-> None] /\ about = [r \in Requests |-> None]
  /\ read = [r \in Requests |-> Nothing]
  /\ count = [r \in Requests |-> 0]

Pending == {i \in Invites : invite[i] = "pending"}

-----------------------------------------------------------------------------
(* The workshop and time.                                                  *)

\* patch_workshop, which may set a cap below what is in use.
Patch(c, o) ==
  /\ cap' = c /\ open' = o
  /\ UNCHANGED <<used, active, invitation, request>>

Lapse(i) ==
  /\ invite[i] = "pending"
  /\ lapsed' = lapsed \cup {i}
  /\ UNCHANGED <<workshop, used, active, invite, email, token, request>>

-----------------------------------------------------------------------------
(* How a request begins and ends.                                          *)

Goto(r, from, to) == pc[r] = from /\ pc' = [pc EXCEPT ![r] = to]

\* The workshop's row is read and the checks on it alone are made.
Begin(r, k, l, i, t) ==
  /\ Goto(r, "idle", "read")
  /\ open /\ used < cap
  /\ kind' = [kind EXCEPT ![r] = k]
  /\ who' = [who EXCEPT ![r] = l]
  /\ about' = [about EXCEPT ![r] = i]
  /\ read' = [read EXCEPT ![r] = [cap |-> cap, used |-> used, token |-> t]]
  /\ UNCHANGED <<workshop, used, active, invitation, count>>

\* The transaction is over, and what it has read is forgotten.
End(r) ==
  /\ pc' = [pc EXCEPT ![r] = "idle"]
  /\ read' = [read EXCEPT ![r] = Nothing]
  /\ count' = [count EXCEPT ![r] = 0]
  /\ kind' = [kind EXCEPT ![r] = "none"]
  /\ who' = [who EXCEPT ![r] = None]
  /\ about' = [about EXCEPT ![r] = None]

\* Mutant: what the request did to its invitation stays.
GiveUp_Bug(r) ==
  /\ pc[r] # "idle"
  /\ End(r)
  /\ invite' = IF kind[r] = "redeem" /\ pc[r] = "seated"
               THEN [invite EXCEPT ![about[r]] = "accepted"] ELSE invite
  /\ UNCHANGED <<workshop, used, active, email, token, lapsed>>

\* Refused, or dead: the transaction is rolled back.
GiveUp(r) ==
  /\ pc[r] # "idle"
  /\ End(r)
  /\ UNCHANGED <<workshop, used, active, invitation>>

BeginGrant(r, l) == Begin(r, "grant", l, None, 0)
BeginInvite(r, l) == Begin(r, "invite", l, None, 0)

\* The token finds a pending invitation of the learner's own address.
BeginRedeem(r, i) ==
  /\ invite[i] = "pending" /\ i \notin lapsed
  /\ Begin(r, "redeem", email[i], i, token[i])

-----------------------------------------------------------------------------
(* The checks against other rows.                                          *)

\* Mutant: used_seats is trusted.
CountSeats_Bug(r) ==
  /\ Goto(r, "read", "counted")
  /\ UNCHANGED <<workshop, used, active, invitation, kind, who, about, read, count>>

\* "Double-check count in DB": the end of assert_can_grant_seat.
CountSeats(r) ==
  /\ Goto(r, "read", "counted")
  /\ Cardinality(active) < read[r].cap
  /\ UNCHANGED <<workshop, used, active, invitation, kind, who, about, read, count>>

\* assert_room_for_pending_invite; used_seats is the one read before.
CountPending(r) ==
  /\ kind[r] = "invite"
  /\ Goto(r, "counted", "room")
  /\ read[r].used + Cardinality(Pending) < read[r].cap
  /\ UNCHANGED <<workshop, used, active, invitation, kind, who, about, read, count>>

-----------------------------------------------------------------------------
(* Invitations.                                                            *)

\* The INSERT, unless the address has a pending invitation, and the commit.
CreateInvite(r, i) ==
  /\ pc[r] = "room"
  /\ invite[i] = "none"
  /\ \A j \in Pending : email[j] # who[r]
  /\ invite' = [invite EXCEPT ![i] = "pending"]
  /\ email' = [email EXCEPT ![i] = who[r]]
  /\ End(r)
  /\ UNCHANGED <<workshop, used, active, token, lapsed>>

\* A request that has accepted the invitation holds its row's lock.
Locked(i) == \E r \in Requests :
  kind[r] = "redeem" /\ pc[r] = "seated" /\ about[r] = i

Revoke(i) ==
  /\ invite[i] = "pending" /\ ~Locked(i)
  /\ invite' = [invite EXCEPT ![i] = "revoked"]
  /\ UNCHANGED <<workshop, used, active, email, token, lapsed, request>>

\* A new token and a new expiry.
Resend(i) ==
  /\ invite[i] = "pending" /\ ~Locked(i)
  /\ token[i] < MaxResends
  /\ token' = [token EXCEPT ![i] = @ + 1]
  /\ lapsed' = lapsed \ {i}
  /\ UNCHANGED <<workshop, used, active, invite, email, request>>

-----------------------------------------------------------------------------
(* Seats.                                                                  *)

\* Mutant: the UPDATE of the invitation without AND status = 'pending'.
StillValid_Bug(r) ==
  ~Locked(about[r]) /\ token[about[r]] = read[r].token

\* UPDATE workshop_invites ... WHERE token_hash and status = 'pending', which
\* waits for the row's lock and then looks again.
StillValid(r) ==
  /\ ~Locked(about[r])
  /\ invite[about[r]] = "pending"
  /\ token[about[r]] = read[r].token

\* INSERT ... ON CONFLICT DO UPDATE, which waits for an uncommitted row of the
\* same learner; the trigger's UPDATE takes its snapshot.
InsertSeat(r) ==
  /\ Goto(r, "counted", "seated")
  /\ kind[r] # "invite"
  /\ kind[r] = "redeem" => StillValid(r)
  /\ \A s \in Requests : pc[s] = "seated" => who[s] # who[r]
  /\ count' = [count EXCEPT ![r] = Cardinality(active \cup {who[r]})]
  /\ UNCHANGED <<workshop, used, active, invitation, kind, who, about, read>>

\* Mutant: the trigger adds one instead of counting.
CommitSeat_Bug(r) ==
  /\ pc[r] = "seated"
  /\ active' = active \cup {who[r]}
  /\ used' = used + 1
  /\ invite' = IF kind[r] = "redeem"
               THEN [invite EXCEPT ![about[r]] = "accepted"] ELSE invite
  /\ End(r)
  /\ UNCHANGED <<workshop, email, token, lapsed>>

\* The row lock is granted, used_seats is written, the transaction commits.
\* A seat given again is an UPDATE, for which the trigger counts twice: the
\* second time with the lock already held.
CommitSeat(r) ==
  /\ pc[r] = "seated"
  /\ active' = active \cup {who[r]}
  /\ used' = IF who[r] \in active THEN Cardinality(active) ELSE count[r]
  /\ invite' = IF kind[r] = "redeem"
               THEN [invite EXCEPT ![about[r]] = "accepted"] ELSE invite
  /\ End(r)
  /\ UNCHANGED <<workshop, email, token, lapsed>>

-----------------------------------------------------------------------------
Next ==
  \/ \E c \in 0..MaxCap, o \in BOOLEAN : Patch(c, o)
  \/ \E i \in Invites : Lapse(i) \/ Revoke(i) \/ Resend(i)
  \/ \E r \in Requests :
       \/ \E l \in Learners : BeginGrant(r, l) \/ BeginInvite(r, l)
       \/ \E i \in Invites : BeginRedeem(r, i) \/ CreateInvite(r, i)
       \/ CountSeats(r) \/ CountPending(r) \/ InsertSeat(r) \/ CommitSeat(r) \/ GiveUp(r)

Spec == Init /\ [][Next]_vars

-----------------------------------------------------------------------------
\* Every variable has its type.
TypeOK ==
  /\ cap \in 0..MaxCap /\ open \in BOOLEAN
  /\ used \in Nat /\ active \subseteq Learners
  /\ invite \in [Invites -> Statuses]
  /\ email \in [Invites -> Learners \cup {None}]
  /\ token \in [Invites -> 0..MaxResends]
  /\ lapsed \subseteq Invites
  /\ pc \in [Requests -> {"idle", "read", "counted", "room", "seated"}]
  /\ kind \in [Requests -> {"none", "grant", "invite", "redeem"}]
  /\ who \in [Requests -> Learners \cup {None}]
  /\ about \in [Requests -> Invites \cup {None}]
  /\ read \in [Requests -> [cap : 0..MaxCap, used : Nat, token : 0..MaxResends]]
  /\ count \in [Requests -> Nat]

\* Requests that pass the check together overfill a workshop, but never by
\* more than the number of them less one, however stale used_seats is, and
\* however many such rounds there are: the second count sees to that.
OvershootBounded ==
  Cardinality(active) + 1 <= MaxCap + Cardinality(Requests)

\* used_seats may lag behind the entitlements (see UsedIsCount), but never
\* says more than there are: no free seat is refused for it.
UsedNeverOverstates == used <= Cardinality(active)

\* An accepted invitation has given its addressee a seat: the two rows are
\* written in one transaction, whatever it raced with.
AcceptedHasSeat ==
  \A i \in Invites : invite[i] = "accepted" => email[i] \in active

\* An invitation is settled once: a redeem that has read it as pending does
\* not bring a revoked one back, nor a revocation take an accepted one away.
InvitesSettleOnce ==
  [][\A i \in Invites :
       invite[i] \in {"accepted", "revoked"} => invite'[i] = invite[i]]_vars

\* What everybody sees of the seats and invitations is what SeatRegister says,
\* although every request works in several steps: the seat and the accepted
\* invitation come together, from a pending one, and within the limit.
Register == INSTANCE SeatRegister
              WITH Limit <- MaxCap + Cardinality(Requests) - 1,
                   seats <- active, status <- invite, addressee <- email
RefinesRegister == Register!Spec

\* Does not hold (README.md, Disagreements): used_seats is the number of
\* "active entitlements with this workshop_id" in db_schema.sql; migration
\* 0011 is to "keep [it] in sync".
UsedIsCount == used = Cardinality(active)

\* Does not hold either: the second count of assert_can_grant_seat is there
\* for the "race with concurrent grants", and there would never be more seats
\* than the highest cap there has been allows.
SeatsWithinCap == Cardinality(active) <= MaxCap
=============================================================================
