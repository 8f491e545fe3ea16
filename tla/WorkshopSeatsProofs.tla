-------------------------- MODULE WorkshopSeatsProofs --------------------------
(***************************************************************************)
(* What holds of the seats and invitations of a workshop for any number of *)
(* learners, invitations and requests in progress, and any cap.            *)
(*                                                                         *)
(* The bound on the seats needs the requests that have passed the second   *)
(* count: each may add one seat, and when the last of them passed there    *)
(* was a free one (FilledInv).  That an invitation is settled once needs   *)
(* that a request which has accepted it is alone with it, and finds it     *)
(* still pending when it commits (TakerInv).  The same facts make the      *)
(* request's commit a single step of SeatRegister.                         *)
(***************************************************************************)
EXTENDS WorkshopSeats, FiniteSetTheorems, TLAPS

\* What a request is about: a redeem has read its invitation, which keeps its
\* address from then on.
AboutInv ==
  /\ \A i \in Invites : invite[i] # "none" => email[i] \in Learners
  /\ \A r \in Requests : pc[r] # "idle" => who[r] \in Learners
  /\ \A r \in Requests : kind[r] = "redeem" =>
       /\ about[r] \in Invites
       /\ invite[about[r]] # "none"
       /\ who[r] = email[about[r]]

\* A redeem that has accepted its invitation and not yet committed.
Taker(r) == kind[r] = "redeem" /\ pc[r] = "seated"

TakerInv ==
  /\ \A r \in Requests : Taker(r) => invite[about[r]] = "pending"
  /\ \A r, s \in Requests : Taker(r) /\ Taker(s) /\ about[r] = about[s] => r = s

\* A trigger's snapshot does not count more than the seats there will be.
CountInv ==
  \A r \in Requests :
    pc[r] = "seated" => count[r] <= Cardinality(active \cup {who[r]})

\* Requests past the second count, each of which may add a seat.
Filling == {r \in Requests : pc[r] \in {"counted", "seated"}}

FilledInv ==
  Cardinality(active) + Cardinality(Filling) + 1 <= MaxCap + Cardinality(Requests)

IInv == TypeOK /\ AboutInv /\ TakerInv /\ CountInv /\ FilledInv
          /\ UsedNeverOverstates /\ AcceptedHasSeat

-----------------------------------------------------------------------------
(* Counting.                                                               *)

\* Sets of learners, and of requests, are finite, and a smaller one has not
\* more elements.
LEMMA CountSets ==
  ASSUME NEW S, S \subseteq Learners \/ S \subseteq Requests, NEW T \in SUBSET S
  PROVE  /\ IsFiniteSet(S) /\ IsFiniteSet(T)
         /\ Cardinality(S) \in Nat /\ Cardinality(T) \in Nat
         /\ Cardinality(T) <= Cardinality(S)
<1>1. IsFiniteSet(S)
  BY SeatsAssumption, FS_Subset
<1>2. IsFiniteSet(T) /\ Cardinality(T) <= Cardinality(S)
  BY <1>1, FS_Subset
<1>3. QED BY <1>1, <1>2, FS_CardinalityType

\* There is at least one request.
LEMMA SomeRequest == Cardinality(Requests) \in Nat \ {0}
<1>1. Cardinality(Requests) \in Nat
  BY SeatsAssumption, FS_CardinalityType
<1>2. Cardinality(Requests) # 0
  BY SeatsAssumption, FS_EmptySet
<1>3. QED BY <1>1, <1>2

LEMMA InitIInv == Init => IInv
<1> SUFFICES ASSUME Init PROVE IInv
  OBVIOUS
<1> USE DEF Init
<1>1. TypeOK
  BY SeatsAssumption DEF TypeOK, Statuses, Nothing
<1>2. AboutInv /\ TakerInv /\ CountInv /\ AcceptedHasSeat
  BY DEF AboutInv, TakerInv, Taker, CountInv, AcceptedHasSeat
<1>3. Filling = {}
  BY DEF Filling
<1>4. Cardinality({}) = 0
  BY FS_EmptySet
<1>5. FilledInv
  BY <1>3, <1>4, SomeRequest, SeatsAssumption DEF FilledInv
<1>6. UsedNeverOverstates
  BY <1>4 DEF UsedNeverOverstates
<1>7. QED BY <1>1, <1>2, <1>5, <1>6 DEF IInv

-----------------------------------------------------------------------------
(* The steps of Next by what they touch.                                   *)

\* Steps of the workshop's and the invitations' rows.
RowStep ==
  \/ \E c \in 0..MaxCap, o \in BOOLEAN : Patch(c, o)
  \/ \E i \in Invites : Lapse(i) \/ Revoke(i) \/ Resend(i)

\* Steps of a request that fill no seat.
PlainStep(r) ==
  \/ \E l \in Learners : BeginGrant(r, l) \/ BeginInvite(r, l)
  \/ \E i \in Invites : BeginRedeem(r, i) \/ CreateInvite(r, i)
  \/ CountPending(r) \/ GiveUp(r)

LEMMA NextSteps ==
  Next => \/ RowStep
          \/ \E r \in Requests :
               PlainStep(r) \/ CountSeats(r) \/ InsertSeat(r) \/ CommitSeat(r)
BY DEF Next, RowStep, PlainStep

\* Whoever begins a request, it is about a learner, and a redeem about an
\* invitation that is pending and that learner's.
LEMMA BeginFacts ==
  ASSUME IInv, NEW r \in Requests,
         \/ \E l \in Learners : BeginGrant(r, l) \/ BeginInvite(r, l)
         \/ \E i \in Invites : BeginRedeem(r, i)
  PROVE  \E k \in {"grant", "invite", "redeem"}, l \in Learners,
            i \in Invites \cup {None}, n \in 0..MaxResends :
           /\ Begin(r, k, l, i, n)
           /\ k = "redeem" => i \in Invites /\ invite[i] = "pending" /\ l = email[i]
<1>1. ASSUME NEW l \in Learners, BeginGrant(r, l) \/ BeginInvite(r, l)
      PROVE  \E k \in {"grant", "invite"} : Begin(r, k, l, None, 0)
  BY <1>1 DEF BeginGrant, BeginInvite
<1>2. ASSUME NEW i \in Invites, BeginRedeem(r, i)
      PROVE  /\ email[i] \in Learners /\ token[i] \in 0..MaxResends
             /\ invite[i] = "pending"
             /\ Begin(r, "redeem", email[i], i, token[i])
  BY <1>2 DEF BeginRedeem, IInv, AboutInv, TypeOK
<1>3. 0 \in 0..MaxResends
  BY SeatsAssumption
<1>4. CASE \E l \in Learners : BeginGrant(r, l) \/ BeginInvite(r, l)
  BY <1>1, <1>3, <1>4
<1>5. CASE \E i \in Invites : BeginRedeem(r, i)
  BY <1>2, <1>5
<1>6. QED BY <1>4, <1>5

\* Ending a request keeps its variables' types.
LEMMA EndType ==
  ASSUME TypeOK, NEW r \in Requests, End(r)
  PROVE  /\ pc' \in [Requests -> {"idle", "read", "counted", "room", "seated"}]
         /\ kind' \in [Requests -> {"none", "grant", "invite", "redeem"}]
         /\ who' \in [Requests -> Learners \cup {None}]
         /\ about' \in [Requests -> Invites \cup {None}]
         /\ read' \in [Requests -> [cap : 0..MaxCap, used : Nat, token : 0..MaxResends]]
         /\ count' \in [Requests -> Nat]
<1>1. Nothing \in [cap : 0..MaxCap, used : Nat, token : 0..MaxResends]
  BY SeatsAssumption DEF Nothing
<1>2. QED BY <1>1 DEF TypeOK, End

LEMMA TypeStep == IInv /\ Next => TypeOK'
<1> SUFFICES ASSUME IInv, Next PROVE TypeOK'
  OBVIOUS
<1> USE DEF IInv, workshop, invitation, request
<1>1. CASE RowStep
  <2>1. CASE \E c \in 0..MaxCap, o \in BOOLEAN : Patch(c, o)
    BY <2>1 DEF Patch, TypeOK
  <2>2. ASSUME NEW i \in Invites, Lapse(i) PROVE TypeOK'
    BY <2>2 DEF Lapse, TypeOK
  <2>3. ASSUME NEW i \in Invites, Revoke(i) PROVE TypeOK'
    BY <2>3 DEF Revoke, TypeOK, Statuses
  <2>4. ASSUME NEW i \in Invites, Resend(i) PROVE TypeOK'
    <3>1. token[i] + 1 \in 0..MaxResends
      BY <2>4, SeatsAssumption DEF Resend, TypeOK
    <3>2. QED BY <2>4, <3>1 DEF Resend, TypeOK
  <2>5. QED BY <1>1, <2>1, <2>2, <2>3, <2>4 DEF RowStep
<1>2. ASSUME NEW r \in Requests, PlainStep(r) PROVE TypeOK'
  <2>1. CASE \/ \E l \in Learners : BeginGrant(r, l) \/ BeginInvite(r, l)
             \/ \E i \in Invites : BeginRedeem(r, i)
    <3>1. PICK k \in {"grant", "invite", "redeem"}, l \in Learners,
               i \in Invites \cup {None}, n \in 0..MaxResends : Begin(r, k, l, i, n)
      BY <2>1, BeginFacts
    <3>2. [cap |-> cap, used |-> used, token |-> n] \in
            [cap : 0..MaxCap, used : Nat, token : 0..MaxResends]
      BY DEF TypeOK
    <3>3. QED BY <3>1, <3>2 DEF Begin, Goto, TypeOK
  <2>2. ASSUME NEW i \in Invites, CreateInvite(r, i) PROVE TypeOK'
    BY <2>2, EndType DEF CreateInvite, TypeOK, Statuses
  <2>3. CASE CountPending(r)
    BY <2>3 DEF CountPending, Goto, TypeOK
  <2>4. CASE GiveUp(r)
    BY <2>4, EndType DEF GiveUp, TypeOK
  <2>5. QED BY <1>2, <2>1, <2>2, <2>3, <2>4 DEF PlainStep
<1>3. ASSUME NEW r \in Requests, CountSeats(r) PROVE TypeOK'
  BY <1>3 DEF CountSeats, Goto, TypeOK
<1>4. ASSUME NEW r \in Requests, InsertSeat(r) PROVE TypeOK'
  <2>1. who[r] \in Learners
    BY <1>4 DEF InsertSeat, Goto, AboutInv
  <2>2. Cardinality(active \cup {who[r]}) \in Nat
    BY <2>1, CountSets DEF TypeOK
  <2>3. QED BY <1>4, <2>2 DEF InsertSeat, Goto, TypeOK
<1>5. ASSUME NEW r \in Requests, CommitSeat(r) PROVE TypeOK'
  <2>1. who[r] \in Learners /\ Cardinality(active) \in Nat
    BY <1>5, CountSets DEF CommitSeat, AboutInv, TypeOK
  <2>2. active' \subseteq Learners /\ used' \in Nat
    BY <1>5, <2>1 DEF CommitSeat, TypeOK
  <2>3. invite' \in [Invites -> Statuses]
    BY <1>5 DEF CommitSeat, TypeOK, Statuses
  <2>4. QED BY <1>5, <2>2, <2>3, EndType DEF CommitSeat, TypeOK
<1>6. QED BY <1>1, <1>2, <1>3, <1>4, <1>5, NextSteps

-----------------------------------------------------------------------------
(* Invitations and those who redeem them.                                  *)

LEMMA AboutStep == IInv /\ Next => AboutInv'
<1> SUFFICES ASSUME IInv, Next PROVE AboutInv'
  OBVIOUS
<1> USE DEF IInv, invitation, request, TypeOK, AboutInv
<1>1. CASE RowStep
  BY <1>1 DEF RowStep, Patch, Lapse, Revoke, Resend
<1>2. ASSUME NEW r \in Requests, PlainStep(r) PROVE AboutInv'
  <2>1. CASE \/ \E l \in Learners : BeginGrant(r, l) \/ BeginInvite(r, l)
             \/ \E i \in Invites : BeginRedeem(r, i)
    <3>1. PICK k \in {"grant", "invite", "redeem"}, l \in Learners,
               i \in Invites \cup {None}, n \in 0..MaxResends :
            /\ Begin(r, k, l, i, n)
            /\ k = "redeem" => i \in Invites /\ invite[i] = "pending" /\ l = email[i]
      BY <2>1, BeginFacts
    <3>2. QED BY <3>1 DEF Begin, Goto
  <2>2. ASSUME NEW i \in Invites, CreateInvite(r, i) PROVE AboutInv'
    <3>1. who[r] \in Learners
      BY <2>2 DEF CreateInvite
    <3>2. QED BY <2>2, <3>1 DEF CreateInvite, End
  <2>3. CASE CountPending(r)
    BY <2>3 DEF CountPending, Goto
  <2>4. CASE GiveUp(r)
    BY <2>4 DEF GiveUp, End
  <2>5. QED BY <1>2, <2>1, <2>2, <2>3, <2>4 DEF PlainStep
<1>3. ASSUME NEW r \in Requests, CountSeats(r) \/ InsertSeat(r) PROVE AboutInv'
  BY <1>3 DEF CountSeats, InsertSeat, Goto
<1>4. ASSUME NEW r \in Requests, CommitSeat(r) PROVE AboutInv'
  BY <1>4 DEF CommitSeat, End
<1>5. QED BY <1>1, <1>2, <1>3, <1>4, NextSteps

LEMMA TakerStep == IInv /\ Next => TakerInv'
<1> SUFFICES ASSUME IInv, Next PROVE TakerInv'
  OBVIOUS
<1> USE DEF IInv, invitation, request, TypeOK, TakerInv, Taker
<1>1. CASE RowStep
  <2>1. UNCHANGED <<pc, kind, about>>
    BY <1>1 DEF RowStep, Patch, Lapse, Revoke, Resend
  <2>2. ASSUME NEW r \in Requests, Taker(r) PROVE invite'[about[r]] = "pending"
    <3>1. about[r] \in Invites /\ Locked(about[r]) /\ invite[about[r]] = "pending"
      BY <2>2 DEF AboutInv, Locked
    <3>2. QED BY <1>1, <3>1 DEF RowStep, Patch, Lapse, Revoke, Resend
  <2>3. QED BY <2>1, <2>2
<1>2. ASSUME NEW r \in Requests, PlainStep(r) PROVE TakerInv'
  <2>1. CASE \/ \E l \in Learners : BeginGrant(r, l) \/ BeginInvite(r, l)
             \/ \E i \in Invites : BeginRedeem(r, i)
    <3>1. PICK k \in {"grant", "invite", "redeem"}, l \in Learners,
               i \in Invites \cup {None}, n \in 0..MaxResends : Begin(r, k, l, i, n)
      BY <2>1, BeginFacts
    <3>2. QED BY <3>1 DEF Begin, Goto
  <2>2. ASSUME NEW i \in Invites, CreateInvite(r, i) PROVE TakerInv'
    BY <2>2 DEF CreateInvite, End
  <2>3. CASE CountPending(r) \/ GiveUp(r)
    <3>1. /\ UNCHANGED invite
          /\ \A s \in Requests : Taker(s)' => Taker(s) /\ about'[s] = about[s]
      BY <2>3 DEF CountPending, GiveUp, Goto, End
    <3>2. QED BY <3>1
  <2>4. QED BY <1>2, <2>1, <2>2, <2>3 DEF PlainStep
<1>3. ASSUME NEW r \in Requests, CountSeats(r) PROVE TakerInv'
  BY <1>3 DEF CountSeats, Goto
<1>4. ASSUME NEW r \in Requests, InsertSeat(r) PROVE TakerInv'
  <2>1. UNCHANGED <<kind, about, invite>>
    BY <1>4 DEF InsertSeat
  <2>2. \A s \in Requests : Taker(s)' => Taker(s) \/ s = r
    BY <1>4, <2>1 DEF InsertSeat, Goto
  <2>3. kind[r] = "redeem" =>
          /\ invite[about[r]] = "pending"
          /\ \A s \in Requests : Taker(s) => about[s] # about[r]
    BY <1>4 DEF InsertSeat, StillValid, Locked
  <2>4. QED BY <2>1, <2>2, <2>3
<1>5. ASSUME NEW r \in Requests, CommitSeat(r) PROVE TakerInv'
  <2>1. \A s \in Requests : Taker(s)' => s # r /\ Taker(s) /\ about'[s] = about[s]
    BY <1>5 DEF CommitSeat, End
  <2>2. \A s \in Requests : Taker(s)' => invite'[about[s]] = "pending"
    BY <1>5, <2>1 DEF CommitSeat, AboutInv
  <2>3. QED BY <2>1, <2>2
<1>6. QED BY <1>1, <1>2, <1>3, <1>4, <1>5, NextSteps

LEMMA AcceptedStep == IInv /\ Next => AcceptedHasSeat'
<1> SUFFICES ASSUME IInv, Next, NEW i \in Invites, invite'[i] = "accepted"
             PROVE  email'[i] \in active'
  BY DEF AcceptedHasSeat
<1> USE DEF IInv, invitation, TypeOK, AcceptedHasSeat
<1>1. CASE RowStep
  BY <1>1 DEF RowStep, Patch, Lapse, Revoke, Resend
<1>2. ASSUME NEW r \in Requests, PlainStep(r) \/ CountSeats(r) \/ InsertSeat(r)
      PROVE  email'[i] \in active'
  BY <1>2 DEF PlainStep, BeginGrant, BeginInvite, BeginRedeem, Begin, CreateInvite,
              CountPending, GiveUp, CountSeats, InsertSeat
<1>3. ASSUME NEW r \in Requests, CommitSeat(r) PROVE email'[i] \in active'
  <2>1. CASE kind[r] = "redeem" /\ about[r] = i
    BY <1>3, <2>1 DEF CommitSeat, AboutInv
  <2>2. CASE ~(kind[r] = "redeem" /\ about[r] = i)
    BY <1>3, <2>2 DEF CommitSeat
  <2>3. QED BY <2>1, <2>2
<1>4. QED BY <1>1, <1>2, <1>3, NextSteps

LEMMA SettledStep ==
  IInv /\ Next => \A i \in Invites :
    invite[i] \in {"accepted", "revoked"} => invite'[i] = invite[i]
<1> SUFFICES ASSUME IInv, Next, NEW i \in Invites,
                    invite[i] \in {"accepted", "revoked"}
             PROVE  invite'[i] = invite[i]
  OBVIOUS
<1> USE DEF IInv, invitation, TypeOK
<1>1. CASE RowStep
  BY <1>1 DEF RowStep, Patch, Lapse, Revoke, Resend
<1>2. ASSUME NEW r \in Requests, PlainStep(r) \/ CountSeats(r) \/ InsertSeat(r)
      PROVE  invite'[i] = invite[i]
  BY <1>2 DEF PlainStep, BeginGrant, BeginInvite, BeginRedeem, Begin, CreateInvite,
              CountPending, GiveUp, CountSeats, InsertSeat
<1>3. ASSUME NEW r \in Requests, CommitSeat(r) PROVE invite'[i] = invite[i]
  BY <1>3 DEF CommitSeat, TakerInv, Taker
<1>4. QED BY <1>1, <1>2, <1>3, NextSteps

-----------------------------------------------------------------------------
(* Seats.                                                                  *)

SeatInv == CountInv /\ FilledInv /\ UsedNeverOverstates

\* No request comes nearer to a seat.
Quiet ==
  /\ UNCHANGED <<used, active>>
  /\ Filling' \subseteq Filling
  /\ \A r \in Requests : pc'[r] = "seated" =>
       pc[r] = "seated" /\ count'[r] = count[r] /\ who'[r] = who[r]

LEMMA QuietKeepsSeats ==
  ASSUME IInv, Quiet
  PROVE  SeatInv'
<1> USE DEF IInv, Quiet
<1>1. CountInv' /\ UsedNeverOverstates'
  BY DEF CountInv, UsedNeverOverstates
<1>2. Filling \subseteq Requests
  BY DEF Filling
<1>3. /\ Cardinality(Filling') \in Nat /\ Cardinality(Filling) \in Nat
      /\ Cardinality(Filling') <= Cardinality(Filling)
  BY <1>2, CountSets
<1>4. Cardinality(active) \in Nat
  BY CountSets DEF TypeOK
<1>5. FilledInv'
  BY <1>3, <1>4, SomeRequest, SeatsAssumption DEF FilledInv
<1>6. QED BY <1>1, <1>5 DEF SeatInv

LEMMA RowSeats == IInv /\ RowStep => SeatInv'
<1> SUFFICES ASSUME IInv, RowStep PROVE SeatInv'
  OBVIOUS
<1>1. UNCHANGED <<used, active, request>>
  BY DEF RowStep, Patch, Lapse, Revoke, Resend, workshop
<1>2. Quiet
  BY <1>1 DEF Quiet, Filling, request
<1>3. QED BY <1>2, QuietKeepsSeats

LEMMA PlainSeats ==
  ASSUME IInv, NEW r \in Requests, PlainStep(r)
  PROVE  SeatInv'
<1> USE DEF IInv, TypeOK
<1>1. CASE \/ \E l \in Learners : BeginGrant(r, l) \/ BeginInvite(r, l)
           \/ \E i \in Invites : BeginRedeem(r, i)
  <2>1. PICK k \in {"grant", "invite", "redeem"}, l \in Learners,
             i \in Invites \cup {None}, n \in 0..MaxResends : Begin(r, k, l, i, n)
    BY <1>1, BeginFacts
  <2>2. Quiet
    BY <2>1 DEF Quiet, Filling, Begin, Goto
  <2>3. QED BY <2>2, QuietKeepsSeats
<1>2. CASE CountPending(r)
  <2>1. Quiet
    BY <1>2 DEF Quiet, Filling, CountPending, Goto
  <2>2. QED BY <2>1, QuietKeepsSeats
<1>3. CASE GiveUp(r) \/ \E i \in Invites : CreateInvite(r, i)
  <2>1. UNCHANGED <<used, active>> /\ End(r)
    BY <1>3 DEF GiveUp, CreateInvite
  <2>2. Quiet
    BY <2>1 DEF Quiet, Filling, End
  <2>3. QED BY <2>2, QuietKeepsSeats
<1>4. QED BY <1>1, <1>2, <1>3 DEF PlainStep

\* The second count passes only if there is a free seat, whoever else is
\* about to fill one.
LEMMA CountSeatsSeats ==
  ASSUME IInv, NEW r \in Requests, CountSeats(r)
  PROVE  SeatInv'
<1> USE DEF IInv, TypeOK
<1>1. UNCHANGED <<used, active, count, who>>
  BY DEF CountSeats
<1>2. \A s \in Requests : pc'[s] = "seated" => pc[s] = "seated"
  BY DEF CountSeats, Goto
<1>3. CountInv' /\ UsedNeverOverstates'
  BY <1>1, <1>2 DEF CountInv, UsedNeverOverstates
<1>4. Cardinality(active) \in Nat /\ Cardinality(active) < read[r].cap
  BY CountSets DEF CountSeats
<1>5. read[r].cap \in Nat /\ read[r].cap <= MaxCap
  BY SeatsAssumption
<1>6. Filling' \subseteq Requests
  BY DEF Filling
<1>7. Cardinality(Filling') \in Nat /\ Cardinality(Filling') <= Cardinality(Requests)
  BY <1>6, CountSets
<1>8. FilledInv'
  BY <1>1, <1>4, <1>5, <1>7, SomeRequest, SeatsAssumption DEF FilledInv
<1>9. QED BY <1>3, <1>8 DEF SeatInv

LEMMA InsertSeats ==
  ASSUME IInv, NEW r \in Requests, InsertSeat(r)
  PROVE  SeatInv'
<1> USE DEF IInv, TypeOK
<1>1. UNCHANGED <<used, active, who>>
  BY DEF InsertSeat
<1>2. Filling' = Filling
  BY DEF Filling, InsertSeat, Goto
<1>3. FilledInv' /\ UsedNeverOverstates'
  BY <1>1, <1>2 DEF FilledInv, UsedNeverOverstates
<1>4. who[r] \in Learners
  BY DEF InsertSeat, Goto, AboutInv
<1>5. Cardinality(active \cup {who[r]}) \in Nat
  BY <1>4, CountSets
<1>6. count'[r] <= Cardinality(active' \cup {who'[r]})
  BY <1>1, <1>5 DEF InsertSeat
<1>7. \A s \in Requests \ {r} : pc'[s] = pc[s] /\ count'[s] = count[s]
  BY DEF InsertSeat, Goto
<1>8. CountInv'
  BY <1>1, <1>6, <1>7 DEF CountInv
<1>9. QED BY <1>3, <1>8 DEF SeatInv

LEMMA CommitSeats ==
  ASSUME IInv, NEW r \in Requests, CommitSeat(r)
  PROVE  SeatInv'
<1> USE DEF IInv, TypeOK
<1>1. who[r] \in Learners /\ pc[r] = "seated"
  BY DEF CommitSeat, AboutInv
<1>2. active' = active \cup {who[r]} /\ active' \subseteq Learners
  BY <1>1 DEF CommitSeat
<1>3. /\ IsFiniteSet(active)
      /\ Cardinality(active) \in Nat /\ Cardinality(active') \in Nat
      /\ Cardinality(active) <= Cardinality(active')
  BY <1>2, CountSets
<1>4. \A s \in Requests \ {r} :
        pc'[s] = pc[s] /\ count'[s] = count[s] /\ who'[s] = who[s]
  BY DEF CommitSeat, End
<1>5. pc'[r] = "idle"
  BY DEF CommitSeat, End
<1>6. CountInv'
  <2> SUFFICES ASSUME NEW s \in Requests, pc'[s] = "seated"
               PROVE  count'[s] <= Cardinality(active' \cup {who'[s]})
    BY DEF CountInv
  <2>1. s # r /\ pc[s] = "seated" /\ count'[s] = count[s] /\ who'[s] = who[s]
    BY <1>4, <1>5
  <2>2. who[s] \in Learners /\ count[s] \in Nat
    BY <2>1 DEF AboutInv
  <2>3. /\ Cardinality(active \cup {who[s]}) \in Nat
        /\ Cardinality(active' \cup {who[s]}) \in Nat
        /\ Cardinality(active \cup {who[s]}) <= Cardinality(active' \cup {who[s]})
    BY <1>2, <2>2, CountSets
  <2>4. count[s] <= Cardinality(active \cup {who[s]})
    BY <2>1 DEF CountInv
  <2>5. QED BY <2>1, <2>2, <2>3, <2>4
<1>7. UsedNeverOverstates'
  <2>1. CASE who[r] \in active
    <3>1. used' = Cardinality(active) /\ active' = active
      BY <2>1, <1>2 DEF CommitSeat
    <3>2. QED BY <3>1, <1>3 DEF UsedNeverOverstates
  <2>2. CASE who[r] \notin active
    <3>1. used' = count[r] /\ count[r] <= Cardinality(active')
      BY <2>2, <1>1, <1>2 DEF CommitSeat, CountInv
    <3>2. QED BY <3>1 DEF UsedNeverOverstates
  <2>3. QED BY <2>1, <2>2
<1>8. Filling' = Filling \ {r} /\ r \in Filling /\ Filling \subseteq Requests
  BY <1>1, <1>4, <1>5 DEF Filling
<1>9. /\ Cardinality(Filling) \in Nat
      /\ Cardinality(Filling') = Cardinality(Filling) - 1
  BY <1>8, CountSets, FS_RemoveElement
<1>10. Cardinality(active') <= Cardinality(active) + 1
  <2>1. Cardinality(active \cup {who[r]}) =
          IF who[r] \in active THEN Cardinality(active) ELSE Cardinality(active) + 1
    BY <1>3, FS_AddElement
  <2>2. QED BY <1>2, <1>3, <2>1
<1>11. FilledInv'
  BY <1>3, <1>9, <1>10, SomeRequest, SeatsAssumption DEF FilledInv
<1>12. QED BY <1>6, <1>7, <1>11 DEF SeatInv

-----------------------------------------------------------------------------
(* The theorems.                                                           *)

LEMMA NextIInv == IInv /\ [Next]_vars => IInv'
<1> SUFFICES ASSUME IInv, [Next]_vars PROVE IInv'
  OBVIOUS
<1>1. CASE Next
  <2>1. SeatInv'
    BY <1>1, NextSteps, RowSeats, PlainSeats, CountSeatsSeats, InsertSeats, CommitSeats
  <2>2. QED BY <1>1, <2>1, TypeStep, AboutStep, TakerStep, AcceptedStep DEF IInv, SeatInv
<1>2. CASE UNCHANGED vars
  BY <1>2 DEF vars, workshop, invitation, request, IInv, TypeOK, AboutInv, TakerInv,
              Taker, CountInv, FilledInv, Filling, UsedNeverOverstates, AcceptedHasSeat
<1>3. QED BY <1>1, <1>2

\* The inductive invariant holds throughout.
THEOREM Invariance == Spec => []IInv
BY InitIInv, NextIInv, PTL DEF Spec

\* Every variable keeps its type, whatever races.
THEOREM TypeCorrect == Spec => []TypeOK
<1>1. IInv => TypeOK
  BY DEF IInv
<1>2. QED BY <1>1, Invariance, PTL

\* Concurrent grants overfill a workshop by less than their number.
THEOREM OvershootIsBounded == Spec => []OvershootBounded
<1>1. IInv => OvershootBounded
  <2> SUFFICES ASSUME IInv PROVE OvershootBounded
    OBVIOUS
  <2>1. Cardinality(Filling) \in Nat
    BY CountSets DEF Filling
  <2>2. Cardinality(active) \in Nat
    BY CountSets DEF IInv, TypeOK
  <2>3. QED BY <2>1, <2>2, SomeRequest, SeatsAssumption
               DEF IInv, FilledInv, OvershootBounded
<1>2. QED BY <1>1, Invariance, PTL

\* used_seats never says more than there are seats taken.
THEOREM NoOverstatement == Spec => []UsedNeverOverstates
<1>1. IInv => UsedNeverOverstates
  BY DEF IInv
<1>2. QED BY <1>1, Invariance, PTL

\* Whose invitation is accepted has a seat.
THEOREM AcceptedSeated == Spec => []AcceptedHasSeat
<1>1. IInv => AcceptedHasSeat
  BY DEF IInv
<1>2. QED BY <1>1, Invariance, PTL

\* An invitation that is accepted or revoked stays so.
THEOREM SettledOnce == Spec => InvitesSettleOnce
<1> DEFINE Kept == \A i \in Invites :
                     invite[i] \in {"accepted", "revoked"} => invite'[i] = invite[i]
<1>1. IInv /\ [Next]_vars => [Kept]_vars
  BY SettledStep
<1>2. Spec => [][Kept]_vars
  BY <1>1, Invariance, PTL DEF Spec
<1>3. QED BY <1>2 DEF InvitesSettleOnce

-----------------------------------------------------------------------------
(* The requests implement SeatRegister.                                    *)

\* Edits of the workshop, and an invitation that lapses or is sent again,
\* touch no seat and no status; a revocation is one.
LEMMA RowsImplement ==
  ASSUME IInv, RowStep
  PROVE  UNCHANGED Register!vars \/ Register!Next
<1> USE DEF IInv, TypeOK, invitation
<1>1. ASSUME NEW i \in Invites, Revoke(i) PROVE Register!Revoke(i)
  BY <1>1 DEF Revoke, Register!Revoke, Register!Settle
<1>2. CASE \/ \E c \in 0..MaxCap, o \in BOOLEAN : Patch(c, o)
           \/ \E i \in Invites : Lapse(i) \/ Resend(i)
  BY <1>2 DEF Patch, Lapse, Resend, Register!vars
<1>3. CASE \E i \in Invites : Revoke(i)
  BY <1>1, <1>3 DEF Register!Next
<1>4. QED BY <1>2, <1>3 DEF RowStep

\* Until its last step a request shows nobody anything; what it inserts is an
\* invitation of an address that has none open.
LEMMA WorkImplements ==
  ASSUME IInv, NEW r \in Requests,
         PlainStep(r) \/ CountSeats(r) \/ InsertSeat(r)
  PROVE  UNCHANGED Register!vars \/ Register!Next
<1>1. ASSUME NEW i \in Invites, CreateInvite(r, i)
      PROVE  Register!Next
  <2>1. who[r] \in Learners
    BY <1>1 DEF CreateInvite, IInv, AboutInv
  <2>2. Register!Invite(i, who[r])
    BY <1>1 DEF CreateInvite, Pending, Register!Invite
  <2>3. QED BY <2>1, <2>2 DEF Register!Next
<1>2. CASE \A i \in Invites : ~CreateInvite(r, i)
  BY <1>2 DEF PlainStep, BeginGrant, BeginInvite, BeginRedeem, Begin, CountPending,
              GiveUp, CountSeats, InsertSeat, invitation, Register!vars
<1>3. QED BY <1>1, <1>2

\* The commit seats the learner within the limit, and a redeem accepts its
\* invitation, which is still the pending one it had read.
LEMMA CommitImplements ==
  ASSUME IInv, NEW r \in Requests, CommitSeat(r)
  PROVE  Register!Next
<1> DEFINE l == who[r]
           i == about[r]
<1>1. pc[r] = "seated" /\ l \in Learners /\ UNCHANGED email
  BY DEF CommitSeat, IInv, AboutInv
<1>2. Cardinality(active) < MaxCap + Cardinality(Requests) - 1
  <2>1. Filling \subseteq Requests /\ r \in Filling
    BY <1>1 DEF Filling
  <2>2. Cardinality(Filling) \in Nat /\ Cardinality(Filling) # 0
    BY <2>1, CountSets, FS_EmptySet
  <2>3. Cardinality(active) \in Nat
    BY CountSets DEF IInv, TypeOK
  <2>4. QED BY <2>2, <2>3, SomeRequest, SeatsAssumption DEF IInv, FilledInv
<1>3. Register!Seat(l)
  <2>1. Register!Cardinality(active) = Cardinality(active)
    BY Zenon DEF Cardinality, Register!Cardinality
  <2>2. QED BY <1>2, <2>1 DEF CommitSeat, Register!Seat
<1>4. CASE kind[r] = "redeem"
  <2>1. i \in Invites /\ l = email[i] /\ invite[i] = "pending"
    BY <1>1, <1>4 DEF IInv, AboutInv, TakerInv, Taker
  <2>2. invite' = [invite EXCEPT ![i] = "accepted"]
    BY <1>4 DEF CommitSeat
  <2>3. Register!Redeem(i)
    BY <1>1, <1>3, <2>1, <2>2 DEF Register!Redeem, Register!Settle
  <2>4. QED BY <2>1, <2>3 DEF Register!Next
<1>5. CASE kind[r] # "redeem"
  <2>1. Register!Grant(l)
    BY <1>1, <1>3, <1>5 DEF CommitSeat, Register!Grant
  <2>2. QED BY <1>1, <2>1 DEF Register!Next
<1>6. QED BY <1>4, <1>5

\* Grants, invitations and redeems, interleaved as they may be, do what
\* SeatRegister says, for any number of learners, invitations and requests.
THEOREM ImplementsRegister == Spec => RefinesRegister
<1>1. Init => Register!Init
  BY DEF Init, Register!Init
<1>2. IInv /\ [Next]_vars => [Register!Next]_(Register!vars)
  <2> SUFFICES ASSUME IInv, [Next]_vars
               PROVE  UNCHANGED Register!vars \/ Register!Next
    OBVIOUS
  <2>1. CASE UNCHANGED vars
    BY <2>1 DEF vars, invitation, Register!vars
  <2>2. CASE Next
    BY <2>2, NextSteps, RowsImplement, WorkImplements, CommitImplements
  <2>3. QED BY <2>1, <2>2
<1>3. QED BY <1>1, <1>2, Invariance, PTL DEF Spec, RefinesRegister, Register!Spec
=============================================================================
