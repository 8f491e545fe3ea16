--------------------------- MODULE LabAccessProofs ---------------------------
(***************************************************************************)
(* What holds of the keys of a deployment for any users, keys and requests *)
(* in progress, any lifetimes and any time of expiry.                      *)
(*                                                                         *)
(* That a device joins in time needs the expiry a request has computed to  *)
(* be right when the key is minted, however much later that is: memberAt   *)
(* and lag only grow and the deployment's expiry stays (RequestInv).  The  *)
(* count of unrecorded keys needs those whose request is gone (Lost)       *)
(* counted apart from those that are still on their way.                   *)
(***************************************************************************)
EXTENDS LabAccess, FiniteSetTheorems, FunctionTheorems, TLAPS

\* A member is one now, and nobody was one in the future.
MemberInv ==
  \A u \in Users : memberAt[u] <= now /\ (u \in members => memberAt[u] = now)

\* The expiry a lab's key gets is within the lab's and its user's time.
InTime(u, t) == t <= Expiry /\ t <= memberAt[u] + KeyTTL + lag

HasKey(r) == pc[r] \in {"minted", "stored"}

RequestInv ==
  \A r \in Requests :
    /\ IF pc[r] = "idle" THEN ~lab[r] ELSE user[r] \in Users
    /\ pc[r] = "member" => seenAt[r] <= memberAt[user[r]]
    /\ pc[r] \notin {"idle", "deployment", "member"} /\ lab[r] =>
         InTime(user[r], until[r])
    /\ pc[r] = "ensured" => user[r] \in known
    /\ pc[r] \in {"identified", "minted", "stored"} => user[r] \in identity
    /\ HasKey(r) =>
         /\ key[r] \in Keys /\ minted[key[r]] # None
         /\ minted[key[r]].lab = lab[r]
    /\ pc[r] = "stored" => key[r] \in stored

KeyInv ==
  /\ \A k \in Keys : minted[k] # None /\ minted[k].lab =>
       InTime(minted[k].user, minted[k].exp)
  /\ \A k \in given : minted[k] # None

IInv == TypeOK /\ MemberInv /\ RequestInv /\ KeyInv /\ IdentitiesExist

LEMMA InitIInv == Init => IInv
<1> SUFFICES ASSUME Init PROVE IInv
  OBVIOUS
<1> USE AccessAssumption DEF Init
<1>1. TypeOK
  BY DEF TypeOK
<1>2. MemberInv /\ RequestInv /\ KeyInv /\ IdentitiesExist
  BY DEF MemberInv, RequestInv, HasKey, KeyInv, IdentitiesExist
<1>3. QED BY <1>1, <1>2 DEF IInv

-----------------------------------------------------------------------------
(* Time, members, devices.                                                 *)

OutsideStep ==
  \/ Tick \/ Teardown
  \/ \E u \in Users : AddParticipant(u) \/ RemoveParticipant(u)
  \/ \E k \in Keys : Register(k)

LEMMA OutsideIInv ==
  ASSUME IInv, OutsideStep
  PROVE  IInv'
<1> USE AccessAssumption DEF tables, headscale, request, history
<1>1. CASE Tick
  <2> USE <1>1 DEF Tick
  <2>1. TypeOK'
    BY DEF IInv, TypeOK
  <2>2. MemberInv' /\ \A u \in Users : memberAt[u] <= memberAt'[u]
    BY DEF IInv, TypeOK, MemberInv
  <2>3. RequestInv'
    BY <2>2 DEF IInv, TypeOK, RequestInv, HasKey, InTime
  <2>4. KeyInv' /\ IdentitiesExist'
    BY <2>2 DEF IInv, TypeOK, KeyInv, InTime, IdentitiesExist
  <2>5. QED BY <2>1, <2>2, <2>3, <2>4 DEF IInv
<1>2. ASSUME NEW u \in Users, AddParticipant(u) PROVE IInv'
  <2> USE <1>2 DEF AddParticipant
  <2>1. TypeOK'
    BY DEF IInv, TypeOK
  <2>2. MemberInv' /\ \A v \in Users : memberAt[v] <= memberAt'[v]
    BY DEF IInv, TypeOK, MemberInv
  <2>3. RequestInv'
    BY <2>2 DEF IInv, TypeOK, RequestInv, HasKey, InTime
  <2>4. KeyInv' /\ IdentitiesExist'
    BY <2>2 DEF IInv, TypeOK, KeyInv, InTime, IdentitiesExist
  <2>5. QED BY <2>1, <2>2, <2>3, <2>4 DEF IInv
<1>3. CASE Teardown \/ \E u \in Users : RemoveParticipant(u)
  <2> USE <1>3 DEF Teardown, RemoveParticipant
  <2>1. TypeOK' /\ MemberInv'
    <3>1. TypeOK'
      BY DEF IInv, TypeOK
    <3>2. MemberInv'
      BY DEF IInv, MemberInv
    <3>3. QED BY <3>1, <3>2
  <2>2. RequestInv' /\ KeyInv' /\ IdentitiesExist'
    BY DEF IInv, RequestInv, HasKey, KeyInv, InTime, IdentitiesExist
  <2>3. QED BY <2>1, <2>2 DEF IInv
<1>4. ASSUME NEW k \in Keys, Register(k) PROVE IInv'
  <2> USE <1>4 DEF Register
  <2>1. TypeOK' /\ MemberInv'
    BY DEF IInv, TypeOK, MemberInv
  <2>2. RequestInv' /\ KeyInv' /\ IdentitiesExist'
    BY DEF IInv, RequestInv, HasKey, KeyInv, InTime, IdentitiesExist
  <2>3. QED BY <2>1, <2>2 DEF IInv
<1>5. QED BY <1>1, <1>2, <1>3, <1>4 DEF OutsideStep

-----------------------------------------------------------------------------
(* Requests before they have a key.                                        *)

\* Steps that change nothing but what the request itself holds.
ReadStep(r) ==
  \/ \E u \in Users : ReadDeployment(r, u) \/ DeviceToken(r, u)
  \/ CheckMember(r) \/ ComputeExpiry(r) \/ GetIdentity(r) \/ ListUsers(r)
  \/ GiveUp(r) \/ Die(r)

LEMMA ReadStepIInv ==
  ASSUME IInv, NEW r \in Requests, ReadStep(r)
  PROVE  IInv'
<1> USE AccessAssumption DEF tables, headscale, history
<1>1. /\ UNCHANGED <<now, running, members, identity, known, minted, stored,
                     audit, joined, memberAt>>
      /\ lag' \in Nat /\ lag <= lag'
      /\ UNCHANGED given
  BY DEF ReadStep, ReadDeployment, DeviceToken, CheckMember, ComputeExpiry,
         Greater, GetIdentity, ListUsers, GiveUp, Die, IInv, TypeOK, RequestInv,
         MemberInv
<1>2. MemberInv' /\ KeyInv' /\ IdentitiesExist'
  BY <1>1 DEF IInv, TypeOK, MemberInv, KeyInv, InTime, IdentitiesExist
<1>3. ASSUME NEW u \in Users, ReadDeployment(r, u) PROVE IInv'
  <2> USE <1>3 DEF ReadDeployment, Goto
  <2>1. TypeOK'
    BY DEF IInv, TypeOK
  <2>2. RequestInv'
    BY <1>1 DEF IInv, TypeOK, RequestInv, HasKey, InTime
  <2>3. QED BY <1>2, <2>1, <2>2 DEF IInv
<1>4. ASSUME NEW u \in Users, DeviceToken(r, u) PROVE IInv'
  <2> USE <1>4 DEF DeviceToken, Goto
  <2>1. TypeOK'
    BY DEF IInv, TypeOK
  <2>2. RequestInv'
    BY <1>1 DEF IInv, TypeOK, RequestInv, HasKey, InTime
  <2>3. QED BY <1>2, <2>1, <2>2 DEF IInv
<1>5. CASE CheckMember(r)
  <2> USE <1>5 DEF CheckMember, Goto
  <2>1. TypeOK'
    BY DEF IInv, TypeOK
  <2>2. memberAt[user[r]] = now /\ user[r] \in Users
    BY DEF IInv, MemberInv, RequestInv
  <2>3. RequestInv'
    BY <1>1, <2>2 DEF IInv, TypeOK, RequestInv, HasKey, InTime
  <2>4. QED BY <1>2, <2>1, <2>3 DEF IInv
<1>10. CASE ComputeExpiry(r)
  <2> USE <1>10 DEF ComputeExpiry, Goto
  <2>1. /\ user[r] \in Users /\ seenAt[r] <= memberAt[user[r]]
        /\ memberAt[user[r]] <= now /\ memberAt[user[r]] \in Nat
        /\ seenAt[r] \in Nat /\ now \in Nat /\ lag \in Nat
    BY DEF IInv, TypeOK, MemberInv, RequestInv
  <2>2. /\ lag' \in Nat /\ now - seenAt[r] <= lag'
        /\ until'[r] \in Nat /\ until'[r] <= Expiry /\ until'[r] <= now + KeyTTL
    BY <2>1 DEF Greater, Lesser, IInv, TypeOK
  <2>3. TypeOK'
    BY <1>1, <2>2 DEF IInv, TypeOK
  <2>4. until'[r] <= memberAt[user[r]] + KeyTTL + lag'
    BY <2>1, <2>2
  <2>5. RequestInv'
    <3> SUFFICES ASSUME NEW q \in Requests PROVE RequestInv!(q)'
      BY DEF RequestInv
    <3>1. CASE q = r
      BY <1>1, <2>1, <2>2, <2>4, <3>1 DEF IInv, TypeOK, RequestInv, HasKey, InTime
    <3>2. CASE q # r
      BY <1>1, <3>2 DEF IInv, TypeOK, RequestInv, HasKey, InTime
    <3>3. QED BY <3>1, <3>2
  <2>6. QED BY <1>2, <2>3, <2>5 DEF IInv
<1>6. CASE GetIdentity(r)
  <2> USE <1>6 DEF GetIdentity, Goto
  <2>1. TypeOK'
    BY DEF IInv, TypeOK
  <2>2. RequestInv'
    BY <1>1 DEF IInv, TypeOK, RequestInv, HasKey, InTime
  <2>3. QED BY <1>2, <2>1, <2>2 DEF IInv
<1>7. CASE ListUsers(r)
  <2> USE <1>7 DEF ListUsers, Goto
  <2>1. TypeOK'
    BY DEF IInv, TypeOK
  <2>2. RequestInv'
    BY <1>1 DEF IInv, TypeOK, RequestInv, HasKey, InTime
  <2>3. QED BY <1>2, <2>1, <2>2 DEF IInv
<1>8. CASE GiveUp(r) \/ Die(r)
  <2> USE <1>8 DEF GiveUp, Die, Answer
  <2>0. faults' \in 0..MaxFaults
    BY DEF IInv, TypeOK
  <2>1. TypeOK'
    <3>1. pc' = [pc EXCEPT ![r] = "idle"] /\ user' = [user EXCEPT ![r] = None]
      OBVIOUS
    <3>2. /\ lab' = [lab EXCEPT ![r] = FALSE] /\ until' = [until EXCEPT ![r] = 0]
          /\ key' = [key EXCEPT ![r] = None]
          /\ seenAt' = [seenAt EXCEPT ![r] = 0] \/ UNCHANGED seenAt
          /\ UNCHANGED lag
      OBVIOUS
    <3> HIDE <1>8
    <3>3. QED BY <1>1, <2>0, <3>1, <3>2 DEF IInv, TypeOK
  <2>2. RequestInv'
    BY <1>1 DEF IInv, TypeOK, RequestInv, HasKey, InTime
  <2>3. QED BY <1>2, <2>1, <2>2 DEF IInv
<1>9. QED BY <1>3, <1>4, <1>5, <1>6, <1>7, <1>8, <1>10 DEF ReadStep

-----------------------------------------------------------------------------
(* Headscale, the tables, the answer.                                      *)

MintStep(r) ==
  \/ CreateUser(r) \/ UpsertIdentity(r) \/ \E k \in Keys : CreateKey(r, k)
  \/ InsertKey(r) \/ Give(r) \/ GiveUnlogged(r)

LEMMA MintStepIInv ==
  ASSUME IInv, NEW r \in Requests, MintStep(r)
  PROVE  IInv'
<1> USE AccessAssumption DEF tables, headscale, history, Goto
<1>1. MemberInv'
  BY DEF IInv, MemberInv, MintStep, CreateUser, UpsertIdentity, CreateKey,
         InsertKey, Give, GiveUnlogged
<1>2. CASE CreateUser(r)
  <2> USE <1>2 DEF CreateUser
  <2>1. TypeOK'
    BY DEF IInv, TypeOK, RequestInv
  <2>2. RequestInv'
    BY DEF IInv, TypeOK, RequestInv, HasKey, InTime
  <2>3. KeyInv' /\ IdentitiesExist'
    BY DEF IInv, KeyInv, InTime, IdentitiesExist
  <2>4. QED BY <1>1, <2>1, <2>2, <2>3 DEF IInv
<1>3. CASE UpsertIdentity(r)
  <2> USE <1>3 DEF UpsertIdentity
  <2>1. TypeOK'
    BY DEF IInv, TypeOK, RequestInv
  <2>2. RequestInv'
    BY DEF IInv, TypeOK, RequestInv, HasKey, InTime
  <2>3. KeyInv' /\ IdentitiesExist'
    BY DEF IInv, RequestInv, KeyInv, InTime, IdentitiesExist
  <2>4. QED BY <1>1, <2>1, <2>2, <2>3 DEF IInv
<1>4. ASSUME NEW k \in Keys, CreateKey(r, k) PROVE IInv'
  <2> DEFINE new == [user |-> user[r], exp |-> until[r], lab |-> lab[r]]
  <2> USE <1>4 DEF CreateKey
  <2>1. new \in [user : Users, exp : Nat, lab : BOOLEAN]
    BY DEF IInv, TypeOK, RequestInv
  <2>2. /\ minted' \in [Keys -> [user : Users, exp : Nat, lab : BOOLEAN] \cup {None}]
        /\ minted'[k] = new /\ \A j \in Keys \ {k} : minted'[j] = minted[j]
        /\ new # None
    BY <2>1 DEF IInv, TypeOK
  <2> HIDE DEF new
  <2>3. TypeOK'
    BY <2>2 DEF IInv, TypeOK
  <2>4. new.user = user[r] /\ new.exp = until[r] /\ new.lab = lab[r]
    BY DEF new
  <2>5. RequestInv'
    <3> SUFFICES ASSUME NEW q \in Requests PROVE RequestInv!(q)'
      BY DEF RequestInv
    <3>1. CASE q = r
      BY <2>2, <2>4, <3>1 DEF IInv, TypeOK, RequestInv, HasKey, InTime
    <3>2. CASE q # r
      BY <2>2, <3>2 DEF IInv, TypeOK, RequestInv, HasKey, InTime
    <3>3. QED BY <3>1, <3>2
  <2>6. KeyInv'
    BY <2>2, <2>4 DEF IInv, TypeOK, RequestInv, KeyInv, InTime
  <2>7. IdentitiesExist'
    BY <2>2, <2>4 DEF IInv, RequestInv, IdentitiesExist
  <2>8. QED BY <1>1, <2>3, <2>5, <2>6, <2>7 DEF IInv
<1>5. CASE InsertKey(r)
  <2> USE <1>5 DEF InsertKey
  <2>1. TypeOK'
    BY DEF IInv, TypeOK, RequestInv, HasKey
  <2>2. RequestInv'
    BY DEF IInv, TypeOK, RequestInv, HasKey, InTime
  <2>3. KeyInv' /\ IdentitiesExist'
    BY DEF IInv, KeyInv, InTime, IdentitiesExist
  <2>4. QED BY <1>1, <2>1, <2>2, <2>3 DEF IInv
<1>6. CASE Give(r)
  <2> USE <1>6 DEF Give, Answer
  <2>1. TypeOK'
    BY DEF IInv, TypeOK, RequestInv, HasKey
  <2>2. RequestInv'
    BY DEF IInv, TypeOK, RequestInv, HasKey, InTime
  <2>3. KeyInv' /\ IdentitiesExist'
    BY DEF IInv, RequestInv, HasKey, KeyInv, InTime, IdentitiesExist
  <2>4. QED BY <1>1, <2>1, <2>2, <2>3 DEF IInv
<1>7. CASE GiveUnlogged(r)
  <2> USE <1>7 DEF GiveUnlogged, Answer
  <2>1. TypeOK'
    BY DEF IInv, TypeOK, RequestInv, HasKey
  <2>2. RequestInv'
    BY DEF IInv, TypeOK, RequestInv, HasKey, InTime
  <2>3. KeyInv' /\ IdentitiesExist'
    BY DEF IInv, RequestInv, HasKey, KeyInv, InTime, IdentitiesExist
  <2>4. QED BY <1>1, <2>1, <2>2, <2>3 DEF IInv
<1>8. QED BY <1>2, <1>3, <1>4, <1>5, <1>6, <1>7 DEF MintStep

LEMMA NextIInv == IInv /\ [Next]_vars => IInv'
<1> SUFFICES ASSUME IInv, [Next]_vars PROVE IInv'
  OBVIOUS
<1>1. CASE UNCHANGED vars
  BY <1>1 DEF vars, tables, headscale, request, history, IInv, TypeOK, MemberInv,
              RequestInv, HasKey, KeyInv, InTime, IdentitiesExist
<1>2. CASE OutsideStep
  BY <1>2, OutsideIInv
<1>3. ASSUME NEW r \in Requests, ReadStep(r) \/ MintStep(r) PROVE IInv'
  BY <1>3, ReadStepIInv, MintStepIInv
<1>4. QED BY <1>1, <1>2, <1>3 DEF Next, Step, OutsideStep, ReadStep, MintStep

LEMMA Invariance == Spec => []IInv
BY InitIInv, NextIInv, PTL DEF Spec

-----------------------------------------------------------------------------
(* The theorems.                                                           *)

\* Every column, every key and every request holds what its type says.
THEOREM TypeCorrect == Spec => []TypeOK
<1>1. IInv => TypeOK
  BY DEF IInv
<1>2. QED BY <1>1, Invariance, PTL

\* Whatever mint_preauth_key did before it died, and however many first
\* requests of one user met: no row and no key without its Headscale user.
THEOREM IdentitiesExistAlways == Spec => []IdentitiesExist
<1>1. IInv => IdentitiesExist
  BY DEF IInv
<1>2. QED BY <1>1, Invariance, PTL

\* A device joins a lab before it expires, and within a key's lifetime of its
\* user's last membership, but for what a request took to read its clock.
THEOREM DevicesJoinInTime == Spec => JoinsInTime
<1>1. ASSUME IInv, NEW k \in Keys, Register(k), minted[k].lab
      PROVE  now < Expiry /\ now < memberAt[minted[k].user] + KeyTTL + lag
  <2>1. k \in given /\ now < minted[k].exp
    BY <1>1 DEF Register
  <2>2. minted[k] \in [user : Users, exp : Nat, lab : BOOLEAN]
        /\ InTime(minted[k].user, minted[k].exp)
    BY <1>1, <2>1 DEF IInv, TypeOK, KeyInv
  <2>3. QED
    BY <1>1, <2>1, <2>2, AccessAssumption DEF InTime, IInv, TypeOK
<1>2. IInv /\ [Next]_vars =>
        [\A k \in Keys : Register(k) /\ minted[k].lab =>
           now < Expiry /\ now < memberAt[minted[k].user] + KeyTTL + lag]_vars
  BY <1>1
<1>3. QED BY <1>2, Invariance, PTL DEF Spec, JoinsInTime

-----------------------------------------------------------------------------
(* The keys nobody has recorded.                                           *)

Sending == {r \in Requests : HasKey(r)}

\* Unrecorded keys whose request is gone.
Lost == {k \in Unrecorded : \A r \in Sending : key[r] # k}

LEMMA LostStep ==
  ASSUME IInv, [Next]_vars
  PROVE  \/ Lost' \subseteq Lost /\ faults' = faults
         \/ \E k \in Keys : Lost' \subseteq Lost \cup {k} /\ faults' = faults + 1
<1> USE DEF Lost, Unrecorded, Sending, HasKey, tables, headscale, history
<1>1. CASE UNCHANGED vars
  BY <1>1 DEF vars, request
<1>2. CASE OutsideStep
  BY <1>2 DEF OutsideStep, Tick, Teardown, AddParticipant, RemoveParticipant,
              Register, request
<1>3. ASSUME NEW r \in Requests, ReadStep(r)
      PROVE  \/ Lost' \subseteq Lost /\ faults' = faults
             \/ \E k \in Keys : Lost' \subseteq Lost \cup {k} /\ faults' = faults + 1
  <2>1. CASE Die(r)
    <3>1. Lost' \subseteq Lost \cup {key[r]} /\ faults' = faults + 1
      BY <2>1 DEF Die, Answer, IInv, TypeOK
    <3>2. key[r] \in Keys
      BY <2>1 DEF Die, IInv, RequestInv
    <3>3. QED BY <3>1, <3>2
  <2>2. CASE GiveUp(r)
    BY <2>2 DEF GiveUp, Answer, IInv, TypeOK
  <2>3. CASE ~(Die(r) \/ GiveUp(r))
    BY <1>3, <2>3 DEF ReadStep, ReadDeployment, DeviceToken, CheckMember,
                      ComputeExpiry, GetIdentity, ListUsers, Goto, IInv, TypeOK
  <2>4. QED BY <2>1, <2>2, <2>3
<1>4. ASSUME NEW r \in Requests, MintStep(r)
      PROVE  \/ Lost' \subseteq Lost /\ faults' = faults
             \/ \E k \in Keys : Lost' \subseteq Lost \cup {k} /\ faults' = faults + 1
  <2>1. CASE CreateUser(r) \/ UpsertIdentity(r)
    BY <2>1 DEF CreateUser, UpsertIdentity, Goto, IInv, TypeOK
  <2>2. ASSUME NEW k \in Keys, CreateKey(r, k)
        PROVE  Lost' \subseteq Lost /\ faults' = faults
    BY <2>2 DEF CreateKey, Goto, IInv, TypeOK
  <2>3. CASE InsertKey(r)
    BY <2>3 DEF InsertKey, Goto, IInv, TypeOK
  <2>4. CASE Give(r)
    <3>1. /\ key[r] \in stored
          /\ minted[key[r]].lab => key[r] \in audit'
      BY <2>4 DEF Give, IInv, RequestInv
    <3>2. key[r] \notin Unrecorded'
      BY <2>4, <3>1 DEF Give
    <3>3. QED BY <2>4, <3>2 DEF Give, Answer, IInv, TypeOK
  <2>5. CASE GiveUnlogged(r)
    <3>1. Lost' \subseteq Lost \cup {key[r]} /\ faults' = faults + 1
      BY <2>5 DEF GiveUnlogged, Answer, IInv, TypeOK
    <3>2. key[r] \in Keys
      BY <2>5 DEF GiveUnlogged, IInv, RequestInv
    <3>3. QED BY <3>1, <3>2
  <2>6. QED BY <1>4, <2>1, <2>2, <2>3, <2>4, <2>5 DEF MintStep
<1>5. QED
  BY <1>1, <1>2, <1>3, <1>4 DEF Next, Step, OutsideStep, ReadStep, MintStep

\* One request that died, or one audit row that failed, for every key that is
\* lost.
LostInv == Cardinality(Lost) <= faults

LEMMA LostIsFinite == IsFiniteSet(Lost) /\ Cardinality(Lost) \in Nat
<1>1. Lost \subseteq Keys
  BY DEF Lost, Unrecorded
<1>2. QED BY <1>1, AccessAssumption, FS_Subset, FS_CardinalityType

LEMMA LostInvariance == Spec => []LostInv
<1>1. Init => LostInv
  <2> SUFFICES ASSUME Init PROVE LostInv
    OBVIOUS
  <2>1. Lost = {}
    BY DEF Init, Lost, Unrecorded
  <2>2. QED BY <2>1, FS_EmptySet DEF LostInv, Init
<1>2. IInv /\ IInv' /\ LostInv /\ [Next]_vars => LostInv'
  <2> SUFFICES ASSUME IInv, IInv', LostInv, [Next]_vars PROVE LostInv'
    OBVIOUS
  <2>1. faults \in Nat /\ faults' \in Nat
    BY AccessAssumption DEF IInv, TypeOK
  <2>2. CASE Lost' \subseteq Lost /\ faults' = faults
    <3>1. /\ Cardinality(Lost') \in Nat
          /\ Cardinality(Lost') <= Cardinality(Lost)
      BY <2>2, LostIsFinite, FS_Subset, FS_CardinalityType
    <3>2. QED BY <2>1, <2>2, <3>1, LostIsFinite DEF LostInv
  <2>3. ASSUME NEW k \in Keys, Lost' \subseteq Lost \cup {k}, faults' = faults + 1
        PROVE  LostInv'
    <3>1. /\ IsFiniteSet(Lost \cup {k})
          /\ Cardinality(Lost \cup {k}) \in {Cardinality(Lost), Cardinality(Lost) + 1}
      BY LostIsFinite, FS_AddElement
    <3>2. /\ Cardinality(Lost') \in Nat
          /\ Cardinality(Lost') <= Cardinality(Lost \cup {k})
      BY <2>3, <3>1, FS_Subset, FS_CardinalityType
    <3>3. QED BY <2>1, <2>3, <3>1, <3>2, LostIsFinite DEF LostInv
  <2>4. QED BY <2>2, <2>3, LostStep
<1>3. QED BY <1>1, <1>2, Invariance, PTL DEF Spec

\* However requests meet and wherever they die: of the keys Headscale knows,
\* only as many are missing from the tables as are on their way, have died or
\* have lost their audit row.
THEOREM OneUnrecordedKeyPerFaultAlways == Spec => []OneUnrecordedKeyPerFault
<1>1. ASSUME IInv, LostInv PROVE OneUnrecordedKeyPerFault
  <2> DEFINE sent == {k \in Keys : \E r \in Sending : key[r] = k}
             carried == [r \in Sending |-> key[r]]
  <2>1. IsFiniteSet(Sending) /\ Cardinality(Sending) \in Nat
    BY AccessAssumption, FS_Subset, FS_CardinalityType DEF Sending
  <2>2. carried \in [Sending -> sent] /\ \A k \in sent : \E r \in Sending : carried[r] = k
    BY <1>1 DEF Sending, HasKey, IInv, RequestInv
  <2> HIDE DEF carried
  <2>3. carried \in Surjection(Sending, sent)
    BY <2>2, Fun_IsSurj
  <2>4. IsFiniteSet(sent) /\ Cardinality(sent) <= Cardinality(Sending)
    BY <2>1, <2>3, FS_Surjection
  <2>5. Unrecorded \subseteq Lost \cup sent
    BY DEF Lost, Unrecorded
  <2> HIDE DEF sent
  <2>6. /\ IsFiniteSet(Lost \cup sent) /\ Cardinality(Lost \cap sent) \in Nat
        /\ Cardinality(sent) \in Nat /\ Cardinality(Lost \cup sent) \in Nat
        /\ Cardinality(Lost \cup sent) <= Cardinality(Lost) + Cardinality(sent)
    <3>1. IsFiniteSet(Lost \cap sent)
      BY LostIsFinite, FS_Subset
    <3>2. IsFiniteSet(Lost \cup sent)
      BY <2>4, LostIsFinite, FS_Union
    <3>3. /\ Cardinality(Lost \cap sent) \in Nat /\ Cardinality(sent) \in Nat
          /\ Cardinality(Lost \cup sent) \in Nat
      BY <2>4, <3>1, <3>2, FS_CardinalityType
    <3>4. Cardinality(Lost \cup sent) =
            Cardinality(Lost) + Cardinality(sent) - Cardinality(Lost \cap sent)
      BY <2>4, LostIsFinite, FS_Union
    <3>5. Cardinality(Lost \cup sent) <= Cardinality(Lost) + Cardinality(sent)
      BY <3>3, <3>4, LostIsFinite
    <3>6. QED BY <3>2, <3>3, <3>5
  <2>7. Cardinality(Unrecorded) \in Nat
        /\ Cardinality(Unrecorded) <= Cardinality(Lost \cup sent)
    BY <2>5, <2>6, FS_Subset, FS_CardinalityType
  <2>8. faults \in Nat
    BY <1>1, AccessAssumption DEF IInv, TypeOK
  <2>9. QED
    BY <1>1, <2>1, <2>4, <2>6, <2>7, <2>8, LostIsFinite
    DEF LostInv, OneUnrecordedKeyPerFault, Sending, HasKey
<1>2. QED BY <1>1, Invariance, LostInvariance, PTL
=============================================================================
