------------------------ MODULE SubnetAllocatorProofs ------------------------
(***************************************************************************)
(* What get_or_allocate_subnet guarantees for any users, any number of     *)
(* callers and any range of octets; and, at the end, that it implements    *)
(* SubnetPlan: a call looks, waits and may lose, but acts in one instant.  *)
(***************************************************************************)
EXTENDS SubnetAllocator, TLAPS

\* The tracker's lock excludes, and the octet its holder has computed is the
\* one after the committed tracker.
LockInv ==
  /\ \A c, e \in Callers :
       pc[c] = "allocating" /\ pc[e] = "allocating" => c = e
  /\ \A c \in Callers : pc[c] = "allocating" => octet[c] = NextOctet(tracker)

\* Nothing beyond the tracker is allocated.
TrackerBounds ==
  \A u \in Users : allocated[u] # NoOctet => allocated[u] <= tracker

\* A caller in a call has a user, and no result before the end.
CallInv ==
  \A c \in Callers :
    /\ pc[c] # "idle" => user[c] \in Users
    /\ pc[c] \notin {"idle", "returned"} => result[c] = NoOctet

IInv ==
  /\ TypeOK /\ LockInv /\ TrackerBounds /\ CallInv
  /\ RefetchFinds /\ ReturnsAllocation /\ NoOctetWasted /\ SubnetsDisjoint

\* With every reserved octet below the first tenant octet, the loop that
\* skips reserved octets never runs.
LEMMA NextOctetIsFirst ==
  ASSUME NEW n \in Nat
  PROVE  /\ NextOctet(n) = FirstCandidate(n)
         /\ NextOctet(n) \in Nat
         /\ NextOctet(n) > n
         /\ NextOctet(n) >= MinTenantOctet
         /\ NextOctet(n) \notin ReservedOctets
         /\ \A o \in MinTenantOctet..NextOctet(n) : o <= n \/ o = NextOctet(n)
<1> DEFINE F == FirstCandidate(n)
<1>1. /\ F \in Nat /\ F > n /\ F >= MinTenantOctet
      /\ \A o \in MinTenantOctet..F : o <= n \/ o = F
  BY OctetsAssumption DEF FirstCandidate
<1> HIDE DEF F
<1>2. F \notin ReservedOctets
  BY <1>1, OctetsAssumption
<1> DEFINE P(o) == o \notin ReservedOctets /\ \A p \in F..o : p # o => p \in ReservedOctets
<1>3. F \in F..(F + MinTenantOctet) /\ P(F)
  BY <1>1, <1>2, OctetsAssumption
<1>4. NextOctet(n) = CHOOSE o \in F..(F + MinTenantOctet) : P(o)
  BY DEF NextOctet, F
<1>5. NextOctet(n) \in F..(F + MinTenantOctet) /\ P(NextOctet(n))
  BY <1>3, <1>4
<1>6. NextOctet(n) = F
  <2>1. SUFFICES ASSUME NextOctet(n) # F PROVE FALSE
    OBVIOUS
  <2>2. F \in F..NextOctet(n)
    BY <1>1, <1>5, OctetsAssumption
  <2>3. F \in ReservedOctets
    BY <1>5, <2>1, <2>2
  <2>4. QED BY <1>2, <2>3
<1>7. QED BY <1>1, <1>2, <1>6 DEF F

LEMMA InitIInv == Init => IInv
<1> SUFFICES ASSUME Init PROVE IInv
  OBVIOUS
<1>1. TypeOK /\ LockInv /\ TrackerBounds /\ CallInv
  BY NoneAssumption DEF Init, TypeOK, LockInv, TrackerBounds, CallInv
<1>2. RefetchFinds /\ ReturnsAllocation /\ SubnetsDisjoint
  BY DEF Init, RefetchFinds, ReturnsAllocation, SubnetsDisjoint
<1>3. NoOctetWasted
  BY OctetsAssumption DEF Init, NoOctetWasted
<1>4. QED BY <1>1, <1>2, <1>3 DEF IInv

-----------------------------------------------------------------------------
(* Steps that write no table.                                              *)

\* Caller c goes to a position without the tracker's lock, giving it up if it
\* had it, with user u and result r.
Reads(c, to, u, r) ==
  /\ to \in {"idle", "lookup", "waiting", "refetch", "returned"}
  /\ pc' = [pc EXCEPT ![c] = to]
  /\ user' = [user EXCEPT ![c] = u]
  /\ result' = [result EXCEPT ![c] = r]
  /\ UNCHANGED octet \/ octet' = [octet EXCEPT ![c] = NoOctet]
  /\ UNCHANGED <<tracker, allocated>>
  /\ u \in Users \cup {NoUser} /\ r \in Nat \cup {NoOctet}
  /\ to # "idle" => u \in Users
  /\ to \notin {"idle", "returned"} => r = NoOctet
  /\ to = "refetch" => allocated[u] # NoOctet
  /\ to = "returned" => r = NoOctet \/ r = allocated[u]

\* It disturbs nothing.
LEMMA ReadIInv ==
  ASSUME IInv, NEW c \in Callers, NEW to, NEW u, NEW r, Reads(c, to, u, r)
  PROVE  IInv'
<1> USE DEF IInv, Reads
<1>1. TypeOK'
  BY DEF TypeOK
<1>2. LockInv'
  BY DEF TypeOK, LockInv
<1>3. TrackerBounds' /\ NoOctetWasted' /\ SubnetsDisjoint'
  BY DEF TrackerBounds, NoOctetWasted, SubnetsDisjoint
<1>4. CallInv'
  BY DEF TypeOK, CallInv
<1>5. RefetchFinds'
  BY DEF TypeOK, RefetchFinds
<1>6. ReturnsAllocation'
  BY DEF TypeOK, ReturnsAllocation
<1>7. QED BY <1>1, <1>2, <1>3, <1>4, <1>5, <1>6

\* A caller gets the tracker's lock.
LEMMA LockIInv ==
  ASSUME IInv, NEW c \in Callers, LockTracker(c)
  PROVE  IInv'
<1> USE DEF IInv, LockTracker, Goto
<1>1. NextOctet(tracker) \in Nat
  BY NextOctetIsFirst DEF TypeOK
<1>2. TypeOK'
  BY <1>1 DEF TypeOK
<1>3. LockInv'
  BY DEF TypeOK, LockInv, TrackerLocked
<1>4. TrackerBounds' /\ NoOctetWasted' /\ SubnetsDisjoint'
  BY DEF TrackerBounds, NoOctetWasted, SubnetsDisjoint
<1>5. CallInv' /\ RefetchFinds' /\ ReturnsAllocation'
  BY DEF TypeOK, CallInv, RefetchFinds, ReturnsAllocation
<1>6. QED BY <1>2, <1>3, <1>4, <1>5

-----------------------------------------------------------------------------
(* The step that writes both tables.                                       *)

LEMMA AllocateIInv ==
  ASSUME IInv, NEW c \in Callers, Allocate(c)
  PROVE  IInv'
<1> USE DEF IInv, Allocate, Goto, Return
<1> DEFINE o == octet[c]
<1>1. /\ o = NextOctet(tracker)
      /\ tracker \in Nat
      /\ user[c] \in Users
      /\ allocated[user[c]] = NoOctet
  BY DEF TypeOK, LockInv, CallInv, Conflict
<1>2. /\ o \in Nat /\ o > tracker /\ o \in MinTenantOctet..MaxTenantOctet
      /\ o \notin ReservedOctets
      /\ \A p \in MinTenantOctet..o : p <= tracker \/ p = o
  BY <1>1, NextOctetIsFirst, OctetsAssumption
<1>3. TypeOK'
  BY <1>1, <1>2 DEF TypeOK
<1>4. LockInv'
  BY DEF TypeOK, LockInv
<1>5. TrackerBounds'
  <2> SUFFICES ASSUME NEW u \in Users, allocated'[u] # NoOctet
               PROVE  allocated'[u] <= o
    BY DEF TrackerBounds
  <2>1. CASE u = user[c]
    BY <1>2, <2>1 DEF TypeOK
  <2>2. CASE u # user[c]
    <3>1. allocated[u] \in Nat /\ allocated[u] <= tracker
      BY <2>2 DEF TypeOK, TrackerBounds
    <3>2. QED BY <1>1, <1>2, <2>2, <3>1 DEF TypeOK
  <2>3. QED BY <2>1, <2>2
<1>6. CallInv' /\ RefetchFinds'
  BY <1>2, NoneAssumption DEF TypeOK, CallInv, RefetchFinds
<1>7. ReturnsAllocation'
  <2> SUFFICES ASSUME NEW e \in Callers, pc'[e] = "returned",
                      result'[e] # NoOctet
               PROVE  result'[e] = allocated'[user[e]]
    BY DEF ReturnsAllocation
  <2>1. CASE e = c
    BY <1>1, <2>1 DEF TypeOK
  <2>2. CASE e # c
    <3>1. result[e] = allocated[user[e]] /\ result[e] # NoOctet
      BY <2>2 DEF TypeOK, ReturnsAllocation
    <3>2. user[e] # user[c]
      BY <1>1, <3>1
    <3>3. QED BY <2>2, <3>1, <3>2 DEF TypeOK
  <2>3. QED BY <2>1, <2>2
<1>8. NoOctetWasted'
  <2> SUFFICES ASSUME NEW p \in MinTenantOctet..o
               PROVE  \E u \in Users : allocated'[u] = p
    BY DEF NoOctetWasted
  <2>1. CASE p = o
    BY <1>1, <2>1 DEF TypeOK
  <2>2. CASE p # o
    <3>1. p \in MinTenantOctet..tracker
      BY <1>1, <1>2, <2>2, OctetsAssumption
    <3>2. PICK u \in Users : allocated[u] = p
      BY <3>1 DEF NoOctetWasted
    <3>3. u # user[c]
      BY <1>1, <3>1, <3>2, NoneAssumption, OctetsAssumption
    <3>4. QED BY <3>2, <3>3 DEF TypeOK
  <2>3. QED BY <2>1, <2>2
<1>9. SubnetsDisjoint'
  <2>1. \A u \in Users : u # user[c] => allocated[u] # o
    BY DEF Conflict
  <2>2. \A u \in Users : allocated'[u] = IF u = user[c] THEN o ELSE allocated[u]
    BY DEF TypeOK
  <2>3. QED BY <1>2, <2>1, <2>2 DEF SubnetsDisjoint
<1>10. QED BY <1>3, <1>4, <1>5, <1>6, <1>7, <1>8, <1>9

\* IntegrityError can only mean that the user has a row: the octet is new.
LEMMA ConflictIsOwn ==
  ASSUME IInv, NEW c \in Callers, pc[c] = "allocating", Conflict(c)
  PROVE  allocated[user[c]] # NoOctet
<1>1. octet[c] > tracker /\ tracker \in Nat /\ octet[c] \in Nat
  BY NextOctetIsFirst DEF IInv, TypeOK, LockInv
<1>2. ~\E u \in Users : allocated[u] = octet[c]
  BY <1>1, NoneAssumption DEF IInv, TrackerBounds
<1>3. QED BY <1>2 DEF Conflict

-----------------------------------------------------------------------------
LEMMA NextIInv == IInv /\ [Next]_vars => IInv'
<1> SUFFICES ASSUME IInv, [Next]_vars PROVE IInv'
  OBVIOUS
<1> USE DEF Goto, Return
<1>0. ASSUME NEW c \in Callers
      PROVE  /\ user = [user EXCEPT ![c] = user[c]]
             /\ result = [result EXCEPT ![c] = result[c]]
             /\ user[c] \in Users \cup {NoUser}
             /\ result[c] \in Nat \cup {NoOctet}
             /\ pc[c] # "idle" => user[c] \in Users
             /\ pc[c] \notin {"idle", "returned"} => result[c] = NoOctet
             /\ \A u \in Users : allocated[u] \in Nat \cup {NoOctet}
  BY DEF IInv, TypeOK, CallInv
<1>1. ASSUME NEW c \in Callers, NEW u \in Users, Call(c, u) PROVE IInv'
  <2>1. Reads(c, "lookup", u, NoOctet)
    BY <1>0, <1>1, NoneAssumption DEF Call, Reads
  <2>2. QED BY <2>1, ReadIInv
<1>2. ASSUME NEW c \in Callers, LookupHit(c) PROVE IInv'
  <2>1. Reads(c, "returned", user[c], allocated[user[c]])
    BY <1>0, <1>2, NoneAssumption DEF LookupHit, Reads
  <2>2. QED BY <2>1, ReadIInv
<1>3. ASSUME NEW c \in Callers, LookupMiss(c) PROVE IInv'
  <2>1. Reads(c, "waiting", user[c], NoOctet)
    BY <1>0, <1>3, NoneAssumption DEF LookupMiss, Reads
  <2>2. QED BY <2>1, ReadIInv
<1>4. ASSUME NEW c \in Callers, LockTracker(c) PROVE IInv'
  BY <1>4, LockIInv
<1>5. ASSUME NEW c \in Callers, Exhausted(c) PROVE IInv'
  <2>1. Reads(c, "returned", user[c], NoOctet)
    BY <1>0, <1>5, NoneAssumption DEF Exhausted, Reads
  <2>2. QED BY <2>1, ReadIInv
<1>6. ASSUME NEW c \in Callers, Allocate(c) PROVE IInv'
  BY <1>6, AllocateIInv
<1>7. ASSUME NEW c \in Callers, LoseRace(c) PROVE IInv'
  <2>1. Reads(c, "refetch", user[c], NoOctet)
    BY <1>0, <1>7, ConflictIsOwn, NoneAssumption DEF LoseRace, Reads
  <2>2. QED BY <2>1, ReadIInv
<1>8. ASSUME NEW c \in Callers, Refetch(c) PROVE IInv'
  <2>1. Reads(c, "returned", user[c], allocated[user[c]])
    BY <1>0, <1>8, NoneAssumption DEF Refetch, Reads
  <2>2. QED BY <2>1, ReadIInv
<1>9. ASSUME NEW c \in Callers, Leave(c) PROVE IInv'
  <2>1. Reads(c, "idle", NoUser, result[c])
    BY <1>0, <1>9, NoneAssumption DEF Leave, Reads
  <2>2. QED BY <2>1, ReadIInv
<1>10. CASE UNCHANGED vars
  BY <1>10 DEF vars, IInv, TypeOK, LockInv, TrackerBounds, CallInv,
     RefetchFinds, ReturnsAllocation, NoOctetWasted, SubnetsDisjoint
<1>11. QED
  BY <1>1, <1>2, <1>3, <1>4, <1>5, <1>6, <1>7, <1>8, <1>9, <1>10
     DEF Next, Step

-----------------------------------------------------------------------------
\* The inductive invariant holds for ever.
THEOREM Invariance == Spec => []IInv
<1>1. Init => IInv
  BY InitIInv
<1>2. IInv /\ [Next]_vars => IInv'
  BY NextIInv
<1>3. QED BY <1>1, <1>2, PTL DEF Spec

\* Every row, the tracker and every call hold what their types say.
THEOREM TypeCorrect == Spec => []TypeOK
<1>1. IInv => TypeOK
  BY DEF IInv
<1>2. QED BY <1>1, Invariance, PTL

\* No two users ever share a network, and none gets a reserved one.
THEOREM NetworksDisjoint == Spec => []SubnetsDisjoint
<1>1. IInv => SubnetsDisjoint
  BY DEF IInv
<1>2. QED BY <1>1, Invariance, PTL

\* The branch of the code that raises "this is a bug" is dead.
THEOREM BugBranchDead == Spec => []RefetchFinds
<1>1. IInv => RefetchFinds
  BY DEF IInv
<1>2. QED BY <1>1, Invariance, PTL

\* Every caller returns its user's row of the table.
THEOREM ReturnsAreAllocations == Spec => []ReturnsAllocation
<1>1. IInv => ReturnsAllocation
  BY DEF IInv
<1>2. QED BY <1>1, Invariance, PTL

\* The pool is used up without a gap, so it runs out only when it is full.
THEOREM PoolUsedUp == Spec => []NoOctetWasted
<1>1. IInv => NoOctetWasted
  BY DEF IInv
<1>2. QED BY <1>1, Invariance, PTL

\* A user's network never changes.
THEOREM NetworkKept == Spec => AllocationsKept
<1> DEFINE Kept == \A u \in Users :
                     allocated[u] # NoOctet => allocated'[u] = allocated[u]
<1>1. IInv /\ [Next]_vars => [Kept]_vars
  <2> SUFFICES ASSUME IInv, Next PROVE Kept
    OBVIOUS
  <2>1. ASSUME NEW c \in Callers, Allocate(c) PROVE Kept
    BY <2>1 DEF Allocate, Conflict, IInv, TypeOK
  <2>2. CASE UNCHANGED allocated
    BY <2>2
  <2>3. QED
    BY <2>1, <2>2 DEF Next, Step, Call, LookupHit, LookupMiss, LockTracker,
       Exhausted, LoseRace, Refetch, Leave
<1>2. QED BY <1>1, Invariance, PTL DEF Spec, AllocationsKept

-----------------------------------------------------------------------------
(* The calls implement SubnetPlan.                                         *)

\* A caller that has a call open asks for its user, and is not refused.
LEMMA AsksAre ==
  ASSUME IInv, NEW c \in Callers
  PROVE  /\ Asks[c] = IF pc[c] \in {"idle", "returned"} THEN NoUser ELSE user[c]
         /\ pc[c] \notin {"idle", "returned"} =>
              Asks[c] = user[c] /\ user[c] \in Users /\ Asks[c] # NoUser
         /\ c \in Refused <=> pc[c] = "returned" /\ result[c] = NoOctet
<1>1. Asks[c] = IF pc[c] \in {"idle", "returned"} THEN NoUser ELSE user[c]
  BY DEF Asks
<1>2. pc[c] # "idle" => user[c] \in Users /\ user[c] # NoUser
  BY NoneAssumption DEF IInv, CallInv
<1>3. QED BY <1>1, <1>2 DEF Refused

\* What a step of c that leaves the other callers alone does to the mapping.
LEMMA AsksChange ==
  ASSUME IInv, NEW c \in Callers, NEW to, NEW u, NEW r,
         pc' = [pc EXCEPT ![c] = to], user' = [user EXCEPT ![c] = u],
         result' = [result EXCEPT ![c] = r]
  PROVE  /\ Asks' = [Asks EXCEPT ![c] = IF to \in {"idle", "returned"}
                                        THEN NoUser ELSE u]
         /\ Refused' = IF to = "returned" /\ r = NoOctet
                       THEN Refused \cup {c} ELSE Refused \ {c}
<1>1. \A e \in Callers :
        /\ pc'[e] = IF e = c THEN to ELSE pc[e]
        /\ user'[e] = IF e = c THEN u ELSE user[e]
        /\ result'[e] = IF e = c THEN r ELSE result[e]
  BY DEF IInv, TypeOK
<1>2. \A e \in Callers :
        Asks'[e] = IF e # c THEN Asks[e]
                   ELSE IF to \in {"idle", "returned"} THEN NoUser ELSE u
  BY <1>1 DEF Asks
<1>3. Asks' = [Asks EXCEPT ![c] = IF to \in {"idle", "returned"}
                                  THEN NoUser ELSE u]
  BY <1>2 DEF Asks
<1>4. \A e \in Callers :
        e \in Refused' <=> IF e = c THEN to = "returned" /\ r = NoOctet
                           ELSE e \in Refused
  BY <1>1 DEF Refused
<1>5. Refused \subseteq Callers /\ Refused' \subseteq Callers
  BY DEF Refused
<1>6. QED BY <1>3, <1>4, <1>5

\* A call is opened.
LEMMA CallAsks ==
  ASSUME IInv, NEW c \in Callers, NEW u \in Users, Call(c, u)
  PROVE  Plan!Ask(c, u)
<1>1. /\ pc[c] = "idle" /\ pc' = [pc EXCEPT ![c] = "lookup"]
      /\ user' = [user EXCEPT ![c] = u]
      /\ result' = [result EXCEPT ![c] = NoOctet]
      /\ UNCHANGED allocated
  BY DEF Call, Goto, Return
<1>2. Asks' = [Asks EXCEPT ![c] = u] /\ Refused' = Refused \ {c}
  BY <1>1, AsksChange
<1>3. QED BY <1>1, <1>2, AsksAre DEF Plan!Ask

\* The look-up, or the second look after a lost race, finds the row.
LEMMA FoundIsFound ==
  ASSUME IInv, NEW c \in Callers, LookupHit(c) \/ Refetch(c)
  PROVE  Plan!Find(c)
<1>1. /\ pc[c] \in {"lookup", "refetch"}
      /\ pc' = [pc EXCEPT ![c] = "returned"]
      /\ result' = [result EXCEPT ![c] = allocated[user[c]]]
      /\ allocated[user[c]] # NoOctet
      /\ UNCHANGED <<allocated, user>>
  BY DEF LookupHit, Refetch, Goto, Return, IInv, RefetchFinds
<1>2. user' = [user EXCEPT ![c] = user[c]]
  BY <1>1 DEF IInv, TypeOK
<1>3. Asks' = [Asks EXCEPT ![c] = NoUser] /\ Refused' = Refused \ {c}
  BY <1>1, <1>2, AsksChange
<1>4. Asks[c] = user[c] /\ Asks[c] # NoUser /\ c \notin Refused
  BY <1>1, AsksAre
<1>5. QED BY <1>1, <1>3, <1>4 DEF Plan!Find, Plan!Answer, Plan!End

\* The commit under the tracker's lock gives the first free octet: the lock
\* keeps the tracker at the last one that was given.
LEMMA AllocateAssigns ==
  ASSUME IInv, NEW c \in Callers, NEW o, o = octet[c], Allocate(c)
  PROVE  o \in MinTenantOctet..MaxTenantOctet /\ Plan!Assign(c, o)
<1>1. /\ pc[c] = "allocating" /\ pc' = [pc EXCEPT ![c] = "returned"]
      /\ o <= MaxTenantOctet /\ ~Conflict(c)
      /\ allocated' = [allocated EXCEPT ![user[c]] = o]
      /\ result' = [result EXCEPT ![c] = o] /\ UNCHANGED user
  BY DEF Allocate, Goto, Return
<1>2. o = NextOctet(tracker) /\ tracker \in Nat
  BY <1>1 DEF IInv, LockInv, TypeOK
<1>3. /\ o \in Nat /\ o >= MinTenantOctet /\ o > tracker
      /\ \A p \in MinTenantOctet..o : p <= tracker \/ p = o
  BY <1>2, NextOctetIsFirst
<1>4. o \in MinTenantOctet..MaxTenantOctet
  BY <1>1, <1>3, OctetsAssumption
<1>5. \A p \in MinTenantOctet..(o - 1) : Plan!Taken(p)
  <2> SUFFICES ASSUME NEW p \in MinTenantOctet..(o - 1) PROVE Plan!Taken(p)
    OBVIOUS
  <2>1. p \in MinTenantOctet..tracker
    BY <1>2, <1>3, OctetsAssumption
  <2>2. QED BY <2>1 DEF IInv, NoOctetWasted, Plan!Taken
<1>6. ~Plan!Taken(o) /\ allocated[user[c]] = NoOctet
  BY <1>1 DEF Conflict, Plan!Taken
<1>7. user' = [user EXCEPT ![c] = user[c]] /\ o # NoOctet
  BY <1>1, <1>3, NoneAssumption DEF IInv, TypeOK
<1>8. Asks' = [Asks EXCEPT ![c] = NoUser] /\ Refused' = Refused \ {c}
  BY <1>1, <1>7, AsksChange
<1>9. Asks[c] = user[c] /\ Asks[c] # NoUser /\ c \notin Refused
  BY <1>1, AsksAre
<1>10. QED
  BY <1>1, <1>4, <1>5, <1>6, <1>8, <1>9
     DEF Plan!Assign, Plan!Answer, Plan!End

\* The pool is called exhausted only when every octet of it is in use.
LEMMA ExhaustedRefuses ==
  ASSUME IInv, NEW c \in Callers, Exhausted(c)
  PROVE  Plan!Refuse(c)
<1>1. /\ pc[c] = "allocating" /\ pc' = [pc EXCEPT ![c] = "returned"]
      /\ octet[c] > MaxTenantOctet
      /\ UNCHANGED <<allocated, user, result>>
  BY DEF Exhausted, Goto
<1>2. result[c] = NoOctet
  BY <1>1 DEF IInv, CallInv
<1>3. /\ user' = [user EXCEPT ![c] = user[c]]
      /\ result' = [result EXCEPT ![c] = NoOctet]
  BY <1>1, <1>2 DEF IInv, TypeOK
<1>4. Asks' = [Asks EXCEPT ![c] = NoUser] /\ Refused' = Refused \cup {c}
  BY <1>1, <1>3, AsksChange
<1>5. octet[c] = NextOctet(tracker) /\ tracker \in Nat
  BY <1>1 DEF IInv, LockInv, TypeOK
<1>6. \A p \in MinTenantOctet..MaxTenantOctet : Plan!Taken(p)
  <2> SUFFICES ASSUME NEW p \in MinTenantOctet..MaxTenantOctet
               PROVE  Plan!Taken(p)
    OBVIOUS
  <2>1. octet[c] \in Nat /\ p \in MinTenantOctet..octet[c] /\ p # octet[c]
    BY <1>1, <1>5, NextOctetIsFirst, OctetsAssumption
  <2>2. p \in MinTenantOctet..tracker
    BY <1>5, <2>1, NextOctetIsFirst, OctetsAssumption
  <2>3. QED BY <2>2 DEF IInv, NoOctetWasted, Plan!Taken
<1>7. Asks[c] # NoUser
  BY <1>1, AsksAre
<1>8. QED BY <1>1, <1>4, <1>6, <1>7 DEF Plan!Refuse, Plan!End

\* A caller leaves, whether it was in a call or not.
LEMMA LeaveLeaves ==
  ASSUME IInv, NEW c \in Callers, Leave(c)
  PROVE  Plan!Leave(c)
<1>1. /\ pc' = [pc EXCEPT ![c] = "idle"] /\ user' = [user EXCEPT ![c] = NoUser]
      /\ UNCHANGED <<allocated, result>>
  BY DEF Leave
<1>2. result' = [result EXCEPT ![c] = result[c]]
  BY <1>1 DEF IInv, TypeOK
<1>3. /\ Asks' = [Asks EXCEPT ![c] = IF "idle" \in {"idle", "returned"}
                                     THEN NoUser ELSE NoUser]
      /\ Refused' = IF "idle" = "returned" /\ result[c] = NoOctet
                    THEN Refused \cup {c} ELSE Refused \ {c}
  BY <1>1, <1>2, AsksChange, Zenon
<1>4. QED BY <1>1, <1>3 DEF Plan!Leave

\* Missing the row, getting the lock and losing the race show nothing.
LEMMA WaitingStutters ==
  ASSUME IInv, NEW c \in Callers, LookupMiss(c) \/ LockTracker(c) \/ LoseRace(c)
  PROVE  UNCHANGED Plan!vars
<1>1. PICK to \in {"waiting", "allocating", "refetch"} :
        pc' = [pc EXCEPT ![c] = to]
  BY DEF LookupMiss, LockTracker, LoseRace, Goto
<1>2. /\ pc[c] \in {"lookup", "waiting", "allocating"}
      /\ UNCHANGED <<allocated, user, result>>
  BY DEF LookupMiss, LockTracker, LoseRace, Goto
<1>3. /\ user' = [user EXCEPT ![c] = user[c]]
      /\ result' = [result EXCEPT ![c] = result[c]]
  BY <1>2 DEF IInv, TypeOK
<1>4. Asks' = [Asks EXCEPT ![c] = user[c]] /\ Refused' = Refused \ {c}
  BY <1>1, <1>3, AsksChange
<1>5. Asks[c] = user[c] /\ c \notin Refused
  BY <1>2, AsksAre
<1>6. Asks' = Asks
  BY <1>4, <1>5 DEF Asks
<1>7. QED BY <1>2, <1>4, <1>5, <1>6 DEF Plan!vars

\* get_or_allocate_subnet is what SubnetPlan says, for any number of callers:
\* as if every call were made in one step.
THEOREM ImplementsPlan == Spec => RefinesPlan
<1>1. Init => Plan!Init
  <2> SUFFICES ASSUME Init PROVE Plan!Init
    OBVIOUS
  <2>1. Asks = [c \in Callers |-> NoUser] /\ Refused = {}
    BY DEF Init, Asks, Refused
  <2>2. QED BY <2>1 DEF Init, Plan!Init
<1>2. IInv /\ [Next]_vars => [Plan!Next]_(Plan!vars)
  <2> SUFFICES ASSUME IInv, [Next]_vars
               PROVE  [Plan!Next]_(Plan!vars)
    OBVIOUS
  <2>1. ASSUME NEW c \in Callers, NEW u \in Users, Call(c, u)
        PROVE  Plan!Next
    BY <2>1, CallAsks DEF Plan!Next
  <2>2. ASSUME NEW c \in Callers, LookupHit(c) \/ Refetch(c)
        PROVE  Plan!Next
    BY <2>2, FoundIsFound DEF Plan!Next
  <2>3. ASSUME NEW c \in Callers, Allocate(c) PROVE Plan!Next
    <3>1. PICK o : o = octet[c]
      OBVIOUS
    <3>2. QED BY <2>3, <3>1, AllocateAssigns DEF Plan!Next
  <2>4. ASSUME NEW c \in Callers, Exhausted(c) PROVE Plan!Next
    BY <2>4, ExhaustedRefuses DEF Plan!Next
  <2>5. ASSUME NEW c \in Callers, Leave(c) PROVE Plan!Next
    BY <2>5, LeaveLeaves DEF Plan!Next
  <2>6. ASSUME NEW c \in Callers,
               LookupMiss(c) \/ LockTracker(c) \/ LoseRace(c)
        PROVE  UNCHANGED Plan!vars
    BY <2>6, WaitingStutters
  <2>7. CASE UNCHANGED vars
    BY <2>7 DEF vars, Plan!vars, Asks, Refused
  <2>8. QED
    BY <2>1, <2>2, <2>3, <2>4, <2>5, <2>6, <2>7 DEF Next, Step
<1>3. QED BY <1>1, <1>2, Invariance, PTL DEF Spec, RefinesPlan, Plan!Spec
=============================================================================
