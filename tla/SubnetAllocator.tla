--------------------------- MODULE SubnetAllocator ---------------------------
(***************************************************************************)
(* get_or_allocate_subnet: the third octet of the 10.20.x.0/24 network     *)
(* that a user's labs live in.  Provisioning workers call it, each in a    *)
(* READ COMMITTED transaction of its own, possibly several for one user.   *)
(* The row lock on subnet_tracker, the primary key of subnet_allocations   *)
(* and the retry after IntegrityError keep them from disagreeing.          *)
(*                                                                         *)
(* Steps are statements that read or lock something another caller can     *)
(* change; UPDATE, INSERT and commit under the tracker's lock are one,     *)
(* since nobody sees anything in between and a failure undoes all three.   *)
(***************************************************************************)
EXTENDS Naturals

CONSTANTS
  Users,
  Callers,            \* workers that may be inside the function
  NoUser, NoOctet,
  ReservedOctets,     \* RESERVED_OCTETS
  MinTenantOctet,     \* MIN_TENANT_OCTET
  MaxTenantOctet      \* MAX_TENANT_OCTET

ASSUME OctetsAssumption ==
  /\ MinTenantOctet \in Nat /\ MinTenantOctet > 1    \* 1 is the tracker's seed
  /\ MaxTenantOctet \in Nat
  /\ MinTenantOctet <= MaxTenantOctet
  /\ \A r \in ReservedOctets : r \in Nat /\ r < MinTenantOctet

ASSUME NoneAssumption == NoUser \notin Users /\ NoOctet \notin Nat

VARIABLES
  tracker,            \* subnet_tracker.last_assigned_octet, committed
  allocated,          \* subnet_allocations, committed
  pc, user,           \* where each caller is, and for whom
  octet,              \* next_octet of a caller that holds the tracker's lock
  result              \* what each caller returned last

vars == <<tracker, allocated, pc, user, octet, result>>

Init ==
  /\ tracker = 1
  /\ allocated = [u \in Users |-> NoOctet]
  /\ pc = [c \in Callers |-> "idle"]
  /\ user = [c \in Callers |-> NoUser]
  /\ octet = [c \in Callers |-> NoOctet]
  /\ result = [c \in Callers |-> NoOctet]

-----------------------------------------------------------------------------
\* max(current_octet + 1, MIN_TENANT_OCTET), then past the reserved ones.
FirstCandidate(current) ==
  IF current + 1 >= MinTenantOctet THEN current + 1 ELSE MinTenantOctet

NextOctet(current) ==
  CHOOSE o \in FirstCandidate(current)..(FirstCandidate(current) + MinTenantOctet) :
    /\ o \notin ReservedOctets
    /\ \A p \in FirstCandidate(current)..o : p # o => p \in ReservedOctets

\* A caller past SELECT ... FOR UPDATE holds the row lock until its
\* transaction ends.
TrackerLocked == \E c \in Callers : pc[c] = "allocating"

Goto(c, from, to) == pc[c] = from /\ pc' = [pc EXCEPT ![c] = to]

Return(c, o) == result' = [result EXCEPT ![c] = o]

Call(c, u) ==
  /\ Goto(c, "idle", "lookup")
  /\ user' = [user EXCEPT ![c] = u]
  /\ Return(c, NoOctet)
  /\ UNCHANGED <<tracker, allocated, octet>>

LookupHit(c) ==
  /\ Goto(c, "lookup", "returned")
  /\ allocated[user[c]] # NoOctet
  /\ Return(c, allocated[user[c]])
  /\ UNCHANGED <<tracker, allocated, user, octet>>

LookupMiss(c) ==
  /\ Goto(c, "lookup", "waiting")
  /\ allocated[user[c]] = NoOctet
  /\ UNCHANGED <<tracker, allocated, user, octet, result>>

\* The SELECT returns the committed octet once the lock is granted.
LockTracker(c) ==
  /\ Goto(c, "waiting", "allocating")
  /\ ~TrackerLocked
  /\ octet' = [octet EXCEPT ![c] = NextOctet(tracker)]
  /\ UNCHANGED <<tracker, allocated, user, result>>

\* Mutant: an exhausted pool is tried again.
Exhausted_Bug(c) ==
  /\ Goto(c, "allocating", "waiting")
  /\ octet[c] > MaxTenantOctet
  /\ octet' = [octet EXCEPT ![c] = NoOctet]
  /\ UNCHANGED <<tracker, allocated, user, result>>

\* RuntimeError "Subnet pool exhausted": the worker fails the job.
Exhausted(c) ==
  /\ Goto(c, "allocating", "returned")
  /\ octet[c] > MaxTenantOctet
  /\ octet' = [octet EXCEPT ![c] = NoOctet]
  /\ UNCHANGED <<tracker, allocated, user, result>>

\* The INSERT breaks the primary key on user_id or UNIQUE on subnet_cidr.
Conflict(c) ==
  \/ allocated[user[c]] # NoOctet
  \/ \E u \in Users : allocated[u] = octet[c]

\* Mutant: an off-by-one in the check for an exhausted pool.
Allocate_Bug(c) ==
  /\ Goto(c, "allocating", "returned")
  /\ octet[c] <= MaxTenantOctet + 1
  /\ ~Conflict(c)
  /\ tracker' = octet[c]
  /\ allocated' = [allocated EXCEPT ![user[c]] = octet[c]]
  /\ Return(c, octet[c])
  /\ octet' = [octet EXCEPT ![c] = NoOctet]
  /\ UNCHANGED user

Allocate(c) ==
  /\ Goto(c, "allocating", "returned")
  /\ octet[c] <= MaxTenantOctet
  /\ ~Conflict(c)
  /\ tracker' = octet[c]
  /\ allocated' = [allocated EXCEPT ![user[c]] = octet[c]]
  /\ Return(c, octet[c])
  /\ octet' = [octet EXCEPT ![c] = NoOctet]
  /\ UNCHANGED user

\* Mutant: the tracker's UPDATE is not rolled back.
LoseRace_Bug(c) ==
  /\ Goto(c, "allocating", "refetch")
  /\ octet[c] <= MaxTenantOctet
  /\ Conflict(c)
  /\ tracker' = octet[c]
  /\ octet' = [octet EXCEPT ![c] = NoOctet]
  /\ UNCHANGED <<allocated, user, result>>

\* IntegrityError: rolled back, the lock released.
LoseRace(c) ==
  /\ Goto(c, "allocating", "refetch")
  /\ octet[c] <= MaxTenantOctet
  /\ Conflict(c)
  /\ octet' = [octet EXCEPT ![c] = NoOctet]
  /\ UNCHANGED <<tracker, allocated, user, result>>

\* Mutant: the loser keeps the octet it had computed last.
Refetch_Bug(c) ==
  /\ Goto(c, "refetch", "returned")
  /\ Return(c, NextOctet(tracker))
  /\ UNCHANGED <<tracker, allocated, user, octet>>

\* Returns what the winner committed (or raises, when there is nothing).
Refetch(c) ==
  /\ Goto(c, "refetch", "returned")
  /\ Return(c, allocated[user[c]])
  /\ UNCHANGED <<tracker, allocated, user, octet>>

\* The worker goes on, or dies at any point: its transaction is rolled back.
Leave(c) ==
  /\ pc[c] # "idle"
  /\ pc' = [pc EXCEPT ![c] = "idle"]
  /\ user' = [user EXCEPT ![c] = NoUser]
  /\ octet' = [octet EXCEPT ![c] = NoOctet]
  /\ UNCHANGED <<tracker, allocated, result>>

Step(c) ==
  \/ LookupHit(c) \/ LookupMiss(c) \/ LockTracker(c)
  \/ Exhausted(c) \/ Allocate(c) \/ LoseRace(c) \/ Refetch(c)

Next == \E c \in Callers : \/ \E u \in Users : Call(c, u)
                           \/ Step(c) \/ Leave(c)

Spec == Init /\ [][Next]_vars

\* A transaction that can go on goes on, and PostgreSQL grants a row lock to
\* those that wait in their order, so that nobody waits for ever.
Fairness == \A c \in Callers : /\ WF_vars(Step(c))
                               /\ SF_vars(LockTracker(c))

FairSpec == Spec /\ Fairness

-----------------------------------------------------------------------------
\* Every variable has its type.
TypeOK ==
  /\ tracker \in Nat
  /\ allocated \in [Users -> Nat \cup {NoOctet}]
  /\ pc \in [Callers -> {"idle", "lookup", "waiting", "allocating",
                         "refetch", "returned"}]
  /\ user \in [Callers -> Users \cup {NoUser}]
  /\ octet \in [Callers -> Nat \cup {NoOctet}]
  /\ result \in [Callers -> Nat \cup {NoOctet}]

\* The branch the code calls unreachable is: a caller that got IntegrityError
\* finds a row of its user, because the constraint that fired is never the one
\* on subnet_cidr.
RefetchFinds ==
  \A c \in Callers : pc[c] = "refetch" => allocated[user[c]] # NoOctet

\* "Both callers end up with the correct subnet": whoever returns one for a
\* user returns the one in the table, whoever put it there.
ReturnsAllocation ==
  \A c \in Callers :
    pc[c] = "returned" /\ result[c] # NoOctet => result[c] = allocated[user[c]]

\* No octet is burnt by a caller that lost the race, found the pool empty or
\* died: all octets up to the tracker are some user's.  So the pool is
\* exhausted only when every one of them is in use.
NoOctetWasted ==
  \A o \in MinTenantOctet..tracker : \E u \in Users : allocated[u] = o

\* A user's network never changes: the machines of a running lab keep their
\* addresses whatever labs the user starts later.
AllocationsKept ==
  [][\A u \in Users :
       allocated[u] # NoOctet => allocated'[u] = allocated[u]]_vars

\* No two users share a network, and none gets a reserved one.
SubnetsDisjoint ==
  /\ \A u, v \in Users :
       u # v /\ allocated[u] # NoOctet => allocated[u] # allocated[v]
  /\ \A u \in Users : allocated[u] # NoOctet =>
       allocated[u] \in MinTenantOctet..MaxTenantOctet \ ReservedOctets

\* Callers that look, wait, lose and look again see what they would see if
\* each call were one step: SubnetPlan, where no octet is given twice, skipped
\* or refused while one is free, and a caller is answered its user's own.
Asks == [c \in Callers |-> IF pc[c] \in {"idle", "returned"} THEN NoUser
                                                           ELSE user[c]]
Refused == {c \in Callers : pc[c] = "returned" /\ result[c] = NoOctet}
Plan == INSTANCE SubnetPlan
          WITH First <- MinTenantOctet, Last <- MaxTenantOctet,
               plan <- allocated, asks <- Asks, answer <- result,
               refused <- Refused
RefinesPlan == Plan!Spec

\* Every call comes to an end: nobody waits for the tracker's lock for ever.
CallsReturn ==
  \A c \in Callers : pc[c] = "lookup" ~> pc[c] \in {"returned", "idle"}
=============================================================================
