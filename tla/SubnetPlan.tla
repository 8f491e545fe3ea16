------------------------------ MODULE SubnetPlan ------------------------------
(***************************************************************************)
(* What get_or_allocate_subnet promises the workers, as if every call did  *)
(* its work in one instant: a user without a network gets the first free   *)
(* octet of the pool, a user with one is answered it, and a call is        *)
(* refused only when no octet is free.  There is no tracker, no lock, no   *)
(* failed INSERT and no second look here: SubnetAllocator has them, and    *)
(* implements this module.                                                 *)
(***************************************************************************)
EXTENDS Naturals

CONSTANTS
  Users, Callers, NoUser, NoOctet,
  First, Last     \* the octets of the pool

VARIABLES
  plan,           \* each user's octet
  asks,           \* the user each caller in a call asks for
  answer,         \* the octet each caller was answered last
  refused         \* the callers that were answered there is none

vars == <<plan, asks, answer, refused>>

Init ==
  /\ plan = [u \in Users |-> NoOctet]
  /\ asks = [c \in Callers |-> NoUser]
  /\ answer = [c \in Callers |-> NoOctet]
  /\ refused = {}

Taken(o) == \E u \in Users : plan[u] = o

Ask(c, u) ==
  /\ asks[c] = NoUser
  /\ asks' = [asks EXCEPT ![c] = u]
  /\ answer' = [answer EXCEPT ![c] = NoOctet]
  /\ refused' = refused \ {c}
  /\ UNCHANGED plan

\* The call is over.
End(c) == asks[c] # NoUser /\ asks' = [asks EXCEPT ![c] = NoUser]

Answer(c, o) ==
  /\ End(c)
  /\ answer' = [answer EXCEPT ![c] = o]
  /\ UNCHANGED refused

Find(c) ==
  /\ Answer(c, plan[asks[c]])
  /\ plan[asks[c]] # NoOctet
  /\ UNCHANGED plan

Assign(c, o) ==
  /\ Answer(c, o)
  /\ plan[asks[c]] = NoOctet
  /\ ~Taken(o) /\ \A p \in First..(o - 1) : Taken(p)
  /\ plan' = [plan EXCEPT ![asks[c]] = o]

\* (Another call may have got the last octet for the same user meanwhile.)
Refuse(c) ==
  /\ End(c)
  /\ \A o \in First..Last : Taken(o)
  /\ refused' = refused \cup {c}
  /\ UNCHANGED <<plan, answer>>

\* The caller dies before it is answered, or goes on after it was.
Leave(c) ==
  /\ asks' = [asks EXCEPT ![c] = NoUser]
  /\ refused' = refused \ {c}
  /\ UNCHANGED <<plan, answer>>

Next ==
  \E c \in Callers :
    \/ \E u \in Users : Ask(c, u)
    \/ \E o \in First..Last : Assign(c, o)
    \/ Find(c) \/ Refuse(c) \/ Leave(c)

Spec == Init /\ [][Next]_vars
=============================================================================
