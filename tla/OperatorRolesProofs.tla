------------------------- MODULE OperatorRolesProofs -------------------------
(***************************************************************************)
(* The accounts: what the roles and duties (OperatorRoles) satisfy for any *)
(* users, courses, cohorts and any number of concurrent requests, and what *)
(* the access tokens (AuthSessions) satisfy for any tokens, requests,      *)
(* lifetimes and times of a restart of Redis.                              *)
(*                                                                         *)
(* The two specifications share users.is_active and the requests' names    *)
(* and are proved about one at a time.                                     *)
(***************************************************************************)
EXTENDS OperatorRoles, FiniteSetTheorems, TLAPS

\* What a request is about, and what it may write at each position.
RequestInv ==
  \A r \in Requests : pc[r] # "idle" =>
    /\ actor[r] \in Users /\ target[r] \in Users /\ kind[r] \in Kinds
    /\ kind[r] = "assignCourse" =>
         place[r] \in Courses /\ write[r] \in {None, "course_admin"}
    /\ kind[r] = "assignWorkshop" => place[r] \in Workshops /\ write[r] = None
    /\ kind[r] \in {"removeCourse", "removeWorkshop"} =>
         /\ write[r] \in {None, "participant"}
         /\ pc[r] # "decided" => write[r] = None
    /\ pc[r] = "read" => kind[r] \in {"assignCourse", "assignWorkshop"}
    /\ pc[r] \in {"deleted", "operator", "decided"} =>
         kind[r] \in {"removeCourse", "removeWorkshop"}

\* A request that does not evade the checks and whose actor is still in office
\* takes it from somebody else: who reads themselves as a course admin has been
\* ousted.
OfficeInv ==
  \A r \in Requests : pc[r] # "idle" /\ r \notin ousted \cup evading =>
    /\ actor[r] \in Admins
    /\ actor[r] = target[r] =>
         /\ write[r] \in {None, "sys_admin"}
         /\ kind[r] # "disable" /\ pc[r] # "operator"

\* What a request that is not stale has read is still so.
FreshInv ==
  \A r \in Requests : r \notin stale =>
    /\ pc[r] = "operator" => role[target[r]] = "course_admin"
    /\ pc[r] = "read" =>
         /\ kind[r] = "assignWorkshop" => role[target[r]] = "course_admin"
         /\ kind[r] = "assignCourse" => role[target[r]] # "sys_admin"
    /\ pc[r] = "decided" =>
         /\ write[r] = "participant" =>
              role[target[r]] = "course_admin" /\ Remaining(r) = {}
         /\ write[r] = None =>
              role[target[r]] # "course_admin" \/ Remaining(r) # {}

IInv == TypeOK /\ RequestInv /\ OfficeInv /\ FreshInv /\ AdminRemains

LEMMA InitIInv == Init => IInv
<1> SUFFICES ASSUME Init PROVE IInv
  OBVIOUS
<1> USE DEF Init
<1>1. TypeOK
  BY DEF TypeOK, Role
<1>2. RequestInv /\ OfficeInv /\ FreshInv /\ AdminRemains
  BY DEF RequestInv, OfficeInv, FreshInv, AdminRemains
<1>3. QED BY <1>1, <1>2 DEF IInv

-----------------------------------------------------------------------------
(* How a request begins and ends.                                          *)

\* A new request: its fields suit its kind, and one that takes its actor's own
\* office is noted.
LEMMA BeginIInv ==
  ASSUME IInv, NEW r \in Requests, NEW k \in Kinds, NEW a \in Users,
         NEW u \in Users, NEW p \in Courses \cup Workshops \cup {None},
         NEW w \in Role \cup {None}, Begin(r, k, a, u, p, w),
         k = "assignCourse" => p \in Courses,
         k = "assignWorkshop" => p \in Workshops,
         k # "setRole" => w = None,
         \/ /\ UNCHANGED evading
            /\ k = "disable" => a # u
            /\ k = "setRole" /\ a = u => w = "sys_admin"
         \/ evading' = evading \cup {r}
  PROVE  IInv'
<1> USE DEF Begin, Goto, duties
<1>1. TypeOK'
  BY DEF IInv, TypeOK
<1>2. RequestInv'
  BY DEF IInv, TypeOK, RequestInv
<1>3. OfficeInv'
  BY DEF IInv, TypeOK, OfficeInv, Admins
<1>4. FreshInv'
  BY DEF IInv, TypeOK, FreshInv, Remaining
<1>5. AdminRemains'
  BY DEF IInv, AdminRemains, Admins
<1>6. QED BY <1>1, <1>2, <1>3, <1>4, <1>5 DEF IInv

LEMMA BeginRequestIInv ==
  ASSUME IInv, NEW r \in Requests, BeginRequest(r)
  PROVE  IInv'
<1>1. PICK a \in Users, u \in Users :
        \/ \E c \in Courses : BeginAssignCourse(r, a, u, c)
        \/ \E c \in Courses : BeginRemoveCourse(r, a, u, c)
        \/ \E w \in Workshops : BeginAssignWorkshop(r, a, u, w)
        \/ \E w \in Workshops : BeginRemoveWorkshop(r, a, u, w)
        \/ \E x \in Role, same \in BOOLEAN : BeginSetRole(r, a, u, x, same)
        \/ \E same \in BOOLEAN : BeginDisable(r, a, u, same)
        \/ BeginEnable(r, a, u)
  BY DEF BeginRequest
<1>2. ASSUME NEW c \in Courses, BeginAssignCourse(r, a, u, c) PROVE IInv'
  BY <1>2, BeginIInv DEF BeginAssignCourse, Kinds
<1>3. ASSUME NEW c \in Courses, BeginRemoveCourse(r, a, u, c) PROVE IInv'
  BY <1>3, BeginIInv DEF BeginRemoveCourse, Kinds
<1>4. ASSUME NEW w \in Workshops, BeginAssignWorkshop(r, a, u, w) PROVE IInv'
  BY <1>4, BeginIInv DEF BeginAssignWorkshop, Kinds
<1>5. ASSUME NEW w \in Workshops, BeginRemoveWorkshop(r, a, u, w) PROVE IInv'
  BY <1>5, BeginIInv DEF BeginRemoveWorkshop, Kinds
<1>6. ASSUME NEW x \in Role, NEW same \in BOOLEAN, BeginSetRole(r, a, u, x, same)
      PROVE  IInv'
  BY <1>6, BeginIInv DEF BeginSetRole, Kinds
<1>7. ASSUME NEW same \in BOOLEAN, BeginDisable(r, a, u, same) PROVE IInv'
  BY <1>7, BeginIInv DEF BeginDisable, Kinds
<1>8. CASE BeginEnable(r, a, u)
  BY <1>8, BeginIInv DEF BeginEnable, Kinds
<1>9. QED BY <1>1, <1>2, <1>3, <1>4, <1>5, <1>6, <1>7, <1>8

LEMMA GiveUpIInv ==
  ASSUME IInv, NEW r \in Requests, GiveUp(r)
  PROVE  IInv'
<1> USE DEF GiveUp, Forget, duties
<1>1. TypeOK'
  BY DEF IInv, TypeOK
<1>2. RequestInv' /\ OfficeInv'
  BY DEF IInv, TypeOK, RequestInv, OfficeInv, Admins
<1>3. FreshInv'
  BY DEF IInv, TypeOK, FreshInv, Remaining
<1>4. AdminRemains'
  BY DEF IInv, AdminRemains, Admins
<1>5. QED BY <1>1, <1>2, <1>3, <1>4 DEF IInv

\* Whatever is committed, the others' readings are marked stale when it
\* changes them, and the others' actors ousted when it takes their office.
LEMMA CommitIInv ==
  ASSUME IInv, NEW r \in Requests, Commit(r), pc[r] # "idle",
         role' \in [Users -> Role], active' \in [Users -> BOOLEAN],
         assigned' \in [Users -> SUBSET Courses],
         operates' \in [Users -> SUBSET Workshops],
         r \notin ousted \cup evading => actor[r] \in Admins'
  PROVE  IInv'
<1> USE DEF Commit, Forget
<1>1. TypeOK'
  BY DEF IInv, TypeOK
<1>2. RequestInv'
  BY DEF IInv, TypeOK, RequestInv
<1>3. OfficeInv'
  BY DEF IInv, TypeOK, OfficeInv
<1>4. FreshInv'
  <2> SUFFICES ASSUME NEW q \in Requests, q \notin stale', q # r
               PROVE  FreshInv!(q)'
    BY DEF IInv, TypeOK, FreshInv
  <2> QED BY DEF IInv, TypeOK, FreshInv, Remaining
<1>5. AdminRemains'
  BY DEF IInv, TypeOK, AdminRemains
<1>6. QED BY <1>1, <1>2, <1>3, <1>4, <1>5 DEF IInv

-----------------------------------------------------------------------------
(* The handlers.                                                           *)

\* A step that reads, and leaves the tables and the other requests alone.
ReadStep(r) ==
  ReadForCourse(r) \/ ReadForWorkshop(r) \/ Delete(r) \/ ReadRole(r) \/ CountDuties(r)

LEMMA ReadStepIInv ==
  ASSUME IInv, NEW r \in Requests, ReadStep(r)
  PROVE  IInv'
<1> USE DEF Goto, duties, history
<1>1. AdminRemains'
  BY DEF IInv, AdminRemains, Admins, ReadStep, ReadForCourse, ReadForWorkshop,
         Delete, ReadRole, CountDuties
<1>2. CASE ReadForCourse(r)
  <2> USE <1>2 DEF ReadForCourse
  <2>1. TypeOK' /\ RequestInv'
    BY DEF IInv, TypeOK, RequestInv, Role
  <2>2. OfficeInv'
    BY DEF IInv, TypeOK, RequestInv, OfficeInv, Admins
  <2>3. FreshInv'
    BY DEF IInv, TypeOK, RequestInv, FreshInv, Remaining
  <2>4. QED BY <1>1, <2>1, <2>2, <2>3 DEF IInv
<1>3. CASE ReadForWorkshop(r)
  <2> USE <1>3 DEF ReadForWorkshop
  <2>1. TypeOK' /\ RequestInv'
    BY DEF IInv, TypeOK, RequestInv
  <2>2. OfficeInv'
    BY DEF IInv, TypeOK, OfficeInv, Admins
  <2>3. FreshInv'
    BY DEF IInv, TypeOK, FreshInv, Remaining
  <2>4. QED BY <1>1, <2>1, <2>2, <2>3 DEF IInv
<1>4. CASE Delete(r)
  <2> USE <1>4 DEF Delete
  <2>1. TypeOK' /\ RequestInv'
    BY DEF IInv, TypeOK, RequestInv
  <2>2. OfficeInv'
    BY DEF IInv, TypeOK, OfficeInv, Admins
  <2>3. FreshInv'
    BY DEF IInv, TypeOK, FreshInv, Remaining
  <2>4. QED BY <1>1, <2>1, <2>2, <2>3 DEF IInv
<1>5. CASE ReadRole(r)
  <2> USE <1>5 DEF ReadRole
  <2>1. TypeOK' /\ RequestInv'
    BY DEF IInv, TypeOK, RequestInv
  <2>2. OfficeInv'
    BY DEF IInv, TypeOK, OfficeInv, Admins
  <2>3. FreshInv'
    BY RolesAssumption DEF IInv, TypeOK, RequestInv, FreshInv, Remaining
  <2>4. QED BY <1>1, <2>1, <2>2, <2>3 DEF IInv
<1>6. CASE CountDuties(r)
  <2> USE <1>6 DEF CountDuties
  <2>1. TypeOK' /\ RequestInv'
    BY DEF IInv, TypeOK, RequestInv, Role
  <2>2. OfficeInv'
    BY DEF IInv, TypeOK, OfficeInv, Admins
  <2>3. FreshInv'
    BY RolesAssumption DEF IInv, TypeOK, FreshInv, Remaining
  <2>4. QED BY <1>1, <2>1, <2>2, <2>3 DEF IInv
<1>7. QED BY <1>2, <1>3, <1>4, <1>5, <1>6 DEF ReadStep

\* An actor in office writes their own role only to stay in office.
LEMMA WrittenKeepsActor ==
  ASSUME IInv, NEW r \in Requests, pc[r] # "idle",
         role' = Written(r), UNCHANGED active, r \notin ousted \cup evading
  PROVE  actor[r] \in Admins'
<1>1. /\ actor[r] \in Users /\ role[actor[r]] = "sys_admin" /\ active[actor[r]]
      /\ actor[r] = target[r] => write[r] \in {None, "sys_admin"}
      /\ role \in [Users -> Role]
  BY DEF IInv, TypeOK, OfficeInv, Admins
<1>2. role'[actor[r]] = "sys_admin"
  BY <1>1 DEF Written
<1>3. QED BY <1>1, <1>2 DEF Admins

LEMMA WrittenType ==
  ASSUME IInv, NEW r \in Requests, role' = Written(r)
  PROVE  role' \in [Users -> Role]
BY DEF IInv, TypeOK, Written

CommitStep(r) ==
  AssignCourse(r) \/ AssignWorkshop(r) \/ Remove(r) \/ SetRole(r) \/ SetActive(r)

LEMMA CommitStepIInv ==
  ASSUME IInv, NEW r \in Requests, CommitStep(r)
  PROVE  IInv'
<1>1. CASE AssignCourse(r)
  <2> USE <1>1 DEF AssignCourse
  <2>1. assigned' \in [Users -> SUBSET Courses]
    BY DEF IInv, TypeOK, RequestInv
  <2>2. active' \in [Users -> BOOLEAN] /\ operates' \in [Users -> SUBSET Workshops]
    BY DEF IInv, TypeOK
  <2>3. QED BY <2>1, <2>2, WrittenKeepsActor, WrittenType, CommitIInv
<1>2. CASE AssignWorkshop(r)
  <2> USE <1>2 DEF AssignWorkshop
  <2>1. operates' \in [Users -> SUBSET Workshops]
    BY DEF IInv, TypeOK, RequestInv
  <2>2. /\ role' \in [Users -> Role] /\ active' \in [Users -> BOOLEAN]
        /\ assigned' \in [Users -> SUBSET Courses]
    BY DEF IInv, TypeOK
  <2>3. r \notin ousted \cup evading => actor[r] \in Admins'
    BY DEF IInv, OfficeInv, Admins
  <2>4. QED BY <2>1, <2>2, <2>3, CommitIInv
<1>3. CASE Remove(r)
  <2> USE <1>3 DEF Remove
  <2>1. /\ assigned' \in [Users -> SUBSET Courses]
        /\ operates' \in [Users -> SUBSET Workshops]
        /\ active' \in [Users -> BOOLEAN]
    BY DEF IInv, TypeOK
  <2>2. QED BY <2>1, WrittenKeepsActor, WrittenType, CommitIInv
<1>4. CASE SetRole(r)
  <2> USE <1>4 DEF SetRole, duties
  <2>1. /\ assigned' \in [Users -> SUBSET Courses]
        /\ operates' \in [Users -> SUBSET Workshops]
        /\ active' \in [Users -> BOOLEAN]
    BY DEF IInv, TypeOK
  <2>2. QED BY <2>1, WrittenKeepsActor, WrittenType, CommitIInv
<1>5. CASE SetActive(r)
  <2> USE <1>5 DEF SetActive, duties
  <2>1. /\ assigned' \in [Users -> SUBSET Courses]
        /\ operates' \in [Users -> SUBSET Workshops]
        /\ role' \in [Users -> Role] /\ active' \in [Users -> BOOLEAN]
    BY DEF IInv, TypeOK
  <2>2. r \notin ousted \cup evading => actor[r] \in Admins'
    BY DEF IInv, TypeOK, OfficeInv, Admins
  <2>3. QED BY <2>1, <2>2, CommitIInv
<1>6. QED BY <1>1, <1>2, <1>3, <1>4, <1>5 DEF CommitStep

LEMMA NextIInv == IInv /\ [Next]_vars => IInv'
<1> SUFFICES ASSUME IInv, [Next]_vars PROVE IInv'
  OBVIOUS
<1>1. CASE UNCHANGED vars
  BY <1>1 DEF vars, duties, request, history, IInv, TypeOK, RequestInv, OfficeInv,
              FreshInv, AdminRemains, Admins, Remaining
<1>2. ASSUME NEW r \in Requests,
             BeginRequest(r) \/ ReadStep(r) \/ CommitStep(r) \/ GiveUp(r)
      PROVE  IInv'
  BY <1>2, BeginRequestIInv, ReadStepIInv, CommitStepIInv, GiveUpIInv
<1>3. QED BY <1>1, <1>2 DEF Next, ReadStep, CommitStep

LEMMA Invariance == Spec => []IInv
BY InitIInv, NextIInv, PTL DEF Spec

-----------------------------------------------------------------------------
(* The theorems.                                                           *)

\* Every column and every request holds what its type says.
THEOREM TypeCorrect == Spec => []TypeOK
<1>1. IInv => TypeOK
  BY DEF IInv
<1>2. QED BY <1>1, Invariance, PTL

\* However many sys admins demote and disable each other, one is left unless
\* a request was committed whose actor was no sys admin any more, or that got
\* past the checks that nobody demotes or disables themselves by the spelling
\* of its path: otherwise those checks are enough.
THEOREM AdminRemainsAlways == Spec => []AdminRemains
<1>1. IInv => AdminRemains
  BY DEF IInv
<1>2. QED BY <1>1, Invariance, PTL

\* Any step but a commit leaves the roles and the cohorts' duties alone.
LEMMA OthersKeepRoles ==
  ASSUME NEW r \in Requests, BeginRequest(r) \/ ReadStep(r) \/ GiveUp(r)
  PROVE  UNCHANGED <<role, operates>>
BY DEF BeginRequest, BeginAssignCourse, BeginRemoveCourse, BeginAssignWorkshop,
       BeginRemoveWorkshop, BeginSetRole, BeginDisable, BeginEnable, Begin,
       ReadStep, ReadForCourse, ReadForWorkshop, Delete, ReadRole, CountDuties,
       GiveUp, duties

\* Every change of a role or of a cohort's duty is a request's commit.
LEMMA ChangedByCommit ==
  ASSUME [Next]_vars
  PROVE  \/ UNCHANGED <<role, operates>>
         \/ \E r \in Requests : CommitStep(r)
<1>1. CASE UNCHANGED vars
  BY <1>1 DEF vars, duties
<1>2. ASSUME NEW r \in Requests,
             BeginRequest(r) \/ ReadStep(r) \/ CommitStep(r) \/ GiveUp(r)
      PROVE  UNCHANGED <<role, operates>> \/ CommitStep(r)
  BY <1>2, OthersKeepRoles
<1>3. QED BY <1>1, <1>2 DEF Next, ReadStep, CommitStep

\* A committed request is done, and was about one user.
LEMMA CommitEnds ==
  ASSUME IInv, NEW r \in Requests, CommitStep(r)
  PROVE  /\ pc[r] # "idle" /\ pc'[r] = "idle"
         /\ target[r] \in Users
         /\ \A u \in Users \ {target[r]} :
              role'[u] = role[u] /\ operates'[u] = operates[u]
<1>1. pc[r] # "idle" /\ Commit(r)
  BY DEF CommitStep, AssignCourse, AssignWorkshop, Remove, SetRole, SetActive
<1>2. pc'[r] = "idle" /\ target[r] \in Users
  BY <1>1 DEF Commit, Forget, IInv, TypeOK, RequestInv
<1>3. role' \in {role, Written(r)}
  BY DEF CommitStep, AssignCourse, AssignWorkshop, Remove, SetRole, SetActive
<1>4. \A u \in Users \ {target[r]} : role'[u] = role[u]
  BY <1>3 DEF Written, IInv, TypeOK
<1>5. \A u \in Users \ {target[r]} : operates'[u] = operates[u]
  BY DEF CommitStep, AssignCourse, AssignWorkshop, Remove, SetRole, SetActive,
         duties, IInv, TypeOK
<1>6. QED BY <1>1, <1>2, <1>4, <1>5

\* The role and the duties of its user after the commit of a request that is
\* neither a change of roles by hand nor stale.
LEMMA FreshCommit ==
  ASSUME IInv, NEW r \in Requests, CommitStep(r),
         r \notin stale, kind[r] # "setRole", NEW u, u = target[r]
  PROVE  /\ role[u] = "sys_admin" => role'[u] = "sys_admin"
         /\ ShutOut(u)' => ShutOut(u)
         /\ Remove(r) => role'[u] # "course_admin" \/ operates'[u] # {}
<1>0. /\ pc[r] # "idle" /\ target[r] \in Users
      /\ None \notin Role
  BY CommitEnds, RolesAssumption DEF Role
<1>1. CASE AssignCourse(r)
  <2>1. /\ write[r] \in {None, "course_admin"} /\ role[target[r]] # "sys_admin"
        /\ operates' = operates /\ role' = Written(r) /\ pc[r] = "read"
    BY <1>0, <1>1 DEF AssignCourse, IInv, RequestInv, FreshInv
  <2>2. role'[target[r]] \in {role[target[r]], "course_admin"}
    BY <1>0, <2>1 DEF Written, IInv, TypeOK
  <2>3. QED BY <2>1, <2>2 DEF ShutOut, Remove
<1>2. CASE AssignWorkshop(r)
  <2>1. role[target[r]] = "course_admin" /\ role' = role /\ pc[r] = "read"
    BY <1>2 DEF AssignWorkshop, IInv, FreshInv
  <2>2. QED BY <2>1 DEF ShutOut, Remove
<1>3. CASE Remove(r)
  <2>1. /\ kind[r] \in {"removeCourse", "removeWorkshop"}
        /\ write[r] \in {None, "participant"}
        /\ write[r] = "participant" =>
             role[target[r]] = "course_admin" /\ Remaining(r) = {}
        /\ write[r] = None =>
             role[target[r]] # "course_admin" \/ Remaining(r) # {}
    BY <1>0, <1>3 DEF Remove, IInv, RequestInv, FreshInv
  <2>2. operates'[target[r]] = Remaining(r)
    BY <1>0, <1>3, <2>1 DEF Remove, Remaining, IInv, TypeOK
  <2>3. role'[target[r]] = IF write[r] = None THEN role[target[r]] ELSE write[r]
    BY <1>0, <1>3 DEF Remove, Written, IInv, TypeOK
  <2>4. Remaining(r) \subseteq operates[target[r]]
    BY DEF Remaining
  <2>5. QED BY <2>1, <2>2, <2>3, <2>4, RolesAssumption DEF ShutOut
<1>4. CASE SetActive(r)
  BY <1>4 DEF SetActive, duties, ShutOut, Remove
<1>5. QED BY <1>1, <1>2, <1>3, <1>4 DEF CommitStep, SetRole

\* Nobody loses the office of sys admin but by set_user_role, or by a commit
\* of a request that read an older role.
THEOREM OfficeKept == Spec => OfficeLostByHandOrStale
<1> DEFINE Ended(u) == \E r \in Requests :
             /\ pc[r] # "idle" /\ pc'[r] = "idle" /\ target[r] = u
             /\ kind[r] = "setRole" \/ r \in stale
           Lost(u) == role[u] = "sys_admin" /\ role'[u] # "sys_admin"
<1>1. ASSUME IInv, [Next]_vars
      PROVE  [\A u \in Users : Lost(u) => Ended(u)]_vars
  <2> SUFFICES ASSUME NEW u \in Users, Lost(u) PROVE Ended(u)
    OBVIOUS
  <2>1. PICK r \in Requests : CommitStep(r)
    BY <1>1, ChangedByCommit
  <2>2. pc[r] # "idle" /\ pc'[r] = "idle" /\ target[r] = u
    BY <1>1, <2>1, CommitEnds
  <2>3. kind[r] = "setRole" \/ r \in stale
    BY <1>1, <2>1, <2>2, FreshCommit
  <2>4. QED BY <2>2, <2>3
<1>2. QED BY <1>1, Invariance, PTL DEF Spec, OfficeLostByHandOrStale

\* Nobody with a cohort is left without the role but by set_user_role, or by
\* a commit of a request whose reading was overtaken.
THEOREM OperatorsKept == Spec => OperatorsShutOutByHandOrStale
<1> DEFINE Ended(u) == \E r \in Requests :
             /\ pc[r] # "idle" /\ pc'[r] = "idle" /\ target[r] = u
             /\ kind[r] = "setRole" \/ r \in stale
<1>1. ASSUME IInv, [Next]_vars
      PROVE  [\A u \in Users : ShutOut(u)' /\ ~ShutOut(u) => Ended(u)]_vars
  <2> SUFFICES ASSUME NEW u \in Users, ShutOut(u)', ~ShutOut(u) PROVE Ended(u)
    OBVIOUS
  <2>1. PICK r \in Requests : CommitStep(r)
    BY <1>1, ChangedByCommit DEF ShutOut
  <2>2. pc[r] # "idle" /\ pc'[r] = "idle" /\ target[r] = u
    BY <1>1, <2>1, CommitEnds DEF ShutOut
  <2>3. kind[r] = "setRole" \/ r \in stale
    BY <1>1, <2>1, <2>2, FreshCommit
  <2>4. QED BY <2>2, <2>3
<1>2. QED BY <1>1, Invariance, PTL DEF Spec, OperatorsShutOutByHandOrStale

\* A removal that nothing overtook leaves no course admin without a cohort.
THEOREM NoIdleOperatorLeft == Spec => RemovalLeavesNoIdleOperator
<1>1. ASSUME IInv, NEW r \in Requests, Remove(r), r \notin stale
      PROVE  role'[target[r]] # "course_admin" \/ operates'[target[r]] # {}
  <2>1. CommitStep(r) /\ kind[r] # "setRole"
    BY <1>1 DEF CommitStep, Remove, IInv, RequestInv
  <2>2. QED BY <1>1, <2>1, FreshCommit
<1>2. IInv /\ [Next]_vars =>
        [\A r \in Requests : Remove(r) /\ r \notin stale =>
           \/ role'[target[r]] # "course_admin"
           \/ operates'[target[r]] # {}]_vars
  BY <1>1
<1>3. QED BY <1>2, Invariance, PTL DEF Spec, RemovalLeavesNoIdleOperator

-----------------------------------------------------------------------------
(* The access tokens.                                                      *)

CONSTANTS Tokens, Second, Lifetime, MaxTime, MaxFaults
VARIABLES now, redis, until, exp, owner, held, audit,
          spc, skind, tok, ttl, loggedOut, wiped, faults

S == INSTANCE AuthSessions WITH pc <- spc, kind <- skind

\* The instance brings its own copy of FiniteSets; it counts as this one.
LEMMA SameFiniteSets == \A X : S!IsFiniteSet(X) <=> IsFiniteSet(X)
BY DEF S!IsFiniteSet, IsFiniteSet

LEMMA SameCardinality == \A X : S!Cardinality(X) = Cardinality(X)
BY DEF S!Cardinality, Cardinality

\* Rounding down to whole seconds loses less than a second.
LEMMA WholeSecondsBounds ==
  ASSUME S!SessionsAssumption,
         NEW t \in Nat
  PROVE  /\ S!WholeSeconds(t) \in Nat
         /\ S!WholeSeconds(t) <= t
         /\ t < S!WholeSeconds(t) + Second
<1> DEFINE q == t \div Second
<1>1. q \in Nat /\ q * Second <= t /\ t < q * Second + Second
  BY DEF S!SessionsAssumption
<1>2. q * Second \in Nat
  BY <1>1 DEF S!SessionsAssumption
<1>3. QED BY <1>1, <1>2 DEF S!WholeSeconds

\* A request in progress is about a token that was issued; only a logout
\* revokes.
SessionRequests ==
  \A r \in Requests :
    /\ spc[r] # "idle" => tok[r] \in Tokens
    /\ spc[r] \notin {"idle", "issuing"} => exp[tok[r]] > 0
    /\ spc[r] \in {"revoking", "revoked"} => skind[r] = "logout"

\* The blocklist has the token till its last second, or a restart has lost it,
\* or that second has come.
Blocked(j) ==
  \/ j \in wiped
  \/ exp[j] < now + Second
  \/ exp[j] < until[j] + Second

\* What a logout is about to write, or has written, is enough; an entry in
\* Redis is one that has not run out.
BlocklistInv ==
  /\ \A j \in Tokens : until[j] > 0 => until[j] > now
  /\ \A j \in loggedOut : exp[j] > 0 /\ Blocked(j)
  /\ \A r \in Requests :
       /\ spc[r] = "revoking" =>
            /\ ttl[r] > 0
            /\ exp[tok[r]] < now + ttl[r] + Second
       /\ spc[r] = "revoked" => Blocked(tok[r])

\* Tokens a logout has revoked whose audit row may still be written.
InHand == {j \in Tokens : \E r \in Requests : spc[r] = "revoked" /\ tok[r] = j}

\* Events without a row that no request in progress will write any more.
Owed ==
  ({<<j, "issued">> : j \in held}
     \cup {<<j, "revoked">> : j \in loggedOut
                 \cup {i \in Tokens : until[i] > 0 /\ i \notin InHand}})
  \ audit

OwedInv == Cardinality(Owed) <= faults

SessionInv == S!TypeOK /\ SessionRequests /\ BlocklistInv

LEMMA InitSessionInv ==
  ASSUME S!SessionsAssumption
  PROVE  S!Init => SessionInv
<1> SUFFICES ASSUME S!Init PROVE SessionInv
  OBVIOUS
<1> USE DEF S!SessionsAssumption, S!Init
<1>1. S!TypeOK
  BY DEF S!TypeOK
<1>2. SessionRequests /\ BlocklistInv
  BY DEF SessionRequests, BlocklistInv
<1>3. QED BY <1>1, <1>2 DEF SessionInv

\* Time passes: an entry that runs out is one whose token is in its last
\* second.
LEMMA TickSessionInv ==
  ASSUME S!SessionsAssumption
  PROVE  SessionInv /\ S!Tick => SessionInv'
<1> SUFFICES ASSUME SessionInv, S!Tick PROVE SessionInv'
  OBVIOUS
<1> USE DEF S!SessionsAssumption, S!Tick
<1>0. /\ now \in Nat /\ now' = now + 1 /\ until \in [Tokens -> Nat]
      /\ exp \in [Tokens -> Nat]
      /\ \A j \in Tokens :
           until'[j] = IF until[j] <= now + 1 THEN 0 ELSE until[j]
      /\ UNCHANGED <<exp, spc, skind, tok, ttl, loggedOut, wiped>>
  BY DEF SessionInv, S!TypeOK, S!request, S!history
<1>1. S!TypeOK'
  BY DEF SessionInv, S!TypeOK, S!request, S!history
<1>2. SessionRequests'
  BY <1>0 DEF SessionInv, SessionRequests
<1>3. ASSUME NEW j \in Tokens, Blocked(j) PROVE Blocked(j)'
  BY <1>0, <1>3 DEF Blocked
<1>4. BlocklistInv'
  <2>1. \A j \in Tokens : until'[j] > 0 => until'[j] > now'
    BY <1>0
  <2>2. \A j \in loggedOut' : exp'[j] > 0 /\ Blocked(j)'
    BY <1>0, <1>3 DEF SessionInv, S!TypeOK, BlocklistInv
  <2>3. ASSUME NEW r \in Requests
        PROVE  /\ spc'[r] = "revoking" =>
                    /\ ttl'[r] > 0
                    /\ exp'[tok'[r]] < now' + ttl'[r] + Second
               /\ spc'[r] = "revoked" => Blocked(tok[r])'
    <3>1. spc[r] \in {"revoking", "revoked"} =>
            tok[r] \in Tokens /\ ttl[r] \in Nat /\ exp[tok[r]] \in Nat
      BY <1>0 DEF SessionInv, S!TypeOK, SessionRequests
    <3>2. QED BY <1>0, <1>3, <3>1 DEF SessionInv, BlocklistInv
  <2>4. QED BY <1>0, <2>1, <2>2, <2>3 DEF BlocklistInv, Blocked
<1>5. QED BY <1>1, <1>2, <1>4 DEF SessionInv

\* Redis and the sys admin.
LEMMA OutsideSessionInv ==
  ASSUME S!SessionsAssumption,
         SessionInv,
         \/ S!RedisDown \/ \E lost \in BOOLEAN : S!RedisUp(lost)
         \/ \E u \in Users : S!Disable(u) \/ S!Enable(u)
  PROVE  SessionInv'
<1>0. /\ UNCHANGED <<now, exp, owner, held, audit, spc, skind, tok, ttl,
                     loggedOut, faults>>
      /\ redis' \in {"up", "down"} /\ active' \in [Users -> BOOLEAN]
      /\ \/ UNCHANGED <<until, wiped>>
         \/ /\ until' = [j \in Tokens |-> 0]
            /\ wiped' = wiped \cup {j \in Tokens : until[j] > 0}
  BY DEF S!RedisDown, S!RedisUp, S!Disable, S!Enable, S!request, S!history,
         SessionInv, S!TypeOK
<1>1. S!TypeOK' /\ SessionRequests'
  BY <1>0 DEF SessionInv, S!TypeOK, SessionRequests
<1>2. ASSUME NEW j \in Tokens, Blocked(j) PROVE Blocked(j)'
  <2>1. now \in Nat /\ until[j] \in Nat /\ exp[j] \in Nat
    BY DEF SessionInv, S!TypeOK
  <2>2. QED BY <1>0, <1>2, <2>1 DEF S!SessionsAssumption, Blocked
<1>3. BlocklistInv'
  BY <1>0, <1>2
  DEF SessionInv, S!TypeOK, SessionRequests, BlocklistInv, Blocked
<1>4. QED BY <1>1, <1>3 DEF SessionInv

\* The other requests stay where they are.
OthersKept(r) ==
  \A q \in Requests \ {r} :
    /\ spc'[q] = spc[q] /\ skind'[q] = skind[q]
    /\ tok'[q] = tok[q] /\ ttl'[q] = ttl[q]

\* A request that begins, moves on or ends, and leaves the blocklist alone.
LEMMA RequestSessionInv ==
  ASSUME S!SessionsAssumption,
         SessionInv, S!TypeOK', NEW r \in Requests,
         UNCHANGED <<now, until, loggedOut, wiped>>,
         \A j \in Tokens : exp[j] > 0 => exp'[j] = exp[j],
         OthersKept(r),
         spc'[r] # "idle" => tok'[r] \in Tokens,
         spc'[r] \notin {"idle", "issuing"} => exp[tok'[r]] > 0,
         spc'[r] \in {"revoking", "revoked"} => skind'[r] = "logout",
         spc'[r] = "revoking" =>
           /\ ttl'[r] > 0
           /\ exp[tok'[r]] < now + ttl'[r] + Second,
         spc'[r] = "revoked" => Blocked(tok'[r])
  PROVE  SessionInv'
<1>1. SessionRequests'
  BY DEF SessionInv, S!TypeOK, SessionRequests, OthersKept
<1>2. \A j \in Tokens : exp[j] > 0 /\ Blocked(j) => Blocked(j)'
  BY DEF Blocked
<1>3. BlocklistInv'
  <2>1. \A j \in Tokens : until'[j] > 0 => until'[j] > now'
    BY DEF SessionInv, BlocklistInv
  <2>2. \A j \in loggedOut' : exp'[j] > 0 /\ Blocked(j)'
    BY <1>2 DEF SessionInv, S!TypeOK, BlocklistInv
  <2>3. ASSUME NEW q \in Requests
        PROVE  /\ spc'[q] = "revoking" =>
                    /\ ttl'[q] > 0
                    /\ exp'[tok'[q]] < now + ttl'[q] + Second
               /\ spc'[q] = "revoked" => exp[tok'[q]] > 0 /\ Blocked(tok'[q])
                                        /\ tok'[q] \in Tokens
    <3>1. CASE q = r
      BY <3>1
    <3>2. CASE q # r
      BY <3>2 DEF SessionInv, SessionRequests, BlocklistInv, OthersKept
    <3>3. QED BY <3>1, <3>2
  <2>4. ASSUME NEW q \in Requests, spc'[q] = "revoked"
        PROVE  (Blocked(tok[q]))'
    <3>1. exp'[tok'[q]] = exp[tok'[q]]
      BY <2>3, <2>4
    <3>2. QED BY <2>3, <2>4, <3>1 DEF Blocked
  <2>5. QED BY <2>1, <2>2, <2>3, <2>4 DEF BlocklistInv
<1>4. QED BY <1>1, <1>3 DEF SessionInv

\* The answer, or the end of a process.
LEMMA AnswerSessionInv ==
  ASSUME S!SessionsAssumption,
         SessionInv, NEW r \in Requests, S!Answer(r),
         UNCHANGED <<now, active, redis, until, exp, owner, wiped, loggedOut>>,
         held' \subseteq Tokens,
         audit' \subseteq Tokens \X {"issued", "revoked"},
         faults' \in 0..MaxFaults
  PROVE  SessionInv'
<1>1. S!TypeOK'
  BY DEF SessionInv, S!TypeOK, S!Answer
<1>2. spc'[r] = "idle"
  BY DEF SessionInv, S!TypeOK, S!Answer
<1>3. OthersKept(r)
  BY DEF SessionInv, S!TypeOK, S!Answer, OthersKept
<1>4. QED BY <1>1, <1>2, <1>3, RequestSessionInv

\* The audit row is written, or there is a fault.
LEMMA LogType ==
  ASSUME S!SessionsAssumption,
         S!TypeOK, NEW j \in Tokens, NEW e \in {"issued", "revoked"},
         S!Log(j, e)
  PROVE  /\ audit' \subseteq Tokens \X {"issued", "revoked"}
         /\ faults' \in 0..MaxFaults
BY DEF S!SessionsAssumption, S!TypeOK, S!Log

LEMMA LoginSessionInv ==
  ASSUME S!SessionsAssumption,
         SessionInv, NEW r \in Requests, NEW u \in Users, NEW j \in Tokens,
         S!Login(r, u, j)
  PROVE  SessionInv'
<1> USE DEF S!Login, S!Goto
<1>1. S!WholeSeconds(now + Lifetime) \in Nat
  BY WholeSecondsBounds DEF S!SessionsAssumption, SessionInv, S!TypeOK
<1>2. S!TypeOK'
  BY <1>1 DEF SessionInv, S!TypeOK, S!history
<1>3. OthersKept(r)
  BY DEF SessionInv, S!TypeOK, OthersKept
<1>4. spc'[r] = "issuing" /\ tok'[r] = j
  BY DEF SessionInv, S!TypeOK
<1>5. \A i \in Tokens : exp[i] > 0 => exp'[i] = exp[i]
  BY DEF SessionInv, S!TypeOK
<1>6. QED BY <1>2, <1>3, <1>4, <1>5, RequestSessionInv DEF S!history

LEMMA PresentSessionInv ==
  ASSUME S!SessionsAssumption,
         SessionInv, NEW r \in Requests, NEW j \in Tokens,
         NEW k \in {"use", "logout", "validate"}, S!Present(r, j, k)
  PROVE  SessionInv'
<1> USE DEF S!Present, S!Goto
<1>1. S!TypeOK'
  BY DEF SessionInv, S!TypeOK, S!stores, S!history
<1>2. OthersKept(r)
  BY DEF SessionInv, S!TypeOK, OthersKept
<1>3. spc'[r] = "decoded" /\ tok'[r] = j /\ exp[j] > 0
  BY DEF SessionInv, S!TypeOK
<1>4. QED BY <1>1, <1>2, <1>3, RequestSessionInv DEF S!stores, S!history

\* The checks of decode_token and get_current_user.
LEMMA CheckSessionInv ==
  ASSUME S!SessionsAssumption,
         SessionInv, NEW r \in Requests,
         S!CheckBlocklist(r) \/ S!GetCurrentUser(r)
  PROVE  SessionInv'
<1>0. PICK to \in {"clear", "handling"} :
        /\ spc' = [spc EXCEPT ![r] = to] /\ spc[r] \in {"decoded", "clear"}
        /\ UNCHANGED <<now, S!stores, skind, tok, ttl, S!history>>
  BY DEF S!CheckBlocklist, S!GetCurrentUser, S!Goto
<1>1. S!TypeOK'
  BY <1>0 DEF SessionInv, S!TypeOK, S!stores, S!history
<1>2. OthersKept(r)
  BY <1>0 DEF SessionInv, S!TypeOK, OthersKept
<1>3. spc'[r] = to /\ tok'[r] = tok[r] /\ tok[r] \in Tokens /\ exp[tok[r]] > 0
  BY <1>0 DEF SessionInv, S!TypeOK, SessionRequests
<1>4. QED BY <1>0, <1>1, <1>2, <1>3, RequestSessionInv DEF S!stores, S!history

\* The seconds that are left are rounded down, so a second may be lost; and
\* nothing is stored for the last one.
LEMMA ComputeTtlSessionInv ==
  ASSUME S!SessionsAssumption,
         SessionInv, NEW r \in Requests, S!ComputeTtl(r)
  PROVE  SessionInv'
<1> DEFINE j == tok[r]
<1>0. /\ spc[r] = "clear" /\ skind[r] = "logout"
      /\ spc' = [spc EXCEPT ![r] =
                   IF S!Left(j) = 0 THEN "revoked" ELSE "revoking"]
      /\ ttl' = [ttl EXCEPT ![r] = S!Left(j)]
      /\ UNCHANGED <<now, S!stores, skind, tok, S!history>>
  BY DEF S!ComputeTtl, S!Goto
<1>1. j \in Tokens /\ exp[j] \in Nat /\ exp[j] > 0 /\ now \in Nat
  BY <1>0 DEF SessionInv, S!TypeOK, SessionRequests
<1>2. S!Left(j) \in Nat /\ exp[j] < now + S!Left(j) + Second
  <2>1. CASE exp[j] > now
    <3>1. exp[j] - now \in Nat
      BY <1>1, <2>1
    <3> DEFINE whole == S!WholeSeconds(exp[j] - now)
    <3>2. whole \in Nat /\ exp[j] - now < whole + Second
      BY <3>1, WholeSecondsBounds
    <3>3. S!Left(j) = whole
      BY <2>1 DEF S!Left
    <3> HIDE DEF whole
    <3>4. QED BY <1>1, <3>2, <3>3 DEF S!SessionsAssumption
  <2>2. CASE ~(exp[j] > now)
    <3>1. S!Left(j) = 0
      BY <2>2 DEF S!Left
    <3>2. QED BY <1>1, <2>2, <3>1 DEF S!SessionsAssumption
  <2>3. QED BY <2>1, <2>2
<1> HIDE DEF j
<1>3. S!TypeOK'
  BY <1>0, <1>2 DEF SessionInv, S!TypeOK, S!stores, S!history
<1>4. OthersKept(r)
  BY <1>0 DEF SessionInv, S!TypeOK, OthersKept
<1>5. /\ spc'[r] = IF S!Left(j) = 0 THEN "revoked" ELSE "revoking"
      /\ tok'[r] = j /\ skind'[r] = "logout" /\ ttl'[r] = S!Left(j)
  BY <1>0 DEF SessionInv, S!TypeOK, j
<1>6. S!Left(j) = 0 => Blocked(j)
  BY <1>1, <1>2 DEF Blocked
<1>7. S!Left(j) # 0 => S!Left(j) > 0
  BY <1>2
<1>8. /\ spc'[r] = "revoking" =>
           /\ ttl'[r] > 0
           /\ exp[tok'[r]] < now + ttl'[r] + Second
      /\ spc'[r] = "revoked" => Blocked(tok'[r])
      /\ spc'[r] # "idle" => tok'[r] \in Tokens
      /\ exp[tok'[r]] > 0
  BY <1>1, <1>2, <1>5, <1>6, <1>7
<1>9. QED BY <1>0, <1>3, <1>4, <1>5, <1>8, RequestSessionInv
          DEF S!stores, S!history

\* The entry outlives the token but for its last second, however long the
\* logout took to store it.
LEMMA SetExSessionInv ==
  ASSUME S!SessionsAssumption,
         SessionInv, NEW r \in Requests, S!SetEx(r)
  PROVE  SessionInv'
<1> DEFINE j == tok[r]
<1>0. /\ spc[r] = "revoking" /\ spc' = [spc EXCEPT ![r] = "revoked"]
      /\ until' = [until EXCEPT ![j] = now + ttl[r]]
      /\ wiped' = wiped \ {j}
      /\ UNCHANGED <<now, active, redis, exp, owner, held, audit, skind, tok,
                     ttl, loggedOut, faults>>
  BY DEF S!SetEx, S!Goto
<1>1. /\ j \in Tokens /\ exp[j] \in Nat /\ exp[j] > 0 /\ now \in Nat
      /\ ttl[r] \in Nat /\ ttl[r] > 0 /\ exp[j] < now + ttl[r] + Second
      /\ skind[r] = "logout"
  BY <1>0 DEF SessionInv, S!TypeOK, SessionRequests, BlocklistInv
<1>2. /\ until'[j] = now + ttl[r]
      /\ \A i \in Tokens \ {j} :
           until'[i] = until[i] /\ (i \in wiped' <=> i \in wiped)
  BY <1>0, <1>1 DEF SessionInv, S!TypeOK
<1> HIDE DEF j
<1>3. S!TypeOK'
  BY <1>0, <1>1 DEF SessionInv, S!TypeOK
<1>4. SessionRequests'
  BY <1>0, <1>1 DEF SessionInv, S!TypeOK, SessionRequests, j
<1>5. \A i \in Tokens : (Blocked(i) \/ i = j) => Blocked(i)'
  BY <1>0, <1>1, <1>2 DEF Blocked
<1>6. BlocklistInv'
  <2>1. \A i \in Tokens : until'[i] > 0 => until'[i] > now
    BY <1>1, <1>2 DEF SessionInv, BlocklistInv
  <2>2. \A i \in loggedOut : exp[i] > 0 /\ Blocked(i)'
    BY <1>5 DEF SessionInv, S!TypeOK, BlocklistInv
  <2>3. ASSUME NEW q \in Requests
        PROVE  /\ spc'[q] = "revoking" =>
                    /\ ttl[q] > 0
                    /\ exp[tok[q]] < now + ttl[q] + Second
               /\ spc'[q] = "revoked" => Blocked(tok[q])'
    <3>1. CASE q = r
      BY <1>0, <1>1, <1>5, <3>1 DEF SessionInv, S!TypeOK, j
    <3>2. CASE q # r
      BY <1>0, <1>5, <3>2
      DEF SessionInv, S!TypeOK, SessionRequests, BlocklistInv
    <3>3. QED BY <3>1, <3>2
  <2>4. QED BY <1>0, <2>1, <2>2, <2>3 DEF BlocklistInv
<1>7. QED BY <1>3, <1>4, <1>6 DEF SessionInv

\* The logout is answered: its token is on the blocklist.
LEMMA FinishLogoutSessionInv ==
  ASSUME S!SessionsAssumption,
         SessionInv, NEW r \in Requests, S!FinishLogout(r)
  PROVE  SessionInv'
<1>0. /\ spc[r] = "revoked" /\ S!Answer(r)
      /\ loggedOut' = loggedOut \cup {tok[r]}
      /\ UNCHANGED <<now, active, redis, until, exp, owner, held, wiped>>
  BY DEF S!FinishLogout
<1>1. tok[r] \in Tokens /\ exp[tok[r]] > 0 /\ Blocked(tok[r])
  BY <1>0 DEF SessionInv, SessionRequests, BlocklistInv
<1>2. /\ audit' \subseteq Tokens \X {"issued", "revoked"}
      /\ faults' \in 0..MaxFaults
  BY <1>1, LogType DEF S!FinishLogout, SessionInv
<1>3. S!TypeOK' /\ SessionRequests'
  BY <1>0, <1>1, <1>2 DEF SessionInv, S!TypeOK, SessionRequests, S!Answer
<1>4. BlocklistInv'
  BY <1>0, <1>1 DEF SessionInv, S!TypeOK, BlocklistInv, S!Answer, Blocked
<1>5. QED BY <1>3, <1>4 DEF SessionInv

LEMMA StepSessionInv ==
  ASSUME S!SessionsAssumption,
         SessionInv, NEW r \in Requests, S!Step(r)
  PROVE  SessionInv'
<1>0. S!TypeOK
  BY DEF SessionInv
<1>1. ASSUME NEW u \in Users, NEW j \in Tokens, S!Login(r, u, j)
      PROVE  SessionInv'
  BY <1>1, LoginSessionInv
<1>2. ASSUME NEW j \in Tokens, NEW k \in {"use", "logout", "validate"},
             S!Present(r, j, k)
      PROVE  SessionInv'
  BY <1>2, PresentSessionInv
<1>3. CASE S!FinishLogin(r)
  <2>1. tok[r] \in Tokens
    BY <1>3 DEF S!FinishLogin, SessionInv, SessionRequests
  <2>2. /\ audit' \subseteq Tokens \X {"issued", "revoked"}
        /\ faults' \in 0..MaxFaults /\ held' \subseteq Tokens
    BY <1>0, <1>3, <2>1, LogType DEF S!FinishLogin, S!TypeOK
  <2>3. QED BY <1>3, <2>2, AnswerSessionInv DEF S!FinishLogin
<1>4. CASE S!Refuse(r) \/ S!Act(r) \/ S!Validate(r) \/ S!SetExRaises(r)
  BY <1>0, <1>4, AnswerSessionInv
  DEF S!Refuse, S!Act, S!Validate, S!SetExRaises, S!stores, S!TypeOK
<1>5. CASE S!Die(r)
  <2>1. faults' \in 0..MaxFaults
    BY <1>0, <1>5 DEF S!SessionsAssumption, S!Die, S!TypeOK
  <2>2. QED BY <1>0, <1>5, <2>1, AnswerSessionInv DEF S!Die, S!stores, S!TypeOK
<1>6. QED
  BY <1>1, <1>2, <1>3, <1>4, <1>5, CheckSessionInv, ComputeTtlSessionInv,
     SetExSessionInv, FinishLogoutSessionInv
  DEF S!Step

LEMMA NextSessionInv ==
  ASSUME S!SessionsAssumption
  PROVE  SessionInv /\ [S!Next]_(S!vars) => SessionInv'
<1> SUFFICES ASSUME SessionInv, [S!Next]_(S!vars) PROVE SessionInv'
  OBVIOUS
<1>1. CASE UNCHANGED S!vars
  BY <1>1
  DEF S!vars, S!stores, S!request, S!history, SessionInv, S!TypeOK,
      SessionRequests, BlocklistInv, Blocked
<1>2. QED BY <1>1, TickSessionInv, OutsideSessionInv, StepSessionInv DEF S!Next

LEMMA SessionInvariance ==
  ASSUME S!SessionsAssumption
  PROVE  S!Spec => []SessionInv
BY InitSessionInv, NextSessionInv, PTL DEF S!Spec

\* Tokens, requests and the three stores keep their types.
THEOREM SessionsTypeCorrect ==
  ASSUME S!SessionsAssumption
  PROVE  S!Spec => []S!TypeOK
<1>1. SessionInv => S!TypeOK
  BY DEF SessionInv
<1>2. QED BY <1>1, SessionInvariance, PTL

\* A logged out token passes the blocklist only in its last second, while
\* Redis is silent or after it has forgotten.
THEOREM LoggedOutKeptOut ==
  ASSUME S!SessionsAssumption
  PROVE  S!Spec => S!LoggedOutStaysOut
<1>1. ASSUME SessionInv, NEW r \in Requests, S!CheckBlocklist(r),
             tok[r] \in loggedOut
      PROVE  redis = "down" \/ tok[r] \in wiped \/ exp[tok[r]] < now + Second
  <2>1. /\ tok[r] \in Tokens /\ Blocked(tok[r])
        /\ redis = "down" \/ ~S!Revoked(tok[r])
    BY <1>1 DEF SessionInv, S!TypeOK, BlocklistInv, S!CheckBlocklist
  <2>2. ~S!Revoked(tok[r]) => until[tok[r]] <= now
    BY <1>1, <2>1 DEF S!Revoked, SessionInv, S!TypeOK
  <2>3. QED BY <1>1, <2>1, <2>2
            DEF S!SessionsAssumption, Blocked, SessionInv, S!TypeOK
<1>2. SessionInv /\ [S!Next]_(S!vars) =>
        [\A r \in Requests :
           S!CheckBlocklist(r) /\ tok[r] \in loggedOut =>
             \/ redis = "down" \/ tok[r] \in wiped
             \/ exp[tok[r]] < now + Second]_(S!vars)
  BY <1>1
<1>3. QED BY <1>2, SessionInvariance, PTL DEF S!Spec, S!LoggedOutStaysOut

-----------------------------------------------------------------------------
Rows == Tokens \X {"issued", "revoked"}

\* A row is owed for a token that its user holds, and for one that was logged
\* out or is in Redis with nobody left to record it.
Due(j, event) ==
  \/ event = "issued" /\ j \in held
  \/ event = "revoked" /\ (j \in loggedOut \/ (until[j] > 0 /\ j \notin InHand))

LEMMA OwedAre ==
  ASSUME S!SessionsAssumption,
         held \subseteq Tokens, loggedOut \subseteq Tokens
  PROVE  Owed = {row \in Rows : Due(row[1], row[2]) /\ row \notin audit}
BY DEF Owed, Rows, Due

\* Nothing more is due, but perhaps for one row.
LEMMA OwedGrows ==
  ASSUME S!SessionsAssumption,
         S!TypeOK, S!TypeOK', NEW t \in Tokens, NEW e \in {"issued", "revoked"},
         audit \subseteq audit',
         \A j \in Tokens, event \in {"issued", "revoked"} :
           Due(j, event)' => Due(j, event) \/ (j = t /\ event = e)
  PROVE  Owed' \subseteq Owed \cup {<<t, e>>}
<1>1. Owed = {row \in Rows : Due(row[1], row[2]) /\ row \notin audit}
  BY OwedAre DEF S!TypeOK
<1>2. Owed' = {row \in Rows : Due(row[1], row[2])' /\ row \notin audit'}
  <2>1. held' \subseteq Tokens /\ loggedOut' \subseteq Tokens
    BY DEF S!TypeOK
  <2>2. QED BY <2>1 DEF Owed, Rows, Due
<1>3. QED BY <1>1, <1>2 DEF Rows

LEMMA OwedShrinks ==
  ASSUME S!SessionsAssumption,
         S!TypeOK, S!TypeOK', audit \subseteq audit',
         \A j \in Tokens, event \in {"issued", "revoked"} :
           Due(j, event)' => Due(j, event) \/ <<j, event>> \in audit'
  PROVE  Owed' \subseteq Owed
<1>1. Owed = {row \in Rows : Due(row[1], row[2]) /\ row \notin audit}
  BY OwedAre DEF S!TypeOK
<1>2. Owed' = {row \in Rows : Due(row[1], row[2])' /\ row \notin audit'}
  <2>1. held' \subseteq Tokens /\ loggedOut' \subseteq Tokens
    BY DEF S!TypeOK
  <2>2. QED BY <2>1 DEF Owed, Rows, Due
<1>3. SUFFICES ASSUME NEW row \in Owed' PROVE row \in Owed
  OBVIOUS
<1>4. PICK j \in Tokens, event \in {"issued", "revoked"} : row = <<j, event>>
  BY <1>2 DEF Rows
<1>5. Due(j, event)' /\ row \notin audit'
  BY <1>2, <1>4
<1>6. QED BY <1>1, <1>4, <1>5 DEF Rows

\* What is due is decided by three sets and the logouts on their way.
LEMMA DueKept ==
  ASSUME S!SessionsAssumption,
         S!TypeOK, held' = held, loggedOut' = loggedOut, audit' = audit,
         \A j \in Tokens : until'[j] > 0 => until[j] > 0 \/ j \in InHand',
         InHand \subseteq InHand', S!TypeOK'
  PROVE  Owed' \subseteq Owed
<1>1. ASSUME NEW j \in Tokens, NEW event \in {"issued", "revoked"},
             Due(j, event)'
      PROVE  Due(j, event)
  BY <1>1 DEF Due
<1>2. QED BY <1>1, OwedShrinks

\* A request that is not about to record a logout, and those of the others.
LEMMA InHandKept ==
  ASSUME S!SessionsAssumption,
         NEW r \in Requests, spc[r] # "revoked",
         OthersKept(r)
  PROVE  InHand \subseteq InHand'
BY DEF InHand, OthersKept

\* The one that is takes at most its own token out of hand.
LEMMA InHandLost ==
  ASSUME S!SessionsAssumption,
         NEW r \in Requests,
         OthersKept(r)
  PROVE  InHand \subseteq InHand' \cup {tok[r]}
BY DEF InHand, OthersKept

\* Time, Redis and the sys admin cause no new debt.
LEMMA OutsideOwed ==
  ASSUME S!SessionsAssumption,
         SessionInv, SessionInv',
         \/ S!Tick \/ S!RedisDown \/ \E lost \in BOOLEAN : S!RedisUp(lost)
         \/ \E u \in Users : S!Disable(u) \/ S!Enable(u)
  PROVE  Owed' \subseteq Owed /\ faults' = faults
<1>1. /\ UNCHANGED <<held, audit, loggedOut, spc, tok, faults>>
      /\ \A j \in Tokens : until'[j] > 0 => until[j] > 0
  BY DEF S!Tick, S!RedisDown, S!RedisUp, S!Disable, S!Enable, S!request,
         S!history, SessionInv, S!TypeOK
<1>2. InHand' = InHand
  BY <1>1 DEF InHand
<1>3. QED BY <1>1, <1>2, DueKept DEF SessionInv

\* Nor does a request that is still on its way, or ends with nothing to record.
LEMMA QuietOwed ==
  ASSUME S!SessionsAssumption,
         SessionInv, SessionInv', NEW r \in Requests,
         \/ \E u \in Users, j \in Tokens : S!Login(r, u, j)
         \/ \E j \in Tokens, k \in {"use", "logout", "validate"} :
              S!Present(r, j, k)
         \/ S!CheckBlocklist(r) \/ S!Refuse(r) \/ S!GetCurrentUser(r)
         \/ S!Act(r) \/ S!Validate(r) \/ S!ComputeTtl(r) \/ S!SetEx(r)
         \/ S!SetExRaises(r)
  PROVE  Owed' \subseteq Owed /\ faults' = faults
<1>1. /\ UNCHANGED <<held, audit, loggedOut, faults>>
      /\ spc[r] # "revoked"
      /\ OthersKept(r)
  BY DEF S!Login, S!Present, S!CheckBlocklist, S!Refuse, S!GetCurrentUser,
         S!Act, S!Validate, S!ComputeTtl, S!SetEx, S!SetExRaises, S!Goto,
         S!Answer, S!stores, S!history, SessionInv, S!TypeOK, OthersKept
<1>2. \A j \in Tokens : until'[j] > 0 => until[j] > 0 \/ j \in InHand'
  <2>1. CASE S!SetEx(r)
    <3>1. spc'[r] = "revoked" /\ tok'[r] = tok[r] /\ tok[r] \in Tokens
      BY <2>1 DEF S!SetEx, S!Goto, SessionInv, S!TypeOK, SessionRequests
    <3>2. \A j \in Tokens : j # tok[r] => until'[j] = until[j]
      BY <2>1 DEF S!SetEx, SessionInv, S!TypeOK
    <3>3. QED BY <3>1, <3>2 DEF InHand
  <2>2. CASE UNCHANGED until
    BY <2>2
  <2>3. QED
    BY <2>1, <2>2
    DEF S!Login, S!Present, S!CheckBlocklist, S!Refuse, S!GetCurrentUser,
        S!Act, S!Validate, S!ComputeTtl, S!SetExRaises, S!stores
<1>3. InHand \subseteq InHand'
  BY <1>1, InHandKept
<1>4. QED BY <1>1, <1>2, <1>3, DueKept DEF SessionInv

\* A row is missed with the fault that loses it, and only then.
Missed(t, event) ==
  \/ Owed' \subseteq Owed /\ faults' = faults
  \/ Owed' \subseteq Owed \cup {<<t, event>>} /\ faults' = faults + 1

LEMMA DieOwed ==
  ASSUME S!SessionsAssumption,
         SessionInv, SessionInv', NEW r \in Requests, S!Die(r)
  PROVE  tok[r] \in Tokens /\ Missed(tok[r], "revoked")
<1>1. /\ UNCHANGED <<held, audit, loggedOut, until>> /\ faults' = faults + 1
      /\ OthersKept(r)
      /\ tok[r] \in Tokens
  BY DEF S!Die, S!Answer, S!stores, SessionInv, S!TypeOK, SessionRequests,
         OthersKept
<1>2. InHand \subseteq InHand' \cup {tok[r]}
  BY <1>1, InHandLost
<1>3. ASSUME NEW j \in Tokens, NEW event \in {"issued", "revoked"},
             Due(j, event)'
      PROVE  Due(j, event) \/ (j = tok[r] /\ event = "revoked")
  BY <1>1, <1>2, <1>3 DEF Due
<1>4. Owed' \subseteq Owed \cup {<<tok[r], "revoked">>}
  BY <1>1, <1>3, OwedGrows DEF SessionInv
<1>5. QED BY <1>1, <1>4 DEF Missed

LEMMA LogOwed ==
  ASSUME S!SessionsAssumption,
         SessionInv, SessionInv', NEW t \in Tokens,
         NEW e \in {"issued", "revoked"},
         S!Log(t, e),
         \A j \in Tokens, event \in {"issued", "revoked"} :
           Due(j, event)' => Due(j, event) \/ (j = t /\ event = e)
  PROVE  Missed(t, e)
<1>1. audit \subseteq audit' /\ S!TypeOK /\ S!TypeOK'
  BY DEF S!Log, SessionInv
<1>2. CASE audit' = audit \cup {<<t, e>>} /\ UNCHANGED faults
  <2>1. \A j \in Tokens, event \in {"issued", "revoked"} :
          Due(j, event)' => Due(j, event) \/ <<j, event>> \in audit'
    BY <1>2
  <2>2. QED BY <1>1, <1>2, <2>1, OwedShrinks DEF Missed
<1>3. CASE faults' = faults + 1
  <2>1. Owed' \subseteq Owed \cup {<<t, e>>}
    BY <1>1, OwedGrows
  <2>2. QED BY <1>3, <2>1 DEF Missed
<1>4. QED BY <1>2, <1>3 DEF S!Log

LEMMA FinishOwed ==
  ASSUME S!SessionsAssumption,
         SessionInv, SessionInv', NEW r \in Requests,
         S!FinishLogin(r) \/ S!FinishLogout(r)
  PROVE  tok[r] \in Tokens /\ \E e \in {"issued", "revoked"} : Missed(tok[r], e)
<1>1. /\ tok[r] \in Tokens /\ UNCHANGED until
      /\ OthersKept(r)
  BY DEF S!FinishLogin, S!FinishLogout, S!Answer, SessionInv, S!TypeOK,
         SessionRequests, OthersKept
<1>2. CASE S!FinishLogin(r)
  <2>1. /\ held' = held \cup {tok[r]} /\ loggedOut' = loggedOut
        /\ spc[r] # "revoked" /\ S!Log(tok[r], "issued")
    BY <1>2 DEF S!FinishLogin
  <2>2. InHand \subseteq InHand'
    BY <1>1, <2>1, InHandKept
  <2>3. ASSUME NEW j \in Tokens, NEW event \in {"issued", "revoked"},
             Due(j, event)'
        PROVE  Due(j, event) \/ (j = tok[r] /\ event = "issued")
    BY <1>1, <2>1, <2>2, <2>3 DEF Due
  <2>4. QED BY <1>1, <2>1, <2>3, LogOwed
<1>3. CASE S!FinishLogout(r)
  <2>1. /\ held' = held /\ loggedOut' = loggedOut \cup {tok[r]}
        /\ S!Log(tok[r], "revoked")
    BY <1>3 DEF S!FinishLogout
  <2>2. InHand \subseteq InHand' \cup {tok[r]}
    BY <1>1, InHandLost
  <2>3. ASSUME NEW j \in Tokens, NEW event \in {"issued", "revoked"},
             Due(j, event)'
        PROVE  Due(j, event) \/ (j = tok[r] /\ event = "revoked")
    BY <1>1, <2>1, <2>2, <2>3 DEF Due
  <2>4. QED BY <1>1, <2>1, <2>3, LogOwed
<1>4. QED BY <1>2, <1>3

LEMMA OwedFinite ==
  ASSUME S!SessionsAssumption,
         S!TypeOK
  PROVE  IsFiniteSet(Owed) /\ Cardinality(Owed) \in Nat
<1>1. IsFiniteSet(Rows)
  <2>1. IsFiniteSet({"issued", "revoked"})
    <3>1. IsFiniteSet({"issued"})
      BY FS_Singleton
    <3>2. IsFiniteSet({"issued"} \cup {"revoked"})
      BY <3>1, FS_AddElement
    <3>3. QED BY <3>2
  <2>2. IsFiniteSet(Tokens)
    BY SameFiniteSets DEF S!SessionsAssumption
  <2>3. QED BY <2>1, <2>2, FS_Product DEF Rows
<1>2. Owed \subseteq Rows
  BY OwedAre DEF S!TypeOK
<1>3. QED BY <1>1, <1>2, FS_Subset, FS_CardinalityType

LEMMA NextOwed ==
  ASSUME S!SessionsAssumption
  PROVE  SessionInv /\ SessionInv' /\ OwedInv /\ [S!Next]_(S!vars) => OwedInv'
<1> SUFFICES ASSUME SessionInv, SessionInv', OwedInv, [S!Next]_(S!vars)
             PROVE  OwedInv'
  OBVIOUS
<1>1. /\ IsFiniteSet(Owed) /\ Cardinality(Owed) \in Nat /\ faults \in Nat
  BY OwedFinite DEF S!SessionsAssumption, SessionInv, S!TypeOK
<1>2. \/ Owed' \subseteq Owed /\ faults' = faults
      \/ \E row \in Rows :
           Owed' \subseteq Owed \cup {row} /\ faults' = faults + 1
  <2>1. CASE UNCHANGED S!vars
    BY <2>1 DEF S!vars, S!stores, S!request, S!history, Owed, InHand
  <2>2. ASSUME NEW r \in Requests, S!Step(r),
               ~(S!FinishLogin(r) \/ S!FinishLogout(r) \/ S!Die(r))
        PROVE  Owed' \subseteq Owed /\ faults' = faults
    BY <2>2, QuietOwed DEF S!Step
  <2>3. ASSUME NEW t \in Tokens, NEW e \in {"issued", "revoked"}, Missed(t, e)
        PROVE  \/ Owed' \subseteq Owed /\ faults' = faults
               \/ \E row \in Rows :
                    Owed' \subseteq Owed \cup {row} /\ faults' = faults + 1
    BY <2>3 DEF Missed, Rows
  <2>4. ASSUME NEW r \in Requests,
               S!FinishLogin(r) \/ S!FinishLogout(r) \/ S!Die(r)
        PROVE  \/ Owed' \subseteq Owed /\ faults' = faults
               \/ \E row \in Rows :
                    Owed' \subseteq Owed \cup {row} /\ faults' = faults + 1
    BY <2>3, <2>4, FinishOwed, DieOwed
  <2>5. QED BY <2>1, <2>2, <2>4, OutsideOwed DEF S!Next
<1>3. CASE Owed' \subseteq Owed /\ faults' = faults
  <2>1. Owed' \in SUBSET Owed
    BY <1>3
  <2>2. Cardinality(Owed') <= Cardinality(Owed) /\ IsFiniteSet(Owed')
    BY <1>1, <2>1, FS_Subset
  <2>3. Cardinality(Owed') \in Nat
    BY <2>2, FS_CardinalityType
  <2>4. QED BY <1>1, <1>3, <2>2, <2>3 DEF OwedInv
<1>4. ASSUME NEW row \in Rows, Owed' \subseteq Owed \cup {row},
             faults' = faults + 1
      PROVE  OwedInv'
  <2> DEFINE more == Owed \cup {row}
  <2>1. /\ IsFiniteSet(more)
        /\ Cardinality(more) = IF row \in Owed THEN Cardinality(Owed)
                                               ELSE Cardinality(Owed) + 1
    BY <1>1, FS_AddElement
  <2>2. Owed' \in SUBSET more
    BY <1>4
  <2> HIDE DEF more
  <2>3. IsFiniteSet(Owed') /\ Cardinality(Owed') <= Cardinality(more)
    BY <2>1, <2>2, FS_Subset
  <2>4. Cardinality(Owed') \in Nat
    BY <2>3, FS_CardinalityType
  <2>5. QED BY <1>1, <1>4, <2>1, <2>3, <2>4 DEF OwedInv
<1>5. QED BY <1>2, <1>3, <1>4

LEMMA InitOwed ==
  ASSUME S!SessionsAssumption
  PROVE  S!Init => OwedInv
<1>1. S!Init => Owed = {}
  BY DEF S!Init, Owed
<1>2. QED BY <1>1, FS_EmptySet DEF OwedInv, S!Init

\* The audit log misses one row at most for each fault.
THEOREM RowsMissed ==
  ASSUME S!SessionsAssumption
  PROVE  S!Spec => []S!OneMissingRowPerFault
<1>1. SessionInv /\ OwedInv => S!OneMissingRowPerFault
  <2> SUFFICES ASSUME SessionInv, OwedInv PROVE S!OneMissingRowPerFault
    OBVIOUS
  <2>1. InHand \subseteq {j \in Tokens : S!LoggingOut(j)}
    BY DEF InHand, S!LoggingOut, SessionInv, SessionRequests
  <2>2. S!Unrecorded \ audit \subseteq Owed
    BY <2>1 DEF S!Unrecorded, Owed
  <2>3. /\ IsFiniteSet(Owed) /\ Cardinality(Owed) \in Nat
    BY OwedFinite DEF SessionInv
  <2>4. /\ Cardinality(S!Unrecorded \ audit) <= Cardinality(Owed)
        /\ Cardinality(S!Unrecorded \ audit) \in Nat
    BY <2>2, <2>3, FS_Subset, FS_CardinalityType
  <2>5. faults \in Nat
    BY DEF S!SessionsAssumption, SessionInv, S!TypeOK
  <2>6. QED
    BY <2>3, <2>4, <2>5, SameCardinality DEF OwedInv, S!OneMissingRowPerFault
<1>2. QED BY <1>1, InitSessionInv, InitOwed, NextSessionInv, NextOwed, PTL
          DEF S!Spec
=============================================================================
