---------------------------- MODULE OperatorRoles ----------------------------
(***************************************************************************)
(* Who may operate what: users.role and users.is_active, and the two       *)
(* tables of duties, course_admin_assignments and workshop_course_admins.  *)
(* Sys admins promote, assign, remove, disable and set roles by hand, each *)
(* in a request of its own; being let in and the statements of the handler *)
(* are separate reads, and no row of users is locked before its UPDATE.    *)
(*                                                                         *)
(* Steps are the statements whose outcome another request may change.  The *)
(* last UPDATE or INSERT of a transaction is one step with its commit: it  *)
(* waits for the row's lock and reads nothing afterwards.  A DELETE is a   *)
(* step of its own, seen by its own transaction only until the commit.     *)
(***************************************************************************)
EXTENDS Naturals, FiniteSets

CONSTANTS
  Users,          \* accounts: the sys admins who act and those they act on
  Courses,        \* lab courses
  Workshops,      \* cohorts
  Requests,       \* requests that may be in progress at once
  None            \* nobody, no place, no role to write

ASSUME RolesAssumption ==
  /\ IsFiniteSet(Users) /\ IsFiniteSet(Requests)
  /\ Courses \cap Workshops = {}
  /\ None \notin Users \cup Courses \cup Workshops
  /\ None \notin {"participant", "course_admin", "sys_admin"}

Role == {"participant", "course_admin", "sys_admin"}

VARIABLES
  role, active,   \* users.role and users.is_active
  assigned,       \* each user's courses in course_admin_assignments
  operates,       \* each user's cohorts in workshop_course_admins
  pc, kind,       \* each request: how far it is, and what it is
  actor, target,  \* the sys admin it was let in for, and whom it is about
  place,          \* the course or cohort
  write,          \* the role it will write, None when it leaves it alone
  ousted,         \* history: its actor has lost office since it was let in
  stale,          \* history: what it has read of its target has changed
  evading,        \* history: it takes its own actor's office, see BeginSetRole
  crossed         \* history: an ousted or evading request was committed

duties == <<assigned, operates>>
request == <<pc, kind, actor, target, place, write>>
history == <<ousted, stale, evading, crossed>>
vars == <<role, active, duties, request, history>>

Kinds == {"assignCourse", "removeCourse", "assignWorkshop", "removeWorkshop",
          "setRole", "disable", "enable"}

\* Those whom SysAdminOnly lets in.
Admins == {u \in Users : role[u] = "sys_admin" /\ active[u]}

\* The database is set up with at least one sys admin, and without duties.
Init ==
  /\ role \in [Users -> {"participant", "sys_admin"}]
  /\ active = [u \in Users |-> TRUE]
  /\ Admins # {}
  /\ assigned = [u \in Users |-> {}]
  /\ operates = [u \in Users |-> {}]
  /\ pc = [r \in Requests |-> "idle"]
  /\ kind = [r \in Requests |-> "none"]
  /\ actor = [r \in Requests |-> None]
  /\ target = [r \in Requests |-> None]
  /\ place = [r \in Requests |-> None]
  /\ write = [r \in Requests |-> None]
  /\ ousted = {} /\ stale = {} /\ evading = {} /\ crossed = FALSE

-----------------------------------------------------------------------------
(* How a request begins and ends.                                          *)

Goto(r, from, to) == pc[r] = from /\ pc' = [pc EXCEPT ![r] = to]

\* Token, user and role are checked; the handler's first line runs later.
Begin(r, k, a, u, p, w) ==
  /\ Goto(r, "idle", "begun")
  /\ a \in Admins
  /\ kind' = [kind EXCEPT ![r] = k]
  /\ actor' = [actor EXCEPT ![r] = a]
  /\ target' = [target EXCEPT ![r] = u]
  /\ place' = [place EXCEPT ![r] = p]
  /\ write' = [write EXCEPT ![r] = w]
  /\ UNCHANGED <<role, active, duties, ousted, stale, crossed>>

Forget(r) ==
  /\ pc' = [pc EXCEPT ![r] = "idle"]
  /\ kind' = [kind EXCEPT ![r] = "none"]
  /\ actor' = [actor EXCEPT ![r] = None]
  /\ target' = [target EXCEPT ![r] = None]
  /\ place' = [place EXCEPT ![r] = None]
  /\ write' = [write EXCEPT ![r] = None]

\* Refused, failed or dead: the transaction is rolled back.
GiveUp(r) ==
  /\ pc[r] # "idle"
  /\ Forget(r)
  /\ ousted' = ousted \ {r} /\ stale' = stale \ {r} /\ evading' = evading \ {r}
  /\ UNCHANGED <<role, active, duties, crossed>>

\* The commit of r, after which the users and duties are the primed ones.
Commit(r) ==
  /\ Forget(r)
  /\ crossed' = (crossed \/ r \in ousted \cup evading)
  /\ evading' = evading \ {r}
  /\ ousted' = {q \in Requests \ {r} :
                  \/ q \in ousted
                  \/ pc[q] # "idle" /\ actor[q] \in Admins \ Admins'}
  /\ stale' = {q \in Requests \ {r} :
                 \/ q \in stale
                 \/ /\ pc[q] \in {"read", "operator", "decided"}
                    /\ role[target[q]] # role'[target[q]]
                 \/ /\ pc[q] = "decided"
                    /\ operates[target[q]] # operates'[target[q]]}

\* Another request has deleted this duty and is not committed yet.
BeingRemoved(r, k) ==
  \E q \in Requests \ {r} :
    /\ pc[q] \in {"deleted", "operator", "decided"}
    /\ kind[q] = k /\ target[q] = target[r] /\ place[q] = place[r]

Written(r) == IF write[r] = None THEN role
              ELSE [role EXCEPT ![target[r]] = write[r]]

-----------------------------------------------------------------------------
(* assign_course_admin and assign_workshop_admin.                          *)

BeginAssignCourse(r, a, u, c) ==
  Begin(r, "assignCourse", a, u, c, None) /\ UNCHANGED evading

BeginAssignWorkshop(r, a, u, w) ==
  Begin(r, "assignWorkshop", a, u, w, None) /\ UNCHANGED evading

\* Mutant: whoever is not a course admin is made one.
ReadForCourse_Bug(r) ==
  /\ kind[r] = "assignCourse"
  /\ Goto(r, "begun", "read")
  /\ active[target[r]]
  /\ write' = [write EXCEPT ![r] = IF role[target[r]] # "course_admin"
                                   THEN "course_admin" ELSE None]
  /\ UNCHANGED <<role, active, duties, kind, actor, target, place, history>>

\* The user is active and no sys admin; a participant will be promoted.
ReadForCourse(r) ==
  /\ kind[r] = "assignCourse"
  /\ Goto(r, "begun", "read")
  /\ active[target[r]] /\ role[target[r]] # "sys_admin"
  /\ write' = [write EXCEPT ![r] = IF role[target[r]] = "participant"
                                   THEN "course_admin" ELSE None]
  /\ UNCHANGED <<role, active, duties, kind, actor, target, place, history>>

\* Only a course admin may be given a cohort.
ReadForWorkshop(r) ==
  /\ kind[r] = "assignWorkshop"
  /\ Goto(r, "begun", "read")
  /\ active[target[r]] /\ role[target[r]] = "course_admin"
  /\ UNCHANGED <<role, active, duties, kind, actor, target, place, write, history>>

\* UPDATE users, when a participant was read; INSERT; COMMIT.
AssignCourse(r) ==
  /\ kind[r] = "assignCourse" /\ pc[r] = "read"
  /\ ~BeingRemoved(r, "removeCourse")
  /\ role' = Written(r)
  /\ assigned' = [assigned EXCEPT ![target[r]] = @ \cup {place[r]}]
  /\ UNCHANGED <<active, operates>>
  /\ Commit(r)

AssignWorkshop(r) ==
  /\ kind[r] = "assignWorkshop" /\ pc[r] = "read"
  /\ ~BeingRemoved(r, "removeWorkshop")
  /\ operates' = [operates EXCEPT ![target[r]] = @ \cup {place[r]}]
  /\ UNCHANGED <<role, active, assigned>>
  /\ Commit(r)

-----------------------------------------------------------------------------
(* remove_course_admin and remove_workshop_admin.                          *)

BeginRemoveCourse(r, a, u, c) ==
  Begin(r, "removeCourse", a, u, c, None) /\ UNCHANGED evading

BeginRemoveWorkshop(r, a, u, w) ==
  Begin(r, "removeWorkshop", a, u, w, None) /\ UNCHANGED evading

\* DELETE ... RETURNING, which another DELETE of the row waits for.
Delete(r) ==
  /\ \/ kind[r] = "removeCourse" /\ place[r] \in assigned[target[r]]
     \/ kind[r] = "removeWorkshop" /\ place[r] \in operates[target[r]]
  /\ ~BeingRemoved(r, kind[r])
  /\ Goto(r, "begun", "deleted")
  /\ UNCHANGED <<role, active, duties, kind, actor, target, place, write, history>>

\* maybe_demote_course_admin_to_participant looks at the role first.
ReadRole(r) ==
  /\ Goto(r, "deleted", IF role[target[r]] = "course_admin"
                        THEN "operator" ELSE "decided")
  /\ UNCHANGED <<role, active, duties, kind, actor, target, place, write, history>>

\* Mutant: the row that was just deleted counts.
Remaining_Bug(r) == operates[target[r]]

\* user_has_course_admin_duties: cohorts alone, and its own DELETE is seen.
Remaining(r) ==
  operates[target[r]] \ (IF kind[r] = "removeWorkshop" THEN {place[r]} ELSE {})

\* Mutant: the courses are counted in place of the cohorts.
CountDuties_Bug(r) ==
  /\ Goto(r, "operator", "decided")
  /\ write' = [write EXCEPT ![r] =
       IF assigned[target[r]] = {} THEN "participant" ELSE None]
  /\ UNCHANGED <<role, active, duties, kind, actor, target, place, history>>

CountDuties(r) ==
  /\ Goto(r, "operator", "decided")
  /\ write' = [write EXCEPT ![r] =
       IF Remaining(r) = {} THEN "participant" ELSE None]
  /\ UNCHANGED <<role, active, duties, kind, actor, target, place, history>>

\* UPDATE users by id alone, when so decided; COMMIT.
Remove(r) ==
  /\ pc[r] = "decided"
  /\ role' = Written(r)
  /\ IF kind[r] = "removeCourse"
     THEN /\ assigned' = [assigned EXCEPT ![target[r]] = @ \ {place[r]}]
          /\ UNCHANGED operates
     ELSE /\ operates' = [operates EXCEPT ![target[r]] = @ \ {place[r]}]
          /\ UNCHANGED assigned
  /\ UNCHANGED active
  /\ Commit(r)

-----------------------------------------------------------------------------
(* set_user_role, disable_user and enable_user.                            *)

\* Mutant: the check that nobody demotes themselves is dropped.
BeginSetRole_Bug(r, a, u, x, same) ==
  /\ Begin(r, "setRole", a, u, None, x)
  /\ evading' = IF a = u /\ ~same /\ x # "sys_admin" THEN evading \cup {r} ELSE evading

\* The check compares the path's user_id with str(admin.id), as text: same says
\* whether it is spelled like that.  The UPDATE compares UUIDs, so one in upper
\* case or without its dashes is the same user, and passes the check.
BeginSetRole(r, a, u, x, same) ==
  /\ a = u /\ same => x = "sys_admin"
  /\ Begin(r, "setRole", a, u, None, x)
  /\ evading' = IF a = u /\ x # "sys_admin" THEN evading \cup {r} ELSE evading

\* Here too.
BeginDisable(r, a, u, same) ==
  /\ ~(a = u /\ same)
  /\ Begin(r, "disable", a, u, None, None)
  /\ evading' = IF a = u THEN evading \cup {r} ELSE evading

BeginEnable(r, a, u) ==
  Begin(r, "enable", a, u, None, None) /\ UNCHANGED evading

SetRole(r) ==
  /\ kind[r] = "setRole" /\ pc[r] = "begun"
  /\ role' = Written(r)
  /\ UNCHANGED <<active, duties>>
  /\ Commit(r)

SetActive(r) ==
  /\ kind[r] \in {"disable", "enable"} /\ pc[r] = "begun"
  /\ active' = [active EXCEPT ![target[r]] = (kind[r] = "enable")]
  /\ UNCHANGED <<role, duties>>
  /\ Commit(r)

-----------------------------------------------------------------------------
BeginRequest(r) ==
  \E a \in Users, u \in Users :
    \/ \E c \in Courses : BeginAssignCourse(r, a, u, c)
    \/ \E c \in Courses : BeginRemoveCourse(r, a, u, c)
    \/ \E w \in Workshops : BeginAssignWorkshop(r, a, u, w)
    \/ \E w \in Workshops : BeginRemoveWorkshop(r, a, u, w)
    \/ \E x \in Role, same \in BOOLEAN : BeginSetRole(r, a, u, x, same)
    \/ \E same \in BOOLEAN : BeginDisable(r, a, u, same)
    \/ BeginEnable(r, a, u)

Next ==
  \E r \in Requests :
    \/ BeginRequest(r)
    \/ ReadForCourse(r) \/ AssignCourse(r)
    \/ ReadForWorkshop(r) \/ AssignWorkshop(r)
    \/ Delete(r) \/ ReadRole(r) \/ CountDuties(r) \/ Remove(r)
    \/ SetRole(r) \/ SetActive(r)
    \/ GiveUp(r)

Spec == Init /\ [][Next]_vars

-----------------------------------------------------------------------------
(* Properties.                                                             *)

TypeOK ==
  /\ role \in [Users -> Role] /\ active \in [Users -> BOOLEAN]
  /\ assigned \in [Users -> SUBSET Courses]
  /\ operates \in [Users -> SUBSET Workshops]
  /\ pc \in [Requests -> {"idle", "begun", "read", "deleted", "operator",
                          "decided"}]
  /\ kind \in [Requests -> Kinds \cup {"none"}]
  /\ actor \in [Requests -> Users \cup {None}]
  /\ target \in [Requests -> Users \cup {None}]
  /\ place \in [Requests -> Courses \cup Workshops \cup {None}]
  /\ write \in [Requests -> Role \cup {None}]
  /\ ousted \subseteq Requests /\ stale \subseteq Requests
  /\ evading \subseteq Requests /\ crossed \in BOOLEAN

\* The checks that nobody demotes (admin.py:1712) or disables (auth.py:199)
\* themselves keep an active sys admin in office, as long as no request is
\* committed whose actor lost office after it was let in, or that names its
\* actor in another spelling.  Two sys admins who demote each other at once
\* leave nobody.
AdminRemains == crossed \/ Admins # {}

\* Nobody loses the office of sys admin but by set_user_role, or by a
\* request that read an older role: the promotion of assign_course_admin
\* and the demotion of maybe_demote write the role by id, whatever it is.
OfficeLostByHandOrStale ==
  [][\A u \in Users :
       role[u] = "sys_admin" /\ role'[u] # "sys_admin" =>
         \E r \in Requests :
           /\ pc[r] # "idle" /\ pc'[r] = "idle" /\ target[r] = u
           /\ kind[r] = "setRole" \/ r \in stale]_vars

\* The routes of the cohorts ask for the role and the duty
\* (_ensure_workshop_operator).  One who has the duty is left without the
\* role only by set_user_role, or by a request whose reading of that user
\* was overtaken by another's commit.
ShutOut(u) == operates[u] # {} /\ role[u] = "participant"
OperatorsShutOutByHandOrStale ==
  [][\A u \in Users :
       ShutOut(u)' /\ ~ShutOut(u) =>
         \E r \in Requests :
           /\ pc[r] # "idle" /\ pc'[r] = "idle" /\ target[r] = u
           /\ kind[r] = "setRole" \/ r \in stale]_vars

\* A removal that was not overtaken leaves no course admin without a cohort:
\* two removals at once each see the other's duty, and nobody demotes.
RemovalLeavesNoIdleOperator ==
  [][\A r \in Requests :
       Remove(r) /\ r \notin stale =>
         \/ role'[target[r]] # "course_admin"
         \/ operates'[target[r]] # {}]_vars

\* Does not hold (README.md, Disagreements): "sys_admin cannot demote
\* themselves" (admin.py:1712), "cannot disable their own account" (auth.py:199).
OfficeIsNotOnesOwn ==
  [][\A r \in Requests :
       (SetRole(r) \/ SetActive(r)) /\ actor[r] = target[r] /\ r \notin ousted =>
         actor[r] \in Admins']_vars

\* Does not hold with two courses (README.md, Disagreements):
\* remove_course_admin is to demote "If the user has no remaining
\* assignments" (admin.py:1547), and counts the cohorts only.
RemovalKeepsAssigned ==
  [][\A r \in Requests :
       /\ Remove(r) /\ kind[r] = "removeCourse" /\ r \notin stale
       /\ role[target[r]] = "course_admin" /\ assigned'[target[r]] # {}
       => role'[target[r]] = "course_admin"]_vars
=============================================================================
