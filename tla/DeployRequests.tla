---------------------------- MODULE DeployRequests ----------------------------
(***************************************************************************)
(* The routes that insert rows into lab_deployments, for one owner and one *)
(* lab course: a course admin's POST /course/{id}/deploy, the run of a     *)
(* cohort of the course by its operator (POST .../request-run), and a sys  *)
(* admin's deployment for the owner (POST /labs/deploy, deploy-for-user).  *)
(* And DELETE /courses/{id}, which takes the rows of the course with it.   *)
(*                                                                         *)
(* Every request is a READ COMMITTED transaction that first checks what is *)
(* there and then writes: one step for what it checks, one for its writes  *)
(* and the commit.  Only the first route holds a lock from one to the      *)
(* other, the advisory lock of (owner, course).  What becomes of a row     *)
(* once it is queued is the subject of LabWorkers: here it moves along the *)
(* edges of the status machine, and its members stay those it was queued   *)
(* with: the routes that add and remove one later touch nothing else.      *)
(***************************************************************************)
EXTENDS Naturals, FiniteSets

CONSTANTS
  Deployments,    \* ids of the rows that may be inserted
  Requests,       \* requests that may be in progress at once
  Learners,
  MaxLimit        \* bound: the values of max_concurrent_deployments

ASSUME RequestsAssumption ==
  /\ IsFiniteSet(Deployments) /\ IsFiniteSet(Requests)
  /\ MaxLimit \in Nat \ {0}

VARIABLES
  course,         \* the row of content_items exists
  cohort,         \* a workshop of the course exists
  limit,          \* course_guardrails.max_concurrent_deployments
  roster,         \* course_participants
  seats,          \* active entitlements of the workshop
  row,            \* lab_deployments.status
  route,          \* the route that queued each row
  members,        \* the deployment_members each row was queued with
  pc, kind,       \* each request: how far it is, and which route
  known,          \* the guardrail a course request has read
  list            \* the learners a cohort request has read

tables == <<course, cohort, limit, roster, seats, row, route, members>>
request == <<pc, kind, known, list>>
vars == <<tables, request>>

Pending == {"queued", "provisioning"}
Active  == Pending \cup {"running"}

\* What the workers do to a row.
Edges == {<<"queued", "provisioning">>, <<"provisioning", "running">>,
          <<"provisioning", "failed">>, <<"running", "terminating">>,
          <<"terminating", "expired">>, <<"terminating", "cleanup_failed">>}

Init ==
  /\ course = TRUE
  /\ cohort = FALSE
  /\ limit \in 1..MaxLimit
  /\ roster = {}
  /\ seats = {}
  /\ row = [d \in Deployments |-> "absent"]
  /\ route = [d \in Deployments |-> "none"]
  /\ members = [d \in Deployments |-> {}]
  /\ pc = [r \in Requests |-> "idle"]
  /\ kind = [r \in Requests |-> "none"]
  /\ known = [r \in Requests |-> 0]
  /\ list = [r \in Requests |-> {}]

Rows(statuses) == {d \in Deployments : row[d] \in statuses}
RowsOf(k, statuses) == {d \in Rows(statuses) : route[d] = k}

-----------------------------------------------------------------------------
(* What changes meanwhile.                                                 *)

Progress(d) ==
  /\ \E s \in {"provisioning", "running", "failed", "terminating",
               "expired", "cleanup_failed"} :
       /\ <<row[d], s>> \in Edges
       /\ row' = [row EXCEPT ![d] = s]
  /\ UNCHANGED <<course, cohort, limit, roster, seats, route, members, request>>

SetGuardrails(n) ==
  /\ course
  /\ limit' = n
  /\ UNCHANGED <<course, cohort, roster, seats, row, route, members, request>>

Enroll(l) ==
  /\ course
  /\ roster' = roster \cup {l}
  /\ UNCHANGED <<course, cohort, limit, seats, row, route, members, request>>

Unenroll(l) ==
  /\ l \in roster
  /\ roster' = roster \ {l}
  /\ UNCHANGED <<course, cohort, limit, seats, row, route, members, request>>

\* A workshop of the course is created, and a seat of it granted; the program
\* has no operation that takes either back.
OpenCohort ==
  /\ course
  /\ cohort' = TRUE
  /\ UNCHANGED <<course, limit, roster, seats, row, route, members, request>>

GrantSeat(l) ==
  /\ cohort
  /\ seats' = seats \cup {l}
  /\ UNCHANGED <<course, cohort, limit, roster, row, route, members, request>>

-----------------------------------------------------------------------------
(* Steps of a request.                                                     *)

Goto(r, from, to) == pc[r] = from /\ pc' = [pc EXCEPT ![r] = to]
Begin(r, k, to) == Goto(r, "idle", to) /\ kind' = [kind EXCEPT ![r] = k]

\* The transaction ends; what the request has read is forgotten.
End(r) ==
  /\ pc' = [pc EXCEPT ![r] = "idle"]
  /\ kind' = [kind EXCEPT ![r] = "none"]
  /\ known' = [known EXCEPT ![r] = 0]
  /\ list' = [list EXCEPT ![r] = {}]

Commit(r, k) == pc[r] = "checked" /\ kind[r] = k /\ End(r)

\* INSERT INTO lab_deployments and deployment_members, and the commit.  The
\* foreign key on the course makes it fail when that is gone.
Insert(d, k, attached) ==
  /\ course
  /\ row[d] = "absent"
  /\ row' = [row EXCEPT ![d] = "queued"]
  /\ route' = [route EXCEPT ![d] = k]
  /\ members' = [members EXCEPT ![d] = attached]
  /\ UNCHANGED <<course, cohort, limit, roster, seats>>

\* Refused, or dead: nothing is written and what was locked is released.
GiveUp(r) ==
  /\ pc[r] # "idle"
  /\ End(r)
  /\ UNCHANGED tables

\* deploy_course_lab up to its lock: the course is there, the guardrail read.
CourseCall(r) ==
  /\ course
  /\ Begin(r, "course", "locking")
  /\ known' = [known EXCEPT ![r] = limit]
  /\ UNCHANGED <<tables, list>>

LockHeld == \E r \in Requests : kind[r] = "course" /\ pc[r] = "checked"

\* Mutant: no advisory lock.
CourseCheck_Bug(r) ==
  /\ Goto(r, "locking", "checked")
  /\ Rows(Pending) = {}
  /\ Cardinality(Rows(Active)) < known[r]
  /\ roster # {}
  /\ UNCHANGED <<tables, kind, known, list>>

\* pg_advisory_xact_lock, then the checks under it.
CourseCheck(r) ==
  /\ ~LockHeld
  /\ Goto(r, "locking", "checked")
  /\ Rows(Pending) = {}
  /\ Cardinality(Rows(Active)) < known[r]
  /\ roster # {}
  /\ UNCHANGED <<tables, kind, known, list>>

\* The roster is read again, to attach everyone who is enrolled by now.
CourseInsert(r, d) == Commit(r, "course") /\ Insert(d, "course", roster)

\* Mutant: the runs in flight are not counted.
CohortCheck_Bug(r) ==
  /\ cohort
  /\ Begin(r, "cohort", "checked")
  /\ seats # {}
  /\ list' = [list EXCEPT ![r] = seats]
  /\ UNCHANGED <<tables, known>>

\* course_workshop_request_run: nothing in flight for the cohort, and the
\* learners who have a seat.
CohortCheck(r) ==
  /\ cohort
  /\ Begin(r, "cohort", "checked")
  /\ RowsOf("cohort", Pending) = {}
  /\ seats # {}
  /\ list' = [list EXCEPT ![r] = seats]
  /\ UNCHANGED <<tables, known>>

CohortInsert(r, d) == Commit(r, "cohort") /\ Insert(d, "cohort", list[r])

\* _ensure_no_active_deployment, _queue_deployment.
DirectCheck(r) ==
  /\ course
  /\ Begin(r, "direct", "checked")
  /\ Rows(Active) = {}
  /\ UNCHANGED <<tables, known, list>>

DirectInsert(r, d) == Commit(r, "direct") /\ Insert(d, "direct", {})

\* _course_delete_blockers finds none: no workshop (so no seat), and no row
\* outside the statuses it lists.
DeleteCheck(r) ==
  /\ course /\ ~cohort
  /\ Begin(r, "delete", "checked")
  /\ Rows(Active \cup {"terminating", "cleanup_failed"}) = {}
  /\ UNCHANGED <<tables, known, list>>

\* Mutant: the course is only hidden, its rows are kept.
DeleteCourse_Bug(r) ==
  /\ Commit(r, "delete")
  /\ course' = FALSE
  /\ UNCHANGED <<cohort, limit, roster, seats, row, route, members>>

\* DELETE FROM content_items: RESTRICTed by a workshop; it takes the roster,
\* the deployments and their members along.
DeleteCourse(r) ==
  /\ Commit(r, "delete")
  /\ ~cohort
  /\ course' = FALSE
  /\ roster' = {}
  /\ row' = [d \in Deployments |-> IF row[d] = "absent" THEN "absent" ELSE "deleted"]
  /\ members' = [d \in Deployments |-> {}]
  /\ UNCHANGED <<cohort, limit, seats, route>>

-----------------------------------------------------------------------------
Next ==
  \/ OpenCohort
  \/ \E n \in 1..MaxLimit : SetGuardrails(n)
  \/ \E l \in Learners : Enroll(l) \/ Unenroll(l) \/ GrantSeat(l)
  \/ \E d \in Deployments : Progress(d)
  \/ \E r \in Requests :
       \/ CourseCall(r) \/ CourseCheck(r) \/ CohortCheck(r)
       \/ DirectCheck(r) \/ DeleteCheck(r) \/ DeleteCourse(r) \/ GiveUp(r)
       \/ \E d \in Deployments :
            CourseInsert(r, d) \/ CohortInsert(r, d) \/ DirectInsert(r, d)

Spec == Init /\ [][Next]_vars

-----------------------------------------------------------------------------
Status == {"absent", "queued", "provisioning", "running", "failed",
           "terminating", "cleanup_failed", "expired", "deleted"}

\* Every variable has its type.
TypeOK ==
  /\ course \in BOOLEAN /\ cohort \in BOOLEAN
  /\ limit \in 1..MaxLimit
  /\ roster \subseteq Learners /\ seats \subseteq Learners
  /\ row \in [Deployments -> Status]
  /\ route \in [Deployments -> {"none", "course", "cohort", "direct"}]
  /\ members \in [Deployments -> SUBSET Learners]
  /\ pc \in [Requests -> {"idle", "locking", "checked"}]
  /\ kind \in [Requests -> {"none", "course", "cohort", "direct", "delete"}]
  /\ known \in [Requests -> 0..MaxLimit]
  /\ list \in [Requests -> SUBSET Learners]

\* However often the button is pressed, and whatever the other routes do
\* meanwhile, one run at a time of those the course route queued is queued or
\* provisioning: the checks and the INSERT are under one advisory lock.
CourseRunsSerialize == Cardinality(RowsOf("course", Pending)) <= 1

\* A course run is queued only if, counting it, the runs of this route that
\* are active are within the limit the request has read, even though that is
\* before it waited for the lock.
WithinGuardrail ==
  [][\A r \in Requests, d \in Deployments :
       CourseInsert(r, d) =>
         Cardinality(RowsOf("course", Active))' <= known[r]]_vars

\* A cohort run always has learners: the list that was not empty is the one
\* attached.
CohortRunHasLearners ==
  [][\A d \in Deployments :
       route[d] = "none" /\ route'[d] = "cohort" => members'[d] # {}]_vars

\* The other routes count without a lock, so that requests which count together
\* queue more than the one run each of them allows, but never more than there
\* are requests, in however many rounds: the next check sees what they queued.
InFlightBounded ==
  /\ Cardinality(RowsOf("cohort", Pending)) <= Cardinality(Requests)
  /\ Cardinality(RowsOf("direct", Active)) <= Cardinality(Requests)

\* No row outlives its course, nor is one queued for a course that is gone,
\* whenever the delete comes between a request's checks and its INSERT.
RowsHaveTheirCourse ==
  ~course => Rows(Status \ {"absent", "deleted"}) = {} /\ roster = {}

\* Does not hold (README.md, Disagreements): delete_course is to "Hard-delete
\* a lab course when no ... active deployments block it".
ActiveRowsAreKept ==
  [][\A d \in Deployments : row[d] \in Active => row'[d] # "deleted"]_vars
=============================================================================
