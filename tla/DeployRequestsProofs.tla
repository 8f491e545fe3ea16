------------------------- MODULE DeployRequestsProofs -------------------------
(***************************************************************************)
(* What the routes that queue deployments guarantee for any number of      *)
(* rows, requests in progress and learners, and any limit.                 *)
(***************************************************************************)
EXTENDS DeployRequests, FiniteSetTheorems, TLAPS

Holder(r) == kind[r] = "course" /\ pc[r] = "checked"

\* A request that waits for the advisory lock is of the course route, one
\* request at a time has the lock, and what it has checked under it still
\* holds: no run of the route is pending, and one more is within the limit.
LockInv ==
  /\ \A r \in Requests : pc[r] = "locking" => kind[r] = "course"
  /\ \A r, s \in Requests : Holder(r) /\ Holder(s) => r = s
  /\ \A r \in Requests : Holder(r) =>
       /\ RowsOf("course", Pending) = {}
       /\ Cardinality(RowsOf("course", Active)) < known[r]

OnePending == \A d, e \in RowsOf("course", Pending) : d = e

\* A cohort request that got past its checks has read some learners.
ListInv == \A r \in Requests :
  kind[r] = "cohort" /\ pc[r] = "checked" => list[r] # {}

\* Requests of a route past its check, each of which may queue a run.
Checked(k) == {r \in Requests : kind[r] = k /\ pc[r] = "checked"}

\* The runs of a route in the statuses it counts, and those that may still be
\* queued, are not more than there are requests: a check passes with none.
Flight(k, S) ==
  Cardinality(RowsOf(k, S)) + Cardinality(Checked(k)) <= Cardinality(Requests)

IInv == TypeOK /\ LockInv /\ OnePending /\ ListInv /\ RowsHaveTheirCourse

\* The rows of a route and status are as many as a number, and fewer rows are
\* not more.
LEMMA CountRows ==
  ASSUME NEW S \in SUBSET Deployments, NEW T \in SUBSET S
  PROVE  /\ IsFiniteSet(S) /\ Cardinality(S) \in Nat
         /\ Cardinality(T) \in Nat /\ Cardinality(T) <= Cardinality(S)
<1>1. IsFiniteSet(S)
  BY RequestsAssumption, FS_Subset
<1>2. IsFiniteSet(T) /\ Cardinality(T) <= Cardinality(S)
  BY <1>1, FS_Subset
<1>3. QED BY <1>1, <1>2, FS_CardinalityType

LEMMA InitIInv == Init => IInv
<1> SUFFICES ASSUME Init PROVE IInv
  OBVIOUS
<1>1. TypeOK
  <2>1. /\ known \in [Requests -> 0..MaxLimit] /\ limit \in 1..MaxLimit
        /\ list \in [Requests -> SUBSET Learners]
    BY RequestsAssumption DEF Init
  <2>2. /\ row \in [Deployments -> Status]
        /\ route \in [Deployments -> {"none", "course", "cohort", "direct"}]
        /\ members \in [Deployments -> SUBSET Learners]
    BY DEF Init, Status
  <2>3. QED BY <2>1, <2>2 DEF Init, TypeOK
<1>2. LockInv /\ OnePending /\ ListInv /\ RowsHaveTheirCourse
  BY DEF Init, LockInv, Holder, OnePending, ListInv, RowsHaveTheirCourse,
         RowsOf, Rows, Pending
<1>3. QED BY <1>1, <1>2 DEF IInv

-----------------------------------------------------------------------------
(* Steps that do not queue a run of the course route.                      *)

\* No run of the course route appears, and no request gets the lock.
Quiet ==
  /\ RowsOf("course", Pending)' \subseteq RowsOf("course", Pending)
  /\ RowsOf("course", Active)' \subseteq RowsOf("course", Active)
  /\ \A r \in Requests : pc'[r] = "locking" => kind'[r] = "course"
  /\ \A r \in Requests : Holder(r)' => Holder(r) /\ known'[r] = known[r]

LEMMA QuietKeepsLock ==
  ASSUME IInv, Quiet
  PROVE  LockInv' /\ OnePending'
<1>1. OnePending'
  BY DEF IInv, OnePending, Quiet
<1>2. RowsOf("course", Active) \subseteq Deployments
  BY DEF RowsOf, Rows
<1>3. /\ Cardinality(RowsOf("course", Active)) \in Nat
      /\ Cardinality(RowsOf("course", Active)') \in Nat
      /\ Cardinality(RowsOf("course", Active)') <= Cardinality(RowsOf("course", Active))
  BY <1>2, CountRows DEF Quiet
<1>4. ASSUME NEW r \in Requests, Holder(r)'
      PROVE  /\ RowsOf("course", Pending)' = {}
             /\ Cardinality(RowsOf("course", Active)') < known'[r]
  <2>1. Holder(r) /\ known'[r] = known[r] /\ known[r] \in Nat
    BY <1>4 DEF Quiet, IInv, TypeOK
  <2>2. /\ RowsOf("course", Pending) = {}
        /\ Cardinality(RowsOf("course", Active)) < known[r]
    BY <2>1 DEF IInv, LockInv
  <2>3. QED BY <1>3, <2>1, <2>2 DEF Quiet
<1>5. \A r, s \in Requests : Holder(r)' /\ Holder(s)' => r = s
  BY DEF IInv, LockInv, Quiet
<1>6. LockInv'
  BY <1>4, <1>5 DEF LockInv, Quiet
<1>7. QED BY <1>1, <1>6

\* What happens to the tables beside the requests.
Meanwhile ==
  \/ OpenCohort
  \/ \E n \in 1..MaxLimit : SetGuardrails(n)
  \/ \E l \in Learners : Enroll(l) \/ Unenroll(l) \/ GrantSeat(l)
  \/ \E d \in Deployments : Progress(d)

LEMMA MeanwhileIInv == IInv /\ Meanwhile => IInv'
<1> SUFFICES ASSUME IInv, Meanwhile PROVE IInv'
  OBVIOUS
<1> USE DEF IInv
<1>1. UNCHANGED request /\ UNCHANGED <<route, members, course>>
  BY DEF Meanwhile, OpenCohort, SetGuardrails, Enroll, Unenroll, GrantSeat, Progress
<1>2. \/ UNCHANGED row
      \/ \E d \in Deployments, s \in Status :
           <<row[d], s>> \in Edges /\ row' = [row EXCEPT ![d] = s]
  BY DEF Meanwhile, OpenCohort, SetGuardrails, Enroll, Unenroll, GrantSeat,
         Progress, Status
<1>3. TypeOK'
  <2>1. row' \in [Deployments -> Status]
    BY <1>2 DEF TypeOK
  <2>2. cohort' \in BOOLEAN /\ limit' \in 1..MaxLimit
    BY DEF Meanwhile, OpenCohort, SetGuardrails, Enroll, Unenroll, GrantSeat,
           Progress, TypeOK
  <2>3. roster' \subseteq Learners /\ seats' \subseteq Learners
    BY DEF Meanwhile, OpenCohort, SetGuardrails, Enroll, Unenroll, GrantSeat,
           Progress, TypeOK
  <2>4. QED BY <1>1, <2>1, <2>2, <2>3 DEF TypeOK, request
<1>4. Quiet
  <2>1. /\ RowsOf("course", Pending)' \subseteq RowsOf("course", Pending)
        /\ RowsOf("course", Active)' \subseteq RowsOf("course", Active)
    BY <1>1, <1>2 DEF TypeOK, RowsOf, Rows, Pending, Active, Edges
  <2>2. QED BY <1>1, <2>1 DEF Quiet, Holder, request, LockInv
<1>5. ListInv'
  BY <1>1 DEF ListInv, request
<1>6. RowsHaveTheirCourse'
  <2> SUFFICES ASSUME ~course PROVE Rows(Status \ {"absent", "deleted"})' = {} /\ roster' = {}
    BY <1>1 DEF RowsHaveTheirCourse
  <2>1. Rows(Status \ {"absent", "deleted"}) = {} /\ roster = {}
    BY DEF RowsHaveTheirCourse
  <2>2. roster' = {}
    BY <2>1 DEF Meanwhile, OpenCohort, SetGuardrails, Enroll, Unenroll, GrantSeat, Progress
  <2>3. \A d \in Deployments : row[d] \in {"absent", "deleted"}
    BY <2>1 DEF Rows, TypeOK
  <2>4. UNCHANGED row
    BY <1>2, <2>3 DEF Edges
  <2>5. QED BY <2>1, <2>2, <2>4 DEF Rows
<1>7. QED BY <1>3, <1>4, <1>5, <1>6, QuietKeepsLock

-----------------------------------------------------------------------------
(* Steps of a request that write no table.                                 *)

LEMMA ReadIInv ==
  ASSUME IInv, NEW r \in Requests,
         \/ CourseCall(r) \/ CohortCheck(r) \/ DirectCheck(r)
         \/ DeleteCheck(r) \/ GiveUp(r)
  PROVE  IInv'
<1> USE DEF IInv, Begin, Goto, End
<1>1. UNCHANGED tables
  BY DEF CourseCall, CohortCheck, DirectCheck, DeleteCheck, GiveUp
<1>2. TypeOK'
  <2>1. CASE CourseCall(r)
    BY <2>1 DEF CourseCall, TypeOK, tables
  <2>2. CASE CohortCheck(r)
    BY <2>2 DEF CohortCheck, TypeOK, tables
  <2>3. CASE DirectCheck(r) \/ DeleteCheck(r)
    BY <2>3 DEF DirectCheck, DeleteCheck, TypeOK, tables
  <2>4. CASE GiveUp(r)
    BY <2>4, RequestsAssumption DEF GiveUp, TypeOK, tables
  <2>5. QED BY <2>1, <2>2, <2>3, <2>4
<1>3. Quiet
  <2>1. /\ RowsOf("course", Pending)' = RowsOf("course", Pending)
        /\ RowsOf("course", Active)' = RowsOf("course", Active)
    BY <1>1 DEF RowsOf, Rows, tables
  <2>2. \A s \in Requests :
          /\ pc'[s] = "locking" => kind'[s] = "course"
          /\ Holder(s)' => Holder(s) /\ known'[s] = known[s]
    BY DEF CourseCall, CohortCheck, DirectCheck, DeleteCheck, GiveUp,
           TypeOK, LockInv, Holder
  <2>3. QED BY <2>1, <2>2 DEF Quiet
<1>4. ListInv'
  BY DEF CourseCall, CohortCheck, DirectCheck, DeleteCheck, GiveUp, TypeOK, ListInv
<1>5. RowsHaveTheirCourse'
  BY <1>1 DEF RowsHaveTheirCourse, Rows, tables
<1>6. QED BY <1>2, <1>3, <1>4, <1>5, QuietKeepsLock

\* The checks of the course route, made with the lock.
LEMMA CourseCheckIInv ==
  ASSUME IInv, NEW r \in Requests, CourseCheck(r)
  PROVE  IInv'
<1> USE DEF IInv
<1>1. /\ pc[r] = "locking" /\ pc' = [pc EXCEPT ![r] = "checked"]
      /\ UNCHANGED <<kind, known, list>> /\ UNCHANGED tables
      /\ \A s \in Requests : ~Holder(s)
  BY DEF CourseCheck, Goto, LockHeld, Holder
<1>2. TypeOK'
  BY <1>1 DEF TypeOK, tables
<1>3. kind[r] = "course"
  BY <1>1 DEF LockInv
<1>4. /\ RowsOf("course", Pending)' = RowsOf("course", Pending)
      /\ RowsOf("course", Active)' = RowsOf("course", Active)
  BY <1>1 DEF RowsOf, Rows, tables
<1>5. /\ RowsOf("course", Pending) = {}
      /\ Cardinality(RowsOf("course", Active)) < known[r]
  <2>1. RowsOf("course", Pending) = {}
    BY DEF CourseCheck, RowsOf
  <2>2. /\ Rows(Active) \in SUBSET Deployments
        /\ RowsOf("course", Active) \in SUBSET Rows(Active)
    BY DEF RowsOf, Rows
  <2>3. /\ Cardinality(Rows(Active)) \in Nat
        /\ Cardinality(RowsOf("course", Active)) \in Nat
        /\ Cardinality(RowsOf("course", Active)) <= Cardinality(Rows(Active))
    BY <2>2, CountRows
  <2>4. Cardinality(Rows(Active)) < known[r] /\ known[r] \in Nat
    BY DEF CourseCheck, TypeOK
  <2>5. QED BY <2>1, <2>3, <2>4
<1>6. \A s \in Requests : Holder(s)' => s = r
  BY <1>1 DEF TypeOK, Holder
<1>7. LockInv'
  <2>1. \A s \in Requests : pc'[s] = "locking" => kind'[s] = "course"
    BY <1>1 DEF TypeOK, LockInv
  <2>2. QED BY <1>1, <1>4, <1>5, <1>6, <2>1 DEF LockInv
<1>8. OnePending' /\ ListInv' /\ RowsHaveTheirCourse'
  <2>1. OnePending'
    BY <1>4 DEF OnePending
  <2>2. ListInv'
    BY <1>1, <1>3 DEF TypeOK, ListInv
  <2>3. RowsHaveTheirCourse'
    BY <1>1 DEF RowsHaveTheirCourse, Rows, tables
  <2>4. QED BY <2>1, <2>2, <2>3
<1>9. QED BY <1>2, <1>7, <1>8

-----------------------------------------------------------------------------
(* Steps of a request that write and commit.                               *)

\* An ended request holds nothing, and nobody gets anything.
LEMMA CommitEnds ==
  ASSUME IInv, NEW r \in Requests, NEW k, Commit(r, k)
  PROVE  /\ pc' \in [Requests -> {"idle", "locking", "checked"}]
         /\ kind' \in [Requests -> {"none", "course", "cohort", "direct", "delete"}]
         /\ known' \in [Requests -> 0..MaxLimit]
         /\ list' \in [Requests -> SUBSET Learners]
         /\ \A s \in Requests :
              /\ pc'[s] = "locking" => kind'[s] = "course"
              /\ Holder(s)' => s # r /\ Holder(s) /\ known'[s] = known[s]
         /\ ListInv'
<1>1. /\ pc' \in [Requests -> {"idle", "locking", "checked"}]
      /\ kind' \in [Requests -> {"none", "course", "cohort", "direct", "delete"}]
      /\ known' \in [Requests -> 0..MaxLimit]
      /\ list' \in [Requests -> SUBSET Learners]
  BY RequestsAssumption DEF IInv, TypeOK, Commit, End
<1>2. \A s \in Requests :
        /\ pc'[s] = "locking" => kind'[s] = "course"
        /\ Holder(s)' => s # r /\ Holder(s) /\ known'[s] = known[s]
  BY DEF IInv, TypeOK, LockInv, Holder, Commit, End
<1>3. ListInv'
  BY DEF IInv, TypeOK, ListInv, Commit, End
<1>4. QED BY <1>1, <1>2, <1>3

\* The inserted row is the only one to change.
LEMMA InsertRows ==
  ASSUME IInv, NEW d \in Deployments, NEW k \in {"course", "cohort", "direct"},
         NEW attached \in SUBSET Learners, Insert(d, k, attached)
  PROVE  /\ course' \in BOOLEAN /\ cohort' \in BOOLEAN /\ limit' \in 1..MaxLimit
         /\ roster' \subseteq Learners /\ seats' \subseteq Learners
         /\ row' \in [Deployments -> Status]
         /\ route' \in [Deployments -> {"none", "course", "cohort", "direct"}]
         /\ members' \in [Deployments -> SUBSET Learners]
         /\ \A S \in {Pending, Active} :
              RowsOf("course", S)' =
                RowsOf("course", S) \cup (IF k = "course" THEN {d} ELSE {})
         /\ RowsHaveTheirCourse'
<1>1. /\ course' \in BOOLEAN /\ cohort' \in BOOLEAN /\ limit' \in 1..MaxLimit
      /\ roster' \subseteq Learners /\ seats' \subseteq Learners
      /\ row' \in [Deployments -> Status]
      /\ route' \in [Deployments -> {"none", "course", "cohort", "direct"}]
      /\ members' \in [Deployments -> SUBSET Learners]
  BY DEF IInv, TypeOK, Insert, Status
<1>2. RowsOf("course", Pending)' =
        RowsOf("course", Pending) \cup (IF k = "course" THEN {d} ELSE {})
  BY DEF IInv, TypeOK, Insert, RowsOf, Rows, Pending
<1>3. RowsOf("course", Active)' =
        RowsOf("course", Active) \cup (IF k = "course" THEN {d} ELSE {})
  BY DEF IInv, TypeOK, Insert, RowsOf, Rows, Active, Pending
<1>4. RowsHaveTheirCourse'
  BY DEF Insert, RowsHaveTheirCourse
<1>5. QED BY <1>1, <1>2, <1>3, <1>4

LEMMA CourseInsertIInv ==
  ASSUME IInv, NEW r \in Requests, NEW d \in Deployments, CourseInsert(r, d)
  PROVE  /\ IInv'
         /\ Cardinality(RowsOf("course", Active))' <= known[r]
<1>1. Commit(r, "course") /\ Insert(d, "course", roster) /\ roster \in SUBSET Learners
  BY DEF CourseInsert, IInv, TypeOK
<1>2. Holder(r) /\ known[r] \in Nat
  BY <1>1 DEF Commit, Holder, IInv, TypeOK
<1>3. TypeOK' /\ ListInv' /\ RowsHaveTheirCourse'
  <2>1. TypeOK'
    BY <1>1, CommitEnds, InsertRows DEF TypeOK
  <2>2. QED BY <1>1, <2>1, CommitEnds, InsertRows
<1>4. /\ RowsOf("course", Pending)' = RowsOf("course", Pending) \cup {d}
      /\ RowsOf("course", Active)' = RowsOf("course", Active) \cup {d}
  BY <1>1, InsertRows
<1>5. /\ RowsOf("course", Pending) = {}
      /\ Cardinality(RowsOf("course", Active)) < known[r]
  BY <1>2 DEF IInv, LockInv
<1>6. OnePending'
  BY <1>4, <1>5 DEF OnePending
<1>7. \A s \in Requests : ~Holder(s)'
  BY <1>1, <1>2, CommitEnds DEF IInv, LockInv
<1>8. LockInv'
  BY <1>1, <1>7, CommitEnds DEF LockInv
<1>9. Cardinality(RowsOf("course", Active) \cup {d}) <= known[r]
  <2>1. RowsOf("course", Active) \in SUBSET Deployments
    BY DEF RowsOf, Rows
  <2>2. /\ IsFiniteSet(RowsOf("course", Active))
        /\ Cardinality(RowsOf("course", Active)) \in Nat
    BY <2>1, CountRows
  <2>3. Cardinality(RowsOf("course", Active) \cup {d}) <=
          Cardinality(RowsOf("course", Active)) + 1
    BY <2>2, FS_AddElement
  <2>4. Cardinality(RowsOf("course", Active) \cup {d}) \in Nat
    BY <2>2, FS_AddElement, FS_CardinalityType
  <2>5. QED BY <1>2, <1>5, <2>2, <2>3, <2>4
<1>10. QED BY <1>3, <1>4, <1>6, <1>8, <1>9 DEF IInv

LEMMA OtherInsertIInv ==
  ASSUME IInv, NEW r \in Requests, NEW d \in Deployments,
         CohortInsert(r, d) \/ DirectInsert(r, d)
  PROVE  IInv'
<1>1. PICK k \in {"cohort", "direct"}, attached \in SUBSET Learners :
        Commit(r, k) /\ Insert(d, k, attached)
  BY DEF CohortInsert, DirectInsert, IInv, TypeOK
<1>2. TypeOK' /\ ListInv' /\ RowsHaveTheirCourse'
  <2>1. TypeOK'
    BY <1>1, CommitEnds, InsertRows DEF TypeOK
  <2>2. QED BY <1>1, <2>1, CommitEnds, InsertRows
<1>3. /\ RowsOf("course", Pending)' = RowsOf("course", Pending)
      /\ RowsOf("course", Active)' = RowsOf("course", Active)
  BY <1>1, InsertRows
<1>4. Quiet
  BY <1>1, <1>3, CommitEnds DEF Quiet
<1>5. QED BY <1>2, <1>4, QuietKeepsLock DEF IInv

LEMMA DeleteCourseIInv ==
  ASSUME IInv, NEW r \in Requests, DeleteCourse(r)
  PROVE  IInv'
<1>1. Commit(r, "delete")
  BY DEF DeleteCourse
<1>2. TypeOK'
  <2>1. row' \in [Deployments -> Status] /\ members' \in [Deployments -> SUBSET Learners]
    BY DEF DeleteCourse, Status
  <2>2. QED BY <1>1, <2>1, CommitEnds DEF DeleteCourse, IInv, TypeOK
<1>3. \A d \in Deployments : row'[d] \in {"absent", "deleted"}
  BY DEF DeleteCourse
<1>4. RowsHaveTheirCourse'
  BY <1>3 DEF RowsHaveTheirCourse, Rows, DeleteCourse
<1>5. Quiet
  <2>1. RowsOf("course", Pending)' = {} /\ RowsOf("course", Active)' = {}
    BY <1>3 DEF RowsOf, Rows, Pending, Active
  <2>2. QED BY <1>1, <2>1, CommitEnds DEF Quiet
<1>6. QED BY <1>1, <1>2, <1>4, <1>5, CommitEnds, QuietKeepsLock DEF IInv

-----------------------------------------------------------------------------
LEMMA NextIInv == IInv /\ [Next]_vars => IInv'
<1> SUFFICES ASSUME IInv, [Next]_vars PROVE IInv'
  OBVIOUS
<1>1. CASE Meanwhile
  BY <1>1, MeanwhileIInv
<1>2. ASSUME NEW r \in Requests,
             \/ CourseCall(r) \/ CohortCheck(r) \/ DirectCheck(r)
             \/ DeleteCheck(r) \/ GiveUp(r)
      PROVE  IInv'
  BY <1>2, ReadIInv
<1>3. ASSUME NEW r \in Requests, CourseCheck(r) PROVE IInv'
  BY <1>3, CourseCheckIInv
<1>4. ASSUME NEW r \in Requests, DeleteCourse(r) PROVE IInv'
  BY <1>4, DeleteCourseIInv
<1>5. ASSUME NEW r \in Requests, NEW d \in Deployments,
             CourseInsert(r, d) \/ CohortInsert(r, d) \/ DirectInsert(r, d)
      PROVE  IInv'
  BY <1>5, CourseInsertIInv, OtherInsertIInv
<1>6. CASE UNCHANGED vars
  BY <1>6 DEF vars, tables, request, IInv, TypeOK, LockInv, Holder, OnePending,
             ListInv, RowsHaveTheirCourse, RowsOf, Rows
<1>7. QED BY <1>1, <1>2, <1>3, <1>4, <1>5, <1>6 DEF Next, Meanwhile

\* The invariant the theorems below rest on.
THEOREM Invariance == Spec => []IInv
<1>1. QED BY InitIInv, NextIInv, PTL DEF Spec

\* Every variable keeps its type.
THEOREM TypeCorrect == Spec => []TypeOK
<1>1. IInv => TypeOK
  BY DEF IInv
<1>2. QED BY <1>1, Invariance, PTL

\* One run of the course route at a time is queued or provisioning: whoever
\* has the advisory lock has seen none, and nobody else can queue one.
THEOREM RunsSerialize == Spec => []CourseRunsSerialize
<1>1. ASSUME IInv PROVE CourseRunsSerialize
  <2>1. CASE RowsOf("course", Pending) = {}
    BY <2>1, FS_EmptySet DEF CourseRunsSerialize
  <2>2. ASSUME NEW d \in RowsOf("course", Pending) PROVE CourseRunsSerialize
    <3>1. RowsOf("course", Pending) = {d}
      BY <1>1, <2>2 DEF IInv, OnePending
    <3>2. Cardinality({d}) = 1
      BY FS_Singleton, Zenon
    <3>3. QED BY <3>1, <3>2 DEF CourseRunsSerialize
  <2>3. QED BY <2>1, <2>2
<1>2. QED BY <1>1, Invariance, PTL

\* A queued course run is within the limit its request read.
THEOREM GuardrailKept == Spec => WithinGuardrail
<1>1. ASSUME IInv, [Next]_vars
      PROVE  [\A r \in Requests, d \in Deployments :
                CourseInsert(r, d) =>
                  Cardinality(RowsOf("course", Active))' <= known[r]]_vars
  BY <1>1, CourseInsertIInv
<1>2. QED BY <1>1, Invariance, PTL DEF Spec, WithinGuardrail

\* No row outlives its course.
THEOREM RowsFollowCourse == Spec => []RowsHaveTheirCourse
<1>1. IInv => RowsHaveTheirCourse
  BY DEF IInv
<1>2. QED BY <1>1, Invariance, PTL

\* The learners a cohort run is queued with are those of the check, of whom
\* there was one.
THEOREM CohortRunAttached == Spec => CohortRunHasLearners
<1> DEFINE Attached == \A d \in Deployments :
             route[d] = "none" /\ route'[d] = "cohort" => members'[d] # {}
<1>1. IInv /\ [Next]_vars => [Attached]_vars
  <2> SUFFICES ASSUME IInv, Next PROVE Attached
    OBVIOUS
  <2>1. ASSUME NEW r \in Requests, NEW d \in Deployments, CohortInsert(r, d)
        PROVE  Attached
    BY <2>1 DEF CohortInsert, Commit, Insert, IInv, TypeOK, ListInv
  <2>2. ASSUME NEW r \in Requests, NEW d \in Deployments,
               CourseInsert(r, d) \/ DirectInsert(r, d)
        PROVE  Attached
    BY <2>2 DEF CourseInsert, DirectInsert, Insert, IInv, TypeOK
  <2>3. CASE UNCHANGED route
    BY <2>3
  <2>4. QED
    BY <2>1, <2>2, <2>3
    DEF Next, OpenCohort, SetGuardrails, Enroll, Unenroll, GrantSeat, Progress,
        CourseCall, CourseCheck, CohortCheck, DirectCheck, DeleteCheck,
        DeleteCourse, GiveUp, tables
<1>2. QED BY <1>1, Invariance, PTL DEF Spec, CohortRunHasLearners

-----------------------------------------------------------------------------
(* The routes that count without a lock.                                   *)

\* Sets of requests are as many as a number, and fewer are not more.
LEMMA CountRequests ==
  ASSUME NEW S \in SUBSET Requests, NEW T \in SUBSET S
  PROVE  /\ IsFiniteSet(S) /\ Cardinality(S) \in Nat
         /\ Cardinality(T) \in Nat /\ Cardinality(T) <= Cardinality(S)
<1>1. IsFiniteSet(S)
  BY RequestsAssumption, FS_Subset
<1>2. IsFiniteSet(T) /\ Cardinality(T) <= Cardinality(S)
  BY <1>1, FS_Subset
<1>3. QED BY <1>1, <1>2, FS_CardinalityType

\* Neither a run more, nor a request more that may queue one.
LEMMA QuietFlight ==
  ASSUME NEW k, NEW S, Flight(k, S),
         RowsOf(k, S)' \subseteq RowsOf(k, S), Checked(k)' \subseteq Checked(k)
  PROVE  Flight(k, S)'
<1>1. RowsOf(k, S) \subseteq Deployments /\ Checked(k) \subseteq Requests
  BY DEF RowsOf, Rows, Checked
<1>2. /\ Cardinality(RowsOf(k, S)) \in Nat /\ Cardinality(RowsOf(k, S)') \in Nat
      /\ Cardinality(RowsOf(k, S)') <= Cardinality(RowsOf(k, S))
  BY <1>1, CountRows
<1>3. /\ Cardinality(Checked(k)) \in Nat /\ Cardinality(Checked(k)') \in Nat
      /\ Cardinality(Checked(k)') <= Cardinality(Checked(k))
  BY <1>1, CountRequests
<1>4. Cardinality(Requests) \in Nat
  BY CountRequests
<1>5. QED BY <1>2, <1>3, <1>4 DEF Flight

\* A check that finds no run: from here on there may be one for each request.
LEMMA CheckFlight ==
  ASSUME NEW k, NEW S, RowsOf(k, S)' = {}
  PROVE  Flight(k, S)'
<1>1. Checked(k)' \subseteq Requests
  BY DEF Checked
<1>2. /\ Cardinality(Checked(k)') \in Nat /\ Cardinality(Requests) \in Nat
      /\ Cardinality(Checked(k)') <= Cardinality(Requests)
  BY <1>1, CountRequests
<1>3. Cardinality(RowsOf(k, S)') = 0
  BY FS_EmptySet
<1>4. QED BY <1>2, <1>3 DEF Flight

\* A request that queues its run is done.
LEMMA InsertFlight ==
  ASSUME NEW k, NEW S, Flight(k, S), NEW r \in Requests, NEW d \in Deployments,
         RowsOf(k, S)' \subseteq RowsOf(k, S) \cup {d},
         r \in Checked(k), Checked(k)' \subseteq Checked(k) \ {r}
  PROVE  Flight(k, S)'
<1>1. RowsOf(k, S) \subseteq Deployments /\ Checked(k) \subseteq Requests
  BY DEF RowsOf, Rows, Checked
<1>2. IsFiniteSet(RowsOf(k, S)) /\ Cardinality(RowsOf(k, S)) \in Nat
  BY <1>1, CountRows
<1>3. Cardinality(RowsOf(k, S) \cup {d}) =
        IF d \in RowsOf(k, S) THEN Cardinality(RowsOf(k, S))
                              ELSE Cardinality(RowsOf(k, S)) + 1
  BY <1>2, FS_AddElement
<1>4. /\ Cardinality(RowsOf(k, S)') \in Nat
      /\ Cardinality(RowsOf(k, S)') <= Cardinality(RowsOf(k, S) \cup {d})
  BY <1>1, CountRows
<1>5. Cardinality(RowsOf(k, S)') <= Cardinality(RowsOf(k, S)) + 1
  BY <1>2, <1>3, <1>4
<1>6. IsFiniteSet(Checked(k)) /\ Cardinality(Checked(k)) \in Nat
  BY <1>1, CountRequests
<1>7. Cardinality(Checked(k) \ {r}) = Cardinality(Checked(k)) - 1
  BY <1>6, FS_RemoveElement
<1>8. /\ Cardinality(Checked(k)') \in Nat
      /\ Cardinality(Checked(k)') <= Cardinality(Checked(k) \ {r})
  <2>1. Checked(k) \ {r} \in SUBSET Requests
    BY <1>1
  <2>2. QED BY <2>1, CountRequests
<1>9. Cardinality(Requests) \in Nat
  BY CountRequests
<1>10. QED BY <1>2, <1>4, <1>5, <1>6, <1>7, <1>8, <1>9 DEF Flight

FlightInv == Flight("cohort", Pending) /\ Flight("direct", Active)

LEMMA InitFlight == Init => FlightInv
<1> SUFFICES ASSUME Init PROVE FlightInv
  OBVIOUS
<1>1. \A k \in {"cohort", "direct"}, S \in {Pending, Active} :
        RowsOf(k, S) = {} /\ Checked(k) = {}
  BY DEF Init, RowsOf, Rows, Pending, Active, Checked
<1>2. Cardinality({}) = 0
  BY FS_EmptySet
<1>3. Cardinality(Requests) \in Nat
  BY CountRequests
<1>4. QED BY <1>1, <1>2, <1>3 DEF FlightInv, Flight

\* The rows move on, and leave what a check counts.
LEMMA MeanwhileFlight == IInv /\ FlightInv /\ Meanwhile => FlightInv'
<1> SUFFICES ASSUME IInv, FlightInv, Meanwhile PROVE FlightInv'
  OBVIOUS
<1>1. UNCHANGED <<request, route>>
  BY DEF Meanwhile, OpenCohort, SetGuardrails, Enroll, Unenroll, GrantSeat, Progress
<1>2. \/ UNCHANGED row
      \/ \E d \in Deployments, s \in Status :
           <<row[d], s>> \in Edges /\ row' = [row EXCEPT ![d] = s]
  BY DEF Meanwhile, OpenCohort, SetGuardrails, Enroll, Unenroll, GrantSeat,
         Progress, Status
<1>3. \A k \in {"cohort", "direct"} : Checked(k)' \subseteq Checked(k)
  BY <1>1 DEF Checked, request
<1>4. /\ RowsOf("cohort", Pending)' \subseteq RowsOf("cohort", Pending)
      /\ RowsOf("direct", Active)' \subseteq RowsOf("direct", Active)
  BY <1>1, <1>2 DEF IInv, TypeOK, RowsOf, Rows, Pending, Active, Edges
<1>5. QED BY <1>3, <1>4, QuietFlight DEF FlightInv

\* What a request reads or checks changes no row.
LEMMA ReadFlight ==
  ASSUME IInv, FlightInv, NEW r \in Requests,
         \/ CourseCall(r) \/ CourseCheck(r) \/ CohortCheck(r)
         \/ DirectCheck(r) \/ DeleteCheck(r) \/ GiveUp(r)
  PROVE  FlightInv'
<1> USE DEF IInv, TypeOK, Begin, Goto
<1>1. UNCHANGED <<row, route>>
  BY DEF CourseCall, CourseCheck, CohortCheck, DirectCheck, DeleteCheck, GiveUp, tables
<1>2. \A k, S : RowsOf(k, S)' = RowsOf(k, S)
  BY <1>1 DEF RowsOf, Rows
<1>3. Flight("cohort", Pending)'
  <2>1. CASE CohortCheck(r)
    <3>1. RowsOf("cohort", Pending)' = {}
      BY <2>1, <1>2 DEF CohortCheck
    <3>2. QED BY <3>1, CheckFlight
  <2>2. CASE ~CohortCheck(r)
    <3>1. Checked("cohort")' \subseteq Checked("cohort")
      BY <2>2 DEF CourseCall, CourseCheck, DirectCheck, DeleteCheck, GiveUp,
                  End, Checked, LockInv
    <3>2. QED BY <3>1, <1>2, QuietFlight DEF FlightInv
  <2>3. QED BY <2>1, <2>2
<1>4. Flight("direct", Active)'
  <2>1. CASE DirectCheck(r)
    <3>1. RowsOf("direct", Active) = {}
      BY <2>1 DEF DirectCheck, RowsOf
    <3>2. QED BY <3>1, <1>2, CheckFlight
  <2>2. CASE ~DirectCheck(r)
    <3>1. Checked("direct")' \subseteq Checked("direct")
      BY <2>2 DEF CourseCall, CourseCheck, CohortCheck, DeleteCheck, GiveUp,
                  End, Checked, LockInv
    <3>2. QED BY <3>1, <1>2, QuietFlight DEF FlightInv
  <2>3. QED BY <2>1, <2>2
<1>5. QED BY <1>3, <1>4 DEF FlightInv

\* Whoever commits is done, and has queued at most one run of its own route.
LEMMA CommitFlight ==
  ASSUME IInv, FlightInv, NEW r \in Requests,
         \/ DeleteCourse(r)
         \/ \E d \in Deployments :
              CourseInsert(r, d) \/ CohortInsert(r, d) \/ DirectInsert(r, d)
  PROVE  FlightInv'
<1> USE DEF IInv, TypeOK
<1>1. PICK own \in {"course", "cohort", "direct", "delete"} : Commit(r, own)
  BY DEF CourseInsert, CohortInsert, DirectInsert, DeleteCourse
<1>2. /\ r \in Checked(own)
      /\ \A k \in {"cohort", "direct"} : Checked(k)' \subseteq Checked(k) \ {r}
  BY <1>1 DEF Commit, End, Checked
<1>3. ASSUME NEW d \in Deployments, NEW k \in {"course", "cohort", "direct"},
             NEW attached, Commit(r, k), Insert(d, k, attached)
      PROVE  FlightInv'
  <2>1. k = own
    BY <1>1, <1>3 DEF Commit
  <2>2. ASSUME NEW q \in {"cohort", "direct"}, NEW S \in {Pending, Active},
               Flight(q, S)
        PROVE  Flight(q, S)'
    <3>1. CASE q = k
      <4>1. RowsOf(q, S)' \subseteq RowsOf(q, S) \cup {d}
        BY <1>3 DEF Insert, RowsOf, Rows
      <4>2. QED BY <4>1, <3>1, <2>1, <2>2, <1>2, InsertFlight
    <3>2. CASE q # k
      <4>1. RowsOf(q, S)' \subseteq RowsOf(q, S)
        BY <1>3, <3>2 DEF Insert, RowsOf, Rows
      <4>2. QED BY <4>1, <2>2, <1>2, QuietFlight
    <3>3. QED BY <3>1, <3>2
  <2>3. QED BY <2>2 DEF FlightInv
<1>4. CASE DeleteCourse(r)
  <2>1. \A k \in {"cohort", "direct"}, S \in {Pending, Active} : RowsOf(k, S)' = {}
    BY <1>4 DEF DeleteCourse, RowsOf, Rows, Pending, Active
  <2>2. QED BY <2>1, CheckFlight DEF FlightInv
<1>5. QED BY <1>3, <1>4 DEF CourseInsert, CohortInsert, DirectInsert

\* The routes that count without a lock never have more runs in flight than
\* there are requests, whatever the size of the sets.
THEOREM FlightIsBounded == Spec => []InFlightBounded
<1>1. IInv /\ FlightInv /\ [Next]_vars => FlightInv'
  <2>1. CASE UNCHANGED vars
    BY <2>1 DEF vars, tables, request, FlightInv, Flight, RowsOf, Rows, Checked
  <2>2. IInv /\ FlightInv /\ Next => FlightInv'
    BY MeanwhileFlight, ReadFlight, CommitFlight DEF Next, Meanwhile
  <2>3. QED BY <2>1, <2>2
<1>2. FlightInv => InFlightBounded
  <2>1. /\ RowsOf("cohort", Pending) \in SUBSET Deployments
        /\ RowsOf("direct", Active) \in SUBSET Deployments
        /\ Checked("cohort") \in SUBSET Requests
        /\ Checked("direct") \in SUBSET Requests
    BY DEF RowsOf, Rows, Checked
  <2>2. /\ Cardinality(RowsOf("cohort", Pending)) \in Nat
        /\ Cardinality(RowsOf("direct", Active)) \in Nat
        /\ Cardinality(Checked("cohort")) \in Nat
        /\ Cardinality(Checked("direct")) \in Nat
        /\ Cardinality(Requests) \in Nat
    BY <2>1, CountRows, CountRequests
  <2>3. QED BY <2>2 DEF FlightInv, Flight, InFlightBounded
<1>3. QED BY InitFlight, <1>1, <1>2, Invariance, PTL DEF Spec
=============================================================================
