--------------------------- MODULE LabWorkersProofs ---------------------------
(***************************************************************************)
(* Theorems about LabWorkers for any number of deployments and of workers. *)
(* Everything rests on one inductive invariant: the type invariant, the    *)
(* exclusion of the claims (ClaimedOnce), what a worker's position says of *)
(* its row (JobMatchesRow) and that teardown only follows the expiry       *)
(* (NoEarlyTeardown).  ClaimedOnce is not inductive alone: an open claim   *)
(* keeps others off only because its row still has the status the claim    *)
(* looked for, and a committed one because it no longer has it, which is   *)
(* JobMatchesRow; and that one, in turn, survives other workers' steps     *)
(* only because their jobs are other rows.                                 *)
(*                                                                         *)
(* The second part is about LabTeardown, whose workers are these: it       *)
(* implements LabWorkers, so that its own invariant, on what the scripts   *)
(* have made and left, can count on IInv.  There an uncrossed lab is at    *)
(* every command where its script has brought it (BuiltUnlessCrossed,      *)
(* GoneUnlessCrossed), for no other script selects, applies or destroys in *)
(* its state.                                                              *)
(***************************************************************************)
EXTENDS LabTeardown, FiniteSetTheorems, TLAPS

IInv == TypeOK /\ ClaimedOnce /\ JobMatchesRow /\ NoEarlyTeardown

\* The invariant holds of the empty table and idle workers.
LEMMA InitIInv == Init => IInv
  <1> SUFFICES ASSUME Init PROVE IInv
    OBVIOUS
  <1> USE DEF Init
  <1>1. TypeOK
    BY DEF TypeOK, Status, ProvPC, CleanPC, Workers
  <1>2. ClaimedOnce
    BY DEF ClaimedOnce, Workers
  <1>3. JobMatchesRow
    BY DEF JobMatchesRow, Workers
  <1>4. NoEarlyTeardown
    BY DEF NoEarlyTeardown
  <1> QED
    BY <1>1, <1>2, <1>3, <1>4 DEF IInv

-----------------------------------------------------------------------------
(* One lemma per kind of step, whichever loop takes it.                     *)

\* A worker moves on within its job; the table and the jobs stay.
LEMMA MoveIInv ==
  ASSUME IInv, NEW w \in Workers, NEW to,
         pc[w] \notin {"poll", "claiming"}, to \notin {"poll", "claiming"},
         w \in ProvWorkers => to \in ProvPC,
         w \in CleanWorkers => to \in CleanPC,
         pc' = [pc EXCEPT ![w] = to],
         UNCHANGED <<rows, now, job>>, faults' \in Nat
  PROVE  IInv'
  <1> USE DEF IInv, rows, Workers
  <1>1. TypeOK'
    BY DEF TypeOK, ProvPC, CleanPC
  <1>2. ClaimedOnce'
    BY DEF ClaimedOnce
  <1>3. JobMatchesRow'
    BY DEF TypeOK, JobMatchesRow, Due
  <1>4. NoEarlyTeardown'
    BY DEF NoEarlyTeardown, Due
  <1> QED
    BY <1>1, <1>2, <1>3, <1>4

\* A worker drops its job and polls again; the row stays as it is.
LEMMA AbandonIInv ==
  ASSUME IInv, NEW w \in Workers, Abandon(w)
  PROVE  IInv'
  <1> USE DEF IInv, rows, Workers, Abandon, Fault
  <1>1. TypeOK'
    BY DEF TypeOK, ProvPC, CleanPC
  <1>2. ClaimedOnce'
    BY DEF TypeOK, ClaimedOnce
  <1>3. JobMatchesRow'
    BY DEF TypeOK, JobMatchesRow, Due
  <1>4. NoEarlyTeardown'
    BY DEF NoEarlyTeardown, Due
  <1> QED
    BY <1>1, <1>2, <1>3, <1>4

\* The statement of a claim takes the lock of a row that had none, and whose
\* status shows that no worker of either kind is past the claim of it.
LEMMA ClaimIInv ==
  ASSUME IInv, NEW w \in Workers, NEW candidates, NEW key,
         Claim(w, candidates, key), candidates \subseteq Deployments,
         w \in ProvWorkers => \A d \in candidates : status[d] = "queued",
         w \in CleanWorkers =>
           \A d \in candidates : status[d] = "running" /\ Due(d)
  PROVE  IInv'
  <1> USE DEF IInv, rows, Workers
  <1>1. PICK d \in candidates : /\ ~Locked(d)
                                /\ job' = [job EXCEPT ![w] = d]
    BY DEF Claim, FirstUnlocked
  <1>2. /\ pc[w] = "poll"
        /\ pc' = [pc EXCEPT ![w] = "claiming"]
        /\ UNCHANGED <<rows, now, faults>>
    BY DEF Claim
  <1>3. TypeOK'
    BY <1>1, <1>2 DEF TypeOK, ProvPC, CleanPC
  <1>4. d # NoJob
    BY <1>1, WorkersAssumption
  <1>5. \A v \in Workers : v # w => job[v] # d
    <2> SUFFICES ASSUME NEW v \in Workers, v # w, job[v] = d PROVE FALSE
      OBVIOUS
    <2>1. pc[v] # "claiming"
      BY <1>1 DEF Locked
    <2>2. status[d] \in {"provisioning", "terminating"}
      BY <1>4, <2>1 DEF JobMatchesRow
    <2> QED
      BY <1>1, <2>2
  <1>6. ClaimedOnce'
    BY <1>1, <1>5 DEF TypeOK, ClaimedOnce
  <1>7. JobMatchesRow'
    BY <1>1, <1>2, <1>4, WorkersAssumption DEF TypeOK, JobMatchesRow, Due
  <1>8. NoEarlyTeardown'
    BY <1>2 DEF NoEarlyTeardown, Due
  <1> QED
    BY <1>3, <1>6, <1>7, <1>8

\* The commit of a claim makes the row say what its worker is about to do.
LEMMA CommitClaimIInv ==
  ASSUME IInv, NEW w \in Workers, NEW s, NEW next, CommitClaim(w, s, next),
         \/ w \in ProvWorkers /\ s = "provisioning" /\ next = "preparing"
         \/ w \in CleanWorkers /\ s = "terminating" /\ next = "destroying"
  PROVE  IInv'
  <1> USE DEF IInv, rows, Workers
  <1> DEFINE d == job[w]
  <1>1. /\ pc[w] = "claiming"
        /\ pc' = [pc EXCEPT ![w] = next]
        /\ status' = [status EXCEPT ![d] = s]
        /\ UNCHANGED <<created, expiresAt, now, job, faults>>
    BY DEF CommitClaim, Goto, Commit
  <1>2. d \in Deployments /\ d # NoJob
    BY <1>1 DEF TypeOK, JobMatchesRow, Due
  <1>3. \A v \in Workers : v # w /\ job[v] # NoJob => job[v] # d
    BY <1>2 DEF ClaimedOnce
  <1> HIDE DEF d
  <1>4. TypeOK'
    BY <1>1, <1>2, WorkersAssumption DEF TypeOK, ProvPC, CleanPC, Status
  <1>5. ClaimedOnce'
    BY <1>1 DEF ClaimedOnce
  <1>6. JobMatchesRow'
    BY <1>1, <1>2, <1>3, WorkersAssumption DEF TypeOK, JobMatchesRow, Due, d
  <1>7. NoEarlyTeardown'
    BY <1>1, <1>2, WorkersAssumption
       DEF TypeOK, JobMatchesRow, NoEarlyTeardown, Due, d
  <1> QED
    BY <1>4, <1>5, <1>6, <1>7

\* The last transaction of a job writes its row, which is no one else's.
LEMMA FinishIInv ==
  ASSUME IInv, NEW w \in Workers, NEW from, NEW s, Finish(w, from, s),
         from \notin {"poll", "claiming"},
         \/ w \in ProvWorkers /\ s \in {"running", "failed"}
         \/ w \in CleanWorkers /\ s \in {"expired", "cleanup_failed"}
  PROVE  IInv'
  <1> USE DEF IInv, rows, Workers
  <1> DEFINE d == job[w]
  <1>1. /\ pc[w] = from
        /\ pc' = [pc EXCEPT ![w] = "poll"]
        /\ job' = [job EXCEPT ![w] = NoJob]
        /\ status' = [status EXCEPT ![d] = s]
        /\ UNCHANGED <<created, expiresAt, now, faults>>
    BY DEF Finish, Goto, Commit
  <1>2. d \in Deployments /\ d # NoJob
    BY <1>1 DEF TypeOK, JobMatchesRow, Due
  <1>3. \A v \in Workers : v # w /\ job[v] # NoJob => job[v] # d
    BY <1>2 DEF ClaimedOnce
  <1>4. w \in CleanWorkers => Due(d)
    BY <1>1, <1>2 DEF JobMatchesRow
  <1> HIDE DEF d
  <1>5. TypeOK'
    BY <1>1, <1>2 DEF TypeOK, ProvPC, CleanPC, Status
  <1>6. ClaimedOnce'
    BY <1>1 DEF TypeOK, ClaimedOnce
  <1>7. JobMatchesRow'
    BY <1>1, <1>2, <1>3 DEF TypeOK, JobMatchesRow, Due, d
  <1>8. NoEarlyTeardown'
    BY <1>1, <1>2, <1>4, WorkersAssumption DEF TypeOK, NoEarlyTeardown, Due
  <1> QED
    BY <1>5, <1>6, <1>7, <1>8

-----------------------------------------------------------------------------
(* The steps of Next.                                                       *)

\* Rows are inserted with an expiry in the future, and no job names one that
\* is not there yet.
LEMMA QueueIInv ==
  ASSUME IInv, NEW d \in Deployments, NEW t \in 1..Horizon, Queue(d, t)
  PROVE  IInv'
  <1> USE DEF IInv, Queue
  <1>1. TypeOK'
    BY WorkersAssumption DEF TypeOK, Status
  <1>2. ClaimedOnce'
    BY DEF ClaimedOnce
  <1>3. JobMatchesRow'
    BY DEF TypeOK, JobMatchesRow, Workers, Due
  <1>4. NoEarlyTeardown'
    BY DEF TypeOK, NoEarlyTeardown, Due
  <1> QED
    BY <1>1, <1>2, <1>3, <1>4

\* A due row stays due.
LEMMA TickIInv == IInv /\ Tick => IInv'
  <1> SUFFICES ASSUME IInv, Tick PROVE IInv'
    OBVIOUS
  <1>0. /\ now \in Nat /\ now' = now + 1
        /\ UNCHANGED <<status, created, expiresAt, pc, job, faults>>
    BY DEF IInv, TypeOK, Tick, rows
  <1>1. TypeOK'
    BY <1>0 DEF IInv, TypeOK
  <1>2. ClaimedOnce'
    BY <1>0 DEF IInv, ClaimedOnce
  <1>3. \A d \in Deployments : Due(d) => Due(d)'
    BY <1>0 DEF IInv, TypeOK, Due
  <1>4. JobMatchesRow'
    <2>1. \A w \in CleanWorkers : job[w] # NoJob => Due(job[w])'
      BY <1>0, <1>3 DEF IInv, TypeOK, JobMatchesRow, Workers
    <2> QED
      BY <1>0, <2>1 DEF IInv, JobMatchesRow
  <1>5. NoEarlyTeardown'
    BY <1>0, <1>3 DEF IInv, NoEarlyTeardown
  <1> QED
    BY <1>1, <1>2, <1>4, <1>5 DEF IInv

\* Every step of the provisioning loop, and every way it can go wrong.
LEMMA ProvIInv ==
  ASSUME IInv, NEW w \in ProvWorkers, ProvStep(w) \/ ProvFault(w)
  PROVE  IInv'
  <1>0. w \in Workers /\ w \notin CleanWorkers
    BY WorkersAssumption DEF Workers
  <1>1. CASE ClaimQueued(w)
    <2> DEFINE queued == {d \in Deployments : status[d] = "queued"}
    <2> QED
      BY <1>0, <1>1, ClaimIInv, queued \subseteq Deployments DEF ClaimQueued
  <1>2. CASE CommitProvisioning(w)
    BY <1>0, <1>2, CommitClaimIInv DEF CommitProvisioning
  <1>3. CASE MintKey(w)
    BY <1>0, <1>3, MoveIInv
       DEF MintKey, Proceed, Goto, ProvPC, IInv, TypeOK
  <1>4. CASE PrepareRaises(w)
    BY <1>0, <1>4, MoveIInv
       DEF PrepareRaises, Proceed, Goto, ProvPC, IInv, TypeOK
  <1>5. CASE ApplySucceeds(w)
    BY <1>0, <1>5, MoveIInv
       DEF ApplySucceeds, Proceed, Goto, ProvPC, IInv, TypeOK
  <1>6. CASE ApplyRaises(w)
    BY <1>0, <1>6, MoveIInv
       DEF ApplyRaises, Proceed, Goto, ProvPC, IInv, TypeOK
  <1>7. CASE MarkRunning(w)
    BY <1>0, <1>7, FinishIInv DEF MarkRunning
  <1>8. CASE MarkFailed(w)
    BY <1>0, <1>8, FinishIInv DEF MarkFailed
  <1>9. CASE ClaimError(w)
    BY <1>0, <1>9, AbandonIInv DEF ClaimError
  <1>10. CASE MarkRunningError(w)
    <2>1. faults' \in Nat
      BY <1>10 DEF MarkRunningError, Fault, IInv, TypeOK
    <2>2. /\ pc[w] = "marking" /\ pc' = [pc EXCEPT ![w] = "failing"]
          /\ UNCHANGED <<rows, now, job>>
      BY <1>10 DEF MarkRunningError, Goto
    <2>3. "failing" \in ProvPC
      BY DEF ProvPC
    <2> QED
      BY <1>0, <2>1, <2>2, <2>3, MoveIInv
  <1>11. CASE MarkFailedError(w)
    BY <1>0, <1>11, AbandonIInv DEF MarkFailedError
  <1> QED
    BY <1>1, <1>2, <1>3, <1>4, <1>5, <1>6, <1>7, <1>8, <1>9, <1>10, <1>11
       DEF ProvStep, ProvFault

\* Every step of the cleanup loop, and every way it can go wrong.
LEMMA CleanIInv ==
  ASSUME IInv, NEW w \in CleanWorkers, CleanStep(w) \/ CleanFault(w)
  PROVE  IInv'
  <1>0. w \in Workers /\ w \notin ProvWorkers
    BY WorkersAssumption DEF Workers
  <1>1. CASE ClaimExpired(w)
    <2> DEFINE old == {d \in Deployments : status[d] = "running" /\ Due(d)}
    <2> QED
      BY <1>0, <1>1, ClaimIInv, old \subseteq Deployments DEF ClaimExpired
  <1>2. CASE CommitTerminating(w)
    BY <1>0, <1>2, CommitClaimIInv DEF CommitTerminating
  <1>3. CASE DestroySucceeds(w)
    BY <1>0, <1>3, MoveIInv
       DEF DestroySucceeds, Proceed, Goto, CleanPC, IInv, TypeOK
  <1>4. CASE DestroyRaises(w)
    BY <1>0, <1>4, MoveIInv
       DEF DestroyRaises, Proceed, Goto, CleanPC, IInv, TypeOK
  <1>5. CASE DeleteNodes(w)
    BY <1>0, <1>5, MoveIInv
       DEF DeleteNodes, Proceed, Goto, CleanPC, IInv, TypeOK
  <1>6. CASE DeleteNodesRaises(w)
    BY <1>0, <1>6, MoveIInv
       DEF DeleteNodesRaises, Proceed, Goto, CleanPC, IInv, TypeOK
  <1>7. CASE MarkExpired(w)
    BY <1>0, <1>7, FinishIInv DEF MarkExpired
  <1>8. CASE MarkCleanupFailed(w)
    BY <1>0, <1>8, FinishIInv DEF MarkCleanupFailed
  <1>9. CASE ClaimError(w)
    BY <1>0, <1>9, AbandonIInv DEF ClaimError
  <1>10. CASE MarkExpiredError(w)
    <2>1. faults' \in Nat
      BY <1>10 DEF MarkExpiredError, Fault, IInv, TypeOK
    <2>2. /\ pc[w] = "marking" /\ pc' = [pc EXCEPT ![w] = "failing"]
          /\ UNCHANGED <<rows, now, job>>
      BY <1>10 DEF MarkExpiredError, Goto
    <2>3. "failing" \in CleanPC
      BY DEF CleanPC
    <2> QED
      BY <1>0, <2>1, <2>2, <2>3, MoveIInv
  <1>11. CASE SessionAborted(w)
    BY <1>0, <1>11, AbandonIInv DEF SessionAborted
  <1>12. CASE MarkCleanupFailedError(w)
    BY <1>0, <1>12, AbandonIInv DEF MarkCleanupFailedError
  <1> QED
    BY <1>1, <1>2, <1>3, <1>4, <1>5, <1>6, <1>7, <1>8, <1>9, <1>10, <1>11,
       <1>12 DEF CleanStep, CleanFault

\* The invariant is inductive.
LEMMA NextIInv == IInv /\ [Next]_vars => IInv'
  <1> SUFFICES ASSUME IInv, [Next]_vars PROVE IInv'
    OBVIOUS
  <1>1. CASE Tick
    BY <1>1, TickIInv
  <1>2. ASSUME NEW d \in Deployments, NEW t \in 1..Horizon, Queue(d, t)
        PROVE  IInv'
    BY <1>2, QueueIInv
  <1>3. ASSUME NEW w \in ProvWorkers, ProvStep(w) \/ ProvFault(w)
        PROVE  IInv'
    BY <1>3, ProvIInv
  <1>4. ASSUME NEW w \in CleanWorkers, CleanStep(w) \/ CleanFault(w)
        PROVE  IInv'
    BY <1>4, CleanIInv
  <1>5. ASSUME NEW w \in Workers, Crash(w)
        PROVE  IInv'
    BY <1>5, AbandonIInv DEF Crash
  <1>6. CASE UNCHANGED vars
    BY <1>6 DEF vars, rows, IInv, TypeOK, ClaimedOnce, JobMatchesRow,
                NoEarlyTeardown, Due
  <1> QED
    BY <1>1, <1>2, <1>3, <1>4, <1>5, <1>6 DEF Next

-----------------------------------------------------------------------------
(* Theorems.                                                                *)

\* The strengthened invariant holds of every reachable state.
THEOREM Invariance == Spec => []IInv
  BY InitIInv, NextIInv, PTL DEF Spec

\* Type correctness of the table and of the workers' positions.
THEOREM TypeCorrectness == Spec => []TypeOK
  <1>1. IInv => TypeOK
    BY DEF IInv
  <1> QED
    BY <1>1, Invariance, PTL

\* However many workers share the table, no deployment is in the hands of two
\* of them: SKIP LOCKED and the status test of the claim statements suffice.
THEOREM ClaimsExclude == Spec => []ClaimedOnce
  <1>1. IInv => ClaimedOnce
    BY DEF IInv
  <1> QED
    BY <1>1, Invariance, PTL

\* A worker's row has the status its position in the loop calls for, although
\* the UPDATEs of mark_* name the row by its id only.
THEOREM JobsMatchRows == Spec => []JobMatchesRow
  <1>1. IInv => JobMatchesRow
    BY DEF IInv
  <1> QED
    BY <1>1, Invariance, PTL

\* No deployment is torn down before its expires_at.
THEOREM TeardownNotEarly == Spec => []NoEarlyTeardown
  <1>1. IInv => NoEarlyTeardown
    BY DEF IInv
  <1> QED
    BY <1>1, Invariance, PTL

-----------------------------------------------------------------------------
(* LabWorkers implements DeploymentLifecycle.                               *)

DueRows == {d \in Deployments : Due(d)}

\* Rewriting the status of an inserted row makes no row due or not due.
LEMMA DueRowsKept ==
  ASSUME TypeOK, NEW d \in Deployments, NEW s \in Status \ {"absent"},
         status[d] # "absent", status' = [status EXCEPT ![d] = s],
         UNCHANGED <<expiresAt, now>>
  PROVE  DueRows' = DueRows
  BY DEF TypeOK, DueRows, Due

\* A worker commits to a row it holds: one edge of the lifecycle.
LEMMA CommitEdge ==
  ASSUME IInv, NEW w \in Workers, job[w] # NoJob, NEW s,
         Commit(w, s), UNCHANGED <<expiresAt, now>>,
         \/ w \in ProvWorkers /\ pc[w] = "claiming" /\ s = "provisioning"
         \/ w \in ProvWorkers /\ pc[w] # "claiming" /\ s \in {"running", "failed"}
         \/ w \in CleanWorkers /\ pc[w] = "claiming" /\ s = "terminating"
         \/ /\ w \in CleanWorkers /\ pc[w] # "claiming"
            /\ s \in {"expired", "cleanup_failed"}
  PROVE  Lifecycle!Next
  <1> DEFINE d == job[w]
  <1>1. d \in Deployments /\ status' = [status EXCEPT ![d] = s]
    BY DEF IInv, TypeOK, Commit
  <1>2. /\ w \in ProvWorkers => status[d] = IF pc[w] = "claiming"
                                            THEN "queued" ELSE "provisioning"
        /\ w \in CleanWorkers => /\ status[d] = IF pc[w] = "claiming"
                                                THEN "running" ELSE "terminating"
                                 /\ d \in DueRows
    BY <1>1 DEF IInv, JobMatchesRow, DueRows
  <1> HIDE DEF d
  <1>3. DueRows' = DueRows
    BY <1>1, <1>2, DueRowsKept DEF IInv, Status, Workers
  <1>4. \/ Lifecycle!Start(d) \/ Lifecycle!Ready(d) \/ Lifecycle!Fail(d)
        \/ Lifecycle!Teardown(d) \/ Lifecycle!Expire(d)
        \/ Lifecycle!TeardownFail(d)
    BY <1>1, <1>2, <1>3
       DEF Lifecycle!Start, Lifecycle!Ready, Lifecycle!Fail,
           Lifecycle!Teardown, Lifecycle!Expire, Lifecycle!TeardownFail,
           Lifecycle!Move, DueRows
  <1> QED
    BY <1>1, <1>4 DEF Lifecycle!Next

\* The insertion of a row is the request of the lifecycle.
LEMMA QueueEdge ==
  ASSUME IInv, NEW d \in Deployments, NEW t \in 1..Horizon, Queue(d, t)
  PROVE  Lifecycle!Next
  <1>1. DueRows' = DueRows
    BY DEF IInv, TypeOK, Queue, DueRows, Due
  <1>2. d \notin DueRows
    BY DEF DueRows, Due, Queue
  <1>3. Lifecycle!Request(d)
    BY <1>1, <1>2 DEF Queue, Lifecycle!Request, Lifecycle!Move, DueRows
  <1> QED
    BY <1>3 DEF Lifecycle!Next

\* The clock is the lifecycle's passing of time.
LEMMA TickEdge ==
  ASSUME IInv, Tick
  PROVE  Lifecycle!Next
  <1>1. DueRows \subseteq DueRows'
    BY DEF IInv, TypeOK, Tick, DueRows, Due, rows
  <1>2. DueRows' \subseteq {d \in Deployments : status[d] # "absent"}
    BY DEF Tick, DueRows, Due, rows
  <1>3. Lifecycle!PassTime
    BY <1>1, <1>2 DEF Lifecycle!PassTime, DueRows, Tick, rows
  <1> QED
    BY <1>3 DEF Lifecycle!Next

\* A step that leaves the rows and the clock alone is a stutter.
LEMMA StutterEdge ==
  ASSUME UNCHANGED <<rows, now>>
  PROVE  UNCHANGED Lifecycle!vars
  BY DEF Lifecycle!vars, rows, Due

\* Every step is one edge of the lifecycle or a stutter.
LEMMA StepEdge ==
  ASSUME IInv, [Next]_vars
  PROVE  [Lifecycle!Next]_(Lifecycle!vars)
  <1>0. \A w \in Workers : pc[w] # "poll" => job[w] # NoJob
    BY DEF IInv, JobMatchesRow
  <1>1. CASE Tick
    BY <1>1, TickEdge
  <1>2. ASSUME NEW d \in Deployments, NEW t \in 1..Horizon, Queue(d, t)
        PROVE  Lifecycle!Next
    BY <1>2, QueueEdge
  <1>3. ASSUME NEW w \in ProvWorkers, ProvStep(w) \/ ProvFault(w)
        PROVE  [Lifecycle!Next]_(Lifecycle!vars)
    <2>1. CASE CommitProvisioning(w)
      BY <1>0, <2>1, CommitEdge
         DEF CommitProvisioning, CommitClaim, Goto, Workers
    <2>2. CASE MarkRunning(w)
      BY <1>0, <2>2, CommitEdge DEF MarkRunning, Finish, Goto, Workers
    <2>3. CASE MarkFailed(w)
      BY <1>0, <2>3, CommitEdge DEF MarkFailed, Finish, Goto, Workers
    <2>4. CASE \/ ClaimQueued(w) \/ MintKey(w) \/ PrepareRaises(w)
               \/ ApplySucceeds(w) \/ ApplyRaises(w) \/ ProvFault(w)
      <3>1. UNCHANGED <<rows, now>>
        BY <2>4 DEF ClaimQueued, Claim, MintKey, PrepareRaises, ApplySucceeds,
                    ApplyRaises, Proceed, ProvFault, ClaimError, Abandon,
                    MarkRunningError, MarkFailedError
      <3> QED
        BY <3>1, StutterEdge
    <2> QED
      BY <1>3, <2>1, <2>2, <2>3, <2>4 DEF ProvStep
  <1>4. ASSUME NEW w \in CleanWorkers, CleanStep(w) \/ CleanFault(w)
        PROVE  [Lifecycle!Next]_(Lifecycle!vars)
    <2>1. CASE CommitTerminating(w)
      BY <1>0, <2>1, CommitEdge
         DEF CommitTerminating, CommitClaim, Goto, Workers
    <2>2. CASE MarkExpired(w)
      BY <1>0, <2>2, CommitEdge DEF MarkExpired, Finish, Goto, Workers
    <2>3. CASE MarkCleanupFailed(w)
      BY <1>0, <2>3, CommitEdge DEF MarkCleanupFailed, Finish, Goto, Workers
    <2>4. CASE \/ ClaimExpired(w) \/ DestroySucceeds(w) \/ DestroyRaises(w)
               \/ DeleteNodes(w) \/ DeleteNodesRaises(w) \/ CleanFault(w)
      <3>1. UNCHANGED <<rows, now>>
        BY <2>4 DEF ClaimExpired, Claim, DestroySucceeds, DestroyRaises,
                    DeleteNodes, DeleteNodesRaises, Proceed, CleanFault,
                    ClaimError, Abandon, MarkExpiredError, SessionAborted,
                    MarkCleanupFailedError
      <3> QED
        BY <3>1, StutterEdge
    <2> QED
      BY <1>4, <2>1, <2>2, <2>3, <2>4 DEF CleanStep
  <1>5. ASSUME NEW w \in Workers, Crash(w)
        PROVE  UNCHANGED Lifecycle!vars
    BY <1>5, StutterEdge DEF Crash, Abandon
  <1>6. CASE UNCHANGED vars
    BY <1>6, StutterEdge DEF vars, rows
  <1> QED
    BY <1>1, <1>2, <1>3, <1>4, <1>5, <1>6 DEF Next

\* The workers move the rows along the edges of DeploymentLifecycle only:
\* the detailed specification implements the abstract one.
THEOREM Refinement == Spec => RefinesLifecycle
  <1>1. Init => Lifecycle!Init
    BY DEF Init, Lifecycle!Init, Due
  <1>2. IInv /\ [Next]_vars => [Lifecycle!Next]_(Lifecycle!vars)
    BY StepEdge
  <1> QED
    BY <1>1, <1>2, Invariance, PTL DEF Spec, RefinesLifecycle, Lifecycle!Spec

\* Final statuses are final: read off the edges of the lifecycle.
THEOREM FinalStatusKept == Spec => FinalIsFinal
  <1>1. ASSUME IInv, [Next]_vars, NEW d \in Deployments, status[d] \in Final
        PROVE  status'[d] = status[d]
    <2>1. CASE UNCHANGED Lifecycle!vars
      BY <2>1 DEF Lifecycle!vars
    <2>2. CASE Lifecycle!Next
      BY <1>1, <2>2
         DEF IInv, TypeOK, Final, Lifecycle!Next, Lifecycle!PassTime,
             Lifecycle!Request, Lifecycle!Start, Lifecycle!Ready,
             Lifecycle!Fail, Lifecycle!Teardown, Lifecycle!Expire,
             Lifecycle!TeardownFail, Lifecycle!Move
    <2> QED
      BY <1>1, <2>1, <2>2, StepEdge
  <1>2. IInv /\ [Next]_vars =>
          [\A d \in Deployments : status[d] \in Final => status'[d] = status[d]]_vars
    BY <1>1
  <1> QED
    BY <1>2, Invariance, PTL DEF Spec, FinalIsFinal

-----------------------------------------------------------------------------
(* Rows get stuck one per fault.                                            *)

\* A step adds a row to the stuck ones only if it is a fault, and then one.
LEMMA StuckStep ==
  ASSUME IInv, [Next]_vars
  PROVE  \/ StuckRows' \subseteq StuckRows /\ faults' >= faults
         \/ /\ \E d \in Deployments : StuckRows' \subseteq StuckRows \cup {d}
            /\ faults' = faults + 1
  <1> USE DEF StuckRows, Unattended, rows
  <1>0. /\ faults \in Nat
        /\ \A w \in Workers : pc[w] # "poll" =>
             job[w] \in Deployments /\ job[w] # NoJob
        /\ \A w \in Workers : pc[w] = "poll" => job[w] = NoJob
    BY DEF IInv, TypeOK, JobMatchesRow
  <1>1. ASSUME NEW w \in Workers, pc[w] # "poll", Abandon(w)
        PROVE  /\ StuckRows' \subseteq StuckRows \cup {job[w]}
               /\ faults' = faults + 1
    BY <1>1 DEF Abandon, Fault, IInv, TypeOK
  <1>2. ASSUME NEW w \in Workers, NEW candidates, NEW key,
               Claim(w, candidates, key), candidates \subseteq Deployments
        PROVE  StuckRows' \subseteq StuckRows /\ faults' >= faults
    <2>1. pc[w] = "poll" /\ UNCHANGED <<status, faults>>
      BY <1>2 DEF Claim
    <2>2. PICK d \in Deployments : job' = [job EXCEPT ![w] = d]
      BY <1>2 DEF Claim, FirstUnlocked
    <2>3. \A v \in Workers, e \in Deployments : job[v] = e => job'[v] = e
      BY <1>0, <2>1, <2>2, WorkersAssumption DEF IInv, TypeOK
    <2> QED
      BY <1>0, <2>1, <2>3
  <1>3. ASSUME NEW w \in Workers, NEW s, NEW next, CommitClaim(w, s, next)
        PROVE  StuckRows' \subseteq StuckRows /\ faults' >= faults
    BY <1>0, <1>3 DEF CommitClaim, Commit, Goto, IInv, TypeOK
  <1>4. ASSUME NEW w \in Workers, NEW from, NEW s, Finish(w, from, s),
               from # "poll", s \notin {"provisioning", "terminating"}
        PROVE  StuckRows' \subseteq StuckRows /\ faults' >= faults
    BY <1>0, <1>4 DEF Finish, Commit, Goto, IInv, TypeOK
  <1>5. ASSUME UNCHANGED <<status, job>>, faults' \in {faults, faults + 1}
        PROVE  StuckRows' \subseteq StuckRows /\ faults' >= faults
    BY <1>0, <1>5
  <1>6. CASE Tick \/ UNCHANGED vars
    BY <1>5, <1>6 DEF Tick, vars
  <1>7. ASSUME NEW d \in Deployments, NEW t \in 1..Horizon, Queue(d, t)
        PROVE  StuckRows' \subseteq StuckRows /\ faults' >= faults
    BY <1>0, <1>7 DEF Queue, IInv, TypeOK
  <1>8. ASSUME NEW w \in ProvWorkers, ProvStep(w) \/ ProvFault(w)
        PROVE  \/ StuckRows' \subseteq StuckRows /\ faults' >= faults
               \/ /\ StuckRows' \subseteq StuckRows \cup {job[w]}
                  /\ faults' = faults + 1 /\ pc[w] # "poll"
    <2>0. w \in Workers
      BY DEF Workers
    <2>1. CASE ClaimQueued(w)
      <3> DEFINE queued == {d \in Deployments : status[d] = "queued"}
      <3> QED
        BY <1>2, <2>0, <2>1, queued \subseteq Deployments DEF ClaimQueued
    <2>2. CASE CommitProvisioning(w)
      BY <1>3, <2>0, <2>2 DEF CommitProvisioning
    <2>3. CASE \/ MintKey(w) \/ PrepareRaises(w) \/ ApplySucceeds(w)
               \/ ApplyRaises(w) \/ MarkRunningError(w)
      BY <1>5, <2>3 DEF MintKey, PrepareRaises, ApplySucceeds, ApplyRaises,
                        Proceed, MarkRunningError, Fault
    <2>4. CASE MarkRunning(w) \/ MarkFailed(w)
      BY <1>4, <2>0, <2>4 DEF MarkRunning, MarkFailed
    <2>5. CASE ClaimError(w) \/ MarkFailedError(w)
      BY <1>1, <2>0, <2>5 DEF ClaimError, MarkFailedError
    <2> QED
      BY <1>8, <2>1, <2>2, <2>3, <2>4, <2>5 DEF ProvStep, ProvFault
  <1>9. ASSUME NEW w \in CleanWorkers, CleanStep(w) \/ CleanFault(w)
        PROVE  \/ StuckRows' \subseteq StuckRows /\ faults' >= faults
               \/ /\ StuckRows' \subseteq StuckRows \cup {job[w]}
                  /\ faults' = faults + 1 /\ pc[w] # "poll"
    <2>0. w \in Workers
      BY DEF Workers
    <2>1. CASE ClaimExpired(w)
      <3> DEFINE old == {d \in Deployments : status[d] = "running" /\ Due(d)}
      <3> QED
        BY <1>2, <2>0, <2>1, old \subseteq Deployments DEF ClaimExpired
    <2>2. CASE CommitTerminating(w)
      BY <1>3, <2>0, <2>2 DEF CommitTerminating
    <2>3. CASE \/ DestroySucceeds(w) \/ DestroyRaises(w) \/ DeleteNodes(w)
               \/ DeleteNodesRaises(w) \/ MarkExpiredError(w)
      BY <1>5, <2>3 DEF DestroySucceeds, DestroyRaises, DeleteNodes,
                        DeleteNodesRaises, Proceed, MarkExpiredError, Fault
    <2>4. CASE MarkExpired(w) \/ MarkCleanupFailed(w)
      BY <1>4, <2>0, <2>4 DEF MarkExpired, MarkCleanupFailed
    <2>5. CASE ClaimError(w) \/ SessionAborted(w) \/ MarkCleanupFailedError(w)
      BY <1>1, <2>0, <2>5
         DEF ClaimError, SessionAborted, MarkCleanupFailedError
    <2> QED
      BY <1>9, <2>1, <2>2, <2>3, <2>4, <2>5 DEF CleanStep, CleanFault
  <1>10. ASSUME NEW w \in Workers, Crash(w)
         PROVE  /\ StuckRows' \subseteq StuckRows \cup {job[w]}
                /\ faults' = faults + 1 /\ pc[w] # "poll"
    BY <1>1, <1>10 DEF Crash
  <1>11. ProvWorkers \subseteq Workers /\ CleanWorkers \subseteq Workers
    BY DEF Workers
  <1> HIDE DEF StuckRows
  <1> QED
    BY <1>0, <1>6, <1>7, <1>8, <1>9, <1>10, <1>11 DEF Next

\* Deployments left in provisioning or terminating with nobody at work on
\* them never outnumber the crashes and database errors there have been.
THEOREM StuckNeedsFault == Spec => []OneStuckRowPerFault
  <1>0. IsFiniteSet(StuckRows)
    BY FiniteAssumption, FS_Subset, StuckRows \subseteq Deployments
       DEF StuckRows
  <1>1. Init => OneStuckRowPerFault
    <2> SUFFICES ASSUME Init PROVE OneStuckRowPerFault
      OBVIOUS
    <2>1. StuckRows = {}
      BY DEF Init, StuckRows, Unattended
    <2> QED
      BY <2>1, FS_EmptySet DEF OneStuckRowPerFault, Init
  <1>2. IInv /\ OneStuckRowPerFault /\ [Next]_vars => OneStuckRowPerFault'
    <2> SUFFICES ASSUME IInv, OneStuckRowPerFault, [Next]_vars
                 PROVE  OneStuckRowPerFault'
      OBVIOUS
    <2>0. faults \in Nat /\ faults' \in Nat
      BY NextIInv DEF IInv, TypeOK
    <2>1. Cardinality(StuckRows) \in Nat
      BY <1>0, FS_CardinalityType
    <2>2. CASE StuckRows' \subseteq StuckRows /\ faults' >= faults
      <3>1. /\ Cardinality(StuckRows') \in Nat
            /\ Cardinality(StuckRows') <= Cardinality(StuckRows)
        BY <1>0, <2>2, FS_Subset, FS_CardinalityType
      <3> QED
        BY <2>0, <2>1, <2>2, <3>1 DEF OneStuckRowPerFault
    <2>3. ASSUME NEW d \in Deployments, StuckRows' \subseteq StuckRows \cup {d},
                 faults' = faults + 1
          PROVE  OneStuckRowPerFault'
      <3>1. /\ IsFiniteSet(StuckRows \cup {d})
            /\ Cardinality(StuckRows \cup {d}) \in
                 {Cardinality(StuckRows), Cardinality(StuckRows) + 1}
        BY <1>0, FS_AddElement
      <3>2. /\ Cardinality(StuckRows') \in Nat
            /\ Cardinality(StuckRows') <= Cardinality(StuckRows \cup {d})
        BY <2>3, <3>1, FS_Subset, FS_CardinalityType
      <3> QED
        BY <2>0, <2>1, <2>3, <3>1, <3>2 DEF OneStuckRowPerFault
    <2> QED
      BY <2>2, <2>3, StuckStep
  <1> QED
    BY <1>1, <1>2, Invariance, PTL DEF Spec

-----------------------------------------------------------------------------
(* LabTeardown: its workers are those of LabWorkers.                        *)

\* The two histories are told apart in every step below.
USE DEF history

\* A command of a script, a router that joins: a step of LabWorkers, or none.
LEMMA TeardownStep == TeardownNext => [Next]_vars
  <1> SUFFICES ASSUME TeardownNext PROVE [Next]_vars
    OBVIOUS
  <1>1. CASE Outside
    BY <1>1 DEF Outside, Next
  <1>2. ASSUME NEW w \in ProvWorkers, ProvJob(w) PROVE [Next]_vars
    <2>1. ProvStep(w) \/ UNCHANGED vars
      BY <1>2 DEF ProvJob, StoreKey, SelectForApply, TerraformApply,
                  TerraformOutput, DeployScriptFails, ProvStep
    <2> QED
      BY <2>1 DEF Next
  <1>3. ASSUME NEW w \in CleanWorkers, CleanJob(w) PROVE [Next]_vars
    <2>1. CleanStep(w) \/ UNCHANGED vars
      BY <1>3 DEF CleanJob, AssumeDestroyed, SelectForDestroy, TerraformDestroy,
                  DeleteWorkspace, DestroyScriptFails, UnjoinRouter, CleanStep
    <2> QED
      BY <2>1 DEF Next
  <1>4. ASSUME NEW w \in Workers, CrashInScript(w) PROVE [Next]_vars
    BY <1>4 DEF CrashInScript, Next
  <1>5. ASSUME NEW d \in Deployments, RouterJoins(d) PROVE [Next]_vars
    BY <1>5 DEF RouterJoins
  <1> QED
    BY <1>1, <1>2, <1>3, <1>4, <1>5 DEF TeardownNext

\* The scripts, the keys and the nodes add nothing to what the table and the
\* workers do: LabTeardown implements LabWorkers, whose theorems it inherits.
THEOREM TeardownImplementsWorkers == TeardownSpec => Spec
  <1>1. TeardownInit => Init
    BY DEF TeardownInit
  <1>2. [TeardownNext]_allVars => [Next]_vars
    BY TeardownStep DEF allVars
  <1> QED
    BY <1>1, <1>2, PTL DEF TeardownSpec, Spec

-----------------------------------------------------------------------------
(* The invariant of LabTeardown, on top of that of LabWorkers.              *)

\* The Terraform state that is d's own, and whether it holds d's resources.
Home(d) == IF Dir(d) = "lab-1" THEN <<"lab-1", d>> ELSE <<"lab-2", Default>>
AtHome(d) == owner[Home(d)] = d

\* w's script has selected a workspace of lab-1 and is not over.
InLab1(w) == script[w] # "start" /\ Dir(job[w]) = "lab-1"

\* A script runs while its worker waits for it, and the destroy scripts get
\* past their first command for the type windows only.
ScriptFollowsLoop ==
  /\ \A w \in ProvWorkers :
       /\ script[w] \in {"start", "selected", "applied"}
       /\ script[w] # "start" => pc[w] = "applying"
       /\ script[w] = "selected" => Dir(job[w]) = "lab-1"
  /\ \A w \in CleanWorkers :
       /\ script[w] \in {"start", "selected", "destroyed"}
       /\ script[w] # "start" => pc[w] = "destroying"
       /\ script[w] # "start" \/ pc[w] \in {"unjoining", "marking"} =>
            LabType[job[w]] = "windows"
  /\ \A d \in Deployments : status[d] = "expired" => LabType[d] = "windows"

\* The workspace is there from the deploy script's first command on.
WorkspaceKept ==
  /\ \A w \in ProvWorkers :
       /\ script[w] # "start" \/ pc[w] = "marking"
       /\ Dir(job[w]) = "lab-1"
       => job[w] \in workspaces
  /\ RunningHasWorkspace

\* The nodes are gone before the row is marked, and a due row gets no other.
OutOfVPN ==
  /\ \A w \in CleanWorkers : pc[w] = "marking" => job[w] \notin nodes
  /\ ExpiredHasLeftVPN

\* While a script is in lab-1 the selected workspace is its own, unless it met
\* another script; and then it is the default or that of a row that met one.
CrossingsNoted ==
  \A w \in Workers : InLab1(w) =>
    /\ workspace \in {job[w], Default} \cup crossed
    /\ job[w] \notin crossed =>
         workspace = job[w] /\ \A v \in Workers \ {w} : ~InLab1(v)

\* What is left of a row that met no other script is in its own state.
OwnedAtHome ==
  \A d \in Deployments \ crossed, s \in States : owner[s] = d => s = Home(d)

\* From terraform apply on, until the destroy script, its own state is its own.
BuiltUnlessCrossed ==
  /\ \A w \in ProvWorkers :
       /\ pc[w] \in {"applying", "marking"}
       /\ job[w] \notin crossed /\ Dir(job[w]) = "lab-1"
       => /\ script[w] = "applied" => AtHome(job[w])
          /\ pc[w] = "marking" => AtHome(job[w]) /\ outputs[job[w]] = job[w]
  /\ \A d \in Deployments \ crossed :
       status[d] = "running" /\ Dir(d) = "lab-1" => AtHome(d) /\ outputs[d] = d

\* From terraform destroy on it is not, unless the script ran none because it
\* did not see the workspace.
GoneUnlessCrossed ==
  /\ \A w \in CleanWorkers :
       /\ script[w] = "destroyed" \/ pc[w] \in {"unjoining", "marking"}
       /\ job[w] \notin crossed \cup unlisted
       => ~AtHome(job[w])
  /\ \A d \in Deployments \ (crossed \cup unlisted) :
       status[d] = "expired" => ~AtHome(d)

TeardownInv ==
  /\ TeardownTypeOK /\ ScriptFollowsLoop /\ WorkspaceKept /\ OutOfVPN
  /\ CrossingsNoted /\ OwnedAtHome /\ BuiltUnlessCrossed /\ GoneUnlessCrossed

\* Nothing is deployed and no script runs.
LEMMA InitTeardownInv == TeardownInit => TeardownInv
  <1> SUFFICES ASSUME TeardownInit PROVE TeardownInv
    OBVIOUS
  <1> USE DEF TeardownInit, Init
  <1>1. TeardownTypeOK
    BY DEF TeardownTypeOK
  <1>2. ScriptFollowsLoop /\ WorkspaceKept /\ OutOfVPN /\ CrossingsNoted
    BY DEF ScriptFollowsLoop, WorkspaceKept, RunningHasWorkspace, OutOfVPN,
           ExpiredHasLeftVPN, CrossingsNoted, InLab1, Workers
  <1>3. OwnedAtHome /\ BuiltUnlessCrossed /\ GoneUnlessCrossed
    BY LabTypeAssumption
       DEF OwnedAtHome, BuiltUnlessCrossed, GoneUnlessCrossed, Workers
  <1> QED
    BY <1>1, <1>2, <1>3 DEF TeardownInv

\* What the invariant of LabWorkers says of a worker that has a job.
LEMMA JobFacts ==
  ASSUME IInv, NEW w \in Workers, pc[w] # "poll"
  PROVE  /\ job[w] \in Deployments
         /\ \A v \in Workers \ {w} : job[v] # job[w]
         /\ pc[w] # "claiming" /\ w \in ProvWorkers =>
              status[job[w]] = "provisioning"
         /\ pc[w] # "claiming" /\ w \in CleanWorkers =>
              status[job[w]] = "terminating" /\ Due(job[w])
  BY DEF IInv, TypeOK, ClaimedOnce, JobMatchesRow, Workers

-----------------------------------------------------------------------------
(* Steps that change what the rows say, and no script's work.               *)

\* No script runs a command, but some may end; nothing comes to be running or
\* expired but by the worker that was about to mark it so.
LEMMA QuietStep ==
  ASSUME IInv, TeardownInv,
         UNCHANGED <<workspace, workspaces, owner, outputs, nodes, crossed, unlisted>>,
         ssm' \subseteq Deployments,
         script' \in [Workers -> {"start", "selected", "applied", "destroyed"}],
         \A v \in Workers :
           \/ script'[v] = "start"
           \/ script'[v] = script[v] /\ pc'[v] = pc[v] /\ job'[v] = job[v],
         \A v \in Workers : pc'[v] \in {"unjoining", "marking"} =>
           pc'[v] = pc[v] /\ job'[v] = job[v],
         \A d \in Deployments : status'[d] = "running" =>
           \/ status[d] = "running"
           \/ \E w \in ProvWorkers : pc[w] = "marking" /\ job[w] = d,
         \A d \in Deployments : status'[d] = "expired" =>
           \/ status[d] = "expired"
           \/ \E w \in CleanWorkers : pc[w] = "marking" /\ job[w] = d
  PROVE  TeardownInv'
  <1> USE DEF TeardownInv, Workers
  <1>1. TeardownTypeOK'
    BY DEF TeardownTypeOK
  <1>2. ScriptFollowsLoop'
    BY DEF ScriptFollowsLoop
  <1>3. WorkspaceKept'
    BY DEF WorkspaceKept, RunningHasWorkspace, Dir
  <1>4. OutOfVPN'
    BY DEF OutOfVPN, ExpiredHasLeftVPN
  <1>5. CrossingsNoted'
    BY DEF CrossingsNoted, InLab1
  <1>6. OwnedAtHome'
    BY DEF OwnedAtHome
  <1>7. BuiltUnlessCrossed'
    BY DEF BuiltUnlessCrossed, AtHome
  <1>8. GoneUnlessCrossed'
    BY DEF GoneUnlessCrossed, AtHome
  <1> QED
    BY <1>1, <1>2, <1>3, <1>4, <1>5, <1>6, <1>7, <1>8

\* A worker that is at none of its scripts has none running.
LEMMA NoScript ==
  ASSUME IInv, TeardownInv, NEW w \in Workers,
         w \in ProvWorkers => pc[w] # "applying",
         w \in CleanWorkers => pc[w] # "destroying"
  PROVE  script[w] = "start"
  BY DEF TeardownInv, ScriptFollowsLoop, Workers

\* Steps of a worker outside its scripts, faults and crashes included.
LEMMA QuietWorker ==
  ASSUME IInv, TeardownInv, NEW w \in Workers,
         UNCHANGED <<workspace, workspaces, owner, outputs, nodes, crossed, unlisted>>,
         ssm' \subseteq Deployments, ScriptEnds(w),
         pc'[w] \notin {"unjoining", "marking"},
         \A v \in Workers \ {w} : pc'[v] = pc[v] /\ job'[v] = job[v],
         \/ UNCHANGED status
         \/ \E s \in {"provisioning", "terminating", "failed", "cleanup_failed"} :
              Commit(w, s)
         \/ w \in ProvWorkers /\ pc[w] = "marking" /\ Commit(w, "running")
         \/ w \in CleanWorkers /\ pc[w] = "marking" /\ Commit(w, "expired")
  PROVE  TeardownInv'
  <1>1. /\ script' \in [Workers -> {"start", "selected", "applied", "destroyed"}]
        /\ script'[w] = "start" /\ \A v \in Workers \ {w} : script'[v] = script[v]
    BY DEF ScriptEnds, TeardownInv, TeardownTypeOK
  <1>2. \A d \in Deployments : status'[d] = "running" =>
          \/ status[d] = "running"
          \/ w \in ProvWorkers /\ pc[w] = "marking" /\ job[w] = d
    BY DEF Commit, IInv, TypeOK
  <1>3. \A d \in Deployments : status'[d] = "expired" =>
          \/ status[d] = "expired"
          \/ w \in CleanWorkers /\ pc[w] = "marking" /\ job[w] = d
    BY DEF Commit, IInv, TypeOK
  <1> QED
    BY <1>1, <1>2, <1>3, QuietStep

\* Everything the provisioning loop does outside deploy-lab.sh.
LEMMA QuietProv ==
  ASSUME IInv, TeardownInv, NEW w \in ProvWorkers,
         \/ StoreKey(w)
         \/ /\ \/ ClaimQueued(w) \/ CommitProvisioning(w) \/ PrepareRaises(w)
               \/ MarkRunning(w) \/ MarkFailed(w) \/ ProvFault(w)
            /\ UNCHANGED infra
  PROVE  TeardownInv'
  <1>0. w \in Workers /\ w \notin CleanWorkers
    BY WorkersAssumption DEF Workers
  <1>1. pc[w] # "applying"
    BY DEF StoreKey, MintKey, ClaimQueued, Claim, CommitProvisioning, CommitClaim,
           PrepareRaises, MarkRunning, MarkFailed, Finish, ProvFault, ClaimError,
           MarkRunningError, MarkFailedError, Proceed, Goto
  <1>2. ScriptEnds(w)
    BY <1>0, <1>1, NoScript
       DEF ScriptEnds, StoreKey, infra, TeardownInv, TeardownTypeOK
  <1>3. /\ UNCHANGED <<workspace, workspaces, owner, outputs, nodes, crossed, unlisted>>
        /\ ssm' \subseteq Deployments
    BY <1>0, JobFacts
       DEF StoreKey, MintKey, Proceed, Goto, infra, TeardownInv, TeardownTypeOK
  <1>4. /\ pc'[w] \notin {"unjoining", "marking"}
        /\ \A v \in Workers \ {w} : pc'[v] = pc[v] /\ job'[v] = job[v]
    BY <1>0 DEF StoreKey, MintKey, ClaimQueued, Claim, CommitProvisioning,
           CommitClaim, PrepareRaises, MarkRunning, MarkFailed, Finish, ProvFault,
           ClaimError, MarkRunningError, MarkFailedError, Abandon, Proceed, Goto,
           IInv, TypeOK
  <1>5. \/ UNCHANGED status \/ Commit(w, "provisioning") \/ Commit(w, "failed")
        \/ pc[w] = "marking" /\ Commit(w, "running")
    BY DEF StoreKey, MintKey, ClaimQueued, Claim, CommitProvisioning, CommitClaim,
           PrepareRaises, MarkRunning, MarkFailed, Finish, ProvFault, ClaimError,
           MarkRunningError, MarkFailedError, Abandon, Proceed, Goto, rows
  <1> QED
    BY <1>0, <1>2, <1>3, <1>4, <1>5, QuietWorker

\* Everything the cleanup loop does outside destroy-lab.sh and the nodes.
LEMMA QuietClean ==
  ASSUME IInv, TeardownInv, NEW w \in CleanWorkers,
         \/ ClaimExpired(w) \/ CommitTerminating(w) \/ DeleteNodesRaises(w)
         \/ MarkExpired(w) \/ MarkCleanupFailed(w) \/ CleanFault(w),
         UNCHANGED infra
  PROVE  TeardownInv'
  <1>0. w \in Workers /\ w \notin ProvWorkers
    BY WorkersAssumption DEF Workers
  <1>1. pc[w] # "destroying"
    BY DEF ClaimExpired, Claim, CommitTerminating, CommitClaim, DeleteNodesRaises,
           MarkExpired, MarkCleanupFailed, Finish, CleanFault, ClaimError,
           MarkExpiredError, SessionAborted, MarkCleanupFailedError, Proceed, Goto
  <1>2. ScriptEnds(w)
    BY <1>0, <1>1, NoScript DEF ScriptEnds, infra, TeardownInv, TeardownTypeOK
  <1>3. /\ UNCHANGED <<workspace, workspaces, owner, outputs, nodes, crossed, unlisted>>
        /\ ssm' \subseteq Deployments
    BY DEF infra, TeardownInv, TeardownTypeOK
  <1>4. /\ pc'[w] \notin {"unjoining", "marking"}
        /\ \A v \in Workers \ {w} : pc'[v] = pc[v] /\ job'[v] = job[v]
    BY <1>0 DEF ClaimExpired, Claim, CommitTerminating, CommitClaim,
           DeleteNodesRaises, MarkExpired, MarkCleanupFailed, Finish, CleanFault,
           ClaimError, MarkExpiredError, SessionAborted, MarkCleanupFailedError,
           Abandon, Proceed, Goto, IInv, TypeOK
  <1>5. \/ UNCHANGED status
        \/ Commit(w, "terminating") \/ Commit(w, "cleanup_failed")
        \/ pc[w] = "marking" /\ Commit(w, "expired")
    BY DEF ClaimExpired, Claim, CommitTerminating, CommitClaim,
           DeleteNodesRaises, MarkExpired, MarkCleanupFailed, Finish, CleanFault,
           ClaimError, MarkExpiredError, SessionAborted, MarkCleanupFailedError,
           Abandon, Proceed, Goto, rows
  <1> QED
    BY <1>0, <1>2, <1>3, <1>4, <1>5, QuietWorker

\* A worker that dies takes its script with it.
LEMMA CrashTeardownInv ==
  ASSUME IInv, TeardownInv, NEW w \in Workers, CrashInScript(w)
  PROVE  TeardownInv'
  <1>1. /\ ScriptEnds(w) /\ UNCHANGED status /\ pc'[w] = "poll"
        /\ UNCHANGED <<workspace, workspaces, owner, outputs, nodes, crossed, unlisted>>
        /\ ssm' \subseteq Deployments
        /\ \A v \in Workers \ {w} : pc'[v] = pc[v] /\ job'[v] = job[v]
    BY DEF CrashInScript, Crash, Abandon, rows, IInv, TypeOK, TeardownInv,
           TeardownTypeOK
  <1> QED
    BY <1>1, QuietWorker

\* The clock, and a new row.
LEMMA QuietOutside ==
  ASSUME IInv, TeardownInv, UNCHANGED infra,
         Tick \/ \E d \in Deployments, t \in 1..Horizon : Queue(d, t)
  PROVE  TeardownInv'
  <1>1. /\ UNCHANGED <<workspace, workspaces, owner, outputs, nodes, crossed, unlisted>>
        /\ UNCHANGED <<pc, job, script>> /\ ssm' \subseteq Deployments
        /\ script' \in [Workers -> {"start", "selected", "applied", "destroyed"}]
    BY DEF infra, Tick, Queue, TeardownInv, TeardownTypeOK
  <1>2. \A d \in Deployments : status'[d] \in {"running", "expired"} =>
                                 status'[d] = status[d]
    BY DEF Tick, Queue, rows, IInv, TypeOK
  <1> QED
    BY <1>1, <1>2, QuietStep

-----------------------------------------------------------------------------
(* The commands of the scripts.                                             *)

\* terraform apply or destroy, whatever is selected: a row that met no other
\* script keeps what it has, and the worker's own row gets what it should.
LEMMA WriteState ==
  ASSUME IInv, TeardownInv, NEW w \in Workers, pc[w] # "poll",
         script[w] # "start" \/ Dir(job[w]) = "lab-2",
         NEW x \in {job[w], Nobody},
         owner' = [owner EXCEPT ![Selected(job[w])] = x],
         UNCHANGED <<crossed, unlisted>>
  PROVE  /\ owner' \in [States -> Deployments \cup {Nobody}]
         /\ OwnedAtHome'
         /\ \A d \in Deployments \ crossed :
              Dir(d) = "lab-1" /\ d # job[w] => (AtHome(d)' <=> AtHome(d))
         /\ job[w] \notin crossed => owner'[Home(job[w])] = x
  <1> DEFINE d == job[w]
             here == Selected(d)
  <1>1. d \in Deployments /\ d # Default /\ d # Nobody
    BY JobFacts, LabTypeAssumption
  <1>2. here \in States /\ Home(d) \in States
    BY <1>1 DEF Selected, States, Home, TeardownInv, TeardownTypeOK
  <1>3. owner' \in [States -> Deployments \cup {Nobody}]
    BY <1>1 DEF TeardownInv, TeardownTypeOK
  <1>4. d \notin crossed => here = Home(d)
    BY <1>1 DEF Selected, Home, TeardownInv, CrossingsNoted, InLab1, Dir
  <1>5. \A e \in Deployments \ crossed :
          Dir(e) = "lab-1" /\ e # d => Home(e) # here
    BY <1>1, LabTypeAssumption
       DEF Selected, Home, TeardownInv, CrossingsNoted, InLab1, Dir
  <1>6. \A s \in States : owner'[s] = IF s = here THEN x ELSE owner[s]
    BY DEF TeardownInv, TeardownTypeOK
  <1>7. OwnedAtHome'
    BY <1>1, <1>4, <1>6, LabTypeAssumption DEF OwnedAtHome, TeardownInv
  <1>8. ASSUME NEW e \in Deployments \ crossed, Dir(e) = "lab-1", e # d
        PROVE  AtHome(e)' <=> AtHome(e)
    <2>1. Home(e) \in States
      BY <1>8 DEF Home, States
    <2> QED
      BY <1>5, <1>6, <1>8, <2>1 DEF AtHome
  <1> QED
    BY <1>2, <1>3, <1>4, <1>6, <1>7, <1>8

\* terraform workspace new || select, or select: the script that does it and
\* those it meets are noted; every other row is as it was.
LEMMA SelectStep ==
  ASSUME IInv, TeardownInv, NEW w \in Workers, pc[w] # "poll",
         script[w] = "start", Dir(job[w]) = "lab-1", Select(w, job[w])
  PROVE  /\ workspace' \in Deployments \cup {Default}
         /\ crossed \subseteq crossed'
         /\ script' = [script EXCEPT ![w] = "selected"]
         /\ UNCHANGED job => CrossingsNoted'
  <1>1. job[w] \in Deployments
    BY JobFacts
  <1>2. /\ workspace' = job[w] /\ script' = [script EXCEPT ![w] = "selected"]
        /\ script'[w] = "selected"
        /\ \A v \in Workers \ {w} : script'[v] = script[v]
    BY DEF Select, TeardownInv, TeardownTypeOK
  <1>3. crossed \subseteq crossed'
    BY DEF Select
  <1>4. ASSUME UNCHANGED job PROVE CrossingsNoted'
    <2> SUFFICES ASSUME NEW v \in Workers, InLab1(v)'
                 PROVE  /\ workspace' \in {job[v], Default} \cup crossed'
                        /\ job[v] \notin crossed' =>
                             /\ workspace' = job[v]
                             /\ \A u \in Workers \ {v} : ~InLab1(u)'
      BY <1>4 DEF CrossingsNoted
    <2>1. CASE v = w
      <3>1. job[w] \notin crossed' => Others(w) = {}
        BY DEF Select
      <3>2. Others(w) = {} => \A u \in Workers \ {w} : ~InLab1(u)'
        BY <1>2, <1>4 DEF Others, InLab1
      <3> QED
        BY <1>2, <2>1, <3>1, <3>2
    <2>2. CASE v # w
      <3>1. v \in Others(w)
        BY <1>2, <1>4, <2>2 DEF Others, InLab1
      <3>2. job[w] \in crossed' /\ job[v] \in crossed'
        BY <3>1 DEF Select
      <3> QED
        BY <1>2, <3>2
    <2> QED
      BY <2>1, <2>2
  <1> QED
    BY <1>1, <1>2, <1>3, <1>4

\* The deploy script selects its workspace, which it creates if need be.
LEMMA SelectForApplyInv ==
  ASSUME IInv, TeardownInv, NEW w \in ProvWorkers, SelectForApply(w)
  PROVE  TeardownInv'
  <1>0. /\ w \in Workers /\ w \notin CleanWorkers /\ pc[w] = "applying"
        /\ script[w] = "start" /\ Dir(job[w]) = "lab-1" /\ Select(w, job[w])
        /\ workspaces' = workspaces \cup {job[w]}
        /\ UNCHANGED <<status, pc, job, owner, outputs, ssm, nodes, unlisted>>
    BY WorkersAssumption DEF SelectForApply, Workers, vars
  <1>1. /\ workspace' \in Deployments \cup {Default} /\ crossed \subseteq crossed'
        /\ script' = [script EXCEPT ![w] = "selected"] /\ CrossingsNoted'
        /\ job[w] \in Deployments
    BY <1>0, SelectStep, JobFacts
  <1> USE DEF TeardownInv, Workers
  <1>2. TeardownTypeOK'
    BY <1>0, <1>1 DEF TeardownTypeOK
  <1>3. ScriptFollowsLoop'
    BY <1>0, <1>1 DEF ScriptFollowsLoop, TeardownTypeOK
  <1>4. WorkspaceKept'
    BY <1>0, <1>1 DEF WorkspaceKept, RunningHasWorkspace, TeardownTypeOK
  <1>5. OutOfVPN'
    BY <1>0 DEF OutOfVPN, ExpiredHasLeftVPN
  <1>6. OwnedAtHome'
    BY <1>0, <1>1 DEF OwnedAtHome
  <1>7. BuiltUnlessCrossed'
    BY <1>0, <1>1 DEF BuiltUnlessCrossed, AtHome, TeardownTypeOK
  <1>8. GoneUnlessCrossed'
    BY <1>0, <1>1 DEF GoneUnlessCrossed, AtHome, TeardownTypeOK
  <1> QED
    BY <1>1, <1>2, <1>3, <1>4, <1>5, <1>6, <1>7, <1>8

\* The destroy script takes the workspace for gone: nothing changes but that the
\* row is noted.
LEMMA AssumeDestroyedInv ==
  ASSUME IInv, TeardownInv, NEW w \in CleanWorkers, AssumeDestroyed(w)
  PROVE  TeardownInv'
  <1>0. /\ w \in Workers /\ w \notin ProvWorkers /\ pc[w] = "destroying"
        /\ script[w] = "start" /\ LabType[job[w]] = "windows"
        /\ job[w] \in Deployments /\ status[job[w]] = "terminating"
        /\ unlisted' = unlisted \cup {job[w]}
        /\ UNCHANGED <<status, job, workspace, workspaces, owner, outputs, script,
                       ssm, nodes, crossed>>
    BY WorkersAssumption, JobFacts
       DEF AssumeDestroyed, DestroySucceeds, CanDestroy, Proceed, Goto, Workers,
           rows
  <1>1. /\ pc'[w] = "unjoining"
        /\ \A v \in Workers \ {w} : pc'[v] = pc[v]
    BY <1>0 DEF AssumeDestroyed, DestroySucceeds, Proceed, Goto, IInv, TypeOK
  <1> USE DEF TeardownInv, Workers
  <1>2. TeardownTypeOK'
    BY <1>0 DEF TeardownTypeOK
  <1>3. ScriptFollowsLoop'
    BY <1>0, <1>1 DEF ScriptFollowsLoop
  <1>4. WorkspaceKept'
    BY <1>0, <1>1 DEF WorkspaceKept, RunningHasWorkspace
  <1>5. OutOfVPN'
    BY <1>0, <1>1 DEF OutOfVPN, ExpiredHasLeftVPN
  <1>6. CrossingsNoted' /\ OwnedAtHome'
    BY <1>0 DEF CrossingsNoted, InLab1, OwnedAtHome
  <1>7. BuiltUnlessCrossed'
    BY <1>0, <1>1 DEF BuiltUnlessCrossed, AtHome
  <1>8. GoneUnlessCrossed'
    BY <1>0, <1>1 DEF GoneUnlessCrossed, AtHome
  <1> QED
    BY <1>2, <1>3, <1>4, <1>5, <1>6, <1>7, <1>8

\* The destroy script selects its workspace.
LEMMA SelectForDestroyInv ==
  ASSUME IInv, TeardownInv, NEW w \in CleanWorkers, SelectForDestroy(w)
  PROVE  TeardownInv'
  <1>0. /\ w \in Workers /\ w \notin ProvWorkers /\ pc[w] = "destroying"
        /\ script[w] = "start" /\ LabType[job[w]] = "windows"
        /\ Dir(job[w]) = "lab-1" /\ Select(w, job[w])
        /\ UNCHANGED <<status, pc, job, workspaces, owner, outputs, ssm, nodes,
                       unlisted>>
    BY WorkersAssumption DEF SelectForDestroy, CanDestroy, Dir, Workers, vars
  <1>1. /\ workspace' \in Deployments \cup {Default} /\ crossed \subseteq crossed'
        /\ script' = [script EXCEPT ![w] = "selected"] /\ CrossingsNoted'
        /\ job[w] \in Deployments
    BY <1>0, SelectStep, JobFacts
  <1> USE DEF TeardownInv, Workers
  <1>2. TeardownTypeOK'
    BY <1>0, <1>1, JobFacts DEF Select, Others, TeardownTypeOK
  <1>3. ScriptFollowsLoop'
    BY <1>0, <1>1 DEF ScriptFollowsLoop, TeardownTypeOK
  <1>4. WorkspaceKept'
    BY <1>0, <1>1 DEF WorkspaceKept, RunningHasWorkspace, TeardownTypeOK
  <1>5. OutOfVPN'
    BY <1>0 DEF OutOfVPN, ExpiredHasLeftVPN
  <1>6. OwnedAtHome'
    BY <1>0, <1>1 DEF OwnedAtHome
  <1>7. BuiltUnlessCrossed'
    BY <1>0, <1>1 DEF BuiltUnlessCrossed, AtHome, TeardownTypeOK
  <1>8. GoneUnlessCrossed'
    BY <1>0, <1>1 DEF GoneUnlessCrossed, AtHome, TeardownTypeOK
  <1> QED
    BY <1>1, <1>2, <1>3, <1>4, <1>5, <1>6, <1>7, <1>8

\* The apply gives the worker's row its resources, and takes none from a row
\* that met no other script.
LEMMA TerraformApplyInv ==
  ASSUME IInv, TeardownInv, NEW w \in ProvWorkers, TerraformApply(w)
  PROVE  TeardownInv'
  <1>0. /\ w \in Workers /\ w \notin CleanWorkers /\ pc[w] = "applying"
        /\ script[w] # "start" \/ Dir(job[w]) = "lab-2"
        /\ script' = [script EXCEPT ![w] = "applied"]
        /\ owner' = [owner EXCEPT ![Selected(job[w])] = job[w]]
        /\ UNCHANGED <<status, pc, job, workspace, workspaces, outputs, ssm,
                       nodes, crossed, unlisted>>
    BY WorkersAssumption DEF TerraformApply, ReadyToApply, Workers, vars
  <1>1. /\ job[w] \in Deployments /\ status[job[w]] = "provisioning"
        /\ \A v \in Workers \ {w} : pc[v] # "poll" => job[v] # job[w]
    BY <1>0, JobFacts
  <1>2. /\ owner' \in [States -> Deployments \cup {Nobody}] /\ OwnedAtHome'
        /\ \A d \in Deployments \ crossed :
             Dir(d) = "lab-1" /\ d # job[w] => (AtHome(d)' <=> AtHome(d))
        /\ job[w] \notin crossed => owner'[Home(job[w])] = job[w]
    BY <1>0, WriteState
  <1> USE DEF TeardownInv, Workers
  <1>3. TeardownTypeOK'
    BY <1>0, <1>2 DEF TeardownTypeOK
  <1>4. ScriptFollowsLoop'
    BY <1>0 DEF ScriptFollowsLoop, TeardownTypeOK
  <1>5. WorkspaceKept'
    BY <1>0 DEF WorkspaceKept, RunningHasWorkspace, TeardownTypeOK, Dir
  <1>6. OutOfVPN'
    BY <1>0 DEF OutOfVPN, ExpiredHasLeftVPN
  <1>7. CrossingsNoted'
    BY <1>0 DEF CrossingsNoted, InLab1, TeardownTypeOK, Dir
  <1>8. BuiltUnlessCrossed'
    <2>1. \A d \in Deployments \ crossed :
            status[d] = "running" /\ Dir(d) = "lab-1" =>
              AtHome(d)' /\ outputs[d] = d
      BY <1>1, <1>2 DEF BuiltUnlessCrossed
    <2>2. ASSUME NEW v \in ProvWorkers, pc[v] \in {"applying", "marking"},
                 job[v] \notin crossed, Dir(job[v]) = "lab-1"
          PROVE  /\ script'[v] = "applied" => owner'[Home(job[v])] = job[v]
                 /\ pc[v] = "marking" => /\ owner'[Home(job[v])] = job[v]
                                         /\ outputs[job[v]] = job[v]
      <3>1. CASE v = w
        BY <1>0, <1>2, <2>2, <3>1
      <3>2. CASE v # w
        BY <1>0, <1>1, <1>2, <2>2, <3>2, JobFacts
           DEF BuiltUnlessCrossed, AtHome, TeardownTypeOK
      <3> QED
        BY <3>1, <3>2
    <2> QED
      BY <1>0, <2>1, <2>2 DEF BuiltUnlessCrossed, AtHome
  <1>9. GoneUnlessCrossed'
    <2>1. \A d \in Deployments \ (crossed \cup unlisted) :
            status[d] = "expired" => ~AtHome(d)'
      BY <1>1, <1>2 DEF GoneUnlessCrossed, ScriptFollowsLoop, Dir
    <2>2. ASSUME NEW v \in CleanWorkers, job[v] \notin crossed \cup unlisted,
                 script[v] = "destroyed" \/ pc[v] \in {"unjoining", "marking"}
          PROVE  ~(owner'[Home(job[v])] = job[v])
      <3>1. v # w /\ pc[v] # "poll" /\ LabType[job[v]] = "windows"
        BY <1>0, <2>2 DEF ScriptFollowsLoop
      <3> QED
        BY <1>0, <1>1, <1>2, <2>2, <3>1, JobFacts
           DEF GoneUnlessCrossed, AtHome, Dir
    <2> QED
      BY <1>0, <2>1, <2>2 DEF GoneUnlessCrossed, AtHome, TeardownTypeOK
  <1> QED
    BY <1>2, <1>3, <1>4, <1>5, <1>6, <1>7, <1>8, <1>9

\* A script that fails after it has changed the state it worked on.
LEMMA FailingWriteInv ==
  ASSUME IInv, TeardownInv, NEW w \in Workers, pc[w] \in {"applying", "destroying"},
         script[w] # "start" \/ Dir(job[w]) = "lab-2", NEW x \in {job[w], Nobody},
         owner' = [owner EXCEPT ![Selected(job[w])] = x],
         Proceed(w, pc[w], "failing"), ScriptEnds(w),
         UNCHANGED <<workspace, workspaces, outputs, ssm, nodes, crossed, unlisted>>
  PROVE  TeardownInv'
  <1>0. /\ pc' = [pc EXCEPT ![w] = "failing"] /\ UNCHANGED <<status, job>>
        /\ script' = [script EXCEPT ![w] = "start"]
    BY DEF Proceed, Goto, ScriptEnds, rows
  <1>1. /\ pc'[w] = "failing" /\ script'[w] = "start"
        /\ \A v \in Workers \ {w} :
             pc'[v] = pc[v] /\ script'[v] = script[v] /\ job[v] # job[w]
        /\ job[w] \in Deployments
        /\ status[job[w]] \in {"provisioning", "terminating"}
    BY <1>0, JobFacts DEF TeardownInv, TeardownTypeOK, IInv, TypeOK, Workers
  <1>2. /\ owner' \in [States -> Deployments \cup {Nobody}] /\ OwnedAtHome'
        /\ \A d \in Deployments \ crossed :
             Dir(d) = "lab-1" /\ d # job[w] => (AtHome(d)' <=> AtHome(d))
    BY WriteState
  <1> USE DEF TeardownInv, Workers
  <1>3. TeardownTypeOK'
    BY <1>0, <1>2 DEF TeardownTypeOK
  <1>4. ScriptFollowsLoop'
    BY <1>0, <1>1 DEF ScriptFollowsLoop
  <1>5. WorkspaceKept'
    BY <1>0, <1>1 DEF WorkspaceKept, RunningHasWorkspace
  <1>6. OutOfVPN'
    BY <1>0, <1>1 DEF OutOfVPN, ExpiredHasLeftVPN
  <1>7. CrossingsNoted'
    BY <1>0, <1>1 DEF CrossingsNoted, InLab1
  <1>8. BuiltUnlessCrossed'
    <2>1. \A d \in Deployments \ crossed :
            status[d] = "running" /\ Dir(d) = "lab-1" =>
              AtHome(d)' /\ outputs[d] = d
      BY <1>1, <1>2 DEF BuiltUnlessCrossed
    <2>2. ASSUME NEW v \in ProvWorkers, pc'[v] \in {"applying", "marking"},
                 job[v] \notin crossed, Dir(job[v]) = "lab-1"
          PROVE  /\ script'[v] = "applied" => owner'[Home(job[v])] = job[v]
                 /\ pc'[v] = "marking" => /\ owner'[Home(job[v])] = job[v]
                                          /\ outputs[job[v]] = job[v]
      <3>1. v # w /\ job[v] \in Deployments
        BY <1>1, <2>2, JobFacts
      <3> QED
        BY <1>0, <1>1, <1>2, <2>2, <3>1 DEF BuiltUnlessCrossed, AtHome
    <2> QED
      BY <1>0, <2>1, <2>2 DEF BuiltUnlessCrossed, AtHome
  <1>9. GoneUnlessCrossed'
    <2>1. \A d \in Deployments \ (crossed \cup unlisted) :
            status[d] = "expired" => ~AtHome(d)'
      BY <1>1, <1>2 DEF GoneUnlessCrossed, ScriptFollowsLoop, Dir
    <2>2. ASSUME NEW v \in CleanWorkers, job[v] \notin crossed \cup unlisted,
                 script'[v] = "destroyed" \/ pc'[v] \in {"unjoining", "marking"}
          PROVE  ~(owner'[Home(job[v])] = job[v])
      <3>1. v # w /\ pc[v] # "poll" /\ LabType[job[v]] = "windows"
        BY <1>1, <2>2 DEF ScriptFollowsLoop
      <3> QED
        BY <1>0, <1>1, <1>2, <2>2, <3>1, JobFacts
           DEF GoneUnlessCrossed, AtHome, Dir
    <2> QED
      BY <1>0, <2>1, <2>2 DEF GoneUnlessCrossed, AtHome
  <1> QED
    BY <1>2, <1>3, <1>4, <1>5, <1>6, <1>7, <1>8, <1>9

\* A failed deploy script, with or without an effect.
LEMMA DeployScriptFailsInv ==
  ASSUME IInv, TeardownInv, NEW w \in ProvWorkers, DeployScriptFails(w)
  PROVE  TeardownInv'
  <1>0. /\ w \in Workers /\ pc[w] = "applying" /\ pc'[w] = "failing"
        /\ Proceed(w, "applying", "failing") /\ ScriptEnds(w)
        /\ UNCHANGED <<workspace, workspaces, outputs, ssm, nodes, crossed, unlisted>>
        /\ \A v \in Workers \ {w} : pc'[v] = pc[v] /\ job'[v] = job[v]
        /\ UNCHANGED status /\ ssm \subseteq Deployments
    BY DEF DeployScriptFails, ApplyRaises, Proceed, Goto, Workers, rows, IInv,
           TypeOK, TeardownInv, TeardownTypeOK
  <1>1. CASE UNCHANGED owner
    BY <1>0, <1>1, QuietWorker
  <1>2. CASE ReadyToApply(w) /\ owner' = [owner EXCEPT ![Selected(job[w])] = job[w]]
    BY <1>0, <1>2, FailingWriteInv DEF ReadyToApply
  <1> QED
    BY <1>1, <1>2 DEF DeployScriptFails

\* A failed destroy script, with or without an effect.
LEMMA DestroyScriptFailsInv ==
  ASSUME IInv, TeardownInv, NEW w \in CleanWorkers, DestroyScriptFails(w)
  PROVE  TeardownInv'
  <1>0. /\ w \in Workers /\ pc[w] = "destroying" /\ pc'[w] = "failing"
        /\ Proceed(w, "destroying", "failing") /\ ScriptEnds(w)
        /\ UNCHANGED <<workspace, workspaces, outputs, ssm, nodes, crossed, unlisted>>
        /\ \A v \in Workers \ {w} : pc'[v] = pc[v] /\ job'[v] = job[v]
        /\ UNCHANGED status /\ ssm \subseteq Deployments
    BY DEF DestroyScriptFails, DestroyRaises, Proceed, Goto, Workers, rows, IInv,
           TypeOK, TeardownInv, TeardownTypeOK
  <1>1. CASE UNCHANGED owner
    BY <1>0, <1>1, QuietWorker
  <1>2. CASE /\ script[w] = "selected"
             /\ owner' = [owner EXCEPT ![Selected(job[w])] = Nobody]
    BY <1>0, <1>2, FailingWriteInv
  <1> QED
    BY <1>1, <1>2 DEF DestroyScriptFails

\* The destroy takes the resources of the worker's row, and those of no other
\* row that met no script.
LEMMA TerraformDestroyInv ==
  ASSUME IInv, TeardownInv, NEW w \in CleanWorkers, TerraformDestroy(w)
  PROVE  TeardownInv'
  <1>0. /\ w \in Workers /\ w \notin ProvWorkers /\ pc[w] = "destroying"
        /\ script[w] = "selected"
        /\ script' = [script EXCEPT ![w] = "destroyed"]
        /\ owner' = [owner EXCEPT ![Selected(job[w])] = Nobody]
        /\ UNCHANGED <<status, pc, job, workspace, workspaces, outputs, ssm,
                       nodes, crossed, unlisted>>
    BY WorkersAssumption DEF TerraformDestroy, Workers, vars
  <1>1. /\ job[w] \in Deployments /\ status[job[w]] = "terminating"
        /\ \A v \in Workers \ {w} : job[v] # job[w]
        /\ script'[w] = "destroyed"
        /\ \A v \in Workers \ {w} : script'[v] = script[v]
    BY <1>0, JobFacts DEF TeardownInv, TeardownTypeOK
  <1>2. /\ owner' \in [States -> Deployments \cup {Nobody}] /\ OwnedAtHome'
        /\ \A d \in Deployments \ crossed :
             Dir(d) = "lab-1" /\ d # job[w] => (AtHome(d)' <=> AtHome(d))
        /\ job[w] \notin crossed => owner'[Home(job[w])] = Nobody
    BY <1>0, WriteState
  <1> USE DEF TeardownInv, Workers
  <1>3. TeardownTypeOK'
    BY <1>0, <1>2 DEF TeardownTypeOK
  <1>4. ScriptFollowsLoop'
    BY <1>0, <1>1 DEF ScriptFollowsLoop
  <1>5. WorkspaceKept'
    BY <1>0, <1>1 DEF WorkspaceKept, RunningHasWorkspace
  <1>6. OutOfVPN'
    BY <1>0 DEF OutOfVPN, ExpiredHasLeftVPN
  <1>7. CrossingsNoted'
    BY <1>0, <1>1 DEF CrossingsNoted, InLab1
  <1>8. BuiltUnlessCrossed'
    <2>1. \A d \in Deployments \ crossed :
            status[d] = "running" /\ Dir(d) = "lab-1" =>
              AtHome(d)' /\ outputs[d] = d
      BY <1>1, <1>2 DEF BuiltUnlessCrossed
    <2>2. ASSUME NEW v \in ProvWorkers, pc[v] \in {"applying", "marking"},
                 job[v] \notin crossed, Dir(job[v]) = "lab-1"
          PROVE  /\ script'[v] = "applied" => owner'[Home(job[v])] = job[v]
                 /\ pc[v] = "marking" => /\ owner'[Home(job[v])] = job[v]
                                         /\ outputs[job[v]] = job[v]
      BY <1>0, <1>1, <1>2, <2>2, JobFacts DEF BuiltUnlessCrossed, AtHome
    <2> QED
      BY <1>0, <2>1, <2>2 DEF BuiltUnlessCrossed, AtHome
  <1>9. GoneUnlessCrossed'
    <2>1. \A d \in Deployments \ (crossed \cup unlisted) :
            status[d] = "expired" => ~AtHome(d)'
      BY <1>1, <1>2 DEF GoneUnlessCrossed, ScriptFollowsLoop, Dir
    <2>2. ASSUME NEW v \in CleanWorkers, job[v] \notin crossed \cup unlisted,
                 script'[v] = "destroyed" \/ pc[v] \in {"unjoining", "marking"}
          PROVE  ~(owner'[Home(job[v])] = job[v])
      <3>1. CASE v = w
        BY <1>0, <1>1, <1>2, <2>2, <3>1, LabTypeAssumption
      <3>2. CASE v # w
        <4>1. pc[v] # "poll" /\ LabType[job[v]] = "windows"
          BY <1>1, <2>2, <3>2 DEF ScriptFollowsLoop
        <4> QED
          BY <1>1, <1>2, <2>2, <3>2, <4>1, JobFacts
             DEF GoneUnlessCrossed, AtHome, Dir
      <3> QED
        BY <3>1, <3>2
    <2> QED
      BY <1>0, <2>1, <2>2 DEF GoneUnlessCrossed, AtHome
  <1> QED
    BY <1>2, <1>3, <1>4, <1>5, <1>6, <1>7, <1>8, <1>9

\* What terraform output prints is what the row's own state holds, if the row
\* met no other script.
LEMMA TerraformOutputInv ==
  ASSUME IInv, TeardownInv, NEW w \in ProvWorkers, TerraformOutput(w)
  PROVE  TeardownInv'
  <1>0. /\ w \in Workers /\ w \notin CleanWorkers /\ pc[w] = "applying"
        /\ script[w] = "applied" /\ job[w] \in Deployments
        /\ UNCHANGED <<status, job, workspace, workspaces, owner, ssm, nodes,
                       crossed, unlisted>>
    BY WorkersAssumption, JobFacts
       DEF TerraformOutput, ApplySucceeds, Proceed, Goto, Workers, rows
  <1>1. /\ pc'[w] = "marking" /\ script'[w] = "start"
        /\ script' = [script EXCEPT ![w] = "start"]
        /\ \A v \in Workers \ {w} :
             pc'[v] = pc[v] /\ script'[v] = script[v] /\ job[v] # job[w]
        /\ status[job[w]] = "provisioning"
    BY <1>0, JobFacts
       DEF TerraformOutput, ApplySucceeds, Proceed, Goto, ScriptEnds, TeardownInv,
           TeardownTypeOK, IInv, TypeOK
  <1>2. /\ outputs' \in [Deployments -> Deployments \cup {Nobody}]
        /\ \A d \in Deployments \ {job[w]} : outputs'[d] = outputs[d]
        /\ Dir(job[w]) = "lab-1" => outputs'[job[w]] = owner[Selected(job[w])]
    <2>1. Selected(job[w]) \in States
      BY <1>0 DEF Selected, States, TeardownInv, TeardownTypeOK
    <2> QED
      BY <1>0, <2>1 DEF TerraformOutput, TeardownInv, TeardownTypeOK
  <1> USE DEF TeardownInv, Workers
  <1>3. TeardownTypeOK'
    BY <1>0, <1>1, <1>2 DEF TeardownTypeOK
  <1>4. ScriptFollowsLoop'
    BY <1>0, <1>1 DEF ScriptFollowsLoop
  <1>5. WorkspaceKept'
    BY <1>0, <1>1 DEF WorkspaceKept, RunningHasWorkspace
  <1>6. OutOfVPN'
    BY <1>0, <1>1 DEF OutOfVPN, ExpiredHasLeftVPN
  <1>7. CrossingsNoted' /\ OwnedAtHome'
    BY <1>0, <1>1 DEF CrossingsNoted, InLab1, OwnedAtHome
  <1>8. BuiltUnlessCrossed'
    <2>1. job[w] \notin crossed /\ Dir(job[w]) = "lab-1" =>
            AtHome(job[w]) /\ outputs'[job[w]] = job[w]
      BY <1>0, <1>2
         DEF BuiltUnlessCrossed, CrossingsNoted, InLab1, AtHome, Home, Selected
    <2>2. \A d \in Deployments \ crossed :
            status[d] = "running" /\ Dir(d) = "lab-1" =>
              AtHome(d) /\ outputs'[d] = d
      BY <1>1, <1>2 DEF BuiltUnlessCrossed
    <2>3. ASSUME NEW v \in ProvWorkers, pc'[v] \in {"applying", "marking"},
                 job[v] \notin crossed, Dir(job[v]) = "lab-1"
          PROVE  /\ script'[v] = "applied" => AtHome(job[v])
                 /\ pc'[v] = "marking" => AtHome(job[v]) /\ outputs'[job[v]] = job[v]
      <3>1. CASE v = w
        BY <1>1, <2>1, <2>3, <3>1
      <3>2. CASE v # w
        BY <1>0, <1>1, <1>2, <2>3, <3>2, JobFacts DEF BuiltUnlessCrossed
      <3> QED
        BY <3>1, <3>2
    <2> QED
      BY <1>0, <2>2, <2>3 DEF BuiltUnlessCrossed, AtHome
  <1>9. GoneUnlessCrossed'
    BY <1>0, <1>1 DEF GoneUnlessCrossed, AtHome
  <1> QED
    BY <1>3, <1>4, <1>5, <1>6, <1>7, <1>8, <1>9

\* The workspace goes with the lab, and no running row's with it: the row is
\* the worker's own, and it is being torn down.
LEMMA DeleteWorkspaceInv ==
  ASSUME IInv, TeardownInv, NEW w \in CleanWorkers, DeleteWorkspace(w)
  PROVE  TeardownInv'
  <1>0. /\ w \in Workers /\ w \notin ProvWorkers /\ pc[w] = "destroying"
        /\ script[w] = "destroyed" /\ job[w] \in Deployments
        /\ workspace' = Default /\ workspaces' \in {workspaces, workspaces \ {job[w]}}
        /\ UNCHANGED <<status, job, owner, outputs, ssm, nodes, crossed, unlisted>>
    BY WorkersAssumption, JobFacts
       DEF DeleteWorkspace, DestroySucceeds, Proceed, Goto, Workers, rows
  <1>1. /\ pc'[w] = "unjoining" /\ script'[w] = "start"
        /\ script' = [script EXCEPT ![w] = "start"]
        /\ \A v \in Workers \ {w} :
             pc'[v] = pc[v] /\ script'[v] = script[v] /\ job[v] # job[w]
        /\ status[job[w]] = "terminating"
    BY <1>0, JobFacts
       DEF DeleteWorkspace, DestroySucceeds, Proceed, Goto, ScriptEnds,
           TeardownInv, TeardownTypeOK, IInv, TypeOK
  <1> USE DEF TeardownInv, Workers
  <1>2. InLab1(w) /\ LabType[job[w]] = "windows"
    BY <1>0 DEF ScriptFollowsLoop, InLab1, Dir
  <1>3. TeardownTypeOK'
    BY <1>0, <1>1 DEF TeardownTypeOK
  <1>4. ScriptFollowsLoop'
    BY <1>0, <1>1, <1>2 DEF ScriptFollowsLoop
  <1>5. WorkspaceKept'
    <2>1. RunningHasWorkspace'
      BY <1>0, <1>1 DEF WorkspaceKept, RunningHasWorkspace
    <2>2. ASSUME NEW v \in ProvWorkers, script'[v] # "start" \/ pc'[v] = "marking",
                 Dir(job[v]) = "lab-1"
          PROVE  job[v] \in workspaces'
      BY <1>0, <1>1, <2>2 DEF WorkspaceKept
    <2> QED
      BY <1>0, <2>1, <2>2 DEF WorkspaceKept
  <1>6. OutOfVPN'
    BY <1>0, <1>1 DEF OutOfVPN, ExpiredHasLeftVPN
  <1>7. CrossingsNoted'
    <2> SUFFICES ASSUME NEW v \in Workers, InLab1(v)'
                 PROVE  job[v] \in crossed
      BY <1>0 DEF CrossingsNoted
    <2>1. v # w /\ InLab1(v)
      BY <1>0, <1>1 DEF InLab1
    <2> QED
      BY <1>2, <2>1 DEF CrossingsNoted
  <1>8. OwnedAtHome' /\ BuiltUnlessCrossed'
    BY <1>0, <1>1 DEF OwnedAtHome, BuiltUnlessCrossed, AtHome
  <1>9. GoneUnlessCrossed'
    BY <1>0, <1>1 DEF GoneUnlessCrossed, AtHome
  <1> QED
    BY <1>3, <1>4, <1>5, <1>6, <1>7, <1>8, <1>9

\* The router's node is deleted while the row is due.
LEMMA UnjoinRouterInv ==
  ASSUME IInv, TeardownInv, NEW w \in CleanWorkers, UnjoinRouter(w)
  PROVE  TeardownInv'
  <1>0. /\ w \in Workers /\ w \notin ProvWorkers /\ pc[w] = "unjoining"
        /\ pc'[w] = "marking" /\ nodes' = nodes \ {job[w]}
        /\ \A v \in Workers \ {w} : pc'[v] = pc[v]
        /\ UNCHANGED <<status, job, workspace, workspaces, owner, outputs, script,
                       ssm, crossed, unlisted>>
    BY WorkersAssumption
       DEF UnjoinRouter, DeleteNodes, Proceed, Goto, Workers, rows, IInv, TypeOK
  <1> USE DEF TeardownInv, Workers
  <1>1. TeardownTypeOK'
    BY <1>0 DEF TeardownTypeOK
  <1>2. ScriptFollowsLoop' /\ WorkspaceKept'
    BY <1>0 DEF ScriptFollowsLoop, WorkspaceKept, RunningHasWorkspace
  <1>3. OutOfVPN'
    BY <1>0 DEF OutOfVPN, ExpiredHasLeftVPN
  <1>4. CrossingsNoted' /\ OwnedAtHome'
    BY <1>0 DEF CrossingsNoted, InLab1, OwnedAtHome
  <1>5. BuiltUnlessCrossed' /\ GoneUnlessCrossed'
    BY <1>0 DEF BuiltUnlessCrossed, GoneUnlessCrossed, AtHome
  <1> QED
    BY <1>1, <1>2, <1>3, <1>4, <1>5

\* A router joins for a row that is not due, and so neither expired nor about
\* to be.
LEMMA RouterJoinsInv ==
  ASSUME IInv, TeardownInv, NEW d \in Deployments, RouterJoins(d)
  PROVE  TeardownInv'
  <1>0. /\ ~Due(d) /\ nodes' = nodes \cup {d}
        /\ UNCHANGED <<status, pc, job, workspace, workspaces, owner, outputs,
                       script, ssm, crossed, unlisted>>
    BY DEF RouterJoins, vars
  <1> USE DEF TeardownInv, Workers
  <1>1. TeardownTypeOK'
    BY <1>0 DEF TeardownTypeOK
  <1>2. ScriptFollowsLoop' /\ WorkspaceKept'
    BY <1>0 DEF ScriptFollowsLoop, WorkspaceKept, RunningHasWorkspace
  <1>3. OutOfVPN'
    <2>1. status[d] # "expired"
      BY <1>0 DEF IInv, NoEarlyTeardown
    <2>2. \A w \in CleanWorkers : pc[w] = "marking" => job[w] # d
      BY <1>0, JobFacts
    <2> QED
      BY <1>0, <2>1, <2>2 DEF OutOfVPN, ExpiredHasLeftVPN
  <1>4. CrossingsNoted' /\ OwnedAtHome'
    BY <1>0 DEF CrossingsNoted, InLab1, OwnedAtHome
  <1>5. BuiltUnlessCrossed' /\ GoneUnlessCrossed'
    BY <1>0 DEF BuiltUnlessCrossed, GoneUnlessCrossed, AtHome
  <1> QED
    BY <1>1, <1>2, <1>3, <1>4, <1>5

-----------------------------------------------------------------------------
\* Together with the invariant of LabWorkers, it is inductive.
LEMMA NextTeardownInv ==
  IInv /\ TeardownInv /\ [TeardownNext]_allVars => TeardownInv'
  <1> SUFFICES ASSUME IInv, TeardownInv, [TeardownNext]_allVars
               PROVE  TeardownInv'
    OBVIOUS
  <1>1. CASE Outside
    BY <1>1, QuietOutside, QuietProv, QuietClean DEF Outside
  <1>2. ASSUME NEW w \in ProvWorkers, ProvJob(w) PROVE TeardownInv'
    BY <1>2, QuietProv, SelectForApplyInv, TerraformApplyInv,
       TerraformOutputInv, DeployScriptFailsInv DEF ProvJob
  <1>3. ASSUME NEW w \in CleanWorkers, CleanJob(w) PROVE TeardownInv'
    BY <1>3, QuietClean, AssumeDestroyedInv, SelectForDestroyInv,
       TerraformDestroyInv, DeleteWorkspaceInv, DestroyScriptFailsInv, UnjoinRouterInv DEF CleanJob
  <1>4. ASSUME NEW w \in Workers, CrashInScript(w) PROVE TeardownInv'
    BY <1>4, CrashTeardownInv
  <1>5. ASSUME NEW d \in Deployments, RouterJoins(d) PROVE TeardownInv'
    BY <1>5, RouterJoinsInv
  <1>6. CASE UNCHANGED allVars
    <2>1. /\ UNCHANGED <<workspace, workspaces, owner, outputs, nodes, crossed, unlisted>>
          /\ UNCHANGED <<status, pc, job, ssm, script>>
      BY <1>6 DEF allVars, vars, infra
    <2> QED
      BY <2>1, QuietStep DEF TeardownInv, TeardownTypeOK
  <1> QED
    BY <1>1, <1>2, <1>3, <1>4, <1>5, <1>6 DEF TeardownNext

\* Both invariants hold of every reachable state.
THEOREM TeardownInvariance == TeardownSpec => [](IInv /\ TeardownInv)
  <1>1. TeardownSpec => []IInv
    BY TeardownImplementsWorkers, Invariance, PTL
  <1> QED
    BY <1>1, InitTeardownInv, NextTeardownInv, PTL DEF TeardownSpec

\* Type correctness of the Terraform states, the scripts, the keys and nodes.
THEOREM TeardownTypeCorrect == TeardownSpec => []TeardownTypeOK
  <1>1. TeardownInv => TeardownTypeOK
    BY DEF TeardownInv
  <1> QED
    BY <1>1, TeardownInvariance, PTL

\* However many workers and labs there are, the workspace of a running lab
\* exists: destroy-lab.sh has no reason to take it for gone.
THEOREM WorkspaceFound == TeardownSpec => []RunningHasWorkspace
  <1>1. TeardownInv => RunningHasWorkspace
    BY DEF TeardownInv, WorkspaceKept
  <1> QED
    BY <1>1, TeardownInvariance, PTL

\* An expired lab has no router in the VPN and gets none, although its router
\* key is never deleted.
THEOREM ExpiredOutOfVPN == TeardownSpec => []ExpiredHasLeftVPN
  <1>1. TeardownInv => ExpiredHasLeftVPN
    BY DEF TeardownInv, OutOfVPN
  <1> QED
    BY <1>1, TeardownInvariance, PTL

\* No failed apply or destroy, no crash and no mixture of lab types leaves the
\* resources of an expired lab behind: only a script that met another one, or
\* one that did not see the workspace.
THEOREM OnlyCrossingsLeak == TeardownSpec => []DestroyedUnlessCrossed
  <1>1. TeardownInv => DestroyedUnlessCrossed
    <2> SUFFICES ASSUME TeardownInv, NEW d \in Deployments \ (crossed \cup unlisted),
                        status[d] = "expired", NEW s \in States, owner[s] = d
                 PROVE  FALSE
      BY DEF DestroyedUnlessCrossed, Live
    <2>1. s = Home(d)
      BY DEF TeardownInv, OwnedAtHome
    <2> QED
      BY <2>1 DEF TeardownInv, GoneUnlessCrossed, AtHome
  <1> QED
    BY <1>1, TeardownInvariance, PTL

\* A running lab of lab-1 that met no other script is its own, and its row
\* shows its own addresses.
THEOREM OnlyCrossingsMistake == TeardownSpec => []OwnLabUnlessCrossed
  <1>1. TeardownInv => OwnLabUnlessCrossed
    <2> SUFFICES ASSUME TeardownInv, NEW d \in Deployments \ crossed,
                        status[d] = "running", Dir(d) = "lab-1"
                 PROVE  Live(d) /\ outputs[d] = d
      BY DEF OwnLabUnlessCrossed
    <2>1. AtHome(d) /\ outputs[d] = d
      BY DEF TeardownInv, BuiltUnlessCrossed
    <2>2. Home(d) \in States
      BY DEF Home, States
    <2> QED
      BY <2>1, <2>2 DEF AtHome, Live
  <1> QED
    BY <1>1, TeardownInvariance, PTL
=============================================================================
