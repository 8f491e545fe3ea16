------------------------------ MODULE LabWorkers ------------------------------
(***************************************************************************)
(* The table lab_deployments and the two kinds of background worker that   *)
(* move its rows: lab_worker (provisioning) and lab_cleanup_worker         *)
(* (teardown).  Each runs in its own process, and again inside the API     *)
(* when RUN_WORKERS_IN_APP is set, so several of a kind may share the      *)
(* table.  The only coordination is the claim: an UPDATE of the row that a *)
(* SELECT ... FOR UPDATE SKIP LOCKED picked, committed together with its   *)
(* operations-feed event.  After the claim every UPDATE names the row by   *)
(* id and looks at no status.                                              *)
(*                                                                         *)
(* A transaction that only one worker can be in the middle of is one step. *)
(* The claim is two, its statement and its commit, because the row lock it *)
(* holds in between is what other workers run into.  What Terraform,       *)
(* Headscale and SSM do to the world is the subject of LabTeardown; here   *)
(* they succeed or raise.                                                  *)
(***************************************************************************)
EXTENDS Naturals, FiniteSets

CONSTANTS
  Deployments,    \* ids of the rows that may be inserted
  ProvWorkers,    \* running lab_provisioning_worker loops
  CleanWorkers,   \* running lab_cleanup_worker loops
  NoJob,          \* a worker that holds no row
  Horizon,        \* bound: the last instant of the model's clock
  MaxFaults       \* bound: crashes and database errors in a behaviour

ASSUME WorkersAssumption ==
  /\ ProvWorkers \cap CleanWorkers = {}
  /\ NoJob \notin Deployments
  /\ Horizon \in Nat
  /\ MaxFaults \in Nat

\* Only finitely many requests are ever made.
ASSUME FiniteAssumption == IsFiniteSet(Deployments)

VARIABLES
  status,         \* lab_deployments.status, "absent" before the INSERT
  created,        \* lab_deployments.created_at
  expiresAt,      \* lab_deployments.expires_at
  now,            \* the database's clock
  pc,             \* where each worker is in its loop
  job,            \* the row each worker has claimed or is claiming
  faults          \* crashes and database errors so far

rows == <<status, created, expiresAt>>
vars == <<status, created, expiresAt, now, pc, job, faults>>

Workers == ProvWorkers \cup CleanWorkers

Status == {"absent", "queued", "provisioning", "running", "failed",
           "terminating", "cleanup_failed", "expired"}

\* "poll": between jobs.  "claiming": the claim's UPDATE has run, its
\* transaction is open and holds the row lock.
ProvPC == {"poll", "claiming", "preparing", "applying", "marking", "failing"}
CleanPC == {"poll", "claiming", "destroying", "unjoining", "marking", "failing"}

Init ==
  /\ status = [d \in Deployments |-> "absent"]
  /\ created = [d \in Deployments |-> 0]
  /\ expiresAt = [d \in Deployments |-> 0]
  /\ now = 0
  /\ pc = [w \in Workers |-> "poll"]
  /\ job = [w \in Workers |-> NoJob]
  /\ faults = 0

-----------------------------------------------------------------------------
(* The clock, and the requests that insert rows.                           *)

Tick == /\ now < Horizon
        /\ now' = now + 1
        /\ UNCHANGED <<rows, pc, job, faults>>

\* expires_at <= now() of the claim, and of mint_preauth_key's guard.
Due(d) == status[d] # "absent" /\ expiresAt[d] <= now

\* A route inserts a queued row.  They all refuse an expiry that is not in
\* the future; who may ask, and for what, is the subject of DeployRequests.
Queue(d, t) ==
  /\ status[d] = "absent"
  /\ t > now
  /\ status' = [status EXCEPT ![d] = "queued"]
  /\ created' = [created EXCEPT ![d] = now]
  /\ expiresAt' = [expiresAt EXCEPT ![d] = t]
  /\ UNCHANGED <<now, pc, job, faults>>

-----------------------------------------------------------------------------
(* Steps both loops are made of.                                           *)

\* An open claim holds the lock of its row.
Locked(d) == \E w \in Workers : pc[w] = "claiming" /\ job[w] = d

\* Mutant: the claim without FOR UPDATE SKIP LOCKED.
FirstUnlocked_Bug(candidates, key) ==
  {d \in candidates : \A e \in candidates : key[d] <= key[e]}

\* ORDER BY ... FOR UPDATE SKIP LOCKED LIMIT 1: an unlocked candidate that
\* comes first in the order; candidates with equal keys in any order.
FirstUnlocked(candidates, key) ==
  LET free == {d \in candidates : ~Locked(d)}
  IN  {d \in free : \A e \in free : key[d] <= key[e]}

Claim(w, candidates, key) ==
  /\ pc[w] = "poll"
  /\ \E d \in FirstUnlocked(candidates, key) : job' = [job EXCEPT ![w] = d]
  /\ pc' = [pc EXCEPT ![w] = "claiming"]
  /\ UNCHANGED <<rows, now, faults>>

Goto(w, from, to) == pc[w] = from /\ pc' = [pc EXCEPT ![w] = to]

\* The row of w's job gets status s in a transaction that commits.
Commit(w, s) == status' = [status EXCEPT ![job[w]] = s]

\* A step that leaves the table alone.
Proceed(w, from, to) ==
  /\ Goto(w, from, to)
  /\ UNCHANGED <<rows, now, job, faults>>

\* The claim commits: the row now says that somebody works on it.
CommitClaim(w, s, next) ==
  /\ Goto(w, "claiming", next)
  /\ Commit(w, s)
  /\ UNCHANGED <<created, expiresAt, now, job, faults>>

\* The job is over: its last transaction commits and the loop polls again.
Finish(w, from, s) ==
  /\ Goto(w, from, "poll")
  /\ Commit(w, s)
  /\ job' = [job EXCEPT ![w] = NoJob]
  /\ UNCHANGED <<created, expiresAt, now, faults>>

Fault == faults < MaxFaults /\ faults' = faults + 1

\* The worker drops its job; an open transaction is rolled back.
Abandon(w) ==
  /\ Fault
  /\ pc' = [pc EXCEPT ![w] = "poll"]
  /\ job' = [job EXCEPT ![w] = NoJob]
  /\ UNCHANGED <<rows, now>>

\* The process is killed, or its task cancelled when the grace period of a
\* shutdown ends, and a new one starts.  Nothing looks for the job it had.
Crash(w) == pc[w] # "poll" /\ Abandon(w)

\* The claim's transaction raises: the loop logs the error and polls again.
ClaimError(w) == pc[w] = "claiming" /\ Abandon(w)

-----------------------------------------------------------------------------
(* The provisioning loop.                                                  *)

\* Mutant: the claim skips rows that are past their expiry.
ClaimQueued_Bug(w) ==
  Claim(w, {d \in Deployments : status[d] = "queued" /\ ~Due(d)}, created)

ClaimQueued(w) ==
  Claim(w, {d \in Deployments : status[d] = "queued"}, created)

CommitProvisioning(w) == CommitClaim(w, "provisioning", "preparing")

\* Subnet and router key: mint_preauth_key refuses a row past its expiry.
MintKey(w) == Proceed(w, "preparing", "applying") /\ ~Due(job[w])

\* Out of subnets, key refused, Headscale or SSM raising.
PrepareRaises(w) == Proceed(w, "preparing", "failing")

ApplySucceeds(w) == Proceed(w, "applying", "marking")
ApplyRaises(w) == Proceed(w, "applying", "failing")

MarkRunning(w) == Finish(w, "marking", "running")

\* The UPDATE or its commit raises: the handler marks the row failed.
MarkRunningError(w) ==
  /\ Fault
  /\ Goto(w, "marking", "failing")
  /\ UNCHANGED <<rows, now, job>>

\* Mutant: the handler logs the error and forgets to mark the row.
MarkFailed_Bug(w) == /\ Goto(w, "failing", "poll")
                     /\ job' = [job EXCEPT ![w] = NoJob]
                     /\ UNCHANGED <<rows, now, faults>>

MarkFailed(w) == Finish(w, "failing", "failed")

\* The handler's own session raises too: the row keeps its status.
MarkFailedError(w) == pc[w] = "failing" /\ Abandon(w)

ProvStep(w) ==
  \/ ClaimQueued(w) \/ CommitProvisioning(w)
  \/ MintKey(w) \/ PrepareRaises(w)
  \/ ApplySucceeds(w) \/ ApplyRaises(w)
  \/ MarkRunning(w) \/ MarkFailed(w)

-----------------------------------------------------------------------------
(* The cleanup loop.                                                       *)

\* Mutant: the claim takes running rows whatever their expiry.
ClaimExpired_Bug(w) ==
  Claim(w, {d \in Deployments : status[d] = "running"}, expiresAt)

ClaimExpired(w) ==
  Claim(w, {d \in Deployments : status[d] = "running" /\ Due(d)}, expiresAt)

CommitTerminating(w) == CommitClaim(w, "terminating", "destroying")

DestroySucceeds(w) == Proceed(w, "destroying", "unjoining")
DestroyRaises(w) == Proceed(w, "destroying", "failing")

DeleteNodes(w) == Proceed(w, "unjoining", "marking")
DeleteNodesRaises(w) == Proceed(w, "unjoining", "failing")

MarkExpired(w) == Finish(w, "marking", "expired")

\* A commit that raises leaves a session the handler can still use ...
MarkExpiredError(w) ==
  /\ Fault
  /\ Goto(w, "marking", "failing")
  /\ UNCHANGED <<rows, now, job>>

\* ... a statement that raises does not: the handler has no rollback, so its
\* own UPDATE on the same session raises as well.
SessionAborted(w) == pc[w] = "marking" /\ Abandon(w)

MarkCleanupFailed(w) == Finish(w, "failing", "cleanup_failed")

MarkCleanupFailedError(w) == pc[w] = "failing" /\ Abandon(w)

CleanStep(w) ==
  \/ ClaimExpired(w) \/ CommitTerminating(w)
  \/ DestroySucceeds(w) \/ DestroyRaises(w)
  \/ DeleteNodes(w) \/ DeleteNodesRaises(w)
  \/ MarkExpired(w) \/ MarkCleanupFailed(w)

-----------------------------------------------------------------------------
ProvFault(w) == ClaimError(w) \/ MarkRunningError(w) \/ MarkFailedError(w)

CleanFault(w) == \/ ClaimError(w) \/ MarkExpiredError(w) \/ SessionAborted(w)
                 \/ MarkCleanupFailedError(w)

Next ==
  \/ Tick
  \/ \E d \in Deployments, t \in 1..Horizon : Queue(d, t)
  \/ \E w \in ProvWorkers : ProvStep(w) \/ ProvFault(w)
  \/ \E w \in CleanWorkers : CleanStep(w) \/ CleanFault(w)
  \/ \E w \in Workers : Crash(w)

Spec == Init /\ [][Next]_vars

\* The workers wait for deploy-lab.sh and destroy-lab.sh without a timeout, and
\* a Terraform command the scripts do not run under one may hang.
InScript(w) == pc[w] \in {"applying", "destroying"}

\* A loop outside a script that can take a step takes one: its polls sleep a few
\* seconds, its calls of other services time out, a dead process is restarted.
\* Requests, faults and the end of a script are not fair.
Fairness ==
  /\ WF_vars(Tick)
  /\ \A w \in ProvWorkers : WF_vars(~InScript(w) /\ ProvStep(w))
  /\ \A w \in CleanWorkers : WF_vars(~InScript(w) /\ CleanStep(w))

FairSpec == Spec /\ Fairness

-----------------------------------------------------------------------------
(* Properties.                                                             *)

\* Every variable has its type: the status and the worker positions are among
\* the ones the code uses, a job is a row or none.
TypeOK ==
  /\ status \in [Deployments -> Status]
  /\ created \in [Deployments -> Nat]
  /\ expiresAt \in [Deployments -> Nat]
  /\ now \in Nat
  /\ pc \in [Workers -> ProvPC \cup CleanPC]
  /\ \A w \in ProvWorkers : pc[w] \in ProvPC
  /\ \A w \in CleanWorkers : pc[w] \in CleanPC
  /\ job \in [Workers -> Deployments \cup {NoJob}]
  /\ faults \in Nat

\* No row is ever in the hands of two workers, of one kind or of both: what
\* FOR UPDATE SKIP LOCKED in the two claim statements is for.  Two Terraform
\* runs of one deployment would share its state file.
ClaimedOnce ==
  \A v, w \in Workers : v # w /\ job[v] # NoJob => job[v] # job[w]

\* The row of a job has the status the worker's position implies, and is past
\* its expiry when a cleanup worker has it, although no UPDATE after the claim
\* looks at the status it overwrites.
JobMatchesRow ==
  /\ \A w \in Workers : pc[w] = "poll" <=> job[w] = NoJob
  /\ \A w \in ProvWorkers : job[w] # NoJob =>
       status[job[w]] = IF pc[w] = "claiming" THEN "queued" ELSE "provisioning"
  /\ \A w \in CleanWorkers : job[w] # NoJob =>
       /\ status[job[w]] = IF pc[w] = "claiming" THEN "running" ELSE "terminating"
       /\ Due(job[w])

\* No lab is taken from its users before the expires_at they were given.
NoEarlyTeardown ==
  \A d \in Deployments :
    status[d] \in {"terminating", "cleanup_failed", "expired"} => Due(d)

\* A row in an in-progress status that no worker is working on: neither claim
\* statement ever selects it again.
Unattended(d) ==
  /\ status[d] \in {"provisioning", "terminating"}
  /\ \A w \in Workers : job[w] # d

\* Rows get stuck one per fault: every row left in an in-progress status with
\* nobody at work on it was lost by a crash or a database error of its own.
StuckRows == {d \in Deployments : Unattended(d)}
OneStuckRowPerFault == Cardinality(StuckRows) <= faults

\* A final status is final: mark_running, mark_failed, mark_expired and
\* mark_cleanup_failed name the row by id only, and yet a late one never
\* brings a failed, expired or cleanup_failed deployment back.
Final == {"failed", "expired", "cleanup_failed"}
FinalIsFinal ==
  [][\A d \in Deployments : status[d] \in Final => status'[d] = status[d]]_vars

\* The table as its readers see it follows DeploymentLifecycle.
Lifecycle == INSTANCE DeploymentLifecycle
               WITH due <- {d \in Deployments : Due(d)}
RefinesLifecycle == Lifecycle!Spec

\* A script that works on row d.
ScriptOf(d) == \E w \in Workers : job[w] = d /\ InScript(w)

\* Every loop of one kind waits for a script.
AllInScripts ==
  \/ \A w \in ProvWorkers : InScript(w)
  \/ \A w \in CleanWorkers : InScript(w)

\* Every request ends in a final status, unless a fault left it unattended, its
\* own script never ends, or every loop of a kind waits for ever for a script:
\* one that hangs takes its own row and its own loop out, and no other.
RequestsSettle ==
  \A d \in Deployments :
    status[d] = "queued" ~> \/ status[d] \in Final \/ Unattended(d)
                            \/ []ScriptOf(d)
                            \/ []AllInScripts
=============================================================================
