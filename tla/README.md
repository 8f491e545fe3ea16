# cyberrange-backend in TLA+

cyberrange-backend is the server of a cyber range: learners buy or are given
lab courses, labs are built as AWS machines by Terraform, reached over a
Headscale VPN, and torn down when they expire. This directory specifies the
parts of it in which several processes or requests meet: it holds TLA+ modules
translated from the source, the TLC runs that check them, and TLAPS proofs.

Paths below are relative to the repository; `backend/...` is `src/backend/...`.

## 1. The system

### 1.1 Components

| Component | State it keeps | Operations | What makes it correct |
|---|---|---|---|
| Provisioning worker (`backend/workers/lab_worker.py`) | the job in progress; `lab_deployments.status` | claim, subnet, router key, `deploy-lab.sh`, `mark_running`, `mark_failed` | one worker per row; a row is never lost except to a fault; a final status stays |
| Cleanup worker (`backend/workers/lab_cleanup_worker.py`) | the same | claim of an expired row, `destroy-lab.sh`, node deletion, `mark_expired`, `mark_cleanup_failed` | nothing is torn down early; what is `expired` is gone |
| Lab scripts (`lab-1/*.sh`, `lab-2/deploy-lab.sh`) | Terraform states and the selected workspace, on disk | select, apply, output, destroy, delete workspace | a script works on its own deployment's state |
| Headscale and SSM (`backend/infrastructure/headscale.py`, `utils/headscale_client.py`) | preauth keys, users, nodes; `headscale_identities`, `headscale_keys` | mint, join, delete | an expired lab is out of the VPN; what is minted is on record |
| Lab access (`routers/labs.py` join and participants, `routers/tailnet.py`) | `deployment_members`, `token_audit_log` | join, device token, add and remove a participant | a device joins within the lab's time and its user's membership |
| Subnet allocation (`backend/services/subnet_service.py`) | `subnet_tracker`, `subnet_allocations` | `get_or_allocate_subnet` | users' networks are disjoint and permanent |
| Billing (`backend/services/razorpay_billing.py`, `routers/billing.py`) | `payments`, `purchases`, `entitlements`, `billing_webhook_events`, `workshops.payment_id` | create order, webhook, verify-capture, fulfilment | granted if and only if captured, an order, real or mock, settled once; nothing swallowed |
| Deployment routes (`routers/labs.py`, `routers/course.py`) | `lab_deployments`, `deployment_members`, rosters | deploy, deploy for a user, course deploy, cohort run | guardrails hold under concurrent requests |
| Workshops, seats, invitations (`routers/workshops.py`, `services/workshop_*.py`, `routers/course_invites.py`, migration 0011) | `workshops`, `entitlements`, `workshop_invites` | grant, invite, redeem, resend, revoke, edit | the cap; one invitation gives one seat, once |
| Operator roles (`services/course_admin_role.py`, `routers/admin.py`, `routers/workshops.py`, `routers/auth.py`) | `users.role`, `users.is_active`, `course_admin_assignments`, `workshop_course_admins` | assign, remove, promote, demote, set a role, disable, enable | somebody stays in office; roles and duties agree |
| Authentication (`routers/auth.py`, `services/auth_service.py`, `utils/security.py`, `utils/blocklist.py`, `utils/audit.py`) | `users`, Redis, `token_audit_log` | log in, use, validate, log out | what is logged out stays out; every event is on record |
| Content Studio (`routers/admin.py`) | `website_pages`, `website_page_sections`, `content_page_revisions` | edit, publish, archive, roll back | a rollback restores; what is online is on record |
| Operations feed (`services/ops_feed.py`, `routers/admin.py`) | `operations_feed` | emit, read, acknowledge, assign, repair | no event is lost without a fault; what is read stays read |
| Other administration (`routers/admin.py`) | `content_items`, guardrails, resources, prices | delete a course, set guardrails, edit rows | nothing in use is deleted |
| AWS labs (`routers/aws_labs.py`), catalogue, e-mail, metrics | `aws_lab_verifications`, which decides nothing | send and verify a code, read, send | no protocol |

### 1.2 How they interact

- Requests and workers share PostgreSQL. Every request, and every transition of
  a worker, is a transaction at READ COMMITTED. What keeps them apart is
  explicit: `FOR UPDATE SKIP LOCKED` in the claims, `FOR UPDATE` on the subnet
  tracker, an advisory lock in the course route, unique indexes,
  `UPDATE ... WHERE status = 'pending'`. Everything else may interleave, held
  back only by the row locks of an UPDATE or a DELETE until its commit.
- Deployment routes insert `queued` rows; the provisioning worker polls for
  them; the cleanup worker polls for `running` rows past `expires_at`. Both
  loops run as systemd services (`workers/run_*.py`) and, when
  `RUN_WORKERS_IN_APP` is set, again inside the API (`main.py`, `lifespan`).
- The workers run scripts which share a directory, and hence Terraform's
  selected workspace, on the disk of one machine.
- The gateway calls the webhook, at least once and in any order; the client
  calls verify-capture; both go through one fulfilment.
- The trigger of migration 0011 rewrites `workshops.used_seats` on every change
  of an entitlement.
- Headscale and Redis are systems of their own: what was done there is not
  undone by a rollback in PostgreSQL.
- A request is let in once (`get_current_user`, `SysAdminOnly`); its statements
  come later and do not look at the actor again.
- Nearly every route and worker emits to the operations feed, some in the
  transaction of what they tell, some in a second one.

### 1.3 What is hard

Interleavings of statements of two transactions; late UPDATEs that name a row
by id; a crash between a claim and its result, between two systems or between
two commits; a session aborted by a failed statement; expiry while something is
under way; duplicated and reordered webhooks; counts that are checked without a
lock; a snapshot older than the lock it waited for; a role that is gone since
the request was let in; whole seconds against fractions; a directory shared by
scripts. `PROJECT.json` lists these hazards one by one, each with its line and
the properties about it.

Further ones it does not list, since no property can say more than that they
are there: a row in `cleanup_failed` is not retried (section 3.3); lab-2 has one
Terraform state for all its deployments; `delete_router_ssm_key` has no caller;
pending invitations reserve seats against invitations but not against grants;
the roster of a course deploy is read twice.

## 2. Modules

```
DeploymentLifecycle  <---refines---  LabWorkers  <---extends---  LabTeardown
SubnetPlan           <---refines---  SubnetAllocator
PaymentLedger        <---refines---  RazorpayBilling
SeatRegister         <---refines---  WorkshopSeats
DeployRequests   OperatorRoles   AuthSessions   ContentStudio   OpsFeed   LabAccess
MC*                  each extends its module: definitions and symmetry for TLC
*Proofs              each extends its module: the theorems
```

Three proof modules have a second part. `LabWorkersProofs` extends LabTeardown,
which extends LabWorkers, and proves about both. `OperatorRolesProofs` also has
the access tokens (AuthSessions) and `OpsFeedProofs` the Content Studio, each by
`INSTANCE ... WITH` fresh variables: the two specifications of such a pair are
proved about separately, and their theorems name the assumption of the instance
(`ASSUME S!SessionsAssumption PROVE S!Spec => ...`), which the run of the
instantiated module evaluates.

In every module a request or a worker is a member of a set and stands at
`pc[r]`; its local variables are functions of it. Variables marked *history*
record what happened for the properties; no guard reads them. An operator
`X_Bug` beside `X` is a plausible mistake in the code, used to see that a
property depends on `X`; no specification refers to it.

### 2.1 DeploymentLifecycle

The abstract specification: the status of every deployment as readers of the
table see it, one action per edge of the status machine (`queued`,
`provisioning`, `running`, `failed`, `terminating`, `expired`,
`cleanup_failed`). Teardown starts only from `running` and only when due.

### 2.2 LabWorkers

The table and any number of provisioning and cleanup loops. `status`,
`created`, `expiresAt` are the columns; `pc[w]` is where the loop stands and
`job[w]` the row it holds. A claim is two steps, the statement
(`ClaimQueued`, `ClaimExpired`) and its commit, since others run into its row
lock in between (`Locked`, `FirstUnlocked`: ORDER BY ... SKIP LOCKED LIMIT 1).
Every later transaction is one step. `InScript(w)` is a loop that waits for its
script, which nothing bounds: `proc.wait()` (`lab_worker.py:119`,
`lab_cleanup_worker.py`) has no timeout. All ways out of the loops are there: the
script fails, minting refuses (also because the row is already past its
expiry), `mark_running` raises after a successful apply, the handler raises
too, `SessionAborted` (the cleanup handler has no rollback, so after a failed
statement its own UPDATE fails), and `Crash` anywhere. `faults` counts the
crashes and database errors. The UPDATEs of `mark_*` look at no status, and
neither do the actions: that they never hit a row another worker has is a
result (`JobMatchesRow`, `FinalIsFinal`), not an assumption.

### 2.3 LabTeardown

Extends LabWorkers with what the scripts do, command by command: `workspace`
is the one selected in lab-1, `owner` says whose machines each Terraform state
describes, `outputs` whose addresses the worker was given, `ssm` and `nodes`
are the router keys and the nodes. `crossed` is a history variable: the
deployments whose script had another lab-1 script in progress. `unlisted` is
another: the rows whose destroy script took a failing `terraform workspace list`
for a missing workspace (`AssumeDestroyed`; `destroy-lab.sh:30` negates a pipeline
under `pipefail`) and ended well without destroying anything. The semaphores
in the workers belong to one process with one loop each and exclude nothing,
so they are not in the model. lab-2 has one state for all its deployments and
no destroy script. When a worker process dies its script dies with it
(`KillMode` of the units is the default, the control group).

### 2.4 SubnetAllocator

`get_or_allocate_subnet` statement by statement: look-up, the tracker's row
lock, UPDATE and INSERT and commit, the IntegrityError of a caller who lost,
the rollback and the second look-up, the branch the code calls unreachable.
UPDATE, INSERT and commit are one step: they happen under the tracker's lock
and are undone together.

SubnetPlan is the same call as one step: a user without a network gets the first
free octet, a user with one is answered it, and a call is refused only when no
octet is free. `RefinesPlan` maps the plan to `subnet_allocations` and the
callers to their requests and answers; the tracker, the lock, the failed INSERT
and the second look have no counterpart. A caller may be refused although
another caller got the last octet for the same user while it waited: it looked
before, and `get_or_allocate_subnet` does not look again before it raises.

### 2.5 RazorpayBilling

Outside: the gateway's orders, failed attempts before a payment, price changes,
edits of `workshops.payment_id` by the routes that create or patch a workshop
(`Relink`, which sets or clears it), the deletion of the course (`DeleteCourse`,
which does not look at pending payments). An order is `captured` when its
payment fits its row, `odd` when it does not (another user, item, kind or
currency), `mock` when the key secret is the default and verify-capture makes up
the payment itself. Inside: `payment`, `purchase`, `entitled`, `linked`, `seen`
(the dedupe rows), `rejected` (the operations event of a refused capture). A
request is a webhook delivery or a verify-capture; it reads the payment
(`ReadPayment`), checks a package (`Allow`, `Reject`) and captures (`Capture`),
each statement a step. `Ignore` is the early returns of
`_fulfill_payment_captured`, which commit the dedupe row and leave the payment
pending; `CaptureMisses` the UPDATE that finds no pending row; `CaptureRaises`
the INSERT of a purchase whose course is gone; `SwallowedError` the exception
verify-capture swallows after PostgreSQL has aborted the transaction; `Abort` a
request that dies. Signatures are taken as verified. `edited[w]` counts the
edits by hand, for the properties.

PaymentLedger is what these tables promise, with no requests in it: an order is
opened once and settled once, captured or failed, only as the gateway has
reported, and the step that captures it gives the good, with a receipt that
names an order of it. `RefinesLedger` maps the reports to what the gateway says
and the mock orders (`Reports`), the ledger to `payments.status` and the receipt
of a content to the purchase, if the entitlement is there too, and that of a
package to the workshop's link. A mock order counts as reported when it is
opened: nobody but the code vouches for it. A workshop's receipt may also be
amended (`Amend`), since a cohort's page sets `payment_id` to anything. That a
package's receipt may pass to another order is in the ledger because it is in
the code (`PackagePaidOnce`, section 3.2), and how far that goes, for a workshop
nobody has edited, is `PackageOverpaidBounded`.

### 2.6 DeployRequests

The routes that insert into `lab_deployments`, for one owner and one course:
course deploy with its advisory lock, a cohort's run request, a sys admin's
direct deployments, and the deletion of the course with its cascade. One step
for what a request checks, one for its writes and commit. Rosters, seats, the
guardrail and the rows' progress change meanwhile. The course route is the only
one with a lock (`WithinGuardrail`); `InFlightBounded` is what remains true of the
other two.

### 2.7 WorkshopSeats

One workshop: cap, availability, `used_seats`, active entitlements, and
invitations. A request reads the workshop (`Begin`), counts the entitlements
(`CountSeats`, the "double-check"), perhaps counts the pending invitations
(`CountPending`), and writes. A seat is two steps: `InsertSeat` takes the
snapshot in which the trigger's UPDATE will count, `CommitSeat` writes that
count once the row lock is granted. In READ COMMITTED, an UPDATE that waited
for a row re-reads that row, but its sub-SELECT still counts in the statement's
snapshot. (A seat that is given again makes the trigger count twice, the second
time with the lock held; `CommitSeat` has that.) The e-mails, and the rest of
what a request does after its commit, are not modelled.

SeatRegister has the seats and the invitations and no requests: an address has
one open invitation, an invitation is accepted in the step that seats its
addressee or revoked, and seats are given while fewer than `Limit` are taken.
`RefinesRegister` sets `Limit` to the cap's bound plus the requests less one, the
overshoot of the code, and maps the rest to the tables as committed.

### 2.8 OperatorRoles

The role and the activity of every user and the two tables of duties. `Begin` is
the request being let in, for an actor who is an active sys admin then; what
follows is one step per statement whose outcome another request can change:
`ReadForCourse`, `ReadForWorkshop` (the SELECT of the user), `Delete`,
`ReadRole`, `CountDuties` (the two SELECTs of `course_admin_role.py`), and the
last write with its commit. `Remaining` counts cohorts only, as the code does.
`BeingRemoved` is the lock of a deleted row, which a second DELETE or an INSERT
of the same duty waits for. Setting a role and disabling compare the actor's id
with the path as a string, so an id in upper case or without dashes is not
noticed to be the actor's own: that is the parameter `same` of `BeginSetRole`
and `BeginDisable`. `ousted`, `stale`, `evading` and `crossed` are history: a
request whose actor lost office since it was let in, one whose reading of its
target was overtaken, one that takes its own actor's office by such a spelling,
and whether one of the first or third kind was committed. `Commit` keeps them.

### 2.9 AuthSessions

Three stores without a common transaction: PostgreSQL (`active`, `audit`),
Redis (`until`), the client (`held`). A tick is a fraction of a second, since
`exp` and the lifetime of a Redis entry are whole seconds (`WholeSeconds`) and
the time is not. Redis may be down and may come back empty. `Revoked` is
`is_token_revoked`, which fails open; `SetExRaises` is the logout that ends in
500; `Log` is `log_token_event`, which swallows its error, so that the commit
that follows rolls back. A validate is `/api/validate-token`.

### 2.10 ContentStudio

One page, its sections (by position) and its revisions. A publish is the
snapshot (`CreatePageRevision`), then the UPDATE and the commit; a rollback reads the
revision, updates the page, deletes the sections, inserts those of the snapshot
and commits. `PageFree`, `deleted` and the guards on positions are PostgreSQL's
row locks and `UNIQUE (page_id, position)`. `Restorable` says which snapshots
the driver accepts: the dates of a snapshot are strings after `json.dumps`, and
asyncpg takes no string for a timestamp.

### 2.11 OpsFeed

For each event key the number of actions committed (`done`) and the row that
tells them. `Late` keys are emitted after the commit of what they tell
(`Act`, then `EmitLate`), the others with it (`ActAndEmit`); `Recurring` keys
carry no fresh id and come again. The inbox: `MarkOneRead`, `MarkAllRead`,
`PatchWorkflow`. The repair is two UPDATEs in one transaction; `fixing` is what
the first one has locked. Rows older than migration 0015 may have any read
state to begin with.

### 2.12 LabAccess

One deployment. `join_deployment` and `create_device_join_token` check, make
the user known to Headscale, mint, store the hash, write the audit row and
answer, each its own step because each is its own commit or its own system.
Members come and go, the cleanup worker claims the lab, devices register with
the keys that were answered; Headscale looks at the key alone (`Register`).
`memberAt` is history: when a user was last a member.

## 3. Runs

Bounds are constants of the modules or sizes of sets; each is named here.

| Run | Bounds | States | Shows |
|---|---|---|---|
| `LabWorkers` | 2 rows, 2+2 workers, clock to 3 (`Horizon`), 2 faults (`MaxFaults`) | 121 k | claims exclude; refinement; stuck rows; requests settle |
| `LabTeardown` | 3 labs (2 windows, which may change places, 1 aws), 1+1 workers, `Horizon` 2, 1 fault | 3.2 M | resources, addresses, VPN |
| `SubnetAllocator` | 3 users, 3 callers, 2 octets | 37 k | disjoint, none wasted; refinement of SubnetPlan; calls end |
| `RazorpayBilling` | a retail and a package order, 2 requests, prices up to 1 (`MaxQuote`: 0 is "not for sale"), 1 edit of `payment_id` (`MaxEdits`), 1 fault; of the ways an order can go (`Outcomes`) the retail one may fail, be captured or be a mock, the package one may be captured or odd | 274 k | tables agree; refinement; nothing swallowed; captures settle |
| `DeployRequests` | 3 rows, 2 requests, 1 learner, guardrail up to 2 (`MaxLimit`) | 603 k | the advisory lock, what the routes without it allow, the foreign keys |
| `WorkshopSeats` | 4 learners, 1 invitation sent at most twice (`MaxResends` 1), 2 requests, cap up to 2 (`MaxCap`) | 186 k | overshoot, `used_seats`, invitations; refinement of SeatRegister |
| `OperatorRoles` | 2 users, 1 course, 2 cohorts, 2 requests | 1.6 M | offices, roles and duties under concurrent administration |
| `AuthSessions` | 1 user, 2 tokens, 2 requests, seconds of 2 ticks, lifetime 3, clock to 4 (`MaxTime`), 2 faults | 3.9 M | logged out stays out; audit rows |
| `ContentStudio` | 2 sections, 2 positions, 2 texts, 2 revisions, 2 requests, 3 edits (`MaxEdits`) | 507 k | publish and rollback against edits |
| `OpsFeed` | 3 keys (late, late and recurring, in one and recurring), 2 requests, 2 actions a key (`MaxActions`), 1 fault | 1.2 M | lost events, read state, repair |
| `LabAccess` | 1 user, 2 keys, 2 requests, keys live 2 ticks (`KeyTTL`), lab ends at 3 (`Expiry`), clock to 3 (`MaxTime`), 1 fault | 2.5 M | keys on record, joins in time |
| `RazorpayBilling_failed` | two retail orders, every outcome | | `FulfilledIsCaptured` fails |

The properties of a run are those TLC is needed for, or that a change of the
code would break first. Invariants which are also proved for all sizes and say
little that the others do not are left to the proofs: the type invariants,
`NoEarlyTeardown`, `FinalIsFinal`, `JobMatchesRow`, `RefetchFinds`,
`ReturnsAllocation`, `AllocationsKept`, `GrantedMeansPaid`, `SettledIsFinal`,
`CohortRunHasLearners`, `InvitesSettleOnce`. Add any of them to its cfg to have
TLC check it too. `PackageOverpaidBounded` is left out since the run has one
package order: to see it, take two and a single request (`Requests = {r1}`,
`Package <- OnePackage`, `Outcomes <- AllOutcomes`, `SPECIFICATION Spec`).

Why the bounds are enough to meet the interesting cases:

- Two workers of each kind and two rows let claims compete, one worker's late
  UPDATE meet another's row, and a crash of one meet the work of the other.
  Horizon 3 puts a request before, at and after another's expiry, also a row
  that is past it while still queued. Two faults are a crash and an error of
  its handler. What does not depend on sizes is proved for all of them.
- Two lab-1 deployments are what it takes to cross scripts; the aws one shows
  that lab-2 does not disturb them. One worker of each kind suffices, for the
  crossing is of the two kinds; two of one kind would cross in the same way.
- Three users for two octets exhaust the pool, three callers allow two for one
  user beside a third.
- A package order takes all of the retail paths and the checks besides; two
  orders and two requests interleave duplicates of one event with each other
  and with verify-capture. Two retail orders of one content are not in the
  passing run; the proofs cover them, and so they do every combination of
  outcomes: the run splits those between its two orders only because a retail and
  a package payment take the same way through what the outcome decides.
  One edit of `payment_id` sets it before, between or after two captures, or
  clears it.
- Three rows are a run that ended, one that is running and one that is being
  queued, with a guardrail of one or two. Two requests give every pair of
  routes, and three rows are one more run than `InFlightBounded` allows.
- With two requests a cap of two is overshot by at most one, which four
  learners could exceed if rounds of grants accumulated: they do not.
- Two users are two sys admins who act on each other, or one on a participant;
  with two cohorts a duty remains or does not; two requests are every pair of
  routes, and each may begin any number of times.
- A lifetime of a second and a half ends between two seconds, so that `exp` and
  the Redis entry are both rounded; two tokens let one be logged out while the
  other is in use; two faults are a lost audit row and a death.
- Two revisions are one to publish and one to roll back to while another is
  made; two sections and positions let a section be moved to where one was
  deleted, or created where one is inserted.
- One key of each kind the routes use; two actions are enough for the second to
  land on a row that was read or repaired; two requests are two repairs, or a
  repair beside a late emit. Any of the keys may have a row from before the CHECK.
- With one user two requests are the user's two first ones. The lab ends after
  one whole lifetime of a key, so that a key can be cut short by the expiry or
  not, and the clock goes on until then: a key that ought to have been cut short
  would still be good.

The runs have `CHECK_DEADLOCK FALSE` because bounded systems come to rest: the
clock stops, all rows are used, nobody makes a request.

### 3.1 Fairness

Safety runs use `Spec`. Three runs have liveness properties under `FairSpec`:

- LabWorkers: weak fairness of the clock, of each provisioning loop and of each
  cleanup loop, except while it waits for its script. The loops sleep a few
  seconds between polls and systemd restarts a dead process; but
  `lab_worker.py:119` and `lab_cleanup_worker.py:104` wait for a script with no
  timeout, and of the scripts' commands only the apply and the destroy of lab-1
  have one (`deploy-lab.sh:44`, `destroy-lab.sh:38`), those of lab-2 none. So
  scripts need not end, and `RequestsSettle` excuses a row whose own script
  never does, and every row once all loops of one kind are in scripts that never
  do (`AllInScripts`). Requests and faults are not fair; faults are finitely
  many (`MaxFaults`).
- SubnetAllocator: weak fairness of each caller and strong fairness of getting
  the tracker's lock, which PostgreSQL queues.
- RazorpayBilling: requests that have begun end, and the gateway goes on
  delivering `payment.captured` until it is answered. Nobody need call
  verify-capture, and no customer need pay. `CaptureSettles` is about payments
  that fit their row (an odd one is dropped by `Ignore`, a mock one is never
  delivered), and excuses a retail order of a course that was deleted while it was
  pending: its capture raises at every redelivery.

The other modules have no liveness property: nothing in them is retried or
polled, and each request may give up at any step, so nothing need happen.

### 3.2 Disagreements

Statements of the repository that its code does not keep. Each is in
`PROJECT.json` under `findings`, with the lines quoted. One has a run of its own
(`RazorpayBilling_failed`); the others are stated at the end of their module,
with a comment that begins "Does not hold". To see TLC's counterexample, put the
name in place of the properties of the cfg given:

| Statement | cfg | What happens |
|---|---|---|
| `FulfilledIsCaptured` | `RazorpayBilling_failed.cfg` | after a failed attempt the payment row is `failed`; the customer pays on the same order, verify-capture says `fulfilled`, nothing is granted |
| `ExpiredIsDestroyed` | `LabTeardown.cfg` | a deploy script selects its workspace between a destroy script's select and destroy: the wrong lab is destroyed and the expired one lives on; or `destroy-lab.sh:30` takes a workspace list that fails for a missing workspace. `DestroyedUnlessCrossed` says that these are the only ways |
| `PackagePaidOnce` | `RazorpayBilling.cfg`, `Package <- OnePackage` | without any edit of `payment_id`, two paid orders of one workshop both pass the check for a different payment before either links. `PackageOverpaidBounded` says how far this can go, and is proved |
| `ActiveRowsAreKept` (a PROPERTY) | `DeployRequests.cfg` | a deployment queued after `delete_course` counted its blockers goes with the course |
| `SeatsWithinCap` | `WorkshopSeats.cfg` | two grants both count a free seat. `OvershootBounded` says how far this can go |
| `UsedIsCount` | `WorkshopSeats.cfg` | overlapping grants leave `used_seats` behind; `UsedNeverOverstates` says in which direction only |
| `OfficeIsNotOnesOwn` (a PROPERTY) | `OperatorRoles.cfg` | a sys admin demotes or disables itself with its id in upper case: the checks compare strings, the UPDATE UUIDs |
| `RemovalKeepsAssigned` (a PROPERTY) | `OperatorRoles.cfg`, `Courses = {c1, c2}`, `Workshops = {w1}` | a course admin of two courses and no cohort loses the role with the first course |
| `DistinctActionsKeptApart` | `OpsFeed.cfg` | operator assignments and resent invitations have no fresh id in their event key and share one row |

### 3.3 Disagreements noticed, without a run

- `README.md:430` has `cleanup_failed` retried by the next poll; the claim
  (`lab_cleanup_worker.py:26-40`) selects `running` rows only. In LabWorkers
  `cleanup_failed` is final. `README.md:427` draws an edge from `failed` back to
  `queued`, "sys_admin manually re-queues"; no code does that, and
  DeploymentLifecycle has no such edge.
- `security.py:72`: the revocation and the audit row "share the same
  transaction"; one is in Redis. `blocklist.py:12`: tokens are revoked "on
  account disable"; `disable_user` revokes none. `README.md:241`: every
  authenticated request looks at the database; `/api/validate-token` does not
  look at `is_active`. All three in AuthSessions.
- `README.md:243`: only the hash of a key is stored; `join_deployment` writes
  the key to the audit log. LabAccess has keys there.
- `archived_at` is never cleared (`admin.py:1176-1190`), so a page that is
  published again after it was archived keeps the date. In ContentStudio, with
  no property.
- `README.md:410` and `lab_worker.py:275` have the cleanup worker delete the
  router key; `delete_router_ssm_key` (`headscale.py:270`) has no caller.
  LabTeardown keeps the key, and shows that it is of no use after expiry.
- `course.py:603-619`: request-run counts runs in flight without a lock, and
  two calls can both queue one; so can two of a sys admin's deployments. In
  DeployRequests, where `InFlightBounded` says how far this can go.
- `course.py:785` and `882-930`: course deploy counts its roster and reads it
  again for the members, so a run may have none. In DeployRequests.
- `workshop_invites.py:81`: "Pending invites reserve capacity", but grants do
  not look at them and expired ones count for ever. In WorkshopSeats.
- `README.md:8` speaks of isolated labs; all lab-2 deployments share one
  Terraform state, and labs of type aws or wazuh have no destroy that works for
  them. In LabTeardown, with no property.

## 4. Proofs

All theorems hold for any values of the constants that satisfy the modules'
named assumptions. The assumptions: sets that are counted are finite, `None`
values are not members (`None` is no snapshot in ContentStudio and no row in
OpsFeed, `Default` and `Nobody` are no deployments in LabTeardown), bounds are
naturals, reserved octets lie below the
first tenant octet (as the constants in `subnet_service.py` do), there is at
least one request. TLC evaluates them in the runs.

| Module | Inductive invariant | Theorems |
|---|---|---|
| `LabWorkersProofs` | `TypeOK`, `ClaimedOnce`, `JobMatchesRow`, `NoEarlyTeardown`; for stuck rows a count besides | type, `ClaimedOnce`, `JobMatchesRow`, `NoEarlyTeardown`, `FinalIsFinal`, `OneStuckRowPerFault`, and `RefinesLifecycle` |
| the same, LabTeardown | `TeardownInv` beside the above: what is left of an uncrossed lab is in its own Terraform state (`OwnedAtHome`), is there from apply to destroy (`BuiltUnlessCrossed`) and not afterwards, unless its destroy did not see the workspace (`GoneUnlessCrossed`) | `TeardownSpec => Spec`, type, `RunningHasWorkspace`, `ExpiredHasLeftVPN`, `DestroyedUnlessCrossed`, `OwnLabUnlessCrossed` |
| `SubnetAllocatorProofs` | the lock excludes and its holder has the next octet (`LockInv`); nothing is beyond the tracker; a call has a user | type, `SubnetsDisjoint`, `RefetchFinds`, `ReturnsAllocation`, `NoOctetWasted`, `AllocationsKept`, and `RefinesPlan` |
| `RazorpayBillingProofs` | an order has a row; what a request has read is only what never changes (`RequestInv`); orders captured or allowed for one workshop, until its link is edited, are no more than the requests (`ClearedInv`) | type, `CapturedMeansGranted`, `GrantedMeansPaid`, `SeenIsProcessed`, `SettledIsFinal`, `PackageOverpaidBounded`, and `RefinesLedger` |
| `DeployRequestsProofs` | one holder of the lock, whose checks still hold (`LockInv`); a checked cohort list is not empty; a route's runs in flight and its requests past the check are no more than the requests (`FlightInv`) | type, `CourseRunsSerialize`, `WithinGuardrail`, `RowsHaveTheirCourse`, `CohortRunHasLearners`, `InFlightBounded` |
| `WorkshopSeatsProofs` | seats plus requests past the second count are below cap plus requests (`FilledInv`); one taker per invitation, which is still pending (`TakerInv`); a snapshot does not overcount (`CountInv`) | type, `OvershootBounded`, `UsedNeverOverstates`, `AcceptedHasSeat`, `InvitesSettleOnce`, and `RefinesRegister` |
| `OperatorRolesProofs` | a request whose actor is in office does not take it from them (`OfficeInv`); what a request that is not stale has read is still so (`FreshInv`) | type, `AdminRemains`, `OfficeLostByHandOrStale`, `OperatorsShutOutByHandOrStale`, `RemovalLeavesNoIdleOperator` |
| the same, AuthSessions | a token whose logout was answered has its entry, unless Redis lost it or less than a second of its life is left (`BlocklistInv`); events nobody will record any more are as many as faults (`OwedInv`) | type, `LoggedOutStaysOut`, `OneMissingRowPerFault` |
| `OpsFeedProofs` | rows an open repair has locked are its own and incomplete (`FixingInv`), the others complete (`OpenInv`); only late keys lack events, and at least those on their way (`CountInv`) | type, `RepairedStaysConsistent`, `ReadStaysRead`, `OneMissingEventPerFault` |
| the same, ContentStudio | one rollback at a time (`OneRollback`); what a request holds is what the tables say until another one commits (`NothingMissed`); a section that survives is none it brings back (`KeptApart`) | type, `RollbackRestores`, `RollbackLeavesDraft`, `PublishedIsRecorded` |
| `LabAccessProofs` | the expiry a request has computed is within the lab's and the membership's time (`RequestInv`), so is every key's (`KeyInv`); keys without a request are as many as faults (`LostInv`) | type, `IdentitiesExist`, `JoinsInTime`, `OneUnrecordedKeyPerFault` |

Why the strengthenings are needed, for the main ones:

- *ClaimedOnce* alone is not inductive. An open claim keeps others off because
  its row still has the status it looked for and is locked; a committed one
  because the row no longer has that status. Both are `JobMatchesRow`, which
  survives the other workers' steps only because their jobs are other rows.
- *RefinesLifecycle*: every committed UPDATE is an edge of DeploymentLifecycle
  because of `JobMatchesRow`; all other steps stutter.
- *RefinesLedger*: a request acts on what it has read some statements ago, but
  all it relies on never changes again (`RequestInv`): the gateway has captured
  the order, or an attempt at it has failed. The status itself is read again by
  the UPDATE (`WHERE status = 'pending'`), whose commit is the ledger's step; an
  UPDATE that misses, a rejected or ignored capture and a swallowed error
  stutter, and an edit of `payment_id` is an `Amend`. In the step that captures,
  `CapturedMeansGranted` says that the purchase a user has already names an
  order of the same content.
- *RefinesPlan*: the step that matters is the INSERT. Its caller holds the
  tracker's lock, so the octet it computed still follows the last one given
  (`LockInv`), and by `NoOctetWasted` every one before it is taken: it is the
  first free one. The same two say that a refusal finds none free. The lost
  INSERT of a user who got a network meanwhile stutters, and the second look
  then answers that network (`RefetchFinds`).
- *PackageOverpaidBounded* says nothing of requests that have yet to capture, so
  `ClearedInv` counts their orders too. An order is allowed only while the
  workshop is linked to no other one, and nobody has edited its link. Once one
  is captured the workshop is linked (to it or a later one), so what is allowed
  next is a captured order already counted. While none is captured, every order
  counted has a request of its own.
- *OvershootBounded*: when the last request passed the second count there was a
  free seat, and at most all requests are past it, so each seat given uses up
  one of them. This does not mention `used_seats`, which may be stale.
- *InFlightBounded*: likewise. A check passes when the route has no run in
  flight; then the requests past it are all there is to count, and each run they
  queue takes one of them away. Progress of a row only takes runs out.
- *RefinesRegister* puts the invariants of the module together: `FilledInv` says
  that a new seat is within `Limit`, `TakerInv` that the invitation accepted with
  it is pending until that commit, `AboutInv` whom it is for. Counts, locks,
  resends and edits of the workshop stutter.
- *InvitesSettleOnce*: the invitation's row lock (`Locked`) makes a redeem that
  has accepted it alone with it until it commits.
- *AdminRemains*: the actor of a request that was not ousted is a sys admin
  still, and the request writes to its actor only `sys_admin`. For the
  demotions of `course_admin_role.py` that is so because a request which found
  its own actor to be a course admin has been ousted by then. The exceptions are
  the requests that are `evading`: they are in `crossed` once they commit, so the
  theorem says that nobody else, and no staleness, takes the last admin away.
- *ReadStaysRead*: a repair resets the rows it has locked; that none of them
  was read meanwhile is `FixingInv`, which needs that two open repairs do not
  share a row, which is what the first UPDATE waits for.
- *JoinsInTime*: the expiry was right when it was computed, and stays right
  however late the key is minted, given and used, because the lab's expiry does
  not move and `memberAt` only grows. The membership is looked up before the
  clock is read (`CheckMember`, `ComputeExpiry`: two awaits apart), so a removal
  in between is not seen; `lag` is the longest this took so far, and is part of
  the bound.
- *OneUnrecordedKeyPerFault*: unrecorded keys are those on their way, of which
  there is at most one for each request that has one, and the lost ones, to
  which only a fault adds: a request that dies, or an audit row that is lost and
  takes the key's row with it (`GiveUnlogged`).

- *LabTeardown implements LabWorkers* (`TeardownImplementsWorkers`): every step
  is a step of the workers, or leaves the table and the loops alone. So what is
  proved of LabWorkers holds there, and one worker per row above all: a lab has
  one script at a time, and a script that selected a workspace of lab-1 can only
  meet those of other rows.
- *DestroyedUnlessCrossed*: what one script finds depends on what the others do
  between its commands, so the invariant follows a lab command by command. While
  an uncrossed lab's script is in lab-1 it is alone there and the selected
  workspace is its own (`CrossingsNoted`); so its apply and its destroy work on
  its own state; and a foreign script that has met another one works in the
  workspace of a crossed row or the default one. That a script of another row
  does not destroy an uncrossed one in between, when neither runs, is
  `OwnedAtHome`: an uncrossed lab's resources are in no state but its own.
- *ExpiredHasLeftVPN*: the destroy script may fail to stop a router, but its
  node is deleted before the row is marked, and no other can join, since the
  row is past its expiry, which is when its key dies (`OutOfVPN`). This needs
  `NoEarlyTeardown` from LabWorkers.
- *RunningHasWorkspace*: only the destroy script of the lab itself removes its
  workspace, after it, and it is not running then any more.
- *LoggedOutStaysOut*: the lifetime of the entry is computed in whole seconds
  before the entry is set and counts from then on. `BlocklistInv` bounds what is
  lost to a second less a tick: time between the two only makes the entry
  outlive the token.
- *OneMissingRowPerFault* is not inductive: it excuses a token while any logout
  of it is in progress, also one that has yet to reach the revocation and may
  end without it. `Owed` excuses only the logouts that have revoked the token
  and may still write the row; no step adds to it more than it adds to `faults`.
- *OneMissingEventPerFault*: the missing events are a set (`Untold`, pairs of a
  key and a number), so that no sum over the keys is needed. Its first commit
  adds one pair and one request on its way, the emit takes away one of each, and
  a fault turns a request on its way into a lost pair. That the emit always
  finds a pair to take away is `CountInv`: a late key has at least as many
  missing events as there are requests on their way for it.
- *RollbackRestores*: the UPDATE of the page keeps other rollbacks and publishes
  out until the commit, but not the routes of sections. A section created
  meanwhile has a new id, and what the snapshot brings back had its id before
  (`used`): so no survivor is overwritten or doubled (`KeptApart`).
- *RollbackLeavesDraft*: a status is never without its date (`Dated`), a
  snapshot never without either, and a snapshot with a date is not restorable.

Only model-checked: `RequestsSettle`, `CallsReturn`, `CaptureSettles`, which are
liveness under fairness: the prover has no ENABLED. Every invariant and every
action property of the passing runs is also a theorem. Nothing here is declared
RECURSIVE, and no proof is by induction over data.

## 5. Not modelled

- AWS labs (`routers/aws_labs.py`): one verification code per user is sent and
  verified, but the row decides nothing, since the status route grants access
  by the entitlement alone. Metrics and health checks read.
- The catalogue and course pages, reports, listings and connection details read
  only. E-mail goes out after or before a commit and comes back to nothing; the
  invitation's is sent before its commit (`workshop_invites.py:149`), so a
  failed commit leaves a learner with a link to nothing.
- A COMMIT that is applied and whose reply is lost (`lab_worker.py:281-285`): the
  models have it applied and answered, or undone. Here the handler would write
  `failed` over the `running` just committed, an edge the lifecycle does not have.
  A SETEX that is applied and whose reply times out is in AuthSessions as a
  request that died after it.
- Real orders that are verified after the server was started again with the
  default secret: in RazorpayBilling an order is a mock from its creation on.
- Courses, prices, resources and profiles: edits of one row by one statement.
- Migrations and Terraform modules: declarations of schema and machines, except
  for the constraints and triggers the models use (0011, 0015, the unique
  indexes, the cascades).
- Google's verification of a login, the signatures of tokens and webhooks and
  the hashing of passwords are library calls, taken as right.
- The content of rows: addresses, outputs, names, texts; only whose they are or
  whether they are the same.

## 6. Plan

Done, in this order: LabWorkers with its abstract DeploymentLifecycle,
LabTeardown, SubnetAllocator, RazorpayBilling, DeployRequests, WorkshopSeats,
OperatorRoles, AuthSessions, ContentStudio, OpsFeed, LabAccess, the proofs
of every safety property of theirs that a run checks, and the abstract
PaymentLedger, SubnetPlan and SeatRegister, which RazorpayBilling,
SubnetAllocator and WorkshopSeats are proved to implement; last the bounds on
what unlocked checks let through (`PackageOverpaidBounded`, `InFlightBounded`).

Next: LabAccess together with LabWorkers, the whole life of a deployment from
the queue to the last device, so that the members' keys and the router's key
meet one expiry.

## 7. Running

```
tlc -workers 2 -config LabWorkers.cfg MCLabWorkers
tlapm LabWorkersProofs.tla
```

`LabTeardown`, `LabAccess`, `OperatorRoles`, `AuthSessions` and `RazorpayBilling`
take a few minutes, the other runs about one or less.
