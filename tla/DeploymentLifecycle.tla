------------------------- MODULE DeploymentLifecycle -------------------------
(***************************************************************************)
(* What the deployment table promises its readers (the API, the admin      *)
(* pages, the operations feed): the status of a row in lab_deployments     *)
(* only ever moves along the edges below, one row at a time, and a row is  *)
(* torn down only once its expires_at has passed.                          *)
(*                                                                         *)
(*   absent -> queued -> provisioning -> running -> terminating -> expired *)
(*                            |                          |                 *)
(*                          failed                 cleanup_failed          *)
(*                                                                         *)
(* Nothing here says who moves a row: LabWorkers does, and implements this *)
(* module.                                                                 *)
(***************************************************************************)
CONSTANT Deployments    \* the ids of rows that may ever be inserted

VARIABLES status,       \* the status column; "absent" before the INSERT
          due           \* the rows whose expires_at is not in the future

vars == <<status, due>>

\* The values the CHECK constraint allows, and "absent" for no row yet.
Status == {"absent", "queued", "provisioning", "running", "failed",
           "terminating", "cleanup_failed", "expired"}

Init == /\ status = [d \in Deployments |-> "absent"]
        /\ due = {}

Move(d, from, to) ==
  /\ status[d] = from
  /\ status' = [status EXCEPT ![d] = to]
  /\ UNCHANGED due

\* A request is accepted only with an expiry in the future.
Request(d) == Move(d, "absent", "queued") /\ d \notin due

Start(d)  == Move(d, "queued", "provisioning")
Ready(d)  == Move(d, "provisioning", "running")
Fail(d)   == Move(d, "provisioning", "failed")

\* Teardown is never started early.
Teardown(d)     == Move(d, "running", "terminating") /\ d \in due
Expire(d)       == Move(d, "terminating", "expired")
TeardownFail(d) == Move(d, "terminating", "cleanup_failed")

\* Time passes: inserted rows become due, and never stop being due.
PassTime ==
  /\ due \subseteq due'
  /\ due' \subseteq {d \in Deployments : status[d] # "absent"}
  /\ UNCHANGED status

Next == \/ PassTime
        \/ \E d \in Deployments :
             \/ Request(d) \/ Start(d) \/ Ready(d) \/ Fail(d)
             \/ Teardown(d) \/ Expire(d) \/ TeardownFail(d)

Spec == Init /\ [][Next]_vars
=============================================================================
