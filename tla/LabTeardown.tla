----------------------------- MODULE LabTeardown -----------------------------
(***************************************************************************)
(* What the workers of LabWorkers do to the world: the Terraform states in *)
(* the lab directories, the router keys in the SSM parameter store and the *)
(* nodes registered with Headscale.                                        *)
(*                                                                         *)
(* lab-1 keeps one Terraform workspace per deployment, and which workspace *)
(* is selected is a file of the directory: it is shared by every script    *)
(* that runs there.  lab-2 has no workspaces: all its deployments use one  *)
(* state.  The semaphore around each script is an object of one process,   *)
(* used by that process's only loop, so it never makes a script wait for   *)
(* another; scripts of the two kinds of worker interleave command by       *)
(* command.  (Terraform's own lock, one per state, makes apply and destroy *)
(* of one state exclude each other: each is one step here.)                *)
(***************************************************************************)
EXTENDS LabWorkers

CONSTANTS
  LabType,        \* content_items.metadata.lab_type of each row
  Default,        \* the workspace "default"
  Nobody          \* owner of an empty Terraform state

ASSUME LabTypeAssumption ==
  /\ LabType \in [Deployments -> {"windows", "wazuh", "generic", "aws"}]
  /\ Default \notin Deployments /\ Nobody \notin Deployments

VARIABLES
  workspace,      \* the workspace selected in lab-1
  workspaces,     \* the deployments whose workspace exists in lab-1
  owner,          \* whose resources each Terraform state holds
  outputs,        \* whose outputs the worker got for each lab-1 row
  script,         \* how far each worker's running script has come
  ssm,            \* rows with a router key in the parameter store
  nodes,          \* rows whose subnet router is a Headscale node
  crossed,        \* history: rows whose script met another one in lab-1
  unlisted        \* history: rows whose destroy script did not see a workspace

history == <<crossed, unlisted>>
infra == <<workspace, workspaces, owner, outputs, script, ssm, nodes, history>>
allVars == <<vars, infra>>

\* LAB_MAPPING, with lab-1 for the types it does not list.
Dir(d) == IF LabType[d] = "aws" THEN "lab-2" ELSE "lab-1"

\* One state per workspace of lab-1, and the single one of lab-2.
States == {<<"lab-1", s>> : s \in Deployments \cup {Default}}
            \cup {<<"lab-2", Default>>}

\* The state a command of d's script works on.
Selected(d) == IF Dir(d) = "lab-1" THEN <<"lab-1", workspace>>
                                   ELSE <<"lab-2", Default>>

Live(d) == \E s \in States : owner[s] = d

TeardownInit ==
  /\ Init
  /\ workspace = Default
  /\ workspaces = {}
  /\ owner = [s \in States |-> Nobody]
  /\ outputs = [d \in Deployments |-> Nobody]
  /\ script = [w \in Workers |-> "start"]
  /\ ssm = {}
  /\ nodes = {}
  /\ crossed = {}
  /\ unlisted = {}

ScriptEnds(w) == script' = [script EXCEPT ![w] = "start"]

\* The other scripts that have selected a workspace in lab-1.
Others(w) ==
  {v \in Workers \ {w} : script[v] # "start" /\ Dir(job[v]) = "lab-1"}

\* w's script selects d's workspace, under the feet of the others.
Select(w, d) ==
  /\ workspace' = d
  /\ script' = [script EXCEPT ![w] = "selected"]
  /\ crossed' = IF Others(w) = {} THEN crossed
                ELSE crossed \cup {d} \cup {job[v] : v \in Others(w)}

-----------------------------------------------------------------------------
(* deploy-lab.sh and the rest of the provisioning job.                     *)

\* mint_preauth_key stores the router key before it returns.
StoreKey(w) ==
  /\ MintKey(w)
  /\ ssm' = ssm \cup {job[w]}
  /\ UNCHANGED <<workspace, workspaces, owner, outputs, script, nodes, history>>

\* lab-1's script refuses the type "generic" that a cohort run gets when its
\* content names none.
CanDeploy(d) == LabType[d] # "generic"

\* Mutant: the script neither creates the workspace nor selects it.
SelectForApply_Bug(w) ==
  /\ pc[w] = "applying" /\ script[w] = "start"
  /\ Dir(job[w]) = "lab-1" /\ CanDeploy(job[w])
  /\ script' = [script EXCEPT ![w] = "selected"]
  /\ UNCHANGED <<vars, workspace, workspaces, owner, outputs, ssm, nodes, history>>

\* terraform workspace new || select: creates it if need be, and selects it.
SelectForApply(w) ==
  /\ pc[w] = "applying" /\ script[w] = "start"
  /\ Dir(job[w]) = "lab-1" /\ CanDeploy(job[w])
  /\ Select(w, job[w])
  /\ workspaces' = workspaces \cup {job[w]}
  /\ UNCHANGED <<vars, owner, outputs, ssm, nodes, unlisted>>

\* The apply may start: lab-2's script has no workspace to select.
ReadyToApply(w) ==
  \/ script[w] = "selected"
  \/ script[w] = "start" /\ Dir(job[w]) = "lab-2"

\* Mutant: the script goes on although terraform apply failed.
TerraformApply_Bug(w) ==
  /\ pc[w] = "applying" /\ ReadyToApply(w)
  /\ script' = [script EXCEPT ![w] = "applied"]
  /\ UNCHANGED <<vars, workspace, workspaces, owner, outputs, ssm, nodes, history>>

\* terraform apply makes the selected state describe this deployment,
\* whatever it described before.
TerraformApply(w) ==
  /\ pc[w] = "applying" /\ ReadyToApply(w)
  /\ owner' = [owner EXCEPT ![Selected(job[w])] = job[w]]
  /\ script' = [script EXCEPT ![w] = "applied"]
  /\ UNCHANGED <<vars, workspace, workspaces, outputs, ssm, nodes, history>>

\* terraform output prints what the state selected by now describes, for
\* mark_running to store.  (lab-2's script prints other text around it: the
\* worker cannot parse that, and the row has no instances.)
TerraformOutput(w) ==
  /\ ApplySucceeds(w)
  /\ script[w] = "applied"
  /\ outputs' = IF Dir(job[w]) = "lab-1"
                THEN [outputs EXCEPT ![job[w]] = owner[Selected(job[w])]]
                ELSE outputs
  /\ ScriptEnds(w)
  /\ UNCHANGED <<workspace, workspaces, owner, ssm, nodes, history>>

\* The script fails, perhaps after creating resources, which stay.
DeployScriptFails(w) ==
  /\ ApplyRaises(w)
  /\ \/ UNCHANGED owner
     \/ ReadyToApply(w) /\ owner' = [owner EXCEPT ![Selected(job[w])] = job[w]]
  /\ ScriptEnds(w)
  /\ UNCHANGED <<workspace, workspaces, outputs, ssm, nodes, history>>

\* Mutant: the router key outlives the lab.
RouterJoins_Bug(d) ==
  /\ Dir(d) = "lab-1" /\ Live(d)
  /\ d \in ssm /\ d \notin nodes
  /\ nodes' = nodes \cup {d}
  /\ UNCHANGED <<vars, workspace, workspaces, owner, outputs, script, ssm, history>>

\* A subnet router of the lab boots, fetches its key and joins.  The key
\* dies with the lab's expires_at.
RouterJoins(d) ==
  /\ Dir(d) = "lab-1" /\ Live(d)
  /\ d \in ssm /\ ~Due(d) /\ d \notin nodes
  /\ nodes' = nodes \cup {d}
  /\ UNCHANGED <<vars, workspace, workspaces, owner, outputs, script, ssm, history>>

-----------------------------------------------------------------------------
(* destroy-lab.sh and the rest of the cleanup job.                         *)

\* The script knows the type windows only, and lab-2 has none at all.
CanDestroy(d) == LabType[d] = "windows"

\* ! terraform workspace list | grep -q: a list that fails, or that is cut off
\* when grep has seen enough, reads as "not found" under pipefail, whether the
\* workspace exists or not.  The script assumes "already destroyed" and exits 0.
AssumeDestroyed(w) ==
  /\ DestroySucceeds(w)
  /\ script[w] = "start" /\ CanDestroy(job[w])
  /\ unlisted' = unlisted \cup {job[w]}
  /\ UNCHANGED <<workspace, workspaces, owner, outputs, script, ssm, nodes, crossed>>

\* The list succeeds and names the workspace: terraform workspace select.
SelectForDestroy(w) ==
  /\ pc[w] = "destroying" /\ script[w] = "start"
  /\ CanDestroy(job[w]) /\ job[w] \in workspaces
  /\ Select(w, job[w])
  /\ UNCHANGED <<vars, workspaces, owner, outputs, ssm, nodes, unlisted>>

\* Mutant: the script goes on although terraform destroy failed.
TerraformDestroy_Bug(w) ==
  /\ pc[w] = "destroying" /\ script[w] = "selected"
  /\ script' = [script EXCEPT ![w] = "destroyed"]
  /\ UNCHANGED <<vars, workspace, workspaces, owner, outputs, ssm, nodes, history>>

TerraformDestroy(w) ==
  /\ pc[w] = "destroying" /\ script[w] = "selected"
  /\ owner' = [owner EXCEPT ![Selected(job[w])] = Nobody]
  /\ script' = [script EXCEPT ![w] = "destroyed"]
  /\ UNCHANGED <<vars, workspace, workspaces, outputs, ssm, nodes, history>>

\* workspace select default; workspace delete || true, which Terraform
\* refuses while the workspace's state still has resources.
DeleteWorkspace(w) ==
  /\ DestroySucceeds(w)
  /\ script[w] = "destroyed"
  /\ workspace' = Default
  /\ workspaces' = IF owner[<<"lab-1", job[w]>>] = Nobody
                   THEN workspaces \ {job[w]} ELSE workspaces
  /\ ScriptEnds(w)
  /\ UNCHANGED <<owner, outputs, ssm, nodes, history>>

\* The script fails: unsupported, no such script, or a Terraform error or
\* timeout that may have left nothing, something or everything.
DestroyScriptFails(w) ==
  /\ DestroyRaises(w)
  /\ \/ UNCHANGED owner
     \/ /\ script[w] = "selected"
        /\ owner' = [owner EXCEPT ![Selected(job[w])] = Nobody]
  /\ ScriptEnds(w)
  /\ UNCHANGED <<workspace, workspaces, outputs, ssm, nodes, history>>

\* delete_nodes_for_deployment removes the nodes named after the row.
UnjoinRouter(w) ==
  /\ DeleteNodes(w)
  /\ nodes' = nodes \ {job[w]}
  /\ UNCHANGED <<workspace, workspaces, owner, outputs, script, ssm, history>>

-----------------------------------------------------------------------------
ProvJob(w) ==
  \/ StoreKey(w) \/ SelectForApply(w) \/ TerraformApply(w)
  \/ TerraformOutput(w) \/ DeployScriptFails(w)
  \/ /\ \/ ClaimQueued(w) \/ CommitProvisioning(w) \/ PrepareRaises(w)
        \/ MarkRunning(w) \/ MarkFailed(w)
     /\ UNCHANGED infra

CleanJob(w) ==
  \/ AssumeDestroyed(w)
  \/ SelectForDestroy(w) \/ TerraformDestroy(w) \/ DeleteWorkspace(w)
  \/ DestroyScriptFails(w) \/ UnjoinRouter(w)
  \/ /\ \/ ClaimExpired(w) \/ CommitTerminating(w) \/ DeleteNodesRaises(w)
        \/ MarkExpired(w) \/ MarkCleanupFailed(w)
     /\ UNCHANGED infra

\* The environment of the two loops, and what may go wrong in them.
Outside ==
  /\ \/ Tick
     \/ \E d \in Deployments, t \in 1..Horizon : Queue(d, t)
     \/ \E w \in ProvWorkers : ProvFault(w)
     \/ \E w \in CleanWorkers : CleanFault(w)
  /\ UNCHANGED infra

\* The worker and its script die together, between two commands.
CrashInScript(w) ==
  /\ Crash(w)
  /\ ScriptEnds(w)
  /\ UNCHANGED <<workspace, workspaces, owner, outputs, ssm, nodes, history>>

TeardownNext ==
  \/ Outside
  \/ \E w \in ProvWorkers : ProvJob(w)
  \/ \E w \in CleanWorkers : CleanJob(w)
  \/ \E w \in Workers : CrashInScript(w)
  \/ \E d \in Deployments : RouterJoins(d)

TeardownSpec == TeardownInit /\ [][TeardownNext]_allVars

-----------------------------------------------------------------------------
(* Properties.                                                             *)

\* The infrastructure variables have their types.
TeardownTypeOK ==
  /\ workspace \in Deployments \cup {Default}
  /\ workspaces \subseteq Deployments
  /\ owner \in [States -> Deployments \cup {Nobody}]
  /\ outputs \in [Deployments -> Deployments \cup {Nobody}]
  /\ script \in [Workers -> {"start", "selected", "applied", "destroyed"}]
  /\ ssm \subseteq Deployments
  /\ nodes \subseteq Deployments

\* The workspace of a running lab of type windows exists, so its cleanup never
\* has a reason to assume "already destroyed": the workspace is created before
\* the row is running, and no other deployment's script, no failed one and no
\* crash removes it.
RunningHasWorkspace ==
  \A d \in Deployments :
    status[d] = "running" /\ LabType[d] = "windows" => d \in workspaces

\* An expired lab is out of the VPN for good: its router's node was deleted
\* before the row was marked, and no router can join with its key again, even
\* one that outlived the destroy script.
ExpiredHasLeftVPN ==
  \A d \in Deployments : status[d] = "expired" => d \notin nodes

\* There are two ways to lose a lab's resources, a crossing and a list that did
\* not show the workspace: an expired lab that had neither has nothing left that
\* is its own.  Failed applies, failed destroys, crashes and lab-2 never leave
\* any behind.
DestroyedUnlessCrossed ==
  \A d \in Deployments \ (crossed \cup unlisted) :
    status[d] = "expired" => ~Live(d)

\* ... and the only way to mistake one: a running lab of lab-1 that met none
\* has its resources, and its users are shown the addresses of those.
OwnLabUnlessCrossed ==
  \A d \in Deployments \ crossed :
    status[d] = "running" /\ Dir(d) = "lab-1" => Live(d) /\ outputs[d] = d

\* Does not hold (README.md here, Disagreements): the cleanup flow of the
\* repository's README.md has "All EC2 instances terminated" before the row
\* is marked expired, and the event says "Teardown completed".
ExpiredIsDestroyed ==
  \A d \in Deployments : status[d] = "expired" => ~Live(d)
=============================================================================
