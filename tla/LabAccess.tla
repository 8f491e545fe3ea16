------------------------------ MODULE LabAccess ------------------------------
(***************************************************************************)
(* How the participants of one deployment get into its network: a request  *)
(* checks the deployment and the membership, makes the user known to       *)
(* Headscale, mints a key there for a device, stores the key's hash and    *)
(* the audit row, and answers with the key; a device registers with it.    *)
(* Headscale is another system: what was done there stays done when the    *)
(* request dies.  Members come and go, the lab expires, and no key or      *)
(* device is withdrawn for it.  (The router keys of mint_preauth_key, which *)
(* have neither row nor audit, are LabTeardown's.)                         *)
(***************************************************************************)
EXTENDS Naturals, FiniteSets

CONSTANTS
  Users,          \* users that ask for keys
  Keys,           \* preauth keys
  Requests,       \* requests in progress at once
  None,           \* no user, no key
  KeyTTL,         \* JOIN_KEY_TTL_MINUTES, in ticks
  MinLeft,        \* the shortest life Headscale's client asks for, in ticks
  Expiry,         \* the deployment's expires_at
  MaxTime,        \* bound: the last tick
  MaxFaults       \* bound: requests that die, audit rows that fail

ASSUME AccessAssumption ==
  /\ None \notin Users \cup Keys \cup [user : Users, exp : Nat, lab : BOOLEAN]
  /\ IsFiniteSet(Keys) /\ IsFiniteSet(Requests)
  /\ KeyTTL \in Nat /\ MinLeft \in Nat /\ Expiry \in Nat
  /\ MaxTime \in Nat /\ MaxFaults \in Nat

VARIABLES
  now,
  running,        \* whether the deployment's status is running
  members,        \* deployment_members; the owner is one nobody removes
  identity,       \* users with a row in headscale_identities
  known,          \* users of Headscale, by their name
  minted,         \* keys of Headscale: user, expiry, for the lab; or None
  stored,         \* keys with a row in headscale_keys
  audit,          \* keys in a join_key_issued row of token_audit_log
  given,          \* keys that were answered to their user
  joined,         \* keys a device has registered with
  pc, user, lab,  \* each request: how far, for whom, through which route
  until, key,     \* the expiry it has computed, the key it has minted
  memberAt,       \* history: when the user was last a member
  seenAt, lag,    \* history: when each request saw the membership, and the
                  \* longest that one took from there to its clock
  faults          \* history: requests that died after they had minted, audit
                  \* rows that failed

tables == <<running, members, identity, stored, audit>>
headscale == <<known, minted, joined>>
request == <<pc, user, lab, until, key>>
history == <<memberAt, seenAt, lag, faults>>
vars == <<now, tables, headscale, given, request, history>>

Init ==
  /\ now = 0 /\ running = TRUE
  /\ members = {} /\ identity = {} /\ known = {}
  /\ minted = [k \in Keys |-> None]
  /\ stored = {} /\ audit = {} /\ given = {} /\ joined = {}
  /\ pc = [r \in Requests |-> "idle"]
  /\ user = [r \in Requests |-> None]
  /\ lab = [r \in Requests |-> FALSE]
  /\ until = [r \in Requests |-> 0]
  /\ key = [r \in Requests |-> None]
  /\ memberAt = [u \in Users |-> 0] /\ faults = 0
  /\ seenAt = [r \in Requests |-> 0] /\ lag = 0

Lesser(a, b) == IF a < b THEN a ELSE b
Greater(a, b) == IF a < b THEN b ELSE a

-----------------------------------------------------------------------------
(* Time, the cleanup worker, the sys admin.                                *)

Tick ==
  /\ now < MaxTime /\ now' = now + 1
  /\ memberAt' = [u \in Users |-> IF u \in members THEN now + 1 ELSE memberAt[u]]
  /\ UNCHANGED <<tables, headscale, given, request, seenAt, lag, faults>>

\* The cleanup worker claims the deployment; the nodes it deletes later are
\* those whose name holds the deployment's id: its router, no device.
Teardown ==
  /\ running /\ now >= Expiry /\ running' = FALSE
  /\ UNCHANGED <<now, members, identity, stored, audit, headscale, given,
                 request, history>>

AddParticipant(u) ==
  /\ members' = members \cup {u}
  /\ memberAt' = [memberAt EXCEPT ![u] = now]
  /\ UNCHANGED <<now, running, identity, stored, audit, headscale, given,
                 request, seenAt, lag, faults>>

RemoveParticipant(u) ==
  /\ u \in members /\ members' = members \ {u}
  /\ UNCHANGED <<now, running, identity, stored, audit, headscale, given,
                 request, history>>

-----------------------------------------------------------------------------
(* join_deployment and create_device_join_token.                           *)

Goto(r, from, to) == pc[r] = from /\ pc' = [pc EXCEPT ![r] = to]

Answer(r) ==
  /\ pc' = [pc EXCEPT ![r] = "idle"]
  /\ user' = [user EXCEPT ![r] = None]
  /\ lab' = [lab EXCEPT ![r] = FALSE]
  /\ until' = [until EXCEPT ![r] = 0]
  /\ key' = [key EXCEPT ![r] = None]

\* SELECT of the deployment; expires_at does not change while it runs.
ReadDeployment(r, u) ==
  /\ Goto(r, "idle", "deployment")
  /\ running
  /\ user' = [user EXCEPT ![r] = u]
  /\ lab' = [lab EXCEPT ![r] = TRUE]
  /\ UNCHANGED <<now, tables, headscale, given, until, key, history>>

\* The SELECT of the membership.
CheckMember(r) ==
  /\ Goto(r, "deployment", "member")
  /\ user[r] \in members
  /\ seenAt' = [seenAt EXCEPT ![r] = now]
  /\ UNCHANGED <<now, tables, headscale, given, user, lab, until, key, memberAt,
                 lag, faults>>

\* Mutant: the key lives its quarter of an hour, whenever the lab ends.
ComputeExpiry_Bug(r) ==
  /\ Goto(r, "member", "checked")
  /\ now < Expiry
  /\ until' = [until EXCEPT ![r] = now + KeyTTL]
  /\ lag' = Greater(lag, now - seenAt[r])
  /\ seenAt' = [seenAt EXCEPT ![r] = 0]
  /\ UNCHANGED <<now, tables, headscale, given, user, lab, key, memberAt, faults>>

\* The clock, when the SELECT has answered; a key that would be expired is
\* refused.
ComputeExpiry(r) ==
  /\ Goto(r, "member", "checked")
  /\ now < Expiry
  /\ until' = [until EXCEPT ![r] = Lesser(now + KeyTTL, Expiry)]
  /\ lag' = Greater(lag, now - seenAt[r])
  /\ seenAt' = [seenAt EXCEPT ![r] = 0]
  /\ UNCHANGED <<now, tables, headscale, given, user, lab, key, memberAt, faults>>

\* POST /tailnet/join-token, for a user with any active entitlement.
DeviceToken(r, u) ==
  /\ Goto(r, "idle", "checked")
  /\ user' = [user EXCEPT ![r] = u]
  /\ until' = [until EXCEPT ![r] = now + KeyTTL]
  /\ UNCHANGED <<now, tables, headscale, given, lab, key, history>>

-----------------------------------------------------------------------------
(* mint_preauth_key.                                                       *)

GetIdentity(r) ==
  /\ Goto(r, "checked",
          IF user[r] \in identity THEN "identified" ELSE "unknown")
  /\ UNCHANGED <<now, tables, headscale, given, user, lab, until, key, history>>

\* ensure_user, the list of Headscale's users: found, or to be created.
ListUsers(r) ==
  /\ Goto(r, "unknown", IF user[r] \in known THEN "ensured" ELSE "missing")
  /\ UNCHANGED <<now, tables, headscale, given, user, lab, until, key, history>>

\* Headscale refuses a name it has: then the request fails.
CreateUser(r) ==
  /\ Goto(r, "missing", "ensured")
  /\ user[r] \notin known
  /\ known' = known \cup {user[r]}
  /\ UNCHANGED <<now, tables, minted, joined, given, user, lab, until, key,
                 history>>

\* Mutant: the row is not committed before the key is minted.
UpsertIdentity_Bug(r) ==
  /\ Goto(r, "ensured", "identified")
  /\ UNCHANGED <<now, tables, headscale, given, user, lab, until, key, history>>

\* The upsert of headscale_identities, and its commit.
UpsertIdentity(r) ==
  /\ Goto(r, "ensured", "identified")
  /\ identity' = identity \cup {user[r]}
  /\ UNCHANGED <<now, running, members, stored, audit, headscale, given,
                 user, lab, until, key, history>>

\* Headscale knows the key from here on.
CreateKey(r, k) ==
  /\ Goto(r, "identified", "minted")
  /\ user[r] \in known
  /\ until[r] > now + MinLeft
  /\ minted[k] = None
  /\ minted' = [minted EXCEPT
                  ![k] = [user |-> user[r], exp |-> until[r], lab |-> lab[r]]]
  /\ key' = [key EXCEPT ![r] = k]
  /\ UNCHANGED <<now, tables, known, joined, given, user, lab, until, history>>

\* Mutant: the hash of the key is not kept.
InsertKey_Bug(r) ==
  /\ Goto(r, "minted", "stored")
  /\ UNCHANGED <<now, tables, headscale, given, user, lab, until, key, history>>

\* _insert_key commits on its own.
InsertKey(r) ==
  /\ Goto(r, "minted", "stored")
  /\ stored' = stored \cup {key[r]}
  /\ UNCHANGED <<now, running, members, identity, audit, headscale, given,
                 user, lab, until, key, history>>

\* The audit row of the lab's route and its commit, and the answer.
Give(r) ==
  /\ pc[r] = "stored"
  /\ audit' = IF lab[r] THEN audit \cup {key[r]} ELSE audit
  /\ given' = given \cup {key[r]}
  /\ Answer(r)
  /\ UNCHANGED <<now, running, members, identity, stored, headscale, history>>

\* log_token_event swallows the error of its INSERT, the commit rolls back what
\* is aborted without a word, and the key is answered all the same.
GiveUnlogged(r) ==
  /\ pc[r] = "stored" /\ lab[r] /\ faults < MaxFaults
  /\ given' = given \cup {key[r]}
  /\ Answer(r)
  /\ faults' = faults + 1
  /\ UNCHANGED <<now, tables, headscale, memberAt, seenAt, lag>>

\* A request that is refused, fails (400, 403, 503), or dies on the way
\* before there is a key.
GiveUp(r) ==
  /\ pc[r] \notin {"idle", "minted", "stored"}
  /\ Answer(r)
  /\ seenAt' = [seenAt EXCEPT ![r] = 0]
  /\ UNCHANGED <<now, tables, headscale, given, memberAt, lag, faults>>

\* The INSERT or its commit fails, or the process dies, and the key exists.
Die(r) ==
  /\ pc[r] \in {"minted", "stored"} /\ faults < MaxFaults
  /\ Answer(r)
  /\ faults' = faults + 1
  /\ UNCHANGED <<now, tables, headscale, given, memberAt, seenAt, lag>>

\* A device registers: Headscale looks at the key alone.
Register(k) ==
  /\ k \in given \ joined
  /\ now < minted[k].exp
  /\ joined' = joined \cup {k}
  /\ UNCHANGED <<now, tables, known, minted, given, request, history>>

-----------------------------------------------------------------------------
Step(r) ==
  \/ \E u \in Users : ReadDeployment(r, u) \/ DeviceToken(r, u)
  \/ CheckMember(r) \/ ComputeExpiry(r) \/ GetIdentity(r) \/ ListUsers(r)
  \/ CreateUser(r) \/ UpsertIdentity(r) \/ \E k \in Keys : CreateKey(r, k)
  \/ InsertKey(r) \/ Give(r) \/ GiveUnlogged(r) \/ GiveUp(r) \/ Die(r)

Next ==
  \/ Tick \/ Teardown
  \/ \E u \in Users : AddParticipant(u) \/ RemoveParticipant(u)
  \/ \E k \in Keys : Register(k)
  \/ \E r \in Requests : Step(r)

Spec == Init /\ [][Next]_vars

-----------------------------------------------------------------------------
(* Properties.                                                             *)

TypeOK ==
  /\ now \in 0..MaxTime /\ running \in BOOLEAN
  /\ members \subseteq Users /\ identity \subseteq Users /\ known \subseteq Users
  /\ minted \in [Keys -> [user : Users, exp : Nat, lab : BOOLEAN] \cup {None}]
  /\ stored \subseteq Keys /\ audit \subseteq Keys
  /\ given \subseteq Keys /\ joined \subseteq Keys
  /\ pc \in [Requests -> {"idle", "deployment", "member", "checked", "unknown",
                          "missing", "ensured", "identified", "minted", "stored"}]
  /\ user \in [Requests -> Users \cup {None}]
  /\ lab \in [Requests -> BOOLEAN]
  /\ until \in [Requests -> Nat]
  /\ key \in [Requests -> Keys \cup {None}]
  /\ memberAt \in [Users -> Nat] /\ faults \in 0..MaxFaults
  /\ seenAt \in [Requests -> Nat] /\ lag \in Nat

\* "Mint a short-lived Headscale device key for a deployment the user is a
\* member of" (labs.py:540): however long the request took and whoever was
\* removed meanwhile, a device registers with the lab's key before the lab
\* expires, and of its user's last membership within the key's lifetime and
\* what a request took from the membership to its clock.
JoinsInTime ==
  [][\A k \in Keys :
       Register(k) /\ minted[k].lab =>
         now < Expiry /\ now < memberAt[minted[k].user] + KeyTTL + lag]_vars

\* "Mint a Headscale preauth key and persist an audit record"
\* (headscale.py:209): a key Headscale knows is in headscale_keys and, minted
\* for the lab, in the audit log, but for the requests on their way and one
\* for each request that died with its key or whose audit row failed.
Unrecorded ==
  {k \in Keys : minted[k] # None /\ (k \notin stored \/ (minted[k].lab /\ k \notin audit))}
OneUnrecordedKeyPerFault ==
  Cardinality(Unrecorded)
    <= faults + Cardinality({r \in Requests : pc[r] \in {"minted", "stored"}})

\* Two first requests of one user, or one that died between the two systems,
\* leave no row for a user Headscale does not know, and no key of such a user.
IdentitiesExist ==
  /\ identity \subseteq known
  /\ \A k \in Keys : minted[k] # None => minted[k].user \in identity
=============================================================================
