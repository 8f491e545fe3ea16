---------------------------- MODULE AuthSessions ----------------------------
(***************************************************************************)
(* The life of the access tokens: a login issues one, every request        *)
(* presents one, a logout revokes one.  A token is good until its exp; a   *)
(* revoked one is remembered in Redis, for the seconds it has left; what   *)
(* happened to it is written to token_audit_log in PostgreSQL.  Three      *)
(* stores and no common transaction: Redis can be down or restarted, the   *)
(* audit row can fail, the process can die between any two statements.     *)
(*                                                                         *)
(* Time is counted in ticks, several to a second, because exp and the      *)
(* lifetime of a Redis entry are whole seconds and now is not.             *)
(***************************************************************************)
EXTENDS Naturals, FiniteSets

CONSTANTS
  Users,          \* accounts that log in
  Tokens,         \* access tokens, by their jti
  Requests,       \* requests that may be in progress at once
  None,           \* no user, no token
  Second,         \* ticks in a second
  Lifetime,       \* ACCESS_TOKEN_EXPIRE_MINUTES, in ticks
  MaxTime,        \* bound: the last tick
  MaxFaults       \* bound: audit writes that fail and processes that die

ASSUME SessionsAssumption ==
  /\ IsFiniteSet(Tokens) /\ IsFiniteSet(Requests)
  /\ None \notin Users \cup Tokens
  /\ Second \in Nat \ {0} /\ Lifetime \in Nat
  /\ MaxTime \in Nat /\ MaxFaults \in Nat

VARIABLES
  now,
  active,         \* users.is_active
  redis,          \* "up", or "down": every command to it raises
  until,          \* when the token's entry in Redis vanishes; 0 without one
  exp, owner,     \* the claims of a token; 0 and None before it is issued
  held,           \* tokens that were given to their user
  audit,          \* rows of token_audit_log: a token and an event
  pc, kind, tok,  \* each request: how far it is, what it is, its token
  ttl,            \* the seconds it has computed for the Redis entry, in ticks
  loggedOut,      \* history: tokens whose logout was answered
  wiped,          \* history: tokens whose entry a restart of Redis lost
  faults          \* history: audit writes that failed, processes that died

stores == <<active, redis, until, exp, owner, held, audit>>
request == <<pc, kind, tok, ttl>>
history == <<loggedOut, wiped, faults>>
vars == <<now, stores, request, history>>

Init ==
  /\ now = 0
  /\ active = [u \in Users |-> TRUE]
  /\ redis = "up"
  /\ until = [j \in Tokens |-> 0]
  /\ exp = [j \in Tokens |-> 0]
  /\ owner = [j \in Tokens |-> None]
  /\ held = {} /\ audit = {}
  /\ pc = [r \in Requests |-> "idle"]
  /\ kind = [r \in Requests |-> "none"]
  /\ tok = [r \in Requests |-> None]
  /\ ttl = [r \in Requests |-> 0]
  /\ loggedOut = {} /\ wiped = {} /\ faults = 0

WholeSeconds(t) == (t \div Second) * Second

-----------------------------------------------------------------------------
(* Time, Redis and the sys admin.                                          *)

\* Entries whose time has come are gone.
Tick ==
  /\ now < MaxTime
  /\ now' = now + 1
  /\ until' = [j \in Tokens |-> IF until[j] <= now + 1 THEN 0 ELSE until[j]]
  /\ UNCHANGED <<active, redis, exp, owner, held, audit, request, history>>

RedisDown ==
  /\ redis = "up" /\ redis' = "down"
  /\ UNCHANGED <<now, active, until, exp, owner, held, audit, request, history>>

\* Nothing configures Redis to keep its keys over a restart.
RedisUp(lost) ==
  /\ redis = "down" /\ redis' = "up"
  /\ wiped' = IF lost THEN wiped \cup {j \in Tokens : until[j] > 0} ELSE wiped
  /\ until' = IF lost THEN [j \in Tokens |-> 0] ELSE until
  /\ UNCHANGED <<now, active, exp, owner, held, audit, request,
                 loggedOut, faults>>

\* disable_user and enable_user; neither touches a token.
Disable(u) ==
  /\ active[u]
  /\ active' = [active EXCEPT ![u] = FALSE]
  /\ UNCHANGED <<now, redis, until, exp, owner, held, audit, request, history>>

Enable(u) ==
  /\ ~active[u]
  /\ active' = [active EXCEPT ![u] = TRUE]
  /\ UNCHANGED <<now, redis, until, exp, owner, held, audit, request, history>>

-----------------------------------------------------------------------------
(* How a request ends.                                                     *)

Goto(r, from, to) == pc[r] = from /\ pc' = [pc EXCEPT ![r] = to]

Answer(r) ==
  /\ pc' = [pc EXCEPT ![r] = "idle"]
  /\ kind' = [kind EXCEPT ![r] = "none"]
  /\ tok' = [tok EXCEPT ![r] = None]
  /\ ttl' = [ttl EXCEPT ![r] = 0]

\* The process dies, or the database drops the connection: no commit.
Die(r) ==
  /\ pc[r] # "idle" /\ faults < MaxFaults
  /\ Answer(r)
  /\ faults' = faults + 1
  /\ UNCHANGED <<now, stores, loggedOut, wiped>>

-----------------------------------------------------------------------------
(* Login: sso_callback and the two dev logins.                             *)

\* upsert_user commits and looks at no is_active; issue_token signs.
Login(r, u, j) ==
  /\ Goto(r, "idle", "issuing")
  /\ exp[j] = 0
  /\ exp' = [exp EXCEPT ![j] = WholeSeconds(now + Lifetime)]
  /\ owner' = [owner EXCEPT ![j] = u]
  /\ kind' = [kind EXCEPT ![r] = "login"]
  /\ tok' = [tok EXCEPT ![r] = j]
  /\ UNCHANGED <<now, active, redis, until, held, audit, ttl, history>>

\* log_token_event swallows its error, and the COMMIT then rolls back.
Log(j, event) ==
  \/ audit' = audit \cup {<<j, event>>} /\ UNCHANGED faults
  \/ /\ faults < MaxFaults /\ faults' = faults + 1
     /\ UNCHANGED audit

\* The 'issued' row is committed and the token is sent.
FinishLogin(r) ==
  /\ pc[r] = "issuing"
  /\ Log(tok[r], "issued")
  /\ held' = held \cup {tok[r]}
  /\ Answer(r)
  /\ UNCHANGED <<now, active, redis, until, exp, owner, loggedOut, wiped>>

-----------------------------------------------------------------------------
(* decode_token and get_current_user.                                      *)

\* The signature and exp; k is "use", "logout" or "validate".
Present(r, j, k) ==
  /\ Goto(r, "idle", "decoded")
  /\ j \in held /\ now < exp[j]
  /\ kind' = [kind EXCEPT ![r] = k]
  /\ tok' = [tok EXCEPT ![r] = j]
  /\ UNCHANGED <<now, stores, ttl, history>>

Revoked(j) == until[j] > now

\* is_token_revoked: no entry, or no answer ("failing open").
CheckBlocklist(r) ==
  /\ Goto(r, "decoded", "clear")
  /\ redis = "down" \/ ~Revoked(tok[r])
  /\ UNCHANGED <<now, stores, kind, tok, ttl, history>>

\* 401, or 403 from get_current_user.
Refuse(r) ==
  /\ \/ pc[r] = "decoded" /\ redis = "up" /\ Revoked(tok[r])
     \/ pc[r] = "clear" /\ kind[r] = "use" /\ ~active[owner[tok[r]]]
  /\ Answer(r)
  /\ UNCHANGED <<now, stores, loggedOut, wiped, faults>>

GetCurrentUser(r) ==
  /\ kind[r] = "use"
  /\ Goto(r, "clear", "handling")
  /\ active[owner[tok[r]]]
  /\ UNCHANGED <<now, stores, kind, tok, ttl, history>>

\* The handler of the route does its work and answers.
Act(r) ==
  /\ kind[r] = "use" /\ pc[r] = "handling"
  /\ Answer(r)
  /\ UNCHANGED <<now, stores, loggedOut, wiped, faults>>

\* POST /api/validate-token: the user and an entitlement, no is_active.
Validate(r) ==
  /\ kind[r] = "validate" /\ pc[r] = "clear"
  /\ Answer(r)
  /\ UNCHANGED <<now, stores, loggedOut, wiped, faults>>

-----------------------------------------------------------------------------
(* logout: revoke_token in Redis, then the audit row.                      *)

\* Mutant: a second is lost on the way.
Left_Bug(j) == IF exp[j] >= now + Second
               THEN WholeSeconds(exp[j] - now) - Second ELSE 0

\* int((expires_at - now).total_seconds()).
Left(j) == IF exp[j] > now THEN WholeSeconds(exp[j] - now) ELSE 0

\* With less than a second left nothing is stored.
ComputeTtl(r) ==
  /\ kind[r] = "logout"
  /\ Goto(r, "clear", IF Left(tok[r]) = 0 THEN "revoked" ELSE "revoking")
  /\ ttl' = [ttl EXCEPT ![r] = Left(tok[r])]
  /\ UNCHANGED <<now, stores, kind, tok, history>>

\* SETEX, whose answer is lost when the process dies right after it.
SetEx(r) ==
  /\ Goto(r, "revoking", "revoked")
  /\ redis = "up"
  /\ until' = [until EXCEPT ![tok[r]] = now + ttl[r]]
  /\ wiped' = wiped \ {tok[r]}
  /\ UNCHANGED <<now, active, redis, exp, owner, held, audit, kind, tok, ttl,
                 loggedOut, faults>>

\* revoke_token raises, and nobody catches it.
SetExRaises(r) ==
  /\ pc[r] = "revoking" /\ redis = "down"
  /\ Answer(r)
  /\ UNCHANGED <<now, stores, loggedOut, wiped, faults>>

\* Mutant: the row is written and the session is closed without a commit.
FinishLogout_Bug(r) ==
  /\ kind[r] = "logout" /\ pc[r] = "revoked"
  /\ loggedOut' = loggedOut \cup {tok[r]}
  /\ Answer(r)
  /\ UNCHANGED <<now, stores, wiped, faults>>

\* The 'revoked' row is committed and 204 is sent.
FinishLogout(r) ==
  /\ kind[r] = "logout" /\ pc[r] = "revoked"
  /\ Log(tok[r], "revoked")
  /\ loggedOut' = loggedOut \cup {tok[r]}
  /\ Answer(r)
  /\ UNCHANGED <<now, active, redis, until, exp, owner, held, wiped>>

-----------------------------------------------------------------------------
Step(r) ==
  \/ \E u \in Users, j \in Tokens : Login(r, u, j)
  \/ FinishLogin(r)
  \/ \E j \in Tokens, k \in {"use", "logout", "validate"} : Present(r, j, k)
  \/ CheckBlocklist(r) \/ Refuse(r) \/ GetCurrentUser(r) \/ Act(r)
  \/ Validate(r)
  \/ ComputeTtl(r) \/ SetEx(r) \/ SetExRaises(r) \/ FinishLogout(r)
  \/ Die(r)

Next ==
  \/ Tick \/ RedisDown \/ \E lost \in BOOLEAN : RedisUp(lost)
  \/ \E u \in Users : Disable(u) \/ Enable(u)
  \/ \E r \in Requests : Step(r)

Spec == Init /\ [][Next]_vars

-----------------------------------------------------------------------------
(* Properties.                                                             *)

TypeOK ==
  /\ now \in 0..MaxTime
  /\ active \in [Users -> BOOLEAN] /\ redis \in {"up", "down"}
  /\ until \in [Tokens -> Nat] /\ exp \in [Tokens -> Nat]
  /\ owner \in [Tokens -> Users \cup {None}]
  /\ held \subseteq Tokens
  /\ audit \subseteq Tokens \X {"issued", "revoked"}
  /\ pc \in [Requests -> {"idle", "issuing", "decoded", "clear", "handling",
                          "revoking", "revoked"}]
  /\ kind \in [Requests -> {"none", "login", "use", "logout", "validate"}]
  /\ tok \in [Requests -> Tokens \cup {None}]
  /\ ttl \in [Requests -> Nat]
  /\ loggedOut \subseteq Tokens /\ wiped \subseteq Tokens
  /\ faults \in 0..MaxFaults

\* A token whose logout was answered passes the blocklist only while Redis
\* does not answer, after a restart of Redis has lost its entry, or in the
\* last second of its life: the entry lives for whole seconds, rounded down
\* (blocklist.py:90).
LoggedOutStaysOut ==
  [][\A r \in Requests :
       CheckBlocklist(r) /\ tok[r] \in loggedOut =>
         \/ redis = "down" \/ tok[r] \in wiped
         \/ exp[tok[r]] < now + Second]_vars

\* "Every credential event is recorded" (README.md:257), but for one row for
\* each failed audit write and for each process that died: what a user holds
\* was recorded as issued, what was logged out or is in Redis as revoked, when
\* no logout of it is still on its way.
LoggingOut(j) == \E r \in Requests : tok[r] = j /\ kind[r] = "logout"
Unrecorded ==
  {<<j, "issued">> : j \in held}
    \cup {<<j, "revoked">> : j \in {i \in Tokens :
            i \in loggedOut \/ (until[i] > 0 /\ ~LoggingOut(i))}}
OneMissingRowPerFault == Cardinality(Unrecorded \ audit) <= faults
=============================================================================
