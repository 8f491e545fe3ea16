------------------------------- MODULE OpsFeed -------------------------------
(***************************************************************************)
(* The operations feed: what routes and workers do is told to the sys      *)
(* admins by a row of operations_feed, found by its event_key, which the   *)
(* sys admins read, acknowledge and assign.                                *)
(*                                                                         *)
(* Some routes emit the event in the transaction of what it tells, some    *)
(* commit first and emit in a second transaction.  Some keys hold a fresh  *)
(* id, some only name their subject and come again: the second emit        *)
(* updates the row of the first.                                           *)
(***************************************************************************)
EXTENDS Naturals, FiniteSets

CONSTANTS
  Keys,           \* event keys
  Late,           \* those emitted after the commit of what they tell
  Recurring,      \* those that name their subject only, without a fresh id
  Requests,       \* requests of sys admins and routes in progress at once
  None,           \* no row, no key
  MaxActions,     \* bound: actions told by one recurring key
  MaxFaults       \* bound: processes that die, transactions that fail

VARIABLES
  done,           \* actions with the key that were committed
  row,            \* operations_feed: the key's row, or None
  pc, key,        \* each request: how far it is, the key it is about
  fixing,         \* rows the open repair has locked
  repaired,       \* history: a repair has been committed
  faults          \* history: processes that died, transactions that failed

request == <<pc, key, fixing>>
vars == <<done, row, request, repaired, faults>>

\* told: the actions folded into the row.  read, at, by: is_read, and whether
\* read_at and read_by are set.  work: what the workflow columns say.
ReadStates == [read : BOOLEAN, at : BOOLEAN, by : BOOLEAN]
Unread == [read |-> FALSE, at |-> FALSE, by |-> FALSE]
ReadBy == [read |-> TRUE, at |-> TRUE, by |-> TRUE]
Rows == [told : Nat, state : ReadStates,
         work : SUBSET {"acknowledged", "assigned"}]

ASSUME FeedAssumption ==
  /\ IsFiniteSet(Keys) /\ IsFiniteSet(Requests)
  /\ None \notin Keys \cup Rows
  /\ Late \subseteq Keys /\ Recurring \subseteq Keys
  /\ MaxActions \in Nat /\ MaxFaults \in Nat

\* Any number of rows from before the CHECK of migration 0015, each in any
\* read state.
Init ==
  /\ row \in [Keys -> {None} \cup [told : {1}, state : ReadStates, work : {{}}]]
  /\ done = [k \in Keys |-> IF row[k] = None THEN 0 ELSE 1]
  /\ pc = [r \in Requests |-> "idle"]
  /\ key = [r \in Requests |-> None]
  /\ fixing = [r \in Requests |-> {}]
  /\ repaired = FALSE /\ faults = 0

Stored == {k \in Keys : row[k] # None}
Told(k) == IF row[k] = None THEN 0 ELSE row[k].told

\* A row that an open repair has updated makes every other UPDATE wait.
Free(k) == \A r \in Requests : k \notin fixing[r]

-----------------------------------------------------------------------------
(* emit_ops_event and its callers.                                         *)

\* Mutant: the event is new, so it is unread again.
Emit_Bug(k) ==
  row' = [row EXCEPT ![k] =
            IF @ = None THEN [told |-> 1, state |-> Unread, work |-> {}]
            ELSE [@ EXCEPT !.told = @ + 1, !.state.read = FALSE]]

\* INSERT ... ON CONFLICT (event_key) DO UPDATE: not is_read.
Emit(k) ==
  row' = [row EXCEPT ![k] =
            IF @ = None THEN [told |-> 1, state |-> Unread, work |-> {}]
            ELSE [row[k] EXCEPT !.told = row[k].told + 1]]

Happen(k) ==
  /\ done[k] < IF k \in Recurring THEN MaxActions ELSE 1
  /\ done' = [done EXCEPT ![k] = @ + 1]

\* A cohort created, a deployment queued by a sys admin or moved on by a
\* worker, a payment captured, failed or rejected: one transaction.
ActAndEmit(k) ==
  /\ k \notin Late /\ Free(k)
  /\ Happen(k)
  /\ Emit(k)
  /\ UNCHANGED <<request, repaired, faults>>

Goto(r, from, to) == pc[r] = from /\ pc' = [pc EXCEPT ![r] = to]

Answer(r) ==
  /\ pc' = [pc EXCEPT ![r] = "idle"]
  /\ key' = [key EXCEPT ![r] = None]
  /\ fixing' = [fixing EXCEPT ![r] = {}]

\* A seat granted, an operator assigned or removed, a cohort patched, an
\* invitation created, sent again or revoked, an order created, a run
\* requested: the first commit.
Act(r, k) ==
  /\ Goto(r, "idle", "acted")
  /\ k \in Late
  /\ Happen(k)
  /\ key' = [key EXCEPT ![r] = k]
  /\ UNCHANGED <<row, fixing, repaired, faults>>

\* Mutant: the route returns without the second commit.
EmitLate_Bug(r) ==
  /\ pc[r] = "acted" /\ Free(key[r])
  /\ Answer(r)
  /\ UNCHANGED <<done, row, repaired, faults>>

\* The event, and the second commit.
EmitLate(r) ==
  /\ pc[r] = "acted" /\ Free(key[r])
  /\ Emit(key[r])
  /\ Answer(r)
  /\ UNCHANGED <<done, repaired, faults>>

\* The process dies or the database refuses: what is open is rolled back.
Fail(r) ==
  /\ pc[r] # "idle" /\ faults < MaxFaults
  /\ Answer(r)
  /\ faults' = faults + 1
  /\ UNCHANGED <<done, row, repaired>>

-----------------------------------------------------------------------------
(* The inbox of the sys admins.                                            *)

\* Mutant: nobody is noted as the reader.
MarkRead_Bug(ks) ==
  /\ \A k \in ks : Free(k)
  /\ row' = [k \in Keys |-> IF k \in ks
               THEN [row[k] EXCEPT !.state.read = TRUE, !.state.at = TRUE]
               ELSE row[k]]
  /\ UNCHANGED <<done, request, repaired, faults>>

MarkRead(ks) ==
  /\ \A k \in ks : Free(k)
  /\ row' = [k \in Keys |-> IF k \in ks THEN [row[k] EXCEPT !.state = ReadBy]
                                        ELSE row[k]]
  /\ UNCHANGED <<done, request, repaired, faults>>

\* mark_operations_feed_read: the row by its id, whether it is read or not.
MarkOneRead(k) == k \in Stored /\ MarkRead({k})

\* mark_all_operations_feed_read: WHERE is_read = false, seen by anybody or not.
MarkAllRead == MarkRead({k \in Stored : ~row[k].state.read})

\* acknowledge_operations_feed_item and patch_operations_feed_workflow; the
\* latter may refuse after it has found the row.
PatchWorkflow(k, work) ==
  /\ k \in Stored /\ Free(k)
  /\ \/ work = row[k].work \cup {"acknowledged"}
     \/ work \ {"assigned"} = row[k].work \ {"assigned"}
  /\ row' = [row EXCEPT ![k].work = work]
  /\ UNCHANGED <<done, request, repaired, faults>>

-----------------------------------------------------------------------------
(* repair_operations_feed_read_state: two UPDATEs of one transaction.      *)

Incomplete(state) == state.read /\ ~(state.at /\ state.by)
Stale(state) == ~state.read /\ (state.at \/ state.by)

\* The first waits for the rows of a repair that is open already.
RepairIncomplete(r) ==
  /\ Goto(r, "idle", "repairing")
  /\ \A k \in Stored : Incomplete(row[k].state) => Free(k)
  /\ fixing' = [fixing EXCEPT
                  ![r] = {k \in Stored : Incomplete(row[k].state)}]
  /\ UNCHANGED <<done, row, key, repaired, faults>>

\* The second, which sees what the first has written, and the commit.
RepairStale(r) ==
  /\ pc[r] = "repairing"
  /\ \A k \in Stored : Stale(row[k].state) => Free(k)
  /\ row' = [k \in Keys |->
               IF k \in fixing[r] \/ (k \in Stored /\ Stale(row[k].state))
               THEN [row[k] EXCEPT !.state = Unread] ELSE row[k]]
  /\ repaired' = TRUE
  /\ Answer(r)
  /\ UNCHANGED <<done, faults>>

-----------------------------------------------------------------------------
Step(r) ==
  \/ \E k \in Keys : Act(r, k)
  \/ EmitLate(r) \/ RepairIncomplete(r) \/ RepairStale(r) \/ Fail(r)

Next ==
  \/ \E k \in Keys : ActAndEmit(k) \/ MarkOneRead(k)
  \/ \E k \in Keys, work \in SUBSET {"acknowledged", "assigned"} :
       PatchWorkflow(k, work)
  \/ MarkAllRead
  \/ \E r \in Requests : Step(r)

Spec == Init /\ [][Next]_vars

-----------------------------------------------------------------------------
(* Properties.                                                             *)

TypeOK ==
  /\ done \in [Keys -> Nat]
  /\ row \in [Keys -> Rows \cup {None}]
  /\ pc \in [Requests -> {"idle", "acted", "repairing"}]
  /\ key \in [Requests -> Keys \cup {None}]
  /\ fixing \in [Requests -> SUBSET Keys]
  /\ repaired \in BOOLEAN /\ faults \in 0..MaxFaults

\* The n-th action of a key, when its row was told of fewer.
Untold == UNION {{k} \X ((Told(k) + 1)..done[k]) : k \in Keys}

\* An action is missing from the feed only while its route has yet to emit it,
\* or because a process died or a transaction failed between its two commits.
OneMissingEventPerFault ==
  Cardinality(Untold)
    <= faults + Cardinality({r \in Requests : pc[r] = "acted"})

\* "Upserts without resetting is_read" (docs/operations_feed_trigger_matrix.md:37):
\* what is read stays read, whatever is emitted, patched or repaired.
ReadStaysRead ==
  [][\A k \in Stored : row[k].state = ReadBy => row[k].state' = ReadBy]_vars

\* The CHECK operations_feed_read_state_chk holds of every row from the first
\* repair on, whatever the table held and whoever marked rows meanwhile.
Consistent(state) == ~Incomplete(state) /\ ~Stale(state)
RepairedStaysConsistent ==
  repaired => \A k \in Stored : Consistent(row[k].state)

\* Does not hold (README.md, Disagreements): "All keys above are stable for
\* the same logical fact, or intentionally unique [...] to avoid collapsing
\* distinct actions" (same file, line 36).
DistinctActionsKeptApart == \A k \in Stored : row[k].told = 1
=============================================================================
