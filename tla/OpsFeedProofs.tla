---------------------------- MODULE OpsFeedProofs ----------------------------
(***************************************************************************)
(* Two services of the admin routes: what the operations feed (OpsFeed)    *)
(* satisfies for any event keys and any number of requests, and what the   *)
(* Content Studio (ContentStudio) satisfies for any sections, positions,   *)
(* texts, revisions and requests.  The two share the requests' names and   *)
(* nothing else, and are proved about one at a time.                       *)
(*                                                                         *)
(* The inbox: no row becomes incomplete or stale; the bad ones are there   *)
(* from the start (Gentle).  A row an open repair has locked stays         *)
(* incomplete, so that nobody has read it when the repair resets it        *)
(* (FixingInv); and the rows it has not locked are complete (OpenInv).     *)
(***************************************************************************)
EXTENDS OpsFeed, FiniteSetTheorems, TLAPS

\* The rows an open repair has locked are its own, and incomplete.
FixingInv ==
  \A r \in Requests :
    /\ \A k \in fixing[r] : k \in Stored /\ Incomplete(row[k].state)
    /\ \A q \in Requests \ {r} : fixing[q] \cap fixing[r] = {}
    /\ pc[r] = "acted" => key[r] \in Keys

OpenInv ==
  \A r \in Requests : pc[r] = "repairing" =>
    \A k \in Stored \ fixing[r] : ~Incomplete(row[k].state)

IInv == TypeOK /\ FixingInv /\ OpenInv /\ RepairedStaysConsistent

LEMMA InitIInv == Init => IInv
<1> SUFFICES ASSUME Init PROVE IInv
  OBVIOUS
<1> USE DEF Init
<1>1. TypeOK
  <2>1. done \in [Keys -> Nat]
    OBVIOUS
  <2>2. row \in [Keys -> Rows \cup {None}]
    BY DEF Rows, ReadStates
  <2>3. faults \in 0..MaxFaults
    BY FeedAssumption
  <2>4. /\ pc \in [Requests -> {"idle", "acted", "repairing"}]
        /\ key \in [Requests -> Keys \cup {None}]
        /\ fixing \in [Requests -> SUBSET Keys] /\ repaired \in BOOLEAN
    OBVIOUS
  <2>5. QED BY <2>1, <2>2, <2>3, <2>4 DEF TypeOK
<1>2. FixingInv /\ OpenInv /\ RepairedStaysConsistent
  BY DEF FixingInv, OpenInv, RepairedStaysConsistent
<1>3. QED BY <1>1, <1>2 DEF IInv

-----------------------------------------------------------------------------
(* What a step may do to the rows.                                         *)

\* A row that is there stays there.  Its state stays, or it is marked read
\* while no repair has locked it; a new row is unread.
Gentle ==
  \A k \in Keys :
    /\ k \in Stored =>
         /\ k \in Stored'
         /\ \/ row'[k].state = row[k].state
            \/ Free(k) /\ row'[k].state = ReadBy
    /\ k \in Stored' \ Stored => row'[k].state = Unread

RowsTyped == row' \in [Keys -> Rows \cup {None}]

\* An unread row and one read by somebody are records of the right type.
LEMMA StateTypes == Unread \in ReadStates /\ ReadBy \in ReadStates
BY DEF Unread, ReadBy, ReadStates

LEMMA EmitIsGentle ==
  ASSUME TypeOK, NEW k \in Keys, Emit(k)
  PROVE  Gentle /\ RowsTyped
<1>1. \A j \in Keys \ {k} : row'[j] = row[j]
  BY DEF Emit, TypeOK
<1>2. CASE row[k] = None
  <2> DEFINE new == [told |-> 1, state |-> Unread, work |-> {}]
  <2>1. row' = [row EXCEPT ![k] = new]
    BY <1>2 DEF Emit, TypeOK
  <2>2. new \in Rows /\ new.state = Unread
    BY StateTypes DEF Rows
  <2> HIDE DEF new
  <2>3. RowsTyped
    BY <2>1, <2>2 DEF RowsTyped, TypeOK
  <2>4. Gentle
    BY <1>1, <1>2, <2>1, <2>2 DEF Gentle, Stored, TypeOK
  <2>5. QED BY <2>3, <2>4
<1>3. CASE row[k] # None
  <2> DEFINE new == [row[k] EXCEPT !.told = row[k].told + 1]
  <2> DEFINE first == [told |-> 1, state |-> Unread, work |-> {}]
  <2>1. row'[k] = new
    <3>1. row' = [row EXCEPT ![k] = IF row[k] = None THEN first ELSE new]
      BY DEF Emit
    <3> HIDE DEF new, first
    <3>2. QED BY <1>3, <3>1 DEF TypeOK
  <2>2. new \in Rows /\ new.state = row[k].state
    BY <1>3 DEF Rows, TypeOK
  <2> HIDE DEF new
  <2>3. RowsTyped
    <3>1. DOMAIN row' = Keys /\ row' = [j \in DOMAIN row' |-> row'[j]]
      BY DEF Emit, TypeOK
    <3>2. \A j \in Keys : row'[j] \in Rows \cup {None}
      BY <1>1, <2>1, <2>2 DEF TypeOK
    <3>3. QED BY <3>1, <3>2 DEF RowsTyped
  <2>4. Gentle
    BY <1>1, <1>3, <2>1, <2>2, FeedAssumption DEF Gentle, Stored, TypeOK
  <2>5. QED BY <2>3, <2>4
<1>4. QED BY <1>2, <1>3

LEMMA MarkReadIsGentle ==
  ASSUME TypeOK, NEW ks \in SUBSET Stored, MarkRead(ks)
  PROVE  Gentle /\ RowsTyped
<1>1. \A k \in Keys \ ks : row'[k] = row[k]
  BY DEF MarkRead
<1>2. ASSUME NEW k \in ks
      PROVE  /\ k \in Keys /\ k \in Stored /\ Free(k)
             /\ row'[k] \in Rows /\ row'[k].state = ReadBy
  <2>1. k \in Keys /\ k \in Stored /\ row[k] \in Rows /\ Free(k)
    BY DEF MarkRead, Stored, TypeOK
  <2>2. row'[k] = [row[k] EXCEPT !.state = ReadBy]
    BY <2>1 DEF MarkRead
  <2>3. QED BY <2>1, <2>2, StateTypes DEF Rows
<1>3. RowsTyped
  <2>1. \A k \in Keys : row'[k] \in Rows \cup {None}
    BY <1>1, <1>2 DEF TypeOK
  <2>2. row' = [k \in Keys |-> row'[k]]
    BY DEF MarkRead
  <2>3. QED BY <2>1, <2>2 DEF RowsTyped
<1>4. Gentle
  BY <1>1, <1>2, FeedAssumption DEF Gentle, Stored
<1>5. QED BY <1>3, <1>4

LEMMA PatchIsGentle ==
  ASSUME TypeOK, NEW k \in Keys, NEW work \in SUBSET {"acknowledged", "assigned"},
         PatchWorkflow(k, work)
  PROVE  Gentle /\ RowsTyped
<1> DEFINE new == [row[k] EXCEPT !.work = work]
<1>1. row' = [row EXCEPT ![k] = new] /\ row[k] \in Rows /\ k \in Stored
  BY DEF PatchWorkflow, Stored, TypeOK
<1>2. new \in Rows /\ new.state = row[k].state
  BY <1>1 DEF Rows
<1> HIDE DEF new
<1>3. RowsTyped
  BY <1>1, <1>2 DEF RowsTyped, TypeOK
<1>4. Gentle
  BY <1>1, <1>2, FeedAssumption DEF Gentle, Stored, TypeOK
<1>5. QED BY <1>3, <1>4

\* The commit of a repair: what it has locked and what is stale is unread
\* afterwards, and nothing else is touched.
LEMMA RepairRows ==
  ASSUME IInv, NEW r \in Requests, RepairStale(r)
  PROVE  /\ RowsTyped /\ Stored' = Stored
         /\ \A k \in Stored :
              row'[k].state = IF k \in fixing[r] \/ Stale(row[k].state)
                              THEN Unread ELSE row[k].state
<1> DEFINE reset == {k \in Stored : k \in fixing[r] \/ Stale(row[k].state)}
<1>1. \A k \in Keys \ reset : row'[k] = row[k]
  BY DEF RepairStale, IInv, FixingInv
<1>2. ASSUME NEW k \in reset
      PROVE  k \in Keys /\ row'[k] \in Rows /\ row'[k].state = Unread
  <2>1. k \in Keys /\ row[k] \in Rows
    BY DEF Stored, IInv, TypeOK
  <2>2. row'[k] = [row[k] EXCEPT !.state = Unread]
    BY <2>1 DEF RepairStale
  <2>3. QED BY <2>1, <2>2, StateTypes DEF Rows
<1>3. RowsTyped
  <2>1. \A k \in Keys : row'[k] \in Rows \cup {None}
    BY <1>1, <1>2 DEF IInv, TypeOK
  <2>2. row' = [k \in Keys |-> row'[k]]
    BY DEF RepairStale
  <2>3. QED BY <2>1, <2>2 DEF RowsTyped
<1>4. Stored' = Stored
  BY <1>1, <1>2, FeedAssumption DEF Stored
<1>5. ASSUME NEW k \in Stored
      PROVE  row'[k].state = IF k \in fixing[r] \/ Stale(row[k].state)
                             THEN Unread ELSE row[k].state
  BY <1>1, <1>2 DEF Stored
<1>6. QED BY <1>3, <1>4, <1>5

-----------------------------------------------------------------------------
(* The invariant.                                                          *)

LEMMA UnreadIsConsistent ==
  /\ ~Incomplete(Unread) /\ ~Stale(Unread)
  /\ ~Incomplete(ReadBy) /\ ~Stale(ReadBy)
BY DEF Incomplete, Stale, Unread, ReadBy

\* Whoever changes rows gently, or ends a request, keeps what the open repairs
\* rely on.
LEMMA GentleIInv ==
  ASSUME IInv, Gentle, RowsTyped, UNCHANGED repaired,
         done' \in [Keys -> Nat], faults' \in 0..MaxFaults,
         pc' \in [Requests -> {"idle", "acted", "repairing"}],
         key' \in [Requests -> Keys \cup {None}],
         fixing' \in [Requests -> SUBSET Keys],
         \A r \in Requests :
           /\ fixing'[r] \in {fixing[r], {}}
           /\ pc'[r] = "repairing" =>
                pc[r] = "repairing" /\ fixing'[r] = fixing[r]
           /\ pc'[r] = "acted" => key'[r] \in Keys
  PROVE  IInv'
<1>0. Stored \subseteq Keys /\ Stored' \subseteq Keys /\ Stored \subseteq Stored'
  BY DEF Stored, Gentle
<1>1. TypeOK'
  BY DEF IInv, TypeOK, RowsTyped
<1>2. FixingInv'
  <2>1. ASSUME NEW r \in Requests, NEW k \in fixing'[r]
        PROVE  k \in Stored' /\ Incomplete(row'[k].state)
    <3>1. k \in fixing[r] /\ k \in Stored /\ Incomplete(row[k].state) /\ ~Free(k)
      BY <2>1 DEF IInv, FixingInv, Free
    <3>2. k \in Stored' /\ row'[k].state = row[k].state
      BY <1>0, <3>1 DEF Gentle
    <3>3. QED BY <3>1, <3>2
  <2>2. \A r \in Requests : \A q \in Requests \ {r} : fixing'[q] \cap fixing'[r] = {}
    BY DEF IInv, FixingInv
  <2>3. QED BY <2>1, <2>2 DEF FixingInv
<1>3. OpenInv'
  <2> SUFFICES ASSUME NEW r \in Requests, pc'[r] = "repairing",
                      NEW k \in Stored', k \notin fixing'[r]
               PROVE  ~Incomplete(row'[k].state)
    BY DEF OpenInv
  <2>1. CASE k \in Stored
    BY <1>0, <2>1, UnreadIsConsistent DEF IInv, OpenInv, Gentle
  <2>2. CASE k \notin Stored
    BY <1>0, <2>2, UnreadIsConsistent DEF Gentle
  <2>3. QED BY <2>1, <2>2
<1>4. RepairedStaysConsistent'
  <2> SUFFICES ASSUME repaired, NEW k \in Stored'
               PROVE  Consistent(row'[k].state)
    BY DEF RepairedStaysConsistent
  <2>1. CASE k \in Stored
    BY <1>0, <2>1, UnreadIsConsistent
    DEF IInv, RepairedStaysConsistent, Consistent, Gentle
  <2>2. CASE k \notin Stored
    BY <1>0, <2>2, UnreadIsConsistent DEF Consistent, Gentle
  <2>3. QED BY <2>1, <2>2
<1>5. QED BY <1>1, <1>2, <1>3, <1>4 DEF IInv

\* Rows that stay as they are.
LEMMA SameIsGentle ==
  ASSUME TypeOK, UNCHANGED row
  PROVE  Gentle /\ RowsTyped
BY DEF Gentle, RowsTyped, TypeOK, Stored

\* An action is counted.
LEMMA HappenType ==
  ASSUME TypeOK, NEW k \in Keys, Happen(k)
  PROVE  done' \in [Keys -> Nat]
BY DEF TypeOK, Happen

\* The steps of routes, workers and readers that are transactions of their own.
InboxStep ==
  \/ \E k \in Keys : ActAndEmit(k) \/ MarkOneRead(k)
  \/ \E k \in Keys, work \in SUBSET {"acknowledged", "assigned"} :
       PatchWorkflow(k, work)
  \/ MarkAllRead

LEMMA InboxStepIsGentle ==
  ASSUME IInv, InboxStep
  PROVE  Gentle /\ RowsTyped
<1>0. TypeOK
  BY DEF IInv
<1>1. ASSUME NEW k \in Keys, ActAndEmit(k) PROVE Gentle /\ RowsTyped
  BY <1>0, <1>1, EmitIsGentle DEF ActAndEmit
<1>2. ASSUME NEW k \in Keys, MarkOneRead(k) PROVE Gentle /\ RowsTyped
  BY <1>0, <1>2, MarkReadIsGentle DEF MarkOneRead
<1>3. ASSUME NEW k \in Keys, NEW work \in SUBSET {"acknowledged", "assigned"},
             PatchWorkflow(k, work)
      PROVE  Gentle /\ RowsTyped
  BY <1>0, <1>3, PatchIsGentle
<1>4. CASE MarkAllRead
  <2>1. {k \in Stored : ~row[k].state.read} \in SUBSET Stored
    OBVIOUS
  <2>2. QED BY <1>0, <1>4, <2>1, MarkReadIsGentle DEF MarkAllRead
<1>5. QED BY <1>1, <1>2, <1>3, <1>4 DEF InboxStep

LEMMA InboxStepIInv ==
  ASSUME IInv, InboxStep
  PROVE  IInv'
<1>0. TypeOK
  BY DEF IInv
<1>1. UNCHANGED <<pc, key, fixing, repaired, faults>>
  BY DEF InboxStep, ActAndEmit, MarkOneRead, MarkAllRead, MarkRead, PatchWorkflow,
         request
<1>2. done' \in [Keys -> Nat]
  <2>1. ASSUME NEW k \in Keys, ActAndEmit(k) PROVE done' \in [Keys -> Nat]
    BY <1>0, <2>1, HappenType DEF ActAndEmit
  <2>2. CASE UNCHANGED done
    BY <1>0, <2>2 DEF TypeOK
  <2>3. QED
    BY <2>1, <2>2 DEF InboxStep, MarkOneRead, MarkAllRead, MarkRead, PatchWorkflow
<1>3. /\ pc \in [Requests -> {"idle", "acted", "repairing"}]
      /\ key \in [Requests -> Keys \cup {None}]
      /\ fixing \in [Requests -> SUBSET Keys] /\ faults \in 0..MaxFaults
      /\ \A r \in Requests : pc[r] = "acted" => key[r] \in Keys
  BY DEF IInv, TypeOK, FixingInv
<1>4. QED BY <1>1, <1>2, <1>3, InboxStepIsGentle, GentleIInv

\* The steps of a request that are not a repair's.
RouteStep(r) ==
  (\E k \in Keys : Act(r, k)) \/ EmitLate(r) \/ Fail(r)

LEMMA RouteStepIsGentle ==
  ASSUME IInv, NEW r \in Requests, RouteStep(r)
  PROVE  Gentle /\ RowsTyped
<1>0. TypeOK
  BY DEF IInv
<1>1. CASE EmitLate(r)
  <2>1. key[r] \in Keys /\ Emit(key[r])
    BY <1>1 DEF EmitLate, IInv, FixingInv
  <2>2. QED BY <1>0, <2>1, EmitIsGentle
<1>2. CASE UNCHANGED row
  BY <1>0, <1>2, SameIsGentle
<1>3. QED BY <1>1, <1>2 DEF RouteStep, Act, Fail

LEMMA RouteStepIInv ==
  ASSUME IInv, NEW r \in Requests, RouteStep(r)
  PROVE  IInv'
<1>0. TypeOK /\ \A q \in Requests : pc[q] = "acted" => key[q] \in Keys
  BY DEF IInv, FixingInv
<1>1. ASSUME NEW k \in Keys, Act(r, k) PROVE IInv'
  <2>1. done' \in [Keys -> Nat]
    BY <1>0, <1>1, HappenType DEF Act
  <2>2. /\ pc' = [pc EXCEPT ![r] = "acted"] /\ key' = [key EXCEPT ![r] = k]
        /\ UNCHANGED <<fixing, repaired, faults>>
    BY <1>1 DEF Act, Goto
  <2>3. /\ pc' \in [Requests -> {"idle", "acted", "repairing"}]
        /\ key' \in [Requests -> Keys \cup {None}]
        /\ fixing' \in [Requests -> SUBSET Keys] /\ faults' \in 0..MaxFaults
    BY <1>0, <2>2 DEF TypeOK
  <2>4. ASSUME NEW q \in Requests
        PROVE  /\ fixing'[q] \in {fixing[q], {}}
               /\ pc'[q] = "repairing" =>
                    pc[q] = "repairing" /\ fixing'[q] = fixing[q]
               /\ pc'[q] = "acted" => key'[q] \in Keys
    BY <1>0, <2>2 DEF TypeOK
  <2>5. QED BY <1>1, <2>1, <2>2, <2>3, <2>4, RouteStepIsGentle, GentleIInv
<1>2. CASE EmitLate(r) \/ Fail(r)
  <2>1. /\ pc' = [pc EXCEPT ![r] = "idle"] /\ key' = [key EXCEPT ![r] = None]
        /\ fixing' = [fixing EXCEPT ![r] = {}] /\ UNCHANGED <<done, repaired>>
    BY <1>2 DEF EmitLate, Fail, Answer
  <2>2. faults' \in 0..MaxFaults
    <3>1. CASE EmitLate(r)
      BY <1>0, <3>1 DEF EmitLate, TypeOK
    <3>2. CASE Fail(r)
      BY <1>0, <3>2, FeedAssumption DEF Fail, TypeOK
    <3>3. QED BY <1>2, <3>1, <3>2
  <2>3. /\ pc' \in [Requests -> {"idle", "acted", "repairing"}]
        /\ key' \in [Requests -> Keys \cup {None}]
        /\ fixing' \in [Requests -> SUBSET Keys] /\ done' \in [Keys -> Nat]
    BY <1>0, <2>1 DEF TypeOK
  <2>4. ASSUME NEW q \in Requests
        PROVE  /\ fixing'[q] \in {fixing[q], {}}
               /\ pc'[q] = "repairing" =>
                    pc[q] = "repairing" /\ fixing'[q] = fixing[q]
               /\ pc'[q] = "acted" => key'[q] \in Keys
    BY <1>0, <2>1 DEF TypeOK
  <2>5. QED BY <2>1, <2>2, <2>3, <2>4, RouteStepIsGentle, GentleIInv
<1>3. QED BY <1>1, <1>2 DEF RouteStep

LEMMA RepairIncompleteIInv ==
  ASSUME IInv, NEW r \in Requests, RepairIncomplete(r)
  PROVE  IInv'
<1> DEFINE bad == {k \in Stored : Incomplete(row[k].state)}
<1>0. /\ pc' = [pc EXCEPT ![r] = "repairing"] /\ fixing' = [fixing EXCEPT ![r] = bad]
      /\ UNCHANGED <<done, row, key, repaired, faults>>
      /\ pc[r] = "idle" /\ bad \subseteq Keys /\ \A k \in bad : Free(k)
  BY DEF RepairIncomplete, Goto, Stored
<1>1. TypeOK'
  BY <1>0 DEF IInv, TypeOK
<1>2. FixingInv'
  <2>1. ASSUME NEW q \in Requests, q # r PROVE bad \cap fixing[q] = {}
    BY <1>0, <2>1 DEF Free
  <2>2. fixing'[r] = bad /\ \A q \in Requests \ {r} : fixing'[q] = fixing[q]
    BY <1>0 DEF IInv, TypeOK
  <2>3. QED BY <1>0, <2>1, <2>2 DEF IInv, TypeOK, FixingInv, Stored
<1>3. OpenInv'
  BY <1>0 DEF IInv, TypeOK, OpenInv, Stored
<1>4. RepairedStaysConsistent'
  BY <1>0 DEF IInv, RepairedStaysConsistent, Stored
<1>5. QED BY <1>1, <1>2, <1>3, <1>4 DEF IInv

LEMMA RepairStaleIInv ==
  ASSUME IInv, NEW r \in Requests, RepairStale(r)
  PROVE  IInv'
<1>0. /\ RowsTyped /\ Stored' = Stored
      /\ \A k \in Stored :
           row'[k].state = IF k \in fixing[r] \/ Stale(row[k].state)
                           THEN Unread ELSE row[k].state
  BY RepairRows
<1>1. /\ pc' = [pc EXCEPT ![r] = "idle"] /\ key' = [key EXCEPT ![r] = None]
      /\ fixing' = [fixing EXCEPT ![r] = {}] /\ repaired' = TRUE
      /\ UNCHANGED <<done, faults>> /\ pc[r] = "repairing"
  BY DEF RepairStale, Answer
<1>2. /\ fixing'[r] = {} /\ pc'[r] = "idle"
      /\ \A q \in Requests \ {r} :
           fixing'[q] = fixing[q] /\ pc'[q] = pc[q] /\ key'[q] = key[q]
  BY <1>1 DEF IInv, TypeOK
<1>3. TypeOK'
  BY <1>0, <1>1 DEF IInv, TypeOK, RowsTyped
<1>4. FixingInv'
  <2>1. ASSUME NEW q \in Requests, NEW k \in fixing'[q]
        PROVE  k \in Stored' /\ Incomplete(row'[k].state)
    <3>1. q # r /\ k \in fixing[q] /\ k \notin fixing[r]
      BY <1>2, <2>1 DEF IInv, FixingInv
    <3>2. k \in Stored /\ Incomplete(row[k].state) /\ ~Stale(row[k].state)
      BY <3>1 DEF IInv, FixingInv, Incomplete, Stale
    <3>3. QED BY <1>0, <3>1, <3>2
  <2>2. \A p \in Requests : \A q \in Requests \ {p} : fixing'[q] \cap fixing'[p] = {}
    BY <1>2 DEF IInv, FixingInv
  <2>3. \A q \in Requests : pc'[q] = "acted" => key'[q] \in Keys
    BY <1>2 DEF IInv, FixingInv
  <2>4. QED BY <2>1, <2>2, <2>3 DEF FixingInv
<1>5. OpenInv'
  BY <1>0, <1>2, UnreadIsConsistent DEF IInv, OpenInv
<1>6. RepairedStaysConsistent'
  BY <1>0, <1>1, UnreadIsConsistent
  DEF IInv, OpenInv, RepairedStaysConsistent, Consistent
<1>7. QED BY <1>3, <1>4, <1>5, <1>6 DEF IInv

LEMMA NextIInv == IInv /\ [Next]_vars => IInv'
<1> SUFFICES ASSUME IInv, [Next]_vars PROVE IInv'
  OBVIOUS
<1>1. CASE UNCHANGED vars
  BY <1>1 DEF vars, request, IInv, TypeOK, FixingInv, OpenInv,
              RepairedStaysConsistent, Stored
<1>2. CASE InboxStep
  BY <1>2, InboxStepIInv
<1>3. ASSUME NEW r \in Requests,
             RouteStep(r) \/ RepairIncomplete(r) \/ RepairStale(r)
      PROVE  IInv'
  BY <1>3, RouteStepIInv, RepairIncompleteIInv, RepairStaleIInv
<1>4. QED BY <1>1, <1>2, <1>3 DEF Next, Step, InboxStep, RouteStep

LEMMA Invariance == Spec => []IInv
BY InitIInv, NextIInv, PTL DEF Spec

-----------------------------------------------------------------------------
(* The theorems.                                                           *)

\* Every row, request and counter holds what its type says.
THEOREM TypeCorrect == Spec => []TypeOK
<1>1. IInv => TypeOK
  BY DEF IInv
<1>2. QED BY <1>1, Invariance, PTL

\* From the first repair on, every row satisfies the CHECK of migration 0015,
\* whoever emits, reads or repairs meanwhile.
THEOREM RepairIsLasting == Spec => []RepairedStaysConsistent
<1>1. IInv => RepairedStaysConsistent
  BY DEF IInv
<1>2. QED BY <1>1, Invariance, PTL

\* What an operator has read stays read.
THEOREM ReadIsLasting == Spec => ReadStaysRead
<1>1. ASSUME IInv, [Next]_vars, NEW k \in Stored, row[k].state = ReadBy
      PROVE  row'[k].state = ReadBy
  <2>0. k \in Keys
    BY DEF Stored
  <2>1. CASE Gentle
    BY <1>1, <2>0, <2>1 DEF Gentle
  <2>2. ASSUME NEW r \in Requests, RepairStale(r) PROVE row'[k].state = ReadBy
    <3>1. k \notin fixing[r] /\ ~Stale(row[k].state)
      BY <1>1, UnreadIsConsistent DEF IInv, FixingInv
    <3>2. QED BY <1>1, <2>2, <3>1, RepairRows
  <2>3. CASE UNCHANGED row
    BY <1>1, <2>3
  <2>4. CASE InboxStep
    BY <1>1, <2>1, <2>4, InboxStepIsGentle
  <2>5. ASSUME NEW r \in Requests, RouteStep(r) PROVE row'[k].state = ReadBy
    BY <1>1, <2>1, <2>5, RouteStepIsGentle
  <2>6. QED
    BY <1>1, <2>2, <2>3, <2>4, <2>5
    DEF Next, Step, InboxStep, RouteStep, RepairIncomplete, vars
<1>2. IInv /\ [Next]_vars =>
        [\A k \in Stored : row[k].state = ReadBy => row[k].state' = ReadBy]_vars
  BY <1>1
<1>3. QED BY <1>2, Invariance, PTL DEF Spec, ReadStaysRead

-----------------------------------------------------------------------------
(* The events that are missing.                                            *)

\* Requests that have acted and not yet told of it, and those about one key.
Acting == {r \in Requests : pc[r] = "acted"}
ActingOn(k) == {r \in Acting : key[r] = k}

\* Only the late keys lack events, and no fewer than are on their way.
CountInv ==
  /\ \A r \in Acting : key[r] \in Late
  /\ \A k \in Keys \ Late : done[k] = Told(k)
  /\ \A k \in Late : Told(k) + Cardinality(ActingOn(k)) <= done[k]
  /\ IsFiniteSet(Untold) /\ Cardinality(Untold) <= faults + Cardinality(Acting)

LEMMA ActingFinite ==
  /\ IsFiniteSet(Acting) /\ Cardinality(Acting) \in Nat
  /\ \A k : IsFiniteSet(ActingOn(k)) /\ Cardinality(ActingOn(k)) \in Nat
<1>1. Acting \in SUBSET Requests /\ \A k : ActingOn(k) \in SUBSET Requests
  BY DEF Acting, ActingOn
<1>2. IsFiniteSet(Acting) /\ \A k : IsFiniteSet(ActingOn(k))
  BY <1>1, FS_Subset, FeedAssumption
<1>3. QED BY <1>2, FS_CardinalityType

LEMMA ToldNat == TypeOK => \A k \in Keys : Told(k) \in Nat
BY DEF TypeOK, Told, Rows

\* Emitting tells of one action more.
LEMMA EmitTells ==
  ASSUME TypeOK, NEW k \in Keys, Emit(k)
  PROVE  /\ Told(k)' = Told(k) + 1
         /\ \A j \in Keys \ {k} : Told(j)' = Told(j)
<1>1. None \notin Rows
  BY FeedAssumption
<1>2. ASSUME row[k] = None PROVE Told(k)' = Told(k) + 1
  <2>1. row'[k] = [told |-> 1, state |-> Unread, work |-> {}]
    BY <1>2 DEF Emit, TypeOK
  <2>2. row'[k] \in Rows
    BY <2>1 DEF Rows, ReadStates, Unread
  <2>3. QED BY <1>1, <1>2, <2>1, <2>2 DEF Told
<1>3. ASSUME row[k] # None PROVE Told(k)' = Told(k) + 1
  <2>1. row'[k] = [row[k] EXCEPT !.told = row[k].told + 1] /\ row[k] \in Rows
    BY <1>3 DEF Emit, TypeOK
  <2>2. row'[k] \in Rows /\ row'[k].told = row[k].told + 1
    BY <2>1 DEF Rows
  <2>3. QED BY <1>1, <1>3, <2>2 DEF Told
<1>4. ASSUME NEW j \in Keys \ {k} PROVE Told(j)' = Told(j)
  BY DEF Emit, TypeOK, Told
<1>5. QED BY <1>2, <1>3, <1>4

\* Reading, working on or repairing a row does not touch what it was told.
LEMMA ToldKept ==
  ASSUME TypeOK, TypeOK',
         \A k \in Keys : \/ row'[k] = row[k]
                         \/ /\ k \in Stored /\ k \in Stored'
                            /\ row'[k].told = row[k].told
  PROVE  \A k \in Keys : Told(k)' = Told(k)
BY DEF Told, Stored

\* EXCEPT on the read state of a row.
LEMMA WithState ==
  ASSUME NEW x \in Rows, NEW state \in ReadStates
  PROVE  /\ [x EXCEPT !.state = state] \in Rows
         /\ [x EXCEPT !.state = state].told = x.told
BY DEF Rows

\* The inbox, the repair and a fault leave alone what the rows were told.
LEMMA QuietTold ==
  ASSUME IInv, IInv',
         \/ \E k \in Keys : MarkOneRead(k)
         \/ \E k \in Keys, work \in SUBSET {"acknowledged", "assigned"} :
              PatchWorkflow(k, work)
         \/ MarkAllRead
         \/ \E r \in Requests :
              RepairIncomplete(r) \/ RepairStale(r) \/ Fail(r)
         \/ UNCHANGED row
  PROVE  \A k \in Keys : Told(k)' = Told(k)
<1>0. TypeOK /\ TypeOK' /\ None \notin Rows
  BY FeedAssumption DEF IInv
<1> DEFINE Same(k) == \/ row'[k] = row[k]
                      \/ /\ k \in Stored /\ k \in Stored'
                         /\ row'[k].told = row[k].told
<1>1. ASSUME NEW ks \in SUBSET Stored, MarkRead(ks)
      PROVE  \A k \in Keys : Same(k)
  <2>1. ASSUME NEW k \in ks PROVE Same(k)
    <3>0. k \in Keys /\ k \in Stored /\ row[k] \in Rows
      BY <1>0 DEF Stored, TypeOK
    <3>1. row'[k] = [row[k] EXCEPT !.state = ReadBy]
      BY <1>1, <3>0 DEF MarkRead
    <3>2. row'[k] \in Rows /\ row'[k].told = row[k].told
      BY <3>0, <3>1, WithState, StateTypes
    <3>3. QED BY <1>0, <3>0, <3>2 DEF Stored
  <2>2. QED BY <1>1, <2>1 DEF MarkRead
<1>2. ASSUME NEW j \in Keys, NEW work \in SUBSET {"acknowledged", "assigned"},
             PatchWorkflow(j, work)
      PROVE  \A k \in Keys : Same(k)
  <2>1. /\ row'[j] = [row[j] EXCEPT !.work = work]
        /\ j \in Stored /\ row[j] \in Rows
        /\ \A k \in Keys \ {j} : row'[k] = row[k]
    BY <1>0, <1>2 DEF PatchWorkflow, Stored, TypeOK
  <2>2. row'[j] \in Rows /\ row'[j].told = row[j].told
    BY <2>1 DEF Rows
  <2>3. QED BY <1>0, <2>1, <2>2 DEF Stored
<1>3. ASSUME NEW r \in Requests, RepairStale(r) PROVE \A k \in Keys : Same(k)
  <2>1. SUFFICES ASSUME NEW k \in Keys, row'[k] # row[k] PROVE Same(k)
    OBVIOUS
  <2>2. k \in fixing[r] => k \in Stored
    BY <2>1 DEF IInv, FixingInv
  <2>3. row'[k] = [row[k] EXCEPT !.state = Unread] /\ k \in Stored
    BY <1>3, <2>2, <2>1 DEF RepairStale
  <2>4. /\ row'[k] = [row[k] EXCEPT !.state = Unread]
        /\ k \in Stored /\ row[k] \in Rows
    BY <1>0, <2>3 DEF Stored, TypeOK
  <2>5. row'[k] \in Rows /\ row'[k].told = row[k].told
    BY <2>4, WithState, StateTypes
  <2>6. QED BY <1>0, <2>4, <2>5 DEF Stored
<1>4. CASE UNCHANGED row
  BY <1>4 DEF Told
<1>5. \A k \in Keys : k \in Stored => {k} \in SUBSET Stored
  OBVIOUS
<1>6. {k \in Stored : ~row[k].state.read} \in SUBSET Stored
  OBVIOUS
<1>7. (\A k \in Keys : Same(k)) \/ UNCHANGED row
  BY <1>1, <1>2, <1>3, <1>5, <1>6
  DEF MarkOneRead, MarkAllRead, RepairIncomplete, Fail
<1>8. QED BY <1>0, <1>4, <1>7, ToldKept

LEMMA UntoldAre ==
  \A e : e \in Untold <=>
            \E k \in Keys : \E n \in (Told(k) + 1)..done[k] : e = <<k, n>>
BY DEF Untold

\* The first commit of a late key opens one more place.
LEMMA ActCounts ==
  ASSUME IInv, CountInv, NEW r \in Requests, NEW k \in Keys, Act(r, k)
  PROVE  CountInv'
<1>0. /\ pc[r] = "idle" /\ pc' = [pc EXCEPT ![r] = "acted"]
      /\ key' = [key EXCEPT ![r] = k] /\ k \in Late
      /\ done' = [done EXCEPT ![k] = done[k] + 1] /\ done[k] \in Nat
      /\ UNCHANGED <<row, faults>>
  BY DEF Act, Goto, Happen, IInv, TypeOK
<1>1. /\ \A j \in Keys : Told(j)' = Told(j) /\ Told(j) \in Nat
      /\ \A j \in Keys : done[j] \in Nat
  BY <1>0, ToldNat DEF Told, IInv, TypeOK
<1>2. /\ Acting' = Acting \cup {r} /\ r \notin Acting
      /\ ActingOn(k)' = ActingOn(k) \cup {r} /\ r \notin ActingOn(k)
      /\ \A j \in Keys \ {k} : ActingOn(j)' = ActingOn(j)
  BY <1>0 DEF Acting, ActingOn, IInv, TypeOK
<1>3. /\ Cardinality(Acting') = Cardinality(Acting) + 1
      /\ Cardinality(ActingOn(k)') = Cardinality(ActingOn(k)) + 1
  BY <1>2, ActingFinite, FS_AddElement
<1>4. done[k] + 1 > Told(k)
  BY <1>0, <1>1, ActingFinite DEF CountInv
<1>5. Untold' = Untold \cup {<<k, done[k] + 1>>}
  <2>1. (Told(k) + 1)..(done[k] + 1)
          = ((Told(k) + 1)..done[k]) \cup {done[k] + 1}
    BY <1>0, <1>1, <1>4
  <2>2. \A j \in Keys \ {k} : (Told(j)' + 1)..done'[j] = (Told(j) + 1)..done[j]
    BY <1>0, <1>1 DEF IInv, TypeOK
  <2>3. (Told(k)' + 1)..done'[k] = ((Told(k) + 1)..done[k]) \cup {done[k] + 1}
    BY <1>0, <1>1, <2>1 DEF IInv, TypeOK
  <2>4. \A e : e \in Untold' <=>
           \E j \in Keys : \E n \in (Told(j)' + 1)..done'[j] : e = <<j, n>>
    BY DEF Untold
  <2>5. ASSUME NEW j \in Keys, NEW n
        PROVE  n \in (Told(j)' + 1)..done'[j]
                 <=> n \in (Told(j) + 1)..done[j] \/ (j = k /\ n = done[k] + 1)
    BY <2>2, <2>3
  <2>6. ASSUME NEW e \in Untold' PROVE e \in Untold \cup {<<k, done[k] + 1>>}
    <3>1. PICK j \in Keys : \E n \in (Told(j)' + 1)..done'[j] : e = <<j, n>>
      BY <2>4
    <3>2. PICK n \in (Told(j)' + 1)..done'[j] : e = <<j, n>>
      BY <3>1
    <3>3. CASE j = k /\ n = done[k] + 1
      BY <3>2, <3>3
    <3>4. CASE n \in (Told(j) + 1)..done[j]
      BY <3>2, <3>4, UntoldAre
    <3>5. QED BY <2>5, <3>3, <3>4
  <2>7. ASSUME NEW e \in Untold PROVE e \in Untold'
    <3>1. PICK j \in Keys : \E n \in (Told(j) + 1)..done[j] : e = <<j, n>>
      BY UntoldAre
    <3>2. PICK n \in (Told(j) + 1)..done[j] : e = <<j, n>>
      BY <3>1
    <3>3. n \in (Told(j)' + 1)..done'[j]
      BY <2>5
    <3>4. QED BY <2>4, <3>2, <3>3
  <2>8. <<k, done[k] + 1>> \in Untold'
    <3>1. done[k] + 1 \in (Told(k)' + 1)..done'[k]
      BY <2>5
    <3>2. QED BY <2>4, <3>1
  <2>9. QED BY <2>6, <2>7, <2>8
<1>6. /\ IsFiniteSet(Untold')
      /\ Cardinality(Untold') <= Cardinality(Untold) + 1
      /\ Cardinality(Untold') \in Nat /\ Cardinality(Untold) \in Nat
  <2>1. IsFiniteSet(Untold)
    BY DEF CountInv
  <2>2. /\ IsFiniteSet(Untold')
        /\ Cardinality(Untold') = IF <<k, done[k] + 1>> \in Untold
                                  THEN Cardinality(Untold)
                                  ELSE Cardinality(Untold) + 1
    BY <1>5, <2>1, FS_AddElement
  <2>3. Cardinality(Untold) \in Nat /\ Cardinality(Untold') \in Nat
    BY <2>1, <2>2, FS_CardinalityType
  <2>4. QED BY <2>2, <2>3
<1>7. faults \in Nat
  BY FeedAssumption DEF IInv, TypeOK
<1>8. /\ \A q \in Acting' : key'[q] \in Late
      /\ \A j \in Keys \ Late : done'[j] = Told(j)'
  BY <1>0, <1>1, <1>2 DEF CountInv, IInv, TypeOK, Acting
<1>9. ASSUME NEW j \in Late
      PROVE  Told(j)' + Cardinality(ActingOn(j)') <= done'[j]
  <2>0. j \in Keys
    BY FeedAssumption
  <2>1. CASE j = k
    BY <1>0, <1>1, <1>3, <2>1, ActingFinite DEF CountInv, IInv, TypeOK
  <2>2. CASE j # k
    BY <1>0, <1>1, <1>2, <2>0, <2>2 DEF CountInv, IInv, TypeOK
  <2>3. QED BY <2>1, <2>2
<1>10. Cardinality(Untold') <= faults' + Cardinality(Acting')
  BY <1>0, <1>3, <1>6, <1>7, ActingFinite DEF CountInv
<1>11. QED BY <1>6, <1>8, <1>9, <1>10 DEF CountInv

\* An action with its event in one commit: no interval grows.
LEMMA ActAndEmitCounts ==
  ASSUME IInv, CountInv, NEW k \in Keys, ActAndEmit(k)
  PROVE  CountInv'
<1>0. /\ k \notin Late /\ Emit(k)
      /\ done' = [done EXCEPT ![k] = done[k] + 1]
      /\ UNCHANGED <<pc, key, faults>>
  BY DEF ActAndEmit, Happen, request
<1>1. /\ \A j \in Keys : Told(j) \in Nat /\ done[j] \in Nat
      /\ \A j \in Keys \ {k} : Told(j)' = Told(j)
      /\ Told(k)' = Told(k) + 1 /\ Told(k) = done[k]
  BY <1>0, ToldNat, EmitTells DEF IInv, TypeOK, CountInv
<1>2. Acting' = Acting /\ \A j : ActingOn(j)' = ActingOn(j)
  BY <1>0 DEF Acting, ActingOn
<1>3. Untold' = Untold
  <2>1. \A j \in Keys \ {k} : (Told(j)' + 1)..done'[j] = (Told(j) + 1)..done[j]
    BY <1>0, <1>1 DEF IInv, TypeOK
  <2>2. (Told(k)' + 1)..done'[k] = {} /\ (Told(k) + 1)..done[k] = {}
    BY <1>0, <1>1 DEF IInv, TypeOK
  <2>3. QED BY <2>1, <2>2 DEF Untold
<1>4. QED
  BY <1>0, <1>1, <1>2, <1>3, FeedAssumption
  DEF CountInv, IInv, TypeOK, Acting

\* The event closes the first place of its key's interval, and only the key's
\* own row can have told of less than was done: the key is late.
LEMMA EmitLateCounts ==
  ASSUME IInv, CountInv, NEW r \in Requests, EmitLate(r),
         NEW k, k = key[r]
  PROVE  CountInv'
<1>0. /\ pc[r] = "acted" /\ pc' = [pc EXCEPT ![r] = "idle"]
      /\ key' = [key EXCEPT ![r] = None] /\ Emit(k) /\ k \in Keys /\ k \in Late
      /\ UNCHANGED <<done, faults>>
  BY FeedAssumption DEF EmitLate, Answer, IInv, FixingInv, CountInv, Acting
<1>1. /\ r \in Acting /\ r \in ActingOn(k)
      /\ Acting' = Acting \ {r} /\ ActingOn(k)' = ActingOn(k) \ {r}
      /\ \A j \in Keys \ {k} : ActingOn(j)' = ActingOn(j)
  <2>1. /\ pc'[r] = "idle"
        /\ \A q \in Requests \ {r} : pc'[q] = pc[q] /\ key'[q] = key[q]
    BY <1>0 DEF IInv, TypeOK
  <2>2. r \in Acting /\ r \in ActingOn(k)
    BY <1>0 DEF Acting, ActingOn
  <2>3. Acting' = Acting \ {r}
    BY <2>1 DEF Acting
  <2>4. ActingOn(k)' = ActingOn(k) \ {r}
    BY <2>1, <2>3 DEF ActingOn, Acting
  <2>5. ASSUME NEW j \in Keys \ {k} PROVE ActingOn(j)' = ActingOn(j)
    BY <2>1, <2>3 DEF ActingOn, Acting
  <2>6. QED BY <2>2, <2>3, <2>4, <2>5
<1>2. /\ \A j \in Keys : Told(j) \in Nat /\ done[j] \in Nat
      /\ \A j \in Keys \ {k} : Told(j)' = Told(j)
      /\ Told(k)' = Told(k) + 1
  BY <1>0, ToldNat, EmitTells DEF IInv, TypeOK
<1>3. /\ Cardinality(Acting') = Cardinality(Acting) - 1
      /\ Cardinality(ActingOn(k)') = Cardinality(ActingOn(k)) - 1
  <2>1. Cardinality(Acting \ {r}) = Cardinality(Acting) - 1
    BY <1>1, ActingFinite, FS_RemoveElement
  <2>2. Cardinality(ActingOn(k) \ {r}) = Cardinality(ActingOn(k)) - 1
    BY <1>1, ActingFinite, FS_RemoveElement
  <2>3. QED BY <1>1, <2>1, <2>2
<1>4. Cardinality(ActingOn(k)) >= 1
  <2>1. Cardinality(ActingOn(k)) # 0
    BY <1>1, ActingFinite, FS_EmptySet
  <2>2. QED BY <2>1, ActingFinite
<1>5. Told(k) + 1 <= done[k]
  BY <1>0, <1>2, <1>4, ActingFinite DEF CountInv
<1>e. PICK e : e = <<k, Told(k) + 1>>
  OBVIOUS
<1>6. Untold' = Untold \ {e} /\ e \in Untold
  <2>1. \A j \in Keys \ {k} : (Told(j)' + 1)..done'[j] = (Told(j) + 1)..done[j]
    BY <1>0, <1>2
  <2>2. /\ Told(k) + 1 \in (Told(k) + 1)..done[k]
        /\ (Told(k)' + 1)..done'[k] = ((Told(k) + 1)..done[k]) \ {Told(k) + 1}
    BY <1>0, <1>2, <1>5
  <2>3. \A x : x \in Untold' <=>
           \E j \in Keys : \E n \in (Told(j)' + 1)..done'[j] : x = <<j, n>>
    BY DEF Untold
  <2>4. e \in Untold
    BY <1>e, <1>0, <2>2, UntoldAre
  <2>5. ASSUME NEW j \in Keys, NEW n
        PROVE  n \in (Told(j)' + 1)..done'[j]
                 <=> /\ n \in (Told(j) + 1)..done[j]
                     /\ ~(j = k /\ n = Told(k) + 1)
    BY <2>1, <2>2
  <2>6. ASSUME NEW x \in Untold' PROVE x \in Untold /\ x # e
    <3>1. PICK j \in Keys : \E n \in (Told(j)' + 1)..done'[j] : x = <<j, n>>
      BY <2>3
    <3>2. PICK n \in (Told(j)' + 1)..done'[j] : x = <<j, n>>
      BY <3>1
    <3>3. n \in (Told(j) + 1)..done[j] /\ ~(j = k /\ n = Told(k) + 1)
      BY <2>5
    <3>4. QED BY <1>e, <3>2, <3>3, UntoldAre
  <2>7. ASSUME NEW x \in Untold, x # e PROVE x \in Untold'
    <3>1. PICK j \in Keys : \E n \in (Told(j) + 1)..done[j] : x = <<j, n>>
      BY UntoldAre
    <3>2. PICK n \in (Told(j) + 1)..done[j] : x = <<j, n>>
      BY <3>1
    <3>3. n \in (Told(j)' + 1)..done'[j]
      BY <1>e, <2>5, <2>7, <3>2
    <3>4. QED BY <2>3, <3>2, <3>3
  <2>8. QED BY <2>4, <2>6, <2>7
<1>7. /\ IsFiniteSet(Untold') /\ Cardinality(Untold') = Cardinality(Untold) - 1
      /\ Cardinality(Untold) \in Nat
  <2>1. IsFiniteSet(Untold)
    BY DEF CountInv
  <2>2. QED BY <1>6, <2>1, FS_RemoveElement, FS_CardinalityType
<1>8. faults \in Nat
  BY FeedAssumption DEF IInv, TypeOK
<1>9. /\ \A q \in Acting' : key'[q] \in Late
      /\ \A j \in Keys \ Late : done'[j] = Told(j)'
  <2>1. \A q \in Acting' : q \in Acting /\ key'[q] = key[q]
    BY <1>0, <1>1 DEF Acting, IInv, TypeOK
  <2>2. QED BY <1>0, <1>2, <2>1 DEF CountInv
<1>10. ASSUME NEW j \in Late
       PROVE  Told(j)' + Cardinality(ActingOn(j)') <= done'[j]
  <2>0. j \in Keys
    BY FeedAssumption
  <2>1. CASE j = k
    BY <1>0, <1>2, <1>3, <2>1, ActingFinite DEF CountInv
  <2>2. CASE j # k
    BY <1>0, <1>1, <1>2, <2>0, <2>2 DEF CountInv
  <2>3. QED BY <2>1, <2>2
<1>11. Cardinality(Untold') <= faults' + Cardinality(Acting')
  BY <1>0, <1>3, <1>7, <1>8, ActingFinite DEF CountInv
<1>12. QED BY <1>7, <1>9, <1>10, <1>11 DEF CountInv

\* A request that dies between its commits leaves its action to the faults.
LEMMA FailCounts ==
  ASSUME IInv, IInv', CountInv, NEW r \in Requests, Fail(r)
  PROVE  CountInv'
<1>0. /\ pc' = [pc EXCEPT ![r] = "idle"] /\ key' = [key EXCEPT ![r] = None]
      /\ faults' = faults + 1 /\ UNCHANGED <<done, row>>
  BY DEF Fail, Answer
<1>1. /\ Acting' = Acting \ {r}
      /\ \A j \in Keys : ActingOn(j)' = ActingOn(j) \ {r}
  BY <1>0 DEF Acting, ActingOn, IInv, TypeOK
<1>2. Untold' = Untold /\ \A k \in Keys : Told(k)' = Told(k)
  BY <1>0 DEF Told, Untold
<1>3. /\ Cardinality(Acting) <= Cardinality(Acting') + 1
      /\ Cardinality(Acting') \in Nat
  <2>1. CASE r \in Acting
    <3>1. /\ IsFiniteSet(Acting \ {r})
          /\ Cardinality(Acting \ {r}) = Cardinality(Acting) - 1
      BY <2>1, ActingFinite, FS_RemoveElement
    <3>2. Cardinality(Acting \ {r}) \in Nat
      BY <3>1, FS_CardinalityType
    <3>3. QED BY <1>1, <3>1, <3>2, ActingFinite
  <2>2. CASE r \notin Acting
    <3>1. Acting' = Acting
      BY <1>1, <2>2
    <3>2. QED BY <3>1, ActingFinite
  <2>3. QED BY <2>1, <2>2
<1>4. \A j \in Keys : /\ Cardinality(ActingOn(j)') <= Cardinality(ActingOn(j))
                      /\ Cardinality(ActingOn(j)') \in Nat
  <2>1. SUFFICES ASSUME NEW j \in Keys
          PROVE  /\ Cardinality(ActingOn(j)') <= Cardinality(ActingOn(j))
                 /\ Cardinality(ActingOn(j)') \in Nat
    OBVIOUS
  <2>2. ActingOn(j)' \in SUBSET ActingOn(j)
    BY <1>1
  <2>3. QED BY <2>2, ActingFinite, FS_Subset, FS_CardinalityType
<1>5. faults \in Nat /\ Cardinality(Untold) \in Nat /\ IsFiniteSet(Untold)
  BY FeedAssumption, FS_CardinalityType DEF IInv, TypeOK, CountInv
<1>6. Cardinality(Untold') <= faults' + Cardinality(Acting')
  BY <1>0, <1>2, <1>3, <1>5, ActingFinite DEF CountInv
<1>7. \A j \in Late : Told(j)' + Cardinality(ActingOn(j)') <= done'[j]
  <2>1. \A j \in Late : j \in Keys /\ Told(j) \in Nat /\ done[j] \in Nat
    BY ToldNat, FeedAssumption DEF IInv, TypeOK
  <2>2. QED BY <1>0, <1>2, <1>4, <2>1, ActingFinite DEF CountInv
<1>8. /\ \A q \in Acting' : key'[q] \in Late
      /\ \A j \in Keys \ Late : done'[j] = Told(j)'
  BY <1>0, <1>1, <1>2 DEF CountInv, IInv, TypeOK, Acting
<1>9. QED BY <1>2, <1>5, <1>6, <1>7, <1>8 DEF CountInv

\* Every other step keeps the counts as they are.
LEMMA QuietCounts ==
  ASSUME CountInv, UNCHANGED <<done, faults>>,
         Acting' = Acting, \A r \in Acting : key'[r] = key[r],
         \A k \in Keys : Told(k)' = Told(k)
  PROVE  CountInv'
<1>1. Untold' = Untold
  BY DEF Untold
<1>2. \A k : ActingOn(k)' = ActingOn(k)
  BY DEF ActingOn
<1>3. QED BY <1>1, <1>2, FeedAssumption DEF CountInv

LEMMA NextCounts == IInv /\ IInv' /\ CountInv /\ [Next]_vars => CountInv'
<1> SUFFICES ASSUME IInv, IInv', CountInv, [Next]_vars PROVE CountInv'
  OBVIOUS
<1>1. CASE \/ \E k \in Keys : MarkOneRead(k)
           \/ \E k \in Keys, work \in SUBSET {"acknowledged", "assigned"} :
                PatchWorkflow(k, work)
           \/ MarkAllRead
  <2>1. UNCHANGED <<done, request, faults>>
    BY <1>1 DEF MarkOneRead, MarkAllRead, MarkRead, PatchWorkflow
  <2>2. QED BY <1>1, <2>1, QuietTold, QuietCounts DEF request, Acting
<1>2. ASSUME NEW r \in Requests, RepairIncomplete(r) \/ RepairStale(r)
      PROVE  CountInv'
  <2>1. UNCHANGED <<done, faults>> /\ Acting' = Acting
        /\ \A q \in Acting : key'[q] = key[q]
    BY <1>2
    DEF RepairIncomplete, RepairStale, Goto, Answer, Acting, IInv, TypeOK
  <2>2. QED BY <1>2, <2>1, QuietTold, QuietCounts
<1>3. CASE UNCHANGED vars
  BY <1>3, QuietTold, QuietCounts DEF vars, request, Acting
<1>4. QED
  BY <1>1, <1>2, <1>3, ActCounts, ActAndEmitCounts, EmitLateCounts, FailCounts
  DEF Next, Step

LEMMA InitCounts == Init => CountInv
<1> SUFFICES ASSUME Init PROVE CountInv
  OBVIOUS
<1>1. Acting = {} /\ \A k : ActingOn(k) = {}
  BY DEF Init, Acting, ActingOn
<1>2. \A k \in Keys : Told(k) = done[k] /\ done[k] \in Nat
  BY FeedAssumption DEF Init, Told
<1>3. \A k \in Keys : (Told(k) + 1)..done[k] = {}
  BY <1>2
<1>4. Untold = {}
  BY <1>3 DEF Untold
<1>5. IsFiniteSet({}) /\ Cardinality({}) = 0
  BY FS_EmptySet
<1>6. /\ \A r \in Acting : key[r] \in Late
      /\ \A k \in Keys \ Late : done[k] = Told(k)
  BY <1>1, <1>2
<1>7. ASSUME NEW k \in Late
      PROVE  Told(k) + Cardinality(ActingOn(k)) <= done[k]
  <2>1. k \in Keys
    BY FeedAssumption
  <2>2. Cardinality(ActingOn(k)) = 0
    BY <1>1, <1>5
  <2>3. QED BY <1>2, <2>1, <2>2
<1>8. Cardinality(Untold) <= faults + Cardinality(Acting)
  <2>1. faults = 0 /\ Cardinality(Untold) = 0 /\ Cardinality(Acting) = 0
    BY <1>1, <1>4, <1>5 DEF Init
  <2>2. QED BY <2>1
<1>9. QED BY <1>4, <1>5, <1>6, <1>7, <1>8 DEF CountInv

\* An action is missing from the feed only while its route is on its way, or
\* with a fault that lost it.
THEOREM EventsMissed == Spec => []OneMissingEventPerFault
<1>1. CountInv => OneMissingEventPerFault
  BY DEF CountInv, OneMissingEventPerFault, Acting
<1>2. QED BY <1>1, InitIInv, InitCounts, NextIInv, NextCounts, PTL DEF Spec

-----------------------------------------------------------------------------
(* The Content Studio.                                                     *)

CONSTANTS Sections, Positions, Texts, Revisions, MaxEdits
VARIABLES page, sections, revisions, cpc, rev, snap, deleted, used, edits,
          changed

C == INSTANCE ContentStudio WITH pc <- cpc

\* A page with the status has had its date since.
Dated(pg) == /\ pg.status = "published" => pg.published
             /\ pg.status = "archived" => pg.archived

\* What is stored was on the page once: dated, and of sections that had an id.
WasOnPage(sn) == /\ sn \in C!Snapshots /\ Dated(sn.page)
                 /\ C!Live(sn.sections) \subseteq used

RowsInv ==
  /\ Dated(page) /\ C!Live(sections) \subseteq used
  /\ \A v \in Revisions : revisions[v] # None => WasOnPage(revisions[v])

\* Who is between the UPDATE of the page and the commit.
RollingBack(r) == cpc[r] \in {"updated", "deleted", "inserted"}

\* What a request holds was stored on the page; only what can be restored is
\* being restored.
HeldRequests ==
  \A r \in Requests : cpc[r] # "idle" =>
    /\ WasOnPage(snap[r])
    /\ cpc[r] = "publishing" => rev[r] \in Revisions
    /\ RollingBack(r) => C!Restorable(snap[r])

\* The page row admits one rollback at a time.
OneRollback ==
  \A r, q \in Requests : RollingBack(r) /\ RollingBack(q) => r = q

\* What a request holds is what the tables say, till another one commits.
NothingMissed ==
  \A r \in Requests \ changed :
    /\ cpc[r] = "publishing" =>
         /\ snap[r].sections = sections
         /\ snap[r].page.text = page.text
    /\ cpc[r] \in {"deleted", "inserted"} => C!Kept(r) = {}

\* A section that survives a rollback is none that it brings back.
KeptApart ==
  \A r \in Requests : cpc[r] = "inserted" =>
    C!Kept(r) \cap C!Live(snap[r].sections) = {}

StudioInv ==
  /\ C!TypeOK /\ RowsInv /\ HeldRequests
  /\ OneRollback /\ NothingMissed /\ KeptApart

LEMMA InitStudioInv ==
  ASSUME C!StudioAssumption
  PROVE  C!Init => StudioInv
<1> SUFFICES ASSUME C!Init PROVE StudioInv
  OBVIOUS
<1> USE DEF C!StudioAssumption, C!Init, C!NoSections
<1>0. page.status = "draft" /\ page \in C!Pages
  BY DEF C!Pages
<1>1. C!TypeOK
  BY <1>0 DEF C!TypeOK, C!Layouts
<1>2. RowsInv
  BY <1>0 DEF RowsInv, Dated, C!Live
<1>3. HeldRequests /\ OneRollback /\ NothingMissed /\ KeptApart
  BY DEF HeldRequests, OneRollback, NothingMissed, KeptApart, RollingBack
<1>4. QED BY <1>1, <1>2, <1>3 DEF StudioInv

LEMMA StillStored ==
  ASSUME C!StudioAssumption,
         NEW sn, WasOnPage(sn), used \subseteq used'
  PROVE  WasOnPage(sn)'
BY DEF WasOnPage

\* A commit of one statement: who is in progress has missed something.
LEMMA CommitStudioInv ==
  ASSUME C!StudioAssumption,
         StudioInv, C!TypeOK',
         UNCHANGED <<revisions, C!request>>, used \subseteq used',
         Dated(page'), C!Live(sections') \subseteq used',
         changed' = changed \cup {r \in Requests : cpc[r] # "idle"},
         KeptApart'
  PROVE  StudioInv'
<1> USE DEF C!request
<1>1. RowsInv'
  BY StillStored DEF StudioInv, RowsInv
<1>2. HeldRequests'
  BY StillStored DEF StudioInv, HeldRequests, RollingBack
<1>3. OneRollback'
  BY DEF StudioInv, OneRollback, RollingBack
<1>4. NothingMissed'
  BY DEF NothingMissed
<1>5. QED BY <1>1, <1>2, <1>3, <1>4 DEF StudioInv

LEMMA PatchPageStudioInv ==
  ASSUME C!StudioAssumption,
         StudioInv, \/ \E t \in Texts : C!PatchPage(t)
               \/ \E status \in {"draft", "archived"} : C!PatchStatus(status)
  PROVE  StudioInv'
<1>1. /\ UNCHANGED <<sections, revisions, C!request, used>>
      /\ changed' = changed \cup {r \in Requests : cpc[r] # "idle"}
      /\ edits' \in 0..MaxEdits
  BY DEF C!StudioAssumption, C!PatchPage, C!PatchStatus, C!Edit, StudioInv,
         C!TypeOK
<1>2. page' \in C!Pages /\ Dated(page')
  <2>1. ASSUME NEW t \in Texts, C!PatchPage(t)
        PROVE  page' \in C!Pages /\ Dated(page')
    BY <2>1 DEF C!PatchPage, StudioInv, C!TypeOK, RowsInv, C!Pages, Dated
  <2>2. ASSUME NEW status \in {"draft", "archived"}, C!PatchStatus(status)
        PROVE  page' \in C!Pages /\ Dated(page')
    BY <2>2
    DEF C!PatchStatus, C!WithStatus, StudioInv, C!TypeOK, RowsInv, C!Pages,
        Dated
  <2>3. QED BY <2>1, <2>2
<1>3. C!TypeOK'
  BY <1>1, <1>2 DEF StudioInv, C!TypeOK, C!request
<1>4. KeptApart'
  BY <1>1 DEF StudioInv, KeptApart, C!Kept, C!Live, C!request
<1>5. QED BY <1>1, <1>2, <1>3, <1>4, CommitStudioInv DEF StudioInv, RowsInv

\* What a rollback has still to insert are ids that were given out before.
LEMMA EditSectionStudioInv ==
  ASSUME C!StudioAssumption,
         StudioInv, NEW s \in Sections,
         \/ \E p \in Positions : C!CreateSection(s, p) \/ C!PatchSection(s, p)
         \/ C!DeleteSection(s)
  PROVE  StudioInv'
<1>1. /\ UNCHANGED <<page, revisions, C!request>>
      /\ changed' = changed \cup {r \in Requests : cpc[r] # "idle"}
      /\ edits' \in 0..MaxEdits
  BY DEF C!StudioAssumption, C!CreateSection, C!PatchSection, C!DeleteSection,
         C!Edit, StudioInv, C!TypeOK
<1>2. /\ \/ s \notin used /\ used' = used \cup {s}
         \/ s \in C!Live(sections) /\ used' = used
      /\ \E x \in Positions \cup {None} :
           sections' = [sections EXCEPT ![s] = x]
  BY DEF C!CreateSection, C!PatchSection, C!DeleteSection
<1>3. C!TypeOK'
  BY <1>1, <1>2 DEF StudioInv, C!TypeOK, C!Layouts, C!request
<1>4. /\ used \subseteq used' /\ C!Live(sections') \subseteq used'
      /\ \A x \in C!Live(sections') :
           x \in C!Live(sections) \/ (x = s /\ s \notin used)
  BY <1>2 DEF StudioInv, C!TypeOK, C!Layouts, RowsInv, C!Live
<1>5. KeptApart'
  <2>1. ASSUME NEW r \in Requests, cpc[r] = "inserted",
               NEW x \in C!Kept(r)', x \in C!Live(snap[r].sections)
        PROVE  FALSE
    <3>1. x \in C!Live(sections') /\ x \notin deleted[r]
      BY <1>1, <2>1 DEF C!Kept, C!request, C!Live
    <3>2. C!Live(snap[r].sections) \subseteq used
      BY <2>1 DEF StudioInv, HeldRequests, WasOnPage
    <3>3. x \in C!Live(sections)
      BY <1>4, <2>1, <3>1, <3>2
    <3>4. x \in C!Kept(r)
      BY <3>1, <3>3 DEF C!Kept
    <3>5. QED BY <2>1, <3>4 DEF StudioInv, KeptApart
  <2>2. QED BY <1>1, <2>1 DEF KeptApart, C!request, C!Live
<1>6. QED BY <1>1, <1>3, <1>4, <1>5, CommitStudioInv DEF StudioInv, RowsInv

OthersKept(r) ==
  \A q \in Requests \ {r} :
    /\ cpc'[q] = cpc[q] /\ rev'[q] = rev[q]
    /\ snap'[q] = snap[q] /\ deleted'[q] = deleted[q]

\* A request that takes its next step, fails or ends, and changes no row.
LEMMA MoveStudioInv ==
  ASSUME C!StudioAssumption,
         StudioInv, C!TypeOK', NEW r \in Requests, OthersKept(r),
         UNCHANGED <<C!rows, used>>,
         changed' = changed \/ changed' = changed \ {r},
         cpc'[r] # "idle" => WasOnPage(snap'[r]),
         cpc'[r] = "publishing" =>
           /\ rev'[r] \in Revisions
           /\ snap'[r].sections = sections /\ snap'[r].page.text = page.text,
         RollingBack(r)' =>
           /\ C!Restorable(snap'[r])
           /\ \A q \in Requests \ {r} : ~RollingBack(q),
         cpc'[r] \in {"deleted", "inserted"} /\ r \notin changed' =>
           C!Kept(r)' = {},
         cpc'[r] = "inserted" => C!Kept(r)' \cap C!Live(snap'[r].sections) = {}
  PROVE  StudioInv'
<1>1. RowsInv'
  BY StillStored DEF StudioInv, RowsInv, C!rows
<1>2. HeldRequests'
  BY StillStored DEF StudioInv, HeldRequests, OthersKept, RollingBack
<1>3. OneRollback'
  BY DEF StudioInv, OneRollback, OthersKept, RollingBack
<1>4. \A q \in Requests \ {r} : C!Kept(q)' = C!Kept(q)
  BY DEF OthersKept, C!Kept, C!Live, C!rows
<1>5. NothingMissed'
  BY <1>4 DEF StudioInv, NothingMissed, OthersKept, C!rows
<1>6. KeptApart'
  BY <1>4 DEF StudioInv, KeptApart, OthersKept, C!rows
<1>7. QED BY <1>1, <1>2, <1>3, <1>5, <1>6 DEF StudioInv

LEMMA BeginStudioInv ==
  ASSUME C!StudioAssumption,
         StudioInv, NEW r \in Requests, NEW v \in Revisions,
         C!CreatePageRevision(r, v) \/ C!ReadRevision(r, v)
  PROVE  StudioInv'
<1>1. /\ UNCHANGED <<C!rows, used, deleted, edits, changed>>
      /\ \/ /\ cpc' = [cpc EXCEPT ![r] = "publishing"]
            /\ rev' = [rev EXCEPT ![r] = v]
            /\ snap' = [snap EXCEPT
                          ![r] = [page |-> page, sections |-> sections]]
         \/ /\ cpc' = [cpc EXCEPT ![r] = "read"] /\ rev' = rev
            /\ revisions[v] # None
            /\ snap' = [snap EXCEPT ![r] = revisions[v]]
  BY DEF C!CreatePageRevision, C!ReadRevision, C!Goto
<1>2. WasOnPage([page |-> page, sections |-> sections])
  BY DEF StudioInv, C!TypeOK, RowsInv, WasOnPage, C!Snapshots
<1>3. revisions[v] # None => WasOnPage(revisions[v])
  BY DEF StudioInv, RowsInv
<1>4. C!TypeOK'
  BY <1>1, <1>2, <1>3 DEF StudioInv, C!TypeOK, C!rows, WasOnPage
<1>5. OthersKept(r)
  BY <1>1 DEF OthersKept, StudioInv, C!TypeOK
<1>6. \/ /\ cpc'[r] = "publishing" /\ rev'[r] = v
         /\ snap'[r] = [page |-> page, sections |-> sections]
      \/ cpc'[r] = "read" /\ WasOnPage(snap'[r])
  BY <1>1, <1>3 DEF StudioInv, C!TypeOK
<1>7. QED BY <1>1, <1>2, <1>4, <1>5, <1>6, MoveStudioInv DEF RollingBack

LEMMA FailStudioInv ==
  ASSUME C!StudioAssumption,
         StudioInv, NEW r \in Requests, C!Fail(r)
  PROVE  StudioInv'
<1>1. C!TypeOK' /\ OthersKept(r) /\ cpc'[r] = "idle"
  BY DEF C!Fail, C!Done, StudioInv, C!TypeOK, OthersKept, C!rows
<1>2. QED BY <1>1, MoveStudioInv DEF C!Fail, RollingBack

\* The UPDATE waits for the rollback that has the page.
LEMMA RollbackStepStudioInv ==
  ASSUME C!StudioAssumption,
         StudioInv, NEW r \in Requests,
         C!UpdatePage(r) \/ C!DeleteSections(r) \/ C!InsertSections(r)
  PROVE  StudioInv'
<1>1. /\ UNCHANGED <<C!rows, used, edits, rev, snap>>
      /\ changed' = changed \/ changed' = changed \ {r}
      /\ OthersKept(r) /\ C!TypeOK'
  BY DEF C!UpdatePage, C!DeleteSections, C!InsertSections, C!Goto, StudioInv,
         C!TypeOK, C!rows, OthersKept, C!Live
<1>2. /\ C!Restorable(snap[r]) /\ WasOnPage(snap[r])
      /\ \A q \in Requests \ {r} : ~RollingBack(q)
  BY DEF C!UpdatePage, C!DeleteSections, C!InsertSections, C!Goto, C!PageFree,
         StudioInv, HeldRequests, OneRollback, RollingBack
<1>3. CASE C!UpdatePage(r)
  <2>1. cpc'[r] = "updated"
    BY <1>3 DEF C!UpdatePage, C!Goto, StudioInv, C!TypeOK
  <2>2. QED BY <1>1, <1>2, <2>1, MoveStudioInv DEF RollingBack
<1>4. CASE C!DeleteSections(r)
  <2>1. cpc'[r] = "deleted" /\ deleted'[r] = C!Live(sections)
    BY <1>4 DEF C!DeleteSections, C!Goto, StudioInv, C!TypeOK
  <2>2. C!Kept(r)' = {}
    BY <1>1, <2>1 DEF C!Kept, C!Live, C!rows
  <2>3. QED BY <1>1, <1>2, <2>1, <2>2, MoveStudioInv DEF RollingBack
<1>5. CASE C!InsertSections(r)
  <2>1. /\ cpc'[r] = "inserted" /\ cpc[r] = "deleted"
        /\ UNCHANGED <<deleted, changed>>
    BY <1>5 DEF C!InsertSections, C!Goto, StudioInv, C!TypeOK
  <2>2. C!Kept(r)' = C!Kept(r)
    BY <1>1, <2>1 DEF C!Kept, C!Live, C!rows
  <2>3. C!Kept(r) \cap C!Live(snap[r].sections) = {}
    BY <1>5 DEF C!InsertSections
  <2>4. r \notin changed => C!Kept(r) = {}
    BY <2>1 DEF StudioInv, NothingMissed
  <2>5. QED BY <1>1, <1>2, <2>1, <2>2, <2>3, <2>4, MoveStudioInv
            DEF RollingBack
<1>6. QED BY <1>3, <1>4, <1>5

\* A commit of several statements: the page and its sections are new, and who
\* else is in progress, no rollback among them, has missed it.
LEMMA DoneStudioInv ==
  ASSUME C!StudioAssumption,
         StudioInv, C!TypeOK', NEW r \in Requests, C!Done(r),
         used' = used, changed' = (changed \cup C!Others(r)) \ {r},
         \A q \in Requests \ {r} : ~RollingBack(q),
         Dated(page'), C!Live(sections') \subseteq used,
         \A v \in Revisions : revisions'[v] # None => WasOnPage(revisions'[v])
  PROVE  StudioInv'
<1>1. cpc'[r] = "idle" /\ OthersKept(r)
  BY DEF C!Done, OthersKept, StudioInv, C!TypeOK
<1>2. RowsInv'
  BY StillStored DEF RowsInv
<1>3. HeldRequests'
  BY <1>1, StillStored DEF StudioInv, HeldRequests, OthersKept, RollingBack
<1>4. OneRollback' /\ KeptApart'
  BY <1>1 DEF OneRollback, KeptApart, OthersKept, RollingBack
<1>5. NothingMissed'
  BY <1>1 DEF NothingMissed, OthersKept, C!Others
<1>6. QED BY <1>2, <1>3, <1>4, <1>5 DEF StudioInv

LEMMA PublishStudioInv ==
  ASSUME C!StudioAssumption,
         StudioInv, NEW r \in Requests, C!Publish(r)
  PROVE  StudioInv'
<1>1. /\ rev[r] \in Revisions /\ WasOnPage(snap[r])
      /\ page' = C!WithStatus(page, "published") /\ sections' = sections
      /\ revisions' = [revisions EXCEPT ![rev[r]] = snap[r]]
      /\ changed' = (changed \cup C!Others(r)) \ {r} /\ C!Done(r)
      /\ used' = used /\ edits' = edits
      /\ \A q \in Requests : ~RollingBack(q)
  BY DEF C!Publish, C!PageFree, StudioInv, HeldRequests, RollingBack
<1>2. page' \in C!Pages /\ Dated(page')
  BY <1>1 DEF C!WithStatus, StudioInv, C!TypeOK, RowsInv, C!Pages, Dated
<1>3. C!TypeOK'
  BY <1>1, <1>2 DEF StudioInv, C!TypeOK, WasOnPage, C!Done, C!Others
<1>4. \A v \in Revisions : revisions'[v] # None => WasOnPage(revisions'[v])
  BY <1>1 DEF StudioInv, C!TypeOK, RowsInv
<1>5. C!Live(sections') \subseteq used
  BY <1>1 DEF StudioInv, RowsInv, C!Live
<1>6. QED BY <1>1, <1>2, <1>3, <1>4, <1>5, DoneStudioInv

LEMMA CommitRollbackStudioInv ==
  ASSUME C!StudioAssumption,
         StudioInv, NEW r \in Requests, C!CommitRollback(r)
  PROVE  StudioInv'
<1>1. /\ WasOnPage(snap[r]) /\ page' = snap[r].page
      /\ sections' = [s \in Sections |->
             IF s \in C!Kept(r) THEN sections[s] ELSE snap[r].sections[s]]
      /\ changed' = (changed \cup C!Others(r)) \ {r} /\ C!Done(r)
      /\ UNCHANGED <<revisions, used, edits>>
      /\ \A q \in Requests \ {r} : ~RollingBack(q)
  BY DEF C!CommitRollback, StudioInv, HeldRequests, OneRollback, RollingBack
<1>2. /\ page' \in C!Pages /\ Dated(page') /\ snap[r].sections \in C!Layouts
      /\ C!Live(snap[r].sections) \subseteq used
  BY <1>1 DEF WasOnPage, C!Snapshots
<1>3. sections' \in C!Layouts /\ C!Live(sections') \subseteq used
  BY <1>1, <1>2 DEF StudioInv, C!TypeOK, RowsInv, C!Layouts, C!Live
<1>4. C!TypeOK'
  BY <1>1, <1>2, <1>3 DEF StudioInv, C!TypeOK, C!Done, C!Others
<1>5. \A v \in Revisions : revisions'[v] # None => WasOnPage(revisions'[v])
  BY <1>1 DEF StudioInv, RowsInv
<1>6. QED BY <1>1, <1>2, <1>3, <1>4, <1>5, DoneStudioInv

LEMMA NextStudioInv ==
  ASSUME C!StudioAssumption
  PROVE  StudioInv /\ [C!Next]_(C!vars) => StudioInv'
<1> SUFFICES ASSUME StudioInv, [C!Next]_(C!vars) PROVE StudioInv'
  OBVIOUS
<1>1. CASE UNCHANGED C!vars
  BY <1>1
  DEF C!vars, C!rows, C!request, StudioInv, C!TypeOK, RowsInv, HeldRequests,
      OneRollback, NothingMissed, KeptApart, WasOnPage, C!Kept, RollingBack
<1>2. ASSUME NEW r \in Requests, C!Step(r) PROVE StudioInv'
  BY <1>2, BeginStudioInv, PublishStudioInv, RollbackStepStudioInv,
     CommitRollbackStudioInv, FailStudioInv
  DEF C!Step
<1>3. QED BY <1>1, <1>2, PatchPageStudioInv, EditSectionStudioInv DEF C!Next

LEMMA StudioInvariance ==
  ASSUME C!StudioAssumption
  PROVE  C!Spec => []StudioInv
BY InitStudioInv, NextStudioInv, PTL DEF C!Spec

\* The page, its sections and revisions, and what the publishes and rollbacks
\* hold of them, keep their types.
THEOREM StudioTypeCorrect ==
  ASSUME C!StudioAssumption
  PROVE  C!Spec => []C!TypeOK
<1>1. StudioInv => C!TypeOK
  BY DEF StudioInv
<1>2. QED BY <1>1, StudioInvariance, PTL

\* What a rollback leaves is its snapshot, for any interleaving of the edits,
\* publishes and rollbacks of a page.
THEOREM RollbackIsExact ==
  ASSUME C!StudioAssumption
  PROVE  C!Spec => C!RollbackRestores
<1>1. ASSUME StudioInv, NEW r \in Requests, C!CommitRollback(r)
      PROVE  /\ page' = snap[r].page
             /\ \A s \in C!Live(snap[r].sections) :
                  sections'[s] = snap[r].sections[s]
             /\ sections' = snap[r].sections \/ r \in changed
  <2>1. /\ cpc[r] = "inserted" /\ page' = snap[r].page
        /\ sections' = [s \in Sections |->
             IF s \in C!Kept(r) THEN sections[s] ELSE snap[r].sections[s]]
    BY <1>1 DEF C!CommitRollback
  <2>2. /\ C!Kept(r) \cap C!Live(snap[r].sections) = {}
        /\ snap[r].sections \in C!Layouts
    BY <1>1, <2>1
    DEF StudioInv, KeptApart, HeldRequests, WasOnPage, C!Snapshots
  <2>3. r \notin changed => C!Kept(r) = {}
    BY <1>1, <2>1 DEF StudioInv, NothingMissed
  <2>4. QED BY <2>1, <2>2, <2>3 DEF C!Live, C!Layouts
<1>2. StudioInv /\ [C!Next]_(C!vars) =>
        [\A r \in Requests : C!CommitRollback(r) =>
           /\ page' = snap[r].page
           /\ \A s \in C!Live(snap[r].sections) :
                sections'[s] = snap[r].sections[s]
           /\ sections' = snap[r].sections \/ r \in changed]_(C!vars)
  BY <1>1
<1>3. QED BY <1>2, StudioInvariance, PTL DEF C!Spec, C!RollbackRestores

\* No rollback puts a page online or leaves it archived.
THEOREM RollbackIsDraft ==
  ASSUME C!StudioAssumption
  PROVE  C!Spec => C!RollbackLeavesDraft
<1>1. ASSUME StudioInv, NEW r \in Requests, C!CommitRollback(r)
      PROVE  page'.status = "draft" /\ ~page'.published /\ ~page'.archived
  <2>1. /\ page' = snap[r].page /\ C!Restorable(snap[r]) /\ WasOnPage(snap[r])
    BY <1>1 DEF C!CommitRollback, StudioInv, HeldRequests, RollingBack
  <2>2. QED BY <2>1 DEF C!Restorable, WasOnPage, Dated, C!Snapshots, C!Pages
<1>2. StudioInv /\ [C!Next]_(C!vars) =>
        [\A r \in Requests : C!CommitRollback(r) =>
           page'.status = "draft"
             /\ ~page'.published /\ ~page'.archived]_(C!vars)
  BY <1>1
<1>3. QED BY <1>2, StudioInvariance, PTL DEF C!Spec, C!RollbackLeavesDraft

\* What goes online is in a revision, or somebody committed meanwhile.
THEOREM OnlineIsRecorded ==
  ASSUME C!StudioAssumption
  PROVE  C!Spec => C!PublishedIsRecorded
<1>1. ASSUME StudioInv, NEW r \in Requests, C!Publish(r), r \notin changed
      PROVE  \E v \in Revisions :
               /\ revisions'[v] # None
               /\ revisions'[v].sections = sections'
               /\ revisions'[v].page.text = page'.text
  <2>1. /\ rev[r] \in Revisions /\ snap[r] \in C!Snapshots
        /\ revisions'[rev[r]] = snap[r] /\ sections' = sections
        /\ page' = C!WithStatus(page, "published")
        /\ snap[r].sections = sections /\ snap[r].page.text = page.text
    BY <1>1
    DEF C!Publish, StudioInv, C!TypeOK, HeldRequests, NothingMissed, WasOnPage
  <2>2. page'.text = page.text
    BY <1>1, <2>1 DEF C!WithStatus, StudioInv, C!TypeOK, C!Pages
  <2>3. QED BY <2>1, <2>2 DEF C!StudioAssumption
<1>2. StudioInv /\ [C!Next]_(C!vars) =>
        [\A r \in Requests :
           C!Publish(r) =>
             \/ r \in changed
             \/ \E v \in Revisions :
                  /\ revisions'[v] # None
                  /\ revisions'[v].sections = sections'
                  /\ revisions'[v].page.text = page'.text]_(C!vars)
  BY <1>1
<1>3. QED BY <1>2, StudioInvariance, PTL DEF C!Spec, C!PublishedIsRecorded
=============================================================================
