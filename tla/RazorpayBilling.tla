--------------------------- MODULE RazorpayBilling ---------------------------
(***************************************************************************)
(* Checkout through Razorpay.  An order is created at the gateway and in   *)
(* the table payments; the customer pays (perhaps after attempts that      *)
(* fail); and the server learns of it twice: from webhooks, which the      *)
(* gateway delivers at least once and in any order, and from the client,   *)
(* which asks verify-capture to look at the gateway.  Both run the same    *)
(* fulfilment, concurrently, each request in a READ COMMITTED transaction  *)
(* of its own.  A retail order buys its user the content; a package order  *)
(* pays for a workshop, whose payment_id a sys admin may also edit.  With  *)
(* the dummy key an order is a mock: verify-capture asks no gateway.       *)
(*                                                                         *)
(* Steps are the statements that read what another request may change;     *)
(* the UPDATE of the payment and all that follows it up to the commit is   *)
(* one, made under the lock of the payment's row.                          *)
(***************************************************************************)
EXTENDS Naturals, FiniteSets

CONSTANTS
  Orders, Users, Workshops,
  Requests,       \* concurrent webhook and verify-capture requests
  NoOrder,
  Payer,          \* user of each order
  Package,        \* workshop of each package order; Retail for a retail one
  Retail,
  Outcomes,       \* bound: what may become of each order at the gateway
  MaxQuote,       \* bound: the prices a package can have
  MaxEdits,       \* bound: edits of a workshop's payment_id
  MaxFaults       \* bound: requests that die

ASSUME BillingAssumption ==
  /\ IsFiniteSet(Requests)
  /\ NoOrder \notin Orders
  /\ Retail \notin Workshops
  /\ Payer \in [Orders -> Users]
  /\ Package \in [Orders -> Workshops \cup {Retail}]
  /\ Outcomes \in [Orders -> SUBSET {"failed", "captured", "odd", "mock"}]
  /\ MaxQuote \in Nat /\ MaxEdits \in Nat /\ MaxFaults \in Nat

VARIABLES
  gateway,        \* the order at Razorpay: none, created, captured or odd (the
                  \* payment reported does not fit the row), or a mock
  failedOnce,     \* orders with a payment attempt that failed
  quote,          \* seat_cap * unit price of a workshop; 0: not for sale
  payment,        \* payments.status; "none" before the INSERT
  amount,         \* payments.amount of a package order
  deleted,        \* whether the course that retail orders buy is deleted
  edited,         \* history: times a workshop's payment_id was set by hand
  purchase,       \* purchases: the order a user's purchase names
  entitled,       \* users with an active individual entitlement
  linked,         \* workshops.payment_id
  seen,           \* billing_webhook_events
  rejected,       \* orders with a "capture rejected" operations event
  fulfilledSaid,  \* orders a verify-capture answered "fulfilled" for
  pc, via, order, \* each request: where, what kind of request, about which
  faults

outside == <<gateway, failedOnce, quote, amount, deleted, edited>>
tables == <<payment, purchase, entitled, linked, rejected>>
answers == <<seen, fulfilledSaid>>
request == <<pc, via, order>>
vars == <<outside, tables, answers, request, faults>>

Init ==
  /\ gateway = [o \in Orders |-> "none"]
  /\ failedOnce = {}
  /\ quote = [w \in Workshops |-> 1]
  /\ payment = [o \in Orders |-> "none"]
  /\ amount = [o \in Orders |-> 0]
  /\ deleted = FALSE
  /\ edited = [w \in Workshops |-> 0]
  /\ purchase = [u \in Users |-> NoOrder]
  /\ entitled = {}
  /\ linked = [w \in Workshops |-> NoOrder]
  /\ seen = {}
  /\ rejected = {}
  /\ fulfilledSaid = {}
  /\ pc = [r \in Requests |-> "idle"]
  /\ via = [r \in Requests |-> "verify"]
  /\ order = [r \in Requests |-> NoOrder]
  /\ faults = 0

-----------------------------------------------------------------------------
(* The customer, the gateway, and the people who edit workshops.           *)

IsRetail(o) == Package[o] = Retail

\* create_order_for_content, create_order_for_workshop.  The order's id goes
\* to the client after the commit, so nobody pays an order without a row.
\* With the dummy key the gateway is not asked.
CreateOrder(o) ==
  /\ payment[o] = "none"
  /\ IF IsRetail(o) THEN ~deleted ELSE quote[Package[o]] > 0
  /\ \E g \in {"created"} \cup (Outcomes[o] \cap {"mock"}) :
       gateway' = [gateway EXCEPT ![o] = g]
  /\ payment' = [payment EXCEPT ![o] = "pending"]
  /\ amount' = [amount EXCEPT ![o] = IF IsRetail(o) THEN 0 ELSE quote[Package[o]]]
  /\ UNCHANGED <<failedOnce, quote, deleted, edited, purchase, entitled, linked,
                 rejected, answers, request, faults>>

\* A payment attempt fails; the customer may try again on the same order.
AttemptFails(o) ==
  /\ gateway[o] = "created" /\ "failed" \in Outcomes[o]
  /\ failedOnce' = failedOnce \cup {o}
  /\ UNCHANGED <<gateway, quote, amount, deleted, edited, tables, answers,
                 request, faults>>

\* The payment fits the row, or has another amount, user or notes.
Pay(o) ==
  /\ gateway[o] = "created"
  /\ \E g \in Outcomes[o] \cap {"captured", "odd"} :
       gateway' = [gateway EXCEPT ![o] = g]
  /\ UNCHANGED <<failedOnce, quote, amount, deleted, edited, tables, answers,
                 request, faults>>

\* A new seat_cap or price, or the workshop is archived.
Requote(w, q) ==
  /\ quote[w] # q
  /\ quote' = [quote EXCEPT ![w] = q]
  /\ UNCHANGED <<gateway, failedOnce, amount, deleted, edited, tables, answers,
                 request, faults>>

\* patch_workshop and create_workshop take any payment there is as payment_id,
\* whatever its status and whoever's it is, and PATCH takes none.  (One that
\* writes what is there is no edit.)
Relink(w, o) ==
  /\ linked[w] # o
  /\ edited[w] < MaxEdits
  /\ edited' = [edited EXCEPT ![w] = @ + 1]
  /\ o # NoOrder => payment[o] # "none"
  /\ linked' = [linked EXCEPT ![w] = o]
  /\ UNCHANGED <<gateway, failedOnce, quote, amount, deleted, payment, purchase,
                 entitled, rejected, answers, request, faults>>

\* delete_course counts purchases and entitlements (and their foreign keys see
\* to it), but not the pending payments.  Courses with workshops are not deleted.
DeleteCourse ==
  /\ ~deleted
  /\ entitled = {} /\ \A u \in Users : purchase[u] = NoOrder
  /\ deleted' = TRUE
  /\ UNCHANGED <<gateway, failedOnce, quote, amount, edited, tables, answers,
                 request, faults>>

-----------------------------------------------------------------------------
(* The requests.                                                           *)

\* What the gateway has reported, and reports again until it is told ok.
Event(kind, o) == <<kind, o>>
Sent ==
  {Event("failed", o) : o \in failedOnce} \cup
  {Event("captured", o) : o \in {p \in Orders : gateway[p] \in {"captured", "odd"}}}

Goto(r, from, to) == pc[r] = from /\ pc' = [pc EXCEPT ![r] = to]

Begin(r, kind, o, to) ==
  /\ Goto(r, "idle", to)
  /\ via' = [via EXCEPT ![r] = kind]
  /\ order' = [order EXCEPT ![r] = o]

End(r) ==
  /\ pc' = [pc EXCEPT ![r] = "idle"]
  /\ via' = [via EXCEPT ![r] = "verify"]
  /\ order' = [order EXCEPT ![r] = NoOrder]

\* An uncommitted dedupe row makes another INSERT of the same one wait.
InFlight(e) == \E r \in Requests :
  pc[r] # "idle" /\ via[r] # "verify" /\ Event(via[r], order[r]) = e

\* Mutant: the dedupe row is committed before the event is processed.
Webhook_Bug(r, e) ==
  /\ e \in Sent \ seen
  /\ ~InFlight(e)
  /\ Begin(r, e[1], e[2], IF e[1] = "captured" THEN "read" ELSE "fail")
  /\ seen' = seen \cup {e}
  /\ UNCHANGED <<outside, tables, fulfilledSaid, faults>>

\* record_webhook_event says "first time".  (A duplicate changes nothing.)
Webhook(r, e) ==
  /\ e \in Sent \ seen
  /\ ~InFlight(e)
  /\ Begin(r, e[1], e[2], IF e[1] = "captured" THEN "read" ELSE "fail")
  /\ UNCHANGED <<outside, tables, answers, faults>>

\* verify-capture looks at the row and fetches the payment, or makes one up for
\* a mock order.  (Without a row, with a captured one or without a capture it
\* answers so, and 400 to some of the odd ones.)
Verify(r, o) ==
  /\ payment[o] \notin {"none", "captured"}
  /\ gateway[o] \in {"captured", "odd", "mock"}
  /\ Begin(r, "verify", o, "read")
  /\ UNCHANGED <<outside, tables, answers, faults>>

\* The transaction commits, with the event's dedupe row; verify-capture
\* answers "fulfilled" whichever way the fulfilment returned.
Finish(r, from) ==
  /\ pc[r] = from /\ End(r)
  /\ IF via[r] = "verify"
     THEN fulfilledSaid' = fulfilledSaid \cup {order[r]} /\ UNCHANGED seen
     ELSE seen' = seen \cup {Event(via[r], order[r])} /\ UNCHANGED fulfilledSaid
  /\ UNCHANGED <<outside, faults>>

\* Mutant: the UPDATE does not look at the status.
MarkFailed_Bug(r) ==
  /\ Finish(r, "fail")
  /\ payment' = [payment EXCEPT ![order[r]] = "failed"]
  /\ UNCHANGED <<purchase, entitled, linked, rejected>>

\* _mark_payment_failed: UPDATE ... WHERE status = 'pending'.
MarkFailed(r) ==
  /\ Finish(r, "fail")
  /\ payment' = [payment EXCEPT ![order[r]] = IF @ = "pending" THEN "failed" ELSE @]
  /\ UNCHANGED <<purchase, entitled, linked, rejected>>

\* _fulfill_payment_captured returns silently from a payment that has another
\* user or amount than the row, or notes that name no content.
Ignore(r) ==
  /\ Finish(r, "read")
  /\ gateway[order[r]] = "odd"
  /\ UNCHANGED tables

\* It reads the row: captured already.
AlreadyCaptured(r) ==
  /\ Finish(r, "read")
  /\ payment[order[r]] = "captured"
  /\ UNCHANGED tables

\* ... or not: a package is checked first.
ReadPayment(r) ==
  /\ Goto(r, "read", IF IsRetail(order[r]) THEN "capture" ELSE "check")
  /\ gateway[order[r]] # "odd"
  /\ payment[order[r]] # "captured"
  /\ UNCHANGED <<outside, tables, answers, via, order, faults>>

\* _workshop_package_capture_allowed: still for sale, at the amount paid, and
\* not linked to another payment.
CaptureAllowed(o) ==
  /\ quote[Package[o]] > 0
  /\ quote[Package[o]] = amount[o]
  /\ linked[Package[o]] \in {NoOrder, o}

Allow(r) ==
  /\ Goto(r, "check", "capture")
  /\ CaptureAllowed(order[r])
  /\ UNCHANGED <<outside, tables, answers, via, order, faults>>

\* Mutant: a rejected capture leaves no operations event.
Reject_Bug(r) ==
  /\ Finish(r, "check")
  /\ ~CaptureAllowed(order[r])
  /\ UNCHANGED tables

Reject(r) ==
  /\ Finish(r, "check")
  /\ ~CaptureAllowed(order[r])
  /\ rejected' = rejected \cup {order[r]}
  /\ UNCHANGED <<payment, purchase, entitled, linked>>

\* What a captured payment gives: for retail a purchase, unless the user has
\* one of the content, and an entitlement; for a package the workshop's link.
Grant(o) ==
  IF IsRetail(o)
  THEN /\ purchase' = [purchase EXCEPT ![Payer[o]] = IF @ = NoOrder THEN o ELSE @]
       /\ entitled' = entitled \cup {Payer[o]}
       /\ UNCHANGED linked
  ELSE /\ linked' = [linked EXCEPT ![Package[o]] = o]
       /\ UNCHANGED <<purchase, entitled>>

\* Mutant: the grants are left to a later job.
Capture_Bug(r) ==
  /\ Finish(r, "capture")
  /\ payment[order[r]] = "pending"
  /\ payment' = [payment EXCEPT ![order[r]] = "captured"]
  /\ UNCHANGED <<purchase, entitled, linked, rejected>>

\* UPDATE payments ... WHERE status = 'pending' RETURNING id finds the row.
Capture(r) ==
  /\ Finish(r, "capture")
  /\ payment[order[r]] = "pending"
  /\ ~(IsRetail(order[r]) /\ deleted)
  /\ payment' = [payment EXCEPT ![order[r]] = "captured"]
  /\ Grant(order[r])
  /\ UNCHANGED rejected

\* ... finds it, but the INSERT into purchases names a course that is gone: the
\* transaction rolls back, dedupe row and all, and so it will every time.
CaptureRaises(r) ==
  /\ pc[r] = "capture" /\ End(r)
  /\ payment[order[r]] = "pending"
  /\ IsRetail(order[r]) /\ deleted
  /\ UNCHANGED <<outside, tables, answers, faults>>

\* ... or does not: captured or failed since, or failed all along.
CaptureMisses(r) ==
  /\ Finish(r, "capture")
  /\ payment[order[r]] # "pending"
  /\ UNCHANGED tables

\* The request dies, or a call raises: all of it is rolled back, and the
\* gateway, answered 500 or not at all, will deliver the event again.
Abort(r) ==
  /\ pc[r] # "idle"
  /\ faults < MaxFaults
  /\ faults' = faults + 1
  /\ End(r)
  /\ UNCHANGED <<outside, tables, answers>>

\* verify-capture logs an error of its last INSERT and goes on: the commit of
\* the transaction PostgreSQL has aborted rolls it back, and says nothing.
SwallowedError(r) ==
  /\ pc[r] \in {"read", "check", "capture"} /\ via[r] = "verify"
  /\ faults < MaxFaults
  /\ faults' = faults + 1
  /\ End(r)
  /\ fulfilledSaid' = fulfilledSaid \cup {order[r]}
  /\ UNCHANGED <<outside, tables, seen>>

-----------------------------------------------------------------------------
Work(r) ==
  \/ MarkFailed(r) \/ Ignore(r) \/ AlreadyCaptured(r) \/ ReadPayment(r)
  \/ Allow(r) \/ Reject(r)
  \/ Capture(r) \/ CaptureRaises(r) \/ CaptureMisses(r)

Next ==
  \/ \E o \in Orders : CreateOrder(o) \/ AttemptFails(o) \/ Pay(o)
  \/ \E w \in Workshops : \/ \E q \in 0..MaxQuote : Requote(w, q)
                          \/ \E o \in Orders \cup {NoOrder} : Relink(w, o)
  \/ DeleteCourse
  \/ \E r \in Requests : \/ \E e \in Sent : Webhook(r, e)
                         \/ \E o \in Orders : Verify(r, o)
                         \/ Work(r) \/ Abort(r) \/ SwallowedError(r)

Spec == Init /\ [][Next]_vars

\* The gateway delivers what it has not been told ok for, and requests that
\* have begun come to their end.  Nobody need call verify-capture.
Fairness ==
  /\ \A r \in Requests : WF_vars(Work(r))
  /\ \A o \in Orders :
       SF_vars(\E r \in Requests : Webhook(r, Event("captured", o)))

FairSpec == Spec /\ Fairness

-----------------------------------------------------------------------------
\* Every variable has its type.
TypeOK ==
  /\ gateway \in [Orders -> {"none", "created", "captured", "odd", "mock"}]
  /\ failedOnce \subseteq Orders
  /\ quote \in [Workshops -> Nat]
  /\ payment \in [Orders -> {"none", "pending", "captured", "failed"}]
  /\ amount \in [Orders -> Nat]
  /\ deleted \in BOOLEAN
  /\ edited \in [Workshops -> Nat]
  /\ purchase \in [Users -> Orders \cup {NoOrder}]
  /\ entitled \subseteq Users
  /\ linked \in [Workshops -> Orders \cup {NoOrder}]
  /\ seen \subseteq {"failed", "captured"} \X Orders
  /\ rejected \subseteq Orders
  /\ fulfilledSaid \subseteq Orders
  /\ pc \in [Requests -> {"idle", "fail", "read", "check", "capture"}]
  /\ via \in [Requests -> {"failed", "captured", "verify"}]
  /\ order \in [Requests -> Orders \cup {NoOrder}]
  /\ faults \in Nat

\* The tables agree at every commit: a captured payment has given what was
\* paid for, and whatever was given names a payment that is captured; of a
\* package, as long as nobody edits the workshop's payment_id.
CapturedMeansGranted ==
  /\ \A o \in Orders : payment[o] = "captured" =>
       IF IsRetail(o)
       THEN purchase[Payer[o]] # NoOrder /\ Payer[o] \in entitled
       ELSE edited[Package[o]] > 0 \/ linked[Package[o]] # NoOrder
  /\ \A u \in Users :
       /\ u \in entitled <=> purchase[u] # NoOrder
       /\ purchase[u] # NoOrder =>
            payment[purchase[u]] = "captured" /\ Payer[purchase[u]] = u
  /\ \A w \in Workshops : edited[w] = 0 /\ linked[w] # NoOrder =>
       payment[linked[w]] = "captured" /\ Package[linked[w]] = w

\* Nothing is given that the gateway has no fitting captured payment for, mock
\* orders aside, whatever the client claims and however webhooks and
\* verify-capture interleave.
GrantedMeansPaid ==
  \A o \in Orders : payment[o] = "captured" => gateway[o] \in {"captured", "mock"}

\* An event whose dedupe row is committed has been dealt with: deliveries
\* that are answered "duplicate" are never the ones that mattered.  (A capture
\* that reached a failed payment has been dealt with by being ignored, and one
\* that does not fit its row is for good, with a log line and no more.)
SeenIsProcessed ==
  \A o \in Orders :
    /\ Event("captured", o) \in seen =>
         \/ payment[o] \in {"captured", "failed"} \/ o \in rejected
         \/ gateway[o] = "odd"
    /\ Event("failed", o) \in seen => payment[o] \in {"captured", "failed"}

\* A settled payment stays as it is: a late payment.failed does not take back
\* a capture, and no second request grants anything for it again.
SettledIsFinal ==
  [][\A o \in Orders : payment[o] \in {"captured", "failed"} =>
       payment'[o] = payment[o]]_vars

\* The package orders of a workshop that are captured, and stay so.
PackagesPaid(w) == {o \in Orders : Package[o] = w /\ payment[o] = "captured"}

\* A workshop whose package is paid more than once (see PackagePaidOnce) was so
\* by captures that were all allowed before the first of them linked it: there
\* are never more than requests at work, however many orders are open and paid,
\* until somebody edits its payment_id.
PackageOverpaidBounded ==
  \A w \in Workshops :
    edited[w] = 0 => Cardinality(PackagesPaid(w)) <= Cardinality(Requests)

\* Whatever requests deliver, repeat, abort or interleave, the tables follow
\* PaymentLedger: its reports are the events that fit their rows, and the mock
\* orders; a user's receipt for content is the purchase, if there is the
\* entitlement too, and a workshop's the payment it is linked to.
Goods == ({"content"} \X Users) \cup ({"package"} \X Workshops)
Buys == [o \in Orders |-> IF IsRetail(o) THEN <<"content", Payer[o]>>
                                        ELSE <<"package", Package[o]>>]
Receipt ==
  [g \in Goods |->
     IF g[1] = "package" THEN linked[g[2]]
     ELSE IF g[2] \in entitled THEN purchase[g[2]] ELSE NoOrder]
Reports ==
  {Event("failed", o) : o \in failedOnce} \cup
  {Event("captured", o) : o \in {p \in Orders : gateway[p] \in {"captured", "mock"}}}
Ledger == INSTANCE PaymentLedger
            WITH Amendable <- {"package"} \X Workshops,
                 reports <- Reports, ledger <- payment, receipt <- Receipt
RefinesLedger == Ledger!Spec

\* Money the gateway has captured does not leave a payment pending for ever,
\* unless the capture was rejected, which the operations feed shows, or the
\* course was deleted while it was pending.
CaptureSettles ==
  \A o \in Orders :
    gateway[o] = "captured" ~>
      \/ payment[o] \in {"captured", "failed"} \/ o \in rejected
      \/ IsRetail(o) /\ deleted

\* The run RazorpayBilling_failed refutes it: verify-capture promises the
\* "same outcome as a successful webhook", so that when it says "fulfilled",
\* payments and what was paid for have been updated.  (Not of a payment that
\* does not fit its row: the webhook ignores it too.)
FulfilledIsCaptured ==
  \A o \in fulfilledSaid :
    payment[o] = "captured" \/ o \in rejected \/ gateway[o] = "odd"

\* Does not hold of two package orders of one workshop (README.md,
\* Disagreements): "This workshop is already linked to a different payment
\* record", so a second package payment of a workshop is not captured.
PackagePaidOnce ==
  \A o, p \in Orders :
    /\ o # p /\ ~IsRetail(o) /\ edited[Package[o]] = 0 /\ Package[o] = Package[p]
    /\ payment[o] = "captured"
    => payment[p] # "captured"
=============================================================================
