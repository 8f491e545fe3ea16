------------------------ MODULE RazorpayBillingProofs ------------------------
(***************************************************************************)
(* What the billing tables satisfy for any orders, users, workshops and    *)
(* any number of concurrent requests; and, at the end, that they implement *)
(* PaymentLedger.                                                          *)
(***************************************************************************)
EXTENDS RazorpayBilling, FiniteSetTheorems, TLAPS

\* An order has a row from the moment it can be paid, and an attempt at it
\* fails only then.
RowPerOrder ==
  \A o \in Orders :
    /\ payment[o] = "none" <=> gateway[o] = "none"
    /\ o \in failedOnce => gateway[o] # "none"

\* What a request knows of its order at each position: nothing it has read of
\* the payment's status, only what never changes again.
RequestInv ==
  \A r \in Requests : pc[r] # "idle" =>
    /\ order[r] \in Orders
    /\ payment[order[r]] # "none"
    /\ pc[r] = "fail" <=> via[r] = "failed"
    /\ pc[r] # "fail" => gateway[order[r]] \in {"captured", "odd", "mock"}
    /\ pc[r] \in {"check", "capture"} => gateway[order[r]] # "odd"
    /\ pc[r] = "fail" => order[r] \in failedOnce

IInv ==
  /\ TypeOK /\ RowPerOrder /\ RequestInv
  /\ CapturedMeansGranted /\ GrantedMeansPaid /\ SeenIsProcessed

LEMMA InitIInv == Init => IInv
<1> SUFFICES ASSUME Init PROVE IInv
  OBVIOUS
<1> USE DEF Init
<1>1. TypeOK
  BY BillingAssumption DEF TypeOK
<1>2. RowPerOrder /\ RequestInv /\ GrantedMeansPaid /\ SeenIsProcessed
  BY DEF RowPerOrder, RequestInv, GrantedMeansPaid, SeenIsProcessed
<1>3. CapturedMeansGranted
  BY DEF CapturedMeansGranted
<1>4. QED BY <1>1, <1>2, <1>3 DEF IInv

-----------------------------------------------------------------------------
(* The customer, the gateway and the administrators.                       *)

LEMMA OutsideIInv ==
  ASSUME IInv,
         \/ \E o \in Orders : CreateOrder(o) \/ AttemptFails(o) \/ Pay(o)
         \/ \E w \in Workshops : \/ \E q \in 0..MaxQuote : Requote(w, q)
                                 \/ \E o \in Orders \cup {NoOrder} : Relink(w, o)
         \/ DeleteCourse
  PROVE  IInv'
<1> USE DEF IInv
<1>1. ASSUME NEW o \in Orders, CreateOrder(o) PROVE IInv'
  <2>1. PICK g \in {"created", "mock"}, a \in Nat :
          /\ gateway' = [gateway EXCEPT ![o] = g]
          /\ amount' = [amount EXCEPT ![o] = a]
    <3>1. IsRetail(o) \/ quote[Package[o]] \in Nat
      BY BillingAssumption DEF TypeOK, IsRetail
    <3>2. QED BY <1>1, <3>1 DEF CreateOrder
  <2>2. /\ payment[o] = "none" /\ payment' = [payment EXCEPT ![o] = "pending"]
        /\ UNCHANGED <<failedOnce, quote, deleted, edited, purchase, entitled,
                       linked, rejected, seen, fulfilledSaid, pc, via, order, faults>>
    BY <1>1 DEF CreateOrder, answers, request
  <2>3. TypeOK'
    BY <2>1, <2>2 DEF TypeOK
  <2>4. RowPerOrder' /\ RequestInv' /\ GrantedMeansPaid'
    BY <2>1, <2>2 DEF TypeOK, RowPerOrder, RequestInv, GrantedMeansPaid
  <2>5. CapturedMeansGranted'
    BY <2>2 DEF TypeOK, CapturedMeansGranted
  <2>6. SeenIsProcessed'
    <3>1. \A p \in Orders : /\ gateway[p] = "odd" => gateway'[p] = "odd"
                            /\ payment[p] # "none" => payment'[p] = payment[p]
      BY <2>1, <2>2 DEF TypeOK, RowPerOrder
    <3>2. QED BY <2>2, <3>1 DEF SeenIsProcessed
  <2>7. QED BY <2>3, <2>4, <2>5, <2>6
<1>2. ASSUME NEW o \in Orders, AttemptFails(o) \/ Pay(o) PROVE IInv'
  <2> USE <1>2 DEF AttemptFails, Pay, tables, answers, request
  <2>1. TypeOK'
    <3>1. CASE AttemptFails(o)
      BY <3>1 DEF TypeOK
    <3>2. CASE Pay(o)
      <4>1. PICK g \in {"captured", "odd"} : gateway' = [gateway EXCEPT ![o] = g]
        BY <3>2
      <4>2. QED BY <3>2, <4>1 DEF TypeOK
    <3>3. QED BY <3>1, <3>2
  <2>2. RowPerOrder' /\ RequestInv' /\ GrantedMeansPaid'
    BY DEF TypeOK, RowPerOrder, RequestInv, GrantedMeansPaid
  <2>3. CapturedMeansGranted'
    BY DEF CapturedMeansGranted
  <2>4. SeenIsProcessed'
    <3>1. \A p \in Orders : gateway[p] = "odd" => gateway'[p] = "odd"
      BY DEF TypeOK
    <3>2. QED BY <3>1 DEF SeenIsProcessed
  <2>5. QED BY <2>1, <2>2, <2>3, <2>4
<1>3. ASSUME NEW w \in Workshops, NEW q \in 0..MaxQuote, Requote(w, q)
      PROVE  IInv'
  <2> USE <1>3 DEF Requote, tables, answers, request
  <2>1. TypeOK'
    BY BillingAssumption DEF TypeOK
  <2>2. RowPerOrder' /\ RequestInv' /\ GrantedMeansPaid'
    BY DEF RowPerOrder, RequestInv, GrantedMeansPaid
  <2>3. CapturedMeansGranted' /\ SeenIsProcessed'
    BY DEF CapturedMeansGranted, SeenIsProcessed
  <2>4. QED BY <2>1, <2>2, <2>3
<1>4. ASSUME NEW w \in Workshops, NEW o \in Orders \cup {NoOrder}, Relink(w, o)
      PROVE  IInv'
  <2> USE <1>4 DEF Relink, answers, request
  <2>1. TypeOK'
    BY DEF TypeOK
  <2>2. RowPerOrder' /\ RequestInv' /\ GrantedMeansPaid' /\ SeenIsProcessed'
    BY DEF RowPerOrder, RequestInv, GrantedMeansPaid, SeenIsProcessed
  <2>3. CapturedMeansGranted'
    <3>1. \A v \in Workshops :
            /\ edited'[v] = 0 => edited[v] = 0 /\ linked'[v] = linked[v]
            /\ edited[v] > 0 => edited'[v] > 0
            /\ linked'[v] # linked[v] => edited'[v] > 0
      BY DEF TypeOK
    <3>2. QED BY <3>1, BillingAssumption DEF TypeOK, CapturedMeansGranted, IsRetail
  <2>4. QED BY <2>1, <2>2, <2>3
<1>5. ASSUME DeleteCourse PROVE IInv'
  <2> USE <1>5 DEF DeleteCourse, tables, answers, request
  <2>1. TypeOK'
    BY DEF TypeOK
  <2>2. /\ RowPerOrder' /\ RequestInv' /\ GrantedMeansPaid'
        /\ CapturedMeansGranted' /\ SeenIsProcessed'
    BY DEF RowPerOrder, RequestInv, GrantedMeansPaid, CapturedMeansGranted,
           SeenIsProcessed
  <2>3. QED BY <2>1, <2>2
<1>6. QED BY <1>1, <1>2, <1>3, <1>4, <1>5

-----------------------------------------------------------------------------
(* Requests that only move.                                                *)

\* A request of some kind about an order with a row, and paid or a mock unless
\* the event says failed.
Starts(r, kind, o, to) ==
  /\ Begin(r, kind, o, to)
  /\ UNCHANGED <<outside, tables, answers, faults>>
  /\ o \in Orders /\ payment[o] # "none"
  /\ \/ kind = "failed" /\ to = "fail" /\ o \in failedOnce
     \/ /\ kind \in {"captured", "verify"} /\ to = "read"
        /\ gateway[o] \in {"captured", "odd", "mock"}

LEMMA StartsIInv ==
  ASSUME IInv, NEW r \in Requests, NEW kind, NEW o, NEW to, Starts(r, kind, o, to)
  PROVE  IInv'
<1> USE DEF Starts, IInv, Begin, Goto, outside, tables, answers
<1>1. TypeOK'
  BY DEF TypeOK
<1>2. RequestInv'
  BY DEF TypeOK, RequestInv
<1>3. RowPerOrder' /\ GrantedMeansPaid' /\ CapturedMeansGranted' /\ SeenIsProcessed'
  BY DEF RowPerOrder, GrantedMeansPaid, CapturedMeansGranted, SeenIsProcessed
<1>4. QED BY <1>1, <1>2, <1>3

LEMMA BeginIInv ==
  ASSUME IInv, NEW r \in Requests,
         (\E e \in Sent : Webhook(r, e)) \/ (\E o \in Orders : Verify(r, o))
  PROVE  IInv'
<1>1. CASE \E e \in Sent : Webhook(r, e)
  <2>1. PICK e \in Sent : Webhook(r, e)
    BY <1>1
  <2>2. CASE \E o \in failedOnce : e = Event("failed", o)
    <3>1. PICK o \in failedOnce : e = Event("failed", o)
      BY <2>2
    <3>2. o \in Orders /\ payment[o] # "none" /\ e[1] = "failed" /\ e[2] = o
      BY <3>1 DEF IInv, TypeOK, RowPerOrder, Event
    <3>3. Starts(r, "failed", o, "fail")
      BY <2>1, <3>1, <3>2 DEF Webhook, Starts
    <3>4. QED BY <3>3, StartsIInv
  <2>3. CASE \E o \in Orders : /\ gateway[o] \in {"captured", "odd"}
                               /\ e = Event("captured", o)
    <3>1. PICK o \in Orders : /\ gateway[o] \in {"captured", "odd"}
                              /\ e = Event("captured", o)
      BY <2>3
    <3>2. payment[o] # "none" /\ e[1] = "captured" /\ e[2] = o
      BY <3>1 DEF IInv, RowPerOrder, Event
    <3>3. Starts(r, "captured", o, "read")
      BY <2>1, <3>1, <3>2 DEF Webhook, Starts
    <3>4. QED BY <3>3, StartsIInv
  <2>4. QED BY <2>1, <2>2, <2>3 DEF Sent
<1>2. CASE \E o \in Orders : Verify(r, o)
  <2>1. PICK o \in Orders : Verify(r, o)
    BY <1>2
  <2>2. Starts(r, "verify", o, "read")
    BY <2>1 DEF Verify, Starts
  <2>3. QED BY <2>2, StartsIInv
<1>3. QED BY <1>1, <1>2

\* A request goes on to the next statement or ends without a commit.
LEMMA MoveIInv ==
  ASSUME IInv, NEW r \in Requests,
         \/ ReadPayment(r) \/ Allow(r) \/ CaptureRaises(r)
         \/ Abort(r) \/ SwallowedError(r)
  PROVE  IInv'
<1>1. /\ UNCHANGED <<outside, tables, seen>>
      /\ fulfilledSaid' \subseteq Orders /\ faults' \in Nat
      /\ pc' \in [Requests -> {"idle", "fail", "read", "check", "capture"}]
      /\ via' \in [Requests -> {"failed", "captured", "verify"}]
      /\ order' \in [Requests -> Orders \cup {NoOrder}]
      /\ \A q \in Requests : pc'[q] # "idle" =>
           /\ UNCHANGED <<via[q], order[q]>>
           /\ \/ UNCHANGED pc[q]
              \/ /\ pc[q] \in {"read", "check"} /\ pc'[q] \in {"check", "capture"}
                 /\ gateway[order[q]] # "odd"
  <2>1. CASE ReadPayment(r)
    BY <2>1 DEF ReadPayment, Goto, IInv, TypeOK, answers
  <2>2. CASE Allow(r)
    BY <2>2 DEF Allow, Goto, IInv, TypeOK, answers, RequestInv
  <2>3. CASE CaptureRaises(r) \/ Abort(r)
    BY <2>3 DEF CaptureRaises, Abort, End, IInv, TypeOK, answers
  <2>4. CASE SwallowedError(r)
    <3>1. order[r] \in Orders
      BY <2>4 DEF SwallowedError, IInv, RequestInv
    <3>2. QED BY <2>4, <3>1 DEF SwallowedError, End, IInv, TypeOK
  <2>5. QED BY <2>1, <2>2, <2>3, <2>4
<1> USE <1>1 DEF IInv, outside, tables
<1>2. TypeOK'
  BY DEF TypeOK
<1>3. RequestInv'
  BY DEF TypeOK, RequestInv
<1>4. RowPerOrder' /\ GrantedMeansPaid' /\ CapturedMeansGranted' /\ SeenIsProcessed'
  BY DEF RowPerOrder, GrantedMeansPaid, CapturedMeansGranted, SeenIsProcessed
<1>5. QED BY <1>2, <1>3, <1>4

-----------------------------------------------------------------------------
(* Requests that commit.                                                   *)

\* The dedupe row and the end of the request, whatever the tables do.
LEMMA FinishFacts ==
  ASSUME IInv, NEW r \in Requests, NEW from, Finish(r, from), from # "idle"
  PROVE  /\ pc[r] = from /\ End(r)
         /\ UNCHANGED <<outside, faults>>
         /\ order[r] \in Orders /\ payment[order[r]] # "none"
         /\ from = "fail" <=> via[r] = "failed"
         /\ from \in {"check", "capture"} => gateway[order[r]] \in {"captured", "mock"}
         /\ seen' \subseteq seen \cup {Event(via[r], order[r])}
         /\ seen' \subseteq {"failed", "captured"} \X Orders
         /\ fulfilledSaid' \subseteq Orders
<1> USE DEF Finish, IInv
<1>1. /\ pc[r] = from /\ End(r)
      /\ UNCHANGED <<outside, faults>>
      /\ order[r] \in Orders /\ payment[order[r]] # "none"
      /\ from = "fail" <=> via[r] = "failed"
      /\ from \in {"check", "capture"} => gateway[order[r]] \in {"captured", "mock"}
  BY DEF RequestInv
<1>2. /\ seen' \subseteq seen \cup {Event(via[r], order[r])}
      /\ seen' \subseteq {"failed", "captured"} \X Orders
      /\ fulfilledSaid' \subseteq Orders
  <2>1. via[r] \in {"failed", "captured", "verify"}
    BY DEF TypeOK
  <2>2. QED BY <1>1, <2>1 DEF TypeOK, Event
<1>3. QED BY <1>1, <1>2

\* A commit that settles the order it is about, or has to do with a payment that
\* does not fit, keeps the invariant if the grants agree with the payments.
LEMMA FinishIInv ==
  ASSUME IInv, NEW r \in Requests, NEW from, Finish(r, from), from # "idle",
         payment' \in [Orders -> {"none", "pending", "captured", "failed"}],
         \A o \in Orders : o # order[r] => payment'[o] = payment[o],
         payment'[order[r]] # "none",
         payment'[order[r]] = "captured" =>
           gateway[order[r]] \in {"captured", "mock"},
         payment[order[r]] = "captured" => payment'[order[r]] = "captured",
         \/ payment'[order[r]] \in {"captured", "failed"}
         \/ (order[r] \in rejected' \/ gateway[order[r]] = "odd") /\ from # "fail",
         payment[order[r]] \in {"captured", "failed"} =>
           payment'[order[r]] \in {"captured", "failed"},
         rejected \subseteq rejected', rejected' \subseteq Orders,
         purchase' \in [Users -> Orders \cup {NoOrder}],
         entitled' \subseteq Users,
         linked' \in [Workshops -> Orders \cup {NoOrder}],
         CapturedMeansGranted'
  PROVE  IInv'
<1>1. /\ pc[r] = from /\ End(r)
      /\ UNCHANGED <<gateway, failedOnce, quote, amount, deleted, edited, faults>>
      /\ order[r] \in Orders /\ payment[order[r]] # "none"
      /\ from = "fail" <=> via[r] = "failed"
      /\ seen' \subseteq seen \cup {Event(via[r], order[r])}
      /\ seen' \subseteq {"failed", "captured"} \X Orders
      /\ fulfilledSaid' \subseteq Orders
  BY FinishFacts DEF outside
<1>2. TypeOK'
  BY <1>1 DEF IInv, TypeOK, End
<1>3. RowPerOrder' /\ GrantedMeansPaid'
  BY <1>1 DEF IInv, TypeOK, RowPerOrder, GrantedMeansPaid
<1>4. RequestInv'
  <2> SUFFICES ASSUME NEW q \in Requests, pc'[q] # "idle"
               PROVE  /\ order'[q] \in Orders
                      /\ payment'[order'[q]] # "none"
                      /\ pc'[q] = "fail" <=> via'[q] = "failed"
                      /\ pc'[q] # "fail" =>
                           gateway'[order'[q]] \in {"captured", "odd", "mock"}
                      /\ pc'[q] \in {"check", "capture"} =>
                           gateway'[order'[q]] # "odd"
                      /\ pc'[q] = "fail" => order'[q] \in failedOnce'
    BY DEF RequestInv
  <2>1. pc'[q] = pc[q] /\ order'[q] = order[q] /\ via'[q] = via[q]
    BY <1>1 DEF IInv, TypeOK, End
  <2>2. QED BY <1>1, <2>1 DEF IInv, RequestInv
<1>5. SeenIsProcessed'
  <2> SUFFICES ASSUME NEW o \in Orders
               PROVE  /\ Event("captured", o) \in seen' =>
                           \/ payment'[o] \in {"captured", "failed"}
                           \/ o \in rejected' \/ gateway'[o] = "odd"
                      /\ Event("failed", o) \in seen' =>
                           payment'[o] \in {"captured", "failed"}
    BY DEF SeenIsProcessed
  <2>1. CASE o # order[r]
    <3>1. ASSUME NEW k, Event(k, o) \in seen'
          PROVE  Event(k, o) \in seen
      BY <1>1, <2>1, <3>1 DEF Event
    <3>2. /\ Event("captured", o) \in seen' => Event("captured", o) \in seen
          /\ Event("failed", o) \in seen' => Event("failed", o) \in seen
      BY <3>1
    <3>3. /\ payment'[o] = payment[o] /\ gateway'[o] = gateway[o]
          /\ o \in rejected => o \in rejected'
      BY <1>1, <2>1
    <3>4. QED BY <3>2, <3>3 DEF IInv, SeenIsProcessed
  <2>2. CASE o = order[r]
    <3>1. Event("failed", o) \in seen' => payment'[o] \in {"captured", "failed"}
      <4>1. CASE Event("failed", o) \in seen
        BY <2>2, <4>1 DEF IInv, SeenIsProcessed
      <4>2. CASE Event("failed", o) = Event(via[r], order[r])
        BY <1>1, <2>2, <4>2 DEF Event
      <4>3. QED BY <1>1, <4>1, <4>2
    <3>2. QED BY <1>1, <2>2, <3>1
  <2>3. QED BY <2>1, <2>2
<1>6. QED BY <1>2, <1>3, <1>4, <1>5 DEF IInv

LEMMA CommitIInv ==
  ASSUME IInv, NEW r \in Requests,
         \/ MarkFailed(r) \/ Ignore(r) \/ AlreadyCaptured(r) \/ Reject(r)
         \/ Capture(r) \/ CaptureMisses(r)
  PROVE  IInv'
<1> DEFINE o == order[r]
<1>1. CASE MarkFailed(r)
  <2>1. Finish(r, "fail") /\ UNCHANGED <<purchase, entitled, linked, rejected>>
    BY <1>1 DEF MarkFailed
  <2>2. o \in Orders /\ payment[o] # "none"
    BY <2>1, FinishFacts
  <2>0. UNCHANGED edited
    BY <2>1, FinishFacts DEF outside
  <2>3. payment' = [payment EXCEPT ![o] = IF payment[o] = "pending"
                                           THEN "failed" ELSE payment[o]]
    BY <1>1 DEF MarkFailed
  <2>4. /\ payment' \in [Orders -> {"none", "pending", "captured", "failed"}]
        /\ \A p \in Orders : p # o => payment'[p] = payment[p]
        /\ payment'[o] \in {"captured", "failed"}
        /\ payment'[o] = "captured" <=> payment[o] = "captured"
        /\ payment[o] = "captured" => gateway[o] \in {"captured", "mock"}
    BY <2>2, <2>3 DEF IInv, TypeOK, GrantedMeansPaid
  <2>5. CapturedMeansGranted'
    BY <2>1, <2>2, <2>0, <2>4 DEF IInv, TypeOK, CapturedMeansGranted, IsRetail
  <2>6. QED BY <2>1, <2>2, <2>4, <2>5, FinishIInv DEF IInv, TypeOK
<1>2. CASE Ignore(r) \/ AlreadyCaptured(r) \/ CaptureMisses(r)
  <2>1. PICK from \in {"read", "capture"} : Finish(r, from)
    BY <1>2 DEF Ignore, AlreadyCaptured, CaptureMisses
  <2>2. UNCHANGED tables /\ (payment[o] # "pending" \/ gateway[o] = "odd")
    BY <1>2 DEF Ignore, AlreadyCaptured, CaptureMisses
  <2>3. o \in Orders /\ payment[o] # "none" /\ UNCHANGED edited
    BY <2>1, FinishFacts DEF outside
  <2>4. /\ payment[o] \in {"captured", "failed"} \/ gateway[o] = "odd"
        /\ payment[o] = "captured" => gateway[o] \in {"captured", "mock"}
    BY <2>2, <2>3 DEF IInv, TypeOK, GrantedMeansPaid
  <2>5. CapturedMeansGranted'
    BY <2>2, <2>3 DEF IInv, CapturedMeansGranted, tables
  <2>6. QED BY <2>1, <2>2, <2>3, <2>4, <2>5, FinishIInv DEF IInv, TypeOK, tables
<1>3. CASE Reject(r)
  <2>1. /\ Finish(r, "check") /\ rejected' = rejected \cup {o}
        /\ UNCHANGED <<payment, purchase, entitled, linked>>
    BY <1>3 DEF Reject
  <2>2. /\ o \in Orders /\ payment[o] # "none" /\ gateway[o] \in {"captured", "mock"}
        /\ UNCHANGED edited
    BY <2>1, FinishFacts DEF outside
  <2>3. CapturedMeansGranted'
    BY <2>1, <2>2 DEF IInv, CapturedMeansGranted
  <2>4. QED BY <2>1, <2>2, <2>3, FinishIInv DEF IInv, TypeOK
<1>4. CASE Capture(r)
  <2>1. /\ Finish(r, "capture") /\ payment[o] = "pending"
        /\ payment' = [payment EXCEPT ![o] = "captured"]
        /\ Grant(o) /\ UNCHANGED rejected
    BY <1>4 DEF Capture
  <2>2. /\ o \in Orders /\ gateway[o] \in {"captured", "mock"}
        /\ UNCHANGED edited
    BY <2>1, FinishFacts DEF outside
  <2>3. /\ payment' \in [Orders -> {"none", "pending", "captured", "failed"}]
        /\ \A p \in Orders : payment'[p] = IF p = o THEN "captured" ELSE payment[p]
    BY <2>1, <2>2 DEF IInv, TypeOK
  <2>4. /\ purchase' \in [Users -> Orders \cup {NoOrder}]
        /\ entitled' \subseteq Users
        /\ linked' \in [Workshops -> Orders \cup {NoOrder}]
        /\ CapturedMeansGranted'
    <3>1. CASE IsRetail(o)
      <4>1. /\ Payer[o] \in Users /\ UNCHANGED linked
            /\ entitled' = entitled \cup {Payer[o]}
            /\ purchase' = [purchase EXCEPT ![Payer[o]] =
                              IF purchase[Payer[o]] = NoOrder
                              THEN o ELSE purchase[Payer[o]]]
        BY <2>1, <2>2, <3>1, BillingAssumption DEF Grant
      <4>2. /\ purchase' \in [Users -> Orders \cup {NoOrder}]
            /\ \A u \in Users : purchase'[u] =
                 IF u = Payer[o] /\ purchase[u] = NoOrder THEN o ELSE purchase[u]
        BY <2>2, <4>1 DEF IInv, TypeOK
      <4>3. entitled' \subseteq Users /\ linked' \in [Workshops -> Orders \cup {NoOrder}]
        BY <4>1 DEF IInv, TypeOK
      <4>4. CapturedMeansGranted'
        BY <2>1, <2>2, <2>3, <3>1, <4>1, <4>2, BillingAssumption
           DEF IInv, TypeOK, CapturedMeansGranted, IsRetail
      <4>5. QED BY <4>2, <4>3, <4>4
    <3>2. CASE ~IsRetail(o)
      <4>1. /\ Package[o] \in Workshops /\ UNCHANGED <<purchase, entitled>>
            /\ linked' = [linked EXCEPT ![Package[o]] = o]
        BY <2>1, <2>2, <3>2, BillingAssumption DEF Grant, IsRetail
      <4>2. /\ linked' \in [Workshops -> Orders \cup {NoOrder}]
            /\ \A w \in Workshops : linked'[w] = IF w = Package[o] THEN o ELSE linked[w]
        BY <2>2, <4>1 DEF IInv, TypeOK
      <4>3. CapturedMeansGranted'
        BY <2>1, <2>2, <2>3, <3>2, <4>1, <4>2, BillingAssumption
           DEF IInv, TypeOK, CapturedMeansGranted, IsRetail
      <4>4. QED BY <4>1, <4>2, <4>3 DEF IInv, TypeOK
    <3>3. QED BY <3>1, <3>2
  <2>5. QED BY <2>1, <2>2, <2>3, <2>4, FinishIInv DEF IInv, TypeOK
<1>5. QED BY <1>1, <1>2, <1>3, <1>4

-----------------------------------------------------------------------------
LEMMA NextIInv == IInv /\ [Next]_vars => IInv'
<1> SUFFICES ASSUME IInv, [Next]_vars PROVE IInv'
  OBVIOUS
<1>1. ASSUME NEW r \in Requests,
             \/ \E e \in Sent : Webhook(r, e)
             \/ \E o \in Orders : Verify(r, o)
             \/ Work(r) \/ Abort(r) \/ SwallowedError(r)
      PROVE  IInv'
  BY <1>1, BeginIInv, MoveIInv, CommitIInv DEF Work
<1>2. CASE UNCHANGED vars
  BY <1>2 DEF vars, outside, tables, answers, request, IInv, TypeOK,
     RowPerOrder, RequestInv, CapturedMeansGranted, GrantedMeansPaid,
     SeenIsProcessed
<1>3. QED BY <1>1, <1>2, OutsideIInv DEF Next

\* The inductive invariant holds for ever.
THEOREM Invariance == Spec => []IInv
<1>1. Init => IInv
  BY InitIInv
<1>2. IInv /\ [Next]_vars => IInv'
  BY NextIInv
<1>3. QED BY <1>1, <1>2, PTL DEF Spec

\* Every payment, purchase, link and request holds what its type says.
THEOREM TypeCorrect == Spec => []TypeOK
<1>1. IInv => TypeOK
  BY DEF IInv
<1>2. QED BY <1>1, Invariance, PTL

\* Payments and what they paid for agree at every commit, as far as the links of
\* workshops are not edited by hand.
THEOREM TablesAgree == Spec => []CapturedMeansGranted
<1>1. IInv => CapturedMeansGranted
  BY DEF IInv
<1>2. QED BY <1>1, Invariance, PTL

\* Nothing is granted without a captured payment at the gateway, or a mock order.
THEOREM OnlyPaidIsGranted == Spec => []GrantedMeansPaid
<1>1. IInv => GrantedMeansPaid
  BY DEF IInv
<1>2. QED BY <1>1, Invariance, PTL

\* An event that is answered "duplicate" has been processed, or did not fit.
THEOREM DuplicatesAreDone == Spec => []SeenIsProcessed
<1>1. IInv => SeenIsProcessed
  BY DEF IInv
<1>2. QED BY <1>1, Invariance, PTL

\* A captured or failed payment never changes its status.
THEOREM SettledStays == Spec => SettledIsFinal
<1> DEFINE Stays == \A o \in Orders : payment[o] \in {"captured", "failed"} =>
                      payment'[o] = payment[o]
<1>1. IInv /\ [Next]_vars => [Stays]_vars
  <2> SUFFICES ASSUME IInv, Next PROVE Stays
    OBVIOUS
  <2>1. ASSUME NEW o \in Orders, CreateOrder(o) PROVE Stays
    BY <2>1 DEF CreateOrder, IInv, TypeOK
  <2>2. ASSUME NEW r \in Requests, MarkFailed(r) PROVE Stays
    BY <2>2 DEF MarkFailed, IInv, TypeOK
  <2>3. ASSUME NEW r \in Requests, Capture(r) PROVE Stays
    BY <2>3 DEF Capture, IInv, TypeOK
  <2>4. CASE UNCHANGED payment
    BY <2>4
  <2>5. QED
    BY <2>1, <2>2, <2>3, <2>4
       DEF Next, Work, AttemptFails, Pay, Requote, Relink, DeleteCourse, Webhook,
           Verify, Abort, SwallowedError, Ignore, AlreadyCaptured, ReadPayment, Allow,
           Reject, CaptureRaises, CaptureMisses, tables
<1>2. QED BY <1>1, Invariance, PTL DEF Spec, SettledIsFinal

-----------------------------------------------------------------------------
(* A package that is paid more than once.                                  *)

\* The orders of a workshop that are captured, or that a request has allowed
\* and may yet capture.
Cleared(w) ==
  PackagesPaid(w) \cup
    {o \in Orders : Package[o] = w /\ \E r \in Requests : pc[r] = "capture" /\ order[r] = o}

\* Until the link is edited they are not more than the requests: while one is
\* captured, the workshop is linked to a captured one and no other is allowed;
\* while none is, each has a request of its own.
ClearedInv ==
  \A w \in Workshops : edited[w] = 0 =>
    /\ IsFiniteSet(Cleared(w))
    /\ Cardinality(Cleared(w)) <= Cardinality(Requests)

\* Orders that requests are about are not more than the requests.
LEMMA OrdersOfRequests ==
  ASSUME NEW S, NEW f, S \subseteq {f[r] : r \in Requests}
  PROVE  IsFiniteSet(S) /\ Cardinality(S) <= Cardinality(Requests)
<1> DEFINE T == {f[r] : r \in Requests}
           g == [r \in Requests |-> f[r]]
<1>1. g \in Surjection(Requests, T)
  BY DEF Surjection
<1>2. /\ IsFiniteSet(Requests) /\ IsFiniteSet(T)
      /\ Cardinality(T) <= Cardinality(Requests)
  <2>1. IsFiniteSet(Requests)
    BY BillingAssumption
  <2> HIDE DEF T, g
  <2>2. QED BY <1>1, <2>1, FS_Surjection
<1>3. /\ Cardinality(Requests) \in Nat /\ Cardinality(T) \in Nat
  BY <1>2, FS_CardinalityType
<1>4. IsFiniteSet(S) /\ Cardinality(S) <= Cardinality(T)
  BY <1>2, FS_Subset
<1>5. Cardinality(S) \in Nat
  BY <1>4, FS_CardinalityType
<1>6. QED BY <1>2, <1>3, <1>4, <1>5

\* Steps that allow no order of the workshop keep the bound.
LEMMA ShrinkCleared ==
  ASSUME ClearedInv, NEW w \in Workshops, edited[w] = 0,
         Cleared(w)' \subseteq Cleared(w)
  PROVE  IsFiniteSet(Cleared(w)') /\ Cardinality(Cleared(w)') <= Cardinality(Requests)
<1>1. IsFiniteSet(Cleared(w)) /\ Cardinality(Cleared(w)) <= Cardinality(Requests)
  BY DEF ClearedInv
<1>2. /\ IsFiniteSet(Cleared(w)')
      /\ Cardinality(Cleared(w)') <= Cardinality(Cleared(w))
  BY <1>1, FS_Subset
<1>3. /\ Cardinality(Cleared(w)) \in Nat /\ Cardinality(Cleared(w)') \in Nat
      /\ Cardinality(Requests) \in Nat
  BY <1>1, <1>2, BillingAssumption, FS_CardinalityType
<1>4. QED BY <1>1, <1>2, <1>3

LEMMA AllowCleared ==
  ASSUME IInv, ClearedInv, NEW r \in Requests, Allow(r)
  PROVE  ClearedInv'
<1> USE DEF IInv, TypeOK
<1>1. /\ pc[r] = "check" /\ pc' = [pc EXCEPT ![r] = "capture"]
      /\ UNCHANGED <<payment, order, edited>>
      /\ linked[Package[order[r]]] \in {NoOrder, order[r]}
  BY DEF Allow, Goto, CaptureAllowed, tables, outside
<1>2. order[r] \in Orders
  BY <1>1 DEF RequestInv
<1>3. SUFFICES ASSUME NEW w \in Workshops, edited[w] = 0
               PROVE  /\ IsFiniteSet(Cleared(w)')
                      /\ Cardinality(Cleared(w)') <= Cardinality(Requests)
  BY <1>1 DEF ClearedInv
<1>4. Cleared(w)' \subseteq Cleared(w) \cup
        (IF Package[order[r]] = w THEN {order[r]} ELSE {})
  BY <1>1 DEF Cleared, PackagesPaid
<1>5. CASE Package[order[r]] # w \/ order[r] \in PackagesPaid(w)
  <2>1. Cleared(w)' \subseteq Cleared(w)
    BY <1>4, <1>5 DEF Cleared
  <2>2. QED BY <1>3, <2>1, ShrinkCleared
<1>6. CASE Package[order[r]] = w /\ order[r] \notin PackagesPaid(w)
  <2>1. linked[w] = NoOrder
    <3>1. linked[w] # order[r]
      BY <1>2, <1>3, <1>6, BillingAssumption DEF CapturedMeansGranted, PackagesPaid
    <3>2. QED BY <1>1, <1>6, <3>1
  <2>2. PackagesPaid(w) = {}
    BY <1>3, <2>1, BillingAssumption DEF CapturedMeansGranted, PackagesPaid, IsRetail
  <2>3. PackagesPaid(w)' = {}
    BY <1>1, <2>2 DEF PackagesPaid
  <2>4. Cleared(w)' \subseteq {order'[q] : q \in Requests}
    BY <2>3 DEF Cleared
  <2>5. QED BY <2>4, OrdersOfRequests
<1>7. QED BY <1>5, <1>6

LEMMA CaptureCleared ==
  ASSUME IInv, ClearedInv, NEW r \in Requests, Capture(r)
  PROVE  ClearedInv'
<1>1. /\ pc[r] = "capture" /\ End(r) /\ UNCHANGED edited
      /\ payment' = [payment EXCEPT ![order[r]] = "captured"]
  BY DEF Capture, Finish, outside
<1>2. \A q \in Requests : pc'[q] = "capture" =>
        pc[q] = "capture" /\ order'[q] = order[q]
  BY <1>1 DEF IInv, TypeOK, End
<1>3. \A w \in Workshops : Cleared(w)' \subseteq Cleared(w)
  BY <1>1, <1>2 DEF IInv, TypeOK, Cleared, PackagesPaid
<1>4. QED BY <1>1, <1>3, ShrinkCleared DEF ClearedInv

\* Every other step captures nothing, and takes no package past its check.
LEMMA OtherCleared ==
  ASSUME IInv, ClearedInv,
         \A w \in Workshops : edited'[w] = 0 => edited[w] = 0,
         \A o \in Orders : payment'[o] = "captured" => payment[o] = "captured",
         \A r \in Requests : pc'[r] = "capture" =>
           \/ pc[r] = "capture" /\ order'[r] = order[r]
           \/ order'[r] \notin Orders \/ IsRetail(order'[r])
  PROVE  ClearedInv'
<1>1. \A w \in Workshops : Cleared(w)' \subseteq Cleared(w)
  BY BillingAssumption DEF Cleared, PackagesPaid, IsRetail
<1>2. QED BY <1>1, ShrinkCleared DEF ClearedInv

LEMMA NextCleared == IInv /\ ClearedInv /\ [Next]_vars => ClearedInv'
<1> SUFFICES ASSUME IInv, ClearedInv, [Next]_vars PROVE ClearedInv'
  OBVIOUS
<1> USE DEF IInv, TypeOK
<1>1. CASE \/ \E o \in Orders : CreateOrder(o) \/ AttemptFails(o) \/ Pay(o)
           \/ \E w \in Workshops : \/ \E q \in 0..MaxQuote : Requote(w, q)
                                   \/ \E o \in Orders \cup {NoOrder} : Relink(w, o)
           \/ DeleteCourse
  <2>1. /\ UNCHANGED <<pc, order>>
        /\ \A w \in Workshops : edited'[w] = 0 => edited[w] = 0
        /\ \A o \in Orders : payment'[o] = "captured" => payment[o] = "captured"
    BY <1>1 DEF CreateOrder, AttemptFails, Pay, Requote, Relink, DeleteCourse,
                tables, request
  <2>2. QED BY <2>1, OtherCleared
<1>2. ASSUME NEW r \in Requests,
             \/ \E e \in Sent : Webhook(r, e)
             \/ \E o \in Orders : Verify(r, o)
             \/ MarkFailed(r) \/ Ignore(r) \/ AlreadyCaptured(r) \/ ReadPayment(r)
             \/ Reject(r) \/ CaptureRaises(r) \/ CaptureMisses(r)
             \/ Abort(r) \/ SwallowedError(r)
      PROVE  ClearedInv'
  <2>1. /\ \A o \in Orders : payment'[o] = "captured" => payment[o] = "captured"
        /\ UNCHANGED edited
    BY <1>2 DEF Webhook, Verify, MarkFailed, Ignore, AlreadyCaptured, ReadPayment,
                Reject, CaptureRaises, CaptureMisses, Abort, SwallowedError, Finish,
                tables, outside
  <2>2. \A q \in Requests : pc'[q] = "capture" =>
          \/ pc[q] = "capture" /\ order'[q] = order[q]
          \/ IsRetail(order'[q])
    BY <1>2 DEF Webhook, Verify, Begin, MarkFailed, Ignore, AlreadyCaptured,
                ReadPayment, Reject, CaptureRaises, CaptureMisses, Abort,
                SwallowedError, Finish, End, Goto
  <2>3. QED BY <2>1, <2>2, OtherCleared
<1>3. ASSUME NEW r \in Requests, Allow(r) \/ Capture(r) PROVE ClearedInv'
  BY <1>3, AllowCleared, CaptureCleared
<1>4. CASE UNCHANGED vars
  BY <1>4, OtherCleared DEF vars, tables, request, outside
<1>5. QED BY <1>1, <1>2, <1>3, <1>4 DEF Next, Work

\* However many package orders of a workshop are open, no more of them are
\* captured than requests can be at work at once, until it is edited by hand.
THEOREM OverpaidIsBounded == Spec => []PackageOverpaidBounded
<1>1. Init => ClearedInv
  <2> SUFFICES ASSUME Init, NEW w \in Workshops
               PROVE  /\ IsFiniteSet(Cleared(w))
                      /\ Cardinality(Cleared(w)) <= Cardinality(Requests)
    BY DEF ClearedInv
  <2>1. Cleared(w) \subseteq {order[r] : r \in Requests}
    BY DEF Init, Cleared, PackagesPaid
  <2>2. QED BY <2>1, OrdersOfRequests
<1>2. ClearedInv => PackageOverpaidBounded
  <2> SUFFICES ASSUME ClearedInv, NEW w \in Workshops, edited[w] = 0
               PROVE  Cardinality(PackagesPaid(w)) <= Cardinality(Requests)
    BY DEF PackageOverpaidBounded
  <2>1. IsFiniteSet(Cleared(w)) /\ Cardinality(Cleared(w)) <= Cardinality(Requests)
    BY DEF ClearedInv
  <2>2. PackagesPaid(w) \subseteq Cleared(w)
    BY DEF Cleared
  <2>3. /\ IsFiniteSet(PackagesPaid(w))
        /\ Cardinality(PackagesPaid(w)) <= Cardinality(Cleared(w))
    BY <2>1, <2>2, FS_Subset
  <2>4. /\ Cardinality(PackagesPaid(w)) \in Nat /\ Cardinality(Cleared(w)) \in Nat
        /\ Cardinality(Requests) \in Nat
    BY <2>1, <2>3, BillingAssumption, FS_CardinalityType
  <2>5. QED BY <2>1, <2>3, <2>4
<1>3. QED BY <1>1, <1>2, NextCleared, Invariance, PTL DEF Spec

-----------------------------------------------------------------------------
(* The tables implement PaymentLedger.                                     *)

\* Once an attempt or the payment itself is reported it stays so, and steps
\* that touch neither leave the reports as they are.
LEMMA ReportsAre ==
  ASSUME TypeOK
  PROVE  \A o \in Orders :
           /\ <<"failed", o>> \in Reports <=> o \in failedOnce
           /\ <<"captured", o>> \in Reports <=> gateway[o] \in {"captured", "mock"}
BY DEF Reports, Event, TypeOK

\* A step of a request that commits no change of a payment or of a grant.
LEMMA QuietStutters ==
  ASSUME UNCHANGED <<gateway, failedOnce, payment, purchase, entitled, linked>>
  PROVE  UNCHANGED Ledger!vars
BY DEF Ledger!vars, Reports, Receipt

\* A mock order is reported as it is opened.
LEMMA CreateOrderOpens ==
  ASSUME IInv, NEW o \in Orders, CreateOrder(o)
  PROVE  Ledger!Open(o)
<1>1. /\ gateway[o] = "none"
      /\ UNCHANGED <<failedOnce, purchase, entitled, linked>>
      /\ payment[o] = "none" /\ payment' = [payment EXCEPT ![o] = "pending"]
  BY DEF CreateOrder, IInv, RowPerOrder
<1>2. PICK g \in {"created", "mock"} : gateway' = [gateway EXCEPT ![o] = g]
  BY DEF CreateOrder
<1>3. {p \in Orders : gateway'[p] \in {"captured", "mock"}}
        = {p \in Orders : gateway[p] \in {"captured", "mock"}}
            \cup (IF g = "mock" THEN {o} ELSE {})
  BY <1>1, <1>2 DEF IInv, TypeOK
<1>4. Reports' \in {Reports, Reports \cup {<<"captured", o>>}}
  BY <1>1, <1>3 DEF Reports, Event
<1>5. Receipt' = Receipt
  BY <1>1 DEF Receipt
<1>6. QED BY <1>1, <1>4, <1>5 DEF Ledger!Open, Ledger!Move

LEMMA AttemptReported ==
  ASSUME IInv, NEW o \in Orders, AttemptFails(o)
  PROVE  Ledger!Report("failed", o)
<1>1. /\ gateway[o] = "created" /\ failedOnce' = failedOnce \cup {o}
      /\ UNCHANGED <<gateway, payment, purchase, entitled, linked>>
  BY DEF AttemptFails, tables
<1>2. Reports' = Reports \cup {<<"failed", o>>}
  BY <1>1 DEF Reports, Event
<1>3. payment[o] # "none" /\ <<"captured", o>> \notin Reports
  BY <1>1, ReportsAre DEF IInv, RowPerOrder
<1>4. Receipt' = Receipt
  BY <1>1 DEF Receipt
<1>5. QED BY <1>1, <1>2, <1>3, <1>4 DEF Ledger!Report

\* A payment that does not fit its row is no report.
LEMMA PaymentReported ==
  ASSUME IInv, NEW o \in Orders, Pay(o)
  PROVE  Ledger!Report("captured", o) \/ UNCHANGED Ledger!vars
<1>1. /\ gateway[o] = "created"
      /\ UNCHANGED <<failedOnce, payment, purchase, entitled, linked>>
  BY DEF Pay, tables
<1>2. PICK g \in {"captured", "odd"} : gateway' = [gateway EXCEPT ![o] = g]
  BY DEF Pay
<1>3. {p \in Orders : gateway'[p] \in {"captured", "mock"}}
        = {p \in Orders : gateway[p] \in {"captured", "mock"}}
            \cup (IF g = "captured" THEN {o} ELSE {})
  BY <1>1, <1>2 DEF IInv, TypeOK
<1>4. Receipt' = Receipt
  BY <1>1 DEF Receipt
<1>5. CASE g = "captured"
  <2>1. Reports' = Reports \cup {<<"captured", o>>}
    BY <1>1, <1>3, <1>5 DEF Reports, Event
  <2>2. payment[o] # "none" /\ <<"captured", o>> \notin Reports
    BY <1>1, ReportsAre DEF IInv, RowPerOrder
  <2>3. QED BY <1>1, <1>4, <2>1, <2>2 DEF Ledger!Report
<1>6. CASE g = "odd"
  <2>1. Reports' = Reports
    BY <1>1, <1>3, <1>6 DEF Reports
  <2>2. QED BY <1>1, <1>4, <2>1 DEF Ledger!vars
<1>7. QED BY <1>5, <1>6

\* A late payment.failed finds no pending row and changes nothing.
LEMMA MarkFailedFails ==
  ASSUME IInv, NEW r \in Requests, MarkFailed(r)
  PROVE  Ledger!Fail(order[r]) \/ UNCHANGED Ledger!vars
<1>1. /\ order[r] \in Orders /\ order[r] \in failedOnce
      /\ UNCHANGED <<gateway, failedOnce, purchase, entitled, linked>>
      /\ payment' = [payment EXCEPT ![order[r]] =
                       IF payment[order[r]] = "pending" THEN "failed"
                       ELSE payment[order[r]]]
  BY DEF MarkFailed, Finish, IInv, RequestInv, outside
<1>2. Reports' = Reports /\ Receipt' = Receipt
  BY <1>1 DEF Reports, Receipt
<1>3. CASE payment[order[r]] = "pending"
  <2>1. <<"failed", order[r]>> \in Reports
    BY <1>1, ReportsAre DEF IInv
  <2>2. QED BY <1>1, <1>2, <1>3, <2>1 DEF Ledger!Fail, Ledger!Move
<1>4. CASE payment[order[r]] # "pending"
  <2>1. payment' = payment
    BY <1>1, <1>4 DEF IInv, TypeOK
  <2>2. QED BY <1>1, <2>1, QuietStutters
<1>5. QED BY <1>3, <1>4

\* One commit captures the payment and gives the good.
LEMMA CaptureCaptures ==
  ASSUME IInv, NEW r \in Requests, NEW o, o = order[r], Capture(r)
  PROVE  Ledger!Capture(o)
<1>1. /\ o \in Orders /\ gateway[o] \in {"captured", "mock"}
      /\ UNCHANGED <<gateway, failedOnce>> /\ payment[o] = "pending"
      /\ payment' = [payment EXCEPT ![o] = "captured"] /\ Grant(o)
  BY DEF Capture, Finish, IInv, RequestInv, outside
<1>2. Reports' = Reports /\ <<"captured", o>> \in Reports
  BY <1>1, ReportsAre DEF IInv, Reports
<1>3. o # NoOrder
  BY <1>1, BillingAssumption
<1>4. \E p \in {o, Receipt[Buys[o]]} \ {NoOrder} :
        Receipt' = [Receipt EXCEPT ![Buys[o]] = p]
  <2>1. CASE IsRetail(o)
    <3>1. PICK u \in Users : u = Payer[o]
      BY <1>1, BillingAssumption
    <3>2. Buys[o] = <<"content", u>> /\ Buys[o] \in Goods
      BY <1>1, <2>1, <3>1 DEF Buys, Goods
    <3>3. PICK p \in {o, purchase[u]} \ {NoOrder} :
            /\ purchase' = [purchase EXCEPT ![u] = p]
            /\ purchase[u] # NoOrder => p = purchase[u]
      BY <1>1, <1>3, <2>1, <3>1 DEF Grant
    <3>4. entitled' = entitled \cup {u} /\ linked' = linked
      BY <1>1, <2>1, <3>1 DEF Grant
    <3>5. Receipt[Buys[o]] = purchase[u]
      BY <3>2 DEF Receipt, IInv, CapturedMeansGranted
    <3>6. ASSUME NEW g \in Goods
          PROVE  Receipt'[g] = IF g = Buys[o] THEN p ELSE Receipt[g]
      <4>1. CASE g[1] = "package"
        BY <3>2, <3>4, <4>1 DEF Receipt
      <4>2. CASE g[1] # "package"
        <5>1. g = <<"content", g[2]>> /\ g[2] \in Users
          BY <4>2 DEF Goods
        <5>2. purchase'[g[2]] = IF g[2] = u THEN p ELSE purchase[g[2]]
          BY <3>3, <5>1 DEF IInv, TypeOK
        <5>3. QED BY <3>2, <3>4, <4>2, <5>1, <5>2 DEF Receipt
      <4>3. QED BY <4>1, <4>2
    <3>7. Receipt' = [Receipt EXCEPT ![Buys[o]] = p]
      BY <3>6 DEF Receipt
    <3>8. QED BY <3>3, <3>5, <3>7
  <2>2. CASE ~IsRetail(o)
    <3>1. PICK w \in Workshops : w = Package[o]
      BY <1>1, <2>2, BillingAssumption DEF IsRetail
    <3>2. Buys[o] = <<"package", w>> /\ Buys[o] \in Goods
      BY <1>1, <2>2, <3>1 DEF Buys, Goods
    <3>3. /\ linked' = [linked EXCEPT ![w] = o]
          /\ UNCHANGED <<purchase, entitled>>
      BY <1>1, <2>2, <3>1 DEF Grant
    <3>4. ASSUME NEW g \in Goods
          PROVE  Receipt'[g] = IF g = Buys[o] THEN o ELSE Receipt[g]
      <4>1. CASE g[1] = "package"
        <5>1. g = <<"package", g[2]>> /\ g[2] \in Workshops
          BY <4>1 DEF Goods
        <5>2. linked'[g[2]] = IF g[2] = w THEN o ELSE linked[g[2]]
          BY <3>3, <5>1 DEF IInv, TypeOK
        <5>3. QED BY <3>2, <4>1, <5>1, <5>2 DEF Receipt
      <4>2. CASE g[1] # "package"
        BY <3>2, <3>3, <4>2 DEF Receipt
      <4>3. QED BY <4>1, <4>2
    <3>5. Receipt' = [Receipt EXCEPT ![Buys[o]] = o]
      BY <3>4 DEF Receipt
    <3>6. QED BY <1>3, <3>5
  <2>3. QED BY <2>1, <2>2
<1>5. QED BY <1>1, <1>2, <1>4 DEF Ledger!Capture, Ledger!Move

\* An edit of a workshop's payment_id is an amendment.
LEMMA RelinkAmends ==
  ASSUME IInv, NEW w \in Workshops, NEW o \in Orders \cup {NoOrder}, Relink(w, o)
  PROVE  Ledger!Amend(<<"package", w>>)
<1>1. /\ UNCHANGED <<gateway, failedOnce, payment, purchase, entitled>>
      /\ linked' = [linked EXCEPT ![w] = o]
      /\ o # NoOrder => payment[o] # "none"
  BY DEF Relink
<1>2. ASSUME NEW g \in Goods
      PROVE  Receipt'[g] = IF g = <<"package", w>> THEN o ELSE Receipt[g]
  <2>1. CASE g[1] = "package"
    <3>1. g = <<"package", g[2]>> /\ g[2] \in Workshops
      BY <2>1 DEF Goods
    <3>2. linked'[g[2]] = IF g[2] = w THEN o ELSE linked[g[2]]
      BY <1>1, <3>1 DEF IInv, TypeOK
    <3>3. QED BY <2>1, <3>1, <3>2 DEF Receipt
  <2>2. CASE g[1] # "package"
    BY <1>1, <2>2 DEF Receipt
  <2>3. QED BY <2>1, <2>2
<1>3. Receipt' = [Receipt EXCEPT ![<<"package", w>>] = o]
  BY <1>2 DEF Receipt
<1>4. Reports' = Reports
  BY <1>1 DEF Reports
<1>5. QED BY <1>1, <1>3, <1>4 DEF Ledger!Amend

\* The billing tables implement PaymentLedger, for any orders and any number
\* of webhooks and verify-captures at once.
THEOREM ImplementsLedger == Spec => RefinesLedger
<1>1. Init => Ledger!Init
  <2> SUFFICES ASSUME Init PROVE Ledger!Init
    OBVIOUS
  <2>1. Reports = {}
    BY DEF Init, Reports
  <2>2. Receipt = [g \in Goods |-> NoOrder]
    <3>1. ASSUME NEW g \in Goods PROVE Receipt[g] = NoOrder
      BY DEF Init, Receipt, Goods
    <3>2. QED BY <3>1 DEF Receipt
  <2>3. QED BY <2>1, <2>2 DEF Init, Ledger!Init
<1>2. IInv /\ [Next]_vars => [Ledger!Next]_(Ledger!vars)
  <2> SUFFICES ASSUME IInv, [Next]_vars
               PROVE  [Ledger!Next]_(Ledger!vars)
    OBVIOUS
  <2>1. ASSUME NEW o \in Orders, CreateOrder(o) \/ AttemptFails(o) \/ Pay(o)
        PROVE  [Ledger!Next]_(Ledger!vars)
    BY <2>1, CreateOrderOpens, AttemptReported, PaymentReported DEF Ledger!Next
  <2>2. ASSUME NEW r \in Requests, MarkFailed(r)
        PROVE  [Ledger!Next]_(Ledger!vars)
    <3>1. order[r] \in Orders
      BY <2>2 DEF MarkFailed, Finish, IInv, RequestInv
    <3>2. QED BY <2>2, <3>1, MarkFailedFails DEF Ledger!Next
  <2>3. ASSUME NEW r \in Requests, Capture(r) PROVE Ledger!Next
    <3>1. order[r] \in Orders
      BY <2>3 DEF Capture, Finish, IInv, RequestInv
    <3>2. Ledger!Capture(order[r])
      BY <2>3, CaptureCaptures
    <3>3. QED BY <3>1, <3>2 DEF Ledger!Next
  <2>4. CASE UNCHANGED <<gateway, failedOnce, payment, purchase, entitled, linked>>
    BY <2>4, QuietStutters
  <2>5. CASE \/ \E w \in Workshops, q \in 0..MaxQuote : Requote(w, q)
             \/ DeleteCourse
             \/ \E r \in Requests :
                  \/ \E e \in Sent : Webhook(r, e)
                  \/ \E o \in Orders : Verify(r, o)
                  \/ ReadPayment(r) \/ Allow(r) \/ Abort(r) \/ SwallowedError(r)
                  \/ Ignore(r) \/ AlreadyCaptured(r) \/ Reject(r)
                  \/ CaptureRaises(r) \/ CaptureMisses(r)
    <3>1. UNCHANGED <<gateway, failedOnce, payment, purchase, entitled, linked>>
      BY <2>5
      DEF Requote, DeleteCourse, Webhook, Verify, ReadPayment, Allow, Abort,
          SwallowedError, Ignore, AlreadyCaptured, Reject, CaptureRaises,
          CaptureMisses, Finish, outside, tables
    <3>2. QED BY <3>1, <2>4
  <2>6. CASE UNCHANGED vars
    BY <2>4, <2>6 DEF vars, outside, tables
  <2>7. ASSUME NEW w \in Workshops, NEW o \in Orders \cup {NoOrder}, Relink(w, o)
        PROVE  Ledger!Next
    BY <2>7, RelinkAmends DEF Ledger!Next
  <2>8. QED BY <2>1, <2>2, <2>3, <2>5, <2>6, <2>7 DEF Next, Work
<1>3. QED BY <1>1, <1>2, Invariance, PTL DEF Spec, RefinesLedger, Ledger!Spec
=============================================================================
