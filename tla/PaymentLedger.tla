---------------------------- MODULE PaymentLedger ----------------------------
(***************************************************************************)
(* What the billing tables promise customers and bookkeepers: the ledger   *)
(* follows the gateway's reports.  An order is opened once and settled     *)
(* once, as captured or as failed, only after the gateway has reported so, *)
(* and in the commit that captures it the customer gets what was bought,   *)
(* with a receipt that names an order.  Receipts for packages are amended  *)
(* by hand, without a word to the ledger; those for content never are.     *)
(*                                                                         *)
(*             none -> pending -> captured (and the good is given)         *)
(*                        |                                                *)
(*                      failed                                             *)
(*                                                                         *)
(* Nothing here says which request does it, how often a report is          *)
(* delivered or what is read before: RazorpayBilling does, and implements  *)
(* this module.                                                            *)
(***************************************************************************)
CONSTANTS
  Orders,
  Goods,          \* contents for a user, packages for a workshop
  Amendable,      \* goods whose receipt an administrator may set
  Buys,           \* the good of each order
  NoOrder

VARIABLES
  reports,        \* what the gateway has reported, <<"failed", o>> among them
  ledger,         \* payments.status; "none" before the INSERT
  receipt         \* the order each good was given for

vars == <<reports, ledger, receipt>>

Init ==
  /\ reports = {}
  /\ ledger = [o \in Orders |-> "none"]
  /\ receipt = [g \in Goods |-> NoOrder]

Move(o, from, to) ==
  /\ ledger[o] = from
  /\ ledger' = [ledger EXCEPT ![o] = to]

\* A mock order counts as paid from the start.
Open(o) ==
  /\ Move(o, "none", "pending")
  /\ reports' \in {reports, reports \cup {<<"captured", o>>}}
  /\ UNCHANGED receipt

\* Attempts may fail until one is captured; only open orders are paid.
Report(kind, o) ==
  /\ ledger[o] # "none"
  /\ <<"captured", o>> \notin reports
  /\ reports' = reports \cup {<<kind, o>>}
  /\ UNCHANGED <<ledger, receipt>>

Fail(o) ==
  /\ <<"failed", o>> \in reports
  /\ Move(o, "pending", "failed") /\ UNCHANGED <<reports, receipt>>

\* Who has the good already may keep the older receipt.
Capture(o) ==
  /\ <<"captured", o>> \in reports
  /\ Move(o, "pending", "captured") /\ UNCHANGED reports
  /\ \E p \in {o, receipt[Buys[o]]} \ {NoOrder} :
       receipt' = [receipt EXCEPT ![Buys[o]] = p]

\* To no order, or to any that there is.
Amend(g) ==
  /\ \E p \in Orders \cup {NoOrder} :
       /\ p # NoOrder => ledger[p] # "none"
       /\ receipt' = [receipt EXCEPT ![g] = p]
  /\ UNCHANGED <<reports, ledger>>

Next ==
  \/ \E o \in Orders :
       \/ Open(o) \/ Fail(o) \/ Capture(o)
       \/ \E kind \in {"failed", "captured"} : Report(kind, o)
  \/ \E g \in Amendable : Amend(g)

Spec == Init /\ [][Next]_vars
=============================================================================
