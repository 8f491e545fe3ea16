-------------------------- MODULE MCRazorpayBilling --------------------------
(***************************************************************************)
(* RazorpayBilling for TLC: who pays which order for what.                 *)
(***************************************************************************)
EXTENDS RazorpayBilling, TLC

CONSTANTS o1, o2, u1, w1

OneCustomer == [o \in Orders |-> u1]

\* A package order and a retail order; the same content every time; and several
\* operators, or one in several browser tabs, at the same package.
RetailAndPackage == [o \in Orders |-> IF o = o1 THEN Retail ELSE w1]
BothRetail       == [o \in Orders |-> Retail]
OnePackage       == [o \in Orders |-> w1]

\* Attempts to pay the retail order may fail, or it is a mock; the payment of
\* the package order may not fit its row.
HazardsShared == [o \in Orders |-> IF o = o1 THEN {"failed", "captured", "mock"}
                                            ELSE {"captured", "odd"}]
AllOutcomes   == [o \in Orders |-> {"failed", "captured", "odd", "mock"}]

Symmetry == Permutations(Requests)
=============================================================================
