---------------------------- MODULE MCSettlement ----------------------------
(* A few requests that meet on one invoice, or on two.                     *)
EXTENDS Settlement, TLC

CONSTANTS
  i1, i2, p1, p2, c1, c2, m2, adj, can,   \* invoices, payments, requests
  Apart                                       \* the requests about i2

\* c1, c2: a callback of p1 and its duplicate; m2: p2 recorded by hand; adj: a
\* discount of 4, more than is on an invoice; can: a cancellation.
JobOf(x) ==
  [kind |-> CASE x \in {c1, c2} -> "callback" [] x = m2 -> "manual"
              [] x = adj -> "adjust" [] OTHER -> "cancel",
   payment |-> IF x \in {c1, c2} THEN p1 ELSE p2,
   invoice |-> IF x \in Apart THEN i2 ELSE i1,
   amount |-> IF x = adj THEN -4 ELSE 0]
MCJob == [x \in Request |-> JobOf(x)]
MCTotal == [i \in Invoice |-> 3]
MCAmount == [p \in Payment |-> IF p = p1 THEN 3 ELSE 1]
=============================================================================
