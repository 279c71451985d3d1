---------------------------- MODULE MCAllocation ----------------------------
(* Three payments of a tenant with three invoices, two of them due on one day. *)
EXTENDS Allocation

CONSTANTS part, rest, named, i1, i2, i3

\* part pays the two oldest invoices but for a part, rest all of them and more,
\* named is made against the second.
MCAmount == [x \in Request |-> CASE x = part -> 3 [] x = rest -> 7 [] OTHER -> 1]
MCNamed == [x \in Request |-> IF x = named THEN {i2} ELSE {}]
MCDue == [i \in Invoice |-> IF i = i3 THEN 2 ELSE 1]
MCTotal == [i \in Invoice |-> 2]
=============================================================================
