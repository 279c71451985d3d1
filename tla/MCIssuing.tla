----------------------------- MODULE MCIssuing -----------------------------
(* Two monthly runs, a bill by hand, the end of a lease, asked for twice,   *)
(* and three new ones, in the sets that meet on one lease, unit, tenant or  *)
(* number.                                                                  *)
EXTENDS Issuing, TLC

CONSTANTS t1, t2, t3, u1, u2, u3, l1, l2, l3, l4, l5,
  run1, run2, bill, end, again, letA, letB, letC

\* Signed: l1 (t1 in u1) and l4 (t3 in u3).  To sign: l2 (t2 in u1, once it is
\* free), l3 (t2 in u2) and l5 (t1 in u1).
MCLeaseTenant == (l1 :> t1) @@ (l2 :> t2) @@ (l3 :> t2) @@ (l4 :> t3) @@ (l5 :> t1)
MCLeaseUnit == (l1 :> u1) @@ (l2 :> u1) @@ (l3 :> u2) @@ (l4 :> u3) @@ (l5 :> u1)
MCJob == [x \in Request |->
  [kind |-> CASE x \in {run1, run2} -> "run" [] x = bill -> "bill" [] x \in {end, again} -> "end"
              [] OTHER -> "let",
   lease |-> CASE x = letA -> l2 [] x = letB -> l3 [] x = letC -> l5 [] OTHER -> l1,
   tenant |-> t1]]
MCTogether == {{run1, run2}, {run1, bill, end}, {run1, end, letA}, {run1, letB},
               {bill, end, letB}, {end, letA, letB}, {end, again, letA, letC}}
=============================================================================
