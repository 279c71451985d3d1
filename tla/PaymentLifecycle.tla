-------------------------- MODULE PaymentLifecycle --------------------------
(***************************************************************************)
(* What a tenant is promised of one online payment: it is absent, then     *)
(* pending, then settled one way for good; it is booked to the tenant's    *)
(* account exactly once, at the moment it succeeds, with a receipt, and    *)
(* never otherwise.                                                        *)
(***************************************************************************)
EXTENDS Naturals

CONSTANT Push

VARIABLES
  stage,    \* stage[p] of payment p as the status page reads it ("NONE": no such payment)
  booked    \* booked[p]: how many times its amount was booked

lifecycleVars == <<stage, booked>>

Init ==
  /\ stage = [p \in Push |-> "NONE"]
  /\ booked = [p \in Push |-> 0]

\* The row appears once the gateway has the request, or has refused it.
Appear(p) ==
  /\ stage[p] = "NONE"
  /\ \E s \in {"PENDING", "FAILED"} : stage' = [stage EXCEPT ![p] = s]
  /\ UNCHANGED booked

Succeed(p) ==
  /\ stage[p] = "PENDING"
  /\ stage' = [stage EXCEPT ![p] = "SUCCESSFUL"]
  /\ booked' = [booked EXCEPT ![p] = @ + 1]

Fail(p) ==
  /\ stage[p] = "PENDING"
  /\ stage' = [stage EXCEPT ![p] = "FAILED"]
  /\ UNCHANGED booked

Next == \E p \in Push : Appear(p) \/ Succeed(p) \/ Fail(p)

Spec == Init /\ [][Next]_lifecycleVars
=============================================================================
