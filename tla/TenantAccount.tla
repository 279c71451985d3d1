--------------------------- MODULE TenantAccount ---------------------------
(***************************************************************************)
(* What billing promises a tenant, without invoices: an account on which   *)
(* charges are booked and payments are received.  The balance the portal   *)
(* shows (get_tenant_balance) is billed - received.  A payment counts once *)
(* and in full, for the one who paid, and moves nothing on any account but *)
(* the payer's; charges never alter what was received.                     *)
(***************************************************************************)
EXTENDS Integers

CONSTANTS Tenant, Amounts

VARIABLES billed, received

accountVars == <<billed, received>>

Init ==
  /\ billed = [t \in Tenant |-> 0]
  /\ received = [t \in Tenant |-> 0]

\* Invoices issued, adjusted or written off, of one tenant or of many.
Charge ==
  /\ billed' \in [Tenant -> Int]
  /\ UNCHANGED received

Pay(t, a) ==
  /\ received' = [received EXCEPT ![t] = @ + a]
  /\ UNCHANGED billed

Next == Charge \/ \E t \in Tenant, a \in Amounts : Pay(t, a)

Spec == Init /\ [][Next]_accountVars
=============================================================================
