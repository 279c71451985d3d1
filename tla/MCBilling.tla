----------------------------- MODULE MCBilling -----------------------------
(* Billing on small instances: leases, their tenants and rents.            *)
EXTENDS Views, TLC

CONSTANTS t1, t2, l1, l2

MCLeaseTenant == [l \in Lease |-> IF l = l1 THEN t1 ELSE IF t2 \in Tenant THEN t2 ELSE t1]
MCLeaseRent == [l \in Lease |-> 1]

\* Invoice ids are interchangeable.
Symmetry == Permutations(InvoiceId)
=============================================================================
