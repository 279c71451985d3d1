----------------------------- MODULE MCLeasing -----------------------------
(* Units, tenants and leases on small instances.                           *)
EXTENDS Leasing, TLC

\* Tenants, units and lease ids are interchangeable.
Symmetry == Permutations(Tenant) \cup Permutations(Unit) \cup Permutations(LeaseId)
=============================================================================
