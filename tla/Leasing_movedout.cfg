\* A tenant is moved out with the button made for it.
SPECIFICATION Spec
CONSTANTS
  Tenant = {t1, t2}
  Unit = {u1}
  LeaseId = {l1, l2, l3}
  Rents = {1, 2}
  UnitRents = {1}
  NoUnit = NoUnit
  UnitEdits = {"AVAILABLE", "MAINTENANCE"}
  TenantEdits = {"MOVED_OUT"}
  Uses = {{"moveOut"}}
INVARIANTS
  AssignmentFollowsLease
