\* Every operation in every order, out of date pages and the unused assignment
\* too; or the plain operations only: let, terminate the active lease, edit.
SPECIFICATION Spec
SYMMETRY Symmetry
CONSTANTS
  Tenant = {t1, t2}
  Unit = {u1, u2}
  LeaseId = {l1, l2, l3}
  Rents = {1, 2}
  UnitRents = {1}
  NoUnit = NoUnit
  UnitEdits = {"MAINTENANCE", "OCCUPIED"}
  TenantEdits = {"ACTIVE"}
  Uses = {{}, {"renew", "terminateEnded", "markVacant", "assign", "moveOut", "setOccupied"}}
INVARIANTS
  OneActivePerTenant
  InStep
PROPERTIES
  RentShownIsBilled
  OccupancySpec
