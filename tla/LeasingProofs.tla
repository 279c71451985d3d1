--------------------------- MODULE LeasingProofs ---------------------------
(***************************************************************************)
(* Proofs about Leasing, for any tenants, units, leases and rents.         *)
(*                                                                         *)
(* Whatever operations are used: types, one active lease a tenant, and     *)
(* leases that only end.  With the plain operations alone (used empty):    *)
(* unit status, assignment and lease in step.                              *)
(***************************************************************************)
EXTENDS Leasing, TLAPS

----------------------------------------------------------------------------
(* What a step does to the leases.                                         *)

\* A lease that is not changed keeps its row, and one that is keeps tenant and
\* unit and does not become ACTIVE.
KeepsOrEnds ==
  /\ DOMAIN leases' = DOMAIN leases
  /\ \A i \in DOMAIN leases :
       /\ leases'[i].tenant = leases[i].tenant /\ leases'[i].unit = leases[i].unit
       /\ leases'[i].status = "ACTIVE" => leases[i].status = "ACTIVE"
       /\ leases[i].status = "TERMINATED" => leases'[i].status = "TERMINATED"

LEMMA RenewEnds ==
  ASSUME TypeOK, NEW i \in LeaseId, NEW r \in Rents, RenewLease(i, r)
  PROVE  /\ KeepsOrEnds
         /\ leases' \in [DOMAIN leases -> LeaseRow]
  BY DEF TypeOK, RenewLease, KeepsOrEnds, ActiveLeases, LeaseRow, LeaseStatus

LEMMA TerminateEnds ==
  ASSUME TypeOK, NEW i \in LeaseId, TerminateLease(i)
  PROVE  /\ KeepsOrEnds
         /\ leases' \in [DOMAIN leases -> LeaseRow]
  BY DEF TypeOK, TerminateLease, KeepsOrEnds, LeaseRow, LeaseStatus

\* A lease that is signed is new, and its tenant has no other.
LEMMA CreateSigns ==
  ASSUME TypeOK, NEW i \in LeaseId, NEW t \in Tenant, NEW u \in Unit, NEW r \in Rents,
         CreateLease(i, t, u, r)
  PROVE  /\ i \notin DOMAIN leases
         /\ DOMAIN leases' = DOMAIN leases \cup {i}
         /\ leases' \in [DOMAIN leases' -> LeaseRow]
         /\ \A j \in DOMAIN leases : leases'[j] = leases[j]
         /\ leases'[i] = [tenant |-> t, unit |-> u, rent |-> r, status |-> "ACTIVE"]
         /\ \A j \in ActiveLeases : leases[j].tenant # t
  BY DEF TypeOK, CreateLease, Sign, LetsAlready, LeaseRow, LeaseStatus

----------------------------------------------------------------------------
(* Types.                                                                  *)

LEMMA TypeInit == Init => TypeOK
  BY DEF Init, TypeOK

LEMMA TypeUnit ==
  ASSUME TypeOK, UnitStep, UNCHANGED used PROVE TypeOK'
<1>1. PICK u \in Unit :
        \/ \E r \in UnitRents : CreateUnit(u, r) \/ \E s \in UnitEdits : UpdateUnit(u, s, r)
        \/ MarkVacant(u)
        \/ \E t \in Tenant : Assign(u, t)
  BY DEF UnitStep
<1>2. ASSUME NEW r \in UnitRents, CreateUnit(u, r) PROVE TypeOK'
  BY <1>2 DEF TypeOK, CreateUnit, UnitRow, UnitStatus
<1>3. ASSUME NEW r \in UnitRents, NEW s \in UnitEdits, UpdateUnit(u, s, r) PROVE TypeOK'
  BY <1>3, LeasingAssumption DEF TypeOK, UpdateUnit, UnitRow
<1>4. CASE MarkVacant(u)
  BY <1>4 DEF TypeOK, MarkVacant, UnitRow, UnitStatus
<1>5. ASSUME NEW t \in Tenant, Assign(u, t) PROVE TypeOK'
  BY <1>5, LeasingAssumption DEF TypeOK, Assign, UnitRow, UnitStatus, TenantRow
<1>6. QED
  BY <1>1, <1>2, <1>3, <1>4, <1>5

LEMMA TypeTenant ==
  ASSUME TypeOK, TenantStep, UNCHANGED used PROVE TypeOK'
<1>1. PICK t \in Tenant :
        CreateTenant(t) \/ MoveOut(t) \/ \E s \in TenantEdits : UpdateTenant(t, s)
  BY DEF TenantStep
<1>2. CASE CreateTenant(t)
  BY <1>2 DEF TypeOK, CreateTenant, TenantRow, TenantStatus
<1>3. CASE MoveOut(t)
  BY <1>3 DEF TypeOK, MoveOut, TenantRow, TenantStatus, UnitRow, UnitStatus
<1>4. ASSUME NEW s \in TenantEdits, UpdateTenant(t, s) PROVE TypeOK'
  BY <1>4, LeasingAssumption DEF TypeOK, UpdateTenant, TenantRow
<1>5. QED
  BY <1>1, <1>2, <1>3, <1>4

LEMMA TypeLease ==
  ASSUME TypeOK, LeaseStep, UNCHANGED used PROVE TypeOK'
<1>1. PICK i \in LeaseId :
        \/ \E t \in Tenant, u \in Unit, r \in Rents : CreateLease(i, t, u, r)
        \/ \E r \in Rents : RenewLease(i, r)
        \/ TerminateLease(i)
  BY DEF LeaseStep
<1>2. ASSUME NEW t \in Tenant, NEW u \in Unit, NEW r \in Rents, CreateLease(i, t, u, r)
      PROVE  TypeOK'
  <2>0. /\ i \notin DOMAIN leases
        /\ DOMAIN leases' = DOMAIN leases \cup {i}
        /\ leases' \in [DOMAIN leases' -> LeaseRow]
        /\ \A j \in DOMAIN leases : leases'[j] = leases[j]
        /\ leases'[i] = [tenant |-> t, unit |-> u, rent |-> r, status |-> "ACTIVE"]
        /\ \A j \in ActiveLeases : leases[j].tenant # t
    BY <1>2, CreateSigns
  <2>1. /\ DOMAIN tenants' = DOMAIN tenants /\ DOMAIN units' = DOMAIN units
        /\ t \in DOMAIN tenants /\ u \in DOMAIN units
    BY <1>2 DEF CreateLease, Sign
  <2>2. units' \in [DOMAIN units -> UnitRow]
    BY <1>2 DEF TypeOK, CreateLease, Sign, UnitRow, UnitStatus
  <2>3. tenants' \in [DOMAIN tenants -> TenantRow]
    BY <1>2 DEF TypeOK, CreateLease, Sign, TenantRow, TenantStatus
  <2>4. \A j \in DOMAIN leases' :
          leases'[j].tenant \in DOMAIN tenants' /\ leases'[j].unit \in DOMAIN units'
    BY <2>0, <2>1 DEF TypeOK
  <2>5. QED
    BY <2>0, <2>1, <2>2, <2>3, <2>4 DEF TypeOK
<1>3. ASSUME NEW r \in Rents, RenewLease(i, r) PROVE TypeOK'
  <2>0. units' = units
    BY <1>3 DEF RenewLease
  <2>1. tenants' \in [DOMAIN tenants -> TenantRow]
    <3>1. \A s \in DOMAIN tenants : tenants[s] \in TenantRow
      BY DEF TypeOK
    <3> QED BY <1>3, <3>1 DEF RenewLease, TenantRow, TypeOK
  <2>2. QED
    BY <1>3, <2>0, <2>1, RenewEnds DEF TypeOK, KeepsOrEnds
<1>4. CASE TerminateLease(i)
  <2>1. tenants' \in [DOMAIN tenants -> TenantRow] /\ units' \in [DOMAIN units -> UnitRow]
    BY <1>4 DEF TypeOK, TerminateLease, TenantRow, UnitRow, UnitStatus
  <2>2. QED
    BY <1>4, <2>1, TerminateEnds DEF TypeOK, KeepsOrEnds
<1>5. QED
  BY <1>1, <1>2, <1>3, <1>4

LEMMA TypeNext == TypeOK /\ [Next]_vars => TypeOK'
<1>1. TypeOK /\ UNCHANGED vars => TypeOK'
  BY DEF TypeOK, vars
<1>2. QED
  BY <1>1, TypeUnit, TypeTenant, TypeLease DEF Next

\* The three tables keep their types, whatever operations the staff use, and
\* every lease names a tenant and a unit that exist.
THEOREM TypeCorrect == Spec => []TypeOK
  BY TypeInit, TypeNext, PTL DEF Spec

----------------------------------------------------------------------------
(* Leases, whatever operations are used.                                   *)

\* Every step either signs one lease or at most ends some.
LEMMA LeaseEffect ==
  ASSUME TypeOK, [Next]_vars
  PROVE  \/ KeepsOrEnds
         \/ \E i \in LeaseId, t \in Tenant, u \in Unit, r \in Rents : CreateLease(i, t, u, r)
<1>1. leases' = leases => KeepsOrEnds
  BY DEF KeepsOrEnds
<1>2. CASE UnitStep
  BY <1>1, <1>2 DEF UnitStep, CreateUnit, UpdateUnit, MarkVacant, Assign
<1>3. CASE TenantStep
  BY <1>1, <1>3 DEF TenantStep, CreateTenant, MoveOut, UpdateTenant
<1>4. CASE LeaseStep
  BY <1>4, RenewEnds, TerminateEnds DEF LeaseStep
<1>5. CASE UNCHANGED vars
  BY <1>1, <1>5 DEF vars
<1>6. QED
  BY <1>2, <1>3, <1>4, <1>5 DEF Next

LEMMA OneActiveNext ==
  ASSUME TypeOK, OneActivePerTenant, [Next]_vars PROVE OneActivePerTenant'
<1>1. CASE KeepsOrEnds
  BY <1>1 DEF KeepsOrEnds, OneActivePerTenant, ActiveLeases
<1>2. ASSUME NEW i \in LeaseId, NEW t \in Tenant, NEW u \in Unit, NEW r \in Rents,
             CreateLease(i, t, u, r)
      PROVE  OneActivePerTenant'
  <2>0. /\ i \notin DOMAIN leases
        /\ DOMAIN leases' = DOMAIN leases \cup {i}
        /\ leases' \in [DOMAIN leases' -> LeaseRow]
        /\ \A j \in DOMAIN leases : leases'[j] = leases[j]
        /\ leases'[i] = [tenant |-> t, unit |-> u, rent |-> r, status |-> "ACTIVE"]
        /\ \A j \in ActiveLeases : leases[j].tenant # t
    BY <1>2, CreateSigns
  <2>1. \A j \in ActiveLeases' : j # i => j \in ActiveLeases /\ leases'[j] = leases[j]
    BY <2>0 DEF ActiveLeases
  <2>2. \A j \in ActiveLeases' : j # i => leases'[j].tenant # leases'[i].tenant
    BY <2>0, <2>1
  <2>3. QED
    BY <2>1, <2>2 DEF OneActivePerTenant
<1>3. QED
  BY <1>1, <1>2, LeaseEffect

\* No mix of operations gives a tenant a second active lease.
THEOREM OneLeaseATenant == Spec => []OneActivePerTenant
<1>1. Init => OneActivePerTenant
  BY DEF Init, OneActivePerTenant, ActiveLeases
<1>2. QED
  BY <1>1, TypeCorrect, OneActiveNext, PTL DEF Spec

\* No operation revives a lease that has ended.
THEOREM EndedLeasesStayEnded == Spec => LeasesOnlyEnd
<1> DEFINE Ends == \A i \in DOMAIN leases :
      /\ leases[i].status # "ACTIVE" => leases'[i].status # "ACTIVE"
      /\ leases[i].status = "TERMINATED" => leases'[i].status = "TERMINATED"
<1>1. ASSUME TypeOK, [Next]_vars PROVE Ends
  BY <1>1, LeaseEffect, CreateSigns DEF KeepsOrEnds
<1>2. TypeOK /\ [Next]_vars => [Ends]_vars
  BY <1>1
<1>3. QED
  BY <1>2, TypeCorrect, PTL DEF Spec, LeasesOnlyEnd

----------------------------------------------------------------------------
(* The rent shown is the rent billed.                                      *)

\* What the property asks of a step.
RentsFollow ==
  \A i \in ActiveLeases' : (i \in ActiveLeases => RentAgrees(i)) => RentAgrees(i)'

\* The leases still active, with the rents of their tenants, are as they were.
RentsStay ==
  \A i \in ActiveLeases' :
    /\ i \in ActiveLeases /\ leases'[i] = leases[i]
    /\ tenants'[leases[i].tenant].rent = tenants[leases[i].tenant].rent

LEMMA StayIsFollow == RentsStay => RentsFollow
  BY DEF RentsStay, RentsFollow, RentAgrees

\* Of every lease the row, its tenant and the tenant's rent are there.
LEMMA LeaseHasTenant ==
  ASSUME TypeOK, NEW i \in ActiveLeases
  PROVE  i \in DOMAIN leases /\ leases[i].tenant \in DOMAIN tenants
  BY DEF TypeOK, ActiveLeases

LEMMA UnitKeepsRents ==
  ASSUME TypeOK, NEW u \in Unit,
         \/ \E r \in UnitRents : CreateUnit(u, r) \/ \E s \in UnitEdits : UpdateUnit(u, s, r)
         \/ MarkVacant(u)
  PROVE  RentsStay
<1>1. UNCHANGED <<leases, tenants>>
  BY DEF CreateUnit, UpdateUnit, MarkVacant
<1> QED BY <1>1 DEF RentsStay, ActiveLeases

LEMMA TenantRents ==
  ASSUME TypeOK, TenantStep PROVE RentsStay
<1>1. leases' = leases /\ ActiveLeases' = ActiveLeases
  BY DEF TenantStep, CreateTenant, MoveOut, UpdateTenant, ActiveLeases
<1>2. \A s \in DOMAIN tenants : tenants'[s].rent = tenants[s].rent
  BY DEF TypeOK, TenantStep, CreateTenant, MoveOut, UpdateTenant, TenantRow
<1> QED BY <1>1, <1>2, LeaseHasTenant DEF RentsStay

LEMMA CreateRents ==
  ASSUME TypeOK, NEW i \in LeaseId, NEW t \in Tenant, NEW u \in Unit, NEW r \in Rents,
         CreateLease(i, t, u, r)
  PROVE  RentsFollow
<1>1. /\ i \notin DOMAIN leases
      /\ DOMAIN leases' = DOMAIN leases \cup {i}
      /\ \A j \in DOMAIN leases : leases'[j] = leases[j]
      /\ leases'[i] = [tenant |-> t, unit |-> u, rent |-> r, status |-> "ACTIVE"]
      /\ \A j \in ActiveLeases : leases[j].tenant # t
  BY CreateSigns
<1>2. /\ \A s \in DOMAIN tenants : s # t => tenants'[s] = tenants[s]
      /\ tenants'[t].rent = r
  BY DEF CreateLease, Sign, TypeOK
<1>3. RentAgrees(i)'
  BY <1>1, <1>2 DEF RentAgrees
<1>4. ASSUME NEW j \in ActiveLeases', j # i, j \in ActiveLeases => RentAgrees(j)
      PROVE  RentAgrees(j)'
  <2>1. j \in ActiveLeases /\ leases'[j] = leases[j]
    BY <1>1, <1>4 DEF ActiveLeases
  <2> QED BY <1>1, <1>2, <1>4, <2>1, LeaseHasTenant DEF RentAgrees
<1> QED BY <1>3, <1>4 DEF RentsFollow

LEMMA RenewRents ==
  ASSUME TypeOK, OneActivePerTenant, NEW i \in LeaseId, NEW r \in Rents, RenewLease(i, r)
  PROVE  RentsStay
<1>1. \A j \in ActiveLeases' : j \in ActiveLeases /\ j # i /\ leases'[j] = leases[j]
  BY DEF TypeOK, RenewLease, ActiveLeases, LeaseRow
<1>2. \A s \in DOMAIN tenants : s # leases[i].tenant => tenants'[s].rent = tenants[s].rent
  BY DEF TypeOK, RenewLease
<1>3. \A j \in ActiveLeases : j # i => leases[j].tenant # leases[i].tenant
  BY DEF RenewLease, OneActivePerTenant
<1> QED BY <1>1, <1>2, <1>3, LeaseHasTenant DEF RentsStay

LEMMA TerminateRents ==
  ASSUME TypeOK, NEW i \in LeaseId, TerminateLease(i)
  PROVE  RentsStay
<1>1. \A j \in ActiveLeases' : j \in ActiveLeases /\ leases'[j] = leases[j]
  BY DEF TypeOK, TerminateLease, ActiveLeases, LeaseRow
<1>2. \A s \in DOMAIN tenants : tenants'[s].rent = tenants[s].rent
  BY DEF TypeOK, TerminateLease, TenantRow
<1> QED BY <1>1, <1>2, LeaseHasTenant DEF RentsStay

\* The rent on the tenant's pages is the rent of the active lease that the
\* monthly run bills, whatever operations are used, but for an assignment past
\* the lease (create_lease, renew_lease, assign_tenant_to_unit).
THEOREM RentIsBilled == Spec => RentShownIsBilled
<1> DEFINE Step == (\E u \in Unit, t \in Tenant : Assign(u, t)) \/ RentsFollow
<1>1. ASSUME TypeOK, OneActivePerTenant, Next PROVE Step
  <2>1. CASE UnitStep
    BY <1>1, <2>1, UnitKeepsRents, StayIsFollow DEF UnitStep
  <2>2. CASE TenantStep
    BY <1>1, <2>2, TenantRents, StayIsFollow
  <2>3. CASE LeaseStep
    BY <1>1, <2>3, CreateRents, RenewRents, TerminateRents, StayIsFollow DEF LeaseStep
  <2> QED BY <1>1, <2>1, <2>2, <2>3 DEF Next
<1>2. TypeOK /\ OneActivePerTenant /\ [Next]_vars => [Step]_vars
  BY <1>1
<1>3. [Step]_vars => [\/ \E u \in Unit, t \in Tenant : Assign(u, t)
                     \/ \A i \in ActiveLeases' :
                          (i \in ActiveLeases => RentAgrees(i)) => RentAgrees(i)']_vars
  BY DEF RentsFollow
<1> QED BY <1>2, <1>3, TypeCorrect, OneLeaseATenant, PTL DEF Spec, RentShownIsBilled

----------------------------------------------------------------------------
(* The plain operations: unit status, assignment and lease in step.        *)

UnitLetOnce == \A i, j \in ActiveLeases : leases[i].unit = leases[j].unit => i = j

\* A unit cannot be created under a tenant who is assigned to it already.
AssignmentKnown == \A t \in DOMAIN tenants : tenants[t].unit \in DOMAIN units \cup {NoUnit}

\* The inductive invariant: NoDoubleLetting follows from it.
Sync ==
  /\ OccupiedInSync
  /\ AssignmentFollowsLease
  /\ UnitLetOnce
  /\ AssignmentKnown

LEMMA SyncInit == Init => Sync
  BY DEF Init, Sync, OccupiedInSync, AssignmentFollowsLease, UnitLetOnce, AssignmentKnown,
         ActiveLeases

LEMMA SyncCreateUnit ==
  ASSUME TypeOK, Sync, NEW u \in Unit, NEW r \in UnitRents, CreateUnit(u, r) PROVE Sync'
<1>1. /\ leases' = leases /\ tenants' = tenants
      /\ DOMAIN units' = DOMAIN units \cup {u} /\ u \notin DOMAIN units
      /\ units'[u].status # "OCCUPIED"
      /\ \A v \in DOMAIN units : units'[v] = units[v]
  BY DEF CreateUnit
<1>2. ActiveLeases' = ActiveLeases
  BY <1>1 DEF ActiveLeases
<1>3. OccupiedInSync'
  BY <1>1, <1>2 DEF Sync, OccupiedInSync, TypeOK, ActiveLeases
<1>4. u # NoUnit
  BY LeasingAssumption
<1>5. AssignmentFollowsLease'
  BY <1>1, <1>2, <1>4 DEF Sync, AssignmentFollowsLease, AssignmentKnown, TypeOK, ActiveLeases
<1>6. UnitLetOnce' /\ AssignmentKnown'
  BY <1>1, <1>2 DEF Sync, UnitLetOnce, AssignmentKnown
<1>7. QED
  BY <1>3, <1>5, <1>6 DEF Sync

LEMMA SyncUpdateUnit ==
  ASSUME TypeOK, Sync, used = {}, NEW u \in Unit, NEW s \in UnitEdits, NEW r \in UnitRents,
         UpdateUnit(u, s, r)
  PROVE  Sync'
<1>1. /\ leases' = leases /\ tenants' = tenants
      /\ DOMAIN units' = DOMAIN units /\ u \in DOMAIN units
      /\ units'[u].status = s
      /\ \A v \in DOMAIN units : v # u => units'[v] = units[v]
  BY DEF UpdateUnit
<1>2. ActiveLeases' = ActiveLeases
  BY <1>1 DEF ActiveLeases
<1>3. units[u].status = "OCCUPIED" <=> s = "OCCUPIED" \/ \E i \in ActiveLeases : leases[i].unit = u
  BY DEF UpdateUnit, Sync, OccupiedInSync
<1>4. OccupiedInSync'
  <2>1. s = "OCCUPIED" <=> \E i \in ActiveLeases : leases[i].unit = u
    BY <1>1, <1>3 DEF UpdateUnit, Sync, OccupiedInSync
  <2>2. QED
    BY <1>1, <1>2, <2>1 DEF Sync, OccupiedInSync
<1>5. AssignmentFollowsLease' /\ UnitLetOnce' /\ AssignmentKnown'
  BY <1>1, <1>2 DEF Sync, AssignmentFollowsLease, UnitLetOnce, AssignmentKnown
<1>6. QED
  BY <1>4, <1>5 DEF Sync

LEMMA SyncTenant ==
  ASSUME TypeOK, Sync, used = {}, TenantStep PROVE Sync'
<1>1. PICK t \in Tenant : CreateTenant(t) \/ \E s \in TenantEdits : UpdateTenant(t, s)
  BY DEF TenantStep, MoveOut
<1>2. /\ leases' = leases /\ units' = units
      /\ \A s \in DOMAIN tenants : tenants'[s].unit = tenants[s].unit
      /\ \/ DOMAIN tenants' = DOMAIN tenants
         \/ /\ DOMAIN tenants' = DOMAIN tenants \cup {t} /\ t \notin DOMAIN tenants
            /\ tenants'[t].unit = NoUnit
  <2>1. CASE CreateTenant(t)
    BY <2>1 DEF CreateTenant
  <2>2. ASSUME NEW s \in TenantEdits, UpdateTenant(t, s)
        PROVE /\ leases' = leases /\ units' = units
              /\ DOMAIN tenants' = DOMAIN tenants
              /\ \A v \in DOMAIN tenants : tenants'[v].unit = tenants[v].unit
    BY <2>2 DEF UpdateTenant, TypeOK, TenantRow
  <2>3. QED
    BY <1>1, <2>1, <2>2
<1>3. ActiveLeases' = ActiveLeases
  BY <1>2 DEF ActiveLeases
<1>4. OccupiedInSync' /\ UnitLetOnce' /\ AssignmentKnown'
  BY <1>2, <1>3 DEF Sync, OccupiedInSync, UnitLetOnce, AssignmentKnown
<1>5. AssignmentFollowsLease'
  <2>1. NoUnit \notin DOMAIN units
    BY LeasingAssumption DEF TypeOK
  <2>2. \A i \in ActiveLeases : leases[i].tenant \in DOMAIN tenants
    BY DEF TypeOK, ActiveLeases
  <2>3. QED
    BY <1>2, <1>3, <2>1, <2>2 DEF Sync, AssignmentFollowsLease
<1>6. QED
  BY <1>4, <1>5 DEF Sync

LEMMA SyncCreateLease ==
  ASSUME TypeOK, Sync, NEW i \in LeaseId, NEW t \in Tenant, NEW u \in Unit, NEW r \in Rents,
         CreateLease(i, t, u, r)
  PROVE  Sync'
<1>1. /\ i \notin DOMAIN leases
      /\ DOMAIN leases' = DOMAIN leases \cup {i}
      /\ \A j \in DOMAIN leases : leases'[j] = leases[j]
      /\ leases'[i] = [tenant |-> t, unit |-> u, rent |-> r, status |-> "ACTIVE"]
      /\ \A j \in ActiveLeases : leases[j].tenant # t
  BY CreateSigns
<1>2. /\ DOMAIN units' = DOMAIN units /\ DOMAIN tenants' = DOMAIN tenants
      /\ u \in DOMAIN units /\ t \in DOMAIN tenants
      /\ units[u].status # "OCCUPIED" /\ units'[u].status = "OCCUPIED"
      /\ \A v \in DOMAIN units : v # u => units'[v] = units[v]
      /\ tenants'[t].unit = u
      /\ \A s \in DOMAIN tenants : s # t => tenants'[s] = tenants[s]
  <2>1. units[u] \in UnitRow
    BY DEF CreateLease, TypeOK
  <2>2. QED
    BY <2>1 DEF CreateLease, Sign, Lettable, UnitRow
<1>3. ActiveLeases' = ActiveLeases \cup {i}
  BY <1>1 DEF ActiveLeases
<1>4. \A j \in ActiveLeases : j # i /\ leases'[j] = leases[j] /\ leases[j].unit # u
  BY <1>1, <1>2 DEF ActiveLeases, Sync, OccupiedInSync
<1>5. OccupiedInSync'
  BY <1>1, <1>2, <1>3, <1>4 DEF Sync, OccupiedInSync
<1>6. AssignmentFollowsLease'
  BY <1>1, <1>2, <1>3, <1>4 DEF Sync, AssignmentFollowsLease
<1>7. UnitLetOnce'
  BY <1>1, <1>3, <1>4 DEF Sync, UnitLetOnce
<1>8. AssignmentKnown'
  BY <1>2 DEF Sync, AssignmentKnown
<1>9. QED
  BY <1>5, <1>6, <1>7, <1>8 DEF Sync

LEMMA SyncTerminate ==
  ASSUME TypeOK, OneActivePerTenant, Sync, used = {}, NEW i \in LeaseId, TerminateLease(i)
  PROVE  Sync'
<1> DEFINE u == leases[i].unit
           t == leases[i].tenant
<1>1. /\ i \in ActiveLeases /\ u \in DOMAIN units /\ t \in DOMAIN tenants
      /\ u \in Unit /\ t \in Tenant
  BY DEF TerminateLease, TypeOK, ActiveLeases, LeaseRow
<1>2. /\ DOMAIN leases' = DOMAIN leases
      /\ leases'[i].status = "TERMINATED"
      /\ \A j \in DOMAIN leases : j # i => leases'[j] = leases[j]
  BY DEF TerminateLease, TypeOK, LeaseRow
<1>3. /\ DOMAIN units' = DOMAIN units /\ units'[u].status = "AVAILABLE"
      /\ \A v \in DOMAIN units : v # u => units'[v] = units[v]
  BY <1>1 DEF TerminateLease, TypeOK, UnitRow
<1>4. /\ DOMAIN tenants' = DOMAIN tenants /\ tenants'[t].unit = NoUnit
      /\ \A s \in DOMAIN tenants : s # t => tenants'[s] = tenants[s]
  BY <1>1 DEF TerminateLease, TypeOK, TenantRow
<1>5. ActiveLeases' = ActiveLeases \ {i}
  BY <1>2 DEF ActiveLeases
<1>6. \A j \in ActiveLeases' : leases'[j] = leases[j] /\ leases[j].unit # u /\ leases[j].tenant # t
  BY <1>1, <1>2, <1>5 DEF Sync, UnitLetOnce, OneActivePerTenant, ActiveLeases
<1> HIDE DEF u, t
<1>7. OccupiedInSync'
  <2>1. \A v \in DOMAIN units : v # u =>
          ((\E j \in ActiveLeases' : leases'[j].unit = v) <=> (\E j \in ActiveLeases : leases[j].unit = v))
    BY <1>5, <1>6 DEF u
  <2>2. QED
    BY <1>3, <1>6, <2>1 DEF Sync, OccupiedInSync
<1>8. AssignmentFollowsLease'
  <2>1. u # NoUnit /\ NoUnit \notin DOMAIN units
    BY <1>1, LeasingAssumption DEF TypeOK
  <2>2. ASSUME NEW s \in DOMAIN tenants, NEW v \in DOMAIN units, s # t
        PROVE  (\E j \in ActiveLeases' : leases'[j].tenant = s /\ leases'[j].unit = v)
               <=> (\E j \in ActiveLeases : leases[j].tenant = s /\ leases[j].unit = v)
    BY <1>5, <1>6, <2>2 DEF t
  <2>3. QED
    BY <1>3, <1>4, <1>6, <2>1, <2>2 DEF Sync, AssignmentFollowsLease
<1>9. UnitLetOnce' /\ AssignmentKnown'
  BY <1>3, <1>4, <1>5, <1>6 DEF Sync, UnitLetOnce, AssignmentKnown
<1>10. QED
  BY <1>7, <1>8, <1>9 DEF Sync

LEMMA SyncNext ==
  ASSUME TypeOK, OneActivePerTenant, Sync, used = {}, [Next]_vars PROVE Sync'
<1>1. CASE UnitStep
  BY <1>1, SyncCreateUnit, SyncUpdateUnit DEF UnitStep, MarkVacant, Assign
<1>2. CASE TenantStep
  BY <1>2, SyncTenant
<1>3. CASE LeaseStep
  BY <1>3, SyncCreateLease, SyncTerminate DEF LeaseStep, RenewLease
<1>4. CASE UNCHANGED vars
  BY <1>4 DEF vars, Sync, OccupiedInSync, AssignmentFollowsLease, UnitLetOnce, AssignmentKnown,
              ActiveLeases
<1>5. QED
  BY <1>1, <1>2, <1>3, <1>4 DEF Next

LEMMA SyncSingles == TypeOK /\ Sync => NoDoubleLetting
<1> SUFFICES ASSUME TypeOK, Sync PROVE NoDoubleLetting
  OBVIOUS
<1>1. ASSUME NEW s \in DOMAIN tenants, NEW t \in DOMAIN tenants,
             tenants[s].unit = tenants[t].unit, tenants[s].unit # NoUnit
      PROVE  s = t
  <2>1. tenants[s].unit \in DOMAIN units
    BY <1>1 DEF Sync, AssignmentKnown
  <2>2. PICK i \in ActiveLeases : leases[i].tenant = s /\ leases[i].unit = tenants[s].unit
    BY <2>1 DEF Sync, AssignmentFollowsLease
  <2>3. PICK j \in ActiveLeases : leases[j].tenant = t /\ leases[j].unit = tenants[s].unit
    BY <1>1, <2>1 DEF Sync, AssignmentFollowsLease
  <2>4. QED
    BY <2>2, <2>3 DEF Sync, UnitLetOnce
<1>2. QED
  BY <1>1 DEF Sync, UnitLetOnce, NoDoubleLetting

\* What is in use is settled at the start.
LEMMA UsedStays == [Next]_vars => used' = used
  BY DEF Next, vars

LEMMA SyncAlways == Spec => [](used = {} => Sync)
<1>1. Init => (used = {} => Sync)
  BY SyncInit
<1>2. TypeOK /\ OneActivePerTenant /\ (used = {} => Sync) /\ [Next]_vars => (used = {} => Sync)'
  BY UsedStays, SyncNext
<1> QED BY <1>1, <1>2, TypeCorrect, OneLeaseATenant, PTL DEF Spec

\* As long as nobody renews a lease, terminates one twice, marks a unit vacant,
\* moves a tenant out or sets OCCUPIED by hand, a unit is OCCUPIED exactly when
\* it has an active lease (unit_service.py:2-5).
THEOREM PlainOccupied == Spec => [](used = {} => OccupiedInSync)
  BY SyncAlways, PTL DEF Sync

\* Under the same condition the tenant's unit is the one of the active lease.
THEOREM PlainAssignment == Spec => [](used = {} => AssignmentFollowsLease)
  BY SyncAlways, PTL DEF Sync

\* Under the same condition no unit is let, or shown, to two tenants.
THEOREM PlainLetOnce == Spec => [](used = {} => NoDoubleLetting)
  BY SyncAlways, SyncSingles, TypeCorrect, PTL

\* The three together: unit status, assignment and lease are in step.
THEOREM PlainInStep == Spec => []InStep
  BY PlainOccupied, PlainAssignment, PlainLetOnce, PTL DEF InStep

----------------------------------------------------------------------------
(* The plain operations implement Occupancy.                               *)

\* The occupant of each unit, as the instance of Occupancy sees it.
Who == [u \in Unit |->
    IF used = {} /\ \E i \in ActiveLeases : leases[i].unit = u
    THEN leases[CHOOSE i \in ActiveLeases : leases[i].unit = u].tenant ELSE NoUnit]

WhoIsTenant ==
  /\ \A v \in Unit : (\A j \in ActiveLeases : leases[j].unit # v) => Who[v] = NoUnit
  /\ used = {} /\ UnitLetOnce =>
       \A j \in ActiveLeases : leases[j].unit \in Unit =>
                      Who[leases[j].unit] = leases[j].tenant

LEMMA WhoLives == WhoIsTenant
<1>1. \A v \in Unit : (\A j \in ActiveLeases : leases[j].unit # v) => Who[v] = NoUnit
  BY DEF Who
<1>2. ASSUME used = {}, UnitLetOnce, NEW j \in ActiveLeases, leases[j].unit \in Unit
      PROVE  Who[leases[j].unit] = leases[j].tenant
  <2> DEFINE v == leases[j].unit
             k == CHOOSE i \in ActiveLeases : leases[i].unit = v
  <2>1. k \in ActiveLeases /\ leases[k].unit = v
    OBVIOUS
  <2>2. k = j
    BY <1>2, <2>1 DEF UnitLetOnce
  <2>3. QED
    BY <1>2, <2>2 DEF Who
<1>3. QED
  BY <1>1, <1>2 DEF WhoIsTenant

LEMMA WhoLivesNext == WhoIsTenant'
  BY WhoLives, PTL

LEMMA WhoIsFunction ==
  Who = [v \in Unit |-> Who[v]] /\ Who' = [v \in Unit |-> Who'[v]]
  BY DEF Who

LEMMA CreateMovesIn ==
  ASSUME TypeOK, Sync, Sync', used = {}, used' = {}, NEW i \in LeaseId, NEW t \in Tenant, NEW u \in Unit,
         NEW r \in Rents, CreateLease(i, t, u, r)
  PROVE  /\ Who[u] = NoUnit
         /\ \A v \in Unit : Who[v] # t
         /\ Who' = [Who EXCEPT ![u] = t]
<1>1. /\ i \notin DOMAIN leases
      /\ DOMAIN leases' = DOMAIN leases \cup {i}
      /\ \A j \in DOMAIN leases : leases'[j] = leases[j]
      /\ leases'[i] = [tenant |-> t, unit |-> u, rent |-> r, status |-> "ACTIVE"]
      /\ \A j \in ActiveLeases : leases[j].tenant # t
  BY CreateSigns
<1>2. ActiveLeases' = ActiveLeases \cup {i}
  BY <1>1 DEF ActiveLeases
<1>3. \A j \in ActiveLeases : j # i /\ leases'[j] = leases[j] /\ leases[j].unit # u
  BY <1>1 DEF ActiveLeases, Sync, OccupiedInSync, CreateLease, Lettable
<1>4. Who[u] = NoUnit
  BY <1>3, WhoLives DEF WhoIsTenant
<1>5. ASSUME NEW v \in Unit PROVE Who[v] # t
  <2>1. NoUnit # t
    BY LeasingAssumption
  <2>2. CASE \E j \in ActiveLeases : leases[j].unit = v
    BY <1>1, <2>2, WhoLives DEF WhoIsTenant, Sync
  <2>3. QED
    BY <2>1, <2>2, WhoLives DEF WhoIsTenant
<1>6. Who'[u] = t
  BY <1>1, <1>2, WhoLivesNext DEF WhoIsTenant, Sync
<1>7. ASSUME NEW v \in Unit, v # u PROVE Who'[v] = Who[v]
  <2>1. CASE \E j \in ActiveLeases : leases[j].unit = v
    BY <1>2, <1>3, <2>1, WhoLives, WhoLivesNext DEF WhoIsTenant, Sync
  <2>2. CASE \A j \in ActiveLeases : leases[j].unit # v
    BY <1>1, <1>2, <1>3, <1>7, <2>2, WhoLives, WhoLivesNext DEF WhoIsTenant
  <2>3. QED
    BY <2>1, <2>2
<1>8. Who' = [Who EXCEPT ![u] = t]
  BY <1>6, <1>7, WhoIsFunction
<1>9. QED
  BY <1>4, <1>5, <1>8

LEMMA TerminateLeaves ==
  ASSUME TypeOK, Sync, Sync', used = {}, used' = {}, NEW i \in LeaseId, TerminateLease(i)
  PROVE  \E u \in Unit : Who[u] # NoUnit /\ Who' = [Who EXCEPT ![u] = NoUnit]
<1> DEFINE u == leases[i].unit
<1>1. i \in ActiveLeases /\ u \in Unit /\ leases[i].tenant \in Tenant
  BY DEF TerminateLease, TypeOK, ActiveLeases, LeaseRow
<1>2. /\ DOMAIN leases' = DOMAIN leases
      /\ leases'[i].status = "TERMINATED"
      /\ \A j \in DOMAIN leases : j # i => leases'[j] = leases[j]
  BY DEF TerminateLease, TypeOK, LeaseRow
<1>3. ActiveLeases' = ActiveLeases \ {i}
  BY <1>2 DEF ActiveLeases
<1>4. \A j \in ActiveLeases' : leases'[j] = leases[j] /\ leases[j].unit # u
  BY <1>1, <1>2, <1>3 DEF Sync, UnitLetOnce, ActiveLeases
<1>5. Who[u] # NoUnit
  BY <1>1, WhoLives, LeasingAssumption DEF WhoIsTenant, Sync
<1> HIDE DEF u
<1>6. Who'[u] = NoUnit
  BY <1>1, <1>4, WhoLivesNext DEF WhoIsTenant
<1>7. ASSUME NEW v \in Unit, v # u PROVE Who'[v] = Who[v]
  <2>1. CASE \E j \in ActiveLeases' : leases'[j].unit = v
    BY <1>3, <1>4, <2>1, WhoLives, WhoLivesNext DEF WhoIsTenant, Sync
  <2>2. CASE \A j \in ActiveLeases' : leases'[j].unit # v
    <3>1. \A j \in ActiveLeases : leases[j].unit # v
      BY <1>3, <1>4, <1>7, <2>2 DEF u
    <3>2. QED
      BY <2>2, <3>1, WhoLives, WhoLivesNext DEF WhoIsTenant
  <2>3. QED
    BY <2>1, <2>2
<1>8. Who' = [Who EXCEPT ![u] = NoUnit]
  BY <1>6, <1>7, WhoIsFunction
<1>9. QED
  BY <1>1, <1>5, <1>8

\* Every plain step is a step of Occupancy or leaves the occupants alone.
LEMMA OccupancyNext ==
  ASSUME TypeOK, Sync, Sync', used = {}, [Next]_vars
  PROVE  \/ \E u \in Unit : Who[u] # NoUnit /\ Who' = [Who EXCEPT ![u] = NoUnit]
         \/ \E u \in Unit, t \in Tenant :
              /\ Who[u] = NoUnit
              /\ \A v \in Unit : Who[v] # t
              /\ Who' = [Who EXCEPT ![u] = t]
         \/ Who' = Who
<1>0. used' = used
  BY UsedStays
<1>1. leases' = leases => Who' = Who
  BY <1>0 DEF Who, ActiveLeases
<1>2. CASE UnitStep
  BY <1>1, <1>2 DEF UnitStep, CreateUnit, UpdateUnit, MarkVacant, Assign
<1>3. CASE TenantStep
  BY <1>1, <1>3 DEF TenantStep, CreateTenant, MoveOut, UpdateTenant
<1>4. ASSUME NEW i \in LeaseId, TerminateLease(i)
      PROVE  \E u \in Unit : Who[u] # NoUnit /\ Who' = [Who EXCEPT ![u] = NoUnit]
  BY <1>0, <1>4, TerminateLeaves
<1>5. ASSUME NEW i \in LeaseId, NEW t \in Tenant, NEW u \in Unit, NEW r \in Rents,
             CreateLease(i, t, u, r)
      PROVE  /\ Who[u] = NoUnit
             /\ \A v \in Unit : Who[v] # t
             /\ Who' = [Who EXCEPT ![u] = t]
  BY <1>0, <1>5, CreateMovesIn
<1>6. CASE LeaseStep
  BY <1>4, <1>5, <1>6 DEF LeaseStep, RenewLease
<1>7. CASE UNCHANGED vars
  BY <1>1, <1>7 DEF vars
<1>8. QED
  BY <1>2, <1>3, <1>6, <1>7 DEF Next

\* Under the same condition the three tables implement Occupancy: units change
\* hands only by being empty in between, and nobody lives in two.
THEOREM ImplementsOccupancy == Spec => OccupancySpec
<1>1. Init => Dwelling!Init
  BY DEF Init, Dwelling!Init, ActiveLeases
<1>2. ASSUME TypeOK, used = {} => Sync, (used = {} => Sync)', [Next]_vars
      PROVE  [Dwelling!Next]_Who
  <2>1. used' = used
    BY <1>2, UsedStays
  <2>2. CASE used = {}
    BY <1>2, <2>1, <2>2, OccupancyNext DEF Dwelling!Next, Dwelling!Leave, Dwelling!MoveIn, Who
  <2>3. CASE used # {}
    BY <2>1, <2>3 DEF Who
  <2> QED BY <2>2, <2>3
<1>3. QED
  BY <1>1, <1>2, TypeCorrect, SyncAlways, PTL DEF Spec, OccupancySpec, Dwelling!Spec, Who
=============================================================================
