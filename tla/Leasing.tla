------------------------------ MODULE Leasing ------------------------------
(***************************************************************************)
(* Units, tenants and leases (app/services/unit_service.py,                *)
(* tenant_service.py, lease_service.py).  The same fact, who lives where,  *)
(* is kept three times: as the unit's status, as the tenant's unit_id, and *)
(* as an ACTIVE lease, which the monthly run bills.  Every operation       *)
(* updates some of the three.                                              *)
(*                                                                         *)
(* One action is one service call; database transactions are serial here.  *)
(* The staff let, terminate and edit; which of the other operations they   *)
(* ever use is chosen at the start and kept in used, so that a property    *)
(* can say which of them keep the three in step.                           *)
(***************************************************************************)
EXTENDS Naturals

CONSTANTS
  Tenant,     \* tenants that can ever be created
  Unit,       \* units that can ever be created
  LeaseId,    \* bound: leases that can ever be signed
  Rents,      \* monthly rents
  UnitRents,  \* rents asked for units, out of Rents (the lease form may change them)
  NoUnit,     \* unit_id IS NULL
  UnitEdits,  \* statuses staff choose in the unit form
  TenantEdits,\* statuses staff choose in the tenant form
  Uses        \* sets of optional operations the staff may be using

\* renew: renew_lease; terminateEnded: terminate_lease of a lease that is not
\* ACTIVE (the service does not ask; a page loaded earlier still shows the
\* button); markVacant, assign, moveOut: the operations of those names;
\* setOccupied: the unit form sets OCCUPIED on a unit that is not.
Optional == {"renew", "terminateEnded", "markVacant", "assign", "moveOut", "setOccupied"}

UnitStatus == {"AVAILABLE", "OCCUPIED", "RESERVED", "MAINTENANCE", "INACTIVE"}
TenantStatus == {"ACTIVE", "INACTIVE", "MOVED_OUT", "BLACKLISTED"}
LeaseStatus == {"ACTIVE", "RENEWED", "TERMINATED"}   \* nothing sets EXPIRED

NoRent == 0   \* monthly_rent IS NULL, shown as 0

ASSUME LeasingAssumption ==
  /\ NoUnit \notin Unit \cup Tenant
  /\ Rents \subseteq Nat \ {NoRent}
  /\ UnitEdits \subseteq UnitStatus /\ TenantEdits \subseteq TenantStatus
  /\ UnitRents \subseteq Rents
  /\ Uses \subseteq SUBSET Optional

VARIABLES
  leases,    \* the leases table: a row for every lease signed so far
  units,     \* units[u].status, units[u].rent of the units created so far
  tenants,   \* the tenants created so far: unit_id, monthly_rent, status
  used       \* the optional operations in use, one of Uses; no step changes it

vars == <<leases, units, tenants, used>>

LeaseRow == [tenant: Tenant, unit: Unit, rent: Rents, status: LeaseStatus]
UnitRow == [status: UnitStatus, rent: UnitRents]
TenantRow == [unit: Unit \cup {NoUnit}, rent: Rents \cup {NoRent}, status: TenantStatus]

\* The leases generate_monthly_invoices bills and rent_roll_pdf lists.
ActiveLeases == {i \in DOMAIN leases : leases[i].status = "ACTIVE"}

----------------------------------------------------------------------------
(* Units.                                                                  *)

CreateUnit(u, r) ==
  /\ u \in Unit \ DOMAIN units
  /\ units' = [v \in DOMAIN units \cup {u} |->
                 IF v = u THEN [status |-> "AVAILABLE", rent |-> r] ELSE units[v]]
  /\ UNCHANGED <<leases, tenants>>

\* update_unit: the form always sends a status and a rent.  A leased unit does
\* not leave OCCUPIED this way.
UpdateUnitUnguarded(u, s, r) ==   \* mutant: has_active_lease not asked
  /\ u \in DOMAIN units
  /\ s = "OCCUPIED" /\ units[u].status # "OCCUPIED" => "setOccupied" \in used
  /\ units' = [units EXCEPT ![u] = [status |-> s, rent |-> r]]
  /\ UNCHANGED <<leases, tenants>>
UpdateUnit(u, s, r) ==
  /\ u \in DOMAIN units
  /\ s = "OCCUPIED" /\ units[u].status # "OCCUPIED" => "setOccupied" \in used
  /\ units[u].status = "OCCUPIED" /\ s # "OCCUPIED" =>
       \A i \in ActiveLeases : leases[i].unit # u
  /\ units' = [units EXCEPT ![u] = [status |-> s, rent |-> r]]
  /\ UNCHANGED <<leases, tenants>>

MarkVacant(u) ==
  /\ "markVacant" \in used /\ u \in DOMAIN units
  /\ units' = [units EXCEPT ![u].status = "AVAILABLE"]
  /\ UNCHANGED <<leases, tenants>>

\* assign_tenant_to_unit: an assignment without a lease.  No route calls it.
Assign(u, t) ==
  /\ "assign" \in used /\ u \in DOMAIN units /\ t \in DOMAIN tenants
  /\ units[u].status # "OCCUPIED"
  /\ tenants' = [tenants EXCEPT ![t] = [unit |-> u, rent |-> units[u].rent, status |-> @.status]]
  /\ units' = [units EXCEPT ![u].status = "OCCUPIED"]
  /\ UNCHANGED leases

----------------------------------------------------------------------------
(* Tenants.                                                                *)

CreateTenant(t) ==
  /\ t \in Tenant \ DOMAIN tenants
  /\ tenants' = [s \in DOMAIN tenants \cup {t} |->
       IF s = t THEN [unit |-> NoUnit, rent |-> NoRent, status |-> "ACTIVE"] ELSE tenants[s]]
  /\ UNCHANGED <<leases, units>>

UpdateTenant(t, s) ==
  /\ t \in DOMAIN tenants
  /\ tenants' = [tenants EXCEPT ![t].status = s]
  /\ UNCHANGED <<leases, units>>

\* move_tenant_out: the unit and the tenant, but no lease.
MoveOut(t) ==
  /\ "moveOut" \in used /\ t \in DOMAIN tenants
  /\ units' = [u \in DOMAIN units |->
       IF u = tenants[t].unit THEN [units[u] EXCEPT !.status = "AVAILABLE"] ELSE units[u]]
  /\ tenants' = [tenants EXCEPT ![t] = [unit |-> NoUnit, rent |-> @.rent, status |-> "MOVED_OUT"]]
  /\ UNCHANGED leases

----------------------------------------------------------------------------
(* Leases.                                                                 *)

\* create_lease refuses a second lease; renewed leases do not count.
LetsAlwaysAgain(t) == FALSE   \* mutant: existing_active not asked
LetsAlready(t) == \E j \in ActiveLeases : leases[j].tenant = t

\* Any unit that is not OCCUPIED will do, one in MAINTENANCE too.
LettableAlways(u) == TRUE   \* mutant: the unit's status not asked
Lettable(u) == units[u].status # "OCCUPIED"

\* The three tables a new lease touches.
SignOldRent(i, t, u, r) ==   \* mutant: tenant.monthly_rent not copied
  /\ leases' = [j \in DOMAIN leases \cup {i} |->
       IF j = i THEN [tenant |-> t, unit |-> u, rent |-> r, status |-> "ACTIVE"] ELSE leases[j]]
  /\ tenants' = [tenants EXCEPT ![t].unit = u, ![t].status = "ACTIVE"]
  /\ units' = [units EXCEPT ![u].status = "OCCUPIED"]
Sign(i, t, u, r) ==
  /\ leases' = [j \in DOMAIN leases \cup {i} |->
       IF j = i THEN [tenant |-> t, unit |-> u, rent |-> r, status |-> "ACTIVE"] ELSE leases[j]]
  /\ tenants' = [tenants EXCEPT ![t] = [unit |-> u, rent |-> r, status |-> "ACTIVE"]]
  /\ units' = [units EXCEPT ![u].status = "OCCUPIED"]

CreateLease(i, t, u, r) ==
  /\ i \in LeaseId \ DOMAIN leases
  /\ t \in DOMAIN tenants /\ u \in DOMAIN units /\ Lettable(u)
  /\ ~LetsAlready(t)
  /\ Sign(i, t, u, r)

\* renew_lease with the old rent or a new one (r is the rent from then on; a
\* rent that is not given writes neither row).
RenewLease(i, r) ==
  /\ "renew" \in used /\ i \in ActiveLeases
  /\ leases' = [leases EXCEPT ![i].rent = r, ![i].status = "RENEWED"]
  /\ \/ tenants' = [tenants EXCEPT ![leases[i].tenant].rent = r]
     \/ r = leases[i].rent /\ UNCHANGED tenants
  /\ UNCHANGED units

\* terminate_lease does not look at the lease's status, nor at who the unit and
\* the tenant belong to by now.
TerminateLease(i) ==
  /\ i \in DOMAIN leases
  /\ leases[i].status # "ACTIVE" => "terminateEnded" \in used
  /\ leases' = [leases EXCEPT ![i].status = "TERMINATED"]
  /\ units' = [units EXCEPT ![leases[i].unit].status = "AVAILABLE"]
  /\ tenants' = [tenants EXCEPT ![leases[i].tenant].unit = NoUnit]

----------------------------------------------------------------------------
Init ==
  /\ leases = [i \in {} |-> NoUnit]
  /\ units = [u \in {} |-> NoUnit]
  /\ tenants = [t \in {} |-> NoUnit]
  /\ used \in Uses

UnitStep ==
  \E u \in Unit :
    \/ \E r \in UnitRents : CreateUnit(u, r) \/ \E s \in UnitEdits : UpdateUnit(u, s, r)
    \/ MarkVacant(u)
    \/ \E t \in Tenant : Assign(u, t)

TenantStep ==
  \E t \in Tenant : CreateTenant(t) \/ MoveOut(t) \/ \E s \in TenantEdits : UpdateTenant(t, s)

LeaseStep ==
  \E i \in LeaseId :
    \/ \E t \in Tenant, u \in Unit, r \in Rents : CreateLease(i, t, u, r)
    \/ \E r \in Rents : RenewLease(i, r)
    \/ TerminateLease(i)

Next == (UnitStep \/ TenantStep \/ LeaseStep) /\ UNCHANGED used

Spec == Init /\ [][Next]_vars

----------------------------------------------------------------------------
(* Properties.                                                             *)

TypeOK ==
  /\ DOMAIN leases \subseteq LeaseId /\ leases \in [DOMAIN leases -> LeaseRow]
  /\ DOMAIN units \subseteq Unit /\ units \in [DOMAIN units -> UnitRow]
  /\ DOMAIN tenants \subseteq Tenant /\ tenants \in [DOMAIN tenants -> TenantRow]
  /\ \A i \in DOMAIN leases : leases[i].tenant \in DOMAIN tenants /\ leases[i].unit \in DOMAIN units
  /\ used \in Uses

\* Whatever operations are mixed in whatever order, a tenant has one ACTIVE
\* lease at most, so the monthly run bills a tenant one rent (create_lease).
OneActivePerTenant ==
  \A i, j \in ActiveLeases : leases[i].tenant = leases[j].tenant => i = j

\* The rent the tenant's pages show is the rent the monthly run bills: a new
\* lease starts with the two equal, and nothing but an assignment past the
\* lease (assign_tenant_to_unit) ever sets them apart.
RentAgrees(i) == tenants[leases[i].tenant].rent = leases[i].rent
RentShownIsBilled ==
  [][\/ \E u \in Unit, t \in Tenant : Assign(u, t)
     \/ \A i \in ActiveLeases' :
          (i \in ActiveLeases => RentAgrees(i)) => RentAgrees(i)']_vars

\* A lease only ever ends: no operation brings an ended lease back into the
\* monthly run, or a terminated one back at all.
LeasesOnlyEnd ==
  [][\A i \in DOMAIN leases :
       /\ leases[i].status # "ACTIVE" => leases'[i].status # "ACTIVE"
       /\ leases[i].status = "TERMINATED" => leases'[i].status = "TERMINATED"]_vars

\* unit_service.py:2-5: "A unit's OCCUPIED status must stay in sync with
\* whether it actually has an active lease".
OccupiedInSync ==
  \A u \in DOMAIN units :
    units[u].status = "OCCUPIED" <=> \E i \in ActiveLeases : leases[i].unit = u

\* models/tenant.py:29: a tenant's unit is denormalized, "source of truth is the
\* active Lease".
AssignmentFollowsLease ==
  \A t \in DOMAIN tenants, u \in DOMAIN units :
    tenants[t].unit = u <=> \E i \in ActiveLeases : leases[i].tenant = t /\ leases[i].unit = u

\* No unit is let twice, and no two tenants are shown the same unit.
NoDoubleLetting ==
  /\ \A i, j \in ActiveLeases : leases[i].unit = leases[j].unit => i = j
  /\ \A s, t \in DOMAIN tenants :
       tenants[s].unit = tenants[t].unit /\ tenants[s].unit # NoUnit => s = t

\* As long as the staff only let, terminate the active lease and edit, the
\* three copies of who lives where are in step, whatever the order and the
\* edits (create_lease, terminate_lease, update_unit, update_tenant).
InStep == used = {} => OccupiedInSync /\ AssignmentFollowsLease /\ NoDoubleLetting

\* With the same operations the occupancy the three tables together promise is
\* implemented, with the tenant of the active lease as the occupant.
Dwelling == INSTANCE Occupancy WITH
  Nobody <- NoUnit,
  occupant <- [u \in Unit |->
    IF used = {} /\ \E i \in ActiveLeases : leases[i].unit = u
    THEN leases[CHOOSE i \in ActiveLeases : leases[i].unit = u].tenant ELSE NoUnit]
OccupancySpec == Dwelling!Spec
=============================================================================
