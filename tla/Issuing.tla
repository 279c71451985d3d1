------------------------------ MODULE Issuing ------------------------------
(***************************************************************************)
(* Signing and ending leases (app/api/routes/admin/leases.py), and issuing *)
(* invoices by hand or by the monthly run (admin/billing.py) with their    *)
(* numbers and e-mails, taken apart into the statements that interleave.   *)
(*                                                                         *)
(* As in Settlement: a SELECT sees what is committed when it runs (and the *)
(* request's own rows), an UPDATE waits for the row's lock, an INSERT for  *)
(* a clashing uncommitted number, and the ORM writes the columns that      *)
(* differ from what it read.  A request is one transaction, but for        *)
(* email_service._dispatch: it sends, then commits whatever is pending.    *)
(*                                                                         *)
(* One billing period and one calendar month.                              *)
(***************************************************************************)
EXTENDS Naturals, FiniteSets

CONSTANTS
  Request,      \* the requests that arrive, each once
  Job,          \* Job[x]: what request x asks for
  Together,     \* sets of requests that arrive in one behaviour
  Tenant, Unit, Lease,
  LeaseTenant, LeaseUnit,   \* of every lease, signed already or not
  Signed,       \* leases ACTIVE at the beginning
  HasEmail,     \* tenants with an e-mail address
  MayCrash,     \* a process may die at any point
  NoLease, NoUnit

Kind == {"let", "end", "run", "bill"}

\* lease: the one to sign or to end; tenant: the one to bill by hand.
JobType == [kind: Kind, lease: Lease, tenant: Tenant]

ASSUME IssuingAssumption ==
  /\ Job \in [Request -> JobType]
  /\ LeaseTenant \in [Lease -> Tenant] /\ LeaseUnit \in [Lease -> Unit]
  /\ Together \subseteq SUBSET Request
  /\ Signed \subseteq Lease /\ HasEmail \subseteq Tenant
  /\ NoLease \notin Lease /\ NoUnit \notin Unit
  /\ MayCrash \in BOOLEAN
  /\ IsFiniteSet(Request) /\ IsFiniteSet(Lease)
  /\ \A x, y \in Request : Job[x].kind = "let" /\ Job[y].kind = "let"
       /\ Job[x].lease = Job[y].lease => x = y

\* A new lease is a new row; to begin with everything is let once.
ASSUME LettingAssumption ==
  /\ \A x \in Request : Job[x].kind = "let" => Job[x].lease \notin Signed
  /\ \A k, l \in Signed : k # l => LeaseUnit[k] # LeaseUnit[l] /\ LeaseTenant[k] # LeaseTenant[l]

VARIABLES
  lease,      \* committed lease.status ("NONE": not signed)
  unit,       \* committed unit.status
  home,       \* committed tenant.unit_id
  invoices,   \* committed invoices, by the number in invoice_number
  told,       \* numbers of the invoices with a committed email_logs row
  mails,      \* what SMTP was given
  at,         \* at[x]: the statement request x executes next
  saw,        \* saw[x]: lease, unit and home as x read them
  active,     \* active[x]: active_leases of a run
  todo,       \* todo[x]: those its loop has not come to
  hand,       \* hand[x]: the lease x is billing
  number,     \* number[x]: the invoice number x computed
  draft,      \* draft[x]: what x wrote and did not commit
  overlapped  \* what two requests worked on at once (not part of the program)

vars == <<lease, unit, home, invoices, told, mails, at, saw, active, todo, hand, number,
          draft, overlapped>>
committed == <<lease, unit, home, invoices, told, overlapped>>

\* A column not written, and one in a row that is written without it.
Same == "same"
Kept == "kept"

InvoiceRow == [lease: Lease \cup {NoLease}, tenant: Tenant, by: Request]
NoRows == [n \in {} |-> NoLease]
NoDraft == [rows |-> NoRows, lease |-> Same, unit |-> Same, home |-> Same, told |-> {}]
Unseen == [lease |-> "NONE", unit |-> "NONE", home |-> NoUnit]

Finished == {"absent", "done", "refused", "failed", "crashed"}

----------------------------------------------------------------------------
(* Helpers.                                                                *)

Goto(x, label) == at' = [at EXCEPT ![x] = label]
Others(x) == Request \ {x}

\* The first statement of each route.
First(x) ==
  CASE Job[x].kind = "let" -> "tenant" [] Job[x].kind = "run" -> "leases" [] OTHER -> "lease"

Numbers == DOMAIN invoices
OwnNumbers(x) == DOMAIN draft[x].rows

TenantOf(x) == LeaseTenant[Job[x].lease]
UnitOf(x) == LeaseUnit[Job[x].lease]
ActiveLeases == {l \in Lease : lease[l] = "ACTIVE"}

\* The leases a run has found unbilled, up to its commit.
Billing(x) == {draft[x].rows[n].lease : n \in OwnNumbers(x)}
                \cup {l \in {hand[x]} : at[x] \in {"count", "insert"}}

\* Tenants and units x is about to lease.
Letting(x) ==
  IF Job[x].kind = "let" /\ at[x] \in {"active", "writeUnit", "writeTenant", "writeLease", "commit"}
  THEN {TenantOf(x), UnitOf(x)} ELSE {}

\* What others are doing to the same leases, tenants and units when x commits.
Overlaps(x) ==
  UNION {(Billing(x) \cap Billing(y)) \cup (Letting(x) \cap Letting(y)) : y \in Others(x)}

Written(old, d) == IF d \in {Same, Kept} THEN old ELSE d

CommitAll(x) ==
  LET d == draft[x]  j == Job[x] IN
  /\ invoices' = [n \in Numbers \cup DOMAIN d.rows |->
                    IF n \in Numbers THEN invoices[n] ELSE d.rows[n]]
  /\ told' = told \cup d.told
  /\ lease' = [lease EXCEPT ![j.lease] = Written(@, d.lease)]
  /\ unit' = [unit EXCEPT ![UnitOf(x)] = Written(@, d.unit)]
  /\ home' = [home EXCEPT ![TenantOf(x)] = Written(@, d.home)]
  /\ overlapped' = overlapped \cup Overlaps(x)
  /\ draft' = [draft EXCEPT ![x] = NoDraft]

\* Its session and its variables are gone.
Forget(x) ==
  /\ saw' = [saw EXCEPT ![x] = Unseen] /\ todo' = [todo EXCEPT ![x] = {}]
  /\ hand' = [hand EXCEPT ![x] = NoLease] /\ number' = [number EXCEPT ![x] = 0]
RollbackKeepingRows(x, label) ==   \* mutant: the session is not rolled back
  Goto(x, label) /\ Forget(x) /\ UNCHANGED draft
Rollback(x, label) ==
  /\ Goto(x, label)
  /\ draft' = [draft EXCEPT ![x] = NoDraft]
  /\ Forget(x)

----------------------------------------------------------------------------
(* create_lease and terminate_lease.                                       *)

\* db.get(Tenant): first in create_lease, last in terminate_lease.
ReadTenant(x) ==
  /\ at[x] = "tenant"
  /\ saw' = [saw EXCEPT ![x].home = home[TenantOf(x)]]
  /\ Goto(x, IF Job[x].kind = "let" THEN "unit" ELSE "writeUnit")
  /\ UNCHANGED <<committed, mails, active, todo, hand, number, draft>>

\* db.get(Unit).
ReadUnit(x) ==
  /\ at[x] = "unit"
  /\ saw' = [saw EXCEPT ![x].unit = unit[UnitOf(x)]]
  /\ Goto(x, IF Job[x].kind = "end" THEN "tenant"
             ELSE IF unit[UnitOf(x)] = "OCCUPIED" THEN "refused" ELSE "active")
  /\ UNCHANGED <<committed, mails, active, todo, hand, number, draft>>

\* existing_active.
CheckActive(x) ==
  /\ at[x] = "active"
  /\ Goto(x, IF \E l \in ActiveLeases : LeaseTenant[l] = TenantOf(x) THEN "refused" ELSE "writeUnit")
  /\ UNCHANGED <<committed, mails, saw, active, todo, hand, number, draft>>

\* db.get(Lease) of terminate_lease; the tenant's active lease, if any, of
\* tenant_invoice_create_submit.
ReadLease(x) ==
  /\ at[x] = "lease"
  /\ IF Job[x].kind = "end"
     THEN /\ saw' = [saw EXCEPT ![x].lease = lease[Job[x].lease]]
          /\ Goto(x, IF lease[Job[x].lease] = "NONE" THEN "refused" ELSE "unit")
          /\ UNCHANGED hand
     ELSE LET found == {l \in ActiveLeases : LeaseTenant[l] = Job[x].tenant} IN
          /\ \E l \in IF found = {} THEN {NoLease} ELSE found : hand' = [hand EXCEPT ![x] = l]
          /\ Goto(x, "count")
          /\ UNCHANGED saw
  /\ UNCHANGED <<committed, mails, active, todo, number, draft>>

\* The flush: units, tenants, leases.
NewUnit(x) == IF Job[x].kind = "let" THEN "OCCUPIED" ELSE "AVAILABLE"
WriteUnit(x) ==
  /\ at[x] = "writeUnit"
  /\ IF saw[x].unit = NewUnit(x) THEN UNCHANGED draft
     ELSE /\ \A y \in Others(x) : draft[y].unit # Same => UnitOf(y) # UnitOf(x)
          /\ draft' = [draft EXCEPT ![x].unit = NewUnit(x)]
  /\ Goto(x, "writeTenant")
  /\ UNCHANGED <<committed, mails, saw, active, todo, hand, number>>

\* A new lease always writes the tenant's row (rent, deposit, move-in date).
NewHome(x) == IF Job[x].kind = "let" THEN UnitOf(x) ELSE NoUnit
WriteTenant(x) ==
  /\ at[x] = "writeTenant"
  /\ LET column == IF saw[x].home # NewHome(x) THEN NewHome(x)
                   ELSE IF Job[x].kind = "let" THEN Kept ELSE Same
     IN /\ column # Same =>
             \A y \in Others(x) : draft[y].home # Same => TenantOf(y) # TenantOf(x)
        /\ draft' = [draft EXCEPT ![x].home = column]
  /\ Goto(x, "writeLease")
  /\ UNCHANGED <<committed, mails, saw, active, todo, hand, number>>

WriteLease(x) ==
  /\ at[x] = "writeLease"
  /\ IF saw[x].lease = "TERMINATED" THEN UNCHANGED draft
     ELSE /\ \A y \in Others(x) : draft[y].lease # Same => Job[y].lease # Job[x].lease
          /\ draft' = [draft EXCEPT ![x].lease =
               IF Job[x].kind = "let" THEN "ACTIVE" ELSE "TERMINATED"]
  /\ Goto(x, "commit")
  /\ UNCHANGED <<committed, mails, saw, active, todo, hand, number>>

Commit(x) ==
  /\ at[x] = "commit"
  /\ CommitAll(x) /\ Goto(x, "done") /\ Forget(x)
  /\ UNCHANGED <<mails, active>>

----------------------------------------------------------------------------
(* create_invoice, by hand or in the loop of generate_monthly_invoices.    *)

ReadLeases(x) ==
  /\ at[x] = "leases"
  /\ active' = [active EXCEPT ![x] = ActiveLeases]
  /\ todo' = [todo EXCEPT ![x] = ActiveLeases]
  /\ Goto(x, "check")
  /\ UNCHANGED <<committed, mails, saw, hand, number, draft>>

\* already_billed, for a lease of the loop; after the last one, the e-mails.
Billed(l) == \E n \in Numbers : invoices[n].lease = l
CheckNeverBilled(x) ==   \* mutant: already_billed not asked
  /\ at[x] = "check"
  /\ IF todo[x] = {} THEN Goto(x, "mail") /\ UNCHANGED <<todo, hand>>
     ELSE \E l \in todo[x] :
            /\ todo' = [todo EXCEPT ![x] = @ \ {l}]
            /\ hand' = [hand EXCEPT ![x] = l]
            /\ Goto(x, "count")
  /\ UNCHANGED <<committed, mails, saw, active, number, draft>>
CheckBilled(x) ==
  /\ at[x] = "check"
  /\ IF todo[x] = {} THEN Goto(x, "mail") /\ UNCHANGED <<todo, hand>>
     ELSE \E l \in todo[x] :
            /\ todo' = [todo EXCEPT ![x] = @ \ {l}]
            /\ IF Billed(l) THEN UNCHANGED <<at, hand>>
               ELSE hand' = [hand EXCEPT ![x] = l] /\ Goto(x, "count")
  /\ UNCHANGED <<committed, mails, saw, active, number, draft>>

\* _next_invoice_number.
NextNumberDirty(x) ==   \* mutant: rows nobody has committed counted too
  Cardinality(Numbers) + Cardinality(UNION {OwnNumbers(y) : y \in Request}) + 1
NextNumber(x) == Cardinality(Numbers) + Cardinality(OwnNumbers(x)) + 1
CountInvoices(x) ==
  /\ at[x] = "count"
  /\ number' = [number EXCEPT ![x] = NextNumber(x)]
  /\ Goto(x, "insert")
  /\ UNCHANGED <<committed, mails, saw, active, todo, hand, draft>>

\* db.flush() of create_invoice.  A number that is taken raises IntegrityError,
\* which no route catches: everything the request wrote is rolled back.
NewInvoice(x) ==
  [lease |-> hand[x], by |-> x,
   tenant |-> IF Job[x].kind = "run" THEN LeaseTenant[hand[x]] ELSE Job[x].tenant]
AfterInsertMail(x) == "mail"   \* mutant: each invoice is mailed as it is created
AfterInsert(x) == IF Job[x].kind = "run" THEN "check" ELSE "mail"
InsertInvoice(x) ==
  /\ at[x] = "insert"
  /\ \A y \in Others(x) : number[x] \notin OwnNumbers(y)
  /\ IF number[x] \in Numbers \cup OwnNumbers(x) THEN Rollback(x, "failed")
     ELSE /\ draft' = [draft EXCEPT ![x].rows =
               [n \in DOMAIN @ \cup {number[x]} |-> IF n \in DOMAIN @ THEN @[n] ELSE NewInvoice(x)]]
          /\ Goto(x, AfterInsert(x))
          /\ hand' = [hand EXCEPT ![x] = NoLease] /\ number' = [number EXCEPT ![x] = 0]
          /\ UNCHANGED <<saw, todo>>
  /\ UNCHANGED <<committed, mails, active>>

----------------------------------------------------------------------------
(* send_invoice_notification_email and _dispatch.                          *)

\* The invoices x created and has not told their tenants of.
Row(x, n) == IF n \in Numbers THEN invoices[n] ELSE draft[x].rows[n]
ToTellPending(x) ==   \* mutant: those the first _dispatch committed are forgotten
  {n \in OwnNumbers(x) : Row(x, n).tenant \in HasEmail /\ n \notin told}
ToTell(x) ==
  {n \in Numbers \cup OwnNumbers(x) :
     Row(x, n).by = x /\ Row(x, n).tenant \in HasEmail /\ n \notin told}

\* The log row, then SMTP, which takes the mail or does not (SENT or FAILED).
Send(x) ==
  /\ at[x] = "mail"
  /\ \E n \in ToTell(x) :
       /\ \A k \in ToTell(x) : n <= k
       /\ draft' = [draft EXCEPT ![x].told = {n}]
       /\ mails' \in {mails, mails \cup {[number |-> n, row |-> Row(x, n)]}}
  /\ Goto(x, "dispatch")
  /\ UNCHANGED <<committed, saw, active, todo, hand, number>>

\* The commit at the end of _dispatch: of the whole session.
Dispatch(x) ==
  /\ at[x] = "dispatch"
  /\ CommitAll(x) /\ Goto(x, "mail")
  /\ UNCHANGED <<mails, saw, active, todo, hand, number>>

\* log_activity and the route's own commit.
LogAndCommit(x) ==
  /\ at[x] = "mail" /\ ToTell(x) = {}
  /\ CommitAll(x) /\ Goto(x, "done") /\ Forget(x)
  /\ UNCHANGED <<mails, active>>

\* The process dies: what the request committed stays, the rest is gone.
Crash(x) ==
  /\ MayCrash /\ at[x] \notin Finished \cup {First(x)}
  /\ Rollback(x, "crashed")
  /\ UNCHANGED <<committed, mails, active>>

----------------------------------------------------------------------------
Init ==
  /\ lease = [l \in Lease |-> IF l \in Signed THEN "ACTIVE" ELSE "NONE"]
  /\ unit = [u \in Unit |-> IF \E l \in Signed : LeaseUnit[l] = u THEN "OCCUPIED" ELSE "AVAILABLE"]
  /\ home \in [Tenant -> Unit \cup {NoUnit}]
  /\ \A t \in Tenant, u \in Unit :
       home[t] = u <=> \E l \in Signed : LeaseTenant[l] = t /\ LeaseUnit[l] = u
  /\ invoices = NoRows /\ told = {} /\ mails = {}
  /\ \E arriving \in Together :
       at = [x \in Request |-> IF x \in arriving THEN First(x) ELSE "absent"]
  /\ saw = [x \in Request |-> Unseen]
  /\ active = [x \in Request |-> {}] /\ todo = [x \in Request |-> {}]
  /\ hand = [x \in Request |-> NoLease] /\ number = [x \in Request |-> 0]
  /\ draft = [x \in Request |-> NoDraft]
  /\ overlapped = {}

Step(x) ==
  \/ ReadTenant(x) \/ ReadUnit(x) \/ CheckActive(x) \/ ReadLease(x)
  \/ WriteUnit(x) \/ WriteTenant(x) \/ WriteLease(x) \/ Commit(x)
  \/ ReadLeases(x) \/ CheckBilled(x) \/ CountInvoices(x) \/ InsertInvoice(x)
  \/ Send(x) \/ Dispatch(x) \/ LogAndCommit(x)

Next == \E x \in Request : Step(x) \/ Crash(x)

Spec == Init /\ [][Next]_vars

\* A request that started runs on as soon as what it waits for is free, or dies.
FairSpec == Spec /\ \A x \in Request : WF_vars(at[x] # First(x) /\ Step(x))

----------------------------------------------------------------------------
(* Properties.                                                             *)

TypeOK ==
  /\ lease \in [Lease -> {"NONE", "ACTIVE", "TERMINATED"}]
  /\ unit \in [Unit -> {"AVAILABLE", "OCCUPIED"}]
  /\ home \in [Tenant -> Unit \cup {NoUnit}]
  /\ Numbers \subseteq Nat /\ invoices \in [Numbers -> InvoiceRow]
  /\ told \subseteq Nat
  /\ active \in [Request -> SUBSET Lease] /\ todo \in [Request -> SUBSET Lease]
  /\ hand \in [Request -> Lease \cup {NoLease}] /\ number \in [Request -> Nat]
  /\ \A x \in Request : OwnNumbers(x) \subseteq Nat /\ draft[x].rows \in [OwnNumbers(x) -> InvoiceRow]

\* The number of the next invoice is a count plus one: the numbers on the books
\* are 1 to n without a gap, or that number would be taken for ever after.
NumbersDense == Numbers = 1 .. Cardinality(Numbers)

\* terminate_lease does not ask whether the lease is ACTIVE: ending it a second
\* time frees a unit that may have been let again.
EndedAgain(u) ==
  \E x, y \in Request :
    /\ x # y /\ Job[x].kind = "end" /\ Job[y].kind = "end" /\ Job[x].lease = Job[y].lease
    /\ at[x] = "done" /\ at[y] = "done" /\ UnitOf(x) = u

\* billing_service.py:96 "Leases already billed for this exact period are
\* skipped": however runs, bills by hand, new leases and crashes interleave, no
\* lease is billed by two runs, unless the two were billing it at the same time.
\* In the same way (lease_service.py:25, :33) no unit and no tenant has two
\* active leases, unless they were being signed at the same time, or an old
\* lease of the unit was ended again.
BilledByOneRun ==
  \A m, n \in Numbers :
    /\ Job[invoices[m].by].kind = "run" /\ Job[invoices[n].by].kind = "run"
    /\ invoices[m].lease = invoices[n].lease
    => m = n \/ invoices[n].lease \in overlapped
LetOnce ==
  \A k, l \in ActiveLeases : k # l =>
    /\ LeaseUnit[k] = LeaseUnit[l] => LeaseUnit[l] \in overlapped \/ EndedAgain(LeaseUnit[l])
    /\ LeaseTenant[k] = LeaseTenant[l] => LeaseTenant[l] \in overlapped
DoneOnce == BilledByOneRun /\ LetOnce

\* A monthly run is all or nothing although its e-mails commit in the middle of
\* the route: once anything of it is on the books (or it has ended well) every
\* lease that was active when it began is billed.
RunIsWhole ==
  \A x \in Request :
    Job[x].kind = "run" /\ (at[x] = "done" \/ \E n \in Numbers : invoices[n].by = x)
      => \A l \in active[x] : Billed(l)

\* A mail about an invoice is about one that is, or will be, on the books, as it
\* says there, unless the process died between sending it and the commit; and a
\* request that ended well has told everyone it can.
MailsMatchBooks ==
  /\ \A m \in mails :
       LET x == m.row.by IN
       \/ m.number \in Numbers /\ invoices[m.number] = m.row
       \/ at[x] = "dispatch" /\ m.number \in OwnNumbers(x)
       \/ at[x] = "crashed"
  /\ \A n \in Numbers :
       at[invoices[n].by] = "done" /\ invoices[n].tenant \in HasEmail => n \in told

\* No request waits for ever: rows are locked in one order everywhere, and the
\* invoice numbers of a run are waited for by one that holds none.
Finishes == \A x \in Request : at[x] # First(x) ~> at[x] \in Finished
=============================================================================
