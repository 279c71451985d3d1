------------------------------ MODULE Billing ------------------------------
(***************************************************************************)
(* The money core of the rental system: invoices, payments applied to them *)
(* and the append-only ledger (app/services/billing_service.py,            *)
(* payment_service.py, ledger_service.py).                                 *)
(*                                                                         *)
(* One action is one service call together with the database transaction   *)
(* it runs in; here transactions are serial.  Settlement.tla takes the     *)
(* same handlers apart into the steps that interleave.                     *)
(*                                                                         *)
(* Amounts are integers (cents; the columns are exact Numeric(12,2)).  The *)
(* ledger table is kept as the net (debits - credits) of its rows per      *)
(* tenant and per invoice they are tagged with; rows tagged with no        *)
(* invoice are the unallocated credits.                                    *)
(***************************************************************************)
EXTENDS Integers, FiniteSets, Functions

CONSTANTS
  Tenant,           \* tenants
  Lease,            \* leases a monthly run may find active
  LeaseTenant,      \* the tenant of each lease
  LeaseRent,        \* the rent of each lease
  Period,           \* billing_period_start values
  InvoiceId,        \* bound: the invoices that can ever be issued
  NoInvoice,        \* invoice_id IS NULL
  NoLease,          \* lease_id IS NULL
  Charges,          \* rent + water + electricity + service charges entered
  Extras,           \* penalties and discounts entered (0 is one of them)
  Amounts,          \* amounts paid
  MaxDay,           \* bound: the last day of the calendar
  MaxReceived,      \* bound: money one tenant pays in all
  RefreshScheduled  \* TRUE: something calls refresh_overdue_statuses

ASSUME BillingAssumption ==
  /\ LeaseTenant \in [Lease -> Tenant]
  /\ LeaseRent \in [Lease -> Nat]
  /\ IsFiniteSet(InvoiceId) /\ NoInvoice \notin InvoiceId
  /\ NoLease \notin Lease
  /\ Charges \subseteq Nat
  /\ Extras \subseteq Nat /\ 0 \in Extras
  /\ Amounts \subseteq Nat
  /\ MaxDay \in Nat
  /\ MaxReceived \in Nat
  /\ RefreshScheduled \in BOOLEAN

VARIABLES
  invoices,   \* the invoices table: a row for every id issued so far
  ledger,     \* ledger[t][g]: net of t's ledger rows tagged with g
  received,   \* received[t]: sum of t's SUCCESSFUL payments
  today       \* date.today()

vars == <<invoices, ledger, received, today>>

Day == 0 .. MaxDay
Tag == InvoiceId \cup {NoInvoice}
Outstanding == {"GENERATED", "PARTIALLY_PAID", "OVERDUE"}
InvoiceStatus == Outstanding \cup {"PAID", "CANCELLED"}

InvoiceRow ==
  [tenant: Tenant, lease: Lease \cup {NoLease}, period: Period, due: Day,
   charges: Nat, penalties: Nat, discounts: Nat,
   total: Int, paid: Nat, balance: Int,
   status: InvoiceStatus, monthly: BOOLEAN]

Issued == DOMAIN invoices

----------------------------------------------------------------------------
(* Row-level helpers.                                                      *)

\* recalc_invoice_status: the row with its status recomputed on day d.
RecalcIgnoringTotalSign(r, d) ==   \* mutant: no total_amount > 0 test
  [r EXCEPT !.status =
     IF r.status = "CANCELLED" THEN "CANCELLED"
     ELSE IF r.paid >= r.total THEN "PAID"
     ELSE IF r.paid > 0 THEN "PARTIALLY_PAID"
     ELSE IF r.due < d THEN "OVERDUE" ELSE "GENERATED"]
Recalc(r, d) ==
  [r EXCEPT !.status =
     IF r.status = "CANCELLED" THEN "CANCELLED"
     ELSE IF r.paid >= r.total /\ r.total > 0 THEN "PAID"
     ELSE IF r.paid > 0 THEN "PARTIALLY_PAID"
     ELSE IF r.due < d THEN "OVERDUE"
     ELSE "GENERATED"]

\* create_invoice: the inserted row, its total computed and nothing paid yet.
NewRow(t, l, p, d, c, pen, disc, m) ==
  Recalc([tenant |-> t, lease |-> l, period |-> p, due |-> d,
          charges |-> c, penalties |-> pen, discounts |-> disc,
          total |-> (c + pen) - disc, paid |-> 0, balance |-> (c + pen) - disc,
          status |-> "GENERATED", monthly |-> m], today)

\* The invoices table after inserting the rows of the function new, and the
\* ledger after posting the total of each as a debit of its tenant.
Insert(new) ==
  /\ invoices' = [i \in Issued \cup DOMAIN new |->
                    IF i \in DOMAIN new THEN new[i] ELSE invoices[i]]
  /\ ledger' = [t \in Tenant |-> [g \in Tag |->
                    IF g \in DOMAIN new /\ new[g].tenant = t
                    THEN ledger[t][g] + new[g].total ELSE ledger[t][g]]]

\* post_ledger_entry: a row of tenant t tagged with g; amount is debit - credit.
Post(t, g, amount) == [ledger EXCEPT ![t][g] = @ + amount]

----------------------------------------------------------------------------
(* Issuing invoices.                                                       *)

\* create_invoice through the admin form: the lease is the tenant's active
\* one, if any.  Discounts are not bounded by the charges.
CreateInvoice(i, t, l, p, d, c, pen, disc) ==
  /\ i \in InvoiceId \ Issued
  /\ l \in Lease => LeaseTenant[l] = t
  /\ Insert([j \in {i} |-> NewRow(t, l, p, d, c, pen, disc, FALSE)])
  /\ UNCHANGED <<received, today>>

\* generate_monthly_invoices: the leases it bills.  Any invoice of the lease
\* for the period counts, cancelled and manual ones included.
BillableUnlessLive(active, p) ==   \* mutant: a cancelled bill does not count
  {l \in active : \A i \in Issued :
     ~(invoices[i].lease = l /\ invoices[i].period = p /\ invoices[i].status # "CANCELLED")}
Billable(active, p) ==
  {l \in active : \A i \in Issued :
     ~(invoices[i].lease = l /\ invoices[i].period = p)}

\* generate_monthly_invoices: active is what the query for ACTIVE leases
\* returned (the leases table is Leasing.tla's), c the charges entered for
\* the whole run.  id gives each lease billed an id of its own.
GenerateMonthly(active, p, d, c) ==
  LET billed == Billable(active, p) IN
  \E id \in [billed -> InvoiceId \ Issued] :
    /\ \A l, m \in billed : id[l] = id[m] => l = m
    /\ Insert([i \in {id[l] : l \in billed} |->
         LET l == CHOOSE k \in billed : id[k] = i
         IN  NewRow(LeaseTenant[l], l, p, d, LeaseRent[l] + c, 0, 0, TRUE)])
    /\ UNCHANGED <<received, today>>

----------------------------------------------------------------------------
(* Changing issued invoices.                                               *)

\* adjust_invoice with both fields given; a field left out is the case where
\* the value entered is the present one.  Only a change of the total touches
\* balance, status and ledger.
AdjustInvoiceTotalOnly(i, pen, disc) ==   \* mutant: balance not adjusted
  LET r == invoices[i]
      delta == (pen - r.penalties) - (disc - r.discounts)
      s == [r EXCEPT !.penalties = pen, !.discounts = disc,
                     !.total = @ + delta]
  IN /\ r.status # "CANCELLED"
     /\ invoices' = [invoices EXCEPT ![i] = IF delta = 0 THEN s ELSE Recalc(s, today)]
     /\ ledger' = Post(r.tenant, i, delta)
     /\ UNCHANGED <<received, today>>
AdjustInvoice(i, pen, disc) ==
  LET r == invoices[i]
      delta == (pen - r.penalties) - (disc - r.discounts)
      s == [r EXCEPT !.penalties = pen, !.discounts = disc,
                     !.total = @ + delta, !.balance = @ + delta]
  IN /\ r.status # "CANCELLED"
     /\ invoices' = [invoices EXCEPT ![i] = IF delta = 0 THEN s ELSE Recalc(s, today)]
     /\ ledger' = Post(r.tenant, i, delta)
     /\ UNCHANGED <<received, today>>

\* cancel_invoice: what is still due is written off; a negative balance is
\* dropped from the row without a ledger row.  Cancelling twice is allowed.
CancelInvoiceByTotal(i) ==   \* mutant: writes off the total
  LET r == invoices[i] IN
  /\ r.status # "PAID"
  /\ ledger' = IF r.balance > 0 THEN Post(r.tenant, i, -r.total) ELSE ledger
  /\ invoices' = [invoices EXCEPT ![i].balance = 0, ![i].status = "CANCELLED"]
  /\ UNCHANGED <<received, today>>
CancelInvoice(i) ==
  LET r == invoices[i] IN
  /\ r.status # "PAID"
  /\ ledger' = IF r.balance > 0 THEN Post(r.tenant, i, -r.balance) ELSE ledger
  /\ invoices' = [invoices EXCEPT ![i].balance = 0, ![i].status = "CANCELLED"]
  /\ UNCHANGED <<received, today>>

\* refresh_overdue_statuses: no route calls it; RefreshScheduled is the
\* deployment its docstring has in mind.
RefreshOverdue ==
  /\ RefreshScheduled
  /\ invoices' = [i \in Issued |->
       IF invoices[i].status \in {"GENERATED", "PARTIALLY_PAID"} /\ invoices[i].due < today
       THEN [invoices[i] EXCEPT !.status = "OVERDUE"] ELSE invoices[i]]
  /\ UNCHANGED <<ledger, received, today>>

----------------------------------------------------------------------------
(* Payments.                                                               *)

\* allocate_payment: the invoices its loop visits, for a payment of t made
\* against target (not looked at any further) or against none.
Pool(t, target) ==
  IF target # NoInvoice THEN {target}
  ELSE {i \in Issued : invoices[i].tenant = t /\ invoices[i].status \in Outstanding}

\* ORDER BY due_date: the positions of the invoices in the loop; ties fall
\* either way.
AnyOrder(pool) ==   \* mutant: no ORDER BY
  {pos \in [pool -> 1 .. Cardinality(pool)] : \A i, j \in pool : pos[i] = pos[j] => i = j}
OldestFirst(pool) ==
  {pos \in [pool -> 1 .. Cardinality(pool)] :
     \A i, j \in pool : /\ pos[i] = pos[j] => i = j
                        /\ invoices[i].due < invoices[j].due => pos[i] < pos[j]}

\* What one turn of the loop applies to a balance with `remaining` left.
Applied(remaining, balance) ==
  IF balance <= 0 THEN 0 ELSE IF balance < remaining THEN balance ELSE remaining

\* left[k] is `remaining` after k turns of the loop.
LoopRuns(pool, pos, amount) ==
  {left \in [0 .. Cardinality(pool) -> 0 .. amount] :
     /\ left[0] = amount
     /\ \A i \in pool :
          left[pos[i]] = left[pos[i] - 1] - Applied(left[pos[i] - 1], invoices[i].balance)}

\* The effect of the loop on the two tables: app[i] was applied to invoice i
\* (a row credited to the payer and tagged with i), rest is unallocated.
SettleDroppingRest(t, app, rest) ==   \* mutant: the leftover is forgotten
  /\ invoices' = [i \in Issued |->
       IF i \in DOMAIN app /\ app[i] > 0
       THEN Recalc([invoices[i] EXCEPT !.paid = @ + app[i], !.balance = @ - app[i]], today)
       ELSE invoices[i]]
  /\ ledger' = [ledger EXCEPT ![t] =
       [g \in Tag |-> IF g \in DOMAIN app THEN ledger[t][g] - app[g] ELSE ledger[t][g]]]
Settle(t, app, rest) ==
  /\ invoices' = [i \in Issued |->
       IF i \in DOMAIN app /\ app[i] > 0
       THEN Recalc([invoices[i] EXCEPT !.paid = @ + app[i], !.balance = @ - app[i]], today)
       ELSE invoices[i]]
  /\ ledger' = [ledger EXCEPT ![t] =
       [g \in Tag |-> IF g = NoInvoice THEN ledger[t][g] - rest
                      ELSE IF g \in DOMAIN app THEN ledger[t][g] - app[g]
                      ELSE ledger[t][g]]]

\* record_manual_payment (and a successful callback, see PayHero.tla): the
\* payment is SUCCESSFUL at once and allocate_payment runs.
RecordPayment(t, a, target) ==
  /\ received[t] + a <= MaxReceived
  /\ target \in Issued \cup {NoInvoice}
  /\ LET pool == Pool(t, target) IN
     \E pos \in OldestFirst(pool) : \E left \in LoopRuns(pool, pos, a) :
       Settle(t, [i \in pool |-> left[pos[i] - 1] - left[pos[i]]], left[Cardinality(pool)])
  /\ received' = [received EXCEPT ![t] = @ + a]
  /\ UNCHANGED today

NextDay ==
  /\ today < MaxDay
  /\ today' = today + 1
  /\ UNCHANGED <<invoices, ledger, received>>

----------------------------------------------------------------------------
Init ==
  /\ invoices = [i \in {} |-> NoInvoice]
  /\ ledger = [t \in Tenant |-> [g \in Tag |-> 0]]
  /\ received = [t \in Tenant |-> 0]
  /\ today = 0

Next ==
  \/ \E i \in InvoiceId, t \in Tenant, l \in Lease \cup {NoLease}, p \in Period,
        d \in Day, c \in Charges, pen \in Extras, disc \in Extras :
       CreateInvoice(i, t, l, p, d, c, pen, disc)
  \/ \E active \in SUBSET Lease, p \in Period, d \in Day, c \in Charges :
       GenerateMonthly(active, p, d, c)
  \/ \E i \in Issued, pen \in Extras, disc \in Extras : AdjustInvoice(i, pen, disc)
  \/ \E i \in Issued : CancelInvoice(i)
  \/ RefreshOverdue
  \/ \E t \in Tenant, a \in Amounts, target \in InvoiceId \cup {NoInvoice} :
       RecordPayment(t, a, target)
  \/ NextDay

Spec == Init /\ [][Next]_vars

----------------------------------------------------------------------------
(* Properties.                                                             *)

\* Every column holds a value of its type; in particular no issued invoice is
\* left in DRAFT, the column's default.
TypeOK ==
  /\ Issued \subseteq InvoiceId
  /\ invoices \in [Issued -> InvoiceRow]
  /\ ledger \in [Tenant -> [Tag -> Int]]
  /\ received \in [Tenant -> Nat]
  /\ today \in Day

\* The columns of one invoice agree however charges, payments, adjustments and
\* cancellation were mixed: total is what the charges say, and balance is what
\* is left of it (billing_service.py keeps the three by hand).
RowAddsUp(r) ==
  /\ r.total = (r.charges + r.penalties) - r.discounts
  /\ r.balance = IF r.status = "CANCELLED" THEN 0 ELSE r.total - r.paid
ChargesAddUp == \A i \in Issued : RowAddsUp(invoices[i])

\* The status tells the truth about the money on day d: PAID is fully paid; an
\* invoice with money due is in one of the states allocate_payment's query
\* asks for, and one in them is not settled; OVERDUE is past its due date.
RowTruthful(r, d) ==
  /\ r.status = "PAID" => r.total > 0 /\ r.paid >= r.total
  /\ r.status \in Outstanding /\ r.total > 0 => r.paid < r.total
  /\ r.status = "GENERATED" => r.paid = 0
  /\ r.status = "PARTIALLY_PAID" => r.paid > 0
  /\ r.status = "OVERDUE" => r.due < d
StatusTruthful == \A i \in Issued : RowTruthful(invoices[i], today)

\* The ledger, "single source of truth" (models/billing.py:55), agrees row by
\* row with the invoices it was posted for: a tenant's ledger rows tagged with
\* an invoice of the tenant's sum to its balance while it is live, and to zero
\* once it is cancelled (or to what had been paid or deducted in excess of the
\* charges, which cancelling leaves in the ledger).  record_manual_payment does
\* not ask whose invoice it is given: a payment on another's is credited to its
\* payer, so that the owner's rows then sum to more.  Rows tagged with no
\* invoice are credits.
NetPosted(r) ==
  IF r.status # "CANCELLED" THEN r.balance
  ELSE IF r.total < r.paid THEN r.total - r.paid ELSE 0
LedgerRow(t, i) ==
  /\ i \notin Issued => ledger[t][i] = 0
  /\ i \in Issued /\ invoices[i].tenant # t => ledger[t][i] <= 0
  /\ i \in Issued /\ invoices[i].tenant = t =>
       /\ ledger[t][i] >= NetPosted(invoices[i])
       /\ (\A u \in Tenant \ {t} : ledger[u][i] = 0) => ledger[t][i] = NetPosted(invoices[i])
LedgerMatchesInvoices ==
  \A t \in Tenant : ledger[t][NoInvoice] <= 0 /\ \A i \in InvoiceId : LedgerRow(t, i)

\* get_tenant_balance.
TenantBalance(t) == SumFunction(ledger[t])

\* A lease is billed at most once a period by the monthly run, whatever was
\* adjusted, paid or cancelled in between ("safe to re-run").
MonthlyOnce ==
  \A i, j \in Issued :
    /\ invoices[i].monthly /\ invoices[j].monthly
    /\ invoices[i].lease = invoices[j].lease
    /\ invoices[i].period = invoices[j].period
    => i = j

\* A cancelled invoice stays cancelled and nothing is charged or paid on it.
CancelledIsFinal ==
  [][\A i \in Issued : invoices[i].status = "CANCELLED" =>
       /\ invoices'[i].status = "CANCELLED"
       /\ invoices'[i].total = invoices[i].total
       /\ invoices'[i].paid = invoices[i].paid
       /\ invoices'[i].balance = 0]_vars

\* "Oldest first": a payment not made against an invoice leaves nothing on an
\* older invoice of the payer when it pays a later one, and becomes credit only
\* when no invoice of the payer has money due any more.
OldestDueFirst ==
  [][\A t \in Tenant, a \in Amounts : RecordPayment(t, a, NoInvoice) =>
       /\ \A i, j \in Issued :
            /\ invoices'[i].paid > invoices[i].paid
            /\ invoices[j].tenant = t /\ invoices[j].due < invoices[i].due
            => invoices'[j].balance <= 0
       /\ ledger'[t][NoInvoice] < ledger[t][NoInvoice] =>
            \A i \in Issued : invoices[i].tenant = t => invoices'[i].balance <= 0]_vars

\* Billing implements the account TenantAccount promises: a payment counts in
\* full and once for its payer, however it was split over invoices and credit.
Account == INSTANCE TenantAccount WITH
  billed <- [t \in Tenant |-> TenantBalance(t) + received[t]]
AccountSpec == Account!Spec

=============================================================================
