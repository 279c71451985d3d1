------------------------------- MODULE Views -------------------------------
(***************************************************************************)
(* What the pages and reports tell of the money in Billing: the tenant's   *)
(* home, rent and payments pages (api/routes/pages.py, tenant.py), the     *)
(* admin dashboard and the arrears report (report_service.py).  They only  *)
(* read, some from the ledger and some from the invoices.                  *)
(***************************************************************************)
EXTENDS Billing

\* The sums over tenants are over the rows of a table.
ASSUME ViewsAssumption == IsFiniteSet(Tenant)

Balances(S) == SumFunction([i \in S |-> invoices[i].balance])

\* outstanding_invoices of the payments page, and the first of them by due
\* date: next_invoice of the home and rent pages.
DueOfNotLate(t) ==   \* mutant: OVERDUE left out of the query
  {i \in Issued : invoices[i].tenant = t /\ invoices[i].status \in {"GENERATED", "PARTIALLY_PAID"}}
DueOf(t) == {i \in Issued : invoices[i].tenant = t /\ invoices[i].status \in Outstanding}
NextInvoice(t) == {i \in DueOf(t) : \A j \in DueOf(t) : invoices[i].due <= invoices[j].due}

\* total_outstanding and overdue_count of the dashboard, overdue_amount of the
\* tenant's home.
TotalOutstandingUntouched ==   \* mutant: partly paid invoices left out
  Balances({i \in Issued : invoices[i].status \in {"GENERATED", "OVERDUE"}})
TotalOutstanding == Balances({i \in Issued : invoices[i].status \in Outstanding})
OverdueCount == Cardinality({i \in Issued : invoices[i].status = "OVERDUE"})
OverdueAmount(t) == Balances({i \in DueOf(t) : invoices[i].status = "OVERDUE"})

\* total_paid of the tenant's home (every payment of Billing is SUCCESSFUL); the
\* income line of income_expense_pdf over all dates.
TotalPaid(t) == received[t]
Income == SumFunction([t \in Tenant |-> TotalPaid(t)])

\* arrears_excel: its lines.
Arrears == {t \in Tenant : TenantBalance(t) > 0}

----------------------------------------------------------------------------
(* Properties.                                                             *)

\* The dashboard adds up invoices, the reports add up ledgers: they differ by
\* what was paid ahead, overpaid, or dropped when an invoice was cancelled, and
\* by nothing else, whoever paid whose invoices.
Dropped(i) == IF invoices[i].status \in Outstanding THEN 0 ELSE -NetPosted(invoices[i])
PaidAhead == SumFunction([t \in Tenant |-> -ledger[t][NoInvoice]])
OutstandingReconciles ==
  TotalOutstanding =
    SumFunction([t \in Tenant |-> TenantBalance(t)]) + PaidAhead
      + SumFunction([i \in Issued |-> Dropped(i)])

\* Money received is conserved: the income of the reports is what the invoices
\* count as paid, cancelled ones too, and what was paid ahead of any.
PaymentsAccounted == Income = SumFunction([i \in Issued |-> invoices[i].paid]) + PaidAhead

\* A tenant in the arrears report finds an invoice to pay on the pages, and owes
\* no more than the invoices shown there add up to; unless somebody else paid one
\* of the tenant's invoices, which leaves the tenant's own ledger owing.  The
\* first invoice shown is an overdue one when there is any.
ArrearsArePayable ==
  \A t \in Tenant :
    (\A i \in Issued, u \in Tenant \ {t} : invoices[i].tenant = t => ledger[u][i] = 0) =>
      /\ t \in Arrears => NextInvoice(t) # {} /\ TenantBalance(t) <= Balances(DueOf(t))
      /\ OverdueAmount(t) # 0 => OverdueCount > 0 /\ \A i \in NextInvoice(t) : invoices[i].due < today
=============================================================================
