\* Two tenants, two invoices, payments with and without an invoice (anybody's),
\* monthly runs again and again, the refresh called now and then.
SPECIFICATION Spec
SYMMETRY Symmetry
CONSTANTS
  t1 = t1
  t2 = t2
  l1 = l1
  l2 = l2
  NoInvoice = NoInvoice
  NoLease = NoLease
  LeaseTenant <- MCLeaseTenant
  LeaseRent <- MCLeaseRent
  Tenant = {t1, t2}
  Lease = {l1, l2}
  Period = {1}
  InvoiceId = {i1, i2}
  Charges = {1}
  Extras = {0, 2}
  Amounts = {2}
  MaxDay = 1
  MaxReceived = 2
  RefreshScheduled = TRUE
INVARIANTS
  ChargesAddUp
  StatusTruthful
  LedgerMatchesInvoices
  MonthlyOnce
  PaymentsAccounted
  OutstandingReconciles
  ArrearsArePayable
PROPERTIES
  OldestDueFirst
  AccountSpec
