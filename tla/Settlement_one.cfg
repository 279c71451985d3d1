\* Everything concurrent, but the webhook runs in one worker.
SPECIFICATION FairSpec
CONSTANTS
  i1 = i1
  i2 = i2
  p1 = p1
  p2 = p2
  c1 = c1
  c2 = c2
  m2 = m2
  adj = adj
  can = can
  Apart = {m2}
  Request = {c1, c2, m2, adj, can}
  Job <- MCJob
  Invoice = {i1, i2}
  Total <- MCTotal
  Payment = {p1, p2}
  Amount <- MCAmount
  WebhookWorkers = 1
INVARIANTS
  CreditedOnce
  InvoiceAgrees
  AckedIsRecorded
  ReceiptShowsPayment
PROPERTIES
  PaidIsNotCancelled
  Finishes
CHECK_DEADLOCK FALSE
