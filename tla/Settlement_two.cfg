\* A callback and its duplicate in the two workers of the Dockerfile.
SPECIFICATION Spec
CONSTANTS
  i1 = i1
  i2 = i2
  p1 = p1
  p2 = p2
  c1 = c1
  c2 = c2
  m2 = m2
  adj = adj
  can = can
  Apart = {}
  Request = {c1, c2}
  Job <- MCJob
  Invoice = {i1, i2}
  Total <- MCTotal
  Payment = {p1, p2}
  Amount <- MCAmount
  WebhookWorkers = 2
INVARIANTS
  CreditedOnce
CHECK_DEADLOCK FALSE
