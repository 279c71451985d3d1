\* Everything at once, with crashes; one tenant has no e-mail address.
SPECIFICATION FairSpec
CONSTANTS
  t1 = t1
  t2 = t2
  t3 = t3
  u1 = u1
  u2 = u2
  u3 = u3
  l1 = l1
  l2 = l2
  l3 = l3
  l4 = l4
  l5 = l5
  run1 = run1
  run2 = run2
  bill = bill
  end = end
  again = again
  letA = letA
  letB = letB
  letC = letC
  Request = {run1, run2, bill, end, again, letA, letB, letC}
  Together <- MCTogether
  Job <- MCJob
  Tenant = {t1, t2, t3}
  Unit = {u1, u2, u3}
  Lease = {l1, l2, l3, l4, l5}
  LeaseTenant <- MCLeaseTenant
  LeaseUnit <- MCLeaseUnit
  Signed = {l1, l4}
  HasEmail = {t1, t3}
  MayCrash = TRUE
  NoLease = NoLease
  NoUnit = NoUnit
INVARIANTS
  NumbersDense
  DoneOnce
  RunIsWhole
  MailsMatchBooks
PROPERTIES
  Finishes
CHECK_DEADLOCK FALSE
