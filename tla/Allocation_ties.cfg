\* Payments that lock several invoices, among them two of one due date.
SPECIFICATION Spec
CONSTANTS
  part = part
  rest = rest
  named = named
  i1 = i1
  i2 = i2
  i3 = i3
  Request = {part, rest, named}
  Amount <- MCAmount
  Named <- MCNamed
  Invoice = {i1, i2, i3}
  Due <- MCDue
  Total <- MCTotal
  LastDay = 2
INVARIANTS
  KnotNeedsTie
  LeftoverWhenSettled
  OverwritesOnlyOwe
CHECK_DEADLOCK FALSE
