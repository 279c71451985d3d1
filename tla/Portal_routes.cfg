\* Requests of three users, and tokens that outlive their roles, with crashes.
SPECIFICATION Spec
CONSTANTS
  adm = adm
  care = care
  ten = ten
  new1 = new1
  new2 = new2
  pa = pa
  pc = pc
  p1 = p1
  p2 = p2
  t1 = t1
  t2 = t2
  k0 = k0
  k1 = k1
  u1 = u1
  u2 = u2
  hire = hire
  provision = provision
  demote = demote
  retire = retire
  move = move
  start = start
  finish = finish
  reset = reset
  ask = ask
  look = look
  fetch = fetch
  r1 = r1
  r2 = r2
  Request = {hire, provision, demote, retire, move, start, finish, reset, ask, look, fetch}
  Job <- MCJob
  Together <- MCTogether
  User = {adm, care, ten, new1, new2}
  Tenant = {t1, t2}
  Ticket = {k0, k1}
  Person = {pa, pc, p1, p2}
  Unit = {u1, u2}
  UsersAtFirst <- MCUsers
  TenantsAtFirst <- MCTenants
  TicketsAtFirst <- MCTickets
  PaidBy <- MCPaidBy
  HasEmail = {p1, p2}
  MayCrash = TRUE
  NoUser = NoUser
  NoPerson = NoPerson
  NoTenant = NoTenant
  NoTicket = NoTicket
  NoUnit = NoUnit
INVARIANTS
  LoginIsLinked
  OwnOnly
  MailTellsStatus
PROPERTIES
  EditsMerge
CHECK_DEADLOCK FALSE
