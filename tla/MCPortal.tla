------------------------------ MODULE MCPortal ------------------------------
(* An admin, a caretaker and a tenant with a login and a request; requests   *)
(* that meet on one user, person, login or maintenance request.              *)
EXTENDS Portal, TLC

CONSTANTS adm, care, ten, new1, new2, pa, pc, p1, p2, t1, t2, k0, k1, u1, u2,
          hire, provision, demote, retire, move, start, finish, reset, ask, look, fetch, r1, r2

Row(p, r) == [person |-> p, role |-> r, status |-> "ACTIVE"]
MCUsers == (adm :> Row(pa, "ADMIN")) @@ (care :> Row(pc, "CARETAKER")) @@ (ten :> Row(p1, "TENANT"))
MCTenants == t1 :> [person |-> p1, user |-> ten, home |-> u1]
MCPaidBy == (r1 :> t1) @@ (r2 :> t2)
MCTickets == k0 :> [tenant |-> t1, unit |-> u1, status |-> "SUBMITTED", assignee |-> NoUser]

Blank == [kind |-> "view", user |-> NoUser, tenant |-> NoTenant, ticket |-> NoTicket, person |-> NoPerson,
          role |-> Same, status |-> Same, login |-> FALSE, assignee |-> NoUser]
MCJob ==
  (hire :> [Blank EXCEPT !.kind = "createUser", !.user = new1, !.person = p2, !.role = "TENANT"]) @@
  (provision :> [Blank EXCEPT !.kind = "createTenant", !.tenant = t2, !.user = new2, !.person = p2, !.login = TRUE]) @@
  (demote :> [Blank EXCEPT !.kind = "editUser", !.user = care, !.person = p2, !.role = "TENANT", !.status = "ACTIVE"]) @@
  (retire :> [Blank EXCEPT !.kind = "editUser", !.user = care, !.status = "INACTIVE"]) @@
  (move :> [Blank EXCEPT !.kind = "editUser", !.user = ten, !.person = p1, !.role = "CARETAKER", !.status = "ACTIVE"]) @@
  (start :> [Blank EXCEPT !.kind = "update", !.ticket = k0, !.status = "IN_PROGRESS", !.assignee = care]) @@
  (finish :> [Blank EXCEPT !.kind = "update", !.ticket = k0, !.status = "COMPLETED"]) @@
  (reset :> [Blank EXCEPT !.kind = "update", !.ticket = k0, !.status = "SUBMITTED"]) @@
  (ask :> [Blank EXCEPT !.kind = "submit", !.ticket = k1]) @@
  (look :> Blank) @@ (fetch :> [Blank EXCEPT !.kind = "receipt"])

MCTogether == {{hire, provision, demote}, {demote, retire, start}, {start, finish, reset},
               {move, start, look}, {demote, ask, look}, {provision, look, ask},
               {provision, move, fetch}}
=============================================================================
