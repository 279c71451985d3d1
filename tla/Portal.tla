------------------------------- MODULE Portal -------------------------------
(***************************************************************************)
(* Who may do what: users and their roles (app/core/deps.py,               *)
(* admin/users.py), the logins made together with a tenant                 *)
(* (admin/tenants.py), the maintenance requests that tenants submit and    *)
(* staff work on, with the mails about them, and the receipts tenants get. *)
(*                                                                         *)
(* The session token is only who one is; role and status are read from the *)
(* database for every request.  Requests are taken apart into statements   *)
(* as in Issuing and Settlement: an UPDATE holds its row until the commit, *)
(* an INSERT waits for a clashing row nobody has committed yet, and        *)
(* email_service._dispatch commits in the middle of a route.               *)
(*                                                                         *)
(* A person is an e-mail address, a phone and a national id: a user and a  *)
(* tenant row are of one person.  Passwords and lockout are Accounts.tla.  *)
(***************************************************************************)
EXTENDS Naturals, FiniteSets

CONSTANTS
  Request, Job,   \* the requests that arrive, each once, and what they ask for
  Together,       \* sets of requests that arrive in one behaviour
  User, Tenant, Ticket, Person, Unit,
  UsersAtFirst, TenantsAtFirst, TicketsAtFirst,   \* the tables at the beginning
  PaidBy,         \* PaidBy[p]: the tenant of payment p, which has a receipt
  HasEmail,       \* persons whose tenant row has an e-mail address
  MayCrash,       \* a process may die at any point
  NoUser, NoPerson, NoTenant, NoTicket, NoUnit

Role == {"ADMIN", "ACCOUNTANT", "CARETAKER", "TENANT"}
UserStatus == {"ACTIVE", "INACTIVE", "SUSPENDED"}
TicketStatus == {"SUBMITTED", "APPROVED", "ASSIGNED", "IN_PROGRESS", "COMPLETED", "CLOSED"}
Kind == {"createUser", "editUser", "createTenant", "submit", "update", "view", "receipt"}

UserRow == [person: Person, role: Role, status: UserStatus]
TenantRow == [person: Person, user: User \cup {NoUser}, home: Unit \cup {NoUnit}]
TicketRow == [tenant: Tenant, unit: Unit, status: TicketStatus, assignee: User \cup {NoUser}]

\* A field the form leaves out.  user, tenant and ticket are the row meant, or
\* the uuid of the row to create.
Same == "same"
JobType == [kind: Kind, user: User \cup {NoUser}, tenant: Tenant \cup {NoTenant},
            ticket: Ticket \cup {NoTicket}, person: Person \cup {NoPerson},
            role: Role \cup {Same}, status: UserStatus \cup TicketStatus \cup {Same},
            login: BOOLEAN, assignee: User \cup {NoUser}]

ASSUME PortalAssumption ==
  /\ Job \in [Request -> JobType]
  /\ Together \subseteq SUBSET Request
  /\ DOMAIN UsersAtFirst \subseteq User /\ UsersAtFirst \in [DOMAIN UsersAtFirst -> UserRow]
  /\ DOMAIN TenantsAtFirst \subseteq Tenant /\ TenantsAtFirst \in [DOMAIN TenantsAtFirst -> TenantRow]
  /\ DOMAIN TicketsAtFirst \subseteq Ticket /\ TicketsAtFirst \in [DOMAIN TicketsAtFirst -> TicketRow]
  /\ \A t \in DOMAIN TenantsAtFirst :
       /\ TenantsAtFirst[t].user \in DOMAIN UsersAtFirst \cup {NoUser}
       /\ \A s \in DOMAIN TenantsAtFirst \ {t} :   \* user_id is unique
            TenantsAtFirst[s].user = TenantsAtFirst[t].user => TenantsAtFirst[s].user = NoUser
  /\ \A k \in DOMAIN TicketsAtFirst : TicketsAtFirst[k].tenant \in DOMAIN TenantsAtFirst
  /\ PaidBy \in [DOMAIN PaidBy -> Tenant]
  /\ HasEmail \subseteq Person /\ MayCrash \in BOOLEAN
  /\ NoUser \notin User /\ NoTenant \notin Tenant /\ NoUnit \notin Unit /\ NoPerson \notin Person

\* Forms carry what their schemas ask for, and a uuid is made once.
MakesUser(x) == Job[x].kind \in {"createUser", "createTenant"}
ASSUME JobAssumption ==
  /\ \A x \in Request :
       /\ MakesUser(x) => Job[x].person \in Person /\ Job[x].user \in User \ DOMAIN UsersAtFirst
       /\ Job[x].kind = "createUser" => Job[x].role \in Role
       /\ Job[x].kind = "editUser" => Job[x].status \in UserStatus \cup {Same}
       /\ Job[x].kind = "createTenant" => Job[x].tenant \in Tenant \ DOMAIN TenantsAtFirst
       /\ Job[x].kind = "submit" => Job[x].ticket \in Ticket \ DOMAIN TicketsAtFirst
       /\ Job[x].kind = "update" => Job[x].status \in TicketStatus
  /\ \A x, y \in Request : x # y =>
       /\ MakesUser(x) /\ MakesUser(y) => Job[x].user # Job[y].user
       /\ Job[x].kind = "createTenant" /\ Job[y].kind = "createTenant" => Job[x].tenant # Job[y].tenant
       /\ Job[x].kind = "submit" /\ Job[y].kind = "submit" => Job[x].ticket # Job[y].ticket

VARIABLES
  users, tenants, tickets,   \* the committed tables
  issued,    \* session tokens: whose, and the role they had
  told,      \* told[k]: the status the last mail about ticket k gave
  shown,     \* pages and receipts served: to whom, and the tickets and payments on them
  at,        \* at[x]: the statement request x executes next
  who,       \* who[x]: the user x was let in as
  saw,       \* saw[x]: the row x read
  draft,     \* draft[x]: rows x wrote and has not committed
  muddled,   \* tickets with a mail that could not be right (not part of the program)
  lived      \* lived[t]: every unit t ever had (not part of the program)

vars == <<users, tenants, tickets, issued, told, shown, at, who, saw, draft, muddled, lived>>
tables == <<users, tenants, tickets>>

NoRows == [i \in {} |-> NoUser]
NoDraft == [users |-> NoRows, tenants |-> NoRows, tickets |-> NoRows]
Unseen == [person |-> NoPerson]

----------------------------------------------------------------------------
(* Helpers.                                                                *)

\* Table `old` with the rows of `new` written over it.
Over(new, old) ==
  [i \in DOMAIN new \cup DOMAIN old |-> IF i \in DOMAIN new THEN new[i] ELSE old[i]]

Others(x) == Request \ {x}
Goto(x, label) == at' = [at EXCEPT ![x] = label]
If(given, old) == IF given \in {Same, NoPerson, NoUser} THEN old ELSE given

\* RequireRole.
Allowed(kind) ==
  CASE kind \in {"createUser", "editUser", "createTenant"} -> {"ADMIN"}
    [] kind = "update" -> {"ADMIN", "ACCOUNTANT", "CARETAKER"}
    [] OTHER -> {"TENANT"}

First(kind) ==
  CASE kind = "createUser" -> "checkUser" [] kind = "editUser" -> "readUser"
    [] kind = "createTenant" -> "checkTenant" [] kind = "update" -> "readTicket"
    [] OTHER -> "profile"

\* The user rows there will be if x commits, and what others hold locked.
UsersOf(x) == Over(draft[x].users, users)
LockedUsers(x) == UNION {DOMAIN draft[y].users : y \in Others(x)}
LockedTenants(x) == UNION {DOMAIN draft[y].tenants : y \in Others(x)}
LockedTickets(x) == UNION {DOMAIN draft[y].tickets : y \in Others(x)}

\* Some other request has a user row of person p in hand, before or after.
PersonBusy(x, p) ==
  \/ \E y \in Others(x) : \E u \in DOMAIN draft[y].users : draft[y].users[u].person = p
  \/ \E u \in DOMAIN users \cap LockedUsers(x) : users[u].person = p

Forget(x) == saw' = [saw EXCEPT ![x] = Unseen]

CommitAll(x) ==
  /\ users' = Over(draft[x].users, users)
  /\ tenants' = Over(draft[x].tenants, tenants)
  /\ tickets' = Over(draft[x].tickets, tickets)
  /\ draft' = [draft EXCEPT ![x] = NoDraft]

\* A constraint raises, or the process dies: nothing pending survives.
Rollback(x, label) == Goto(x, label) /\ draft' = [draft EXCEPT ![x] = NoDraft] /\ Forget(x)

----------------------------------------------------------------------------
(* Sessions.                                                               *)

\* login_submit, for one who gives the right password: an access token.  (The
\* refresh token it gives too is one that no route takes.)
Login(u) ==
  /\ u \in DOMAIN users /\ users[u].status = "ACTIVE"
  /\ issued' = issued \cup {[user |-> u, role |-> users[u].role]}
  /\ UNCHANGED <<tables, told, shown, at, who, saw, draft, muddled, lived>>

\* get_current_user and RequireRole.
Entitled(token, kind) ==
  /\ token.user \in DOMAIN users /\ users[token.user].status = "ACTIVE"
  /\ users[token.user].role \in Allowed(kind)
Authorize(x) ==
  /\ at[x] = "auth"
  /\ \/ \E token \in issued :
          /\ Entitled(token, Job[x].kind)
          /\ who' = [who EXCEPT ![x] = token.user] /\ Goto(x, First(Job[x].kind))
     \/ Goto(x, "refused") /\ UNCHANGED who   \* no token, an expired one, or not entitled
  /\ UNCHANGED <<tables, issued, told, shown, saw, draft, muddled, lived>>

----------------------------------------------------------------------------
(* create_user, update_user and set_status, create_tenant.                 *)

ReadUser(x) ==
  /\ at[x] = "readUser"
  /\ IF Job[x].user \in DOMAIN users
     THEN saw' = [saw EXCEPT ![x] = users[Job[x].user]] /\ Goto(x, "checkUser")
     ELSE UNCHANGED saw /\ Goto(x, "refused")
  /\ UNCHANGED <<tables, issued, told, shown, who, draft, muddled, lived>>

\* `existing`.  create_tenant goes on without a login when there is a user.
CheckUser(x) ==
  LET j == Job[x]
      asks == j.kind # "editUser" \/ j.person \notin {NoPerson, saw[x].person}
      exists == \E u \in DOMAIN users : users[u].person = j.person /\ (j.kind = "editUser" => u # j.user)
  IN /\ at[x] = "checkUser"
     /\ Goto(x, IF ~(asks /\ exists) THEN "writeUser"
                ELSE IF j.kind = "createTenant" THEN "commit" ELSE "refused")
     /\ UNCHANGED <<tables, issued, told, shown, who, saw, draft, muddled, lived>>

\* The flush: the row with the columns that differ from what x read, and for
\* create_tenant the link to it.
NewUserWhole(x) ==   \* mutant: every column of the form is written
  LET j == Job[x] IN
  IF j.kind = "editUser"
  THEN [person |-> If(j.person, saw[x].person), role |-> If(j.role, saw[x].role),
        status |-> If(j.status, saw[x].status)]
  ELSE [person |-> j.person, status |-> "ACTIVE",
        role |-> IF j.kind = "createTenant" THEN "TENANT" ELSE j.role]
NewUser(x) ==
  LET j == Job[x]  old == users[j.user] IN
  IF j.kind = "editUser"
  THEN [person |-> IF If(j.person, saw[x].person) = saw[x].person THEN old.person ELSE j.person,
        role |-> IF If(j.role, saw[x].role) = saw[x].role THEN old.role ELSE j.role,
        status |-> IF If(j.status, saw[x].status) = saw[x].status THEN old.status ELSE j.status]
  ELSE [person |-> j.person, status |-> "ACTIVE",
        role |-> IF j.kind = "createTenant" THEN "TENANT" ELSE j.role]
Unchanged(x) ==
  /\ Job[x].kind = "editUser"
  /\ saw[x] = [person |-> If(Job[x].person, saw[x].person), role |-> If(Job[x].role, saw[x].role),
               status |-> If(Job[x].status, saw[x].status)]
NotLinked(x) == draft[x].tenants   \* mutant: the link is left for later
Linked(x) ==
  IF Job[x].kind # "createTenant" THEN draft[x].tenants
  ELSE [t \in DOMAIN draft[x].tenants |-> [draft[x].tenants[t] EXCEPT !.user = Job[x].user]]
WriteUser(x) ==
  LET j == Job[x] IN
  /\ at[x] = "writeUser"
  /\ IF Unchanged(x) THEN Goto(x, "commit") /\ UNCHANGED <<draft, saw>>
     ELSE /\ j.user \notin LockedUsers(x)
          /\ NewUser(x).person # saw[x].person => ~PersonBusy(x, NewUser(x).person)
          /\ IF \E u \in DOMAIN users \ {j.user} : users[u].person = NewUser(x).person
             THEN Rollback(x, "failed")
             ELSE /\ draft' = [draft EXCEPT ![x] =
                       [@ EXCEPT !.users = [u \in {j.user} |-> NewUser(x)], !.tenants = Linked(x)]]
                  /\ Goto(x, IF j.kind = "editUser" THEN "commit" ELSE "mail")
                  /\ UNCHANGED saw
  /\ UNCHANGED <<tables, issued, told, shown, who, muddled, lived>>

CheckTenant(x) ==
  /\ at[x] = "checkTenant"
  /\ Goto(x, IF \E t \in DOMAIN tenants : tenants[t].person = Job[x].person
             THEN "refused" ELSE "writeTenant")
  /\ UNCHANGED <<tables, issued, told, shown, who, saw, draft, muddled, lived>>

WriteTenant(x) ==
  LET j == Job[x] IN
  /\ at[x] = "writeTenant"
  /\ \A y \in Others(x) : \A t \in DOMAIN draft[y].tenants : draft[y].tenants[t].person # j.person
  /\ IF \E t \in DOMAIN tenants : tenants[t].person = j.person THEN Rollback(x, "failed")
     ELSE /\ draft' = [draft EXCEPT ![x].tenants =
               [t \in {j.tenant} |-> [person |-> j.person, user |-> NoUser, home |-> NoUnit]]]
          /\ Goto(x, IF j.login /\ j.person \in HasEmail THEN "checkUser" ELSE "commit")
          /\ UNCHANGED saw
  /\ UNCHANGED <<tables, issued, told, shown, who, muddled, lived>>

----------------------------------------------------------------------------
(* Maintenance requests, and receipts.                                     *)

\* _current_tenant; then create_request's test, list_requests, or a receipt.
ServeAll(x) == DOMAIN tickets   \* mutant: list_requests without a tenant
ServeOwn(x) == {k \in DOMAIN tickets : tickets[k].tenant = saw[x].tenant}
Profile(x) ==
  LET mine == {t \in DOMAIN tenants : tenants[t].user = who[x]} IN
  /\ at[x] = "profile"
  /\ IF mine = {} THEN Goto(x, "failed") /\ UNCHANGED saw
     ELSE \E t \in mine :
            /\ saw' = [saw EXCEPT ![x] = [person |-> NoPerson, tenant |-> t, home |-> tenants[t].home]]
            /\ Goto(x, IF Job[x].kind = "view" THEN "list"
                       ELSE IF Job[x].kind = "receipt" THEN "serve"
                       ELSE IF tenants[t].home = NoUnit THEN "refused" ELSE "insertTicket")
  /\ UNCHANGED <<tables, issued, told, shown, who, draft, muddled, lived>>

ListTickets(x) ==
  /\ at[x] = "list"
  /\ shown' = shown \cup {[user |-> who[x], tickets |-> ServeOwn(x), payments |-> {}]}
  /\ Goto(x, "done") /\ Forget(x)
  /\ UNCHANGED <<tables, issued, told, who, draft, muddled, lived>>

\* tenant_payment_receipt: the URL names a payment, of whatever tenant there is.
ServeReceipt(x) ==
  /\ at[x] = "serve"
  /\ \E p \in {q \in DOMAIN PaidBy : PaidBy[q] \in DOMAIN tenants} :
       IF PaidBy[p] = saw[x].tenant
       THEN /\ shown' = shown \cup {[user |-> who[x], tickets |-> {}, payments |-> {p}]}
            /\ Goto(x, "done")
       ELSE UNCHANGED shown /\ Goto(x, "refused")
  /\ Forget(x)
  /\ UNCHANGED <<tables, issued, told, who, draft, muddled, lived>>

InsertTicket(x) ==
  /\ at[x] = "insertTicket"
  /\ draft' = [draft EXCEPT ![x].tickets = [k \in {Job[x].ticket} |->
       [tenant |-> saw[x].tenant, unit |-> saw[x].home, status |-> "SUBMITTED", assignee |-> NoUser]]]
  /\ Goto(x, "commit")
  /\ UNCHANGED <<tables, issued, told, shown, who, saw, muddled, lived>>

\* update_request: the form sends every field; an empty assignee ("Unassigned")
\* is left out by the route.
ReadTicket(x) ==
  /\ at[x] = "readTicket"
  /\ IF Job[x].ticket \in DOMAIN tickets
     THEN saw' = [saw EXCEPT ![x] = tickets[Job[x].ticket]] /\ Goto(x, "writeTicket")
     ELSE UNCHANGED saw /\ Goto(x, "refused")
  /\ UNCHANGED <<tables, issued, told, shown, who, draft, muddled, lived>>

NewTicket(x) ==
  LET j == Job[x]  old == tickets[j.ticket]  a == If(j.assignee, saw[x].assignee) IN
  [old EXCEPT !.status = IF j.status = saw[x].status THEN @ ELSE j.status,
              !.assignee = IF a = saw[x].assignee THEN @ ELSE a]
AfterTicket(x) == IF tenants[saw[x].tenant].person \in HasEmail THEN "mail" ELSE "commit"
WriteTicketUnlocked(x) ==   \* mutant: sent before the row is held
  LET j == Job[x] IN
  /\ at[x] = "writeTicket"
  /\ IF j.status = saw[x].status /\ If(j.assignee, saw[x].assignee) = saw[x].assignee THEN UNCHANGED draft
     ELSE draft' = [draft EXCEPT ![x].tickets = [k \in {j.ticket} |-> NewTicket(x)]]
  /\ Goto(x, AfterTicket(x))
  /\ UNCHANGED <<tables, issued, told, shown, who, saw, muddled, lived>>
WriteTicket(x) ==
  LET j == Job[x] IN
  /\ at[x] = "writeTicket"
  /\ IF j.status = saw[x].status /\ If(j.assignee, saw[x].assignee) = saw[x].assignee THEN UNCHANGED draft
     ELSE /\ j.ticket \notin LockedTickets(x)
          /\ draft' = [draft EXCEPT ![x].tickets = [k \in {j.ticket} |-> NewTicket(x)]]
  /\ Goto(x, AfterTicket(x))
  /\ UNCHANGED <<tables, issued, told, shown, who, saw, muddled, lived>>

----------------------------------------------------------------------------
(* Mails and the end of a request.                                         *)

\* The mail of x gives a status that x's commit will not leave, or that somebody
\* is about to change: x wrote no status, or a row changed since it read it.
Untrue(x) ==
  LET k == Job[x].ticket  mine == k \in DOMAIN draft[x].tickets IN
  \/ Over(draft[x].tickets, tickets)[k].status # Job[x].status
  \/ ~mine /\ k \in LockedTickets(x)

\* _dispatch up to its commit: SMTP takes the mail, or it does not.
Send(x) ==
  /\ at[x] = "mail"
  /\ IF Job[x].kind # "update" THEN UNCHANGED <<told, muddled>>
     ELSE LET k == Job[x].ticket IN
          \/ /\ told' = [told EXCEPT ![k] = Job[x].status]
             /\ muddled' = IF Untrue(x) THEN muddled \cup {k} ELSE muddled
          \/ told' = told /\ muddled' = muddled \cup {k}
  /\ Goto(x, "dispatch")
  /\ UNCHANGED <<tables, issued, shown, who, saw, draft, lived>>

Dispatch(x) ==
  /\ at[x] = "dispatch"
  /\ CommitAll(x) /\ Goto(x, "commit")
  /\ UNCHANGED <<issued, told, shown, who, saw, muddled, lived>>

\* log_activity and the route's commit.
Commit(x) ==
  /\ at[x] = "commit"
  /\ CommitAll(x) /\ Goto(x, "done") /\ Forget(x)
  /\ UNCHANGED <<issued, told, shown, who, muddled, lived>>

Crash(x) ==
  /\ MayCrash /\ at[x] \notin {"absent", "auth", "refused", "failed", "done", "crashed"}
  /\ Rollback(x, "crashed")
  /\ muddled' = IF at[x] = "dispatch" /\ Job[x].kind = "update" THEN muddled \cup {Job[x].ticket} ELSE muddled
  /\ UNCHANGED <<tables, issued, told, shown, who, lived>>

\* Leasing gives tenant t another unit, or none (bound: none it had before).
Rehouse(t, u) ==
  /\ t \in DOMAIN tenants /\ u \notin lived[t]
  /\ \A y \in Request : t \notin DOMAIN draft[y].tenants
  /\ tenants' = [tenants EXCEPT ![t].home = u]
  /\ lived' = [lived EXCEPT ![t] = @ \cup {u}]
  /\ UNCHANGED <<users, tickets, issued, told, shown, at, who, saw, draft, muddled>>

----------------------------------------------------------------------------
Init ==
  /\ users = UsersAtFirst /\ tenants = TenantsAtFirst /\ tickets = TicketsAtFirst
  /\ issued = {[user |-> u, role |-> users[u].role] :
                 u \in {v \in DOMAIN users : users[v].status = "ACTIVE"}}
  /\ told = [k \in Ticket |-> "NONE"] /\ shown = {} /\ muddled = {}
  /\ \E arriving \in Together :
       at = [x \in Request |-> IF x \in arriving THEN "auth" ELSE "absent"]
  /\ who = [x \in Request |-> NoUser] /\ saw = [x \in Request |-> Unseen]
  /\ draft = [x \in Request |-> NoDraft]
  /\ lived = [t \in Tenant |-> IF t \in DOMAIN tenants THEN {tenants[t].home} ELSE {}]

Step(x) ==
  \/ Authorize(x) \/ ReadUser(x) \/ CheckUser(x) \/ WriteUser(x)
  \/ CheckTenant(x) \/ WriteTenant(x) \/ Profile(x) \/ ListTickets(x)
  \/ ServeReceipt(x) \/ InsertTicket(x) \/ ReadTicket(x) \/ WriteTicket(x)
  \/ Send(x) \/ Dispatch(x) \/ Commit(x)

Next ==
  \/ \E x \in Request : Step(x) \/ Crash(x)
  \/ \E u \in User : Login(u)
  \/ \E t \in Tenant, u \in Unit \cup {NoUnit} : Rehouse(t, u)

Spec == Init /\ [][Next]_vars

----------------------------------------------------------------------------
(* Properties.                                                             *)

\* Tables, drafts and links keep their types; what is linked exists.
TypeOK ==
  /\ DOMAIN users \subseteq User /\ users \in [DOMAIN users -> UserRow]
  /\ DOMAIN tenants \subseteq Tenant /\ tenants \in [DOMAIN tenants -> TenantRow]
  /\ DOMAIN tickets \subseteq Ticket /\ tickets \in [DOMAIN tickets -> TicketRow]
  /\ \A t \in DOMAIN tenants : tenants[t].user \in DOMAIN users \cup {NoUser}
  /\ \A k \in DOMAIN tickets : tickets[k].tenant \in DOMAIN tenants
  /\ who \in [Request -> User \cup {NoUser}]

\* Edits of one user that overlap merge (user_service.py:64-100): a column changes
\* only to what the committing edit's form says, and only if that edit had read
\* something else there.  The form sends every field, and still an edit that read
\* the row before a suspension or a change of role does not take it back.
EditsMerge ==
  [][\A u \in DOMAIN users : \A c \in DOMAIN users[u] : users'[u][c] # users[u][c] =>
       \E x \in Request :
         /\ Commit(x) /\ Job[x].kind = "editUser" /\ Job[x].user = u
         /\ users'[u][c] = Job[x][c] /\ saw[x][c] # Job[x][c]]_vars

\* A login made with a tenant is that tenant's, wherever a mail commits and
\* whenever the process dies; and no login is linked to two tenants.
LoginIsLinked ==
  /\ \A x \in Request :
       Job[x].kind = "createTenant" /\ Job[x].user \in DOMAIN users =>
         Job[x].tenant \in DOMAIN tenants /\ tenants[Job[x].tenant].user = Job[x].user
  /\ \A s, t \in DOMAIN tenants : tenants[s].user = tenants[t].user /\ s # t => tenants[s].user = NoUser

\* What a tenant's page lists, the receipts it gives, and what is submitted
\* through it, is of the tenant linked to that login, and submitted for a unit
\* this tenant has or had; also when the login has no tenant, loses its role or
\* the tenant moves meanwhile.
OwnOnly ==
  /\ \A page \in shown :
       /\ \A k \in page.tickets : tenants[tickets[k].tenant].user = page.user
       /\ \A p \in page.payments : tenants[PaidBy[p]].user = page.user
  /\ \A x \in Request :
       Job[x].kind = "submit" /\ Job[x].ticket \in DOMAIN tickets =>
         LET k == tickets[Job[x].ticket] IN
         tenants[k.tenant].user = who[x] /\ k.unit \in lived[k.tenant] /\ k.unit # NoUnit

\* The last mail about a maintenance request gives the status on the books, once
\* the commit that follows it is through: mails of updates at the same time go
\* out in the order of their commits.  Not so if a mail or its commit failed, or
\* if it told a status its own update left alone while another changed it.
MailTellsStatus ==
  \A k \in DOMAIN tickets :
    \/ told[k] \in {"NONE", tickets[k].status} \/ k \in muddled
    \/ \E x \in Request : at[x] = "dispatch" /\ Job[x].kind = "update" /\ Job[x].ticket = k
=============================================================================
