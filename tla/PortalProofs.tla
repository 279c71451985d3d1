---------------------------- MODULE PortalProofs ----------------------------
(***************************************************************************)
(* Proofs about Portal, for any users, tenants, requests and crashes.      *)
(*                                                                         *)
(* OwnOnly and LoginIsLinked are about committed rows, but what makes them *)
(* true is in the transactions that are still open: IInv says of every     *)
(* request how far it is, what its draft may hold by then and what its     *)
(* draft and its last reads have to do with the tables, and of the tables  *)
(* that links are unique and lead somewhere.  Mails adds, for the mails    *)
(* about maintenance requests, who holds which row and what it was told;   *)
(* Edits adds, for the edits of users, whose columns a transaction holds   *)
(* and that each was read as something else before.                        *)
(***************************************************************************)
EXTENDS Portal, TLAPS

U(x) == Job[x].user
T(x) == Job[x].tenant
K(x) == Job[x].ticket

----------------------------------------------------------------------------
(* The inductive invariant.                                                *)

Labels == {"absent", "auth", "readUser", "checkUser", "writeUser", "checkTenant", "writeTenant",
           "profile", "list", "serve", "insertTicket", "readTicket", "writeTicket",
           "mail", "dispatch", "commit", "refused", "failed", "done", "crashed"}

\* A table with rows of V under keys of S.
Table(f, S, V) == DOMAIN f \subseteq S /\ f \in [DOMAIN f -> V]
DraftOK(d) ==
  /\ d = [users |-> d.users, tenants |-> d.tenants, tickets |-> d.tickets]
  /\ Table(d.users, User, UserRow) /\ Table(d.tenants, Tenant, TenantRow)
  /\ Table(d.tickets, Ticket, TicketRow)

Types ==
  /\ Table(users, User, UserRow) /\ Table(tenants, Tenant, TenantRow)
  /\ Table(tickets, Ticket, TicketRow)
  /\ at \in [Request -> Labels] /\ who \in [Request -> User \cup {NoUser}]
  /\ DOMAIN saw = Request
  /\ DOMAIN draft = Request /\ \A x \in Request : DraftOK(draft[x])
  /\ DOMAIN lived = Tenant

\* The tables: links lead to rows that exist, no user is two tenants, and a
\* tenant's unit is one it has had.
Links ==
  /\ \A t \in DOMAIN tenants :
       /\ tenants[t].user \in DOMAIN users \cup {NoUser}
       /\ tenants[t].home \in lived[t] \cup {NoUnit}
       /\ \A s \in DOMAIN tenants : tenants[s].user = tenants[t].user /\ s # t => tenants[s].user = NoUser
  /\ \A k \in DOMAIN tickets : tickets[k].tenant \in DOMAIN tenants

\* Tenant t is the one linked to user u.
TenantOf(t, u) == t \in DOMAIN tenants /\ tenants[t].user = u

\* What has been served was its reader's.
PageOK(page) ==
  /\ \A k \in page.tickets : k \in DOMAIN tickets /\ TenantOf(tickets[k].tenant, page.user)
  /\ \A p \in page.payments : TenantOf(PaidBy[p], page.user)

\* The labels a request of each kind comes to, and when its draft is empty.
OnTrack(x) ==
  LET k == Job[x].kind  l == at[x] IN
  /\ l = "readUser" => k = "editUser"
  /\ l \in {"checkUser", "writeUser"} => k \in {"createUser", "editUser", "createTenant"}
  /\ l \in {"checkTenant", "writeTenant"} => k = "createTenant"
  /\ l = "profile" => k \in {"submit", "view", "receipt"}
  /\ l = "list" => k = "view"
  /\ l = "serve" => k = "receipt"
  /\ l = "insertTicket" => k = "submit"
  /\ l \in {"readTicket", "writeTicket"} => k = "update"
  /\ l \in {"absent", "auth", "readUser", "checkTenant", "writeTenant", "profile", "list", "serve",
            "insertTicket", "readTicket", "writeTicket"}
       \/ (l \in {"checkUser", "writeUser"} /\ k # "createTenant")
     => draft[x] = NoDraft

\* A user row in x's draft is a new one of x's own, or one to be edited.
DraftUser(x) ==
  /\ DOMAIN draft[x].users \subseteq {U(x)}
  /\ DOMAIN draft[x].users # {} => MakesUser(x) \/ Job[x].kind = "editUser"
  /\ MakesUser(x)
       /\ (\/ U(x) \in DOMAIN draft[x].users
           \/ at[x] \in {"absent", "auth", "checkTenant", "writeTenant", "checkUser", "writeUser"})
     => U(x) \notin DOMAIN users
  /\ Job[x].kind = "editUser"
       /\ (at[x] \in {"checkUser", "writeUser"} \/ U(x) \in DOMAIN draft[x].users)
     => U(x) \in DOMAIN users

\* A tenant row in x's draft is new, and linked exactly if the login is there.
DraftTenant(x) ==
  /\ DOMAIN draft[x].tenants \subseteq {T(x)}
  /\ DOMAIN draft[x].tenants # {} => Job[x].kind = "createTenant"
  /\ Job[x].kind = "createTenant" =>
       /\ at[x] \in {"absent", "auth", "checkTenant", "writeTenant"}
            \/ T(x) \in DOMAIN draft[x].tenants => T(x) \notin DOMAIN tenants
       /\ at[x] \in {"checkUser", "writeUser"} =>
            T(x) \in DOMAIN draft[x].tenants /\ U(x) \notin DOMAIN draft[x].users
       /\ T(x) \in DOMAIN draft[x].tenants => draft[x].tenants[T(x)].home = NoUnit
       /\ U(x) \in DOMAIN draft[x].users =>
            T(x) \in DOMAIN draft[x].tenants /\ draft[x].tenants[T(x)].user = U(x)
       /\ T(x) \in DOMAIN draft[x].tenants /\ U(x) \notin DOMAIN draft[x].users =>
            draft[x].tenants[T(x)].user = NoUser
       /\ U(x) \in DOMAIN users => TenantOf(T(x), U(x))

\* A row as x may submit it.
Own(x, tenant, unit) ==
  TenantOf(tenant, who[x]) /\ unit \in lived[tenant] /\ unit \in Unit

\* A request in x's draft is x's own new one, or one that is updated.
DraftTicket(x) ==
  /\ DOMAIN draft[x].tickets \subseteq {K(x)}
  /\ DOMAIN draft[x].tickets # {} => Job[x].kind \in {"submit", "update"}
  /\ Job[x].kind = "submit" =>
       /\ at[x] \in {"absent", "auth", "profile", "insertTicket"}
            \/ K(x) \in DOMAIN draft[x].tickets => K(x) \notin DOMAIN tickets
       /\ at[x] = "insertTicket" => Own(x, saw[x].tenant, saw[x].home)
       /\ K(x) \in DOMAIN draft[x].tickets =>
            Own(x, draft[x].tickets[K(x)].tenant, draft[x].tickets[K(x)].unit)
       /\ K(x) \in DOMAIN tickets => Own(x, tickets[K(x)].tenant, tickets[K(x)].unit)
  /\ Job[x].kind = "update" =>
       /\ at[x] = "writeTicket" \/ K(x) \in DOMAIN draft[x].tickets => K(x) \in DOMAIN tickets
       /\ K(x) \in DOMAIN draft[x].tickets =>
            /\ draft[x].tickets[K(x)].tenant = tickets[K(x)].tenant
            /\ draft[x].tickets[K(x)].unit = tickets[K(x)].unit
  /\ at[x] \in {"serve", "list"} => TenantOf(saw[x].tenant, who[x])

RequestOK(x) == OnTrack(x) /\ DraftUser(x) /\ DraftTenant(x) /\ DraftTicket(x)

IInv ==
  /\ Types /\ Links
  /\ \A page \in shown : PageOK(page)
  /\ \A x \in Request : RequestOK(x)
----------------------------------------------------------------------------
(* What the steps have in common.                                          *)

\* The tables grow by rows of the requests of S at most, and no row changes
\* whose it is.
Grows(S) ==
  /\ DOMAIN users \subseteq DOMAIN users' /\ DOMAIN tenants \subseteq DOMAIN tenants'
  /\ DOMAIN tickets \subseteq DOMAIN tickets'
  /\ \A u \in DOMAIN users' \ DOMAIN users : \E x \in S : MakesUser(x) /\ u = U(x)
  /\ \A t \in DOMAIN tenants' \ DOMAIN tenants : \E x \in S : Job[x].kind = "createTenant" /\ t = T(x)
  /\ \A k \in DOMAIN tickets' \ DOMAIN tickets : \E x \in S : Job[x].kind = "submit" /\ k = K(x)
  /\ \A t \in DOMAIN tenants : tenants'[t].user = tenants[t].user /\ lived[t] \subseteq lived'[t]
  /\ \A k \in DOMAIN tickets :
       tickets'[k].tenant = tickets[k].tenant /\ tickets'[k].unit = tickets[k].unit

Untouched(y) == at'[y] = at[y] /\ who'[y] = who[y] /\ saw'[y] = saw[y] /\ draft'[y] = draft[y]

LEMMA Distinct ==
  ASSUME NEW x \in Request, NEW y \in Request, x # y
  PROVE  /\ MakesUser(x) /\ MakesUser(y) => U(x) # U(y)
         /\ Job[x].kind = "createTenant" /\ Job[y].kind = "createTenant" => T(x) # T(y)
         /\ Job[x].kind = "submit" /\ Job[y].kind = "submit" => K(x) # K(y)
  BY JobAssumption DEF U, T, K

\* A link outlives whatever the others do.
LEMMA LinksStay ==
  ASSUME NEW S, Grows(S), NEW t, NEW u, TenantOf(t, u)
  PROVE  TenantOf(t, u)'
  BY DEF Grows, TenantOf

LEMMA OwnStays ==
  ASSUME NEW S, Grows(S), NEW y \in Request, who'[y] = who[y], NEW t, NEW h, Own(y, t, h)
  PROVE  Own(y, t, h)'
  BY LinksStay DEF Grows, Own, TenantOf

\* What holds of a request that takes no part in a step still holds after it.
LEMMA OthersKeep ==
  ASSUME IInv, NEW S \in SUBSET Request, Grows(S), NEW y \in Request \ S, Untouched(y)
  PROVE  RequestOK(y)'
<1>0. RequestOK(y)
  BY DEF IInv
<1>1. OnTrack(y)'
  BY <1>0 DEF RequestOK, OnTrack, Untouched
<1>2. MakesUser(y) => (U(y) \in DOMAIN users' <=> U(y) \in DOMAIN users)
  BY Distinct DEF Grows
<1>3. Job[y].kind = "createTenant" => (T(y) \in DOMAIN tenants' <=> T(y) \in DOMAIN tenants)
  BY Distinct DEF Grows
<1>4. Job[y].kind = "submit" => (K(y) \in DOMAIN tickets' <=> K(y) \in DOMAIN tickets)
  BY Distinct DEF Grows
<1>5. DraftUser(y)'
  BY <1>0, <1>2 DEF RequestOK, DraftUser, Untouched, Grows, MakesUser, U
<1>6. DraftTenant(y)'
  <2>1. Job[y].kind = "createTenant" /\ U(y) \in DOMAIN users => TenantOf(T(y), U(y))'
    BY <1>0, LinksStay DEF RequestOK, DraftTenant
  <2>2. Job[y].kind = "createTenant" => MakesUser(y)
    BY DEF MakesUser
  <2> QED BY <1>0, <1>2, <1>3, <2>1, <2>2 DEF RequestOK, DraftTenant, Untouched, U, T
<1>7. DraftTicket(y)'
  <2>1. ASSUME Job[y].kind = "submit", at[y] = "insertTicket"
        PROVE  Own(y, saw[y].tenant, saw[y].home)'
    BY <1>0, <2>1, OwnStays DEF RequestOK, DraftTicket, Untouched
  <2>2. ASSUME Job[y].kind = "submit", K(y) \in DOMAIN draft[y].tickets
        PROVE  Own(y, draft[y].tickets[K(y)].tenant, draft[y].tickets[K(y)].unit)'
    BY <1>0, <2>2, OwnStays DEF RequestOK, DraftTicket, Untouched, K
  <2>3. ASSUME Job[y].kind = "submit", K(y) \in DOMAIN tickets
        PROVE  Own(y, tickets[K(y)].tenant, tickets[K(y)].unit)'
    <3>1. Own(y, tickets[K(y)].tenant, tickets[K(y)].unit)
      BY <1>0, <2>3 DEF RequestOK, DraftTicket
    <3>2. tickets'[K(y)].tenant = tickets[K(y)].tenant /\ tickets'[K(y)].unit = tickets[K(y)].unit
      BY <2>3 DEF Grows
    <3>3. \A t, h : Own(y, t, h) => Own(y, t, h)'
      BY OwnStays DEF Untouched
    <3> QED BY <3>1, <3>2, <3>3 DEF Own, K, TenantOf
  <2>4. at[y] \in {"serve", "list"} => TenantOf(saw[y].tenant, who[y])'
    <3>1. \A t, u : TenantOf(t, u) => TenantOf(t, u)'
      BY LinksStay
    <3> QED BY <1>0, <3>1 DEF RequestOK, DraftTicket, Untouched, TenantOf
  <2> QED BY <1>0, <1>4, <2>1, <2>2, <2>3, <2>4
          DEF RequestOK, DraftTicket, Untouched, K, Grows, TenantOf
<1> QED BY <1>1, <1>5, <1>6, <1>7 DEF RequestOK
\* A step of one request that leaves the tables alone.
LEMMA LocalStep ==
  ASSUME IInv, NEW x \in Request, UNCHANGED <<users, tenants, tickets, lived>>,
         \A y \in Request \ {x} : Untouched(y),
         at' \in [Request -> Labels], who' \in [Request -> User \cup {NoUser}],
         DOMAIN saw' = Request, DOMAIN draft' = Request, DraftOK(draft'[x]),
         \A page \in shown' : PageOK(page), RequestOK(x)'
  PROVE  IInv'
<1>1. Types'
  <2>1. \A y \in Request : DraftOK(draft'[y])
    BY DEF IInv, Types, Untouched
  <2> QED BY <2>1 DEF IInv, Types, Table
<1>2. Links'
  BY DEF IInv, Links
<1>3. \A page \in shown' : PageOK(page)'
  BY DEF PageOK, TenantOf
<1>4. Grows({})
  BY DEF Grows
<1>5. \A y \in Request \ {x} : RequestOK(y)'
  BY <1>4, OthersKeep
<1> QED BY <1>1, <1>2, <1>3, <1>5 DEF IInv

LEMMA NoDraftFacts ==
  /\ DraftOK(NoDraft)
  /\ DOMAIN NoDraft.users = {} /\ DOMAIN NoDraft.tenants = {} /\ DOMAIN NoDraft.tickets = {}
  BY DEF NoDraft, NoRows, DraftOK, Table

\* Labels that say nothing of the draft or of what was read.
Loose == {"mail", "dispatch", "commit", "refused", "failed", "done", "crashed"}

LEMMA LooseIsOK ==
  ASSUME IInv, NEW x \in Request, UNCHANGED <<users, tenants, tickets, lived, who>>,
         at'[x] \in Loose, draft'[x] \in {draft[x], NoDraft}
  PROVE  RequestOK(x)'
<1>0. RequestOK(x)
  BY DEF IInv
<1>1. OnTrack(x)'
  BY DEF OnTrack, Loose
<1>2. DraftUser(x)'
  BY <1>0, NoDraftFacts DEF RequestOK, DraftUser, Loose, MakesUser, U
<1>3. DraftTenant(x)'
  BY <1>0, NoDraftFacts DEF RequestOK, DraftTenant, Loose, TenantOf, U, T
<1>4. DraftTicket(x)'
  BY <1>0, NoDraftFacts DEF RequestOK, DraftTicket, Loose, TenantOf, Own, K
<1> QED BY <1>1, <1>2, <1>3, <1>4 DEF RequestOK

\* Steps that only read and go on.
Reads(x) ==
  /\ \E l \in Labels : Goto(x, l)
  /\ saw' = saw \/ \E v : saw' = [saw EXCEPT ![x] = v]
  /\ UNCHANGED <<users, tenants, tickets, lived, who, draft>>

LEMMA ReadsKeep ==
  ASSUME IInv, NEW x \in Request, Reads(x), RequestOK(x)', \A page \in shown' : PageOK(page)
  PROVE  IInv'
<1>1. at' \in [Request -> Labels] /\ \A y \in Request \ {x} : at'[y] = at[y]
  BY DEF Reads, Goto, IInv, Types
<1>2. DOMAIN saw' = Request /\ \A y \in Request \ {x} : saw'[y] = saw[y]
  BY DEF Reads, IInv, Types
<1>3. UNCHANGED <<users, tenants, tickets, lived, who, draft>>
  BY DEF Reads
<1>4. \A y \in Request \ {x} : Untouched(y)
  BY <1>1, <1>2, <1>3 DEF Untouched
<1>5. DraftOK(draft'[x]) /\ DOMAIN draft' = Request /\ who' \in [Request -> User \cup {NoUser}]
  BY <1>3 DEF IInv, Types
<1> QED BY <1>1, <1>2, <1>3, <1>4, <1>5, LocalStep

\* Rollback, whatever the request had in hand.
LEMMA RollbackKeeps ==
  ASSUME IInv, NEW x \in Request, NEW l \in Loose, Rollback(x, l),
         UNCHANGED <<users, tenants, tickets, lived, who, shown>>
  PROVE  IInv'
<1>1. /\ at' \in [Request -> Labels] /\ \A y \in Request \ {x} : at'[y] = at[y]
      /\ at'[x] = l
  BY DEF Rollback, Goto, IInv, Types, Loose, Labels
<1>2. DOMAIN saw' = Request /\ \A y \in Request \ {x} : saw'[y] = saw[y]
  BY DEF Rollback, Forget, IInv, Types
<1>3. /\ DOMAIN draft' = Request /\ draft'[x] = NoDraft
      /\ \A y \in Request \ {x} : draft'[y] = draft[y]
  BY DEF Rollback, IInv, Types
<1>4. \A y \in Request \ {x} : Untouched(y)
  BY <1>1, <1>2, <1>3 DEF Untouched
<1>5. RequestOK(x)'
  BY <1>1, <1>3, LooseIsOK
<1> QED BY <1>1, <1>2, <1>3, <1>4, <1>5, NoDraftFacts, LocalStep DEF IInv, Types
----------------------------------------------------------------------------
(* Every step keeps the invariant: steps that only read.                   *)

LEMMA AuthorizeKeeps ==
  ASSUME IInv, NEW x \in Request, Authorize(x)
  PROVE  IInv'
<1>0. /\ at[x] = "auth" /\ UNCHANGED <<users, tenants, tickets, lived, shown, saw, draft>>
      /\ RequestOK(x) /\ \A page \in shown' : PageOK(page)
      /\ DOMAIN saw' = Request /\ DOMAIN draft' = Request /\ DraftOK(draft'[x])
  BY DEF Authorize, IInv, Types, tables
<1>1. /\ DOMAIN draft[x].users = {} /\ DOMAIN draft[x].tenants = {} /\ DOMAIN draft[x].tickets = {}
      /\ draft[x] = NoDraft
  BY <1>0, NoDraftFacts DEF RequestOK, OnTrack
<1>2. Job[x].kind \in Kind
  BY PortalAssumption DEF JobType
<1>3. CASE Goto(x, "refused") /\ UNCHANGED who
  <2>1. Reads(x)
    BY <1>0, <1>3 DEF Reads, Labels
  <2>2. at'[x] \in Loose
    BY <1>3 DEF Goto, IInv, Types, Loose
  <2> QED BY <1>0, <1>3, <2>1, <2>2, LooseIsOK, ReadsKeep
<1>4. ASSUME NEW token \in issued, Entitled(token, Job[x].kind),
             who' = [who EXCEPT ![x] = token.user], Goto(x, First(Job[x].kind))
      PROVE  IInv'
  <2>1. First(Job[x].kind) \in {"checkUser", "readUser", "checkTenant", "readTicket", "profile"}
    BY DEF First
  <2>2. /\ at' \in [Request -> Labels] /\ at'[x] = First(Job[x].kind)
        /\ \A y \in Request \ {x} : at'[y] = at[y]
    BY <1>4, <2>1 DEF Goto, IInv, Types, Labels
  <2>3. /\ who' \in [Request -> User \cup {NoUser}]
        /\ \A y \in Request \ {x} : who'[y] = who[y]
    BY <1>4 DEF Entitled, IInv, Types, Table
  <2>4. \A y \in Request \ {x} : Untouched(y)
    BY <1>0, <2>2, <2>3 DEF Untouched
  <2>5. OnTrack(x)'
    BY <1>0, <1>1, <1>2, <2>2 DEF OnTrack, First, Kind
  <2>6. DraftUser(x)'
    BY <1>0, <1>1, <1>2, <2>2 DEF RequestOK, DraftUser, First, Kind, MakesUser, U
  <2>7. DraftTenant(x)'
    BY <1>0, <1>1, <1>2, <2>2 DEF RequestOK, DraftTenant, First, Kind, TenantOf, T, U
  <2>8. DraftTicket(x)'
    BY <1>0, <1>1, <1>2, <2>2 DEF RequestOK, DraftTicket, First, Kind, K
  <2> QED BY <1>0, <2>2, <2>3, <2>4, <2>5, <2>6, <2>7, <2>8, LocalStep DEF RequestOK
<1> QED BY <1>3, <1>4 DEF Authorize

LEMMA ReadUserKeeps ==
  ASSUME IInv, NEW x \in Request, ReadUser(x)
  PROVE  IInv'
<1>0. /\ at[x] = "readUser" /\ UNCHANGED <<users, tenants, tickets, lived, who, draft>>
      /\ RequestOK(x) /\ \A page \in shown' : PageOK(page)
  BY DEF ReadUser, IInv, tables
<1>1. Reads(x)
  BY <1>0 DEF ReadUser, Reads, Labels
<1>2. at'[x] = IF U(x) \in DOMAIN users THEN "checkUser" ELSE "refused"
  BY DEF ReadUser, Goto, IInv, Types, U
<1>3. RequestOK(x)'
  <2>1. CASE U(x) \notin DOMAIN users
    BY <1>0, <1>2, <2>1, LooseIsOK DEF Loose
  <2>2. CASE U(x) \in DOMAIN users
    <3>1. Job[x].kind = "editUser"
      BY <1>0 DEF RequestOK, OnTrack
    <3> QED BY <1>0, <1>2, <2>2, <3>1
            DEF RequestOK, OnTrack, DraftUser, DraftTenant, DraftTicket, MakesUser, TenantOf, Own, U, T, K
  <2> QED BY <2>1, <2>2
<1> QED BY <1>0, <1>1, <1>3, ReadsKeep

LEMMA CheckUserKeeps ==
  ASSUME IInv, NEW x \in Request, CheckUser(x)
  PROVE  IInv'
<1>0. /\ at[x] = "checkUser" /\ UNCHANGED <<users, tenants, tickets, lived, who, draft>>
      /\ RequestOK(x) /\ \A page \in shown' : PageOK(page)
  BY DEF CheckUser, IInv, tables
<1>1. Reads(x) /\ at'[x] \in {"writeUser", "commit", "refused"}
  BY <1>0 DEF CheckUser, Reads, Labels, Goto, IInv, Types
<1>2. RequestOK(x)'
  <2>1. CASE at'[x] \in Loose
    BY <1>0, <2>1, LooseIsOK
  <2>2. CASE at'[x] = "writeUser"
    BY <1>0, <2>2
       DEF RequestOK, OnTrack, DraftUser, DraftTenant, DraftTicket, MakesUser, TenantOf, Own, U, T, K
  <2> QED BY <1>1, <2>1, <2>2 DEF Loose
<1> QED BY <1>0, <1>1, <1>2, ReadsKeep

LEMMA CheckTenantKeeps ==
  ASSUME IInv, NEW x \in Request, CheckTenant(x)
  PROVE  IInv'
<1>0. /\ at[x] = "checkTenant" /\ UNCHANGED <<users, tenants, tickets, lived, who, draft>>
      /\ RequestOK(x) /\ \A page \in shown' : PageOK(page)
  BY DEF CheckTenant, IInv, tables
<1>1. Reads(x) /\ at'[x] \in {"writeTenant", "refused"}
  BY <1>0 DEF CheckTenant, Reads, Labels, Goto, IInv, Types
<1>2. RequestOK(x)'
  <2>1. CASE at'[x] \in Loose
    BY <1>0, <2>1, LooseIsOK
  <2>2. CASE at'[x] = "writeTenant"
    BY <1>0, <2>2
       DEF RequestOK, OnTrack, DraftUser, DraftTenant, DraftTicket, MakesUser, TenantOf, Own, U, T, K
  <2> QED BY <1>1, <2>1, <2>2 DEF Loose
<1> QED BY <1>0, <1>1, <1>2, ReadsKeep

LEMMA ReadTicketKeeps ==
  ASSUME IInv, NEW x \in Request, ReadTicket(x)
  PROVE  IInv'
<1>0. /\ at[x] = "readTicket" /\ UNCHANGED <<users, tenants, tickets, lived, who, draft>>
      /\ RequestOK(x) /\ \A page \in shown' : PageOK(page)
  BY DEF ReadTicket, IInv, tables
<1>1. Reads(x)
  BY <1>0 DEF ReadTicket, Reads, Labels
<1>2. at'[x] = IF K(x) \in DOMAIN tickets THEN "writeTicket" ELSE "refused"
  BY DEF ReadTicket, Goto, IInv, Types, K
<1>3. RequestOK(x)'
  <2>1. CASE K(x) \notin DOMAIN tickets
    BY <1>0, <1>2, <2>1, LooseIsOK DEF Loose
  <2>2. CASE K(x) \in DOMAIN tickets
    <3>1. Job[x].kind = "update"
      BY <1>0 DEF RequestOK, OnTrack
    <3> QED BY <1>0, <1>2, <2>2, <3>1
            DEF RequestOK, OnTrack, DraftUser, DraftTenant, DraftTicket, MakesUser, TenantOf, Own, U, T, K
  <2> QED BY <2>1, <2>2
<1> QED BY <1>0, <1>1, <1>3, ReadsKeep

LEMMA SendKeeps ==
  ASSUME IInv, NEW x \in Request, Send(x)
  PROVE  IInv'
<1>0. /\ UNCHANGED <<users, tenants, tickets, lived, who, draft>> /\ saw' = saw
      /\ Goto(x, "dispatch") /\ \A page \in shown' : PageOK(page)
  BY DEF Send, IInv, tables
<1>1. Reads(x)
  BY <1>0 DEF Reads, Labels
<1>2. at'[x] \in Loose
  BY <1>0 DEF Goto, IInv, Types, Loose
<1> QED BY <1>0, <1>1, <1>2, LooseIsOK, ReadsKeep

\* _current_tenant finds the tenant of the user who was let in.
LEMMA ProfileKeeps ==
  ASSUME IInv, NEW x \in Request, Profile(x)
  PROVE  IInv'
<1>0. /\ at[x] = "profile" /\ UNCHANGED <<users, tenants, tickets, lived, who, draft>>
      /\ RequestOK(x) /\ \A page \in shown' : PageOK(page)
      /\ Job[x].kind \in {"submit", "view", "receipt"}
  BY DEF Profile, IInv, RequestOK, OnTrack, tables
<1>1. CASE Goto(x, "failed") /\ UNCHANGED saw
  <2>1. Reads(x) /\ at'[x] \in Loose
    BY <1>0, <1>1 DEF Reads, Labels, Goto, IInv, Types, Loose
  <2> QED BY <1>0, <2>1, LooseIsOK, ReadsKeep
<1>2. ASSUME NEW t \in DOMAIN tenants, tenants[t].user = who[x],
             saw' = [saw EXCEPT ![x] = [person |-> NoPerson, tenant |-> t, home |-> tenants[t].home]],
             Goto(x, IF Job[x].kind = "view" THEN "list"
                     ELSE IF Job[x].kind = "receipt" THEN "serve"
                     ELSE IF tenants[t].home = NoUnit THEN "refused" ELSE "insertTicket")
      PROVE  IInv'
  <2>1. Reads(x)
    BY <1>0, <1>2 DEF Reads, Labels
  <2>2. saw'[x].tenant = t /\ saw'[x].home = tenants[t].home /\ TenantOf(t, who[x])
    BY <1>2 DEF IInv, Types, TenantOf
  <2>3. tenants[t].home # NoUnit => tenants[t].home \in lived[t] /\ tenants[t].home \in Unit
    BY <1>2 DEF IInv, Links, Types, Table, TenantRow
  <2>4. at'[x] = IF Job[x].kind = "view" THEN "list"
                 ELSE IF Job[x].kind = "receipt" THEN "serve"
                 ELSE IF tenants[t].home = NoUnit THEN "refused" ELSE "insertTicket"
    BY <1>2 DEF Goto, IInv, Types
  <2>5. at'[x] = "insertTicket" => Own(x, saw'[x].tenant, saw'[x].home)
    BY <1>0, <2>2, <2>3, <2>4 DEF Own
  <2>6. OnTrack(x)' /\ DraftUser(x)' /\ DraftTenant(x)'
    BY <1>0, <2>4 DEF RequestOK, OnTrack, DraftUser, DraftTenant, MakesUser, TenantOf, U, T
  <2>7. DraftTicket(x)'
    BY <1>0, <2>2, <2>4, <2>5 DEF RequestOK, DraftTicket, TenantOf, Own, K
  <2> QED BY <1>0, <2>1, <2>6, <2>7, ReadsKeep DEF RequestOK
<1> QED BY <1>1, <1>2 DEF Profile

LEMMA ListTicketsKeeps ==
  ASSUME IInv, NEW x \in Request, ListTickets(x)
  PROVE  IInv'
<1>0. /\ UNCHANGED <<users, tenants, tickets, lived, who, draft>> /\ Goto(x, "done") /\ Forget(x)
      /\ shown' = shown \cup {[user |-> who[x], tickets |-> ServeOwn(x), payments |-> {}]}
      /\ TenantOf(saw[x].tenant, who[x])
  BY DEF ListTickets, IInv, RequestOK, DraftTicket, tables
<1>1. Reads(x) /\ at'[x] \in Loose
  BY <1>0 DEF Reads, Labels, Goto, IInv, Types, Loose, Forget
<1>2. PageOK([user |-> who[x], tickets |-> ServeOwn(x), payments |-> {}])
  BY <1>0 DEF PageOK, ServeOwn
<1>3. \A page \in shown' : PageOK(page)
  BY <1>0, <1>2 DEF IInv
<1> QED BY <1>0, <1>1, <1>3, LooseIsOK, ReadsKeep

LEMMA ServeReceiptKeeps ==
  ASSUME IInv, NEW x \in Request, ServeReceipt(x)
  PROVE  IInv'
<1>0. /\ UNCHANGED <<users, tenants, tickets, lived, who, draft>> /\ Forget(x)
      /\ TenantOf(saw[x].tenant, who[x])
  BY DEF ServeReceipt, IInv, RequestOK, DraftTicket, tables
<1>1. PICK p : IF PaidBy[p] = saw[x].tenant
               THEN /\ shown' = shown \cup {[user |-> who[x], tickets |-> {}, payments |-> {p}]}
                    /\ Goto(x, "done")
               ELSE UNCHANGED shown /\ Goto(x, "refused")
  BY DEF ServeReceipt
<1>2. Reads(x) /\ at'[x] \in Loose
  BY <1>0, <1>1 DEF Reads, Labels, Goto, IInv, Types, Loose, Forget
<1>3. PaidBy[p] = saw[x].tenant => PageOK([user |-> who[x], tickets |-> {}, payments |-> {p}])
  BY <1>0 DEF PageOK
<1>4. \A page \in shown' : PageOK(page)
  BY <1>1, <1>3 DEF IInv
<1> QED BY <1>0, <1>2, <1>4, LooseIsOK, ReadsKeep
----------------------------------------------------------------------------
(* Steps that write to the draft.                                          *)

Row(i, v) == [j \in {i} |-> v]
LEMMA OneRow ==
  ASSUME NEW S, NEW V, NEW i \in S, NEW v \in V
  PROVE  Table(Row(i, v), S, V) /\ DOMAIN Row(i, v) = {i} /\ Row(i, v)[i] = v
  BY DEF Table, Row

LEMMA SetTickets ==
  ASSUME NEW d, DraftOK(d), NEW f, Table(f, Ticket, TicketRow)
  PROVE  LET e == [d EXCEPT !.tickets = f] IN
         DraftOK(e) /\ e.users = d.users /\ e.tenants = d.tenants /\ e.tickets = f
<1>1. [d EXCEPT !.tickets = f] = [users |-> d.users, tenants |-> d.tenants, tickets |-> f]
  BY DEF DraftOK
<1> QED BY <1>1 DEF DraftOK

LEMMA SetTenants ==
  ASSUME NEW d, DraftOK(d), NEW f, Table(f, Tenant, TenantRow)
  PROVE  LET e == [d EXCEPT !.tenants = f] IN
         DraftOK(e) /\ e.users = d.users /\ e.tenants = f /\ e.tickets = d.tickets
<1>1. [d EXCEPT !.tenants = f] = [users |-> d.users, tenants |-> f, tickets |-> d.tickets]
  BY DEF DraftOK
<1> QED BY <1>1 DEF DraftOK

\* d with other users and other tenants.
WithBoth(d, f, g) == [[d EXCEPT !.users = f] EXCEPT !.tenants = g]
LEMMA SetBoth ==
  ASSUME NEW d, DraftOK(d), NEW f, NEW g, Table(f, User, UserRow), Table(g, Tenant, TenantRow)
  PROVE  LET n == WithBoth(d, f, g) IN
         DraftOK(n) /\ n.users = f /\ n.tenants = g /\ n.tickets = d.tickets
<1> DEFINE m == [d EXCEPT !.users = f]
<1>1. m = [users |-> f, tenants |-> d.tenants, tickets |-> d.tickets]
  BY DEF DraftOK
<1>2. DraftOK(m) /\ m.users = f /\ m.tickets = d.tickets
  BY <1>1 DEF DraftOK
<1> HIDE DEF m
<1>3. LET n == [m EXCEPT !.tenants = g] IN
      DraftOK(n) /\ n.users = f /\ n.tenants = g /\ n.tickets = d.tickets
  BY <1>2, SetTenants
<1> QED BY <1>3 DEF m, WithBoth

LEMMA WritesKeep ==
  ASSUME IInv, NEW x \in Request, NEW l \in Labels, Goto(x, l),
         UNCHANGED <<users, tenants, tickets, lived, shown, who, saw>>,
         NEW e, DraftOK(e), draft' = [draft EXCEPT ![x] = e], RequestOK(x)'
  PROVE  IInv'
<1>1. at' \in [Request -> Labels] /\ \A y \in Request \ {x} : at'[y] = at[y]
  BY DEF Goto, IInv, Types
<1>2. DOMAIN draft' = Request /\ draft'[x] = e /\ \A y \in Request \ {x} : draft'[y] = draft[y]
  BY DEF IInv, Types
<1>3. \A y \in Request \ {x} : Untouched(y)
  BY <1>1, <1>2 DEF Untouched
<1> QED BY <1>1, <1>2, <1>3, LocalStep DEF IInv, Types

LEMMA InsertTicketKeeps ==
  ASSUME IInv, NEW x \in Request, InsertTicket(x)
  PROVE  IInv'
<1> DEFINE row == [tenant |-> saw[x].tenant, unit |-> saw[x].home, status |-> "SUBMITTED", assignee |-> NoUser]
           f == Row(K(x), row)
           e == [draft[x] EXCEPT !.tickets = f]
<1>0. /\ at[x] = "insertTicket" /\ Goto(x, "commit")
      /\ UNCHANGED <<users, tenants, tickets, lived, shown, who, saw>>
      /\ draft' = [draft EXCEPT ![x] = e]
      /\ RequestOK(x) /\ DraftOK(draft[x])
  BY DEF InsertTicket, IInv, Types, tables, K, Row
<1>1. /\ Job[x].kind = "submit" /\ K(x) \in Ticket
      /\ Own(x, saw[x].tenant, saw[x].home) /\ K(x) \notin DOMAIN tickets
      /\ DOMAIN draft[x].users = {} /\ DOMAIN draft[x].tenants = {}
  BY <1>0, NoDraftFacts, JobAssumption DEF RequestOK, OnTrack, DraftTicket, K
<1>2. row \in TicketRow
  BY <1>1 DEF Own, TenantOf, IInv, Types, Table, TicketRow, TicketStatus
<1>3. row.tenant = saw[x].tenant /\ row.unit = saw[x].home
  OBVIOUS
<1> HIDE DEF row
<1>4. Table(f, Ticket, TicketRow) /\ DOMAIN f = {K(x)} /\ f[K(x)] = row
  BY <1>1, <1>2, OneRow
<1> HIDE DEF f
<1>5. DraftOK(e) /\ e.users = draft[x].users /\ e.tenants = draft[x].tenants /\ e.tickets = f
  BY <1>0, <1>4, SetTickets
<1> HIDE DEF e
<1>6. at'[x] = "commit" /\ draft'[x] = e
  BY <1>0 DEF Goto, IInv, Types
<1>7. OnTrack(x)' /\ DraftUser(x)' /\ DraftTenant(x)'
  BY <1>0, <1>1, <1>5, <1>6 DEF RequestOK, OnTrack, DraftUser, DraftTenant, MakesUser, U
<1>8. DraftTicket(x)'
  BY <1>0, <1>1, <1>3, <1>4, <1>5, <1>6 DEF DraftTicket, Own, TenantOf, K
<1> QED BY <1>0, <1>5, <1>7, <1>8, WritesKeep DEF RequestOK, Labels

LEMMA NewTicketRow ==
  ASSUME IInv, NEW x \in Request, Job[x].kind = "update", K(x) \in DOMAIN tickets
  PROVE  /\ NewTicket(x) \in TicketRow
         /\ NewTicket(x).tenant = tickets[K(x)].tenant /\ NewTicket(x).unit = tickets[K(x)].unit
<1> DEFINE old == tickets[K(x)]
           j == Job[x]
           a == If(j.assignee, saw[x].assignee)
           st == IF j.status = saw[x].status THEN old.status ELSE j.status
           as == IF a = saw[x].assignee THEN old.assignee ELSE a
<1>1. old \in TicketRow /\ j \in JobType /\ j.status \in TicketStatus
  BY PortalAssumption, JobAssumption DEF IInv, Types, Table
<1>2. a = saw[x].assignee \/ a = j.assignee
  BY DEF If
<1>3. as \in User \cup {NoUser} /\ st \in TicketStatus
  BY <1>1, <1>2 DEF JobType, TicketRow
<1>4. NewTicket(x) = [old EXCEPT !.status = st, !.assignee = as]
  BY DEF NewTicket, K
<1> HIDE DEF old, st, as, a
<1> QED BY <1>1, <1>3, <1>4 DEF TicketRow, old

LEMMA WriteTicketKeeps ==
  ASSUME IInv, NEW x \in Request, WriteTicket(x)
  PROVE  IInv'
<1> DEFINE f == Row(K(x), NewTicket(x))
           e == [draft[x] EXCEPT !.tickets = f]
<1>0. /\ at[x] = "writeTicket" /\ Goto(x, AfterTicket(x)) /\ AfterTicket(x) \in {"mail", "commit"}
      /\ UNCHANGED <<users, tenants, tickets, lived, shown, who, saw>>
      /\ draft' = draft \/ draft' = [draft EXCEPT ![x] = e]
      /\ RequestOK(x) /\ DraftOK(draft[x])
  BY DEF WriteTicket, AfterTicket, IInv, Types, tables, K, Row
<1>1. /\ Job[x].kind = "update" /\ K(x) \in DOMAIN tickets /\ K(x) \in Ticket
      /\ DOMAIN draft[x].users = {} /\ DOMAIN draft[x].tenants = {}
  BY <1>0, NoDraftFacts DEF RequestOK, OnTrack, DraftTicket, IInv, Types, Table
<1>2. at'[x] \in {"mail", "commit"}
  BY <1>0 DEF Goto, IInv, Types
<1>3. CASE draft' = draft
  <2>1. Reads(x)
    BY <1>0, <1>3 DEF Reads, Labels
  <2> QED BY <1>0, <1>2, <1>3, <2>1, LooseIsOK, ReadsKeep DEF Loose, IInv
<1>4. CASE draft' = [draft EXCEPT ![x] = e]
  <2>1. NewTicket(x) \in TicketRow
        /\ NewTicket(x).tenant = tickets[K(x)].tenant /\ NewTicket(x).unit = tickets[K(x)].unit
    BY <1>1, NewTicketRow
  <2>2. Table(f, Ticket, TicketRow) /\ DOMAIN f = {K(x)} /\ f[K(x)] = NewTicket(x)
    <3>1. K(x) \in Ticket /\ NewTicket(x) \in TicketRow
      BY <1>1, <2>1
    <3> HIDE DEF f
    <3>2. f = Row(K(x), NewTicket(x))
      BY DEF f
    <3> QED BY <3>1, <3>2, OneRow
  <2> HIDE DEF f
  <2>3. DraftOK(e) /\ e.users = draft[x].users /\ e.tenants = draft[x].tenants /\ e.tickets = f
    BY <1>0, <2>2, SetTickets
  <2> HIDE DEF e
  <2>4. draft'[x] = e
    BY <1>4 DEF IInv, Types
  <2>5. OnTrack(x)' /\ DraftUser(x)' /\ DraftTenant(x)'
    BY <1>0, <1>1, <1>2, <2>3, <2>4 DEF RequestOK, OnTrack, DraftUser, DraftTenant, MakesUser, U
  <2>6. DraftTicket(x)'
    BY <1>0, <1>1, <1>2, <2>1, <2>2, <2>3, <2>4 DEF DraftTicket, K
  <2> QED BY <1>0, <1>4, <2>3, <2>5, <2>6, WritesKeep DEF RequestOK, Labels
<1> QED BY <1>0, <1>3, <1>4

LEMMA WriteTenantKeeps ==
  ASSUME IInv, NEW x \in Request, WriteTenant(x)
  PROVE  IInv'
<1> DEFINE row == [person |-> Job[x].person, user |-> NoUser, home |-> NoUnit]
           f == Row(T(x), row)
           e == [draft[x] EXCEPT !.tenants = f]
<1>0. /\ at[x] = "writeTenant" /\ RequestOK(x) /\ DraftOK(draft[x])
      /\ UNCHANGED <<users, tenants, tickets, lived, shown, who>>
  BY DEF WriteTenant, IInv, Types, tables
<1>1. /\ Job[x].kind = "createTenant" /\ T(x) \in Tenant /\ Job[x].person \in Person
      /\ T(x) \notin DOMAIN tenants /\ U(x) \notin DOMAIN users /\ MakesUser(x)
      /\ DOMAIN draft[x].users = {} /\ DOMAIN draft[x].tickets = {}
  BY <1>0, NoDraftFacts, JobAssumption
     DEF RequestOK, OnTrack, DraftUser, DraftTenant, MakesUser, T
<1>2. CASE Rollback(x, "failed")
  BY <1>0, <1>2, RollbackKeeps DEF Loose
<1>3. CASE ~Rollback(x, "failed")
  <2>0. /\ saw' = saw /\ draft' = [draft EXCEPT ![x] = e]
        /\ Goto(x, IF Job[x].login /\ Job[x].person \in HasEmail THEN "checkUser" ELSE "commit")
    BY <1>3 DEF WriteTenant, T, Row
  <2>1. row \in TenantRow /\ row.user = NoUser /\ row.home = NoUnit
    BY <1>1 DEF TenantRow
  <2> HIDE DEF row
  <2>2. Table(f, Tenant, TenantRow) /\ DOMAIN f = {T(x)} /\ f[T(x)] = row
    BY <1>1, <2>1, OneRow
  <2> HIDE DEF f
  <2>3. DraftOK(e) /\ e.users = draft[x].users /\ e.tenants = f /\ e.tickets = draft[x].tickets
    BY <1>0, <2>2, SetTenants
  <2> HIDE DEF e
  <2>4. draft'[x] = e /\ at'[x] \in {"checkUser", "commit"}
    BY <2>0 DEF Goto, IInv, Types
  <2>5. OnTrack(x)' /\ DraftUser(x)' /\ DraftTicket(x)'
    BY <1>0, <1>1, <2>3, <2>4 DEF RequestOK, OnTrack, DraftUser, DraftTicket, MakesUser, U
  <2>6. DraftTenant(x)'
    BY <1>0, <1>1, <2>1, <2>2, <2>3, <2>4 DEF DraftTenant, T, U
  <2> QED BY <1>0, <2>0, <2>3, <2>5, <2>6, WritesKeep DEF RequestOK, Labels
<1> QED BY <1>2, <1>3

LEMMA NewUserRow ==
  ASSUME IInv, NEW x \in Request, at[x] = "writeUser"
  PROVE  U(x) \in User /\ NewUser(x) \in UserRow
<1>1. Job[x].kind \in {"createUser", "editUser", "createTenant"} /\ Job[x] \in JobType
  BY PortalAssumption DEF IInv, RequestOK, OnTrack
<1>2. CASE Job[x].kind # "editUser"
  BY <1>1, <1>2, JobAssumption DEF NewUser, MakesUser, UserRow, UserStatus, Role, U
<1>3. CASE Job[x].kind = "editUser"
  <2> DEFINE j == Job[x]
             old == users[U(x)]
             p == IF If(j.person, saw[x].person) = saw[x].person THEN old.person ELSE j.person
             r == IF If(j.role, saw[x].role) = saw[x].role THEN old.role ELSE j.role
             st == IF If(j.status, saw[x].status) = saw[x].status THEN old.status ELSE j.status
  <2>1. U(x) \in DOMAIN users
    BY <1>3 DEF IInv, RequestOK, DraftUser
  <2>2. U(x) \in User /\ old \in UserRow
    BY <2>1 DEF IInv, Types, Table
  <2>3. p \in Person
    BY <1>1, <2>2 DEF If, JobType, UserRow
  <2>4. r \in Role
    BY <1>1, <2>2 DEF If, JobType, UserRow
  <2>5. st \in UserStatus
    BY <1>3, <2>2, JobAssumption DEF If, UserRow
  <2>6. NewUser(x) = [person |-> p, role |-> r, status |-> st]
    BY <1>3 DEF NewUser, U
  <2> HIDE DEF p, r, st
  <2> QED BY <2>2, <2>3, <2>4, <2>5, <2>6 DEF UserRow
<1> QED BY <1>2, <1>3

LEMMA LinkedRows ==
  ASSUME IInv, NEW x \in Request, at[x] = "writeUser"
  PROVE  /\ Table(Linked(x), Tenant, TenantRow) /\ DOMAIN Linked(x) = DOMAIN draft[x].tenants
         /\ Job[x].kind = "createTenant" =>
              /\ T(x) \in DOMAIN Linked(x) /\ Linked(x)[T(x)].user = U(x)
              /\ Linked(x)[T(x)].home = NoUnit
<1> DEFINE d == draft[x].tenants
<1>1. Table(d, Tenant, TenantRow)
  BY DEF IInv, Types, DraftOK
<1>2. CASE Job[x].kind # "createTenant"
  BY <1>1, <1>2 DEF Linked
<1>3. CASE Job[x].kind = "createTenant"
  <2>1. T(x) \in DOMAIN d /\ d[T(x)].home = NoUnit
    BY <1>3 DEF IInv, RequestOK, DraftTenant
  <2>2. U(x) \in User
    BY NewUserRow
  <2>3. Linked(x) = [t \in DOMAIN d |-> [d[t] EXCEPT !.user = U(x)]]
    BY <1>3 DEF Linked, U
  <2> HIDE DEF d
  <2>4. \A t \in DOMAIN d : [d[t] EXCEPT !.user = U(x)] \in TenantRow
                           /\ [d[t] EXCEPT !.user = U(x)].user = U(x)
                           /\ [d[t] EXCEPT !.user = U(x)].home = d[t].home
    BY <1>1, <2>2 DEF Table, TenantRow
  <2>5. Table(Linked(x), Tenant, TenantRow) /\ DOMAIN Linked(x) = DOMAIN d
        /\ Linked(x)[T(x)].user = U(x) /\ Linked(x)[T(x)].home = NoUnit
    BY <1>1, <2>1, <2>3, <2>4 DEF Table
  <2> QED BY <2>1, <2>5 DEF d
<1> QED BY <1>2, <1>3

LEMMA WriteUserKeeps ==
  ASSUME IInv, NEW x \in Request, WriteUser(x)
  PROVE  IInv'
<1> DEFINE f == Row(U(x), NewUser(x))
           e == WithBoth(draft[x], f, Linked(x))
           l == IF Job[x].kind = "editUser" THEN "commit" ELSE "mail"
<1>0. /\ at[x] = "writeUser" /\ RequestOK(x) /\ DraftOK(draft[x])
      /\ UNCHANGED <<users, tenants, tickets, lived, shown, who>>
  BY DEF WriteUser, IInv, Types, tables
<1>1. CASE Goto(x, "commit") /\ UNCHANGED <<draft, saw>>
  <2>1. Reads(x) /\ at'[x] \in Loose
    BY <1>0, <1>1 DEF Reads, Labels, Goto, IInv, Types, Loose
  <2> QED BY <1>0, <1>1, <2>1, LooseIsOK, ReadsKeep DEF IInv
<1>2. CASE Rollback(x, "failed")
  BY <1>0, <1>2, RollbackKeeps DEF Loose
<1>3. CASE draft' = [draft EXCEPT ![x] = e] /\ Goto(x, l) /\ UNCHANGED saw
  <2>1. /\ Job[x].kind \in {"createUser", "editUser", "createTenant"}
        /\ DOMAIN draft[x].tickets = {}
        /\ DOMAIN draft[x].tenants \subseteq {T(x)}
    BY <1>0, NoDraftFacts DEF RequestOK, OnTrack, DraftTicket, DraftTenant
  <2>2. U(x) \in User /\ NewUser(x) \in UserRow
    BY <1>0, NewUserRow
  <2>3. Table(f, User, UserRow) /\ DOMAIN f = {U(x)}
    BY <2>2, OneRow
  <2> HIDE DEF f
  <2>4. /\ Table(Linked(x), Tenant, TenantRow) /\ DOMAIN Linked(x) = DOMAIN draft[x].tenants
        /\ Job[x].kind = "createTenant" =>
             /\ T(x) \in DOMAIN Linked(x) /\ Linked(x)[T(x)].user = U(x)
             /\ Linked(x)[T(x)].home = NoUnit
    BY <1>0, LinkedRows
  <2>5. DraftOK(e) /\ e.users = f /\ e.tenants = Linked(x) /\ e.tickets = draft[x].tickets
    BY <1>0, <2>3, <2>4, SetBoth
  <2> HIDE DEF e
  <2>6. draft'[x] = e /\ at'[x] = l /\ l \in {"commit", "mail"}
    BY <1>3 DEF Goto, IInv, Types
  <2> HIDE DEF l
  <2>7. OnTrack(x)' /\ DraftTicket(x)'
    BY <2>1, <2>5, <2>6 DEF OnTrack, DraftTicket, K
  <2>8. DraftUser(x)'
    BY <1>0, <2>1, <2>3, <2>5, <2>6 DEF RequestOK, DraftUser, MakesUser, U
  <2>9. DraftTenant(x)'
    <3>1. Job[x].kind = "createTenant" => U(x) \notin DOMAIN users /\ T(x) \notin DOMAIN tenants
      BY <1>0 DEF RequestOK, DraftUser, DraftTenant, MakesUser
    <3>2. Job[x].kind # "createTenant" => DOMAIN draft[x].tenants = {}
      BY <1>0 DEF RequestOK, DraftTenant
    <3> QED BY <1>0, <2>1, <2>3, <2>4, <2>5, <2>6, <3>1, <3>2 DEF DraftTenant, T, U
  <2> QED BY <1>0, <1>3, <2>5, <2>6, <2>7, <2>8, <2>9, WritesKeep DEF RequestOK, Labels
<1> QED BY <1>1, <1>2, <1>3 DEF WriteUser, WithBoth, Row, U
----------------------------------------------------------------------------
(* Commits.                                                                *)

\* What a commit does to a table.
Merged(new, old, both) ==
  /\ DOMAIN both = DOMAIN new \cup DOMAIN old
  /\ \A i \in DOMAIN new : both[i] = new[i]
  /\ \A i \in DOMAIN old \ DOMAIN new : both[i] = old[i]

LEMMA OverRows ==
  ASSUME NEW S, NEW V, NEW new, NEW old, Table(new, S, V), Table(old, S, V)
  PROVE  Table(Over(new, old), S, V) /\ Merged(new, old, Over(new, old))
  BY DEF Table, Over, Merged

LEMMA CommitMerges ==
  ASSUME IInv, NEW x \in Request, CommitAll(x)
  PROVE  /\ Table(users', User, UserRow) /\ Table(tenants', Tenant, TenantRow)
         /\ Table(tickets', Ticket, TicketRow)
         /\ Merged(draft[x].users, users, users') /\ Merged(draft[x].tenants, tenants, tenants')
         /\ Merged(draft[x].tickets, tickets, tickets')
<1>1. /\ Table(draft[x].users, User, UserRow) /\ Table(draft[x].tenants, Tenant, TenantRow)
      /\ Table(draft[x].tickets, Ticket, TicketRow)
  BY DEF IInv, Types, DraftOK
<1>2. Table(users, User, UserRow) /\ Table(tenants, Tenant, TenantRow) /\ Table(tickets, Ticket, TicketRow)
  BY DEF IInv, Types
<1>3. /\ users' = Over(draft[x].users, users) /\ tenants' = Over(draft[x].tenants, tenants)
      /\ tickets' = Over(draft[x].tickets, tickets)
  BY DEF CommitAll
<1>4. Table(users', User, UserRow) /\ Merged(draft[x].users, users, users')
  BY <1>1, <1>2, <1>3, OverRows
<1>5. Table(tenants', Tenant, TenantRow) /\ Merged(draft[x].tenants, tenants, tenants')
  BY <1>1, <1>2, <1>3, OverRows
<1>6. Table(tickets', Ticket, TicketRow) /\ Merged(draft[x].tickets, tickets, tickets')
  BY <1>1, <1>2, <1>3, OverRows
<1> QED BY <1>4, <1>5, <1>6

LEMMA CommitGrows ==
  ASSUME IInv, NEW x \in Request, CommitAll(x), lived' = lived
  PROVE  Grows({x})
<1>0. RequestOK(x)
  BY DEF IInv
<1>1. /\ Merged(draft[x].users, users, users') /\ Merged(draft[x].tenants, tenants, tenants')
      /\ Merged(draft[x].tickets, tickets, tickets')
  BY CommitMerges
<1>2. /\ DOMAIN users \subseteq DOMAIN users'
      /\ \A u \in DOMAIN users' \ DOMAIN users : MakesUser(x) /\ u = U(x)
  BY <1>0, <1>1 DEF RequestOK, DraftUser, Merged
<1>3. /\ DOMAIN tenants \subseteq DOMAIN tenants'
      /\ \A t \in DOMAIN tenants' \ DOMAIN tenants : Job[x].kind = "createTenant" /\ t = T(x)
      /\ \A t \in DOMAIN tenants : tenants'[t] = tenants[t]
  BY <1>0, <1>1 DEF RequestOK, DraftTenant, Merged
<1>4. /\ DOMAIN tickets \subseteq DOMAIN tickets'
      /\ \A k \in DOMAIN tickets' \ DOMAIN tickets : Job[x].kind = "submit" /\ k = K(x)
      /\ \A k \in DOMAIN tickets :
           tickets'[k].tenant = tickets[k].tenant /\ tickets'[k].unit = tickets[k].unit
  BY <1>0, <1>1 DEF RequestOK, DraftTicket, Merged
<1> QED BY <1>2, <1>3, <1>4 DEF Grows

\* A tenant committed together with a login is the only one linked to it.
LEMMA CommitLinks ==
  ASSUME IInv, NEW x \in Request, CommitAll(x), lived' = lived
  PROVE  Links'
<1>0. RequestOK(x) /\ Links
  BY DEF IInv
<1>1. /\ Merged(draft[x].users, users, users') /\ Merged(draft[x].tenants, tenants, tenants')
      /\ Merged(draft[x].tickets, tickets, tickets')
  BY CommitMerges
<1>2. \A t \in DOMAIN tenants : t \in DOMAIN tenants' /\ tenants'[t] = tenants[t]
  BY <1>0, <1>1 DEF RequestOK, DraftTenant, Merged
<1>3. ASSUME NEW t \in DOMAIN tenants', t \notin DOMAIN tenants
      PROVE  /\ t = T(x) /\ tenants'[t].home = NoUnit
             /\ \/ tenants'[t].user = NoUser
                \/ tenants'[t].user = U(x) /\ U(x) \in DOMAIN users' /\ U(x) \notin DOMAIN users
                   /\ MakesUser(x)
  <2>1. t = T(x) /\ t \in DOMAIN draft[x].tenants /\ tenants'[t] = draft[x].tenants[t]
        /\ Job[x].kind = "createTenant" /\ MakesUser(x)
    BY <1>0, <1>1, <1>3 DEF RequestOK, DraftTenant, Merged, MakesUser
  <2>2. tenants'[t].home = NoUnit
    BY <1>0, <2>1 DEF RequestOK, DraftTenant
  <2>3. CASE U(x) \in DOMAIN draft[x].users
    BY <1>0, <1>1, <2>1, <2>2, <2>3 DEF RequestOK, DraftTenant, DraftUser, Merged
  <2>4. CASE U(x) \notin DOMAIN draft[x].users
    BY <1>0, <2>1, <2>2, <2>4 DEF RequestOK, DraftTenant
  <2> QED BY <2>1, <2>3, <2>4
<1>4. ASSUME NEW t \in DOMAIN tenants'
      PROVE  /\ tenants'[t].user \in DOMAIN users' \cup {NoUser}
             /\ tenants'[t].home \in lived'[t] \cup {NoUnit}
  BY <1>0, <1>1, <1>2, <1>3, <1>4 DEF Links, Merged
<1>5. ASSUME NEW s \in DOMAIN tenants', NEW t \in DOMAIN tenants',
             tenants'[s].user = tenants'[t].user, s # t
      PROVE  tenants'[s].user = NoUser
  BY <1>0, <1>2, <1>3, <1>5, JobAssumption DEF Links, U
<1>6. ASSUME NEW k \in DOMAIN tickets'
      PROVE  tickets'[k].tenant \in DOMAIN tenants'
  <2>1. CASE k \in DOMAIN draft[x].tickets
    <3>1. tickets'[k] = draft[x].tickets[k] /\ k = K(x) /\ Job[x].kind \in {"submit", "update"}
      BY <1>0, <1>1, <2>1 DEF RequestOK, DraftTicket, Merged
    <3>2. draft[x].tickets[k].tenant \in DOMAIN tenants
      BY <1>0, <2>1, <3>1 DEF RequestOK, DraftTicket, Own, TenantOf, Links
    <3> QED BY <1>2, <3>1, <3>2
  <2>2. CASE k \notin DOMAIN draft[x].tickets
    BY <1>0, <1>1, <1>2, <2>2 DEF Links, Merged
  <2> QED BY <2>1, <2>2
<1> QED BY <1>4, <1>5, <1>6 DEF Links

LEMMA PagesStay ==
  ASSUME NEW S, Grows(S), NEW page, PageOK(page)
  PROVE  PageOK(page)'
<1>1. ASSUME NEW k \in page.tickets
      PROVE  k \in DOMAIN tickets' /\ TenantOf(tickets[k].tenant, page.user)'
  <2>1. /\ k \in DOMAIN tickets' /\ tickets'[k].tenant = tickets[k].tenant
        /\ TenantOf(tickets[k].tenant, page.user)
    BY <1>1 DEF PageOK, Grows
  <2> QED BY <2>1 DEF TenantOf, Grows
<1>2. ASSUME NEW q \in page.payments
      PROVE  TenantOf(PaidBy[q], page.user)'
  BY <1>2 DEF PageOK, TenantOf, Grows
<1> QED BY <1>1, <1>2 DEF PageOK

LEMMA CommitKeeps ==
  ASSUME IInv, NEW x \in Request, CommitAll(x), NEW l \in {"commit", "done"}, Goto(x, l),
         DOMAIN saw' = Request, \A y \in Request \ {x} : saw'[y] = saw[y],
         UNCHANGED <<lived, shown, who>>
  PROVE  IInv'
<1>0. RequestOK(x)
  BY DEF IInv
<1>1. /\ at' \in [Request -> Labels] /\ at'[x] = l /\ \A y \in Request \ {x} : at'[y] = at[y]
  BY DEF Goto, IInv, Types, Labels
<1>2. /\ DOMAIN draft' = Request /\ draft'[x] = NoDraft
      /\ \A y \in Request \ {x} : draft'[y] = draft[y]
  BY DEF CommitAll, IInv, Types
<1>3. /\ Table(users', User, UserRow) /\ Table(tenants', Tenant, TenantRow)
      /\ Table(tickets', Ticket, TicketRow)
      /\ Merged(draft[x].users, users, users') /\ Merged(draft[x].tenants, tenants, tenants')
      /\ Merged(draft[x].tickets, tickets, tickets')
  BY CommitMerges
<1>4. Grows({x}) /\ Links'
  BY CommitGrows, CommitLinks
<1>5. \A y \in Request \ {x} : RequestOK(y)'
  BY <1>1, <1>2, <1>4, OthersKeep DEF Untouched
<1>6. \A page \in shown' : PageOK(page)'
  BY <1>4, PagesStay DEF IInv
<1>7. Types'
  <2>1. \A y \in Request : DraftOK(draft'[y])
    BY <1>2, NoDraftFacts DEF IInv, Types
  <2> QED BY <1>1, <1>2, <1>3, <2>1 DEF IInv, Types
<1>8. OnTrack(x)' /\ DraftUser(x)'
  BY <1>1, <1>2, NoDraftFacts DEF OnTrack, DraftUser
<1>9. DraftTenant(x)'
  <2>1. ASSUME Job[x].kind = "createTenant", U(x) \in DOMAIN users'
        PROVE  TenantOf(T(x), U(x))'
    <3>1. CASE U(x) \in DOMAIN users
      <4>1. TenantOf(T(x), U(x))
        BY <1>0, <2>1, <3>1 DEF RequestOK, DraftTenant
      <4> QED BY <1>4, <4>1 DEF TenantOf, Grows
    <3>2. CASE U(x) \in DOMAIN draft[x].users
      BY <1>0, <1>3, <2>1, <3>2 DEF RequestOK, DraftTenant, Merged, TenantOf
    <3> QED BY <1>3, <2>1, <3>1, <3>2 DEF Merged
  <2> QED BY <1>1, <1>2, <2>1, NoDraftFacts DEF DraftTenant, TenantOf, T, U
<1>10. DraftTicket(x)'
  <2>1. ASSUME Job[x].kind = "submit", K(x) \in DOMAIN tickets'
        PROVE  Own(x, tickets[K(x)].tenant, tickets[K(x)].unit)'
    <3>1. \A t, h : Own(x, t, h) => Own(x, t, h)'
      BY <1>4, OwnStays
    <3>2. Own(x, tickets'[K(x)].tenant, tickets'[K(x)].unit)
      <4>1. CASE K(x) \in DOMAIN draft[x].tickets
        BY <1>0, <1>3, <2>1, <4>1 DEF RequestOK, DraftTicket, Merged
      <4>2. CASE K(x) \notin DOMAIN draft[x].tickets
        BY <1>0, <1>3, <2>1, <4>2 DEF RequestOK, DraftTicket, Merged
      <4> QED BY <4>1, <4>2
    <3> QED BY <3>1, <3>2 DEF Own, TenantOf, K
  <2> QED BY <1>1, <1>2, <2>1, NoDraftFacts DEF DraftTicket, Own, TenantOf, K
<1> QED BY <1>4, <1>5, <1>6, <1>7, <1>8, <1>9, <1>10 DEF IInv, RequestOK

LEMMA DispatchKeeps ==
  ASSUME IInv, NEW x \in Request, Dispatch(x)
  PROVE  IInv'
<1>1. CommitAll(x) /\ Goto(x, "commit") /\ UNCHANGED <<saw, lived, shown, who>>
  BY DEF Dispatch
<1>2. DOMAIN saw' = Request
  BY <1>1 DEF IInv, Types
<1> QED BY <1>1, <1>2, CommitKeeps

LEMMA CommitStepKeeps ==
  ASSUME IInv, NEW x \in Request, Commit(x)
  PROVE  IInv'
<1>1. CommitAll(x) /\ Goto(x, "done") /\ Forget(x) /\ UNCHANGED <<lived, shown, who>>
  BY DEF Commit
<1>2. DOMAIN saw' = Request /\ \A y \in Request \ {x} : saw'[y] = saw[y]
  BY <1>1 DEF IInv, Types, Forget
<1> QED BY <1>1, <1>2, CommitKeeps
----------------------------------------------------------------------------
(* Steps of no request, and crashes.                                       *)

LEMMA CrashKeeps ==
  ASSUME IInv, NEW x \in Request, Crash(x)
  PROVE  IInv'
  BY RollbackKeeps DEF Crash, tables, Loose

\* The requests stand still, and the tables keep what they say.
LEMMA StandStill ==
  ASSUME IInv, Grows({}), Types', Links', UNCHANGED <<shown, at, who, saw, draft>>
  PROVE  IInv'
<1>1. \A y \in Request : RequestOK(y)'
  BY OthersKeep DEF Untouched
<1>2. \A page \in shown' : PageOK(page)'
  BY PagesStay DEF IInv
<1> QED BY <1>1, <1>2 DEF IInv

LEMMA NothingKeeps ==
  ASSUME IInv, UNCHANGED <<users, tenants, tickets, lived, shown, at, who, saw, draft>>
  PROVE  IInv'
<1>1. Grows({})
  BY DEF Grows
<1>2. Types' /\ Links'
  BY DEF IInv, Types, Links, Table
<1> QED BY <1>1, <1>2, StandStill

LEMMA RehouseKeeps ==
  ASSUME IInv, NEW t \in Tenant, NEW u \in Unit \cup {NoUnit}, Rehouse(t, u)
  PROVE  IInv'
<1> DEFINE row == [tenants[t] EXCEPT !.home = u]
<1>1. /\ t \in DOMAIN tenants /\ tenants' = [tenants EXCEPT ![t] = row]
      /\ lived' = [lived EXCEPT ![t] = @ \cup {u}] /\ Types /\ Links
      /\ UNCHANGED <<users, tickets, shown, at, who, saw, draft>>
  BY DEF Rehouse, IInv
<1>2. row \in TenantRow /\ row.user = tenants[t].user /\ row.home = u
  BY <1>1 DEF Types, Table, TenantRow
<1> HIDE DEF row
<1>3. /\ DOMAIN tenants' = DOMAIN tenants /\ tenants'[t] = row /\ Table(tenants', Tenant, TenantRow)
      /\ \A s \in DOMAIN tenants \ {t} : tenants'[s] = tenants[s]
  BY <1>1, <1>2 DEF Types, Table
<1>4. /\ DOMAIN lived' = Tenant /\ lived'[t] = lived[t] \cup {u}
      /\ \A s \in Tenant \ {t} : lived'[s] = lived[s]
  BY <1>1 DEF Types
<1>5. \A s \in DOMAIN tenants : s \in Tenant /\ tenants'[s].user = tenants[s].user
  BY <1>1, <1>2, <1>3 DEF Types, Table
<1>6. Grows({})
  BY <1>1, <1>3, <1>4, <1>5 DEF Grows
<1>7. Types'
  BY <1>1, <1>3, <1>4 DEF Types, Table
<1>8. Links'
  BY <1>1, <1>2, <1>3, <1>4, <1>5 DEF Links
<1> QED BY <1>1, <1>6, <1>7, <1>8, StandStill
----------------------------------------------------------------------------
(* The invariant, and the properties.                                      *)

LEMMA InitEstablishes ==
  ASSUME Init
  PROVE  IInv
<1>1. /\ users = UsersAtFirst /\ tenants = TenantsAtFirst /\ tickets = TicketsAtFirst
      /\ shown = {} /\ at \in [Request -> {"auth", "absent"}]
      /\ who \in [Request -> User \cup {NoUser}] /\ DOMAIN saw = Request
      /\ DOMAIN draft = Request /\ \A x \in Request : draft[x] = NoDraft
      /\ DOMAIN lived = Tenant
      /\ \A t \in Tenant : t \in DOMAIN tenants => lived[t] = {tenants[t].home}
  BY DEF Init
<1>2. Types
  BY <1>1, NoDraftFacts, PortalAssumption DEF Types, Table, Labels
<1>3. Links
  BY <1>1, PortalAssumption DEF Links
<1>4. ASSUME NEW x \in Request
      PROVE  RequestOK(x)
  <2>1. at[x] \in {"auth", "absent"} /\ draft[x] = NoDraft
    BY <1>1
  <2>2. /\ MakesUser(x) => U(x) \notin DOMAIN users
        /\ Job[x].kind = "createTenant" => T(x) \notin DOMAIN tenants /\ U(x) \notin DOMAIN users
        /\ Job[x].kind = "submit" => K(x) \notin DOMAIN tickets
    BY <1>1, JobAssumption DEF U, T, K, MakesUser
  <2>3. OnTrack(x) /\ DraftUser(x)
    BY <2>1, <2>2, NoDraftFacts DEF OnTrack, DraftUser, MakesUser
  <2>4. DraftTenant(x) /\ DraftTicket(x)
    BY <2>1, <2>2, NoDraftFacts DEF DraftTenant, DraftTicket
  <2> QED BY <2>3, <2>4 DEF RequestOK
<1> QED BY <1>1, <1>2, <1>3, <1>4 DEF IInv

LEMMA NextKeeps ==
  ASSUME IInv, [Next]_vars
  PROVE  IInv'
<1>1. ASSUME NEW x \in Request, Step(x) \/ Crash(x)
      PROVE  IInv'
  BY <1>1, AuthorizeKeeps, ReadUserKeeps, CheckUserKeeps, WriteUserKeeps, CheckTenantKeeps,
     WriteTenantKeeps, ProfileKeeps, ListTicketsKeeps, ServeReceiptKeeps, InsertTicketKeeps,
     ReadTicketKeeps, WriteTicketKeeps, SendKeeps, DispatchKeeps, CommitStepKeeps, CrashKeeps
     DEF Step
<1>2. ASSUME NEW u \in User, Login(u)
      PROVE  IInv'
  BY <1>2, NothingKeeps DEF Login, tables
<1>3. ASSUME NEW t \in Tenant, NEW u \in Unit \cup {NoUnit}, Rehouse(t, u)
      PROVE  IInv'
  BY <1>3, RehouseKeeps
<1>4. CASE UNCHANGED vars
  BY <1>4, NothingKeeps DEF vars
<1> QED BY <1>1, <1>2, <1>3, <1>4 DEF Next

LEMMA Invariant == Spec => []IInv
  BY InitEstablishes, NextKeeps, PTL DEF Spec

\* Tables keep their types, and what a row names exists.
THEOREM TypeCorrect == Spec => []TypeOK
<1>1. IInv => TypeOK
  BY DEF IInv, Types, Table, Links, TypeOK
<1> QED BY <1>1, Invariant, PTL

\* However requests interleave, mails commit in mid-route and processes die, a
\* login made with a tenant is that tenant's, and no login is two tenants'.
THEOREM LoginsAreLinked == Spec => []LoginIsLinked
<1>1. IInv => LoginIsLinked
  BY DEF IInv, RequestOK, DraftTenant, TenantOf, Links, LoginIsLinked, U, T
<1> QED BY <1>1, Invariant, PTL

\* Nobody is shown another tenant's maintenance requests or receipts, and what
\* is submitted is the submitter's own, for a unit this tenant has or had.
THEOREM TenantsSeeTheirOwn == Spec => []OwnOnly
<1>1. ASSUME IInv
      PROVE  OwnOnly
  <2>1. ASSUME NEW page \in shown
        PROVE  /\ \A k \in page.tickets : tenants[tickets[k].tenant].user = page.user
               /\ \A p \in page.payments : tenants[PaidBy[p]].user = page.user
    BY <1>1, <2>1 DEF IInv, PageOK, TenantOf
  <2>2. ASSUME NEW x \in Request, Job[x].kind = "submit", K(x) \in DOMAIN tickets
        PROVE  LET k == tickets[K(x)] IN
               tenants[k.tenant].user = who[x] /\ k.unit \in lived[k.tenant] /\ k.unit # NoUnit
    BY <1>1, <2>2, PortalAssumption DEF IInv, RequestOK, DraftTicket, Own, TenantOf
  <2> QED BY <2>1, <2>2 DEF OwnOnly, K
<1> QED BY <1>1, Invariant, PTL

----------------------------------------------------------------------------
(* The mails about maintenance requests.                                   *)

\* The tenant of request k can be written to.
Reached(k) == tenants[tickets[k].tenant].person \in HasEmail
Holds(x, k) == k \in DOMAIN draft[x].tickets

\* How far a request is that writes to a tenant, and what it still holds; what
\* an update in mid-mail holds has the status its mail told.
Mailing(x) ==
  /\ at[x] \in {"mail", "dispatch"} => Job[x].kind \in {"update", "createUser", "createTenant"}
  /\ Job[x].kind = "update" /\ at[x] \in {"mail", "dispatch"} => K(x) \in DOMAIN tickets /\ Reached(K(x))
  /\ at[x] = "writeTicket" => saw[x].tenant = tickets[K(x)].tenant
  /\ Holds(x, K(x)) =>
       /\ at[x] \in {"mail", "dispatch", "commit"}
       /\ at[x] = "commit" => Job[x].kind = "submit" \/ ~Reached(K(x))
       /\ at[x] = "dispatch" => K(x) \in muddled \/ told[K(x)] = draft[x].tickets[K(x)].status

\* The last mail about k is true, or the update that sent it is yet to commit.
ToldLast(k) ==
  \/ k \in muddled \/ told[k] \in {"NONE", tickets[k].status}
  \/ \E x \in Request : at[x] = "dispatch" /\ Holds(x, k)

Mails ==
  /\ DOMAIN told = Ticket
  /\ \A k \in Ticket : k \notin DOMAIN tickets \/ ~Reached(k) => told[k] = "NONE"
  /\ \A x, y \in Request : x # y => ~Holds(x, K(x)) \/ ~Holds(y, K(x))
  /\ \A x \in Request : Mailing(x)
  /\ \A k \in DOMAIN tickets : ToldLast(k)

\* Whose a maintenance request is, and where they can be written to, stays.
Persons ==
  /\ \A t \in DOMAIN tenants : t \in DOMAIN tenants' /\ tenants'[t].person = tenants[t].person
  /\ \A k \in DOMAIN tickets : k \in DOMAIN tickets' /\ tickets'[k].tenant = tickets[k].tenant

LEMMA CommitPersons ==
  ASSUME IInv, NEW x \in Request, CommitAll(x), lived' = lived
  PROVE  Persons
<1>1. Merged(draft[x].tenants, tenants, tenants') /\ Grows({x}) /\ RequestOK(x)
  BY CommitMerges, CommitGrows DEF IInv
<1>2. \A t \in DOMAIN tenants : t \in DOMAIN tenants' /\ tenants'[t] = tenants[t]
  BY <1>1 DEF RequestOK, DraftTenant, Merged
<1> QED BY <1>1, <1>2 DEF Persons, Grows

LEMMA ReachedStays ==
  ASSUME IInv, Persons, NEW k \in DOMAIN tickets
  PROVE  k \in DOMAIN tickets' /\ Reached(k)' = Reached(k)
<1>1. tickets[k].tenant \in DOMAIN tenants
  BY DEF IInv, Links
<1> QED BY <1>1 DEF Persons, Reached

\* A request that took no part is where it was, but for told and muddled.
LEMMA MailingStays ==
  ASSUME IInv, Persons, NEW y \in Request, Mailing(y), Untouched(y),
         muddled \subseteq muddled',
         Holds(y, K(y)) => told'[K(y)] = told[K(y)] \/ K(y) \in muddled'
  PROVE  Mailing(y)'
<1>0. RequestOK(y)
  BY DEF IInv
<1>1. Job[y].kind = "update" /\ at[y] \in {"mail", "dispatch", "writeTicket"} => K(y) \in DOMAIN tickets
  BY <1>0 DEF Mailing, RequestOK, DraftTicket
<1>2. \A k \in DOMAIN tickets : k \in DOMAIN tickets' /\ Reached(k)' = Reached(k)
                                 /\ tickets'[k].tenant = tickets[k].tenant
  BY ReachedStays DEF Persons
<1>3. Holds(y, K(y)) => Job[y].kind = "submit" \/ (Job[y].kind = "update" /\ K(y) \in DOMAIN tickets)
  <2>1. Holds(y, K(y)) => DOMAIN draft[y].tickets # {}
    BY DEF Holds
  <2>2. Holds(y, K(y)) /\ Job[y].kind = "update" => K(y) \in DOMAIN tickets
    BY <1>0 DEF Holds, RequestOK, DraftTicket
  <2>3. DOMAIN draft[y].tickets # {} => Job[y].kind \in {"submit", "update"}
    BY <1>0 DEF RequestOK, DraftTicket
  <2> QED BY <2>1, <2>2, <2>3
<1>4. at[y] = "writeTicket" => Job[y].kind = "update"
  BY <1>0 DEF RequestOK, OnTrack
<1> DEFINE k == K(y)
<1>5. K(y)' = K(y) /\ Holds(y, K(y))' = Holds(y, K(y))
  BY DEF K, Holds, Untouched
<1>6. /\ at'[y] \in {"mail", "dispatch"} => Job[y].kind \in {"update", "createUser", "createTenant"}
      /\ Job[y].kind = "update" /\ at'[y] \in {"mail", "dispatch"} => k \in DOMAIN tickets' /\ Reached(k)'
      /\ at'[y] = "writeTicket" => saw'[y].tenant = tickets'[k].tenant
  BY <1>1, <1>2, <1>4 DEF Mailing, Untouched
<1>7. Holds(y, k) =>
       /\ at'[y] \in {"mail", "dispatch", "commit"}
       /\ at'[y] = "commit" => Job[y].kind = "submit" \/ ~Reached(k)'
       /\ at'[y] = "dispatch" => k \in muddled' \/ told'[k] = draft'[y].tickets[k].status
  BY <1>2, <1>3 DEF Mailing, Untouched
<1> QED BY <1>5, <1>6, <1>7 DEF Mailing, K

\* What one request may do to the mails: whatever it does, to its own request only.
LEMMA OwnMailOnly ==
  ASSUME IInv, IInv', Mails, Persons, NEW x \in Request, \A y \in Others(x) : Untouched(y),
         DOMAIN told' = Ticket, muddled \subseteq muddled', Mailing(x)',
         DOMAIN tickets' \subseteq DOMAIN tickets \cup {K(x)},
         \A k \in DOMAIN tickets : k # K(x) => tickets'[k] = tickets[k],
         \A k \in Ticket : k # K(x) => told'[k] = told[k],
         told'[K(x)] = told[K(x)] \/ K(x) \in muddled' \/ \A y \in Others(x) : ~Holds(y, K(x)),
         K(x) \in Ticket /\ (K(x) \notin DOMAIN tickets' \/ ~Reached(K(x))') => told'[K(x)] = "NONE",
         Holds(x, K(x))' => Holds(x, K(x)) \/ \A y \in Others(x) : ~Holds(y, K(x)),
         K(x) \in DOMAIN tickets' => ToldLast(K(x))'
  PROVE  Mails'
<1>1. \A y \in Request : DOMAIN draft[y].tickets \subseteq {K(y)} /\ DOMAIN draft[y].tickets \subseteq Ticket
  BY DEF IInv, RequestOK, DraftTicket, Types, DraftOK, Table
<1>2. \A y \in Others(x) : \A k : Holds(y, k)' = Holds(y, k) /\ at'[y] = at[y]
  BY DEF Untouched, Holds
<1>3. ASSUME NEW y \in Others(x)
      PROVE  Mailing(y)'
  <2>1. Mailing(y) /\ y \in Request /\ Untouched(y)
    BY DEF Mails, Others
  <2>2. Holds(y, K(y)) => told'[K(y)] = told[K(y)] \/ K(y) \in muddled'
    BY <1>1, <2>1 DEF Holds
  <2> QED BY <2>1, <2>2, MailingStays
<1>4. ASSUME NEW y \in Request, NEW z \in Request, y # z
      PROVE  ~Holds(y, K(y))' \/ ~Holds(z, K(y))'
  <2>1. (~Holds(y, K(y)) \/ ~Holds(z, K(y))) /\ (~Holds(y, K(z)) \/ ~Holds(z, K(z)))
    BY <1>4 DEF Mails
  <2>2. CASE y = x
    BY <1>2, <1>4, <2>1, <2>2 DEF Others
  <2>3. CASE z = x
    <3>1. Holds(y, K(y))' = Holds(y, K(y))
      BY <1>2, <1>4, <2>3 DEF Others
    <3>2. Holds(z, K(y))' => K(y) = K(z)
      BY <2>3 DEF Holds, IInv, RequestOK, DraftTicket, K
    <3> QED BY <1>2, <1>4, <2>1, <2>3, <3>1, <3>2 DEF Others
  <2>4. CASE y # x /\ z # x
    BY <1>2, <2>1, <2>4 DEF Others
  <2> QED BY <2>2, <2>3, <2>4
<1>5. ASSUME NEW k \in Ticket, k \notin DOMAIN tickets' \/ ~Reached(k)'
      PROVE  told'[k] = "NONE"
  <2>1. k # K(x) => k \notin DOMAIN tickets \/ ~Reached(k)
    BY <1>5, ReachedStays
  <2> QED BY <1>5, <2>1 DEF Mails
<1>6. ASSUME NEW k \in DOMAIN tickets'
      PROVE  ToldLast(k)'
  <2>1. CASE k # K(x)
    <3>1. k \in DOMAIN tickets /\ k \in Ticket /\ tickets'[k] = tickets[k] /\ told'[k] = told[k] /\ ToldLast(k)
      BY <1>6, <2>1 DEF Mails, IInv, Types, Table
    <3>2. \A y \in Request : Holds(y, k) => y \in Others(x)
      BY <1>1, <2>1 DEF Holds, Others
    <3> QED BY <1>2, <3>1, <3>2 DEF ToldLast
  <2> QED BY <1>6, <2>1
<1> QED BY <1>3, <1>4, <1>5, <1>6 DEF Mails, Others, K

\* A step of a request that holds nothing yet, and mails nothing.
LEMMA QuietStep ==
  ASSUME IInv, IInv', Mails, Persons, NEW x \in Request, \A y \in Others(x) : Untouched(y),
         UNCHANGED <<tickets, told, muddled>>, Mailing(x)', ~Holds(x, K(x)),
         Holds(x, K(x))' => \A y \in Others(x) : ~Holds(y, K(x))
  PROVE  Mails'
<1>1. ASSUME K(x) \in DOMAIN tickets
      PROVE  ToldLast(K(x))' /\ Reached(K(x))' = Reached(K(x))
  <2>1. ToldLast(K(x))
    BY <1>1 DEF Mails
  <2>2. \A y \in Request : Holds(y, K(x)) => Holds(y, K(x))' /\ at'[y] = at[y]
    BY DEF Untouched, Holds, Others
  <2>3. ToldLast(K(x))'
    BY <2>1, <2>2 DEF ToldLast, K
  <2> QED BY <1>1, <2>3, ReachedStays
<1>2. K(x) \in Ticket /\ (K(x) \notin DOMAIN tickets' \/ ~Reached(K(x))') => told'[K(x)] = "NONE"
  BY <1>1 DEF Mails
<1> QED BY <1>1, <1>2, OwnMailOnly DEF Mails

LEMMA OthersRest ==
  ASSUME IInv, NEW x \in Request, Step(x) \/ Crash(x)
  PROVE  \A y \in Others(x) : Untouched(y)
<1> USE DEF IInv, Types, Untouched, Others, Goto, tables
<1>1. CASE Authorize(x) \/ ReadUser(x) \/ CheckUser(x) \/ CheckTenant(x) \/ ReadTicket(x)
  BY <1>1 DEF Authorize, ReadUser, CheckUser, CheckTenant, ReadTicket
<1>2. CASE WriteUser(x) \/ WriteTenant(x)
  BY <1>2 DEF WriteUser, WriteTenant, Rollback, Forget
<1>3. CASE Profile(x) \/ ListTickets(x) \/ ServeReceipt(x) \/ InsertTicket(x)
  BY <1>3 DEF Profile, ListTickets, ServeReceipt, InsertTicket, Forget
<1>4. CASE WriteTicket(x) \/ Send(x)
  BY <1>4 DEF WriteTicket, Send
<1>5. CASE Dispatch(x) \/ Commit(x) \/ Crash(x)
  BY <1>5 DEF Dispatch, Commit, Crash, CommitAll, Rollback, Forget
<1> QED BY <1>1, <1>2, <1>3, <1>4, <1>5 DEF Step

LEMMA StepPersons ==
  ASSUME IInv, NEW x \in Request, Step(x) \/ Crash(x)
  PROVE  Persons
<1>1. CASE UNCHANGED <<tenants, tickets>>
  BY <1>1 DEF Persons
<1>2. CASE Dispatch(x) \/ Commit(x)
  BY <1>2, CommitPersons DEF Dispatch, Commit
<1>3. Dispatch(x) \/ Commit(x) \/ UNCHANGED <<tenants, tickets>>
  BY DEF Step, Authorize, ReadUser, CheckUser, CheckTenant, ReadTicket, WriteUser, WriteTenant,
     Profile, ListTickets, ServeReceipt, InsertTicket, WriteTicket, Send, Crash, tables
<1> QED BY <1>1, <1>2, <1>3

\* What a request holds, it holds from its write to its commit.
LEMMA HoldsLate ==
  ASSUME Mails, NEW x \in Request, at[x] \notin {"mail", "dispatch", "commit"}
  PROVE  ~Holds(x, K(x))
  BY DEF Mails, Mailing

LEMMA EarlyStep ==
  ASSUME IInv, IInv', Mails, NEW x \in Request, UNCHANGED <<told, muddled>>,
         \/ Authorize(x) \/ ReadUser(x) \/ CheckUser(x) \/ WriteUser(x) \/ CheckTenant(x)
         \/ WriteTenant(x) \/ Profile(x) \/ ListTickets(x) \/ ServeReceipt(x) \/ ReadTicket(x)
  PROVE  Mails'
<1>0. /\ Persons /\ \A y \in Others(x) : Untouched(y)
  BY StepPersons, OthersRest DEF Step
<1>1. RequestOK(x) /\ DOMAIN at = Request /\ DOMAIN draft = Request /\ DOMAIN saw = Request
      /\ DraftOK(draft[x])
  BY DEF IInv, Types
<1>2. at[x] \notin {"mail", "dispatch", "commit"} /\ UNCHANGED tickets
  BY DEF Authorize, ReadUser, CheckUser, CheckTenant, ReadTicket, WriteUser, WriteTenant,
     Profile, ListTickets, ServeReceipt, tables
<1>3. ~Holds(x, K(x))
  BY <1>2, HoldsLate
<1>4. /\ draft'[x].tickets = draft[x].tickets \/ draft'[x] = NoDraft
      /\ at'[x] # "dispatch" /\ (at'[x] = "mail" => WriteUser(x) /\ Job[x].kind # "editUser")
      /\ at'[x] = "writeTicket" => ReadTicket(x)
  <2> USE <1>1 DEF Goto, tables
  <2>1. CASE Authorize(x)
    BY <2>1 DEF Authorize, First
  <2>2. CASE ReadUser(x) \/ CheckUser(x) \/ CheckTenant(x) \/ ReadTicket(x)
    BY <2>2 DEF ReadUser, CheckUser, CheckTenant, ReadTicket
  <2>3. CASE Profile(x) \/ ListTickets(x) \/ ServeReceipt(x)
    BY <2>3 DEF Profile, ListTickets, ServeReceipt
  <2>4. CASE WriteTenant(x)
    <3>1. CASE Rollback(x, "failed")
      BY <3>1 DEF Rollback
    <3>2. CASE ~Rollback(x, "failed")
      <4> DEFINE f == [t \in {Job[x].tenant} |-> [person |-> Job[x].person, user |-> NoUser, home |-> NoUnit]]
                 e == [draft[x] EXCEPT !.tenants = f]
      <4>1. draft' = [draft EXCEPT ![x] = e] /\ at'[x] \in {"checkUser", "commit"}
        BY <2>4, <3>2 DEF WriteTenant
      <4>2. e.tickets = draft[x].tickets
        BY DEF DraftOK
      <4> QED BY <4>1, <4>2
    <3> QED BY <3>1, <3>2
  <2>5. CASE WriteUser(x)
    <3>1. CASE Unchanged(x)
      BY <2>5, <3>1 DEF WriteUser
    <3>2. CASE Rollback(x, "failed")
      BY <3>2 DEF Rollback
    <3>3. CASE ~Unchanged(x) /\ ~Rollback(x, "failed")
      <4> DEFINE f == [u \in {Job[x].user} |-> NewUser(x)]
                 e == [draft[x] EXCEPT !.users = f, !.tenants = Linked(x)]
      <4>1. draft' = [draft EXCEPT ![x] = e]
            /\ at'[x] = (IF Job[x].kind = "editUser" THEN "commit" ELSE "mail")
        BY <2>5, <3>3 DEF WriteUser
      <4>2. e.tickets = draft[x].tickets
        BY DEF DraftOK
      <4> QED BY <2>5, <4>1, <4>2
    <3> QED BY <3>1, <3>2, <3>3
  <2> QED BY <2>1, <2>2, <2>3, <2>4, <2>5
<1>5. ~Holds(x, K(x))'
  BY <1>3, <1>4, NoDraftFacts DEF Holds, K
<1>6. at'[x] = "mail" => Job[x].kind \in {"createUser", "createTenant"}
  BY <1>1, <1>4 DEF WriteUser, RequestOK, OnTrack
<1>7. at'[x] = "writeTicket" => saw'[x].tenant = tickets'[K(x)].tenant
  BY <1>1, <1>2, <1>4 DEF ReadTicket, K, Goto
<1>8. Mailing(x)'
  BY <1>4, <1>5, <1>6, <1>7 DEF Mailing, K
<1> QED BY <1>0, <1>2, <1>3, <1>5, <1>8, QuietStep

\* What y holds is its own.
LEMMA HeldRow ==
  ASSUME IInv, NEW y \in Request, NEW k, Holds(y, k)
  PROVE  /\ k = K(y) /\ k \in Ticket /\ Job[y].kind \in {"submit", "update"}
         /\ Job[y].kind = "submit" => k \notin DOMAIN tickets
         /\ Job[y].kind = "update" => k \in DOMAIN tickets
<1>1. DraftTicket(y) /\ DraftOK(draft[y])
  BY DEF IInv, RequestOK, Types
<1>2. DOMAIN draft[y].tickets # {} /\ k = K(y) /\ k \in Ticket
  BY <1>1 DEF Holds, DraftTicket, DraftOK, Table
<1>3. Job[y].kind \in {"submit", "update"}
  BY <1>1, <1>2 DEF DraftTicket
<1> QED BY <1>1, <1>2, <1>3 DEF Holds, DraftTicket

LEMMA InsertMails ==
  ASSUME IInv, IInv', Mails, NEW x \in Request, InsertTicket(x)
  PROVE  Mails'
<1>0. /\ Persons /\ \A y \in Others(x) : Untouched(y)
  BY StepPersons, OthersRest DEF Step
<1>1. /\ at[x] = "insertTicket" /\ UNCHANGED <<tickets, told, muddled>> /\ at'[x] = "commit"
      /\ RequestOK(x)
  BY DEF InsertTicket, tables, Goto, IInv, Types
<1>2. ~Holds(x, K(x))
  BY <1>1, HoldsLate
<1>3. Job[x].kind = "submit" /\ K(x) \notin DOMAIN tickets
  BY <1>1 DEF RequestOK, OnTrack, DraftTicket
<1>4. Mailing(x)'
  BY <1>1, <1>3 DEF Mailing
<1>5. \A y \in Others(x) : ~Holds(y, K(x))
  BY <1>3, HeldRow, Distinct DEF Others
<1> QED BY <1>0, <1>1, <1>2, <1>4, <1>5, QuietStep

LEMMA WriteMails ==
  ASSUME IInv, IInv', Mails, NEW x \in Request, WriteTicket(x)
  PROVE  Mails'
<1>0. /\ Persons /\ \A y \in Others(x) : Untouched(y)
  BY StepPersons, OthersRest DEF Step
<1>1. /\ at[x] = "writeTicket" /\ UNCHANGED <<tenants, tickets, told, muddled>>
      /\ at'[x] = AfterTicket(x) /\ RequestOK(x) /\ Mailing(x)
  BY DEF WriteTicket, tables, Goto, IInv, Types, Mails
<1>2. ~Holds(x, K(x))
  BY <1>1, HoldsLate
<1>3. Job[x].kind = "update" /\ K(x) \in DOMAIN tickets /\ saw[x].tenant = tickets[K(x)].tenant
  BY <1>1 DEF RequestOK, OnTrack, DraftTicket, Mailing
<1>4. at'[x] = (IF Reached(K(x))' THEN "mail" ELSE "commit")
  BY <1>1, <1>3 DEF AfterTicket, Reached, K
<1>5. Mailing(x)'
  BY <1>1, <1>3, <1>4 DEF Mailing, K
<1>6. Holds(x, K(x))' => \A y \in Others(x) : ~Holds(y, K(x))
  <2>1. CASE draft' = draft
    BY <1>2, <2>1 DEF Holds, K
  <2>2. CASE draft' # draft
    <3>1. K(x) \notin LockedTickets(x)
      BY <2>2 DEF WriteTicket, K
    <3> QED BY <3>1 DEF LockedTickets, Holds
  <2> QED BY <2>1, <2>2
<1> QED BY <1>0, <1>1, <1>2, <1>5, <1>6, QuietStep

LEMMA SendMails ==
  ASSUME IInv, IInv', Mails, NEW x \in Request, Send(x)
  PROVE  Mails'
<1> DEFINE k == K(x)
<1>0. /\ Persons /\ \A y \in Others(x) : Untouched(y)
  BY StepPersons, OthersRest DEF Step
<1>1. /\ at[x] = "mail" /\ UNCHANGED <<tenants, tickets, draft>> /\ at'[x] = "dispatch"
      /\ RequestOK(x) /\ Mailing(x) /\ DOMAIN told = Ticket
  BY DEF Send, tables, Goto, IInv, Types, Mails
<1>2. CASE Job[x].kind # "update"
  <2>1. ~Holds(x, K(x)) /\ ~Holds(x, K(x))'
    BY <1>1, <1>2, HeldRow DEF Mailing, Holds, K
  <2>2. Mailing(x)'
    BY <1>1, <1>2, <2>1 DEF Mailing, K
  <2>3. UNCHANGED <<told, muddled>>
    BY <1>2 DEF Send
  <2> QED BY <1>0, <1>1, <2>1, <2>2, <2>3, QuietStep
<1>3. CASE Job[x].kind = "update"
  <2>1. k \in DOMAIN tickets /\ Reached(k) /\ k \in Ticket
    BY <1>1, <1>3 DEF Mailing, IInv, Types, Table
  <2>2. \/ told' = told /\ k \in muddled'
        \/ told' = [told EXCEPT ![k] = Job[x].status] /\ (Untrue(x) => k \in muddled')
    BY <1>3 DEF Send, K
  <2>3. muddled \subseteq muddled'
    BY <1>3 DEF Send
  <2>4. /\ DOMAIN told' = Ticket /\ \A i \in Ticket : i # k => told'[i] = told[i]
        /\ k \in muddled' \/ (told'[k] = Job[x].status /\ ~Untrue(x))
    BY <1>1, <2>1, <2>2
  <2>5. ASSUME ~Untrue(x)
        PROVE  /\ Holds(x, k) => draft[x].tickets[k].status = Job[x].status
               /\ ~Holds(x, k) => tickets[k].status = Job[x].status
               /\ \A y \in Others(x) : ~Holds(y, k)
    <3>1. Over(draft[x].tickets, tickets)[k].status = Job[x].status
          /\ (~Holds(x, k) => k \notin LockedTickets(x))
      BY <2>5 DEF Untrue, K, Holds
    <3>2. Over(draft[x].tickets, tickets)[k] = IF Holds(x, k) THEN draft[x].tickets[k] ELSE tickets[k]
      BY <2>1 DEF Over, Holds
    <3>3. ~Holds(x, k) => \A y \in Others(x) : ~Holds(y, k)
      BY <3>1 DEF LockedTickets, Holds
    <3>4. Holds(x, k) => \A y \in Others(x) : ~Holds(y, k)
      BY DEF Mails, Others
    <3> QED BY <3>1, <3>2, <3>3, <3>4
  <2>6. Mailing(x)'
    BY <1>1, <1>3, <2>1, <2>4, <2>5 DEF Mailing, Holds, K, Reached
  <2>7. ToldLast(k)'
    <3>1. CASE Holds(x, k)
      BY <1>1, <3>1 DEF ToldLast, Holds, K
    <3>2. CASE ~Holds(x, k)
      BY <1>1, <2>4, <2>5, <3>2 DEF ToldLast, K
    <3> QED BY <3>1, <3>2
  <2>8. Reached(k)' /\ (Holds(x, k)' => Holds(x, k)) /\ k \in DOMAIN tickets'
    BY <1>1, <2>1 DEF Reached, Holds, K
  <2>9. told'[k] = told[k] \/ k \in muddled' \/ \A y \in Others(x) : ~Holds(y, k)
    BY <2>4, <2>5
  <2> QED BY <1>0, <1>1, <2>3, <2>4, <2>6, <2>7, <2>8, <2>9, OwnMailOnly
<1> QED BY <1>2, <1>3

LEMMA CommitMails ==
  ASSUME IInv, IInv', Mails, NEW x \in Request, Dispatch(x) \/ Commit(x)
  PROVE  Mails'
<1> DEFINE k == K(x)
<1>0. /\ Persons /\ \A y \in Others(x) : Untouched(y)
  BY StepPersons, OthersRest DEF Step
<1>1. /\ CommitAll(x) /\ at[x] \in {"dispatch", "commit"} /\ at'[x] \in {"commit", "done"}
      /\ UNCHANGED <<told, muddled>> /\ draft'[x] = NoDraft /\ Mailing(x)
      /\ DOMAIN told = Ticket /\ DOMAIN tickets' \subseteq Ticket
  BY DEF Dispatch, Commit, CommitAll, Goto, IInv, Types, Table, Mails
<1>2. Merged(draft[x].tickets, tickets, tickets')
  BY <1>1, CommitMerges
<1>3. \A i : Holds(x, i) => i = k
  BY HeldRow
<1>4. ~Holds(x, k)'
  BY <1>1, NoDraftFacts DEF Holds
<1>5. Mailing(x)'
  BY <1>1, <1>4 DEF Mailing, K
<1>6. /\ DOMAIN tickets' \subseteq DOMAIN tickets \cup {k}
      /\ \A i \in DOMAIN tickets : i # k => tickets'[i] = tickets[i]
  BY <1>2, <1>3 DEF Merged, Holds
<1>7. k \in Ticket /\ (k \notin DOMAIN tickets' \/ ~Reached(k)') => told'[k] = "NONE"
  BY <1>0, <1>1, ReachedStays DEF Mails
<1>8. ASSUME k \in DOMAIN tickets'
      PROVE  ToldLast(k)'
  <2>1. CASE Holds(x, k)
    <3>1. tickets'[k] = draft[x].tickets[k]
      BY <1>2, <2>1 DEF Merged, Holds
    <3>2. CASE at[x] = "dispatch"
      BY <1>1, <2>1, <3>1, <3>2 DEF Mailing, ToldLast, K
    <3>3. CASE at[x] = "commit"
      <4>1. k \in Ticket /\ (k \notin DOMAIN tickets \/ ~Reached(k))
        BY <2>1, <3>3, <1>1, HeldRow DEF Mailing
      <4> QED BY <1>1, <4>1 DEF Mails, ToldLast, K
    <3> QED BY <1>1, <3>2, <3>3
  <2>2. CASE ~Holds(x, k)
    <3>1. k \in DOMAIN tickets /\ tickets'[k] = tickets[k]
      BY <1>2, <1>8, <2>2 DEF Merged, Holds
    <3>2. ToldLast(k)
      BY <3>1 DEF Mails
    <3>3. \A y \in Request : Holds(y, k) => Holds(y, k)' /\ at'[y] = at[y]
      BY <1>0, <2>2 DEF Holds, Others, Untouched, K
    <3> QED BY <1>1, <3>1, <3>2, <3>3 DEF ToldLast, K
  <2> QED BY <2>1, <2>2
<1>9. told'[k] = told[k] /\ muddled \subseteq muddled' /\ DOMAIN told' = Ticket
  BY <1>1 DEF K
<1> QED BY <1>0, <1>4, <1>5, <1>6, <1>7, <1>8, <1>9, <1>1, OwnMailOnly

LEMMA CrashMails ==
  ASSUME IInv, IInv', Mails, NEW x \in Request, Crash(x)
  PROVE  Mails'
<1> DEFINE k == K(x)
<1>0. /\ Persons /\ \A y \in Others(x) : Untouched(y)
  BY StepPersons, OthersRest
<1>1. /\ UNCHANGED <<tenants, tickets, told>> /\ at'[x] = "crashed" /\ draft'[x] = NoDraft
      /\ muddled \subseteq muddled' /\ Mailing(x) /\ DOMAIN told = Ticket
      /\ at[x] = "dispatch" /\ Job[x].kind = "update" => k \in muddled'
  BY DEF Crash, Rollback, Goto, tables, IInv, Types, Mails, K
<1>2. ~Holds(x, k)'
  BY <1>1, NoDraftFacts DEF Holds
<1>3. Mailing(x)'
  BY <1>1, <1>2 DEF Mailing, K
<1>4. ASSUME k \in DOMAIN tickets
      PROVE  ToldLast(k)'
  <2>1. ToldLast(k)
    BY <1>4 DEF Mails
  <2>2. at[x] = "dispatch" /\ Holds(x, k) => k \in muddled'
    BY <1>1, HeldRow DEF Mailing
  <2>3. \A y \in Others(x) : Holds(y, k) => Holds(y, k)' /\ at'[y] = at[y]
    BY <1>0 DEF Holds, Untouched, K
  <2> QED BY <1>1, <2>1, <2>2, <2>3 DEF ToldLast, K, Others
<1>5. k \in Ticket /\ (k \notin DOMAIN tickets' \/ ~Reached(k)') => told'[k] = "NONE"
  BY <1>1 DEF Mails, Reached, K
<1> QED BY <1>0, <1>1, <1>2, <1>3, <1>4, <1>5, OwnMailOnly

\* Nobody moves.
LEMMA MailsRest ==
  ASSUME IInv, Mails, Persons, UNCHANGED <<tickets, told, muddled, at, who, saw, draft>>
  PROVE  Mails'
<1>1. \A y \in Request : Mailing(y)'
  BY MailingStays DEF Mails, Untouched
<1>2. \A k \in DOMAIN tickets : Reached(k)' = Reached(k)
  BY ReachedStays
<1> QED BY <1>1, <1>2 DEF Mails, ToldLast, Holds, K

LEMMA MailsInit ==
  ASSUME Init
  PROVE  Mails
<1>1. /\ told = [k \in Ticket |-> "NONE"] /\ at \in [Request -> {"auth", "absent"}]
      /\ \A x \in Request : draft[x] = NoDraft
  BY DEF Init
<1>2. \A x \in Request : \A k : ~Holds(x, k)
  BY <1>1, NoDraftFacts DEF Holds
<1>3. DOMAIN tickets \subseteq Ticket
  BY InitEstablishes DEF IInv, Types, Table
<1> QED BY <1>1, <1>2, <1>3 DEF Mails, Mailing, ToldLast

LEMMA MailsNext ==
  ASSUME IInv, Mails, [Next]_vars
  PROVE  Mails'
<1>0. IInv'
  BY NextKeeps
<1>1. ASSUME NEW x \in Request, Step(x) \/ Crash(x)
      PROVE  Mails'
  <2>1. CASE \/ Authorize(x) \/ ReadUser(x) \/ CheckUser(x) \/ WriteUser(x) \/ CheckTenant(x)
             \/ WriteTenant(x) \/ Profile(x) \/ ListTickets(x) \/ ServeReceipt(x) \/ ReadTicket(x)
    <3>1. UNCHANGED <<told, muddled>>
      BY <2>1 DEF Authorize, ReadUser, CheckUser, CheckTenant, ReadTicket, WriteUser, WriteTenant,
         Profile, ListTickets, ServeReceipt
    <3> QED BY <1>0, <2>1, <3>1, EarlyStep
  <2>2. CASE InsertTicket(x) \/ WriteTicket(x) \/ Send(x) \/ Dispatch(x) \/ Commit(x) \/ Crash(x)
    BY <1>0, <2>2, InsertMails, WriteMails, SendMails, CommitMails, CrashMails
  <2> QED BY <1>1, <2>1, <2>2 DEF Step
<1>2. ASSUME NEW u \in User, Login(u)
      PROVE  Mails'
  <2>1. Persons /\ UNCHANGED <<tickets, told, muddled, at, who, saw, draft>>
    BY <1>2 DEF Login, tables, Persons
  <2> QED BY <2>1, MailsRest
<1>3. ASSUME NEW t \in Tenant, NEW u \in Unit \cup {NoUnit}, Rehouse(t, u)
      PROVE  Mails'
  <2>1. UNCHANGED <<tickets, told, muddled, at, who, saw, draft>>
    BY <1>3 DEF Rehouse
  <2>2. Persons
    <3> DEFINE row == [tenants[t] EXCEPT !.home = u]
    <3>1. t \in DOMAIN tenants /\ tenants' = [tenants EXCEPT ![t] = row] /\ tenants[t] \in TenantRow
      BY <1>3 DEF Rehouse, IInv, Types, Table
    <3>2. row.person = tenants[t].person
      BY <3>1 DEF TenantRow
    <3> HIDE DEF row
    <3> QED BY <2>1, <3>1, <3>2 DEF Persons
  <2> QED BY <2>1, <2>2, MailsRest
<1>4. CASE UNCHANGED vars
  <2>1. Persons
    BY <1>4 DEF vars, Persons
  <2> QED BY <1>4, <2>1, MailsRest DEF vars
<1> QED BY <1>1, <1>2, <1>3, <1>4 DEF Next

\* The last mail about a maintenance request gives the status on the books, or
\* the update that sent it is about to commit; but for mails that failed, died
\* before their commit, or told a status their update left alone.
THEOREM MailsTellStatuses == Spec => []MailTellsStatus
<1>1. ASSUME IInv, Mails
      PROVE  MailTellsStatus
  <2>1. ASSUME NEW x \in Request, NEW k \in DOMAIN tickets, at[x] = "dispatch", Holds(x, k)
        PROVE  Job[x].kind = "update" /\ Job[x].ticket = k
    <3>1. Mailing(x) /\ k = K(x) /\ Job[x].kind \in {"submit", "update"}
      BY <1>1, <2>1, HeldRow DEF Mails
    <3> QED BY <2>1, <3>1 DEF Mailing, K
  <2>2. \A k \in DOMAIN tickets : ToldLast(k)
    BY <1>1 DEF Mails
  <2> QED BY <2>1, <2>2 DEF MailTellsStatus, ToldLast
<1> QED BY <1>1, InitEstablishes, NextKeeps, MailsInit, MailsNext, PTL DEF Spec

----------------------------------------------------------------------------
(* Edits of users.                                                         *)

\* A user row in x's draft waits for a commit; one that x edited has the columns
\* of the committed row but for those the form changed from what x had read.
Edited(x) ==
  \A u \in DOMAIN draft[x].users :
    /\ at[x] \in {"mail", "dispatch", "commit"}
    /\ Job[x].kind = "editUser" =>
         /\ at[x] = "commit"
         /\ \A c \in {"person", "role", "status"} :
              draft[x].users[u][c] # users[u][c] =>
                draft[x].users[u][c] = Job[x][c] /\ saw[x][c] # Job[x][c]

Edits ==
  /\ \A x \in Request : \A y \in Others(x) : DOMAIN draft[x].users \cap DOMAIN draft[y].users = {}
  /\ \A x \in Request : Edited(x)

\* The columns an edit writes, and what it leaves as it finds it.
LEMMA NewColumns ==
  ASSUME NEW x \in Request, Job[x].kind = "editUser",
         NEW c \in {"person", "role", "status"}, NewUser(x)[c] # users[U(x)][c]
  PROVE  NewUser(x)[c] = Job[x][c] /\ saw[x][c] # Job[x][c]
  BY DEF NewUser, If, U

\* A step of x that keeps the table and writes no user.
LEMMA QuietEdits ==
  ASSUME Edits, NEW x \in Request, \A y \in Others(x) : Untouched(y), UNCHANGED users,
         \/ DOMAIN draft'[x].users = {}
         \/ draft'[x].users = draft[x].users /\ Job[x].kind # "editUser"
              /\ at'[x] \in {"mail", "dispatch", "commit"}
  PROVE  Edits'
<1>1. DOMAIN draft'[x].users \subseteq DOMAIN draft[x].users
  OBVIOUS
<1>2. \A z \in Request : z # x => Untouched(z)
  BY DEF Others
<1>3. ASSUME NEW z \in Request, NEW y \in Others(z)
      PROVE  DOMAIN draft'[z].users \cap DOMAIN draft'[y].users = {}
  <2>1. /\ DOMAIN draft'[z].users \subseteq DOMAIN draft[z].users
        /\ DOMAIN draft'[y].users \subseteq DOMAIN draft[y].users
    BY <1>1, <1>2 DEF Untouched, Others
  <2> QED BY <2>1 DEF Edits
<1>4. ASSUME NEW z \in Request
      PROVE  Edited(z)'
  <2>1. CASE z = x
    BY <2>1 DEF Edited
  <2>2. CASE z # x
    BY <1>2, <2>2 DEF Edits, Edited, Untouched
  <2> QED BY <2>1, <2>2
<1> QED BY <1>3, <1>4 DEF Edits, Others

\* Steps that neither write users nor commit.
LEMMA UsersAside ==
  ASSUME IInv, NEW x \in Request, Step(x) \/ Crash(x)
  PROVE  \/ WriteUser(x) \/ Dispatch(x) \/ Commit(x)
         \/ Crash(x) /\ UNCHANGED users /\ draft'[x] = NoDraft
         \/ UNCHANGED users /\ draft'[x].users = draft[x].users
<1>1. DraftOK(draft[x]) /\ DOMAIN draft = Request
  BY DEF IInv, Types
<1>2. CASE Crash(x)
  BY <1>1, <1>2 DEF Crash, Rollback, tables
<1>3. CASE WriteTicket(x) \/ InsertTicket(x)
  <2>1. UNCHANGED users /\ (UNCHANGED draft \/ \E f : draft' = [draft EXCEPT ![x].tickets = f])
    BY <1>3 DEF WriteTicket, InsertTicket, tables
  <2>2. \A f : [draft[x] EXCEPT !.tickets = f].users = draft[x].users
    BY <1>1 DEF DraftOK
  <2> QED BY <1>1, <2>1, <2>2
<1>4. CASE WriteTenant(x)
  <2>1. UNCHANGED users /\ (draft' = [draft EXCEPT ![x] = NoDraft]
                              \/ \E f : draft' = [draft EXCEPT ![x].tenants = f])
    BY <1>4 DEF WriteTenant, Rollback, tables
  <2>2. \A f : [draft[x] EXCEPT !.tenants = f].users = draft[x].users
    BY <1>1 DEF DraftOK
  <2>3. draft[x] = NoDraft
    BY <1>4 DEF WriteTenant, IInv, RequestOK, OnTrack
  <2> QED BY <1>1, <2>1, <2>2, <2>3
<1>5. CASE \/ Authorize(x) \/ ReadUser(x) \/ CheckUser(x) \/ CheckTenant(x) \/ Profile(x)
           \/ ListTickets(x) \/ ServeReceipt(x) \/ ReadTicket(x) \/ Send(x)
  BY <1>5 DEF Authorize, ReadUser, CheckUser, CheckTenant, Profile, ListTickets, ServeReceipt,
              ReadTicket, Send, tables
<1> QED BY <1>2, <1>3, <1>4, <1>5 DEF Step

LEMMA WriteUserEdits ==
  ASSUME IInv, Edits, NEW x \in Request, WriteUser(x)
  PROVE  Edits'
<1>0. /\ at[x] = "writeUser" /\ UNCHANGED users /\ DraftOK(draft[x]) /\ DOMAIN draft = Request
      /\ DOMAIN at = Request /\ \A y \in Others(x) : Untouched(y)
  BY OthersRest DEF WriteUser, tables, IInv, Types, Step
<1>1. DOMAIN draft[x].users = {}
  BY <1>0 DEF Edits, Edited
<1>2. CASE draft' = draft \/ draft' = [draft EXCEPT ![x] = NoDraft]
  BY <1>0, <1>1, <1>2, NoDraftFacts, QuietEdits
<1>3. CASE /\ U(x) \notin LockedUsers(x) /\ Goto(x, IF Job[x].kind = "editUser" THEN "commit" ELSE "mail")
           /\ draft' = [draft EXCEPT ![x] = WithBoth(draft[x], Row(U(x), NewUser(x)), Linked(x))]
           /\ UNCHANGED saw
  <2>1. U(x) \in User /\ NewUser(x) \in UserRow /\ Table(Linked(x), Tenant, TenantRow)
    BY <1>0, NewUserRow, LinkedRows
  <2>2. /\ Table(Row(U(x), NewUser(x)), User, UserRow)
        /\ DOMAIN Row(U(x), NewUser(x)) = {U(x)} /\ Row(U(x), NewUser(x))[U(x)] = NewUser(x)
    BY <2>1, OneRow
  <2>3. draft'[x].users = Row(U(x), NewUser(x))
    BY <1>0, <1>3, <2>1, <2>2, SetBoth
  <2>4. \A y \in Others(x) : U(x) \notin DOMAIN draft'[y].users /\ draft'[y] = draft[y]
    BY <1>0, <1>3 DEF LockedUsers, Untouched
  <2>5. ASSUME NEW z \in Request, NEW y \in Others(z)
        PROVE  DOMAIN draft'[z].users \cap DOMAIN draft'[y].users = {}
    BY <2>2, <2>3, <2>4 DEF Edits, Others
  <2>6. Edited(x)'
    <3>1. at'[x] = IF Job[x].kind = "editUser" THEN "commit" ELSE "mail"
      BY <1>0, <1>3 DEF Goto
    <3>2. ASSUME Job[x].kind = "editUser", NEW c \in {"person", "role", "status"},
                 draft'[x].users[U(x)][c] # users'[U(x)][c]
          PROVE  draft'[x].users[U(x)][c] = Job[x][c] /\ saw'[x][c] # Job[x][c]
      BY <1>0, <1>3, <2>2, <2>3, <3>2, NewColumns
    <3> QED BY <2>2, <2>3, <3>1, <3>2 DEF Edited
  <2>7. ASSUME NEW z \in Others(x)
        PROVE  Edited(z)'
    BY <1>0 DEF Edits, Edited, Untouched, Others
  <2> QED BY <2>5, <2>6, <2>7 DEF Edits, Others
<1> QED BY <1>0, <1>2, <1>3 DEF WriteUser, Rollback, WithBoth, Row, U

LEMMA CommitEdits ==
  ASSUME IInv, Edits, NEW x \in Request, CommitAll(x), \A y \in Others(x) : Untouched(y)
  PROVE  Edits'
<1>1. Merged(draft[x].users, users, users') /\ DOMAIN draft = Request
  BY CommitMerges DEF IInv, Types
<1>2. DOMAIN draft'[x].users = {}
  BY <1>1, NoDraftFacts DEF CommitAll
<1>3. ASSUME NEW z \in Request, NEW y \in Others(z)
      PROVE  DOMAIN draft'[z].users \cap DOMAIN draft'[y].users = {}
  BY <1>2 DEF Edits, Others, Untouched
<1>4. ASSUME NEW z \in Others(x)
      PROVE  Edited(z)'
  <2>1. \A u \in DOMAIN draft[z].users : u \notin DOMAIN draft[x].users
    BY DEF Edits, Others
  <2>2. \A u \in DOMAIN draft[z].users : u \in DOMAIN users \/ Job[z].kind # "editUser"
    BY DEF IInv, RequestOK, DraftUser, Others
  <2>3. \A u \in DOMAIN draft[z].users : Job[z].kind = "editUser" => users'[u] = users[u]
    BY <1>1, <2>1, <2>2 DEF Merged
  <2> QED BY <2>3 DEF Edits, Edited, Others, Untouched
<1> QED BY <1>2, <1>3, <1>4 DEF Edits, Edited, Others

LEMMA EditsRest ==
  ASSUME Edits, UNCHANGED <<users, at, saw, draft>>
  PROVE  Edits'
  BY DEF Edits, Edited

LEMMA EditsNext ==
  ASSUME IInv, Edits, [Next]_vars
  PROVE  Edits'
<1>1. ASSUME NEW x \in Request, Step(x) \/ Crash(x)
      PROVE  Edits'
  <2>0. /\ DOMAIN at = Request /\ DOMAIN draft = Request /\ Edited(x)
        /\ \A y \in Others(x) : Untouched(y)
    BY <1>1, OthersRest DEF IInv, Types, Edits
  <2>1. CASE WriteUser(x)
    BY <2>1, WriteUserEdits
  <2>2. CASE Dispatch(x) \/ Commit(x)
    BY <2>0, <2>2, CommitEdits DEF Dispatch, Commit
  <2>3. CASE Crash(x)
    <3>1. UNCHANGED users /\ draft'[x] = NoDraft
      BY <2>0, <2>3 DEF Crash, Rollback, tables
    <3> QED BY <2>0, <3>1, NoDraftFacts, QuietEdits
  <2>4. CASE /\ UNCHANGED users /\ draft'[x].users = draft[x].users
             /\ ~Crash(x) /\ ~Dispatch(x) /\ ~Commit(x) /\ ~WriteUser(x)
    <3>1. CASE DOMAIN draft[x].users = {}
      BY <2>0, <2>4, <3>1, QuietEdits
    <3>2. CASE DOMAIN draft[x].users # {}
      <4>1. at[x] \in {"mail", "dispatch", "commit"} /\ (Job[x].kind = "editUser" => at[x] = "commit")
        BY <2>0, <3>2 DEF Edited
      <4>2. Send(x)
        BY <1>1, <2>4, <4>1 DEF Step, Authorize, ReadUser, CheckUser, CheckTenant, WriteTenant, Profile,
              ListTickets, ServeReceipt, InsertTicket, ReadTicket, WriteTicket, Dispatch, Commit
      <4>3. at[x] = "mail" /\ at'[x] = "dispatch"
        BY <2>0, <4>2 DEF Send, Goto
      <4> QED BY <2>0, <2>4, <4>1, <4>3, QuietEdits
    <3> QED BY <3>1, <3>2
  <2> QED BY <1>1, <2>1, <2>2, <2>3, <2>4, UsersAside
<1>2. ASSUME NEW u \in User, Login(u)
      PROVE  Edits'
  BY <1>2, EditsRest DEF Login, tables
<1>3. ASSUME NEW t \in Tenant, NEW u \in Unit \cup {NoUnit}, Rehouse(t, u)
      PROVE  Edits'
  BY <1>3, EditsRest DEF Rehouse
<1>4. CASE UNCHANGED vars
  BY <1>4, EditsRest DEF vars
<1> QED BY <1>1, <1>2, <1>3, <1>4 DEF Next

LEMMA EditsInit ==
  ASSUME Init
  PROVE  Edits
  BY NoDraftFacts DEF Init, Edits, Edited, Others

\* What a step does to a user, it does at the commit of an edit.
LEMMA EditsShow ==
  ASSUME IInv, Edits, [Next]_vars, NEW u \in DOMAIN users, NEW c \in DOMAIN users[u],
         users'[u][c] # users[u][c]
  PROVE  \E x \in Request :
           /\ Commit(x) /\ Job[x].kind = "editUser" /\ Job[x].user = u
           /\ users'[u][c] = Job[x][c] /\ saw[x][c] # Job[x][c]
<1>1. c \in {"person", "role", "status"}
  BY DEF IInv, Types, Table, UserRow
<1>2. PICK x \in Request : Dispatch(x) \/ Commit(x)
  <2>1. ASSUME NEW x \in Request, Step(x) \/ Crash(x)
        PROVE  Dispatch(x) \/ Commit(x)
    BY <2>1, UsersAside DEF WriteUser, tables
  <2>2. ~(UNCHANGED vars) /\ ~(\E v \in User : Login(v))
          /\ ~(\E t \in Tenant, v \in Unit \cup {NoUnit} : Rehouse(t, v))
    BY DEF vars, Login, Rehouse, tables
  <2> QED BY <2>1, <2>2 DEF Next
<1>3. CommitAll(x) /\ Edited(x) /\ DraftUser(x)
  BY <1>2 DEF Dispatch, Commit, Edits, IInv, RequestOK
<1>4. Merged(draft[x].users, users, users')
  BY <1>3, CommitMerges
<1>5. u \in DOMAIN draft[x].users /\ users'[u] = draft[x].users[u]
  BY <1>4 DEF Merged
<1>6. Job[x].kind = "editUser" /\ u = Job[x].user
  BY <1>3, <1>5 DEF DraftUser, U
<1>7. at[x] = "commit" /\ draft[x].users[u][c] = Job[x][c] /\ saw[x][c] # Job[x][c]
  BY <1>1, <1>3, <1>5, <1>6 DEF Edited
<1>8. Commit(x)
  BY <1>2, <1>7 DEF Dispatch
<1> QED BY <1>5, <1>6, <1>7, <1>8

\* Edits of one user that overlap merge: what a form did not mean to change, or
\* what it found as it says, is left as another edit made it meanwhile.
THEOREM OverlappingEditsMerge == Spec => EditsMerge
<1>1. ASSUME IInv, Edits, [Next]_vars
      PROVE  [\A u \in DOMAIN users : \A c \in DOMAIN users[u] : users'[u][c] # users[u][c] =>
                \E x \in Request :
                  /\ Commit(x) /\ Job[x].kind = "editUser" /\ Job[x].user = u
                  /\ users'[u][c] = Job[x][c] /\ saw[x][c] # Job[x][c]]_vars
  BY <1>1, EditsShow
<1> QED BY <1>1, Invariant, EditsInit, EditsNext, PTL DEF Spec, EditsMerge
=============================================================================
