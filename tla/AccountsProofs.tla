--------------------------- MODULE AccountsProofs ---------------------------
(***************************************************************************)
(* Proofs about Accounts, for any users, slots, passwords and times.       *)
(*                                                                         *)
(* What makes the lock work is that as long as the requests of a user have *)
(* not overlapped, the counter is the number of wrong passwords in a row,  *)
(* and what a handler has read of the account still holds when it writes.  *)
(* That locks wear off, and that wrong passwords count in the end, holds   *)
(* however requests overlap.                                               *)
(***************************************************************************)
EXTENDS Accounts, TLAPS

----------------------------------------------------------------------------
(* The inductive invariant.                                                *)

\* Row r of a user with n wrong passwords in a row.
Earned(r, n) == r.attempts = n /\ (IsLocked(r) => n = MaxFailed)

\* What the request in slot x has read is still so.
Fresh(x) ==
  LET w == work[x]  r == accounts[w.user] IN
  /\ w.user \in Users
  /\ w.kind = "reset" => w.link \in DOMAIN links /\ links[w.link].user = w.user
  /\ w.user \notin raced =>
       /\ w.saw.attempts = r.attempts /\ (w.saw.lock = NoLock <=> r.lock = NoLock)
       /\ w.kind = "login" => ~IsLocked(r)

IInv ==
  /\ TypeOK
  /\ \A u \in User : wrong[u] <= MaxFailed /\ (u \notin Users => wrong[u] = 0)
  /\ \A u \in Users \ raced : Earned(accounts[u], wrong[u])
  /\ \A i \in DOMAIN links : links[i].user \in Users
  /\ \A x \in Slot : work[x] # Idle => Fresh(x)

----------------------------------------------------------------------------
(* Every step keeps it.                                                    *)

LEMMA InitEstablishes ==
  ASSUME Init
  PROVE  IInv
<1>1. Users = {} /\ accounts \in [Users -> AccountRow] /\ links \in Seq(LinkRow)
  BY DEF Init, Users
<1>2. TypeOK
  BY <1>1 DEF Init, TypeOK
<1> QED BY <1>1, <1>2, AccountsAssumption DEF Init, IInv

\* A handler reads the account and, for a reset, its link.
LEMMA StartKeeps ==
  ASSUME IInv, NEW x \in Slot, NEW k \in Kind, NEW u \in Users, NEW p \in Password, NEW i \in Nat,
         Start(x, k, u, p, i), UNCHANGED <<accounts, links, wrong>>,
         k = "login" => ~IsLocked(accounts[u]),
         k = "reset" => i \in DOMAIN links /\ links[i].user = u
  PROVE  IInv'
<1> DEFINE w == [kind |-> k, user |-> u, saw |-> accounts[u], typed |-> p, link |-> i]
<1>1. work' = [work EXCEPT ![x] = w] /\ raced' = raced /\ UNCHANGED <<accounts, links, wrong>>
  BY DEF Start
<1>2. w \in Work
  BY DEF IInv, TypeOK, Work
<1>3. /\ w.kind = k /\ w.user = u /\ w.saw = accounts[u] /\ w.link = i
  OBVIOUS
<1> HIDE DEF w
<1>4. work'[x] = w /\ \A y \in Slot \ {x} : work'[y] = work[y]
  BY <1>1 DEF IInv, TypeOK
<1>5. TypeOK'
  BY <1>1, <1>2 DEF IInv, TypeOK, Users
<1>6. Fresh(x)'
  BY <1>1, <1>3, <1>4 DEF Fresh, Users
<1>7. \A y \in Slot \ {x} : work'[y] # Idle => Fresh(y)'
  BY <1>1, <1>4 DEF IInv, Fresh, Users
<1> QED BY <1>1, <1>5, <1>6, <1>7 DEF IInv, Users

\* Steps outside the slots: new users and links, statuses, time.
LEMMA AsideKeeps ==
  ASSUME IInv, TypeOK', UNCHANGED <<work, wrong, raced>>, Users \subseteq Users',
         \A u \in Users : /\ accounts'[u].attempts = accounts[u].attempts
                          /\ accounts'[u].lock = NoLock <=> accounts[u].lock = NoLock
                          /\ IsLocked(accounts'[u]) => IsLocked(accounts[u]),
         \A u \in Users' \ Users : accounts'[u].attempts = 0 /\ ~IsLocked(accounts'[u]),
         DOMAIN links \subseteq DOMAIN links',
         \A i \in DOMAIN links : links'[i].user = links[i].user /\ links'[i].used = links[i].used,
         \A i \in DOMAIN links' \ DOMAIN links : links'[i].user \in Users
  PROVE  IInv'
<1>1. \A u \in Users' \ raced' : Earned(accounts'[u], wrong'[u])
  BY DEF IInv, Earned, TypeOK
<1>2. \A x \in Slot : work'[x] # Idle => Fresh(x)'
  BY DEF IInv, Fresh
<1> QED BY <1>1, <1>2 DEF IInv, Earned, TypeOK

\* Of the links, only those of user u change, and stay u's.
LinksOf(u) ==
  /\ links' \in Seq(LinkRow) /\ DOMAIN links' = DOMAIN links
  /\ \A i \in DOMAIN links : links'[i].user = links[i].user
  /\ \A i \in DOMAIN links : links[i].user # u => links'[i] = links[i]

\* A handler writes row r of its user u, who then has n wrong passwords in a row.
LEMMA FinishKeeps ==
  ASSUME IInv, NEW x \in Slot, work[x] # Idle, Finish(x), NEW u, u = work[x].user,
         NEW r \in AccountRow, accounts' = [accounts EXCEPT ![u] = r],
         NEW n \in Nat, n <= MaxFailed, wrong' = [wrong EXCEPT ![u] = n],
         u \notin raced => Earned(r, n), LinksOf(u)
  PROVE  IInv'
<1>1. u \in Users /\ u \in User
  BY DEF IInv, Fresh, TypeOK
<1>2. /\ Users' = Users /\ accounts'[u] = r /\ accounts' \in [Users -> AccountRow]
      /\ \A v \in Users \ {u} : accounts'[v] = accounts[v]
  BY <1>1 DEF IInv, TypeOK, Users
<1>3. /\ work' \in [Slot -> Work \cup {Idle}] /\ work'[x] = Idle
      /\ \A y \in Slot \ {x} : work'[y] = work[y]
  BY DEF Finish, IInv, TypeOK
<1>4. /\ raced' = raced \cup {v \in {u} : \E y \in Slot \ {x} : work[y] # Idle /\ work[y].user = v}
      /\ raced \subseteq raced' /\ raced' \subseteq User
      /\ \A y \in Slot \ {x} : work[y] # Idle /\ work[y].user = u => u \in raced'
  BY <1>1 DEF Finish, IInv, TypeOK
<1>5. wrong' \in [User -> Nat] /\ wrong'[u] = n /\ \A v \in User \ {u} : wrong'[v] = wrong[v]
  BY <1>1 DEF IInv, TypeOK
<1>6. TypeOK'
  BY <1>2, <1>3, <1>4, <1>5 DEF IInv, TypeOK, LinksOf
<1>7. \A v \in User : wrong'[v] <= MaxFailed /\ (v \notin Users' => wrong'[v] = 0)
  BY <1>1, <1>2, <1>5 DEF IInv
<1>8. \A v \in Users' \ raced' : Earned(accounts'[v], wrong'[v])
  BY <1>1, <1>2, <1>4, <1>5 DEF IInv, TypeOK
<1>9. ASSUME NEW y \in Slot, work'[y] # Idle
      PROVE  Fresh(y)'
  <2>1. y # x /\ work'[y] = work[y] /\ Fresh(y)
    BY <1>3, <1>9 DEF IInv
  <2>2. CASE work[y].user = u
    BY <1>2, <1>3, <1>4, <1>9, <2>1, <2>2 DEF Fresh, LinksOf
  <2>3. CASE work[y].user # u
    BY <1>2, <1>4, <2>1, <2>3 DEF Fresh, LinksOf
  <2> QED BY <2>2, <2>3
<1>10. \A i \in DOMAIN links' : links'[i].user \in Users'
  BY <1>2 DEF LinksOf, IInv
<1> QED BY <1>6, <1>7, <1>8, <1>9, <1>10 DEF IInv

\* What is known of a request about to finish.
LEMMA AtWork ==
  ASSUME IInv, NEW x \in Slot, work[x].kind \in Kind
  PROVE  /\ work[x] # Idle /\ work[x] \in Work /\ Fresh(x)
         /\ work[x].user \in User /\ accounts[work[x].user] \in AccountRow
         /\ wrong[work[x].user] \in Nat /\ wrong[work[x].user] <= MaxFailed
         /\ work[x].user \notin raced => Earned(accounts[work[x].user], wrong[work[x].user])
<1>1. work[x] # Idle
  BY DEF Kind, Idle
<1>2. work[x] \in Work /\ Fresh(x)
  BY <1>1 DEF IInv, TypeOK
<1>3. work[x].user \in Users
  BY <1>2 DEF Fresh
<1> QED BY <1>1, <1>2, <1>3 DEF IInv, TypeOK

\* A row that is written over, column by column.
LEMMA WrittenRow ==
  ASSUME NEW a \in AccountRow, NEW saw \in AccountRow
  PROVE  LET new == Succeeded(saw)
             r == [c \in DOMAIN a |-> IF saw[c] # new[c] THEN new[c] ELSE a[c]] IN
         /\ r \in AccountRow
         /\ r.attempts = IF saw.attempts # 0 THEN 0 ELSE a.attempts
         /\ r.lock = IF saw.lock # NoLock THEN NoLock ELSE a.lock
<1> DEFINE new == Succeeded(saw)
           r == [c \in DOMAIN a |-> IF saw[c] # new[c] THEN new[c] ELSE a[c]]
           e == [password |-> a.password, attempts |-> IF saw.attempts # 0 THEN 0 ELSE a.attempts,
                 lock |-> IF saw.lock # NoLock THEN NoLock ELSE a.lock, status |-> a.status]
<1>1. /\ DOMAIN a = {"password", "attempts", "lock", "status"}
      /\ a.password \in Password /\ a.attempts \in Nat /\ a.lock \in {NoLock} \cup Nat
      /\ a.status \in UserStatus
  BY DEF AccountRow
<1>2. /\ new.password = saw.password /\ new.status = saw.status
      /\ new.attempts = 0 /\ new.lock = NoLock
  BY DEF Succeeded, AccountRow
<1> HIDE DEF new
<1>3. /\ DOMAIN r = {"password", "attempts", "lock", "status"}
      /\ r["password"] = e.password /\ r["attempts"] = e.attempts
      /\ r["lock"] = e.lock /\ r["status"] = e.status
  BY <1>1, <1>2
<1>4. r = e
  BY <1>3
<1>5. e \in AccountRow
  BY <1>1 DEF AccountRow
<1> HIDE DEF r
<1> QED BY <1>4, <1>5 DEF r, new

LEMMA FailedRow ==
  ASSUME NEW a \in AccountRow, NEW saw \in AccountRow
  PROVE  /\ Failed(a, saw) \in AccountRow
         /\ Failed(a, saw).attempts = Count(saw.attempts)
         /\ Failed(a, saw).lock = IF saw.attempts + 1 >= MaxFailed THEN LockTime ELSE a.lock
<1> DEFINE c == Count(saw.attempts)
           l == IF saw.attempts + 1 >= MaxFailed THEN LockTime ELSE a.lock
<1>1. c \in Nat /\ l \in {NoLock} \cup Nat
  BY AccountsAssumption DEF Count, AccountRow
<1>2. Failed(a, saw) = [a EXCEPT !.attempts = c, !.lock = l]
  BY DEF Failed, AccountRow
<1> HIDE DEF c, l
<1>3. /\ Failed(a, saw) \in AccountRow /\ Failed(a, saw).attempts = c /\ Failed(a, saw).lock = l
  BY <1>1, <1>2 DEF AccountRow
<1> QED BY <1>3 DEF c, l

LEMMA FinishLoginKeeps ==
  ASSUME IInv, NEW x \in Slot, FinishLogin(x)
  PROVE  IInv'
<1> DEFINE w == work[x]
           u == w.user
           a == accounts[u]
           r == [c \in DOMAIN a |-> IF w.saw[c] # Succeeded(w.saw)[c] THEN Succeeded(w.saw)[c] ELSE a[c]]
<1>1. w.kind = "login" /\ Finish(x) /\ links' = links
  BY DEF FinishLogin
<1>2. /\ w # Idle /\ w \in Work /\ Fresh(x) /\ u \in User /\ a \in AccountRow
      /\ wrong[u] \in Nat /\ wrong[u] <= MaxFailed
      /\ u \notin raced => Earned(a, wrong[u])
  BY <1>1, AtWork DEF Kind
<1>3. w.saw \in AccountRow /\ LinksOf(u)
  BY <1>1, <1>2 DEF Work, IInv, TypeOK, LinksOf
<1>4. u \notin raced => w.saw.attempts = a.attempts /\ (w.saw.lock = NoLock <=> a.lock = NoLock)
                      /\ ~IsLocked(a)
  BY <1>1, <1>2 DEF Fresh
<1>5. CASE w.typed = w.saw.password
  <2>1. accounts' = [accounts EXCEPT ![u] = r] /\ wrong' = [wrong EXCEPT ![u] = 0]
    BY <1>5 DEF FinishLogin, Write
  <2>2. /\ r \in AccountRow
        /\ r.attempts = IF w.saw.attempts # 0 THEN 0 ELSE a.attempts
        /\ r.lock = IF w.saw.lock # NoLock THEN NoLock ELSE a.lock
    BY <1>2, <1>3, WrittenRow
  <2> HIDE DEF r
  <2>3. u \notin raced => Earned(r, 0)
    BY <1>4, <2>2 DEF Earned, IsLocked, NoLock
  <2>4. 0 <= MaxFailed
    BY AccountsAssumption
  <2> HIDE DEF u, w
  <2> QED BY <1>1, <1>2, <1>3, <2>1, <2>2, <2>3, <2>4, FinishKeeps DEF u, w
<1>6. CASE w.typed # w.saw.password
  <2> DEFINE f == Failed(a, w.saw)
             n == Count(wrong[u])
  <2>1. accounts' = [accounts EXCEPT ![u] = f] /\ wrong' = [wrong EXCEPT ![u] = n]
    BY <1>6 DEF FinishLogin
  <2>2. f \in AccountRow /\ f.attempts = Count(w.saw.attempts)
        /\ f.lock = IF w.saw.attempts + 1 >= MaxFailed THEN LockTime ELSE a.lock
    BY <1>2, <1>3, FailedRow
  <2> HIDE DEF f
  <2>3. n \in Nat /\ n <= MaxFailed
    BY <1>2, AccountsAssumption DEF Count
  <2>4. u \notin raced => Earned(f, n)
    BY <1>2, <1>4, <2>2, AccountsAssumption DEF Earned, IsLocked, Count
  <2> HIDE DEF n, u, w
  <2> QED BY <1>1, <1>2, <1>3, <2>1, <2>2, <2>3, <2>4, FinishKeeps DEF u, w
<1> QED BY <1>5, <1>6

LEMMA FinishResetKeeps ==
  ASSUME IInv, NEW x \in Slot, FinishReset(x)
  PROVE  IInv'
<1> DEFINE w == work[x]
           u == w.user
           a == accounts[u]
           r == [a EXCEPT !.password = w.typed]
<1>1. w.kind = "reset" /\ Finish(x)
      /\ accounts' = [accounts EXCEPT ![u] = r] /\ wrong' = wrong
      /\ links' = [links EXCEPT ![w.link].used = TRUE]
  BY DEF FinishReset
<1>2. /\ w # Idle /\ w \in Work /\ Fresh(x) /\ u \in User /\ a \in AccountRow
      /\ wrong[u] \in Nat /\ wrong[u] <= MaxFailed
      /\ u \notin raced => Earned(a, wrong[u])
  BY <1>1, AtWork DEF Kind
<1>3. r \in AccountRow /\ r.attempts = a.attempts /\ r.lock = a.lock
  BY <1>2 DEF Work, AccountRow
<1>4. u \notin raced => Earned(r, wrong[u])
  BY <1>2, <1>3 DEF Earned, IsLocked
<1>5. wrong' = [wrong EXCEPT ![u] = wrong[u]]
  BY <1>1, <1>2 DEF IInv, TypeOK
<1>6. LinksOf(u)
  <2> DEFINE row == [links[w.link] EXCEPT !.used = TRUE]
  <2>1. links \in Seq(LinkRow) /\ w.link \in DOMAIN links /\ links[w.link].user = u
    BY <1>1, <1>2 DEF Fresh, IInv, TypeOK
  <2>2. links[w.link] \in LinkRow
    BY <2>1
  <2>3. row \in LinkRow /\ row.user = u
    BY <2>1, <2>2 DEF LinkRow
  <2>4. links' = [links EXCEPT ![w.link] = row]
    BY <1>1
  <2> HIDE DEF row, u, w
  <2> QED BY <2>1, <2>3, <2>4 DEF LinksOf
<1> HIDE DEF r
<1> HIDE DEF u, w
<1> QED BY <1>1, <1>2, <1>3, <1>4, <1>5, <1>6, FinishKeeps DEF u, w

LEMMA FinishChangeKeeps ==
  ASSUME IInv, NEW x \in Slot, FinishChange(x)
  PROVE  IInv'
<1> DEFINE w == work[x]
           u == w.user
           a == accounts[u]
           r == [a EXCEPT !.password = w.typed]
<1>1. w.kind = "change" /\ Finish(x) /\ accounts' = [accounts EXCEPT ![u] = r]
      /\ wrong' = wrong /\ links' = links
  BY DEF FinishChange
<1>2. /\ w # Idle /\ w \in Work /\ u \in User /\ a \in AccountRow
      /\ wrong[u] \in Nat /\ wrong[u] <= MaxFailed
      /\ u \notin raced => Earned(a, wrong[u])
  BY <1>1, AtWork DEF Kind
<1>3. r \in AccountRow /\ r.attempts = a.attempts /\ r.lock = a.lock
  BY <1>2 DEF Work, AccountRow
<1>4. u \notin raced => Earned(r, wrong[u])
  BY <1>2, <1>3 DEF Earned, IsLocked
<1>5. wrong' = [wrong EXCEPT ![u] = wrong[u]] /\ LinksOf(u)
  BY <1>1, <1>2 DEF IInv, TypeOK, LinksOf
<1> HIDE DEF r
<1> HIDE DEF u, w
<1> QED BY <1>1, <1>2, <1>3, <1>4, <1>5, FinishKeeps DEF u, w

LEMMA FinishAdminResetKeeps ==
  ASSUME IInv, NEW x \in Slot, FinishAdminReset(x)
  PROVE  IInv'
<1> DEFINE w == work[x]
           u == w.user
           a == accounts[u]
           r == [password |-> Default,
                 attempts |-> IF w.saw.attempts # 0 THEN 0 ELSE a.attempts,
                 lock |-> IF w.saw.lock # NoLock THEN NoLock ELSE a.lock,
                 status |-> a.status]
<1>1. w.kind = "adminReset" /\ Finish(x) /\ accounts' = [accounts EXCEPT ![u] = r]
      /\ wrong' = [wrong EXCEPT ![u] = 0] /\ links' = links
  BY DEF FinishAdminReset
<1>2. /\ w # Idle /\ Fresh(x) /\ u \in User /\ a \in AccountRow
  BY <1>1, AtWork DEF Kind
<1>3. r \in AccountRow
  BY <1>2, AccountsAssumption DEF AccountRow
<1>4. u \notin raced => Earned(r, 0)
  BY <1>2 DEF Fresh, Earned, IsLocked, NoLock
<1>5. 0 <= MaxFailed /\ LinksOf(u)
  BY <1>1, AccountsAssumption DEF IInv, TypeOK, LinksOf
<1> HIDE DEF r
<1> HIDE DEF u, w
<1> QED BY <1>1, <1>2, <1>3, <1>4, <1>5, FinishKeeps DEF u, w
----------------------------------------------------------------------------
(* Steps outside the slots.                                                *)

LEMMA CreateUserKeeps ==
  ASSUME IInv, NEW u \in User, CreateUser(u)
  PROVE  IInv'
<1> DEFINE row == [password |-> Default, attempts |-> 0, lock |-> NoLock, status |-> "ACTIVE"]
<1>1. /\ u \notin Users /\ UNCHANGED <<links, work, wrong, raced>>
      /\ accounts' = [v \in Users \cup {u} |-> IF v = u THEN row ELSE accounts[v]]
  BY DEF CreateUser
<1>2. row \in AccountRow /\ row.attempts = 0 /\ ~IsLocked(row)
  BY AccountsAssumption DEF AccountRow, UserStatus, IsLocked, NoLock
<1> HIDE DEF row
<1>3. /\ Users' = Users \cup {u} /\ accounts'[u] = row
      /\ \A v \in Users : accounts'[v] = accounts[v]
  BY <1>1 DEF Users
<1>4. TypeOK'
  BY <1>1, <1>2, <1>3 DEF IInv, TypeOK
<1> QED BY <1>1, <1>2, <1>3, <1>4, AsideKeeps

LEMMA RequestLinkKeeps ==
  ASSUME IInv, NEW u \in User, RequestLink(u)
  PROVE  IInv'
<1> DEFINE row == [user |-> u, life |-> LinkLife, used |-> FALSE]
<1>1. /\ UNCHANGED <<accounts, work, wrong, raced>> /\ links' = Append(links, row)
      /\ links \in Seq(LinkRow)
  BY DEF RequestLink, IInv, TypeOK
<1>2. row \in LinkRow /\ row.user \in Users
  BY AccountsAssumption DEF LinkRow, RequestLink
<1> HIDE DEF row
<1>3. /\ links' \in Seq(LinkRow) /\ DOMAIN links \subseteq DOMAIN links'
      /\ \A i \in DOMAIN links : links'[i] = links[i]
      /\ \A i \in DOMAIN links' \ DOMAIN links : links'[i] = row
  BY <1>1, <1>2
<1>4. TypeOK' /\ Users' = Users
  BY <1>1, <1>3 DEF IInv, TypeOK, Users
<1> QED BY <1>1, <1>2, <1>3, <1>4, AsideKeeps

LEMMA SetStatusKeeps ==
  ASSUME IInv, NEW u \in User, NEW st \in StatusEdits, SetStatus(u, st)
  PROVE  IInv'
<1> DEFINE row == [accounts[u] EXCEPT !.status = st]
<1>1. /\ UNCHANGED <<links, work, wrong, raced>> /\ u \in Users
      /\ accounts' = [accounts EXCEPT ![u] = row]
  BY DEF SetStatus
<1>2. row \in AccountRow /\ row.attempts = accounts[u].attempts /\ row.lock = accounts[u].lock
  BY <1>1, AccountsAssumption DEF IInv, TypeOK, AccountRow
<1> HIDE DEF row
<1>3. /\ Users' = Users /\ accounts'[u] = row
      /\ \A v \in Users \ {u} : accounts'[v] = accounts[v]
  BY <1>1 DEF IInv, TypeOK, Users
<1>4. TypeOK'
  BY <1>1, <1>2, <1>3 DEF IInv, TypeOK, Users
<1> QED BY <1>1, <1>2, <1>3, <1>4, AsideKeeps DEF IsLocked

LEMMA TickKeeps ==
  ASSUME IInv, Tick
  PROVE  IInv'
<1>1. /\ UNCHANGED <<work, wrong, raced>>
      /\ accounts' = [u \in Users |-> [accounts[u] EXCEPT !.lock = Less(@)]]
      /\ links' = [i \in DOMAIN links |-> [links[i] EXCEPT !.life = Less(@)]]
      /\ links \in Seq(LinkRow) /\ accounts \in [Users -> AccountRow]
  BY DEF Tick, IInv, TypeOK
<1>2. ASSUME NEW r \in AccountRow
      PROVE  LET n == [r EXCEPT !.lock = Less(@)] IN
             /\ n \in AccountRow /\ n.attempts = r.attempts
             /\ n.lock = NoLock <=> r.lock = NoLock
             /\ IsLocked(n) => IsLocked(r)
  BY DEF AccountRow, Less, IsLocked, NoLock
<1>3. ASSUME NEW r \in LinkRow
      PROVE  LET n == [r EXCEPT !.life = Less(@)] IN
             n \in LinkRow /\ n.user = r.user /\ n.used = r.used
  BY DEF LinkRow, Less
<1>4. /\ Users' = Users /\ accounts' \in [Users -> AccountRow]
      /\ \A u \in Users : /\ accounts'[u].attempts = accounts[u].attempts
                          /\ accounts'[u].lock = NoLock <=> accounts[u].lock = NoLock
                          /\ IsLocked(accounts'[u]) => IsLocked(accounts[u])
  BY <1>1, <1>2 DEF Users
<1>5. /\ links' \in Seq(LinkRow) /\ DOMAIN links' = DOMAIN links
      /\ \A i \in DOMAIN links : links'[i].user = links[i].user /\ links'[i].used = links[i].used
  <2>1. DOMAIN links = 1 .. Len(links) /\ Len(links) \in Nat /\ \A i \in DOMAIN links : links[i] \in LinkRow
    BY <1>1
  <2>2. \A i \in DOMAIN links : /\ links'[i] \in LinkRow
                               /\ links'[i].user = links[i].user /\ links'[i].used = links[i].used
    BY <1>1, <1>3, <2>1
  <2>3. links' \in [1 .. Len(links) -> LinkRow]
    BY <1>1, <2>1, <2>2
  <2> QED BY <2>1, <2>2, <2>3
<1>6. TypeOK'
  BY <1>1, <1>4, <1>5 DEF IInv, TypeOK
<1> QED BY <1>1, <1>4, <1>5, <1>6, AsideKeeps

LEMMA StandStill ==
  ASSUME IInv, UNCHANGED vars
  PROVE  IInv'
  BY DEF vars, IInv, TypeOK, Users, Fresh, Earned
----------------------------------------------------------------------------
(* The invariant.                                                          *)

LEMMA StartsKeep ==
  ASSUME IInv, NEW x \in Slot
  PROVE  /\ \A u \in User, p \in Password : StartLogin(x, u, p) \/ StartChange(x, u, p) => IInv'
         /\ \A i \in DOMAIN links, p \in Password : StartReset(x, i, p) => IInv'
         /\ \A u \in User : StartAdminReset(x, u) => IInv'
<1>1. ASSUME NEW u \in User, NEW p \in Password, StartLogin(x, u, p)
      PROVE  IInv'
  BY <1>1, StartKeeps DEF StartLogin, MaySignIn, Kind
<1>2. ASSUME NEW u \in User, NEW p \in Password, StartChange(x, u, p)
      PROVE  IInv'
  BY <1>2, StartKeeps DEF StartChange, Kind
<1>3. ASSUME NEW i \in DOMAIN links, NEW p \in Password, StartReset(x, i, p)
      PROVE  IInv'
  <2>1. links \in Seq(LinkRow)
    BY DEF IInv, TypeOK
  <2>2. i \in Nat /\ links[i].user \in Users
    BY <2>1 DEF IInv
  <2> QED BY <1>3, <2>1, <2>2, StartKeeps DEF StartReset, Candidates, Kind
<1>4. ASSUME NEW u \in User, StartAdminReset(x, u)
      PROVE  IInv'
  BY <1>4, StartKeeps, AccountsAssumption DEF StartAdminReset, Kind
<1> QED BY <1>1, <1>2, <1>3, <1>4

LEMMA NextKeeps ==
  ASSUME IInv, [Next]_vars
  PROVE  IInv'
<1>1. ASSUME NEW x \in Slot, FinishAny(x)
      PROVE  IInv'
  BY <1>1, FinishLoginKeeps, FinishResetKeeps, FinishChangeKeeps, FinishAdminResetKeeps DEF FinishAny
<1> QED BY <1>1, StartsKeep, CreateUserKeeps, RequestLinkKeeps, SetStatusKeeps, TickKeeps, StandStill
        DEF Next

LEMMA Invariant == Spec => []IInv
  BY InitEstablishes, NextKeeps, PTL DEF Spec

\* Accounts, links and the requests at work keep their types.
THEOREM TypeCorrect == Spec => []TypeOK
<1>1. IInv => TypeOK
  BY DEF IInv
<1> QED BY <1>1, Invariant, PTL

\* A locked account has had MaxFailed wrong passwords in a row, unless requests
\* about it have overlapped.
THEOREM LocksAreEarned == Spec => []LockIsEarned
<1>1. IInv => LockIsEarned
  BY DEF IInv, Earned, LockIsEarned
<1> QED BY <1>1, Invariant, PTL

\* The last of MaxFailed wrong passwords in a row, and each one after it, leaves
\* the account locked, unless requests about it have overlapped.
THEOREM WrongPasswordsLock == Spec => LockedAfterMaxFailed
<1>1. ASSUME IInv, NEW x \in Slot, FinishLogin(x), work[x].user \notin raced',
             wrong'[work[x].user] = MaxFailed
      PROVE  IsLocked(accounts'[work[x].user])
  <2> DEFINE w == work[x]
             u == w.user
             a == accounts[u]
  <2>1. w.kind = "login" /\ raced \subseteq raced'
    BY <1>1 DEF FinishLogin, Finish
  <2>2. /\ w \in Work /\ Fresh(x) /\ u \in User /\ u \in Users /\ a \in AccountRow
        /\ wrong[u] \in Nat /\ wrong[u] <= MaxFailed /\ u \notin raced /\ Earned(a, wrong[u])
    BY <1>1, <2>1, AtWork DEF Kind, Fresh
  <2>3. w.saw \in AccountRow /\ w.saw.attempts = a.attempts
    BY <2>2 DEF Fresh, Work
  <2>4. w.typed # w.saw.password
    BY <1>1, <2>2, AccountsAssumption DEF FinishLogin, IInv, TypeOK
  <2>5. accounts' = [accounts EXCEPT ![u] = Failed(a, w.saw)] /\ wrong'[u] = Count(wrong[u])
    BY <1>1, <2>2, <2>4 DEF FinishLogin, IInv, TypeOK
  <2>6. accounts'[u] = Failed(a, w.saw)
    BY <2>2, <2>5 DEF Users
  <2>7. wrong[u] + 1 >= MaxFailed
    BY <1>1, <2>2, <2>5, AccountsAssumption DEF Count
  <2>8. Failed(a, w.saw).lock = LockTime
    BY <2>2, <2>3, <2>7, FailedRow DEF Earned
  <2> QED BY <2>6, <2>8, AccountsAssumption DEF IsLocked
<1>2. ASSUME IInv, [Next]_vars
      PROVE  [\A x \in Slot : FinishLogin(x) /\ work[x].user \notin raced'
                               /\ wrong'[work[x].user] = MaxFailed
                => IsLocked(accounts'[work[x].user])]_vars
  BY <1>1, <1>2
<1> QED BY <1>2, Invariant, PTL DEF Spec, LockedAfterMaxFailed

----------------------------------------------------------------------------
(* What a lock can wait for: the core of LockRunsOut.                      *)

\* The sign-ins of user u between their Start and Finish.
SigningIn(u) == {x \in Slot : work[x].kind = "login" /\ work[x].user = u}

\* No sign-in begins, and the lock moves up only when one ends.
Settling(u) ==
  /\ u \in Users' /\ SigningIn(u)' \subseteq SigningIn(u)
  /\ accounts'[u].lock > accounts[u].lock => SigningIn(u)' # SigningIn(u)

\* While an account is locked no sign-in begins for it, its lock moves up only
\* when one that began before ends, and time takes from it: only the sign-ins
\* under way can make a lock last longer, each of them once
\* (auth_service.py:32).
LocksWearOff ==
  [][\A u \in Users : IsLocked(accounts[u]) =>
       Settling(u) /\ (Tick => accounts'[u].lock < accounts[u].lock)]_vars

LEMMA LockIsNumber ==
  ASSUME IInv, NEW u \in Users
  PROVE  accounts[u] \in AccountRow /\ accounts[u].lock \in Int
  BY DEF IInv, TypeOK, AccountRow, NoLock

\* Of the slots only x changes, and not into a sign-in of u.
LEMMA SlotSettles ==
  ASSUME IInv, NEW u \in Users, NEW x \in Slot, NEW w, work' = [work EXCEPT ![x] = w],
         w.kind = "login" => w.user # u, u \in Users',
         accounts'[u].lock = accounts[u].lock \/ (accounts'[u].lock = NoLock)
           \/ (work[x].kind = "login" /\ work[x].user = u)
  PROVE  Settling(u)
<1>1. work'[x] = w /\ \A y \in Slot \ {x} : work'[y] = work[y]
  BY DEF IInv, TypeOK
<1>2. SigningIn(u)' \subseteq SigningIn(u) /\ x \notin SigningIn(u)'
  BY <1>1 DEF SigningIn
<1>3. ASSUME accounts'[u].lock > accounts[u].lock
      PROVE  x \in SigningIn(u)
  <2>1. accounts[u].lock \in Int /\ accounts[u].lock >= NoLock
    BY DEF IInv, TypeOK, AccountRow, NoLock
  <2> QED BY <1>3, <2>1 DEF SigningIn, NoLock
<1> QED BY <1>2, <1>3 DEF Settling

\* No slot changes, and the lock does not move up.
LEMMA AsideSettles ==
  ASSUME NEW u \in Users, UNCHANGED work, u \in Users', ~(accounts'[u].lock > accounts[u].lock)
  PROVE  Settling(u)
  BY DEF Settling, SigningIn

LEMMA StartsSettle ==
  ASSUME IInv, NEW u \in Users, IsLocked(accounts[u]), NEW x \in Slot
  PROVE  /\ \A v \in User, p \in Password : StartLogin(x, v, p) \/ StartChange(x, v, p) => Settling(u)
         /\ \A i \in DOMAIN links, p \in Password : StartReset(x, i, p) => Settling(u)
         /\ \A v \in User : StartAdminReset(x, v) => Settling(u)
<1>1. ASSUME NEW k, NEW v, NEW p, NEW i, Start(x, k, v, p, i), UNCHANGED accounts,
             k = "login" => v # u
      PROVE  Settling(u)
  <2> DEFINE w == [kind |-> k, user |-> v, saw |-> accounts[v], typed |-> p, link |-> i]
  <2>1. work' = [work EXCEPT ![x] = w] /\ w.kind = k /\ w.user = v
    BY <1>1 DEF Start
  <2>2. u \in Users' /\ accounts'[u].lock = accounts[u].lock
    BY <1>1 DEF Users
  <2> HIDE DEF w
  <2> QED BY <1>1, <2>1, <2>2, SlotSettles
<1> QED BY <1>1 DEF StartLogin, MaySignIn, StartChange, StartReset, StartAdminReset

LEMMA FinishesSettle ==
  ASSUME IInv, NEW u \in Users, NEW x \in Slot, FinishAny(x)
  PROVE  Settling(u)
<1> DEFINE w == work[x]
           v == w.user
           a == accounts[v]
<1>1. Finish(x) /\ w.kind \in Kind
  BY DEF FinishAny, FinishLogin, FinishReset, FinishChange, FinishAdminReset, Kind
<1>2. w \in Work /\ v \in Users /\ a \in AccountRow
  BY <1>1, AtWork DEF Fresh
<1>3. work' = [work EXCEPT ![x] = Idle] /\ Idle.kind = "idle"
  BY <1>1 DEF Finish, Idle
<1>4. PICK r : accounts' = [accounts EXCEPT ![v] = r]
                 /\ (r.lock = a.lock \/ r.lock = NoLock \/ w.kind = "login")
  <2>1. CASE FinishLogin(x)
    <3>1. \E r : accounts' = [accounts EXCEPT ![v] = r]
      BY <2>1 DEF FinishLogin, Write
    <3> QED BY <2>1, <3>1 DEF FinishLogin
  <2>2. CASE FinishReset(x) \/ FinishChange(x)
    <3> DEFINE r == [a EXCEPT !.password = w.typed]
    <3>1. accounts' = [accounts EXCEPT ![v] = r]
      BY <2>2 DEF FinishReset, FinishChange
    <3>2. r.lock = a.lock
      BY <1>2 DEF AccountRow
    <3> HIDE DEF r
    <3> QED BY <3>1, <3>2
  <2>3. CASE FinishAdminReset(x)
    <3> DEFINE r == [password |-> Default,
                     attempts |-> IF w.saw.attempts # 0 THEN 0 ELSE a.attempts,
                     lock |-> IF w.saw.lock # NoLock THEN NoLock ELSE a.lock,
                     status |-> a.status]
    <3>1. accounts' = [accounts EXCEPT ![v] = r]
      BY <2>3 DEF FinishAdminReset
    <3>2. r.lock = a.lock \/ r.lock = NoLock
      OBVIOUS
    <3> HIDE DEF r
    <3> QED BY <3>1, <3>2
  <2> QED BY <2>1, <2>2, <2>3 DEF FinishAny
<1>5. /\ u \in Users'
      /\ v # u => accounts'[u] = accounts[u]
      /\ v = u => accounts'[u] = r
  BY <1>2, <1>4 DEF IInv, TypeOK, Users
<1>6. accounts'[u].lock = accounts[u].lock \/ accounts'[u].lock = NoLock
        \/ (w.kind = "login" /\ v = u)
  BY <1>4, <1>5
<1>7. Idle.kind = "login" => Idle.user # u
  BY <1>3
<1>8. u \in Users'
  BY <1>5
<1> QED BY <1>3, <1>6, <1>7, <1>8, SlotSettles

LEMMA AsidesSettle ==
  ASSUME IInv, NEW u \in Users
  PROVE  /\ \A v \in User : CreateUser(v) \/ RequestLink(v) => Settling(u)
         /\ \A v \in User, s \in StatusEdits : SetStatus(v, s) => Settling(u)
<1>0. accounts[u] \in AccountRow /\ accounts[u].lock \in Int /\ accounts \in [Users -> AccountRow]
  BY LockIsNumber DEF IInv, TypeOK
<1>1. ASSUME NEW v \in User, CreateUser(v)
      PROVE  Settling(u)
  <2>1. u \in Users' /\ accounts'[u] = accounts[u] /\ UNCHANGED work
    BY <1>1 DEF CreateUser, Users
  <2> QED BY <1>0, <2>1, AsideSettles
<1>2. ASSUME NEW v \in User, RequestLink(v)
      PROVE  Settling(u)
  BY <1>0, <1>2, AsideSettles DEF RequestLink, Users
<1>3. ASSUME NEW v \in User, NEW s \in StatusEdits, SetStatus(v, s)
      PROVE  Settling(u)
  <2> DEFINE r == [accounts[v] EXCEPT !.status = s]
  <2>1. v \in Users /\ UNCHANGED work /\ accounts' = [accounts EXCEPT ![v] = r]
    BY <1>3 DEF SetStatus
  <2>2. r.lock = accounts[v].lock
    BY <1>0, <2>1 DEF AccountRow
  <2> HIDE DEF r
  <2>3. u \in Users' /\ accounts'[u].lock = accounts[u].lock
    BY <1>0, <2>1, <2>2 DEF Users
  <2> QED BY <1>0, <2>1, <2>3, AsideSettles
<1> QED BY <1>1, <1>2, <1>3

LEMMA TickLowers ==
  ASSUME IInv, NEW u \in Users, IsLocked(accounts[u]), Tick
  PROVE  Settling(u) /\ accounts'[u].lock < accounts[u].lock
<1>1. accounts[u] \in AccountRow /\ accounts[u].lock \in Int /\ accounts[u].lock > 0
  BY LockIsNumber DEF IsLocked
<1>2. accounts'[u] = [accounts[u] EXCEPT !.lock = Less(@)] /\ u \in Users' /\ UNCHANGED work
  BY DEF Tick, Users
<1>3. accounts'[u].lock = accounts[u].lock - 1
  BY <1>1, <1>2 DEF AccountRow, Less
<1>4. ~(accounts'[u].lock > accounts[u].lock)
  BY <1>1, <1>3
<1>5. accounts'[u].lock < accounts[u].lock
  BY <1>1, <1>3
<1>6. Settling(u)
  BY <1>2, <1>4, AsideSettles
<1> QED BY <1>5, <1>6

\* A lock is prolonged only by the sign-ins that had begun before it, each of
\* them once, and time wears it off.
THEOREM LocksWear == Spec => LocksWearOff
<1>1. ASSUME IInv, [Next]_vars, NEW u \in Users, IsLocked(accounts[u])
      PROVE  Settling(u)
  <2>1. CASE UNCHANGED vars
    BY <1>1, <2>1, AsideSettles, LockIsNumber DEF vars, Users
  <2>2. CASE Tick
    BY <1>1, <2>2, TickLowers
  <2>3. ASSUME NEW x \in Slot, FinishAny(x)
        PROVE  Settling(u)
    BY <1>1, <2>3, FinishesSettle
  <2> QED BY <1>1, <2>1, <2>2, <2>3, StartsSettle, AsidesSettle DEF Next
<1>2. ASSUME IInv, [Next]_vars
      PROVE  [\A u \in Users : IsLocked(accounts[u]) =>
                Settling(u) /\ (Tick => accounts'[u].lock < accounts[u].lock)]_vars
  BY <1>1, <1>2, TickLowers
<1> QED BY <1>2, Invariant, PTL DEF Spec, LocksWearOff

----------------------------------------------------------------------------
(* How counts that overwrite each other still add up: the core of          *)
(* WrongPasswordsEndInLock.                                                *)

\* The counter of u, and every count of it that a sign-in has read, is n or more.
Floor(u, n) == accounts[u].attempts >= n /\ \A x \in SigningIn(u) : work[x].saw.attempts >= n

\* The sign-ins that have read n itself.
Behind(u, n) == {x \in SigningIn(u) : work[x].saw.attempts = n}

\* The floor holds; a counter above it stays above it, and then no more sign-ins
\* fall behind; and one that ends lifts the counter above it, or locks.
Climbing(u, n) ==
  /\ u \in Users' /\ Floor(u, n)'
  /\ accounts[u].attempts > n =>
       accounts'[u].attempts > n /\ Behind(u, n)' \subseteq Behind(u, n)
  /\ ~(SigningIn(u) \subseteq SigningIn(u)') =>
       accounts'[u].attempts > n /\ (n + 1 = MaxFailed => IsLocked(accounts'[u]))

\* However requests overlap, only a sign-in with the right password or the
\* administrator's reset takes a counter below what every sign-in under way has
\* read of it; each wrong password takes it above, and locks when that is enough
\* (auth_service.py:34-40).
CountsClimb ==
  [][\A u \in Users, n \in 0 .. MaxFailed - 1 :
       Floor(u, n) /\ ~Cleared(u) => Climbing(u, n)]_vars

\* The counter stands and no sign-in ends; one that begins reads the counter.
LEMMA QuietClimbs ==
  ASSUME IInv, NEW u \in Users, NEW n \in 0 .. MaxFailed - 1, Floor(u, n), u \in Users',
         accounts'[u].attempts = accounts[u].attempts, SigningIn(u) \subseteq SigningIn(u)',
         \A y \in SigningIn(u)' : \/ y \in SigningIn(u) /\ work'[y] = work[y]
                                  \/ work'[y].saw.attempts = accounts[u].attempts
  PROVE  Climbing(u, n)
<1>1. accounts[u].attempts \in Nat /\ n \in Nat
  BY AccountsAssumption DEF IInv, TypeOK, AccountRow
<1>2. Floor(u, n)'
  BY <1>1 DEF Floor
<1>3. ASSUME accounts[u].attempts > n
      PROVE  Behind(u, n)' \subseteq Behind(u, n)
  BY <1>1, <1>3 DEF Behind
<1> QED BY <1>2, <1>3 DEF Climbing

LEMMA StartsClimb ==
  ASSUME IInv, NEW u \in Users, NEW n \in 0 .. MaxFailed - 1, Floor(u, n), NEW x \in Slot
  PROVE  /\ \A v \in User, p \in Password : StartLogin(x, v, p) \/ StartChange(x, v, p) => Climbing(u, n)
         /\ \A i \in DOMAIN links, p \in Password : StartReset(x, i, p) => Climbing(u, n)
         /\ \A v \in User : StartAdminReset(x, v) => Climbing(u, n)
<1>1. ASSUME NEW k, NEW v, NEW p, NEW i, work[x] = Idle, Start(x, k, v, p, i), UNCHANGED accounts
      PROVE  Climbing(u, n)
  <2> DEFINE w == [kind |-> k, user |-> v, saw |-> accounts[v], typed |-> p, link |-> i]
  <2>1. work' = [work EXCEPT ![x] = w] /\ w.user = v /\ w.saw = accounts[v]
    BY <1>1 DEF Start
  <2>2. u \in Users' /\ accounts'[u].attempts = accounts[u].attempts
    BY <1>1 DEF Users
  <2> HIDE DEF w
  <2>3. work'[x] = w /\ \A y \in Slot \ {x} : work'[y] = work[y]
    BY <2>1 DEF IInv, TypeOK
  <2>4. x \notin SigningIn(u)
    BY <1>1 DEF SigningIn, Idle
  <2>5. SigningIn(u) \subseteq SigningIn(u)'
    BY <2>3, <2>4 DEF SigningIn
  <2>6. \A y \in SigningIn(u)' : \/ y \in SigningIn(u) /\ work'[y] = work[y]
                                 \/ work'[y].saw.attempts = accounts[u].attempts
    BY <2>1, <2>3 DEF SigningIn
  <2> QED BY <2>2, <2>5, <2>6, QuietClimbs
<1> QED BY <1>1 DEF StartLogin, StartChange, StartReset, StartAdminReset

\* Steps that leave the slots alone, and the counters of those there are.
LEMMA AsideClimbs ==
  ASSUME IInv, NEW u \in Users, NEW n \in 0 .. MaxFailed - 1, Floor(u, n), u \in Users',
         accounts'[u].attempts = accounts[u].attempts, UNCHANGED work
  PROVE  Climbing(u, n)
<1>1. SigningIn(u)' = SigningIn(u)
  BY DEF SigningIn
<1> QED BY <1>1, QuietClimbs

LEMMA AsidesClimb ==
  ASSUME IInv, NEW u \in Users, NEW n \in 0 .. MaxFailed - 1, Floor(u, n)
  PROVE  /\ \A v \in User : CreateUser(v) \/ RequestLink(v) => Climbing(u, n)
         /\ \A v \in User, s \in StatusEdits : SetStatus(v, s) => Climbing(u, n)
         /\ Tick \/ UNCHANGED vars => Climbing(u, n)
<1>0. accounts[u] \in AccountRow /\ accounts \in [Users -> AccountRow]
  BY DEF IInv, TypeOK
<1>1. ASSUME NEW v \in User, CreateUser(v)
      PROVE  Climbing(u, n)
  <2>1. u \in Users' /\ accounts'[u] = accounts[u] /\ UNCHANGED work
    BY <1>1 DEF CreateUser, Users
  <2> QED BY <2>1, AsideClimbs
<1>2. ASSUME NEW v \in User, RequestLink(v)
      PROVE  Climbing(u, n)
  BY <1>2, AsideClimbs DEF RequestLink, Users
<1>3. ASSUME NEW v \in User, NEW s \in StatusEdits, SetStatus(v, s)
      PROVE  Climbing(u, n)
  <2> DEFINE r == [accounts[v] EXCEPT !.status = s]
  <2>1. v \in Users /\ UNCHANGED work /\ accounts' = [accounts EXCEPT ![v] = r]
    BY <1>3 DEF SetStatus
  <2>2. r.attempts = accounts[v].attempts
    BY <1>0, <2>1 DEF AccountRow
  <2> HIDE DEF r
  <2>3. u \in Users' /\ accounts'[u].attempts = accounts[u].attempts
    BY <1>0, <2>1, <2>2 DEF Users
  <2> QED BY <2>1, <2>3, AsideClimbs
<1>4. CASE Tick
  <2>1. accounts'[u] = [accounts[u] EXCEPT !.lock = Less(@)] /\ u \in Users' /\ UNCHANGED work
    BY <1>4 DEF Tick, Users
  <2>2. accounts'[u].attempts = accounts[u].attempts
    BY <1>0, <2>1 DEF AccountRow
  <2> QED BY <2>1, <2>2, AsideClimbs
<1>5. CASE UNCHANGED vars
  BY <1>5, AsideClimbs DEF vars, Users
<1> QED BY <1>1, <1>2, <1>3, <1>4, <1>5

\* A request of another user, or one that is no sign-in.
LEMMA OthersClimb ==
  ASSUME IInv, NEW u \in Users, NEW n \in 0 .. MaxFailed - 1, Floor(u, n), NEW x \in Slot,
         Finish(x), x \notin SigningIn(u), u \in Users',
         accounts'[u].attempts = accounts[u].attempts
  PROVE  Climbing(u, n)
<1>1. work'[x] = Idle /\ \A y \in Slot \ {x} : work'[y] = work[y]
  BY DEF Finish, IInv, TypeOK
<1>2. x \notin SigningIn(u)'
  BY <1>1 DEF SigningIn, Idle
<1>3. SigningIn(u)' = SigningIn(u)
  BY <1>1, <1>2 DEF SigningIn
<1>4. \A y \in SigningIn(u)' : y \in SigningIn(u) /\ work'[y] = work[y]
  BY <1>1, <1>2, <1>3 DEF SigningIn
<1> QED BY <1>3, <1>4, QuietClimbs

\* A wrong password for u.
LEMMA WrongClimbs ==
  ASSUME IInv, NEW u \in Users, NEW n \in 0 .. MaxFailed - 1, Floor(u, n), NEW x \in Slot,
         FinishLogin(x), work[x].user = u, work[x].typed # work[x].saw.password
  PROVE  Climbing(u, n)
<1> DEFINE saw == work[x].saw
           a == accounts[u]
           f == Failed(a, saw)
<1>1. work[x].kind = "login" /\ Finish(x) /\ x \in SigningIn(u)
  BY DEF FinishLogin, SigningIn
<1>2. saw \in AccountRow /\ a \in AccountRow /\ n \in Nat /\ saw.attempts \in Nat
  BY <1>1, AtWork, AccountsAssumption DEF Kind, Work, AccountRow
<1>3. accounts' = [accounts EXCEPT ![u] = f]
  BY DEF FinishLogin
<1>4. f.attempts = Count(saw.attempts)
      /\ f.lock = IF saw.attempts + 1 >= MaxFailed THEN LockTime ELSE a.lock
  BY <1>2, FailedRow
<1> HIDE DEF f
<1>5. accounts'[u] = f /\ u \in Users'
  BY <1>3 DEF IInv, TypeOK, Users
<1>6. saw.attempts >= n
  BY <1>1 DEF Floor
<1>7. f.attempts > n /\ f.attempts \in Nat
  BY <1>2, <1>4, <1>6, AccountsAssumption DEF Count
<1>8. n + 1 = MaxFailed => IsLocked(f)
  BY <1>2, <1>4, <1>6, AccountsAssumption DEF IsLocked
<1>9. work'[x] = Idle /\ \A y \in Slot \ {x} : work'[y] = work[y]
  BY <1>1 DEF Finish, IInv, TypeOK
<1>10. \A y \in SigningIn(u)' : y \in SigningIn(u) /\ work'[y] = work[y]
  BY <1>9 DEF SigningIn, Idle
<1>11. Floor(u, n)' /\ Behind(u, n)' \subseteq Behind(u, n)
  BY <1>2, <1>5, <1>7, <1>10 DEF Floor, Behind
<1> QED BY <1>5, <1>7, <1>8, <1>11 DEF Climbing

LEMMA FinishesClimb ==
  ASSUME IInv, NEW u \in Users, NEW n \in 0 .. MaxFailed - 1, Floor(u, n), ~Cleared(u),
         NEW x \in Slot, FinishAny(x)
  PROVE  Climbing(u, n)
<1> DEFINE w == work[x]
           v == w.user
           a == accounts[v]
<1>1. Finish(x) /\ w.kind \in Kind
  BY DEF FinishAny, FinishLogin, FinishReset, FinishChange, FinishAdminReset, Kind
<1>2. w \in Work /\ v \in Users /\ a \in AccountRow
  BY <1>1, AtWork DEF Fresh
<1>3. CASE FinishReset(x) \/ FinishChange(x)
  <2> DEFINE r == [a EXCEPT !.password = w.typed]
  <2>1. accounts' = [accounts EXCEPT ![v] = r]
    BY <1>3 DEF FinishReset, FinishChange
  <2>2. r.attempts = a.attempts
    BY <1>2 DEF AccountRow
  <2> HIDE DEF r
  <2>3. u \in Users' /\ accounts'[u].attempts = accounts[u].attempts
    BY <1>2, <2>1, <2>2 DEF IInv, TypeOK, Users
  <2>4. x \notin SigningIn(u)
    BY <1>3 DEF FinishReset, FinishChange, SigningIn
  <2> QED BY <1>1, <2>3, <2>4, OthersClimb
<1>4. CASE (FinishLogin(x) \/ FinishAdminReset(x)) /\ v # u
  <2>1. \E r : accounts' = [accounts EXCEPT ![v] = r]
    BY <1>4 DEF FinishLogin, Write, FinishAdminReset
  <2>2. u \in Users' /\ accounts'[u].attempts = accounts[u].attempts
    BY <1>2, <1>4, <2>1 DEF IInv, TypeOK, Users
  <2>3. x \notin SigningIn(u)
    BY <1>4 DEF SigningIn
  <2> QED BY <1>1, <2>2, <2>3, OthersClimb
<1>5. CASE FinishLogin(x) /\ v = u
  <2>1. w.typed # w.saw.password
    BY <1>5 DEF Cleared
  <2> QED BY <1>5, <2>1, WrongClimbs
<1>6. CASE FinishAdminReset(x) /\ v = u
  BY <1>6 DEF Cleared
<1> QED BY <1>3, <1>4, <1>5, <1>6 DEF FinishAny

\* Counts that overwrite each other can delay the lock, but a wrong password
\* always leaves the counter above what every sign-in under way had read of it,
\* and it stays there until somebody signs in or the administrator resets it.
THEOREM WrongPasswordsCount == Spec => CountsClimb
<1>1. ASSUME IInv, [Next]_vars, NEW u \in Users, NEW n \in 0 .. MaxFailed - 1,
             Floor(u, n), ~Cleared(u)
      PROVE  Climbing(u, n)
  <2>1. ASSUME NEW x \in Slot, FinishAny(x)
        PROVE  Climbing(u, n)
    BY <1>1, <2>1, FinishesClimb
  <2> QED BY <1>1, <2>1, StartsClimb, AsidesClimb DEF Next
<1>2. ASSUME IInv, [Next]_vars
      PROVE  [\A u \in Users, n \in 0 .. MaxFailed - 1 :
                Floor(u, n) /\ ~Cleared(u) => Climbing(u, n)]_vars
  BY <1>1, <1>2
<1> QED BY <1>2, Invariant, PTL DEF Spec, CountsClimb
=============================================================================
