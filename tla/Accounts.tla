------------------------------ MODULE Accounts ------------------------------
(***************************************************************************)
(* User accounts: signing in with its failure counter and lock             *)
(* (app/services/auth_service.py), reset links (app/api/routes/auth.py),   *)
(* changes of password and status (app/services/user_service.py).          *)
(*                                                                         *)
(* Handlers run in a thread pool.  Each SELECTs the account, then hashes   *)
(* or verifies a password with bcrypt (the slow part), and at last UPDATEs *)
(* the columns it changed and commits: a Start and a Finish action, with   *)
(* anything the other slots do in between.  One slot is one request at a   *)
(* time.  Requests refused at their start change nothing but the logs.     *)
(*                                                                         *)
(* Times count down: lock is what is left of locked_until, life what is    *)
(* left of a link.                                                         *)
(***************************************************************************)
EXTENDS Integers, Sequences

CONSTANTS
  User,         \* users that can ever be created
  Slot,         \* handlers that can run at the same time
  Default,      \* the password made from the phone number
  Password,     \* passwords typed or chosen
  StatusEdits,  \* statuses the administrator sets
  MaxFailed,    \* MAX_FAILED_ATTEMPTS
  LockTime,     \* LOCKOUT_MINUTES, in ticks
  LinkLife,     \* life of a reset link, in ticks
  MaxLinks      \* bound: links ever issued

UserStatus == {"ACTIVE", "INACTIVE", "SUSPENDED"}

ASSUME AccountsAssumption ==
  /\ Default \in Password
  /\ MaxFailed \in Nat \ {0} /\ LockTime \in Nat \ {0} /\ LinkLife \in Nat \ {0}
  /\ MaxLinks \in Nat
  /\ StatusEdits \subseteq UserStatus

VARIABLES
  accounts,   \* the users created so far
  links,      \* password_reset_tokens, in the order of created_at
  work,       \* work[x]: the request in slot x between its Start and Finish
  wrong,      \* wrong[u]: wrong passwords since u last signed in or was reset by
              \* the admin, counted up to MaxFailed (not part of the program)
  raced       \* users two of whose requests overlapped (not part of the program)

vars == <<accounts, links, work, wrong, raced>>

NoLock == -1   \* locked_until IS NULL; 0 is a time in the past

AccountRow == [password: Password, attempts: Nat, lock: {NoLock} \cup Nat, status: UserStatus]
LinkRow == [user: User, life: Nat, used: BOOLEAN]
Kind == {"login", "reset", "change", "adminReset"}

\* saw: the account row it read; typed: the password in the form (for a change,
\* the new one); link: position of the link it found.
Work == [kind: Kind, user: User, saw: AccountRow, typed: Password, link: Nat]
Idle == [kind |-> "idle"]

Users == DOMAIN accounts
IsLocked(r) == r.lock > 0

----------------------------------------------------------------------------
(* Helpers.                                                                *)

\* The ORM writes the columns whose value differs from the one read.
Write(u, old, new) ==
  accounts' = [accounts EXCEPT ![u] =
    [c \in DOMAIN @ |-> IF old[c] # new[c] THEN new[c] ELSE @[c]]]

Start(x, k, u, p, i) ==
  /\ work' = [work EXCEPT ![x] =
       [kind |-> k, user |-> u, saw |-> accounts[u], typed |-> p, link |-> i]]
  /\ UNCHANGED raced
Finish(x) ==
  /\ work' = [work EXCEPT ![x] = Idle]
  /\ raced' = raced \cup {u \in {work[x].user} :
       \E y \in Slot \ {x} : work[y] # Idle /\ work[y].user = u}

----------------------------------------------------------------------------
(* Signing in.                                                             *)

\* authenticate_user refuses inactive, suspended and locked accounts.
MaySignInLocked(r) == r.status = "ACTIVE"   \* mutant: locked_until not asked
MaySignIn(r) == r.status = "ACTIVE" /\ ~IsLocked(r)

StartLogin(x, u, p) ==
  /\ work[x] = Idle /\ u \in Users /\ MaySignIn(accounts[u])
  /\ Start(x, "login", u, p, 0)
  /\ UNCHANGED <<accounts, links, wrong>>

\* Bound: counts stop at MaxFailed, where every higher one means the same.
Count(n) == IF n < MaxFailed THEN n + 1 ELSE n

\* Row r after a wrong password, by a handler that read saw: the counter always
\* differs from the one read, and so does a new locked_until.
FailedAfterMore(r, saw) ==   \* mutant: > for >=
  [r EXCEPT !.attempts = Count(saw.attempts),
            !.lock = IF saw.attempts + 1 > MaxFailed THEN LockTime ELSE @]
FailedExactly(r, saw) ==   \* mutant: = for >=
  [r EXCEPT !.attempts = Count(saw.attempts),
            !.lock = IF saw.attempts + 1 = MaxFailed THEN LockTime ELSE @]
Failed(r, saw) ==
  [r EXCEPT !.attempts = Count(saw.attempts),
            !.lock = IF saw.attempts + 1 >= MaxFailed THEN LockTime ELSE @]
SucceededKeepsCount(r) == [r EXCEPT !.lock = NoLock]   \* mutant: counter not cleared
Succeeded(r) == [r EXCEPT !.attempts = 0, !.lock = NoLock]

FinishLogin(x) ==
  /\ work[x].kind = "login"
  /\ LET w == work[x]  right == w.typed = w.saw.password IN
     /\ IF right THEN Write(w.user, w.saw, Succeeded(w.saw))
        ELSE accounts' = [accounts EXCEPT ![w.user] = Failed(@, w.saw)]
     /\ wrong' = [wrong EXCEPT ![w.user] = IF right THEN 0 ELSE Count(@)]
  /\ Finish(x)
  /\ UNCHANGED links

----------------------------------------------------------------------------
(* Passwords.                                                              *)

\* forgot_password_submit: whatever the account's status.
RequestLink(u) ==
  /\ u \in Users /\ Len(links) < MaxLinks
  /\ links' = Append(links, [user |-> u, life |-> LinkLife, used |-> FALSE])
  /\ UNCHANGED <<accounts, work, wrong, raced>>

\* The links reset_password_submit looks at: the newest that is not used.
Candidates(u) == {i \in DOMAIN links : links[i].user = u /\ ~links[i].used}

StartReset(x, i, p) ==
  /\ work[x] = Idle /\ i \in DOMAIN links
  /\ i \in Candidates(links[i].user)
  /\ \A j \in Candidates(links[i].user) : j <= i
  /\ links[i].life > 0
  /\ Start(x, "reset", links[i].user, p, i)
  /\ UNCHANGED <<accounts, links, wrong>>

\* Neither the counter nor a lock is touched.
FinishReset(x) ==
  /\ work[x].kind = "reset"
  /\ accounts' = [accounts EXCEPT ![work[x].user].password = work[x].typed]
  /\ links' = [links EXCEPT ![work[x].link].used = TRUE]
  /\ Finish(x)
  /\ UNCHANGED wrong

\* change_password and the tenant's own form, by somebody signed in who typed
\* the current password.
StartChange(x, u, p) ==
  /\ work[x] = Idle /\ u \in Users /\ accounts[u].status = "ACTIVE"
  /\ Start(x, "change", u, p, 0)
  /\ UNCHANGED <<accounts, links, wrong>>
FinishChange(x) ==
  /\ work[x].kind = "change"
  /\ accounts' = [accounts EXCEPT ![work[x].user].password = work[x].typed]
  /\ Finish(x)
  /\ UNCHANGED <<links, wrong>>

\* admin_reset_password: the default password, counter and lock cleared (in
\* the columns that held something when it read them).
StartAdminReset(x, u) ==
  /\ work[x] = Idle /\ u \in Users
  /\ Start(x, "adminReset", u, Default, 0)
  /\ UNCHANGED <<accounts, links, wrong>>
FinishAdminReset(x) ==
  /\ work[x].kind = "adminReset"
  /\ LET w == work[x] IN
     /\ accounts' = [accounts EXCEPT ![w.user] =
          [password |-> Default,
           attempts |-> IF w.saw.attempts # 0 THEN 0 ELSE @.attempts,
           lock |-> IF w.saw.lock # NoLock THEN NoLock ELSE @.lock,
           status |-> @.status]]
     /\ wrong' = [wrong EXCEPT ![w.user] = 0]
  /\ Finish(x)
  /\ UNCHANGED links

----------------------------------------------------------------------------
(* Administration, and time.                                               *)

\* create_user, and create_tenant with a login.
CreateUser(u) ==
  /\ u \in User \ Users
  /\ accounts' = [v \in Users \cup {u} |->
       IF v = u THEN [password |-> Default, attempts |-> 0, lock |-> NoLock, status |-> "ACTIVE"]
       ELSE accounts[v]]
  /\ UNCHANGED <<links, work, wrong, raced>>

\* disable, activate, and the status of the edit form.
SetStatus(u, s) ==
  /\ u \in Users
  /\ accounts' = [accounts EXCEPT ![u].status = s]
  /\ UNCHANGED <<links, work, wrong, raced>>

Less(n) == IF n > 0 THEN n - 1 ELSE n

Tick ==
  /\ accounts' = [u \in Users |-> [accounts[u] EXCEPT !.lock = Less(@)]]
  /\ links' = [i \in DOMAIN links |-> [links[i] EXCEPT !.life = Less(@)]]
  /\ UNCHANGED <<work, wrong, raced>>

----------------------------------------------------------------------------
Init ==
  /\ accounts = [u \in {} |-> Idle]
  /\ links = << >>
  /\ work = [x \in Slot |-> Idle]
  /\ wrong = [u \in User |-> 0]
  /\ raced = {}

FinishAny(x) == FinishLogin(x) \/ FinishReset(x) \/ FinishChange(x) \/ FinishAdminReset(x)

Next ==
  \/ \E x \in Slot :
       \/ \E u \in User, p \in Password : StartLogin(x, u, p) \/ StartChange(x, u, p)
       \/ \E i \in DOMAIN links, p \in Password : StartReset(x, i, p)
       \/ \E u \in User : StartAdminReset(x, u)
       \/ FinishAny(x)
  \/ \E u \in User : CreateUser(u) \/ RequestLink(u) \/ \E s \in StatusEdits : SetStatus(u, s)
  \/ Tick

Spec == Init /\ [][Next]_vars

\* Time passes; handlers are under no obligation to be quick.
FairSpec == Spec /\ WF_vars(Tick)

----------------------------------------------------------------------------
(* Properties.                                                             *)

TypeOK ==
  /\ Users \subseteq User /\ accounts \in [Users -> AccountRow]
  /\ links \in Seq(LinkRow)
  /\ work \in [Slot -> Work \cup {Idle}]
  /\ wrong \in [User -> Nat] /\ raced \subseteq User

\* README.md:27 "Account lockout after 5 failed logins": the wrong password that
\* is the last of as many in a row, or comes after them, leaves the account
\* locked, whatever changes of password and of status happened in between
\* (unless requests about this account overlapped).
LockedAfterMaxFailed ==
  [][\A x \in Slot : FinishLogin(x) /\ work[x].user \notin raced' /\ wrong'[work[x].user] = MaxFailed
                      => IsLocked(accounts'[work[x].user])]_vars

\* README.md:27, the other way round: a user who signed in less than that many
\* wrong passwords ago is not locked out, whatever expired, was reset or was
\* changed since (unless requests about this account overlapped).
LockIsEarned ==
  \A u \in Users \ raced : IsLocked(accounts[u]) => wrong[u] = MaxFailed

\* A wrong password that was typed for u is counted; u's counter is cleared.
WrongPassword(u) ==
  \E x \in Slot : FinishLogin(x) /\ work[x].user = u /\ work[x].typed # work[x].saw.password
Cleared(u) ==
  \E x \in Slot :
    /\ FinishAdminReset(x) \/ (FinishLogin(x) /\ work[x].typed = work[x].saw.password)
    /\ work[x].user = u

\* README.md:27 once more, for requests that do overlap: their counts overwrite
\* each other, and one of long ago may lower the counter, but wrong passwords
\* that never cease lock the account again and again, unless somebody signs in
\* or the administrator resets it time after time.
WrongPasswordsEndInLock ==
  \A u \in User :
    []<><<WrongPassword(u)>>_vars /\ <>[][~Cleared(u)]_vars
      => []<>(u \in Users /\ IsLocked(accounts[u]))

\* README.md:124 "Password reset tokens are single-use": no password is set
\* with a link that has been used.
SingleUse ==
  [][\A x \in Slot : FinishReset(x) => ~links[work[x].link].used]_vars

\* auth_service.py:32 "Try again later.": a lock runs out, also under attempts
\* to sign in that never cease and that other handlers began before it.
LockRunsOut ==
  \A u \in User : (u \in Users /\ IsLocked(accounts[u])) ~> (u \in Users /\ ~IsLocked(accounts[u]))
=============================================================================
