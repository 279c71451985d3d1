# Rental management: a verification development

TLA+ specifications of the rental management system under `src/` (a FastAPI application with
SQLAlchemy over PostgreSQL), the TLC configurations that check them on small instances, and
theorems about them that TLAPS checks for every value of the constants.

    tlc -workers 2 -config Billing_account.cfg MCBilling.tla  # one run
    tlapm BillingProofs.tla                                   # the proofs of one module

A run is named after its `.cfg` file; the module it belongs to is the `MC` module of the same
prefix. `PROJECT.json` lists components, runs, the source lines each definition stands for, the
mutations each property detects, findings, hazards and theorems.

## 1. Inventory

### The program

gunicorn starts two uvicorn workers (`src/Dockerfile`). Synchronous handlers run in the thread
pool of a worker, so any two of them interleave at database statements. The PayHero webhook is
`async` with no `await` between its first read and its commit: one at a time in a worker, two at
a time in the deployment. One request is one database transaction (`app/core/database.py`), READ
COMMITTED, with no row version and no `SELECT ... FOR UPDATE`; the ORM writes changed columns as
absolute values when it flushes. The exception is `email_service._dispatch`, which commits in the
middle of its caller's route. There is no scheduler: nothing happens unless a request comes in.

### Components

| component | state | operations | talks to |
|---|---|---|---|
| invoices (`billing_service`) | `invoices`: charges, penalties, discounts, total, paid, balance, status, due date | create, monthly run, adjust, cancel, refresh overdue statuses | ledger, leases, e-mail |
| payments (`payment_service`) | `payments`; columns of `invoices` | record by hand, allocate to one invoice or oldest first | ledger, invoices, receipts |
| ledger (`ledger_service`) | append-only debit and credit rows with a running balance | post, balance of a tenant | - |
| PayHero (`payhero_service`, `webhooks.py`, the tenant's pay page) | `payhero_transactions`, `payments` | STK push, status poll, callback | gateway over HTTP, allocation, receipts |
| receipts (`receipt_service`) | `receipts`: number (unique), payment (unique) | generate | storage |
| units, tenants, leases | unit status and rent; tenant's unit, rent, status; lease's rent and status | create, edit, vacate, assign; move out; sign, renew, terminate | monthly run reads ACTIVE leases |
| accounts (`auth_service`, `auth.py`, `user_service`) | password, failure counter, lock, status; reset links | sign in, forgot, reset, change, admin reset, create, disable | e-mail |
| maintenance, expenses, properties | plain rows | create, edit, set status, delete | e-mail |
| roles and sessions (`core/deps.py`, `core/security.py`) | a signed token in a cookie: who one is, and the role at sign-in | look up the user, test status and role | `users` |
| e-mail | `email_logs` | send and log, committing the caller's transaction | SMTP or API |
| reports, dashboard, portal | none (queries) | PDF, spreadsheet, pages | every table |
| logs, uploads, configuration | append-only or none | - | - |

### What is hard here, and what must hold

* **One fact in several copies.** An invoice's total, paid and balance, its status, and the
  ledger's rows about it are kept by hand by five operations; so are unit status, the tenant's
  unit and the active lease. They must agree after any sequence of operations.
* **Money and the outside world.** A push is charged by the gateway whether or not the request
  that caused it survives; callbacks come early, late, twice, with another amount. Money is
  booked exactly once, only if it was charged, and nobody is left waiting for ever.
* **Interleaved handlers.** What was read (a status, a balance, a count used as a number) is stale
  when it is written. Nothing may be credited twice, and no request may wait for ever.
* **Nobody runs the clock.** An overdue invoice, a lock that has run out: what depends on time
  depends on somebody's next request.
* **A commit in the middle.** `_dispatch` commits whatever its caller has written so far. What the
  route does afterwards can fail with half of it on the books, and a mail may tell what is not so.
* **Nobody outside their own.** Tokens outlive suspensions and roles, pages find their rows through
  user, tenant and unit, and each of these changes meanwhile.
* **Operations out of their usual order.** Renewed leases, terminated ones, tenants moved out with
  a lease, payments against a cancelled invoice, invoices whose discounts exceed their charges.

The hazards are listed one by one, each at its line, in `PROJECT.json`.

## 2. Modules

| module | models | composed with |
|---|---|---|
| `Billing` | invoices, payments, ledger, calendar; one action per service call | `TenantAccount` |
| `Views` | what pages and reports compute from `Billing`'s tables | extends `Billing` |
| `TenantAccount` | abstract: what a tenant is charged, forgiven, pays | implemented by `Billing` |
| `PayHero` | push request, gateway, webhook | `PaymentLifecycle` |
| `PaymentLifecycle` | abstract: pending, then settled once, booked exactly on success | implemented by `PayHero` |
| `Settlement` | callback, manual payment, adjustment, cancellation and receipt, statement by statement over row locks and unique keys | |
| `Allocation` | payments over several invoices of a tenant at once, one row lock after another | |
| `Leasing` | units, tenants, leases; one action per service call | `Occupancy` |
| `Occupancy` | abstract: who lives where | implemented by `Leasing` with the plain operations |
| `Issuing` | letting, ending a lease, a bill by hand and the monthly run with numbers and mails, statement by statement | |
| `Portal` | roles, users, a tenant created with a login, maintenance requests, receipts served, mails, statement by statement | |
| `Accounts` | sign in, lock, reset links, passwords, status | |
| `BillingProofs`, `PayHeroProofs`, `LeasingProofs`, `SettlementProofs`, `AllocationProofs`, `IssuingProofs`, `PortalProofs`, `AccountsProofs` | theorems about the module each is named for | |
| `MC...` | instances and symmetries | |

`Billing`, `Leasing` and `PayHero` take a service call (or a webhook) as one step and look at long
sequences of them; `Settlement`, `Allocation`, `Issuing`, `Portal` and `Accounts` take routes apart and look at
what happens when they overlap.

Definitions marked `mutant:` in a comment are variations of the one that follows them, with a
plausible mistake; no specification uses them. They show that a property can fail: replacing the
definition by its mutant makes TLC report the property violated.

### Billing

`invoices` is the table, a function from the ids issued so far to rows with the columns of
`models/billing.py`. `ledger[t][g]` is the net (debits less credits) of a tenant's rows tagged
with invoice `g`, or with none: the append-only table seen through the two queries the program
asks of it. `received[t]` sums the SUCCESSFUL payments. Amounts are integers (the columns are
exact decimals). Each action is a whole service call with every ledger row it posts:
`CreateInvoice`, `GenerateMonthly` (a run over the leases that are active at that moment),
`AdjustInvoice`, `CancelInvoice`, `RecordPayment`, `RefreshOverdue`, and `NextDay` for
`date.today()`. The allocation loop is written out: `OldestFirst` is its ORDER BY, where equal due
dates may come in any order, and `LoopRuns` the iterations with the amount that remains, with the
early return and the skipped balances. `Settle` then writes all rows and posts all credits.
The target of a payment may be anybody's invoice (the page offers the payer's, the service does not
check): `LedgerMatchesInvoices` says what each of the two tenants' ledger rows then sum to.
`RefreshScheduled` says whether anybody calls
`refresh_overdue_statuses` (nothing in the repository does); the run says yes, where more can happen, and
the theorems cover both.

### Views

The queries of the tenant's home and payments pages, the dashboard and the reports, over the state
of `Billing`. Pages add up invoice balances and reports add up ledger rows; `OutstandingReconciles`
and `PaymentsAccounted` say what the difference consists of, `ArrearsArePayable` that a tenant whom
a report lists as owing is shown something to pay.

### PayHero

`mine` holds the rows of each push in its request's open transaction, `db` the committed ones, which
are all the webhook can see. The request inserts, calls over HTTP (`Send`), reads the answer, and
commits only then; it can fail, lose the answer although the gateway accepted, or die at any point.
The gateway (`Resolve`, `Deliver`, `Redeliver`; external) asks the phone, charges or not, sends one
callback and may send it again. `Handle` is the webhook with all its answers, `Reject` the one for a
callback whose secret is not that of the worker it reaches. Constants switch each misfortune on or
off, so that a run or theorem can say under which it holds.

### Settlement

The labels of `at[x]` are the points between database statements of request `x`. `draft[x]` is
what its session has computed from its reads. An UPDATE needs the row's lock; an INSERT waits for
a clashing key and fails if the other commits; a commit applies the changed columns as absolute
values. `WebhookWorkers` bounds the callbacks that run at once. One tenant, payments
that name their invoice. A receipt's PDF goes to a disk or bucket (`files`) before its row is
inserted, and no rollback takes it back. `lost` observes the invoices some request overwrote without
having read their last state; it is not part of the program. What the handlers promise about one
invoice's columns (`InvoiceAgrees`, `PaidIsNotCancelled`) is stated of the other invoices, so that
these lost updates are shown to be the only way it can go wrong. `InvoiceAgrees` covers invoices whose
discounts exceed what is left to pay, and says what cancelling one leaves in the ledger.

### Allocation

The loop of `allocate_payment` with a step for each turn, between what `Settlement` has before it
(claiming the payment) and after it (the receipt). `Query` reads the list and all its rows at once;
a `Turn` writes one row, and keeps its lock, because `post_ledger_entry` flushes; then the next may
have to be waited for. Equal due dates come in any order, as in the query. `Holders` is whom a request
waits for, `Knot` a set of requests that wait for one another. `Fail` is an
exception, a crash, or PostgreSQL failing one of a `Knot`. Adjusting and cancelling are left to
`Settlement`: they lock one row and wait for no other once they have it. So is a receipt number that is
waited for: who holds it only has its commit left.

### Leasing

One action per service call. `used`, chosen at the start from `Uses` and never changed, names the
operations in use beyond signing, terminating the active lease and editing, because the three copies of
"who lives where" stay in step with those alone: each of the others breaks the agreement by itself.
`InStep` is that agreement, and it and `OccupancySpec` speak of the behaviours where `used` is empty;
the other properties survive everything and are checked with everything. `UnitRents` are the rents a
unit may have before one is agreed.

### Issuing

The same statement-level view as in `Settlement`, of the four routes that number invoices or write
units, tenants and leases: `Job[x].kind` is to let, to end a lease, to run the month or to bill by
hand. The number of an invoice is read as a count (`CountInvoices`) and used in an insert that waits
for the number and fails if it is taken (`InsertInvoice`), which rolls everything back. After the
loop each invoice is mailed, and each mail commits (`Send`, `Dispatch`). `Crash` loses what is not
committed. `overlapped` observes the leases, tenants and units that two requests worked on at the
same time; it is not part of the program.

### Portal

Every request starts with `Authorize`, which reads role and status of the user the token names, and
then goes through its route's statements. `createTenant` is the longest: the tenant's row, the look
for an existing user, the user's row with the link to it, the welcome mail with its commit, the
route's commit. `Rehouse` is what `Leasing` does to the unit a tenant's page shows. A person stands
for an e-mail address, a phone number and a national id at once: a clash in one is a clash. `muddled`
observes maintenance requests about which a mail could not be right (it failed, the process died
between mail and commit, or it repeated a status somebody else was changing); `lived` remembers the
units a tenant has had. Neither is part of the program. What a page lists is selected by the tenant of
the profile that was read a statement earlier (`saw`), while `OwnOnly` speaks of the tenants' rows as
they are at that moment. An edit of a user writes the columns whose value differs from what it read
(`NewUser`), which is what `EditsMerge` is about. The assumptions on `Job` say that forms
passed their schemas and that the uuids of new rows are fresh.

### Accounts

Every handler that hashes a password is split in two: the row it reads and the columns it writes,
with other handlers in between (`Slot`). Times count down. `wrong` observes wrong passwords in a
row and `raced` the users whose requests have overlapped; neither is part of the program. The exact
count (`LockIsEarned`, `LockedAfterMaxFailed`) is claimed of the others; of those whose requests overlap,
`WrongPasswordsEndInLock` says what is left of it, and `LockRunsOut` holds of all.

## 3. Runs

| run | expects | question |
|---|---|---|
| `Billing_account` | pass | two tenants, leases and invoices: do rows, statuses and ledger agree, is money received conserved, the oldest debt paid first, no lease billed twice by repeated runs, do pages and reports reconcile, and is a tenant's account implemented? |
| `PayHero_all` | pass | two pushes, every misfortune: booked at most once and only if charged, rows agree, a charged payment is failed only if the push's answer was lost or the result came as the number 0, the lifecycle is implemented, and every pending payment is settled in the end but for the callbacks `missed` counts and those that name another amount |
| `PayHero_early` | violation | is the tenant "never left wondering"? |
| `Leasing_any` | pass | every operation in every order: one active lease a tenant, the rent shown is the rent billed; with the plain operations alone: the three copies agree and implement `Occupancy` |
| `Leasing_movedout` | violation | does a tenant's unit follow the active lease? |
| `Settlement_one` | pass | one webhook worker, everything else concurrent: is every payment credited once, do invoice and ledger agree, is what was acknowledged recorded, does a receipt link its own PDF, and does every request end in spite of locks? |
| `Settlement_two` | violation | does the guard against duplicates hold in the two workers deployed? |
| `Allocation_ties` | pass | three payments at once, two without an invoice, over three invoices, two due on one day: when can they wait for one another, what do overwritten invoices show, what does a leftover mean? |
| `Issuing_routes` | pass | seven sets of requests with crashes: have the numbers no gap, is nothing billed or let twice unless at the very same time or after a lease was ended twice, is a run all or nothing, do mails match the books, does every request end? |
| `Portal_routes` | pass | seven sets of requests with crashes and tokens that outlive their roles: are logins and tenants linked, does a tenant see only what is the tenant's, does the last mail about a request tell its status, does an edit of a user take back what another one changed meanwhile? |
| `Accounts_locks` | pass | is an account locked exactly for enough wrong passwords in a row, do wrong passwords that overlap and never cease end in a lock, does a lock run out under attempts that never cease? |
| `Accounts_twice` | violation | does a reset link work once? |

Every run expected to be violated quotes, in `PROJECT.json`, the line of the repository that
promises what the counterexample breaks. What the runs say, read together:

* **A payment can stay PENDING for ever**: after a callback with another amount, after one that
  comes before the request has committed (`PayHero_early`), after its receipt number was taken
  by a payment settled at the same time (the second case of `AckedIsRecorded`: the handler raises
  and is answered 200), likewise after PostgreSQL failed it in a deadlock (below), and when the webhook secret was changed while the prompt was open.
  `SettledUnlessMissed` shows that these are all: every other pending payment is settled, crashes
  and lost answers included.
* **A result code 0 sent as a number** is falsy in Python and reads as a failure:
  `ChargedIsNotFailed` excepts that form and pushes whose answer was lost, and holds for all
  others.
* **The webhook's guard against duplicates** is a read without a lock; it holds in one worker
  (`Settlement_one`) and not in two (`Settlement_two`).
* **Deadlocks are real but rare.** Two payments of one tenant that name no invoice can wait for each
  other when two of the invoices are due on one day, as an invoice by hand and one of the monthly run
  may be. The due date order rules out every other ring (`KnotNeedsTie`). PostgreSQL fails one of the
  two: a payment by hand is refused with an error, a callback's is left PENDING.
* **Lost updates.** An invoice overwritten by a request that read it earlier disagrees with the
  ledger, and a paid one can be cancelled; no other interleaving does that, discounts and negative
  balances included.
* **A receipt's PDF** is stored under a number that is only then inserted. When two payments draw the
  same number the one that fails may have stored its PDF last: the other's receipt then links a PDF
  of the wrong payment. `ReceiptShowsPayment` shows that this is the only way.
* **Two runs at once** bill a lease twice if both looked before either committed, and two lettings
  at once let a unit or a tenant twice: no unique key stands behind the checks. `DoneOnce` excepts
  exactly those (`overlapped`) and holds of all others, but for one more way: ending a lease a second
  time frees a unit that has been let again meanwhile, and a third letting finds it free (`EndedAgain`). A colliding number never corrupts the
  books; it costs a whole run (`RunIsWhole`).
* **Mails in mid-route**: a process that dies between two mails of a run leaves the run on the books
  and the later tenants untold; the next run skips them. What is mailed is true but for a crash
  between a mail and its commit (`MailsMatchBooks`).
* **Maintenance mails** are in the order of the commits because an update holds its row while it
  mails (`MailTellsStatus`); an update that leaves the status alone holds nothing and may repeat one
  that is being changed.
* **Roles** are read from the database once, at the start of each request (`Authorize`): a suspension
  stops every later request although it does not revoke a token, and a request already let in goes on.
* **Edits of a user** send every field of the form, and two that overlap still merge column by column
  (`EditsMerge`): an edit that read the row before a suspension does not take the suspension back.
* **Reset links** are looked up as unused, and marked used after the password has been hashed: one link
  submitted twice at once sets the password twice (`Accounts_twice`). Only the newest unused link is looked
  up, so that using it makes the one before it valid again; no text of the repository denies that.
* **Wrong passwords at once** overwrite each other's count, so that more than `MaxFailed` of them can pass
  before an account is locked; those that never cease lock it again and again (`WrongPasswordsEndInLock`).
* **Leases**: renewing, moving out, marking vacant, and terminating again each leave the unit, the
  tenant and the lease with different stories. The plain operations do not.
* **Billing**: a cancelled bill counts as billed, so that the monthly run does not bill the lease
  again for that period (`Billable`); a credit left over, of a payment on one invoice too, is never
  applied to another invoice: the ledger's balance is right, the invoices stay open; cancelling an
  invoice with a negative balance leaves that credit in the ledger (`NetPosted`, `InvoiceAgrees`).

### Bounds, and why they are enough

* Billing: charges of 1, extras of 0 or 2 (penalties and discounts, at issue and later), payments of
  2: zero totals, negative balances, over- and underpayment all occur; the theorems cover every
  amount. Two invoices suffice for the loop to take them in the wrong order, to stop between them, or to leave a rest;
  two tenants for payments to cross; two leases for a run that bills both, one or none. Two due
  dates, equal and different; one period. `MaxReceived` ends a behaviour.
* PayHero: pushes share nothing but the gateway, so two show every interaction there is. Each
  callback form of the code appears, with and without credentials (`Configured`).
* Settlement: two payments and two invoices, a callback and its duplicate, one request of every
  other kind. The adjustment is a discount that exceeds the invoice's total, so that balances are negative
  and an invoice is cancelled with a credit. Each statement is a step, so all orders of the requests occur.
* Allocation: two tied invoices and a later one; two payments over them, one that ends within the
  second and one that has a rest, and one that names an invoice, which the others may have settled.
  The theorems cover rings of any length.
* Leasing: two tenants, two units and three leases, so that a unit and a tenant can be let to twice over
  and a lease be renewed or followed by another; two rents; all six optional operations, or none.
* Issuing: the sets of requests meet on one lease, unit, tenant or number: two runs; a run with a
  bill by hand and the end of a lease; lettings of a unit that is being vacated; two lettings of one
  tenant; a lease ended twice with two lettings of its unit. One tenant has no e-mail address. A run bills two leases, so that it can die or collide
  between them.
* Portal: an admin, a caretaker and a tenant with a login, whose roles, status and person change
  under way; two users and a tenant that may come to be; two maintenance requests; receipts of two
  tenants. The sets meet on one user, one person, one login or one request.
* Accounts: one user (accounts share nothing), two handlers, one reset link; `MaxFailed` 2 instead of 5.
  A second link adds nothing to what is asked: one submitted twice is enough for the finding.
  Counters stop at `MaxFailed`, where the code no longer tells values apart.
* Symmetry is used for tenants, leases and invoices in runs without fairness.

`CHECK_DEADLOCK FALSE` is set where every request has been answered or every push resolved and the
system rests.

### Fairness

* `PayHero!FairSpec`: a request that began goes on unless it crashes (a thread is not suspended for
  ever; the HTTP call has a timeout), the gateway resolves what it accepted and delivers each
  callback at least once. Nothing makes it deliver an answered callback again.
* `Settlement!FairSpec`: every request comes, and a statement that is not blocked is executed. A
  blocked one is not enabled, so that no request waits for ever is not assumed.
* `Issuing!FairSpec`: the same of requests that have started; whether one starts is left open, and it
  may die at any statement.
* `Accounts!FairSpec`: time passes. Handlers need not be quick.

`Billing`, `Leasing`, `Portal` and `Allocation` state no fairness: nothing in them has to happen.

## 4. Theorems

TLAPS checks these for any constants that satisfy the modules' named assumptions
(`BillingAssumption`, `ViewsAssumption`, `PayHeroAssumption`, `LeasingAssumption`, `SettlementAssumption`,
`AllocationAssumption`, `IssuingAssumption` and `LettingAssumption`, `PortalAssumption` and `JobAssumption`, `AccountsAssumption`), which TLC
evaluates on the instances. `TypeCorrect` is proved of every module, so that no run
spends itself on `TypeOK`; `CancelledIsFinal` and `LeasesOnlyEnd` are likewise proved and not run.

**BillingProofs.** `InvoicesAddUp`, `StatusesAreTruthful`, `LedgerReconciles`, `LeasesBilledOnce`,
`CancelledInvoicesAreFinal`, `PaymentsGoToTheOldest`. The inductive invariant is
`TypeOK /\ ChargesAddUp /\ StatusTruthful /\ LedgerMatchesInvoices`: the ledger's rows can only be
followed through a payment if the balance a credit is cut to is `total - paid`, and statuses only
if both are. A payment is followed through facts about one row: what the loop applies to it is between
zero and its balance, and the net posted for it moves by the same amount (`NetPosted`), on the
payer's side of the ledger, which is the owner's or only ever goes below zero. The monthly run, which
adds any number of rows, is covered as a function of the set of leases it found unbilled. That older
invoices are paid up first rests on `LoopNeverGains`: the loop comes to every position, because as many
invoices as there are positions have one each, and what is left of the payment never grows, shown by
the least position where it did.

**PayHeroProofs.** `NoMoneyWithoutCharge`, `RowsAlwaysAgree`, `ChargesAreShown`,
`ImplementsLifecycle`, `PendingIsNeverForgotten`, `CallbacksSettle`, for any set of pushes and every switch of the constants. The invariant adds
to the types what rows not yet committed, open ones and committed ones look like, and that a
callback tells the truth about its push (`CallbacksTruthful`); without it, a settled row could be one
the gateway never charged. `ChargesTold` adds for what reason a charged push may be shown as failed. `Awaited` follows a push
from the moment the gateway has it: unless a callback of it was missed, it is yet to be resolved or has
a callback on its way, and the callback that comes settles it. Those are the steps `SettledUnlessMissed`
is made of; that they are taken is the fairness TLC assumes.

**LeasingProofs.** For any operations in use: `OneLeaseATenant`, `EndedLeasesStayEnded`,
`RentIsBilled`. Where only the plain operations are in use (`used = {}`): `PlainInStep` and `ImplementsOccupancy`. The
invariant `Sync` needs `AssignmentKnown` (no tenant is assigned to a unit that does not exist yet,
or creating the unit would break the agreement); that no two tenants are shown one unit is not part
of it but follows.

**SettlementProofs.** For any set of requests, in any interleaving: `AnswersAreRecorded`,
`PaidStaysPaid`, `ReceiptsShowPayments`, `NoDeadlock`; `WorkersBoundCredits` if there is a webhook
worker, and from it `OneWorkerCreditsOnce` if `WebhookWorkers = 1`;
and `BooksAgree`, whatever adjustments add or take: `Books` says of a row and what is posted for it that
they agree, and of a cancelled one that what it owed the tenant, and nothing else, is left in the ledger.
The tables change at commits only,
and the invariant says what an open transaction may hold: at every statement a request's draft is a
function of what it has read (`Progress`), and no two drafts hold receipts that clash with each other
or with the table (`Disjoint`, `Free`). `Credits` adds that a
payment is credited in full by each request that credits it, with a receipt, and that those requests and
the ones about to credit it were all running when the first of them committed: no more than there are
workers. So the double credit that run `Settlement_two` shows is also the worst there is, once per
worker and never a part. `Filed` follows each stored PDF to the request that stored it last. `NoDeadlock`
says that whoever waits for somebody has, down the chain, somebody who waits for nobody: rows are locked
in one order, payment, invoice, receipt (`LocksAreOrdered`).

**AllocationProofs.** `DeadlockNeedsTie`, `OverwritesErrOneWay`, `CreditOnlyWhenSettled`. `Walk`: what
a request has locked is due no later than what it has yet to come to, and is another invoice. So, of
the invoices a ring waits for, the latest is held by a request that waits for one due no earlier, which is
the tie. `Books`: what a request has read is never below the ledger, which only goes down. `Leftovers`:
as long as a payment has something left, the invoices its loop is past are settled in what it read or
wrote.

**IssuingProofs.** `NumbersAreDense`, `RunsAreWhole`, `DoneOnlyOnce`, `MailsAreTrue`, `NoDeadlock`. The invariant is
`Typed /\ Numbering /\ Whole`: at most one request has invoices that are not committed, numbered on
from the last committed one (an insert of the same number waits); and a run has, for each lease it
began with, billed it, found it billed, or still to come.
Three more invariants on top of that one. `Once`:
what a run still has to do and what it has in its session are different leases, which nobody else has
billed meanwhile. `Lets`: the unit and the tenant of a lease on its way are free, a unit is OCCUPIED
while a lease of it is ACTIVE, and a lease on its way to be ended is ACTIVE. Each but for what
overlapped or was ended again. `Mails`: what was mailed is a row on the
books, or one that the request which mailed it holds and is about to commit, or that request has died.
For `NoDeadlock`, `Locks` says what each request has locked when it stands where it stands: unit, tenant
and lease come in one order in every handler, and whoever waits for a number waits for the one request
that holds numbers (`Numbering`), which waits for no other.

**PortalProofs.** `LoginsAreLinked`, `TenantsSeeTheirOwn`, `MailsTellStatuses`, `OverlappingEditsMerge`. The invariant says of
each request how far it is, what its draft may hold there, and what it has read has to do with the
tables as they are now; and that no two tenants are linked to one user. For the mails (`Mails`), no two requests hold one
row, an update that holds one between its mail and its commit has told that status, and one whose tenant
has no e-mail address has told nothing. For the edits (`Edits`), no two transactions hold one user's row,
and where the row an edit holds differs from the table, it has the form's value, and the edit had read
something else there.

**AccountsProofs.** `LocksAreEarned`, `WrongPasswordsLock`, `WrongPasswordsCount`, `LocksWear`. As long as the requests
of a user have not overlapped, the counter is the number of wrong passwords in a row, and what a
handler read of the account still holds when it writes. `WrongPasswordsCount` is about requests that do
overlap: once neither the counter nor what any sign-in under way has read of it is below n (`Floor`), only a
right password or the administrator's reset takes the counter below it again; no more sign-ins that read n
come to be after the counter has passed it (`Behind`); and each that ends takes the counter above n, or
locks. With finitely many handlers the counter climbs to `MaxFailed`. `LocksWear` also
holds of raced accounts: while an account is locked no sign-in begins, a lock moves up only when
one that began before ends, and each tick shortens it. With finitely many handlers that leaves nothing
but time between a lock and its end.

**Only model-checked.** Liveness (`SettledUnlessMissed`, `Finishes` of `Settlement` and `Issuing`,
`LockRunsOut`, `WrongPasswordsEndInLock`): fairness is out of the prover's reach. The safety each of them
rests on is proved: that nobody waits in a ring, that what is pending has a callback to come which settles
it, that a lock can only wear off, that a counter which wrong passwords go on raising climbs.

## 5. Not modelled

* **Expenses, properties, logs, application set-up.** Independent rows that nothing else depends on,
  append-only rows, and wiring.
* **Uploads**, but for the PDFs of receipts: pictures have random names, so no two requests share one.
* **The migration** is used for columns and unique keys; running it is not modelled. The stored
  `running_balance` of ledger rows, which no page reads, is left out.
* **E-mail**, beyond invoices, welcomes and maintenance updates. The receipt mail
  (`admin/payments.py:75`) comes after everything the route does to the payment, so its commit splits off
  nothing but the activity log; reminders and expiry notices have no caller.
* **Reports and pages**, beyond the sums and lists in `Views`, `Leasing` and `Portal`. The wording of
  anything, names, layout, files.
* **In `Settlement`**, dates, and payments that name no invoice: these are in `Allocation`, without
  adjustments, cancellations and receipts.
* **In `Leasing`**, two transactions at once; letting and ending a lease at once are in `Issuing`.
* **In `Accounts`**, no exact count is claimed for an account whose requests have overlapped (only
  `WrongPasswordsEndInLock` and `LockRunsOut`), and nothing of reset links that were sent before the newest.

Some things were seen in the code that no run is about: "Unassigned" never takes effect on a
maintenance request, because the form's empty value reaches the service as `None`, which means "leave
as it is" (`admin/maintenance.py:61`); an administrator can disable the last administrator's account;
`main.py:39` refuses local storage in production, yet staff's download of a receipt splits its address
at `/static` (`admin/payments.py:100`), which an address in a bucket does not contain; and nothing
calls `refresh_overdue_statuses` (listed as built in the repository's README), so that the dashboard's
"All current" (`templates/admin/dashboard.html:20`) stays when an invoice is past its due date and
nothing has recalculated it.

## 6. Plan

1. `PayHero` composed with `Billing`, so that a settled payment is allocated, and `Leasing` with the
   monthly run: who is billed after which operation.
2. Expenses in the income report; properties.

Runs are kept few: a new question joins the run whose instance can answer it.
