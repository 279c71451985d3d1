----------------------------- MODULE Allocation -----------------------------
(***************************************************************************)
(* allocate_payment taken apart into its statements, for payments of one   *)
(* tenant that arrive at once and may name no invoice: each then walks     *)
(* over several invoices and locks their rows one after another, since     *)
(* post_ledger_entry flushes in every turn of the loop (the session itself *)
(* does not, app/core/database.py).                                        *)
(*                                                                         *)
(* READ COMMITTED, absolute writes and locks as in Settlement.tla, which   *)
(* has what comes before (claiming a payment) and after (its receipt).     *)
(* PostgreSQL fails one transaction of a cycle of waiting ones.  Nothing   *)
(* adjusts or cancels here, so a balance is never negative.                *)
(***************************************************************************)
EXTENDS Integers, Sequences, FiniteSetsExt, SequencesExt

CONSTANTS
  Request,   \* the payments being recorded, by a route or a callback
  Amount,    \* Amount[x]
  Named,     \* Named[x]: {} or the one invoice the payment is made against
  Invoice,   \* the tenant's invoices
  Due,       \* Due[i]: the due date
  Total,     \* Total[i]
  LastDay    \* date.max

\* Days are counted from the first date there is.
Date == 1 .. LastDay

ASSUME AllocationAssumption ==
  /\ LastDay \in Nat
  /\ IsFiniteSet(Request) /\ IsFiniteSet(Invoice)
  /\ Amount \in [Request -> Nat \ {0}]
  /\ Named \in [Request -> {{}} \cup {{i} : i \in Invoice}]
  /\ Due \in [Invoice -> Date] /\ Total \in [Invoice -> Nat]

VARIABLES
  invoices,  \* committed invoice rows
  ledger,    \* committed ledger, net per invoice
  spare,     \* spare[x]: committed credit of payment x that is tagged with no invoice
  at,        \* at[x]: where request x is
  saw,       \* saw[x]: the invoice rows x read
  queue,     \* queue[x]: the invoices its loop has yet to come to
  remaining, \* remaining[x]
  draft,     \* draft[x]: the rows x wrote and did not commit; it holds their locks
  lost       \* invoices overwritten by a request that had not read what another
             \* had committed (not part of the program)

committed == <<invoices, ledger, spare, lost>>
vars == <<committed, at, saw, queue, remaining, draft>>

InvoiceStatus == {"GENERATED", "PARTIALLY_PAID", "PAID"}
InvoiceRow == [paid : Nat, balance : Nat, status : InvoiceStatus]
NoRow == [paid |-> 0, balance |-> 0, status |-> "NONE"]
Rows == [Invoice -> InvoiceRow \cup {NoRow}]
Nothing == [i \in Invoice |-> NoRow]

Seen(x) == {i \in Invoice : saw[x][i] # NoRow}
Locks(x) == {i \in Invoice : draft[x][i] # NoRow}

----------------------------------------------------------------------------
\* The filter of the query: GENERATED, PARTIALLY_PAID and OVERDUE, which counts
\* as GENERATED here.
Outstanding == {i \in Invoice : invoices[i].status # "PAID"}

\* The loop's list: the named invoice, whatever its status, or the outstanding
\* ones by due date.  Equal due dates come in any order.
ListUnordered(x) ==   \* mutant: no ORDER BY
  IF Named[x] # {} THEN {<<i>> : i \in Named[x]} ELSE SetToSeqs(Outstanding)
ListNotAll(x) ==   \* mutant: only the oldest invoice is listed
  IF Named[x] # {} THEN {<<i>> : i \in Named[x]}
  ELSE {<<i>> : i \in {i \in Outstanding : \A j \in Outstanding : Due[i] <= Due[j]}}
List(x) ==
  IF Named[x] # {} THEN {<<i>> : i \in Named[x]}
  ELSE {s \in SetToSeqs(Outstanding) :
          \A m, n \in DOMAIN s : m < n => Due[s[m]] <= Due[s[n]]}

\* The payment's own row is new and in nobody's way.
Query(x) ==
  /\ at[x] = "new"
  /\ queue' \in {[queue EXCEPT ![x] = s] : s \in List(x)}
  /\ saw' = [saw EXCEPT ![x] =
       [i \in Invoice |-> IF i \in ToSet(queue'[x]) THEN invoices[i] ELSE NoRow]]
  /\ at' = [at EXCEPT ![x] = "loop"]
  /\ UNCHANGED <<committed, remaining, draft>>

Ended(x) == queue[x] = <<>> \/ remaining[x] = 0

\* min(remaining, invoice.balance), of the row that was read.
Applied(x) == Min({remaining[x], saw[x][Head(queue[x])].balance})

\* recalc_invoice_status before any due date.
Pay(i, r, a) ==
  [paid |-> r.paid + a, balance |-> r.balance - a,
   status |-> IF r.paid + a >= Total[i] /\ Total[i] > 0 THEN "PAID" ELSE "PARTIALLY_PAID"]

\* The rows whose locks others hold and x wants next.
Holders(x) ==
  IF at[x] = "loop" /\ ~Ended(x) /\ Applied(x) > 0
  THEN {y \in Request \ {x} : Head(queue[x]) \in Locks(y)}
  ELSE {}

\* Requests each of which waits for another of them.
Knot(X) == X # {} /\ \A x \in X : Holders(x) \cap X # {}

\* A turn of the loop: UPDATE the invoice, INSERT its ledger row.  A settled
\* invoice is passed by.
Turn(x) ==
  /\ at[x] = "loop" /\ ~Ended(x) /\ Holders(x) = {}
  /\ LET i == Head(queue[x])  a == Applied(x) IN
       /\ draft' = IF a > 0 THEN [draft EXCEPT ![x][i] = Pay(i, saw[x][i], a)] ELSE draft
       /\ remaining' = [remaining EXCEPT ![x] = @ - a]
  /\ queue' = [queue EXCEPT ![x] = Tail(@)]
  /\ UNCHANGED <<committed, at, saw>>

\* An UPDATE sets the columns that changed and leaves the others.
Column(old, new, now) == IF new # old THEN new ELSE now
Written(old, new, now) ==
  [paid |-> Column(old.paid, new.paid, now.paid),
   balance |-> Column(old.balance, new.balance, now.balance),
   status |-> Column(old.status, new.status, now.status)]

\* The ledger credit posted with each UPDATE: what was applied.
PostedOnce(x, i) ==   \* mutant: one ledger row for the payment, at its first invoice
  IF \A j \in Locks(x) : Due[i] <= Due[j] THEN draft[x][i].paid - saw[x][i].paid ELSE 0
Posted(x, i) == draft[x][i].paid - saw[x][i].paid

\* What remains becomes credit; then, past the receipt, the commit.
Commit(x) ==
  /\ at[x] = "loop" /\ Ended(x)
  /\ invoices' = [i \in Invoice |->
       IF i \in Locks(x) THEN Written(saw[x][i], draft[x][i], invoices[i]) ELSE invoices[i]]
  /\ ledger' = [i \in Invoice |-> IF i \in Locks(x) THEN ledger[i] - Posted(x, i) ELSE ledger[i]]
  /\ lost' = lost \cup {i \in Locks(x) : invoices[i] # saw[x][i]}
  /\ spare' = [spare EXCEPT ![x] = remaining[x]]
  /\ draft' = [draft EXCEPT ![x] = Nothing]
  /\ at' = [at EXCEPT ![x] = "done"]
  /\ UNCHANGED <<saw, queue, remaining>>

\* Rolled back by get_db or by the webhook's except.
Rollback(x) ==
  /\ at' = [at EXCEPT ![x] = "failed"]
  /\ draft' = [draft EXCEPT ![x] = Nothing]
  /\ UNCHANGED <<committed, saw, queue, remaining>>

\* An exception (a receipt number taken by another, say), a crash, or PostgreSQL
\* failing one of those that wait for one another.
Fail(x) == at[x] = "loop" /\ Rollback(x)

----------------------------------------------------------------------------
Init ==
  /\ invoices = [i \in Invoice |-> [paid |-> 0, balance |-> Total[i], status |-> "GENERATED"]]
  /\ ledger = Total
  /\ spare = [x \in Request |-> 0]
  /\ at = [x \in Request |-> "new"]
  /\ saw = [x \in Request |-> Nothing]
  /\ queue = [x \in Request |-> <<>>]
  /\ remaining = Amount
  /\ draft = [x \in Request |-> Nothing]
  /\ lost = {}

Next == \E x \in Request : Query(x) \/ Turn(x) \/ Commit(x) \/ Fail(x)

Spec == Init /\ [][Next]_vars

----------------------------------------------------------------------------
(* Properties.                                                             *)

TypeOK ==
  /\ invoices \in [Invoice -> InvoiceRow] /\ ledger \in [Invoice -> Int]
  /\ spare \in [Request -> Nat] /\ remaining \in [Request -> Nat]
  /\ at \in [Request -> {"new", "loop", "done", "failed"}]
  /\ queue \in [Request -> Seq(Invoice)] /\ lost \subseteq Invoice
  /\ saw \in [Request -> Rows] /\ draft \in [Request -> Rows]

\* payment_service.py:49 takes the rows in due date order.  That leaves one way
\* into a deadlock: payments wait for one another in a ring only where one of
\* them holds an invoice and wants a second of the same due date.
KnotNeedsTie ==
  \A X \in SUBSET Request : Knot(X) =>
    \E x \in X : \E i \in Locks(x) \ {Head(queue[x])} : Due[i] = Due[Head(queue[x])]

\* payment_service.py:29-31 "Any amount left over after every outstanding
\* invoice is settled": when a payment has left a credit, the invoices it was
\* for are settled, whichever payments came between its turns, but for those
\* overwritten unread.
LeftoverWhenSettled ==
  \A x \in Request : at[x] = "done" /\ spare[x] > 0 =>
    \A i \in (IF Named[x] # {} THEN Named[x] ELSE Invoice) \ lost : invoices[i].balance = 0

\* An invoice agrees with its ledger rows; one overwritten unread only errs on
\* one side: it shows more due than the ledger does, never less.
OverwritesOnlyOwe ==
  \A i \in Invoice :
    IF i \in lost THEN invoices[i].balance >= ledger[i]
    ELSE /\ invoices[i].balance = ledger[i]
         /\ invoices[i].paid = Total[i] - ledger[i]

=============================================================================
