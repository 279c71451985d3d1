----------------------------- MODULE Settlement -----------------------------
(***************************************************************************)
(* The money handlers taken apart into the statements that interleave:     *)
(* callbacks on several gunicorn workers, manual payments, adjustments and *)
(* cancellations in the thread pool, each a READ COMMITTED transaction of  *)
(* PostgreSQL (app/core/database.py, Dockerfile).                          *)
(*                                                                         *)
(* A SELECT sees what is committed when it runs.  The ORM computes new     *)
(* column values from what it read earlier and writes the changed columns  *)
(* as absolute values; an UPDATE waits for the row's lock, an INSERT for a *)
(* clashing uncommitted key, and nothing else is waited for or checked     *)
(* again.  Locks are held until commit or rollback.                        *)
(*                                                                         *)
(* One tenant; every payment names its invoice.  OVERDUE counts as         *)
(* GENERATED here (dates are Billing's).                                   *)
(***************************************************************************)
EXTENDS Integers, FiniteSets

CONSTANTS
  Request,         \* the requests that arrive, each once
  Job,             \* Job[x]: what request x asks for
  Invoice,         \* invoices issued so far
  Total,           \* Total[i]
  Payment,         \* payments
  Amount,          \* Amount[p]
  WebhookWorkers   \* workers: one callback at a time in each (async, no await)

Kind == {"callback", "manual", "adjust", "cancel"}

\* amount: what adjust adds to (or takes from) the total.
JobType == [kind: Kind, payment: Payment, invoice: Invoice, amount: Int]

ASSUME SettlementAssumption ==
  /\ Job \in [Request -> JobType]
  /\ Total \in [Invoice -> Nat] /\ Amount \in [Payment -> Nat]
  /\ IsFiniteSet(Request) /\ IsFiniteSet(Payment)
  /\ WebhookWorkers \in Nat
  /\ \A x, y \in Request :
       Job[x].kind = "manual" /\ Job[y].kind \in {"manual", "callback"}
         /\ Job[x].payment = Job[y].payment => x = y

VARIABLES
  invoices,  \* committed invoice rows
  status,    \* committed status of payments (and, the same, of their PayHero rows)
  ledger,    \* committed ledger, net per invoice tagged
  spare,     \* committed ledger, net of the rows tagged with no invoice
  credited,  \* committed credits posted for each payment
  receipts,  \* receipts[p]: the committed receipt number of p, 0 for none
  linked,    \* payments whose committed receipt has a pdf_url
  files,     \* files[n]: the payment shown by the PDF stored as receipt n, if any
  at,        \* at[x]: the statement request x comes to next
  saw,       \* saw[x]: the invoice row x read
  number,    \* number[x]: the receipt number x computed
  draft,     \* draft[x]: what x wrote and did not commit; it holds these rows' locks
  lost       \* invoices a request overwrote without having read what another had
             \* committed (not part of the program)

committed == <<invoices, status, ledger, spare, credited, receipts, linked>>
vars == <<committed, files, at, saw, number, draft, lost>>

InvoiceStatus == {"GENERATED", "PARTIALLY_PAID", "PAID", "CANCELLED"}
InvoiceRow == [total: Int, paid: Nat, balance: Int, status: InvoiceStatus]
NoColumns == [c \in {} |-> 0]
Number == 1..Cardinality(Payment)

\* pay: the payment row (and its PayHero row); columns: of the invoice row;
\* post, rest: ledger rows tagged with the invoice and with none; pdf: whether
\* there is a pdf_url; receipt: the receipt's number.
NoDraft == [pay |-> FALSE, columns |-> NoColumns, post |-> 0, rest |-> 0, pdf |-> FALSE,
            receipt |-> 0]

Running == {x \in Request : at[x] \notin {"new", "done", "failed"}}
Callbacks == {x \in Request : Job[x].kind = "callback"}
Others(x) == Request \ {x}

----------------------------------------------------------------------------
(* Row-level helpers.                                                      *)

\* recalc_invoice_status, on a day no due date has passed.
Recalc(r) ==
  [r EXCEPT !.status =
     IF r.status = "CANCELLED" THEN "CANCELLED"
     ELSE IF r.paid >= r.total /\ r.total > 0 THEN "PAID"
     ELSE IF r.paid > 0 THEN "PARTIALLY_PAID" ELSE "GENERATED"]

\* The SET clause of the ORM's UPDATE: the attributes that changed.
Changed(old, new) == [c \in {c \in DOMAIN old : old[c] # new[c]} |-> new[c]]

\* What allocate_payment applies to the invoice it read.
Applied(a, r) == IF r.balance <= 0 THEN 0 ELSE IF r.balance < a THEN r.balance ELSE a

----------------------------------------------------------------------------
(* The statements of a request, in order.                                  *)

Goto(x, label) == at' = [at EXCEPT ![x] = label]

\* The request begins.  A callback SELECTs its transaction row: only a pending
\* one goes on (Amounts agree here: see PayHero.tla).  A manual payment INSERTs
\* a payment row of its own.
Start(x) ==
  /\ at[x] = "new"
  /\ x \in Callbacks => Cardinality(Running \cap Callbacks) < WebhookWorkers
  /\ CASE x \in Callbacks ->
            Goto(x, IF status[Job[x].payment] = "PENDING" THEN "payment" ELSE "done")
              /\ UNCHANGED draft
       [] Job[x].kind = "manual" ->
            Goto(x, "invoice") /\ draft' = [draft EXCEPT ![x].pay = TRUE]
       [] OTHER -> Goto(x, "invoice") /\ UNCHANGED draft
  /\ UNCHANGED <<committed, files, saw, number, lost>>

\* handle_callback SELECTs the payment, which may have succeeded meanwhile.
ReadPayment(x) ==
  /\ at[x] = "payment"
  /\ Goto(x, IF status[Job[x].payment] = "SUCCESSFUL" THEN "done" ELSE "claim")
  /\ UNCHANGED <<committed, files, saw, number, draft, lost>>

\* UPDATE payments and payhero_transactions: waits for the rows, then writes
\* whatever they hold by now.
ClaimPayment(x) ==
  /\ at[x] = "claim"
  /\ \A y \in Others(x) : draft[y].pay => Job[y].payment # Job[x].payment
  /\ draft' = [draft EXCEPT ![x].pay = TRUE]
  /\ Goto(x, "invoice")
  /\ UNCHANGED <<committed, files, saw, number, lost>>

\* The guards of adjust_invoice and cancel_invoice.
RefusedAdjust(x, r) ==   \* mutant: a paid invoice is cancelled too
  Job[x].kind = "adjust" /\ r.status = "CANCELLED"
RefusedToAll(x, r) ==   \* mutant: nothing is done to a cancelled invoice
  \/ r.status = "CANCELLED"
  \/ Job[x].kind = "cancel" /\ r.status = "PAID"
Refused(x, r) ==
  \/ Job[x].kind = "adjust" /\ r.status = "CANCELLED"
  \/ Job[x].kind = "cancel" /\ r.status = "PAID"

\* SELECT the invoice.
ReadInvoice(x) ==
  /\ at[x] = "invoice"
  /\ LET r == invoices[Job[x].invoice] IN
       /\ saw' = [saw EXCEPT ![x] = r]
       /\ Goto(x, IF Refused(x, r) THEN "done" ELSE "write")
  /\ UNCHANGED <<committed, files, number, draft, lost>>

\* The row as the request leaves it, and the ledger rows it posts.
NewRow(x) ==
  LET r == saw[x]  j == Job[x] IN
  CASE j.kind = "adjust" ->
         IF j.amount = 0 THEN r
         ELSE Recalc([r EXCEPT !.total = @ + j.amount, !.balance = @ + j.amount])
    [] j.kind = "cancel" -> [r EXCEPT !.balance = 0, !.status = "CANCELLED"]
    [] OTHER ->
         LET a == Applied(Amount[j.payment], r) IN
         IF a = 0 THEN r ELSE Recalc([r EXCEPT !.paid = @ + a, !.balance = @ - a])
PostedCredit(x) ==   \* mutant: cancel writes a credit off too
  LET r == saw[x]  j == Job[x] IN
  CASE j.kind = "adjust" -> j.amount
    [] j.kind = "cancel" -> -r.balance
    [] OTHER -> -Applied(Amount[j.payment], r)
Posted(x) ==
  LET r == saw[x]  j == Job[x] IN
  CASE j.kind = "adjust" -> j.amount
    [] j.kind = "cancel" -> IF r.balance > 0 THEN -r.balance ELSE 0
    [] OTHER -> -Applied(Amount[j.payment], r)
Rest(x) ==
  IF Job[x].kind \in {"adjust", "cancel"} THEN 0
  ELSE -(Amount[Job[x].payment] - Applied(Amount[Job[x].payment], saw[x]))

\* UPDATE the invoice (waits for its row if anything changed) and INSERT the
\* ledger rows.
WriteInvoice(x) ==
  /\ at[x] = "write"
  /\ LET columns == Changed(saw[x], NewRow(x)) IN
       /\ columns # NoColumns =>
            \A y \in Others(x) : draft[y].columns # NoColumns => Job[y].invoice # Job[x].invoice
       /\ draft' = [draft EXCEPT ![x].columns = columns, ![x].post = Posted(x), ![x].rest = Rest(x)]
  /\ Goto(x, IF Job[x].kind \in {"adjust", "cancel"} THEN "commit" ELSE "receipt")
  /\ UNCHANGED <<committed, files, saw, number, lost>>

\* _next_receipt_number.
NextNumber == Cardinality({p \in Payment : receipts[p] # 0}) + 1

\* generate_receipt: SELECT the payment's receipt, and the count of this
\* month's receipts for the number.
ReadReceipts(x) ==
  /\ at[x] = "receipt"
  /\ IF receipts[Job[x].payment] # 0
     THEN Goto(x, "commit") /\ UNCHANGED number
     ELSE /\ number' = [number EXCEPT ![x] = NextNumber]
          /\ Goto(x, "store")
  /\ UNCHANGED <<committed, files, saw, draft, lost>>

\* The PDF is drawn and stored under the number, on a disk or in a bucket that
\* no transaction covers: written over, never taken back.  If that raises, the
\* receipt goes without.
StorePdf(x) ==
  /\ at[x] = "store"
  /\ \/ /\ files' = [files EXCEPT ![number[x]] = {Job[x].payment}]
        /\ draft' = [draft EXCEPT ![x].pdf = TRUE]
     \/ UNCHANGED <<files, draft>>
  /\ Goto(x, "insert")
  /\ UNCHANGED <<committed, saw, number, lost>>

\* Rolled back; the webhook logs it and answers 200, a route answers 500.
RollbackKeepingLocks(x) ==   \* mutant: the session is not rolled back
  Goto(x, "failed") /\ UNCHANGED draft
Rollback(x) == Goto(x, "failed") /\ draft' = [draft EXCEPT ![x] = NoDraft]

\* INSERT the receipt.  Its number and its payment are unique: the insert waits
\* for an uncommitted clash and fails on a committed one.
InsertReceiptPastErrors(x) ==   \* mutant: an IntegrityError is swallowed
  /\ at[x] = "insert"
  /\ \A y \in Others(x) : draft[y].receipt # 0 =>
       draft[y].receipt # number[x] /\ Job[y].payment # Job[x].payment
  /\ IF \E p \in Payment : receipts[p] = number[x] \/ (p = Job[x].payment /\ receipts[p] # 0)
     THEN Goto(x, "commit") /\ UNCHANGED draft
     ELSE Goto(x, "commit") /\ draft' = [draft EXCEPT ![x].receipt = number[x]]
  /\ UNCHANGED <<committed, files, saw, number, lost>>
InsertReceiptRenumbered(x) ==   \* mutant: the number is drawn again at the insert
  /\ at[x] = "insert"
  /\ \A y \in Others(x) : draft[y].receipt # 0 =>
       draft[y].receipt # NextNumber /\ Job[y].payment # Job[x].payment
  /\ IF receipts[Job[x].payment] # 0 THEN Rollback(x)
     ELSE Goto(x, "commit") /\ draft' = [draft EXCEPT ![x].receipt = NextNumber]
  /\ UNCHANGED <<committed, files, saw, number, lost>>
InsertReceipt(x) ==
  /\ at[x] = "insert"
  /\ \A y \in Others(x) : draft[y].receipt # 0 =>
       draft[y].receipt # number[x] /\ Job[y].payment # Job[x].payment
  /\ IF \E p \in Payment : receipts[p] = number[x] \/ (p = Job[x].payment /\ receipts[p] # 0)
     THEN Rollback(x)
     ELSE Goto(x, "commit") /\ draft' = [draft EXCEPT ![x].receipt = number[x]]
  /\ UNCHANGED <<committed, files, saw, number, lost>>

Commit(x) ==
  /\ at[x] = "commit"
  /\ LET d == draft[x]  i == Job[x].invoice  p == Job[x].payment IN
     /\ invoices' = [invoices EXCEPT ![i] =
          [c \in DOMAIN @ |-> IF c \in DOMAIN d.columns THEN d.columns[c] ELSE @[c]]]
     /\ lost' = lost \cup {j \in {i} : d.columns # NoColumns /\ saw[x] # invoices[i]}
     /\ ledger' = [ledger EXCEPT ![i] = @ + d.post]
     /\ spare' = spare + d.rest
     /\ status' = IF d.pay THEN [status EXCEPT ![p] = "SUCCESSFUL"] ELSE status
     /\ credited' = IF d.pay THEN [credited EXCEPT ![p] = @ - (d.post + d.rest)] ELSE credited
     /\ receipts' = IF d.receipt # 0 THEN [receipts EXCEPT ![p] = d.receipt] ELSE receipts
     /\ linked' = IF d.receipt # 0 /\ d.pdf THEN linked \cup {p} ELSE linked
  /\ draft' = [draft EXCEPT ![x] = NoDraft]
  /\ Goto(x, "done")
  /\ UNCHANGED <<files, saw, number>>

----------------------------------------------------------------------------
Init ==
  /\ invoices = [i \in Invoice |->
       [total |-> Total[i], paid |-> 0, balance |-> Total[i], status |-> "GENERATED"]]
  /\ status = [p \in Payment |->
       IF \E x \in Callbacks : Job[x].payment = p THEN "PENDING" ELSE "NONE"]
  /\ ledger = Total /\ spare = 0
  /\ credited = [p \in Payment |-> 0]
  /\ receipts = [p \in Payment |-> 0] /\ linked = {}
  /\ files = [n \in Number |-> {}]
  /\ at = [x \in Request |-> "new"]
  /\ saw = [x \in Request |-> NoColumns]
  /\ number = [x \in Request |-> 0]
  /\ draft = [x \in Request |-> NoDraft]
  /\ lost = {}

Step(x) ==
  \/ ReadPayment(x) \/ ClaimPayment(x) \/ ReadInvoice(x) \/ WriteInvoice(x)
  \/ ReadReceipts(x) \/ StorePdf(x) \/ InsertReceipt(x) \/ Commit(x)

Next == \E x \in Request : Start(x) \/ Step(x)

Spec == Init /\ [][Next]_vars

\* A request that started runs on as soon as the locks it waits for are free.
FairSpec == Spec /\ \A x \in Request : WF_vars(Step(x))

----------------------------------------------------------------------------
(* Properties.                                                             *)

TypeOK ==
  /\ invoices \in [Invoice -> InvoiceRow]
  /\ status \in [Payment -> {"NONE", "PENDING", "SUCCESSFUL"}]
  /\ ledger \in [Invoice -> Int] /\ spare \in Int
  /\ credited \in [Payment -> Int] /\ receipts \in [Payment -> Number \cup {0}]
  /\ linked \subseteq Payment /\ files \in [Number -> {{}} \cup {{p} : p \in Payment}]
  /\ number \in [Request -> Nat] /\ lost \subseteq Invoice
  /\ at \in [Request -> {"new", "payment", "claim", "invoice", "write", "receipt",
                         "store", "insert", "commit", "done", "failed"}]

\* However callbacks (duplicates included), manual payments, adjustments and
\* cancellations interleave, a payment that shows as successful is credited in
\* full, once, and has a receipt; any other is not credited at all.
\* payhero_service.py:136-137 and tests/test_payhero_service.py:61 say so of a
\* second callback.
CreditedOnce ==
  \A p \in Payment :
    IF status[p] = "SUCCESSFUL" THEN credited[p] = Amount[p] /\ receipts[p] # 0
    ELSE credited[p] = 0 /\ receipts[p] = 0

\* An invoice's own books agree with the ledger rows posted for it, in whatever
\* order its requests overlap, as long as none of them overwrites what it has
\* not read: the one way of interleaving that makes the two differ.  A cancelled
\* invoice is written off, but for what it owed the tenant (paid beyond a total
\* that discounts had lowered): that stays in the ledger (billing_service.py:175).
InvoiceAgrees ==
  \A i \in Invoice \ lost :
    LET due == invoices[i].total - invoices[i].paid IN
    IF invoices[i].status # "CANCELLED" THEN invoices[i].balance = due /\ ledger[i] = due
    ELSE invoices[i].balance = 0 /\ ledger[i] = IF due < 0 THEN due ELSE 0

\* billing_service.py:171 "Cannot cancel a fully paid invoice": nor does it
\* happen behind the check, unless the cancellation has not seen the payment.
PaidIsNotCancelled ==
  [][\A i \in Invoice \ lost' :
       invoices[i].status = "PAID" => invoices'[i].status # "CANCELLED"]_vars

\* webhooks.py:57 "we've already recorded whatever we could": once a callback of
\* a successful payment is answered the payment is on the books, or else
\* another payment took the receipt number computed for it.
AckedIsRecorded ==
  \A x \in Callbacks : at[x] \in {"done", "failed"} =>
    \/ status[Job[x].payment] = "SUCCESSFUL"
    \/ \E p \in Payment \ {Job[x].payment} : at[x] = "failed" /\ receipts[p] = number[x]

\* receipt_service.py:2 "a PDF receipt for a successful payment": the PDF a
\* receipt links to shows the receipt's own payment, unless another payment drew
\* the same number, stored its PDF over this one, and then fails on the number,
\* leaving the wrong PDF behind; it never gets a receipt of that number.
ReceiptShowsPayment ==
  \A p \in linked :
    LET n == receipts[p] IN
      files[n] # {p} =>
        \E x \in Request :
          /\ files[n] = {Job[x].payment} /\ number[x] = n
          /\ at[x] \in {"insert", "failed"} /\ receipts[Job[x].payment] # n

\* Nobody waits for ever: the order in which the handlers take locks has no
\* cycle, and a rolled back request gives its locks back.
Finishes == \A x \in Request : at[x] # "new" ~> at[x] \in {"done", "failed"}
=============================================================================
