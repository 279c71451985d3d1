-------------------------- MODULE SettlementProofs --------------------------
(***************************************************************************)
(* Proofs about Settlement, for any requests, payments, invoices and       *)
(* amounts.                                                                *)
(*                                                                         *)
(* The tables change at a commit only, so the argument is about what an    *)
(* open transaction may hold: at every statement a request's draft is a    *)
(* function of what it has read (Progress), no two drafts hold receipts    *)
(* that clash with each other or with the table (Disjoint, Free).  Credits *)
(* counts the requests that credit a payment, which were all running when  *)
(* the first of them committed.  Filed follows each stored PDF to the      *)
(* request that stored it last.                                            *)
(***************************************************************************)
EXTENDS Settlement, FiniteSetTheorems, TLAPS

P(x) == Job[x].payment
I(x) == Job[x].invoice
Payer(x) == Job[x].kind \in {"callback", "manual"}

----------------------------------------------------------------------------
(* Drafts and rows.                                                        *)

Draft(y, c, o, s, b, n) ==
  [pay |-> y, columns |-> c, post |-> o, rest |-> s, pdf |-> b, receipt |-> n]

\* The row r with the columns c written over.
Merged(r, c) == [k \in DOMAIN r |-> IF k \in DOMAIN c THEN c[k] ELSE r[k]]

\* (The provers take the two truth values better by name.)
On == TRUE
Off == FALSE

\* What a request has written before it comes to the invoice's row.
Opened(x) == Draft(Payer(x), NoColumns, 0, 0, Off, 0)

LEMMA DraftFields ==
  ASSUME NEW y, NEW c, NEW o, NEW s, NEW b, NEW n
  PROVE  /\ Draft(y, c, o, s, b, n).pay = y /\ Draft(y, c, o, s, b, n).columns = c
         /\ Draft(y, c, o, s, b, n).post = o /\ Draft(y, c, o, s, b, n).rest = s
         /\ Draft(y, c, o, s, b, n).pdf = b /\ Draft(y, c, o, s, b, n).receipt = n
  BY DEF Draft

\* The assignments of the model to a request's draft.
PutPay(d, v) == [d EXCEPT !.pay = v]
PutColumns(d, v) == [d EXCEPT !.columns = v]
PutPost(d, v) == [d EXCEPT !.post = v]
PutRest(d, v) == [d EXCEPT !.rest = v]
PutPdf(d, v) == [d EXCEPT !.pdf = v]
PutReceipt(d, v) == [d EXCEPT !.receipt = v]

LEMMA DraftPuts ==
  ASSUME NEW y, NEW c, NEW o, NEW s, NEW b, NEW n, NEW v
  PROVE  /\ PutPay(Draft(y, c, o, s, b, n), v) = Draft(v, c, o, s, b, n)
         /\ PutColumns(Draft(y, c, o, s, b, n), v) = Draft(y, v, o, s, b, n)
         /\ PutPost(Draft(y, c, o, s, b, n), v) = Draft(y, c, v, s, b, n)
         /\ PutRest(Draft(y, c, o, s, b, n), v) = Draft(y, c, o, v, b, n)
         /\ PutPdf(Draft(y, c, o, s, b, n), v) = Draft(y, c, o, s, v, n)
         /\ PutReceipt(Draft(y, c, o, s, b, n), v) = Draft(y, c, o, s, b, v)
  BY DEF Draft, PutPay, PutColumns, PutPost, PutRest, PutPdf, PutReceipt

\* What the requests make of their drafts with them.
LEMMA DraftSteps ==
  /\ NoDraft = Draft(Off, NoColumns, 0, 0, Off, 0)
  /\ PutPay(NoDraft, On) = Draft(On, NoColumns, 0, 0, Off, 0)
  /\ \A y, c, o, s :
       /\ PutRest(PutPost(PutColumns(Draft(y, NoColumns, 0, 0, Off, 0), c), o), s)
            = Draft(y, c, o, s, Off, 0)
       /\ PutPdf(Draft(y, c, o, s, Off, 0), On) = Draft(y, c, o, s, On, 0)
       /\ \A b, n : PutReceipt(Draft(y, c, o, s, b, 0), n) = Draft(y, c, o, s, b, n)
<1>1. NoDraft = Draft(Off, NoColumns, 0, 0, Off, 0)
  BY DEF NoDraft, Draft, Off
<1> QED BY <1>1, DraftPuts

\* A request that pays has written its payment's row, any other nothing.
LEMMA OpenedIs ==
  ASSUME NEW x
  PROVE  /\ Payer(x) => Opened(x) = PutPay(NoDraft, On)
         /\ ~Payer(x) => Opened(x) = NoDraft
         /\ Opened(x).receipt = 0
<1>1. (Payer(x) <=> Payer(x) = On) /\ (~Payer(x) <=> Payer(x) = Off)
  BY DEF Payer, On, Off
<1>2. Opened(x).receipt = 0
  BY DEF Opened, Draft
<1>3. CASE Payer(x) = On
  BY <1>1, <1>2, <1>3, DraftSteps DEF Opened
<1>4. CASE Payer(x) = Off
  BY <1>1, <1>2, <1>4, DraftSteps DEF Opened
<1> QED BY <1>1, <1>3, <1>4

LEMMA MergedTyped ==
  ASSUME NEW r \in InvoiceRow, NEW s \in InvoiceRow, NEW n \in InvoiceRow
  PROVE  Merged(r, Changed(s, n)) \in InvoiceRow
  BY DEF Merged, Changed, InvoiceRow

LEMMA MergedSame ==
  ASSUME NEW s \in InvoiceRow, NEW n \in InvoiceRow
  PROVE  Merged(s, Changed(s, n)) = n
  BY DEF Merged, Changed, InvoiceRow

LEMMA NothingChanged ==
  ASSUME NEW s \in InvoiceRow, NEW n \in InvoiceRow, Changed(s, n) = NoColumns
  PROVE  n = s
  BY DEF NoColumns, Changed, InvoiceRow

LEMMA MergedNothing ==
  ASSUME NEW s \in InvoiceRow
  PROVE  Merged(s, NoColumns) = s
  BY DEF NoColumns, Merged, InvoiceRow

LEMMA JobTypes ==
  ASSUME NEW x \in Request
  PROVE  /\ Job[x].kind \in Kind /\ P(x) \in Payment /\ I(x) \in Invoice
         /\ Job[x].amount \in Int /\ Amount[P(x)] \in Nat
  BY SettlementAssumption DEF JobType, P, I

\* What allocate_payment applies is neither negative nor more than the payment.
LEMMA AppliedBounds ==
  ASSUME NEW a \in Nat, NEW r \in InvoiceRow
  PROVE  /\ Applied(a, r) \in Nat /\ Applied(a, r) <= a
         /\ Applied(a, r) # 0 => Applied(a, r) <= r.balance
  BY DEF Applied, InvoiceRow

LEMMA RecalcKeeps ==
  ASSUME NEW r \in InvoiceRow
  PROVE  /\ Recalc(r) \in InvoiceRow
         /\ Recalc(r).total = r.total /\ Recalc(r).paid = r.paid
         /\ Recalc(r).balance = r.balance
         /\ Recalc(r).status = "CANCELLED" <=> r.status = "CANCELLED"
  BY DEF Recalc, InvoiceRow, InvoiceStatus

\* The three UPDATEs of an invoice.  (The provers take one EXCEPT at a time.)
LEMMA TotalMoves ==
  ASSUME NEW r \in InvoiceRow, NEW v \in Int
  PROVE  LET n == [r EXCEPT !.total = @ + v, !.balance = @ + v] IN
         /\ n \in InvoiceRow /\ n.total = r.total + v /\ n.paid = r.paid
         /\ n.balance = r.balance + v /\ n.status = r.status
<1> DEFINE m == [r EXCEPT !.total = @ + v]
           n == [m EXCEPT !.balance = @ + v]
<1>1. /\ m \in InvoiceRow /\ m.total = r.total + v /\ m.paid = r.paid
      /\ m.balance = r.balance /\ m.status = r.status
  BY DEF InvoiceRow
<1>2. [r EXCEPT !.total = @ + v, !.balance = @ + v] = n
  BY DEF InvoiceRow
<1> HIDE DEF m
<1>3. /\ n \in InvoiceRow /\ n.total = m.total /\ n.paid = m.paid
      /\ n.balance = m.balance + v /\ n.status = m.status
  BY <1>1 DEF InvoiceRow
<1> HIDE DEF n
<1> QED BY <1>1, <1>2, <1>3

LEMMA PaidMoves ==
  ASSUME NEW r \in InvoiceRow, NEW v \in Nat
  PROVE  LET n == [r EXCEPT !.paid = @ + v, !.balance = @ - v] IN
         /\ n \in InvoiceRow /\ n.total = r.total /\ n.paid = r.paid + v
         /\ n.balance = r.balance - v /\ n.status = r.status
<1> DEFINE m == [r EXCEPT !.paid = @ + v]
           n == [m EXCEPT !.balance = @ - v]
<1>1. /\ m \in InvoiceRow /\ m.total = r.total /\ m.paid = r.paid + v
      /\ m.balance = r.balance /\ m.status = r.status
  BY DEF InvoiceRow
<1>2. [r EXCEPT !.paid = @ + v, !.balance = @ - v] = n
  BY DEF InvoiceRow
<1> HIDE DEF m
<1>3. /\ n \in InvoiceRow /\ n.total = m.total /\ n.paid = m.paid
      /\ n.balance = m.balance - v /\ n.status = m.status
  BY <1>1 DEF InvoiceRow
<1> HIDE DEF n
<1> QED BY <1>1, <1>2, <1>3

LEMMA CancelledRow ==
  ASSUME NEW r \in InvoiceRow
  PROVE  LET n == [r EXCEPT !.balance = 0, !.status = "CANCELLED"] IN
         /\ n \in InvoiceRow /\ n.total = r.total /\ n.paid = r.paid
         /\ n.balance = 0 /\ n.status = "CANCELLED"
<1> DEFINE m == [r EXCEPT !.balance = 0]
           n == [m EXCEPT !.status = "CANCELLED"]
<1>1. /\ m \in InvoiceRow /\ m.total = r.total /\ m.paid = r.paid
      /\ m.balance = 0
  BY DEF InvoiceRow
<1>2. [r EXCEPT !.balance = 0, !.status = "CANCELLED"] = n
  BY DEF InvoiceRow
<1> HIDE DEF m
<1>3. /\ n \in InvoiceRow /\ n.total = m.total /\ n.paid = m.paid
      /\ n.balance = m.balance /\ n.status = "CANCELLED"
  BY <1>1 DEF InvoiceRow, InvoiceStatus
<1> HIDE DEF n
<1> QED BY <1>1, <1>2, <1>3

LEMMA NewRowTyped ==
  ASSUME NEW x \in Request, saw[x] \in InvoiceRow
  PROVE  /\ NewRow(x) \in InvoiceRow /\ Posted(x) \in Int /\ Rest(x) \in Int
         /\ Payer(x) => Posted(x) + Rest(x) = -Amount[P(x)]
<1> DEFINE r == saw[x]  j == Job[x]
           a == Applied(Amount[P(x)], r)
<1>1. /\ j.kind \in Kind /\ j.amount \in Int /\ Amount[P(x)] \in Nat
      /\ a \in Nat /\ a <= Amount[P(x)] /\ (a # 0 => a <= r.balance)
  BY JobTypes, AppliedBounds
<1>2. r.total \in Int /\ r.paid \in Nat /\ r.balance \in Int
  BY DEF InvoiceRow
<1>3. /\ Posted(x) \in Int /\ Rest(x) \in Int
      /\ Payer(x) => Posted(x) + Rest(x) = -Amount[P(x)]
  BY <1>1, <1>2 DEF Posted, Rest, Payer, Kind, P
<1>4. CASE j.kind = "adjust"
  <2>1. [r EXCEPT !.total = @ + j.amount, !.balance = @ + j.amount] \in InvoiceRow
    BY <1>1, TotalMoves
  <2> QED BY <1>3, <1>4, <2>1, RecalcKeeps DEF NewRow
<1>5. CASE j.kind = "cancel"
  <2>1. [r EXCEPT !.balance = 0, !.status = "CANCELLED"] \in InvoiceRow
    BY CancelledRow
  <2> QED BY <1>3, <1>5, <2>1 DEF NewRow
<1>6. CASE j.kind \in {"callback", "manual"}
  <2>1. [r EXCEPT !.paid = @ + a, !.balance = @ - a] \in InvoiceRow
    <3> HIDE DEF a
    <3> QED BY <1>1, PaidMoves
  <2> QED BY <1>3, <1>6, <2>1, RecalcKeeps DEF NewRow, P
<1> QED BY <1>1, <1>4, <1>5, <1>6 DEF Kind

----------------------------------------------------------------------------
(* The inductive invariant.                                                *)

Labels == {"new", "payment", "claim", "invoice", "write", "receipt",
           "store", "insert", "commit", "done", "failed"}

Types ==
  /\ TypeOK
  /\ DOMAIN draft = Request /\ DOMAIN saw = Request

\* The draft of x once it has written the invoice.
Written(x, b, n) ==
  Draft(Payer(x), Changed(saw[x], NewRow(x)), Posted(x), Rest(x), b, n)

\* What x has read and written when it comes to each of its statements.
Progress(x) ==
  /\ at[x] \in {"new", "payment", "claim", "done", "failed"} => draft[x] = NoDraft
  /\ at[x] \in {"payment", "claim"} => x \in Callbacks
  /\ at[x] \in {"invoice", "write"} =>
       draft[x] = Opened(x)
  /\ at[x] \in {"write", "receipt", "store", "insert", "commit"} =>
       saw[x] \in InvoiceRow /\ ~Refused(x, saw[x])
  /\ at[x] \in {"receipt", "store", "insert"} => Payer(x)
  /\ at[x] \in {"store", "insert", "failed"} => number[x] \in Number
  /\ at[x] \in {"receipt", "store"} => draft[x] = Written(x, Off, 0)
  /\ at[x] = "insert" => \E b \in BOOLEAN : draft[x] = Written(x, b, 0)
  /\ at[x] = "commit" =>
       \E b \in BOOLEAN, n \in Number \cup {0} : draft[x] = Written(x, b, n) /\ (n # 0 => Payer(x))

\* No committed receipt clashes with the one in x's draft.
Free(x) ==
  draft[x].receipt # 0 =>
    receipts[P(x)] = 0 /\ \A p \in Payment : receipts[p] # draft[x].receipt

\* Nor does the one in y's.
Disjoint(x, y) ==
  draft[x].receipt # 0 /\ draft[y].receipt # 0 =>
    draft[x].receipt # draft[y].receipt /\ P(x) # P(y)

\* A callback's payment is pending, or it is settled; once the callback is
\* answered it is settled, or its number was taken.
Answered(x) ==
  x \in Callbacks =>
    /\ status[P(x)] \in {"PENDING", "SUCCESSFUL"}
    /\ at[x] = "done" => status[P(x)] = "SUCCESSFUL"
    /\ at[x] = "failed" =>
         \/ status[P(x)] = "SUCCESSFUL"
         \/ \E p \in Payment \ {P(x)} : receipts[p] = number[x]

IInv ==
  /\ Types
  /\ \A p \in Payment : receipts[p] # 0 => status[p] = "SUCCESSFUL"
  /\ \A x \in Request : Progress(x) /\ Free(x) /\ Answered(x)
  /\ \A x, y \in Request : x # y => Disjoint(x, y)

LEMMA NoDraftFields ==
  NoDraft.pay = FALSE /\ NoDraft.columns = NoColumns /\ NoDraft.post = 0
  /\ NoDraft.rest = 0 /\ NoDraft.pdf = FALSE /\ NoDraft.receipt = 0
  BY DEF NoDraft

LEMMA InitEstablishes == Init => IInv
<1> SUFFICES ASSUME Init PROVE IInv
  OBVIOUS
<1>1. Types
  <2>1. invoices \in [Invoice -> InvoiceRow]
    BY SettlementAssumption DEF Init, InvoiceRow, InvoiceStatus
  <2>2. ledger \in [Invoice -> Int]
    BY SettlementAssumption DEF Init
  <2>3. /\ status \in [Payment -> {"NONE", "PENDING", "SUCCESSFUL"}]
        /\ credited \in [Payment -> Int] /\ receipts \in [Payment -> Number \cup {0}]
        /\ linked \subseteq Payment /\ files \in [Number -> {{}} \cup {{p} : p \in Payment}]
        /\ number \in [Request -> Nat] /\ lost \subseteq Invoice
        /\ at \in [Request -> Labels] /\ spare \in Int
        /\ DOMAIN draft = Request /\ DOMAIN saw = Request
    BY DEF Init, Labels
  <2> QED BY <2>1, <2>2, <2>3 DEF Types, TypeOK, Labels
<1>2. \A x \in Request : at[x] = "new" /\ draft[x] = NoDraft
  BY DEF Init
<1>3. \A x \in Request : Progress(x)
  BY <1>2 DEF Progress
<1>4. \A x \in Request : Answered(x)
  <2> TAKE x \in Request
  <2>1. x \in Callbacks => status[P(x)] = "PENDING"
    BY JobTypes DEF Init, P
  <2> QED BY <1>2, <2>1 DEF Answered
<1>5. \A p \in Payment : receipts[p] = 0
  BY DEF Init
<1> QED BY <1>1, <1>2, <1>3, <1>4, <1>5, NoDraftFields DEF IInv, Free, Disjoint

----------------------------------------------------------------------------
(* Steps that commit nothing.                                              *)

\* Request y is where it was.
Same(y) == at'[y] = at[y] /\ saw'[y] = saw[y] /\ number'[y] = number[y] /\ draft'[y] = draft[y]

LEMMA SameProgress ==
  ASSUME NEW y \in Request, Progress(y), Same(y)
  PROVE  Progress(y)'
<1>1. /\ NewRow(y)' = NewRow(y) /\ Posted(y)' = Posted(y) /\ Rest(y)' = Rest(y)
  BY DEF Same, NewRow, Posted, Rest
<1>2. \A b, n : Written(y, b, n)' = Written(y, b, n)
  BY <1>1 DEF Same, Written, Payer
<1> QED BY <1>2 DEF Progress, Same, Payer, Refused

\* A step of x alone that leaves the committed rows alone keeps the invariant
\* if it keeps what there is to say of x.
LEMMA QuietStep ==
  ASSUME IInv, NEW x \in Request, NEW l \in Labels,
         at' = [at EXCEPT ![x] = l],
         DOMAIN draft' = Request, DOMAIN saw' = Request,
         number' \in [Request -> Nat],
         files' \in [Number -> {{}} \cup {{p} : p \in Payment}],
         \A y \in Others(x) : Same(y),
         UNCHANGED <<committed, lost>>,
         Progress(x)', Free(x)', Answered(x)',
         \A y \in Others(x) : Disjoint(x, y)'
  PROVE  IInv'
<1>1. Types'
  BY DEF IInv, Types, TypeOK, Labels, committed, InvoiceRow
<1>2. \A y \in Others(x) : Progress(y)'
  BY SameProgress DEF IInv, Others
<1>3. \A y \in Others(x) : Free(y)' /\ Answered(y)'
  BY DEF IInv, Free, Answered, Same, Others, committed, P
<1>4. \A y, z \in Request : y # z => Disjoint(y, z)'
  BY DEF IInv, Disjoint, Same, Others
<1>5. (\A p \in Payment : receipts[p] # 0 => status[p] = "SUCCESSFUL")'
  BY DEF IInv, committed
<1> QED BY <1>1, <1>2, <1>3, <1>4, <1>5 DEF IInv, Others

\* What an unfinished draft says of receipts: nothing.
LEMMA NoReceipt ==
  ASSUME NEW x \in Request, draft[x].receipt = 0
  PROVE  Free(x) /\ \A y \in Others(x) : Disjoint(x, y)
  BY DEF Free, Disjoint

LEMMA StartKeeps ==
  ASSUME IInv, NEW x \in Request, Start(x)
  PROVE  IInv'
<1>1. /\ Progress(x) /\ Answered(x) /\ Types /\ draft[x] = NoDraft
      /\ Job[x].kind \in Kind
  BY JobTypes DEF IInv, Progress, Start
<1>2. CASE x \in Callbacks
  <2> DEFINE l == IF status[P(x)] = "PENDING" THEN "payment" ELSE "done"
  <2>0. at' = [at EXCEPT ![x] = l] /\ UNCHANGED <<committed, lost, files, saw, number, draft>>
    BY <1>2 DEF Start, Goto, P, Callbacks
  <2>1. at' = [at EXCEPT ![x] = l] /\ l \in Labels /\ at'[x] = l /\ l \in {"payment", "done"}
    BY <1>1, <2>0 DEF Labels, Types, TypeOK
  <2>2. UNCHANGED <<committed, lost, files, saw, number, draft>>
    BY <2>0
  <2>3. draft'[x] = NoDraft /\ draft'[x].receipt = 0
    BY <1>1, <2>2, NoDraftFields
  <2>4. Progress(x)'
    BY <1>2, <2>1, <2>3 DEF Progress, Callbacks
  <2>5. Answered(x)'
    BY <1>1, <1>2, <2>1, <2>2 DEF Answered, committed, P
  <2>6. \A y \in Others(x) : Same(y)
    BY <1>1, <2>1, <2>2 DEF Same, Others, Types, TypeOK
  <2>7. Free(x)' /\ \A y \in Others(x) : Disjoint(x, y)'
    BY <2>3 DEF Free, Disjoint
  <2> HIDE DEF l
  <2> QED BY <1>1, <2>1, <2>2, <2>4, <2>5, <2>6, <2>7, QuietStep DEF Types, TypeOK
<1>3. CASE Job[x].kind = "manual"
  <2>1. at' = [at EXCEPT ![x] = "invoice"] /\ at'[x] = "invoice" /\ x \notin Callbacks
    BY <1>1, <1>3 DEF Start, Goto, Callbacks, Types, TypeOK
  <2>2. /\ UNCHANGED <<committed, lost, files, saw, number>>
        /\ draft' = [draft EXCEPT ![x].pay = TRUE]
    BY <1>3, <2>1 DEF Start, Callbacks
  <2>3. draft' = [draft EXCEPT ![x] = PutPay(draft[x], On)]
    BY <2>2 DEF PutPay, On
  <2>4. draft'[x] = Opened(x)
    BY <1>1, <1>3, <2>3, OpenedIs DEF Types, Payer
  <2>5. draft'[x].receipt = 0
    BY <2>4, OpenedIs
  <2>6. Progress(x)'
    BY <2>1, <2>4 DEF Progress
  <2>7. Answered(x)'
    BY <2>1 DEF Answered, Callbacks
  <2>8. \A y \in Others(x) : Same(y)
    BY <1>1, <2>1, <2>2, <2>3 DEF Same, Others, Types, TypeOK
  <2>9. Free(x)' /\ \A y \in Others(x) : Disjoint(x, y)'
    BY <2>5 DEF Free, Disjoint
  <2> QED BY <1>1, <2>1, <2>2, <2>3, <2>6, <2>7, <2>8, <2>9, QuietStep DEF Types, TypeOK, Labels
<1>4. CASE Job[x].kind \in {"adjust", "cancel"}
  <2>1. at' = [at EXCEPT ![x] = "invoice"] /\ at'[x] = "invoice" /\ x \notin Callbacks
    BY <1>1, <1>4 DEF Start, Goto, Callbacks, Types, TypeOK
  <2>2. UNCHANGED <<committed, lost, files, saw, number, draft>>
    BY <1>4, <2>1 DEF Start, Callbacks
  <2>3. draft'[x] = Opened(x) /\ draft'[x].receipt = 0
    BY <1>1, <1>4, <2>2, OpenedIs DEF Payer
  <2>6. Progress(x)'
    BY <2>1, <2>3 DEF Progress
  <2>7. Answered(x)'
    BY <2>1 DEF Answered, Callbacks
  <2>8. \A y \in Others(x) : Same(y)
    BY <1>1, <2>1, <2>2 DEF Same, Others, Types, TypeOK
  <2>9. Free(x)' /\ \A y \in Others(x) : Disjoint(x, y)'
    BY <2>3 DEF Free, Disjoint
  <2> QED BY <1>1, <2>1, <2>2, <2>6, <2>7, <2>8, <2>9, QuietStep DEF Types, TypeOK, Labels
<1> QED BY <1>1, <1>2, <1>3, <1>4 DEF Kind, Callbacks

LEMMA ReadPaymentKeeps ==
  ASSUME IInv, NEW x \in Request, ReadPayment(x)
  PROVE  IInv'
<1> DEFINE l == IF status[P(x)] = "SUCCESSFUL" THEN "done" ELSE "claim"
<1>1. /\ Progress(x) /\ Answered(x) /\ Types /\ draft[x] = NoDraft /\ x \in Callbacks
      /\ at[x] = "payment"
  BY DEF IInv, Progress, ReadPayment
<1>2. at' = [at EXCEPT ![x] = l] /\ l \in Labels /\ at'[x] = l /\ l \in {"done", "claim"}
  BY <1>1 DEF ReadPayment, Goto, P, Labels, Types, TypeOK
<1>3. UNCHANGED <<committed, lost, files, saw, number, draft>>
  BY DEF ReadPayment
<1>4. draft'[x] = NoDraft /\ draft'[x].receipt = 0
  BY <1>1, <1>3, NoDraftFields
<1>5. Progress(x)'
  BY <1>1, <1>2, <1>4 DEF Progress, Callbacks
<1>6. Answered(x)'
  BY <1>1, <1>2, <1>3 DEF Answered, committed, P
<1>7. \A y \in Others(x) : Same(y)
  BY <1>1, <1>2, <1>3 DEF Same, Others, Types, TypeOK
<1>8. Free(x)' /\ \A y \in Others(x) : Disjoint(x, y)'
  BY <1>4 DEF Free, Disjoint
<1> HIDE DEF l
<1> QED BY <1>1, <1>2, <1>3, <1>5, <1>6, <1>7, <1>8, QuietStep DEF Types, TypeOK

LEMMA ClaimPaymentKeeps ==
  ASSUME IInv, NEW x \in Request, ClaimPayment(x)
  PROVE  IInv'
<1>1. /\ Progress(x) /\ Answered(x) /\ Types /\ draft[x] = NoDraft /\ x \in Callbacks
      /\ at[x] = "claim"
  BY DEF IInv, Progress, ClaimPayment
<1>2. at' = [at EXCEPT ![x] = "invoice"] /\ at'[x] = "invoice"
  BY <1>1 DEF ClaimPayment, Goto, Types, TypeOK
<1>3. /\ UNCHANGED <<committed, lost, files, saw, number>>
      /\ draft' = [draft EXCEPT ![x].pay = TRUE]
  BY DEF ClaimPayment
<1>4. draft' = [draft EXCEPT ![x] = PutPay(draft[x], On)]
  BY <1>3 DEF PutPay, On
<1>5. draft'[x] = Opened(x)
  BY <1>1, <1>4, OpenedIs DEF Types, Payer, Callbacks
<1>6. draft'[x].receipt = 0
  BY <1>5, OpenedIs
<1>7. Progress(x)'
  BY <1>2, <1>5 DEF Progress
<1>8. Answered(x)'
  BY <1>1, <1>2, <1>3 DEF Answered, committed, P
<1>9. \A y \in Others(x) : Same(y)
  BY <1>1, <1>2, <1>3, <1>4 DEF Same, Others, Types, TypeOK
<1>10. Free(x)' /\ \A y \in Others(x) : Disjoint(x, y)'
  BY <1>6 DEF Free, Disjoint
<1> QED BY <1>1, <1>2, <1>3, <1>4, <1>7, <1>8, <1>9, <1>10, QuietStep DEF Types, TypeOK, Labels

LEMMA ReadInvoiceKeeps ==
  ASSUME IInv, NEW x \in Request, ReadInvoice(x)
  PROVE  IInv'
<1> DEFINE r == invoices[I(x)]
           l == IF Refused(x, r) THEN "done" ELSE "write"
<1>1. /\ Progress(x) /\ Answered(x) /\ Types /\ draft[x] = Opened(x)
      /\ r \in InvoiceRow
  BY JobTypes DEF IInv, Progress, ReadInvoice, Types, TypeOK
<1>2. /\ at' = [at EXCEPT ![x] = l] /\ saw' = [saw EXCEPT ![x] = r]
      /\ UNCHANGED <<committed, lost, files, number, draft>>
  BY DEF ReadInvoice, Goto, I
<1>3. /\ l \in Labels /\ at'[x] = l /\ l \in {"done", "write"} /\ saw'[x] = r
      /\ DOMAIN saw' = Request
  BY <1>1, <1>2 DEF Labels, Types, TypeOK
<1>4. l = "done" => draft'[x] = NoDraft /\ x \notin Callbacks
  BY <1>1, <1>2, OpenedIs DEF Refused, Payer, Callbacks
<1>5. l = "write" => ~Refused(x, r)
  OBVIOUS
<1>6. draft'[x] = Opened(x) /\ draft'[x].receipt = 0
  BY <1>1, <1>2, OpenedIs
<1>7. \A y \in Others(x) : Same(y)
  BY <1>1, <1>2 DEF Same, Others, Types, TypeOK
<1> HIDE DEF l, r
<1>8. Progress(x)'
  BY <1>1, <1>3, <1>4, <1>5, <1>6 DEF Progress, Refused
<1>9. Answered(x)'
  BY <1>1, <1>2, <1>3, <1>4 DEF Answered, committed, P
<1>10. Free(x)' /\ \A y \in Others(x) : Disjoint(x, y)'
  BY <1>6 DEF Free, Disjoint
<1> QED BY <1>1, <1>2, <1>3, <1>7, <1>8, <1>9, <1>10, QuietStep DEF Types, TypeOK

LEMMA WriteInvoiceKeeps ==
  ASSUME IInv, NEW x \in Request, WriteInvoice(x)
  PROVE  IInv'
<1> DEFINE l == IF Job[x].kind \in {"adjust", "cancel"} THEN "commit" ELSE "receipt"
           c == Changed(saw[x], NewRow(x))
<1>1. /\ Progress(x) /\ Answered(x) /\ Types /\ draft[x] = Opened(x)
      /\ saw[x] \in InvoiceRow /\ ~Refused(x, saw[x]) /\ Job[x].kind \in Kind
  BY JobTypes DEF IInv, Progress, WriteInvoice
<1>2. /\ at' = [at EXCEPT ![x] = l]
      /\ UNCHANGED <<committed, lost, files, saw, number>>
  BY DEF WriteInvoice, Goto
<1>3. draft' = [draft EXCEPT ![x] =
                  PutRest(PutPost(PutColumns(draft[x], c), Posted(x)), Rest(x))]
  BY DEF WriteInvoice, PutColumns, PutPost, PutRest
<1>4. /\ l \in Labels /\ at'[x] = l /\ l \in {"commit", "receipt"} /\ saw'[x] = saw[x]
      /\ DOMAIN draft' = Request
  BY <1>1, <1>2, <1>3 DEF Labels, Types, TypeOK
<1>5. l = "receipt" => Payer(x)
  BY <1>1 DEF Payer, Kind
<1>6. draft'[x] = Written(x, Off, 0)
  BY <1>1, <1>3, DraftSteps DEF Types, Opened, Written
<1>7. Written(x, Off, 0)' = Written(x, Off, 0)
  BY <1>4 DEF Written, NewRow, Posted, Rest, Payer
<1>8. draft'[x].receipt = 0
  BY <1>6, DraftFields DEF Written
<1>9. \A y \in Others(x) : Same(y)
  BY <1>1, <1>2, <1>3 DEF Same, Others, Types, TypeOK
<1> HIDE DEF l, c
<1>10. Progress(x)'
  <2>1. Off \in BOOLEAN /\ 0 \in Number \cup {0}
    BY DEF Off
  <2> QED BY <1>1, <1>4, <1>5, <1>6, <1>7, <2>1 DEF Progress, Refused, Payer
<1>11. Answered(x)'
  BY <1>1, <1>2, <1>4 DEF Answered, committed, P
<1>12. Free(x)' /\ \A y \in Others(x) : Disjoint(x, y)'
  BY <1>8 DEF Free, Disjoint
<1> QED BY <1>1, <1>2, <1>4, <1>9, <1>10, <1>11, <1>12, QuietStep DEF Types, TypeOK

\* The number drawn is one of as many as there are payments.
LEMMA NumbersSuffice ==
  /\ NextNumber \in Nat
  /\ (\E p \in Payment : receipts[p] = 0) => NextNumber \in Number
<1> DEFINE S == {p \in Payment : receipts[p] # 0}
<1>1. /\ S \in SUBSET Payment /\ IsFiniteSet(Payment)
      /\ NextNumber = Cardinality(S) + 1
  BY SettlementAssumption DEF NextNumber
<1>2. (\E p \in Payment : receipts[p] = 0) => S # Payment
  OBVIOUS
<1> HIDE DEF S
<1>3. /\ Cardinality(S) \in Nat /\ Cardinality(Payment) \in Nat
      /\ Cardinality(S) <= Cardinality(Payment)
      /\ Cardinality(S) = Cardinality(Payment) => S = Payment
  BY <1>1, FS_Subset, FS_CardinalityType
<1> QED BY <1>1, <1>2, <1>3 DEF Number

LEMMA ReadReceiptsKeeps ==
  ASSUME IInv, NEW x \in Request, ReadReceipts(x)
  PROVE  IInv'
<1>1. /\ Progress(x) /\ Answered(x) /\ Types /\ draft[x] = Written(x, Off, 0)
      /\ saw[x] \in InvoiceRow /\ ~Refused(x, saw[x]) /\ Payer(x) /\ P(x) \in Payment
      /\ at[x] = "receipt"
  BY JobTypes DEF IInv, Progress, ReadReceipts
<1>2. UNCHANGED <<committed, lost, files, saw, draft>>
  BY DEF ReadReceipts
<1>3. Written(x, Off, 0)' = Written(x, Off, 0) /\ saw'[x] = saw[x] /\ draft'[x] = draft[x]
  BY <1>2 DEF Written, NewRow, Posted, Rest, Payer
<1>4. draft'[x].receipt = 0
  <2>1. Written(x, Off, 0).receipt = 0
    BY DraftFields DEF Written
  <2> QED BY <1>1, <1>3, <2>1
<1>5. Free(x)' /\ \A y \in Others(x) : Disjoint(x, y)'
  BY <1>4 DEF Free, Disjoint
<1>6. Off \in BOOLEAN /\ 0 \in Number \cup {0}
  BY DEF Off
<1>7. CASE receipts[P(x)] # 0
  <2>1. at' = [at EXCEPT ![x] = "commit"] /\ number' = number
    BY <1>7 DEF ReadReceipts, Goto, P
  <2>2. at'[x] = "commit" /\ "commit" \in Labels
    BY <1>1, <2>1 DEF Types, TypeOK, Labels
  <2>3. Progress(x)'
    BY <1>1, <1>3, <1>6, <2>2 DEF Progress, Refused, Payer
  <2>4. Answered(x)'
    BY <1>1, <1>2, <2>2 DEF Answered, committed, P
  <2>5. \A y \in Others(x) : Same(y)
    BY <1>1, <1>2, <2>1 DEF Same, Others, Types, TypeOK
  <2> QED BY <1>1, <1>2, <1>5, <2>1, <2>2, <2>3, <2>4, <2>5, QuietStep DEF Types, TypeOK
<1>8. CASE receipts[P(x)] = 0
  <2>1. at' = [at EXCEPT ![x] = "store"] /\ number' = [number EXCEPT ![x] = NextNumber]
    BY <1>8 DEF ReadReceipts, Goto, P
  <2>2. NextNumber \in Nat /\ NextNumber \in Number
    BY <1>1, <1>8, NumbersSuffice
  <2>3. /\ at'[x] = "store" /\ "store" \in Labels
        /\ number'[x] = NextNumber /\ number' \in [Request -> Nat]
    BY <1>1, <2>1, <2>2 DEF Types, TypeOK, Labels
  <2>4. Progress(x)'
    BY <1>1, <1>3, <2>2, <2>3 DEF Progress, Refused, Payer, Number
  <2>5. Answered(x)'
    BY <1>1, <1>2, <2>3 DEF Answered, committed, P
  <2>6. \A y \in Others(x) : Same(y)
    BY <1>1, <1>2, <2>1 DEF Same, Others, Types, TypeOK
  <2> QED BY <1>1, <1>2, <1>5, <2>1, <2>3, <2>4, <2>5, <2>6, QuietStep DEF Types, TypeOK
<1> QED BY <1>7, <1>8

LEMMA StorePdfKeeps ==
  ASSUME IInv, NEW x \in Request, StorePdf(x)
  PROVE  IInv'
<1>1. /\ Progress(x) /\ Answered(x) /\ Types /\ draft[x] = Written(x, Off, 0)
      /\ saw[x] \in InvoiceRow /\ ~Refused(x, saw[x]) /\ Payer(x) /\ P(x) \in Payment
      /\ number[x] \in Number /\ at[x] = "store"
  BY JobTypes DEF IInv, Progress, StorePdf
<1>2. UNCHANGED <<committed, lost, saw, number>> /\ at' = [at EXCEPT ![x] = "insert"]
  BY DEF StorePdf, Goto
<1>3. at'[x] = "insert" /\ "insert" \in Labels
  BY <1>1, <1>2 DEF Types, TypeOK, Labels
<1>4. /\ files' \in [Number -> {{}} \cup {{p} : p \in Payment}]
      /\ \/ draft' = [draft EXCEPT ![x] = PutPdf(draft[x], On)]
         \/ draft' = draft
  <2>1. CASE UNCHANGED <<files, draft>>
    BY <1>1, <2>1 DEF Types, TypeOK
  <2>2. CASE /\ files' = [files EXCEPT ![number[x]] = {Job[x].payment}]
             /\ draft' = [draft EXCEPT ![x].pdf = TRUE]
    <3>1. files' \in [Number -> {{}} \cup {{p} : p \in Payment}]
      BY <1>1, <2>2 DEF Types, TypeOK, P
    <3>2. draft' = [draft EXCEPT ![x] = PutPdf(draft[x], On)]
      BY <2>2 DEF PutPdf, On
    <3> QED BY <3>1, <3>2
  <2> QED BY <2>1, <2>2 DEF StorePdf
<1>5. PICK b \in BOOLEAN : draft'[x] = Written(x, b, 0)
  <2>1. Written(x, On, 0) = PutPdf(Written(x, Off, 0), On) /\ On \in BOOLEAN /\ Off \in BOOLEAN
    BY DraftSteps DEF Written, On, Off
  <2> QED BY <1>1, <1>4, <2>1 DEF Types
<1>6. Written(x, b, 0)' = Written(x, b, 0) /\ saw'[x] = saw[x]
  BY <1>2 DEF Written, NewRow, Posted, Rest, Payer
<1>7. draft'[x].receipt = 0
  BY <1>5, DraftFields DEF Written
<1>8. Free(x)' /\ \A y \in Others(x) : Disjoint(x, y)'
  BY <1>7 DEF Free, Disjoint
<1>9. Progress(x)'
  BY <1>1, <1>2, <1>3, <1>5, <1>6 DEF Progress, Refused, Payer, Number
<1>10. Answered(x)'
  BY <1>1, <1>2, <1>3 DEF Answered, committed, P
<1>11. DOMAIN draft' = Request /\ \A y \in Others(x) : Same(y)
  BY <1>1, <1>2, <1>4 DEF Same, Others, Types, TypeOK
<1> QED BY <1>1, <1>2, <1>3, <1>4, <1>8, <1>9, <1>10, <1>11, QuietStep DEF Types, TypeOK

LEMMA InsertReceiptKeeps ==
  ASSUME IInv, NEW x \in Request, InsertReceipt(x)
  PROVE  IInv'
<1>1. /\ Progress(x) /\ Answered(x) /\ Types
      /\ saw[x] \in InvoiceRow /\ ~Refused(x, saw[x]) /\ Payer(x) /\ P(x) \in Payment
      /\ number[x] \in Number /\ number[x] # 0 /\ at[x] = "insert"
  BY JobTypes DEF IInv, Progress, InsertReceipt, Number
<1>2. UNCHANGED <<committed, lost, files, saw, number>>
  BY DEF InsertReceipt
<1>3. CASE \E p \in Payment : receipts[p] = number[x] \/ (p = P(x) /\ receipts[p] # 0)
  <2>1. at' = [at EXCEPT ![x] = "failed"] /\ draft' = [draft EXCEPT ![x] = NoDraft]
    BY <1>3 DEF InsertReceipt, Rollback, Goto, P
  <2>2. /\ at'[x] = "failed" /\ "failed" \in Labels
        /\ draft'[x] = NoDraft /\ draft'[x].receipt = 0 /\ DOMAIN draft' = Request
    BY <1>1, <2>1, NoDraftFields DEF Types, TypeOK, Labels
  <2>3. Progress(x)'
    BY <1>1, <1>2, <2>2 DEF Progress, Number
  <2>4. \/ status[P(x)] = "SUCCESSFUL"
        \/ \E p \in Payment \ {P(x)} : receipts[p] = number[x]
    BY <1>1, <1>3 DEF IInv
  <2>5. Answered(x)'
    BY <1>1, <1>2, <2>2, <2>4 DEF Answered, committed, P
  <2>6. \A y \in Others(x) : Same(y)
    BY <1>1, <1>2, <2>1 DEF Same, Others, Types, TypeOK
  <2>7. Free(x)' /\ \A y \in Others(x) : Disjoint(x, y)'
    BY <2>2 DEF Free, Disjoint
  <2> QED BY <1>1, <1>2, <2>1, <2>2, <2>3, <2>5, <2>6, <2>7, QuietStep DEF Types, TypeOK
<1>4. CASE ~\E p \in Payment : receipts[p] = number[x] \/ (p = P(x) /\ receipts[p] # 0)
  <2>1. /\ at' = [at EXCEPT ![x] = "commit"]
        /\ draft' = [draft EXCEPT ![x].receipt = number[x]]
    BY <1>4 DEF InsertReceipt, Goto, P
  <2>2. draft' = [draft EXCEPT ![x] = PutReceipt(draft[x], number[x])]
    BY <2>1 DEF PutReceipt
  <2>3. PICK b \in BOOLEAN : draft[x] = Written(x, b, 0)
    BY <1>1 DEF Progress
  <2>4. draft'[x] = Written(x, b, number[x])
    <3>1. PutReceipt(Written(x, b, 0), number[x]) = Written(x, b, number[x])
      BY DraftPuts DEF Written
    <3> QED BY <1>1, <2>2, <2>3, <3>1 DEF Types
  <2>5. /\ at'[x] = "commit" /\ "commit" \in Labels /\ DOMAIN draft' = Request
        /\ draft'[x].receipt = number[x]
    BY <1>1, <2>1, <2>2, <2>4, DraftFields DEF Types, TypeOK, Labels, Written
  <2>6. Written(x, b, number[x])' = Written(x, b, number[x]) /\ saw'[x] = saw[x]
        /\ number'[x] = number[x]
    BY <1>2 DEF Written, NewRow, Posted, Rest, Payer
  <2>7. Progress(x)'
    <3>1. \E bb \in BOOLEAN, n \in Number \cup {0} :
             draft'[x] = Written(x, bb, n)' /\ (n # 0 => Payer(x))
      BY <1>1, <1>2, <2>4 DEF Written, NewRow, Posted, Rest, Payer
    <3> QED BY <1>1, <2>5, <2>6, <3>1 DEF Progress, Refused, Payer, Number
  <2>8. Answered(x)'
    BY <1>1, <1>2, <2>5 DEF Answered, committed, P
  <2>9. \A y \in Others(x) : Same(y)
    BY <1>1, <1>2, <2>1, <2>2 DEF Same, Others, Types, TypeOK
  <2>10. Free(x)'
    BY <1>2, <1>4, <1>1, <2>5 DEF Free, committed, P
  <2>11. \A y \in Others(x) : Disjoint(x, y)'
    BY <2>5, <2>9, <1>4 DEF Disjoint, Same, InsertReceipt, P
  <2> QED BY <1>1, <1>2, <2>1, <2>5, <2>7, <2>8, <2>9, <2>10, <2>11, QuietStep DEF Types, TypeOK
<1> QED BY <1>3, <1>4

----------------------------------------------------------------------------
(* The commit.                                                             *)

\* What a request holds when it comes to its commit, and what of that the
\* commit lets be seen.
LEMMA CommitDraft ==
  ASSUME IInv, NEW x \in Request, Commit(x)
  PROVE  /\ draft[x].pay = Payer(x) /\ draft[x].columns = Changed(saw[x], NewRow(x))
         /\ draft[x].post = Posted(x) /\ draft[x].rest = Rest(x)
         /\ draft[x].receipt \in Number \cup {0} /\ (draft[x].receipt # 0 => Payer(x))
         /\ saw[x] \in InvoiceRow /\ NewRow(x) \in InvoiceRow /\ ~Refused(x, saw[x])
         /\ Posted(x) \in Int /\ Rest(x) \in Int
<1>1. at[x] = "commit" /\ Progress(x)
  BY DEF IInv, Commit
<1>2. PICK b \in BOOLEAN, n \in Number \cup {0} :
        draft[x] = Written(x, b, n) /\ (n # 0 => Payer(x))
  BY <1>1 DEF Progress
<1>3. saw[x] \in InvoiceRow /\ ~Refused(x, saw[x])
  BY <1>1 DEF Progress
<1> QED BY <1>2, <1>3, DraftFields, NewRowTyped DEF Written

LEMMA CommitMoves ==
  ASSUME IInv, NEW x \in Request, Commit(x)
  PROVE  /\ invoices' = [invoices EXCEPT ![I(x)] = Merged(@, draft[x].columns)]
         /\ lost' = lost \cup {j \in {I(x)} : draft[x].columns # NoColumns /\ saw[x] # invoices[j]}
         /\ ledger' = [ledger EXCEPT ![I(x)] = @ + Posted(x)]
         /\ spare' = spare + Rest(x)
         /\ status' = IF Payer(x) THEN [status EXCEPT ![P(x)] = "SUCCESSFUL"] ELSE status
         /\ credited' = IF Payer(x) THEN [credited EXCEPT ![P(x)] = @ - (Posted(x) + Rest(x))]
                        ELSE credited
         /\ receipts' = IF draft[x].receipt # 0 THEN [receipts EXCEPT ![P(x)] = draft[x].receipt]
                        ELSE receipts
         /\ linked' = IF draft[x].receipt # 0 /\ draft[x].pdf THEN linked \cup {P(x)} ELSE linked
         /\ draft' = [draft EXCEPT ![x] = NoDraft] /\ at' = [at EXCEPT ![x] = "done"]
         /\ UNCHANGED <<files, saw, number>>
<1> DEFINE d == draft[x]
<1>1. d.pay = Payer(x) /\ d.post = Posted(x) /\ d.rest = Rest(x)
  BY CommitDraft
<1>2. invoices' = [invoices EXCEPT ![I(x)] = Merged(@, d.columns)]
  BY DEF Commit, Merged, I
<1>3. lost' = lost \cup {j \in {I(x)} : d.columns # NoColumns /\ saw[x] # invoices[j]}
  BY DEF Commit, I
<1>4. ledger' = [ledger EXCEPT ![I(x)] = @ + d.post] /\ spare' = spare + d.rest
  BY DEF Commit, I
<1>5. status' = IF d.pay THEN [status EXCEPT ![P(x)] = "SUCCESSFUL"] ELSE status
  BY DEF Commit, P
<1>6. credited' = IF d.pay THEN [credited EXCEPT ![P(x)] = @ - (d.post + d.rest)] ELSE credited
  BY DEF Commit, P
<1>7. /\ receipts' = IF d.receipt # 0 THEN [receipts EXCEPT ![P(x)] = d.receipt] ELSE receipts
      /\ linked' = IF d.receipt # 0 /\ d.pdf THEN linked \cup {P(x)} ELSE linked
  BY DEF Commit, P
<1>8. /\ draft' = [draft EXCEPT ![x] = NoDraft] /\ at' = [at EXCEPT ![x] = "done"]
      /\ UNCHANGED <<files, saw, number>>
  BY DEF Commit, Goto
<1> HIDE DEF d
<1>9. ledger' = [ledger EXCEPT ![I(x)] = @ + Posted(x)] /\ spare' = spare + Rest(x)
  BY <1>1, <1>4
<1>10. /\ status' = IF Payer(x) THEN [status EXCEPT ![P(x)] = "SUCCESSFUL"] ELSE status
       /\ credited' = IF Payer(x) THEN [credited EXCEPT ![P(x)] = @ - (Posted(x) + Rest(x))]
                      ELSE credited
  BY <1>1, <1>5, <1>6
<1> QED BY <1>2, <1>3, <1>7, <1>8, <1>9, <1>10 DEF d

LEMMA CommitKeeps ==
  ASSUME IInv, NEW x \in Request, Commit(x)
  PROVE  IInv'
<1> DEFINE n == draft[x].receipt
<1>1. /\ Types /\ I(x) \in Invoice /\ P(x) \in Payment /\ at[x] = "commit"
      /\ Free(x) /\ \A y \in Others(x) : Disjoint(x, y)
      /\ n \in Number \cup {0} /\ (n # 0 => Payer(x))
      /\ saw[x] \in InvoiceRow /\ NewRow(x) \in InvoiceRow
      /\ draft[x].columns = Changed(saw[x], NewRow(x))
      /\ Posted(x) \in Int /\ Rest(x) \in Int
  BY CommitDraft, JobTypes DEF IInv, Commit, Others
<1>2. /\ status' = IF Payer(x) THEN [status EXCEPT ![P(x)] = "SUCCESSFUL"] ELSE status
      /\ receipts' = IF n # 0 THEN [receipts EXCEPT ![P(x)] = n] ELSE receipts
      /\ draft' = [draft EXCEPT ![x] = NoDraft] /\ at' = [at EXCEPT ![x] = "done"]
      /\ UNCHANGED <<files, saw, number>>
  BY CommitMoves
<1>3. invoices' \in [Invoice -> InvoiceRow]
  <2>1. invoices' = [invoices EXCEPT ![I(x)] = Merged(@, Changed(saw[x], NewRow(x)))]
    BY <1>1, CommitMoves
  <2>2. Merged(invoices[I(x)], Changed(saw[x], NewRow(x))) \in InvoiceRow
    BY <1>1, MergedTyped DEF Types, TypeOK
  <2> QED BY <1>1, <2>1, <2>2 DEF Types, TypeOK
<1>4. /\ ledger' \in [Invoice -> Int] /\ spare' \in Int /\ credited' \in [Payment -> Int]
  BY <1>1, CommitMoves DEF Types, TypeOK
<1>5. linked' \subseteq Payment /\ lost' \subseteq Invoice
  BY <1>1, CommitMoves DEF Types, TypeOK
<1>0. n # 0 => /\ receipts[P(x)] = 0 /\ \A p \in Payment : receipts[p] # n
               /\ \A y \in Others(x) : draft[y].receipt # 0 => draft[y].receipt # n /\ P(x) # P(y)
  BY <1>1 DEF Free, Disjoint
<1> HIDE DEF n
<1>6. Types'
  <2>1. /\ status' \in [Payment -> {"NONE", "PENDING", "SUCCESSFUL"}]
        /\ receipts' \in [Payment -> Number \cup {0}]'
    BY <1>1, <1>2 DEF Types, TypeOK, Number
  <2>2. /\ DOMAIN draft' = Request /\ DOMAIN saw' = Request
        /\ at' \in [Request -> Labels]
    BY <1>1, <1>2 DEF Types, TypeOK, Labels
  <2> QED BY <1>1, <1>2, <1>3, <1>4, <1>5, <2>1, <2>2 DEF Types, TypeOK, Labels, Number, InvoiceRow
<1>7. (\A p \in Payment : receipts[p] # 0 => status[p] = "SUCCESSFUL")'
  BY <1>1, <1>2 DEF IInv, Types, TypeOK
<1>8. /\ at'[x] = "done" /\ draft'[x] = NoDraft /\ draft'[x].receipt = 0
      /\ \A y \in Others(x) : Same(y)
  BY <1>1, <1>2, NoDraftFields DEF Same, Others, Types, TypeOK
<1>9. \A y \in Request : Progress(y)'
  BY <1>8, SameProgress DEF Progress, IInv, Others
<1>10. \A y \in Request : Free(y)'
  <2>1. Free(x)'
    BY <1>8 DEF Free
  <2>2. ASSUME NEW y \in Others(x) PROVE Free(y)'
    <3>1. Free(y) /\ P(y) \in Payment /\ draft'[y].receipt = draft[y].receipt
      BY <1>8, JobTypes DEF IInv, Same, Others
    <3>2. draft[y].receipt # 0 => receipts'[P(y)] = receipts[P(y)]
      BY <1>0, <1>1, <1>2, <3>1 DEF Types, TypeOK
    <3>3. draft[y].receipt # 0 => \A p \in Payment : receipts'[p] # draft[y].receipt
      BY <1>0, <1>1, <1>2, <3>1 DEF Types, TypeOK, Free
    <3> QED BY <3>1, <3>2, <3>3 DEF Free, P
  <2> QED BY <2>1, <2>2 DEF Others
<1>11. \A y, z \in Request : y # z => Disjoint(y, z)'
  BY <1>8 DEF IInv, Disjoint, Same, Others
<1>12. \A p \in Payment : /\ status[p] = "SUCCESSFUL" => status'[p] = "SUCCESSFUL"
                          /\ status[p] = "PENDING" => status'[p] \in {"PENDING", "SUCCESSFUL"}
                          /\ receipts[p] # 0 => receipts'[p] = receipts[p]
  BY <1>0, <1>1, <1>2 DEF Types, TypeOK
<1>13. \A y \in Request : Answered(y)'
  <2>1. Answered(x)'
    BY <1>1, <1>2, <1>8 DEF Answered, Callbacks, Payer, Types, TypeOK, P
  <2>2. ASSUME NEW y \in Others(x) PROVE Answered(y)'
    <3>1. Answered(y) /\ Progress(y) /\ P(y) \in Payment
      BY JobTypes DEF IInv, Others
    <3>2. at[y] = "failed" => number[y] # 0
      BY <3>1 DEF Progress, Number
    <3> QED BY <1>8, <1>12, <2>2, <3>1, <3>2 DEF Answered, Same, P
  <2> QED BY <2>1, <2>2 DEF Others
<1> QED BY <1>6, <1>7, <1>9, <1>10, <1>11, <1>13 DEF IInv

LEMMA NextKeeps == IInv /\ [Next]_vars => IInv'
<1> SUFFICES ASSUME IInv, [Next]_vars PROVE IInv'
  OBVIOUS
<1>1. CASE UNCHANGED vars
  <2>1. \A y \in Request : Same(y)
    BY <1>1 DEF vars, Same
  <2>2. \A y \in Request : Progress(y)'
    BY <2>1, SameProgress DEF IInv
  <2> QED BY <1>1, <2>2 DEF IInv, Types, TypeOK, vars, committed, Free, Disjoint, Answered,
             InvoiceRow, P
<1>2. ASSUME NEW x \in Request, Start(x) \/ Step(x) PROVE IInv'
  BY <1>2, StartKeeps, ReadPaymentKeeps, ClaimPaymentKeeps, ReadInvoiceKeeps, WriteInvoiceKeeps,
     ReadReceiptsKeeps, StorePdfKeeps, InsertReceiptKeeps, CommitKeeps DEF Step
<1> QED BY <1>1, <1>2 DEF Next

LEMMA Invariant == Spec => []IInv
  BY InitEstablishes, NextKeeps, PTL DEF Spec

\* The tables and the transactions keep their types.
THEOREM TypeCorrect == Spec => []TypeOK
<1>1. IInv => TypeOK
  BY DEF IInv, Types
<1> QED BY <1>1, Invariant, PTL

\* Once the callback of a successful payment is answered the payment is on the
\* books, or another payment took the receipt number computed for it.
THEOREM AnswersAreRecorded == Spec => []AckedIsRecorded
<1>1. IInv => AckedIsRecorded
  BY DEF IInv, Answered, AckedIsRecorded, Callbacks, P
<1> QED BY <1>1, Invariant, PTL

----------------------------------------------------------------------------
(* Any number of webhook workers.                                          *)

\* The requests that have credited payment p, and those on their way to.
Crediting(p) == {x \in Request : Payer(x) /\ P(x) = p /\ at[x] = "done" /\ saw[x] # NoColumns}
Chasing(p) == {x \in Request : Payer(x) /\ P(x) = p /\ x \in Running}
Engaged(p) == Crediting(p) \cup Chasing(p)

\* Each of them credits the payment in full.  While it is pending they are as
\* many as the workers, at most; then no callback comes any further.
Counted(p) ==
  /\ credited[p] = Cardinality(Crediting(p)) * Amount[p]
  /\ status[p] = "SUCCESSFUL" <=> Crediting(p) # {}
  /\ status[p] = "SUCCESSFUL" => receipts[p] # 0
  /\ Cardinality(Engaged(p)) <= WebhookWorkers

\* No more callbacks run than there are workers; one that has not come to its
\* invoice has read none; and what is about to be committed has a receipt.
Credits ==
  /\ Cardinality(Running \cap Callbacks) <= WebhookWorkers
  /\ \A p \in Payment : Counted(p)
  /\ \A x \in Request :
       /\ at[x] \in {"new", "payment", "claim", "invoice"} => saw[x] = NoColumns
       /\ Payer(x) /\ at[x] = "commit" => draft[x].receipt # 0 \/ receipts[P(x)] # 0

\* Recording a payment by hand is the only request about that payment.
LEMMA ByHandAlone ==
  ASSUME NEW p \in Payment
  PROVE  \/ \A x \in Request : Payer(x) /\ P(x) = p => x \in Callbacks
         \/ \E x \in Request : \A y \in Request : Payer(y) /\ P(y) = p => y = x
<1>1. CASE \E x \in Request : Job[x].kind = "manual" /\ P(x) = p
  BY <1>1, SettlementAssumption DEF Payer, P
<1>2. CASE ~ \E x \in Request : Job[x].kind = "manual" /\ P(x) = p
  BY <1>2 DEF Payer, Callbacks
<1> QED BY <1>1, <1>2

\* So are the callbacks that are running.
LEMMA BusyFinite ==
  IsFiniteSet(Running \cap Callbacks) /\ Cardinality(Running \cap Callbacks) \in Nat
<1>1. Running \cap Callbacks \subseteq Request
  BY DEF Callbacks
<1> QED BY <1>1, SettlementAssumption, FS_Subset, FS_CardinalityType

\* They are finitely many, and countable.
LEMMA EngagedFinite ==
  ASSUME NEW p
  PROVE  /\ Crediting(p) \subseteq Request /\ IsFiniteSet(Crediting(p))
         /\ Engaged(p) \subseteq Request /\ IsFiniteSet(Engaged(p))
         /\ Cardinality(Crediting(p)) \in Nat /\ Cardinality(Engaged(p)) \in Nat
<1>1. Crediting(p) \subseteq Request /\ Engaged(p) \subseteq Request
  BY DEF Crediting, Engaged, Chasing
<1> QED BY <1>1, SettlementAssumption, FS_Subset, FS_CardinalityType

\* A request that has read its invoice has not read nothing.
LEMMA RowIsNotNothing ==
  ASSUME NEW r \in InvoiceRow
  PROVE  r # NoColumns
<1>1. "total" \in DOMAIN r
  BY DEF InvoiceRow
<1>2. "total" \notin DOMAIN NoColumns
  BY DEF NoColumns
<1> QED BY <1>1, <1>2

\* (A product, taken out of the way of what else there is to show.)
LEMMA OneMore ==
  ASSUME NEW k \in Int, NEW a \in Int
  PROVE  (k + 1) * a = k * a + a
OBVIOUS

\* Of a set and one more element there are at most one more.
LEMMA AddOne ==
  ASSUME NEW S, NEW e, NEW T, IsFiniteSet(S), T \subseteq S \cup {e}
  PROVE  IsFiniteSet(T) /\ Cardinality(T) <= Cardinality(S) + 1
<1>1. /\ IsFiniteSet(S \cup {e}) /\ Cardinality(S) \in Nat
      /\ Cardinality(S \cup {e}) = IF e \in S THEN Cardinality(S) ELSE Cardinality(S) + 1
  BY FS_AddElement, FS_CardinalityType
<1>2. /\ IsFiniteSet(T) /\ Cardinality(T) <= Cardinality(S \cup {e})
      /\ Cardinality(T) \in Nat
  BY <1>1, FS_Subset, FS_CardinalityType
<1> QED BY <1>1, <1>2

\* A step is one request's, and another one's draft is its own.
LEMMA StepFrame ==
  ASSUME IInv, NEW x \in Request, Start(x) \/ Step(x)
  PROVE  /\ \A y \in Others(x) : at'[y] = at[y] /\ saw'[y] = saw[y] /\ draft'[y] = draft[y]
         /\ Step(x) => x \in Running
         /\ Step(x) => Commit(x) \/ UNCHANGED committed
         /\ Start(x) => UNCHANGED committed /\ UNCHANGED saw /\ at[x] = "new"
<1>1. at \in [Request -> Labels] /\ DOMAIN draft = Request /\ DOMAIN saw = Request
  BY DEF IInv, Types, TypeOK, Labels
<1>2. CASE Start(x)
  BY <1>1, <1>2 DEF Start, Goto, Others, Step, ReadPayment, ClaimPayment, ReadInvoice, WriteInvoice,
     ReadReceipts, StorePdf, InsertReceipt, Commit
<1>3. CASE ReadPayment(x) \/ ClaimPayment(x) \/ ReadInvoice(x)
  BY <1>1, <1>3 DEF Goto, Others, Running, Start, ReadPayment, ClaimPayment, ReadInvoice
<1>4. CASE WriteInvoice(x)
  BY <1>1, <1>4 DEF Goto, Others, Running, Start, WriteInvoice
<1>5. CASE ReadReceipts(x) \/ StorePdf(x)
  BY <1>1, <1>5 DEF Goto, Others, Running, Start, ReadReceipts, StorePdf
<1>6. CASE InsertReceipt(x)
  BY <1>1, <1>6 DEF Goto, Others, Running, Start, InsertReceipt, Rollback
<1>7. CASE Commit(x)
  BY <1>1, <1>7 DEF Goto, Others, Running, Start, Commit
<1> QED BY <1>2, <1>3, <1>4, <1>5, <1>6, <1>7 DEF Step

\* A step that commits nothing and starts no callback of a pending payment.
LEMMA QuietKeepsCredits ==
  ASSUME IInv, Credits, NEW x \in Request, UNCHANGED committed,
         \A y \in Others(x) : at'[y] = at[y] /\ saw'[y] = saw[y] /\ draft'[y] = draft[y],
         at[x] # "done",
         Payer(x) /\ at'[x] = "done" => saw'[x] = NoColumns,
         x \in Running' => \/ x \in Running
                           \/ status[P(x)] # "SUCCESSFUL" \/ x \notin Callbacks,
         Cardinality(Running \cap Callbacks)' <= WebhookWorkers,
         WebhookWorkers # 0,
         at'[x] \in {"new", "payment", "claim", "invoice"} => saw'[x] = NoColumns,
         Payer(x) /\ at'[x] = "commit" => draft'[x].receipt # 0 \/ receipts[P(x)] # 0
  PROVE  Credits'
<1>1. \A y \in Others(x) : y \in Running' <=> y \in Running
  BY DEF Running, Others
<1>2. ASSUME NEW p \in Payment PROVE Counted(p)'
  <2>1. Crediting(p)' = Crediting(p)
    <3>1. \A y \in Request : y \in Crediting(p)' <=> y \in Crediting(p)
      BY DEF Crediting, Others, Payer, P
    <3> QED BY <3>1 DEF Crediting
  <2>2. Cardinality(Engaged(p)') <= WebhookWorkers
    <3>1. CASE \E z \in Request : \A y \in Request : Payer(y) /\ P(y) = p => y = z
      <4>1. PICK z \in Request : \A y \in Request : Payer(y) /\ P(y) = p => y = z
        BY <3>1
      <4>2. Engaged(p)' \subseteq {z}
        BY <4>1 DEF Engaged, Crediting, Chasing, Payer, P
      <4>3. Cardinality({z}) = 1 /\ IsFiniteSet({z})
        BY FS_Singleton
      <4>4. Cardinality(Engaged(p)') <= 1 /\ Cardinality(Engaged(p)') \in Nat
        BY <4>2, <4>3, FS_Subset, FS_CardinalityType
      <4> QED BY <4>4, SettlementAssumption
    <3>2. CASE \A y \in Request : Payer(y) /\ P(y) = p => y \in Callbacks
      <4>1. CASE Crediting(p) = {}
        <5>1. Engaged(p)' \subseteq (Running \cap Callbacks)'
          BY <2>1, <3>2, <4>1 DEF Engaged, Chasing, Payer, P, Callbacks
        <5>2. IsFiniteSet((Running \cap Callbacks)')
          <6>1. (Running \cap Callbacks)' \subseteq Request
            BY DEF Callbacks
          <6> QED BY <6>1, SettlementAssumption, FS_Subset
        <5>3. /\ Cardinality(Engaged(p)') <= Cardinality((Running \cap Callbacks)')
              /\ Cardinality(Engaged(p)') \in Nat /\ Cardinality((Running \cap Callbacks)') \in Nat
          BY <5>1, <5>2, FS_Subset, FS_CardinalityType
        <5> QED BY <5>3, SettlementAssumption
      <4>2. CASE Crediting(p) # {}
        <5>1. status[p] = "SUCCESSFUL"
          BY <4>2 DEF Credits, Counted
        <5>2. Engaged(p)' \subseteq Engaged(p)
          BY <1>1, <2>1, <3>2, <5>1 DEF Engaged, Chasing, Payer, P, Callbacks, Others
        <5>3. /\ Cardinality(Engaged(p)') <= Cardinality(Engaged(p))
              /\ Cardinality(Engaged(p)') \in Nat /\ Cardinality(Engaged(p)) \in Nat
          BY <5>2, EngagedFinite, FS_Subset, FS_CardinalityType
        <5> QED BY <5>3, SettlementAssumption DEF Credits, Counted
      <4> QED BY <4>1, <4>2
    <3> QED BY <3>1, <3>2, ByHandAlone
  <2>3. /\ credited' = credited /\ status' = status /\ receipts' = receipts
    BY DEF committed
  <2> QED BY <2>1, <2>2, <2>3 DEF Credits, Counted
<1>3. \A y \in Others(x) :
        /\ at'[y] \in {"new", "payment", "claim", "invoice"} => saw'[y] = NoColumns
        /\ Payer(y) /\ at'[y] = "commit" => draft'[y].receipt # 0 \/ receipts'[P(y)] # 0
  BY DEF Credits, Others, committed, P
<1> QED BY <1>2, <1>3 DEF Credits, Others, committed, P, Payer

\* A callback starts only if a worker is free, and goes on only if its payment
\* is pending.
LEMMA StartKeepsCredits ==
  ASSUME WebhookWorkers # 0, IInv, Credits, NEW x \in Request, Start(x)
  PROVE  Credits'
<1>1. /\ UNCHANGED committed /\ UNCHANGED saw /\ at[x] = "new"
      /\ \A y \in Others(x) : at'[y] = at[y] /\ saw'[y] = saw[y] /\ draft'[y] = draft[y]
  BY StepFrame
<1>2. at \in [Request -> Labels] /\ Job[x].kind \in Kind /\ saw[x] = NoColumns
  BY <1>1, JobTypes DEF IInv, Types, TypeOK, Labels, Credits
<1>3. \A y \in Others(x) : y \in Running' <=> y \in Running
  BY <1>1 DEF Running, Others
<1>4. CASE x \in Callbacks
  <2>1. at' = [at EXCEPT ![x] = IF status[P(x)] = "PENDING" THEN "payment" ELSE "done"]
    BY <1>4 DEF Start, Goto, P, Callbacks
  <2>2. /\ at'[x] \in {"payment", "done"}
        /\ at'[x] = "payment" => status[P(x)] = "PENDING"
    BY <1>2, <2>1
  <2>3. Cardinality(Running \cap Callbacks)' <= WebhookWorkers
    <3>1. Cardinality(Running \cap Callbacks) < WebhookWorkers
      BY <1>4 DEF Start
    <3>2. (Running \cap Callbacks)' \subseteq (Running \cap Callbacks) \cup {x}
      BY <1>3 DEF Callbacks, Others, Running
    <3>3. /\ IsFiniteSet((Running \cap Callbacks)')
          /\ Cardinality((Running \cap Callbacks)') <= Cardinality(Running \cap Callbacks) + 1
      BY <3>2, BusyFinite, AddOne
    <3>4. Cardinality((Running \cap Callbacks)') \in Nat
      BY <3>3, FS_CardinalityType
    <3> QED BY <3>1, <3>3, <3>4, BusyFinite, SettlementAssumption
  <2>4. x \in Running' => status[P(x)] # "SUCCESSFUL"
    BY <2>2 DEF Running
  <2> QED BY <1>1, <1>2, <2>2, <2>3, <2>4, QuietKeepsCredits
<1>5. CASE x \notin Callbacks
  <2>1. at' = [at EXCEPT ![x] = "invoice"]
    BY <1>2, <1>5 DEF Start, Goto, Callbacks
  <2>2. at'[x] = "invoice"
    BY <1>2, <2>1
  <2>3. Cardinality(Running \cap Callbacks)' <= WebhookWorkers
    <3>1. (Running \cap Callbacks)' = Running \cap Callbacks
      BY <1>3, <1>5 DEF Callbacks, Others, Running
    <3> QED BY <3>1 DEF Credits
  <2> QED BY <1>1, <1>2, <1>5, <2>2, <2>3, QuietKeepsCredits
<1> QED BY <1>4, <1>5

\* What a statement other than the commit leaves of Credits.
LEMMA StepKeepsCredits ==
  ASSUME WebhookWorkers # 0, IInv, Credits, NEW x \in Request, Step(x), ~Commit(x)
  PROVE  Credits'
<1>1. /\ UNCHANGED committed /\ x \in Running
      /\ \A y \in Others(x) : at'[y] = at[y] /\ saw'[y] = saw[y] /\ draft'[y] = draft[y]
  BY StepFrame
<1>2. /\ at \in [Request -> Labels] /\ DOMAIN draft = Request /\ DOMAIN saw = Request
      /\ P(x) \in Payment /\ Progress(x) /\ Job[x].kind \in Kind
      /\ at[x] \in {"new", "payment", "claim", "invoice"} => saw[x] = NoColumns
  BY JobTypes DEF IInv, Types, TypeOK, Labels, Credits
<1>3. /\ Payer(x) /\ at'[x] = "done" => saw'[x] = NoColumns
      /\ at'[x] \in {"new", "payment", "claim", "invoice"} => saw'[x] = NoColumns
  <2>1. CASE ReadPayment(x) \/ ClaimPayment(x)
    BY <1>2, <2>1 DEF Goto, ReadPayment, ClaimPayment
  <2>2. CASE ReadInvoice(x)
    <3>1. Payer(x) => ~Refused(x, invoices[I(x)])
      BY DEF Payer, Refused
    <3>2. at' = [at EXCEPT ![x] = IF Refused(x, invoices[I(x)]) THEN "done" ELSE "write"]
      BY <2>2 DEF ReadInvoice, Goto, I
    <3> QED BY <1>2, <3>1, <3>2
  <2>3. CASE WriteInvoice(x)
    BY <1>2, <2>3 DEF Goto, WriteInvoice
  <2>4. CASE ReadReceipts(x) \/ StorePdf(x)
    BY <1>2, <2>4 DEF Goto, ReadReceipts, StorePdf
  <2>5. CASE InsertReceipt(x)
    BY <1>2, <2>5 DEF Goto, InsertReceipt, Rollback
  <2> QED BY <2>1, <2>2, <2>3, <2>4, <2>5 DEF Step
<1>4. (Running \cap Callbacks)' \subseteq Running \cap Callbacks
  BY <1>1 DEF Running, Callbacks, Others
<1>5. Cardinality((Running \cap Callbacks)') <= WebhookWorkers
  <2>1. /\ Cardinality((Running \cap Callbacks)') <= Cardinality(Running \cap Callbacks)
        /\ Cardinality((Running \cap Callbacks)') \in Nat
    BY <1>4, BusyFinite, FS_Subset, FS_CardinalityType
  <2> QED BY <2>1, BusyFinite, SettlementAssumption DEF Credits
<1>6. Payer(x) /\ at'[x] = "commit" => draft'[x].receipt # 0 \/ receipts[P(x)] # 0
  <2>1. CASE ReadPayment(x) \/ ClaimPayment(x) \/ ReadInvoice(x)
    BY <1>2, <2>1 DEF Goto, ReadPayment, ClaimPayment, ReadInvoice
  <2>2. CASE WriteInvoice(x)
    BY <1>2, <2>2 DEF Goto, WriteInvoice, Payer
  <2>3. CASE ReadReceipts(x)
    BY <1>2, <2>3 DEF Goto, ReadReceipts, P
  <2>4. CASE StorePdf(x)
    BY <1>2, <2>4 DEF Goto, StorePdf
  <2>5. CASE InsertReceipt(x)
    <3>1. number[x] # 0
      BY <1>2, <2>5 DEF Progress, InsertReceipt, Number
    <3>2. PICK b \in BOOLEAN : draft[x] = Written(x, b, 0)
      BY <1>2, <2>5 DEF Progress, InsertReceipt
    <3>3. CASE Rollback(x)
      BY <1>2, <3>3 DEF Rollback, Goto
    <3>4. CASE draft' = [draft EXCEPT ![x].receipt = number[x]]
      <4>1. draft' = [draft EXCEPT ![x] = PutReceipt(draft[x], number[x])]
        BY <3>4 DEF PutReceipt
      <4>2. PutReceipt(Written(x, b, 0), number[x]) = Written(x, b, number[x])
        BY DraftPuts DEF Written
      <4>3. draft'[x] = Written(x, b, number[x])
        BY <1>2, <3>2, <4>1, <4>2
      <4>4. Written(x, b, number[x]).receipt = number[x]
        BY DraftFields DEF Written
      <4> QED BY <3>1, <4>3, <4>4
    <3> QED BY <2>5, <3>3, <3>4 DEF InsertReceipt
  <2> QED BY <2>1, <2>2, <2>3, <2>4, <2>5 DEF Step
<1>7. at[x] # "done"
  BY <1>1 DEF Running
<1> QED BY <1>1, <1>3, <1>5, <1>6, <1>7, QuietKeepsCredits

\* A commit adds its request to those that have credited its payment.
LEMMA CommitKeepsCredits ==
  ASSUME WebhookWorkers # 0, IInv, Credits, NEW x \in Request, Commit(x)
  PROVE  Credits'
<1> DEFINE n == draft[x].receipt
<1>1. /\ P(x) \in Payment /\ x \in Running /\ at[x] = "commit"
      /\ n # 0 => Payer(x)
      /\ n \in Number \cup {0} /\ (Payer(x) => n # 0 \/ receipts[P(x)] # 0)
      /\ Payer(x) => Posted(x) + Rest(x) = -Amount[P(x)]
      /\ Posted(x) \in Int /\ Rest(x) \in Int /\ Amount[P(x)] \in Nat
      /\ saw[x] # NoColumns
  BY CommitDraft, NewRowTyped, JobTypes, RowIsNotNothing DEF Credits, Commit, Running
<1>2. /\ status' = IF Payer(x) THEN [status EXCEPT ![P(x)] = "SUCCESSFUL"] ELSE status
      /\ credited' = IF Payer(x) THEN [credited EXCEPT ![P(x)] = @ - (Posted(x) + Rest(x))]
                     ELSE credited
      /\ receipts' = IF n # 0 THEN [receipts EXCEPT ![P(x)] = n] ELSE receipts
      /\ at' = [at EXCEPT ![x] = "done"] /\ saw' = saw
  BY CommitMoves
<1> HIDE DEF n
<1>3. /\ status \in [Payment -> {"NONE", "PENDING", "SUCCESSFUL"}]
      /\ credited \in [Payment -> Int] /\ receipts \in [Payment -> Number \cup {0}]
      /\ at \in [Request -> Labels]
  BY DEF IInv, Types, TypeOK, Labels
<1>4. /\ at'[x] = "done" /\ x \notin Running'
      /\ \A y \in Others(x) : at'[y] = at[y] /\ saw'[y] = saw[y] /\ draft'[y] = draft[y]
  BY <1>2, <1>3, StepFrame DEF Step, Running
<1>5. \A y \in Others(x) : y \in Running' <=> y \in Running
  BY <1>4 DEF Running, Others
<1>6. \A p \in Payment : receipts[p] # 0 => receipts'[p] # 0
  BY <1>1, <1>2, <1>3
<1>7. ASSUME NEW p \in Payment PROVE Counted(p)'
  <2>1. Engaged(p)' \subseteq Engaged(p)
    BY <1>1, <1>4, <1>5 DEF Engaged, Crediting, Chasing, Payer, P, Others
  <2>2. Cardinality(Engaged(p)') <= WebhookWorkers
    <3>1. /\ Cardinality(Engaged(p)') <= Cardinality(Engaged(p))
          /\ Cardinality(Engaged(p)') \in Nat
      BY <2>1, EngagedFinite, FS_Subset, FS_CardinalityType
    <3> QED BY <3>1, EngagedFinite, SettlementAssumption DEF Credits, Counted
  <2>3. CASE Payer(x) /\ P(x) = p
    <3>1. Crediting(p)' = Crediting(p) \cup {x} /\ x \notin Crediting(p)
      <4>1. \A y \in Request : y \in Crediting(p)' <=> y \in Crediting(p) \cup {x}
        BY <1>1, <1>2, <1>4, <2>3 DEF Crediting, Payer, P, Others
      <4>2. x \notin Crediting(p)
        BY <1>1 DEF Crediting
      <4> QED BY <4>1, <4>2 DEF Crediting
    <3>2. Cardinality(Crediting(p)') = Cardinality(Crediting(p)) + 1
      BY <3>1, EngagedFinite, FS_AddElement
    <3>3. credited'[p] = credited[p] + Amount[p] /\ status'[p] = "SUCCESSFUL" /\ receipts'[p] # 0
      BY <1>1, <1>2, <1>3, <1>6, <2>3
    <3>4. credited[p] = Cardinality(Crediting(p)) * Amount[p]
      BY DEF Credits, Counted
    <3>5. (Cardinality(Crediting(p)) + 1) * Amount[p]
            = Cardinality(Crediting(p)) * Amount[p] + Amount[p]
      BY <1>1, <2>3, EngagedFinite, OneMore
    <3>6. credited'[p] = Cardinality(Crediting(p)') * Amount[p]
      BY <3>2, <3>3, <3>4, <3>5
    <3> QED BY <2>2, <3>1, <3>3, <3>6 DEF Counted
  <2>4. CASE ~(Payer(x) /\ P(x) = p)
    <3>1. Crediting(p)' = Crediting(p)
      <4>1. \A y \in Request : y \in Crediting(p)' <=> y \in Crediting(p)
        BY <1>1, <1>4, <2>4 DEF Crediting, Payer, P, Others
      <4> QED BY <4>1 DEF Crediting
    <3>2. credited'[p] = credited[p] /\ status'[p] = status[p] /\ receipts'[p] = receipts[p]
      BY <1>1, <1>2, <1>3, <2>4
    <3> QED BY <2>2, <3>1, <3>2 DEF Credits, Counted
  <2> QED BY <2>3, <2>4
<1>8. Cardinality((Running \cap Callbacks)') <= WebhookWorkers
  <2>1. (Running \cap Callbacks)' \subseteq Running \cap Callbacks
    BY <1>1, <1>5 DEF Running, Callbacks, Others
  <2>2. /\ Cardinality((Running \cap Callbacks)') <= Cardinality(Running \cap Callbacks)
        /\ Cardinality((Running \cap Callbacks)') \in Nat
    BY <2>1, BusyFinite, FS_Subset, FS_CardinalityType
  <2> QED BY <2>2, BusyFinite, SettlementAssumption DEF Credits
<1>9. \A y \in Others(x) :
        /\ at'[y] \in {"new", "payment", "claim", "invoice"} => saw'[y] = NoColumns
        /\ Payer(y) /\ at'[y] = "commit" => draft'[y].receipt # 0 \/ receipts'[P(y)] # 0
  BY <1>4, <1>6, JobTypes DEF Credits, Others
<1> QED BY <1>4, <1>7, <1>8, <1>9 DEF Credits, Others, P, Payer

\* Credits holds in every reachable state.
LEMMA CreditsInvariant ==
  ASSUME WebhookWorkers # 0
  PROVE  Spec => []Credits
<1>1. Init => Credits
  <2> SUFFICES ASSUME Init PROVE Credits
    OBVIOUS
  <2>1. /\ \A x \in Request : at[x] = "new" /\ saw[x] = NoColumns
        /\ \A p \in Payment : status[p] # "SUCCESSFUL" /\ credited[p] = 0 /\ receipts[p] = 0
    BY DEF Init
  <2>2. Running \cap Callbacks = {} /\ \A p : Crediting(p) = {} /\ Engaged(p) = {}
    BY <2>1 DEF Running, Crediting, Engaged, Chasing
  <2>3. Cardinality({}) = 0
    BY FS_EmptySet
  <2>4. \A p \in Payment : Counted(p)
    <3> TAKE p \in Payment
    <3>1. /\ credited[p] = 0 /\ Amount[p] \in Nat /\ Cardinality(Crediting(p)) = 0
          /\ Cardinality(Engaged(p)) = 0
      BY <2>1, <2>2, <2>3, SettlementAssumption
    <3>2. credited[p] = Cardinality(Crediting(p)) * Amount[p]
      BY <3>1
    <3> QED BY <2>1, <2>2, <3>1, <3>2, SettlementAssumption DEF Counted
  <2>5. Cardinality(Running \cap Callbacks) <= WebhookWorkers
    BY <2>2, <2>3, SettlementAssumption
  <2> QED BY <2>1, <2>4, <2>5 DEF Credits
<1>2. IInv /\ Credits /\ [Next]_vars => Credits'
  <2> SUFFICES ASSUME IInv, Credits, [Next]_vars PROVE Credits'
    OBVIOUS
  <2>1. CASE UNCHANGED vars
    <3>1. \A p : Crediting(p)' = Crediting(p) /\ Engaged(p)' = Engaged(p)
      BY <2>1 DEF vars, Crediting, Engaged, Chasing, Running, P, Payer
    <3>2. Running' = Running
      BY <2>1 DEF vars, Running
    <3> QED BY <2>1, <3>1, <3>2 DEF vars, committed, Credits, Counted, Callbacks, P, Payer
  <2>2. ASSUME NEW x \in Request, Start(x) \/ Step(x) PROVE Credits'
    BY <2>2, StartKeepsCredits, StepKeepsCredits, CommitKeepsCredits
  <2> QED BY <2>1, <2>2 DEF Next
<1> QED BY <1>1, <1>2, Invariant, PTL DEF Spec

\* A payment that shows as successful has a receipt and is credited in full,
\* though up to once in every webhook worker; any other is not credited at all.
CreditedInFull ==
  \A p \in Payment :
    IF status[p] = "SUCCESSFUL"
    THEN receipts[p] # 0 /\ \E k \in 1..WebhookWorkers : credited[p] = k * Amount[p]
    ELSE receipts[p] = 0 /\ credited[p] = 0

\* However many workers take callbacks and however often each comes: two of
\* them may credit a payment twice (handle_callback does not look at its status
\* again once it has the row), but no part of a credit is ever lost or left
\* over, and there are no more credits than workers.
THEOREM WorkersBoundCredits ==
  ASSUME WebhookWorkers # 0
  PROVE  Spec => []CreditedInFull
<1>1. IInv /\ Credits => CreditedInFull
  <2> SUFFICES ASSUME IInv, Credits, NEW p \in Payment
               PROVE  IF status[p] = "SUCCESSFUL"
                      THEN /\ receipts[p] # 0
                           /\ \E k \in 1..WebhookWorkers : credited[p] = k * Amount[p]
                      ELSE receipts[p] = 0 /\ credited[p] = 0
    BY DEF CreditedInFull
  <2> DEFINE k == Cardinality(Crediting(p))
  <2>1. /\ credited[p] = k * Amount[p] /\ (status[p] = "SUCCESSFUL" <=> Crediting(p) # {})
        /\ status[p] = "SUCCESSFUL" <=> receipts[p] # 0
        /\ Cardinality(Engaged(p)) <= WebhookWorkers
    BY DEF Credits, Counted, IInv
  <2>2. k \in Nat /\ k <= WebhookWorkers /\ (k = 0 <=> Crediting(p) = {})
    <3>1. Crediting(p) \subseteq Engaged(p)
      BY DEF Engaged
    <3>2. k <= Cardinality(Engaged(p)) /\ Cardinality(Engaged(p)) \in Nat /\ k \in Nat
      BY <3>1, EngagedFinite, FS_Subset
    <3>3. k = 0 <=> Crediting(p) = {}
      BY EngagedFinite, FS_EmptySet
    <3> QED BY <2>1, <3>2, <3>3, SettlementAssumption
  <2> HIDE DEF k
  <2>3. CASE status[p] = "SUCCESSFUL"
    <3>1. k \in 1..WebhookWorkers
      BY <2>1, <2>2, <2>3, SettlementAssumption
    <3> QED BY <2>1, <2>3, <3>1
  <2>4. CASE status[p] # "SUCCESSFUL"
    <3>1. k = 0 /\ Amount[p] \in Nat
      BY <2>1, <2>2, <2>4, SettlementAssumption
    <3>2. credited[p] = 0
      BY <2>1, <3>1
    <3> QED BY <2>1, <2>4, <3>2
  <2> QED BY <2>3, <2>4
<1> QED BY <1>1, CreditsInvariant, Invariant, PTL

\* With one webhook worker, whatever interleaves, a successful payment is
\* credited in full, once, and has a receipt, and no other is credited at all.
THEOREM OneWorkerCreditsOnce ==
  ASSUME WebhookWorkers = 1
  PROVE  Spec => []CreditedOnce
<1>1. CreditedInFull => CreditedOnce
  <2> SUFFICES ASSUME CreditedInFull, NEW p \in Payment, status[p] = "SUCCESSFUL"
               PROVE  credited[p] = Amount[p]
    BY DEF CreditedInFull, CreditedOnce
  <2>1. PICK k \in 1..WebhookWorkers : credited[p] = k * Amount[p]
    BY DEF CreditedInFull
  <2>2. k = 1 /\ Amount[p] \in Nat
    BY SettlementAssumption
  <2> QED BY <2>1, <2>2
<1>2. WebhookWorkers # 0
  OBVIOUS
<1> QED BY <1>1, <1>2, WorkersBoundCredits, PTL

----------------------------------------------------------------------------
(* The books of an invoice nobody overwrote unread.                        *)

\* Row r and the net n of the ledger rows posted for it agree.
Books(r, n) ==
  LET due == r.total - r.paid IN
  IF r.status # "CANCELLED" THEN r.balance = due /\ n = due
  ELSE r.balance = 0 /\ n = IF due < 0 THEN due ELSE 0

\* What a request makes of the row it read.
LEMMA RowMoves ==
  ASSUME NEW x \in Request, saw[x] \in InvoiceRow, ~Refused(x, saw[x])
  PROVE  /\ NewRow(x) = saw[x] => Posted(x) = 0
         /\ saw[x].status = "PAID" => NewRow(x).status # "CANCELLED"
         /\ \A n \in Int : Books(saw[x], n) => Books(NewRow(x), n + Posted(x))
<1> DEFINE r == saw[x]  j == Job[x]
           a == Applied(Amount[P(x)], r)
           up == [r EXCEPT !.total = @ + j.amount, !.balance = @ + j.amount]
           pd == [r EXCEPT !.paid = @ + a, !.balance = @ - a]
           cn == [r EXCEPT !.balance = 0, !.status = "CANCELLED"]
<1>1. /\ j.kind \in Kind /\ j.amount \in Int /\ a \in Nat /\ (a # 0 => a <= r.balance)
      /\ r.total \in Int /\ r.paid \in Nat /\ r.balance \in Int /\ r \in InvoiceRow
  BY JobTypes, AppliedBounds DEF InvoiceRow
<1>2. CASE j.kind = "adjust"
  <2>1. /\ up \in InvoiceRow /\ up.total = r.total + j.amount /\ up.paid = r.paid
        /\ up.balance = r.balance + j.amount /\ up.status = r.status
    BY <1>1, TotalMoves
  <2>2. Posted(x) = j.amount /\ NewRow(x) = IF j.amount = 0 THEN r ELSE Recalc(up)
    BY <1>2 DEF Posted, NewRow
  <2> HIDE DEF up
  <2>3. /\ Recalc(up).total = up.total /\ Recalc(up).paid = up.paid
        /\ Recalc(up).balance = up.balance
        /\ Recalc(up).status = "CANCELLED" <=> up.status = "CANCELLED"
    BY <2>1, RecalcKeeps
  <2>4. r.status # "CANCELLED" /\ NewRow(x).status # "CANCELLED"
        /\ NewRow(x).total = r.total + j.amount /\ NewRow(x).paid = r.paid
        /\ NewRow(x).balance = r.balance + j.amount
    BY <1>1, <1>2, <2>1, <2>2, <2>3 DEF Refused
  <2>5. \A n \in Int : Books(r, n) => Books(NewRow(x), n + Posted(x))
    BY <1>1, <2>2, <2>4 DEF Books
  <2>6. NewRow(x) = r => Posted(x) = 0
    BY <1>1, <2>2, <2>4
  <2> QED BY <2>4, <2>5, <2>6
<1>3. CASE j.kind = "cancel"
  <2>1. /\ cn \in InvoiceRow /\ cn.total = r.total /\ cn.paid = r.paid
        /\ cn.balance = 0 /\ cn.status = "CANCELLED"
    BY <1>1, CancelledRow
  <2>2. /\ NewRow(x) = cn /\ Posted(x) = IF r.balance > 0 THEN -r.balance ELSE 0
        /\ r.status # "PAID"
    BY <1>3 DEF Posted, NewRow, Refused
  <2> HIDE DEF cn
  <2>3. ASSUME NEW n \in Int, Books(r, n)
        PROVE  Books(NewRow(x), n + Posted(x))
    <3>1. NewRow(x).status = "CANCELLED" /\ NewRow(x).balance = 0
          /\ NewRow(x).total = r.total /\ NewRow(x).paid = r.paid
      BY <2>1, <2>2
    <3>2. n + Posted(x) = IF r.total - r.paid < 0 THEN r.total - r.paid ELSE 0
      <4>1. CASE r.status = "CANCELLED"
        BY <1>1, <2>2, <2>3, <4>1 DEF Books
      <4>2. CASE r.status # "CANCELLED"
        BY <1>1, <2>2, <2>3, <4>2 DEF Books
      <4> QED BY <4>1, <4>2
    <3> QED BY <3>1, <3>2 DEF Books
  <2>4. NewRow(x) = r => Posted(x) = 0
    BY <2>1, <2>2
  <2> QED BY <2>2, <2>3, <2>4
<1>4. CASE j.kind \in {"callback", "manual"}
  <2>0. Posted(x) = -a /\ NewRow(x) = IF a = 0 THEN r ELSE Recalc(pd)
    BY <1>4 DEF Posted, NewRow, P
  <2> HIDE DEF a
  <2>1. /\ pd \in InvoiceRow /\ pd.total = r.total /\ pd.paid = r.paid + a
        /\ pd.balance = r.balance - a /\ pd.status = r.status
    BY <1>1, PaidMoves
  <2> HIDE DEF pd
  <2>3. /\ Recalc(pd).total = pd.total /\ Recalc(pd).paid = pd.paid
        /\ Recalc(pd).balance = pd.balance
        /\ Recalc(pd).status = "CANCELLED" <=> pd.status = "CANCELLED"
    BY <2>1, RecalcKeeps
  <2>4. CASE a = 0
    <3>1. NewRow(x) = r
      BY <2>0, <2>4
    <3>2. Posted(x) = 0
      <4>1. \A k \in Int : -k = 0 - k
        OBVIOUS
      <4>2. Posted(x) = 0 - a
        BY <1>1, <2>0, <4>1
      <4> QED BY <2>4, <4>2
    <3>3. \A n \in Int : n + Posted(x) = n
      BY <3>2
    <3> QED BY <1>1, <3>1, <3>2, <3>3
  <2>5. CASE a # 0
    <3>1. /\ NewRow(x).total = r.total /\ NewRow(x).paid = r.paid + a
          /\ NewRow(x).balance = r.balance - a
          /\ (NewRow(x).status = "CANCELLED") <=> (r.status = "CANCELLED")
      BY <2>0, <2>1, <2>3, <2>5
    <3>2. \A n \in Int : Books(r, n) => Books(NewRow(x), n + Posted(x))
      BY <1>1, <2>0, <2>5, <3>1 DEF Books
    <3>3. NewRow(x) # r /\ (r.status = "PAID" => NewRow(x).status # "CANCELLED")
      BY <1>1, <2>5, <3>1
    <3> QED BY <3>2, <3>3
  <2> QED BY <2>4, <2>5
<1> QED BY <1>1, <1>2, <1>3, <1>4 DEF Kind

\* What a commit makes of the row of an invoice that is not lost by it: what
\* its request made of the very row that is there.
LEMMA CommittedRow ==
  ASSUME IInv, NEW x \in Request, Commit(x), NEW i \in Invoice, i \notin lost'
  PROVE  /\ i \notin lost
         /\ \/ invoices'[i] = invoices[i] /\ ledger'[i] = ledger[i]
            \/ /\ i = I(x) /\ saw[x] = invoices[i] /\ invoices'[i] = NewRow(x)
               /\ ledger'[i] = ledger[i] + Posted(x)
<1>1. /\ I(x) \in Invoice /\ invoices \in [Invoice -> InvoiceRow] /\ ledger \in [Invoice -> Int]
      /\ saw[x] \in InvoiceRow /\ NewRow(x) \in InvoiceRow /\ ~Refused(x, saw[x])
      /\ draft[x].columns = Changed(saw[x], NewRow(x)) /\ Posted(x) \in Int
  BY CommitDraft, JobTypes DEF IInv, Types, TypeOK
<1>2. /\ invoices' = [invoices EXCEPT ![I(x)] = Merged(@, draft[x].columns)]
      /\ lost' = lost \cup {j \in {I(x)} : draft[x].columns # NoColumns /\ saw[x] # invoices[j]}
      /\ ledger' = [ledger EXCEPT ![I(x)] = @ + Posted(x)]
  BY CommitMoves
<1>3. i \notin lost
  BY <1>2
<1>4. CASE i # I(x)
  BY <1>1, <1>2, <1>3, <1>4
<1>5. CASE i = I(x) /\ draft[x].columns = NoColumns
  <2>1. NewRow(x) = saw[x] /\ Posted(x) = 0
    BY <1>1, <1>5, NothingChanged, RowMoves
  <2>2. Merged(invoices[i], NoColumns) = invoices[i]
    BY <1>1, MergedNothing
  <2> QED BY <1>1, <1>2, <1>3, <1>5, <2>1, <2>2
<1>6. CASE i = I(x) /\ draft[x].columns # NoColumns
  <2>1. saw[x] = invoices[i]
    BY <1>2, <1>6
  <2>2. Merged(invoices[i], draft[x].columns) = NewRow(x)
    BY <1>1, <2>1, MergedSame
  <2> QED BY <1>1, <1>2, <1>3, <1>6, <2>1, <2>2
<1> QED BY <1>4, <1>5, <1>6

\* Only a commit touches the tables.
LEMMA OnlyCommits ==
  ASSUME IInv, [Next]_vars
  PROVE  (\E x \in Request : Commit(x)) \/ UNCHANGED <<committed, lost>>
<1>1. CASE UNCHANGED vars
  BY <1>1 DEF vars
<1>2. ASSUME NEW x \in Request, Start(x) \/ Step(x)
      PROVE  Commit(x) \/ UNCHANGED <<committed, lost>>
  BY <1>2 DEF Step, Start, ReadPayment, ClaimPayment, ReadInvoice, WriteInvoice, ReadReceipts,
     StorePdf, InsertReceipt
<1> QED BY <1>1, <1>2 DEF Next

\* However the requests interleave, and whatever adjustments add to invoices or
\* take from them, an invoice nobody overwrote unread agrees with the ledger.
THEOREM BooksAgree == Spec => []InvoiceAgrees
<1>0. InvoiceAgrees <=> \A i \in Invoice \ lost : Books(invoices[i], ledger[i])
  BY DEF InvoiceAgrees, Books
<1>1. Init => InvoiceAgrees
  BY SettlementAssumption DEF Init, InvoiceAgrees
<1>2. IInv /\ InvoiceAgrees /\ [Next]_vars => InvoiceAgrees'
  <2> SUFFICES ASSUME IInv, InvoiceAgrees, [Next]_vars PROVE InvoiceAgrees'
    OBVIOUS
  <2>1. CASE UNCHANGED <<committed, lost>>
    BY <2>1 DEF committed, InvoiceAgrees
  <2>2. ASSUME NEW x \in Request, Commit(x), NEW i \in Invoice \ lost'
        PROVE  Books(invoices'[i], ledger'[i])
    <3>1. /\ i \in Invoice \ lost
          /\ \/ invoices'[i] = invoices[i] /\ ledger'[i] = ledger[i]
             \/ /\ i = I(x) /\ saw[x] = invoices[i] /\ invoices'[i] = NewRow(x)
                /\ ledger'[i] = ledger[i] + Posted(x)
      BY <2>2, CommittedRow
    <3>2. saw[x] \in InvoiceRow /\ ~Refused(x, saw[x]) /\ ledger[i] \in Int
      BY <2>2, CommitDraft DEF IInv, Types, TypeOK
    <3>3. Books(invoices[i], ledger[i])
      BY <1>0, <3>1
    <3> QED BY <3>1, <3>2, <3>3, RowMoves
  <2>3. InvoiceAgrees' <=> \A i \in Invoice \ lost' : Books(invoices'[i], ledger'[i])
    BY DEF InvoiceAgrees, Books
  <2> QED BY <2>1, <2>2, <2>3, OnlyCommits
<1> QED BY <1>1, <1>2, Invariant, PTL DEF Spec

\* A paid invoice is never cancelled, unless by a request that has not seen the
\* payment.
THEOREM PaidStaysPaid == Spec => PaidIsNotCancelled
<1>1. ASSUME IInv, [Next]_vars, NEW i \in Invoice \ lost', invoices[i].status = "PAID"
      PROVE  invoices'[i].status # "CANCELLED"
  <2>1. CASE UNCHANGED <<committed, lost>>
    BY <1>1, <2>1 DEF committed
  <2>2. ASSUME NEW x \in Request, Commit(x)
        PROVE  invoices'[i].status # "CANCELLED"
    <3>1. saw[x] \in InvoiceRow /\ ~Refused(x, saw[x])
      BY <1>1, <2>2, CommitDraft
    <3> QED BY <1>1, <2>2, <3>1, CommittedRow, RowMoves
  <2> QED BY <1>1, <2>1, <2>2, OnlyCommits
<1>2. IInv /\ [Next]_vars =>
        [\A i \in Invoice \ lost' :
           invoices[i].status = "PAID" => invoices'[i].status # "CANCELLED"]_vars
  BY <1>1
<1> QED BY <1>2, Invariant, PTL DEF Spec, PaidIsNotCancelled

----------------------------------------------------------------------------
(* The stored PDFs.                                                        *)

\* Request y was the last to store a PDF under n: it is about to insert the
\* receipt, has inserted it, or failed to.
Left(y, n) ==
  /\ files[n] = {P(y)} /\ number[y] = n
  /\ at[y] \in {"insert", "commit", "done", "failed"}
  /\ at[y] = "commit" => draft[y].receipt = n
  /\ at[y] = "done" => receipts[P(y)] = n

Filed ==
  /\ \A n \in Number : files[n] = {} \/ \E y \in Request : Left(y, n)
  /\ \A x \in Request :
       /\ draft[x].receipt # 0 => draft[x].receipt = number[x]
       /\ draft[x].pdf # Off => number[x] \in Number /\ files[number[x]] # {}
  /\ \A p \in linked : receipts[p] \in Number /\ files[receipts[p]] # {}
  /\ \A p, q \in Payment : p # q /\ receipts[p] = receipts[q] => receipts[p] = 0

LEMMA EmptyDrafts ==
  /\ NoDraft.receipt = 0 /\ NoDraft.pdf = Off
  /\ \A x : /\ Opened(x).receipt = 0 /\ Opened(x).pdf = Off
            /\ Written(x, Off, 0).receipt = 0 /\ Written(x, Off, 0).pdf = Off
  BY DraftFields, DraftSteps DEF Opened, Written

\* Up to the drawing of its number a request leaves the files and the receipts
\* alone.
LEMMA BeforeStoring ==
  ASSUME IInv, NEW x \in Request,
         Start(x) \/ ReadPayment(x) \/ ClaimPayment(x) \/ ReadInvoice(x) \/ WriteInvoice(x)
           \/ ReadReceipts(x)
  PROVE  /\ UNCHANGED <<committed, files>> /\ \A y \in Others(x) : Same(y)
         /\ at[x] \notin {"insert", "commit", "done", "failed"}
         /\ draft'[x].receipt = 0 /\ draft'[x].pdf = Off
<1>1. /\ Progress(x) /\ at \in [Request -> Labels] /\ number \in [Request -> Nat]
      /\ DOMAIN draft = Request /\ DOMAIN saw = Request
  BY DEF IInv, Types, TypeOK, Labels
<1>2. CASE Start(x)
  <2>1. at[x] = "new" /\ UNCHANGED <<committed, files, saw, number>>
    BY <1>2 DEF Start
  <2>2. draft[x] = NoDraft
    BY <1>1, <2>1 DEF Progress
  <2>3. \E l : at' = [at EXCEPT ![x] = l]
    BY <1>2 DEF Start, Goto
  <2>4. draft' = draft \/ draft' = [draft EXCEPT ![x] = PutPay(draft[x], On)]
    BY <1>2 DEF Start, PutPay, On
  <2>5. draft'[x] = NoDraft \/ draft'[x] = Draft(On, NoColumns, 0, 0, Off, 0)
    BY <1>1, <2>2, <2>4, DraftSteps
  <2>6. draft'[x].receipt = 0 /\ draft'[x].pdf = Off
    BY <2>5, EmptyDrafts, DraftFields
  <2> QED BY <1>1, <2>1, <2>3, <2>4, <2>6 DEF Same, Others
<1>3. CASE ReadPayment(x) \/ ReadInvoice(x)
  <2>1. /\ at[x] \in {"payment", "invoice"} /\ UNCHANGED <<committed, files, number, draft>>
        /\ \E l : at' = [at EXCEPT ![x] = l]
        /\ saw' = saw \/ \E r : saw' = [saw EXCEPT ![x] = r]
    BY <1>3 DEF ReadPayment, ReadInvoice, Goto
  <2>2. draft[x] = NoDraft \/ draft[x] = Opened(x)
    BY <1>1, <2>1 DEF Progress
  <2> QED BY <1>1, <2>1, <2>2, EmptyDrafts DEF Same, Others
<1>4. CASE ClaimPayment(x)
  <2>1. /\ at[x] = "claim" /\ UNCHANGED <<committed, files, saw, number>>
        /\ at' = [at EXCEPT ![x] = "invoice"]
        /\ draft' = [draft EXCEPT ![x] = PutPay(draft[x], On)]
    BY <1>4 DEF ClaimPayment, Goto, PutPay, On
  <2>2. draft'[x] = Draft(On, NoColumns, 0, 0, Off, 0)
    BY <1>1, <2>1, DraftSteps DEF Progress
  <2>3. draft'[x].receipt = 0 /\ draft'[x].pdf = Off
    BY <2>2, DraftFields
  <2> QED BY <1>1, <2>1, <2>3 DEF Same, Others
<1>5. CASE WriteInvoice(x)
  <2> DEFINE c == Changed(saw[x], NewRow(x))
  <2>1. /\ at[x] = "write" /\ UNCHANGED <<committed, files, saw, number>>
        /\ \E l : at' = [at EXCEPT ![x] = l]
        /\ draft' = [draft EXCEPT ![x] =
                       PutRest(PutPost(PutColumns(draft[x], c), Posted(x)), Rest(x))]
    BY <1>5 DEF WriteInvoice, Goto, PutColumns, PutPost, PutRest
  <2>2. draft'[x] = Written(x, Off, 0)
    BY <1>1, <2>1, DraftSteps DEF Progress, Opened, Written
  <2> QED BY <1>1, <2>1, <2>2, EmptyDrafts DEF Same, Others
<1>6. CASE ReadReceipts(x)
  <2>1. /\ at[x] = "receipt" /\ UNCHANGED <<committed, files, saw, draft>>
        /\ \E l : at' = [at EXCEPT ![x] = l]
        /\ number' = number \/ \E n : number' = [number EXCEPT ![x] = n]
    BY <1>6 DEF ReadReceipts, Goto
  <2>2. draft[x] = Written(x, Off, 0)
    BY <1>1, <2>1 DEF Progress
  <2> QED BY <1>1, <2>1, <2>2, EmptyDrafts DEF Same, Others
<1> QED BY <1>2, <1>3, <1>4, <1>5, <1>6

LEMMA BeforeStoringKeeps ==
  ASSUME Filed, NEW x \in Request,
         UNCHANGED <<committed, files>>, \A y \in Others(x) : Same(y),
         at[x] \notin {"insert", "commit", "done", "failed"},
         draft'[x].receipt = 0, draft'[x].pdf = Off
  PROVE  Filed'
<1>1. \A y \in Request, n \in Number : Left(y, n) => Left(y, n)'
  BY DEF Left, Same, Others, committed, P
<1>2. \A y \in Request :
        /\ draft'[y].receipt # 0 => draft'[y].receipt = number'[y]
        /\ draft'[y].pdf # Off => number'[y] \in Number /\ files[number'[y]] # {}
  BY DEF Filed, Same, Others
<1>3. files' = files /\ receipts' = receipts /\ linked' = linked
  BY DEF committed
<1> QED BY <1>1, <1>2, <1>3 DEF Filed, Off, Number

LEMMA StorePdfFiles ==
  ASSUME IInv, Filed, NEW x \in Request, StorePdf(x)
  PROVE  Filed'
<1>1. /\ Progress(x) /\ at \in [Request -> Labels] /\ number[x] \in Number
      /\ DOMAIN draft = Request /\ P(x) \in Payment /\ draft[x] = Written(x, Off, 0)
      /\ DOMAIN files = Number /\ at[x] = "store"
  BY JobTypes DEF IInv, Types, TypeOK, Labels, Progress, StorePdf
<1>2. UNCHANGED <<committed, saw, number>> /\ at' = [at EXCEPT ![x] = "insert"] /\ at'[x] = "insert"
  BY <1>1 DEF StorePdf, Goto
<1>3. CASE UNCHANGED <<files, draft>>
  <2>1. \A y \in Others(x) : Same(y)
    BY <1>1, <1>2, <1>3 DEF Same, Others
  <2> QED BY <1>1, <1>2, <1>3, <2>1, EmptyDrafts, BeforeStoringKeeps
<1>4. CASE /\ files' = [files EXCEPT ![number[x]] = {P(x)}]
           /\ draft' = [draft EXCEPT ![x] = PutPdf(draft[x], On)]
  <2>1. \A y \in Others(x) : Same(y)
    BY <1>1, <1>2, <1>4 DEF Same, Others
  <2>2. /\ files'[number[x]] = {P(x)}
        /\ \A n \in Number \ {number[x]} : files'[n] = files[n]
    BY <1>1, <1>4
  <2>3. draft'[x] = Written(x, On, 0)
    BY <1>1, <1>4, DraftSteps DEF Written
  <2>4. draft'[x].receipt = 0
    BY <2>3, DraftFields DEF Written
  <2>5. Left(x, number[x])'
    BY <1>2, <2>2 DEF Left, P
  <2>6. \A y \in Request, n \in Number \ {number[x]} : Left(y, n) => Left(y, n)'
    BY <1>1, <1>2, <2>1, <2>2 DEF Left, Same, Others, committed, P
  <2>7. \A n \in Number : files'[n] = {} \/ \E y \in Request : Left(y, n)'
    <3> TAKE n \in Number
    <3>1. CASE n = number[x]
      BY <1>2, <2>5, <3>1
    <3>2. CASE n # number[x] /\ files[n] = {}
      BY <2>2, <3>2
    <3>3. CASE n # number[x] /\ files[n] # {}
      <4>1. PICK y \in Request : Left(y, n)
        BY <3>3 DEF Filed
      <4>2. Left(y, n)'
        BY <2>6, <3>3, <4>1
      <4> QED BY <4>2
    <3> QED BY <3>1, <3>2, <3>3
  <2>8. \A n \in Number : files[n] # {} => files'[n] # {}
    BY <2>2
  <2>9. \A y \in Request :
          /\ draft'[y].receipt # 0 => draft'[y].receipt = number'[y]
          /\ draft'[y].pdf # Off => number'[y] \in Number /\ files'[number'[y]] # {}
    BY <1>1, <1>2, <2>1, <2>2, <2>4, <2>8 DEF Filed, Same, Others
  <2>10. receipts' = receipts /\ linked' = linked
    BY <1>2 DEF committed
  <2> QED BY <2>7, <2>8, <2>9, <2>10 DEF Filed, Off, Number
<1> QED BY <1>3, <1>4 DEF StorePdf, PutPdf, On, P

LEMMA InsertReceiptFiles ==
  ASSUME IInv, Filed, NEW x \in Request, InsertReceipt(x)
  PROVE  Filed'
<1>1. /\ Progress(x) /\ at \in [Request -> Labels] /\ number[x] \in Number
      /\ DOMAIN draft = Request /\ at[x] = "insert"
  BY DEF IInv, Types, TypeOK, Labels, Progress, InsertReceipt
<1>2. UNCHANGED <<committed, files, saw, number>>
  BY DEF InsertReceipt
<1>3. PICK b \in BOOLEAN : draft[x] = Written(x, b, 0)
  BY <1>1 DEF Progress
<1>4. \/ at' = [at EXCEPT ![x] = "failed"] /\ draft' = [draft EXCEPT ![x] = NoDraft]
      \/ /\ at' = [at EXCEPT ![x] = "commit"]
         /\ draft' = [draft EXCEPT ![x] = PutReceipt(draft[x], number[x])]
  BY DEF InsertReceipt, Rollback, Goto, PutReceipt
<1>5. \A y \in Others(x) : Same(y)
  BY <1>1, <1>2, <1>4 DEF Same, Others
<1>6. /\ at'[x] = "failed" \/ (at'[x] = "commit" /\ draft'[x].receipt = number[x])
      /\ draft'[x].receipt # 0 => draft'[x].receipt = number[x]
      /\ draft'[x].pdf # Off => draft[x].pdf # Off
  <2>1. CASE /\ at' = [at EXCEPT ![x] = "failed"] /\ draft' = [draft EXCEPT ![x] = NoDraft]
    BY <1>1, <2>1, EmptyDrafts
  <2>2. CASE /\ at' = [at EXCEPT ![x] = "commit"]
             /\ draft' = [draft EXCEPT ![x] = PutReceipt(draft[x], number[x])]
    <3>1. PutReceipt(Written(x, b, 0), number[x]) = Written(x, b, number[x])
      BY DraftPuts DEF Written
    <3>2. draft'[x] = Written(x, b, number[x]) /\ at'[x] = "commit"
      BY <1>1, <1>3, <2>2, <3>1
    <3>3. /\ Written(x, b, number[x]).receipt = number[x] /\ Written(x, b, number[x]).pdf = b
          /\ Written(x, b, 0).pdf = b
      BY DraftFields DEF Written
    <3> QED BY <1>3, <3>2, <3>3
  <2> QED BY <1>4, <2>1, <2>2
<1>7. \A y \in Request, n \in Number : Left(y, n) => Left(y, n)'
  BY <1>1, <1>2, <1>5, <1>6 DEF Left, Same, Others, committed, P
<1>8. \A y \in Request :
        /\ draft'[y].receipt # 0 => draft'[y].receipt = number'[y]
        /\ draft'[y].pdf # Off => number'[y] \in Number /\ files[number'[y]] # {}
  BY <1>2, <1>5, <1>6 DEF Filed, Same, Others
<1>9. files' = files /\ receipts' = receipts /\ linked' = linked
  BY <1>2 DEF committed
<1> QED BY <1>7, <1>8, <1>9 DEF Filed, Off, Number

LEMMA CommitFiles ==
  ASSUME IInv, Filed, NEW x \in Request, Commit(x)
  PROVE  Filed'
<1> DEFINE n == draft[x].receipt
<1>1. /\ at \in [Request -> Labels] /\ receipts \in [Payment -> Number \cup {0}]
      /\ DOMAIN draft = Request /\ P(x) \in Payment /\ at[x] = "commit" /\ 0 \notin Number
      /\ linked \subseteq Payment
  BY JobTypes DEF IInv, Types, TypeOK, Labels, Commit, Number
<1>0. /\ n \in Number \cup {0} /\ (n # 0 => n = number[x])
      /\ n # 0 => receipts[P(x)] = 0 /\ \A p \in Payment : receipts[p] # n
  BY CommitDraft DEF IInv, Free, Filed
<1>2. /\ receipts' = IF n # 0 THEN [receipts EXCEPT ![P(x)] = n] ELSE receipts
      /\ linked' = IF n # 0 /\ draft[x].pdf THEN linked \cup {P(x)} ELSE linked
      /\ draft' = [draft EXCEPT ![x] = NoDraft] /\ at' = [at EXCEPT ![x] = "done"]
      /\ UNCHANGED <<files, saw, number>>
  BY CommitMoves
<1>3. draft[x].pdf => number[x] \in Number /\ files[number[x]] # {}
  BY DEF Filed, Off
<1>4. /\ at'[x] = "done" /\ draft'[x].receipt = 0 /\ draft'[x].pdf = Off
      /\ \A y \in Others(x) : Same(y)
  BY <1>1, <1>2, EmptyDrafts DEF Same, Others
<1>5. \A k \in Number : Left(x, k) => Left(x, k)'
  <2> SUFFICES ASSUME NEW k \in Number, Left(x, k) PROVE Left(x, k)'
    OBVIOUS
  <2>1. n = k /\ k # 0
    BY <1>1 DEF Left
  <2> HIDE DEF n
  <2>2. receipts'[P(x)] = k
    BY <1>1, <1>2, <2>1
  <2> QED BY <1>2, <1>4, <2>2 DEF Left, P
<1> HIDE DEF n
<1>7. \A p \in Payment : receipts[p] # 0 => receipts'[p] = receipts[p]
  BY <1>0, <1>1, <1>2
<1>8. \A y \in Others(x), k \in Number : Left(y, k) => Left(y, k)'
  <2> SUFFICES ASSUME NEW y \in Others(x), NEW k \in Number, Left(y, k) PROVE Left(y, k)'
    OBVIOUS
  <2>1. k # 0 /\ P(y) \in Payment
    BY <1>1, JobTypes DEF Others
  <2>2. at[y] = "done" => receipts'[P(y)] = k
    BY <1>7, <2>1 DEF Left
  <2> QED BY <1>2, <1>4, <2>2 DEF Left, Same, P
<1>9. \A k \in Number : files'[k] = {} \/ \E y \in Request : Left(y, k)'
  <2> SUFFICES ASSUME NEW k \in Number, files[k] # {} PROVE \E y \in Request : Left(y, k)'
    BY <1>2
  <2>1. PICK y \in Request : Left(y, k)
    BY DEF Filed
  <2>2. CASE y = x
    BY <1>5, <2>1, <2>2
  <2>3. CASE y # x
    BY <1>8, <2>1, <2>3 DEF Others
  <2> QED BY <2>2, <2>3
<1>10. \A p \in linked' : receipts'[p] \in Number /\ files'[receipts'[p]] # {}
  <2>1. ASSUME NEW p \in linked PROVE receipts'[p] \in Number /\ files'[receipts'[p]] # {}
    BY <1>1, <1>2, <1>7 DEF Filed
  <2>2. n # 0 /\ draft[x].pdf => receipts'[P(x)] \in Number /\ files'[receipts'[P(x)]] # {}
    <3>1. n # 0 => receipts'[P(x)] = number[x]
      BY <1>0, <1>1, <1>2
    <3> QED BY <1>2, <1>3, <3>1
  <2> QED BY <1>2, <2>1, <2>2
<1>11. \A p, q \in Payment : p # q /\ receipts'[p] = receipts'[q] => receipts'[p] = 0
  BY <1>0, <1>1, <1>2 DEF Filed
<1>12. \A y \in Request :
        /\ draft'[y].receipt # 0 => draft'[y].receipt = number'[y]
        /\ draft'[y].pdf # Off => number'[y] \in Number /\ files'[number'[y]] # {}
  BY <1>2, <1>4 DEF Filed, Same, Others
<1> QED BY <1>9, <1>10, <1>11, <1>12 DEF Filed, Off, Number

\* The PDF a receipt links to shows the receipt's own payment, unless another
\* payment drew the same number, stored its PDF over this one, and then fails
\* on the number.
THEOREM ReceiptsShowPayments == Spec => []ReceiptShowsPayment
<1>1. Init => Filed
  BY EmptyDrafts DEF Init, Filed
<1>2. IInv /\ Filed /\ [Next]_vars => Filed'
  <2> SUFFICES ASSUME IInv, Filed, [Next]_vars PROVE Filed'
    OBVIOUS
  <2>1. CASE UNCHANGED vars
    <3>1. \A y \in Request, n \in Number : Left(y, n) => Left(y, n)'
      BY <2>1 DEF vars, committed, Left, P
    <3> QED BY <2>1, <3>1 DEF vars, committed, Filed, Off, Number
  <2>2. ASSUME NEW x \in Request, Start(x) \/ Step(x) PROVE Filed'
    <3>1. CASE Start(x) \/ ReadPayment(x) \/ ClaimPayment(x) \/ ReadInvoice(x) \/ WriteInvoice(x)
               \/ ReadReceipts(x)
      BY <3>1, BeforeStoring, BeforeStoringKeeps
    <3> QED BY <2>2, <3>1, StorePdfFiles, InsertReceiptFiles, CommitFiles DEF Step
  <2> QED BY <2>1, <2>2 DEF Next
<1>3. IInv /\ Filed => ReceiptShowsPayment
  <2> SUFFICES ASSUME IInv, Filed, NEW p \in linked, files[receipts[p]] # {p}
               PROVE  \E x \in Request :
                        /\ files[receipts[p]] = {P(x)} /\ number[x] = receipts[p]
                        /\ at[x] \in {"insert", "failed"} /\ receipts[P(x)] # receipts[p]
    BY DEF ReceiptShowsPayment, P
  <2>1. /\ p \in Payment /\ receipts[p] \in Number /\ receipts[p] # 0
        /\ files[receipts[p]] # {}
    BY DEF IInv, Types, TypeOK, Filed, Number
  <2>2. PICK x \in Request : Left(x, receipts[p])
    BY <2>1 DEF Filed
  <2>3. P(x) \in Payment /\ P(x) # p
    BY <2>2, JobTypes DEF Left
  <2>4. receipts[P(x)] # receipts[p]
    BY <2>1, <2>3 DEF Filed
  <2>5. at[x] # "commit"
    BY <2>1, <2>2 DEF Left, IInv, Free
  <2> QED BY <2>2, <2>4, <2>5 DEF Left
<1> QED BY <1>1, <1>2, <1>3, Invariant, PTL DEF Spec

----------------------------------------------------------------------------
(* Waiting.                                                                *)

\* What keeps a request x from its next statement: a row that another one has
\* written and not committed (the guards of ClaimPayment, WriteInvoice and
\* InsertReceipt).
WaitsFor(x, y) ==
  \/ at[x] = "claim" /\ draft[y].pay /\ P(y) = P(x)
  \/ /\ at[x] = "write" /\ Changed(saw[x], NewRow(x)) # NoColumns
     /\ draft[y].columns # NoColumns /\ I(y) = I(x)
  \/ /\ at[x] = "insert" /\ draft[y].receipt # 0
     /\ draft[y].receipt = number[x] \/ P(y) = P(x)

\* A ring of requests each of which waits for another, or any set of them that
\* nobody outside it could release.
Knot(X) == X # {} /\ \A x \in X : \E y \in X \ {x} : WaitsFor(x, y)
NobodyWaitsForAll == \A X \in SUBSET Request : ~Knot(X)

\* The order in which rows are locked.
LEMMA LocksAreOrdered ==
  ASSUME IInv, NEW x \in Request, NEW y \in Request, WaitsFor(x, y)
  PROVE  /\ at[x] \in {"claim", "write", "insert"}
         /\ at[x] = "claim" =>
              at[y] \in {"invoice", "write", "receipt", "store", "insert", "commit"}
         /\ at[x] = "write" => at[y] \in {"receipt", "store", "insert", "commit"}
         /\ at[x] = "insert" => at[y] = "commit"
<1>1. Progress(y) /\ at[y] \in Labels
  BY DEF IInv, Types, TypeOK, Labels
<1>2. at[y] \in {"new", "payment", "claim", "done", "failed"} =>
        ~draft[y].pay /\ draft[y].columns = NoColumns /\ draft[y].receipt = 0
  BY <1>1, NoDraftFields DEF Progress
<1>3. at[y] \in {"invoice", "write"} => draft[y].columns = NoColumns /\ draft[y].receipt = 0
  <2>1. Opened(y).columns = NoColumns /\ Opened(y).receipt = 0
    BY DraftFields DEF Opened
  <2> QED BY <1>1, <2>1 DEF Progress
<1>4. at[y] \in {"receipt", "store", "insert"} => draft[y].receipt = 0
  <2>1. \A b : Written(y, b, 0).receipt = 0
    BY DraftFields DEF Written
  <2> QED BY <1>1, <2>1 DEF Progress
<1> QED BY <1>1, <1>2, <1>3, <1>4 DEF WaitsFor, Labels

\* Callbacks, payments by hand, adjustments and cancellations, any number of
\* them at once, never wait for one another in a ring: they lock the payment,
\* the invoice and the receipt in this order.  (What it takes, besides fairness,
\* for all of them to finish.)
THEOREM NoDeadlock == Spec => []NobodyWaitsForAll
<1>1. IInv => NobodyWaitsForAll
  <2> SUFFICES ASSUME IInv, NEW X \in SUBSET Request, Knot(X) PROVE FALSE
    BY DEF NobodyWaitsForAll
  <2>1. \A x \in X : \E y \in X : WaitsFor(x, y)
    BY DEF Knot
  <2>2. \A x \in X : at[x] # "commit"
    BY <2>1, LocksAreOrdered
  <2>3. \A x \in X : at[x] # "insert"
    BY <2>1, <2>2, LocksAreOrdered
  <2>4. \A x \in X : at[x] # "write"
    BY <2>1, <2>2, <2>3, LocksAreOrdered
  <2>5. \A x \in X : FALSE
    BY <2>1, <2>2, <2>3, <2>4, LocksAreOrdered
  <2> QED BY <2>5 DEF Knot
<1> QED BY <1>1, Invariant, PTL
=============================================================================
