--------------------------- MODULE BillingProofs ---------------------------
(***************************************************************************)
(* Proofs about Billing and Views, for every set of tenants, leases,       *)
(* invoices and amounts.  The four invariants below are proved together as *)
(* IInv: the ledger agrees with the balances only because the balances     *)
(* agree with totals, and a status is truthful only because of both.  What *)
(* the pages and reports add up comes last: lemmas about sums over finite  *)
(* sets, the two ways a step moves money (Charged, Pays), and SumsInv.     *)
(***************************************************************************)
EXTENDS Views, FiniteSetTheorems, WellFoundedInduction, TLAPS

\* The inductive invariant.
IInv == TypeOK /\ ChargesAddUp /\ StatusTruthful /\ LedgerMatchesInvoices

----------------------------------------------------------------------------
(* Row lemmas.                                                             *)

\* recalc_invoice_status touches nothing but the status.
LEMMA RecalcFrame ==
  ASSUME NEW r \in InvoiceRow, NEW d \in Day
  PROVE  /\ Recalc(r, d) \in InvoiceRow
         /\ Recalc(r, d).tenant = r.tenant
         /\ Recalc(r, d).due = r.due
         /\ Recalc(r, d).charges = r.charges
         /\ Recalc(r, d).penalties = r.penalties
         /\ Recalc(r, d).discounts = r.discounts
         /\ Recalc(r, d).total = r.total
         /\ Recalc(r, d).paid = r.paid
         /\ Recalc(r, d).balance = r.balance
         /\ Recalc(r, d).lease = r.lease
         /\ Recalc(r, d).period = r.period
         /\ Recalc(r, d).monthly = r.monthly
         /\ Recalc(r, d).status = "CANCELLED" <=> r.status = "CANCELLED"
BY DEF InvoiceRow, Recalc, InvoiceStatus, Outstanding, Day

\* Whatever the row was, its status is truthful once recomputed.
LEMMA RecalcTruthful ==
  ASSUME NEW r \in InvoiceRow, NEW d \in Day
  PROVE  RowTruthful(Recalc(r, d), d)
BY DEF InvoiceRow, Recalc, InvoiceStatus, Outstanding, Day, RowTruthful

\* The rows adjust_invoice, cancel_invoice and allocate_payment write are rows.
\* (The provers take one EXCEPT at a time.)
LEMMA AdjustedRow ==
  ASSUME NEW r \in InvoiceRow, NEW pen \in Nat, NEW disc \in Nat, NEW delta \in Int
  PROVE  [r EXCEPT !.penalties = pen, !.discounts = disc,
                   !.total = @ + delta, !.balance = @ + delta] \in InvoiceRow
<1> DEFINE a == [r EXCEPT !.penalties = pen]
           b == [a EXCEPT !.discounts = disc]
           c == [b EXCEPT !.total = @ + delta]
           d == [c EXCEPT !.balance = @ + delta]
<1>1. a \in InvoiceRow
  BY DEF InvoiceRow
<1>2. b \in InvoiceRow
  <2> HIDE DEF a
  <2> QED BY <1>1 DEF InvoiceRow
<1>3. c \in InvoiceRow
  <2> HIDE DEF b
  <2> QED BY <1>2 DEF InvoiceRow
<1>4. d \in InvoiceRow
  <2> HIDE DEF c
  <2> QED BY <1>3 DEF InvoiceRow
<1>5. [r EXCEPT !.penalties = pen, !.discounts = disc,
                !.total = @ + delta, !.balance = @ + delta] = d
  BY DEF InvoiceRow
<1> QED BY <1>4, <1>5

\* Likewise the row cancel_invoice writes.
LEMMA CancelledRow ==
  ASSUME NEW r \in InvoiceRow
  PROVE  [r EXCEPT !.balance = 0, !.status = "CANCELLED"] \in InvoiceRow
<1> DEFINE m == [r EXCEPT !.balance = 0]
<1>1. m \in InvoiceRow
  BY DEF InvoiceRow
<1>2. [r EXCEPT !.balance = 0, !.status = "CANCELLED"] = [m EXCEPT !.status = "CANCELLED"]
  BY DEF InvoiceRow
<1> HIDE DEF m
<1> QED BY <1>1, <1>2 DEF InvoiceRow, InvoiceStatus, Outstanding

\* Likewise the row allocate_payment writes, before its status is recomputed.
LEMMA PaidRow ==
  ASSUME NEW r \in InvoiceRow, NEW x \in Nat
  PROVE  [r EXCEPT !.paid = @ + x, !.balance = @ - x] \in InvoiceRow
<1> DEFINE m == [r EXCEPT !.paid = @ + x]
<1>1. m \in InvoiceRow
  BY DEF InvoiceRow
<1>2. [r EXCEPT !.paid = @ + x, !.balance = @ - x] = [m EXCEPT !.balance = @ - x]
  BY DEF InvoiceRow
<1> HIDE DEF m
<1> QED BY <1>1, <1>2 DEF InvoiceRow

\* A row that has been issued owes its whole total and is live.
FreshRow(r) ==
  /\ r \in InvoiceRow /\ RowAddsUp(r) /\ RowTruthful(r, today)
  /\ r.balance = r.total /\ r.status # "CANCELLED"

\* A row create_invoice inserts is well-formed and owes its whole total.
LEMMA NewRowFacts ==
  ASSUME NEW t \in Tenant, NEW l \in Lease \cup {NoLease}, NEW p \in Period, NEW d \in Day,
         NEW c \in Nat, NEW pen \in Nat, NEW disc \in Nat, NEW m \in BOOLEAN,
         today \in Day
  PROVE  FreshRow(NewRow(t, l, p, d, c, pen, disc, m))
<1> DEFINE b == [tenant |-> t, lease |-> l, period |-> p, due |-> d,
                 charges |-> c, penalties |-> pen, discounts |-> disc,
                 total |-> (c + pen) - disc, paid |-> 0, balance |-> (c + pen) - disc,
                 status |-> "GENERATED", monthly |-> m]
<1>1. b \in InvoiceRow
  BY DEF InvoiceRow, InvoiceStatus, Outstanding, Day
<1>2. /\ b.total = (b.charges + b.penalties) - b.discounts
      /\ b.balance = b.total /\ b.paid = 0 /\ b.tenant = t /\ b.status # "CANCELLED"
      /\ b.total \in Int
  OBVIOUS
<1>3. NewRow(t, l, p, d, c, pen, disc, m) = Recalc(b, today)
  BY DEF NewRow
<1> HIDE DEF b
<1>4. RowTruthful(Recalc(b, today), today)
  BY <1>1, RecalcTruthful
<1> QED
  BY <1>1, <1>2, <1>3, <1>4, RecalcFrame DEF RowAddsUp, FreshRow

----------------------------------------------------------------------------
(* Inserting invoices: create_invoice and the monthly run.                 *)

\* Inserting fresh rows under new ids and posting their totals keeps IInv.
LEMMA InsertKeeps ==
  ASSUME IInv, NEW new, DOMAIN new \subseteq InvoiceId \ Issued,
         \A i \in DOMAIN new : FreshRow(new[i]),
         Insert(new), UNCHANGED <<received, today>>
  PROVE  IInv'
<1> USE DEF IInv
<1>1. /\ Issued' = Issued \cup DOMAIN new
      /\ \A i \in DOMAIN new : invoices'[i] = new[i]
      /\ \A i \in Issued : invoices'[i] = invoices[i]
  BY DEF Insert, Issued
<1>2. \A t \in Tenant, g \in Tag :
        ledger'[t][g] = IF g \in DOMAIN new /\ new[g].tenant = t
                        THEN ledger[t][g] + new[g].total ELSE ledger[t][g]
  BY DEF Insert
<1>3. TypeOK'
  <2>1. invoices' \in [Issued' -> InvoiceRow]
    BY <1>1 DEF Insert, Issued, TypeOK, FreshRow
  <2>2. ledger' \in [Tenant -> [Tag -> Int]]
    <3>1. \A i \in DOMAIN new : new[i].total \in Int
      BY DEF FreshRow, InvoiceRow
    <3> QED BY <3>1 DEF Insert, TypeOK
  <2> QED BY <2>1, <2>2, <1>1 DEF TypeOK
<1>4. ChargesAddUp'
  BY <1>1 DEF ChargesAddUp, FreshRow
<1>5. StatusTruthful'
  BY <1>1 DEF StatusTruthful, FreshRow
<1>6. LedgerMatchesInvoices'
  <2> SUFFICES ASSUME NEW t \in Tenant
               PROVE  (ledger[t][NoInvoice] <= 0 /\ \A i \in InvoiceId : LedgerRow(t, i))'
    BY DEF LedgerMatchesInvoices
  <2>1. ledger'[t][NoInvoice] <= 0
    BY <1>2, BillingAssumption DEF LedgerMatchesInvoices, Tag
  <2>2. ASSUME NEW i \in InvoiceId PROVE LedgerRow(t, i)'
    <3>1. LedgerRow(t, i) /\ i \in Tag /\ ledger[t][i] \in Int
      BY DEF LedgerMatchesInvoices, Tag, TypeOK
    <3>2. CASE i \in DOMAIN new
      <4>1. ledger[t][i] = 0 /\ i \in Issued'
        BY <3>1, <3>2, <1>1 DEF LedgerRow
      <4>2. ledger'[t][i] = IF new[i].tenant = t THEN new[i].total ELSE 0
        BY <3>1, <3>2, <4>1, <1>2 DEF FreshRow, InvoiceRow
      <4>3. NetPosted(new[i]) = new[i].total /\ new[i].total \in Int
        BY <3>2 DEF FreshRow, NetPosted, InvoiceRow
      <4> QED BY <3>2, <4>1, <4>2, <4>3, <1>1 DEF LedgerRow
    <3>3. CASE i \notin DOMAIN new
      <4>1. \A u \in Tenant : ledger'[u][i] = ledger[u][i]
        BY <3>1, <3>3, <1>2
      <4> QED BY <3>1, <3>3, <4>1, <1>1 DEF LedgerRow
    <3> QED BY <3>2, <3>3
  <2> QED BY <2>1, <2>2
<1> QED BY <1>3, <1>4, <1>5, <1>6

\* Both ways to issue insert fresh rows under new ids.
InsertsFresh ==
  /\ \E new : /\ DOMAIN new \subseteq InvoiceId \ Issued
              /\ \A i \in DOMAIN new : FreshRow(new[i])
              /\ Insert(new)
  /\ UNCHANGED <<received, today>>

\* The admin form inserts one fresh row.
LEMMA CreateInserts ==
  ASSUME TypeOK, NEW i \in InvoiceId, NEW t \in Tenant, NEW l \in Lease \cup {NoLease},
         NEW p \in Period, NEW d \in Day, NEW c \in Charges,
         NEW pen \in Extras, NEW disc \in Extras,
         CreateInvoice(i, t, l, p, d, c, pen, disc)
  PROVE  InsertsFresh
<1> DEFINE new == [j \in {i} |-> NewRow(t, l, p, d, c, pen, disc, FALSE)]
<1>1. c \in Nat /\ pen \in Nat /\ disc \in Nat /\ today \in Day
  BY BillingAssumption DEF TypeOK
<1>2. \A j \in DOMAIN new : FreshRow(new[j])
  <2>1. FreshRow(NewRow(t, l, p, d, c, pen, disc, FALSE))
    BY <1>1, NewRowFacts
  <2> QED BY <2>1
<1>3. /\ DOMAIN new \subseteq InvoiceId \ Issued
      /\ Insert(new) /\ UNCHANGED <<received, today>>
  BY DEF CreateInvoice
<1> HIDE DEF new
<1> QED BY <1>2, <1>3 DEF InsertsFresh

\* The monthly run inserts a fresh row for every lease it bills.
LEMMA MonthlyInserts ==
  ASSUME TypeOK, NEW active \in SUBSET Lease, NEW p \in Period, NEW d \in Day, NEW c \in Charges,
         GenerateMonthly(active, p, d, c)
  PROVE  InsertsFresh
<1> DEFINE billed == Billable(active, p)
<1>1. billed \subseteq Lease
  BY DEF Billable
<1>2. PICK id \in [billed -> InvoiceId \ Issued] :
        Insert([i \in {id[l] : l \in billed} |->
         LET l == CHOOSE k \in billed : id[k] = i
         IN  NewRow(LeaseTenant[l], l, p, d, LeaseRent[l] + c, 0, 0, TRUE)])
  BY DEF GenerateMonthly
<1> DEFINE lease(i) == CHOOSE k \in billed : id[k] = i
           new == [i \in {id[l] : l \in billed} |->
                     NewRow(LeaseTenant[lease(i)], lease(i), p, d, LeaseRent[lease(i)] + c, 0, 0, TRUE)]
<1>3. Insert(new) /\ UNCHANGED <<received, today>>
  BY <1>2 DEF GenerateMonthly
<1>4. DOMAIN new \subseteq InvoiceId \ Issued
  OBVIOUS
<1>5. ASSUME NEW i \in DOMAIN new PROVE FreshRow(new[i])
  <2>1. lease(i) \in billed
    OBVIOUS
  <2> DEFINE l == lease(i)
  <2>2. /\ l \in Lease /\ LeaseTenant[l] \in Tenant /\ LeaseRent[l] + c \in Nat
        /\ today \in Day
    BY <1>1, <2>1, BillingAssumption DEF TypeOK
  <2>3. new[i] = NewRow(LeaseTenant[l], l, p, d, LeaseRent[l] + c, 0, 0, TRUE)
    OBVIOUS
  <2> HIDE DEF l, new
  <2>4. FreshRow(NewRow(LeaseTenant[l], l, p, d, LeaseRent[l] + c, 0, 0, TRUE))
    BY <2>2, NewRowFacts
  <2> QED BY <2>3, <2>4
<1> HIDE DEF new
<1> QED BY <1>3, <1>4, <1>5 DEF InsertsFresh

\* The admin form keeps IInv.
LEMMA CreateInvoiceKeeps ==
  ASSUME IInv, NEW i \in InvoiceId, NEW t \in Tenant, NEW l \in Lease \cup {NoLease},
         NEW p \in Period, NEW d \in Day, NEW c \in Charges,
         NEW pen \in Extras, NEW disc \in Extras,
         CreateInvoice(i, t, l, p, d, c, pen, disc)
  PROVE  IInv'
<1>1. InsertsFresh
  BY CreateInserts DEF IInv
<1> QED BY <1>1, InsertKeeps DEF InsertsFresh

\* The monthly run keeps IInv.
LEMMA GenerateMonthlyKeeps ==
  ASSUME IInv, NEW active \in SUBSET Lease, NEW p \in Period, NEW d \in Day, NEW c \in Charges,
         GenerateMonthly(active, p, d, c)
  PROVE  IInv'
<1>1. InsertsFresh
  BY MonthlyInserts DEF IInv
<1> QED BY <1>1, InsertKeeps DEF InsertsFresh

----------------------------------------------------------------------------
(* Changing one row: adjust_invoice and cancel_invoice.                    *)

\* Replacing row i by s and posting amount for its tenant keeps IInv when the
\* new row is well-formed and the ledger row follows its balance.
LEMMA OneRowKeeps ==
  ASSUME IInv, NEW i \in Issued, NEW s \in InvoiceRow, NEW amount \in Int,
         invoices' = [invoices EXCEPT ![i] = s],
         ledger' = Post(invoices[i].tenant, i, amount),
         UNCHANGED <<received, today>>,
         s.tenant = invoices[i].tenant,
         RowAddsUp(s), RowTruthful(s, today),
         NetPosted(s) = NetPosted(invoices[i]) + amount
  PROVE  IInv'
<1> USE DEF IInv
<1> DEFINE o == invoices[i].tenant
<1>1. Issued' = Issued /\ i \in InvoiceId /\ i \in Tag /\ i # NoInvoice /\ o \in Tenant
  BY BillingAssumption DEF Issued, TypeOK, Tag, InvoiceRow
<1>2. invoices'[i] = s /\ \A j \in Issued \ {i} : invoices'[j] = invoices[j]
  BY DEF Issued, TypeOK
<1>3. /\ \A t \in Tenant, g \in Tag :
           ledger'[t][g] = IF t = o /\ g = i THEN ledger[t][g] + amount ELSE ledger[t][g]
      /\ ledger' \in [Tenant -> [Tag -> Int]]
  BY <1>1 DEF Post, TypeOK
<1>4. TypeOK'
  BY <1>1, <1>2, <1>3 DEF TypeOK
<1>5. ChargesAddUp' /\ StatusTruthful'
  BY <1>1, <1>2 DEF ChargesAddUp, StatusTruthful
<1>6. LedgerMatchesInvoices'
  <2> SUFFICES ASSUME NEW t \in Tenant
               PROVE  (ledger[t][NoInvoice] <= 0 /\ \A j \in InvoiceId : LedgerRow(t, j))'
    BY DEF LedgerMatchesInvoices
  <2>1. ledger'[t][NoInvoice] <= 0
    BY <1>1, <1>3 DEF LedgerMatchesInvoices, Tag
  <2>2. ASSUME NEW j \in InvoiceId PROVE LedgerRow(t, j)'
    <3>1. LedgerRow(t, j) /\ j \in Tag /\ ledger[t][j] \in Int
      BY DEF LedgerMatchesInvoices, Tag, TypeOK
    <3>2. CASE j = i /\ t = o
      <4>1. /\ ledger'[t][i] = ledger[t][i] + amount
            /\ \A u \in Tenant \ {t} : ledger'[u][i] = ledger[u][i]
        BY <3>2, <1>1, <1>3
      <4>2. NetPosted(invoices[i]) \in Int /\ NetPosted(invoices'[i]) = NetPosted(invoices[i]) + amount
        BY <1>2 DEF NetPosted, TypeOK, InvoiceRow
      <4> QED BY <3>1, <3>2, <4>1, <4>2, <1>1, <1>2 DEF LedgerRow
    <3>3. CASE j = i /\ t # o
      <4>1. ledger'[t][j] = ledger[t][j]
        BY <3>1, <3>3, <1>3
      <4> QED BY <3>1, <3>3, <4>1, <1>1, <1>2 DEF LedgerRow
    <3>4. CASE j # i
      <4>1. \A u \in Tenant : ledger'[u][j] = ledger[u][j]
        BY <3>1, <3>4, <1>3
      <4> QED BY <3>1, <3>4, <4>1, <1>1, <1>2 DEF LedgerRow
    <3> QED BY <3>2, <3>3, <3>4
  <2> QED BY <2>1, <2>2
<1> QED BY <1>4, <1>5, <1>6

\* An adjustment keeps IInv: total, balance and ledger move by the same amount.
LEMMA AdjustInvoiceKeeps ==
  ASSUME IInv, NEW i \in Issued, NEW pen \in Extras, NEW disc \in Extras,
         AdjustInvoice(i, pen, disc)
  PROVE  IInv'
<1> DEFINE r == invoices[i]
           delta == (pen - r.penalties) - (disc - r.discounts)
           s == [r EXCEPT !.penalties = pen, !.discounts = disc,
                          !.total = @ + delta, !.balance = @ + delta]
           n == IF delta = 0 THEN s ELSE Recalc(s, today)
<1>1. /\ r \in InvoiceRow /\ today \in Day /\ pen \in Nat /\ disc \in Nat
      /\ RowAddsUp(r) /\ RowTruthful(r, today) /\ r.status # "CANCELLED"
  BY BillingAssumption DEF IInv, TypeOK, ChargesAddUp, StatusTruthful, AdjustInvoice
<1>2. invoices' = [invoices EXCEPT ![i] = n] /\ ledger' = Post(r.tenant, i, delta)
      /\ UNCHANGED <<received, today>>
  BY DEF AdjustInvoice
<1>3. delta \in Int /\ delta = (pen - r.penalties) - (disc - r.discounts)
  BY <1>1 DEF InvoiceRow
<1>4. /\ s \in InvoiceRow
      /\ s.tenant = r.tenant /\ s.status = r.status /\ s.balance = r.balance + delta
      /\ RowAddsUp(s)
      /\ delta = 0 => RowTruthful(s, today)
  <2> HIDE DEF delta, r
  <2>0. s \in InvoiceRow
    BY <1>1, <1>3, AdjustedRow
  <2>1. /\ s.tenant = r.tenant /\ s.status = r.status /\ s.due = r.due
        /\ s.charges = r.charges /\ s.penalties = pen /\ s.discounts = disc
        /\ s.total = r.total + delta /\ s.paid = r.paid /\ s.balance = r.balance + delta
    BY <1>1, <1>3 DEF InvoiceRow
  <2> HIDE DEF s
  <2>2. RowAddsUp(s)
    BY <1>1, <1>3, <2>1 DEF InvoiceRow, RowAddsUp
  <2>3. delta = 0 => RowTruthful(s, today)
    BY <1>1, <2>1 DEF InvoiceRow, RowTruthful
  <2> QED BY <2>0, <2>1, <2>2, <2>3
<1> HIDE DEF s, delta, r
<1>5. /\ n \in InvoiceRow /\ RowAddsUp(n) /\ RowTruthful(n, today)
      /\ n.tenant = r.tenant /\ n.status # "CANCELLED" /\ n.balance = r.balance + delta
  <2>1. CASE delta = 0
    BY <2>1, <1>1, <1>4
  <2>2. CASE delta # 0
    BY <2>2, <1>1, <1>4, RecalcFrame, RecalcTruthful DEF RowAddsUp
  <2> QED BY <2>1, <2>2
<1> HIDE DEF n
<1>6. NetPosted(n) = NetPosted(r) + delta
  BY <1>1, <1>5 DEF NetPosted
<1> QED BY <1>2, <1>3, <1>5, <1>6, OneRowKeeps DEF r

\* Cancelling keeps IInv: what is written off leaves row and ledger together.
LEMMA CancelInvoiceKeeps ==
  ASSUME IInv, NEW i \in Issued, CancelInvoice(i)
  PROVE  IInv'
<1> DEFINE r == invoices[i]
           s == [r EXCEPT !.balance = 0, !.status = "CANCELLED"]
           amount == IF r.balance > 0 THEN -r.balance ELSE 0
<1>1. /\ r \in InvoiceRow /\ today \in Day /\ RowAddsUp(r) /\ i \in Tag
      /\ ledger \in [Tenant -> [Tag -> Int]]
  BY DEF IInv, TypeOK, ChargesAddUp, Tag
<1>2. invoices' = [invoices EXCEPT ![i] = s] /\ UNCHANGED <<received, today>>
  BY <1>1 DEF CancelInvoice, InvoiceRow, IInv, TypeOK
<1>3. ledger' = Post(r.tenant, i, amount)
  <2>1. r.balance \in Int /\ r.tenant \in Tenant
    BY <1>1 DEF InvoiceRow
  <2>2. CASE r.balance > 0
    BY <2>2 DEF CancelInvoice
  <2>3. CASE ~(r.balance > 0)
    <3>1. ledger' = ledger /\ amount = 0
      BY <2>3 DEF CancelInvoice
    <3>2. ledger[r.tenant][i] + 0 = ledger[r.tenant][i]
      BY <1>1, <2>1
    <3> QED BY <1>1, <2>1, <3>1, <3>2 DEF Post
  <2> QED BY <2>2, <2>3
<1>4. /\ s \in InvoiceRow /\ amount \in Int /\ s.tenant = r.tenant
      /\ RowAddsUp(s) /\ RowTruthful(s, today) /\ s.status = "CANCELLED"
  <2> HIDE DEF r, amount
  <2>0. s \in InvoiceRow
    BY <1>1, CancelledRow
  <2>1. /\ s.tenant = r.tenant /\ s.status = "CANCELLED"
        /\ s.balance = 0 /\ s.total = r.total /\ s.charges = r.charges
        /\ s.penalties = r.penalties /\ s.discounts = r.discounts
    BY <1>1 DEF InvoiceRow
  <2>2. amount \in Int
    BY <1>1 DEF InvoiceRow, amount
  <2> HIDE DEF s
  <2>3. RowAddsUp(s)
    BY <1>1, <2>1 DEF RowAddsUp
  <2>4. RowTruthful(s, today)
    BY <2>1 DEF RowTruthful, Outstanding
  <2> QED BY <2>0, <2>1, <2>2, <2>3, <2>4
<1>5. NetPosted(s) = NetPosted(r) + amount
  <2>1. /\ s.status = "CANCELLED" /\ s.total = r.total /\ s.paid = r.paid
    BY <1>1 DEF InvoiceRow
  <2>2. r.total \in Int /\ r.paid \in Nat /\ r.balance \in Int
    BY <1>1 DEF InvoiceRow
  <2> QED BY <1>1, <2>1, <2>2 DEF NetPosted, RowAddsUp
<1> HIDE DEF s, amount
<1> QED BY <1>2, <1>3, <1>4, <1>5, OneRowKeeps

----------------------------------------------------------------------------
(* Payments.                                                               *)

\* The loop of allocate_payment applies to each invoice it visits an amount
\* between zero and its balance, nothing where nothing is due, and never hands
\* out more than it has left.
LEMMA LoopBounds ==
  ASSUME TypeOK, NEW a \in Amounts, NEW pool \in SUBSET Issued,
         NEW pos \in OldestFirst(pool), NEW left \in LoopRuns(pool, pos, a)
  PROVE  /\ left[Cardinality(pool)] \in Nat
         /\ \A i \in pool : LET x == left[pos[i] - 1] - left[pos[i]] IN
              x \in Nat /\ (x > 0 => x <= invoices[i].balance)
<1>1. Cardinality(pool) \in Nat
  BY BillingAssumption, FS_Subset, FS_CardinalityType DEF TypeOK
<1>2. a \in Nat
  BY BillingAssumption
<1>3. /\ left \in [0 .. Cardinality(pool) -> 0 .. a]
      /\ \A i \in pool :
           left[pos[i]] = left[pos[i] - 1] - Applied(left[pos[i] - 1], invoices[i].balance)
  BY DEF LoopRuns
<1>4. left[Cardinality(pool)] \in Nat
  BY <1>1, <1>2, <1>3
<1>5. ASSUME NEW i \in pool
      PROVE  LET x == left[pos[i] - 1] - left[pos[i]] IN
             x \in Nat /\ (x > 0 => x <= invoices[i].balance)
  <2>1. pos[i] \in 1 .. Cardinality(pool)
    BY DEF OldestFirst
  <2>2. left[pos[i] - 1] \in Nat /\ left[pos[i]] \in Nat
    BY <1>1, <1>2, <1>3, <2>1
  <2>3. invoices[i].balance \in Int
    BY DEF TypeOK, InvoiceRow
  <2>4. left[pos[i]] = left[pos[i] - 1] - Applied(left[pos[i] - 1], invoices[i].balance)
    BY <1>3
  <2> QED BY <2>2, <2>3, <2>4 DEF Applied
<1> QED BY <1>4, <1>5

\* Applying to each invoice at most its balance, as credits of the payer, and
\* the rest as an unallocated credit, keeps IInv.
LEMMA SettleKeeps ==
  ASSUME IInv, NEW t \in Tenant, NEW pool \in SUBSET Issued,
         NEW app \in [pool -> Nat], \A i \in pool : app[i] > 0 => app[i] <= invoices[i].balance,
         NEW rest \in Nat,
         Settle(t, app, rest), received' \in [Tenant -> Nat], UNCHANGED today
  PROVE  IInv'
<1> USE DEF IInv
<1>1. /\ Issued' = Issued /\ Issued \subseteq InvoiceId /\ InvoiceId \subseteq Tag
      /\ NoInvoice \notin pool /\ NoInvoice \in Tag /\ today \in Day
  BY BillingAssumption DEF Settle, Issued, TypeOK, Tag
<1>2. \A i \in Issued : ~(i \in pool /\ app[i] > 0) => invoices'[i] = invoices[i]
  BY DEF Settle
<1>3. ASSUME NEW i \in pool, app[i] > 0
      PROVE  /\ invoices'[i] \in InvoiceRow
             /\ RowAddsUp(invoices'[i]) /\ RowTruthful(invoices'[i], today)
             /\ invoices'[i].tenant = invoices[i].tenant
             /\ invoices'[i].status # "CANCELLED" /\ invoices[i].status # "CANCELLED"
             /\ invoices'[i].balance = invoices[i].balance - app[i]
  <2> DEFINE r == invoices[i]
             x == app[i]
             s == [r EXCEPT !.paid = @ + x, !.balance = @ - x]
  <2>1. invoices'[i] = Recalc(s, today)
    BY <1>3 DEF Settle
  <2>2. r \in InvoiceRow /\ RowAddsUp(r) /\ x \in Nat /\ x > 0 /\ x <= r.balance
    BY <1>3 DEF TypeOK, ChargesAddUp
  <2> HIDE DEF r, x
  <2>3. r.status # "CANCELLED"
    BY <2>2 DEF RowAddsUp, InvoiceRow
  <2>4. s \in InvoiceRow
    BY <2>2, PaidRow
  <2>5. /\ s.tenant = r.tenant /\ s.status = r.status /\ s.charges = r.charges
        /\ s.penalties = r.penalties /\ s.discounts = r.discounts /\ s.total = r.total
        /\ s.paid = r.paid + x /\ s.balance = r.balance - x
    BY <2>2 DEF InvoiceRow
  <2> HIDE DEF s
  <2>6. RowAddsUp(s)
    BY <2>2, <2>3, <2>5 DEF RowAddsUp, InvoiceRow
  <2>7. /\ Recalc(s, today) \in InvoiceRow
        /\ RowAddsUp(Recalc(s, today)) /\ RowTruthful(Recalc(s, today), today)
        /\ Recalc(s, today).tenant = r.tenant
        /\ Recalc(s, today).status # "CANCELLED"
        /\ Recalc(s, today).balance = r.balance - x
    BY <1>1, <2>3, <2>4, <2>5, <2>6, RecalcFrame, RecalcTruthful DEF RowAddsUp
  <2> QED BY <2>1, <2>3, <2>7 DEF r, x
<1>4. \A u \in Tenant, g \in Tag :
        ledger'[u][g] = IF u # t THEN ledger[u][g]
                        ELSE IF g = NoInvoice THEN ledger[u][g] - rest
                        ELSE IF g \in pool THEN ledger[u][g] - app[g]
                        ELSE ledger[u][g]
  BY DEF Settle, TypeOK
<1>5. TypeOK'
  <2>1. invoices' \in [Issued' -> InvoiceRow]
    <3>1. \A i \in Issued : invoices'[i] \in InvoiceRow
      BY <1>2, <1>3 DEF TypeOK
    <3> QED BY <3>1, <1>1 DEF Settle
  <2>2. ledger' \in [Tenant -> [Tag -> Int]]
    <3>1. /\ ledger' = [ledger EXCEPT ![t] = ledger'[t]] /\ DOMAIN ledger'[t] = Tag
          /\ ledger'[t] = [g \in Tag |-> ledger'[t][g]]
      BY DEF Settle, TypeOK
    <3>2. \A g \in Tag : ledger[t][g] \in Int
      BY DEF TypeOK
    <3>3. \A g \in Tag : ledger'[t][g] \in Int
      BY <1>4, <3>2
    <3>4. ledger'[t] \in [Tag -> Int]
      BY <3>1, <3>3
    <3> QED BY <3>1, <3>4 DEF TypeOK
  <2> QED BY <2>1, <2>2, <1>1 DEF TypeOK
<1>6. ChargesAddUp'
  BY <1>1, <1>2, <1>3 DEF ChargesAddUp
<1>7. StatusTruthful'
  BY <1>1, <1>2, <1>3 DEF StatusTruthful
<1>8. LedgerMatchesInvoices'
  <2> SUFFICES ASSUME NEW u \in Tenant
               PROVE  (ledger[u][NoInvoice] <= 0 /\ \A j \in InvoiceId : LedgerRow(u, j))'
    BY DEF LedgerMatchesInvoices
  <2>1. ledger'[u][NoInvoice] <= 0
    <3>1. ledger[u][NoInvoice] <= 0 /\ ledger[u][NoInvoice] \in Int
      BY <1>1 DEF LedgerMatchesInvoices, TypeOK
    <3> QED BY <3>1, <1>1, <1>4
  <2>2. ASSUME NEW j \in InvoiceId PROVE LedgerRow(u, j)'
    <3>1. LedgerRow(u, j) /\ j \in Tag /\ ledger[u][j] \in Int
      BY <1>1 DEF LedgerMatchesInvoices, TypeOK
    <3>2. CASE j \in pool /\ app[j] > 0
      <4>1. /\ ledger'[t][j] = ledger[t][j] - app[j]
            /\ \A v \in Tenant \ {t} : ledger'[v][j] = ledger[v][j]
        BY <3>1, <3>2, <1>1, <1>4
      <4>2. /\ app[j] \in Nat /\ ledger[t][j] \in Int
            /\ LedgerRow(t, j) /\ j \in Issued /\ j \in Issued'
        BY <3>1, <3>2, <1>1 DEF LedgerMatchesInvoices, TypeOK
      <4>3. /\ NetPosted(invoices'[j]) = NetPosted(invoices[j]) - app[j]
            /\ NetPosted(invoices[j]) \in Int
            /\ invoices'[j].tenant = invoices[j].tenant
        BY <3>2, <1>3 DEF NetPosted, TypeOK, InvoiceRow
      <4>4. CASE u = t
        BY <3>1, <4>1, <4>2, <4>3, <4>4 DEF LedgerRow
      <4>5. CASE u # t /\ invoices[j].tenant # u
        BY <3>1, <4>1, <4>2, <4>3, <4>5 DEF LedgerRow
      <4>6. CASE u # t /\ invoices[j].tenant = u
        <5>1. ledger'[t][j] < 0
          BY <3>2, <4>1, <4>2, <4>6 DEF LedgerRow
        <5>2. ledger'[u][j] >= NetPosted(invoices'[j])
          BY <3>1, <3>2, <4>1, <4>2, <4>3, <4>6 DEF LedgerRow
        <5> QED BY <4>2, <4>3, <4>6, <5>1, <5>2 DEF LedgerRow
      <4> QED BY <4>4, <4>5, <4>6
    <3>3. CASE ~(j \in pool /\ app[j] > 0)
      <4>1. \A v \in Tenant : ledger'[v][j] = ledger[v][j]
        <5>1. j \in pool => app[j] = 0
          BY <3>3
        <5>2. \A v \in Tenant : ledger[v][j] \in Int
          BY <3>1 DEF TypeOK
        <5> QED BY <5>1, <5>2, <3>1, <1>4, BillingAssumption
      <4> QED BY <3>1, <3>3, <4>1, <1>1, <1>2 DEF LedgerRow
    <3> QED BY <3>2, <3>3
  <2> QED BY <2>1, <2>2
<1> QED BY <1>5, <1>6, <1>7, <1>8

\* A payment keeps IInv, whichever invoice it names.
LEMMA RecordPaymentKeeps ==
  ASSUME IInv, NEW t \in Tenant, NEW a \in Amounts, NEW target \in InvoiceId \cup {NoInvoice},
         RecordPayment(t, a, target)
  PROVE  IInv'
<1> DEFINE pool == Pool(t, target)
<1>1. pool \in SUBSET Issued
  BY DEF RecordPayment, Pool
<1>0. PICK pos \in OldestFirst(pool) : \E left \in LoopRuns(pool, pos, a) :
        Settle(t, [i \in pool |-> left[pos[i] - 1] - left[pos[i]]], left[Cardinality(pool)])
  BY DEF RecordPayment
<1>3. PICK left \in LoopRuns(pool, pos, a) :
        Settle(t, [i \in pool |-> left[pos[i] - 1] - left[pos[i]]], left[Cardinality(pool)])
  BY <1>0
<1>4. received' \in [Tenant -> Nat] /\ UNCHANGED today
  BY BillingAssumption DEF RecordPayment, IInv, TypeOK
<1> DEFINE app == [i \in pool |-> left[pos[i] - 1] - left[pos[i]]]
<1> HIDE DEF pool
<1>5. /\ left[Cardinality(pool)] \in Nat
      /\ \A i \in pool : LET x == left[pos[i] - 1] - left[pos[i]] IN
           x \in Nat /\ (x > 0 => x <= invoices[i].balance)
  BY <1>1, LoopBounds DEF IInv
<1>6. app \in [pool -> Nat] /\ \A i \in pool : app[i] > 0 => app[i] <= invoices[i].balance
  BY <1>5
<1>7. Settle(t, app, left[Cardinality(pool)])
  BY <1>3
<1> HIDE DEF app
<1> QED BY <1>1, <1>4, <1>5, <1>6, <1>7, SettleKeeps

----------------------------------------------------------------------------
(* The theorems.                                                           *)

\* The overdue refresh and the change of day keep IInv.
LEMMA RefreshOverdueKeeps ==
  ASSUME IInv, RefreshOverdue
  PROVE  IInv'
<1> USE DEF IInv
<1> DEFINE stale(i) == invoices[i].status \in {"GENERATED", "PARTIALLY_PAID"} /\ invoices[i].due < today
<1>1. /\ Issued' = Issued /\ UNCHANGED <<ledger, received, today>>
      /\ \A i \in Issued :
           invoices'[i] = IF stale(i) THEN [invoices[i] EXCEPT !.status = "OVERDUE"] ELSE invoices[i]
  BY DEF RefreshOverdue, Issued
<1>2. ASSUME NEW i \in Issued
      PROVE  /\ invoices'[i] \in InvoiceRow
             /\ RowAddsUp(invoices'[i]) /\ RowTruthful(invoices'[i], today)
             /\ invoices'[i].tenant = invoices[i].tenant
             /\ NetPosted(invoices'[i]) = NetPosted(invoices[i])
  <2> DEFINE r == invoices[i]
  <2>1. r \in InvoiceRow /\ RowAddsUp(r) /\ RowTruthful(r, today)
    BY DEF TypeOK, ChargesAddUp, StatusTruthful
  <2> QED BY <1>1, <2>1
          DEF InvoiceRow, InvoiceStatus, Outstanding, RowAddsUp, RowTruthful, NetPosted
<1>3. TypeOK'
  BY <1>1, <1>2 DEF TypeOK, RefreshOverdue
<1>4. ChargesAddUp' /\ StatusTruthful'
  BY <1>1, <1>2 DEF ChargesAddUp, StatusTruthful
<1>5. LedgerMatchesInvoices'
  BY <1>1, <1>2 DEF LedgerMatchesInvoices, LedgerRow, TypeOK
<1> QED BY <1>3, <1>4, <1>5

\* An empty database satisfies IInv.
LEMMA InitEstablishes == Init => IInv
<1> SUFFICES ASSUME Init PROVE IInv
  OBVIOUS
<1>1. Issued = {}
  BY DEF Init, Issued
<1>2. TypeOK
  BY <1>1, BillingAssumption DEF Init, TypeOK, Issued, Day
<1>3. ChargesAddUp /\ StatusTruthful
  BY <1>1 DEF ChargesAddUp, StatusTruthful
<1>4. LedgerMatchesInvoices
  BY <1>1 DEF Init, LedgerMatchesInvoices, LedgerRow, Tag
<1> QED BY <1>2, <1>3, <1>4 DEF IInv

\* Every step keeps IInv.
LEMMA NextKeeps == IInv /\ [Next]_vars => IInv'
<1> SUFFICES ASSUME IInv, [Next]_vars PROVE IInv'
  OBVIOUS
<1>1. CASE \E i \in InvoiceId, t \in Tenant, l \in Lease \cup {NoLease}, p \in Period,
              d \in Day, c \in Charges, pen \in Extras, disc \in Extras :
             CreateInvoice(i, t, l, p, d, c, pen, disc)
  BY <1>1, CreateInvoiceKeeps
<1>2. CASE \E active \in SUBSET Lease, p \in Period, d \in Day, c \in Charges :
             GenerateMonthly(active, p, d, c)
  BY <1>2, GenerateMonthlyKeeps
<1>3. CASE \E i \in Issued, pen \in Extras, disc \in Extras : AdjustInvoice(i, pen, disc)
  BY <1>3, AdjustInvoiceKeeps
<1>4. CASE \E i \in Issued : CancelInvoice(i)
  BY <1>4, CancelInvoiceKeeps
<1>5. CASE RefreshOverdue
  BY <1>5, RefreshOverdueKeeps
<1>6. CASE \E t \in Tenant, a \in Amounts, target \in InvoiceId \cup {NoInvoice} :
             RecordPayment(t, a, target)
  BY <1>6, RecordPaymentKeeps
<1>7. CASE NextDay
  <2>1. Issued' = Issued /\ UNCHANGED <<invoices, ledger, received>> /\ today' = today + 1
    BY <1>7 DEF NextDay, Issued
  <2>2. TypeOK'
    BY <1>7, <2>1, BillingAssumption DEF NextDay, IInv, TypeOK, Day
  <2>3. ChargesAddUp' /\ LedgerMatchesInvoices'
    BY <2>1 DEF IInv, ChargesAddUp, LedgerMatchesInvoices, LedgerRow
  <2>4. StatusTruthful'
    BY <2>1 DEF IInv, StatusTruthful, RowTruthful, TypeOK, InvoiceRow, Day
  <2> QED BY <2>2, <2>3, <2>4 DEF IInv
<1>8. CASE UNCHANGED vars
  BY <1>8 DEF vars, IInv, TypeOK, ChargesAddUp, StatusTruthful, LedgerMatchesInvoices,
              LedgerRow, Issued
<1> QED BY <1>1, <1>2, <1>3, <1>4, <1>5, <1>6, <1>7, <1>8 DEF Next

\* The inductive invariant holds in every reachable state.
THEOREM Invariance == Spec => []IInv
BY InitEstablishes, NextKeeps, PTL DEF Spec

\* Every column keeps its type: no invoice is left in DRAFT, no paid amount is
\* negative (models/billing.py).
THEOREM TypeCorrect == Spec => []TypeOK
BY Invariance, PTL DEF IInv

\* total, paid and balance of every invoice agree after any mix of charges,
\* payments, adjustments and cancellations (billing_service.py).
THEOREM InvoicesAddUp == Spec => []ChargesAddUp
BY Invariance, PTL DEF IInv

\* No status lies: money due is always visible to allocate_payment's query, and
\* PAID means paid (recalc_invoice_status).
THEOREM StatusesAreTruthful == Spec => []StatusTruthful
BY Invariance, PTL DEF IInv

\* The ledger rows posted for an invoice sum to its balance
\* (ledger_service.post_ledger_entry and its callers).
THEOREM LedgerReconciles == Spec => []LedgerMatchesInvoices
BY Invariance, PTL DEF IInv

----------------------------------------------------------------------------
(* Cancelled invoices.                                                     *)

\* The row of an invoice as a cancelled one must be left.
Frozen(i) ==
  /\ invoices'[i].status = "CANCELLED"
  /\ invoices'[i].total = invoices[i].total
  /\ invoices'[i].paid = invoices[i].paid
  /\ invoices'[i].balance = 0

\* Issuing leaves the invoices that were there alone.
LEMMA InsertLeavesOld ==
  ASSUME NEW i \in Issued, NEW new, DOMAIN new \subseteq InvoiceId \ Issued, Insert(new)
  PROVE  invoices'[i] = invoices[i]
BY DEF Insert, Issued

\* A payment leaves alone an invoice with nothing due.
LEMMA PaymentLeavesSettled ==
  ASSUME TypeOK, NEW t \in Tenant, NEW a \in Amounts, NEW target \in InvoiceId \cup {NoInvoice},
         RecordPayment(t, a, target), NEW i \in Issued, invoices[i].balance = 0
  PROVE  invoices'[i] = invoices[i]
<1> DEFINE pool == Pool(t, target)
<1>1. pool \in SUBSET Issued
  BY DEF RecordPayment, Pool
<1>2. PICK pos \in OldestFirst(pool) : \E left \in LoopRuns(pool, pos, a) :
        Settle(t, [j \in pool |-> left[pos[j] - 1] - left[pos[j]]], left[Cardinality(pool)])
  BY DEF RecordPayment
<1>3. PICK left \in LoopRuns(pool, pos, a) :
        Settle(t, [j \in pool |-> left[pos[j] - 1] - left[pos[j]]], left[Cardinality(pool)])
  BY <1>2
<1> HIDE DEF pool
<1>4. \A j \in pool : LET x == left[pos[j] - 1] - left[pos[j]] IN
        x \in Nat /\ (x > 0 => x <= invoices[j].balance)
  BY <1>1, LoopBounds
<1>5. i \in pool => ~(left[pos[i] - 1] - left[pos[i]] > 0)
  BY <1>4
<1> QED BY <1>3, <1>5 DEF Settle

\* A cancelled invoice stays cancelled and nothing is charged or paid on it
\* (adjust_invoice refuses it; allocate_payment finds no balance on it).
THEOREM CancelledInvoicesAreFinal == Spec => CancelledIsFinal
<1>1. ASSUME IInv, [Next]_vars, NEW i \in Issued, invoices[i].status = "CANCELLED"
      PROVE  Frozen(i)
  <2> USE DEF Frozen
  <2>0. invoices[i].balance = 0 /\ invoices[i] \in InvoiceRow
    BY <1>1 DEF IInv, ChargesAddUp, RowAddsUp, TypeOK
  <2>1. CASE \E j \in InvoiceId, t \in Tenant, l \in Lease \cup {NoLease}, p \in Period,
                d \in Day, c \in Charges, pen \in Extras, disc \in Extras :
               CreateInvoice(j, t, l, p, d, c, pen, disc)
    <3>1. PICK j \in InvoiceId, t \in Tenant, l \in Lease \cup {NoLease}, p \in Period,
                d \in Day, c \in Charges, pen \in Extras, disc \in Extras :
               CreateInvoice(j, t, l, p, d, c, pen, disc)
      BY <2>1
    <3> DEFINE new == [k \in {j} |-> NewRow(t, l, p, d, c, pen, disc, FALSE)]
    <3>2. DOMAIN new \subseteq InvoiceId \ Issued /\ Insert(new)
      BY <3>1 DEF CreateInvoice
    <3> HIDE DEF new
    <3> QED BY <1>1, <2>0, <3>2, InsertLeavesOld
  <2>2. CASE \E active \in SUBSET Lease, p \in Period, d \in Day, c \in Charges :
               GenerateMonthly(active, p, d, c)
    <3>1. PICK active \in SUBSET Lease, p \in Period, d \in Day, c \in Charges :
               GenerateMonthly(active, p, d, c)
      BY <2>2
    <3> DEFINE billed == Billable(active, p)
    <3>2. PICK id \in [billed -> InvoiceId \ Issued] :
            Insert([k \in {id[l] : l \in billed} |->
              LET l == CHOOSE m \in billed : id[m] = k
              IN  NewRow(LeaseTenant[l], l, p, d, LeaseRent[l] + c, 0, 0, TRUE)])
      BY <3>1 DEF GenerateMonthly
    <3> DEFINE new == [k \in {id[l] : l \in billed} |->
              LET l == CHOOSE m \in billed : id[m] = k
              IN  NewRow(LeaseTenant[l], l, p, d, LeaseRent[l] + c, 0, 0, TRUE)]
    <3>3. DOMAIN new \subseteq InvoiceId \ Issued /\ Insert(new)
      BY <3>2
    <3> HIDE DEF new
    <3> QED BY <1>1, <2>0, <3>3, InsertLeavesOld
  <2>3. CASE \E j \in Issued, pen \in Extras, disc \in Extras : AdjustInvoice(j, pen, disc)
    BY <1>1, <2>0, <2>3 DEF AdjustInvoice, IInv, TypeOK
  <2>4. CASE \E j \in Issued : CancelInvoice(j)
    <3>1. PICK j \in Issued : CancelInvoice(j)
      BY <2>4
    <3>2. CASE j = i
      BY <1>1, <2>0, <3>1, <3>2 DEF CancelInvoice, IInv, TypeOK, InvoiceRow
    <3>3. CASE j # i
      BY <1>1, <2>0, <3>1, <3>3 DEF CancelInvoice, IInv, TypeOK
    <3> QED BY <3>2, <3>3
  <2>5. CASE RefreshOverdue
    BY <1>1, <2>0, <2>5 DEF RefreshOverdue
  <2>6. CASE \E t \in Tenant, a \in Amounts, target \in InvoiceId \cup {NoInvoice} :
               RecordPayment(t, a, target)
    BY <1>1, <2>0, <2>6, PaymentLeavesSettled DEF IInv
  <2>7. CASE NextDay \/ UNCHANGED vars
    BY <1>1, <2>0, <2>7 DEF NextDay, vars
  <2> QED BY <1>1, <2>1, <2>2, <2>3, <2>4, <2>5, <2>6, <2>7 DEF Next
<1>2. IInv /\ [Next]_vars =>
        [\A i \in Issued : invoices[i].status = "CANCELLED" =>
           /\ invoices'[i].status = "CANCELLED"
           /\ invoices'[i].total = invoices[i].total
           /\ invoices'[i].paid = invoices[i].paid
           /\ invoices'[i].balance = 0]_vars
  BY <1>1 DEF Frozen
<1> QED BY <1>2, Invariance, PTL DEF Spec, CancelledIsFinal
----------------------------------------------------------------------------
(* No lease is billed twice by the monthly run.                            *)

\* What an invoice was issued for.
IssuedFor(r, l, p, m) == r.lease = l /\ r.period = p /\ r.monthly = m
SameOrigin(r, s) == s.lease = r.lease /\ s.period = r.period /\ s.monthly = r.monthly

\* No invoice appears and none is turned into one for something else.
OriginsStay == Issued' = Issued /\ \A i \in Issued : SameOrigin(invoices[i], invoices'[i])

\* Where no row changes its origin, MonthlyOnce stays.
LEMMA OriginsKeepOnce ==
  ASSUME MonthlyOnce, OriginsStay
  PROVE  MonthlyOnce'
BY DEF MonthlyOnce, OriginsStay, SameOrigin

\* The origin of a fresh row is what create_invoice was given.
LEMMA NewRowOrigin ==
  ASSUME NEW t \in Tenant, NEW l \in Lease \cup {NoLease}, NEW p \in Period, NEW d \in Day,
         NEW c \in Nat, NEW pen \in Nat, NEW disc \in Nat, NEW m \in BOOLEAN,
         today \in Day
  PROVE  IssuedFor(NewRow(t, l, p, d, c, pen, disc, m), l, p, m)
<1> DEFINE b == [tenant |-> t, lease |-> l, period |-> p, due |-> d,
                 charges |-> c, penalties |-> pen, discounts |-> disc,
                 total |-> (c + pen) - disc, paid |-> 0, balance |-> (c + pen) - disc,
                 status |-> "GENERATED", monthly |-> m]
<1>1. b \in InvoiceRow
  BY DEF InvoiceRow, InvoiceStatus, Outstanding, Day
<1>2. b.lease = l /\ b.period = p /\ b.monthly = m
  OBVIOUS
<1>3. NewRow(t, l, p, d, c, pen, disc, m) = Recalc(b, today)
  BY DEF NewRow
<1> HIDE DEF b
<1> QED BY <1>1, <1>2, <1>3, RecalcFrame DEF IssuedFor

\* Inserted rows leave MonthlyOnce alone if the monthly ones among them are for
\* leases without an invoice in the period, each for another lease.
LEMMA InsertKeepsOnce ==
  ASSUME MonthlyOnce, NEW new, DOMAIN new \subseteq InvoiceId \ Issued, Insert(new),
         \A i \in DOMAIN new : new[i].monthly =>
           /\ \A j \in Issued : ~(invoices[j].lease = new[i].lease /\ invoices[j].period = new[i].period)
           /\ \A j \in DOMAIN new : new[j].lease = new[i].lease => i = j
  PROVE  MonthlyOnce'
<1>1. /\ Issued' = Issued \cup DOMAIN new
      /\ \A i \in DOMAIN new : invoices'[i] = new[i]
      /\ \A i \in Issued : invoices'[i] = invoices[i]
  BY DEF Insert, Issued
<1> QED BY <1>1 DEF MonthlyOnce

\* A manual invoice keeps MonthlyOnce: it is not a monthly one.
LEMMA CreateKeepsOnce ==
  ASSUME IInv, MonthlyOnce, NEW i \in InvoiceId, NEW t \in Tenant, NEW l \in Lease \cup {NoLease},
         NEW p \in Period, NEW d \in Day, NEW c \in Charges,
         NEW pen \in Extras, NEW disc \in Extras,
         CreateInvoice(i, t, l, p, d, c, pen, disc)
  PROVE  MonthlyOnce'
<1> DEFINE new == [j \in {i} |-> NewRow(t, l, p, d, c, pen, disc, FALSE)]
<1>1. c \in Nat /\ pen \in Nat /\ disc \in Nat /\ today \in Day
  BY BillingAssumption DEF IInv, TypeOK
<1>2. \A j \in DOMAIN new : new[j].monthly = FALSE
  <2>1. IssuedFor(NewRow(t, l, p, d, c, pen, disc, FALSE), l, p, FALSE)
    BY <1>1, NewRowOrigin
  <2> QED BY <2>1 DEF IssuedFor
<1>3. DOMAIN new \subseteq InvoiceId \ Issued /\ Insert(new)
  BY DEF CreateInvoice
<1> HIDE DEF new
<1> QED BY <1>2, <1>3, InsertKeepsOnce

\* The monthly run keeps MonthlyOnce: it skips what it finds billed.
LEMMA MonthlyKeepsOnce ==
  ASSUME IInv, MonthlyOnce, NEW active \in SUBSET Lease, NEW p \in Period, NEW d \in Day,
         NEW c \in Charges, GenerateMonthly(active, p, d, c)
  PROVE  MonthlyOnce'
<1> DEFINE billed == Billable(active, p)
<1>1. billed \subseteq Lease
  BY DEF Billable
<1>2. PICK id \in [billed -> InvoiceId \ Issued] :
        Insert([i \in {id[l] : l \in billed} |->
         LET l == CHOOSE k \in billed : id[k] = i
         IN  NewRow(LeaseTenant[l], l, p, d, LeaseRent[l] + c, 0, 0, TRUE)])
  BY DEF GenerateMonthly
<1> DEFINE lease(i) == CHOOSE k \in billed : id[k] = i
           new == [i \in {id[l] : l \in billed} |->
                     NewRow(LeaseTenant[lease(i)], lease(i), p, d, LeaseRent[lease(i)] + c, 0, 0, TRUE)]
<1>3. Insert(new) /\ DOMAIN new \subseteq InvoiceId \ Issued
  BY <1>2
<1>4. ASSUME NEW i \in DOMAIN new
      PROVE  /\ lease(i) \in billed /\ id[lease(i)] = i
             /\ new[i].lease = lease(i) /\ new[i].period = p
  <2>1. lease(i) \in billed /\ id[lease(i)] = i
    OBVIOUS
  <2> DEFINE l == lease(i)
  <2>2. /\ l \in Lease /\ LeaseTenant[l] \in Tenant /\ LeaseRent[l] + c \in Nat
        /\ today \in Day
    BY <1>1, <2>1, BillingAssumption DEF IInv, TypeOK
  <2>3. new[i] = NewRow(LeaseTenant[l], l, p, d, LeaseRent[l] + c, 0, 0, TRUE)
    OBVIOUS
  <2> HIDE DEF l, new
  <2>4. IssuedFor(NewRow(LeaseTenant[l], l, p, d, LeaseRent[l] + c, 0, 0, TRUE), l, p, TRUE)
    BY <2>2, NewRowOrigin
  <2> QED BY <2>1, <2>3, <2>4 DEF l, IssuedFor
<1> HIDE DEF new, lease
<1>5. ASSUME NEW i \in DOMAIN new
      PROVE  /\ \A j \in Issued : ~(invoices[j].lease = new[i].lease /\ invoices[j].period = new[i].period)
             /\ \A j \in DOMAIN new : new[j].lease = new[i].lease => i = j
  BY <1>4 DEF Billable
<1> QED BY <1>3, <1>5, InsertKeepsOnce

\* A payment changes no origin.
LEMMA PaymentKeepsOrigins ==
  ASSUME IInv, NEW t \in Tenant, NEW a \in Amounts, NEW target \in InvoiceId \cup {NoInvoice},
         RecordPayment(t, a, target)
  PROVE  OriginsStay
<1> DEFINE pool == Pool(t, target)
<1>1. pool \in SUBSET Issued
  BY DEF RecordPayment, Pool
<1>2. PICK pos \in OldestFirst(pool) : \E left \in LoopRuns(pool, pos, a) :
        Settle(t, [j \in pool |-> left[pos[j] - 1] - left[pos[j]]], left[Cardinality(pool)])
  BY DEF RecordPayment
<1>3. PICK left \in LoopRuns(pool, pos, a) :
        Settle(t, [j \in pool |-> left[pos[j] - 1] - left[pos[j]]], left[Cardinality(pool)])
  BY <1>2
<1> DEFINE app == [j \in pool |-> left[pos[j] - 1] - left[pos[j]]]
<1> HIDE DEF pool
<1>4. \A j \in pool : app[j] \in Nat
  <2>1. \A j \in pool : LET x == left[pos[j] - 1] - left[pos[j]] IN
          x \in Nat /\ (x > 0 => x <= invoices[j].balance)
    BY <1>1, LoopBounds DEF IInv
  <2> QED BY <2>1
<1>5. DOMAIN app = pool /\ Settle(t, app, left[Cardinality(pool)])
  BY <1>3
<1> HIDE DEF app
<1>6. ASSUME NEW i \in Issued PROVE SameOrigin(invoices[i], invoices'[i])
  <2> DEFINE r == invoices[i]  s == [r EXCEPT !.paid = @ + app[i], !.balance = @ - app[i]]
  <2>1. r \in InvoiceRow /\ today \in Day
    BY DEF IInv, TypeOK
  <2>2. invoices'[i] = IF i \in DOMAIN app /\ app[i] > 0 THEN Recalc(s, today) ELSE r
    BY <1>5 DEF Settle
  <2>3. CASE i \in pool
    <3>1. s \in InvoiceRow /\ SameOrigin(r, s)
      BY <1>4, <2>1, <2>3, PaidRow DEF InvoiceRow, SameOrigin
    <3> HIDE DEF r, s
    <3>2. SameOrigin(r, Recalc(s, today))
      BY <2>1, <3>1, RecalcFrame DEF SameOrigin
    <3> QED BY <2>2, <3>2 DEF SameOrigin, r
  <2>4. CASE i \notin pool
    BY <1>5, <2>2, <2>4 DEF SameOrigin
  <2> QED BY <2>3, <2>4
<1>7. Issued' = Issued
  BY <1>5 DEF Settle, Issued
<1> QED BY <1>6, <1>7 DEF OriginsStay

\* An adjustment changes no origin.
LEMMA AdjustKeepsOrigins ==
  ASSUME IInv, NEW i \in Issued, NEW pen \in Extras, NEW disc \in Extras,
         AdjustInvoice(i, pen, disc)
  PROVE  OriginsStay
<1> DEFINE r == invoices[i]
           delta == (pen - r.penalties) - (disc - r.discounts)
           s == [r EXCEPT !.penalties = pen, !.discounts = disc,
                          !.total = @ + delta, !.balance = @ + delta]
<1>1. r \in InvoiceRow /\ today \in Day /\ pen \in Nat /\ disc \in Nat
  BY BillingAssumption DEF IInv, TypeOK
<1>2. delta \in Int
  BY <1>1 DEF InvoiceRow
<1>3. invoices' = [invoices EXCEPT ![i] = IF delta = 0 THEN s ELSE Recalc(s, today)]
  BY DEF AdjustInvoice
<1> HIDE DEF delta
<1>4. SameOrigin(r, s)
  BY <1>1 DEF InvoiceRow, SameOrigin
<1>5. s \in InvoiceRow
  BY <1>1, <1>2, AdjustedRow
<1> HIDE DEF s
<1>6. SameOrigin(r, Recalc(s, today))
  BY <1>1, <1>4, <1>5, RecalcFrame DEF SameOrigin
<1> QED BY <1>3, <1>4, <1>6 DEF OriginsStay, SameOrigin, Issued, IInv, TypeOK

\* A lease is billed at most once a period by the monthly run, for any number of
\* runs, leases and periods (generate_monthly_invoices).
THEOREM LeasesBilledOnce == Spec => []MonthlyOnce
<1>1. Init => MonthlyOnce
  BY DEF Init, MonthlyOnce, Issued
<1>2. ASSUME IInv, MonthlyOnce, [Next]_vars PROVE MonthlyOnce'
  <2>1. CASE \E i \in InvoiceId, t \in Tenant, l \in Lease \cup {NoLease}, p \in Period,
                d \in Day, c \in Charges, pen \in Extras, disc \in Extras :
               CreateInvoice(i, t, l, p, d, c, pen, disc)
    BY <1>2, <2>1, CreateKeepsOnce
  <2>2. CASE \E active \in SUBSET Lease, p \in Period, d \in Day, c \in Charges :
               GenerateMonthly(active, p, d, c)
    BY <1>2, <2>2, MonthlyKeepsOnce
  <2>3. CASE \E i \in Issued, pen \in Extras, disc \in Extras : AdjustInvoice(i, pen, disc)
    BY <1>2, <2>3, AdjustKeepsOrigins, OriginsKeepOnce
  <2>4. CASE \E i \in Issued : CancelInvoice(i)
    <3>1. PICK i \in Issued : CancelInvoice(i)
      BY <2>4
    <3>2. invoices[i] \in InvoiceRow /\ invoices \in [Issued -> InvoiceRow]
      BY <1>2 DEF IInv, TypeOK
    <3>3. invoices' = [invoices EXCEPT ![i] = [invoices[i] EXCEPT !.balance = 0, !.status = "CANCELLED"]]
      BY <3>1, <3>2 DEF CancelInvoice
    <3>4. SameOrigin(invoices[i], [invoices[i] EXCEPT !.balance = 0, !.status = "CANCELLED"])
      BY <3>2 DEF InvoiceRow, SameOrigin
    <3>5. OriginsStay
      BY <3>2, <3>3, <3>4 DEF OriginsStay, SameOrigin, Issued
    <3> QED BY <1>2, <3>5, OriginsKeepOnce
  <2>5. CASE RefreshOverdue
    <3>1. \A i \in Issued : invoices[i] \in InvoiceRow
      BY <1>2 DEF IInv, TypeOK
    <3>2. OriginsStay
      BY <2>5, <3>1 DEF RefreshOverdue, OriginsStay, SameOrigin, Issued, InvoiceRow
    <3> QED BY <1>2, <3>2, OriginsKeepOnce
  <2>6. CASE \E t \in Tenant, a \in Amounts, target \in InvoiceId \cup {NoInvoice} :
               RecordPayment(t, a, target)
    BY <1>2, <2>6, PaymentKeepsOrigins, OriginsKeepOnce
  <2>7. CASE NextDay \/ UNCHANGED vars
    BY <1>2, <2>7 DEF NextDay, vars, MonthlyOnce, Issued
  <2> QED BY <1>2, <2>1, <2>2, <2>3, <2>4, <2>5, <2>6, <2>7 DEF Next
<1> QED BY <1>1, <1>2, Invariance, PTL DEF Spec

----------------------------------------------------------------------------
(* The order payments are applied in.  What holds all along the loop is    *)
(* shown by its least counterexample.                                      *)

\* A set of numbers has a least element: a minimum by a well-founded relation.
LEMMA LeastBy ==
  ASSUME NEW S, S \subseteq Nat, S # {}, NEW R, IsWellFoundedOn(R, Nat),
         \A x, y \in Nat : x < y => <<x, y>> \in R
  PROVE  \E m \in S : \A k \in S : m <= k
<1>1. \E m \in S : \A k \in S : ~(<<k, m>> \in R)
  BY ONLY IsWellFoundedOn(R, Nat), S \subseteq Nat, S # {}, WFMin, Zenon
<1>2. PICK m \in S : \A k \in S : ~(<<k, m>> \in R)
  BY <1>1
<1>3. ASSUME NEW k \in S PROVE m <= k
  <2>1. m \in Nat /\ k \in Nat /\ ~(<<k, m>> \in R)
    BY <1>2
  <2>2. k < m => <<k, m>> \in R
    BY <2>1
  <2> QED BY <2>1, <2>2
<1> QED BY <1>2, <1>3

\* A set of numbers has a least element.
LEMMA Least ==
  ASSUME NEW S, S \subseteq Nat, S # {}
  PROVE  \E m \in S : \A k \in S : m <= k
<1> DEFINE R == OpToRel(<, Nat)
<1>1. \A x, y \in Nat : x < y => <<x, y>> \in R
  BY DEF OpToRel
<1>2. IsWellFoundedOn(R, Nat)
  BY NatLessThanWellFounded
<1> HIDE DEF R
<1> QED BY <1>1, <1>2, LeastBy

\* A sequence of numbers that never grows from one to the next never grows.
LEMMA NeverGrows ==
  ASSUME NEW n \in Nat, NEW f, \A m \in 0 .. n : f[m] \in Nat,
         \A m \in 1 .. n : f[m] <= f[m - 1]
  PROVE  \A k, m \in 0 .. n : k <= m => f[m] <= f[k]
<1> SUFFICES ASSUME NEW k \in 0 .. n, NEW q \in 0 .. n, k <= q, f[q] > f[k]
             PROVE  FALSE
  OBVIOUS
<1> DEFINE S == {m \in k .. n : f[m] > f[k]}
<1>1. S \subseteq Nat /\ S # {}
  <2>1. q \in S
    OBVIOUS
  <2> QED BY <2>1
<1>2. PICK m \in S : \A i \in S : m <= i
  BY <1>1, Least
<1>3. m \in k .. n /\ f[m] > f[k] /\ m # k
  BY <1>2
<1>4. m \in 1 .. n /\ m - 1 \in k .. n /\ f[m] <= f[m - 1]
  BY <1>3
<1>5. m - 1 \in S
  BY <1>3, <1>4
<1> QED BY <1>2, <1>3, <1>5

\* The loop visits every position, and never has more left than before.
LEMMA LoopNeverGains ==
  ASSUME TypeOK, NEW a \in Amounts, NEW pool \in SUBSET Issued,
         NEW pos \in OldestFirst(pool), NEW left \in LoopRuns(pool, pos, a)
  PROVE  \A k, m \in 0 .. Cardinality(pool) : k <= m => left[m] <= left[k]
<1> DEFINE n == Cardinality(pool)
<1>1. n \in Nat /\ IsFiniteSet(pool)
  BY BillingAssumption, FS_Subset, FS_CardinalityType DEF TypeOK
<1>2. \A m \in 0 .. n : left[m] \in Nat
  BY BillingAssumption DEF LoopRuns
<1>3. \A i \in pool : left[pos[i]] <= left[pos[i] - 1]
  <2>1. \A i \in pool : LET x == left[pos[i] - 1] - left[pos[i]] IN x \in Nat
    BY LoopBounds
  <2>2. \A i \in pool : pos[i] \in 1 .. n
    BY DEF OldestFirst
  <2> QED BY <1>1, <1>2, <2>1, <2>2
<1>4. \A m \in 1 .. n : \E i \in pool : pos[i] = m
  <2>1. pos \in Injection(pool, 1 .. n)
    BY DEF OldestFirst, Injection, IsInjective
  <2>2. IsFiniteSet(1 .. n) /\ Cardinality(1 .. n) = n
    BY <1>1, FS_Interval
  <2>3. pos \in Surjection(pool, 1 .. n)
    BY <2>1, <2>2, FS_Injection
  <2> QED BY <2>3 DEF Surjection
<1>5. \A m \in 1 .. n : left[m] <= left[m - 1]
  BY <1>3, <1>4
<1> HIDE DEF n
<1> QED BY <1>1, <1>2, <1>5, NeverGrows DEF n

\* If the turn of j leaves money, j is paid up.
LEMMA PaidUp ==
  ASSUME TypeOK, NEW a \in Amounts, NEW pool \in SUBSET Issued,
         NEW pos \in OldestFirst(pool), NEW left \in LoopRuns(pool, pos, a),
         NEW j \in pool, left[pos[j]] > 0
  PROVE  \/ invoices[j].balance <= 0
         \/ left[pos[j] - 1] - left[pos[j]] = invoices[j].balance
<1>1. Cardinality(pool) \in Nat /\ a \in Nat /\ pos[j] \in 1 .. Cardinality(pool)
  BY BillingAssumption, FS_Subset, FS_CardinalityType DEF TypeOK, OldestFirst
<1>2. left[pos[j] - 1] \in Nat /\ left[pos[j]] \in Nat /\ invoices[j].balance \in Int
  BY <1>1 DEF LoopRuns, TypeOK, InvoiceRow
<1>3. left[pos[j]] = left[pos[j] - 1] - Applied(left[pos[j] - 1], invoices[j].balance)
  BY DEF LoopRuns
<1> QED BY <1>2, <1>3 DEF Applied

\* What a payment does to the balance and the paid amount of an invoice.
LEMMA SettledRow ==
  ASSUME TypeOK, NEW t, NEW pool \in SUBSET Issued, NEW app \in [pool -> Nat], NEW rest,
         Settle(t, app, rest), NEW j \in Issued
  PROVE  IF j \in pool /\ app[j] > 0
         THEN invoices'[j].balance = invoices[j].balance - app[j]
         ELSE invoices'[j] = invoices[j]
<1>1. CASE j \in pool /\ app[j] > 0
  <2> DEFINE s == [invoices[j] EXCEPT !.paid = @ + app[j], !.balance = @ - app[j]]
  <2>1. invoices'[j] = Recalc(s, today) /\ today \in Day
    BY <1>1 DEF Settle, TypeOK
  <2>2. invoices[j] \in InvoiceRow /\ app[j] \in Nat
    BY <1>1 DEF TypeOK
  <2>3. s \in InvoiceRow
    BY <2>2, PaidRow
  <2>4. s.balance = invoices[j].balance - app[j]
    BY <2>2 DEF InvoiceRow
  <2> HIDE DEF s
  <2> QED BY <1>1, <2>1, <2>3, <2>4, RecalcFrame
<1>2. CASE ~(j \in pool /\ app[j] > 0)
  BY <1>2 DEF Settle
<1> QED BY <1>1, <1>2

\* One payment goes to the oldest invoices first.
LEMMA PaymentOldestFirst ==
  ASSUME IInv, NEW t \in Tenant, NEW a \in Amounts, RecordPayment(t, a, NoInvoice)
  PROVE  /\ \A i, j \in Issued :
              /\ invoices'[i].paid > invoices[i].paid
              /\ invoices[j].tenant = t /\ invoices[j].due < invoices[i].due
              => invoices'[j].balance <= 0
         /\ ledger'[t][NoInvoice] < ledger[t][NoInvoice] =>
              \A i \in Issued : invoices[i].tenant = t => invoices'[i].balance <= 0
<1> DEFINE pool == {i \in Issued : invoices[i].tenant = t /\ invoices[i].status \in Outstanding}
           n == Cardinality(pool)
<1>1. Pool(t, NoInvoice) = pool /\ pool \in SUBSET Issued
  BY DEF Pool
<1>2. PICK pos \in OldestFirst(pool) : \E left \in LoopRuns(pool, pos, a) :
        Settle(t, [i \in pool |-> left[pos[i] - 1] - left[pos[i]]], left[n])
  BY <1>1 DEF RecordPayment
<1>3. PICK left \in LoopRuns(pool, pos, a) :
        Settle(t, [i \in pool |-> left[pos[i] - 1] - left[pos[i]]], left[n])
  BY <1>2
<1> DEFINE app == [i \in pool |-> left[pos[i] - 1] - left[pos[i]]]
<1>0. TypeOK /\ \A i \in Issued : RowAddsUp(invoices[i]) /\ RowTruthful(invoices[i], today)
      /\ invoices[i] \in InvoiceRow
  BY DEF IInv, TypeOK, ChargesAddUp, StatusTruthful
<1>4. \A i \in Issued \ pool : invoices[i].tenant = t => invoices[i].balance <= 0
  BY <1>0 DEF RowTruthful, RowAddsUp, InvoiceRow, InvoiceStatus, Outstanding
<1>5. n \in Nat /\ \A i \in pool : pos[i] \in 1 .. n
  BY BillingAssumption, <1>0, FS_Subset, FS_CardinalityType DEF TypeOK, OldestFirst
<1>6. \A i, j \in pool : invoices[j].due < invoices[i].due => pos[j] < pos[i]
  BY DEF OldestFirst
<1> HIDE DEF pool
<1>7. \A k, m \in 0 .. n : k <= m => left[m] <= left[k]
  BY <1>0, <1>1, LoopNeverGains
<1>8. \A m \in 0 .. n : left[m] \in Nat
  BY BillingAssumption DEF LoopRuns
<1>9. app \in [pool -> Nat] /\ Settle(t, app, left[n])
  <2>1. \A i \in pool : LET x == left[pos[i] - 1] - left[pos[i]] IN x \in Nat
    BY <1>0, <1>1, LoopBounds
  <2> QED BY <1>3, <2>1
<1>10. \A j \in pool : left[pos[j]] > 0 => invoices[j].balance <= 0 \/ app[j] = invoices[j].balance
  BY <1>0, <1>1, PaidUp
<1>11. \A i \in pool : app[i] > 0 => left[pos[i] - 1] > 0
  BY <1>5, <1>8
<1> HIDE DEF app, n
<1>12. \A j \in Issued : IF j \in pool /\ app[j] > 0
                         THEN invoices'[j].balance = invoices[j].balance - app[j]
                         ELSE invoices'[j] = invoices[j]
  BY <1>0, <1>1, <1>9, SettledRow
\* An invoice whose turn left money, or that had no turn, has nothing due.
<1>13. ASSUME NEW j \in Issued, invoices[j].tenant = t, j \in pool => left[pos[j]] > 0
       PROVE  invoices'[j].balance <= 0
  <2>1. invoices[j].balance \in Int
    BY <1>0 DEF InvoiceRow
  <2>2. CASE j \notin pool
    BY <1>4, <1>12, <1>13, <2>2
  <2>3. CASE j \in pool
    <3>1. app[j] \in Nat /\ (invoices[j].balance <= 0 \/ app[j] = invoices[j].balance)
      BY <1>9, <1>10, <1>13, <2>3
    <3> QED BY <1>12, <2>1, <2>3, <3>1
  <2> QED BY <2>2, <2>3
<1>14. ASSUME NEW i \in Issued, NEW j \in Issued, invoices'[i].paid > invoices[i].paid,
              invoices[j].tenant = t, invoices[j].due < invoices[i].due
       PROVE  invoices'[j].balance <= 0
  <2>1. i \in pool /\ app[i] > 0
    <3>1. invoices[i].paid \in Nat
      BY <1>0 DEF InvoiceRow
    <3> QED BY <1>12, <1>14, <3>1
  <2>2. ASSUME j \in pool PROVE left[pos[j]] > 0
    <3>1. pos[j] < pos[i] /\ pos[i] \in 1 .. n /\ pos[j] \in 1 .. n
      BY <1>5, <1>6, <1>14, <2>1, <2>2
    <3>2. left[pos[i] - 1] <= left[pos[j]] /\ left[pos[i] - 1] > 0
      BY <1>5, <1>7, <1>11, <2>1, <3>1
    <3>3. left[pos[j]] \in Nat /\ left[pos[i] - 1] \in Nat
      BY <1>5, <1>8, <3>1
    <3> QED BY <3>2, <3>3
  <2> QED BY <1>13, <1>14, <2>2
<1>15. ASSUME ledger'[t][NoInvoice] < ledger[t][NoInvoice], NEW i \in Issued, invoices[i].tenant = t
       PROVE  invoices'[i].balance <= 0
  <2>1. ledger'[t][NoInvoice] = ledger[t][NoInvoice] - left[n] /\ ledger[t][NoInvoice] \in Int
    BY <1>0, <1>9 DEF Settle, TypeOK, Tag
  <2>2. left[n] > 0 /\ left[n] \in Nat
    BY <1>5, <1>8, <1>15, <2>1
  <2>3. ASSUME i \in pool PROVE left[pos[i]] > 0
    <3>1. pos[i] \in 0 .. n /\ n \in 0 .. n /\ pos[i] <= n
      BY <1>5, <2>3
    <3>2. left[n] <= left[pos[i]] /\ left[pos[i]] \in Nat
      BY <1>7, <1>8, <3>1
    <3> QED BY <2>2, <3>2
  <2> QED BY <1>13, <1>15, <2>3
<1> QED BY <1>14, <1>15

\* A payment of any amount, over any number of invoices, pays the oldest ones
\* first and becomes credit only when none has money due (allocate_payment).
THEOREM PaymentsGoToTheOldest == Spec => OldestDueFirst
<1>1. ASSUME IInv, [Next]_vars
      PROVE  [\A t \in Tenant, a \in Amounts : RecordPayment(t, a, NoInvoice) =>
                /\ \A i, j \in Issued :
                     /\ invoices'[i].paid > invoices[i].paid
                     /\ invoices[j].tenant = t /\ invoices[j].due < invoices[i].due
                     => invoices'[j].balance <= 0
                /\ ledger'[t][NoInvoice] < ledger[t][NoInvoice] =>
                     \A i \in Issued : invoices[i].tenant = t => invoices'[i].balance <= 0]_vars
  BY <1>1, PaymentOldestFirst
<1> QED BY <1>1, Invariance, PTL DEF Spec, OldestDueFirst

----------------------------------------------------------------------------
(* Sums over finite sets.  tlapm cannot instantiate the induction theorems *)
(* of the library, which take an operator; well-foundedness of the strict   *)
(* subsets gives a set with the property and no smaller one inside.        *)

\* Of a set of subsets of a finite set one has no other inside it.
LEMMA LeastSet ==
  ASSUME NEW S, IsFiniteSet(S), NEW Bad, Bad \subseteq SUBSET S, Bad # {}
  PROVE  \E T \in Bad : \A x \in T : \A U \in SUBSET (T \ {x}) : U \notin Bad
<1> DEFINE R == StrictSubsetOrdering(S)
<1>1. IsWellFoundedOn(R, SUBSET S)
  BY FS_StrictSubsetOrderingWellFounded, FS_FiniteSubsetsOfFinite, Zenon
<1>2. PICK T \in Bad : \A U \in Bad : <<U, T>> \notin R
  <2> HIDE DEF R
  <2> QED BY ONLY <1>1, Bad \subseteq SUBSET S, Bad # {}, WFMin, Zenon
<1>3. ASSUME NEW x \in T, NEW U \in SUBSET (T \ {x}), U \in Bad PROVE FALSE
  <2>1. <<U, T>> \in R
    BY <1>3 DEF StrictSubsetOrdering
  <2> QED BY <1>2, <1>3, <2>1
<1> QED BY <1>2, <1>3

\* Induction over a finite set: a family of subsets that has the empty one and, with a set,
\* the set with one element more.
LEMMA SetInduction ==
  ASSUME NEW S, IsFiniteSet(S), NEW Good, {} \in Good,
         \A T \in SUBSET S : \A x \in S \ T : T \in Good => T \cup {x} \in Good
  PROVE  S \in Good
<1> DEFINE Bad == (SUBSET S) \ Good
<1> SUFFICES ASSUME S \notin Good PROVE FALSE
  OBVIOUS
<1>1. Bad \subseteq SUBSET S /\ Bad # {}
  OBVIOUS
<1>2. PICK T \in Bad : \A x \in T : \A U \in SUBSET (T \ {x}) : U \notin Bad
  <2> HIDE DEF Bad
  <2> QED BY <1>1, LeastSet
<1>3. PICK x \in T : TRUE
  BY <1>2
<1>4. T \ {x} \in Good /\ T \ {x} \in SUBSET S /\ x \in S \ (T \ {x})
  BY <1>2, <1>3
<1>5. (T \ {x}) \cup {x} \in Good
  BY <1>4
<1>6. (T \ {x}) \cup {x} = T
  BY <1>3
<1> QED BY <1>2, <1>5, <1>6

\* The element the fold takes first, and the table of partial sums that defines it.
First(s) == CHOOSE x \in s : TRUE
Unfold(f, it, S) == [s \in SUBSET S |-> IF s = {} THEN 0 ELSE f[First(s)] + it[s \ {First(s)}]]

\* SumFunctionOnSet is the entry of S in a table of partial sums.
LEMMA SumUnfolds ==
  ASSUME NEW f, NEW S
  PROVE  SumFunctionOnSet(f, S) = (CHOOSE it : it = Unfold(f, it, S))[S]
BY DEF SumFunctionOnSet, FoldFunctionOnSet, MapThenFoldSet, Unfold, First

\* Two tables of partial sums agree wherever both are defined.
LEMMA UnfoldUnique ==
  ASSUME NEW f, NEW S, NEW T, IsFiniteSet(T), NEW it, NEW ju,
         it = Unfold(f, it, S), ju = Unfold(f, ju, T), T \subseteq S
  PROVE  it[T] = ju[T]
<1> DEFINE Bad == {u \in SUBSET T : it[u] # ju[u]}
<1> SUFFICES ASSUME Bad # {} PROVE FALSE
  OBVIOUS
<1>1. PICK u \in Bad : \A x \in u : \A U \in SUBSET (u \ {x}) : U \notin Bad
  <2>1. Bad \subseteq SUBSET T
    OBVIOUS
  <2> HIDE DEF Bad
  <2> QED BY <2>1, LeastSet
<1>2. /\ it[u] = IF u = {} THEN 0 ELSE f[First(u)] + it[u \ {First(u)}]
      /\ ju[u] = IF u = {} THEN 0 ELSE f[First(u)] + ju[u \ {First(u)}]
  BY <1>1 DEF Unfold
<1>3. u # {} => First(u) \in u
  BY DEF First
<1>4. u # {} => u \ {First(u)} \notin Bad
  BY <1>1, <1>3
<1>5. u # {} => it[u \ {First(u)}] = ju[u \ {First(u)}]
  BY <1>1, <1>4
<1> QED BY <1>1, <1>2, <1>5

\* The table exists.
LEMMA UnfoldExists ==
  ASSUME NEW f, NEW S, IsFiniteSet(S)
  PROVE  \E it : it = Unfold(f, it, S)
<1> DEFINE Table(s) == CHOOSE it : it = Unfold(f, it, s)
           Bad == {T \in SUBSET S : ~ \E it : it = Unfold(f, it, T)}
<1> SUFFICES ASSUME S \in Bad PROVE FALSE
  OBVIOUS
<1>1. PICK T \in Bad : \A x \in T : \A U \in SUBSET (T \ {x}) : U \notin Bad
  <2>1. Bad \subseteq SUBSET S /\ Bad # {}
    OBVIOUS
  <2> HIDE DEF Bad
  <2> QED BY <2>1, LeastSet
<1>2. \A U \in SUBSET T : U # T => Table(U) = Unfold(f, Table(U), U)
  <2> SUFFICES ASSUME NEW U \in SUBSET T, U # T PROVE Table(U) = Unfold(f, Table(U), U)
    OBVIOUS
  <2>1. PICK x \in T : x \notin U
    OBVIOUS
  <2>2. U \in SUBSET (T \ {x})
    BY <2>1
  <2>3. U \in SUBSET S /\ U \notin Bad
    BY <1>1, <2>1, <2>2
  <2>4. \E it : it = Unfold(f, it, U)
    BY <2>3
  <2> QED BY <2>4
<1> DEFINE ju == [s \in SUBSET T |-> IF s = {} THEN 0
                    ELSE f[First(s)] + Table(s \ {First(s)})[s \ {First(s)}]]
<1>3. \A s \in SUBSET T : s # T => ju[s] = Table(s)[s]
  <2> SUFFICES ASSUME NEW s \in SUBSET T, s # T PROVE ju[s] = Table(s)[s]
    OBVIOUS
  <2> DEFINE r == s \ {First(s)}
  <2>1. Table(s) = Unfold(f, Table(s), s)
    BY <1>2
  <2>2. s # {} => First(s) \in s
    BY DEF First
  <2>3. Table(r) = Unfold(f, Table(r), r)
    BY <1>2, <2>2
  <2>4. r \subseteq s /\ IsFiniteSet(r)
    <3>1. IsFiniteSet(s)
      BY <1>1, FS_Subset
    <3> QED BY <3>1, FS_Subset
  <2> HIDE DEF Table, r
  <2>5. Table(s)[r] = Table(r)[r]
    BY <2>1, <2>3, <2>4, UnfoldUnique
  <2>6. Table(s)[s] = IF s = {} THEN 0 ELSE f[First(s)] + Table(s)[r]
    BY <2>1 DEF Unfold, r
  <2> QED BY <2>5, <2>6 DEF r
<1>4. ju = Unfold(f, ju, T)
  <2>1. \A s \in SUBSET T : s # {} => s \ {First(s)} \in SUBSET T /\ s \ {First(s)} # T
    BY DEF First
  <2>2. \A s \in SUBSET T : s # {} => ju[s \ {First(s)}] = Table(s \ {First(s)})[s \ {First(s)}]
    BY <1>3, <2>1
  <2> HIDE DEF Table
  <2> QED BY <2>2 DEF Unfold
<1> QED BY <1>1, <1>4

\* Taking out the element the fold takes first.
LEMMA SumTakesFirst ==
  ASSUME NEW f, NEW S, IsFiniteSet(S)
  PROVE  SumFunctionOnSet(f, S) =
           IF S = {} THEN 0 ELSE f[First(S)] + SumFunctionOnSet(f, S \ {First(S)})
<1> DEFINE Table(s) == CHOOSE it : it = Unfold(f, it, s)
           r == S \ {First(S)}
<1>1. IsFiniteSet(r) /\ r \subseteq S
  BY FS_Subset
<1>2. Table(S) = Unfold(f, Table(S), S) /\ Table(r) = Unfold(f, Table(r), r)
  <2> HIDE DEF r
  <2>1. (\E it : it = Unfold(f, it, S)) /\ \E it : it = Unfold(f, it, r)
    BY <1>1, UnfoldExists
  <2> QED BY <2>1
<1>3. SumFunctionOnSet(f, S) = Table(S)[S] /\ SumFunctionOnSet(f, r) = Table(r)[r]
  BY SumUnfolds
<1> HIDE DEF Table, r
<1>4. Table(S)[r] = Table(r)[r]
  BY <1>1, <1>2, UnfoldUnique
<1>5. Table(S)[S] = IF S = {} THEN 0 ELSE f[First(S)] + Table(S)[r]
  BY <1>2 DEF Unfold, r
<1> QED BY <1>3, <1>4, <1>5 DEF r

\* Sums of integers are integers.
LEMMA SumInt ==
  ASSUME NEW f, NEW S, IsFiniteSet(S), \A x \in S : f[x] \in Int
  PROVE  SumFunctionOnSet(f, S) \in Int
<1> DEFINE Bad == {T \in SUBSET S : SumFunctionOnSet(f, T) \notin Int}
<1> SUFFICES ASSUME S \in Bad PROVE FALSE
  OBVIOUS
<1>1. PICK T \in Bad : \A x \in T : \A U \in SUBSET (T \ {x}) : U \notin Bad
  <2>1. Bad \subseteq SUBSET S /\ Bad # {}
    OBVIOUS
  <2> HIDE DEF Bad
  <2> QED BY <2>1, LeastSet
<1>2. T # {} => First(T) \in T
  BY DEF First
<1>3. T # {} => SumFunctionOnSet(f, T \ {First(T)}) \in Int
  BY <1>1, <1>2
<1>4. IsFiniteSet(T)
  BY <1>1, FS_Subset
<1>5. T # {} => f[First(T)] \in Int
  BY <1>1, <1>2
<1>6. SumFunctionOnSet(f, T) = IF T = {} THEN 0 ELSE f[First(T)] + SumFunctionOnSet(f, T \ {First(T)})
  BY <1>4, SumTakesFirst
<1>7. SumFunctionOnSet(f, T) \notin Int
  BY <1>1
<1> QED BY <1>3, <1>5, <1>6, <1>7

\* Any element may be taken out first.
LEMMA SumTakes ==
  ASSUME NEW f, NEW S, IsFiniteSet(S), \A x \in S : f[x] \in Int, NEW x \in S
  PROVE  SumFunctionOnSet(f, S) = f[x] + SumFunctionOnSet(f, S \ {x})
<1> DEFINE sum(T) == SumFunctionOnSet(f, T)
           Bad == {T \in SUBSET S : \E y \in T : sum(T) # f[y] + sum(T \ {y})}
<1> SUFFICES ASSUME S \in Bad PROVE FALSE
  OBVIOUS
<1>1. PICK T \in Bad : \A y \in T : \A U \in SUBSET (T \ {y}) : U \notin Bad
  <2>1. Bad \subseteq SUBSET S /\ Bad # {}
    OBVIOUS
  <2> HIDE DEF Bad
  <2> QED BY ONLY IsFiniteSet(S), <2>1, LeastSet
<1>2. PICK y \in T : sum(T) # f[y] + sum(T \ {y})
  BY <1>1
<1> DEFINE z == First(T)
<1>3. z \in T
  BY <1>2 DEF First
<1>4. \A U \in SUBSET S : IsFiniteSet(U) /\ sum(U) \in Int
  BY FS_Subset, SumInt
<1>5. sum(T) = f[z] + sum(T \ {z})
  BY <1>1, <1>2, <1>4, SumTakesFirst
<1>6. y # z
  BY <1>2, <1>5
<1>7. T \ {z} \notin Bad /\ T \ {y} \notin Bad
  BY <1>1, <1>2, <1>3
<1> DEFINE rest == (T \ {z}) \ {y}
<1>8. rest = (T \ {y}) \ {z} /\ rest \in SUBSET S /\ T \ {y} \in SUBSET S
  BY <1>1
<1> HIDE DEF sum, z
<1>9. sum(T \ {z}) = f[y] + sum(rest)
  BY <1>1, <1>2, <1>6, <1>7
<1>10. sum(T \ {y}) = f[z] + sum(rest)
  BY <1>1, <1>3, <1>6, <1>7, <1>8
<1>11. f[y] \in Int /\ f[z] \in Int /\ sum(rest) \in Int
  BY <1>1, <1>2, <1>3, <1>4, <1>8
<1> QED BY <1>2, <1>5, <1>9, <1>10, <1>11

\* The sum of nothing.
LEMMA SumEmpty ==
  ASSUME NEW f
  PROVE  SumFunctionOnSet(f, {}) = 0
BY SumTakesFirst, FS_EmptySet

\* Putting one element in.
LEMMA SumPuts ==
  ASSUME NEW f, NEW S, IsFiniteSet(S), NEW x, x \notin S, \A y \in S \cup {x} : f[y] \in Int
  PROVE  SumFunctionOnSet(f, S \cup {x}) = f[x] + SumFunctionOnSet(f, S)
<1>1. IsFiniteSet(S \cup {x})
  BY FS_AddElement
<1>2. (S \cup {x}) \ {x} = S
  OBVIOUS
<1> QED BY <1>1, <1>2, SumTakes

\* Sums of functions that agree, term by term.
LEMMA SumSame ==
  ASSUME NEW f, NEW g, NEW S, IsFiniteSet(S), \A x \in S : f[x] \in Int /\ f[x] = g[x]
  PROVE  SumFunctionOnSet(f, S) = SumFunctionOnSet(g, S)
<1> DEFINE Good == {T \in SUBSET S : SumFunctionOnSet(f, T) = SumFunctionOnSet(g, T)}
<1>1. {} \in Good
  BY SumEmpty
<1>2. ASSUME NEW T \in SUBSET S, NEW x \in S \ T, T \in Good PROVE T \cup {x} \in Good
  <2>1. IsFiniteSet(T) /\ (\A y \in T \cup {x} : f[y] \in Int) /\ (\A y \in T \cup {x} : g[y] \in Int)
    BY FS_Subset
  <2>2. SumFunctionOnSet(f, T \cup {x}) = f[x] + SumFunctionOnSet(f, T)
    BY <2>1, SumPuts
  <2>3. SumFunctionOnSet(g, T \cup {x}) = g[x] + SumFunctionOnSet(g, T)
    BY <2>1, SumPuts
  <2> QED BY <1>2, <2>2, <2>3
<1>3. S \in Good
  <2> HIDE DEF Good
  <2> QED BY <1>1, <1>2, SetInduction
<1> QED BY <1>3

\* Sums add up term by term.
LEMMA SumPlus ==
  ASSUME NEW f, NEW g, NEW h, NEW S, IsFiniteSet(S),
         \A x \in S : f[x] \in Int /\ g[x] \in Int /\ h[x] = f[x] + g[x]
  PROVE  SumFunctionOnSet(h, S) = SumFunctionOnSet(f, S) + SumFunctionOnSet(g, S)
<1> DEFINE F(T) == SumFunctionOnSet(f, T)
           G(T) == SumFunctionOnSet(g, T)
           H(T) == SumFunctionOnSet(h, T)
           Good == {T \in SUBSET S : H(T) = F(T) + G(T)}
<1>1. {} \in Good
  BY SumEmpty
<1>2. ASSUME NEW T \in SUBSET S, NEW x \in S \ T, T \in Good PROVE T \cup {x} \in Good
  <2>1. /\ IsFiniteSet(T)
        /\ \A y \in T \cup {x} : f[y] \in Int
        /\ \A y \in T \cup {x} : g[y] \in Int
        /\ \A y \in T \cup {x} : h[y] \in Int
    BY FS_Subset
  <2>2. F(T \cup {x}) = f[x] + F(T) /\ F(T) \in Int
    BY <2>1, SumPuts, SumInt
  <2>3. G(T \cup {x}) = g[x] + G(T) /\ G(T) \in Int
    BY <2>1, SumPuts, SumInt
  <2>4. H(T \cup {x}) = h[x] + H(T)
    BY <2>1, SumPuts
  <2> HIDE DEF F, G, H
  <2> QED BY <1>2, <2>1, <2>2, <2>3, <2>4
<1>3. S \in Good
  <2> HIDE DEF Good
  <2> QED BY <1>1, <1>2, SetInduction
<1> QED BY <1>3

\* A sum of zeros.
LEMMA SumZero ==
  ASSUME NEW f, NEW S, IsFiniteSet(S), \A x \in S : f[x] = 0
  PROVE  SumFunctionOnSet(f, S) = 0
<1> DEFINE Good == {T \in SUBSET S : SumFunctionOnSet(f, T) = 0}
<1>1. {} \in Good
  BY SumEmpty
<1>2. ASSUME NEW T \in SUBSET S, NEW x \in S \ T, T \in Good PROVE T \cup {x} \in Good
  <2>1. IsFiniteSet(T) /\ \A y \in T \cup {x} : f[y] \in Int
    BY FS_Subset
  <2>2. SumFunctionOnSet(f, T \cup {x}) = f[x] + SumFunctionOnSet(f, T)
    BY <2>1, SumPuts
  <2> QED BY <1>2, <2>2
<1>3. S \in Good
  <2> HIDE DEF Good
  <2> QED BY <1>1, <1>2, SetInduction
<1> QED BY <1>3

\* A function that is nowhere above another has no larger sum.
LEMMA SumAtMost ==
  ASSUME NEW f, NEW g, NEW S, IsFiniteSet(S),
         \A x \in S : f[x] \in Int /\ g[x] \in Int /\ f[x] <= g[x]
  PROVE  SumFunctionOnSet(f, S) <= SumFunctionOnSet(g, S)
<1> DEFINE F(T) == SumFunctionOnSet(f, T)
           G(T) == SumFunctionOnSet(g, T)
           Good == {T \in SUBSET S : F(T) <= G(T)}
<1>1. {} \in Good
  BY SumEmpty
<1>2. ASSUME NEW T \in SUBSET S, NEW x \in S \ T, T \in Good PROVE T \cup {x} \in Good
  <2>1. /\ IsFiniteSet(T)
        /\ \A y \in T \cup {x} : f[y] \in Int
        /\ \A y \in T \cup {x} : g[y] \in Int
    BY FS_Subset
  <2>2. F(T \cup {x}) = f[x] + F(T) /\ F(T) \in Int
    BY <2>1, SumPuts, SumInt
  <2>3. G(T \cup {x}) = g[x] + G(T) /\ G(T) \in Int
    BY <2>1, SumPuts, SumInt
  <2> HIDE DEF F, G
  <2> QED BY <1>2, <2>1, <2>2, <2>3
<1>3. S \in Good
  <2> HIDE DEF Good
  <2> QED BY <1>1, <1>2, SetInduction
<1> QED BY <1>3

\* One term changed changes the sum by as much.
LEMMA SumChanges ==
  ASSUME NEW f, NEW g, NEW S, IsFiniteSet(S), NEW x \in S,
         \A y \in S : f[y] \in Int /\ g[y] \in Int, \A y \in S \ {x} : f[y] = g[y]
  PROVE  SumFunctionOnSet(g, S) = SumFunctionOnSet(f, S) + (g[x] - f[x])
<1>1. IsFiniteSet(S \ {x})
  BY FS_RemoveElement
<1>2. SumFunctionOnSet(f, S \ {x}) = SumFunctionOnSet(g, S \ {x})
      /\ SumFunctionOnSet(f, S \ {x}) \in Int
  BY <1>1, SumSame, SumInt
<1>3. SumFunctionOnSet(f, S) = f[x] + SumFunctionOnSet(f, S \ {x})
  BY SumTakes
<1>4. SumFunctionOnSet(g, S) = g[x] + SumFunctionOnSet(g, S \ {x})
  BY SumTakes
<1> QED BY <1>2, <1>3, <1>4

\* A sum over two sets apart, and one in which only the terms of one of them count.
LEMMA SumUnion ==
  ASSUME NEW f, NEW S, NEW T, IsFiniteSet(S), IsFiniteSet(T), S \cap T = {},
         \A x \in S \cup T : f[x] \in Int
  PROVE  SumFunctionOnSet(f, S \cup T) = SumFunctionOnSet(f, S) + SumFunctionOnSet(f, T)
<1> DEFINE F(U) == SumFunctionOnSet(f, U)
           Good == {U \in SUBSET T : F(S \cup U) = F(S) + F(U)}
<1>1. {} \in Good
  <2>1. S \cup {} = S /\ F(S) \in Int
    BY SumInt
  <2> QED BY <2>1, SumEmpty
<1>2. ASSUME NEW U \in SUBSET T, NEW x \in T \ U, U \in Good PROVE U \cup {x} \in Good
  <2>1. /\ IsFiniteSet(U) /\ IsFiniteSet(S \cup U)
        /\ \A y \in U \cup {x} : f[y] \in Int
        /\ \A y \in (S \cup U) \cup {x} : f[y] \in Int
        /\ x \notin S \cup U
    BY FS_Subset, FS_Union
  <2>2. F(U \cup {x}) = f[x] + F(U) /\ F(U) \in Int
    BY <2>1, SumPuts, SumInt
  <2>3. F((S \cup U) \cup {x}) = f[x] + F(S \cup U)
    BY <2>1, SumPuts
  <2>4. (S \cup U) \cup {x} = S \cup (U \cup {x})
    OBVIOUS
  <2>5. F(S) \in Int /\ f[x] \in Int
    BY SumInt
  <2> HIDE DEF F
  <2>6. F(S \cup (U \cup {x})) = F((S \cup U) \cup {x})
    BY <2>4, Zenon
  <2>7. U \cup {x} \in SUBSET T
    OBVIOUS
  <2> QED BY <1>2, <2>2, <2>3, <2>5, <2>6, <2>7
<1>3. T \in Good
  <2> HIDE DEF Good
  <2> QED BY <1>1, <1>2, SetInduction
<1> QED BY <1>3

\* Terms that are zero may be left out.
LEMMA SumRest ==
  ASSUME NEW f, NEW S, IsFiniteSet(S), NEW T \in SUBSET S,
         \A x \in T : f[x] \in Int, \A x \in S \ T : f[x] = 0
  PROVE  SumFunctionOnSet(f, S) = SumFunctionOnSet(f, T)
<1>1. IsFiniteSet(T) /\ IsFiniteSet(S \ T)
  BY FS_Subset, FS_Difference
<1>2. SumFunctionOnSet(f, S \ T) = 0 /\ SumFunctionOnSet(f, T) \in Int
  BY <1>1, SumZero, SumInt
<1>3. T \cup (S \ T) = S /\ T \cap (S \ T) = {}
  OBVIOUS
<1>4. SumFunctionOnSet(f, T \cup (S \ T)) = SumFunctionOnSet(f, T) + SumFunctionOnSet(f, S \ T)
  <2> DEFINE U == S \ T
  <2>1. IsFiniteSet(U) /\ T \cap U = {} /\ \A x \in T \cup U : f[x] \in Int
    BY <1>1
  <2> HIDE DEF U
  <2>2. SumFunctionOnSet(f, T \cup U) = SumFunctionOnSet(f, T) + SumFunctionOnSet(f, U)
    BY <1>1, <2>1, SumUnion
  <2> QED BY <2>2 DEF U
<1>5. SumFunctionOnSet(f, T \cup (S \ T)) = SumFunctionOnSet(f, S)
  BY <1>3, Zenon
<1> QED BY <1>2, <1>4, <1>5

\* A table added up by rows is the table added up by columns.
LEMMA SumTable ==
  ASSUME NEW S, NEW T, IsFiniteSet(S), IsFiniteSet(T), NEW table \in [S -> [T -> Int]],
         NEW rows, \A x \in S : rows[x] = SumFunctionOnSet(table[x], T),
         NEW column, \A y \in T, x \in S : column[y][x] = table[x][y],
         NEW cols, \A y \in T : cols[y] = SumFunctionOnSet(column[y], S)
  PROVE  SumFunctionOnSet(rows, S) = SumFunctionOnSet(cols, T)
<1> DEFINE part(U) == [y \in T |-> SumFunctionOnSet([x \in S |-> table[x][y]], U)]
           Good == {U \in SUBSET S : SumFunctionOnSet(rows, U) = SumFunctionOnSet(part(U), T)}
<1>0. \A U \in SUBSET S : IsFiniteSet(U) /\ \A y \in T : part(U)[y] \in Int
  <2> SUFFICES ASSUME NEW U \in SUBSET S, NEW y \in T
               PROVE  part(U)[y] \in Int
    <3>1. \A U \in SUBSET S : IsFiniteSet(U)
      BY FS_Subset
    <3> HIDE DEF part
    <3> QED BY <3>1
  <2>1. IsFiniteSet(U)
    BY FS_Subset
  <2> DEFINE col == [x \in S |-> table[x][y]]
  <2>2. \A x \in U : col[x] \in Int
    OBVIOUS
  <2> HIDE DEF col
  <2>3. SumFunctionOnSet(col, U) \in Int
    BY <2>1, <2>2, SumInt
  <2> QED BY <2>1, <2>3 DEF col
<1>1. {} \in Good
  <2>1. \A y \in T : part({})[y] = 0
    BY SumEmpty
  <2>2. SumFunctionOnSet(rows, {}) = 0
    BY SumEmpty
  <2> HIDE DEF part
  <2>3. SumFunctionOnSet(part({}), T) = 0
    BY <2>1, SumZero
  <2> QED BY <2>2, <2>3
<1>2. ASSUME NEW U \in SUBSET S, NEW z \in S \ U, U \in Good PROVE U \cup {z} \in Good
  <2>1. IsFiniteSet(U) /\ \A x \in U \cup {z} : rows[x] \in Int
    <3>1. \A x \in S : SumFunctionOnSet(table[x], T) \in Int
      BY SumInt
    <3> QED BY <1>0, <3>1
  <2>2. SumFunctionOnSet(rows, U \cup {z}) = rows[z] + SumFunctionOnSet(rows, U)
    BY <2>1, SumPuts
  <2>3. \A y \in T : part(U \cup {z})[y] = table[z][y] + part(U)[y]
    <3> SUFFICES ASSUME NEW y \in T PROVE part(U \cup {z})[y] = table[z][y] + part(U)[y]
      OBVIOUS
    <3> DEFINE col == [x \in S |-> table[x][y]]
    <3>1. \A x \in U \cup {z} : col[x] \in Int
      OBVIOUS
    <3>2. col[z] = table[z][y]
      OBVIOUS
    <3> HIDE DEF col
    <3>3. SumFunctionOnSet(col, U \cup {z}) = col[z] + SumFunctionOnSet(col, U)
      BY <2>1, <3>1, SumPuts
    <3> QED BY <3>2, <3>3 DEF col
  <2>4. U \cup {z} \in SUBSET S
    OBVIOUS
  <2> DEFINE V == U \cup {z}
  <2>5. \A y \in T : table[z][y] \in Int /\ part(U)[y] \in Int
    <3>1. \A y \in T : table[z][y] \in Int
      OBVIOUS
    <3> HIDE DEF part
    <3> QED BY <1>0, <3>1
  <2> HIDE DEF part
  <2>6. SumFunctionOnSet(part(V), T) = SumFunctionOnSet(table[z], T) + SumFunctionOnSet(part(U), T)
    <3> HIDE DEF V
    <3> DEFINE f == table[z]  g == part(U)  h == part(V)
    <3>1. \A y \in T : f[y] \in Int /\ g[y] \in Int /\ h[y] = f[y] + g[y]
      BY <2>3, <2>5 DEF V
    <3> HIDE DEF f, g, h
    <3>2. SumFunctionOnSet(h, T) = SumFunctionOnSet(f, T) + SumFunctionOnSet(g, T)
      BY <3>1, SumPlus
    <3> QED BY <3>2 DEF f, g, h
  <2> QED BY <1>2, <2>2, <2>4, <2>6
<1>3. S \in Good
  <2> HIDE DEF Good
  <2> QED BY <1>1, <1>2, SetInduction
<1>4. \A y \in T : part(S)[y] = cols[y]
  <2> SUFFICES ASSUME NEW y \in T PROVE part(S)[y] = cols[y]
    OBVIOUS
  <2> DEFINE col == [x \in S |-> table[x][y]]
  <2>1. part(S)[y] = SumFunctionOnSet(col, S) /\ \A x \in S : col[x] \in Int /\ col[x] = column[y][x]
    OBVIOUS
  <2> HIDE DEF part, col
  <2> QED BY <2>1, SumSame
<1>5. \A y \in T : part(S)[y] \in Int
  BY <1>0
<1> HIDE DEF part
<1>6. SumFunctionOnSet(part(S), T) = SumFunctionOnSet(cols, T)
  BY <1>4, <1>5, SumSame
<1> QED BY <1>3, <1>6

----------------------------------------------------------------------------
(* How a step moves money.                                                 *)

\* What an invoice counts for in the ledger and in the payments; nothing before it is issued.
NetOf(i) == IF i \in Issued THEN NetPosted(invoices[i]) ELSE 0
PaidOf(i) == IF i \in Issued THEN invoices[i].paid ELSE 0

\* A step that charges: payments and credits stay, and the ledger rows of an invoice move for
\* one tenant by as much as the invoice counts for.
Charged ==
  /\ UNCHANGED received
  /\ \A t \in Tenant : ledger'[t][NoInvoice] = ledger[t][NoInvoice]
  /\ \A i \in InvoiceId : PaidOf(i)' = PaidOf(i)
  /\ \A i \in InvoiceId :
       \/ NetOf(i)' = NetOf(i) /\ \A t \in Tenant : ledger'[t][i] = ledger[t][i]
       \/ \E u \in Tenant :
            /\ \A t \in Tenant \ {u} : ledger'[t][i] = ledger[t][i]
            /\ ledger'[u][i] = ledger[u][i] + (NetOf(i)' - NetOf(i))

\* A step in which t pays a: app[i] of it on invoice i, the rest on none.
PaysWith(t, a, app, rest) ==
  /\ received' = [received EXCEPT ![t] = @ + a]
  /\ SumFunctionOnSet(app, InvoiceId) + rest = a
  /\ \A u \in Tenant \ {t}, g \in Tag : ledger'[u][g] = ledger[u][g]
  /\ ledger'[t][NoInvoice] = ledger[t][NoInvoice] - rest
  /\ \A i \in InvoiceId :
       /\ ledger'[t][i] = ledger[t][i] - app[i]
       /\ PaidOf(i)' = PaidOf(i) + app[i]
       /\ NetOf(i)' = NetOf(i) - app[i]
Pays(t, a) == \E app \in [InvoiceId -> Nat], rest \in Nat : PaysWith(t, a, app, rest)

\* Issuing charges each new invoice to its tenant.
LEMMA InsertCharges ==
  ASSUME IInv, NEW new, DOMAIN new \subseteq InvoiceId \ Issued,
         \A i \in DOMAIN new : FreshRow(new[i]),
         Insert(new), UNCHANGED <<received, today>>
  PROVE  Charged
<1>1. /\ Issued' = Issued \cup DOMAIN new
      /\ \A i \in DOMAIN new : invoices'[i] = new[i]
      /\ \A i \in Issued : invoices'[i] = invoices[i]
  BY DEF Insert, Issued
<1>2. \A t \in Tenant, g \in Tag :
        ledger'[t][g] = IF g \in DOMAIN new /\ new[g].tenant = t
                        THEN ledger[t][g] + new[g].total ELSE ledger[t][g]
  BY DEF Insert
<1>3. \A t \in Tenant : ledger'[t][NoInvoice] = ledger[t][NoInvoice]
  BY <1>2, BillingAssumption DEF Tag
<1>4. ASSUME NEW i \in InvoiceId, i \notin DOMAIN new
      PROVE  /\ PaidOf(i)' = PaidOf(i)
             /\ NetOf(i)' = NetOf(i) /\ \A t \in Tenant : ledger'[t][i] = ledger[t][i]
  BY <1>1, <1>2, <1>4 DEF Tag, PaidOf, NetOf
<1>5. ASSUME NEW i \in DOMAIN new
      PROVE  /\ PaidOf(i)' = PaidOf(i)
             /\ \E u \in Tenant :
                  /\ \A t \in Tenant \ {u} : ledger'[t][i] = ledger[t][i]
                  /\ ledger'[u][i] = ledger[u][i] + (NetOf(i)' - NetOf(i))
  <2>1. /\ i \in Tag /\ i \notin Issued /\ i \in Issued' /\ invoices'[i] = new[i]
    BY <1>1 DEF Tag
  <2>2. /\ new[i].tenant \in Tenant /\ new[i].paid = 0 /\ new[i].total \in Int
        /\ NetPosted(new[i]) = new[i].total
    <3>1. FreshRow(new[i])
      OBVIOUS
    <3> QED BY <3>1 DEF FreshRow, InvoiceRow, NetPosted, RowAddsUp
  <2>3. PaidOf(i) = 0 /\ PaidOf(i)' = 0 /\ NetOf(i) = 0 /\ NetOf(i)' = new[i].total
    BY <2>1, <2>2 DEF PaidOf, NetOf
  <2>4. \A t \in Tenant \ {new[i].tenant} : ledger'[t][i] = ledger[t][i]
    BY <1>2, <2>1
  <2>5. ledger'[new[i].tenant][i] = ledger[new[i].tenant][i] + (NetOf(i)' - NetOf(i))
    BY <1>2, <2>1, <2>2, <2>3
  <2> QED BY <2>2, <2>3, <2>4, <2>5
<1> QED BY <1>3, <1>4, <1>5 DEF Charged

\* Replacing one row and posting what it counts for more or less charges.
LEMMA OneRowCharges ==
  ASSUME IInv, NEW i \in Issued, NEW s \in InvoiceRow, NEW amount \in Int,
         invoices' = [invoices EXCEPT ![i] = s],
         ledger' = Post(invoices[i].tenant, i, amount),
         UNCHANGED received,
         s.paid = invoices[i].paid, NetPosted(s) = NetPosted(invoices[i]) + amount
  PROVE  Charged
<1> DEFINE o == invoices[i].tenant
<1>1. Issued' = Issued /\ i \in InvoiceId /\ i \in Tag /\ i # NoInvoice /\ o \in Tenant
  BY BillingAssumption DEF IInv, Issued, TypeOK, Tag, InvoiceRow
<1>2. invoices'[i] = s /\ \A j \in Issued \ {i} : invoices'[j] = invoices[j]
  BY DEF Issued, IInv, TypeOK
<1>3. \A t \in Tenant, g \in Tag :
        ledger'[t][g] = IF t = o /\ g = i THEN ledger[t][g] + amount ELSE ledger[t][g]
  BY <1>1 DEF Post, IInv, TypeOK
<1>4. \A t \in Tenant : ledger'[t][NoInvoice] = ledger[t][NoInvoice]
  BY <1>1, <1>3 DEF Tag
<1>5. \A j \in InvoiceId : PaidOf(j)' = PaidOf(j)
  BY <1>1, <1>2 DEF PaidOf
<1>6. \A j \in InvoiceId \ {i} : NetOf(j)' = NetOf(j) /\ \A t \in Tenant : ledger'[t][j] = ledger[t][j]
  BY <1>1, <1>2, <1>3 DEF NetOf, Tag
<1>7. NetOf(i)' - NetOf(i) = amount
  <2>1. NetOf(i)' = NetPosted(s) /\ NetOf(i) = NetPosted(invoices[i])
    BY <1>1, <1>2 DEF NetOf
  <2>2. NetPosted(invoices[i]) \in Int
    BY DEF NetPosted, IInv, TypeOK, InvoiceRow
  <2> QED BY <2>1, <2>2
<1>8. /\ \A t \in Tenant \ {o} : ledger'[t][i] = ledger[t][i]
      /\ ledger'[o][i] = ledger[o][i] + (NetOf(i)' - NetOf(i))
  BY <1>1, <1>3, <1>7
<1> QED BY <1>1, <1>4, <1>5, <1>6, <1>8 DEF Charged

\* adjust_invoice charges.
LEMMA AdjustCharges ==
  ASSUME IInv, NEW i \in Issued, NEW pen \in Extras, NEW disc \in Extras,
         AdjustInvoice(i, pen, disc)
  PROVE  Charged
<1> DEFINE r == invoices[i]
           delta == (pen - r.penalties) - (disc - r.discounts)
           s == [r EXCEPT !.penalties = pen, !.discounts = disc,
                          !.total = @ + delta, !.balance = @ + delta]
           n == IF delta = 0 THEN s ELSE Recalc(s, today)
<1>1. r \in InvoiceRow /\ today \in Day /\ pen \in Nat /\ disc \in Nat /\ r.status # "CANCELLED"
  BY BillingAssumption DEF IInv, TypeOK, AdjustInvoice
<1>2. invoices' = [invoices EXCEPT ![i] = n] /\ ledger' = Post(r.tenant, i, delta)
      /\ UNCHANGED received
  BY DEF AdjustInvoice
<1>3. delta \in Int
  BY <1>1 DEF InvoiceRow
<1>4. s \in InvoiceRow /\ s.paid = r.paid /\ s.status = r.status /\ s.balance = r.balance + delta
  <2> HIDE DEF delta, r
  <2>1. s \in InvoiceRow
    BY <1>1, <1>3, AdjustedRow
  <2>2. s.paid = r.paid /\ s.status = r.status /\ s.balance = r.balance + delta
    BY <1>1, <1>3 DEF InvoiceRow
  <2> QED BY <2>1, <2>2
<1> HIDE DEF s, delta, r
<1>5. n \in InvoiceRow /\ n.paid = r.paid /\ n.status # "CANCELLED" /\ n.balance = r.balance + delta
  <2>1. CASE delta = 0
    BY <2>1, <1>1, <1>4
  <2>2. CASE delta # 0
    BY <2>2, <1>1, <1>4, RecalcFrame
  <2> QED BY <2>1, <2>2
<1> HIDE DEF n
<1>6. NetPosted(n) = NetPosted(r) + delta
  BY <1>1, <1>5 DEF NetPosted
<1> QED BY <1>2, <1>3, <1>5, <1>6, OneRowCharges DEF r

\* cancel_invoice charges: it takes off what was still due.
LEMMA CancelCharges ==
  ASSUME IInv, NEW i \in Issued, CancelInvoice(i)
  PROVE  Charged
<1> DEFINE r == invoices[i]
           s == [r EXCEPT !.balance = 0, !.status = "CANCELLED"]
           amount == IF r.balance > 0 THEN -r.balance ELSE 0
<1>1. /\ r \in InvoiceRow /\ RowAddsUp(r) /\ i \in Tag
      /\ ledger \in [Tenant -> [Tag -> Int]]
  BY DEF IInv, TypeOK, ChargesAddUp, Tag
<1>2. invoices' = [invoices EXCEPT ![i] = s] /\ UNCHANGED received
  BY <1>1 DEF CancelInvoice, InvoiceRow, IInv, TypeOK
<1>3. ledger' = Post(r.tenant, i, amount)
  <2>1. r.balance \in Int /\ r.tenant \in Tenant
    BY <1>1 DEF InvoiceRow
  <2>2. CASE r.balance > 0
    BY <2>2 DEF CancelInvoice
  <2>3. CASE ~(r.balance > 0)
    <3>1. ledger' = ledger /\ amount = 0
      BY <2>3 DEF CancelInvoice
    <3>2. ledger[r.tenant][i] + 0 = ledger[r.tenant][i]
      BY <1>1, <2>1
    <3> QED BY <1>1, <2>1, <3>1, <3>2 DEF Post
  <2> QED BY <2>2, <2>3
<1>4. /\ s.status = "CANCELLED" /\ s.total = r.total /\ s.paid = r.paid
      /\ r.total \in Int /\ r.paid \in Nat /\ r.balance \in Int
  BY <1>1 DEF InvoiceRow
<1>5. s \in InvoiceRow
  BY <1>1, CancelledRow
<1>6. amount \in Int /\ NetPosted(s) = NetPosted(r) + amount
  BY <1>1, <1>4 DEF NetPosted, RowAddsUp
<1> HIDE DEF s, amount
<1> QED BY <1>2, <1>3, <1>4, <1>5, <1>6, OneRowCharges

\* The refresh and the change of day move no money.
LEMMA RestCharges ==
  ASSUME IInv, RefreshOverdue \/ NextDay \/ UNCHANGED vars
  PROVE  Charged
<1>1. Issued' = Issued /\ UNCHANGED <<ledger, received>>
  BY DEF RefreshOverdue, NextDay, vars, Issued
<1>2. ASSUME NEW i \in Issued
      PROVE  invoices'[i].paid = invoices[i].paid /\ NetPosted(invoices'[i]) = NetPosted(invoices[i])
  <2>1. invoices[i] \in InvoiceRow
    BY DEF IInv, TypeOK
  <2>2. CASE invoices'[i] = invoices[i]
    BY <2>2
  <2>3. CASE invoices[i].status # "CANCELLED" /\ invoices'[i] = [invoices[i] EXCEPT !.status = "OVERDUE"]
    BY <2>1, <2>3 DEF InvoiceRow, NetPosted
  <2> QED BY <2>2, <2>3 DEF RefreshOverdue, NextDay, vars
<1> QED BY <1>1, <1>2 DEF Charged, PaidOf, NetOf

\* What the loop hands out in its first k turns is what it has less after them.
LEMMA LoopHandsOut ==
  ASSUME TypeOK, NEW a \in Amounts, NEW pool \in SUBSET Issued,
         NEW pos \in OldestFirst(pool), NEW left \in LoopRuns(pool, pos, a)
  PROVE  SumFunctionOnSet([i \in pool |-> left[pos[i] - 1] - left[pos[i]]], pool)
           + left[Cardinality(pool)] = a
<1> DEFINE n == Cardinality(pool)
           app == [i \in pool |-> left[pos[i] - 1] - left[pos[i]]]
           Upto(k) == {i \in pool : pos[i] <= k}
           Bad == {k \in 0 .. n : SumFunctionOnSet(app, Upto(k)) + left[k] # a}
<1>1. n \in Nat /\ IsFiniteSet(pool)
  BY BillingAssumption, FS_Subset, FS_CardinalityType DEF TypeOK
<1>2. (\A m \in 0 .. n : left[m] \in Nat) /\ left[0] = a /\ a \in Nat
  BY BillingAssumption DEF LoopRuns
<1>3. /\ \A i \in pool : pos[i] \in 1 .. n
      /\ \A i, j \in pool : pos[i] = pos[j] => i = j
  BY DEF OldestFirst
<1>4. \A m \in 1 .. n : \E i \in pool : pos[i] = m
  <2>1. pos \in Injection(pool, 1 .. n)
    BY DEF OldestFirst, Injection, IsInjective
  <2>2. IsFiniteSet(1 .. n) /\ Cardinality(1 .. n) = n
    BY <1>1, FS_Interval
  <2>3. pos \in Surjection(pool, 1 .. n)
    BY <1>1, <2>1, <2>2, FS_Injection
  <2> QED BY <2>3 DEF Surjection
<1> HIDE DEF n
<1>5. \A i \in pool : app[i] \in Int
  BY <1>1, <1>2, <1>3
<1>6. ASSUME NEW k \in Bad PROVE \E m \in Bad : m < k
  <2>1. k \in 0 .. n /\ SumFunctionOnSet(app, Upto(k)) + left[k] # a
    OBVIOUS
  <2>2. k # 0
    <3>1. ASSUME k = 0 PROVE Upto(k) = {}
      BY <1>1, <1>3, <3>1
    <3>2. k = 0 => SumFunctionOnSet(app, Upto(k)) = SumFunctionOnSet(app, {})
      BY <3>1
    <3> HIDE DEF Upto, app
    <3> QED BY <1>2, <2>1, <3>2, SumEmpty
  <2>3. k \in 1 .. n /\ k - 1 \in 0 .. n
    BY <1>1, <2>1, <2>2
  <2>4. PICK i \in pool : pos[i] = k
    BY <1>4, <2>3
  <2>5. Upto(k) = Upto(k - 1) \cup {i} /\ i \notin Upto(k - 1)
    BY <1>1, <1>3, <2>3, <2>4
  <2>6. IsFiniteSet(Upto(k - 1)) /\ Upto(k - 1) \subseteq pool
    BY <1>1, FS_Subset
  <2>7. app[i] = left[k - 1] - left[k] /\ left[k - 1] \in Nat /\ left[k] \in Nat
    BY <1>2, <2>3, <2>4
  <2> HIDE DEF app
  <2>8. SumFunctionOnSet(app, Upto(k)) = app[i] + SumFunctionOnSet(app, Upto(k - 1))
        /\ SumFunctionOnSet(app, Upto(k - 1)) \in Int
    <3> DEFINE U == Upto(k - 1)
    <3>1. IsFiniteSet(U) /\ i \notin U /\ \A j \in U \cup {i} : app[j] \in Int
      BY <1>5, <2>5, <2>6
    <3>2. SumFunctionOnSet(app, Upto(k)) = SumFunctionOnSet(app, U \cup {i})
      BY <2>5, Zenon
    <3> HIDE DEF U, Upto
    <3>3. SumFunctionOnSet(app, U \cup {i}) = app[i] + SumFunctionOnSet(app, U)
      BY <3>1, SumPuts
    <3>4. SumFunctionOnSet(app, U) \in Int
      BY <3>1, SumInt
    <3> QED BY <3>2, <3>3, <3>4 DEF U
  <2>9. SumFunctionOnSet(app, Upto(k - 1)) + left[k - 1] # a
    <3> HIDE DEF Upto
    <3> QED BY <1>2, <2>1, <2>7, <2>8
  <2>10. k - 1 \in Bad /\ k - 1 < k
    <3> HIDE DEF Upto
    <3> QED BY <2>3, <2>9
  <2> QED BY <2>10
<1>7. Bad = {}
  <2> SUFFICES ASSUME Bad # {} PROVE FALSE
    OBVIOUS
  <2>1. Bad \subseteq Nat
    BY <1>1
  <2>2. PICK k \in Bad : \A m \in Bad : k <= m
    <3> HIDE DEF Bad
    <3> QED BY <2>1, Least
  <2> HIDE DEF Bad
  <2> QED BY <1>6, <2>1, <2>2
<1>8. n \notin Bad /\ n \in 0 .. n
  BY <1>1, <1>7
<1>9. Upto(n) = pool
  BY <1>1, <1>3
<1>10. SumFunctionOnSet(app, Upto(n)) = SumFunctionOnSet(app, pool)
  BY <1>9, Zenon
<1>11. SumFunctionOnSet(app, Upto(n)) + left[n] = a
  BY <1>8
<1> QED BY <1>10, <1>11 DEF n

\* record_manual_payment pays: nothing of the amount is lost or used twice.
LEMMA PaymentPays ==
  ASSUME IInv, NEW t \in Tenant, NEW a \in Amounts, NEW target \in InvoiceId \cup {NoInvoice},
         RecordPayment(t, a, target)
  PROVE  Pays(t, a)
<1> DEFINE pool == Pool(t, target)
<1>1. pool \in SUBSET Issued
  BY DEF RecordPayment, Pool
<1>2. PICK pos \in OldestFirst(pool) : \E left \in LoopRuns(pool, pos, a) :
        Settle(t, [i \in pool |-> left[pos[i] - 1] - left[pos[i]]], left[Cardinality(pool)])
  BY DEF RecordPayment
<1>3. PICK left \in LoopRuns(pool, pos, a) :
        Settle(t, [i \in pool |-> left[pos[i] - 1] - left[pos[i]]], left[Cardinality(pool)])
  BY <1>2
<1>4. received' = [received EXCEPT ![t] = @ + a]
  BY DEF RecordPayment
<1> DEFINE app == [i \in pool |-> left[pos[i] - 1] - left[pos[i]]]
           rest == left[Cardinality(pool)]
           all == [i \in InvoiceId |-> IF i \in pool THEN app[i] ELSE 0]
<1> HIDE DEF pool
<1>5. TypeOK /\ Issued \subseteq InvoiceId /\ IsFiniteSet(InvoiceId)
      /\ NoInvoice \notin InvoiceId /\ today \in Day
  BY BillingAssumption DEF IInv, TypeOK
<1>6. rest \in Nat /\ app \in [pool -> Nat]
      /\ \A i \in pool : app[i] > 0 => app[i] <= invoices[i].balance
  <2>1. /\ left[Cardinality(pool)] \in Nat
        /\ \A i \in pool : LET x == left[pos[i] - 1] - left[pos[i]] IN
             x \in Nat /\ (x > 0 => x <= invoices[i].balance)
    BY <1>1, <1>5, LoopBounds
  <2> QED BY <2>1
<1>7. Settle(t, app, rest)
  BY <1>3
<1>8. SumFunctionOnSet(app, pool) + rest = a
  BY <1>1, <1>5, LoopHandsOut
<1> HIDE DEF app, rest
<1>9. all \in [InvoiceId -> Nat]
  BY <1>6
<1>10. SumFunctionOnSet(all, InvoiceId) + rest = a
  <2>1. /\ pool \in SUBSET InvoiceId /\ IsFiniteSet(pool)
        /\ \A i \in pool : all[i] \in Int /\ all[i] = app[i]
        /\ \A i \in InvoiceId \ pool : all[i] = 0
    BY <1>1, <1>5, <1>6, FS_Subset
  <2> HIDE DEF all
  <2>2. SumFunctionOnSet(all, InvoiceId) = SumFunctionOnSet(all, pool)
    BY <1>5, <2>1, SumRest
  <2>3. SumFunctionOnSet(all, pool) = SumFunctionOnSet(app, pool)
    BY <2>1, SumSame
  <2> QED BY <1>8, <2>2, <2>3
<1>11. \A u \in Tenant, g \in Tag :
         ledger'[u][g] = IF u # t THEN ledger[u][g]
                         ELSE IF g = NoInvoice THEN ledger[u][g] - rest
                         ELSE IF g \in pool THEN ledger[u][g] - app[g]
                         ELSE ledger[u][g]
  BY <1>5, <1>6, <1>7 DEF Settle, TypeOK
<1>12. ASSUME NEW i \in InvoiceId
       PROVE  /\ ledger'[t][i] = ledger[t][i] - all[i]
              /\ PaidOf(i)' = PaidOf(i) + all[i]
              /\ NetOf(i)' = NetOf(i) - all[i]
  <2>1. Issued' = Issued /\ i \in Tag /\ i # NoInvoice /\ ledger[t][i] \in Int
    BY <1>5, <1>7 DEF Settle, Issued, Tag, TypeOK
  <2>2. ledger'[t][i] = ledger[t][i] - all[i]
    BY <1>11, <2>1
  <2>3. i \in Issued => PaidOf(i) \in Int /\ NetOf(i) \in Int
    BY <1>5 DEF PaidOf, NetOf, NetPosted, TypeOK, InvoiceRow
  <2>4. CASE i \in pool /\ app[i] > 0
    <3> DEFINE r == invoices[i]  s == [r EXCEPT !.paid = @ + app[i], !.balance = @ - app[i]]
    <3>1. i \in Issued /\ all[i] = app[i] /\ app[i] \in Nat
      BY <1>1, <1>6, <2>4
    <3>2. r \in InvoiceRow /\ RowAddsUp(r) /\ app[i] <= r.balance
      BY <1>6, <2>4, <3>1 DEF IInv, TypeOK, ChargesAddUp
    <3>3. r.status # "CANCELLED"
      BY <2>4, <3>1, <3>2 DEF RowAddsUp, InvoiceRow
    <3>4. invoices'[i] = Recalc(s, today)
      BY <1>6, <1>7, <2>4, <3>1 DEF Settle
    <3>5. s \in InvoiceRow
      BY <3>1, <3>2, PaidRow
    <3>6. s.paid = r.paid + app[i] /\ s.balance = r.balance - app[i] /\ s.status = r.status
      BY <3>2 DEF InvoiceRow
    <3> HIDE DEF s, r
    <3>7. /\ invoices'[i].paid = r.paid + app[i] /\ invoices'[i].balance = r.balance - app[i]
          /\ invoices'[i].status # "CANCELLED"
      BY <1>5, <3>3, <3>4, <3>5, <3>6, RecalcFrame
    <3>8. PaidOf(i) = r.paid /\ NetOf(i) = r.balance
      BY <3>1, <3>3 DEF PaidOf, NetOf, NetPosted, r
    <3>9. PaidOf(i)' = r.paid + app[i] /\ NetOf(i)' = r.balance - app[i]
      BY <2>1, <3>1, <3>7 DEF PaidOf, NetOf, NetPosted
    <3> QED BY <2>2, <3>1, <3>8, <3>9
  <2>5. CASE ~(i \in pool /\ app[i] > 0)
    <3>1. all[i] = 0
      BY <1>6, <2>5
    <3>2. i \in Issued => invoices'[i] = invoices[i]
      BY <1>6, <1>7, <2>5 DEF Settle
    <3>3. PaidOf(i)' = PaidOf(i) /\ NetOf(i)' = NetOf(i)
      BY <2>1, <3>2 DEF PaidOf, NetOf
    <3>4. i \notin Issued => PaidOf(i) = 0 /\ NetOf(i) = 0
      BY DEF PaidOf, NetOf
    <3> HIDE DEF all
    <3> QED BY <2>2, <2>3, <3>1, <3>3, <3>4
  <2> QED BY <2>4, <2>5
<1>13. /\ \A u \in Tenant \ {t}, g \in Tag : ledger'[u][g] = ledger[u][g]
       /\ ledger'[t][NoInvoice] = ledger[t][NoInvoice] - rest
  BY <1>11 DEF Tag
<1> HIDE DEF all
<1>14. PaysWith(t, a, all, rest)
  BY <1>4, <1>10, <1>12, <1>13 DEF PaysWith
<1> QED BY <1>6, <1>9, <1>14 DEF Pays

\* Every step of Billing charges, or is one payment of one tenant.
LEMMA MoneyMoves ==
  ASSUME IInv, [Next]_vars
  PROVE  Charged \/ \E t \in Tenant, a \in Amounts : Pays(t, a)
<1>1. InsertsFresh => Charged
  BY InsertCharges DEF InsertsFresh
<1>2. CASE \E i \in InvoiceId, t \in Tenant, l \in Lease \cup {NoLease}, p \in Period,
              d \in Day, c \in Charges, pen \in Extras, disc \in Extras :
             CreateInvoice(i, t, l, p, d, c, pen, disc)
  BY <1>1, <1>2, CreateInserts DEF IInv
<1>3. CASE \E active \in SUBSET Lease, p \in Period, d \in Day, c \in Charges :
             GenerateMonthly(active, p, d, c)
  BY <1>1, <1>3, MonthlyInserts DEF IInv
<1>4. CASE \E i \in Issued, pen \in Extras, disc \in Extras : AdjustInvoice(i, pen, disc)
  BY <1>4, AdjustCharges
<1>5. CASE \E i \in Issued : CancelInvoice(i)
  BY <1>5, CancelCharges
<1>6. CASE RefreshOverdue \/ NextDay \/ UNCHANGED vars
  BY <1>6, RestCharges
<1>7. CASE \E t \in Tenant, a \in Amounts, target \in InvoiceId \cup {NoInvoice} :
             RecordPayment(t, a, target)
  BY <1>7, PaymentPays
<1> QED BY <1>2, <1>3, <1>4, <1>5, <1>6, <1>7 DEF Next

----------------------------------------------------------------------------
(* The account of a tenant.                                                *)

\* A sum over the tags is the term of no invoice and the sum over the invoices.
LEMMA TagSum ==
  ASSUME NEW f, \A g \in Tag : f[g] \in Int
  PROVE  /\ SumFunctionOnSet(f, Tag) = f[NoInvoice] + SumFunctionOnSet(f, InvoiceId)
         /\ SumFunctionOnSet(f, Tag) \in Int /\ SumFunctionOnSet(f, InvoiceId) \in Int
<1>1. /\ IsFiniteSet(InvoiceId) /\ NoInvoice \notin InvoiceId
      /\ Tag = InvoiceId \cup {NoInvoice} /\ IsFiniteSet(Tag)
  BY BillingAssumption, FS_AddElement DEF Tag
<1>2. SumFunctionOnSet(f, InvoiceId \cup {NoInvoice}) = f[NoInvoice] + SumFunctionOnSet(f, InvoiceId)
  BY <1>1, SumPuts
<1>3. SumFunctionOnSet(f, Tag) \in Int /\ SumFunctionOnSet(f, InvoiceId) \in Int
  BY <1>1, SumInt
<1> QED BY <1>1, <1>2, <1>3

\* get_tenant_balance is the credit and the sum over the invoices.
LEMMA BalanceIsSum ==
  ASSUME TypeOK, NEW t \in Tenant
  PROVE  /\ TenantBalance(t) = ledger[t][NoInvoice] + SumFunctionOnSet(ledger[t], InvoiceId)
         /\ TenantBalance(t) \in Int
<1>1. DOMAIN ledger[t] = Tag /\ \A g \in Tag : ledger[t][g] \in Int
  BY DEF TypeOK
<1>2. TenantBalance(t) = SumFunctionOnSet(ledger[t], Tag)
  BY <1>1, Zenon DEF TenantBalance, SumFunction
<1> QED BY <1>1, <1>2, TagSum

\* A payment lowers the balance of the payer by the whole amount, and no other.
LEMMA PaysMovesBalance ==
  ASSUME TypeOK, TypeOK', NEW t \in Tenant, NEW a \in Amounts, Pays(t, a)
  PROVE  /\ TenantBalance(t)' = TenantBalance(t) - a
         /\ \A u \in Tenant \ {t} : TenantBalance(u)' = TenantBalance(u)
<1>1. PICK app \in [InvoiceId -> Nat], rest \in Nat : PaysWith(t, a, app, rest)
  BY DEF Pays
<1>2. /\ IsFiniteSet(InvoiceId) /\ InvoiceId \subseteq Tag /\ NoInvoice \in Tag
      /\ a \in Nat
  BY BillingAssumption DEF Tag
<1>3. \A u \in Tenant, g \in Tag : ledger[u][g] \in Int /\ ledger'[u][g] \in Int
  BY DEF TypeOK
<1>4. \A u \in Tenant :
        /\ TenantBalance(u) = ledger[u][NoInvoice] + SumFunctionOnSet(ledger[u], InvoiceId)
        /\ TenantBalance(u)' = ledger'[u][NoInvoice] + SumFunctionOnSet(ledger'[u], InvoiceId)
  <2>1. \A u \in Tenant : TenantBalance(u) = ledger[u][NoInvoice] + SumFunctionOnSet(ledger[u], InvoiceId)
    BY BalanceIsSum
  <2>2. \A u \in Tenant : /\ DOMAIN ledger'[u] = Tag
                          /\ TenantBalance(u)' = SumFunctionOnSet(ledger'[u], DOMAIN ledger'[u])
    BY DEF TypeOK, TenantBalance, SumFunction
  <2>3. \A u \in Tenant : TenantBalance(u)' = SumFunctionOnSet(ledger'[u], Tag)
    BY <2>2
  <2>4. \A u \in Tenant : SumFunctionOnSet(ledger'[u], Tag)
                            = ledger'[u][NoInvoice] + SumFunctionOnSet(ledger'[u], InvoiceId)
    BY <1>3, TagSum
  <2> QED BY <2>1, <2>3, <2>4
<1>5. ASSUME NEW u \in Tenant \ {t} PROVE TenantBalance(u)' = TenantBalance(u)
  <2>1. \A g \in Tag : ledger'[u][g] = ledger[u][g]
    BY <1>1 DEF PaysWith
  <2>2. SumFunctionOnSet(ledger'[u], InvoiceId) = SumFunctionOnSet(ledger[u], InvoiceId)
    BY <1>2, <1>3, <2>1, SumSame
  <2> QED BY <1>2, <1>4, <2>1, <2>2
<1>6. SumFunctionOnSet(ledger[t], InvoiceId)
        = SumFunctionOnSet(app, InvoiceId) + SumFunctionOnSet(ledger'[t], InvoiceId)
  <2> DEFINE before == ledger[t]  after == ledger'[t]
  <2>1. \A i \in InvoiceId : app[i] \in Int /\ after[i] \in Int /\ before[i] = app[i] + after[i]
    BY <1>1, <1>2, <1>3 DEF PaysWith
  <2> HIDE DEF before, after
  <2>2. SumFunctionOnSet(before, InvoiceId)
          = SumFunctionOnSet(app, InvoiceId) + SumFunctionOnSet(after, InvoiceId)
    BY <1>2, <2>1, SumPlus
  <2> QED BY <2>2 DEF before, after
<1>7. SumFunctionOnSet(app, InvoiceId) \in Int /\ SumFunctionOnSet(ledger'[t], InvoiceId) \in Int
  BY <1>2, <1>3, SumInt
<1>8. /\ SumFunctionOnSet(app, InvoiceId) + rest = a
      /\ ledger'[t][NoInvoice] = ledger[t][NoInvoice] - rest
      /\ ledger[t][NoInvoice] \in Int
  BY <1>1, <1>2, <1>3 DEF PaysWith
<1>9. TenantBalance(t)' = TenantBalance(t) - a
  BY <1>2, <1>4, <1>6, <1>7, <1>8
<1> QED BY <1>5, <1>9

\* Billing implements TenantAccount: whatever is issued, adjusted, cancelled or paid,
\* a step books charges or one payment in full, to its payer's account alone.
THEOREM BillingKeepsAccounts == Spec => AccountSpec
<1> DEFINE billed == [t \in Tenant |-> TenantBalance(t) + received[t]]
<1>1. Init => Account!Init
  <2> SUFFICES ASSUME Init PROVE Account!Init
    OBVIOUS
  <2>1. TypeOK
    BY InitEstablishes DEF IInv
  <2>2. ASSUME NEW t \in Tenant PROVE TenantBalance(t) = 0 /\ received[t] = 0
    <3>1. ledger[t][NoInvoice] = 0 /\ \A i \in InvoiceId : ledger[t][i] = 0
      BY DEF Init, Tag
    <3>2. SumFunctionOnSet(ledger[t], InvoiceId) = 0
      BY <3>1, BillingAssumption, SumZero
    <3> QED BY <2>1, <3>1, <3>2, BalanceIsSum DEF Init
  <2>3. billed = [t \in Tenant |-> 0]
    BY <2>2
  <2> QED BY <2>3 DEF Init, Account!Init
<1>2. ASSUME IInv, IInv', [Next]_vars
      PROVE  [Account!Next]_Account!accountVars
  <2>1. TypeOK /\ TypeOK'
    BY <1>2 DEF IInv
  <2>2. CASE Charged
    <3>1. \A t \in Tenant : TenantBalance(t)' \in Int /\ received'[t] \in Int
      <4>1. \A t \in Tenant : /\ DOMAIN ledger'[t] = Tag
                              /\ \A g \in Tag : ledger'[t][g] \in Int
                              /\ TenantBalance(t)' = SumFunctionOnSet(ledger'[t], DOMAIN ledger'[t])
        BY <2>1 DEF TypeOK, TenantBalance, SumFunction
      <4>2. \A t \in Tenant : TenantBalance(t)' = SumFunctionOnSet(ledger'[t], Tag)
        BY <4>1
      <4> QED BY <2>1, <4>1, <4>2, TagSum DEF TypeOK
    <3>2. [t \in Tenant |-> TenantBalance(t) + received[t]]' \in [Tenant -> Int]
      BY <3>1
    <3> QED BY <2>2, <3>2 DEF Charged, Account!Next, Account!Charge
  <2>3. ASSUME NEW t \in Tenant, NEW a \in Amounts, Pays(t, a) PROVE Account!Next
    <3>1. received' = [received EXCEPT ![t] = @ + a]
      BY <2>3 DEF Pays, PaysWith
    <3>2. ASSUME NEW u \in Tenant
          PROVE  TenantBalance(u)' + received'[u] = TenantBalance(u) + received[u]
      <4>1. /\ TenantBalance(t)' = TenantBalance(t) - a
            /\ \A v \in Tenant \ {t} : TenantBalance(v)' = TenantBalance(v)
        BY <2>1, <2>3, PaysMovesBalance
      <4>2. TenantBalance(u) \in Int /\ received[u] \in Int /\ a \in Int
        BY <2>1, BalanceIsSum, BillingAssumption DEF TypeOK
      <4>3. received'[u] = IF u = t THEN received[u] + a ELSE received[u]
        BY <2>1, <3>1 DEF TypeOK
      <4> QED BY <4>1, <4>2, <4>3
    <3>3. UNCHANGED billed
      BY <3>2
    <3> QED BY <3>1, <3>3 DEF Account!Next, Account!Pay
  <2> QED BY <1>2, <2>2, <2>3, MoneyMoves
<1> QED BY <1>1, <1>2, Invariance, PTL DEF Spec, AccountSpec, Account!Spec

----------------------------------------------------------------------------
(* The sums of the pages and reports.                                      *)

\* Whoever paid, an invoice's ledger rows add up over all tenants to what it counts for.
Column(i) == [t \in Tenant |-> ledger[t][i]]
ColumnsNet == \A i \in InvoiceId : SumFunctionOnSet(Column(i), Tenant) = NetOf(i)

\* Money received is on the invoices or ahead of them.
Ahead == [t \in Tenant |-> -ledger[t][NoInvoice]]
Paid == [i \in InvoiceId |-> PaidOf(i)]
ReceivedNet ==
  SumFunctionOnSet(received, Tenant)
    = SumFunctionOnSet(Paid, InvoiceId) + SumFunctionOnSet(Ahead, Tenant)

SumsInv == ColumnsNet /\ ReceivedNet

\* An empty database satisfies SumsInv.
LEMMA InitSums == Init => SumsInv
<1> SUFFICES ASSUME Init PROVE ColumnsNet /\ ReceivedNet
  BY DEF SumsInv
<1>1. IsFiniteSet(InvoiceId) /\ IsFiniteSet(Tenant)
  BY BillingAssumption, ViewsAssumption
<1>2. \A i \in InvoiceId : NetOf(i) = 0 /\ PaidOf(i) = 0
  BY DEF Init, Issued, NetOf, PaidOf
<1>3. \A t \in Tenant, g \in Tag : ledger[t][g] = 0
  BY DEF Init
<1>4. ASSUME NEW i \in InvoiceId PROVE SumFunctionOnSet(Column(i), Tenant) = NetOf(i)
  <2>1. \A t \in Tenant : Column(i)[t] = 0
    BY <1>3 DEF Column, Tag
  <2> QED BY <1>1, <1>2, <2>1, SumZero
<1>5. /\ \A t \in Tenant : received[t] = 0
      /\ \A t \in Tenant : Ahead[t] = 0
      /\ \A i \in InvoiceId : Paid[i] = 0
  <2>1. \A t \in Tenant : received[t] = 0
    BY DEF Init
  <2>2. \A t \in Tenant : Ahead[t] = 0
    <3>1. NoInvoice \in Tag
      BY DEF Tag
    <3>2. \A t \in Tenant : ledger[t][NoInvoice] = 0
      BY <1>3, <3>1
    <3> QED BY <3>2 DEF Ahead
  <2>3. \A i \in InvoiceId : Paid[i] = 0
    BY <1>2 DEF Paid
  <2> QED BY <2>1, <2>2, <2>3
<1>6. /\ SumFunctionOnSet(received, Tenant) = 0
      /\ SumFunctionOnSet(Ahead, Tenant) = 0
      /\ SumFunctionOnSet(Paid, InvoiceId) = 0
  BY <1>1, <1>5, SumZero
<1> QED BY <1>4, <1>6 DEF ColumnsNet, ReceivedNet

\* A column of the ledger in which only t's term moves.
LEMMA ColumnMoves ==
  ASSUME TypeOK, TypeOK', NEW i \in InvoiceId, NEW t \in Tenant,
         \A u \in Tenant \ {t} : ledger'[u][i] = ledger[u][i]
  PROVE  SumFunctionOnSet(Column(i)', Tenant)
           = SumFunctionOnSet(Column(i), Tenant) + (ledger'[t][i] - ledger[t][i])
<1> DEFINE f == Column(i)  g == Column(i)'
<1>1. /\ \A u \in Tenant : f[u] = ledger[u][i] /\ g[u] = ledger'[u][i]
      /\ \A u \in Tenant : f[u] \in Int /\ g[u] \in Int
  BY DEF Column, TypeOK, Tag
<1>2. IsFiniteSet(Tenant)
  BY ViewsAssumption
<1> HIDE DEF f, g
<1>3. SumFunctionOnSet(g, Tenant) = SumFunctionOnSet(f, Tenant) + (g[t] - f[t])
  BY <1>1, <1>2, SumChanges
<1> QED BY <1>1, <1>3 DEF f, g

\* A column of the ledger in which no term moves.
LEMMA ColumnStays ==
  ASSUME TypeOK, NEW i \in InvoiceId, \A u \in Tenant : ledger'[u][i] = ledger[u][i]
  PROVE  SumFunctionOnSet(Column(i)', Tenant) = SumFunctionOnSet(Column(i), Tenant)
<1>1. \A u \in Tenant : Column(i)'[u] = Column(i)[u] /\ Column(i)'[u] \in Int
  BY DEF Column, TypeOK, Tag
<1> QED BY <1>1, ViewsAssumption, SumSame

\* The terms and sums of a column are integers.
LEMMA NetOfInt ==
  ASSUME TypeOK, NEW i \in InvoiceId
  PROVE  NetOf(i) \in Int /\ PaidOf(i) \in Nat /\ SumFunctionOnSet(Column(i), Tenant) \in Int
<1>1. NetOf(i) \in Int /\ PaidOf(i) \in Nat
  BY DEF NetOf, PaidOf, NetPosted, TypeOK, InvoiceRow
<1>2. \A t \in Tenant : Column(i)[t] \in Int
  BY DEF Column, TypeOK, Tag
<1> QED BY <1>1, <1>2, ViewsAssumption, SumInt

\* Charging keeps SumsInv.
LEMMA ChargedKeepsSums ==
  ASSUME TypeOK, TypeOK', SumsInv, Charged
  PROVE  SumsInv'
<1>1. ASSUME NEW i \in InvoiceId PROVE SumFunctionOnSet(Column(i)', Tenant) = NetOf(i)'
  <2>1. SumFunctionOnSet(Column(i), Tenant) = NetOf(i) /\ NetOf(i) \in Int /\ NetOf(i)' \in Int
    <3>1. NetOf(i)' \in Int
      BY DEF NetOf, NetPosted, TypeOK, InvoiceRow
    <3> QED BY <3>1, NetOfInt DEF SumsInv, ColumnsNet
  <2>2. CASE NetOf(i)' = NetOf(i) /\ \A t \in Tenant : ledger'[t][i] = ledger[t][i]
    BY <2>1, <2>2, ColumnStays
  <2>3. ASSUME NEW u \in Tenant, \A t \in Tenant \ {u} : ledger'[t][i] = ledger[t][i],
               ledger'[u][i] = ledger[u][i] + (NetOf(i)' - NetOf(i))
        PROVE  SumFunctionOnSet(Column(i)', Tenant) = NetOf(i)'
    <3>1. SumFunctionOnSet(Column(i)', Tenant)
            = SumFunctionOnSet(Column(i), Tenant) + (ledger'[u][i] - ledger[u][i])
      BY <2>3, ColumnMoves
    <3>2. ledger[u][i] \in Int
      BY DEF TypeOK, Tag
    <3> QED BY <2>1, <2>3, <3>1, <3>2
  <2> QED BY <2>2, <2>3 DEF Charged
<1>2. received' = received /\ Paid' = Paid /\ Ahead' = Ahead
  BY DEF Charged, Paid, Ahead
<1>3. ReceivedNet'
  BY <1>2 DEF SumsInv, ReceivedNet
<1> QED BY <1>1, <1>3 DEF SumsInv, ColumnsNet

\* Paying keeps SumsInv.
LEMMA PaysKeepsSums ==
  ASSUME TypeOK, TypeOK', SumsInv, NEW t \in Tenant, NEW a \in Amounts, Pays(t, a)
  PROVE  SumsInv'
<1>1. PICK app \in [InvoiceId -> Nat], rest \in Nat : PaysWith(t, a, app, rest)
  BY DEF Pays
<1>2. ASSUME NEW i \in InvoiceId PROVE SumFunctionOnSet(Column(i)', Tenant) = NetOf(i)'
  <2>1. SumFunctionOnSet(Column(i), Tenant) = NetOf(i) /\ NetOf(i) \in Int
    BY NetOfInt DEF SumsInv, ColumnsNet
  <2>2. /\ \A u \in Tenant \ {t} : ledger'[u][i] = ledger[u][i]
        /\ ledger'[t][i] = ledger[t][i] - app[i]
        /\ NetOf(i)' = NetOf(i) - app[i]
    BY <1>1 DEF PaysWith, Tag
  <2>3. ledger[t][i] \in Int
    BY DEF TypeOK, Tag
  <2>4. SumFunctionOnSet(Column(i)', Tenant)
          = SumFunctionOnSet(Column(i), Tenant) + (ledger'[t][i] - ledger[t][i])
    BY <2>2, ColumnMoves
  <2> QED BY <2>1, <2>2, <2>3, <2>4
<1>3. IsFiniteSet(InvoiceId) /\ IsFiniteSet(Tenant) /\ a \in Nat
  BY BillingAssumption, ViewsAssumption
<1>4. SumFunctionOnSet(received', Tenant) = SumFunctionOnSet(received, Tenant) + a
  <2>1. /\ \A u \in Tenant : received[u] \in Int /\ received'[u] \in Int
        /\ \A u \in Tenant \ {t} : received[u] = received'[u]
        /\ received'[t] - received[t] = a
    BY <1>1, <1>3 DEF PaysWith, TypeOK
  <2>2. SumFunctionOnSet(received', Tenant) = SumFunctionOnSet(received, Tenant) + (received'[t] - received[t])
    BY <1>3, <2>1, SumChanges
  <2> QED BY <2>1, <2>2
<1>5. SumFunctionOnSet(Ahead', Tenant) = SumFunctionOnSet(Ahead, Tenant) + rest
  <2> DEFINE f == Ahead  g == Ahead'
  <2>1. /\ \A u \in Tenant : f[u] \in Int /\ g[u] \in Int
        /\ \A u \in Tenant \ {t} : f[u] = g[u]
        /\ g[t] - f[t] = rest
    BY <1>1 DEF PaysWith, TypeOK, Ahead, Tag
  <2> HIDE DEF f, g
  <2>2. SumFunctionOnSet(g, Tenant) = SumFunctionOnSet(f, Tenant) + (g[t] - f[t])
    BY <1>3, <2>1, SumChanges
  <2> QED BY <2>1, <2>2 DEF f, g
<1>6. SumFunctionOnSet(Paid', InvoiceId)
        = SumFunctionOnSet(Paid, InvoiceId) + SumFunctionOnSet(app, InvoiceId)
  <2> DEFINE f == Paid  h == Paid'
  <2>1. \A i \in InvoiceId : f[i] \in Int /\ app[i] \in Int /\ h[i] = f[i] + app[i]
    BY <1>1, NetOfInt DEF PaysWith, Paid
  <2> HIDE DEF f, h
  <2>2. SumFunctionOnSet(h, InvoiceId) = SumFunctionOnSet(f, InvoiceId) + SumFunctionOnSet(app, InvoiceId)
    BY <1>3, <2>1, SumPlus
  <2> QED BY <2>2 DEF f, h
<1>7. /\ SumFunctionOnSet(app, InvoiceId) \in Int /\ SumFunctionOnSet(Paid, InvoiceId) \in Int
      /\ SumFunctionOnSet(Ahead, Tenant) \in Int /\ SumFunctionOnSet(received, Tenant) \in Int
  <2>1. /\ \A i \in InvoiceId : app[i] \in Int /\ Paid[i] \in Int
        /\ \A u \in Tenant : Ahead[u] \in Int /\ received[u] \in Int
    <3>1. \A i \in InvoiceId : app[i] \in Int /\ Paid[i] \in Int
      BY NetOfInt DEF Paid
    <3>2. \A u \in Tenant : ledger[u][NoInvoice] \in Int /\ received[u] \in Int
      BY DEF TypeOK, Tag
    <3>3. \A u \in Tenant : Ahead[u] \in Int
      BY <3>2 DEF Ahead
    <3> QED BY <3>1, <3>2, <3>3
  <2> QED BY <1>3, <2>1, SumInt
<1>8. SumFunctionOnSet(app, InvoiceId) + rest = a
  BY <1>1 DEF PaysWith
<1>9. ReceivedNet'
  BY <1>3, <1>4, <1>5, <1>6, <1>7, <1>8 DEF SumsInv, ReceivedNet
<1> QED BY <1>2, <1>9 DEF SumsInv, ColumnsNet

\* The ledger columns and the money received add up in every reachable state.
THEOREM SumsInvariant == Spec => [](IInv /\ SumsInv)
<1>1. IInv /\ IInv' /\ SumsInv /\ [Next]_vars => SumsInv'
  BY MoneyMoves, ChargedKeepsSums, PaysKeepsSums DEF IInv
<1> QED BY <1>1, InitSums, Invariance, PTL DEF Spec

\* A sum over issued invoices is one over all ids, with nothing for the others.
OnIds(f, S) == [i \in InvoiceId |-> IF i \in S THEN f[i] ELSE 0]

\* A sum over some of the ids is one over all of them.
LEMMA SumOnIds ==
  ASSUME NEW S \in SUBSET InvoiceId, NEW f, DOMAIN f = S, \A i \in S : f[i] \in Int
  PROVE  /\ SumFunction(f) = SumFunctionOnSet(OnIds(f, S), InvoiceId)
         /\ SumFunction(f) \in Int
<1>1. IsFiniteSet(InvoiceId) /\ IsFiniteSet(S)
  BY BillingAssumption, FS_Subset
<1>2. /\ \A i \in S : OnIds(f, S)[i] \in Int /\ OnIds(f, S)[i] = f[i]
      /\ \A i \in InvoiceId \ S : OnIds(f, S)[i] = 0
  BY DEF OnIds
<1>3. SumFunctionOnSet(OnIds(f, S), InvoiceId) = SumFunctionOnSet(OnIds(f, S), S)
  BY <1>1, <1>2, SumRest
<1>4. SumFunctionOnSet(OnIds(f, S), S) = SumFunctionOnSet(f, S)
  BY <1>1, <1>2, SumSame
<1>5. SumFunction(f) = SumFunctionOnSet(f, S) /\ SumFunctionOnSet(f, S) \in Int
  BY <1>1, SumInt DEF SumFunction
<1> QED BY <1>3, <1>4, <1>5

\* ReceivedNet is PaymentsAccounted in the terms of the proof.
LEMMA AccountedBySums ==
  ASSUME TypeOK, ReceivedNet
  PROVE  PaymentsAccounted
<1> DEFINE paid == [i \in Issued |-> invoices[i].paid]
           income == [t \in Tenant |-> TotalPaid(t)]
<1>1. /\ Issued \in SUBSET InvoiceId /\ DOMAIN paid = Issued
      /\ \A i \in Issued : paid[i] \in Int
  BY DEF TypeOK, InvoiceRow
<1>2. OnIds(paid, Issued) = Paid
  BY DEF OnIds, Paid, PaidOf
<1>3. income = received
  BY DEF TypeOK, TotalPaid
<1>4. Income = SumFunctionOnSet(received, Tenant)
  <2>1. DOMAIN received = Tenant
    BY DEF TypeOK
  <2> HIDE DEF income
  <2>2. Income = SumFunction(received)
    BY <1>3 DEF Income, income
  <2> QED BY <2>1, <2>2 DEF SumFunction
<1>5. PaidAhead = SumFunctionOnSet(Ahead, Tenant)
  BY DEF PaidAhead, Ahead, SumFunction
<1> HIDE DEF paid
<1>6. SumFunction(paid) = SumFunctionOnSet(OnIds(paid, Issued), InvoiceId)
  BY <1>1, SumOnIds
<1>7. SumFunction(paid) = SumFunctionOnSet(Paid, InvoiceId)
  BY <1>2, <1>6, Zenon
<1> QED BY <1>4, <1>5, <1>7 DEF PaymentsAccounted, ReceivedNet, paid

\* The income of the reports is on the invoices or ahead of them, in every
\* reachable state and for any number of tenants, invoices and payments.
THEOREM MoneyIsConserved == Spec => []PaymentsAccounted
BY SumsInvariant, AccountedBySums, PTL DEF IInv, SumsInv

\* All tenant balances together are what the invoices count for, less what was paid ahead.
LEMMA BalancesOverall ==
  ASSUME TypeOK, ColumnsNet
  PROVE  LET net == [i \in InvoiceId |-> NetOf(i)] IN
         /\ SumFunction([t \in Tenant |-> TenantBalance(t)]) + PaidAhead
              = SumFunctionOnSet(net, InvoiceId)
         /\ \A i \in InvoiceId : net[i] \in Int
<1> DEFINE net == [i \in InvoiceId |-> NetOf(i)]
           balances == [t \in Tenant |-> TenantBalance(t)]
           table == [t \in Tenant |-> [i \in InvoiceId |-> ledger[t][i]]]
           rows == [t \in Tenant |-> SumFunctionOnSet(table[t], InvoiceId)]
           none == [t \in Tenant |-> ledger[t][NoInvoice]]
           ahead == [t \in Tenant |-> -ledger[t][NoInvoice]]
           zero == [t \in Tenant |-> 0]
<1>1. IsFiniteSet(InvoiceId) /\ IsFiniteSet(Tenant)
  BY BillingAssumption, ViewsAssumption
<1>2. \A t \in Tenant, g \in Tag : ledger[t][g] \in Int
  BY DEF TypeOK
<1>3. InvoiceId \subseteq Tag /\ NoInvoice \in Tag
  BY DEF Tag
<1>4. \A i \in InvoiceId : net[i] \in Int
  BY NetOfInt
<1>5. table \in [Tenant -> [InvoiceId -> Int]]
  BY <1>2, <1>3
<1>6. \A t \in Tenant : rows[t] = SumFunctionOnSet(ledger[t], InvoiceId)
  <2> SUFFICES ASSUME NEW t \in Tenant PROVE rows[t] = SumFunctionOnSet(ledger[t], InvoiceId)
    OBVIOUS
  <2> DEFINE row == table[t]
  <2>1. \A i \in InvoiceId : row[i] \in Int /\ row[i] = ledger[t][i]
    BY <1>2, <1>3
  <2>2. rows[t] = SumFunctionOnSet(row, InvoiceId)
    OBVIOUS
  <2> HIDE DEF row, rows, table
  <2>3. SumFunctionOnSet(row, InvoiceId) = SumFunctionOnSet(ledger[t], InvoiceId)
    BY <1>1, <2>1, SumSame
  <2> QED BY <2>2, <2>3
<1>7. SumFunctionOnSet(rows, Tenant) = SumFunctionOnSet(net, InvoiceId)
  <2>1. \A t \in Tenant : rows[t] = SumFunctionOnSet(table[t], InvoiceId)
    OBVIOUS
  <2> DEFINE column == [i \in InvoiceId |-> Column(i)]
  <2>2. \A i \in InvoiceId, t \in Tenant : column[i][t] = table[t][i]
    BY DEF Column
  <2>3. \A i \in InvoiceId : net[i] = SumFunctionOnSet(column[i], Tenant)
    BY DEF ColumnsNet
  <2> HIDE DEF rows, net, table, column
  <2> QED BY <1>1, <1>5, <2>1, <2>2, <2>3, SumTable
<1>8. \A t \in Tenant : /\ none[t] \in Int /\ ahead[t] \in Int /\ zero[t] = none[t] + ahead[t]
                        /\ zero[t] = 0
  BY <1>2, <1>3
<1>9. \A t \in Tenant : /\ rows[t] \in Int /\ balances[t] = none[t] + rows[t] /\ balances[t] \in Int
  <2> SUFFICES ASSUME NEW t \in Tenant
               PROVE  rows[t] \in Int /\ balances[t] = none[t] + rows[t] /\ balances[t] \in Int
    OBVIOUS
  <2>1. /\ TenantBalance(t) = ledger[t][NoInvoice] + SumFunctionOnSet(ledger[t], InvoiceId)
        /\ TenantBalance(t) \in Int
    BY BalanceIsSum
  <2>2. SumFunctionOnSet(ledger[t], InvoiceId) \in Int
    BY <1>1, <1>2, <1>3, SumInt
  <2>3. none[t] = ledger[t][NoInvoice] /\ balances[t] = TenantBalance(t)
    OBVIOUS
  <2> HIDE DEF none, balances, rows
  <2> QED BY <1>6, <2>1, <2>2, <2>3
<1>10. PaidAhead = SumFunctionOnSet(ahead, Tenant) /\ SumFunction(balances) = SumFunctionOnSet(balances, Tenant)
  BY DEF PaidAhead, SumFunction
<1> HIDE DEF rows, net, table, none, ahead, zero, balances
<1>11. SumFunctionOnSet(zero, Tenant) = SumFunctionOnSet(none, Tenant) + SumFunctionOnSet(ahead, Tenant)
       /\ SumFunctionOnSet(zero, Tenant) = 0
  BY <1>1, <1>8, SumPlus, SumZero
<1>12. SumFunctionOnSet(balances, Tenant) = SumFunctionOnSet(none, Tenant) + SumFunctionOnSet(rows, Tenant)
  BY <1>1, <1>8, <1>9, SumPlus
<1>13. /\ SumFunctionOnSet(none, Tenant) \in Int /\ SumFunctionOnSet(ahead, Tenant) \in Int
       /\ SumFunctionOnSet(net, InvoiceId) \in Int
  BY <1>1, <1>4, <1>8, SumInt
<1>14. SumFunction(balances) + PaidAhead = SumFunctionOnSet(net, InvoiceId)
  BY <1>7, <1>10, <1>11, <1>12, <1>13
<1> QED BY <1>4, <1>14 DEF net, balances

\* OutstandingReconciles from the columns: what an invoice is dropped by makes
\* up for what it counts beyond its balance shown.
LEMMA ReconciledBySums ==
  ASSUME TypeOK, ColumnsNet
  PROVE  OutstandingReconciles
<1> DEFINE net == [i \in InvoiceId |-> NetOf(i)]
           dropped == [i \in Issued |-> Dropped(i)]
           open == {i \in Issued : invoices[i].status \in Outstanding}
           due == [i \in open |-> invoices[i].balance]
           balances == [t \in Tenant |-> TenantBalance(t)]
<1>1. SumFunction(balances) + PaidAhead = SumFunctionOnSet(net, InvoiceId)
      /\ \A i \in InvoiceId : net[i] \in Int
  BY BalancesOverall
<1>2. /\ Issued \in SUBSET InvoiceId /\ DOMAIN dropped = Issued
      /\ open \in SUBSET InvoiceId /\ DOMAIN due = open
  BY DEF TypeOK
<1>3. \A i \in Issued : /\ NetPosted(invoices[i]) \in Int
                        /\ invoices[i].balance \in Int
                        /\ i \in open => NetPosted(invoices[i]) = invoices[i].balance
  BY DEF TypeOK, InvoiceRow, NetPosted, Outstanding
<1>4. \A i \in Issued : /\ dropped[i] \in Int
                        /\ i \in open => dropped[i] = 0
                        /\ i \notin open => dropped[i] = -NetPosted(invoices[i])
  BY <1>3 DEF Dropped
<1>5. \A i \in open : due[i] \in Int /\ due[i] = NetPosted(invoices[i])
  BY <1>3
<1>6. \A i \in InvoiceId : net[i] = IF i \in Issued THEN NetPosted(invoices[i]) ELSE 0
  BY DEF NetOf
<1>7. open \subseteq Issued
  OBVIOUS
<1>8. TotalOutstanding = SumFunction(due)
  BY DEF TotalOutstanding, Balances
<1> HIDE DEF net, dropped, open, due, balances
<1>9. /\ SumFunction(dropped) = SumFunctionOnSet(OnIds(dropped, Issued), InvoiceId)
      /\ SumFunction(dropped) \in Int
  BY <1>2, <1>4, SumOnIds
<1>10. SumFunction(due) = SumFunctionOnSet(OnIds(due, open), InvoiceId)
  BY <1>2, <1>5, SumOnIds
<1> DEFINE d == OnIds(dropped, Issued)  u == OnIds(due, open)
<1>11. \A i \in InvoiceId : net[i] \in Int /\ d[i] \in Int /\ u[i] = net[i] + d[i]
  BY <1>1, <1>3, <1>4, <1>5, <1>6, <1>7 DEF OnIds
<1> HIDE DEF d, u
<1>12. SumFunctionOnSet(u, InvoiceId) = SumFunctionOnSet(net, InvoiceId) + SumFunctionOnSet(d, InvoiceId)
  BY <1>11, BillingAssumption, SumPlus
<1>13. TotalOutstanding = SumFunction(balances) + PaidAhead + SumFunction(dropped)
  BY <1>1, <1>8, <1>9, <1>10, <1>12 DEF d, u
<1> QED BY <1>13 DEF OutstandingReconciles, balances, dropped

\* total_outstanding of the dashboard and the balances of the arrears report
\* differ by what is paid ahead and dropped only (report_service.py).
THEOREM DashboardReconciles == Spec => []OutstandingReconciles
BY SumsInvariant, ReconciledBySums, PTL DEF IInv, SumsInv

\* With nobody else on the tenant's invoices, each ledger row of the tenant is at most what
\* the invoice shows as due on the tenant's pages.
LEMMA RowsAreShown ==
  ASSUME IInv, NEW t \in Tenant,
         \A i \in Issued, u \in Tenant \ {t} : invoices[i].tenant = t => ledger[u][i] = 0,
         NEW i \in InvoiceId
  PROVE  ledger[t][i] <= IF i \in DueOf(t) THEN invoices[i].balance ELSE 0
<1>1. LedgerRow(t, i) /\ ledger[t][i] \in Int
  BY DEF IInv, LedgerMatchesInvoices, TypeOK, Tag
<1>2. CASE i \notin Issued
  BY <1>1, <1>2 DEF LedgerRow, DueOf
<1>3. CASE i \in Issued /\ invoices[i].tenant # t
  BY <1>1, <1>3 DEF LedgerRow, DueOf
<1>4. CASE i \in Issued /\ invoices[i].tenant = t
  <2>1. ledger[t][i] = NetPosted(invoices[i])
    BY <1>1, <1>4 DEF LedgerRow
  <2>2. /\ invoices[i] \in InvoiceRow /\ RowAddsUp(invoices[i]) /\ RowTruthful(invoices[i], today)
    BY <1>4 DEF IInv, TypeOK, ChargesAddUp, StatusTruthful
  <2>3. CASE invoices[i].status \in Outstanding
    <3>1. i \in DueOf(t)
      BY <1>4, <2>3 DEF DueOf
    <3>2. NetPosted(invoices[i]) = invoices[i].balance
      BY <2>3 DEF NetPosted, Outstanding
    <3> QED BY <1>1, <2>1, <3>1, <3>2
  <2>4. CASE invoices[i].status \notin Outstanding
    <3>1. i \notin DueOf(t)
      BY <2>4 DEF DueOf
    <3>2. NetPosted(invoices[i]) <= 0
      BY <2>2, <2>4 DEF NetPosted, RowAddsUp, RowTruthful, InvoiceRow, InvoiceStatus
    <3> QED BY <2>1, <3>1, <3>2
  <2> QED BY <2>3, <2>4
<1> QED BY <1>2, <1>3, <1>4

\* Then the balance of the tenant is at most what those pages add up to.
LEMMA BalanceIsShown ==
  ASSUME IInv, NEW t \in Tenant,
         \A i \in Issued, u \in Tenant \ {t} : invoices[i].tenant = t => ledger[u][i] = 0
  PROVE  TenantBalance(t) <= Balances(DueOf(t))
<1> DEFINE due == [i \in DueOf(t) |-> invoices[i].balance]
           all == OnIds(due, DueOf(t))
<1>1. TypeOK /\ DueOf(t) \in SUBSET InvoiceId /\ DOMAIN due = DueOf(t)
      /\ \A i \in DueOf(t) : due[i] \in Int
  BY DEF IInv, TypeOK, DueOf, InvoiceRow
<1>2. \A i \in InvoiceId : /\ ledger[t][i] \in Int /\ all[i] \in Int
                           /\ all[i] = IF i \in DueOf(t) THEN invoices[i].balance ELSE 0
  BY <1>1 DEF OnIds, TypeOK, Tag
<1>3. \A i \in InvoiceId : ledger[t][i] <= all[i]
  BY <1>2, RowsAreShown
<1>4. Balances(DueOf(t)) = SumFunction(due)
  BY DEF Balances
<1> HIDE DEF due
<1>5. SumFunction(due) = SumFunctionOnSet(all, InvoiceId)
  BY <1>1, SumOnIds
<1> HIDE DEF all
<1>6. SumFunctionOnSet(ledger[t], InvoiceId) <= SumFunctionOnSet(all, InvoiceId)
      /\ SumFunctionOnSet(ledger[t], InvoiceId) \in Int /\ SumFunctionOnSet(all, InvoiceId) \in Int
  BY <1>2, <1>3, BillingAssumption, SumAtMost, SumInt
<1>7. /\ TenantBalance(t) = ledger[t][NoInvoice] + SumFunctionOnSet(ledger[t], InvoiceId)
      /\ ledger[t][NoInvoice] <= 0 /\ ledger[t][NoInvoice] \in Int
  BY <1>1, BalanceIsSum DEF IInv, LedgerMatchesInvoices, TypeOK, Tag
<1> QED BY <1>4, <1>5, <1>6, <1>7

\* A tenant with something due has a next invoice.
LEMMA NextIsThere ==
  ASSUME TypeOK, NEW t \in Tenant, DueOf(t) # {}
  PROVE  NextInvoice(t) # {}
<1> DEFINE dues == {invoices[i].due : i \in DueOf(t)}
<1>1. \A i \in DueOf(t) : invoices[i].due \in Nat
  BY BillingAssumption DEF TypeOK, DueOf, InvoiceRow, Day
<1>2. dues \subseteq Nat /\ dues # {}
  BY <1>1
<1>3. PICK m \in dues : \A k \in dues : m <= k
  <2> HIDE DEF dues
  <2> QED BY <1>2, Least
<1>4. PICK i \in DueOf(t) : invoices[i].due = m
  BY <1>3
<1>5. i \in NextInvoice(t)
  BY <1>3, <1>4 DEF NextInvoice
<1> QED BY <1>5

\* No invoice, nothing due.
LEMMA EmptyBalances == Balances({}) = 0
<1> DEFINE none == [i \in {} |-> invoices[i].balance]
<1>1. Balances({}) = SumFunctionOnSet(none, DOMAIN none) /\ DOMAIN none = {}
  BY DEF Balances, SumFunction
<1> HIDE DEF none
<1>2. SumFunctionOnSet(none, DOMAIN none) = SumFunctionOnSet(none, {})
  BY <1>1
<1> QED BY <1>1, <1>2, SumEmpty

\* ArrearsArePayable follows from IInv.
LEMMA ArrearsByInvariant ==
  ASSUME IInv
  PROVE  ArrearsArePayable
<1> SUFFICES ASSUME NEW t \in Tenant,
                    \A i \in Issued, u \in Tenant \ {t} : invoices[i].tenant = t => ledger[u][i] = 0
             PROVE  /\ t \in Arrears => NextInvoice(t) # {} /\ TenantBalance(t) <= Balances(DueOf(t))
                    /\ OverdueAmount(t) # 0 =>
                         OverdueCount > 0 /\ \A i \in NextInvoice(t) : invoices[i].due < today
  BY DEF ArrearsArePayable
<1>1. TypeOK /\ TenantBalance(t) <= Balances(DueOf(t))
  BY BalanceIsShown DEF IInv
<1>2. ASSUME t \in Arrears PROVE NextInvoice(t) # {}
  <2>1. TenantBalance(t) > 0 /\ TenantBalance(t) \in Int
    BY <1>1, <1>2, BalanceIsSum DEF Arrears
  <2>2. DueOf(t) # {}
    <3> SUFFICES ASSUME DueOf(t) = {} PROVE FALSE
      OBVIOUS
    <3>1. Balances(DueOf(t)) = 0
      BY EmptyBalances
    <3> QED BY <1>1, <2>1, <3>1
  <2> QED BY <1>1, <2>2, NextIsThere
<1>3. ASSUME OverdueAmount(t) # 0
      PROVE  OverdueCount > 0 /\ \A i \in NextInvoice(t) : invoices[i].due < today
  <2> DEFINE late == {i \in DueOf(t) : invoices[i].status = "OVERDUE"}
             over == {i \in Issued : invoices[i].status = "OVERDUE"}
  <2>1. late # {}
    <3> SUFFICES ASSUME late = {} PROVE FALSE
      OBVIOUS
    <3>1. OverdueAmount(t) = Balances({})
      BY DEF OverdueAmount
    <3> QED BY <1>3, <3>1, EmptyBalances
  <2>2. PICK i \in DueOf(t) : invoices[i].status = "OVERDUE"
    BY <2>1
  <2>3. i \in Issued /\ i \in over
    BY <2>2 DEF DueOf
  <2>4. IsFiniteSet(over)
    <3>1. over \subseteq InvoiceId
      BY <1>1 DEF TypeOK
    <3> HIDE DEF over
    <3> QED BY <3>1, BillingAssumption, FS_Subset
  <2>5. Cardinality(over) \in Nat /\ Cardinality(over) # 0
    <3> HIDE DEF over
    <3> QED BY <2>3, <2>4, FS_CardinalityType, FS_EmptySet
  <2>6. OverdueCount > 0
    BY <2>5 DEF OverdueCount
  <2>7. invoices[i].due < today /\ invoices[i].due \in Int /\ today \in Int
    BY <2>2, <2>3 DEF IInv, StatusTruthful, RowTruthful, TypeOK, InvoiceRow, Day
  <2>8. ASSUME NEW j \in NextInvoice(t) PROVE invoices[j].due < today
    <3>1. invoices[j].due <= invoices[i].due /\ invoices[j].due \in Int
      BY <1>1, <2>2, <2>8 DEF NextInvoice, DueOf, TypeOK, InvoiceRow, Day
    <3> QED BY <2>7, <3>1
  <2> QED BY <2>6, <2>8
<1> QED BY <1>1, <1>2, <1>3

\* A tenant in the arrears report finds an invoice to pay on the pages, in every
\* reachable state (report_service.py, tenant.py, pages.py).
THEOREM ArrearsAreShown == Spec => []ArrearsArePayable
BY Invariance, ArrearsByInvariant, PTL
=============================================================================
