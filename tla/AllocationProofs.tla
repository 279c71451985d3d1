-------------------------- MODULE AllocationProofs --------------------------
(***************************************************************************)
(* Proofs about Allocation, for any payments, invoices, due dates and      *)
(* amounts.                                                                *)
(*                                                                         *)
(* Inv: types, the order of a request's walk over the invoices (Walk) and  *)
(* what its drafts change (Drafted).  Books adds what committed and read   *)
(* rows have to do with the ledger; Leftovers what a request with a rest   *)
(* has done.                                                               *)
(***************************************************************************)
EXTENDS Allocation, FiniteSetTheorems, WellFoundedInduction, TLAPS

----------------------------------------------------------------------------
(* Lists and amounts.                                                      *)

LEMMA MinOfTwo ==
  ASSUME NEW m \in Int, NEW n \in Int
  PROVE  Min({m, n}) = IF m <= n THEN m ELSE n
  BY DEF Min

LEMMA RowIsNotNone ==
  ASSUME NEW r \in InvoiceRow
  PROVE  r # NoRow
  BY DEF InvoiceRow, InvoiceStatus, NoRow

LEMMA ListHasAll ==
  ASSUME NEW S, IsFiniteSet(S), NEW s \in SetToSeqs(S)
  PROVE  /\ s \in Seq(S)
         /\ \A m, n \in DOMAIN s : m # n => s[m] # s[n]
         /\ S \subseteq ToSet(s)
<1> DEFINE n == Cardinality(S)
<1>1. n \in Nat
  BY FS_CardinalityType
<1>2. s \in [1 .. n -> S] /\ \A i, j \in 1 .. n : i # j => s[i] # s[j]
  BY DEF SetToSeqs
<1>3. s \in Injection(1 .. n, S)
  BY <1>2 DEF Injection, IsInjective
<1>4. Cardinality(1 .. n) = n
  <2> HIDE DEF n
  <2>1. Cardinality(1 .. n) = IF 1 > n THEN 0 ELSE n - 1 + 1
    BY <1>1, FS_Interval
  <2> QED BY <1>1, <2>1
<1>5. s \in Surjection(1 .. n, S)
  BY <1>3, <1>4, FS_Injection
<1>6. \A e \in S : \E i \in 1 .. n : s[i] = e
  BY <1>5 DEF Surjection
<1> HIDE DEF n
<1>7. DOMAIN s = 1 .. n
  BY <1>2
<1>8. S \subseteq ToSet(s)
  BY <1>6, <1>7 DEF ToSet
<1>9. s \in Seq(S)
  BY <1>1, <1>2
<1> QED BY <1>2, <1>7, <1>8, <1>9

LEMMA ListIs ==
  ASSUME AllocationAssumption, NEW x \in Request, NEW s \in List(x)
  PROVE  /\ s \in Seq(Invoice)
         /\ \A m, n \in DOMAIN s : m < n => s[m] # s[n] /\ Due[s[m]] <= Due[s[n]]
         /\ Named[x] \subseteq ToSet(s)
         /\ Named[x] = {} => Outstanding \subseteq ToSet(s)
<1>1. CASE Named[x] # {}
  <2>1. PICK i \in Named[x] : s = <<i>>
    BY <1>1 DEF List
  <2>2. Named[x] = {i} /\ i \in Invoice
    BY <2>1 DEF AllocationAssumption
  <2>3. ToSet(s) = {i}
    BY <2>1 DEF ToSet
  <2> QED BY <1>1, <2>1, <2>2, <2>3
<1>2. CASE Named[x] = {}
  <2>1. IsFiniteSet(Outstanding)
    BY FS_Subset DEF Outstanding, AllocationAssumption
  <2>2. /\ s \in SetToSeqs(Outstanding)
        /\ \A m, n \in DOMAIN s : m < n => Due[s[m]] <= Due[s[n]]
    BY <1>2 DEF List
  <2>3. /\ s \in Seq(Outstanding) /\ Outstanding \subseteq ToSet(s)
        /\ \A m, n \in DOMAIN s : m # n => s[m] # s[n]
    BY <2>1, <2>2, ListHasAll
  <2>4. s \in Seq(Invoice) /\ DOMAIN s \subseteq Nat
    BY <2>3 DEF Outstanding
  <2> QED BY <1>2, <2>2, <2>3, <2>4
<1> QED BY <1>1, <1>2

----------------------------------------------------------------------------
(* The walk of a request over its list: no invoice comes twice, and those  *)
(* it has written are due no later than those to come.                     *)

WalkOf(x) ==
  /\ at[x] # "loop" => Locks(x) = {}
  /\ at[x] = "new" => queue[x] = <<>> /\ Seen(x) = {}
  /\ Locks(x) \subseteq Seen(x)
  /\ \A n \in DOMAIN queue[x] :
       /\ queue[x][n] \in Seen(x)
       /\ \A m \in DOMAIN queue[x] : m < n =>
            queue[x][m] # queue[x][n] /\ Due[queue[x][m]] <= Due[queue[x][n]]
       /\ \A i \in Locks(x) : i # queue[x][n] /\ Due[i] <= Due[queue[x][n]]
Walk == \A x \in Request : WalkOf(x)

\* What a turn applies, and to which invoice.
LEMMA AppliedIs ==
  ASSUME TypeOK, NEW x \in Request, WalkOf(x), ~Ended(x), NEW i, i = Head(queue[x])
  PROVE  /\ i \in Seen(x) /\ i \in Invoice /\ i \notin Locks(x) /\ saw[x][i] \in InvoiceRow
         /\ remaining[x] \in Nat \ {0}
         /\ Applied(x) \in Nat /\ Applied(x) <= remaining[x] /\ Applied(x) <= saw[x][i].balance
         /\ Applied(x) = remaining[x] \/ Applied(x) = saw[x][i].balance
<1>1. queue[x] \in Seq(Invoice) /\ queue[x] # <<>> /\ remaining[x] \in Nat \ {0}
  BY DEF TypeOK, Ended
<1>2. 1 \in DOMAIN queue[x] /\ i = queue[x][1]
  BY <1>1
<1>3. i \in Seen(x) /\ i \notin Locks(x)
  BY <1>2 DEF WalkOf
<1>4. i \in Invoice /\ saw[x][i] \in InvoiceRow
  BY <1>3 DEF Seen, TypeOK, Rows
<1>5. saw[x][i].balance \in Nat
  BY <1>4 DEF InvoiceRow
<1>6. Applied(x) = IF remaining[x] <= saw[x][i].balance THEN remaining[x] ELSE saw[x][i].balance
  BY <1>1, <1>5, MinOfTwo DEF Applied
<1> QED BY <1>1, <1>3, <1>4, <1>5, <1>6

LEMMA PayIs ==
  ASSUME AllocationAssumption, NEW i \in Invoice, NEW r \in InvoiceRow, NEW a \in Nat, a <= r.balance
  PROVE  /\ Pay(i, r, a) \in InvoiceRow
         /\ Pay(i, r, a).paid = r.paid + a /\ Pay(i, r, a).balance = r.balance - a
  BY DEF Pay, InvoiceRow, InvoiceStatus, AllocationAssumption

\* A turn's effect: the row of the invoice it comes to, if any.
LEMMA TurnIs ==
  ASSUME AllocationAssumption, TypeOK, NEW x \in Request, WalkOf(x), Turn(x),
         NEW i, i = Head(queue[x]), NEW a, a = Applied(x)
  PROVE  /\ at[x] = "loop" /\ ~Ended(x) /\ at' = at /\ saw' = saw
         /\ queue' = [queue EXCEPT ![x] = Tail(@)]
         /\ remaining' = [remaining EXCEPT ![x] = @ - a]
         /\ a > 0 => /\ draft' = [draft EXCEPT ![x][i] = Pay(i, saw[x][i], a)]
                     /\ Locks(x)' = Locks(x) \cup {i}
                     /\ draft'[x][i] = Pay(i, saw[x][i], a) /\ draft'[x][i] \in InvoiceRow
         /\ a = 0 => draft' = draft
         /\ \A y \in Request : Seen(y)' = Seen(y)
         /\ \A y \in Request \ {x} : draft'[y] = draft[y] /\ Locks(y)' = Locks(y)
         /\ \A j \in Invoice \ {i} : draft'[x][j] = draft[x][j]
<1>1. /\ at[x] = "loop" /\ ~Ended(x) /\ at' = at /\ saw' = saw
      /\ queue' = [queue EXCEPT ![x] = Tail(@)]
      /\ remaining' = [remaining EXCEPT ![x] = @ - a]
      /\ draft' = IF a > 0 THEN [draft EXCEPT ![x][i] = Pay(i, saw[x][i], a)] ELSE draft
  BY DEF Turn
<1>2. /\ i \in Invoice /\ saw[x][i] \in InvoiceRow /\ a \in Nat /\ a <= saw[x][i].balance
  BY <1>1, AppliedIs
<1>3. Pay(i, saw[x][i], a) \in InvoiceRow
  BY <1>2, PayIs
<1>4. Pay(i, saw[x][i], a) # NoRow
  BY <1>3, RowIsNotNone
<1>5. draft \in [Request -> Rows] /\ draft[x] \in [Invoice -> InvoiceRow \cup {NoRow}]
  BY DEF TypeOK, Rows
<1>6. a > 0 => /\ draft'[x][i] = Pay(i, saw[x][i], a)
               /\ \A j \in Invoice \ {i} : draft'[x][j] = draft[x][j]
  BY <1>1, <1>2, <1>5
<1>7. a > 0 => Locks(x)' = Locks(x) \cup {i}
  BY <1>2, <1>4, <1>6 DEF Locks
<1>8. \A y \in Request \ {x} : draft'[y] = draft[y]
  BY <1>1, <1>5
<1>9. \A y \in Request \ {x} : Locks(y)' = Locks(y)
  BY <1>8 DEF Locks
<1>10. \A y \in Request : Seen(y)' = Seen(y)
  BY <1>1 DEF Seen
<1> QED BY <1>1, <1>2, <1>3, <1>6, <1>7, <1>8, <1>9, <1>10

\* A query's effect: the rows of its list are seen.
LEMMA QueryIs ==
  ASSUME AllocationAssumption, TypeOK, NEW x \in Request, Query(x)
  PROVE  /\ at[x] = "new" /\ at' = [at EXCEPT ![x] = "loop"]
         /\ queue'[x] \in List(x) /\ queue' = [queue EXCEPT ![x] = queue'[x]]
         /\ saw'[x] \in Rows /\ saw' = [saw EXCEPT ![x] = saw'[x]]
         /\ Seen(x)' = ToSet(queue'[x]) /\ \A i \in Seen(x)' : saw'[x][i] = invoices[i]
         /\ \A y \in Request \ {x} : Seen(y)' = Seen(y) /\ saw'[y] = saw[y] /\ queue'[y] = queue[y]
         /\ draft' = draft /\ \A y \in Request : Locks(y)' = Locks(y)
         /\ invoices' = invoices /\ ledger' = ledger /\ spare' = spare /\ lost' = lost
         /\ remaining' = remaining
<1>1. PICK s \in List(x) : queue' = [queue EXCEPT ![x] = s]
  BY DEF Query
<1>2. queue'[x] = s /\ queue' = [queue EXCEPT ![x] = queue'[x]]
  BY <1>1 DEF TypeOK
<1>3. /\ at[x] = "new" /\ at' = [at EXCEPT ![x] = "loop"] /\ draft' = draft
      /\ invoices' = invoices /\ ledger' = ledger /\ spare' = spare /\ lost' = lost
      /\ remaining' = remaining
      /\ saw' = [saw EXCEPT ![x] =
                   [i \in Invoice |-> IF i \in ToSet(queue'[x]) THEN invoices[i] ELSE NoRow]]
  BY DEF Query, committed
<1>4. saw'[x] = [i \in Invoice |-> IF i \in ToSet(queue'[x]) THEN invoices[i] ELSE NoRow]
  BY <1>3 DEF TypeOK
<1>5. saw'[x] \in Rows
  BY <1>4 DEF TypeOK, Rows
<1>6. ToSet(queue'[x]) \subseteq Invoice
  <2>1. s \in Seq(Invoice)
    BY ListIs
  <2> QED BY <1>2, <2>1 DEF ToSet
<1>7. \A i \in Invoice : invoices[i] # NoRow
  BY RowIsNotNone DEF TypeOK
<1>8. Seen(x)' = ToSet(queue'[x]) /\ \A i \in Seen(x)' : saw'[x][i] = invoices[i]
  BY <1>4, <1>6, <1>7 DEF Seen
<1>9. \A y \in Request \ {x} : saw'[y] = saw[y] /\ queue'[y] = queue[y]
  BY <1>1, <1>3 DEF TypeOK
<1>10. \A y \in Request \ {x} : Seen(y)' = Seen(y)
  BY <1>9 DEF Seen
<1>11. \A y \in Request : Locks(y)' = Locks(y)
  BY <1>3 DEF Locks
<1>12. saw' = [saw EXCEPT ![x] = saw'[x]]
  BY <1>3, <1>4
<1> QED BY <1>1, <1>2, <1>3, <1>5, <1>8, <1>9, <1>10, <1>11, <1>12

\* A request that commits or is rolled back gives up its locks.
LEMMA LetGo ==
  ASSUME TypeOK, NEW x \in Request, draft' = [draft EXCEPT ![x] = Nothing], saw' = saw
  PROVE  /\ draft' \in [Request -> Rows]
         /\ Locks(x)' = {} /\ \A y \in Request : Seen(y)' = Seen(y)
         /\ \A y \in Request \ {x} : draft'[y] = draft[y] /\ Locks(y)' = Locks(y)
<1>1. Nothing \in Rows
  BY DEF Nothing, Rows
<1>2. draft'[x] = Nothing /\ \A y \in Request \ {x} : draft'[y] = draft[y]
  BY DEF TypeOK
<1>3. Locks(x)' = {}
  BY <1>2 DEF Locks, Nothing
<1>4. \A y \in Request \ {x} : Locks(y)' = Locks(y)
  BY <1>2 DEF Locks
<1>5. \A y \in Request : Seen(y)' = Seen(y)
  BY DEF Seen
<1>6. draft' \in [Request -> Rows]
  BY <1>1 DEF TypeOK
<1> QED BY <1>2, <1>3, <1>4, <1>5, <1>6

\* The rows of a commit: locked ones as drafted, the others as they are.
LEMMA CommitIs ==
  ASSUME TypeOK, NEW x \in Request, Commit(x),
         \A i \in Locks(x) : /\ i \in Seen(x)
                             /\ draft[x][i].paid # saw[x][i].paid
                             /\ draft[x][i].balance # saw[x][i].balance
  PROVE  /\ \A i \in Locks(x) :
              /\ invoices'[i].paid = draft[x][i].paid /\ invoices'[i].balance = draft[x][i].balance
              /\ saw[x][i] = invoices[i] => invoices'[i].status = draft[x][i].status
              /\ saw[x][i] # invoices[i] => i \in lost'
              /\ ledger'[i] = ledger[i] - (draft[x][i].paid - saw[x][i].paid)
         /\ \A i \in Invoice \ Locks(x) : invoices'[i] = invoices[i] /\ ledger'[i] = ledger[i]
         /\ lost \subseteq lost' /\ lost' \subseteq Invoice
         /\ invoices' \in [Invoice -> InvoiceRow] /\ ledger' \in [Invoice -> Int]
         /\ at[x] = "loop" /\ at' = [at EXCEPT ![x] = "done"] /\ Ended(x)
         /\ spare' = [spare EXCEPT ![x] = remaining[x]]
         /\ saw' = saw /\ queue' = queue /\ remaining' = remaining
         /\ draft' = [draft EXCEPT ![x] = Nothing]
<1>1. /\ at[x] = "loop" /\ at' = [at EXCEPT ![x] = "done"] /\ Ended(x)
      /\ spare' = [spare EXCEPT ![x] = remaining[x]]
      /\ saw' = saw /\ queue' = queue /\ remaining' = remaining
      /\ draft' = [draft EXCEPT ![x] = Nothing]
      /\ invoices' = [i \in Invoice |->
           IF i \in Locks(x) THEN Written(saw[x][i], draft[x][i], invoices[i]) ELSE invoices[i]]
      /\ ledger' = [i \in Invoice |-> IF i \in Locks(x) THEN ledger[i] - Posted(x, i) ELSE ledger[i]]
      /\ lost' = lost \cup {i \in Locks(x) : invoices[i] # saw[x][i]}
  BY DEF Commit
<1>2. Locks(x) \subseteq Invoice
  BY DEF Locks
<1>3. ASSUME NEW i \in Locks(x)
      PROVE  draft[x][i] \in InvoiceRow /\ saw[x][i] \in InvoiceRow /\ invoices[i] \in InvoiceRow
  BY <1>2, <1>3 DEF Locks, Seen, TypeOK, Rows
<1>4. ASSUME NEW i \in Locks(x)
      PROVE  /\ invoices'[i] = Written(saw[x][i], draft[x][i], invoices[i])
             /\ ledger'[i] = ledger[i] - (draft[x][i].paid - saw[x][i].paid)
             /\ ledger[i] \in Int /\ i \in Invoice
  BY <1>1, <1>2 DEF TypeOK, Posted
<1>5. ASSUME NEW i \in Locks(x)
      PROVE  /\ invoices'[i].paid = draft[x][i].paid /\ invoices'[i].balance = draft[x][i].balance
             /\ saw[x][i] = invoices[i] => invoices'[i].status = draft[x][i].status
             /\ invoices'[i] \in InvoiceRow /\ ledger'[i] \in Int
  <2> DEFINE o == saw[x][i]  d == draft[x][i]  r == invoices[i]
  <2>1. d.paid # o.paid /\ d.balance # o.balance
    OBVIOUS
  <2>2. invoices'[i] = [paid |-> d.paid, balance |-> d.balance,
                        status |-> IF d.status # o.status THEN d.status ELSE r.status]
    BY <1>4, <2>1 DEF Written, Column
  <2>3. /\ d.paid \in Nat /\ d.balance \in Nat /\ d.status \in InvoiceStatus
        /\ o.paid \in Nat /\ r.status \in InvoiceStatus
    BY <1>3 DEF InvoiceRow
  <2> QED BY <1>4, <2>2, <2>3 DEF InvoiceRow
<1>6. \A i \in Invoice \ Locks(x) : invoices'[i] = invoices[i] /\ ledger'[i] = ledger[i]
  BY <1>1
<1>7. invoices' \in [Invoice -> InvoiceRow] /\ ledger' \in [Invoice -> Int]
  <2>1. \A i \in Invoice : invoices'[i] \in InvoiceRow /\ ledger'[i] \in Int
    BY <1>5, <1>6 DEF TypeOK
  <2> QED BY <1>1, <2>1
<1>8. lost \subseteq lost' /\ lost' \subseteq Invoice
  BY <1>1, <1>2 DEF TypeOK
<1>9. \A i \in Locks(x) : saw[x][i] # invoices[i] => i \in lost'
  BY <1>1
<1> QED BY <1>1, <1>4, <1>5, <1>6, <1>7, <1>8, <1>9

----------------------------------------------------------------------------
(* Types and the walk.                                                     *)

\* What a draft changes in the row it was made from.
Drafted ==
  \A x \in Request : \A i \in Locks(x) :
    /\ draft[x][i].paid + draft[x][i].balance = saw[x][i].paid + saw[x][i].balance
    /\ draft[x][i].balance < saw[x][i].balance

Inv == TypeOK /\ Walk /\ Drafted

LEMMA RowNumbers ==
  ASSUME TypeOK, NEW x \in Request, NEW i \in Locks(x) \cap Seen(x)
  PROVE  /\ i \in Invoice /\ draft[x][i].paid \in Nat /\ draft[x][i].balance \in Nat
         /\ saw[x][i].paid \in Nat /\ saw[x][i].balance \in Nat
<1>1. i \in Invoice /\ draft[x][i] \in InvoiceRow /\ saw[x][i] \in InvoiceRow
  BY DEF Locks, Seen, TypeOK, Rows
<1> QED BY <1>1 DEF InvoiceRow

LEMMA InvInit ==
  ASSUME AllocationAssumption, Init
  PROVE  Inv
<1>1. Nothing \in Rows
  BY DEF Nothing, Rows
<1>2. TypeOK
  BY <1>1 DEF Init, TypeOK, AllocationAssumption, InvoiceRow, InvoiceStatus
<1>3. \A x \in Request : Locks(x) = {} /\ Seen(x) = {}
  BY DEF Init, Locks, Seen, Nothing
<1>4. \A x \in Request : queue[x] = <<>> /\ DOMAIN queue[x] = {} /\ at[x] = "new"
  BY DEF Init
<1> QED BY <1>2, <1>3, <1>4 DEF Inv, Walk, WalkOf, Drafted

LEMMA CommitOf ==
  ASSUME Inv, NEW x \in Request
  PROVE  \A i \in Locks(x) : /\ i \in Seen(x)
                             /\ draft[x][i].paid # saw[x][i].paid
                             /\ draft[x][i].balance # saw[x][i].balance
<1> SUFFICES ASSUME NEW i \in Locks(x)
             PROVE  /\ i \in Seen(x)
                    /\ draft[x][i].paid # saw[x][i].paid
                    /\ draft[x][i].balance # saw[x][i].balance
  OBVIOUS
<1>1. i \in Seen(x)
  BY DEF Inv, Walk, WalkOf
<1>2. /\ draft[x][i].paid \in Nat /\ draft[x][i].balance \in Nat
      /\ saw[x][i].paid \in Nat /\ saw[x][i].balance \in Nat
  BY <1>1, RowNumbers DEF Inv
<1> QED BY <1>1, <1>2 DEF Inv, Drafted

LEMMA TypeStep ==
  ASSUME AllocationAssumption, Inv, NEW x \in Request,
         Query(x) \/ Turn(x) \/ Commit(x) \/ Rollback(x)
  PROVE  TypeOK'
<1>1. CASE Query(x)
  <2>1. queue'[x] \in Seq(Invoice)
    BY <1>1, QueryIs, ListIs DEF Inv
  <2> QED BY <1>1, <2>1, QueryIs DEF Inv, TypeOK
<1>2. CASE Turn(x)
  <2> DEFINE i == Head(queue[x])  a == Applied(x)
  <2>1. /\ ~Ended(x) /\ i \in Invoice /\ a \in Nat /\ a <= remaining[x]
    BY <1>2, TurnIs, AppliedIs DEF Inv, Walk
  <2>2. /\ at' = at /\ saw' = saw /\ queue' = [queue EXCEPT ![x] = Tail(@)]
        /\ remaining' = [remaining EXCEPT ![x] = @ - a]
        /\ a > 0 => draft' = [draft EXCEPT ![x][i] = Pay(i, saw[x][i], a)]
                    /\ Pay(i, saw[x][i], a) \in InvoiceRow
        /\ a = 0 => draft' = draft
    BY <1>2, TurnIs DEF Inv, Walk
  <2> HIDE DEF i, a
  <2>3. draft' \in [Request -> Rows]
    <3>1. draft[x] \in [Invoice -> InvoiceRow \cup {NoRow}] /\ draft \in [Request -> Rows]
      BY DEF Inv, TypeOK, Rows
    <3>2. CASE a > 0
      <4>1. [draft[x] EXCEPT ![i] = Pay(i, saw[x][i], a)] \in Rows
        BY <2>1, <2>2, <3>1, <3>2 DEF Rows
      <4>2. draft' = [draft EXCEPT ![x] = [draft[x] EXCEPT ![i] = Pay(i, saw[x][i], a)]]
        BY <2>2, <3>2
      <4> QED BY <3>1, <4>1, <4>2
    <3>3. CASE a = 0
      BY <2>2, <3>1, <3>3
    <3> QED BY <2>1, <3>2, <3>3
  <2>4. queue' \in [Request -> Seq(Invoice)]
    BY <2>1, <2>2 DEF Inv, TypeOK, Ended
  <2>5. remaining' \in [Request -> Nat]
    BY <2>1, <2>2 DEF Inv, TypeOK
  <2>6. UNCHANGED committed
    BY <1>2 DEF Turn
  <2> QED BY <2>2, <2>3, <2>4, <2>5, <2>6 DEF Inv, TypeOK, committed
<1>3. CASE Commit(x)
  <2>1. /\ invoices' \in [Invoice -> InvoiceRow] /\ ledger' \in [Invoice -> Int]
        /\ lost' \subseteq Invoice /\ at' = [at EXCEPT ![x] = "done"]
        /\ spare' = [spare EXCEPT ![x] = remaining[x]]
        /\ saw' = saw /\ queue' = queue /\ remaining' = remaining
        /\ draft' = [draft EXCEPT ![x] = Nothing]
    BY <1>3, CommitIs, CommitOf DEF Inv
  <2>2. draft' \in [Request -> Rows]
    BY <2>1, LetGo DEF Inv
  <2> QED BY <2>1, <2>2 DEF Inv, TypeOK
<1>4. CASE Rollback(x)
  <2>1. draft' = [draft EXCEPT ![x] = Nothing] /\ saw' = saw
    BY <1>4 DEF Rollback
  <2>2. draft' \in [Request -> Rows]
    BY <2>1, LetGo DEF Inv
  <2> QED BY <1>4, <2>2 DEF Rollback, Inv, TypeOK, committed
<1> QED BY <1>1, <1>2, <1>3, <1>4

\* Nothing of a request's walk changes in the steps of another.
LEMMA WalkKept ==
  ASSUME NEW y \in Request, WalkOf(y), at'[y] = at[y], queue'[y] = queue[y],
         Locks(y)' = Locks(y), Seen(y)' = Seen(y)
  PROVE  WalkOf(y)'
  BY DEF WalkOf

LEMMA WalkStep ==
  ASSUME AllocationAssumption, Inv, NEW x \in Request,
         Query(x) \/ Turn(x) \/ Commit(x) \/ Rollback(x)
  PROVE  Walk'
<1>1. TypeOK /\ \A y \in Request : WalkOf(y)
  BY DEF Inv, Walk
<1>2. CASE Query(x)
  <2>1. \A y \in Request \ {x} : WalkOf(y)'
    BY <1>1, <1>2, QueryIs, WalkKept DEF TypeOK
  <2>2. at'[x] = "loop" /\ Locks(x)' = {} /\ Seen(x)' = ToSet(queue'[x])
    <3>1. /\ at[x] = "new" /\ at' = [at EXCEPT ![x] = "loop"]
          /\ Locks(x)' = Locks(x) /\ Seen(x)' = ToSet(queue'[x])
      BY <1>1, <1>2, QueryIs
    <3>2. Locks(x) = {}
      BY <1>1, <3>1 DEF WalkOf
    <3> QED BY <1>1, <3>1, <3>2 DEF TypeOK
  <2>3. /\ queue'[x] \in Seq(Invoice)
        /\ \A m, n \in DOMAIN queue'[x] : m < n =>
             queue'[x][m] # queue'[x][n] /\ Due[queue'[x][m]] <= Due[queue'[x][n]]
    BY <1>1, <1>2, QueryIs, ListIs
  <2>4. \A n \in DOMAIN queue'[x] : queue'[x][n] \in ToSet(queue'[x])
    BY DEF ToSet
  <2>5. WalkOf(x)'
    BY <2>2, <2>3, <2>4 DEF WalkOf
  <2> QED BY <2>1, <2>5 DEF Walk
<1>3. CASE Turn(x)
  <2> DEFINE i == Head(queue[x])  q == queue[x]
  <2>1. \A y \in Request \ {x} : WalkOf(y)'
    <3>1. /\ at' = at /\ queue' = [queue EXCEPT ![x] = Tail(@)]
          /\ \A y \in Request : Seen(y)' = Seen(y)
          /\ \A y \in Request \ {x} : Locks(y)' = Locks(y)
      BY <1>1, <1>3, TurnIs
    <3>2. \A y \in Request \ {x} : queue'[y] = queue[y]
      BY <1>1, <3>1 DEF TypeOK
    <3> QED BY <1>1, <3>1, <3>2, WalkKept
  <2>2. /\ at'[x] = "loop" /\ ~Ended(x) /\ queue'[x] = Tail(q) /\ Seen(x)' = Seen(x)
        /\ Locks(x)' \subseteq Locks(x) \cup {i} /\ i \in Seen(x)
    <3>1. Applied(x) \in Nat /\ i \in Seen(x)
      BY <1>1, <1>3, TurnIs, AppliedIs
    <3>2. Applied(x) = 0 => Locks(x)' = Locks(x)
      BY <1>1, <1>3, TurnIs DEF Locks
    <3>3. /\ at[x] = "loop" /\ at' = at /\ ~Ended(x) /\ queue' = [queue EXCEPT ![x] = Tail(@)]
          /\ Seen(x)' = Seen(x)
          /\ Applied(x) > 0 => Locks(x)' = Locks(x) \cup {i}
      BY <1>1, <1>3, TurnIs
    <3>4. queue'[x] = Tail(q)
      BY <1>1, <3>3 DEF TypeOK
    <3> QED BY <3>1, <3>2, <3>3, <3>4
  <2>3. q \in Seq(Invoice) /\ q # <<>> /\ i = q[1]
    BY <1>1, <2>2 DEF TypeOK, Ended
  <2>4. /\ DOMAIN Tail(q) = 1 .. Len(q) - 1 /\ 1 \in DOMAIN q
        /\ \A n \in DOMAIN Tail(q) : n \in Nat /\ n + 1 \in DOMAIN q /\ Tail(q)[n] = q[n + 1] /\ 1 < n + 1
    BY <2>3
  <2> HIDE DEF i, q
  <2>5. ASSUME NEW n \in DOMAIN queue'[x]
        PROVE  /\ queue'[x][n] \in Seen(x)'
               /\ \A m \in DOMAIN queue'[x] : m < n =>
                    queue'[x][m] # queue'[x][n] /\ Due[queue'[x][m]] <= Due[queue'[x][n]]
               /\ \A j \in Locks(x)' : j # queue'[x][n] /\ Due[j] <= Due[queue'[x][n]]
    <3>1. /\ \A k \in DOMAIN q :
               /\ q[k] \in Seen(x)
               /\ \A m \in DOMAIN q : m < k => q[m] # q[k] /\ Due[q[m]] <= Due[q[k]]
               /\ \A j \in Locks(x) : j # q[k] /\ Due[j] <= Due[q[k]]
      BY <1>1 DEF WalkOf, q
    <3>2. n + 1 \in DOMAIN q /\ n \in Nat /\ queue'[x][n] = q[n + 1]
      BY <2>2, <2>4, <2>5
    <3>3. queue'[x][n] \in Seen(x)'
      BY <2>2, <3>1, <3>2
    <3>4. ASSUME NEW m \in DOMAIN queue'[x], m < n
          PROVE  queue'[x][m] # queue'[x][n] /\ Due[queue'[x][m]] <= Due[queue'[x][n]]
      <4>1. m + 1 \in DOMAIN q /\ m + 1 < n + 1 /\ queue'[x][m] = q[m + 1]
        BY <2>2, <2>4, <3>2, <3>4
      <4> QED BY <3>1, <3>2, <4>1
    <3>5. i # q[n + 1] /\ Due[i] <= Due[q[n + 1]]
      BY <2>2, <2>3, <2>4, <2>5, <3>1, <3>2
    <3> QED BY <2>2, <3>1, <3>2, <3>3, <3>4, <3>5
  <2>6. Locks(x)' \subseteq Seen(x)'
    BY <1>1, <2>2 DEF WalkOf
  <2>7. WalkOf(x)'
    BY <2>2, <2>5, <2>6 DEF WalkOf
  <2> QED BY <2>1, <2>7 DEF Walk
<1>4. CASE Commit(x) \/ Rollback(x)
  <2>1. /\ draft' = [draft EXCEPT ![x] = Nothing] /\ saw' = saw /\ queue' = queue
        /\ at' = [at EXCEPT ![x] = "done"] \/ at' = [at EXCEPT ![x] = "failed"]
    BY <1>4 DEF Commit, Rollback
  <2>2. /\ Locks(x)' = {} /\ \A y \in Request : Seen(y)' = Seen(y)
        /\ \A y \in Request \ {x} : Locks(y)' = Locks(y) /\ at'[y] = at[y]
        /\ at'[x] \in {"done", "failed"}
    BY <1>1, <2>1, LetGo DEF TypeOK
  <2>3. \A y \in Request \ {x} : WalkOf(y)'
    BY <1>1, <2>1, <2>2, WalkKept
  <2>4. WalkOf(x)'
    BY <1>1, <2>1, <2>2 DEF WalkOf
  <2> QED BY <2>3, <2>4 DEF Walk
<1> QED BY <1>2, <1>3, <1>4

LEMMA DraftedStep ==
  ASSUME AllocationAssumption, Inv, NEW x \in Request,
         Query(x) \/ Turn(x) \/ Commit(x) \/ Rollback(x)
  PROVE  Drafted'
<1> DEFINE Good(y, i) ==
      /\ draft[y][i].paid + draft[y][i].balance = saw[y][i].paid + saw[y][i].balance
      /\ draft[y][i].balance < saw[y][i].balance
<1>1. TypeOK /\ \A y \in Request : WalkOf(y) /\ \A i \in Locks(y) : Good(y, i)
  BY DEF Inv, Walk, Drafted
<1>2. CASE Query(x)
  <2>1. Locks(x)' = {}
    BY <1>1, <1>2, QueryIs DEF WalkOf
  <2> QED BY <1>1, <1>2, <2>1, QueryIs DEF Drafted
<1>3. CASE Turn(x)
  <2>0. PICK i, a : i = Head(queue[x]) /\ a = Applied(x)
    OBVIOUS
  <2>1. \A y \in Request \ {x} : \A j \in Locks(y)' : Good(y, j)'
    BY <1>1, <1>3, <2>0, TurnIs
  <2>2. /\ i \in Invoice /\ a \in Nat /\ a <= saw[x][i].balance /\ saw[x][i] \in InvoiceRow
        /\ saw' = saw
    BY <1>1, <1>3, <2>0, TurnIs, AppliedIs
  <2>3. CASE a = 0
    <3>1. draft' = draft /\ Locks(x)' = Locks(x)
      BY <1>1, <1>3, <2>0, <2>3, TurnIs DEF Locks
    <3> QED BY <1>1, <2>1, <2>2, <3>1 DEF Drafted
  <2>4. CASE a > 0
    <3>1. /\ Locks(x)' = Locks(x) \cup {i} /\ draft'[x][i] = Pay(i, saw[x][i], a)
          /\ \A j \in Invoice \ {i} : draft'[x][j] = draft[x][j]
      BY <1>1, <1>3, <2>0, <2>4, TurnIs
    <3>2. Good(x, i)'
      <4>1. saw[x][i].paid \in Nat /\ saw[x][i].balance \in Nat
        BY <2>2 DEF InvoiceRow
      <4>2. draft'[x][i].paid = saw[x][i].paid + a /\ draft'[x][i].balance = saw[x][i].balance - a
        BY <2>2, <3>1, PayIs
      <4> QED BY <2>2, <2>4, <4>1, <4>2
    <3>3. \A j \in Locks(x) \ {i} : Good(x, j)'
      BY <1>1, <2>2, <3>1 DEF Locks
    <3> HIDE DEF Good
    <3>4. \A j \in Locks(x)' : Good(x, j)'
      BY <3>1, <3>2, <3>3
    <3> QED BY <2>1, <3>4 DEF Drafted, Good
  <2> QED BY <2>2, <2>3, <2>4
<1>4. CASE Commit(x) \/ Rollback(x)
  <2>1. draft' = [draft EXCEPT ![x] = Nothing] /\ saw' = saw
    BY <1>4 DEF Commit, Rollback
  <2> QED BY <1>1, <2>1, LetGo DEF Drafted
<1> QED BY <1>2, <1>3, <1>4

\* The steps of the specification are those of one request.
LEMMA StepIs ==
  ASSUME Next
  PROVE  \E x \in Request : Query(x) \/ Turn(x) \/ Commit(x) \/ Rollback(x)
  BY DEF Next, Fail

LEMMA InvStutters ==
  ASSUME Inv, UNCHANGED vars
  PROVE  Inv'
  BY DEF Inv, vars, committed, TypeOK, Walk, WalkOf, Drafted, Locks, Seen

LEMMA Invariance == Spec => []Inv
<1>1. Init => Inv
  BY AllocationAssumption, InvInit
<1>2. Inv /\ [Next]_vars => Inv'
  <2> SUFFICES ASSUME Inv, [Next]_vars PROVE Inv'
    OBVIOUS
  <2>1. CASE Next
    <3>1. TypeOK' /\ Walk' /\ Drafted'
      BY <2>1, AllocationAssumption, StepIs, TypeStep, WalkStep, DraftedStep
    <3> QED BY <3>1 DEF Inv
  <2> QED BY <2>1, InvStutters
<1> QED BY <1>1, <1>2, PTL DEF Spec

\* The tables, the requests at work and what they read and wrote keep their
\* types.
THEOREM TypeCorrect == Spec => []TypeOK
<1>1. Inv => TypeOK
  BY DEF Inv
<1> QED BY <1>1, Invariance, PTL

----------------------------------------------------------------------------
(* Deadlocks.  Of the invoices a knot's requests wait for, take one due    *)
(* last: who holds it waits for another, due no earlier, hence as late.    *)

LEMMA Latest ==
  ASSUME NEW S, S \subseteq 1 .. LastDay, S # {}
  PROVE  \E d \in S : \A e \in S : e <= d
<1> DEFINE T == {LastDay - d : d \in S}
    R == OpToRel(<, Nat)
<1>1. LastDay \in Nat
  BY AllocationAssumption DEF AllocationAssumption
<1> HIDE DEF R
<1>2. IsWellFoundedOn(R, Nat)
  BY NatLessThanWellFounded DEF R
<1>3. T \subseteq Nat /\ T # {}
  <2>1. \A d \in S : LastDay - d \in Nat
    BY <1>1
  <2>2. \E d \in S : LastDay - d \in T
    OBVIOUS
  <2> QED BY <2>1, <2>2
<1>4. \E t \in T : \A u \in T : ~(<<u, t>> \in R)
  <2> HIDE DEF T
  <2> QED BY ONLY <1>2, <1>3, WFMin, Zenon
<1>5. PICK d \in S : \A u \in T : ~(<<u, LastDay - d>> \in R)
  BY <1>4
<1>6. ASSUME NEW e \in S PROVE e <= d
  <2>1. LastDay - e \in Nat /\ LastDay - d \in Nat /\ ~(<<LastDay - e, LastDay - d>> \in R)
    BY <1>1, <1>5
  <2>2. ~(LastDay - e < LastDay - d)
    BY <2>1 DEF R, OpToRel
  <2> QED BY <1>1, <2>2
<1> QED BY <1>5, <1>6

\* Payments wait for one another in a ring only where two invoices they lock
\* are due on the same day, for any number of payments and invoices.
THEOREM DeadlockNeedsTie == Spec => []KnotNeedsTie
<1>1. Inv => KnotNeedsTie
  <2> SUFFICES ASSUME Inv, NEW X \in SUBSET Request, Knot(X)
               PROVE  \E x \in X : \E i \in Locks(x) \ {Head(queue[x])} : Due[i] = Due[Head(queue[x])]
    BY DEF KnotNeedsTie
  <2> DEFINE h(x) == Head(queue[x])
  <2>1. ASSUME NEW x \in X
        PROVE  /\ h(x) \in Invoice /\ Due[h(x)] \in 1 .. LastDay
               /\ \E y \in X : h(x) \in Locks(y)
               /\ \A i \in Locks(x) : i # h(x) /\ Due[i] <= Due[h(x)]
    <3>1. PICK y \in Holders(x) \cap X : TRUE
      BY DEF Knot
    <3>2. at[x] = "loop" /\ ~Ended(x) /\ h(x) \in Locks(y)
      BY <3>1 DEF Holders
    <3>3. queue[x] \in Seq(Invoice) /\ queue[x] # <<>>
      BY <3>2 DEF Inv, TypeOK, Ended
    <3>4. 1 \in DOMAIN queue[x] /\ h(x) = queue[x][1] /\ h(x) \in Invoice
      BY <3>3
    <3>5. Due[h(x)] \in 1 .. LastDay
      BY <3>4, AllocationAssumption DEF AllocationAssumption, Date
    <3>6. \A i \in Locks(x) : i # h(x) /\ Due[i] <= Due[h(x)]
      BY <3>4 DEF Inv, Walk, WalkOf
    <3> QED BY <3>1, <3>2, <3>4, <3>5, <3>6
  <2> HIDE DEF h
  <2> DEFINE S == {Due[h(x)] : x \in X}
  <2>2. S \subseteq 1 .. LastDay /\ S # {}
    <3>1. \E x \in X : Due[h(x)] \in S
      BY DEF Knot
    <3> QED BY <2>1, <3>1
  <2>3. PICK x \in X : \A y \in X : Due[h(y)] <= Due[h(x)]
    <3>1. PICK d \in S : \A e \in S : e <= d
      <4> HIDE DEF S
      <4> QED BY <2>2, Latest
    <3> QED BY <3>1
  <2>4. PICK y \in X : h(x) \in Locks(y)
    BY <2>1
  <2>5. h(x) # h(y) /\ Due[h(x)] <= Due[h(y)] /\ Due[h(y)] <= Due[h(x)]
    BY <2>1, <2>3, <2>4
  <2>6. Due[h(x)] = Due[h(y)]
    <3>1. Due[h(x)] \in Int /\ Due[h(y)] \in Int
      BY <2>1
    <3> QED BY <2>5, <3>1
  <2> QED BY <2>4, <2>5, <2>6 DEF h
<1> QED BY <1>1, Invariance, PTL

----------------------------------------------------------------------------
(* Books.  What a request has read is never below the ledger, since the    *)
(* ledger of an invoice only goes down; a commit takes off both the same.  *)

Sound(i, r) == r.paid + r.balance = Total[i]

Books ==
  /\ \A i \in Invoice : Sound(i, invoices[i]) /\ invoices[i].balance >= ledger[i]
  /\ \A i \in Invoice \ lost : invoices[i].balance = ledger[i]
  /\ \A x \in Request : at[x] = "loop" => \A i \in Seen(x) :
       Sound(i, saw[x][i]) /\ saw[x][i].balance >= ledger[i]

LEMMA Numbers ==
  ASSUME AllocationAssumption, TypeOK
  PROVE  /\ \A i \in Invoice : /\ Total[i] \in Nat /\ ledger[i] \in Int
                               /\ invoices[i].paid \in Nat /\ invoices[i].balance \in Nat
         /\ \A x \in Request : \A i \in Seen(x) :
              i \in Invoice /\ saw[x][i].paid \in Nat /\ saw[x][i].balance \in Nat
<1>1. \A x \in Request : \A i \in Seen(x) : i \in Invoice /\ saw[x][i] \in InvoiceRow
  BY DEF Seen, TypeOK, Rows
<1> QED BY <1>1 DEF TypeOK, InvoiceRow, AllocationAssumption

\* What a commit does to the invoices it holds and to the others.
LEMMA CommitBooks ==
  ASSUME AllocationAssumption, Inv, Books, NEW x \in Request, Commit(x), NEW i \in Invoice
  PROVE  /\ Sound(i, invoices'[i]) /\ invoices'[i].balance >= ledger'[i]
         /\ i \notin lost' => invoices'[i].balance = ledger'[i]
         /\ ledger'[i] <= ledger[i] /\ ledger'[i] \in Int
<1>1. TypeOK /\ at[x] = "loop" /\ lost \subseteq lost'
  BY CommitIs, CommitOf DEF Inv
<1>2. /\ Total[i] \in Nat /\ ledger[i] \in Int
      /\ invoices[i].paid \in Nat /\ invoices[i].balance \in Nat
  BY <1>1, Numbers
<1>3. CASE i \notin Locks(x)
  <2>1. invoices'[i] = invoices[i] /\ ledger'[i] = ledger[i]
    BY <1>3, CommitIs, CommitOf DEF Inv
  <2> QED BY <1>1, <1>2, <2>1 DEF Books, Sound
<1>4. CASE i \in Locks(x)
  <2> DEFINE d == draft[x][i]  o == saw[x][i]
  <2>1. i \in Seen(x)
    BY <1>4, CommitOf
  <2>2. d.paid \in Nat /\ d.balance \in Nat /\ o.paid \in Nat /\ o.balance \in Nat
    BY <1>1, <1>4, <2>1, RowNumbers
  <2>3. d.paid + d.balance = o.paid + o.balance /\ d.balance < o.balance
    BY <1>4 DEF Inv, Drafted
  <2>4. o.paid + o.balance = Total[i] /\ o.balance >= ledger[i]
    BY <1>1, <2>1 DEF Books, Sound
  <2>5. /\ invoices'[i].paid = d.paid /\ invoices'[i].balance = d.balance
        /\ o # invoices[i] => i \in lost'
        /\ ledger'[i] = ledger[i] - (d.paid - o.paid)
    BY <1>4, CommitIs, CommitOf DEF Inv
  <2>6. i \notin lost' => o.balance = ledger[i]
    BY <1>1, <2>5 DEF Books
  <2> HIDE DEF d, o
  <2>7. ledger'[i] = ledger[i] - (o.balance - d.balance)
    BY <1>2, <2>2, <2>3, <2>5
  <2> QED BY <1>2, <2>2, <2>3, <2>4, <2>5, <2>6, <2>7 DEF Sound
<1> QED BY <1>3, <1>4

LEMMA BooksStep ==
  ASSUME AllocationAssumption, Inv, Books, NEW x \in Request,
         Query(x) \/ Turn(x) \/ Commit(x) \/ Rollback(x)
  PROVE  Books'
<1>1. TypeOK /\ \A y \in Request : WalkOf(y)
  BY DEF Inv, Walk
<1>2. CASE Query(x)
  <2>1. /\ invoices' = invoices /\ ledger' = ledger /\ lost' = lost
        /\ at' = [at EXCEPT ![x] = "loop"]
        /\ \A i \in Seen(x)' : saw'[x][i] = invoices[i]
        /\ \A y \in Request \ {x} : Seen(y)' = Seen(y) /\ saw'[y] = saw[y]
        /\ Seen(x)' \subseteq Invoice
    BY <1>1, <1>2, QueryIs DEF Seen
  <2>2. \A y \in Request \ {x} : at'[y] = at[y]
    BY <1>1, <2>1 DEF TypeOK
  <2> QED BY <2>1, <2>2 DEF Books, Sound
<1>3. CASE Turn(x)
  <2>1. UNCHANGED <<committed, at, saw>>
    BY <1>3 DEF Turn
  <2>2. \A y \in Request : Seen(y)' = Seen(y)
    BY <2>1 DEF Seen
  <2> QED BY <2>1, <2>2 DEF Books, Sound, committed
<1>4. CASE Commit(x)
  <2>1. /\ saw' = saw /\ at' = [at EXCEPT ![x] = "done"] /\ lost' \subseteq Invoice
    BY <1>4, CommitIs, CommitOf DEF Inv
  <2>2. \A y \in Request : Seen(y)' = Seen(y) /\ (at'[y] = "loop" => at[y] = "loop")
    BY <1>1, <2>1 DEF Seen, TypeOK
  <2>3. ASSUME NEW y \in Request, at'[y] = "loop", NEW i \in Seen(y)'
        PROVE  Sound(i, saw'[y][i]) /\ saw'[y][i].balance >= ledger'[i]
    <3>1. at[y] = "loop" /\ i \in Seen(y) /\ i \in Invoice /\ saw[y][i].balance \in Nat
      BY <1>1, <2>2, <2>3, Numbers
    <3>2. ledger'[i] <= ledger[i] /\ ledger'[i] \in Int /\ ledger[i] \in Int
      BY <1>1, <1>4, <3>1, CommitBooks, Numbers
    <3>3. Sound(i, saw[y][i]) /\ saw[y][i].balance >= ledger[i]
      BY <3>1 DEF Books
    <3> QED BY <2>1, <3>1, <3>2, <3>3
  <2> QED BY <1>4, <2>3, CommitBooks DEF Books
<1>5. CASE Rollback(x)
  <2>1. UNCHANGED <<committed, saw>> /\ at' = [at EXCEPT ![x] = "failed"]
    BY <1>5 DEF Rollback
  <2>2. \A y \in Request : Seen(y)' = Seen(y) /\ (at'[y] = "loop" => at[y] = "loop")
    BY <1>1, <2>1 DEF Seen, TypeOK
  <2> QED BY <2>1, <2>2 DEF Books, Sound, committed
<1> QED BY <1>2, <1>3, <1>4, <1>5

LEMMA BooksInvariance == Spec => []Books
<1>1. Init => Books
  <2> SUFFICES ASSUME Init PROVE Books
    OBVIOUS
  <2>1. \A i \in Invoice : Total[i] \in Nat
    BY AllocationAssumption DEF AllocationAssumption
  <2>2. \A i \in Invoice : /\ invoices[i].paid = 0 /\ invoices[i].balance = Total[i]
                           /\ ledger[i] = Total[i]
    BY DEF Init
  <2> QED BY <2>1, <2>2 DEF Init, Books, Sound
<1>2. Inv /\ Books /\ [Next]_vars => Books'
  <2>1. ASSUME Inv, Books, Next PROVE Books'
    BY <2>1, AllocationAssumption, StepIs, BooksStep
  <2>2. ASSUME Books, UNCHANGED vars PROVE Books'
    BY <2>2 DEF Books, Sound, Seen, vars, committed
  <2> QED BY <2>1, <2>2
<1> QED BY <1>1, <1>2, Invariance, PTL DEF Spec

\* Where payments overwrite one another's invoices the invoice shows more due
\* than the ledger, never less, and elsewhere the same, for any payments,
\* invoices and amounts.
THEOREM OverwritesErrOneWay == Spec => []OverwritesOnlyOwe
<1>1. Inv /\ Books => OverwritesOnlyOwe
  <2> SUFFICES ASSUME Inv, Books, NEW i \in Invoice
               PROVE  IF i \in lost THEN invoices[i].balance >= ledger[i]
                      ELSE /\ invoices[i].balance = ledger[i]
                           /\ invoices[i].paid = Total[i] - ledger[i]
    BY DEF OverwritesOnlyOwe
  <2>1. /\ Total[i] \in Nat /\ invoices[i].paid \in Nat /\ invoices[i].balance \in Nat
    BY AllocationAssumption, Numbers DEF Inv
  <2> QED BY <2>1 DEF Books, Sound
<1> QED BY <1>1, Invariance, BooksInvariance, PTL

----------------------------------------------------------------------------
(* Leftovers.  As long as a payment has something left, every invoice its  *)
(* loop is past is settled in what it read or wrote; an invoice that is    *)
(* settled and not overwritten stays so.                                   *)

PaidIsSettled ==
  /\ \A i \in Invoice \ lost : invoices[i].status = "PAID" => invoices[i].balance = 0
  /\ \A x \in Request : \A i \in Locks(x) : draft[x][i].status = "PAID" => draft[x][i].balance = 0

Final(x, i) == IF i \in Locks(x) THEN draft[x][i].balance ELSE saw[x][i].balance

LeftoverOf(x) ==
  /\ at[x] \in {"loop", "done"} =>
       /\ Named[x] \subseteq Seen(x)
       /\ Named[x] = {} => \A i \in (Invoice \ Seen(x)) \ lost : invoices[i].balance = 0
  /\ at[x] = "loop" /\ remaining[x] > 0 =>
       \A i \in Seen(x) \ ToSet(queue[x]) : Final(x, i) = 0
  /\ at[x] = "done" /\ spare[x] > 0 =>
       \A i \in Seen(x) \ lost : invoices[i].balance = 0

Leftovers == PaidIsSettled /\ \A x \in Request : LeftoverOf(x)

LEMMA ZeroStays ==
  ASSUME AllocationAssumption, Inv, NEW x \in Request,
         Query(x) \/ Turn(x) \/ Commit(x) \/ Rollback(x)
  PROVE  /\ lost \subseteq lost'
         /\ \A i \in Invoice \ lost' : invoices[i].balance = 0 => invoices'[i].balance = 0
<1>1. CASE Query(x) \/ Turn(x) \/ Rollback(x)
  BY <1>1 DEF Query, Turn, Rollback, committed
<1>2. CASE Commit(x)
  <2>1. lost \subseteq lost' /\ \A i \in Invoice \ Locks(x) : invoices'[i] = invoices[i]
    BY <1>2, CommitIs, CommitOf DEF Inv
  <2>2. ASSUME NEW i \in Locks(x) \ lost' PROVE invoices[i].balance # 0
    <3>1. saw[x][i] = invoices[i] /\ i \in Seen(x)
      BY <1>2, CommitIs, CommitOf DEF Inv
    <3>2. draft[x][i].balance \in Nat /\ saw[x][i].balance \in Nat
      BY <3>1, RowNumbers DEF Inv
    <3>3. draft[x][i].balance < saw[x][i].balance
      BY DEF Inv, Drafted
    <3> QED BY <3>1, <3>2, <3>3
  <2> QED BY <2>1, <2>2
<1> QED BY <1>1, <1>2

LEMMA PaidIsSettledStep ==
  ASSUME AllocationAssumption, Inv, Books, PaidIsSettled, NEW x \in Request,
         Query(x) \/ Turn(x) \/ Commit(x) \/ Rollback(x)
  PROVE  PaidIsSettled'
<1>1. TypeOK /\ \A y \in Request : WalkOf(y)
  BY DEF Inv, Walk
<1>2. CASE Query(x)
  BY <1>1, <1>2, QueryIs DEF PaidIsSettled
<1>3. CASE Turn(x)
  <2>1. PICK i, a : i = Head(queue[x]) /\ a = Applied(x)
    OBVIOUS
  <2>2. UNCHANGED committed
    BY <1>3 DEF Turn
  <2>3. \A y \in Request \ {x} : draft'[y] = draft[y] /\ Locks(y)' = Locks(y)
    BY <1>1, <1>3, <2>1, TurnIs
  <2>4. ASSUME NEW j \in Locks(x)', draft'[x][j].status = "PAID" PROVE draft'[x][j].balance = 0
    <3>1. CASE a > 0 /\ j = i
      <4>1. /\ i \in Seen(x) /\ i \in Invoice /\ saw[x][i] \in InvoiceRow /\ at[x] = "loop"
            /\ a \in Nat /\ a <= saw[x][i].balance
        BY <1>1, <1>3, <2>1, TurnIs, AppliedIs
      <4>2. saw[x][i].paid \in Nat /\ saw[x][i].balance \in Nat /\ Total[i] \in Nat
        BY <4>1, AllocationAssumption DEF InvoiceRow, AllocationAssumption
      <4>3. saw[x][i].paid + saw[x][i].balance = Total[i]
        BY <4>1 DEF Books, Sound
      <4>4. draft'[x][j] = Pay(i, saw[x][i], a)
        BY <1>1, <1>3, <2>1, <3>1, TurnIs
      <4>5. saw[x][i].paid + a >= Total[i]
        BY <2>4, <4>4 DEF Pay
      <4>6. draft'[x][j].balance = saw[x][i].balance - a
        BY <4>4 DEF Pay
      <4> QED BY <4>1, <4>2, <4>3, <4>5, <4>6
    <3>2. CASE a = 0
      <4>1. draft' = draft /\ Locks(x)' = Locks(x)
        BY <1>1, <1>3, <2>1, <3>2, TurnIs DEF Locks
      <4> QED BY <2>4, <4>1 DEF PaidIsSettled
    <3>3. CASE a > 0 /\ j # i
      <4>1. j \in Locks(x) /\ draft'[x][j] = draft[x][j]
        <5>1. /\ Locks(x)' = Locks(x) \cup {i}
              /\ \A k \in Invoice \ {i} : draft'[x][k] = draft[x][k]
          BY <1>1, <1>3, <2>1, <3>3, TurnIs
        <5>2. j \in Locks(x) /\ j # i
          BY <2>4, <3>3, <5>1
        <5>3. j \in Invoice
          BY <5>2 DEF Locks
        <5> QED BY <5>1, <5>2, <5>3
      <4> QED BY <2>4, <4>1 DEF PaidIsSettled
    <3>4. a \in Nat
      BY <1>1, <1>3, <2>1, TurnIs, AppliedIs
    <3> QED BY <3>1, <3>2, <3>3, <3>4
  <2> QED BY <2>2, <2>3, <2>4 DEF PaidIsSettled, committed
<1>4. CASE Commit(x)
  <2>1. draft' = [draft EXCEPT ![x] = Nothing] /\ saw' = saw /\ lost \subseteq lost'
    BY <1>4, CommitIs, CommitOf DEF Inv
  <2>2. \A y \in Request : \A i \in Locks(y)' : i \in Locks(y) /\ draft'[y] = draft[y]
    BY <1>1, <2>1, LetGo
  <2>3. ASSUME NEW i \in Invoice \ lost', invoices'[i].status = "PAID"
        PROVE  invoices'[i].balance = 0
    <3>1. CASE i \in Locks(x)
      <4>1. invoices'[i].status = draft[x][i].status /\ invoices'[i].balance = draft[x][i].balance
        BY <1>4, <2>3, <3>1, CommitIs, CommitOf DEF Inv
      <4> QED BY <2>3, <3>1, <4>1 DEF PaidIsSettled
    <3>2. CASE i \notin Locks(x)
      <4>1. invoices'[i] = invoices[i]
        BY <1>4, <3>2, CommitIs, CommitOf DEF Inv
      <4> QED BY <2>1, <2>3, <4>1 DEF PaidIsSettled
    <3> QED BY <3>1, <3>2
  <2> QED BY <2>2, <2>3 DEF PaidIsSettled
<1>5. CASE Rollback(x)
  <2>1. draft' = [draft EXCEPT ![x] = Nothing] /\ saw' = saw /\ UNCHANGED committed
    BY <1>5 DEF Rollback
  <2>2. \A y \in Request : \A i \in Locks(y)' : i \in Locks(y) /\ draft'[y] = draft[y]
    BY <1>1, <2>1, LetGo
  <2> QED BY <2>1, <2>2 DEF PaidIsSettled, committed
<1> QED BY <1>2, <1>3, <1>4, <1>5

\* Steps of others take nothing from what a request can say of its leftover.
LEMMA LeftoverKept ==
  ASSUME NEW y \in Request, LeftoverOf(y),
         at'[y] = at[y], saw'[y] = saw[y], queue'[y] = queue[y], remaining'[y] = remaining[y],
         spare'[y] = spare[y], draft'[y] = draft[y],
         Seen(y)' = Seen(y), Locks(y)' = Locks(y), Seen(y) \subseteq Invoice, lost \subseteq lost',
         \A i \in Invoice \ lost' : invoices[i].balance = 0 => invoices'[i].balance = 0
  PROVE  LeftoverOf(y)'
<1>1. at[y] \in {"loop", "done"} =>
        /\ Named[y] \subseteq Seen(y)'
        /\ Named[y] = {} => \A i \in (Invoice \ Seen(y)') \ lost' : invoices'[i].balance = 0
  BY DEF LeftoverOf
<1>2. at[y] = "loop" /\ remaining[y] > 0 =>
        \A i \in Seen(y)' \ ToSet(queue'[y]) : Final(y, i)' = 0
  BY DEF LeftoverOf, Final
<1>3. at[y] = "done" /\ spare[y] > 0 =>
        \A i \in Seen(y)' \ lost' : invoices'[i].balance = 0
  BY DEF LeftoverOf
<1> QED BY <1>1, <1>2, <1>3 DEF LeftoverOf

LEMMA LeftoverStep ==
  ASSUME AllocationAssumption, Inv, Books, Leftovers, NEW x \in Request,
         Query(x) \/ Turn(x) \/ Commit(x) \/ Rollback(x)
  PROVE  \A y \in Request : LeftoverOf(y)'
<1>1. TypeOK /\ (\A y \in Request : WalkOf(y) /\ LeftoverOf(y)) /\ PaidIsSettled
  BY DEF Inv, Walk, Leftovers
<1>2. /\ lost \subseteq lost'
      /\ \A i \in Invoice \ lost' : invoices[i].balance = 0 => invoices'[i].balance = 0
  BY ZeroStays
<1>3. \A y \in Request : Seen(y) \subseteq Invoice
  BY DEF Seen
<1>4. CASE Query(x)
  <2>1. /\ at[x] = "new" /\ at' = [at EXCEPT ![x] = "loop"] /\ queue'[x] \in List(x)
        /\ Seen(x)' = ToSet(queue'[x])
        /\ \A y \in Request \ {x} : Seen(y)' = Seen(y) /\ saw'[y] = saw[y] /\ queue'[y] = queue[y]
        /\ draft' = draft /\ \A y \in Request : Locks(y)' = Locks(y)
        /\ invoices' = invoices /\ spare' = spare /\ lost' = lost /\ remaining' = remaining
    BY <1>1, <1>4, QueryIs
  <2>2. at'[x] = "loop" /\ \A y \in Request \ {x} : at'[y] = at[y]
    BY <1>1, <2>1 DEF TypeOK
  <2>3. \A y \in Request \ {x} : LeftoverOf(y)'
    BY <1>1, <1>2, <1>3, <2>1, <2>2, LeftoverKept
  <2>4. Named[x] \subseteq Seen(x)' /\ (Named[x] = {} => Outstanding \subseteq Seen(x)')
    <3>1. PICK s \in List(x) : s = queue'[x]
      BY <2>1
    <3>2. Named[x] \subseteq ToSet(s) /\ (Named[x] = {} => Outstanding \subseteq ToSet(s))
      BY ListIs
    <3> QED BY <2>1, <3>1, <3>2
  <2>5. Named[x] = {} => \A i \in (Invoice \ Seen(x)') \ lost' : invoices'[i].balance = 0
    BY <1>1, <2>1, <2>4 DEF Outstanding, PaidIsSettled
  <2>6. LeftoverOf(x)'
    BY <2>1, <2>2, <2>4, <2>5 DEF LeftoverOf
  <2> QED BY <2>3, <2>6
<1>5. CASE Turn(x)
  <2>1. PICK i, a : i = Head(queue[x]) /\ a = Applied(x)
    OBVIOUS
  <2>2. /\ at[x] = "loop" /\ ~Ended(x) /\ at' = at /\ saw' = saw
        /\ queue' = [queue EXCEPT ![x] = Tail(@)] /\ remaining' = [remaining EXCEPT ![x] = @ - a]
        /\ \A y \in Request : Seen(y)' = Seen(y)
        /\ \A y \in Request \ {x} : draft'[y] = draft[y] /\ Locks(y)' = Locks(y)
        /\ \A j \in Invoice \ {i} : draft'[x][j] = draft[x][j]
        /\ a = 0 => draft' = draft
        /\ a > 0 => /\ Locks(x)' = Locks(x) \cup {i}
                    /\ draft'[x][i] = Pay(i, saw[x][i], a)
    BY <1>1, <1>5, <2>1, TurnIs
  <2>3. UNCHANGED committed
    BY <1>5 DEF Turn
  <2>4. /\ queue'[x] = Tail(queue[x]) /\ remaining'[x] = remaining[x] - a
        /\ \A y \in Request \ {x} : queue'[y] = queue[y] /\ remaining'[y] = remaining[y]
    BY <1>1, <2>2 DEF TypeOK
  <2>5. \A y \in Request \ {x} : LeftoverOf(y)'
    BY <1>1, <1>2, <1>3, <2>2, <2>3, <2>4, LeftoverKept DEF committed
  <2>6. /\ i \in Invoice /\ i \notin Locks(x) /\ remaining[x] \in Nat /\ a \in Nat
        /\ saw[x][i].balance \in Nat /\ (a = remaining[x] \/ a = saw[x][i].balance)
    <3>1. /\ i \in Invoice /\ i \notin Locks(x) /\ remaining[x] \in Nat /\ a \in Nat
          /\ saw[x][i] \in InvoiceRow /\ (a = remaining[x] \/ a = saw[x][i].balance)
      BY <1>1, <2>1, <2>2, AppliedIs
    <3> QED BY <3>1 DEF InvoiceRow
  <2>7. \A j \in Invoice \ {i} : Final(x, j)' = Final(x, j)
    <3>1. \A j \in Invoice \ {i} : j \in Locks(x)' <=> j \in Locks(x)
      BY <2>2 DEF Locks
    <3> QED BY <2>2, <3>1 DEF Final
  <2>8. remaining'[x] > 0 => Final(x, i)' = 0
    <3> SUFFICES ASSUME remaining'[x] > 0 PROVE Final(x, i)' = 0
      OBVIOUS
    <3>1. a = saw[x][i].balance
      BY <2>4, <2>6
    <3>2. CASE a > 0
      <4>1. i \in Locks(x)' /\ draft'[x][i].balance = saw[x][i].balance - a
        BY <2>2, <3>2 DEF Pay
      <4> QED BY <2>6, <3>1, <4>1 DEF Final
    <3>3. CASE a = 0
      <4>1. i \notin Locks(x)'
        BY <2>2, <2>6, <3>3 DEF Locks
      <4> QED BY <2>2, <3>1, <3>3, <4>1 DEF Final
    <3> QED BY <2>6, <3>2, <3>3
  <2>9. ToSet(queue[x]) \subseteq {i} \cup ToSet(queue'[x])
    <3>1. PICK q : q = queue[x]
      OBVIOUS
    <3>2. q \in Seq(Invoice) /\ q # <<>> /\ i = q[1]
      BY <1>1, <2>1, <2>2, <3>1 DEF TypeOK, Ended
    <3>3. ASSUME NEW n \in DOMAIN q, n # 1
          PROVE  n - 1 \in DOMAIN Tail(q) /\ Tail(q)[n - 1] = q[n]
      BY <3>2, <3>3
    <3>4. ASSUME NEW n \in DOMAIN q PROVE q[n] \in {i} \cup ToSet(Tail(q))
      BY <3>2, <3>3 DEF ToSet
    <3>5. \A e \in ToSet(q) : \E n \in DOMAIN q : e = q[n]
      BY DEF ToSet
    <3> QED BY <2>4, <3>1, <3>4, <3>5
  <2>10. remaining'[x] > 0 => \A j \in Seen(x)' \ ToSet(queue'[x]) : Final(x, j)' = 0
    <3> SUFFICES ASSUME remaining'[x] > 0, NEW j \in Seen(x) \ ToSet(queue'[x])
                 PROVE  Final(x, j)' = 0
      BY <2>2
    <3>1. remaining[x] > 0
      BY <2>4, <2>6
    <3>2. CASE j = i
      BY <2>8, <3>2
    <3>3. CASE j # i
      <4>1. j \in Seen(x) \ ToSet(queue[x])
        BY <2>9, <3>3
      <4>2. Final(x, j) = 0
        BY <1>1, <2>2, <3>1, <4>1 DEF LeftoverOf
      <4> QED BY <1>3, <2>7, <3>3, <4>2
    <3> QED BY <3>2, <3>3
  <2>11. LeftoverOf(x)'
    BY <1>1, <2>2, <2>3, <2>10 DEF LeftoverOf, committed
  <2> QED BY <2>5, <2>11
<1>6. CASE Commit(x)
  <2>1. /\ at[x] = "loop" /\ at' = [at EXCEPT ![x] = "done"] /\ Ended(x)
        /\ spare' = [spare EXCEPT ![x] = remaining[x]]
        /\ saw' = saw /\ queue' = queue /\ remaining' = remaining
        /\ draft' = [draft EXCEPT ![x] = Nothing]
        /\ \A i \in Locks(x) : invoices'[i].balance = draft[x][i].balance
        /\ \A i \in Invoice \ Locks(x) : invoices'[i] = invoices[i]
    BY <1>1, <1>6, CommitIs, CommitOf
  <2>2. /\ at'[x] = "done" /\ spare'[x] = remaining[x]
        /\ \A y \in Request \ {x} : at'[y] = at[y] /\ spare'[y] = spare[y]
    BY <1>1, <2>1 DEF TypeOK
  <2>3. /\ \A y \in Request : Seen(y)' = Seen(y)
        /\ \A y \in Request \ {x} : draft'[y] = draft[y] /\ Locks(y)' = Locks(y)
    BY <1>1, <2>1, LetGo
  <2>4. \A y \in Request \ {x} : LeftoverOf(y)'
    BY <1>1, <1>2, <1>3, <2>1, <2>2, <2>3, LeftoverKept
  <2>5. ASSUME remaining[x] > 0, NEW i \in Seen(x) \ lost' PROVE invoices'[i].balance = 0
    <3>1. queue[x] = <<>> /\ ToSet(queue[x]) = {}
      BY <2>1, <2>5 DEF Ended, ToSet
    <3>2. Final(x, i) = 0
      BY <1>1, <2>1, <2>5, <3>1 DEF LeftoverOf
    <3>3. CASE i \in Locks(x)
      BY <2>1, <3>2, <3>3 DEF Final
    <3>4. CASE i \notin Locks(x)
      <4>1. i \in Invoice /\ invoices'[i] = invoices[i] /\ i \notin lost /\ saw[x][i].balance = 0
        BY <1>2, <1>3, <2>1, <2>5, <3>2, <3>4 DEF Final
      <4>2. ledger[i] \in Int /\ invoices[i].balance \in Nat
        BY <1>1, <4>1, Numbers
      <4>3. invoices[i].balance = ledger[i] /\ 0 >= ledger[i]
        BY <2>1, <2>5, <4>1 DEF Books
      <4> QED BY <4>1, <4>2, <4>3
    <3> QED BY <3>3, <3>4
  <2>6. /\ Named[x] \subseteq Seen(x)
        /\ Named[x] = {} => \A i \in (Invoice \ Seen(x)) \ lost' : invoices'[i].balance = 0
    BY <1>1, <1>2, <2>1 DEF LeftoverOf
  <2>7. LeftoverOf(x)'
    BY <2>2, <2>3, <2>5, <2>6 DEF LeftoverOf
  <2> QED BY <2>4, <2>7
<1>7. CASE Rollback(x)
  <2>1. /\ at' = [at EXCEPT ![x] = "failed"] /\ draft' = [draft EXCEPT ![x] = Nothing]
        /\ UNCHANGED <<committed, saw, queue, remaining>>
    BY <1>7 DEF Rollback
  <2>2. at'[x] = "failed" /\ \A y \in Request \ {x} : at'[y] = at[y]
    BY <1>1, <2>1 DEF TypeOK
  <2>3. /\ \A y \in Request : Seen(y)' = Seen(y)
        /\ \A y \in Request \ {x} : draft'[y] = draft[y] /\ Locks(y)' = Locks(y)
    BY <1>1, <2>1, LetGo
  <2>4. \A y \in Request \ {x} : LeftoverOf(y)'
    BY <1>1, <1>2, <1>3, <2>1, <2>2, <2>3, LeftoverKept DEF committed
  <2>5. LeftoverOf(x)'
    BY <2>2 DEF LeftoverOf
  <2> QED BY <2>4, <2>5
<1> QED BY <1>4, <1>5, <1>6, <1>7

LEMMA LeftoversInvariance == Spec => []Leftovers
<1>1. Init => Leftovers
  <2>1. ASSUME Init PROVE \A x \in Request : Locks(x) = {} /\ at[x] = "new"
    BY <2>1 DEF Init, Locks, Nothing
  <2>2. ASSUME Init PROVE \A i \in Invoice : invoices[i].status = "GENERATED"
    BY <2>2 DEF Init
  <2> QED BY <2>1, <2>2 DEF Leftovers, PaidIsSettled, LeftoverOf
<1>2. Inv /\ Books /\ Leftovers /\ [Next]_vars => Leftovers'
  <2>1. ASSUME Inv, Books, Leftovers, Next PROVE Leftovers'
    <3>1. PaidIsSettled
      BY <2>1 DEF Leftovers
    <3>2. PICK x \in Request : Query(x) \/ Turn(x) \/ Commit(x) \/ Rollback(x)
      BY <2>1, StepIs
    <3>3. PaidIsSettled'
      BY <2>1, <3>1, <3>2, AllocationAssumption, PaidIsSettledStep
    <3>4. \A y \in Request : LeftoverOf(y)'
      BY <2>1, <3>2, AllocationAssumption, LeftoverStep
    <3> QED BY <3>3, <3>4 DEF Leftovers
  <2>2. ASSUME Leftovers, UNCHANGED vars PROVE Leftovers'
    BY <2>2 DEF Leftovers, PaidIsSettled, LeftoverOf, Final, Seen, Locks, vars, committed
  <2> QED BY <2>1, <2>2
<1> QED BY <1>1, <1>2, Invariance, BooksInvariance, PTL DEF Spec

\* A payment that left a credit has its invoices settled, but for those
\* overwritten unread, whatever other payments came between its turns.
THEOREM CreditOnlyWhenSettled == Spec => []LeftoverWhenSettled
<1>1. Leftovers => LeftoverWhenSettled
  <2> SUFFICES ASSUME Leftovers, NEW x \in Request, at[x] = "done", spare[x] > 0,
                      NEW i \in (IF Named[x] # {} THEN Named[x] ELSE Invoice) \ lost
               PROVE  invoices[i].balance = 0
    BY DEF LeftoverWhenSettled
  <2>1. Named[x] \subseteq Seen(x) /\ \A j \in Seen(x) \ lost : invoices[j].balance = 0
    BY DEF Leftovers, LeftoverOf
  <2>2. Named[x] = {} => \A j \in (Invoice \ Seen(x)) \ lost : invoices[j].balance = 0
    BY DEF Leftovers, LeftoverOf
  <2> QED BY <2>1, <2>2
<1> QED BY <1>1, LeftoversInvariance, PTL
=============================================================================
