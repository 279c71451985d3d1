--------------------------- MODULE PayHeroProofs ---------------------------
(***************************************************************************)
(* Proofs about PayHero, for any set of pushes, any callback contents and  *)
(* any of its faults: no money without a charge, rows that agree, that     *)
(* what is pending has a callback to come which settles it, and that each  *)
(* payment goes through PaymentLifecycle.                                  *)
(***************************************************************************)
EXTENDS PayHero, TLAPS

PendingRows == [payment |-> "PENDING", txn |-> "PENDING", checkout |-> FALSE, receipt |-> FALSE]
KnownRows == [payment |-> "PENDING", txn |-> "PENDING", checkout |-> TRUE, receipt |-> FALSE]
RefusedRows == [payment |-> "PENDING", txn |-> "FAILED", checkout |-> TRUE, receipt |-> FALSE]
PaidRows == [payment |-> "SUCCESSFUL", txn |-> "SUCCESSFUL", checkout |-> TRUE, receipt |-> TRUE]
FailedRows(c) == [payment |-> "FAILED", txn |-> "FAILED", checkout |-> c, receipt |-> FALSE]

\* What the open transaction of request p holds, step by step.
OpenRows(p) ==
  /\ request[p] = "new" => mine[p] = NoRows
  /\ request[p] \in {"new", "flushed"} => gateway[p] = "idle"
  /\ request[p] \in {"flushed", "sent"} => mine[p] = PendingRows
  /\ request[p] = "answered" =>
       \/ mine[p] = KnownRows /\ gateway[p] # "idle"
       \/ mine[p] = FailedRows(FALSE)

\* The committed rows of p are in one of five forms, each with what must have
\* happened at the gateway and on the books.
CommittedRows(p) ==
  \/ db[p] = NoRows /\ booked[p] = 0
  \/ db[p] = KnownRows /\ booked[p] = 0 /\ gateway[p] # "idle"
  \/ /\ db[p] = RefusedRows /\ booked[p] = 0 /\ gateway[p] # "idle"
     /\ \E m \in acked : m.push = p /\ m.amount = "other"
  \/ \E c \in BOOLEAN : db[p] = FailedRows(c) /\ booked[p] = 0
  \/ /\ db[p] = PaidRows /\ booked[p] = 1 /\ gateway[p] = "charged"
     /\ \E m \in acked : m.push = p /\ m.ok /\ m.amount # "other"

\* Nothing is committed before the request's commit.
Uncommitted(p) == request[p] # "done" => db[p] = NoRows

\* A callback tells what the gateway did.
CallbacksTruthful ==
  \A m \in inflight \cup acked :
    /\ gateway[m.push] \in {"charged", "declined"}
    /\ m.ok => gateway[m.push] = "charged"

IInv ==
  /\ TypeOK
  /\ \A p \in Push : OpenRows(p) /\ CommittedRows(p) /\ Uncommitted(p)
  /\ CallbacksTruthful

(* The five forms, field by field.                                         *)
LEMMA RowFields ==
  /\ NoRows.payment = "NONE" /\ NoRows.txn = "NONE" /\ NoRows.checkout = FALSE
     /\ NoRows.receipt = FALSE
  /\ KnownRows.payment = "PENDING" /\ KnownRows.txn = "PENDING" /\ KnownRows.checkout = TRUE
     /\ KnownRows.receipt = FALSE
  /\ RefusedRows.payment = "PENDING" /\ RefusedRows.txn = "FAILED"
     /\ RefusedRows.checkout = TRUE /\ RefusedRows.receipt = FALSE
  /\ PaidRows.payment = "SUCCESSFUL" /\ PaidRows.txn = "SUCCESSFUL"
     /\ PaidRows.checkout = TRUE /\ PaidRows.receipt = TRUE
  /\ \A c \in BOOLEAN : /\ FailedRows(c).payment = "FAILED" /\ FailedRows(c).txn = "FAILED"
                        /\ FailedRows(c).checkout = c /\ FailedRows(c).receipt = FALSE
  BY DEF NoRows, KnownRows, RefusedRows, PaidRows, FailedRows

LEMMA FormsAreRows ==
  /\ PendingRows \in Rows /\ KnownRows \in Rows /\ RefusedRows \in Rows /\ PaidRows \in Rows
  /\ \A c \in BOOLEAN : FailedRows(c) \in Rows
  BY DEF PendingRows, KnownRows, RefusedRows, PaidRows, FailedRows, Rows, PaymentStatus

(* The assignments the code makes to a column, and two forms that occur in *)
(* between.                                                                *)
PutPayment(r, v) == [r EXCEPT !.payment = v]
PutTxn(r, v) == [r EXCEPT !.txn = v]
PutCheckout(r) == [r EXCEPT !.checkout = TRUE]
PutReceipt(r) == [r EXCEPT !.receipt = TRUE]

Unsent == [payment |-> "PENDING", txn |-> "FAILED", checkout |-> FALSE, receipt |-> FALSE]
Booking(p) == [payment |-> p, txn |-> "SUCCESSFUL", checkout |-> TRUE, receipt |-> FALSE]

LEMMA BetweenFields ==
  /\ PendingRows.payment = "PENDING" /\ PendingRows.txn = "PENDING"
     /\ PendingRows.checkout = FALSE /\ PendingRows.receipt = FALSE
  /\ Unsent \in Rows /\ Unsent.payment = "PENDING" /\ Unsent.txn = "FAILED"
     /\ Unsent.checkout = FALSE /\ Unsent.receipt = FALSE
  /\ \A p \in PaymentStatus :
       /\ Booking(p) \in Rows /\ Booking(p).payment = p /\ Booking(p).txn = "SUCCESSFUL"
       /\ Booking(p).checkout = TRUE /\ Booking(p).receipt = FALSE
  BY DEF PendingRows, Unsent, Booking, Rows, PaymentStatus

(* Rows that differ in the assigned column only are what the assignment    *)
(* makes of each other.                                                    *)
LEMMA PaymentPut ==
  ASSUME NEW r \in Rows, NEW s \in Rows, NEW v, s.payment = v,
         s.txn = r.txn, s.checkout = r.checkout, s.receipt = r.receipt
  PROVE  PutPayment(r, v) = s
  BY DEF Rows, PutPayment

LEMMA TxnPut ==
  ASSUME NEW r \in Rows, NEW s \in Rows, NEW v, s.txn = v,
         s.payment = r.payment, s.checkout = r.checkout, s.receipt = r.receipt
  PROVE  PutTxn(r, v) = s
  BY DEF Rows, PutTxn

LEMMA CheckoutPut ==
  ASSUME NEW r \in Rows, NEW s \in Rows, s.checkout = TRUE,
         s.payment = r.payment, s.txn = r.txn, s.receipt = r.receipt
  PROVE  PutCheckout(r) = s
  BY DEF Rows, PutCheckout

LEMMA ReceiptPut ==
  ASSUME NEW r \in Rows, NEW s \in Rows, s.receipt = TRUE,
         s.payment = r.payment, s.txn = r.txn, s.checkout = r.checkout
  PROVE  PutReceipt(r) = s
  BY DEF Rows, PutReceipt

(* What the assignments of the code make of one form: another.             *)
LEMMA RowSteps ==
  /\ [PendingRows EXCEPT !.checkout = TRUE] = KnownRows
  /\ [KnownRows EXCEPT !.txn = "FAILED"] = RefusedRows
  /\ [[KnownRows EXCEPT !.txn = "FAILED"] EXCEPT !.payment = "FAILED"] = FailedRows(TRUE)
  /\ [[PendingRows EXCEPT !.txn = "FAILED"] EXCEPT !.payment = "FAILED"] = FailedRows(FALSE)
  /\ [[[KnownRows EXCEPT !.txn = "SUCCESSFUL"] EXCEPT !.payment = "SUCCESSFUL"]
        EXCEPT !.receipt = TRUE] = PaidRows
<1>0. "PENDING" \in PaymentStatus /\ "SUCCESSFUL" \in PaymentStatus
  BY DEF PaymentStatus
<1>1. PutCheckout(PendingRows) = KnownRows
  <2>1. /\ PendingRows \in Rows /\ KnownRows \in Rows /\ KnownRows.checkout = TRUE
        /\ KnownRows.payment = PendingRows.payment
        /\ KnownRows.txn = PendingRows.txn
        /\ KnownRows.receipt = PendingRows.receipt
    BY BetweenFields, RowFields, FormsAreRows
  <2> QED BY <2>1, CheckoutPut
<1>2. PutTxn(KnownRows, "FAILED") = RefusedRows
  <2>1. /\ KnownRows \in Rows /\ RefusedRows \in Rows /\ RefusedRows.txn = "FAILED"
        /\ RefusedRows.payment = KnownRows.payment
        /\ RefusedRows.checkout = KnownRows.checkout
        /\ RefusedRows.receipt = KnownRows.receipt
    BY RowFields, FormsAreRows
  <2> QED BY <2>1, TxnPut
<1>3. PutPayment(RefusedRows, "FAILED") = FailedRows(TRUE)
  <2>1. /\ RefusedRows \in Rows /\ FailedRows(TRUE) \in Rows /\ FailedRows(TRUE).payment = "FAILED"
        /\ FailedRows(TRUE).txn = RefusedRows.txn
        /\ FailedRows(TRUE).checkout = RefusedRows.checkout
        /\ FailedRows(TRUE).receipt = RefusedRows.receipt
    BY RowFields, FormsAreRows
  <2> QED BY <2>1, PaymentPut
<1>4. PutTxn(PendingRows, "FAILED") = Unsent
  <2>1. /\ PendingRows \in Rows /\ Unsent \in Rows /\ Unsent.txn = "FAILED"
        /\ Unsent.payment = PendingRows.payment
        /\ Unsent.checkout = PendingRows.checkout
        /\ Unsent.receipt = PendingRows.receipt
    BY BetweenFields, FormsAreRows
  <2> QED BY <2>1, TxnPut
<1>5. PutPayment(Unsent, "FAILED") = FailedRows(FALSE)
  <2>1. /\ Unsent \in Rows /\ FailedRows(FALSE) \in Rows /\ FailedRows(FALSE).payment = "FAILED"
        /\ FailedRows(FALSE).txn = Unsent.txn
        /\ FailedRows(FALSE).checkout = Unsent.checkout
        /\ FailedRows(FALSE).receipt = Unsent.receipt
    BY BetweenFields, RowFields, FormsAreRows
  <2> QED BY <2>1, PaymentPut
<1>6. PutTxn(KnownRows, "SUCCESSFUL") = Booking("PENDING")
  <2>1. /\ KnownRows \in Rows /\ Booking("PENDING") \in Rows /\ Booking("PENDING").txn = "SUCCESSFUL"
        /\ Booking("PENDING").payment = KnownRows.payment
        /\ Booking("PENDING").checkout = KnownRows.checkout
        /\ Booking("PENDING").receipt = KnownRows.receipt
    BY <1>0, BetweenFields, RowFields, FormsAreRows
  <2> QED BY <2>1, TxnPut
<1>7. PutPayment(Booking("PENDING"), "SUCCESSFUL") = Booking("SUCCESSFUL")
  <2>1. /\ Booking("PENDING") \in Rows /\ Booking("SUCCESSFUL") \in Rows /\ Booking("SUCCESSFUL").payment = "SUCCESSFUL"
        /\ Booking("SUCCESSFUL").txn = Booking("PENDING").txn
        /\ Booking("SUCCESSFUL").checkout = Booking("PENDING").checkout
        /\ Booking("SUCCESSFUL").receipt = Booking("PENDING").receipt
    BY <1>0, BetweenFields
  <2> QED BY <2>1, PaymentPut
<1>8. PutReceipt(Booking("SUCCESSFUL")) = PaidRows
  <2>1. /\ Booking("SUCCESSFUL") \in Rows /\ PaidRows \in Rows /\ PaidRows.receipt = TRUE
        /\ PaidRows.payment = Booking("SUCCESSFUL").payment
        /\ PaidRows.txn = Booking("SUCCESSFUL").txn
        /\ PaidRows.checkout = Booking("SUCCESSFUL").checkout
    BY <1>0, BetweenFields, RowFields, FormsAreRows
  <2> QED BY <2>1, ReceiptPut
<1> QED BY <1>1, <1>2, <1>3, <1>4, <1>5, <1>6, <1>7, <1>8
           DEF PutPayment, PutTxn, PutCheckout, PutReceipt

(* A new push has no rows anywhere and no callback exists.                 *)
LEMMA InitEstablishes == Init => IInv
  BY DEF Init, IInv, TypeOK, NoRows, Rows, OpenRows, CommittedRows, Uncommitted, CallbacksTruthful

(* A step of request p that leaves the committed rows, the gateway and the *)
(* callbacks alone keeps the invariant if it keeps p's own open rows right.*)
LEMMA RequestStepKeeps ==
  ASSUME IInv, NEW p \in Push,
         NEW s \in {"flushed", "sent", "answered", "crashed"},
         NEW r \in Rows \cup {NoRows},
         request[p] # "done",
         request' = [request EXCEPT ![p] = s],
         mine' = [mine EXCEPT ![p] = r],
         s \in {"flushed", "sent"} => r = PendingRows,
         s = "flushed" => gateway[p] = "idle",
         s = "answered" => (r = KnownRows /\ gateway[p] # "idle") \/ r = FailedRows(FALSE),
         UNCHANGED <<db, gateway, inflight, acked, booked>>
  PROVE  IInv'
<1>1. TypeOK'
  BY DEF IInv, TypeOK
<1>2. ASSUME NEW q \in Push
      PROVE  (OpenRows(q) /\ CommittedRows(q) /\ Uncommitted(q))'
  <2>0. OpenRows(q) /\ CommittedRows(q) /\ Uncommitted(q)
    BY DEF IInv
  <2>1. CommittedRows(q)'
    BY <2>0 DEF CommittedRows
  <2>2. Uncommitted(q)'
    BY <2>0 DEF Uncommitted, IInv, TypeOK
  <2>3. OpenRows(q)'
    <3>1. CASE q = p
      BY <3>1 DEF OpenRows, IInv, TypeOK
    <3>2. CASE q # p
      <4>1. request'[q] = request[q] /\ mine'[q] = mine[q]
        BY <3>2 DEF IInv, TypeOK
      <4> QED BY <2>0, <4>1 DEF OpenRows
    <3> QED BY <3>1, <3>2
  <2> QED BY <2>1, <2>2, <2>3
<1>3. CallbacksTruthful'
  BY DEF IInv, CallbacksTruthful
<1> QED BY <1>1, <1>2, <1>3 DEF IInv

LEMMA InsertKeeps ==
  ASSUME IInv, NEW p \in Push, Insert(p)
  PROVE  IInv'
<1>1. mine' = [mine EXCEPT ![p] = PendingRows] /\ gateway[p] = "idle"
  BY DEF Insert, PendingRows, IInv, OpenRows
<1>2. PendingRows \in Rows
  BY DEF PendingRows, Rows, PaymentStatus
<1> QED BY <1>1, <1>2, RequestStepKeeps DEF Insert

(* FailMine turns the open rows into the failed ones.                      *)
LEMMA FailMineFails ==
  ASSUME IInv, NEW p \in Push, request[p] \in {"flushed", "sent"}, FailMine(p)
  PROVE  mine' = [mine EXCEPT ![p] = FailedRows(FALSE)] /\ FailedRows(FALSE) \in Rows
<1>1. mine[p] = PendingRows /\ mine \in [Push -> Rows \cup {NoRows}]
  BY DEF IInv, OpenRows, TypeOK
<1> QED BY <1>1 DEF FailMine, FailedRows, PendingRows, Rows, PaymentStatus

LEMMA UnconfiguredKeeps ==
  ASSUME IInv, NEW p \in Push, Unconfigured(p)
  PROVE  IInv'
  BY FailMineFails, RequestStepKeeps DEF Unconfigured

LEMMA AnswerFailedKeeps ==
  ASSUME IInv, NEW p \in Push, AnswerFailed(p)
  PROVE  IInv'
  BY FailMineFails, RequestStepKeeps DEF AnswerFailed

LEMMA AnswerAcceptedKeeps ==
  ASSUME IInv, NEW p \in Push, AnswerAccepted(p)
  PROVE  IInv'
<1>1. mine[p] = PendingRows /\ mine \in [Push -> Rows \cup {NoRows}]
  BY DEF IInv, OpenRows, TypeOK, AnswerAccepted
<1>2. mine' = [mine EXCEPT ![p] = KnownRows]
  <2>1. [mine[p] EXCEPT !.checkout = TRUE] = KnownRows
    BY <1>1, RowSteps
  <2>2. mine' = [mine EXCEPT ![p] = [mine[p] EXCEPT !.checkout = TRUE]]
    BY DEF AnswerAccepted
  <2> QED BY <2>1, <2>2
<1>3. KnownRows \in Rows
  BY DEF KnownRows, Rows, PaymentStatus
<1> QED BY <1>2, <1>3, RequestStepKeeps DEF AnswerAccepted

LEMMA CrashKeeps ==
  ASSUME IInv, NEW p \in Push, Crash(p)
  PROVE  IInv'
  BY RequestStepKeeps DEF Crash

(* A step of the gateway on p moves p's push away from idle, or from asked *)
(* to its outcome, and never takes back what it said.                      *)
LEMMA GatewayStepKeeps ==
  ASSUME IInv, NEW p \in Push,
         NEW g \in {"asked", "charged", "declined"},
         gateway' = [gateway EXCEPT ![p] = g],
         gateway[p] \in {"idle", "asked"},
         UNCHANGED <<db, acked, booked>>
  PROVE  \A q \in Push : CommittedRows(q)'
<1> TAKE q \in Push
<1>1. CommittedRows(q) /\ gateway \in [Push -> {"idle", "asked", "charged", "declined"}]
  BY DEF IInv, TypeOK
<1>2. gateway[q] # "idle" => gateway'[q] # "idle"
  BY <1>1
<1>3. gateway[q] = "charged" => gateway'[q] = "charged"
  BY <1>1
<1> QED BY <1>1, <1>2, <1>3 DEF CommittedRows

LEMMA SendKeeps ==
  ASSUME IInv, NEW p \in Push, Send(p)
  PROVE  IInv'
<1>1. TypeOK /\ mine[p] = PendingRows
  BY DEF IInv, OpenRows, Send
<1>2. TypeOK'
  BY <1>1 DEF Send, TypeOK
<1>3. \A q \in Push : Uncommitted(q)'
  BY DEF Send, IInv, TypeOK, Uncommitted
<1>4. \A q \in Push : OpenRows(q)'
  <2> TAKE q \in Push
  <2>1. CASE q = p
    BY <1>1, <2>1 DEF Send, OpenRows, TypeOK
  <2>2. CASE q # p
    BY <1>1, <2>2 DEF Send, OpenRows, TypeOK, IInv
  <2> QED BY <2>1, <2>2
<1>5. ~ \E m \in inflight \cup acked : m.push = p /\ gateway[p] = "idle"
  BY DEF IInv, CallbacksTruthful
<1>6. CASE UNCHANGED gateway
  <2>1. \A q \in Push : CommittedRows(q)'
    BY <1>6 DEF Send, IInv, CommittedRows
  <2>2. CallbacksTruthful'
    BY <1>6 DEF Send, IInv, CallbacksTruthful
  <2> QED BY <1>2, <1>3, <1>4, <2>1, <2>2 DEF IInv
<1>7. CASE gateway' = [gateway EXCEPT ![p] = "asked"]
  <2>0. gateway[p] = "idle"
    BY DEF Send, IInv, OpenRows
  <2>1. \A q \in Push : CommittedRows(q)'
    BY <1>7, <2>0, GatewayStepKeeps DEF Send
  <2>2. CallbacksTruthful'
    BY <1>1, <1>5, <1>7, <2>0 DEF Send, IInv, CallbacksTruthful, TypeOK, Callback
  <2> QED BY <1>2, <1>3, <1>4, <2>1, <2>2 DEF IInv
<1> QED BY <1>6, <1>7 DEF Send

LEMMA ResolveKeeps ==
  ASSUME IInv, NEW p \in Push, NEW outcome \in {"charged", "declined"}, Resolve(p, outcome)
  PROVE  IInv'
<1>1. PICK f \in ResultForms, a \in CallbackAmounts :
        inflight' = inflight \cup
          {[push |-> p, ok |-> (outcome = "charged"), form |-> f, amount |-> a]}
  BY DEF Resolve
<1> DEFINE new == [push |-> p, ok |-> (outcome = "charged"), form |-> f, amount |-> a]
<1>6. new \in Callback /\ new.push = p /\ (new.ok => outcome = "charged")
  BY DEF Callback
<1>7. inflight' = inflight \cup {new}
  BY <1>1
<1> HIDE DEF new
<1>2. TypeOK'
  BY <1>6, <1>7 DEF Resolve, IInv, TypeOK
<1>3. \A q \in Push : CommittedRows(q)'
  BY GatewayStepKeeps DEF Resolve
<1>4. \A q \in Push : OpenRows(q)' /\ Uncommitted(q)'
  BY DEF Resolve, IInv, TypeOK, OpenRows, Uncommitted
<1>5. CallbacksTruthful'
  <2>1. ASSUME NEW m \in inflight \cup acked
        PROVE  gateway'[m.push] \in {"charged", "declined"} /\ (m.ok => gateway'[m.push] = "charged")
    <3>1. gateway[m.push] \in {"charged", "declined"} /\ (m.ok => gateway[m.push] = "charged")
      BY DEF IInv, CallbacksTruthful
    <3>2. m.push # p
      BY <3>1 DEF Resolve
    <3> QED BY <3>1, <3>2 DEF Resolve, IInv, TypeOK, Callback
  <2>2. gateway'[p] = outcome
    BY DEF Resolve, IInv, TypeOK
  <2>3. gateway'[new.push] \in {"charged", "declined"} /\ (new.ok => gateway'[new.push] = "charged")
    BY <1>6, <2>2
  <2>4. (inflight \cup acked)' = (inflight \cup acked) \cup {new}
    BY <1>7 DEF Resolve
  <2> QED BY <2>1, <2>3, <2>4 DEF CallbacksTruthful
<1> QED BY <1>2, <1>3, <1>4, <1>5 DEF IInv

LEMMA CommitKeeps ==
  ASSUME IInv, NEW p \in Push, Commit(p)
  PROVE  IInv'
<1>1. TypeOK'
  BY DEF Commit, IInv, TypeOK
<1>2. \A q \in Push : OpenRows(q)' /\ Uncommitted(q)'
  BY DEF Commit, IInv, TypeOK, OpenRows, Uncommitted
<1>3. ASSUME NEW q \in Push
      PROVE  CommittedRows(q)'
  <2>1. CASE q # p
    BY <2>1 DEF Commit, IInv, TypeOK, CommittedRows
  <2>2. CASE q = p
    <3>1. db[p] = NoRows /\ db'[p] = mine[p] /\ booked' = booked
      BY DEF Commit, IInv, Uncommitted, TypeOK
    <3>2. booked[p] = 0
      BY <3>1, RowFields DEF IInv, CommittedRows
    <3>3. (mine[p] = KnownRows /\ gateway[p] # "idle") \/ mine[p] = FailedRows(FALSE)
      BY DEF Commit, IInv, OpenRows
    <3> QED BY <2>2, <3>1, <3>2, <3>3 DEF CommittedRows, Commit
  <2> QED BY <2>1, <2>2
<1>4. CallbacksTruthful'
  BY DEF Commit, IInv, CallbacksTruthful
<1> QED BY <1>1, <1>2, <1>3, <1>4 DEF IInv

(* A callback that finds its transaction finds it waiting, on a request    *)
(* that has committed.                                                     *)
LEMMA MatchedIsWaiting ==
  ASSUME IInv, NEW m \in Callback, Matches(m)
  PROVE  /\ db[m.push] = KnownRows /\ booked[m.push] = 0
         /\ request[m.push] = "done"
<1>1. m.push \in Push
  BY DEF Callback
<1>2. CommittedRows(m.push) /\ Uncommitted(m.push)
  BY <1>1 DEF IInv
<1>3. db[m.push].checkout /\ db[m.push].txn = "PENDING"
  BY DEF Matches
<1>4. db[m.push] = KnownRows /\ booked[m.push] = 0
  BY <1>2, <1>3, RowFields DEF CommittedRows
<1>5. db[m.push] # NoRows
  BY <1>4, RowFields
<1> QED
  BY <1>2, <1>4, <1>5 DEF Uncommitted

\* What handling m makes of the rows and the books of m's push.
Outcome(m, rows, n) ==
  /\ db' = [db EXCEPT ![m.push] = rows]
  /\ booked' = [booked EXCEPT ![m.push] = n]

(* The three ways a matching callback is handled, each with its outcome.   *)
LEMMA MatchedOutcome ==
  ASSUME IInv, NEW m \in Callback, Matches(m)
  PROVE  /\ RejectAmount(m) => Outcome(m, RefusedRows, 0)
         /\ Settle(m) => Outcome(m, PaidRows, 1)
         /\ Decline(m) => Outcome(m, FailedRows(TRUE), 0)
<1>0. /\ m.push \in Push /\ db[m.push] = KnownRows /\ booked[m.push] = 0
      /\ db \in [Push -> Rows \cup {NoRows}] /\ booked \in [Push -> Nat]
  BY MatchedIsWaiting DEF Callback, IInv, TypeOK
<1>1. booked = [booked EXCEPT ![m.push] = 0]
  BY <1>0
<1>2. ASSUME RejectAmount(m) PROVE Outcome(m, RefusedRows, 0)
  <2>1. [db[m.push] EXCEPT !.txn = "FAILED"] = RefusedRows
    BY <1>0, RowSteps
  <2>2. db' = [db EXCEPT ![m.push] = [db[m.push] EXCEPT !.txn = "FAILED"]]
    BY <1>2 DEF RejectAmount
  <2> QED BY <1>1, <1>2, <2>1, <2>2 DEF RejectAmount, Outcome
<1>3. ASSUME Decline(m) PROVE Outcome(m, FailedRows(TRUE), 0)
  <2>1. [[db[m.push] EXCEPT !.txn = "FAILED"] EXCEPT !.payment = "FAILED"] = FailedRows(TRUE)
    BY <1>0, RowSteps
  <2>2. db' = [db EXCEPT ![m.push] = [[db[m.push] EXCEPT !.txn = "FAILED"] EXCEPT !.payment = "FAILED"]]
    BY <1>0, <1>3 DEF Decline
  <2> QED BY <1>1, <1>3, <2>1, <2>2 DEF Decline, Outcome
<1>4. ASSUME Settle(m) PROVE Outcome(m, PaidRows, 1)
  <2> DEFINE paid == [[[db[m.push] EXCEPT !.txn = "SUCCESSFUL"]
                        EXCEPT !.payment = "SUCCESSFUL"] EXCEPT !.receipt = TRUE]
  <2>1. paid = PaidRows
    BY <1>0, RowSteps
  <2>2. db' = [db EXCEPT ![m.push] = paid]
    BY <1>0, <1>4 DEF Settle
  <2>3. booked' = [booked EXCEPT ![m.push] = 1]
    BY <1>0, <1>4 DEF Settle
  <2> QED BY <2>1, <2>2, <2>3 DEF Outcome
<1> QED BY <1>2, <1>3, <1>4

LEMMA HandleKeeps ==
  ASSUME IInv, NEW m \in inflight \cup acked, Handle(m)
  PROVE  IInv'
<1>0. m \in Callback /\ m.push \in Push /\ gateway[m.push] # "idle"
  BY DEF IInv, TypeOK, Callback, CallbacksTruthful
<1>1. CallbacksTruthful'
  BY DEF Handle, IInv, CallbacksTruthful
<1>2. \A p \in Push : OpenRows(p)'
  BY DEF Handle, IInv, OpenRows
<1>3. acked \subseteq acked' /\ m \in acked'
  BY DEF Handle
<1>4. CASE UNCHANGED <<db, booked>>
  <2>1. TypeOK'
    BY <1>0, <1>4 DEF Handle, IInv, TypeOK
  <2>2. \A p \in Push : CommittedRows(p)' /\ Uncommitted(p)'
    BY <1>3, <1>4 DEF Handle, IInv, CommittedRows, Uncommitted
  <2> QED BY <1>1, <1>2, <2>1, <2>2 DEF IInv
<1>5. CASE Matches(m)
  <2>1. db[m.push] = KnownRows /\ booked[m.push] = 0 /\ request[m.push] = "done"
    BY <1>0, <1>5, MatchedIsWaiting
  <2>2. PICK rows \in {RefusedRows, PaidRows, FailedRows(TRUE)}, n \in {0, 1} :
          /\ Outcome(m, rows, n)
          /\ rows = RefusedRows => n = 0 /\ m.amount = "other"
          /\ rows = PaidRows => n = 1 /\ m.ok /\ m.amount # "other"
          /\ rows = FailedRows(TRUE) => n = 0
    <3>1. CASE RejectAmount(m)
      BY <1>0, <1>5, <3>1, MatchedOutcome DEF RejectAmount, RefusedRows, PaidRows, FailedRows
    <3>2. CASE Settle(m)
      BY <1>0, <1>5, <3>2, MatchedOutcome DEF Settle, ReadsAsSuccess, RefusedRows, PaidRows, FailedRows
    <3>3. CASE Decline(m)
      BY <1>0, <1>5, <3>3, MatchedOutcome DEF Decline, RefusedRows, PaidRows, FailedRows
    <3> QED BY <1>5, <3>1, <3>2, <3>3 DEF Handle, Ignore
  <2>3. rows \in Rows
    BY FormsAreRows
  <2>4. TypeOK'
    BY <1>0, <2>2, <2>3 DEF Handle, Outcome, IInv, TypeOK
  <2>5. ASSUME NEW p \in Push
        PROVE  CommittedRows(p)' /\ Uncommitted(p)'
    <3>0. CommittedRows(p) /\ Uncommitted(p)
      BY DEF IInv
    <3>1. CASE p # m.push
      <4>1. db'[p] = db[p] /\ booked'[p] = booked[p]
        BY <2>2, <3>1 DEF Outcome, IInv, TypeOK
      <4> QED BY <1>3, <3>0, <4>1 DEF Handle, CommittedRows, Uncommitted
    <3>2. CASE p = m.push
      <4>1. db'[p] = rows /\ booked'[p] = n
        BY <2>2, <3>2 DEF Outcome, IInv, TypeOK
      <4>2. Uncommitted(p)'
        BY <2>1, <3>2 DEF Handle, Uncommitted
      <4>3. m.ok => gateway[p] = "charged"
        BY <3>2 DEF IInv, CallbacksTruthful
      <4>4. CommittedRows(p)'
        BY <1>0, <1>3, <2>2, <3>2, <4>1, <4>3 DEF Handle, CommittedRows
      <4> QED BY <4>2, <4>4
    <3> QED BY <3>1, <3>2
  <2> QED BY <1>1, <1>2, <2>4, <2>5 DEF IInv
<1> QED BY <1>4, <1>5 DEF Handle, Ignore, RejectAmount, Settle, Decline

LEMMA HandleRaisesKeeps ==
  ASSUME IInv, NEW m \in inflight, HandleRaises(m)
  PROVE  IInv'
<1>1. TypeOK'
  BY DEF HandleRaises, IInv, TypeOK
<1>2. \A p \in Push : OpenRows(p)' /\ Uncommitted(p)'
  BY DEF HandleRaises, IInv, OpenRows, Uncommitted
<1>3. ASSUME NEW p \in Push
      PROVE  CommittedRows(p)'
  <2>1. CommittedRows(p) /\ acked \subseteq acked'
    BY DEF HandleRaises, IInv
  <2> QED BY <2>1 DEF HandleRaises, CommittedRows
<1>4. CallbacksTruthful'
  BY DEF HandleRaises, IInv, CallbacksTruthful
<1> QED BY <1>1, <1>2, <1>3, <1>4 DEF IInv

LEMMA RejectKeeps ==
  ASSUME IInv, NEW m \in inflight, Reject(m)
  PROVE  IInv'
<1>1. TypeOK'
  BY DEF Reject, IInv, TypeOK
<1>2. \A p \in Push : OpenRows(p)' /\ Uncommitted(p)'
  BY DEF Reject, IInv, OpenRows, Uncommitted
<1>3. ASSUME NEW p \in Push
      PROVE  CommittedRows(p)'
  <2>1. CommittedRows(p) /\ acked \subseteq acked'
    BY DEF Reject, IInv
  <2> QED BY <2>1 DEF Reject, CommittedRows
<1>4. CallbacksTruthful'
  BY DEF Reject, IInv, CallbacksTruthful
<1> QED BY <1>1, <1>2, <1>3, <1>4 DEF IInv

LEMMA NextKeeps == IInv /\ [Next]_vars => IInv'
<1> SUFFICES ASSUME IInv, [Next]_vars PROVE IInv'
  OBVIOUS
<1>1. CASE UNCHANGED vars
  BY <1>1 DEF vars, IInv, TypeOK, OpenRows, CommittedRows, Uncommitted, CallbacksTruthful
<1>2. ASSUME NEW p \in Push, Insert(p) \/ Progress(p) \/ Crash(p)
      PROVE  IInv'
  BY <1>2, InsertKeeps, UnconfiguredKeeps, SendKeeps, AnswerAcceptedKeeps, AnswerFailedKeeps,
     CommitKeeps, CrashKeeps DEF Progress
<1>3. ASSUME NEW p \in Push, NEW outcome \in {"charged", "declined"}, Resolve(p, outcome)
      PROVE  IInv'
  BY <1>3, ResolveKeeps
<1>4. ASSUME NEW m \in inflight, Deliver(m)
      PROVE  IInv'
  BY <1>4, HandleKeeps, RejectKeeps, HandleRaisesKeeps DEF Deliver
<1>5. ASSUME NEW m \in acked, Redeliver(m)
      PROVE  IInv'
  BY <1>5, HandleKeeps DEF Redeliver
<1> QED BY <1>1, <1>2, <1>3, <1>4, <1>5 DEF Next

(* The strengthening below holds in every reachable state.                 *)
THEOREM Invariance == Spec => []IInv
  BY InitEstablishes, NextKeeps, PTL DEF Spec

(* Every variable keeps its type.                                          *)
THEOREM TypeCorrect == Spec => []TypeOK
<1>1. IInv => TypeOK
  BY DEF IInv
<1> QED BY <1>1, Invariance, PTL

(* handle_callback books money once and only for a charged push, whatever  *)
(* callbacks come, early, late or repeated.                                *)
THEOREM NoMoneyWithoutCharge == Spec => []BookedOnlyIfCharged
<1>1. IInv => BookedOnlyIfCharged
  <2> SUFFICES ASSUME IInv, NEW p \in Push
               PROVE  /\ booked[p] <= 1
                      /\ booked[p] = 1 =>
                           /\ gateway[p] = "charged"
                           /\ \E m \in acked : m.push = p /\ m.ok /\ m.amount # "other"
    BY DEF BookedOnlyIfCharged
  <2>1. CommittedRows(p)
    BY DEF IInv
  <2>2. CASE booked[p] = 0
    BY <2>2
  <2>3. CASE booked[p] = 1
    BY <2>1, <2>3 DEF CommittedRows
  <2> QED BY <2>1, <2>2, <2>3 DEF CommittedRows
<1> QED BY <1>1, Invariance, PTL

(* A payment committed as pending carries a checkout id the gateway gave.  *)
LEMMA PendingKnown ==
  ASSUME IInv, NEW p \in Push
  PROVE  db[p].payment = "PENDING" => db[p].checkout /\ gateway[p] # "idle"
  BY RowFields DEF IInv, CommittedRows

(* Payment, transaction, receipt and books agree, but for refused amounts, *)
(* and what is pending is known to the gateway.                            *)
THEOREM RowsAlwaysAgree == Spec => []RowsAgree
<1>1. IInv => RowsAgree
  <2> SUFFICES ASSUME IInv, NEW p \in Push
               PROVE  /\ db[p].payment = db[p].txn
                           \/ (db[p].txn = "FAILED" /\ db[p].payment = "PENDING")
                      /\ db[p].payment = "SUCCESSFUL" <=> booked[p] = 1
                      /\ db[p].payment = "SUCCESSFUL" <=> db[p].receipt
                      /\ db[p].txn = "FAILED" /\ db[p].payment = "PENDING" =>
                           \E m \in acked : m.push = p /\ m.amount = "other"
    BY PendingKnown DEF RowsAgree
  <2>0. CommittedRows(p)
    BY DEF IInv
  <2>1. CASE db[p] = NoRows /\ booked[p] = 0
    BY <2>1, RowFields
  <2>2. CASE db[p] = KnownRows /\ booked[p] = 0
    BY <2>2, RowFields
  <2>3. CASE /\ db[p] = RefusedRows /\ booked[p] = 0
             /\ \E m \in acked : m.push = p /\ m.amount = "other"
    BY <2>3, RowFields
  <2>4. CASE \E c \in BOOLEAN : db[p] = FailedRows(c) /\ booked[p] = 0
    BY <2>4, RowFields
  <2>5. CASE db[p] = PaidRows /\ booked[p] = 1
    BY <2>5, RowFields
  <2> QED BY <2>0, <2>1, <2>2, <2>3, <2>4, <2>5 DEF CommittedRows
<1> QED BY <1>1, Invariance, PTL

----------------------------------------------------------------------------
(* A charged push is not shown as failed but for the two reasons the code  *)
(* leaves.                                                                 *)

\* A callback tells a charge whenever there was one.
ChargesTold ==
  \A m \in inflight \cup acked : gateway[m.push] = "charged" => m.ok

\* Rows that failed through a callback failed through one that reads as no
\* success; that the gateway had charged all the same is told by a number 0.
FailedByCallback(p) ==
  db[p] = FailedRows(TRUE) =>
    \E m \in acked : m.push = p /\ (gateway[p] = "charged" => m.form = "zero")

FInv == ChargesTold /\ \A p \in Push : FailedByCallback(p)

LEMMA InitEstablishesFInv == Init => FInv
  BY RowFields DEF Init, FInv, ChargesTold, FailedByCallback

(* Steps that leave the books, the charges and the callbacks alone.        *)
LEMMA QuietKeepsFInv ==
  ASSUME FInv, UNCHANGED <<db, gateway>>, acked \subseteq acked',
         (inflight \cup acked)' = inflight \cup acked
  PROVE  FInv'
<1>1. ChargesTold'
  BY DEF FInv, ChargesTold
<1>2. ASSUME NEW p \in Push PROVE FailedByCallback(p)'
  BY DEF FInv, FailedByCallback
<1> QED BY <1>1, <1>2 DEF FInv

LEMMA SendKeepsFInv ==
  ASSUME IInv, FInv, NEW p \in Push, Send(p)
  PROVE  FInv'
<1>1. gateway[p] = "idle" /\ gateway \in [Push -> {"idle", "asked", "charged", "declined"}]
  BY DEF Send, IInv, OpenRows, TypeOK
<1>2. UNCHANGED <<db, inflight, acked>>
  BY DEF Send
<1>3. \A q \in Push : gateway'[q] = "charged" => gateway[q] = "charged"
  BY <1>1 DEF Send
<1>4. \A m \in inflight \cup acked : m.push \in Push
  BY DEF IInv, TypeOK, Callback
<1>5. ChargesTold'
  BY <1>2, <1>3, <1>4 DEF FInv, ChargesTold
<1>6. ASSUME NEW q \in Push PROVE FailedByCallback(q)'
  BY <1>2, <1>3 DEF FInv, FailedByCallback
<1> QED BY <1>5, <1>6 DEF FInv

LEMMA CommitKeepsFInv ==
  ASSUME IInv, FInv, NEW p \in Push, Commit(p)
  PROVE  FInv'
<1>1. UNCHANGED <<gateway, inflight, acked>>
  BY DEF Commit
<1>2. mine[p] # FailedRows(TRUE)
  <2>1. mine[p] = KnownRows \/ mine[p] = FailedRows(FALSE)
    BY DEF Commit, IInv, OpenRows
  <2> QED BY <2>1, RowFields
<1>3. db' = [db EXCEPT ![p] = mine[p]] /\ db \in [Push -> Rows \cup {NoRows}]
  BY DEF Commit, IInv, TypeOK
<1>4. ChargesTold'
  BY <1>1 DEF FInv, ChargesTold
<1>5. ASSUME NEW q \in Push PROVE FailedByCallback(q)'
  <2>1. db'[q] = FailedRows(TRUE) => db[q] = FailedRows(TRUE)
    BY <1>2, <1>3
  <2> QED BY <1>1, <2>1 DEF FInv, FailedByCallback
<1> QED BY <1>4, <1>5 DEF FInv

LEMMA ResolveKeepsFInv ==
  ASSUME IInv, FInv, NEW p \in Push, NEW outcome \in {"charged", "declined"}, Resolve(p, outcome)
  PROVE  FInv'
<1>1. PICK new : inflight' = inflight \cup {new} /\ new.push = p /\ new.ok = (outcome = "charged")
  <2>1. PICK f \in ResultForms, a \in CallbackAmounts :
          inflight' = inflight \cup
            {[push |-> p, ok |-> (outcome = "charged"), form |-> f, amount |-> a]}
    BY DEF Resolve
  <2> DEFINE c == [push |-> p, ok |-> (outcome = "charged"), form |-> f, amount |-> a]
  <2>2. inflight' = inflight \cup {c}
    BY <2>1
  <2>3. c.push = p /\ c.ok = (outcome = "charged")
    OBVIOUS
  <2> HIDE DEF c
  <2> QED BY <2>2, <2>3
<1>2. /\ gateway' = [gateway EXCEPT ![p] = outcome] /\ gateway[p] = "asked"
      /\ gateway \in [Push -> {"idle", "asked", "charged", "declined"}]
      /\ UNCHANGED <<db, acked>>
  BY DEF Resolve, IInv, TypeOK
<1>3. \A m \in inflight \cup acked : m.push \in Push /\ m.push # p
  <2>1. \A m \in inflight \cup acked : m.push \in Push /\ gateway[m.push] \in {"charged", "declined"}
    BY DEF IInv, TypeOK, Callback, CallbacksTruthful
  <2> QED BY <1>2, <2>1
<1>4. \A m \in inflight \cup acked : gateway'[m.push] = gateway[m.push]
  BY <1>2, <1>3
<1>5. ChargesTold'
  <2>1. gateway'[new.push] = "charged" => new.ok
    BY <1>1, <1>2
  <2>2. (inflight \cup acked)' = (inflight \cup acked) \cup {new}
    BY <1>1, <1>2
  <2> QED BY <1>4, <2>1, <2>2 DEF FInv, ChargesTold
<1>6. ASSUME NEW q \in Push PROVE FailedByCallback(q)'
  <2>1. CASE db[q] # FailedRows(TRUE)
    BY <1>2, <2>1 DEF FailedByCallback
  <2>2. CASE db[q] = FailedRows(TRUE)
    <3>1. PICK m \in acked : m.push = q /\ (gateway[q] = "charged" => m.form = "zero")
      BY <2>2 DEF FInv, FailedByCallback
    <3>2. gateway'[q] = gateway[q]
      BY <1>4, <3>1
    <3> QED BY <1>2, <3>1, <3>2 DEF FailedByCallback
  <2> QED BY <2>1, <2>2
<1> QED BY <1>5, <1>6 DEF FInv

LEMMA HandleKeepsFInv ==
  ASSUME IInv, FInv, NEW m \in inflight \cup acked, Handle(m)
  PROVE  FInv'
<1>1. /\ UNCHANGED gateway /\ acked' = acked \cup {m} /\ inflight' = inflight \ {m}
      /\ Ignore(m) \/ RejectAmount(m) \/ Settle(m) \/ Decline(m)
  BY DEF Handle
<1>2. m \in Callback /\ m.push \in Push /\ m.form \in {"word", "zero"}
      /\ db \in [Push -> Rows \cup {NoRows}]
  BY PayHeroAssumption DEF IInv, TypeOK, Callback
<1>3. ChargesTold'
  BY <1>1 DEF FInv, ChargesTold
<1>4. ASSUME NEW q \in Push PROVE FailedByCallback(q)'
  <2>1. CASE db'[q] # FailedRows(TRUE)
    BY <2>1 DEF FailedByCallback
  <2>2. CASE db'[q] = db[q]
    BY <1>1, <2>2 DEF FInv, FailedByCallback
  <2>3. CASE q = m.push /\ Decline(m)
    <3>1. gateway[q] = "charged" => m.form = "zero"
      BY <1>2, <2>3 DEF Decline, ReadsAsSuccess, FInv, ChargesTold
    <3> QED BY <1>1, <2>3, <3>1 DEF FailedByCallback
  <2>4. CASE Ignore(m)
    BY <2>2, <2>4 DEF Ignore
  <2>5. CASE q # m.push
    <3>1. Ignore(m) \/ \E r \in {RefusedRows, PaidRows, FailedRows(TRUE)} : db' = [db EXCEPT ![m.push] = r]
      BY <1>1, <1>2, MatchedOutcome DEF RejectAmount, Settle, Decline, Outcome
    <3> QED BY <1>2, <2>2, <2>4, <2>5, <3>1
  <2>6. CASE q = m.push /\ (RejectAmount(m) \/ Settle(m))
    <3>1. Matches(m)
      BY <2>6 DEF RejectAmount, Settle
    <3>2. \/ db' = [db EXCEPT ![m.push] = RefusedRows]
          \/ db' = [db EXCEPT ![m.push] = PaidRows]
      BY <1>2, <2>6, <3>1, MatchedOutcome DEF Outcome
    <3>3. db'[q] = RefusedRows \/ db'[q] = PaidRows
      BY <1>2, <2>6, <3>2
    <3> QED BY <2>1, <3>3, RowFields
  <2> QED BY <1>1, <2>3, <2>4, <2>5, <2>6
<1> QED BY <1>3, <1>4 DEF FInv

LEMMA NextKeepsFInv == IInv /\ FInv /\ [Next]_vars => FInv'
<1> SUFFICES ASSUME IInv, FInv, [Next]_vars PROVE FInv'
  OBVIOUS
<1>1. CASE UNCHANGED vars
  BY <1>1, QuietKeepsFInv DEF vars
<1>2. ASSUME NEW p \in Push, Insert(p) \/ Progress(p) \/ Crash(p)
      PROVE  FInv'
  <2>1. CASE Insert(p) \/ Unconfigured(p) \/ AnswerAccepted(p) \/ AnswerFailed(p) \/ Crash(p)
    BY <2>1, QuietKeepsFInv DEF Insert, Unconfigured, AnswerAccepted, AnswerFailed, Crash
  <2> QED BY <1>2, <2>1, SendKeepsFInv, CommitKeepsFInv DEF Progress
<1>3. ASSUME NEW p \in Push, NEW outcome \in {"charged", "declined"}, Resolve(p, outcome)
      PROVE  FInv'
  BY <1>3, ResolveKeepsFInv
<1>4. ASSUME NEW m \in inflight, Deliver(m)
      PROVE  FInv'
  <2>1. CASE Reject(m) \/ HandleRaises(m)
    <3>1. UNCHANGED <<db, gateway>> /\ acked' = acked \cup {m} /\ inflight' = inflight \ {m}
      BY <2>1 DEF Reject, HandleRaises
    <3> QED BY <3>1, QuietKeepsFInv
  <2> QED BY <1>4, <2>1, HandleKeepsFInv DEF Deliver
<1>5. ASSUME NEW m \in acked, Redeliver(m)
      PROVE  FInv'
  BY <1>5, HandleKeepsFInv DEF Redeliver
<1> QED BY <1>1, <1>2, <1>3, <1>4, <1>5 DEF Next

(* A push that was charged shows as failed only if its request was given   *)
(* another answer, or the callback wrote success as a number 0, which      *)
(* handle_callback reads as nothing.                                       *)
THEOREM ChargesAreShown == Spec => []ChargedIsNotFailed
<1>1. IInv /\ FInv => ChargedIsNotFailed
  <2> SUFFICES ASSUME IInv, FInv, NEW p \in Push, gateway[p] = "charged",
                      db[p].payment = "FAILED", db[p].checkout
               PROVE  \E m \in acked : m.push = p /\ m.form = "zero"
    BY DEF ChargedIsNotFailed
  <2>1. CommittedRows(p)
    BY DEF IInv
  <2>2. db[p] = FailedRows(TRUE)
    BY <2>1, RowFields DEF CommittedRows
  <2> QED BY <2>2 DEF FInv, FailedByCallback
<1>2. Spec => [](IInv /\ FInv)
  BY InitEstablishes, InitEstablishesFInv, NextKeeps, NextKeepsFInv, PTL DEF Spec
<1> QED BY <1>1, <1>2, PTL

----------------------------------------------------------------------------
(* What a pending payment waits for: the core of SettledUnlessMissed.      *)

\* The gateway still has to resolve p, or to deliver what it has sent for p.
Expected(p) == gateway[p] = "asked" \/ \E m \in inflight : m.push = p

\* The callback of a push the gateway was asked for is on its way until it is
\* handled, or can no longer be.
Awaited(p) ==
  gateway[p] # "idle" /\ db[p] \in {NoRows, KnownRows} /\ p \notin missed => Expected(p)

AInv == \A p \in Push : Awaited(p)

\* A payment that shows as pending waits for the gateway, which has still to
\* resolve the push or to deliver a callback that will find it, unless its
\* callback was missed or refused (the cases of SettledUnlessMissed).
PendingIsAwaited ==
  \A p \in Push : db[p].payment = "PENDING" /\ ~Unsettled(p) =>
    db[p].txn = "PENDING" /\ db[p].checkout /\ Expected(p)

\* A callback that reaches a pending payment, be it sent again, settles it, or
\* is one of the cases of SettledUnlessMissed.
CallbackSettles ==
  [][\A m \in inflight \cup acked :
       (Deliver(m) \/ Redeliver(m)) /\ db[m.push].payment = "PENDING" =>
         db'[m.push].payment # "PENDING" \/ Unsettled(m.push)']_vars

LEMMA InitAwaits == Init => AInv
  BY DEF Init, AInv, Awaited

\* Steps that say no less to the gateway and lose no callback.
LEMMA QuietAwaits ==
  ASSUME AInv, UNCHANGED <<gateway, db>>, inflight \subseteq inflight', missed \subseteq missed'
  PROVE  AInv'
  BY DEF AInv, Awaited, Expected

LEMMA SendAwaits ==
  ASSUME IInv, AInv, NEW p \in Push, Send(p)
  PROVE  AInv'
  BY DEF Send, AInv, Awaited, Expected, IInv, TypeOK

LEMMA CommitAwaits ==
  ASSUME IInv, AInv, NEW p \in Push, Commit(p)
  PROVE  AInv'
<1>1. db[p] = NoRows /\ UNCHANGED <<gateway, inflight, missed>>
  BY DEF Commit, IInv, Uncommitted
<1>2. \A q \in Push : db'[q] \in {NoRows, KnownRows} => db[q] \in {NoRows, KnownRows}
  BY <1>1 DEF Commit, IInv, TypeOK
<1> QED BY <1>1, <1>2 DEF AInv, Awaited, Expected

LEMMA ResolveAwaits ==
  ASSUME IInv, AInv, NEW p \in Push, NEW outcome \in {"charged", "declined"}, Resolve(p, outcome)
  PROVE  AInv'
<1>1. PICK new : inflight' = inflight \cup {new} /\ new.push = p
  <2>1. PICK f \in ResultForms, a \in CallbackAmounts :
          inflight' = inflight \cup
            {[push |-> p, ok |-> (outcome = "charged"), form |-> f, amount |-> a]}
    BY DEF Resolve
  <2> DEFINE c == [push |-> p, ok |-> (outcome = "charged"), form |-> f, amount |-> a]
  <2>2. inflight' = inflight \cup {c} /\ c.push = p
    BY <2>1
  <2> QED BY <2>2
<1>2. \A q \in Push \ {p} : gateway'[q] = gateway[q]
  BY DEF Resolve, IInv, TypeOK
<1>3. UNCHANGED <<db, missed>>
  BY DEF Resolve
<1> QED BY <1>1, <1>2, <1>3 DEF AInv, Awaited, Expected

\* The step that answers m is the only one that takes m from the callbacks
\* awaited: it must settle its push or count it as missed.
LEMMA AnswerAwaits ==
  ASSUME AInv, NEW m, UNCHANGED gateway, inflight' = inflight \ {m}, missed \subseteq missed',
         \A q \in Push : q # m.push => db'[q] = db[q],
         m.push \in missed' \/ db'[m.push] \notin {NoRows, KnownRows}
  PROVE  AInv'
  BY DEF AInv, Awaited, Expected

\* A handled callback leaves its push missed or settled.
LEMMA HandleLeaves ==
  ASSUME IInv, NEW m \in inflight \cup acked, Handle(m)
  PROVE  /\ m.push \in missed' \/ db'[m.push] \notin {NoRows, KnownRows}
         /\ \A q \in Push : q # m.push => db'[q] = db[q]
         /\ db[m.push].payment = "PENDING" =>
              db'[m.push].payment # "PENDING" \/ Unsettled(m.push)'
<1>1. /\ m \in Callback /\ m.push \in Push /\ db \in [Push -> Rows \cup {NoRows}]
      /\ CommittedRows(m.push)
  BY DEF IInv, TypeOK, Callback
<1>2. CASE Matches(m)
  <2>1. PICK r \in {RefusedRows, PaidRows, FailedRows(TRUE)} :
          db' = [db EXCEPT ![m.push] = r] /\ (r = RefusedRows => m.amount = "other")
    <3>1. CASE RejectAmount(m)
      BY <1>1, <1>2, <3>1, MatchedOutcome DEF Outcome, RejectAmount
    <3>2. CASE Settle(m)
      BY <1>1, <1>2, <3>2, MatchedOutcome, RowFields DEF Outcome
    <3>3. CASE Decline(m)
      BY <1>1, <1>2, <3>3, MatchedOutcome, RowFields DEF Outcome
    <3> QED BY <1>2, <3>1, <3>2, <3>3 DEF Handle, Ignore
  <2>2. db'[m.push] = r /\ \A q \in Push : q # m.push => db'[q] = db[q]
    BY <1>1, <2>1
  <2>3. r \notin {NoRows, KnownRows}
    BY <2>1, RowFields
  <2>4. r.payment # "PENDING" \/ Unsettled(m.push)'
    <3>1. CASE r = RefusedRows
      BY <2>1, <3>1 DEF Handle, Unsettled
    <3> QED BY <2>1, <3>1, RowFields
  <2> QED BY <2>2, <2>3, <2>4
<1>3. CASE ~Matches(m)
  <2>1. db' = db /\ missed \subseteq missed' /\ (db[m.push] = NoRows => m.push \in missed')
        /\ acked \subseteq acked'
    BY <1>3 DEF Handle, Ignore, RejectAmount, Settle, Decline
  <2>2. db[m.push] # KnownRows
    BY <1>3, RowFields DEF Matches
  <2>3. db[m.push].payment = "PENDING" => \E c \in acked : c.push = m.push /\ c.amount = "other"
    BY <1>1, <2>2, RowFields DEF CommittedRows
  <2>4. db[m.push].payment = "PENDING" => Unsettled(m.push)'
    BY <2>1, <2>3 DEF Unsettled
  <2> QED BY <2>1, <2>2, <2>4
<1> QED BY <1>2, <1>3

LEMMA HandleAwaits ==
  ASSUME IInv, AInv, NEW m \in inflight \cup acked, Handle(m)
  PROVE  AInv'
<1>1. UNCHANGED gateway /\ inflight' = inflight \ {m} /\ missed \subseteq missed'
  BY DEF Handle
<1> QED BY <1>1, HandleLeaves, AnswerAwaits

LEMMA NextAwaits == IInv /\ AInv /\ [Next]_vars => AInv'
<1> SUFFICES ASSUME IInv, AInv, [Next]_vars PROVE AInv'
  OBVIOUS
<1>1. CASE UNCHANGED vars
  BY <1>1, QuietAwaits DEF vars
<1>2. ASSUME NEW p \in Push, Insert(p) \/ Progress(p) \/ Crash(p)
      PROVE  AInv'
  <2>1. CASE Insert(p) \/ Unconfigured(p) \/ AnswerAccepted(p) \/ AnswerFailed(p) \/ Crash(p)
    BY <2>1, QuietAwaits DEF Insert, Unconfigured, AnswerAccepted, AnswerFailed, Crash
  <2> QED BY <1>2, <2>1, SendAwaits, CommitAwaits DEF Progress
<1>3. ASSUME NEW p \in Push, NEW outcome \in {"charged", "declined"}, Resolve(p, outcome)
      PROVE  AInv'
  BY <1>3, ResolveAwaits
<1>4. ASSUME NEW m \in inflight, Deliver(m)
      PROVE  AInv'
  <2>1. CASE Reject(m) \/ HandleRaises(m)
    <3>1. UNCHANGED <<db, gateway>> /\ inflight' = inflight \ {m} /\ missed' = missed \cup {m.push}
      BY <2>1 DEF Reject, HandleRaises
    <3> QED BY <3>1, AnswerAwaits
  <2> QED BY <1>4, <2>1, HandleAwaits DEF Deliver
<1>5. ASSUME NEW m \in acked, Redeliver(m)
      PROVE  AInv'
  BY <1>5, HandleAwaits DEF Redeliver
<1> QED BY <1>1, <1>2, <1>3, <1>4, <1>5 DEF Next

\* A payment that shows as pending, and whose callback was neither missed nor
\* refused, has a callback to come that will find it.
THEOREM PendingIsNeverForgotten == Spec => []PendingIsAwaited
<1>1. IInv /\ AInv => PendingIsAwaited
  <2> SUFFICES ASSUME IInv, AInv, NEW p \in Push, db[p].payment = "PENDING", ~Unsettled(p)
               PROVE  db[p].txn = "PENDING" /\ db[p].checkout /\ Expected(p)
    BY DEF PendingIsAwaited
  <2>1. db[p] = KnownRows /\ gateway[p] # "idle"
    BY RowFields DEF IInv, CommittedRows, Unsettled
  <2> QED BY <2>1, RowFields DEF AInv, Awaited, Unsettled
<1>2. Spec => [](IInv /\ AInv)
  BY InitEstablishes, InitAwaits, NextKeeps, NextAwaits, PTL DEF Spec
<1> QED BY <1>1, <1>2, PTL

\* A callback that reaches a pending payment settles it, unless it is one
\* of those that cannot be used.
THEOREM CallbacksSettle == Spec => CallbackSettles
<1>1. ASSUME IInv, NEW m \in inflight \cup acked, Deliver(m) \/ Redeliver(m),
             db[m.push].payment = "PENDING"
      PROVE  db'[m.push].payment # "PENDING" \/ Unsettled(m.push)'
  <2>1. CASE Reject(m) \/ HandleRaises(m)
    BY <2>1 DEF Reject, HandleRaises, Unsettled
  <2> QED BY <1>1, <2>1, HandleLeaves DEF Deliver, Redeliver
<1>2. ASSUME IInv
      PROVE  [\A m \in inflight \cup acked :
                (Deliver(m) \/ Redeliver(m)) /\ db[m.push].payment = "PENDING" =>
                  db'[m.push].payment # "PENDING" \/ Unsettled(m.push)']_vars
  BY <1>1, <1>2
<1> QED BY <1>2, Invariance, PTL DEF CallbackSettles

----------------------------------------------------------------------------
(* PayHero implements PaymentLifecycle.                                    *)

LEMMA InitMaps == Init => Lifecycle!Init
  BY RowFields DEF Init, Lifecycle!Init

(* A step that changes one payment's rows changes one payment's stage.     *)
LEMMA StageFollows ==
  ASSUME IInv, NEW p \in Push, NEW r, db' = [db EXCEPT ![p] = r]
  PROVE  [q \in Push |-> db[q].payment]' = [[q \in Push |-> db[q].payment] EXCEPT ![p] = r.payment]
  BY DEF IInv, TypeOK

LEMMA CommitMaps ==
  ASSUME IInv, NEW p \in Push, Commit(p)
  PROVE  Lifecycle!Appear(p)
<1>1. db[p] = NoRows /\ db' = [db EXCEPT ![p] = mine[p]] /\ booked' = booked
  BY DEF Commit, IInv, Uncommitted
<1>2. mine[p].payment \in {"PENDING", "FAILED"}
  BY RowFields DEF Commit, IInv, OpenRows
<1> QED BY <1>1, <1>2, StageFollows, RowFields DEF Lifecycle!Appear

(* A handled callback succeeds or fails the payment that waited for it, or *)
(* leaves it as it was.                                                    *)
LEMMA HandleMaps ==
  ASSUME IInv, NEW m \in inflight \cup acked, Handle(m)
  PROVE  \/ Lifecycle!Succeed(m.push) \/ Lifecycle!Fail(m.push)
         \/ UNCHANGED Lifecycle!lifecycleVars
<1>0. m \in Callback /\ m.push \in Push
  BY DEF IInv, TypeOK, Callback
<1>1. CASE ~Matches(m)
  <2>1. UNCHANGED <<db, booked>>
    BY <1>1 DEF Handle, Ignore, RejectAmount, Settle, Decline
  <2> QED BY <2>1 DEF Lifecycle!lifecycleVars
<1>2. CASE Matches(m)
  <2>0. /\ db[m.push] = KnownRows /\ booked[m.push] = 0
        /\ booked \in [Push -> Nat] /\ db \in [Push -> Rows \cup {NoRows}]
    BY <1>0, <1>2, MatchedIsWaiting DEF IInv, TypeOK
  <2>1. CASE RejectAmount(m)
    <3>1. Outcome(m, RefusedRows, 0)
      BY <1>0, <1>2, <2>1, MatchedOutcome
    <3>2. [q \in Push |-> db[q].payment]' = [q \in Push |-> db[q].payment]
      BY <1>0, <2>0, <3>1, RowFields DEF Outcome
    <3>3. booked' = booked
      BY <2>0, <3>1 DEF Outcome
    <3> QED BY <3>2, <3>3 DEF Lifecycle!lifecycleVars
  <2>2. CASE Settle(m)
    <3>1. Outcome(m, PaidRows, 1)
      BY <1>0, <1>2, <2>2, MatchedOutcome
    <3>2. booked' = [booked EXCEPT ![m.push] = @ + 1]
      BY <1>0, <2>0, <3>1 DEF Outcome
    <3> QED BY <1>0, <2>0, <3>1, <3>2, StageFollows, RowFields DEF Outcome, Lifecycle!Succeed
  <2>3. CASE Decline(m)
    <3>1. Outcome(m, FailedRows(TRUE), 0)
      BY <1>0, <1>2, <2>3, MatchedOutcome
    <3>2. booked' = booked
      BY <1>0, <2>0, <3>1 DEF Outcome
    <3> QED BY <1>0, <2>0, <3>1, <3>2, StageFollows, RowFields DEF Outcome, Lifecycle!Fail
  <2> QED BY <1>2, <2>1, <2>2, <2>3 DEF Handle, Ignore
<1> QED BY <1>1, <1>2

LEMMA NextMaps == IInv /\ [Next]_vars => [Lifecycle!Next]_(Lifecycle!lifecycleVars)
<1> SUFFICES ASSUME IInv, [Next]_vars
             PROVE  Lifecycle!Next \/ UNCHANGED Lifecycle!lifecycleVars
  OBVIOUS
<1>1. CASE UNCHANGED <<db, booked>>
  BY <1>1 DEF Lifecycle!lifecycleVars
<1>2. ASSUME NEW p \in Push, Commit(p)
      PROVE  Lifecycle!Next
  BY <1>2, CommitMaps DEF Lifecycle!Next
<1>3. ASSUME NEW m \in inflight \cup acked, Handle(m)
      PROVE  Lifecycle!Next \/ UNCHANGED Lifecycle!lifecycleVars
  <2>1. m.push \in Push
    BY DEF IInv, TypeOK, Callback
  <2> QED BY <1>3, <2>1, HandleMaps DEF Lifecycle!Next
<1>4. \/ UNCHANGED <<db, booked>>
      \/ \E p \in Push : Commit(p)
      \/ \E m \in inflight \cup acked : Handle(m)
  BY DEF Next, vars, Insert, Progress, Unconfigured, Send, AnswerAccepted, AnswerFailed, Crash,
     Resolve, Deliver, Reject, HandleRaises, Redeliver
<1> QED BY <1>1, <1>2, <1>3, <1>4

(* Each online payment is absent, then pending, then settled one way for   *)
(* good, and is booked exactly when it succeeds: initiate_stk_push and     *)
(* handle_callback implement PaymentLifecycle.                             *)
THEOREM ImplementsLifecycle == Spec => LifecycleSpec
  BY InitMaps, NextMaps, Invariance, PTL DEF Spec, LifecycleSpec, Lifecycle!Spec
=============================================================================
