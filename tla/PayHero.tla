------------------------------ MODULE PayHero ------------------------------
(***************************************************************************)
(* Online payments: an STK push request (app/services/payhero_service.py,  *)
(* app/api/routes/tenant.py), the PayHero gateway, and the webhook that    *)
(* reconciles its callbacks (app/api/routes/webhooks.py).                  *)
(*                                                                         *)
(* A request inserts its two rows, calls the gateway over HTTP and commits *)
(* only when the call has returned: until then the rows are its own and no *)
(* webhook can see them.  The webhook answers 200 to everything, so a      *)
(* callback it could not use is not sent again.                            *)
(*                                                                         *)
(* One webhook handler runs at a time here (its database work has no       *)
(* await); handlers of two worker processes are Settlement.tla's subject.  *)
(***************************************************************************)
EXTENDS Naturals

CONSTANTS
  Push,             \* STK push requests, each with its payment
  Configured,       \* whether the credentials are set: TRUE, FALSE, or now one, now the
                    \* other (settings are read when a process starts)
  CallbackAmounts,  \* what callbacks carry as amount: "same", "other", "none", "garbled"
  ResultForms,      \* how success is written: "word", or the number "zero"
  PromptAfterCommit,\* TRUE: nobody answers the prompt before the commit
  AnswerMayBeLost,  \* the HTTP call may fail although the gateway accepted
  MayCrash,         \* the process may die during a request
  HandlerMayRaise,  \* the webhook's work may raise (database error, clash of keys)
  SecretMayChange   \* a worker may have started with another webhook secret than
                    \* the one in a push's callback URL

ASSUME PayHeroAssumption ==
  /\ Configured \subseteq BOOLEAN /\ PromptAfterCommit \in BOOLEAN
  /\ AnswerMayBeLost \in BOOLEAN /\ MayCrash \in BOOLEAN
  /\ HandlerMayRaise \in BOOLEAN /\ SecretMayChange \in BOOLEAN
  /\ CallbackAmounts \subseteq {"same", "other", "none", "garbled"}
  /\ ResultForms \subseteq {"word", "zero"}

VARIABLES
  request,   \* request[p]: how far tenant_pay_submit got
  mine,      \* mine[p]: the rows of p in the request's open transaction
  db,        \* db[p]: the rows of p as committed
  gateway,   \* gateway[p]: the push at PayHero
  inflight,  \* callbacks not yet answered
  acked,     \* callbacks answered 200 (a duplicate may still come)
  booked,    \* booked[p]: times allocate_payment has run for p
  missed     \* pushes with a callback answered before the commit, rejected, or
             \* whose handling raised (not part of the program)

vars == <<request, mine, db, gateway, inflight, acked, booked, missed>>

PaymentStatus == {"PENDING", "SUCCESSFUL", "FAILED"}

\* Payment.status, PayHeroTransaction.status, whether checkout_request_id is
\* set, whether the payment has a receipt.
Rows == [payment: PaymentStatus, txn: PaymentStatus, checkout: BOOLEAN, receipt: BOOLEAN]
NoRows == [payment |-> "NONE", txn |-> "NONE", checkout |-> FALSE, receipt |-> FALSE]

Callback == [push: Push, ok: BOOLEAN, form: ResultForms, amount: CallbackAmounts]

----------------------------------------------------------------------------
(* initiate_stk_push within tenant_pay_submit.                             *)

\* Payment and transaction are flushed, PENDING.
Insert(p) ==
  /\ request[p] = "new"
  /\ request' = [request EXCEPT ![p] = "flushed"]
  /\ mine' = [mine EXCEPT ![p] =
       [payment |-> "PENDING", txn |-> "PENDING", checkout |-> FALSE, receipt |-> FALSE]]
  /\ UNCHANGED <<db, gateway, inflight, acked, booked, missed>>

\* Both rows of p FAILED: no configuration, an error answer, an exception.
FailMineTxnOnly(p) ==   \* mutant: payment.status = FAILED forgotten
  mine' = [mine EXCEPT ![p].txn = "FAILED"]
FailMine(p) ==
  mine' = [mine EXCEPT ![p].txn = "FAILED", ![p].payment = "FAILED"]

Unconfigured(p) ==
  /\ request[p] = "flushed" /\ FALSE \in Configured
  /\ request' = [request EXCEPT ![p] = "answered"]
  /\ FailMine(p)
  /\ UNCHANGED <<db, gateway, inflight, acked, booked, missed>>

\* httpx.post leaves; it reaches the gateway or not.
Send(p) ==
  /\ request[p] = "flushed" /\ TRUE \in Configured
  /\ request' = [request EXCEPT ![p] = "sent"]
  /\ gateway' \in {gateway, [gateway EXCEPT ![p] = "asked"]}
  /\ UNCHANGED <<mine, db, inflight, acked, booked, missed>>

\* 200/201 with a checkout id.
AnswerAccepted(p) ==
  /\ request[p] = "sent" /\ gateway[p] # "idle"
  /\ request' = [request EXCEPT ![p] = "answered"]
  /\ mine' = [mine EXCEPT ![p].checkout = TRUE]
  /\ UNCHANGED <<db, gateway, inflight, acked, booked, missed>>

\* Any other answer, or an exception (timeout after 30 s included).
AnswerFailed(p) ==
  /\ request[p] = "sent" /\ (gateway[p] = "idle" \/ AnswerMayBeLost)
  /\ request' = [request EXCEPT ![p] = "answered"]
  /\ FailMine(p)
  /\ UNCHANGED <<db, gateway, inflight, acked, booked, missed>>

\* db.commit() of the route.
Commit(p) ==
  /\ request[p] = "answered"
  /\ request' = [request EXCEPT ![p] = "done"]
  /\ db' = [db EXCEPT ![p] = mine[p]]
  /\ UNCHANGED <<mine, gateway, inflight, acked, booked, missed>>

\* The process dies and the open transaction with it.
Crash(p) ==
  /\ MayCrash /\ request[p] \in {"flushed", "sent", "answered"}
  /\ request' = [request EXCEPT ![p] = "crashed"]
  /\ mine' = [mine EXCEPT ![p] = NoRows]
  /\ UNCHANGED <<db, gateway, inflight, acked, booked, missed>>

----------------------------------------------------------------------------
(* The gateway (external).                                                 *)

\* The tenant enters the PIN and is charged, or the prompt is declined or runs
\* out; either way one callback is sent.
Resolve(p, outcome) ==
  /\ gateway[p] = "asked"
  /\ PromptAfterCommit => request[p] \in {"done", "crashed"}
  /\ gateway' = [gateway EXCEPT ![p] = outcome]
  /\ \E f \in ResultForms, a \in CallbackAmounts :
       inflight' = inflight \cup
         {[push |-> p, ok |-> (outcome = "charged"), form |-> f, amount |-> a]}
  /\ UNCHANGED <<request, mine, db, acked, booked, missed>>

----------------------------------------------------------------------------
(* handle_callback within payhero_callback.                                *)

\* The transaction of callback m is found by its checkout id, and is pending.
MatchesAny(m) == db[m.push].checkout   \* mutant: no test for PENDING
Matches(m) == db[m.push].checkout /\ db[m.push].txn = "PENDING"

\* str(payload.get("status") or payload.get("ResultCode") or ""): the number
\* zero is falsy in Python and reads as no indicator at all.
ReadsAsSuccessNever(m) == FALSE   \* mutant: the words are compared in another case
ReadsAsSuccess(m) == m.ok /\ m.form = "word"

\* No checkout id, unknown transaction, or one already resolved.
Ignore(m) ==
  /\ ~Matches(m)
  /\ UNCHANGED <<db, booked>>

\* The amount differs: the transaction fails, the payment is not touched.
RejectAmount(m) ==
  /\ Matches(m) /\ m.amount = "other"
  /\ db' = [db EXCEPT ![m.push].txn = "FAILED"]
  /\ UNCHANGED booked

\* Success: both rows, allocate_payment (Billing's RecordPayment), receipt.
SettleWithoutAmountCheck(m) ==   \* mutant: the amount is not compared
  /\ Matches(m) /\ ReadsAsSuccess(m)
  /\ db' = [db EXCEPT ![m.push].txn = "SUCCESSFUL", ![m.push].payment = "SUCCESSFUL",
                      ![m.push].receipt = TRUE]
  /\ booked' = [booked EXCEPT ![m.push] = @ + 1]
Settle(m) ==
  /\ Matches(m) /\ m.amount # "other" /\ ReadsAsSuccess(m)
  /\ db' = [db EXCEPT ![m.push].txn = "SUCCESSFUL", ![m.push].payment = "SUCCESSFUL",
                      ![m.push].receipt = TRUE]
  /\ booked' = [booked EXCEPT ![m.push] = @ + 1]

DeclineTxnOnly(m) ==   \* mutant: payment.status = FAILED forgotten
  /\ Matches(m) /\ m.amount # "other" /\ ~ReadsAsSuccess(m)
  /\ db' = [db EXCEPT ![m.push].txn = "FAILED"]
  /\ UNCHANGED booked
Decline(m) ==
  /\ Matches(m) /\ m.amount # "other" /\ ~ReadsAsSuccess(m)
  /\ db' = [db EXCEPT ![m.push].txn = "FAILED", ![m.push].payment = "FAILED"]
  /\ UNCHANGED booked

\* handle_callback and the commit; the answer is 200 in every case.
Handle(m) ==
  /\ Ignore(m) \/ RejectAmount(m) \/ Settle(m) \/ Decline(m)
  /\ inflight' = inflight \ {m}
  /\ acked' = acked \cup {m}
  /\ missed' = missed \cup {p \in {m.push} : db[p] = NoRows}
  /\ UNCHANGED <<request, mine, gateway>>

\* Its work raised: rolled back, logged, and answered 200 all the same.
HandleRaises(m) ==
  /\ HandlerMayRaise /\ Matches(m)
  /\ inflight' = inflight \ {m}
  /\ acked' = acked \cup {m}
  /\ missed' = missed \cup {m.push}
  /\ UNCHANGED <<request, mine, db, gateway, booked>>

\* The secret in the URL is not this worker's: answered 200, nothing is done.
Reject(m) ==
  /\ SecretMayChange
  /\ inflight' = inflight \ {m}
  /\ acked' = acked \cup {m}
  /\ missed' = missed \cup {m.push}
  /\ UNCHANGED <<request, mine, db, gateway, booked>>

Deliver(m) == m \in inflight /\ (Reject(m) \/ Handle(m) \/ HandleRaises(m))

\* The gateway sends an answered callback once more.
Redeliver(m) == m \in acked /\ Handle(m)

----------------------------------------------------------------------------
Init ==
  /\ request = [p \in Push |-> "new"]
  /\ mine = [p \in Push |-> NoRows]
  /\ db = [p \in Push |-> NoRows]
  /\ gateway = [p \in Push |-> "idle"]
  /\ inflight = {} /\ acked = {}
  /\ booked = [p \in Push |-> 0]
  /\ missed = {}

\* The steps of a request once it has begun, crashes aside.
Progress(p) ==
  \/ Unconfigured(p) \/ Send(p) \/ AnswerAccepted(p) \/ AnswerFailed(p) \/ Commit(p)

Next ==
  \/ \E p \in Push : Insert(p) \/ Progress(p) \/ Crash(p)
  \/ \E p \in Push, outcome \in {"charged", "declined"} : Resolve(p, outcome)
  \/ \E m \in inflight : Deliver(m)
  \/ \E m \in acked : Redeliver(m)

Spec == Init /\ [][Next]_vars

\* A request that began runs on (unless it crashes), the gateway resolves what
\* it was asked and delivers each callback at least once.  Nothing makes it
\* deliver an answered callback again.
FairSpec ==
  /\ Spec
  /\ \A p \in Push : WF_vars(Progress(p))
  /\ \A p \in Push : WF_vars(\E outcome \in {"charged", "declined"} : Resolve(p, outcome))
  /\ \A m \in Callback : WF_vars(Deliver(m))

----------------------------------------------------------------------------
(* Properties.                                                             *)

TypeOK ==
  /\ request \in [Push -> {"new", "flushed", "sent", "answered", "done", "crashed"}]
  /\ mine \in [Push -> Rows \cup {NoRows}]
  /\ db \in [Push -> Rows \cup {NoRows}]
  /\ gateway \in [Push -> {"idle", "asked", "charged", "declined"}]
  /\ inflight \subseteq Callback /\ acked \subseteq Callback
  /\ booked \in [Push -> Nat]

\* Money is booked only for a push the gateway charged for the amount asked
\* (or for an amount it did not tell), and at most once, whatever callbacks
\* come, in whatever order and however often.
BookedOnlyIfCharged ==
  \A p \in Push :
    /\ booked[p] <= 1
    /\ booked[p] = 1 =>
         /\ gateway[p] = "charged"
         /\ \E m \in acked : m.push = p /\ m.ok /\ m.amount # "other"

\* Payment and transaction tell the same story, except after a refused amount,
\* and a payment that is pending on the books is known to the gateway: there is
\* something to wait for.
RowsAgree ==
  \A p \in Push : LET r == db[p] IN
    /\ r.payment = r.txn \/ (r.txn = "FAILED" /\ r.payment = "PENDING")
    /\ r.payment = "SUCCESSFUL" <=> booked[p] = 1
    /\ r.payment = "SUCCESSFUL" <=> r.receipt
    /\ r.txn = "FAILED" /\ r.payment = "PENDING" =>
         \E m \in acked : m.push = p /\ m.amount = "other"
    /\ r.payment = "PENDING" => r.checkout /\ gateway[p] # "idle"

\* The status page's promise of one payment (PaymentLifecycle) is implemented.
Lifecycle == INSTANCE PaymentLifecycle WITH stage <- [p \in Push |-> db[p].payment]
LifecycleSpec == Lifecycle!Spec

\* tenant.py:145: the status is polled "so the tenant is never left wondering":
\* a payment that shows as pending is settled in the end.
NeverLeftWondering ==
  \A p \in Push : db[p].payment = "PENDING" ~> db[p].payment # "PENDING"

\* What is true of that: a payment that shows as pending is settled in the end,
\* through crashes and lost answers, unless its callback named another amount,
\* was answered before the request had committed, made the handler raise, or
\* carried a secret that has changed since (payhero_service.py:45).
Unsettled(p) == p \in missed \/ \E m \in acked : m.push = p /\ m.amount = "other"
SettledUnlessMissed ==
  \A p \in Push : db[p].payment = "PENDING" ~> db[p].payment # "PENDING" \/ Unsettled(p)

\* A push that was charged is shown as failed for two reasons only: its request
\* was given another answer than the gateway meant, or the callback wrote
\* success as the number 0 (payhero_service.py:160 means to read "0" as success).
ChargedIsNotFailed ==
  \A p \in Push : gateway[p] = "charged" /\ db[p].payment = "FAILED" =>
    ~db[p].checkout \/ \E m \in acked : m.push = p /\ m.form = "zero"
=============================================================================
