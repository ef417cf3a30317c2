--------------------------- MODULE PaymentsProofs ---------------------------
(***************************************************************************)
(* What holds of collecting money for any number of invoices, payments,    *)
(* keys and concurrent requests: the types, that what is paid was          *)
(* collected, the ledger agrees with Stripe, refunds stay, notices are     *)
(* backed, and the composed system implements InvoiceLifecycle.            *)
(*                                                                         *)
(* The inductive invariant has four parts, by what they are about:         *)
(* requests and rows (CheckoutInv), events and the handlers at work on     *)
(* them (EventInv), refunds and outcomes (MoneyInv), notices (NoticeInv).  *)
(* Each part is shown of each kind of step.                                *)
(***************************************************************************)
EXTENDS InvoicesProofs, Payments, FiniteSetTheorems, WellFoundedInduction

-----------------------------------------------------------------------------
(* Types.  An UPDATE of a payments row, of a webhook request or of a       *)
(* refund is shown row by row: the new row is typed, so the table is.      *)

(* The rows that stand for nothing are typed. *)
LEMMA Defaults ==
  /\ AnyInvoice \in Invoice /\ AnyTotal \in Total /\ AnyPayment \in Payment
  /\ NoCheckout \in CheckoutRow
  /\ Idle \in WorkerRow
  /\ \A e \in Event : [Idle EXCEPT !.pc = "handle", !.ev = e] \in WorkerRow
  /\ NoRefund \in RefundRow
<1>1. /\ AnyInvoice \in Invoice /\ AnyTotal \in Total /\ AnyPayment \in Payment
  BY InvoicesAssumption, PaymentsAssumption
  DEF InvoicesAssumption, PaymentsAssumption, AnyInvoice, AnyTotal, AnyPayment
<1>2. Idle \in WorkerRow
  BY <1>1 DEF Idle, Ev, Event, EventType, WorkerPC, Status, WorkerRow
<1>3. ASSUME NEW e \in Event
      PROVE  [Idle EXCEPT !.pc = "handle", !.ev = e] \in WorkerRow
  <2>1. PICK mid : mid = [Idle EXCEPT !.pc = "handle"]
    OBVIOUS
  <2>2. [mid EXCEPT !.ev = e] \in WorkerRow
    BY <1>2, <2>1 DEF WorkerRow, WorkerPC
  <2>3. QED
    BY <2>1, <2>2, Zenon
<1>4. NoCheckout \in CheckoutRow
  BY <1>1 DEF NoCheckout, CheckoutPC, CheckoutRow
<1>5. NoRefund \in RefundRow
  BY <1>1 DEF NoRefund, RefundRow
<1>6. QED
  BY <1>1, <1>2, <1>3, <1>4, <1>5

LEMMA PaymentTypesInit == Init => PaymentTypeOK
<1> SUFFICES ASSUME Init PROVE PaymentTypeOK
  OBVIOUS
<1>1. InvoiceTypeOK
  BY InvoicesAssumption DEF InvoicesAssumption, Init, InvoiceInit, InvoiceTypeOK, Row, Status
<1>2. payment \in [Payment -> PaymentRow]
  BY Defaults DEF Init, PaymentInit, PaymentRow, PaymentStatus
<1>3. /\ checkout \in [Payment -> CheckoutRow]
      /\ worker \in [Worker -> WorkerRow]
      /\ refund \in [Refund -> RefundRow]
  BY Defaults DEF Init, PaymentInit
<1>4. stripe \in [Payment -> StripeRow]
  BY DEF Init, PaymentInit, StripeRow
<1>5. QED
  BY <1>1, <1>2, <1>3, <1>4 DEF Init, PaymentInit, PaymentTypeOK

(* A checkout may take on any total. *)
LEMMA TotalFits ==
  ASSUME NEW c \in CheckoutRow, NEW t \in Total
  PROVE  [c EXCEPT !.total = t] \in CheckoutRow
BY DEF CheckoutRow

(* The steps of POST /pay keep the types. *)
LEMMA CheckoutTypes ==
  ASSUME PaymentTypeOK, NEW p \in Payment, CheckoutStep(p)
  PROVE  PaymentTypeOK'
<1> USE DEF noticeVars, PaymentTypeOK
<1>0. ASSUME UNCHANGED <<invoice, otherInvoiceVars>> PROVE InvoiceTypeOK'
  BY <1>0 DEF otherInvoiceVars, InvoiceTypeOK
<1>a. ASSUME NEW pc \in CheckoutPC
      PROVE  [checkout[p] EXCEPT !.pc = pc] \in CheckoutRow
  BY DEF CheckoutRow
<1>1. ASSUME NEW i \in Invoice, NEW k \in Key \cup {NoKey}, StartPay(p, i, k)
      PROVE  PaymentTypeOK'
  <2>1. PICK row : row = [pc |-> IF k = NoKey THEN "keyed" ELSE "missed",
                          inv |-> i, key |-> k, total |-> AnyTotal]
    OBVIOUS
  <2>2. row \in CheckoutRow
    BY <2>1, Defaults DEF CheckoutRow, CheckoutPC
  <2>3. checkout' = [checkout EXCEPT ![p] = row]
    BY <1>1, <2>1, Zenon DEF StartPay
  <2>4. QED
    BY <1>0, <1>1, <2>2, <2>3 DEF StartPay
<1>2. CASE ReserveKey(p)
  <2>1. checkout' \in [Payment -> CheckoutRow]
    BY <1>2, <1>a DEF ReserveKey, CheckoutPC
  <2>2. idem' \in [Key -> {"free", "in-flight"} \cup Payment]
    BY <1>2 DEF ReserveKey
  <2>3. QED
    BY <1>0, <1>2, <2>1, <2>2 DEF ReserveKey
<1>3. CASE LoadInvoice(p)
  <2>1. PICK inv : inv = invoice[checkout[p].inv]
    OBVIOUS
  <2>2. inv.total \in Total
    BY <2>1 DEF CheckoutRow, InvoiceTypeOK, Row
  <2>3. PICK mid \in CheckoutRow : mid = [checkout[p] EXCEPT !.pc = "loaded"]
    <3>1. "loaded" \in CheckoutPC
      BY DEF CheckoutPC
    <3>2. QED
      BY <1>a, <3>1, Zenon
  <2>4. PICK row : row = [mid EXCEPT !.total = inv.total]
    OBVIOUS
  <2>5. row \in CheckoutRow
    BY <2>2, <2>3, <2>4, TotalFits
  <2>6. \/ checkout' = [checkout EXCEPT ![p] = row]
        \/ checkout' = [checkout EXCEPT ![p] = NoCheckout]
    BY <1>3, <2>1, <2>3, <2>4, Zenon DEF LoadInvoice
  <2>7. checkout' \in [Payment -> CheckoutRow]
    BY <2>5, <2>6, Defaults
  <2>8. QED
    BY <1>0, <1>3, <2>7 DEF LoadInvoice
<1>4. CASE InsertPayment(p)
  <2>1. PICK row : row = [status |-> "pending", inv |-> checkout[p].inv,
                          amount |-> checkout[p].total, session |-> FALSE,
                          intent |-> FALSE]
    OBVIOUS
  <2>2. row \in PaymentRow
    BY <2>1 DEF PaymentRow, PaymentStatus, CheckoutRow
  <2>3. payment' = [payment EXCEPT ![p] = row]
    BY <1>4, <2>1, Zenon DEF InsertPayment
  <2>4. checkout' \in [Payment -> CheckoutRow]
    BY <1>4, <1>a DEF InsertPayment, CheckoutPC
  <2>5. payment' \in [Payment -> PaymentRow]
    BY <2>2, <2>3
  <2>6. QED
    BY <1>0, <1>4, <2>4, <2>5 DEF InsertPayment
<1>5. CASE CreateSession(p)
  <2>1. checkout' \in [Payment -> CheckoutRow]
    BY <1>5, <1>a DEF CreateSession, CheckoutPC
  <2>2. stripe' \in [Payment -> StripeRow]
    BY <1>5 DEF CreateSession, StripeRow
  <2>3. QED
    BY <1>0, <1>5, <2>1, <2>2 DEF CreateSession
<1>6. CASE RecordSession(p)
  <2>1. checkout' \in [Payment -> CheckoutRow]
    <3>1. PICK pc \in CheckoutPC :
            pc = IF checkout[p].key = NoKey THEN "done" ELSE "recorded"
      BY DEF CheckoutPC
    <3>2. checkout' = [checkout EXCEPT ![p].pc = pc]
      BY <1>6, <3>1, Zenon DEF RecordSession
    <3>3. QED
      BY <1>a, <3>2
  <2>2. [payment[p] EXCEPT !.session = TRUE] \in PaymentRow
    BY DEF PaymentRow
  <2>3. QED
    BY <1>0, <1>6, <2>1, <2>2 DEF RecordSession
<1>7. CASE StoreResult(p)
  <2>1. checkout' \in [Payment -> CheckoutRow]
    BY <1>7, <1>a DEF StoreResult, CheckoutPC
  <2>2. QED
    BY <1>0, <1>7, <2>1 DEF StoreResult
<1>8. CASE CheckoutFails(p)
  <2>1. checkout' \in [Payment -> CheckoutRow]
    BY <1>8, <1>a, Defaults DEF CheckoutFails, CheckoutPC
  <2>2. QED
    BY <1>0, <1>8, <2>1 DEF CheckoutFails
<1>9. QED
  BY <1>1, <1>2, <1>3, <1>4, <1>5, <1>6, <1>7, <1>8 DEF CheckoutStep

(* The end of a handler. *)
LEMMA FinishTypes ==
  ASSUME PaymentTypeOK, NEW w \in Worker, Finish(w)
  PROVE  /\ worker' \in [Worker -> WorkerRow]
         /\ event' \in [Event -> {"none", "emitted", "seen", "dropped", "handled"}]
  BY Defaults DEF Finish, PaymentTypeOK, WorkerRow

(* The steps of Stripe and of POST /webhooks/stripe keep the types. *)
LEMMA WebhookTypes ==
  ASSUME PaymentTypeOK, NEW w \in Worker, HandlerStep(w) \/ HandlerFails(w)
  PROVE  PaymentTypeOK'
<1> USE DEF noticeVars, requestVars, PaymentTypeOK
<1>0. ASSUME UNCHANGED <<invoice, otherInvoiceVars>> PROVE InvoiceTypeOK'
  BY <1>0 DEF otherInvoiceVars, InvoiceTypeOK
<1>a. ASSUME NEW pc \in WorkerPC
      PROVE  [worker[w] EXCEPT !.pc = pc] \in WorkerRow
  BY DEF WorkerRow
<1>b. worker[w].ev \in Event /\ worker[w].ev.pay \in Payment /\ worker[w].new \in Status
  BY DEF WorkerRow, Event
<1>1. CASE HandleCompleted(w)
  <2>1. PICK p \in Payment : p = worker[w].ev.pay
    BY <1>b
  <2>2. PICK b \in BOOLEAN : b = (payment[p].intent \/ payment[p].session)
    OBVIOUS
  <2>3. [payment[p] EXCEPT !.intent = b] \in PaymentRow
    BY <2>2 DEF PaymentRow
  <2>4. payment' = [payment EXCEPT ![p] = [payment[p] EXCEPT !.intent = b]]
    BY <1>1, <2>1, <2>2, Zenon DEF HandleCompleted
  <2>5. payment' \in [Payment -> PaymentRow]
    BY <2>3, <2>4
  <2>6. QED
    BY <1>0, <1>1, <2>5, FinishTypes DEF HandleCompleted
<1>2. CASE RecordOutcome(w)
  <2>1. PICK p \in Payment : p = worker[w].ev.pay
    BY <1>b
  <2>2. CASE payment[p].intent
    <3>1. PICK s : s = StatusFor[worker[w].ev.type]
      OBVIOUS
    <3>2. s \in PaymentStatus
      BY <1>2, <3>1 DEF RecordOutcome, StatusFor, PaymentStatus
    <3>3. payment' = [payment EXCEPT ![p].status = s]
      BY <1>2, <2>1, <2>2, <3>1, Zenon DEF RecordOutcome
    <3>4. [payment[p] EXCEPT !.status = s] \in PaymentRow
      BY <3>2 DEF PaymentRow
    <3>5. payment' \in [Payment -> PaymentRow]
      BY <3>3, <3>4
    <3>6. /\ worker' = [worker EXCEPT ![w].pc = "announce"]
          /\ UNCHANGED event
      BY <1>2, <2>1, <2>2, Zenon DEF RecordOutcome
    <3>7. worker' \in [Worker -> WorkerRow]
      BY <3>6, <1>a DEF WorkerPC
    <3>8. QED
      BY <1>0, <1>2, <3>5, <3>6, <3>7 DEF RecordOutcome
  <2>3. CASE ~payment[p].intent
    <3>1. Finish(w) /\ UNCHANGED payment
      BY <1>2, <2>1, <2>3, Zenon DEF RecordOutcome
    <3>2. QED
      BY <1>0, <1>2, <3>1, FinishTypes DEF RecordOutcome
  <2>4. QED
    BY <2>2, <2>3
<1>3. CASE Announce(w)
  <2>1. announced' \in [Event -> Nat]
    BY <1>3, <1>b DEF Announce
  <2>2. \/ worker' = [worker EXCEPT ![w].pc = "read"] /\ UNCHANGED event
        \/ Finish(w)
    BY <1>3 DEF Announce
  <2>3. /\ worker' \in [Worker -> WorkerRow]
        /\ event' \in [Event -> {"none", "emitted", "seen", "dropped", "handled"}]
    BY <2>2, <1>a, FinishTypes DEF WorkerPC
  <2>4. QED
    BY <1>0, <1>3, <2>1, <2>3 DEF Announce
<1>4. CASE ReadTotals(w)
  <2>1. PICK wasPaid \in BOOLEAN, new \in {"paid", "partially_paid"} :
          \/ /\ worker' = [worker EXCEPT ![w].pc = "write", ![w].wasPaid = wasPaid,
                                         ![w].new = new]
             /\ UNCHANGED event
          \/ Finish(w)
    BY <1>4, Zenon DEF ReadTotals, NewStatus
  <2>2. PICK a : a = [worker[w] EXCEPT !.pc = "write"]
    OBVIOUS
  <2>3. PICK b : b = [a EXCEPT !.wasPaid = wasPaid]
    OBVIOUS
  <2>4. PICK c : c = [b EXCEPT !.new = new]
    OBVIOUS
  <2>5. c \in WorkerRow
    BY <2>2, <2>3, <2>4 DEF WorkerRow, WorkerPC, Status
  <2>6. \/ worker' = [worker EXCEPT ![w] = c] /\ UNCHANGED event
        \/ Finish(w)
    BY <2>1, <2>2, <2>3, <2>4, Zenon DEF WorkerRow
  <2>7. /\ worker' \in [Worker -> WorkerRow]
        /\ event' \in [Event -> {"none", "emitted", "seen", "dropped", "handled"}]
    BY <2>5, <2>6, FinishTypes
  <2>8. QED
    BY <1>0, <1>4, <2>7 DEF ReadTotals
<1>5. CASE WriteInvoice(w)
  <2>1. PICK i \in Invoice : i = payment[worker[w].ev.pay].inv
    BY <1>b DEF PaymentRow
  <2>2. invoice' = [invoice EXCEPT ![i].status = worker[w].new]
    BY <1>5, <2>1, Zenon DEF WriteInvoice
  <2>3. [invoice[i] EXCEPT !.status = worker[w].new] \in Row
    BY <1>b DEF InvoiceTypeOK, Row
  <2>4. invoice' \in [Invoice -> Row]
    BY <2>2, <2>3 DEF InvoiceTypeOK
  <2>5. InvoiceTypeOK'
    BY <1>5, <2>4 DEF WriteInvoice, otherInvoiceVars, InvoiceTypeOK
  <2>6. \/ worker' = [worker EXCEPT ![w].pc = "flipped"] /\ UNCHANGED event
        \/ Finish(w)
    BY <1>5 DEF WriteInvoice
  <2>7. /\ worker' \in [Worker -> WorkerRow]
        /\ event' \in [Event -> {"none", "emitted", "seen", "dropped", "handled"}]
    BY <2>6, <1>a, FinishTypes DEF WorkerPC
  <2>8. QED
    BY <1>5, <2>5, <2>7 DEF WriteInvoice
<1>6. CASE AnnouncePaid(w)
  <2>a. PICK i \in Invoice : i = payment[worker[w].ev.pay].inv
    BY <1>b DEF PaymentRow
  <2>b. paidNotices' = [paidNotices EXCEPT ![i] = @ + 1]
    BY <1>6, <2>a, Zenon DEF AnnouncePaid
  <2>1. paidNotices' \in [Invoice -> Nat]
    BY <2>b
  <2>2. QED
    BY <1>0, <1>6, <2>1, FinishTypes DEF AnnouncePaid
<1>7. CASE HandlerFails(w)
  BY <1>0, <1>7, Defaults DEF HandlerFails
<1>8. QED
  BY <1>1, <1>2, <1>3, <1>4, <1>5, <1>6, <1>7 DEF HandlerStep

LEMMA RefundTypes ==
  ASSUME PaymentTypeOK, NEW r \in Refund, RefundStep(r)
  PROVE  PaymentTypeOK'
<1> USE DEF noticeVars, requestVars, PaymentTypeOK
<1>0. ASSUME UNCHANGED <<invoice, otherInvoiceVars>> PROVE InvoiceTypeOK'
  BY <1>0 DEF otherInvoiceVars, InvoiceTypeOK
<1>1. ASSUME NEW p \in Payment, StartRefund(r, p) PROVE PaymentTypeOK'
  <2>1. payment[p].amount \in Int
    BY InvoicesAssumption DEF InvoicesAssumption, PaymentRow
  <2>2. PICK a \in 0..payment[p].amount :
          refund' = [refund EXCEPT ![r] = [pc |-> "ready", pay |-> p, amount |-> a]]
    BY <1>1 DEF StartRefund
  <2>3. [pc |-> "ready", pay |-> p, amount |-> a] \in RefundRow
    BY <2>1, <2>2 DEF RefundRow
  <2>4. refund' \in [Refund -> RefundRow]
    BY <2>2, <2>3
  <2>5. QED
    BY <1>0, <1>1, <2>4 DEF StartRefund
<1>2. CASE CallRefund(r)
  <2>1. PICK p \in Payment : p = refund[r].pay
    BY DEF RefundRow
  <2>2. PICK x : x = IF refund[r].amount = 0 THEN payment[p].amount
                     ELSE stripe[p].refunded + refund[r].amount
    OBVIOUS
  <2>3. x \in Int
    BY <2>2, InvoicesAssumption DEF InvoicesAssumption, PaymentRow, StripeRow, RefundRow
  <2>4. stripe' = [stripe EXCEPT ![p].refunded = x]
    BY <1>2, <2>1, <2>2, Zenon DEF CallRefund
  <2>8. [stripe[p] EXCEPT !.refunded = x] \in StripeRow
    BY <2>3 DEF StripeRow
  <2>5. stripe' \in [Payment -> StripeRow]
    BY <2>4, <2>8
  <2>6. refund' \in [Refund -> RefundRow]
    BY <1>2 DEF CallRefund, RefundRow
  <2>7. QED
    BY <1>0, <1>2, <2>5, <2>6 DEF CallRefund
<1>3. CASE WriteRefund(r)
  <2>1. PICK p \in Payment : p = refund[r].pay
    BY DEF RefundRow
  <2>2. PICK s \in {"refunded", "partially_refunded"} :
          payment' = [payment EXCEPT ![p].status = s]
    BY <1>3, <2>1 DEF WriteRefund
  <2>3. [payment[p] EXCEPT !.status = s] \in PaymentRow
    BY <2>2 DEF PaymentRow, PaymentStatus
  <2>4. payment' \in [Payment -> PaymentRow]
    BY <2>2, <2>3
  <2>5. QED
    BY <1>0, <1>3, <2>4, Defaults DEF WriteRefund
<1>4. CASE RefundFails(r)
  BY <1>0, <1>4, Defaults DEF RefundFails
<1>5. QED
  BY <1>1, <1>2, <1>3, <1>4 DEF RefundStep

LEMMA PaymentTypesStep == PaymentTypeOK /\ [Next]_vars => PaymentTypeOK'
<1> SUFFICES ASSUME PaymentTypeOK, [Next]_vars PROVE PaymentTypeOK'
  OBVIOUS
<1>0. ASSUME UNCHANGED <<invoice, otherInvoiceVars>> PROVE InvoiceTypeOK'
  BY <1>0 DEF otherInvoiceVars, InvoiceTypeOK, PaymentTypeOK
<1>1. CASE InvoiceNext /\ UNCHANGED paymentVars
  BY <1>1, InvoiceStepTypes
  DEF paymentVars, requestVars, noticeVars, PaymentTypeOK
<1>2. ASSUME NEW p \in Payment, Charge(p) \/ Decline(p) PROVE PaymentTypeOK'
  <2>1. stripe' \in [Payment -> StripeRow]
    BY <1>2 DEF Charge, Decline, PaymentTypeOK, StripeRow
  <2>2. event' \in [Event -> {"none", "emitted", "seen", "dropped", "handled"}]
    BY <1>2 DEF Charge, Decline, PaymentTypeOK
  <2>3. QED
    BY <1>0, <1>2, <2>1, <2>2 DEF Charge, Decline, requestVars, noticeVars, PaymentTypeOK
<1>3. ASSUME NEW k \in Key, ExpireKey(k) PROVE PaymentTypeOK'
  BY <1>0, <1>3 DEF ExpireKey, noticeVars, PaymentTypeOK
<1>4. ASSUME NEW e \in Event, DeliverAgain(e) PROVE PaymentTypeOK'
  BY <1>0, <1>4 DEF DeliverAgain, requestVars, noticeVars, PaymentTypeOK
<1>5. ASSUME NEW e \in Event, NEW w \in Worker, Deliver(w, e) PROVE PaymentTypeOK'
  <2>1. PICK row : row = [Idle EXCEPT !.pc = "handle", !.ev = e]
    OBVIOUS
  <2>2. row \in WorkerRow
    BY <2>1, Defaults
  <2>3. worker' = [worker EXCEPT ![w] = row]
    BY <1>5, <2>1, Zenon DEF Deliver
  <2>4. worker' \in [Worker -> WorkerRow]
    BY <2>2, <2>3 DEF PaymentTypeOK
  <2>5. QED
    BY <1>0, <1>5, <2>4 DEF Deliver, requestVars, noticeVars, PaymentTypeOK
<1>6. CASE UNCHANGED vars
  BY <1>6 DEF vars, invoiceVars, paymentVars, requestVars, noticeVars, PaymentTypeOK,
     InvoiceTypeOK
<1>7. QED
  BY <1>1, <1>2, <1>3, <1>4, <1>5, <1>6, CheckoutTypes, WebhookTypes, RefundTypes
  DEF Next, PaymentNext

(* Type correctness of the composed system. *)
THEOREM PaymentTypeCorrect == Spec => []PaymentTypeOK
  BY PaymentTypesInit, PaymentTypesStep, PTL DEF Spec

-----------------------------------------------------------------------------
Out(i) == invoice[i].status \notin {"absent", "draft"}

(* How far the request, the row and the session of a payment can be: each  *)
(* is written once, in this order.                                         *)
Early == {"idle", "missed", "keyed", "loaded"}

RequestFits(p) ==
  /\ checkout[p].pc \in Early =>
       payment[p].status = "absent" /\ ~payment[p].session /\ stripe[p].session = "none"
  /\ checkout[p].pc \notin Early => payment[p].status # "absent"
  /\ checkout[p].pc = "inserted" => ~payment[p].session /\ stripe[p].session = "none"
  /\ checkout[p].pc \in {"created", "recorded", "done"} => stripe[p].session # "none"
  /\ checkout[p].pc \in {"recorded", "done"} => payment[p].session
  /\ checkout[p].pc \in {"missed", "recorded"} => checkout[p].key \in Key
  /\ checkout[p].pc = "loaded" =>
       /\ checkout[p].total = invoice[checkout[p].inv].total
       /\ Out(checkout[p].inv)

RowFits(p) ==
  /\ payment[p].session => stripe[p].session # "none"
  /\ stripe[p].session # "none" => payment[p].amount > 0
  /\ payment[p].intent => payment[p].session
  /\ payment[p].status # "absent" =>
       payment[p].amount = invoice[payment[p].inv].total /\ Out(payment[p].inv)

CheckoutInv ==
  /\ \A p \in Payment : RequestFits(p) /\ RowFits(p)
  /\ CachedReplyIsUsable

(* A handler at work holds the dedup key of its event alone, and Stripe    *)
(* has sent no event of a charge that was not made.                        *)
Live(w) == worker[w].pc # "idle"
Fresh == {"none", "emitted"}

ChargeFits(p) ==
  \A t \in {"checkout.completed", "succeeded"} : event[Ev(t, p)] # "none" => Charged(p)

HandlerFits(w) ==
  /\ event[worker[w].ev] \notin Fresh
  /\ worker[w].pc # "handle" => payment[worker[w].ev.pay].intent
  /\ worker[w].pc \in {"read", "write", "flipped"} => worker[w].ev.type = "succeeded"
  /\ worker[w].pc = "write" => worker[w].new \in {"paid", "partially_paid"}
  /\ worker[w].pc \in {"handle", "announce"} => announced[worker[w].ev] = 0

Alone(w) == \A v \in Worker : Live(v) /\ worker[v].ev = worker[w].ev => v = w

WorkerFits(w) == Live(w) => HandlerFits(w) /\ Alone(w)

EventInv ==
  /\ \A p \in Payment : ChargeFits(p)
  /\ \A w \in Worker : WorkerFits(w)
  /\ \A e \in Event : announced[e] <= 1 /\ (event[e] \in Fresh => announced[e] = 0)

(* The outcome of a charge is in its row: no handler has still to record   *)
(* it.  Only then can the row be refunded.                                 *)
Recorded(p) ==
  /\ event[Ev("succeeded", p)] \notin Fresh
  /\ \A w \in Worker : worker[w].pc = "handle" => worker[w].ev # Ev("succeeded", p)

OutcomeFits(p) ==
  /\ payment[p].status \in {"succeeded", "refunded", "partially_refunded"} => Recorded(p)
  /\ payment[p].status = "refunded" => stripe[p].refunded = payment[p].amount
  /\ payment[p].status = "partially_refunded" => stripe[p].refunded > 0
  /\ stripe[p].refunded >= 0
  /\ stripe[p].refunded <= IF Charged(p) THEN payment[p].amount ELSE 0

RefundFits(r) ==
  LET p == refund[r].pay IN
  refund[r].pc # "idle" =>
    /\ Recorded(p)
    /\ refund[r].amount >= 0
    /\ refund[r].pc = "called" =>
         /\ stripe[p].refunded > 0
         /\ refund[r].amount = 0 => stripe[p].refunded = payment[p].amount

MoneyInv ==
  /\ \A p \in Payment : OutcomeFits(p)
  /\ \A r \in Refund : RefundFits(r)

(* Every notice has a charge of its own, whose handler is done.            *)
Settled(p) ==
  /\ event[Ev("succeeded", p)] \notin Fresh
  /\ \A w \in Worker : Live(w) => worker[w].ev # Ev("succeeded", p)

AllCharged == {p \in Payment : Charged(p)}
SettledOf(i) == {p \in Payment : payment[p].inv = i /\ Settled(p)}

NoticeInv ==
  /\ IsFiniteSet(AllCharged)
  /\ \A i \in Invoice : paidNotices[i] <= Cardinality(SettledOf(i))

PInv == /\ PaymentTypeOK /\ LockedIsDraft
        /\ CheckoutInv /\ EventInv /\ MoneyInv /\ NoticeInv
        /\ PaidWasCollected

-----------------------------------------------------------------------------
(* Nothing exists, and nothing has happened.                               *)
LEMMA PInitial == Init => PInv
<1> SUFFICES ASSUME Init PROVE PInv
  OBVIOUS
<1>1. PaymentTypeOK
  BY PaymentTypesInit
<1>2. LockedIsDraft
  BY DEF Init, InvoiceInit, LockedIsDraft
<1>3. CheckoutInv
  <2>1. ASSUME NEW p \in Payment PROVE RequestFits(p) /\ RowFits(p)
    BY DEF Init, PaymentInit, RequestFits, RowFits, NoCheckout, Early
  <2>2. CachedReplyIsUsable
    BY PaymentsAssumption DEF PaymentsAssumption, Init, PaymentInit, CachedReplyIsUsable
  <2>3. QED
    BY <2>1, <2>2 DEF CheckoutInv
<1>4. EventInv
  <2>1. ASSUME NEW p \in Payment PROVE ChargeFits(p)
    BY DEF Init, PaymentInit, ChargeFits, Ev, Event, EventType
  <2>2. ASSUME NEW w \in Worker PROVE WorkerFits(w)
    BY DEF Init, PaymentInit, WorkerFits, Live, Idle
  <2>3. QED
    BY <2>1, <2>2 DEF EventInv, Init, PaymentInit
<1>5. MoneyInv
  <2>1. ASSUME NEW p \in Payment PROVE OutcomeFits(p)
    BY DEF Init, PaymentInit, OutcomeFits, Charged
  <2>2. ASSUME NEW r \in Refund PROVE RefundFits(r)
    BY DEF Init, PaymentInit, RefundFits, NoRefund
  <2>3. QED
    BY <2>1, <2>2 DEF MoneyInv
<1>6. NoticeInv
  <2>1. AllCharged = {}
    BY DEF Init, PaymentInit, AllCharged, Charged
  <2>2. ASSUME NEW i \in Invoice PROVE SettledOf(i) = {}
    BY DEF Init, PaymentInit, SettledOf, Settled, Fresh, Ev, Event, EventType
  <2>3. IsFiniteSet({}) /\ Cardinality({}) = 0
    BY FS_EmptySet
  <2>4. \A i \in Invoice : paidNotices[i] = 0
    BY DEF Init, PaymentInit
  <2>5. QED
    BY <2>1, <2>2, <2>3, <2>4 DEF NoticeInv
<1>7. PaidWasCollected
  BY DEF Init, InvoiceInit, PaidWasCollected
<1>8. QED
  BY <1>1, <1>2, <1>3, <1>4, <1>5, <1>6, <1>7 DEF PInv

-----------------------------------------------------------------------------
(* What other steps leave of the rows that a part of the invariant reads.  *)
InvoicesKept ==
  \A i \in Invoice : Out(i) => Out(i)' /\ invoice'[i].total = invoice[i].total

RowsKept ==
  \A p \in Payment :
    /\ payment'[p].inv = payment[p].inv
    /\ payment'[p].amount = payment[p].amount
    /\ payment'[p].session = payment[p].session
    /\ payment'[p].status = "absent" <=> payment[p].status = "absent"
    /\ payment[p].intent => payment'[p].intent
    /\ payment'[p].intent => payment[p].session \/ payment[p].intent

(* The invoice handlers keep what a payment knows of its invoice: one that *)
(* is out stays out with its total, and only a payment makes it paid.      *)
LEMMA InvoiceHandlersKeep ==
  ASSUME InvoiceTypeOK, LockedIsDraft, [InvoiceNext]_invoiceVars
  PROVE  /\ LockedIsDraft' /\ InvoicesKept
         /\ \A i \in Invoice : invoice'[i].status = "paid" =>
              invoice[i].status = "paid" /\ Out(i)
<1> DEFINE Kept == /\ LockedIsDraft' /\ InvoicesKept
                   /\ \A i \in Invoice : invoice'[i].status = "paid" =>
                        invoice[i].status = "paid" /\ Out(i)
<1> SUFFICES Kept
  OBVIOUS
<1> USE DEF InvoiceTypeOK, Row, LockedIsDraft, InvoicesKept, Out
<1>1. CASE OverdueScan
  BY <1>1 DEF OverdueScan, Lapsing
<1>2. ASSUME NEW i \in Invoice, InvoiceStep(i) PROVE Kept
  <2>1. CASE Create(i)
    BY <2>1 DEF Create
  <2>2. CASE UpdateLock(i)
    BY <2>2 DEF UpdateLock
  <2>3. CASE UpdateCommit(i)
    BY <2>3 DEF UpdateCommit
  <2>4. CASE UpdateRollback(i)
    BY <2>4 DEF UpdateRollback
  <2>5. CASE Send(i)
    BY <2>5 DEF Send
  <2>6. CASE EnqueueEmail(i)
    BY <2>6 DEF EnqueueEmail
  <2>7. CASE Cancel(i)
    BY <2>7 DEF Cancel
  <2>8. CASE MarkViewed(i)
    BY <2>8 DEF MarkViewed
  <2>9. CASE DueDatePasses(i)
    BY <2>9 DEF DueDatePasses
  <2>10. ASSUME NEW e \in InvoiceEvent, Dispatch(i, e) \/ Abandon(i, e) PROVE Kept
    BY <2>10 DEF Dispatch, Abandon
  <2>11. QED
    BY <1>2, <2>1, <2>2, <2>3, <2>4, <2>5, <2>6, <2>7, <2>8, <2>9, <2>10
    DEF InvoiceStep
<1>3. CASE UNCHANGED invoiceVars
  BY <1>3 DEF invoiceVars
<1>4. QED
  BY <1>1, <1>2, <1>3 DEF InvoiceNext

(* A row without a session has no intent either, and one with a session or *)
(* an intent exists.                                                       *)
LEMMA RowFacts ==
  ASSUME CheckoutInv, NEW p \in Payment
  PROVE  /\ payment[p].status = "absent" <=> checkout[p].pc \in Early
         /\ payment[p].session \/ payment[p].intent \/ Charged(p)
              => payment[p].status # "absent"
         /\ checkout[p].pc \in Early =>
              ~payment[p].session /\ ~payment[p].intent /\ ~Charged(p)
  BY DEF CheckoutInv, RequestFits, RowFits, Charged

(* A webhook request writes outcomes and intents, and a status to invoices *)
(* that are out.                                                           *)
LEMMA HandlersKeep ==
  ASSUME PInv, NEW w \in Worker, HandlerStep(w) \/ HandlerFails(w)
  PROVE  /\ LockedIsDraft' /\ InvoicesKept /\ RowsKept
         /\ UNCHANGED <<checkout, idem, stripe, refund>>
<1> USE DEF PInv, PaymentTypeOK
<1>0. UNCHANGED <<checkout, idem, stripe, refund>>
  BY DEF HandlerStep, HandlerFails, HandleCompleted, RecordOutcome, Announce,
         ReadTotals, WriteInvoice, AnnouncePaid, requestVars
<1>1. PICK p \in Payment : p = worker[w].ev.pay
  BY DEF WorkerRow, Event
<1>2. ASSUME UNCHANGED payment PROVE RowsKept
  BY <1>2 DEF RowsKept
<1>3. ASSUME UNCHANGED <<invoice, editing>> PROVE LockedIsDraft' /\ InvoicesKept
  BY <1>3 DEF LockedIsDraft, InvoicesKept, Out
<1>4. CASE HandleCompleted(w)
  <2>1. PICK b \in BOOLEAN : b = (payment[p].intent \/ payment[p].session)
    OBVIOUS
  <2>2. payment' = [payment EXCEPT ![p].intent = b]
    BY <1>1, <1>4, <2>1, Zenon DEF HandleCompleted
  <2>3. RowsKept
    BY <2>1, <2>2 DEF RowsKept, PaymentRow
  <2>4. QED
    BY <1>0, <1>3, <1>4, <2>3 DEF HandleCompleted, otherInvoiceVars
<1>5. CASE RecordOutcome(w)
  <2>1. CASE payment[p].intent
    <3>1. PICK s : s = StatusFor[worker[w].ev.type]
      OBVIOUS
    <3>2. s # "absent"
      BY <1>5, <3>1 DEF RecordOutcome, StatusFor
    <3>3. payment' = [payment EXCEPT ![p].status = s]
      BY <1>1, <1>5, <2>1, <3>1, Zenon DEF RecordOutcome
    <3>4. payment[p].status # "absent"
      BY <2>1, RowFacts
    <3>5. RowsKept
      BY <3>2, <3>3, <3>4 DEF RowsKept, PaymentRow
    <3>6. QED
      BY <1>0, <1>3, <1>5, <3>5 DEF RecordOutcome, otherInvoiceVars
  <2>2. CASE ~payment[p].intent
    BY <1>0, <1>1, <1>2, <1>3, <1>5, <2>2 DEF RecordOutcome, otherInvoiceVars
  <2>3. QED
    BY <2>1, <2>2
<1>6. CASE WriteInvoice(w)
  <2>1. PICK i \in Invoice : i = payment[p].inv
    BY DEF PaymentRow
  <2>2. /\ i \notin editing /\ UNCHANGED editing
        /\ invoice' = [invoice EXCEPT ![i].status = worker[w].new]
    BY <1>1, <1>6, <2>1, Zenon DEF WriteInvoice, otherInvoiceVars
  <2>3. worker[w].new \in {"paid", "partially_paid"}
    BY <1>6 DEF WriteInvoice, EventInv, WorkerFits, HandlerFits, Live
  <2>4. LockedIsDraft' /\ InvoicesKept
    BY <2>2, <2>3 DEF LockedIsDraft, InvoicesKept, Out, InvoiceTypeOK, Row
  <2>5. QED
    BY <1>0, <1>2, <1>6, <2>4 DEF WriteInvoice
<1>7. CASE Announce(w) \/ ReadTotals(w) \/ AnnouncePaid(w) \/ HandlerFails(w)
  BY <1>0, <1>2, <1>3, <1>7
  DEF Announce, ReadTotals, AnnouncePaid, HandlerFails, otherInvoiceVars
<1>8. QED
  BY <1>4, <1>5, <1>6, <1>7 DEF HandlerStep

-----------------------------------------------------------------------------
(* Requests and rows.                                                      *)
SessionsKept ==
  \A p \in Payment : stripe'[p].session = "none" <=> stripe[p].session = "none"

LEMMA CheckoutFrame ==
  ASSUME PaymentTypeOK, CheckoutInv, UNCHANGED checkout, RowsKept, InvoicesKept,
         SessionsKept,
         \A k \in Key : idem'[k] \in Payment => idem'[k] = idem[k]
  PROVE  CheckoutInv'
<1> USE DEF PaymentTypeOK, SessionsKept
<1>1. ASSUME NEW p \in Payment PROVE RequestFits(p)'
  <2>1. RequestFits(p) /\ checkout[p].inv \in Invoice
    BY DEF CheckoutInv, CheckoutRow
  <2>2. QED
    BY <2>1 DEF RequestFits, RowsKept, InvoicesKept, Out
<1>2. ASSUME NEW p \in Payment PROVE RowFits(p)'
  <2>1. RowFits(p) /\ payment[p].inv \in Invoice
    BY DEF CheckoutInv, PaymentRow
  <2>2. QED
    BY <2>1 DEF RowFits, RowsKept, InvoicesKept, Out
<1>3. CachedReplyIsUsable'
  BY DEF CheckoutInv, CachedReplyIsUsable, RowsKept
<1>4. QED
  BY <1>1, <1>2, <1>3 DEF CheckoutInv

(* A step of one request: what it does to its own row is checked, and a    *)
(* cached reply is about a row the step does not take back.                *)
LEMMA OneRequest ==
  ASSUME PaymentTypeOK, CheckoutInv, UNCHANGED invoice, NEW p \in Payment,
         \A q \in Payment \ {p} :
           /\ checkout'[q] = checkout[q] /\ payment'[q] = payment[q]
           /\ stripe'[q].session = stripe[q].session,
         RequestFits(p)', RowFits(p)',
         \A k \in Key : idem'[k] = p =>
           checkout'[p].key = k /\ payment'[p].session,
         \A k \in Key : idem'[k] \in Payment \ {p} => idem'[k] = idem[k]
  PROVE  CheckoutInv'
<1>1. ASSUME NEW q \in Payment PROVE RequestFits(q)' /\ RowFits(q)'
  <2>1. CASE q # p
    <3>1. RequestFits(q) /\ RowFits(q)
      BY DEF CheckoutInv
    <3>2. QED
      BY <2>1, <3>1 DEF RequestFits, RowFits, Out
  <2>2. QED
    BY <2>1
<1>2. CachedReplyIsUsable'
  <2>1. SUFFICES ASSUME NEW k \in Key, idem'[k] \in Payment
                 PROVE  /\ checkout'[idem'[k]].key = k
                        /\ payment'[idem'[k]].session
                        /\ stripe'[idem'[k]].session # "none"
    BY DEF CachedReplyIsUsable
  <2>2. CASE idem'[k] = p
    BY <2>2 DEF RowFits
  <2>3. CASE idem'[k] # p
    BY <2>1, <2>3 DEF CheckoutInv, CachedReplyIsUsable
  <2>4. QED
    BY <2>2, <2>3
<1>3. QED
  BY <1>1, <1>2 DEF CheckoutInv

LEMMA CheckoutKeepsCheckout ==
  ASSUME PaymentTypeOK, CheckoutInv, NEW p \in Payment, CheckoutStep(p)
  PROVE  CheckoutInv'
<1> USE DEF PaymentTypeOK, noticeVars
<1>0. /\ checkout[p] \in CheckoutRow /\ payment[p] \in PaymentRow
      /\ stripe[p] \in StripeRow
      /\ RequestFits(p) /\ RowFits(p)
      /\ \A k \in Key : idem[k] = p =>
           checkout[p].key = k /\ payment[p].session
  BY DEF CheckoutInv, CachedReplyIsUsable
<1>1. ASSUME NEW i \in Invoice, NEW k \in Key \cup {NoKey}, StartPay(p, i, k)
      PROVE  CheckoutInv'
  <2>1. PICK pc \in {"keyed", "missed"} :
          /\ checkout' = [checkout EXCEPT ![p] = [pc |-> pc, inv |-> i, key |-> k,
                                                  total |-> AnyTotal]]
          /\ pc = "missed" => k \in Key
    BY <1>1, Zenon DEF StartPay
  <2>2. /\ checkout[p].pc = "idle" /\ UNCHANGED <<invoice, payment, idem, stripe>>
    BY <1>1 DEF StartPay
  <2>3. RequestFits(p)'
    BY <1>0, <2>1, <2>2 DEF RequestFits, Early
  <2>4. RowFits(p)'
    BY <1>0, <2>2 DEF RowFits, Out
  <2>5. \A j \in Key : idem'[j] # p
    BY <1>0, <2>2 DEF RequestFits, Early
  <2>6. QED
    BY <2>1, <2>2, <2>3, <2>4, <2>5, OneRequest
<1>2. CASE ReserveKey(p)
  <2>1. /\ checkout' = [checkout EXCEPT ![p].pc = "keyed"]
        /\ checkout[p].pc = "missed" /\ UNCHANGED <<invoice, payment, stripe>>
        /\ \A j \in Key : idem'[j] \in Payment => idem'[j] = idem[j]
    BY <1>2, PaymentsAssumption DEF PaymentsAssumption, ReserveKey
  <2>2. RequestFits(p)'
    BY <1>0, <2>1 DEF RequestFits, Early
  <2>3. RowFits(p)'
    BY <1>0, <2>1 DEF RowFits, Out
  <2>4. \A j \in Key : idem'[j] # p
    BY <1>0, <2>1 DEF RequestFits, Early
  <2>5. QED
    BY <2>1, <2>2, <2>3, <2>4, OneRequest
<1>3. CASE LoadInvoice(p)
  <2>1. PICK inv : inv = invoice[checkout[p].inv]
    OBVIOUS
  <2>2. /\ checkout[p].pc = "keyed" /\ UNCHANGED <<invoice, payment, idem, stripe>>
    BY <1>3 DEF LoadInvoice
  <2>a. PICK mid : mid = [checkout[p] EXCEPT !.pc = "loaded"]
    OBVIOUS
  <2>b. PICK row : row = [mid EXCEPT !.total = inv.total]
    OBVIOUS
  <2>c. row.pc = "loaded" /\ row.inv = checkout[p].inv /\ row.total = inv.total
    BY <1>0, <2>a, <2>b DEF CheckoutRow
  <2>3. \/ /\ inv.status \in Payable
           /\ checkout' = [checkout EXCEPT ![p] = row]
        \/ checkout' = [checkout EXCEPT ![p] = NoCheckout]
    BY <1>3, <2>1, <2>a, <2>b, Zenon DEF LoadInvoice
  <2>4. RequestFits(p)'
    <3>1. \/ checkout'[p] = row /\ inv.status \in Payable
          \/ checkout'[p] = NoCheckout
      BY <2>3
    <3>2. QED
      BY <1>0, <2>1, <2>2, <2>c, <3>1
      DEF RequestFits, Early, NoCheckout, Payable, Out
  <2>5. RowFits(p)'
    BY <1>0, <2>2 DEF RowFits, Out
  <2>6. \A j \in Key : idem'[j] # p
    BY <1>0, <2>2 DEF RequestFits, Early
  <2>7. QED
    BY <2>2, <2>3, <2>4, <2>5, <2>6, OneRequest
<1>4. CASE InsertPayment(p)
  <2>1. /\ checkout' = [checkout EXCEPT ![p].pc = "inserted"]
        /\ checkout[p].pc = "loaded" /\ UNCHANGED <<invoice, idem, stripe>>
        /\ payment' = [payment EXCEPT
             ![p] = [status |-> "pending", inv |-> checkout[p].inv,
                     amount |-> checkout[p].total, session |-> FALSE,
                     intent |-> FALSE]]
    BY <1>4 DEF InsertPayment
  <2>2. RequestFits(p)'
    BY <1>0, <2>1 DEF RequestFits, Early
  <2>3. RowFits(p)'
    BY <1>0, <2>1 DEF RequestFits, RowFits, Early, Out
  <2>4. \A j \in Key : idem'[j] # p
    BY <1>0, <2>1 DEF RequestFits, Early
  <2>5. QED
    BY <2>1, <2>2, <2>3, <2>4, OneRequest
<1>5. CASE CreateSession(p)
  <2>1. /\ checkout' = [checkout EXCEPT ![p].pc = "created"]
        /\ checkout[p].pc = "inserted" /\ UNCHANGED <<invoice, payment, idem>>
        /\ payment[p].amount > 0
        /\ stripe' = [stripe EXCEPT ![p].session = "open"]
    BY <1>5 DEF CreateSession
  <2>2. RequestFits(p)'
    BY <1>0, <2>1 DEF RequestFits, Early, StripeRow
  <2>3. RowFits(p)'
    BY <1>0, <2>1 DEF RequestFits, RowFits, Out, StripeRow
  <2>4. \A j \in Key : idem'[j] # p
    BY <1>0, <2>1 DEF RequestFits
  <2>5. QED
    BY <2>1, <2>2, <2>3, <2>4, OneRequest
<1>6. CASE RecordSession(p)
  <2>1. PICK pc \in {"done", "recorded"} :
          /\ checkout' = [checkout EXCEPT ![p].pc = pc]
          /\ pc = "recorded" => checkout[p].key \in Key
    BY <1>6, <1>0 DEF RecordSession, CheckoutRow
  <2>2. /\ checkout[p].pc = "created" /\ UNCHANGED <<invoice, idem, stripe>>
        /\ payment' = [payment EXCEPT ![p].session = TRUE]
    BY <1>6 DEF RecordSession
  <2>3. RequestFits(p)'
    BY <1>0, <2>1, <2>2 DEF RequestFits, Early, PaymentRow
  <2>4. RowFits(p)'
    BY <1>0, <2>2 DEF RequestFits, RowFits, Out, PaymentRow
  <2>5. \A j \in Key : idem'[j] = p => checkout'[p].key = j /\ payment'[p].session
    BY <1>0, <2>1, <2>2
  <2>6. QED
    BY <2>1, <2>2, <2>3, <2>4, <2>5, OneRequest
<1>7. CASE StoreResult(p)
  <2>1. PICK k \in Key : k = checkout[p].key
    BY <1>0, <1>7 DEF RequestFits, StoreResult
  <2>2. /\ checkout' = [checkout EXCEPT ![p].pc = "done"]
        /\ checkout[p].pc = "recorded" /\ UNCHANGED <<invoice, payment, stripe>>
        /\ idem' = [idem EXCEPT ![k] = p]
    BY <1>7, <2>1 DEF StoreResult
  <2>3. RequestFits(p)'
    BY <1>0, <2>2 DEF RequestFits, Early
  <2>4. RowFits(p)'
    BY <1>0, <2>2 DEF RowFits, Out
  <2>5. \A j \in Key : idem'[j] = p => checkout'[p].key = j /\ payment'[p].session
    BY <1>0, <2>1, <2>2 DEF RequestFits
  <2>6. QED
    BY <2>2, <2>3, <2>4, <2>5, OneRequest
<1>8. CASE CheckoutFails(p)
  <2>1. /\ checkout[p].pc \notin {"idle", "done", "failed"}
        /\ UNCHANGED <<invoice, payment, idem, stripe>>
    BY <1>8 DEF CheckoutFails
  <2>2. \/ /\ payment[p].status = "absent"
           /\ checkout' = [checkout EXCEPT ![p] = NoCheckout]
        \/ /\ payment[p].status # "absent"
           /\ checkout' = [checkout EXCEPT ![p].pc = "failed"]
    BY <1>8, Zenon DEF CheckoutFails
  <2>a. \/ /\ payment[p].status = "absent" /\ ~payment[p].session
           /\ checkout'[p].pc = "idle"
        \/ /\ payment[p].status # "absent"
           /\ checkout'[p].pc = "failed" /\ checkout'[p].key = checkout[p].key
    <3>1. CASE payment[p].status = "absent"
      BY <1>0, <2>2, <3>1 DEF RequestFits, NoCheckout
    <3>2. CASE payment[p].status # "absent"
      BY <1>0, <2>2, <3>2 DEF CheckoutRow
    <3>3. QED
      BY <3>1, <3>2
  <2>3. RequestFits(p)'
    BY <1>0, <2>1, <2>a DEF RequestFits, Early
  <2>4. RowFits(p)'
    BY <1>0, <2>1 DEF RowFits, Out
  <2>5. \A j \in Key : idem'[j] = p => checkout'[p].key = j /\ payment'[p].session
    BY <1>0, <2>1, <2>a
  <2>6. QED
    BY <2>1, <2>2, <2>3, <2>4, <2>5, OneRequest
<1>9. QED
  BY <1>1, <1>2, <1>3, <1>4, <1>5, <1>6, <1>7, <1>8 DEF CheckoutStep

-----------------------------------------------------------------------------
(* Events and handlers.                                                    *)
LEMMA EvFacts ==
  /\ \A t \in EventType, p \in Payment : Ev(t, p) \in Event
  /\ \A e \in Event : e = Ev(e.type, e.pay) /\ e.type \in EventType /\ e.pay \in Payment
  /\ \A t, u \in EventType, p, q \in Payment : Ev(t, p) = Ev(u, q) <=> t = u /\ p = q
  BY DEF Ev, Event

LEMMA EventFrame ==
  ASSUME PaymentTypeOK, EventInv, UNCHANGED <<event, worker, announced>>,
         \A p \in Payment : Charged(p) => Charged(p)',
         \A p \in Payment : payment[p].intent => payment'[p].intent
  PROVE  EventInv'
<1>1. ASSUME NEW p \in Payment PROVE ChargeFits(p)'
  BY DEF EventInv, ChargeFits
<1>2. ASSUME NEW w \in Worker PROVE WorkerFits(w)'
  <2>1. worker[w].ev.pay \in Payment
    BY DEF PaymentTypeOK, WorkerRow, Event
  <2>2. WorkerFits(w)
    BY DEF EventInv
  <2>3. QED
    BY <2>1, <2>2 DEF WorkerFits, HandlerFits, Alone, Live
<1>3. QED
  BY <1>1, <1>2 DEF EventInv

(* A step of one handler: it keeps its event or ends, and what it does to  *)
(* the event and its count of announcements touches no other handler.      *)
LEMMA OneHandler ==
  ASSUME PaymentTypeOK, EventInv, NEW w \in Worker, Live(w),
         \A v \in Worker \ {w} : worker'[v] = worker[v],
         Live(w)' => worker'[w].ev = worker[w].ev /\ HandlerFits(w)',
         \A e \in Event \ {worker[w].ev} :
           event'[e] = event[e] /\ announced'[e] = announced[e],
         event'[worker[w].ev] \notin Fresh,
         announced'[worker[w].ev] <= 1,
         UNCHANGED stripe, RowsKept
  PROVE  EventInv'
<1>0. /\ worker[w].ev \in Event /\ HandlerFits(w) /\ Alone(w)
  BY DEF PaymentTypeOK, WorkerRow, EventInv, WorkerFits
<1>1. ASSUME NEW p \in Payment PROVE ChargeFits(p)'
  <2>1. ASSUME NEW t \in {"checkout.completed", "succeeded"}, event'[Ev(t, p)] # "none"
        PROVE  Charged(p)
    <3>1. Ev(t, p) \in Event
      BY EvFacts DEF EventType
    <3>2. event[Ev(t, p)] # "none"
      BY <1>0, <2>1, <3>1 DEF HandlerFits, Fresh
    <3>3. QED
      BY <3>2 DEF EventInv, ChargeFits
  <2>2. QED
    BY <2>1 DEF ChargeFits, Charged
<1>2. ASSUME NEW v \in Worker, v # w PROVE WorkerFits(v)'
  <2>1. WorkerFits(v) /\ worker[v].ev \in Event /\ worker[v].ev.pay \in Payment
    BY DEF EventInv, PaymentTypeOK, WorkerRow, Event
  <2>2. SUFFICES ASSUME Live(v)' PROVE HandlerFits(v)' /\ Alone(v)'
    BY DEF WorkerFits
  <2>3. worker'[v] = worker[v] /\ Live(v) /\ worker[v].ev # worker[w].ev
    BY <1>0, <1>2, <2>2 DEF Live, Alone
  <2>4. HandlerFits(v)'
    BY <2>1, <2>3 DEF WorkerFits, HandlerFits, RowsKept
  <2>5. Alone(v)'
    BY <2>1, <2>3 DEF WorkerFits, Alone, Live
  <2>6. QED
    BY <2>4, <2>5
<1>3. WorkerFits(w)'
  BY <1>0 DEF WorkerFits, Alone, Live
<1>4. ASSUME NEW e \in Event
      PROVE  (announced[e] <= 1 /\ (event[e] \in Fresh => announced[e] = 0))'
  BY DEF EventInv
<1>5. QED
  BY <1>1, <1>2, <1>3, <1>4 DEF EventInv

(* How a handler ends. *)
LEMMA FinishEnds ==
  ASSUME PaymentTypeOK, NEW w \in Worker, Finish(w)
  PROVE  /\ \A v \in Worker \ {w} : worker'[v] = worker[v]
         /\ ~Live(w)'
         /\ \A e \in Event \ {worker[w].ev} : event'[e] = event[e]
         /\ event'[worker[w].ev] \notin Fresh
  BY DEF PaymentTypeOK, WorkerRow, Finish, Live, Idle, Fresh

(* transition_invoice_for_payment goes on to its UPDATE, or ends. *)
LEMMA ReadEffects ==
  ASSUME PaymentTypeOK, NEW w \in Worker, ReadTotals(w), ~Finish(w)
  PROVE  /\ \A v \in Worker \ {w} : worker'[v] = worker[v]
         /\ worker'[w].pc = "write" /\ worker'[w].ev = worker[w].ev
         /\ worker'[w].new \in {"paid", "partially_paid"}
         /\ UNCHANGED event
<1>1. PICK new \in {"paid", "partially_paid"}, wasPaid \in BOOLEAN :
        /\ worker' = [worker EXCEPT ![w].pc = "write", ![w].wasPaid = wasPaid,
                                     ![w].new = new]
        /\ UNCHANGED event
  BY Zenon DEF ReadTotals, NewStatus
<1>2. PICK a : a = [worker[w] EXCEPT !.pc = "write"]
  OBVIOUS
<1>3. PICK b : b = [a EXCEPT !.wasPaid = wasPaid]
  OBVIOUS
<1>4. PICK c : c = [b EXCEPT !.new = new]
  OBVIOUS
<1>5. c.pc = "write" /\ c.ev = worker[w].ev /\ c.new = new
  BY <1>2, <1>3, <1>4 DEF PaymentTypeOK, WorkerRow
<1>6. worker' = [worker EXCEPT ![w] = c]
  BY <1>1, <1>2, <1>3, <1>4, Zenon
<1>7. QED
  BY <1>1, <1>5, <1>6 DEF PaymentTypeOK

LEMMA HandlersKeepEvents ==
  ASSUME PInv, NEW w \in Worker, HandlerStep(w) \/ HandlerFails(w)
  PROVE  EventInv'
<1> USE DEF PInv
<1>0. PICK e \in Event, p \in Payment :
        /\ e = worker[w].ev /\ p = e.pay
        /\ worker[w] \in WorkerRow
  BY DEF PaymentTypeOK, WorkerRow, Event
<1>1. /\ RowsKept /\ UNCHANGED stripe
  BY HandlersKeep
<1>2. Live(w) /\ HandlerFits(w)
  BY DEF HandlerStep, HandlerFails, HandleCompleted, RecordOutcome, Announce,
     ReadTotals, WriteInvoice, AnnouncePaid, EventInv, WorkerFits, Live
<1>3. \A f \in Event : announced[f] <= 1 /\ announced[f] \in Nat
  BY DEF EventInv, PaymentTypeOK
<1>a. ASSUME Finish(w), UNCHANGED announced PROVE EventInv'
  BY <1>a, <1>0, <1>1, <1>2, <1>3, FinishEnds, OneHandler
<1>b. ASSUME NEW pc \in {"announce", "read", "write", "flipped"},
             \A v \in Worker \ {w} : worker'[v] = worker[v],
             worker'[w].pc = pc, worker'[w].ev = e,
             pc \in {"read", "write", "flipped"} => e.type = "succeeded",
             pc = "write" => worker'[w].new \in {"paid", "partially_paid"},
             pc = "announce" => announced'[e] = 0,
             payment'[p].intent,
             \A f \in Event \ {e} : announced'[f] = announced[f],
             announced'[e] <= 1, UNCHANGED event
      PROVE  EventInv'
  <2>1. HandlerFits(w)'
    BY <1>b, <1>0, <1>2 DEF HandlerFits, Live
  <2>2. QED
    BY <1>b, <1>0, <1>1, <1>2, <2>1, OneHandler DEF HandlerFits
<1>4. CASE HandleCompleted(w)
  BY <1>4, <1>a DEF HandleCompleted, noticeVars
<1>5. CASE RecordOutcome(w)
  <2>1. CASE payment[p].intent
    <3>1. /\ worker' = [worker EXCEPT ![w].pc = "announce"]
          /\ UNCHANGED <<event, announced>>
      BY <1>0, <1>5, <2>1, Zenon DEF RecordOutcome, noticeVars
    <3>2. worker[w].pc = "handle"
      BY <1>5 DEF RecordOutcome
    <3>3. announced[e] = 0
      BY <1>0, <1>2, <3>2 DEF HandlerFits
    <3>4. payment'[p].intent
      BY <1>1, <2>1 DEF RowsKept
    <3>5. /\ \A v \in Worker \ {w} : worker'[v] = worker[v]
          /\ worker'[w].pc = "announce" /\ worker'[w].ev = e
      BY <1>0, <3>1 DEF PaymentTypeOK, WorkerRow
    <3>6. QED
      BY <1>b, <3>1, <3>3, <3>4, <3>5
  <2>2. CASE ~payment[p].intent
    BY <1>0, <1>5, <1>a, <2>2 DEF RecordOutcome, noticeVars
  <2>3. QED
    BY <2>1, <2>2
<1>6. CASE Announce(w)
  <2>1. /\ worker[w].pc = "announce" /\ announced' = [announced EXCEPT ![e] = @ + 1]
    BY <1>0, <1>6 DEF Announce
  <2>2. announced[e] = 0 /\ announced'[e] = 1
        /\ \A f \in Event \ {e} : announced'[f] = announced[f]
    BY <1>0, <1>2, <2>1 DEF HandlerFits, PaymentTypeOK
  <2>3. CASE e.type = "succeeded"
    <3>1. worker' = [worker EXCEPT ![w].pc = "read"] /\ UNCHANGED event
      BY <1>0, <1>6, <2>3 DEF Announce
    <3>2. /\ \A v \in Worker \ {w} : worker'[v] = worker[v]
          /\ worker'[w].pc = "read" /\ worker'[w].ev = e
      BY <1>0, <3>1 DEF PaymentTypeOK, WorkerRow
    <3>3. payment'[p].intent
      BY <1>0, <1>1, <1>2, <2>1 DEF RowsKept, HandlerFits
    <3>4. QED
      BY <1>b, <2>2, <2>3, <3>1, <3>2, <3>3
  <2>4. CASE e.type # "succeeded"
    <3>1. Finish(w)
      BY <1>0, <1>6, <2>4 DEF Announce
    <3>2. QED
      BY <1>0, <1>1, <1>2, <2>2, <3>1, FinishEnds, OneHandler
  <2>5. QED
    BY <2>3, <2>4
<1>7. CASE ReadTotals(w)
  <2>1. worker[w].pc = "read" /\ UNCHANGED <<announced, payment>>
    BY <1>7 DEF ReadTotals, noticeVars
  <2>2. CASE Finish(w)
    BY <1>a, <2>1, <2>2
  <2>3. CASE ~Finish(w)
    <3>1. /\ \A v \in Worker \ {w} : worker'[v] = worker[v]
          /\ worker'[w].pc = "write" /\ worker'[w].ev = e
          /\ worker'[w].new \in {"paid", "partially_paid"}
          /\ UNCHANGED event
      BY <1>0, <1>7, <2>3, ReadEffects
    <3>2. payment'[p].intent /\ e.type = "succeeded"
      BY <1>0, <1>2, <2>1 DEF HandlerFits
    <3>3. QED
      BY <1>b, <1>3, <2>1, <3>1, <3>2
  <2>4. QED
    BY <2>2, <2>3
<1>8. CASE WriteInvoice(w)
  <2>1. /\ worker[w].pc = "write" /\ UNCHANGED <<announced, payment>>
        /\ \/ worker' = [worker EXCEPT ![w].pc = "flipped"] /\ UNCHANGED event
           \/ Finish(w)
    BY <1>8 DEF WriteInvoice, noticeVars
  <2>2. CASE worker' = [worker EXCEPT ![w].pc = "flipped"] /\ UNCHANGED event
    <3>1. /\ \A v \in Worker \ {w} : worker'[v] = worker[v]
          /\ worker'[w].pc = "flipped" /\ worker'[w].ev = e
      BY <1>0, <2>2 DEF PaymentTypeOK, WorkerRow
    <3>2. payment'[p].intent /\ e.type = "succeeded"
      BY <1>0, <1>2, <2>1 DEF HandlerFits
    <3>3. QED
      BY <1>b, <1>3, <2>1, <2>2, <3>1, <3>2
  <2>3. QED
    BY <1>a, <2>1, <2>2
<1>9. CASE AnnouncePaid(w)
  BY <1>9, <1>a DEF AnnouncePaid
<1>10. CASE HandlerFails(w)
  <2>1. /\ \A v \in Worker \ {w} : worker'[v] = worker[v]
        /\ ~Live(w)' /\ UNCHANGED <<event, announced>>
    BY <1>10 DEF HandlerFails, PaymentTypeOK, Live, Idle, noticeVars
  <2>2. QED
    BY <1>0, <1>1, <1>2, <1>3, <2>1, OneHandler DEF HandlerFits
<1>11. QED
  BY <1>4, <1>5, <1>6, <1>7, <1>8, <1>9, <1>10 DEF HandlerStep

LEMMA StripeKeepsEvents ==
  ASSUME PaymentTypeOK, EventInv, NEW p \in Payment, Charge(p) \/ Decline(p)
  PROVE  EventInv'
<1> USE DEF PaymentTypeOK
<1>1. /\ stripe[p].session = "open" /\ UNCHANGED <<payment, worker, announced>>
      /\ \A q \in Payment : Charged(q) => Charged(q)'
      /\ \A q \in Payment \ {p} : Charged(q)' = Charged(q)
  BY DEF Charge, Decline, Charged, StripeRow, noticeVars
<1>2. \A e \in Event : /\ event[e] \notin Fresh => event'[e] = event[e]
                       /\ event'[e] # "none" => event[e] # "none" \/ e.pay = p
                       /\ event'[e] \in Fresh => event[e] \in Fresh
  <2>1. CASE Charge(p)
    <3>1. \A t \in {"checkout.completed", "succeeded"} :
            Ev(t, p) \in Event /\ event[Ev(t, p)] = "none"
      BY <1>1, EvFacts DEF EventType, EventInv, ChargeFits, Charged
    <3>2. \A e \in Event : \/ event'[e] = event[e]
                           \/ /\ event[e] = "none" /\ event'[e] = "emitted"
                              /\ e.pay = p
      BY <2>1, <3>1 DEF Charge, Ev
    <3>3. QED
      BY <3>2 DEF Fresh
  <2>2. CASE Decline(p)
    <3>1. Ev("payment_failed", p) \in Event /\ event[Ev("payment_failed", p)] = "none"
      BY <2>2, EvFacts DEF EventType, Decline
    <3>2. \A e \in Event : \/ event'[e] = event[e]
                           \/ /\ event[e] = "none" /\ event'[e] = "emitted"
                              /\ e.pay = p
      BY <2>2, <3>1 DEF Decline, Ev
    <3>3. QED
      BY <3>2 DEF Fresh
  <2>3. QED
    BY <2>1, <2>2
<1>3. ASSUME NEW q \in Payment PROVE ChargeFits(q)'
  <2>1. CASE q # p
    <3>1. \A t \in EventType : Ev(t, q) \in Event /\ Ev(t, q).pay = q
      BY EvFacts DEF Ev
    <3>2. ChargeFits(q)
      BY DEF EventInv
    <3>3. QED
      BY <1>1, <1>2, <2>1, <3>1, <3>2 DEF ChargeFits, EventType
  <2>2. CASE q = p /\ Charge(p)
    BY <2>2 DEF Charge, ChargeFits, Charged, StripeRow
  <2>3. CASE q = p /\ Decline(p)
    <3>1. \A t \in {"checkout.completed", "succeeded"} :
            Ev(t, p) \in Event /\ Ev(t, p) # Ev("payment_failed", p)
      BY EvFacts DEF EventType
    <3>2. ChargeFits(p)
      BY DEF EventInv
    <3>3. QED
      BY <2>3, <3>1, <3>2 DEF Decline, ChargeFits, Charged
  <2>4. QED
    BY <2>1, <2>2, <2>3
<1>4. ASSUME NEW w \in Worker PROVE WorkerFits(w)'
  <2>1. WorkerFits(w) /\ worker[w].ev \in Event
    BY DEF EventInv, WorkerRow
  <2>2. QED
    BY <1>1, <1>2, <2>1 DEF WorkerFits, HandlerFits, Alone, Live
<1>5. \A e \in Event : (announced[e] <= 1 /\ (event[e] \in Fresh => announced[e] = 0))'
  BY <1>1, <1>2 DEF EventInv
<1>6. QED
  BY <1>3, <1>4, <1>5 DEF EventInv

LEMMA DeliveriesKeepEvents ==
  ASSUME PaymentTypeOK, EventInv, NEW e \in Event,
         DeliverAgain(e) \/ \E w \in Worker : Deliver(w, e)
  PROVE  EventInv'
<1> USE DEF PaymentTypeOK
<1>1. /\ UNCHANGED <<payment, stripe, announced>>
      /\ event[e] # "none" /\ event'[e] \notin Fresh
      /\ \A f \in Event \ {e} : event'[f] = event[f]
  BY DEF DeliverAgain, Deliver, noticeVars, Fresh
<1>2. ASSUME NEW q \in Payment PROVE ChargeFits(q)'
  <2>1. \A t \in {"checkout.completed", "succeeded"} : Ev(t, q) \in Event
    BY EvFacts DEF EventType
  <2>2. ChargeFits(q)
    BY DEF EventInv
  <2>3. QED
    BY <1>1, <2>1, <2>2 DEF ChargeFits, Charged
<1>3. \A f \in Event : (announced[f] <= 1 /\ (event[f] \in Fresh => announced[f] = 0))'
  BY <1>1 DEF EventInv
<1>4. ASSUME NEW w \in Worker PROVE WorkerFits(w)'
  <2>1. WorkerFits(w) /\ worker[w].ev \in Event
    BY DEF EventInv, WorkerRow
  <2>2. CASE DeliverAgain(e)
    BY <1>1, <2>1, <2>2 DEF DeliverAgain, WorkerFits, HandlerFits, Alone, Live
  <2>3. ASSUME NEW x \in Worker, Deliver(x, e) PROVE WorkerFits(w)'
    <3>1. PICK row : row = [Idle EXCEPT !.pc = "handle", !.ev = e]
      OBVIOUS
    <3>2. row.pc = "handle" /\ row.ev = e
      <4>1. PICK mid : mid = [Idle EXCEPT !.pc = "handle"]
        OBVIOUS
      <4>2. mid \in WorkerRow /\ mid.pc = "handle"
        BY <4>1, Defaults DEF WorkerRow, WorkerPC
      <4>3. row = [mid EXCEPT !.ev = e]
        BY <3>1, <4>1, Zenon
      <4>4. QED
        BY <4>2, <4>3 DEF WorkerRow
    <3>3. worker' = [worker EXCEPT ![x] = row]
      BY <2>3, <3>1, Zenon DEF Deliver
    <3>4. event[e] = "emitted"
      BY <2>3 DEF Deliver
    <3>5. \A v \in Worker : Live(v) => worker[v].ev # e
      BY <3>4 DEF EventInv, WorkerFits, HandlerFits, Fresh
    <3>6. announced[e] = 0
      BY <3>4 DEF EventInv, Fresh
    <3>7. CASE w = x
      <4>1. worker'[w] = row
        BY <3>3, <3>7
      <4>2. HandlerFits(w)'
        BY <1>1, <3>2, <3>6, <4>1 DEF HandlerFits
      <4>3. Alone(w)'
        BY <3>2, <3>3, <3>5, <3>7, <4>1 DEF Alone, Live
      <4>4. QED
        BY <4>2, <4>3 DEF WorkerFits
    <3>8. CASE w # x
      <4>1. worker'[w] = worker[w]
        BY <3>3, <3>8
      <4>2. SUFFICES ASSUME Live(w)' PROVE HandlerFits(w)' /\ Alone(w)'
        BY DEF WorkerFits
      <4>3. Live(w) /\ worker[w].ev # e
        BY <3>5, <4>1, <4>2 DEF Live
      <4>4. HandlerFits(w)'
        BY <1>1, <2>1, <4>1, <4>3 DEF WorkerFits, HandlerFits
      <4>5. Alone(w)'
        BY <2>1, <3>2, <3>3, <4>1, <4>3 DEF WorkerFits, Alone, Live
      <4>6. QED
        BY <4>4, <4>5
    <3>9. QED
      BY <3>7, <3>8
  <2>4. QED
    BY <2>2, <2>3
<1>5. QED
  BY <1>2, <1>3, <1>4 DEF EventInv

-----------------------------------------------------------------------------
(* What every step leaves of a charge: its event is not taken back, nor    *)
(* its row rewritten.                                                      *)
EventsGoOn ==
  /\ \A e \in Event : event[e] \notin Fresh => event'[e] \notin Fresh
  /\ \A w \in Worker : Live(w)' =>
       \/ event[worker'[w].ev] \in Fresh
       \/ /\ Live(w) /\ worker'[w].ev = worker[w].ev
          /\ worker'[w].pc = "handle" => worker[w].pc = "handle"

ChargesKept ==
  \A p \in Payment : Charged(p) =>
    /\ Charged(p)'
    /\ payment'[p].inv = payment[p].inv /\ payment'[p].amount = payment[p].amount

LEMMA RecordedStays ==
  ASSUME EventsGoOn, NEW p \in Payment
  PROVE  /\ Recorded(p) => Recorded(p)'
         /\ Settled(p) => Settled(p)'
<1>1. Ev("succeeded", p) \in Event
  BY EvFacts DEF EventType
<1>2. QED
  BY <1>1 DEF EventsGoOn, Recorded, Settled, Live

LEMMA RecordedCharged ==
  ASSUME EventInv, NEW p \in Payment, Recorded(p) \/ Settled(p)
  PROVE  Charged(p)
  BY DEF EventInv, ChargeFits, Recorded, Settled, Fresh

LEMMA CheckoutEffects ==
  ASSUME PaymentTypeOK, CheckoutInv, NEW p \in Payment, CheckoutStep(p)
  PROVE  /\ UNCHANGED <<invoice, editing, event, worker, refund, announced, paidNotices>>
         /\ ChargesKept
         /\ \A q \in Payment :
              /\ Charged(q)' = Charged(q)
              /\ stripe'[q].refunded = stripe[q].refunded
              /\ payment[q].intent => payment'[q].intent
              /\ \/ payment'[q].status = payment[q].status
                 \/ payment'[q].status = "pending"
<1> USE DEF PaymentTypeOK, noticeVars, otherInvoiceVars
<1>0. RequestFits(p) /\ RowFits(p)
  BY DEF CheckoutInv
<1>1. UNCHANGED <<invoice, editing, event, worker, refund, announced, paidNotices>>
  BY DEF CheckoutStep, StartPay, ReserveKey, LoadInvoice, InsertPayment, CreateSession,
     RecordSession, StoreResult, CheckoutFails
<1>2. ASSUME UNCHANGED <<payment, stripe>> PROVE ChargesKept /\ \A q \in Payment :
              /\ Charged(q)' = Charged(q)
              /\ stripe'[q].refunded = stripe[q].refunded
              /\ payment[q].intent => payment'[q].intent
              /\ \/ payment'[q].status = payment[q].status
                 \/ payment'[q].status = "pending"
  BY <1>2 DEF ChargesKept, Charged
<1>3. CASE InsertPayment(p)
  <2>1. /\ checkout[p].pc = "loaded" /\ UNCHANGED stripe
        /\ \A q \in Payment \ {p} : payment'[q] = payment[q]
        /\ payment'[p].status = "pending"
    BY <1>3 DEF InsertPayment
  <2>2. ~Charged(p) /\ ~payment[p].intent
    BY <2>1, RowFacts DEF Early
  <2>3. QED
    BY <1>1, <2>1, <2>2 DEF ChargesKept, Charged
<1>4. CASE CreateSession(p)
  <2>1. /\ checkout[p].pc = "inserted" /\ UNCHANGED payment
        /\ stripe' = [stripe EXCEPT ![p].session = "open"]
    BY <1>4 DEF CreateSession
  <2>2. ~Charged(p)
    BY <1>0, <2>1 DEF RequestFits, Charged
  <2>3. QED
    BY <1>1, <2>1, <2>2 DEF ChargesKept, Charged, StripeRow
<1>5. CASE RecordSession(p)
  <2>1. UNCHANGED stripe /\ payment' = [payment EXCEPT ![p].session = TRUE]
    BY <1>5 DEF RecordSession
  <2>2. QED
    BY <1>1, <2>1 DEF ChargesKept, Charged, PaymentRow
<1>6. CASE UNCHANGED <<payment, stripe>>
  BY <1>1, <1>2, <1>6
<1>7. QED
  BY <1>3, <1>4, <1>5, <1>6
  DEF CheckoutStep, StartPay, ReserveKey, LoadInvoice, StoreResult, CheckoutFails

(* The handlers, row by row. *)
LEMMA HandlerEffects ==
  ASSUME PInv, NEW w \in Worker, HandlerStep(w) \/ HandlerFails(w)
  PROVE  /\ EventsGoOn /\ ChargesKept
         /\ \A q \in Payment :
              \/ payment'[q].status = payment[q].status
              \/ payment'[q].status = "failed"
              \/ payment'[q].status = "succeeded" /\ Recorded(q)'
<1> USE DEF PInv
<1>0. PICK e \in Event, p \in Payment : e = worker[w].ev /\ p = e.pay
  BY DEF PaymentTypeOK, WorkerRow, Event
<1>1. /\ RowsKept /\ UNCHANGED stripe
  BY HandlersKeep
<1>2. ChargesKept
  BY <1>1 DEF RowsKept, ChargesKept, Charged
<1>3. Live(w) /\ HandlerFits(w) /\ Alone(w)
  BY DEF HandlerStep, HandlerFails, HandleCompleted, RecordOutcome, Announce,
     ReadTotals, WriteInvoice, AnnouncePaid, EventInv, WorkerFits, Live
<1> DEFINE OneMoves == /\ \A v \in Worker \ {w} : worker'[v] = worker[v]
                       /\ Live(w)' => worker'[w].ev = e /\ worker'[w].pc # "handle"
                       /\ \A f \in Event \ {e} : event'[f] = event[f]
                       /\ event'[e] \notin Fresh
<1>4. OneMoves
  <2>1. ASSUME Finish(w) PROVE OneMoves
    BY <1>0, <2>1, FinishEnds
  <2>2. ASSUME NEW pc \in WorkerPC \ {"handle"},
               worker' = [worker EXCEPT ![w].pc = pc], UNCHANGED event
        PROVE  OneMoves
    BY <1>0, <1>3, <2>2 DEF PaymentTypeOK, WorkerRow, HandlerFits
  <2>3. CASE HandlerFails(w)
    BY <1>0, <1>3, <2>3
    DEF HandlerFails, PaymentTypeOK, WorkerRow, HandlerFits, Idle, Live
  <2>4. CASE ReadTotals(w) /\ ~Finish(w)
    BY <1>0, <1>3, <2>4, ReadEffects DEF HandlerFits
  <2>5. CASE HandleCompleted(w) \/ AnnouncePaid(w)
    BY <2>1, <2>5 DEF HandleCompleted, AnnouncePaid
  <2>6. CASE RecordOutcome(w) /\ ~Finish(w)
    BY <2>2, <2>6 DEF RecordOutcome, WorkerPC
  <2>7. CASE Announce(w) /\ ~Finish(w)
    BY <2>2, <2>7 DEF Announce, WorkerPC
  <2>8. CASE WriteInvoice(w) /\ ~Finish(w)
    BY <2>2, <2>8 DEF WriteInvoice, WorkerPC
  <2>9. QED
    BY <2>1, <2>3, <2>4, <2>5, <2>6, <2>7, <2>8 DEF HandlerStep
<1>5. EventsGoOn
  BY <1>0, <1>3, <1>4 DEF EventsGoOn, Live
<1>6. ASSUME NEW q \in Payment
      PROVE  \/ payment'[q].status = payment[q].status
             \/ payment'[q].status = "failed"
             \/ payment'[q].status = "succeeded" /\ Recorded(q)'
  <2>1. CASE RecordOutcome(w) /\ q = p /\ payment[p].intent
    <3>1. /\ worker[w].pc = "handle" /\ e.type \in {"succeeded", "payment_failed"}
          /\ payment' = [payment EXCEPT ![p].status = StatusFor[e.type]]
      BY <1>0, <2>1, Zenon DEF RecordOutcome, StatusFor
    <3>2. CASE e.type = "payment_failed"
      BY <2>1, <3>1, <3>2 DEF StatusFor, PaymentTypeOK, PaymentRow
    <3>3. CASE e.type = "succeeded"
      <4>1. payment'[p].status = "succeeded"
        BY <3>1, <3>3 DEF StatusFor, PaymentTypeOK, PaymentRow
      <4>2. e = Ev("succeeded", p)
        BY <1>0, <3>3, EvFacts
      <4>3. Recorded(p)'
        BY <1>0, <1>3, <1>4, <4>2 DEF Recorded, Alone, Live
      <4>4. QED
        BY <2>1, <4>1, <4>3
    <3>4. QED
      BY <3>1, <3>2, <3>3
  <2>2. CASE RecordOutcome(w) /\ ~(q = p /\ payment[p].intent)
    BY <1>0, <2>2 DEF RecordOutcome, PaymentTypeOK
  <2>3. CASE HandleCompleted(w)
    BY <1>0, <2>3 DEF HandleCompleted, PaymentTypeOK, PaymentRow
  <2>4. CASE \/ Announce(w) \/ ReadTotals(w) \/ WriteInvoice(w) \/ AnnouncePaid(w)
             \/ HandlerFails(w)
    BY <2>4 DEF Announce, ReadTotals, WriteInvoice, AnnouncePaid, HandlerFails
  <2>5. QED
    BY <2>1, <2>2, <2>3, <2>4 DEF HandlerStep
<1>7. QED
  BY <1>2, <1>5, <1>6

(* Stripe charges an open session, once. *)
LEMMA StripeEffects ==
  ASSUME PaymentTypeOK, EventInv, NEW p \in Payment, Charge(p) \/ Decline(p)
  PROVE  /\ EventsGoOn /\ ChargesKept
         /\ UNCHANGED <<payment, refund, paidNotices>>
         /\ \A q \in Payment :
              /\ stripe'[q].refunded = stripe[q].refunded
              /\ Charged(q)' => Charged(q) \/ q = p
              /\ stripe'[q].session = "none" <=> stripe[q].session = "none"
<1> USE DEF PaymentTypeOK
<1>1. /\ stripe[p].session = "open" /\ UNCHANGED <<payment, refund, worker, paidNotices>>
      /\ \/ stripe' = [stripe EXCEPT ![p].session = "paid"]
         \/ UNCHANGED stripe
  BY DEF Charge, Decline, noticeVars
<1>2. /\ ChargesKept
      /\ \A q \in Payment :
           /\ stripe'[q].refunded = stripe[q].refunded
           /\ Charged(q)' => Charged(q) \/ q = p
           /\ stripe'[q].session = "none" <=> stripe[q].session = "none"
  BY <1>1 DEF ChargesKept, Charged, StripeRow
<1>3. \A e \in Event : event[e] \notin Fresh => event'[e] \notin Fresh
  <2>1. CASE Charge(p)
    <3>1. \A t \in {"checkout.completed", "succeeded"} :
            Ev(t, p) \in Event /\ event[Ev(t, p)] = "none"
      BY <1>1, EvFacts DEF EventType, EventInv, ChargeFits, Charged
    <3>2. QED
      BY <2>1, <3>1 DEF Charge, Ev, Fresh
  <2>2. CASE Decline(p)
    <3>1. Ev("payment_failed", p) \in Event /\ event[Ev("payment_failed", p)] = "none"
      BY <2>2, EvFacts DEF EventType, Decline
    <3>2. QED
      BY <2>2, <3>1 DEF Decline, Ev, Fresh
  <2>3. QED
    BY <2>1, <2>2
<1>4. EventsGoOn
  BY <1>1, <1>3 DEF EventsGoOn, Live
<1>5. QED
  BY <1>1, <1>2, <1>4

(* A delivery takes an event that no handler is at work on. *)
LEMMA DeliveryEffects ==
  ASSUME PaymentTypeOK, NEW e \in Event,
         DeliverAgain(e) \/ \E w \in Worker : Deliver(w, e)
  PROVE  /\ EventsGoOn /\ ChargesKept
         /\ UNCHANGED <<payment, stripe, refund, checkout, idem, invoice, editing,
                        paidNotices>>
<1> USE DEF PaymentTypeOK
<1>1. /\ UNCHANGED <<payment, stripe, refund, checkout, idem, invoice, editing,
                     paidNotices>>
      /\ event'[e] \notin Fresh /\ \A f \in Event \ {e} : event'[f] = event[f]
  BY DEF DeliverAgain, Deliver, requestVars, noticeVars, otherInvoiceVars, Fresh
<1>2. ChargesKept
  BY <1>1 DEF ChargesKept, Charged
<1>3. EventsGoOn
  <2>1. CASE DeliverAgain(e)
    BY <1>1, <2>1 DEF DeliverAgain, EventsGoOn, Live
  <2>2. ASSUME NEW x \in Worker, Deliver(x, e) PROVE EventsGoOn
    <3>1. PICK row : row = [Idle EXCEPT !.pc = "handle", !.ev = e]
      OBVIOUS
    <3>2. row.ev = e
      <4>1. PICK mid : mid = [Idle EXCEPT !.pc = "handle"]
        OBVIOUS
      <4>2. mid \in WorkerRow
        BY <4>1, Defaults DEF WorkerRow, WorkerPC
      <4>3. row = [mid EXCEPT !.ev = e]
        BY <3>1, <4>1, Zenon
      <4>4. QED
        BY <4>2, <4>3 DEF WorkerRow
    <3>3. worker' = [worker EXCEPT ![x] = row]
      BY <2>2, <3>1, Zenon DEF Deliver
    <3>4. event[e] \in Fresh
      BY <2>2 DEF Deliver, Fresh
    <3>5. QED
      BY <1>1, <3>2, <3>3, <3>4 DEF EventsGoOn, Live
  <2>3. QED
    BY <2>1, <2>2
<1>4. QED
  BY <1>1, <1>2, <1>3

-----------------------------------------------------------------------------
(* Outcomes and refunds.                                                   *)
LEMMA OutcomeStays ==
  ASSUME PaymentTypeOK, PaymentTypeOK', EventInv, EventsGoOn, ChargesKept,
         NEW p \in Payment, OutcomeFits(p),
         \/ payment'[p].status \in {payment[p].status, "pending", "failed"}
         \/ payment'[p].status = "succeeded" /\ Recorded(p)',
         Charged(p)' => payment'[p].amount > 0,
         stripe'[p].refunded = stripe[p].refunded
  PROVE  OutcomeFits(p)'
<1>1. /\ payment[p].amount \in Int /\ payment'[p].amount \in Int
      /\ stripe[p].refunded \in Int
  BY InvoicesAssumption
  DEF InvoicesAssumption, PaymentTypeOK, PaymentRow, StripeRow
<1>2. Recorded(p) => Recorded(p)' /\ Charged(p)
  BY RecordedStays, RecordedCharged
<1>3. (payment[p].status \in {"succeeded", "refunded", "partially_refunded"}
         => Recorded(p))'
  BY <1>2 DEF OutcomeFits
<1>4. (payment[p].status = "refunded" => stripe[p].refunded = payment[p].amount)'
  BY <1>2 DEF OutcomeFits, ChargesKept
<1>5. (payment[p].status = "partially_refunded" => stripe[p].refunded > 0)'
  BY DEF OutcomeFits
<1>6. (stripe[p].refunded >= 0)'
  BY DEF OutcomeFits
<1>7. (stripe[p].refunded <= IF Charged(p) THEN payment[p].amount ELSE 0)'
  <2>1. CASE Charged(p)
    BY <1>1, <2>1 DEF OutcomeFits, ChargesKept
  <2>2. CASE ~Charged(p) /\ Charged(p)'
    BY <1>1, <2>2 DEF OutcomeFits
  <2>3. CASE ~Charged(p) /\ ~Charged(p)'
    BY <1>1, <2>3 DEF OutcomeFits
  <2>4. QED
    BY <2>1, <2>2, <2>3
<1>8. QED
  BY <1>3, <1>4, <1>5, <1>6, <1>7 DEF OutcomeFits

LEMMA RefundStays ==
  ASSUME PaymentTypeOK, PaymentTypeOK', EventInv, EventsGoOn, ChargesKept,
         NEW r \in Refund, RefundFits(r), refund'[r] = refund[r],
         NEW p \in Payment, p = refund[r].pay,
         \/ stripe'[p].refunded = stripe[p].refunded
         \/ /\ stripe'[p].refunded >= stripe[p].refunded
            /\ stripe[p].refunded # payment[p].amount
  PROVE  RefundFits(r)'
<1>1. /\ stripe[p].refunded \in Int /\ stripe'[p].refunded \in Int
      /\ Recorded(p) => Recorded(p)' /\ Charged(p)
  BY RecordedStays, RecordedCharged DEF PaymentTypeOK, StripeRow
<1>2. CASE refund[r].pc # "idle"
  <2>1. Recorded(p) /\ Recorded(p)' /\ payment'[p].amount = payment[p].amount
    BY <1>1, <1>2 DEF RefundFits, ChargesKept
  <2>2. CASE stripe'[p].refunded = stripe[p].refunded
    BY <2>1, <2>2 DEF RefundFits
  <2>3. CASE /\ stripe'[p].refunded >= stripe[p].refunded
             /\ stripe[p].refunded # payment[p].amount
    <3>1. refund[r].pc = "called" => stripe'[p].refunded > 0 /\ refund[r].amount # 0
      <4>1. SUFFICES ASSUME refund[r].pc = "called"
                     PROVE  stripe'[p].refunded > 0 /\ refund[r].amount # 0
        OBVIOUS
      <4>a. /\ stripe[p].refunded > 0
            /\ refund[r].amount = 0 => stripe[p].refunded = payment[p].amount
        BY <1>2, <4>1 DEF RefundFits
      <4>2. stripe[p].refunded > 0 /\ refund[r].amount # 0
        BY <2>3, <4>a
      <4>3. QED
        BY <1>1, <2>3, <4>2
    <3>2. QED
      BY <2>1, <3>1 DEF RefundFits
  <2>4. QED
    BY <2>2, <2>3
<1>3. CASE refund[r].pc = "idle"
  BY <1>3 DEF RefundFits
<1>4. QED
  BY <1>2, <1>3

(* A step that moves no refund and no money at Stripe. *)
LEMMA MoneyFrame ==
  ASSUME PaymentTypeOK, PaymentTypeOK', EventInv, CheckoutInv', MoneyInv, EventsGoOn,
         ChargesKept, UNCHANGED refund,
         \A p \in Payment :
           /\ \/ payment'[p].status \in {payment[p].status, "pending", "failed"}
              \/ payment'[p].status = "succeeded" /\ Recorded(p)'
           /\ stripe'[p].refunded = stripe[p].refunded
  PROVE  MoneyInv'
<1>1. ASSUME NEW p \in Payment PROVE OutcomeFits(p)'
  <2>1. OutcomeFits(p) /\ (Charged(p)' => payment'[p].amount > 0)
    BY DEF MoneyInv, CheckoutInv, RowFits, Charged
  <2>2. QED
    BY <2>1, OutcomeStays
<1>2. ASSUME NEW r \in Refund PROVE RefundFits(r)'
  <2>1. PICK p \in Payment : p = refund[r].pay
    BY DEF PaymentTypeOK, RefundRow
  <2>2. QED
    BY <2>1, RefundStays DEF MoneyInv
<1>3. QED
  BY <1>1, <1>2 DEF MoneyInv

(* A refund request writes what Stripe has answered, and Stripe gives back *)
(* no more than it took.                                                   *)
LEMMA RefundEffects ==
  ASSUME PInv, PaymentTypeOK', NEW r \in Refund, RefundStep(r)
  PROVE  /\ EventsGoOn /\ ChargesKept /\ RowsKept /\ SessionsKept
         /\ UNCHANGED <<invoice, editing, checkout, idem, event, worker, announced,
                        paidNotices>>
         /\ AllCharged' = AllCharged
<1> USE DEF PInv, PaymentTypeOK
<1>1. UNCHANGED <<invoice, editing, checkout, idem, event, worker, announced, paidNotices>>
  BY DEF RefundStep, StartRefund, CallRefund, WriteRefund, RefundFails, requestVars,
         noticeVars, otherInvoiceVars
<1>2. EventsGoOn
  BY <1>1 DEF EventsGoOn, Live
<1>3. PICK p \in Payment : p = refund[r].pay
  BY DEF RefundRow
<1>4. /\ SessionsKept /\ \A q \in Payment : Charged(q)' = Charged(q)
  <2>1. CASE CallRefund(r)
    <3>1. PICK x : stripe' = [stripe EXCEPT ![p].refunded = x]
      BY <1>3, <2>1, Zenon DEF CallRefund
    <3>2. QED
      BY <3>1 DEF SessionsKept, Charged, StripeRow
  <2>2. CASE UNCHANGED stripe
    BY <2>2 DEF SessionsKept, Charged
  <2>3. QED
    BY <2>1, <2>2 DEF RefundStep, StartRefund, WriteRefund, RefundFails
<1>5. RowsKept
  <2>1. CASE WriteRefund(r)
    <3>1. PICK s \in {"refunded", "partially_refunded"} :
            payment' = [payment EXCEPT ![p].status = s]
      BY <1>3, <2>1 DEF WriteRefund
    <3>2. refund[r].pc # "idle"
      BY <2>1 DEF WriteRefund
    <3>3. Recorded(p)
      BY <1>3, <3>2 DEF MoneyInv, RefundFits
    <3>4. payment[p].status # "absent"
      BY <3>3, RecordedCharged, RowFacts
    <3>5. QED
      BY <3>1, <3>4 DEF RowsKept, PaymentRow
  <2>2. CASE UNCHANGED payment
    BY <2>2 DEF RowsKept
  <2>3. QED
    BY <2>1, <2>2 DEF RefundStep, StartRefund, CallRefund, RefundFails
<1>6. ChargesKept
  BY <1>4, <1>5 DEF ChargesKept, RowsKept
<1>7. QED
  BY <1>1, <1>2, <1>4, <1>5, <1>6 DEF AllCharged

LEMMA RefundsKeepMoney ==
  ASSUME PInv, PaymentTypeOK', CheckoutInv', NEW r \in Refund, RefundStep(r)
  PROVE  MoneyInv'
<1> USE DEF PInv
<1>0. /\ EventsGoOn /\ ChargesKept /\ RowsKept /\ UNCHANGED <<event, worker>>
      /\ AllCharged' = AllCharged
  BY RefundEffects
<1>1. /\ \A q \in Payment : OutcomeFits(q) /\ (Charged(q)' => payment'[q].amount > 0)
      /\ \A s \in Refund : RefundFits(s)
  BY DEF MoneyInv, CheckoutInv, RowFits, Charged
<1>2. ASSUME NEW q \in Payment, payment'[q].status = payment[q].status,
             stripe'[q].refunded = stripe[q].refunded
      PROVE  OutcomeFits(q)'
  BY <1>0, <1>1, <1>2, OutcomeStays
<1>3. ASSUME NEW s \in Refund, refund'[s] = refund[s], UNCHANGED stripe
      PROVE  RefundFits(s)'
  <2>1. PICK q \in Payment : q = refund[s].pay
    BY DEF PaymentTypeOK, RefundRow
  <2>2. QED
    BY <1>0, <1>1, <1>3, <2>1, RefundStays
<1>4. \A q \in Payment : Recorded(q)' <=> Recorded(q)
  BY <1>0 DEF Recorded
<1>5. ASSUME NEW p \in Payment, StartRefund(r, p) PROVE MoneyInv'
  <2>1. PICK a \in 0..payment[p].amount :
          refund' = [refund EXCEPT ![r] = [pc |-> "ready", pay |-> p, amount |-> a]]
    BY <1>5 DEF StartRefund
  <2>2. payment[p].status = "succeeded" /\ UNCHANGED <<payment, stripe>>
    BY <1>5 DEF StartRefund
  <2>3. Recorded(p)'
    BY <1>1, <1>4, <2>2 DEF OutcomeFits
  <2>4. /\ refund'[r] = [pc |-> "ready", pay |-> p, amount |-> a]
        /\ \A s \in Refund \ {r} : refund'[s] = refund[s]
    BY <2>1 DEF PaymentTypeOK
  <2>5. RefundFits(r)'
    BY <2>3, <2>4 DEF RefundFits
  <2>6. QED
    BY <1>2, <1>3, <2>2, <2>4, <2>5 DEF MoneyInv
<1>6. PICK p \in Payment : p = refund[r].pay
  BY DEF PaymentTypeOK, RefundRow
<1>7. /\ payment[p].amount \in Int /\ stripe[p].refunded \in Int
      /\ refund[r].amount \in Int
  BY InvoicesAssumption
  DEF InvoicesAssumption, PaymentTypeOK, PaymentRow, StripeRow, RefundRow
<1>8. CASE CallRefund(r)
  <2>1. PICK x : x = IF refund[r].amount = 0 THEN payment[p].amount
                     ELSE stripe[p].refunded + refund[r].amount
    OBVIOUS
  <2>2. /\ stripe' = [stripe EXCEPT ![p].refunded = x]
        /\ refund' = [refund EXCEPT ![r].pc = "called"]
        /\ UNCHANGED payment
    BY <1>6, <1>8, <2>1, Zenon DEF CallRefund
  <2>3. /\ refund[r].pc = "ready"
        /\ payment[p].amount - stripe[p].refunded > 0
        /\ refund[r].amount <= payment[p].amount - stripe[p].refunded
    BY <1>6, <1>8, Zenon DEF CallRefund
  <2>4. Recorded(p) /\ refund[r].amount >= 0
    BY <1>1, <1>6, <2>3 DEF RefundFits
  <2>5. stripe[p].refunded >= 0 /\ Charged(p)
    BY <1>1, <2>4, RecordedCharged DEF OutcomeFits
  <2>6. /\ x \in Int /\ x > stripe[p].refunded /\ x > 0 /\ x <= payment[p].amount
        /\ refund[r].amount = 0 => x = payment[p].amount
    BY <1>7, <2>1, <2>3, <2>4, <2>5
  <2>7. /\ stripe'[p].refunded = x /\ stripe'[p].session = stripe[p].session
        /\ \A q \in Payment \ {p} : stripe'[q] = stripe[q]
    BY <2>2 DEF PaymentTypeOK, StripeRow
  <2>8. /\ refund'[r].pc = "called" /\ refund'[r].pay = p
        /\ refund'[r].amount = refund[r].amount
        /\ \A s \in Refund \ {r} : refund'[s] = refund[s]
    BY <1>6, <2>2 DEF PaymentTypeOK, RefundRow
  <2>9. OutcomeFits(p)'
    <3>1. payment[p].status # "refunded"
      BY <1>1, <1>7, <2>3 DEF OutcomeFits
    <3>2. payment[p].status \in {"succeeded", "refunded", "partially_refunded"} =>
            Recorded(p)'
      BY <1>4, <2>4
    <3>3. Charged(p)'
      BY <2>5, <2>7 DEF Charged
    <3>4. QED
      BY <1>7, <2>2, <2>6, <2>7, <3>1, <3>2, <3>3 DEF OutcomeFits
  <2>10. RefundFits(r)'
    BY <1>4, <2>2, <2>4, <2>6, <2>7, <2>8 DEF RefundFits
  <2>11. ASSUME NEW s \in Refund \ {r} PROVE RefundFits(s)'
    <3>1. PICK q \in Payment : q = refund[s].pay
      BY DEF PaymentTypeOK, RefundRow
    <3>2. \/ stripe'[q].refunded = stripe[q].refunded
          \/ /\ stripe'[q].refunded >= stripe[q].refunded
             /\ stripe[q].refunded # payment[q].amount
      BY <1>7, <2>3, <2>6, <2>7
    <3>3. QED
      BY <1>0, <1>1, <2>8, <3>1, <3>2, RefundStays
  <2>12. QED
    BY <1>2, <2>2, <2>7, <2>9, <2>10, <2>11 DEF MoneyInv
<1>9. CASE WriteRefund(r)
  <2>1. PICK s : s = IF refund[r].amount = 0 THEN "refunded" ELSE "partially_refunded"
    OBVIOUS
  <2>2. /\ payment' = [payment EXCEPT ![p].status = s]
        /\ refund' = [refund EXCEPT ![r] = NoRefund]
        /\ refund[r].pc = "called" /\ UNCHANGED stripe
    BY <1>6, <1>9, <2>1, Zenon DEF WriteRefund
  <2>3. /\ Recorded(p) /\ stripe[p].refunded > 0
        /\ refund[r].amount = 0 => stripe[p].refunded = payment[p].amount
    BY <1>1, <1>6, <2>2 DEF RefundFits
  <2>4. /\ payment'[p].status = s /\ payment'[p].amount = payment[p].amount
        /\ \A q \in Payment \ {p} : payment'[q] = payment[q]
    BY <2>2 DEF PaymentTypeOK, PaymentRow
  <2>5. OutcomeFits(p)'
    <3>1. OutcomeFits(p) /\ Recorded(p)' /\ Charged(p)' = Charged(p)
      BY <1>1, <1>4, <2>2, <2>3 DEF Charged
    <3>2. QED
      BY <2>1, <2>2, <2>3, <2>4, <3>1 DEF OutcomeFits
  <2>6. ASSUME NEW q \in Refund PROVE RefundFits(q)'
    <3>1. CASE q = r
      BY <2>2, <3>1 DEF RefundFits, NoRefund, PaymentTypeOK
    <3>2. CASE q # r
      BY <1>3, <2>2, <3>2
    <3>3. QED
      BY <3>1, <3>2
  <2>7. QED
    BY <1>2, <2>2, <2>4, <2>5, <2>6 DEF MoneyInv
<1>10. CASE RefundFails(r)
  <2>1. /\ refund' = [refund EXCEPT ![r] = NoRefund]
        /\ UNCHANGED <<payment, stripe>>
    BY <1>10 DEF RefundFails
  <2>2. ASSUME NEW q \in Refund PROVE RefundFits(q)'
    <3>1. CASE q = r
      BY <2>1, <3>1 DEF RefundFits, NoRefund, PaymentTypeOK
    <3>2. CASE q # r
      BY <1>3, <2>1, <3>2
    <3>3. QED
      BY <3>1, <3>2
  <2>3. QED
    BY <1>2, <2>1, <2>2 DEF MoneyInv
<1>11. QED
  BY <1>5, <1>8, <1>9, <1>10 DEF RefundStep

-----------------------------------------------------------------------------
(* Notices.                                                                *)
LEMMA SettledGrows ==
  ASSUME EventInv, EventInv', EventsGoOn, ChargesKept, NEW i \in Invoice
  PROVE  SettledOf(i) \subseteq SettledOf(i)' /\ SettledOf(i)' \subseteq AllCharged'
<1>1. \A p \in Payment : Settled(p) => Charged(p) /\ Settled(p)'
  BY RecordedStays, RecordedCharged
<1>2. \A p \in Payment : Settled(p)' => Charged(p)'
  BY DEF EventInv, ChargeFits, Settled, Fresh
<1>3. QED
  BY <1>1, <1>2 DEF SettledOf, AllCharged, ChargesKept

(* A step that announces no invoice.paid. *)
LEMMA NoticeFrame ==
  ASSUME PaymentTypeOK, EventInv, EventInv', NoticeInv, EventsGoOn, ChargesKept,
         IsFiniteSet(AllCharged'), UNCHANGED paidNotices
  PROVE  NoticeInv'
<1>1. ASSUME NEW i \in Invoice PROVE (paidNotices[i] <= Cardinality(SettledOf(i)))'
  <2> DEFINE S == SettledOf(i)
             T == SettledOf(i)'
             A == AllCharged'
  <2>1. S \subseteq T /\ T \subseteq A
    BY SettledGrows
  <2>2. IsFiniteSet(A) /\ paidNotices[i] <= Cardinality(S)
    BY DEF NoticeInv
  <2>3. paidNotices'[i] = paidNotices[i] /\ paidNotices[i] \in Nat
    BY DEF PaymentTypeOK
  <2>4. SUFFICES paidNotices'[i] <= Cardinality(T)
    OBVIOUS
  <2> HIDE DEF S, T, A
  <2>5. IsFiniteSet(T)
    BY <2>1, <2>2, FS_Subset
  <2>6. /\ Cardinality(S) <= Cardinality(T) /\ IsFiniteSet(S)
    BY <2>1, <2>5, FS_Subset
  <2>7. Cardinality(S) \in Nat /\ Cardinality(T) \in Nat
    BY <2>5, <2>6, FS_CardinalityType
  <2>8. QED
    BY <2>2, <2>3, <2>6, <2>7
<1>2. QED
  BY <1>1 DEF NoticeInv

(* The handler that announces invoice.paid is the last one of its charge,  *)
(* which is settled by the same step.                                      *)
LEMMA NoticeStep ==
  ASSUME PInv, EventInv', NEW w \in Worker, AnnouncePaid(w), EventsGoOn, ChargesKept
  PROVE  NoticeInv'
<1> USE DEF PInv
<1>1. PICK p \in Payment, n \in Invoice :
        /\ worker[w].ev = Ev("succeeded", p) /\ worker[w].ev \in Event
        /\ p = worker[w].ev.pay /\ n = payment[p].inv
  <2>1. worker[w].ev \in Event /\ worker[w].ev.type = "succeeded"
    BY DEF AnnouncePaid, EventInv, WorkerFits, HandlerFits, Live, PaymentTypeOK, WorkerRow
  <2>2. PICK p \in Payment : p = worker[w].ev.pay
    BY <2>1 DEF Event
  <2>3. PICK n \in Invoice : n = payment[p].inv
    BY DEF PaymentTypeOK, PaymentRow
  <2>4. QED
    BY <2>1, <2>2, <2>3, EvFacts
<1>2. /\ Live(w) /\ Alone(w) /\ Charged(p)
  <2>1. Live(w) /\ HandlerFits(w) /\ Alone(w)
    BY DEF AnnouncePaid, EventInv, WorkerFits, Live
  <2>2. QED
    BY <1>1, <2>1 DEF HandlerFits, Fresh, EventInv, ChargeFits
<1>3. /\ paidNotices' = [paidNotices EXCEPT ![n] = @ + 1]
      /\ Finish(w) /\ UNCHANGED <<payment, stripe>>
  BY <1>1, Zenon DEF AnnouncePaid
<1>4. ~Settled(p) /\ Settled(p)'
  <2>1. ~Settled(p)
    BY <1>1, <1>2 DEF Settled
  <2>2. /\ \A v \in Worker \ {w} : worker'[v] = worker[v]
        /\ ~Live(w)' /\ event'[Ev("succeeded", p)] \notin Fresh
    BY <1>1, <1>3, FinishEnds
  <2>3. Settled(p)'
    BY <1>1, <1>2, <2>2 DEF Settled, Alone, Live
  <2>4. QED
    BY <2>1, <2>3
<1>5. AllCharged' = AllCharged
  BY <1>3 DEF AllCharged, Charged
<1>6. ASSUME NEW i \in Invoice PROVE (paidNotices[i] <= Cardinality(SettledOf(i)))'
  <2> DEFINE S == SettledOf(i)
             T == SettledOf(i)'
             A == AllCharged
  <2>1. S \subseteq T /\ T \subseteq A
    BY <1>5, SettledGrows
  <2>2. IsFiniteSet(A) /\ paidNotices[i] <= Cardinality(S) /\ paidNotices[i] \in Nat
    BY DEF NoticeInv, PaymentTypeOK
  <2>3. i = n => p \notin S /\ p \in T
    BY <1>1, <1>3, <1>4 DEF SettledOf
  <2>4. paidNotices'[i] = IF i = n THEN paidNotices[i] + 1 ELSE paidNotices[i]
    BY <1>3 DEF PaymentTypeOK
  <2>5. SUFFICES paidNotices'[i] <= Cardinality(T)
    OBVIOUS
  <2> HIDE DEF S, T, A
  <2>6. IsFiniteSet(T)
    BY <2>1, <2>2, FS_Subset
  <2>7. /\ Cardinality(S) <= Cardinality(T) /\ IsFiniteSet(S)
        /\ Cardinality(T) = Cardinality(S) => T = S
    BY <2>1, <2>6, FS_Subset
  <2>8. Cardinality(S) \in Nat /\ Cardinality(T) \in Nat
    BY <2>6, <2>7, FS_CardinalityType
  <2>9. QED
    BY <2>2, <2>3, <2>4, <2>7, <2>8
<1>7. QED
  BY <1>5, <1>6 DEF NoticeInv

-----------------------------------------------------------------------------
(* Collected invoices.                                                     *)
LEMMA PaidFrame ==
  ASSUME PaidWasCollected, InvoicesKept, ChargesKept,
         \A i \in Invoice : invoice'[i].status = "paid" => invoice[i].status = "paid"
  PROVE  PaidWasCollected'
  BY DEF PaidWasCollected, InvoicesKept, ChargesKept, Out

(* An update of one row leaves the others alone. *)
LEMMA RowUpdate ==
  ASSUME NEW f \in [Invoice -> Row], NEW n \in Invoice, NEW s, NEW g,
         g = [f EXCEPT ![n].status = s]
  PROVE  \A i \in Invoice \ {n} : g[i] = f[i]
OBVIOUS

(* The handler that marks an invoice paid is about a charge of its total.  *)
LEMMA HandlersKeepPaid ==
  ASSUME PInv, NEW w \in Worker, HandlerStep(w) \/ HandlerFails(w)
  PROVE  PaidWasCollected'
<1> USE DEF PInv
<1>1. InvoicesKept /\ ChargesKept
  BY HandlersKeep, HandlerEffects
<1>2. CASE WriteInvoice(w)
  <2>1. PICK p \in Payment : p = worker[w].ev.pay /\ Charged(p)
    <3>1. /\ worker[w].ev \in Event /\ worker[w].ev.type = "succeeded"
          /\ event[worker[w].ev] \notin Fresh
      BY <1>2 DEF WriteInvoice, EventInv, WorkerFits, HandlerFits, Live, PaymentTypeOK,
                  WorkerRow
    <3>2. PICK p \in Payment : p = worker[w].ev.pay /\ worker[w].ev = Ev("succeeded", p)
      BY <3>1, EvFacts
    <3>3. QED
      BY <3>1, <3>2 DEF EventInv, ChargeFits, Fresh
  <2>2. PICK n \in Invoice : n = payment[p].inv
    BY DEF PaymentTypeOK, PaymentRow
  <2>3. payment[p].amount = invoice[n].total /\ Out(n)
    BY <2>1, <2>2, RowFacts DEF CheckoutInv, RowFits
  <2>4. \A i \in Invoice \ {n} : invoice'[i] = invoice[i]
    <3>1. invoice' = [invoice EXCEPT ![n].status = worker[w].new]
      BY <1>2, <2>1, <2>2, Zenon DEF WriteInvoice
    <3>2. invoice \in [Invoice -> Row]
      BY DEF PaymentTypeOK, InvoiceTypeOK
    <3>3. QED
      BY <3>1, <3>2, RowUpdate
  <2>5. Charged(p)' /\ payment'[p].inv = n /\ payment'[p].amount = invoice'[n].total
    BY <1>1, <2>1, <2>2, <2>3 DEF ChargesKept, InvoicesKept
  <2>6. ASSUME NEW i \in Invoice, invoice'[i].status = "paid"
        PROVE  \E q \in Payment : /\ Charged(q)'
                                  /\ payment'[q].inv = i
                                  /\ payment'[q].amount = invoice'[i].total
    <3>1. CASE i = n
      BY <2>5, <3>1
    <3>2. CASE i # n
      BY <1>1, <2>4, <2>6, <3>2 DEF PaidWasCollected, ChargesKept
    <3>3. QED
      BY <3>1, <3>2
  <2>7. QED
    BY <2>6 DEF PaidWasCollected
<1>3. CASE UNCHANGED invoice
  BY <1>1, <1>3, PaidFrame
<1>4. QED
  BY <1>2, <1>3
  DEF HandlerStep, HandlerFails, HandleCompleted, RecordOutcome, Announce, ReadTotals,
      AnnouncePaid

-----------------------------------------------------------------------------
(* Every step of the system keeps every part of the invariant.             *)
LEMMA PStep == PInv /\ [Next]_vars => PInv'
<1> SUFFICES ASSUME PInv, [Next]_vars PROVE PInv'
  OBVIOUS
<1> USE DEF PInv
<1>0. PaymentTypeOK'
  BY PaymentTypesStep
<1>a. ASSUME UNCHANGED <<invoice, editing>>
      PROVE  /\ LockedIsDraft' /\ InvoicesKept
             /\ \A i \in Invoice : invoice'[i].status = "paid" => invoice[i].status = "paid"
  BY <1>a DEF LockedIsDraft, InvoicesKept, Out
<1>b. ASSUME UNCHANGED paymentVars
      PROVE  /\ RowsKept /\ SessionsKept /\ EventsGoOn /\ ChargesKept
             /\ UNCHANGED <<checkout, idem, payment, stripe, event, worker, refund,
                            announced, paidNotices>>
             /\ AllCharged' = AllCharged
  BY <1>b DEF paymentVars, requestVars, noticeVars, RowsKept, SessionsKept, EventsGoOn,
              ChargesKept, Charged, AllCharged, Live
<1>1. ASSUME [InvoiceNext]_invoiceVars, UNCHANGED paymentVars PROVE PInv'
  <2>1. /\ LockedIsDraft' /\ InvoicesKept
        /\ \A i \in Invoice : invoice'[i].status = "paid" => invoice[i].status = "paid"
    BY <1>1, InvoiceHandlersKeep DEF PaymentTypeOK
  <2>2. CheckoutInv'
    BY <1>1, <1>b, <2>1, CheckoutFrame
  <2>3. EventInv'
    BY <1>1, <1>b, EventFrame DEF Charged
  <2>4. MoneyInv'
    BY <1>0, <1>1, <1>b, <2>2, MoneyFrame
  <2>5. NoticeInv'
    BY <1>1, <1>b, <2>3, NoticeFrame DEF NoticeInv
  <2>6. PaidWasCollected'
    BY <1>1, <1>b, <2>1, PaidFrame
  <2>7. QED
    BY <1>0, <2>1, <2>2, <2>3, <2>4, <2>5, <2>6
<1>2. ASSUME NEW p \in Payment, CheckoutStep(p) PROVE PInv'
  <2>1. /\ UNCHANGED <<invoice, editing, event, worker, refund, announced, paidNotices>>
        /\ ChargesKept
        /\ \A q \in Payment :
             /\ Charged(q)' = Charged(q)
             /\ stripe'[q].refunded = stripe[q].refunded
             /\ payment[q].intent => payment'[q].intent
             /\ \/ payment'[q].status = payment[q].status
                \/ payment'[q].status = "pending"
    BY <1>2, CheckoutEffects
  <2>2. EventsGoOn /\ AllCharged' = AllCharged
    BY <2>1 DEF EventsGoOn, Live, AllCharged
  <2>3. CheckoutInv'
    BY <1>2, CheckoutKeepsCheckout
  <2>4. EventInv'
    BY <2>1, EventFrame
  <2>5. MoneyInv'
    BY <1>0, <2>1, <2>2, <2>3, MoneyFrame
  <2>6. NoticeInv'
    BY <2>1, <2>2, <2>4, NoticeFrame DEF NoticeInv
  <2>7. LockedIsDraft' /\ PaidWasCollected'
    BY <1>a, <2>1, PaidFrame
  <2>8. QED
    BY <1>0, <2>3, <2>4, <2>5, <2>6, <2>7
<1>3. ASSUME NEW p \in Payment, Charge(p) \/ Decline(p) PROVE PInv'
  <2>1. /\ EventsGoOn /\ ChargesKept
        /\ UNCHANGED <<payment, refund, paidNotices>>
        /\ \A q \in Payment :
             /\ stripe'[q].refunded = stripe[q].refunded
             /\ Charged(q)' => Charged(q) \/ q = p
             /\ stripe'[q].session = "none" <=> stripe[q].session = "none"
    BY <1>3, StripeEffects
  <2>2. UNCHANGED <<invoice, editing, checkout, idem>>
    BY <1>3 DEF Charge, Decline, requestVars, otherInvoiceVars
  <2>3. RowsKept /\ SessionsKept
    BY <2>1 DEF RowsKept, SessionsKept
  <2>4. CheckoutInv'
    BY <1>a, <2>2, <2>3, CheckoutFrame
  <2>5. EventInv'
    BY <1>3, StripeKeepsEvents
  <2>6. MoneyInv'
    BY <1>0, <2>1, <2>4, MoneyFrame
  <2>7. IsFiniteSet(AllCharged')
    <3>1. AllCharged' \subseteq AllCharged \cup {p}
      BY <2>1 DEF AllCharged
    <3>2. IsFiniteSet(AllCharged \cup {p})
      BY FS_AddElement DEF NoticeInv
    <3>3. QED
      BY <3>1, <3>2, FS_Subset
  <2>8. NoticeInv'
    BY <2>1, <2>5, <2>7, NoticeFrame
  <2>9. LockedIsDraft' /\ PaidWasCollected'
    BY <1>a, <2>1, <2>2, PaidFrame
  <2>10. QED
    BY <1>0, <2>4, <2>5, <2>6, <2>8, <2>9
<1>4. ASSUME NEW k \in Key, ExpireKey(k) PROVE PInv'
  <2>1. /\ UNCHANGED <<invoice, editing, checkout, payment, stripe, event, worker,
                       refund, announced, paidNotices>>
        /\ \A j \in Key : idem'[j] \in Payment => idem'[j] = idem[j]
    BY <1>4, PaymentsAssumption
    DEF PaymentsAssumption, ExpireKey, noticeVars, otherInvoiceVars, PaymentTypeOK
  <2>2. /\ RowsKept /\ SessionsKept /\ EventsGoOn /\ ChargesKept
        /\ AllCharged' = AllCharged
    BY <2>1 DEF RowsKept, SessionsKept, EventsGoOn, ChargesKept, Charged, AllCharged, Live
  <2>3. CheckoutInv'
    BY <1>a, <2>1, <2>2, CheckoutFrame
  <2>4. EventInv'
    BY <2>1, EventFrame DEF Charged
  <2>5. MoneyInv'
    BY <1>0, <2>1, <2>2, <2>3, MoneyFrame
  <2>6. NoticeInv'
    BY <2>1, <2>2, <2>4, NoticeFrame DEF NoticeInv
  <2>7. LockedIsDraft' /\ PaidWasCollected'
    BY <1>a, <2>1, <2>2, PaidFrame
  <2>8. QED
    BY <1>0, <2>3, <2>4, <2>5, <2>6, <2>7
<1>5. ASSUME NEW e \in Event, DeliverAgain(e) \/ \E w \in Worker : Deliver(w, e)
      PROVE  PInv'
  <2>1. /\ EventsGoOn /\ ChargesKept
        /\ UNCHANGED <<payment, stripe, refund, checkout, idem, invoice, editing,
                       paidNotices>>
    BY <1>5, DeliveryEffects
  <2>2. RowsKept /\ SessionsKept /\ AllCharged' = AllCharged
    BY <2>1 DEF RowsKept, SessionsKept, AllCharged, Charged
  <2>3. CheckoutInv'
    BY <1>a, <2>1, <2>2, CheckoutFrame
  <2>4. EventInv'
    BY <1>5, DeliveriesKeepEvents
  <2>5. MoneyInv'
    BY <1>0, <2>1, <2>3, MoneyFrame
  <2>6. NoticeInv'
    BY <2>1, <2>2, <2>4, NoticeFrame DEF NoticeInv
  <2>7. LockedIsDraft' /\ PaidWasCollected'
    BY <1>a, <2>1, PaidFrame
  <2>8. QED
    BY <1>0, <2>3, <2>4, <2>5, <2>6, <2>7
<1>6. ASSUME NEW w \in Worker, HandlerStep(w) \/ HandlerFails(w) PROVE PInv'
  <2>1. /\ LockedIsDraft' /\ InvoicesKept /\ RowsKept
        /\ UNCHANGED <<checkout, idem, stripe, refund>>
    BY <1>6, HandlersKeep
  <2>2. /\ EventsGoOn /\ ChargesKept
        /\ \A q \in Payment :
             \/ payment'[q].status = payment[q].status
             \/ payment'[q].status = "failed"
             \/ payment'[q].status = "succeeded" /\ Recorded(q)'
    BY <1>6, HandlerEffects
  <2>3. SessionsKept /\ AllCharged' = AllCharged
    BY <2>1 DEF SessionsKept, AllCharged, Charged
  <2>4. CheckoutInv'
    BY <2>1, <2>3, CheckoutFrame
  <2>5. EventInv'
    BY <1>6, HandlersKeepEvents
  <2>6. MoneyInv'
    BY <1>0, <2>1, <2>2, <2>4, MoneyFrame
  <2>7. NoticeInv'
    <3>1. CASE AnnouncePaid(w)
      BY <2>2, <2>5, <3>1, NoticeStep
    <3>2. CASE UNCHANGED paidNotices
      BY <2>2, <2>3, <2>5, <3>2, NoticeFrame DEF NoticeInv
    <3>3. QED
      BY <1>6, <3>1, <3>2
      DEF HandlerStep, HandlerFails, HandleCompleted, RecordOutcome, Announce,
          ReadTotals, WriteInvoice, noticeVars
  <2>8. PaidWasCollected'
    BY <1>6, HandlersKeepPaid
  <2>9. QED
    BY <1>0, <2>1, <2>4, <2>5, <2>6, <2>7, <2>8
<1>7. ASSUME NEW r \in Refund, RefundStep(r) PROVE PInv'
  <2>1. /\ EventsGoOn /\ ChargesKept /\ RowsKept /\ SessionsKept
        /\ UNCHANGED <<invoice, editing, checkout, idem, event, worker, announced,
                       paidNotices>>
        /\ AllCharged' = AllCharged
    BY <1>0, <1>7, RefundEffects
  <2>2. CheckoutInv'
    BY <1>a, <2>1, CheckoutFrame
  <2>3. EventInv'
    BY <2>1, EventFrame DEF ChargesKept, RowsKept
  <2>4. MoneyInv'
    BY <1>0, <1>7, <2>2, RefundsKeepMoney
  <2>5. NoticeInv'
    BY <2>1, <2>3, NoticeFrame DEF NoticeInv
  <2>6. LockedIsDraft' /\ PaidWasCollected'
    BY <1>a, <2>1, PaidFrame
  <2>7. QED
    BY <1>0, <2>2, <2>3, <2>4, <2>5, <2>6
<1>8. CASE UNCHANGED vars
  BY <1>1, <1>8 DEF vars
<1>9. QED
  BY <1>1, <1>2, <1>3, <1>4, <1>5, <1>6, <1>7, <1>8 DEF Next, PaymentNext

(* The four parts and PaidWasCollected hold in every reachable state of    *)
(* the checkout, webhook, refund and invoice handlers.                     *)
THEOREM PaymentsInvariance == Spec => []PInv
  BY PInitial, PStep, PTL DEF Spec

-----------------------------------------------------------------------------
(* What a reader wants of it.                                              *)

(* transition_invoice_for_payment shows an invoice as paid only after      *)
(* Stripe has charged a payment of it, for all of its total.               *)
THEOREM PaidCollected == Spec => []PaidWasCollected
  BY PaymentsInvariance, PTL DEF PInv

(* create_checkout inserts rows over the total of an invoice that is out,  *)
(* and no PATCH changes that total afterwards.                             *)
THEOREM AmountsCorrect == Spec => []AmountIsInvoiceTotal
<1>1. PInv => AmountIsInvoiceTotal
  BY DEF PInv, CheckoutInv, RowFits, Out, AmountIsInvoiceTotal
<1>2. QED
  BY <1>1, PaymentsInvariance, PTL

(* idempotency::store_result caches only replies about a recorded session. *)
THEOREM RepliesUsable == Spec => []CachedReplyIsUsable
<1>1. PInv => CachedReplyIsUsable
  BY DEF PInv, CheckoutInv
<1>2. QED
  BY <1>1, PaymentsInvariance, PTL

(* Neither the webhook nor the refund handler writes a status that Stripe  *)
(* has not earned, however their steps and Stripe's interleave.            *)
THEOREM LedgerAgrees == Spec => []LedgerAgreesWithStripe
<1>1. ASSUME PInv PROVE LedgerAgreesWithStripe
  <2>1. ASSUME NEW p \in Payment, Recorded(p) PROVE Charged(p)
    BY <1>1, <2>1, RecordedCharged DEF PInv
  <2>2. \A p \in Payment : OutcomeFits(p)
    BY <1>1 DEF PInv, MoneyInv
  <2>3. QED
    BY <2>1, <2>2 DEF LedgerAgreesWithStripe, OutcomeFits
<1>2. QED
  BY <1>1, PaymentsInvariance, PTL

(* The dedup key makes every notice of the webhook handler the only one of *)
(* its event, and invoice.paid the only one of its charge.                 *)
THEOREM NoticesBacked == Spec => []NoticesAreBacked
<1>1. ASSUME PInv, NEW i \in Invoice
      PROVE  paidNotices[i] <= Cardinality({p \in Payment : Charged(p)
                                                   /\ payment[p].inv = i})
  <2>1. PICK S : S = {p \in Payment : Charged(p) /\ payment[p].inv = i}
    OBVIOUS
  <2>2. PICK T : T = SettledOf(i)
    OBVIOUS
  <2>3. ASSUME NEW p \in Payment, Settled(p) PROVE Charged(p)
    BY <1>1, <2>3, RecordedCharged DEF PInv
  <2>4. S \subseteq AllCharged /\ T \subseteq S
    BY <2>1, <2>2, <2>3 DEF AllCharged, SettledOf
  <2>5. IsFiniteSet(S)
    BY <1>1, <2>4, FS_Subset DEF PInv, NoticeInv
  <2>6. IsFiniteSet(T) /\ Cardinality(T) <= Cardinality(S)
    BY <2>4, <2>5, FS_Subset
  <2>7. Cardinality(S) \in Nat /\ Cardinality(T) \in Nat
    BY <2>5, <2>6, FS_CardinalityType
  <2>8. paidNotices[i] <= Cardinality(T) /\ paidNotices[i] \in Nat
    BY <1>1, <2>2 DEF PInv, NoticeInv, PaymentTypeOK
  <2>9. paidNotices[i] <= Cardinality(S)
    BY <2>6, <2>7, <2>8
  <2>10. QED
    BY <2>1, <2>9
<1>2. PInv => NoticesAreBacked
  BY <1>1 DEF PInv, EventInv, NoticesAreBacked
<1>3. QED
  BY <1>2, PaymentsInvariance, PTL

(* The outcome of a charge is written by one handler, which holds the only *)
(* dedup key for it: by the time a refund is recorded it has written it.   *)
THEOREM RefundsNotUndone == Spec => NoSuccessAfterRefund
<1> DEFINE Back(p) ==
      /\ payment[p].status \in {"refunded", "partially_refunded"}
      /\ payment'[p].status = "succeeded"
<1>1. ASSUME PInv, [Next]_vars, NEW p \in Payment PROVE ~Back(p)
  <2> USE <1>1
  <2>0. Back(p) => Recorded(p)
    BY DEF PInv, MoneyInv, OutcomeFits
  <2>1. ASSUME UNCHANGED payment PROVE ~Back(p)
    BY <2>1
  <2>2. ASSUME NEW q \in Payment, CheckoutStep(q) PROVE ~Back(p)
    BY <2>2, CheckoutEffects DEF PInv
  <2>3. ASSUME NEW w \in Worker, RecordOutcome(w) PROVE ~Back(p)
    <3>0. payment \in [Payment -> PaymentRow]
      BY DEF PInv, PaymentTypeOK
    <3>1. PICK e \in Event, q \in Payment : e = worker[w].ev /\ q = e.pay
      BY DEF PInv, PaymentTypeOK, WorkerRow, Event
    <3>2. PICK s : s = StatusFor[e.type]
      OBVIOUS
    <3>3. \/ payment' = [payment EXCEPT ![q].status = s]
          \/ UNCHANGED payment
      BY <2>3, <3>1, <3>2, Zenon DEF RecordOutcome
    <3>4. e.type # "succeeded" => s # "succeeded"
      BY <2>3, <3>1, <3>2 DEF RecordOutcome, StatusFor
    <3>5. e.type = "succeeded" => e = Ev("succeeded", q)
      BY <3>1 DEF Event, Ev
    <3>6. worker[w].pc = "handle"
      BY <2>3 DEF RecordOutcome
    <3>7. Recorded(p) => e # Ev("succeeded", p)
      BY <3>1, <3>6 DEF Recorded
    <3>8. CASE q = p /\ e.type = "succeeded"
      BY <2>0, <3>5, <3>7, <3>8
    <3>9. CASE q # p
      <4>1. payment'[p] = payment[p]
        BY ONLY <3>3, <3>9, <3>0
      <4>2. QED
        BY <4>1
    <3>10. CASE e.type # "succeeded"
      BY <3>3, <3>4, <3>10, <3>0 DEF PaymentRow
    <3>11. QED
      BY <3>8, <3>9, <3>10
  <2>4. ASSUME NEW w \in Worker, HandleCompleted(w) PROVE ~Back(p)
    <3>1. PICK q \in Payment : q = worker[w].ev.pay
      BY DEF PInv, PaymentTypeOK, WorkerRow, Event
    <3>2. PICK b : b = (payment[q].intent \/ payment[q].session)
      OBVIOUS
    <3>3. payment' = [payment EXCEPT ![q].intent = b]
      BY <2>4, <3>1, <3>2, Zenon DEF HandleCompleted
    <3>4. QED
      BY <3>3 DEF PInv, PaymentTypeOK, PaymentRow
  <2>5. ASSUME NEW w \in Worker, HandlerStep(w) \/ HandlerFails(w) PROVE ~Back(p)
    BY <2>1, <2>3, <2>4, <2>5
    DEF HandlerStep, HandlerFails, Announce, ReadTotals, WriteInvoice, AnnouncePaid
  <2>6. ASSUME NEW r \in Refund, RefundStep(r) PROVE ~Back(p)
    <3>1. CASE WriteRefund(r)
      <4>1. PICK q \in Payment : q = refund[r].pay
        BY DEF PInv, PaymentTypeOK, RefundRow
      <4>2. PICK s \in {"refunded", "partially_refunded"} :
              s = IF refund[r].amount = 0 THEN "refunded" ELSE "partially_refunded"
        OBVIOUS
      <4>3. payment' = [payment EXCEPT ![q].status = s]
        BY <3>1, <4>1, <4>2, Zenon DEF WriteRefund
      <4>4. QED
        BY <4>2, <4>3 DEF PInv, PaymentTypeOK, PaymentRow
    <3>2. QED
      BY <2>1, <2>6, <3>1 DEF RefundStep, StartRefund, CallRefund, RefundFails
  <2>7. QED
    BY <2>1, <2>2, <2>5, <2>6
    DEF Next, PaymentNext, Charge, Decline, ExpireKey, DeliverAgain, Deliver,
        paymentVars, vars
<1>2. PInv /\ [Next]_vars =>
        [\A p \in Payment :
           payment[p].status \in {"refunded", "partially_refunded"}
             => payment'[p].status # "succeeded"]_vars
  BY <1>1
<1>3. QED
  BY <1>2, PaymentsInvariance, PTL DEF Spec, NoSuccessAfterRefund
-----------------------------------------------------------------------------
(* Induction over the natural numbers, as the absence of a least exception. *)
LEMMA NatSetInduction ==
  ASSUME NEW S, 0 \in S, \A n \in Nat : n \in S => n + 1 \in S
  PROVE  Nat \subseteq S
<1> DEFINE T == Nat \ S
<1> DEFINE R == OpToRel(<, Nat)
<1>1. IsWellFoundedOn(R, Nat)
  BY NatLessThanWellFounded, Zenon
<1>2. \A x, y \in Nat : x < y => <<x, y>> \in R
  BY DEF OpToRel
<1>3. SUFFICES ASSUME T # {} PROVE FALSE
  OBVIOUS
<1> HIDE DEF R
<1>4. PICK x \in T : \A y \in T : ~ (<<y, x>> \in R)
  <2> T \subseteq Nat
    OBVIOUS
  <2> HIDE DEF T
  <2> QED
    BY <1>1, <1>3, WFMin, Zenon
<1>5. x # 0 /\ x - 1 \in Nat /\ (x - 1) + 1 = x
  OBVIOUS
<1>6. x - 1 \in T
  BY <1>5
<1>7. x \in Nat /\ x - 1 < x
  BY <1>5
<1>8. <<x - 1, x>> \in R
  BY <1>2, <1>5, <1>7
<1>9. <<x - 1, x>> \notin R
  BY <1>4, <1>6
<1> QED
  BY <1>8, <1>9

(* The sum over a set of payments, as the recursion that defines it: one   *)
(* payment of the set at a time.                                           *)
One(s) == CHOOSE x \in s : TRUE

Adds(S, it) ==
  it = [s \in SUBSET S |-> IF s = {} THEN 0
                           ELSE payment[One(s)].amount + it[s \ {One(s)}]]

SucceededOf(i) ==
  {p \in Payment : payment[p].inv = i /\ payment[p].status = "succeeded"}

LEMMA CollectedIs ==
  ASSUME NEW i
  PROVE  Collected(i) = (CHOOSE it : Adds(SucceededOf(i), it))[SucceededOf(i)]
  BY Zenon DEF Collected, MapThenSumSet, MapThenFoldSet, Adds, SucceededOf, One

(* A set is its chosen payment and a set of one payment less.              *)
LEMMA WithoutOne ==
  ASSUME NEW s, IsFiniteSet(s), s # {}
  PROVE  /\ One(s) \in s /\ IsFiniteSet(s \ {One(s)})
         /\ Cardinality(s) \in Nat /\ Cardinality(s \ {One(s)}) \in Nat
         /\ Cardinality(s) = Cardinality(s \ {One(s)}) + 1
<1>1. One(s) \in s
  BY DEF One
<1>2. PICK x : x = One(s)
  OBVIOUS
<1>3. /\ IsFiniteSet(s \ {x}) /\ Cardinality(s \ {x}) = Cardinality(s) - 1
  BY <1>1, <1>2, FS_RemoveElement
<1>4. Cardinality(s) \in Nat /\ Cardinality(s \ {x}) \in Nat
  BY <1>3, FS_CardinalityType
<1>5. QED
  BY <1>1, <1>2, <1>3, <1>4

(* The recursion has a solution: one for the sets of k payments extends to *)
(* those of k + 1.                                                         *)
LEMMA AddsExists ==
  ASSUME NEW S, IsFiniteSet(S)
  PROVE  \E it : Adds(S, it)
<1> DEFINE Amount(p) == payment[p].amount
<1> DEFINE Right(it, s) == it[s] = IF s = {} THEN 0
                                   ELSE Amount(One(s)) + it[s \ {One(s)}]
<1> DEFINE Fits(it, k) == \A s \in SUBSET S : Cardinality(s) <= k => Right(it, s)
<1> DEFINE IsFun(it) == it = [s \in SUBSET S |-> it[s]]
<1> DEFINE C == {k \in Nat : \E it : IsFun(it) /\ Fits(it, k)}
<1> HIDE DEF Amount
<1>0. \A s \in SUBSET S : IsFiniteSet(s) /\ Cardinality(s) \in Nat
  BY FS_Subset, FS_CardinalityType
<1>a. \A s \in SUBSET S : s # {} =>
        /\ s \ {One(s)} \in SUBSET S
        /\ Cardinality(s \ {One(s)}) \in Nat
        /\ Cardinality(s) = Cardinality(s \ {One(s)}) + 1
  BY <1>0, WithoutOne
<1>b. Cardinality({}) = 0 /\ {} \in SUBSET S
  BY FS_EmptySet
<1>1. 0 \in C
  <2> DEFINE it == [s \in SUBSET S |-> 0]
  <2>1. ASSUME NEW s \in SUBSET S, Cardinality(s) <= 0 PROVE Right(it, s)
    <3>1. s = {}
      BY <1>0, <2>1, FS_EmptySet
    <3>2. QED
      BY <3>1
  <2>2. IsFun(it)
    OBVIOUS
  <2>3. IsFun(it) /\ Fits(it, 0)
    BY <2>1, <2>2
  <2> HIDE DEF it
  <2>4. \E e : IsFun(e) /\ Fits(e, 0)
    BY <2>3, Zenon
  <2>5. 0 \in Nat
    OBVIOUS
  <2>6. QED
    BY <2>4, <2>5, Zenon
<1>2. ASSUME NEW k \in Nat, k \in C PROVE k + 1 \in C
  <2>1. PICK it : IsFun(it) /\ Fits(it, k)
    BY <1>2
  <2> DEFINE jt == [s \in SUBSET S |-> IF Cardinality(s) <= k THEN it[s]
                                       ELSE Amount(One(s)) + it[s \ {One(s)}]]
  <2>2. ASSUME NEW s \in SUBSET S, Cardinality(s) <= k + 1 PROVE Right(jt, s)
    <3>1. CASE s = {}
      <4>1. Cardinality(s) <= k /\ {} \in SUBSET S
        BY <1>b, <3>1
      <4>2. it[{}] = 0
        BY <2>1, <3>1, <4>1
      <4>3. jt[s] = it[{}]
        BY <3>1, <4>1
      <4>4. QED
        BY <3>1, <4>2, <4>3
    <3>2. CASE s # {}
      <4>1. PICK r : r = s \ {One(s)}
        OBVIOUS
      <4>2. /\ r \in SUBSET S /\ Cardinality(r) <= k
            /\ Cardinality(s) = Cardinality(r) + 1
        BY <1>a, <2>2, <3>2, <4>1
      <4>3. jt[r] = it[r]
        BY <4>2
      <4>4. CASE Cardinality(s) <= k
        <5>1. it[s] = Amount(One(s)) + it[r]
          BY <2>1, <3>2, <4>1, <4>4
        <5>2. jt[s] = it[s]
          BY <4>4
        <5>3. QED
          BY <3>2, <4>1, <4>3, <5>1, <5>2
      <4>5. CASE ~ (Cardinality(s) <= k)
        <5>1. jt[s] = Amount(One(s)) + it[r]
          BY <4>1, <4>5
        <5>2. QED
          BY <3>2, <4>1, <4>3, <5>1
      <4>6. QED
        BY <4>4, <4>5
    <3>3. QED
      BY <3>1, <3>2
  <2>3. IsFun(jt)
    OBVIOUS
  <2>4. IsFun(jt) /\ Fits(jt, k + 1)
    BY <2>2, <2>3
  <2> HIDE DEF jt
  <2>5. \E e : IsFun(e) /\ Fits(e, k + 1)
    BY <2>4, Zenon
  <2>6. k + 1 \in Nat
    OBVIOUS
  <2>7. QED
    BY <2>5, <2>6, Zenon
<1>3. Cardinality(S) \in C
  <2> HIDE DEF C
  <2>1. Nat \subseteq C
    BY <1>1, <1>2, NatSetInduction
  <2>2. QED
    BY <1>0, <2>1
<1>4. PICK it : IsFun(it) /\ Fits(it, Cardinality(S))
  BY <1>3
<1>5. \A s \in SUBSET S : Right(it, s)
  <2>1. \A s \in SUBSET S : Cardinality(s) <= Cardinality(S)
    BY FS_Subset
  <2>2. QED
    BY <1>4, <2>1, Zenon
<1>6. it = [s \in SUBSET S |-> IF s = {} THEN 0
                               ELSE Amount(One(s)) + it[s \ {One(s)}]]
  BY <1>4, <1>5
<1>7. Adds(S, it)
  BY <1>6 DEF Adds, Amount
<1>8. QED
  BY <1>7

(* What an invoice has collected when each of its payments asks for the    *)
(* same positive amount: nothing, or that amount at least.                 *)
LEMMA CollectedAtLeast ==
  ASSUME NEW i, NEW a \in Int, a > 0, IsFiniteSet(SucceededOf(i)),
         \A p \in SucceededOf(i) : payment[p].amount = a
  PROVE  /\ Collected(i) \in Nat
         /\ Collected(i) = 0 \/ Collected(i) >= a
<1> DEFINE S == SucceededOf(i)
<1> DEFINE it == CHOOSE e : Adds(S, e)
<1>1. Adds(S, it)
  BY AddsExists
<1>2. Collected(i) = it[S]
  BY CollectedIs
<1> HIDE DEF S, it
<1>3. \A s \in SUBSET S : it[s] = IF s = {} THEN 0
                                  ELSE payment[One(s)].amount + it[s \ {One(s)}]
  BY <1>1 DEF Adds
<1> DEFINE C == {k \in Nat : \A s \in SUBSET S : Cardinality(s) = k =>
                               it[s] \in Nat /\ (it[s] = 0 \/ it[s] >= a)}
<1>0. \A s \in SUBSET S : IsFiniteSet(s) /\ Cardinality(s) \in Nat
  BY FS_Subset, FS_CardinalityType DEF S
<1>a. \A s \in SUBSET S : s # {} =>
        /\ s \ {One(s)} \in SUBSET S /\ One(s) \in S
        /\ Cardinality(s \ {One(s)}) \in Nat
        /\ Cardinality(s) = Cardinality(s \ {One(s)}) + 1
  BY <1>0, WithoutOne
<1>4. 0 \in C
  <2>1. ASSUME NEW s \in SUBSET S, Cardinality(s) = 0 PROVE it[s] = 0
    <3>1. s = {}
      BY <1>0, <2>1, FS_EmptySet
    <3>2. QED
      BY <1>3, <3>1
  <2>2. QED
    BY <2>1
<1>5. ASSUME NEW k \in Nat, k \in C PROVE k + 1 \in C
  <2>1. SUFFICES ASSUME NEW s \in SUBSET S, Cardinality(s) = k + 1
                 PROVE  it[s] \in Nat /\ (it[s] = 0 \/ it[s] >= a)
    OBVIOUS
  <2>2. s # {}
    <3>1. Cardinality(s) # 0
      BY <2>1
    <3>2. QED
      BY <3>1, FS_EmptySet
  <2>3. PICK r \in SUBSET S : r = s \ {One(s)} /\ Cardinality(r) = k
    <3>1. PICK r : r = s \ {One(s)}
      OBVIOUS
    <3>2. /\ r \in SUBSET S /\ Cardinality(r) \in Nat
          /\ Cardinality(s) = Cardinality(r) + 1
      BY <1>a, <2>2, <3>1
    <3>3. QED
      BY <2>1, <3>1, <3>2
  <2>4. it[r] \in Nat
    BY <1>5, <2>3
  <2>5. payment[One(s)].amount = a
    BY <1>a, <2>2 DEF S
  <2>6. it[s] = a + it[r]
    BY <1>3, <2>2, <2>3, <2>5
  <2>7. QED
    BY <2>4, <2>6
<1>6. Cardinality(S) \in C
  <2> HIDE DEF C
  <2>1. Nat \subseteq C
    BY <1>4, <1>5, NatSetInduction
  <2>2. QED
    BY <1>0, <2>1
<1>7. QED
  BY <1>2, <1>6
-----------------------------------------------------------------------------
(* The status of an invoice.  transition_invoice_for_payment can write     *)
(* partially_paid, but all succeeded payments of an invoice ask for its    *)
(* total: it never reads a sum between nothing and that.                   *)
WritesPaid == \A w \in Worker : worker[w].pc = "write" => worker[w].new = "paid"

LifeInv == PInv /\ NeverInPart /\ WritesPaid

LEMMA SucceededFits ==
  ASSUME PInv, NEW i \in Invoice
  PROVE  /\ IsFiniteSet(SucceededOf(i))
         /\ \A p \in SucceededOf(i) :
              payment[p].amount = invoice[i].total /\ payment[p].amount > 0
<1>1. ASSUME NEW p \in SucceededOf(i)
      PROVE  /\ p \in AllCharged
             /\ payment[p].amount = invoice[i].total /\ payment[p].amount > 0
  <2>1. p \in Payment /\ payment[p].inv = i /\ payment[p].status = "succeeded"
    BY DEF SucceededOf
  <2>2. Recorded(p)
    BY <2>1 DEF PInv, MoneyInv, OutcomeFits
  <2>3. Charged(p)
    BY <2>1, <2>2, RecordedCharged DEF PInv
  <2>4. QED
    BY <2>1, <2>3 DEF PInv, CheckoutInv, RowFits, Charged, AllCharged
<1>2. PICK S : S = SucceededOf(i)
  OBVIOUS
<1>3. S \subseteq AllCharged /\ IsFiniteSet(AllCharged)
  BY <1>1, <1>2 DEF PInv, NoticeInv
<1>4. IsFiniteSet(S)
  BY <1>3, FS_Subset
<1>5. QED
  BY <1>1, <1>2, <1>4

(* What ReadTotals compares: all of the total is there, or nothing is.     *)
LEMMA CollectedAllOrNothing ==
  ASSUME PInv, NEW i \in Invoice
  PROVE  /\ Collected(i) \in Nat /\ invoice[i].total \in Int
         /\ Collected(i) = 0 \/ Collected(i) >= invoice[i].total
<1>1. PICK t \in Int : t = invoice[i].total
  BY InvoicesAssumption
  DEF InvoicesAssumption, PInv, PaymentTypeOK, InvoiceTypeOK, Row
<1>2. CASE t > 0
  BY <1>1, <1>2, SucceededFits, CollectedAtLeast
<1>3. CASE ~ (t > 0)
  <2>1. \A p \in SucceededOf(i) : payment[p].amount = 1
    BY <1>1, <1>3, SucceededFits
  <2>2. IsFiniteSet(SucceededOf(i))
    BY SucceededFits
  <2>3. Collected(i) \in Nat
    BY <2>1, <2>2, CollectedAtLeast
  <2>4. QED
    BY <1>1, <1>3, <2>3
<1>4. QED
  BY <1>2, <1>3

LEMMA ReadTotalsWritesPaid ==
  ASSUME PInv, WritesPaid, NEW w \in Worker, ReadTotals(w)
  PROVE  WritesPaid'
<1>1. PICK i \in Invoice : i = payment[worker[w].ev.pay].inv
  BY DEF PInv, PaymentTypeOK, WorkerRow, Event, PaymentRow
<1>2. PICK c \in Nat, t \in Int :
        c = Collected(i) /\ t = invoice[i].total /\ (c = 0 \/ c >= t)
  BY CollectedAllOrNothing
<1>3. \A v \in Worker \ {w} : worker'[v] = worker[v]
  BY DEF ReadTotals, Finish, PInv, PaymentTypeOK
<1>4. CASE c >= t \/ c > 0
  <2>1. NewStatus(c, t) = "paid"
    BY <1>2, <1>4 DEF NewStatus
  <2>2. PICK b : b = (invoice[i].status = "paid")
    OBVIOUS
  <2>3. worker' = [worker EXCEPT ![w].pc = "write", ![w].wasPaid = b, ![w].new = "paid"]
    BY <1>1, <1>2, <1>4, <2>1, <2>2, Zenon DEF ReadTotals
  <2>4. worker'[w].new = "paid"
    BY <2>3 DEF PInv, PaymentTypeOK, WorkerRow
  <2>5. QED
    BY <1>3, <2>4 DEF WritesPaid
<1>5. CASE ~ (c >= t \/ c > 0)
  <2>1. Finish(w)
    BY <1>1, <1>2, <1>5, Zenon DEF ReadTotals
  <2>2. worker'[w].pc # "write"
    BY <2>1 DEF Finish, Idle, PInv, PaymentTypeOK
  <2>3. QED
    BY <1>3, <2>2 DEF WritesPaid
<1>6. QED
  BY <1>4, <1>5

(* The other steps of a handler do not come to its last UPDATE.            *)
LEMMA HandlersWritePaid ==
  ASSUME PInv, WritesPaid, NEW w \in Worker, HandlerStep(w) \/ HandlerFails(w)
  PROVE  WritesPaid'
<1>1. ASSUME \A v \in Worker : worker'[v] = worker[v] \/ worker'[v].pc # "write"
      PROVE  WritesPaid'
  BY <1>1 DEF WritesPaid
<1>2. ASSUME Finish(w) \/ worker' = [worker EXCEPT ![w] = Idle]
      PROVE  WritesPaid'
  BY <1>1, <1>2 DEF Finish, Idle, PInv, PaymentTypeOK
<1>3. ASSUME NEW pc, pc # "write", worker' = [worker EXCEPT ![w].pc = pc]
      PROVE  WritesPaid'
  BY <1>1, <1>3 DEF PInv, PaymentTypeOK, WorkerRow
<1>4. CASE HandleCompleted(w)
  BY <1>2, <1>4 DEF HandleCompleted
<1>5. CASE RecordOutcome(w)
  BY <1>2, <1>3, <1>5 DEF RecordOutcome
<1>6. CASE Announce(w)
  BY <1>2, <1>3, <1>6 DEF Announce
<1>7. CASE ReadTotals(w)
  BY <1>7, ReadTotalsWritesPaid
<1>8. CASE WriteInvoice(w)
  BY <1>2, <1>3, <1>8 DEF WriteInvoice
<1>9. CASE AnnouncePaid(w)
  BY <1>2, <1>9 DEF AnnouncePaid
<1>10. CASE HandlerFails(w)
  BY <1>2, <1>10 DEF HandlerFails
<1>11. QED
  BY <1>4, <1>5, <1>6, <1>7, <1>8, <1>9, <1>10 DEF HandlerStep

(* The last UPDATE of a handler makes an invoice that is out paid.         *)
LEMMA WriteInvoiceEffects ==
  ASSUME LifeInv, NEW w \in Worker, WriteInvoice(w)
  PROVE  \E n \in Invoice : /\ Out(n)
                            /\ invoice' = [invoice EXCEPT ![n].status = "paid"]
<1> USE DEF LifeInv, PInv
<1>1. PICK p \in Payment : p = worker[w].ev.pay
  BY DEF PaymentTypeOK, WorkerRow, Event
<1>2. payment[p].status # "absent"
  BY <1>1, RowFacts DEF EventInv, WorkerFits, HandlerFits, Live, WriteInvoice
<1>3. PICK n \in Invoice : n = payment[p].inv /\ Out(n)
  BY <1>2 DEF PaymentTypeOK, PaymentRow, CheckoutInv, RowFits
<1>4. worker[w].new = "paid"
  BY DEF WritesPaid, WriteInvoice
<1>5. invoice' = [invoice EXCEPT ![n].status = "paid"]
  BY <1>1, <1>3, <1>4, Zenon DEF WriteInvoice
<1>6. QED
  BY <1>3, <1>5

(* The UPDATE itself is an edge of the flow, or changes nothing.           *)
LEMMA WriteInvoiceFollows ==
  ASSUME LifeInv, NEW w \in Worker, WriteInvoice(w)
  PROVE  [Lifecycle!Next]_([i \in Invoice |-> invoice[i].status])
<1> DEFINE status == [i \in Invoice |-> invoice[i].status]
<1>1. PICK n \in Invoice : Out(n) /\ invoice' = [invoice EXCEPT ![n].status = "paid"]
  BY WriteInvoiceEffects
<1>2. status' = [status EXCEPT ![n] = "paid"]
  BY <1>1 DEF LifeInv, PInv, PaymentTypeOK, InvoiceTypeOK, Row
<1>3. CASE invoice[n].status = "paid"
  BY <1>2, <1>3
<1>4. CASE invoice[n].status # "paid"
  <2>1. invoice[n].status \in {"sent", "viewed", "overdue", "cancelled"}
    BY <1>1, <1>4 DEF LifeInv, NeverInPart, PInv, PaymentTypeOK, InvoiceTypeOK, Row,
                      Status, Out
  <2>2. "paid" \in Lifecycle!Flow[status[n]]
    BY <2>1 DEF Lifecycle!Flow
  <2>3. QED
    BY <1>2, <2>2 DEF Lifecycle!Next, Lifecycle!Move
<1>5. QED
  BY <1>3, <1>4

(* An edge of the flow does not lead to partially_paid.                    *)
LEMMA FlowIsWhole ==
  ASSUME InvoiceTypeOK, NeverInPart,
         [Lifecycle!Next]_([i \in Invoice |-> invoice[i].status])
  PROVE  NeverInPart'
<1> DEFINE status == [i \in Invoice |-> invoice[i].status]
<1>1. CASE Lifecycle!Lapse
  <2>1. PICK S : status' = [i \in Invoice |-> IF i \in S THEN "overdue" ELSE status[i]]
    BY <1>1 DEF Lifecycle!Lapse
  <2>2. \A i \in Invoice : status'[i] = "overdue" \/ status'[i] = status[i]
    BY <2>1
  <2>3. QED
    BY <2>2 DEF NeverInPart
<1>2. ASSUME NEW n \in Invoice, Lifecycle!Move(n) PROVE NeverInPart'
  <2>1. PICK to \in Lifecycle!Flow[status[n]] : status' = [status EXCEPT ![n] = to]
    BY <1>2 DEF Lifecycle!Move
  <2>2. status[n] \in ({"absent"} \cup Status) \ {"partially_paid"}
    BY DEF InvoiceTypeOK, Row, NeverInPart
  <2>3. to # "partially_paid"
    BY <2>1, <2>2 DEF Status, Lifecycle!Flow
  <2>4. \A i \in Invoice : status'[i] = to \/ status'[i] = status[i]
    BY <2>1
  <2>5. QED
    BY <2>3, <2>4 DEF NeverInPart
<1>3. CASE UNCHANGED status
  <2>1. \A i \in Invoice : status'[i] = status[i]
    BY <1>3
  <2>2. \A i \in Invoice : invoice'[i].status = invoice[i].status
    BY <2>1
  <2>3. QED
    BY <2>2 DEF NeverInPart
<1>4. QED
  BY <1>1, <1>2, <1>3 DEF Lifecycle!Next

LEMMA LifeStep ==
  ASSUME LifeInv, [Next]_vars
  PROVE  /\ [Lifecycle!Next]_([i \in Invoice |-> invoice[i].status])
         /\ WritesPaid'
<1> USE DEF LifeInv
<1>1. ASSUME UNCHANGED invoice
      PROVE  [Lifecycle!Next]_([i \in Invoice |-> invoice[i].status])
  BY <1>1
<1>2. ASSUME UNCHANGED worker PROVE WritesPaid'
  BY <1>2 DEF WritesPaid
<1>3. CASE InvoiceNext /\ UNCHANGED paymentVars
  BY <1>2, <1>3, InvoiceStepFollows DEF paymentVars, PInv, PaymentTypeOK
<1>4. ASSUME NEW p \in Payment, CheckoutStep(p) \/ Charge(p) \/ Decline(p)
      PROVE  UNCHANGED <<invoice, worker>>
  BY <1>4
  DEF CheckoutStep, StartPay, ReserveKey, LoadInvoice, InsertPayment, CreateSession,
      RecordSession, StoreResult, CheckoutFails, Charge, Decline
<1>5. ASSUME NEW k \in Key, ExpireKey(k) PROVE UNCHANGED <<invoice, worker>>
  BY <1>5 DEF ExpireKey
<1>6. ASSUME NEW e \in Event, DeliverAgain(e) PROVE UNCHANGED <<invoice, worker>>
  BY <1>6 DEF DeliverAgain
<1>7. ASSUME NEW e \in Event, NEW w \in Worker, Deliver(w, e)
      PROVE  UNCHANGED invoice /\ WritesPaid'
  <2>1. PICK row : row = [Idle EXCEPT !.pc = "handle", !.ev = e]
    OBVIOUS
  <2>2. row.pc = "handle"
    BY <2>1 DEF Idle
  <2>3. worker' = [worker EXCEPT ![w] = row] /\ UNCHANGED invoice
    BY <1>7, <2>1, Zenon DEF Deliver
  <2>4. QED
    BY <2>2, <2>3 DEF WritesPaid, PInv, PaymentTypeOK
<1>8. ASSUME NEW w \in Worker, HandlerStep(w) \/ HandlerFails(w)
      PROVE  /\ [Lifecycle!Next]_([i \in Invoice |-> invoice[i].status])
             /\ WritesPaid'
  <2>1. WriteInvoice(w) \/ UNCHANGED invoice
    BY <1>8 DEF HandlerStep, HandlerFails, HandleCompleted, RecordOutcome, Announce,
                ReadTotals, AnnouncePaid
  <2>2. QED
    BY <1>1, <1>8, <2>1, WriteInvoiceFollows, HandlersWritePaid
<1>9. ASSUME NEW r \in Refund, RefundStep(r) PROVE UNCHANGED <<invoice, worker>>
  BY <1>9 DEF RefundStep, StartRefund, CallRefund, WriteRefund, RefundFails
<1>10. CASE UNCHANGED vars
  BY <1>1, <1>2, <1>10 DEF vars, invoiceVars, paymentVars
<1>11. QED
  BY <1>1, <1>2, <1>3, <1>4, <1>5, <1>6, <1>7, <1>8, <1>9, <1>10
  DEF Next, PaymentNext

(* The status never shows what the flow does not know, and no handler is   *)
(* about to write it.                                                      *)
THEOREM LifeInvariance == Spec => []LifeInv
<1>1. Init => LifeInv
  BY PInitial
  DEF LifeInv, NeverInPart, WritesPaid, Init, InvoiceInit, PaymentInit, Idle
<1>2. LifeInv /\ [Next]_vars => LifeInv'
  BY PStep, LifeStep, FlowIsWhole DEF LifeInv, PInv, PaymentTypeOK
<1>3. QED
  BY <1>1, <1>2, PTL DEF Spec

(* The system with its payments implements InvoiceLifecycle: whatever the  *)
(* invoice handlers, the overdue job, checkouts, refunds and concurrent,   *)
(* repeated and reordered Stripe events do, each step moves one invoice    *)
(* along the flow, is one lapse, or changes no status.                     *)
THEOREM PaymentsFollowLifecycle == Spec => FollowsLifecycle /\ StepsFollowLifecycle
<1> DEFINE status == [i \in Invoice |-> invoice[i].status]
<1>1. Init => Lifecycle!Init
  BY DEF Init, InvoiceInit, Lifecycle!Init
<1>2. LifeInv /\ [Next]_vars => [Lifecycle!Next]_status
  BY LifeStep
<1>3. QED
  BY <1>1, <1>2, LifeInvariance, PTL
  DEF Spec, FollowsLifecycle, StepsFollowLifecycle, Lifecycle!Spec
-----------------------------------------------------------------------------
(* What InvoicesProofs shows of the invoice handlers stays true beside the *)
(* payments: a handler of Stripe's events writes a status, never a total,  *)
(* and paid contradicts nothing that was announced.                        *)
LEMMA OtherStepsAreQuiet ==
  ASSUME LifeInv, PaymentNext
  PROVE  /\ UNCHANGED <<owed, fired>>
         /\ UNCHANGED invoice \/ \E w \in Worker : WriteInvoice(w)
<1>1. CASE \E p \in Payment : CheckoutStep(p) \/ Charge(p) \/ Decline(p)
  BY <1>1
  DEF CheckoutStep, StartPay, ReserveKey, LoadInvoice, InsertPayment, CreateSession,
      RecordSession, StoreResult, CheckoutFails, Charge, Decline, otherInvoiceVars
<1>2. CASE \/ \E k \in Key : ExpireKey(k)
           \/ \E e \in Event : DeliverAgain(e)
           \/ \E e \in Event, w \in Worker : Deliver(w, e)
  BY <1>2 DEF ExpireKey, DeliverAgain, Deliver, otherInvoiceVars
<1>3. CASE \E w \in Worker : HandlerStep(w) \/ HandlerFails(w)
  BY <1>3
  DEF HandlerStep, HandlerFails, HandleCompleted, RecordOutcome, Announce,
      ReadTotals, WriteInvoice, AnnouncePaid, otherInvoiceVars
<1>4. CASE \E r \in Refund : RefundStep(r)
  BY <1>4
  DEF RefundStep, StartRefund, CallRefund, WriteRefund, RefundFails, otherInvoiceVars
<1>5. QED
  BY <1>1, <1>2, <1>3, <1>4 DEF PaymentNext

LEMMA InvoiceFactsStep ==
  ASSUME LifeInv, AnnouncedOnceAndTrue, [Next]_vars
  PROVE  AnnouncedOnceAndTrue' /\ InvoicesKept
<1>0. InvoiceTypeOK /\ LockedIsDraft
  BY DEF LifeInv, PInv, PaymentTypeOK
<1>1. CASE InvoiceNext
  BY <1>0, <1>1, StepAnnounced, InvoiceHandlersKeep
<1>2. CASE PaymentNext
  <2>1. UNCHANGED <<owed, fired>>
    BY <1>2, OtherStepsAreQuiet
  <2>2. CASE UNCHANGED invoice
    BY <1>0, <2>1, <2>2, QuietStep DEF InvoicesKept, Out
  <2>3. ASSUME NEW w \in Worker, WriteInvoice(w)
        PROVE  AnnouncedOnceAndTrue' /\ InvoicesKept
    <3>1. PICK n \in Invoice :
            Out(n) /\ invoice' = [invoice EXCEPT ![n].status = "paid"]
      BY <2>3, WriteInvoiceEffects
    <3>2. /\ invoice'[n].status = "paid" /\ invoice'[n].total = invoice[n].total
          /\ \A i \in Invoice \ {n} : invoice'[i] = invoice[i]
      BY <1>0, <3>1 DEF InvoiceTypeOK, Row
    <3>3. \A i \in Invoice, e \in InvoiceEvent :
            invoice[i].status \in After(e) => invoice'[i].status \in After(e)
      BY <3>2 DEF After, InvoiceEvent, Status
    <3>4. InvoicesKept
      BY <3>1, <3>2 DEF InvoicesKept, Out
    <3>5. QED
      BY <1>0, <2>1, <3>3, <3>4, QuietStep
  <2>4. QED
    BY <1>2, <2>2, <2>3, OtherStepsAreQuiet
<1>3. CASE UNCHANGED vars
  BY <1>0, <1>3, QuietStep DEF vars, invoiceVars, InvoicesKept, Out
<1>4. QED
  BY <1>1, <1>2, <1>3 DEF Next

(* No outbound invoice event is announced twice or before its transition,  *)
(* with the payments at work too.                                          *)
THEOREM PaymentsAnnounceTruly == Spec => []AnnouncedOnceAndTrue
<1>1. Init => AnnouncedOnceAndTrue
  BY InitInvariant DEF Init, IInv
<1>2. LifeInv /\ AnnouncedOnceAndTrue /\ [Next]_vars => AnnouncedOnceAndTrue'
  BY InvoiceFactsStep
<1>3. QED
  BY <1>1, <1>2, LifeInvariance, PTL DEF Spec

(* Nor does any payment step change the total of an invoice that is out,   *)
(* which is what lets a checkout remember it.                              *)
THEOREM PaymentsKeepTotals == Spec => TotalFrozenOnceSent
<1> DEFINE A == \A i \in Invoice :
                  invoice[i].status \notin {"absent", "draft"}
                    => invoice'[i].total = invoice[i].total
<1>1. LifeInv /\ AnnouncedOnceAndTrue /\ [Next]_vars => [A]_invoiceVars
  BY InvoiceFactsStep DEF InvoicesKept, Out
<1>2. QED
  BY <1>1, LifeInvariance, PaymentsAnnounceTruly, PTL DEF Spec, TotalFrozenOnceSent
-----------------------------------------------------------------------------
(* invoice.paid exactly once.  The doc of transition_invoice_for_payment   *)
(* promises it and the code breaks it, as a run shows; what it lacks is    *)
(* exactly a lock from the SELECT to the UPDATE, which would keep two      *)
(* handlers from being between the two for one invoice.                    *)
Billed(w) == payment[worker[w].ev.pay].inv
Writing(w) == worker[w].pc = "write"
Flipped(w) == worker[w].pc = "flipped"
IsPaid(i) == invoice[i].status = "paid"

WritersApart ==
  \A v, w \in Worker : Writing(v) /\ Writing(w) /\ Billed(v) = Billed(w) => v = w

(* The one who has flipped an invoice is alone in that, until it says so.  *)
NoticedOnce(i) == paidNotices[i] <= 1 /\ (paidNotices[i] > 0 => IsPaid(i))
WriterFits(w) == Writing(w) /\ ~worker[w].wasPaid => ~IsPaid(Billed(w))
FlipperFits(w) == Flipped(w) => IsPaid(Billed(w)) /\ paidNotices[Billed(w)] = 0
FlippersApart ==
  \A v, w \in Worker : Flipped(v) /\ Flipped(w) /\ Billed(v) = Billed(w) => v = w

OnceInv ==
  /\ \A i \in Invoice : NoticedOnce(i)
  /\ \A w \in Worker : WriterFits(w) /\ FlipperFits(w)
  /\ FlippersApart

(* A handler that far is about a charge that was made, ... *)
LEMMA BusyFacts ==
  ASSUME PInv, NEW w \in Worker, worker[w].pc \in {"read", "write", "flipped"}
  PROVE  worker[w].ev.pay \in Payment /\ Charged(worker[w].ev.pay) /\ Billed(w) \in Invoice
<1> USE DEF PInv
<1>1. /\ worker[w].ev \in Event /\ worker[w].ev.type = "succeeded"
      /\ event[worker[w].ev] \notin Fresh
  BY DEF EventInv, WorkerFits, HandlerFits, Live, PaymentTypeOK, WorkerRow
<1>2. PICK p \in Payment : p = worker[w].ev.pay /\ worker[w].ev = Ev("succeeded", p)
  BY <1>1, EvFacts
<1>3. Charged(p)
  BY <1>1, <1>2 DEF EventInv, ChargeFits, Fresh
<1>4. payment[p].inv \in Invoice
  BY DEF PaymentTypeOK, PaymentRow
<1>5. QED
  BY <1>2, <1>3, <1>4 DEF Billed

(* ... whose row keeps its invoice. *)
LEMMA ChargesStay ==
  ASSUME PInv, [Next]_vars
  PROVE  ChargesKept
<1> USE DEF PInv
<1>1. ASSUME UNCHANGED <<payment, stripe>> PROVE ChargesKept
  BY <1>1 DEF ChargesKept, Charged
<1>2. CASE InvoiceNext /\ UNCHANGED paymentVars
  BY <1>1, <1>2 DEF paymentVars
<1>3. CASE \E p \in Payment : CheckoutStep(p) \/ Charge(p) \/ Decline(p)
  BY <1>3, CheckoutEffects, StripeEffects
<1>4. CASE \E k \in Key : ExpireKey(k)
  BY <1>1, <1>4 DEF ExpireKey
<1>5. CASE \E e \in Event : DeliverAgain(e) \/ \E w \in Worker : Deliver(w, e)
  BY <1>5, DeliveryEffects
<1>6. CASE \E w \in Worker : HandlerStep(w) \/ HandlerFails(w)
  BY <1>6, HandlerEffects
<1>7. CASE \E r \in Refund : RefundStep(r)
  BY <1>7, RefundEffects, PaymentTypesStep
<1>8. CASE UNCHANGED vars
  BY <1>1, <1>8 DEF vars, paymentVars
<1>9. QED
  BY <1>2, <1>3, <1>4, <1>5, <1>6, <1>7, <1>8 DEF Next, PaymentNext

LEMMA BilledStays ==
  ASSUME PInv, [Next]_vars, NEW w \in Worker,
         worker[w].pc \in {"read", "write", "flipped"}, worker'[w].ev = worker[w].ev
  PROVE  Billed(w)' = Billed(w)
  BY BusyFacts, ChargesStay DEF ChargesKept, Billed

(* No edge of the flow leaves paid. *)
LEMMA PaidStays ==
  ASSUME LifeInv, [Next]_vars, NEW i \in Invoice, IsPaid(i)
  PROVE  IsPaid(i)'
<1> DEFINE status == [j \in Invoice |-> invoice[j].status]
<1>0. [Lifecycle!Next]_status
  BY LifeStep
<1>1. status[i] = "paid"
  BY DEF IsPaid
<1>2. CASE Lifecycle!Lapse
  <2>1. PICK S \in SUBSET {j \in Invoice : status[j] \in {"sent", "viewed"}} :
          status' = [j \in Invoice |-> IF j \in S THEN "overdue" ELSE status[j]]
    BY <1>2 DEF Lifecycle!Lapse
  <2>2. i \notin S
    BY <1>1
  <2>3. status'[i] = "paid"
    BY <1>1, <2>1, <2>2
  <2>4. QED
    BY <2>3 DEF IsPaid
<1>3. ASSUME NEW n \in Invoice, Lifecycle!Move(n) PROVE IsPaid(i)'
  <2>1. PICK to \in Lifecycle!Flow[status[n]] : status' = [status EXCEPT ![n] = to]
    BY <1>3 DEF Lifecycle!Move
  <2>2. n # i
    BY <1>1, <2>1 DEF Lifecycle!Flow
  <2>3. status'[i] = "paid"
    BY <1>1, <2>1, <2>2
  <2>4. QED
    BY <2>3 DEF IsPaid
<1>4. CASE UNCHANGED status
  <2>1. status'[i] = "paid"
    BY <1>1, <1>4
  <2>2. QED
    BY <2>1 DEF IsPaid
<1>5. QED
  BY <1>0, <1>2, <1>3, <1>4 DEF Lifecycle!Next

(* A step that pays no invoice and brings no handler to its UPDATE or past *)
(* it changes nothing of this.                                             *)
LEMMA OnceFrame ==
  ASSUME LifeInv, [Next]_vars, OnceInv, UNCHANGED paidNotices,
         \A i \in Invoice : IsPaid(i)' => IsPaid(i),
         \A v \in Worker : Writing(v)' \/ Flipped(v)' => worker'[v] = worker[v]
  PROVE  OnceInv'
<1> USE DEF LifeInv
<1>1. ASSUME NEW i \in Invoice PROVE NoticedOnce(i)'
  BY PaidStays DEF OnceInv, NoticedOnce
<1>2. ASSUME NEW v \in Worker, Writing(v)' \/ Flipped(v)'
      PROVE  /\ Writing(v)' <=> Writing(v)
             /\ Flipped(v)' <=> Flipped(v)
             /\ Billed(v)' = Billed(v) /\ Billed(v) \in Invoice
  <2>1. worker'[v] = worker[v] /\ worker[v].pc \in {"write", "flipped"}
    BY <1>2 DEF Writing, Flipped
  <2>2. QED
    BY <2>1, BilledStays, BusyFacts DEF Writing, Flipped
<1>3. ASSUME NEW v \in Worker PROVE WriterFits(v)'
  <2>1. SUFFICES ASSUME Writing(v)', ~worker'[v].wasPaid PROVE ~IsPaid(Billed(v))'
    BY DEF WriterFits
  <2>2. ~IsPaid(Billed(v))
    BY <1>2, <2>1 DEF OnceInv, WriterFits
  <2>3. QED
    BY <1>2, <2>1, <2>2 DEF IsPaid
<1>4. ASSUME NEW v \in Worker PROVE FlipperFits(v)'
  <2>1. SUFFICES ASSUME Flipped(v)'
                 PROVE  (IsPaid(Billed(v)) /\ paidNotices[Billed(v)] = 0)'
    BY DEF FlipperFits
  <2>2. PICK n \in Invoice : n = Billed(v) /\ Billed(v)' = n
    BY <1>2, <2>1
  <2>3. IsPaid(n) /\ paidNotices[n] = 0
    BY <1>2, <2>1, <2>2 DEF OnceInv, FlipperFits
  <2>4. IsPaid(n)'
    BY <2>3, PaidStays
  <2>5. QED
    BY <2>2, <2>3, <2>4 DEF IsPaid
<1>5. FlippersApart'
  BY <1>2 DEF OnceInv, FlippersApart
<1>6. QED
  BY <1>1, <1>3, <1>4, <1>5 DEF OnceInv

(* The other handlers of Stripe's events as one of them takes a step that  *)
(* writes no payment: they stay where they are, about the same invoice.    *)
LEMMA OthersStay ==
  ASSUME LifeInv, NEW w \in Worker, UNCHANGED payment,
         \A v \in Worker \ {w} : worker'[v] = worker[v]
  PROVE  \A v \in Worker \ {w} :
           /\ Writing(v)' <=> Writing(v)
           /\ Flipped(v)' <=> Flipped(v)
           /\ worker'[v].wasPaid = worker[v].wasPaid
           /\ Billed(v)' = Billed(v)
  BY DEF Writing, Flipped, Billed

(* The SELECT sees whether the invoice is paid. *)
LEMMA OnceReads ==
  ASSUME LifeInv, [Next]_vars, OnceInv, NEW w \in Worker, ReadTotals(w)
  PROVE  OnceInv'
<1> USE DEF LifeInv, PInv
<1>1. UNCHANGED <<invoice, payment, paidNotices>>
  BY DEF ReadTotals, noticeVars
<1>2. CASE Finish(w)
  <2>1. \A v \in Worker \ {w} : worker'[v] = worker[v]
    BY <1>2, FinishEnds
  <2>2. ~Writing(w)' /\ ~Flipped(w)'
    BY <1>2, FinishEnds DEF Live, Writing, Flipped, Finish, Idle, PaymentTypeOK
  <2>3. QED
    BY <1>1, <2>1, <2>2, OnceFrame DEF IsPaid
<1>3. CASE ~Finish(w)
  <2>1. PICK n \in Invoice : n = Billed(w)
    BY BusyFacts DEF ReadTotals
  <2>2. PICK was \in BOOLEAN, new \in {"paid", "partially_paid"} :
          /\ was = (invoice[n].status = "paid")
          /\ worker' = [worker EXCEPT ![w].pc = "write", ![w].wasPaid = was,
                                      ![w].new = new]
    BY <1>3, <2>1, Zenon DEF ReadTotals, Billed, NewStatus
  <2>3. PICK a : a = [worker[w] EXCEPT !.pc = "write"]
    OBVIOUS
  <2>4. PICK b : b = [a EXCEPT !.wasPaid = was]
    OBVIOUS
  <2>5. PICK c : c = [b EXCEPT !.new = new]
    BY Zenon
  <2>6. worker[w] \in WorkerRow
    BY DEF PaymentTypeOK
  <2>7. c.pc = "write" /\ c.ev = worker[w].ev /\ c.wasPaid = was
    BY ONLY <2>3, <2>4, <2>5, <2>6 DEF WorkerRow
  <2>8. worker' = [worker EXCEPT ![w] = c]
    BY <2>2, <2>3, <2>4, <2>5, Zenon
  <2>9. worker'[w] = c /\ \A v \in Worker \ {w} : worker'[v] = worker[v]
    BY <2>8 DEF PaymentTypeOK
  <2>10. Writing(w)' /\ ~Flipped(w)' /\ Billed(w)' = n /\ worker'[w].wasPaid = IsPaid(n)
    BY <1>1, <2>1, <2>2, <2>7, <2>9, Zenon DEF Writing, Flipped, Billed, IsPaid
  <2>11. \A i \in Invoice : IsPaid(i)' <=> IsPaid(i)
    BY <1>1 DEF IsPaid
  <2>12. \A i \in Invoice : NoticedOnce(i)'
    BY <1>1, <2>11 DEF OnceInv, NoticedOnce
  <2>13. WriterFits(w)' /\ FlipperFits(w)'
    BY <2>10, <2>11 DEF WriterFits, FlipperFits, IsPaid
  <2>14. ASSUME NEW v \in Worker \ {w} PROVE WriterFits(v)' /\ FlipperFits(v)'
    BY <1>1, <2>9, OthersStay DEF OnceInv, WriterFits, FlipperFits, IsPaid
  <2>15. FlippersApart'
    BY <1>1, <2>9, <2>10, OthersStay DEF OnceInv, FlippersApart
  <2>16. QED
    BY <2>12, <2>13, <2>14, <2>15 DEF OnceInv
<1>4. QED
  BY <1>2, <1>3

(* The UPDATE: nobody else has read the invoice and not yet written it, so *)
(* one that was not paid when read still is not, and is flipped once.      *)
LEMMA OnceWrites ==
  ASSUME LifeInv, WritersApart, [Next]_vars, OnceInv, NEW w \in Worker, WriteInvoice(w)
  PROVE  OnceInv'
<1> USE DEF LifeInv, PInv
<1>1. UNCHANGED <<payment, paidNotices>> /\ Writing(w)
  BY DEF WriteInvoice, noticeVars, Writing
<1>2. PICK n \in Invoice : n = Billed(w)
  BY <1>1, BusyFacts DEF Writing
<1>3. invoice' = [invoice EXCEPT ![n].status = "paid"]
  <2>1. worker[w].new = "paid"
    BY <1>1 DEF WritesPaid, Writing
  <2>2. QED
    BY <1>2, <2>1, Zenon DEF WriteInvoice, Billed
<1>4. IsPaid(n)' /\ \A i \in Invoice \ {n} : IsPaid(i)' <=> IsPaid(i)
  <2>1. invoice \in [Invoice -> Row]
    BY DEF PaymentTypeOK, InvoiceTypeOK
  <2>2. QED
    BY ONLY <1>3, <2>1 DEF IsPaid, Row
<1>5. \A v \in Worker \ {w} : worker'[v] = worker[v]
  BY FinishEnds DEF WriteInvoice, PaymentTypeOK
<1>6. /\ ~Writing(w)'
      /\ Flipped(w)' => ~worker[w].wasPaid /\ Billed(w)' = n
  <2>1. CASE Finish(w)
    BY <2>1, FinishEnds DEF Live, Writing, Flipped, Finish, Idle, PaymentTypeOK
  <2>2. CASE ~worker[w].wasPaid /\ worker' = [worker EXCEPT ![w].pc = "flipped"]
    <3>1. worker'[w].pc = "flipped" /\ worker'[w].ev = worker[w].ev
      BY <2>2 DEF PaymentTypeOK, WorkerRow
    <3>2. QED
      BY <1>1, <1>2, <2>2, <3>1 DEF Writing, Billed
  <2>3. QED
    BY <2>1, <2>2 DEF WriteInvoice
<1>7. Flipped(w)' => ~IsPaid(n) /\ paidNotices[n] = 0
  BY <1>1, <1>2, <1>6 DEF OnceInv, WriterFits, NoticedOnce, PaymentTypeOK
<1>8. \A i \in Invoice : NoticedOnce(i)'
  BY <1>1, <1>4 DEF OnceInv, NoticedOnce
<1>9. WriterFits(w)' /\ FlipperFits(w)'
  BY <1>1, <1>4, <1>6, <1>7 DEF WriterFits, FlipperFits, IsPaid
<1>10. ASSUME NEW v \in Worker \ {w} PROVE WriterFits(v)' /\ FlipperFits(v)'
  <2>1. /\ Writing(v)' <=> Writing(v)
        /\ Flipped(v)' <=> Flipped(v)
        /\ worker'[v].wasPaid = worker[v].wasPaid
        /\ Billed(v)' = Billed(v)
    BY <1>1, <1>5, OthersStay
  <2>2. ASSUME Writing(v)', ~worker'[v].wasPaid PROVE ~IsPaid(Billed(v))'
    <3>1. PICK m \in Invoice \ {n} : m = Billed(v)
      BY <1>1, <1>2, <2>1, <2>2, BusyFacts DEF WritersApart, Writing
    <3>2. ~IsPaid(m)
      BY <2>1, <2>2, <3>1 DEF OnceInv, WriterFits
    <3>3. QED
      BY <1>4, <2>1, <3>1, <3>2 DEF IsPaid
  <2>3. ASSUME Flipped(v)' PROVE (IsPaid(Billed(v)) /\ paidNotices[Billed(v)] = 0)'
    <3>1. PICK m \in Invoice : m = Billed(v)
      BY <2>1, <2>3, BusyFacts DEF Flipped
    <3>2. IsPaid(m) /\ paidNotices[m] = 0
      BY <2>1, <2>3, <3>1 DEF OnceInv, FlipperFits
    <3>3. IsPaid(m)'
      BY <1>4, <3>2
    <3>4. QED
      BY <1>1, <2>1, <3>1, <3>2, <3>3 DEF IsPaid
  <2>4. QED
    BY <2>2, <2>3 DEF WriterFits, FlipperFits
<1>11. FlippersApart'
  <2>1. ASSUME Flipped(w)', NEW v \in Worker \ {w}, Flipped(v)
        PROVE  Billed(v) # n
    BY <1>7, <2>1 DEF OnceInv, FlipperFits
  <2>2. QED
    BY <1>1, <1>5, <1>6, <2>1, OthersStay DEF OnceInv, FlippersApart
<1>12. QED
  BY <1>8, <1>9, <1>10, <1>11 DEF OnceInv

(* The notice is the first, and the one who gave it is done. *)
LEMMA OnceNotices ==
  ASSUME LifeInv, [Next]_vars, OnceInv, NEW w \in Worker, AnnouncePaid(w)
  PROVE  OnceInv'
<1> USE DEF LifeInv, PInv
<1>1. UNCHANGED <<invoice, payment>> /\ Flipped(w) /\ Finish(w)
  BY DEF AnnouncePaid, Flipped
<1>2. PICK n \in Invoice : n = Billed(w)
  BY <1>1, BusyFacts DEF Flipped
<1>3. IsPaid(n) /\ paidNotices[n] = 0
  BY <1>1, <1>2 DEF OnceInv, FlipperFits
<1>4. paidNotices' = [paidNotices EXCEPT ![n] = @ + 1]
  BY <1>2, Zenon DEF AnnouncePaid, Billed
<1>5. paidNotices'[n] = 1 /\ \A i \in Invoice \ {n} : paidNotices'[i] = paidNotices[i]
  BY <1>3, <1>4 DEF PaymentTypeOK
<1>6. \A v \in Worker \ {w} : worker'[v] = worker[v]
  BY <1>1, FinishEnds
<1>7. ~Writing(w)' /\ ~Flipped(w)'
  BY <1>1, FinishEnds DEF Writing, Flipped, Finish, Idle, PaymentTypeOK
<1>8. ASSUME NEW i \in Invoice PROVE NoticedOnce(i)'
  BY <1>1, <1>3, <1>5 DEF OnceInv, NoticedOnce, IsPaid
<1>9. WriterFits(w)' /\ FlipperFits(w)'
  BY <1>7 DEF WriterFits, FlipperFits
<1>10. ASSUME NEW v \in Worker \ {w} PROVE WriterFits(v)' /\ FlipperFits(v)'
  <2>1. /\ Writing(v)' <=> Writing(v)
        /\ Flipped(v)' <=> Flipped(v)
        /\ worker'[v].wasPaid = worker[v].wasPaid
        /\ Billed(v)' = Billed(v)
    BY <1>1, <1>6, OthersStay
  <2>2. Flipped(v) => Billed(v) \in Invoice \ {n}
    BY <1>1, <1>2, BusyFacts DEF OnceInv, FlippersApart, Flipped
  <2>3. QED
    BY <1>1, <1>5, <2>1, <2>2 DEF OnceInv, WriterFits, FlipperFits, IsPaid
<1>11. FlippersApart'
  BY <1>1, <1>6, <1>7, OthersStay DEF OnceInv, FlippersApart
<1>12. QED
  BY <1>8, <1>9, <1>10, <1>11 DEF OnceInv

LEMMA OnceStep ==
  ASSUME LifeInv, WritersApart, OnceInv, [Next]_vars
  PROVE  OnceInv'
<1> USE DEF LifeInv, PInv
<1>1. ASSUME UNCHANGED <<invoice, worker, paidNotices>> PROVE OnceInv'
  BY <1>1, OnceFrame DEF IsPaid
<1>2. CASE InvoiceNext /\ UNCHANGED paymentVars
  <2>1. \A i \in Invoice : IsPaid(i)' => IsPaid(i)
    BY <1>2, InvoiceHandlersKeep DEF PaymentTypeOK, IsPaid
  <2>2. UNCHANGED <<worker, paidNotices>>
    BY <1>2 DEF paymentVars, noticeVars
  <2>3. QED
    BY <2>1, <2>2, OnceFrame
<1>3. CASE \E p \in Payment : CheckoutStep(p) \/ Charge(p) \/ Decline(p)
  <2>1. UNCHANGED <<invoice, worker, paidNotices>>
    BY <1>3
    DEF CheckoutStep, StartPay, ReserveKey, LoadInvoice, InsertPayment, CreateSession,
        RecordSession, StoreResult, CheckoutFails, Charge, Decline, noticeVars
  <2>2. QED
    BY <1>1, <2>1
<1>4. CASE \/ \E k \in Key : ExpireKey(k)
           \/ \E e \in Event : DeliverAgain(e)
           \/ \E r \in Refund : RefundStep(r)
  <2>1. UNCHANGED <<invoice, worker, paidNotices>>
    BY <1>4
    DEF ExpireKey, DeliverAgain, RefundStep, StartRefund, CallRefund, WriteRefund,
        RefundFails, noticeVars
  <2>2. QED
    BY <1>1, <2>1
<1>5. ASSUME NEW e \in Event, NEW w \in Worker, Deliver(w, e) PROVE OnceInv'
  <2>1. PICK row : row = [Idle EXCEPT !.pc = "handle", !.ev = e]
    OBVIOUS
  <2>2. row.pc = "handle"
    BY <2>1 DEF Idle
  <2>3. worker' = [worker EXCEPT ![w] = row] /\ UNCHANGED <<invoice, paidNotices>>
    BY <1>5, <2>1, Zenon DEF Deliver, noticeVars
  <2>4. \A v \in Worker : Writing(v)' \/ Flipped(v)' => worker'[v] = worker[v]
    BY <2>2, <2>3 DEF Writing, Flipped, PaymentTypeOK
  <2>5. QED
    BY <2>3, <2>4, OnceFrame DEF IsPaid
<1>6. ASSUME NEW w \in Worker, HandlerStep(w) \/ HandlerFails(w) PROVE OnceInv'
  <2>1. CASE ReadTotals(w) \/ WriteInvoice(w) \/ AnnouncePaid(w)
    BY <2>1, OnceReads, OnceWrites, OnceNotices
  <2>2. CASE HandleCompleted(w) \/ RecordOutcome(w) \/ Announce(w) \/ HandlerFails(w)
    <3>1. UNCHANGED <<invoice, paidNotices>>
      BY <2>2 DEF HandleCompleted, RecordOutcome, Announce, HandlerFails, noticeVars
    <3>2. \/ worker' = [worker EXCEPT ![w] = Idle]
          \/ \E pc \in {"announce", "read"} : worker' = [worker EXCEPT ![w].pc = pc]
      BY <2>2, Zenon DEF HandleCompleted, RecordOutcome, Announce, HandlerFails, Finish
    <3>3. worker'[w].pc \in {"idle", "announce", "read"}
      BY <3>2 DEF PaymentTypeOK, WorkerRow, Idle
    <3>4. \A v \in Worker \ {w} : worker'[v] = worker[v]
      BY <3>2 DEF PaymentTypeOK
    <3>5. QED
      BY <3>1, <3>3, <3>4, OnceFrame DEF IsPaid, Writing, Flipped
  <2>3. QED
    BY <1>6, <2>1, <2>2 DEF HandlerStep
<1>7. CASE UNCHANGED vars
  BY <1>1, <1>7 DEF vars, invoiceVars, paymentVars, noticeVars
<1>8. QED
  BY <1>2, <1>3, <1>4, <1>5, <1>6, <1>7 DEF Next, PaymentNext

(* The promise of transition_invoice_for_payment, under what it takes: if  *)
(* no two handlers are ever both between the SELECT and the UPDATE of one  *)
(* invoice, invoice.paid is announced at most once for it, in whatever     *)
(* order, how often and by how many handlers its events are handled.       *)
THEOREM NoticedOnceIfWritersApart ==
  Spec /\ []WritersApart => []InvoicePaidAnnouncedOnce
<1>1. Init => OnceInv
  BY DEF Init, PaymentInit, OnceInv, NoticedOnce, WriterFits, FlipperFits, FlippersApart,
         Writing, Flipped, Idle
<1>2. LifeInv /\ WritersApart /\ OnceInv /\ [Next]_vars => OnceInv'
  BY OnceStep
<1>3. OnceInv => InvoicePaidAnnouncedOnce
  BY Zenon DEF OnceInv, NoticedOnce, InvoicePaidAnnouncedOnce
<1>4. QED
  BY <1>1, <1>2, <1>3, LifeInvariance, PTL DEF Spec
-----------------------------------------------------------------------------
(* A charge that is recorded.  handle_payment_succeeded counts on          *)
(* handle_checkout_completed to have linked the intent to the row, and a   *)
(* run shows a charge lost when it is not so.  Stripe does not promise an  *)
(* order of delivery: this is what would be enough.                        *)
Completed(p) == Ev("checkout.completed", p)
Succeeded(p) == Ev("succeeded", p)

InOrder ==
  \A p \in Payment, w \in Worker :
    worker[w].pc = "handle" /\ worker[w].ev = Succeeded(p)
      => event[Completed(p)] = "handled"

Decided(p) == payment[p].status \notin {"absent", "pending"}
PastRow(w) == worker[w].pc \notin {"idle", "handle"}

ChargesHaveSession == \A p \in Payment : Charged(p) => payment[p].session
LinkFits(p) == event[Completed(p)] = "handled" => payment[p].intent
OutcomeKnown(p) == event[Succeeded(p)] = "handled" => Decided(p)
RowWritten(w) ==
  PastRow(w) => worker[w].ev.type # "checkout.completed" /\ Decided(worker[w].ev.pay)

OrderInv ==
  /\ ChargesHaveSession
  /\ \A p \in Payment : LinkFits(p) /\ OutcomeKnown(p)
  /\ \A w \in Worker : RowWritten(w)

(* What a step does to the rows: neither a link nor an outcome is undone,  *)
(* and the session of a charge stays in its row.                           *)
LEMMA RowsGoOn ==
  ASSUME PInv, [Next]_vars, NEW p \in Payment
  PROVE  /\ payment[p].intent => payment'[p].intent
         /\ Decided(p) => Decided(p)'
         /\ payment[p].session => payment'[p].session
<1> USE DEF PInv
<1> DEFINE GoesOn == /\ payment[p].intent => payment'[p].intent
                     /\ Decided(p) => Decided(p)'
                     /\ payment[p].session => payment'[p].session
<1>1. ASSUME UNCHANGED payment PROVE GoesOn
  BY <1>1 DEF Decided
<1>2. ASSUME NEW q \in Payment, CheckoutStep(q) PROVE GoesOn
  <2>1. CASE InsertPayment(q)
    <3>1. payment[q].status = "absent" /\ ~payment[q].session /\ ~payment[q].intent
      BY <2>1, RowFacts DEF InsertPayment, Early
    <3>2. q # p => payment'[p] = payment[p]
      BY <2>1 DEF InsertPayment, PaymentTypeOK
    <3>3. QED
      BY <3>1, <3>2 DEF Decided
  <2>2. CASE RecordSession(q)
    <3>1. payment' = [payment EXCEPT ![q].session = TRUE] /\ payment \in [Payment -> PaymentRow]
      BY <2>2 DEF RecordSession, PaymentTypeOK
    <3>2. QED
      BY <3>1 DEF PaymentRow, Decided
  <2>3. CASE UNCHANGED payment
    BY <1>1, <2>3
  <2>4. QED
    BY <1>2, <2>1, <2>2, <2>3
    DEF CheckoutStep, StartPay, ReserveKey, LoadInvoice, CreateSession, StoreResult,
        CheckoutFails
<1>3. ASSUME NEW w \in Worker, HandlerStep(w) \/ HandlerFails(w) PROVE GoesOn
  <2>1. RowsKept
    BY <1>3, HandlersKeep
  <2>2. payment'[p].status \in {payment[p].status, "failed", "succeeded"}
    BY <1>3, HandlerEffects
  <2>3. QED
    BY <2>1, <2>2 DEF RowsKept, Decided
<1>4. ASSUME NEW r \in Refund, RefundStep(r) PROVE GoesOn
  <2>1. RowsKept
    BY <1>4, RefundEffects, PaymentTypesStep
  <2>2. payment'[p].status \in {payment[p].status, "refunded", "partially_refunded"}
    <3>1. CASE WriteRefund(r)
      <4>1. PICK q \in Payment, s \in {"refunded", "partially_refunded"} :
              payment' = [payment EXCEPT ![q].status = s]
        <5>1. refund[r].pay \in Payment
          BY DEF PaymentTypeOK, RefundRow
        <5>2. QED
          BY <3>1, <5>1, Zenon DEF WriteRefund
      <4>2. payment \in [Payment -> PaymentRow]
        BY DEF PaymentTypeOK
      <4>3. QED
        BY ONLY <4>1, <4>2 DEF PaymentRow
    <3>2. CASE UNCHANGED payment
      BY <3>2
    <3>3. QED
      BY <1>4, <3>1, <3>2 DEF RefundStep, StartRefund, CallRefund, RefundFails
  <2>3. QED
    BY <2>1, <2>2 DEF RowsKept, Decided
<1>5. \/ UNCHANGED payment
      \/ \E q \in Payment : CheckoutStep(q)
      \/ \E w \in Worker : HandlerStep(w) \/ HandlerFails(w)
      \/ \E r \in Refund : RefundStep(r)
  BY Zenon DEF Next, PaymentNext, paymentVars, vars, Charge, Decline, ExpireKey, DeliverAgain,
         Deliver
<1>6. QED
  BY <1>1, <1>2, <1>3, <1>4, <1>5

(* Only a finished request shows its page, and it has recorded its session.*)
LEMMA SessionsStay ==
  ASSUME PInv, ChargesHaveSession, [Next]_vars
  PROVE  ChargesHaveSession'
<1> USE DEF PInv
<1>1. ASSUME NEW p \in Payment, Charged(p)' PROVE payment'[p].session
  <2>1. CASE Charged(p)
    BY <2>1, RowsGoOn DEF ChargesHaveSession
  <2>2. CASE ~Charged(p)
    <3>1. Charge(p)
      <4>1. \/ UNCHANGED stripe
            \/ \E q \in Payment : CheckoutStep(q) \/ Charge(q)
            \/ \E r \in Refund : RefundStep(r)
        BY Zenon DEF Next, PaymentNext, paymentVars, vars, Decline, ExpireKey, DeliverAgain,
               Deliver, HandlerStep, HandlerFails, HandleCompleted, RecordOutcome,
               Announce, ReadTotals, WriteInvoice, AnnouncePaid
      <4>2. CASE UNCHANGED stripe
        BY <1>1, <2>2, <4>2 DEF Charged
      <4>3. ASSUME NEW q \in Payment, CheckoutStep(q) PROVE FALSE
        BY <1>1, <2>2, <4>3, CheckoutEffects
      <4>4. ASSUME NEW q \in Payment, Charge(q) PROVE Charge(p)
        BY <1>1, <2>2, <4>4, StripeEffects
      <4>5. ASSUME NEW r \in Refund, RefundStep(r) PROVE FALSE
        BY <1>1, <2>2, <4>5, RefundEffects, PaymentTypesStep DEF AllCharged
      <4>6. QED
        BY <4>1, <4>2, <4>3, <4>4, <4>5
    <3>2. checkout[p].pc = "done" /\ UNCHANGED payment
      BY <3>1 DEF Charge
    <3>3. QED
      BY <3>2 DEF CheckoutInv, RequestFits
  <2>3. QED
    BY <2>1, <2>2
<1>2. QED
  BY <1>1 DEF ChargesHaveSession

(* A step that handles no event and takes no handler past its row.         *)
LEMMA OrderFrame ==
  ASSUME PInv, OrderInv, [Next]_vars,
         \A e \in Event : event'[e] = "handled" => event[e] = "handled",
         \A w \in Worker : PastRow(w)' => worker'[w] = worker[w]
  PROVE  OrderInv'
<1> USE DEF PInv
<1>1. ChargesHaveSession'
  BY SessionsStay DEF OrderInv
<1>2. ASSUME NEW p \in Payment PROVE LinkFits(p)' /\ OutcomeKnown(p)'
  <2>1. Completed(p) \in Event /\ Succeeded(p) \in Event
    BY EvFacts DEF EventType, Completed, Succeeded
  <2>2. QED
    BY <2>1, RowsGoOn DEF OrderInv, LinkFits, OutcomeKnown
<1>3. ASSUME NEW w \in Worker PROVE RowWritten(w)'
  <2>1. worker[w].ev.pay \in Payment
    BY DEF PaymentTypeOK, WorkerRow, Event
  <2>2. SUFFICES ASSUME PastRow(w)'
                 PROVE  worker'[w].ev.type # "checkout.completed"
                        /\ Decided(worker[w].ev.pay)' /\ worker'[w].ev = worker[w].ev
    BY DEF RowWritten, Decided
  <2>3. worker'[w] = worker[w] /\ PastRow(w)
    BY <2>2 DEF PastRow
  <2>4. QED
    BY <2>1, <2>3, RowsGoOn DEF OrderInv, RowWritten
<1>4. QED
  BY <1>1, <1>2, <1>3 DEF OrderInv

(* What one handler has to see to: its own event and its own row.          *)
LEMMA OrderByHandler ==
  ASSUME PInv, OrderInv, [Next]_vars, NEW w \in Worker, NEW p \in Payment, NEW e \in Event,
         e = worker[w].ev, p = e.pay,
         \A v \in Worker \ {w} : worker'[v] = worker[v],
         \A f \in Event \ {e} : event'[f] = event[f],
         event'[e] = "handled" /\ event[e] # "handled" =>
           /\ e = Completed(p) => payment'[p].intent
           /\ e = Succeeded(p) => Decided(p)',
         PastRow(w)' =>
           worker'[w].ev = e /\ e.type # "checkout.completed" /\ Decided(p)'
  PROVE  OrderInv'
<1> USE DEF PInv
<1>1. ChargesHaveSession'
  BY SessionsStay DEF OrderInv
<1>2. ASSUME NEW q \in Payment PROVE LinkFits(q)' /\ OutcomeKnown(q)'
  <2>1. Completed(q) \in Event /\ Succeeded(q) \in Event
    BY EvFacts DEF EventType, Completed, Succeeded
  <2>2. (e = Completed(q) \/ e = Succeeded(q)) => q = p
    BY DEF Completed, Succeeded, Ev
  <2>3. LinkFits(q) /\ OutcomeKnown(q)
    BY DEF OrderInv
  <2>4. LinkFits(q)'
    BY <2>1, <2>2, <2>3, RowsGoOn DEF LinkFits, Completed
  <2>5. OutcomeKnown(q)'
    BY <2>1, <2>2, <2>3, RowsGoOn DEF OutcomeKnown, Succeeded
  <2>6. QED
    BY <2>4, <2>5
<1>3. ASSUME NEW v \in Worker \ {w} PROVE RowWritten(v)'
  <2>1. worker[v].ev.pay \in Payment
    BY DEF PaymentTypeOK, WorkerRow, Event
  <2>2. worker'[v] = worker[v] /\ RowWritten(v)
    BY DEF OrderInv
  <2>3. Decided(worker[v].ev.pay) => Decided(worker[v].ev.pay)'
    BY <2>1, RowsGoOn
  <2>4. QED
    BY <2>2, <2>3 DEF RowWritten, PastRow, Decided
<1>4. RowWritten(w)'
  BY DEF RowWritten, Decided
<1>5. QED
  BY <1>1, <1>2, <1>3, <1>4 DEF OrderInv

LEMMA OrderByHandlers ==
  ASSUME PInv, InOrder, OrderInv, [Next]_vars, NEW w \in Worker,
         HandlerStep(w) \/ HandlerFails(w)
  PROVE  OrderInv'
<1> USE DEF PInv
<1>1. PICK e \in Event, p \in Payment : e = worker[w].ev /\ p = e.pay
  BY DEF PaymentTypeOK, WorkerRow, Event
<1>2. e = Ev(e.type, p)
  BY <1>1, EvFacts
<1>3. event[e] # "none" /\ (e.type \in {"checkout.completed", "succeeded"} => Charged(p))
  <2>1. event[e] \notin Fresh
    <3>1. Live(w)
      BY Zenon DEF Live, HandlerStep, HandlerFails, HandleCompleted, RecordOutcome,
                   Announce, ReadTotals, WriteInvoice, AnnouncePaid
    <3>2. QED
      BY <1>1, <3>1 DEF EventInv, WorkerFits, HandlerFits
  <2>2. QED
    BY <1>1, <1>2, <2>1 DEF EventInv, ChargeFits, Fresh
<1>4. CASE HandleCompleted(w)
  <2>1. Finish(w) /\ e.type = "checkout.completed"
    BY <1>1, <1>4 DEF HandleCompleted
  <2>2. PICK b \in BOOLEAN : b = (payment[p].intent \/ payment[p].session)
    OBVIOUS
  <2>3. payment' = [payment EXCEPT ![p].intent = b]
    BY <1>1, <1>4, <2>2, Zenon DEF HandleCompleted
  <2>4. b = TRUE
    BY <1>3, <2>1, <2>2 DEF OrderInv, ChargesHaveSession
  <2>5. payment'[p].intent
    BY <2>3, <2>4 DEF PaymentTypeOK, PaymentRow
  <2>6. ~PastRow(w)'
    BY <2>1, FinishEnds DEF Live, PastRow
  <2>7. e # Succeeded(p)
    BY <2>1 DEF Succeeded, Ev
  <2>8. QED
    BY <1>1, <2>1, <2>5, <2>6, <2>7, FinishEnds, OrderByHandler
<1>5. CASE RecordOutcome(w)
  <2>1. /\ worker[w].pc = "handle" /\ e.type \in {"succeeded", "payment_failed"}
    BY <1>1, <1>5 DEF RecordOutcome, StatusFor
  <2>2. e # Completed(p)
    BY <2>1 DEF Completed, Ev
  <2>3. CASE payment[p].intent
    <3>1. PICK s \in {"succeeded", "failed"} : payment' = [payment EXCEPT ![p].status = s]
      <4>1. StatusFor[e.type] \in {"succeeded", "failed"}
        BY <2>1 DEF StatusFor
      <4>2. QED
        BY <1>1, <1>5, <2>3, <4>1, Zenon DEF RecordOutcome
    <3>2. Decided(p)'
      BY <3>1 DEF PaymentTypeOK, PaymentRow, Decided
    <3>3. worker' = [worker EXCEPT ![w].pc = "announce"] /\ UNCHANGED event
      BY <1>1, <1>5, <2>3, Zenon DEF RecordOutcome
    <3>4. /\ \A v \in Worker \ {w} : worker'[v] = worker[v]
          /\ worker'[w].ev = e
      BY <1>1, <3>3 DEF PaymentTypeOK, WorkerRow
    <3>5. QED
      BY <1>1, <2>1, <2>2, <3>2, <3>3, <3>4, OrderByHandler
  <2>4. CASE ~payment[p].intent
    <3>1. Finish(w)
      BY <1>1, <1>5, <2>4, Zenon DEF RecordOutcome
    <3>2. e # Succeeded(p)
      BY <1>1, <2>1, <2>4 DEF InOrder, OrderInv, LinkFits
    <3>3. ~PastRow(w)'
      BY <3>1, FinishEnds DEF Live, PastRow
    <3>4. QED
      BY <1>1, <2>2, <3>1, <3>2, <3>3, FinishEnds, OrderByHandler
  <2>5. QED
    BY <2>3, <2>4
<1>6. CASE Announce(w) \/ ReadTotals(w) \/ WriteInvoice(w) \/ AnnouncePaid(w)
  <2>1. PastRow(w)
    BY <1>6, Zenon DEF Announce, ReadTotals, WriteInvoice, AnnouncePaid, PastRow
  <2>2. e.type # "checkout.completed" /\ Decided(p)
    BY <1>1, <2>1 DEF OrderInv, RowWritten
  <2>3. e # Completed(p)
    BY <2>2 DEF Completed, Ev
  <2>4. Decided(p)'
    BY <2>2, RowsGoOn
  <2>5. CASE Finish(w)
    <3>1. ~PastRow(w)'
      BY <2>5, FinishEnds DEF Live, PastRow
    <3>2. QED
      BY <1>1, <2>3, <2>4, <2>5, <3>1, FinishEnds, OrderByHandler
  <2>6. CASE ~Finish(w)
    <3>1. /\ \A v \in Worker \ {w} : worker'[v] = worker[v]
          /\ worker'[w].ev = e /\ UNCHANGED event
      <4>1. CASE ReadTotals(w)
        BY <1>1, <2>6, <4>1, ReadEffects
      <4>2. CASE Announce(w) \/ WriteInvoice(w) \/ AnnouncePaid(w)
        <5>1. PICK pc \in {"read", "flipped"} :
                worker' = [worker EXCEPT ![w].pc = pc] /\ UNCHANGED event
          BY <2>6, <4>2, Zenon DEF Announce, WriteInvoice, AnnouncePaid
        <5>2. QED
          BY <1>1, <5>1 DEF PaymentTypeOK, WorkerRow
      <4>3. QED
        BY <1>6, <4>1, <4>2
    <3>2. QED
      BY <1>1, <2>2, <2>4, <3>1, OrderByHandler
  <2>7. QED
    BY <2>5, <2>6
<1>7. CASE HandlerFails(w)
  <2>1. worker' = [worker EXCEPT ![w] = Idle] /\ UNCHANGED event
    BY <1>7 DEF HandlerFails
  <2>2. ~PastRow(w)' /\ \A v \in Worker \ {w} : worker'[v] = worker[v]
    BY <2>1 DEF PastRow, Idle, PaymentTypeOK
  <2>3. QED
    BY <1>1, <2>1, <2>2, OrderByHandler
<1>8. QED
  BY <1>4, <1>5, <1>6, <1>7 DEF HandlerStep

LEMMA OrderStep ==
  ASSUME PInv, InOrder, OrderInv, [Next]_vars
  PROVE  OrderInv'
<1> USE DEF PInv
<1>1. ASSUME UNCHANGED <<event, worker>> PROVE OrderInv'
  BY <1>1, OrderFrame
<1>2. CASE InvoiceNext /\ UNCHANGED paymentVars
  BY <1>1, <1>2 DEF paymentVars
<1>3. CASE \E p \in Payment : CheckoutStep(p)
  BY <1>1, <1>3, CheckoutEffects
<1>4. ASSUME NEW p \in Payment, Charge(p) \/ Decline(p) PROVE OrderInv'
  <2>1. PICK e \in Event, f \in Event :
          \/ event' = [event EXCEPT ![e] = "emitted", ![f] = "emitted"]
          \/ event' = [event EXCEPT ![e] = "emitted"]
    <3>1. \A t \in EventType : Ev(t, p) \in Event
      BY EvFacts
    <3>2. QED
      BY <1>4, <3>1, Zenon DEF Charge, Decline, EventType
  <2>2. \A g \in Event : event'[g] = "handled" => event[g] = "handled"
    <3>1. event \in [Event -> {"none", "emitted", "seen", "dropped", "handled"}]
      BY DEF PaymentTypeOK
    <3>2. QED
      BY ONLY <2>1, <3>1
  <2>3. UNCHANGED worker
    BY <1>4 DEF Charge, Decline
  <2>4. QED
    BY <2>2, <2>3, OrderFrame
<1>5. CASE \/ \E k \in Key : ExpireKey(k)
           \/ \E r \in Refund : RefundStep(r)
  BY <1>1, <1>5
  DEF ExpireKey, RefundStep, StartRefund, CallRefund, WriteRefund, RefundFails
<1>6. ASSUME NEW e \in Event, DeliverAgain(e) PROVE OrderInv'
  <2>1. event' = [event EXCEPT ![e] = "dropped"] /\ UNCHANGED worker
    BY <1>6 DEF DeliverAgain
  <2>2. \A g \in Event : event'[g] = "handled" => event[g] = "handled"
    BY <2>1 DEF PaymentTypeOK
  <2>3. QED
    BY <2>1, <2>2, OrderFrame
<1>7. ASSUME NEW e \in Event, NEW w \in Worker, Deliver(w, e) PROVE OrderInv'
  <2>1. PICK row : row = [Idle EXCEPT !.pc = "handle", !.ev = e]
    OBVIOUS
  <2>2. row.pc = "handle"
    BY <2>1 DEF Idle
  <2>3. worker' = [worker EXCEPT ![w] = row] /\ event' = [event EXCEPT ![e] = "seen"]
    BY <1>7, <2>1, Zenon DEF Deliver
  <2>4. \A v \in Worker : PastRow(v)' => worker'[v] = worker[v]
    BY <2>2, <2>3 DEF PastRow, PaymentTypeOK
  <2>5. \A g \in Event : event'[g] = "handled" => event[g] = "handled"
    BY <2>3 DEF PaymentTypeOK
  <2>6. QED
    BY <2>4, <2>5, OrderFrame
<1>8. ASSUME NEW w \in Worker, HandlerStep(w) \/ HandlerFails(w) PROVE OrderInv'
  BY <1>8, OrderByHandlers
<1>9. CASE UNCHANGED vars
  BY <1>1, <1>9 DEF vars, paymentVars
<1>10. QED
  BY <1>2, <1>3, <1>4, <1>5, <1>6, <1>7, <1>8, <1>9 DEF Next, PaymentNext

(* The two handlers do record every charge, whatever else happens, if that *)
(* of payment_intent.succeeded only ever starts once checkout.session.     *)
(* completed of the same charge has been handled.                          *)
THEOREM ChargesRecordedIfInOrder == Spec /\ []InOrder => []ChargeIsRecorded
<1>1. Init => OrderInv
  BY DEF Init, PaymentInit, OrderInv, ChargesHaveSession, Charged, LinkFits, OutcomeKnown,
         RowWritten, PastRow, Idle, Completed, Succeeded, Ev, Event, EventType
<1>2. PInv /\ InOrder /\ OrderInv /\ [Next]_vars => OrderInv'
  BY OrderStep
<1>3. OrderInv => ChargeIsRecorded
  BY DEF OrderInv, OutcomeKnown, Succeeded, Decided, ChargeIsRecorded
<1>4. QED
  BY <1>1, <1>2, <1>3, PaymentsInvariance, PTL DEF Spec
=============================================================================
