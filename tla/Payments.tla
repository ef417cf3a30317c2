------------------------------ MODULE Payments ------------------------------
(***************************************************************************)
(* Collecting an invoice through Stripe: the checkout handler with its     *)
(* Idempotency-Key cache, the refund handler and the Stripe webhook        *)
(* (src/modules/payment), running beside the invoice handlers and the      *)
(* overdue job of Invoices.                                                *)
(*                                                                         *)
(* Every await of a handler is a step boundary: a SQL statement, a Redis   *)
(* command and a call to Stripe are each one atomic step, and any number   *)
(* of other handlers may run in between.  A handler may fail at every      *)
(* boundary - database or Redis error, Stripe error or open breaker,       *)
(* dropped request, process exit - and what it wrote stays.                *)
(*                                                                         *)
(* Stripe is external: it creates sessions, charges or declines a card     *)
(* once the customer holds the session's URL, refunds, and delivers each   *)
(* event in any order, to any number of concurrent webhook requests, again *)
(* and again until one is answered 2xx.  Amounts are cents: the columns    *)
(* are NUMERIC(14,2), so `* 100, round()' is exact.                        *)
(***************************************************************************)
EXTENDS Invoices, FiniteSetsExt

CONSTANTS
  Payment,    \* payment rows, each with the POST /pay request that may insert it
  Key,        \* Idempotency-Key header values
  NoKey,      \* the header is absent
  Worker,     \* webhook requests that can be in progress at once
  Refund,     \* POST /refund requests that can be in progress at once
  Declined    \* payments whose card Stripe may decline once

ASSUME PaymentsAssumption == /\ Payment # {}
                             /\ NoKey \notin Key
                             /\ {"free", "in-flight"} \cap Payment = {}
                             /\ Declined \subseteq Payment

EventType == {"checkout.completed", "succeeded", "payment_failed"}
Event == [type : EventType, pay : Payment]
Ev(t, p) == [type |-> t, pay |-> p]

VARIABLES
  payment,      \* the rows; session and intent: is the Stripe id known
  checkout,     \* the POST /pay request of a payment: where it is, what it read
  idem,         \* idem:pay:{key}: free, in-flight, or the payment replied
  stripe,       \* at Stripe: the checkout session and the amount refunded
  event,        \* Stripe events and the dedup key stripe:event:{id}
  worker,       \* webhook requests in progress
  refund,       \* refund requests in progress
  announced,    \* history: payment.succeeded / payment.failed dispatched per event
  paidNotices   \* history: invoice.paid dispatched per invoice

requestVars == <<checkout, idem>>
noticeVars == <<announced, paidNotices>>
paymentVars == <<payment, requestVars, stripe, event, worker, refund, noticeVars>>
otherInvoiceVars == <<editing, email, owed, fired>>
vars == <<invoiceVars, paymentVars>>

PaymentStatus == {"absent", "pending", "succeeded", "failed", "refunded",
                  "partially_refunded"}
CheckoutPC == {"idle", "missed", "keyed", "loaded", "inserted", "created",
               "recorded", "done", "failed"}
WorkerPC == {"idle", "handle", "announce", "read", "write", "flipped"}

PaymentRow == [status : PaymentStatus, inv : Invoice, amount : Total,
               session : BOOLEAN, intent : BOOLEAN]
CheckoutRow == [pc : CheckoutPC, inv : Invoice, key : Key \cup {NoKey},
                total : Total]
StripeRow == [session : {"none", "open", "paid"}, refunded : Int]
WorkerRow == [pc : WorkerPC, ev : Event, wasPaid : BOOLEAN, new : Status]
RefundRow == [pc : {"idle", "ready", "called"}, pay : Payment, amount : Int]

PaymentTypeOK ==
  /\ InvoiceTypeOK
  /\ payment \in [Payment -> PaymentRow]
  /\ checkout \in [Payment -> CheckoutRow]
  /\ idem \in [Key -> {"free", "in-flight"} \cup Payment]
  /\ stripe \in [Payment -> StripeRow]
  /\ event \in [Event -> {"none", "emitted", "seen", "dropped", "handled"}]
  /\ worker \in [Worker -> WorkerRow]
  /\ refund \in [Refund -> RefundRow]
  /\ announced \in [Event -> Nat]
  /\ paidNotices \in [Invoice -> Nat]

AnyInvoice == CHOOSE i \in Invoice : TRUE
AnyTotal == CHOOSE t \in Total : TRUE
AnyPayment == CHOOSE p \in Payment : TRUE
NoCheckout == [pc |-> "idle", inv |-> AnyInvoice, key |-> NoKey,
               total |-> AnyTotal]
Idle == [pc |-> "idle", ev |-> Ev("succeeded", AnyPayment), wasPaid |-> FALSE,
         new |-> "paid"]
NoRefund == [pc |-> "idle", pay |-> AnyPayment, amount |-> 0]

PaymentInit ==
  /\ payment = [p \in Payment |-> [status |-> "absent", inv |-> AnyInvoice,
                                   amount |-> AnyTotal, session |-> FALSE,
                                   intent |-> FALSE]]
  /\ checkout = [p \in Payment |-> NoCheckout]
  /\ idem = [k \in Key |-> "free"]
  /\ stripe = [p \in Payment |-> [session |-> "none", refunded |-> 0]]
  /\ event = [e \in Event |-> "none"]
  /\ worker = [w \in Worker |-> Idle]
  /\ refund = [r \in Refund |-> NoRefund]
  /\ announced = [e \in Event |-> 0]
  /\ paidNotices = [i \in Invoice |-> 0]

-----------------------------------------------------------------------------
(* POST /invoices/{id}/pay *)

(* idempotency::check, GET: a key in flight (409) or answered (200 with    *)
(* the cached reply) ends the request and changes nothing.                 *)
StartPay(p, i, k) ==
  /\ checkout[p].pc = "idle"
  /\ k # NoKey => idem[k] = "free"
  /\ checkout' = [checkout EXCEPT
                    ![p] = [pc |-> IF k = NoKey THEN "keyed" ELSE "missed",
                            inv |-> i, key |-> k, total |-> AnyTotal]]
  /\ UNCHANGED <<invoice, otherInvoiceVars, payment, idem, stripe, event,
                 worker, refund, noticeVars>>

(* idempotency::check, SET NX: whether the key was taken is not looked at. *)
ReserveKey(p) ==
  LET k == checkout[p].key IN
  /\ checkout[p].pc = "missed"
  /\ idem' = [idem EXCEPT ![k] = IF @ = "free" THEN "in-flight" ELSE @]
  /\ checkout' = [checkout EXCEPT ![p].pc = "keyed"]
  /\ UNCHANGED <<invoice, otherInvoiceVars, payment, stripe, event, worker,
                 refund, noticeVars>>

(* Mutant: the status check of create_checkout lets drafts through. *)
PayableDraft == {"draft", "sent", "viewed", "overdue", "partially_paid"}

Payable == {"sent", "viewed", "overdue", "partially_paid"}

LoadInvoice(p) ==
  LET inv == invoice[checkout[p].inv] IN
  /\ checkout[p].pc = "keyed"
  /\ checkout' = [checkout EXCEPT
                    ![p] = IF inv.status \in Payable
                           THEN [@ EXCEPT !.pc = "loaded", !.total = inv.total]
                           ELSE NoCheckout]
  /\ UNCHANGED <<invoice, otherInvoiceVars, payment, idem, stripe, event,
                 worker, refund, noticeVars>>

InsertPayment(p) ==
  /\ checkout[p].pc = "loaded"
  /\ payment' = [payment EXCEPT
                   ![p] = [status |-> "pending", inv |-> checkout[p].inv,
                           amount |-> checkout[p].total, session |-> FALSE,
                           intent |-> FALSE]]
  /\ checkout' = [checkout EXCEPT ![p].pc = "inserted"]
  /\ UNCHANGED <<invoice, otherInvoiceVars, idem, stripe, event, worker, refund,
                 noticeVars>>

(* CheckoutSession::create behind the breaker; nothing to charge, no session. *)
CreateSession(p) ==
  /\ checkout[p].pc = "inserted"
  /\ payment[p].amount > 0
  /\ stripe' = [stripe EXCEPT ![p].session = "open"]
  /\ checkout' = [checkout EXCEPT ![p].pc = "created"]
  /\ UNCHANGED <<invoice, otherInvoiceVars, payment, idem, event, worker,
                 refund, noticeVars>>

RecordSession(p) ==
  /\ checkout[p].pc = "created"
  /\ payment' = [payment EXCEPT ![p].session = TRUE]
  /\ checkout' = [checkout EXCEPT
                    ![p].pc = IF checkout[p].key = NoKey THEN "done"
                                                         ELSE "recorded"]
  /\ UNCHANGED <<invoice, otherInvoiceVars, idem, stripe, event, worker, refund,
                 noticeVars>>

(* Mutant: the reply is cached before the session id is written. *)
StoreResultEarly(p) ==
  /\ checkout[p].pc = "created"
  /\ checkout[p].key # NoKey
  /\ idem' = [idem EXCEPT ![checkout[p].key] = p]
  /\ UNCHANGED <<invoice, otherInvoiceVars, payment, checkout, stripe, event,
                 worker, refund, noticeVars>>

StoreResult(p) ==
  /\ checkout[p].pc = "recorded"
  /\ idem' = [idem EXCEPT ![checkout[p].key] = p]
  /\ checkout' = [checkout EXCEPT ![p].pc = "done"]
  /\ UNCHANGED <<invoice, otherInvoiceVars, payment, stripe, event, worker,
                 refund, noticeVars>>

CheckoutFails(p) ==
  /\ checkout[p].pc \notin {"idle", "done", "failed"}
  /\ checkout' = [checkout EXCEPT
                    ![p] = IF payment[p].status = "absent"
                           THEN NoCheckout ELSE [@ EXCEPT !.pc = "failed"]]
  /\ UNCHANGED <<invoice, otherInvoiceVars, payment, idem, stripe, event,
                 worker, refund, noticeVars>>

(* The 24 h TTL of an idempotency key. *)
ExpireKey(k) ==
  /\ idem[k] # "free"
  /\ idem' = [idem EXCEPT ![k] = "free"]
  /\ UNCHANGED <<invoice, otherInvoiceVars, payment, checkout, stripe, event,
                 worker, refund, noticeVars>>

-----------------------------------------------------------------------------
(* Stripe (external): the customer pays, or is declined, on the page whose *)
(* URL the finished request returned.                                      *)
Charge(p) ==
  /\ checkout[p].pc = "done"
  /\ stripe[p].session = "open"
  /\ stripe' = [stripe EXCEPT ![p].session = "paid"]
  /\ event' = [event EXCEPT ![Ev("checkout.completed", p)] = "emitted",
                            ![Ev("succeeded", p)] = "emitted"]
  /\ UNCHANGED <<invoice, otherInvoiceVars, payment, requestVars, worker,
                 refund, noticeVars>>

Decline(p) ==
  /\ p \in Declined
  /\ checkout[p].pc = "done"
  /\ stripe[p].session = "open"
  /\ event[Ev("payment_failed", p)] = "none"
  /\ event' = [event EXCEPT ![Ev("payment_failed", p)] = "emitted"]
  /\ UNCHANGED <<invoice, otherInvoiceVars, payment, requestVars, stripe,
                 worker, refund, noticeVars>>

-----------------------------------------------------------------------------
(* POST /webhooks/stripe *)

(* Mutant: the answer of SET NX is not looked at. *)
DeliverUnchecked(w, e) ==
  /\ worker[w].pc = "idle"
  /\ event[e] # "none"
  /\ event' = [event EXCEPT ![e] = "seen"]
  /\ worker' = [worker EXCEPT ![w] = [Idle EXCEPT !.pc = "handle", !.ev = e]]
  /\ UNCHANGED <<invoice, otherInvoiceVars, payment, requestVars, stripe,
                 refund, noticeVars>>

(* SET NX of the dedup key, before anything is done about the event. *)
Deliver(w, e) ==
  /\ worker[w].pc = "idle"
  /\ event[e] = "emitted"
  /\ event' = [event EXCEPT ![e] = "seen"]
  /\ worker' = [worker EXCEPT ![w] = [Idle EXCEPT !.pc = "handle", !.ev = e]]
  /\ UNCHANGED <<invoice, otherInvoiceVars, payment, requestVars, stripe,
                 refund, noticeVars>>

(* Delivered again while the key is set: 200 {deduplicated: true}, on which *)
(* Stripe stops.                                                            *)
DeliverAgain(e) ==
  /\ event[e] = "seen"
  /\ event' = [event EXCEPT ![e] = "dropped"]
  /\ UNCHANGED <<invoice, otherInvoiceVars, payment, requestVars, stripe,
                 worker, refund, noticeVars>>

(* Mutant: the dedup key is deleted once the handler is done. *)
FinishForgets(w) ==
  /\ worker' = [worker EXCEPT ![w] = Idle]
  /\ event' = [event EXCEPT ![worker[w].ev] = "emitted"]

(* The handler answered 200 {received: true}. *)
Finish(w) ==
  /\ worker' = [worker EXCEPT ![w] = Idle]
  /\ event' = [event EXCEPT ![worker[w].ev] = "handled"]

(* handle_checkout_completed: links the intent to the row with the session. *)
HandleCompleted(w) ==
  LET p == worker[w].ev.pay IN
  /\ worker[w].pc = "handle"
  /\ worker[w].ev.type = "checkout.completed"
  /\ payment' = [payment EXCEPT ![p].intent = @ \/ payment[p].session]
  /\ Finish(w)
  /\ UNCHANGED <<invoice, otherInvoiceVars, requestVars, stripe, refund,
                 noticeVars>>

(* Mutant: the invoice's word for a payment that went through. *)
StatusForInvoice == [succeeded |-> "paid", payment_failed |-> "failed"]

StatusFor == [succeeded |-> "succeeded", payment_failed |-> "failed"]

(* The first UPDATE of handle_payment_succeeded and handle_payment_failed: *)
(* it finds the row by its intent, whatever its status; an intent no row   *)
(* has is logged and answered 200.                                         *)
RecordOutcome(w) ==
  LET e == worker[w].ev
      p == e.pay
  IN  /\ worker[w].pc = "handle"
      /\ e.type \in DOMAIN StatusFor
      /\ IF payment[p].intent
         THEN /\ payment' = [payment EXCEPT ![p].status = StatusFor[e.type]]
              /\ worker' = [worker EXCEPT ![w].pc = "announce"]
              /\ UNCHANGED event
         ELSE Finish(w) /\ UNCHANGED payment
      /\ UNCHANGED <<invoice, otherInvoiceVars, requestVars, stripe, refund,
                     noticeVars>>

(* dispatch_webhooks of payment.succeeded or payment.failed *)
Announce(w) ==
  LET e == worker[w].ev IN
  /\ worker[w].pc = "announce"
  /\ announced' = [announced EXCEPT ![e] = @ + 1]
  /\ IF e.type = "succeeded"
     THEN worker' = [worker EXCEPT ![w].pc = "read"] /\ UNCHANGED event
     ELSE Finish(w)
  /\ UNCHANGED <<invoice, otherInvoiceVars, payment, requestVars, stripe,
                 refund, paidNotices>>

(* SUM(amount) of the succeeded payments of an invoice *)
Collected(i) ==
  MapThenSumSet(LAMBDA p : payment[p].amount,
                {p \in Payment : payment[p].inv = i
                                   /\ payment[p].status = "succeeded"})

(* transition_invoice_for_payment: the SELECT and what follows from it ... *)
NewStatus(collected, total) ==
  IF collected >= total THEN "paid" ELSE "partially_paid"

ReadTotals(w) ==
  LET i == payment[worker[w].ev.pay].inv
      c == Collected(i)
  IN  /\ worker[w].pc = "read"
      /\ IF c >= invoice[i].total \/ c > 0
         THEN /\ worker' = [worker EXCEPT
                              ![w].pc = "write",
                              ![w].wasPaid = invoice[i].status = "paid",
                              ![w].new = NewStatus(c, invoice[i].total)]
              /\ UNCHANGED event
         ELSE Finish(w)
      /\ UNCHANGED <<invoice, otherInvoiceVars, payment, requestVars, stripe,
                     refund, noticeVars>>

(* ... and the UPDATE, by id alone. *)
WriteInvoice(w) ==
  LET i == payment[worker[w].ev.pay].inv IN
  /\ worker[w].pc = "write"
  /\ i \notin editing
  /\ invoice' = [invoice EXCEPT ![i].status = worker[w].new]
  /\ IF ~worker[w].wasPaid /\ worker[w].new = "paid"
     THEN worker' = [worker EXCEPT ![w].pc = "flipped"] /\ UNCHANGED event
     ELSE Finish(w)
  /\ UNCHANGED <<otherInvoiceVars, payment, requestVars, stripe, refund,
                 noticeVars>>

(* dispatch_webhooks of invoice.paid *)
AnnouncePaid(w) ==
  LET i == payment[worker[w].ev.pay].inv IN
  /\ worker[w].pc = "flipped"
  /\ paidNotices' = [paidNotices EXCEPT ![i] = @ + 1]
  /\ Finish(w)
  /\ UNCHANGED <<invoice, otherInvoiceVars, payment, requestVars, stripe,
                 refund, announced>>

(* Anything but 2xx, or no answer: the dedup key stays. *)
HandlerFails(w) ==
  /\ worker[w].pc # "idle"
  /\ worker' = [worker EXCEPT ![w] = Idle]
  /\ UNCHANGED <<invoice, otherInvoiceVars, payment, requestVars, stripe, event,
                 refund, noticeVars>>

-----------------------------------------------------------------------------
(* POST /payments/{id}/refund; amount 0 stands for a full refund, which is *)
(* also what the code makes of an amount that is not positive.             *)
StartRefund(r, p) ==
  /\ refund[r].pc = "idle"
  /\ payment[p].status = "succeeded"
  /\ payment[p].intent
  /\ \E a \in 0..payment[p].amount :
       refund' = [refund EXCEPT ![r] = [pc |-> "ready", pay |-> p, amount |-> a]]
  /\ UNCHANGED <<invoice, otherInvoiceVars, payment, requestVars, stripe, event,
                 worker, noticeVars>>

(* Refund::create; Stripe refunds the rest, or an amount the rest covers. *)
CallRefund(r) ==
  LET p == refund[r].pay
      rest == payment[p].amount - stripe[p].refunded
  IN  /\ refund[r].pc = "ready"
      /\ rest > 0
      /\ refund[r].amount <= rest
      /\ stripe' = [stripe EXCEPT
                      ![p].refunded = IF refund[r].amount = 0
                                      THEN payment[p].amount
                                      ELSE @ + refund[r].amount]
      /\ refund' = [refund EXCEPT ![r].pc = "called"]
      /\ UNCHANGED <<invoice, otherInvoiceVars, payment, requestVars, event,
                     worker, noticeVars>>

(* Mutant: the row is updated without waiting for Stripe's answer. *)
WriteRefundEarly(r) ==
  LET p == refund[r].pay IN
  /\ refund[r].pc # "idle"
  /\ payment' = [payment EXCEPT
                   ![p].status = IF refund[r].amount = 0 THEN "refunded"
                                                         ELSE "partially_refunded"]
  /\ refund' = [refund EXCEPT ![r] = NoRefund]
  /\ UNCHANGED <<invoice, otherInvoiceVars, requestVars, stripe, event, worker,
                 noticeVars>>

WriteRefund(r) ==
  LET p == refund[r].pay IN
  /\ refund[r].pc = "called"
  /\ payment' = [payment EXCEPT
                   ![p].status = IF refund[r].amount = 0 THEN "refunded"
                                                         ELSE "partially_refunded"]
  /\ refund' = [refund EXCEPT ![r] = NoRefund]
  /\ UNCHANGED <<invoice, otherInvoiceVars, requestVars, stripe, event, worker,
                 noticeVars>>

RefundFails(r) ==
  /\ refund[r].pc # "idle"
  /\ refund' = [refund EXCEPT ![r] = NoRefund]
  /\ UNCHANGED <<invoice, otherInvoiceVars, payment, requestVars, stripe, event,
                 worker, noticeVars>>

-----------------------------------------------------------------------------
CheckoutStep(p) ==
  \/ \E i \in Invoice, k \in Key \cup {NoKey} : StartPay(p, i, k)
  \/ ReserveKey(p) \/ LoadInvoice(p) \/ InsertPayment(p) \/ CreateSession(p)
  \/ RecordSession(p) \/ StoreResult(p) \/ CheckoutFails(p)

HandlerStep(w) ==
  \/ HandleCompleted(w) \/ RecordOutcome(w) \/ Announce(w) \/ ReadTotals(w)
  \/ WriteInvoice(w) \/ AnnouncePaid(w)

RefundStep(r) ==
  \/ \E p \in Payment : StartRefund(r, p)
  \/ CallRefund(r) \/ WriteRefund(r) \/ RefundFails(r)

PaymentNext ==
  \/ \E p \in Payment : CheckoutStep(p) \/ Charge(p) \/ Decline(p)
  \/ \E k \in Key : ExpireKey(k)
  \/ \E e \in Event : DeliverAgain(e) \/ \E w \in Worker : Deliver(w, e)
  \/ \E w \in Worker : HandlerStep(w) \/ HandlerFails(w)
  \/ \E r \in Refund : RefundStep(r)

Init == InvoiceInit /\ PaymentInit
Next == (InvoiceNext /\ UNCHANGED paymentVars) \/ PaymentNext
Spec == Init /\ [][Next]_vars

-----------------------------------------------------------------------------
Charged(p) == stripe[p].session = "paid"

(* An invoice shown as paid was paid: Stripe has charged one of its        *)
(* payments, and for the whole of the invoice's total.                     *)
PaidWasCollected ==
  \A i \in Invoice :
    invoice[i].status = "paid" =>
      \E p \in Payment : /\ Charged(p)
                         /\ payment[p].inv = i
                         /\ payment[p].amount = invoice[i].total

(* A payment row asks for exactly the total of an invoice that has been    *)
(* sent, even though the invoice is read long before the row is inserted   *)
(* and while PATCH and send of the same invoice may be running.            *)
AmountIsInvoiceTotal ==
  \A p \in Payment :
    payment[p].status # "absent" =>
      /\ payment[p].amount = invoice[payment[p].inv].total
      /\ invoice[payment[p].inv].status \notin {"absent", "draft"}

(* The ledger never claims money movements Stripe has not made: succeeded  *)
(* means charged, refunded means refunded in full, partially_refunded that *)
(* some of it went back, and no more is ever refunded than was charged.    *)
LedgerAgreesWithStripe ==
  \A p \in Payment :
    /\ payment[p].status \in {"succeeded", "refunded", "partially_refunded"}
         => Charged(p)
    /\ payment[p].status = "refunded" => stripe[p].refunded = payment[p].amount
    /\ payment[p].status = "partially_refunded" => stripe[p].refunded > 0
    /\ stripe[p].refunded <= IF Charged(p) THEN payment[p].amount ELSE 0

(* No success over a refund: replays of payment_intent.succeeded do not    *)
(* bring a refunded payment back, which would count towards its invoice    *)
(* again.  A late payment_failed may still write over the refund.          *)
NoSuccessAfterRefund ==
  [][\A p \in Payment :
       payment[p].status \in {"refunded", "partially_refunded"}
         => payment'[p].status # "succeeded"]_vars

(* However often Stripe delivers an event, it is announced at most once,   *)
(* and every invoice.paid is backed by a charge of its own.                *)
NoticesAreBacked ==
  /\ \A e \in Event : announced[e] <= 1
  /\ \A i \in Invoice :
       paidNotices[i] <= Cardinality({p \in Payment : Charged(p)
                                                        /\ payment[p].inv = i})

(* A cached reply names a checkout whose session exists at Stripe and is   *)
(* recorded in its row, so that completing it is correlated.               *)
CachedReplyIsUsable ==
  \A k \in Key : idem[k] \in Payment =>
    LET p == idem[k] IN /\ checkout[p].key = k
                        /\ payment[p].session
                        /\ stripe[p].session # "none"

(* webhook.rs, transition_invoice_for_payment: "so the caller can emit     *)
(* invoice.paid exactly once".                                             *)
InvoicePaidAnnouncedOnce == \A i \in Invoice : paidNotices[i] <= 1

(* webhook.rs, handle_checkout_completed: "payment_intent.succeeded ...    *)
(* does the status transition" - once both events of a charge are handled  *)
(* its payment is no longer pending.                                       *)
ChargeIsRecorded ==
  \A p \in Payment :
    (/\ event[Ev("checkout.completed", p)] = "handled"
     /\ event[Ev("succeeded", p)] = "handled")
      => payment[p].status # "pending"
=============================================================================
