------------------------------ MODULE Invoices ------------------------------
(***************************************************************************)
(* The invoices table of one organisation, the HTTP handlers that write it *)
(* (src/modules/invoice/mod.rs) and the hourly overdue job                 *)
(* (src/jobs/overdue.rs).                                                  *)
(*                                                                         *)
(* Each SQL statement is one atomic step.  A handler commits its UPDATE    *)
(* first and then, in later steps, queues an e-mail and dispatches an      *)
(* outbound event; the process can stop, or the request be dropped, in     *)
(* between.  `update' is the only handler with a transaction: its SELECT   *)
(* ... FOR UPDATE keeps the row locked until commit, and every other       *)
(* UPDATE of that row waits.                                               *)
(*                                                                         *)
(* Left out: the tenant (every statement is scoped by org_id), the columns *)
(* no other handler reads (line items, currency, notes, the *_at stamps),  *)
(* the client check and the invoice number of create (both are early       *)
(* returns that change nothing), and the read-only handlers.               *)
(***************************************************************************)
EXTENDS Integers

CONSTANTS
  Invoice,     \* the invoices that may come to exist
  Total,       \* the totals compute_totals may return
  Subscribed   \* the events some active webhook subscription asks for

Status == {"draft", "sent", "viewed", "overdue", "partially_paid", "paid",
           "cancelled"}

InvoiceEvent == {"invoice.created", "invoice.sent", "invoice.overdue",
                 "invoice.cancelled"}

ASSUME InvoicesAssumption == /\ Invoice # {}
                             /\ Total \subseteq Int
                             /\ Total # {}

VARIABLES
  invoice,   \* the rows: status ("absent" before INSERT), total, is due_date < now()
  editing,   \* rows locked by an open `update' transaction
  email,     \* the send-email job of an invoice: none, owed, queued or lost
  owed,      \* events a handler or the overdue job has still to dispatch
  fired      \* history: how often each event was dispatched

invoiceVars == <<invoice, editing, email, owed, fired>>

Row == [status : Status \cup {"absent"}, total : Total, pastDue : BOOLEAN]

InvoiceTypeOK ==
  /\ invoice \in [Invoice -> Row]
  /\ editing \in SUBSET Invoice
  /\ email \in [Invoice -> {"none", "owed", "queued", "lost"}]
  /\ owed \in [Invoice -> [InvoiceEvent -> Nat]]
  /\ fired \in [Invoice -> [InvoiceEvent -> Nat]]

InvoiceInit ==
  /\ invoice = [i \in Invoice |-> [status |-> "absent", pastDue |-> FALSE,
                                  total |-> CHOOSE t \in Total : TRUE]]
  /\ editing = {}
  /\ email = [i \in Invoice |-> "none"]
  /\ owed = [i \in Invoice |-> [e \in InvoiceEvent |-> 0]]
  /\ fired = [i \in Invoice |-> [e \in InvoiceEvent |-> 0]]

-----------------------------------------------------------------------------
(* What dispatch_webhooks will be asked to do for the invoices in S.  With *)
(* no subscription to the event the call returns without effect.           *)
Owe(S, e) ==
  owed' = [i \in Invoice |->
             IF i \in S /\ e \in Subscribed
             THEN [owed[i] EXCEPT ![e] = @ + 1] ELSE owed[i]]

(* POST /invoices *)
Create(i) ==
  /\ invoice[i].status = "absent"
  /\ \E t \in Total, late \in BOOLEAN :
       invoice' = [invoice EXCEPT ![i] = [status |-> "draft", total |-> t,
                                          pastDue |-> late]]
  /\ Owe({i}, "invoice.created")
  /\ UNCHANGED <<editing, email, fired>>

(* Mutant: the status check of update is gone. *)
UpdateLockAny(i) ==
  /\ i \notin editing
  /\ invoice[i].status # "absent"
  /\ editing' = editing \cup {i}
  /\ UNCHANGED <<invoice, email, owed, fired>>

(* PATCH /invoices/{id}: SELECT ... FOR UPDATE; a row that is not a draft  *)
(* is refused and its lock released, which changes nothing.                *)
UpdateLock(i) ==
  /\ i \notin editing
  /\ invoice[i].status = "draft"
  /\ editing' = editing \cup {i}
  /\ UNCHANGED <<invoice, email, owed, fired>>

(* ... then UPDATE by id alone, and COMMIT. *)
UpdateCommit(i) ==
  /\ i \in editing
  /\ \E t \in Total, late \in BOOLEAN :
       invoice' = [invoice EXCEPT ![i].total = t, ![i].pastDue = late]
  /\ editing' = editing \ {i}
  /\ UNCHANGED <<email, owed, fired>>

(* ... or an error, a dropped request or a crash: the database rolls back. *)
UpdateRollback(i) ==
  /\ i \in editing
  /\ editing' = editing \ {i}
  /\ UNCHANGED <<invoice, email, owed, fired>>

(* Mutant: the UPDATE of send does not wait for the row lock. *)
SendIgnoresLock(i) ==
  /\ invoice[i].status = "draft"
  /\ invoice' = [invoice EXCEPT ![i].status = "sent"]
  /\ email' = [email EXCEPT ![i] = "owed"]
  /\ Owe({i}, "invoice.sent")
  /\ UNCHANGED <<editing, fired>>

(* POST /invoices/{id}/send *)
Send(i) ==
  /\ i \notin editing
  /\ invoice[i].status = "draft"
  /\ invoice' = [invoice EXCEPT ![i].status = "sent"]
  /\ email' = [email EXCEPT ![i] = "owed"]
  /\ Owe({i}, "invoice.sent")
  /\ UNCHANGED <<editing, fired>>

(* enqueue_invoice_email: its failure is logged and the handler goes on. *)
EnqueueEmail(i) ==
  /\ email[i] = "owed"
  /\ \E result \in {"queued", "lost"} : email' = [email EXCEPT ![i] = result]
  /\ UNCHANGED <<invoice, editing, owed, fired>>

(* Mutant: the status list of cancel has one entry too many. *)
CancellablePaid == {"draft", "sent", "viewed", "overdue", "paid"}

(* POST /invoices/{id}/cancel *)
Cancellable == {"draft", "sent", "viewed", "overdue"}

Cancel(i) ==
  /\ i \notin editing
  /\ invoice[i].status \in Cancellable
  /\ invoice' = [invoice EXCEPT ![i].status = "cancelled"]
  /\ Owe({i}, "invoice.cancelled")
  /\ UNCHANGED <<editing, email, fired>>

(* Mutant: SET status = 'viewed' without the CASE. *)
MarkViewedAlways(i) ==
  /\ i \notin editing
  /\ invoice[i].status \notin {"absent", "viewed"}
  /\ invoice' = [invoice EXCEPT ![i].status = "viewed"]
  /\ UNCHANGED <<editing, email, owed, fired>>

(* POST /invoices/{id}/viewed: only a sent invoice changes status. *)
MarkViewed(i) ==
  /\ i \notin editing
  /\ invoice[i].status = "sent"
  /\ invoice' = [invoice EXCEPT ![i].status = "viewed"]
  /\ UNCHANGED <<editing, email, owed, fired>>

(* now() passes due_date. *)
DueDatePasses(i) ==
  /\ invoice[i].status # "absent"
  /\ ~invoice[i].pastDue
  /\ invoice' = [invoice EXCEPT ![i].pastDue = TRUE]
  /\ UNCHANGED <<editing, email, owed, fired>>

(* Mutants: the scan flips overdue rows again, or forgets viewed ones. *)
LapsingAgain == {"sent", "viewed", "partially_paid", "overdue"}
LapsingSent == {"sent", "partially_paid"}

(* The hourly job: one bulk UPDATE ... RETURNING. *)
Lapsing == {"sent", "viewed", "partially_paid"}

OverdueScan ==
  LET S == {i \in Invoice : invoice[i].status \in Lapsing /\ invoice[i].pastDue}
  IN  /\ S # {}
      /\ invoice' = [i \in Invoice |->
                       IF i \in S THEN [invoice[i] EXCEPT !.status = "overdue"]
                                  ELSE invoice[i]]
      /\ Owe(S, "invoice.overdue")
      /\ UNCHANGED <<editing, email, fired>>

(* Mutant: an event is dispatched that no commit has owed. *)
DispatchUnowed(i, e) ==
  /\ e = "invoice.sent" => email[i] # "owed"
  /\ owed' = [owed EXCEPT ![i][e] = @ - 1]
  /\ fired' = [fired EXCEPT ![i][e] = @ + 1]
  /\ UNCHANGED <<invoice, editing, email>>

(* The dispatch that follows the commit; send queues its e-mail first. *)
Dispatch(i, e) ==
  /\ owed[i][e] > 0
  /\ e = "invoice.sent" => email[i] # "owed"
  /\ owed' = [owed EXCEPT ![i][e] = @ - 1]
  /\ fired' = [fired EXCEPT ![i][e] = @ + 1]
  /\ UNCHANGED <<invoice, editing, email>>

(* The handler or job stops after its commit - process exit, dropped       *)
(* request, failed subscription query or push - and nothing resumes it.    *)
Abandon(i, e) ==
  /\ owed[i][e] > 0
  /\ owed' = [owed EXCEPT ![i][e] = @ - 1]
  /\ email' = IF e = "invoice.sent" /\ email[i] = "owed"
              THEN [email EXCEPT ![i] = "lost"] ELSE email
  /\ UNCHANGED <<invoice, editing, fired>>

InvoiceStep(i) ==
  \/ Create(i) \/ UpdateLock(i) \/ UpdateCommit(i) \/ UpdateRollback(i)
  \/ Send(i) \/ EnqueueEmail(i) \/ Cancel(i) \/ MarkViewed(i)
  \/ DueDatePasses(i)
  \/ \E e \in InvoiceEvent : Dispatch(i, e) \/ Abandon(i, e)

InvoiceNext == OverdueScan \/ \E i \in Invoice : InvoiceStep(i)

InvoiceSpec == InvoiceInit /\ [][InvoiceNext]_invoiceVars

-----------------------------------------------------------------------------
(* The FOR UPDATE lock: while an `update' transaction is open its invoice  *)
(* is still the draft it was read as, whatever send and cancel do.         *)
LockedIsDraft == \A i \in editing : invoice[i].status = "draft"

(* The amount a client was asked to pay never changes: once an invoice has *)
(* left draft, neither a concurrent PATCH nor any later step moves its     *)
(* total, although UPDATE itself does not test the status.                 *)
TotalFrozenOnceSent ==
  [][\A i \in Invoice :
       invoice[i].status \notin {"absent", "draft"}
         => invoice'[i].total = invoice[i].total]_invoiceVars

(* Outbound events are announced at most once per invoice, and only after  *)
(* the transition they announce: RETURNING gives the dispatch to the one   *)
(* statement that flipped the row, however handlers and scans interleave.  *)
Announced(i, e) == owed[i][e] + fired[i][e]

After(e) ==
  CASE e = "invoice.created"   -> Status
    [] e = "invoice.sent"      -> Status \ {"draft"}
    [] e = "invoice.overdue"   -> {"overdue", "cancelled", "paid"}
    [] e = "invoice.cancelled" -> {"cancelled", "paid"}

AnnouncedOnceAndTrue ==
  \A i \in Invoice, e \in InvoiceEvent :
    /\ Announced(i, e) <= 1
    /\ Announced(i, e) > 0 => invoice[i].status \in After(e)

(* A bill that is out and past its due date does not stay sent or viewed:  *)
(* the next overdue scan, a cancellation or a payment takes it elsewhere.  *)
PastDueIsNoticed ==
  \A i \in Invoice :
    (invoice[i].status \in {"sent", "viewed"} /\ invoice[i].pastDue)
      ~> invoice[i].status \notin {"sent", "viewed"}

(* Every writer keeps to the status flow of InvoiceLifecycle. *)
Lifecycle == INSTANCE InvoiceLifecycle
               WITH status <- [i \in Invoice |-> invoice[i].status]
FollowsLifecycle == Lifecycle!Spec

(* Its step part alone, for behaviours that start with an invoice sent.    *)
StepsFollowLifecycle == [][Lifecycle!Next]_([i \in Invoice |-> invoice[i].status])
=============================================================================
