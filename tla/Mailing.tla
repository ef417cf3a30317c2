------------------------------- MODULE Mailing -------------------------------
(***************************************************************************)
(* From a client to the e-mail about an invoice: the clients table         *)
(* (src/modules/client/mod.rs), the invoices of Invoices, joined by the    *)
(* client check of create_invoice (src/modules/invoice/mod.rs) and by the  *)
(* e-mail worker (src/jobs/invoice_email.rs).                              *)
(*                                                                         *)
(* Deleting a client only marks its row: no client handler sees the row    *)
(* again, the invoices that name it still do.  Of a client only that       *)
(* matters here; PATCH writes columns that nothing below depends on.       *)
(*                                                                         *)
(* The job carries the id of an invoice only: each attempt reads invoice   *)
(* and client again, while users go on with both.  The sender is external: *)
(* it may refuse a message, and it may fail after the message has gone     *)
(* out.  A failed attempt is followed by another, at most MaxAttempts in   *)
(* all.  A job forgets what it will not read again.                        *)
(***************************************************************************)
EXTENDS Invoices

CONSTANTS
  Client,        \* the clients that may come to exist
  Nobody,        \* no client
  MaxAttempts    \* 1 + the retries of the worker

ASSUME MailingAssumption == MaxAttempts \in Nat \ {0} /\ Nobody \notin Client

VARIABLES
  client,    \* the clients table
  billed,    \* the client of an invoice, or of the request about to create it
  mail,      \* the send-email job of an invoice
  mailbox    \* history: the amounts named in messages that have gone out

mailVars == <<client, billed, mail, mailbox>>
mailingVars == <<invoiceVars, mailVars>>

MailJob == [pc : {"queued", "read", "sent", "dead", "skipped"},
            failed : 0..MaxAttempts - 1, total : Total]

MailTypeOK ==
  /\ InvoiceTypeOK
  /\ client \in [Client -> {"absent", "live", "deleted"}]
  /\ billed \in [Invoice -> Client \cup {Nobody}]
  /\ mail \in [Invoice -> MailJob]
  /\ mailbox \in [Invoice -> SUBSET Total]

NewJob == [pc |-> "queued", failed |-> 0, total |-> CHOOSE t \in Total : TRUE]

MailingInit ==
  /\ InvoiceInit
  /\ client = [c \in Client |-> "absent"]
  /\ billed = [i \in Invoice |-> Nobody]
  /\ mail = [i \in Invoice |-> NewJob]
  /\ mailbox = [i \in Invoice |-> {}]

-----------------------------------------------------------------------------
(* POST /clients *)
CreateClient(c) ==
  /\ client[c] = "absent"
  /\ client' = [client EXCEPT ![c] = "live"]
  /\ UNCHANGED <<invoiceVars, billed, mail, mailbox>>

(* DELETE /clients/{id} *)
SoftDelete(c) ==
  /\ client[c] = "live"
  /\ client' = [client EXCEPT ![c] = "deleted"]
  /\ UNCHANGED <<invoiceVars, billed, mail, mailbox>>

(* create_invoice, the SELECT of the client ... *)
CheckClient(i) ==
  /\ invoice[i].status = "absent"
  /\ billed[i] = Nobody
  /\ \E c \in Client : client[c] = "live" /\ billed' = [billed EXCEPT ![i] = c]
  /\ UNCHANGED <<invoiceVars, client, mail, mailbox>>

(* ... and, later, the INSERT, for which the row has only to exist.  Every *)
(* other step of an invoice is as in Invoices.                             *)
BilledStep(i) ==
  /\ invoice[i].status = "absent" => /\ billed[i] # Nobody
                                     /\ client[billed[i]] # "absent"
  /\ InvoiceStep(i)
  /\ UNCHANGED mailVars

(* The number is taken, an error, a dropped request: nothing is inserted. *)
CreateFails(i) ==
  /\ invoice[i].status = "absent"
  /\ billed[i] # Nobody
  /\ billed' = [billed EXCEPT ![i] = Nobody]
  /\ UNCHANGED <<invoiceVars, client, mail, mailbox>>

-----------------------------------------------------------------------------
(* Mutant: the client is joined as its handlers read it, unless deleted. *)
JoinedLive == {"live"}

(* The states of a client whose row the JOIN of the job finds. *)
Joined == {"live", "deleted"}

(* The SELECT of an attempt; no row, and the job is done. *)
ReadForMail(i) ==
  /\ email[i] = "queued"
  /\ mail[i].pc = "queued"
  /\ mail' = [mail EXCEPT
                ![i] = IF client[billed[i]] \in Joined
                       THEN [@ EXCEPT !.pc = "read", !.total = invoice[i].total]
                       ELSE [NewJob EXCEPT !.pc = "skipped"]]
  /\ UNCHANGED <<invoiceVars, client, billed, mailbox>>

GoesOut(i) == mailbox' = [mailbox EXCEPT ![i] = @ \cup {mail[i].total}]

(* sender.send returns Ok *)
SendMail(i) ==
  /\ mail[i].pc = "read"
  /\ GoesOut(i)
  /\ mail' = [mail EXCEPT ![i] = [NewJob EXCEPT !.pc = "sent"]]
  /\ UNCHANGED <<invoiceVars, client, billed>>

(* Mutant: one attempt too many. *)
AfterFailureLate(job) ==
  IF job.failed < MaxAttempts
  THEN [NewJob EXCEPT !.failed = job.failed + 1]
  ELSE [NewJob EXCEPT !.pc = "dead"]

AfterFailure(job) ==
  IF job.failed + 1 < MaxAttempts
  THEN [NewJob EXCEPT !.failed = job.failed + 1]
  ELSE [NewJob EXCEPT !.pc = "dead"]

(* The query fails, or the sender, perhaps with the message on its way. *)
FailMail(i) ==
  /\ email[i] = "queued"
  /\ mail[i].pc \in {"queued", "read"}
  /\ mail' = [mail EXCEPT ![i] = AfterFailure(@)]
  /\ UNCHANGED mailbox \/ (mail[i].pc = "read" /\ GoesOut(i))
  /\ UNCHANGED <<invoiceVars, client, billed>>

(* The process stops, and the job with it. *)
LoseMail(i) ==
  /\ email[i] = "queued"
  /\ mail[i].pc \in {"queued", "read"}
  /\ mail' = [mail EXCEPT ![i] = [NewJob EXCEPT !.pc = "dead"]]
  /\ UNCHANGED <<invoiceVars, client, billed, mailbox>>

MailStep(i) == ReadForMail(i) \/ SendMail(i) \/ FailMail(i) \/ LoseMail(i)

MailingNext ==
  \/ \E c \in Client : CreateClient(c) \/ SoftDelete(c)
  \/ OverdueScan /\ UNCHANGED mailVars
  \/ \E i \in Invoice : \/ CheckClient(i) \/ CreateFails(i) \/ BilledStep(i)
                        \/ MailStep(i)

(* The cron worker keeps ticking every hour; users owe nothing, and a      *)
(* handler or a job may always be dropped.                                 *)
MailingFairness == WF_mailingVars(OverdueScan /\ UNCHANGED mailVars)

MailingSpec == MailingInit /\ [][MailingNext]_mailingVars
FairMailingSpec == MailingSpec /\ MailingFairness

(* With all the help the comment in send counts on, and more than the code *)
(* is sure of: due dates pass, and a user asks again and again to send.    *)
Recovery(i) ==
  /\ WF_mailingVars(DueDatePasses(i) /\ UNCHANGED mailVars)
  /\ SF_mailingVars(Send(i) /\ UNCHANGED mailVars)

HelpedMailingSpec == FairMailingSpec /\ \A i \in Invoice : Recovery(i)

-----------------------------------------------------------------------------
(* Whatever a client is told by e-mail to pay is what the invoice asks for *)
(* from then on: the job reads the total long after the send, while a      *)
(* PATCH request that began before the send may still be open.             *)
MailNamesFinalAmount ==
  \A i \in Invoice : \A t \in mailbox[i] :
    t = invoice[i].total /\ invoice[i].status \notin {"absent", "draft"}

(* The e-mail of an invoice is never given up because its client has been  *)
(* deleted, before the INSERT, before the send or between two attempts:    *)
(* the job counts a row it does not find as done, so the JOIN has to read  *)
(* what the client handlers hide.                                          *)
NoMailSkipped == \A i \in Invoice : mail[i].pc # "skipped"

(* invoice/mod.rs, send, of an e-mail job that could not be pushed: "The   *)
(* overdue worker + manual resend can recover" - sooner or later there is  *)
(* a job for the invoice after all, unless it has been cancelled.          *)
LostMailRecovers ==
  \A i \in Invoice :
    email[i] = "lost" ~> (email[i] = "queued" \/ invoice[i].status = "cancelled")
=============================================================================
