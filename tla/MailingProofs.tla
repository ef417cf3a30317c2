---------------------------- MODULE MailingProofs ----------------------------
(***************************************************************************)
(* Theorems about Mailing, for any invoices, clients, totals and number of *)
(* attempts.  With clients and e-mail jobs beside them the invoices still  *)
(* behave as Invoices says, so that the theorems of InvoicesProofs hold    *)
(* here too; MInv adds to their invariant how far an e-mail can be, given  *)
(* its invoice.                                                            *)
(***************************************************************************)
EXTENDS Mailing, InvoicesProofs

Out == [i \in Invoice |-> invoice[i].status \notin {"absent", "draft"}]

(* Only a sent invoice has an e-mail job. *)
EmailFollowsSend == \A i \in Invoice : email[i] # "none" => Out[i]

(* A client is checked before it is billed, and no row of one goes away. *)
BilledExists ==
  \A i \in Invoice :
    /\ billed[i] # Nobody => client[billed[i]] # "absent"
    /\ invoice[i].status # "absent" => billed[i] # Nobody

(* What a job holds, and what it has sent, is what the invoice asks for. *)
MailFits ==
  \A i \in Invoice :
    /\ mail[i].pc # "skipped"
    /\ mail[i].pc = "read" => email[i] = "queued" /\ mail[i].total = invoice[i].total
    /\ \A t \in mailbox[i] : email[i] = "queued" /\ t = invoice[i].total

MInv == IInv /\ MailTypeOK /\ EmailFollowsSend /\ BilledExists /\ MailFits

-----------------------------------------------------------------------------
(* Every step of Mailing is a step of Invoices or leaves it alone.         *)
LEMMA StepsOfInvoices == [MailingNext]_mailingVars => [InvoiceNext]_invoiceVars
<1> SUFFICES ASSUME [MailingNext]_mailingVars PROVE [InvoiceNext]_invoiceVars
  OBVIOUS
<1>1. CASE OverdueScan /\ UNCHANGED mailVars
  BY <1>1 DEF InvoiceNext
<1>2. ASSUME NEW c \in Client, CreateClient(c) \/ SoftDelete(c)
      PROVE  UNCHANGED invoiceVars
  BY <1>2 DEF CreateClient, SoftDelete
<1>3. ASSUME NEW i \in Invoice, BilledStep(i) PROVE InvoiceNext
  BY <1>3 DEF BilledStep, InvoiceNext
<1>4. ASSUME NEW i \in Invoice, CheckClient(i) \/ CreateFails(i) \/ MailStep(i)
      PROVE  UNCHANGED invoiceVars
  BY <1>4 DEF CheckClient, CreateFails, MailStep, ReadForMail, SendMail, FailMail,
              LoseMail
<1>5. CASE UNCHANGED mailingVars
  BY <1>5 DEF mailingVars
<1> QED BY <1>1, <1>2, <1>3, <1>4, <1>5 DEF MailingNext

(* With clients and e-mail jobs beside them, the invoices behave as        *)
(* Invoices specifies.                                                     *)
THEOREM MailingRefinesInvoices == MailingSpec => InvoiceSpec
<1>1. MailingInit => InvoiceInit
  BY DEF MailingInit
<1> QED BY <1>1, StepsOfInvoices, PTL DEF MailingSpec, InvoiceSpec

-----------------------------------------------------------------------------
(* What a step of the invoices does to one of them, as far as its e-mail   *)
(* can tell.                                                               *)
LEMMA InvoiceKeeps ==
  ASSUME IInv, EmailFollowsSend, [InvoiceNext]_invoiceVars, NEW j \in Invoice
  PROVE  /\ Out[j] => Out'[j] /\ invoice'[j].total = invoice[j].total
         /\ invoice[j].status # "absent" => invoice'[j].status # "absent"
         /\ email[j] \in {"queued", "lost"} => email'[j] = email[j]
         /\ email'[j] # "none" => Out'[j]
<1> USE DEF IInv, InvoiceTypeOK, Row, Status, LockedIsDraft, EmailFollowsSend, Out
<1>1. CASE OverdueScan
  BY <1>1 DEF OverdueScan, Lapsing
<1>2. ASSUME NEW i \in Invoice, InvoiceStep(i)
      PROVE  /\ Out[j] => Out'[j] /\ invoice'[j].total = invoice[j].total
             /\ invoice[j].status # "absent" => invoice'[j].status # "absent"
             /\ email[j] \in {"queued", "lost"} => email'[j] = email[j]
             /\ email'[j] # "none" => Out'[j]
  <2>1. CASE Create(i)
    BY <2>1 DEF Create
  <2>2. CASE UpdateLock(i) \/ UpdateRollback(i)
    BY <2>2 DEF UpdateLock, UpdateRollback
  <2>3. CASE UpdateCommit(i)
    <3>1. invoice[i].status = "draft" /\ UNCHANGED email
      BY <2>3 DEF UpdateCommit
    <3>2. \A k \in Invoice : k # i => invoice'[k] = invoice[k]
      BY <2>3 DEF UpdateCommit
    <3>3. invoice'[i].status = invoice[i].status
      BY <2>3 DEF UpdateCommit
    <3> QED BY <3>1, <3>2, <3>3
  <2>4. CASE Send(i)
    BY <2>4 DEF Send
  <2>5. CASE EnqueueEmail(i)
    BY <2>5 DEF EnqueueEmail
  <2>6. CASE Cancel(i)
    BY <2>6 DEF Cancel, Cancellable
  <2>7. CASE MarkViewed(i)
    BY <2>7 DEF MarkViewed
  <2>8. CASE DueDatePasses(i)
    BY <2>8 DEF DueDatePasses
  <2>9. ASSUME NEW e \in InvoiceEvent, Dispatch(i, e) \/ Abandon(i, e)
        PROVE  /\ UNCHANGED invoice
               /\ email[j] \in {"queued", "lost"} => email'[j] = email[j]
               /\ email'[j] # "none" => email[j] # "none"
    BY <2>9 DEF Dispatch, Abandon
  <2> QED BY <1>2, <2>1, <2>2, <2>3, <2>4, <2>5, <2>6, <2>7, <2>8, <2>9 DEF InvoiceStep
<1>3. CASE UNCHANGED invoiceVars
  BY <1>3 DEF invoiceVars
<1> QED BY <1>1, <1>2, <1>3 DEF InvoiceNext

-----------------------------------------------------------------------------
(* The rows a job goes through are jobs. *)
LEMMA JobRows ==
  /\ NewJob \in MailJob
  /\ \A pc \in {"sent", "dead", "skipped"} : [NewJob EXCEPT !.pc = pc] \in MailJob
  /\ \A job \in MailJob : AfterFailure(job) \in MailJob
  /\ \A job \in MailJob, t \in Total :
       [job EXCEPT !.pc = "read", !.total = t] \in MailJob
<1>1. (CHOOSE t \in Total : TRUE) \in Total /\ 0 \in 0..MaxAttempts - 1
  BY InvoicesAssumption, MailingAssumption DEF InvoicesAssumption, MailingAssumption
<1>2. NewJob \in MailJob
  BY <1>1 DEF NewJob, MailJob
<1>3. \A pc \in {"sent", "dead", "skipped"} : [NewJob EXCEPT !.pc = pc] \in MailJob
  BY <1>2 DEF MailJob
<1>4. ASSUME NEW job \in MailJob PROVE AfterFailure(job) \in MailJob
  <2>1. job.failed + 1 < MaxAttempts => job.failed + 1 \in 0..MaxAttempts - 1
    BY MailingAssumption DEF MailingAssumption, MailJob
  <2>2. \A n \in 0..MaxAttempts - 1 : [NewJob EXCEPT !.failed = n] \in MailJob
    BY <1>2 DEF MailJob
  <2> QED BY <1>3, <2>1, <2>2 DEF AfterFailure
<1>5. ASSUME NEW job \in MailJob, NEW t \in Total
      PROVE  [job EXCEPT !.pc = "read", !.total = t] \in MailJob
  BY DEF MailJob
<1> QED BY <1>2, <1>3, <1>4, <1>5

LEMMA MailTypesInit == MailingInit => MailTypeOK
<1> SUFFICES ASSUME MailingInit PROVE MailTypeOK
  OBVIOUS
<1>1. InvoiceTypeOK
  BY InitInvariant DEF MailingInit, IInv
<1> QED BY <1>1, JobRows DEF MailingInit, MailTypeOK

LEMMA MailTypesStep == MailTypeOK /\ [MailingNext]_mailingVars => MailTypeOK'
<1> SUFFICES ASSUME MailTypeOK, [MailingNext]_mailingVars PROVE MailTypeOK'
  OBVIOUS
<1> USE DEF MailTypeOK
<1>0. InvoiceTypeOK'
  BY StepsOfInvoices, InvoiceStepTypes
<1>1. CASE UNCHANGED mailVars
  BY <1>0, <1>1 DEF mailVars
<1>2. ASSUME NEW c \in Client, CreateClient(c) \/ SoftDelete(c) PROVE MailTypeOK'
  BY <1>0, <1>2 DEF CreateClient, SoftDelete
<1>3. ASSUME NEW i \in Invoice, CheckClient(i) \/ CreateFails(i) PROVE MailTypeOK'
  BY <1>0, <1>3 DEF CheckClient, CreateFails
<1>4. ASSUME NEW i \in Invoice, MailStep(i) PROVE MailTypeOK'
  <2>0. ASSUME GoesOut(i) PROVE mailbox' \in [Invoice -> SUBSET Total]
    <3>1. mail[i].total \in Total
      BY DEF MailJob
    <3> QED BY <2>0, <3>1 DEF GoesOut
  <2>1. CASE ReadForMail(i)
    <3>1. invoice[i].total \in Total
      BY DEF InvoiceTypeOK, Row
    <3>2. mail' \in [Invoice -> MailJob]
      BY <2>1, <3>1, JobRows DEF ReadForMail
    <3> QED BY <1>0, <2>1, <3>2 DEF ReadForMail
  <2>2. CASE SendMail(i)
    <3>1. mail' \in [Invoice -> MailJob]
      BY <2>2, JobRows DEF SendMail
    <3> QED BY <1>0, <2>0, <2>2, <3>1 DEF SendMail
  <2>3. CASE FailMail(i)
    <3>1. mail' \in [Invoice -> MailJob]
      BY <2>3, JobRows DEF FailMail
    <3> QED BY <1>0, <2>0, <2>3, <3>1 DEF FailMail
  <2>4. CASE LoseMail(i)
    <3>1. mail' \in [Invoice -> MailJob]
      BY <2>4, JobRows DEF LoseMail
    <3> QED BY <1>0, <2>4, <3>1 DEF LoseMail
  <2> QED BY <1>4, <2>1, <2>2, <2>3, <2>4 DEF MailStep
<1> QED BY <1>1, <1>2, <1>3, <1>4 DEF MailingNext, BilledStep, mailingVars, mailVars

-----------------------------------------------------------------------------
LEMMA MailInit == MailingInit => MInv
<1> SUFFICES ASSUME MailingInit PROVE MInv
  OBVIOUS
<1>1. IInv /\ MailTypeOK
  BY InitInvariant, MailTypesInit DEF MailingInit
<1>2. EmailFollowsSend /\ BilledExists
  BY DEF MailingInit, InvoiceInit, EmailFollowsSend, BilledExists
<1>3. MailFits
  BY DEF MailingInit, MailFits, NewJob
<1> QED BY <1>1, <1>2, <1>3 DEF MInv

(* The row of a billed client is there in every state.                     *)
LEMMA StepBilled == MInv /\ [MailingNext]_mailingVars => BilledExists'
<1> SUFFICES ASSUME MInv, [MailingNext]_mailingVars PROVE BilledExists'
  OBVIOUS
<1> USE DEF MInv, MailTypeOK, InvoiceTypeOK, BilledExists
<1>1. ASSUME UNCHANGED <<client, billed>>,
             \A i \in Invoice : invoice'[i].status # "absent"
               => invoice[i].status # "absent" \/ billed[i] # Nobody
      PROVE  BilledExists'
  BY <1>1
<1>2. ASSUME NEW c \in Client, CreateClient(c) \/ SoftDelete(c)
      PROVE  BilledExists'
  BY <1>2 DEF CreateClient, SoftDelete, invoiceVars
<1>3. ASSUME NEW i \in Invoice, CheckClient(i) PROVE BilledExists'
  <2>1. PICK c \in Client : client[c] = "live" /\ billed' = [billed EXCEPT ![i] = c]
    BY <1>3 DEF CheckClient
  <2>2. c # Nobody /\ UNCHANGED <<invoice, client>>
    BY <1>3, MailingAssumption DEF CheckClient, MailingAssumption, invoiceVars
  <2> QED BY <2>1, <2>2
<1>4. ASSUME NEW i \in Invoice, CreateFails(i) PROVE BilledExists'
  BY <1>4 DEF CreateFails, invoiceVars
<1>5. ASSUME NEW i \in Invoice, BilledStep(i) PROVE BilledExists'
  <2>1. \A k \in Invoice : k # i => invoice'[k] = invoice[k]
    BY <1>5 DEF BilledStep, InvoiceStep, Create, UpdateLock, UpdateCommit,
                UpdateRollback, Send, EnqueueEmail, Cancel, MarkViewed,
                DueDatePasses, Dispatch, Abandon
  <2>2. invoice[i].status # "absent" \/ billed[i] # Nobody
    BY <1>5 DEF BilledStep
  <2>3. UNCHANGED <<client, billed>>
    BY <1>5 DEF BilledStep, mailVars
  <2> QED BY <1>1, <2>1, <2>2, <2>3
<1>6. CASE OverdueScan /\ UNCHANGED mailVars
  <2>1. \A i \in Invoice : invoice'[i].status # "absent" => invoice[i].status # "absent"
    BY <1>6 DEF OverdueScan, Lapsing, Row
  <2> QED BY <1>1, <1>6, <2>1 DEF mailVars
<1>7. ASSUME NEW i \in Invoice, MailStep(i) PROVE BilledExists'
  BY <1>7, <1>1 DEF MailStep, ReadForMail, SendMail, FailMail, LoseMail, invoiceVars
<1>8. CASE UNCHANGED mailingVars
  BY <1>1, <1>8 DEF mailingVars, mailVars, invoiceVars
<1> QED BY <1>2, <1>3, <1>4, <1>5, <1>6, <1>7, <1>8 DEF MailingNext

(* An e-mail step writes one job and one mailbox, and only of an invoice   *)
(* whose job is queued; the invoices stay.                                 *)
LEMMA StepMail == MInv /\ [MailingNext]_mailingVars => MailFits'
<1> SUFFICES ASSUME MInv, [MailingNext]_mailingVars PROVE MailFits'
  OBVIOUS
<1> USE DEF MInv, MailTypeOK, InvoiceTypeOK, MailFits
<1>1. CASE UNCHANGED <<mail, mailbox>>
  <2>1. ASSUME NEW i \in Invoice, email[i] = "queued"
        PROVE  email'[i] = "queued" /\ invoice'[i].total = invoice[i].total
    BY <2>1, StepsOfInvoices, InvoiceKeeps DEF EmailFollowsSend
  <2> QED BY <1>1, <2>1
<1>2. ASSUME NEW i \in Invoice, MailStep(i) PROVE MailFits'
  <2>0. ASSUME GoesOut(i), mail[i].pc = "read"
        PROVE  \A j \in Invoice : \A t \in mailbox'[j] :
                 email[j] = "queued" /\ t = invoice[j].total
    BY <2>0 DEF GoesOut
  <2>1. CASE ReadForMail(i)
    <3>1. client[billed[i]] \in Joined
      <4>1. invoice[i].status # "absent"
        BY <2>1 DEF ReadForMail, EmailFollowsSend, Out
      <4>2. billed[i] \in Client /\ client[billed[i]] # "absent"
        BY <4>1 DEF BilledExists
      <4> QED BY <4>2 DEF Joined
    <3>2. mail' = [mail EXCEPT ![i] = [mail[i] EXCEPT !.pc = "read",
                                                      !.total = invoice[i].total]]
      BY <2>1, <3>1 DEF ReadForMail
    <3>3. /\ mail'[i].pc = "read" /\ mail'[i].total = invoice[i].total
          /\ \A j \in Invoice : j # i => mail'[j] = mail[j]
      BY <3>2 DEF MailJob
    <3>4. email[i] = "queued" /\ UNCHANGED <<invoice, email, mailbox>>
      BY <2>1 DEF ReadForMail, invoiceVars
    <3> QED BY <3>3, <3>4
  <2>2. ASSUME mail'[i].pc \in {"queued", "sent", "dead"},
               \A j \in Invoice : j # i => mail'[j] = mail[j],
               UNCHANGED <<invoice, email>>,
               UNCHANGED mailbox \/ (mail[i].pc = "read" /\ GoesOut(i))
        PROVE  MailFits'
    BY <2>0, <2>2
  <2>3. ASSUME NEW job \in MailJob, mail' = [mail EXCEPT ![i] = job],
               job.pc \in {"queued", "sent", "dead"}
        PROVE  /\ mail'[i].pc \in {"queued", "sent", "dead"}
               /\ \A j \in Invoice : j # i => mail'[j] = mail[j]
    BY <2>3
  <2>4. CASE SendMail(i)
    <3>1. [NewJob EXCEPT !.pc = "sent"].pc = "sent"
      BY DEF NewJob
    <3> QED BY <2>2, <2>3, <2>4, <3>1, JobRows DEF SendMail, invoiceVars
  <2>5. CASE FailMail(i)
    <3>1. AfterFailure(mail[i]) \in MailJob
      BY JobRows
    <3>2. AfterFailure(mail[i]).pc \in {"queued", "dead"}
      BY DEF AfterFailure, NewJob
    <3>3. mail' = [mail EXCEPT ![i] = AfterFailure(mail[i])]
      BY <2>5 DEF FailMail
    <3> QED BY <2>2, <2>3, <2>5, <3>1, <3>2, <3>3 DEF FailMail, invoiceVars
  <2>6. CASE LoseMail(i)
    <3>1. [NewJob EXCEPT !.pc = "dead"].pc = "dead"
      BY DEF NewJob
    <3> QED BY <2>2, <2>3, <2>6, <3>1, JobRows DEF LoseMail, invoiceVars
  <2> QED BY <1>2, <2>1, <2>4, <2>5, <2>6 DEF MailStep
<1> QED BY <1>1, <1>2
        DEF MailingNext, CreateClient, SoftDelete, CheckClient, CreateFails,
            BilledStep, mailVars, mailingVars

THEOREM MailInvariance == MailingSpec => []MInv
<1>1. MInv /\ [MailingNext]_mailingVars => MInv'
  <2> SUFFICES ASSUME MInv, [MailingNext]_mailingVars PROVE MInv'
    OBVIOUS
  <2>1. [InvoiceNext]_invoiceVars
    BY StepsOfInvoices
  <2>2. IInv'
    BY <2>1, InvoiceStepTypes, StepLocks, StepAnnounced DEF MInv, IInv
  <2>3. EmailFollowsSend'
    BY <2>1, InvoiceKeeps DEF MInv, EmailFollowsSend
  <2> QED BY <2>2, <2>3, MailTypesStep, StepBilled, StepMail DEF MInv
<1> QED BY <1>1, MailInit, PTL DEF MailingSpec

(* Clients, their invoices, the jobs and what they have sent keep their    *)
(* types.                                                                  *)
THEOREM MailTypeCorrect == MailingSpec => []MailTypeOK
  BY MailInvariance, PTL DEF MInv

(* Every message that has gone out names the amount its invoice asks for,  *)
(* whatever is edited while jobs wait, run and are retried.                *)
THEOREM MailNamesAmount == MailingSpec => []MailNamesFinalAmount
<1>1. MInv => MailNamesFinalAmount
  BY DEF MInv, MailFits, EmailFollowsSend, Out, MailNamesFinalAmount
<1> QED BY <1>1, MailInvariance, PTL

(* No e-mail is given up for want of its client.                           *)
THEOREM MailNotSkipped == MailingSpec => []NoMailSkipped
<1>1. MInv => NoMailSkipped
  BY DEF MInv, MailFits, NoMailSkipped
<1> QED BY <1>1, MailInvariance, PTL

(* An e-mail job that was not pushed is never made up for: what            *)
(* LostMailRecovers is refuted by is so whatever the instance, and not     *)
(* only on one behaviour.                                                  *)
THEOREM LostMailStaysLost ==
  ASSUME NEW i \in Invoice
  PROVE  MailingSpec => [](email[i] = "lost" => [](email[i] = "lost"))
<1> DEFINE Lost == email[i] = "lost"
<1>1. MInv /\ [MailingNext]_mailingVars /\ Lost => Lost'
  <2> SUFFICES ASSUME MInv, [MailingNext]_mailingVars, Lost PROVE Lost'
    OBVIOUS
  <2>1. email[i] \in {"queued", "lost"} => email'[i] = email[i]
    BY StepsOfInvoices, InvoiceKeeps DEF MInv
  <2> QED BY <2>1
<1>2. MailingSpec => [](Lost => []Lost)
  <2> HIDE DEF Lost
  <2> QED BY <1>1, MailInvariance, PTL DEF MailingSpec
<1> QED BY <1>2

(* What InvoicesProofs says of the invoices holds with clients and e-mail  *)
(* beside them.                                                            *)
THEOREM MailingAnnounces ==
  MailingSpec => []AnnouncedOnceAndTrue /\ TotalFrozenOnceSent /\ FollowsLifecycle
  BY MailingRefinesInvoices, AnnouncementsAreTrue, TotalIsFrozen, Implementation, PTL
=============================================================================
