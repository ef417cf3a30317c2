--------------------------- MODULE InvoicesProofs ---------------------------
(***************************************************************************)
(* Theorems about Invoices, for any set of invoices, totals and            *)
(* subscriptions.  The inductive invariant is the types, LockedIsDraft     *)
(* and AnnouncedOnceAndTrue, which support each other only through the     *)
(* types, and the fact that no invoice handler ever writes a paid status.  *)
(***************************************************************************)
EXTENDS Invoices, TLAPS

NeverCollected == \A i \in Invoice : invoice[i].status \notin {"paid", "partially_paid"}

IInv == InvoiceTypeOK /\ LockedIsDraft /\ AnnouncedOnceAndTrue /\ NeverCollected

-----------------------------------------------------------------------------
(* Every step keeps the types, those of the payment side's use of the      *)
(* module included.                                                        *)
LEMMA InvoiceStepTypes == InvoiceTypeOK /\ [InvoiceNext]_invoiceVars => InvoiceTypeOK'
<1> SUFFICES ASSUME InvoiceTypeOK, [InvoiceNext]_invoiceVars
             PROVE  InvoiceTypeOK'
  OBVIOUS
<1> USE DEF InvoiceTypeOK, Row, Status
<1>0. ASSUME NEW S \in SUBSET Invoice, NEW e \in InvoiceEvent, Owe(S, e)
      PROVE  owed' \in [Invoice -> [InvoiceEvent -> Nat]]
  BY <1>0 DEF Owe
<1>1. CASE OverdueScan
  <2> DEFINE S == {i \in Invoice : invoice[i].status \in Lapsing /\ invoice[i].pastDue}
  <2>1. Owe(S, "invoice.overdue") /\ S \in SUBSET Invoice
    BY <1>1 DEF OverdueScan
  <2>2. owed' \in [Invoice -> [InvoiceEvent -> Nat]]
    BY <2>1, <1>0 DEF InvoiceEvent
  <2> QED BY <1>1, <2>2 DEF OverdueScan
<1>2. ASSUME NEW i \in Invoice, InvoiceStep(i) PROVE InvoiceTypeOK'
  <2>1. CASE Create(i)
    <3>1. owed' \in [Invoice -> [InvoiceEvent -> Nat]]
      BY <2>1, <1>0 DEF Create, InvoiceEvent
    <3>2. PICK t \in Total, late \in BOOLEAN :
            invoice' = [invoice EXCEPT ![i] = [status |-> "draft", total |-> t,
                                               pastDue |-> late]]
      BY <2>1 DEF Create
    <3>3. [status |-> "draft", total |-> t, pastDue |-> late] \in Row
      OBVIOUS
    <3>4. invoice' \in [Invoice -> Row]
      BY <3>2, <3>3
    <3> QED BY <2>1, <3>1, <3>4 DEF Create
  <2>2. CASE UpdateLock(i)
    BY <2>2 DEF UpdateLock
  <2>3. CASE UpdateCommit(i)
    <3>1. PICK t \in Total, late \in BOOLEAN :
            invoice' = [invoice EXCEPT ![i].total = t, ![i].pastDue = late]
      BY <2>3 DEF UpdateCommit
    <3>2. [invoice[i] EXCEPT !.total = t, !.pastDue = late] \in Row
      OBVIOUS
    <3>3. invoice' \in [Invoice -> Row]
      BY <3>1, <3>2
    <3> QED BY <2>3, <3>3 DEF UpdateCommit
  <2>4. CASE UpdateRollback(i)
    BY <2>4 DEF UpdateRollback
  <2>5. CASE Send(i)
    <3>1. owed' \in [Invoice -> [InvoiceEvent -> Nat]]
      BY <2>5, <1>0 DEF Send, InvoiceEvent
    <3> QED BY <2>5, <3>1 DEF Send
  <2>6. CASE EnqueueEmail(i)
    BY <2>6 DEF EnqueueEmail
  <2>7. CASE Cancel(i)
    <3>1. owed' \in [Invoice -> [InvoiceEvent -> Nat]]
      BY <2>7, <1>0 DEF Cancel, InvoiceEvent
    <3> QED BY <2>7, <3>1 DEF Cancel
  <2>8. CASE MarkViewed(i)
    BY <2>8 DEF MarkViewed
  <2>9. CASE DueDatePasses(i)
    BY <2>9 DEF DueDatePasses
  <2>10. ASSUME NEW e \in InvoiceEvent, Dispatch(i, e) PROVE InvoiceTypeOK'
    BY <2>10 DEF Dispatch
  <2>11. ASSUME NEW e \in InvoiceEvent, Abandon(i, e) PROVE InvoiceTypeOK'
    BY <2>11 DEF Abandon
  <2> QED BY <1>2, <2>1, <2>2, <2>3, <2>4, <2>5, <2>6, <2>7, <2>8, <2>9,
             <2>10, <2>11 DEF InvoiceStep
<1>3. CASE UNCHANGED invoiceVars
  BY <1>3 DEF invoiceVars
<1> QED BY <1>1, <1>2, <1>3 DEF InvoiceNext

(* The table starts empty, with nothing locked and nothing announced.      *)
LEMMA InitInvariant == InvoiceInit => IInv
<1> SUFFICES ASSUME InvoiceInit PROVE IInv
  OBVIOUS
<1>1. InvoiceTypeOK
  BY InvoicesAssumption
  DEF InvoicesAssumption, InvoiceInit, InvoiceTypeOK, Row, Status
<1>2. LockedIsDraft /\ NeverCollected
  BY DEF InvoiceInit, LockedIsDraft, NeverCollected
<1>3. AnnouncedOnceAndTrue
  <2>1. \A i \in Invoice, e \in InvoiceEvent : owed[i][e] = 0 /\ fired[i][e] = 0
    BY DEF InvoiceInit
  <2>2. \A i \in Invoice, e \in InvoiceEvent : Announced(i, e) = 0
    BY <2>1 DEF Announced
  <2> QED BY <2>2 DEF AnnouncedOnceAndTrue
<1> QED BY <1>1, <1>2, <1>3 DEF IInv

(* The lock keeps every other handler off a draft that is being edited,    *)
(* and no handler or job of this module writes a paid status.              *)
LEMMA StepLocks ==
  ASSUME InvoiceTypeOK, LockedIsDraft, NeverCollected, [InvoiceNext]_invoiceVars
  PROVE  LockedIsDraft' /\ NeverCollected'
<1> USE DEF InvoiceTypeOK, Row, LockedIsDraft, NeverCollected
<1>1. CASE OverdueScan
  BY <1>1 DEF OverdueScan, Lapsing
<1>2. ASSUME NEW i \in Invoice, InvoiceStep(i)
      PROVE  LockedIsDraft' /\ NeverCollected'
  <2>1. CASE Create(i)
    BY <2>1 DEF Create
  <2>2. CASE UpdateLock(i)
    BY <2>2 DEF UpdateLock
  <2>3. CASE UpdateCommit(i)
    BY <2>3 DEF UpdateCommit
  <2>4. CASE UpdateRollback(i)
    BY <2>4 DEF UpdateRollback
  <2>5. CASE Send(i)
    BY <2>5 DEF Send
  <2>6. CASE EnqueueEmail(i)
    BY <2>6 DEF EnqueueEmail
  <2>7. CASE Cancel(i)
    BY <2>7 DEF Cancel
  <2>8. CASE MarkViewed(i)
    BY <2>8 DEF MarkViewed
  <2>9. CASE DueDatePasses(i)
    BY <2>9 DEF DueDatePasses
  <2>10. ASSUME NEW e \in InvoiceEvent, Dispatch(i, e) \/ Abandon(i, e)
         PROVE  LockedIsDraft' /\ NeverCollected'
    BY <2>10 DEF Dispatch, Abandon
  <2> QED BY <1>2, <2>1, <2>2, <2>3, <2>4, <2>5, <2>6, <2>7, <2>8, <2>9,
             <2>10 DEF InvoiceStep
<1>3. CASE UNCHANGED invoiceVars
  BY <1>3 DEF invoiceVars
<1> QED BY <1>1, <1>2, <1>3 DEF InvoiceNext

-----------------------------------------------------------------------------
(* What Owe does to the count of announcements: one more for the event it  *)
(* names and the invoices it names, at most; nothing for the others.       *)
LEMMA OweCounts ==
  ASSUME InvoiceTypeOK, NEW S \in SUBSET Invoice, NEW e \in InvoiceEvent,
         Owe(S, e), UNCHANGED fired,
         NEW i \in Invoice, NEW f \in InvoiceEvent
  PROVE  /\ Announced(i, f) \in Nat
         /\ Announced(i, f)' \in {Announced(i, f), Announced(i, f) + 1}
         /\ ~(i \in S /\ f = e) => Announced(i, f)' = Announced(i, f)
<1>1. owed[i] \in [InvoiceEvent -> Nat] /\ owed[i][f] \in Nat /\ fired[i][f] \in Nat
  BY DEF InvoiceTypeOK
<1>2. owed'[i] = IF i \in S /\ e \in Subscribed
                 THEN [owed[i] EXCEPT ![e] = owed[i][e] + 1] ELSE owed[i]
  BY DEF Owe
<1>3. CASE i \in S /\ f = e
  <2>1. owed'[i][f] \in {owed[i][f], owed[i][f] + 1}
    BY <1>1, <1>2, <1>3
  <2> QED BY <2>1, <1>1, <1>3 DEF Announced
<1>4. CASE ~(i \in S /\ f = e)
  <2>1. owed'[i][f] = owed[i][f]
    BY <1>1, <1>2, <1>4
  <2> QED BY <2>1, <1>1, <1>4 DEF Announced
<1> QED BY <1>3, <1>4

(* Dispatching moves an announcement from owed to fired, abandoning drops  *)
(* it: neither adds one.                                                   *)
LEMMA SettleCounts ==
  ASSUME InvoiceTypeOK, NEW j \in Invoice, NEW e \in InvoiceEvent,
         Dispatch(j, e) \/ Abandon(j, e),
         NEW i \in Invoice, NEW f \in InvoiceEvent
  PROVE  /\ Announced(i, f) \in Nat /\ Announced(i, f)' \in Nat
         /\ Announced(i, f)' <= Announced(i, f)
<1>1. owed[i][f] \in Nat /\ fired[i][f] \in Nat
  BY DEF InvoiceTypeOK
<1>2. CASE i = j /\ f = e
  <2>1. owed[i][f] > 0 /\ owed'[i][f] = owed[i][f] - 1
    BY <1>2 DEF InvoiceTypeOK, Dispatch, Abandon
  <2>2. fired'[i][f] \in {fired[i][f], fired[i][f] + 1}
    BY <1>1, <1>2 DEF InvoiceTypeOK, Dispatch, Abandon
  <2> QED BY <1>1, <2>1, <2>2 DEF Announced
<1>3. CASE ~(i = j /\ f = e)
  <2>1. owed'[i][f] = owed[i][f] /\ fired'[i][f] = fired[i][f]
    BY <1>3 DEF InvoiceTypeOK, Dispatch, Abandon
  <2> QED BY <1>1, <2>1 DEF Announced
<1> QED BY <1>2, <1>3

(* A step that owes nothing and moves invoices only forward, to statuses   *)
(* in which whatever was announced remains true, keeps the announcements.  *)
LEMMA QuietStep ==
  ASSUME InvoiceTypeOK, AnnouncedOnceAndTrue, UNCHANGED <<owed, fired>>,
         \A i \in Invoice, e \in InvoiceEvent :
           invoice[i].status \in After(e) => invoice'[i].status \in After(e)
  PROVE  AnnouncedOnceAndTrue'
  BY DEF AnnouncedOnceAndTrue, Announced

(* The same for a step that owes event e for the invoices of S, none of    *)
(* which was in a status that e leads to.                                  *)
LEMMA OweStep ==
  ASSUME InvoiceTypeOK, AnnouncedOnceAndTrue, UNCHANGED fired,
         NEW S \in SUBSET Invoice, NEW e \in InvoiceEvent, Owe(S, e),
         \A i \in S : /\ invoice[i].status \notin After(e)
                      /\ invoice'[i].status \in After(e),
         \A i \in Invoice, f \in InvoiceEvent :
           invoice[i].status \in After(f) => invoice'[i].status \in After(f)
  PROVE  AnnouncedOnceAndTrue'
<1> SUFFICES ASSUME NEW i \in Invoice, NEW f \in InvoiceEvent
             PROVE  /\ Announced(i, f)' <= 1
                    /\ Announced(i, f)' > 0 => invoice'[i].status \in After(f)
  BY DEF AnnouncedOnceAndTrue
<1>1. /\ Announced(i, f) \in Nat
      /\ Announced(i, f)' \in {Announced(i, f), Announced(i, f) + 1}
      /\ ~(i \in S /\ f = e) => Announced(i, f)' = Announced(i, f)
  BY OweCounts
<1>2. /\ Announced(i, f) <= 1
      /\ Announced(i, f) > 0 => invoice[i].status \in After(f)
  BY DEF AnnouncedOnceAndTrue
<1>3. CASE i \in S /\ f = e
  BY <1>1, <1>2, <1>3
<1>4. CASE ~(i \in S /\ f = e)
  BY <1>1, <1>2, <1>4
<1> QED BY <1>3, <1>4

-----------------------------------------------------------------------------
(* Every step announces only what it has just made true.                   *)
LEMMA StepAnnounced ==
  ASSUME InvoiceTypeOK, AnnouncedOnceAndTrue, [InvoiceNext]_invoiceVars
  PROVE  AnnouncedOnceAndTrue'
<1>0. ASSUME NEW i \in Invoice, NEW to, invoice' = [invoice EXCEPT ![i].status = to]
      PROVE  /\ invoice'[i].status = to
             /\ \A j \in Invoice : j # i => invoice'[j].status = invoice[j].status
  BY <1>0 DEF InvoiceTypeOK, Row
<1>1. CASE OverdueScan
  <2> DEFINE S == {i \in Invoice : invoice[i].status \in Lapsing /\ invoice[i].pastDue}
  <2>1. Owe(S, "invoice.overdue") /\ S \in SUBSET Invoice /\ UNCHANGED fired
    BY <1>1 DEF OverdueScan
  <2>2. \A i \in S : /\ invoice[i].status \in Lapsing
                     /\ invoice'[i].status = "overdue"
    BY <1>1 DEF OverdueScan, InvoiceTypeOK, Row
  <2>3. \A i \in Invoice \ S : invoice'[i].status = invoice[i].status
    BY <1>1 DEF OverdueScan, InvoiceTypeOK
  <2>4. \A i \in Invoice, f \in InvoiceEvent :
          invoice[i].status \in After(f) => invoice'[i].status \in After(f)
    BY <2>2, <2>3 DEF After, InvoiceEvent, Lapsing, Status
  <2>5. \A i \in S : /\ invoice[i].status \notin After("invoice.overdue")
                     /\ invoice'[i].status \in After("invoice.overdue")
    BY <2>2 DEF After, Lapsing
  <2>6. "invoice.overdue" \in InvoiceEvent
    BY DEF InvoiceEvent
  <2> HIDE DEF S
  <2> QED BY <2>1, <2>4, <2>5, <2>6, OweStep
<1>2. ASSUME NEW i \in Invoice, InvoiceStep(i) PROVE AnnouncedOnceAndTrue'
  <2>1. CASE Create(i)
    <3>1. /\ invoice[i].status = "absent" /\ invoice'[i].status = "draft"
          /\ \A j \in Invoice : j # i => invoice'[j].status = invoice[j].status
      BY <2>1 DEF Create, InvoiceTypeOK
    <3>2. \A j \in Invoice, f \in InvoiceEvent :
            invoice[j].status \in After(f) => invoice'[j].status \in After(f)
      BY <3>1 DEF After, InvoiceEvent, Status
    <3>3. /\ invoice[i].status \notin After("invoice.created")
          /\ invoice'[i].status \in After("invoice.created")
      BY <3>1 DEF After, Status
    <3>4. "invoice.created" \in InvoiceEvent /\ {i} \in SUBSET Invoice
      BY DEF InvoiceEvent
    <3>5. Owe({i}, "invoice.created") /\ UNCHANGED fired
      BY <2>1 DEF Create
    <3> QED BY <3>2, <3>3, <3>4, <3>5, OweStep
  <2>2. CASE Send(i)
    <3>1. /\ invoice[i].status = "draft" /\ invoice'[i].status = "sent"
          /\ \A j \in Invoice : j # i => invoice'[j].status = invoice[j].status
      BY <2>2, <1>0 DEF Send
    <3>2. \A j \in Invoice, f \in InvoiceEvent :
            invoice[j].status \in After(f) => invoice'[j].status \in After(f)
      BY <3>1 DEF After, InvoiceEvent, Status
    <3>3. /\ invoice[i].status \notin After("invoice.sent")
          /\ invoice'[i].status \in After("invoice.sent")
      BY <3>1 DEF After, Status
    <3>4. "invoice.sent" \in InvoiceEvent /\ {i} \in SUBSET Invoice
      BY DEF InvoiceEvent
    <3>5. Owe({i}, "invoice.sent") /\ UNCHANGED fired
      BY <2>2 DEF Send
    <3> QED BY <3>2, <3>3, <3>4, <3>5, OweStep
  <2>3. CASE Cancel(i)
    <3>1. /\ invoice[i].status \in Cancellable /\ invoice'[i].status = "cancelled"
          /\ \A j \in Invoice : j # i => invoice'[j].status = invoice[j].status
      BY <2>3, <1>0 DEF Cancel
    <3>2. \A j \in Invoice, f \in InvoiceEvent :
            invoice[j].status \in After(f) => invoice'[j].status \in After(f)
      BY <3>1 DEF After, InvoiceEvent, Status
    <3>3. /\ invoice[i].status \notin After("invoice.cancelled")
          /\ invoice'[i].status \in After("invoice.cancelled")
      BY <3>1 DEF After, Cancellable
    <3>4. "invoice.cancelled" \in InvoiceEvent /\ {i} \in SUBSET Invoice
      BY DEF InvoiceEvent
    <3>5. Owe({i}, "invoice.cancelled") /\ UNCHANGED fired
      BY <2>3 DEF Cancel
    <3> QED BY <3>2, <3>3, <3>4, <3>5, OweStep
  <2>4. CASE MarkViewed(i)
    <3>1. /\ invoice[i].status = "sent" /\ invoice'[i].status = "viewed"
          /\ \A j \in Invoice : j # i => invoice'[j].status = invoice[j].status
      BY <2>4, <1>0 DEF MarkViewed
    <3>2. \A j \in Invoice, f \in InvoiceEvent :
            invoice[j].status \in After(f) => invoice'[j].status \in After(f)
      BY <3>1 DEF After, InvoiceEvent, Status
    <3> QED BY <3>2, <2>4, QuietStep DEF MarkViewed
  <2>5. CASE \/ UpdateLock(i) \/ UpdateCommit(i) \/ UpdateRollback(i)
             \/ EnqueueEmail(i) \/ DueDatePasses(i)
    <3>1. /\ UNCHANGED <<owed, fired>>
          /\ \A j \in Invoice : invoice'[j].status = invoice[j].status
      <4>1. CASE UpdateLock(i) \/ UpdateRollback(i) \/ EnqueueEmail(i)
        BY <4>1 DEF UpdateLock, UpdateRollback, EnqueueEmail
      <4>2. CASE UpdateCommit(i)
        BY <4>2 DEF UpdateCommit, InvoiceTypeOK, Row
      <4>3. CASE DueDatePasses(i)
        BY <4>3 DEF DueDatePasses, InvoiceTypeOK, Row
      <4> QED BY <2>5, <4>1, <4>2, <4>3
    <3> QED BY <3>1, QuietStep
  <2>6. ASSUME NEW e \in InvoiceEvent, Dispatch(i, e) \/ Abandon(i, e)
        PROVE  AnnouncedOnceAndTrue'
    <3>1. UNCHANGED invoice
      BY <2>6 DEF Dispatch, Abandon
    <3> SUFFICES ASSUME NEW j \in Invoice, NEW f \in InvoiceEvent
                 PROVE  /\ Announced(j, f)' <= 1
                        /\ Announced(j, f)' > 0 => invoice'[j].status \in After(f)
      BY DEF AnnouncedOnceAndTrue
    <3>2. /\ Announced(j, f) \in Nat /\ Announced(j, f)' \in Nat
          /\ Announced(j, f)' <= Announced(j, f)
      BY <2>6, SettleCounts
    <3>3. /\ Announced(j, f) <= 1
          /\ Announced(j, f) > 0 => invoice[j].status \in After(f)
      BY DEF AnnouncedOnceAndTrue
    <3> QED BY <3>1, <3>2, <3>3
  <2> QED BY <1>2, <2>1, <2>2, <2>3, <2>4, <2>5, <2>6 DEF InvoiceStep
<1>3. CASE UNCHANGED invoiceVars
  BY <1>3, QuietStep DEF invoiceVars
<1> QED BY <1>1, <1>2, <1>3 DEF InvoiceNext

-----------------------------------------------------------------------------
(* The inductive invariant holds in every reachable state.                 *)
THEOREM Invariance == InvoiceSpec => []IInv
<1>1. IInv /\ [InvoiceNext]_invoiceVars => IInv'
  BY InvoiceStepTypes, StepLocks, StepAnnounced DEF IInv
<1> QED BY <1>1, InitInvariant, PTL DEF InvoiceSpec

(* Every variable keeps its type.                                          *)
THEOREM TypeCorrect == InvoiceSpec => []InvoiceTypeOK
  BY Invariance, PTL DEF IInv

(* An invoice under an open edit is still the draft the edit has read.     *)
THEOREM LockedIsDraftAlways == InvoiceSpec => []LockedIsDraft
  BY Invariance, PTL DEF IInv

(* No event is announced twice, nor before what it announces.              *)
THEOREM AnnouncementsAreTrue == InvoiceSpec => []AnnouncedOnceAndTrue
  BY Invariance, PTL DEF IInv

(* The total of an invoice never changes once it has left draft: the only  *)
(* statement that writes a total of an existing row holds the row locked,  *)
(* and a locked row is a draft.                                            *)
THEOREM TotalIsFrozen == InvoiceSpec => TotalFrozenOnceSent
<1> DEFINE A == \A i \in Invoice :
                  invoice[i].status \notin {"absent", "draft"}
                    => invoice'[i].total = invoice[i].total
<1>1. IInv /\ [InvoiceNext]_invoiceVars => [A]_invoiceVars
  <2> SUFFICES ASSUME IInv, InvoiceNext PROVE A
    OBVIOUS
  <2> USE DEF IInv, InvoiceTypeOK, Row, LockedIsDraft
  <2>1. CASE OverdueScan
    BY <2>1 DEF OverdueScan
  <2>2. ASSUME NEW i \in Invoice, InvoiceStep(i) PROVE A
    <3>1. CASE Create(i)
      BY <3>1 DEF Create
    <3>2. CASE UpdateCommit(i)
      <4>1. invoice[i].status = "draft"
        BY <3>2 DEF UpdateCommit
      <4>2. \A j \in Invoice : j # i => invoice'[j] = invoice[j]
        BY <3>2 DEF UpdateCommit
      <4> QED BY <4>1, <4>2
    <3>3. CASE Send(i) \/ Cancel(i) \/ MarkViewed(i) \/ DueDatePasses(i)
      <4>1. PICK to \in Status, late \in BOOLEAN :
              \/ invoice' = [invoice EXCEPT ![i].status = to]
              \/ invoice' = [invoice EXCEPT ![i].pastDue = late]
        BY <3>3 DEF Send, Cancel, MarkViewed, DueDatePasses, Status
      <4>2. invoice'[i].total = invoice[i].total
        BY <4>1
      <4>3. \A j \in Invoice : j # i => invoice'[j] = invoice[j]
        BY <4>1
      <4> QED BY <4>2, <4>3
    <3>4. CASE UNCHANGED invoice
      BY <3>4
    <3> QED BY <2>2, <3>1, <3>2, <3>3, <3>4
            DEF InvoiceStep, UpdateLock, UpdateRollback, EnqueueEmail,
                Dispatch, Abandon
  <2> QED BY <2>1, <2>2 DEF InvoiceNext
<1> QED BY <1>1, Invariance, PTL DEF InvoiceSpec, TotalFrozenOnceSent

-----------------------------------------------------------------------------
(* What the lifecycle never does: it pays no invoice in part.              *)
NeverInPart == \A i \in Invoice : invoice[i].status # "partially_paid"

(* Every step of an invoice handler or the overdue job follows one edge of *)
(* the flow, is one bulk lapse, or changes no status.                      *)
LEMMA InvoiceStepFollows ==
  ASSUME InvoiceTypeOK, NeverInPart, [InvoiceNext]_invoiceVars
  PROVE  [Lifecycle!Next]_([i \in Invoice |-> invoice[i].status])
<1> DEFINE status == [i \in Invoice |-> invoice[i].status]
<1> SUFFICES Lifecycle!Next \/ UNCHANGED status
  OBVIOUS
<1> USE DEF InvoiceTypeOK, Row
<1>0. ASSUME NEW i \in Invoice, NEW to \in Lifecycle!Flow[invoice[i].status],
             status' = [status EXCEPT ![i] = to]
      PROVE  Lifecycle!Next
  BY <1>0 DEF Lifecycle!Next, Lifecycle!Move
<1>1. CASE OverdueScan
  <2> DEFINE S == {i \in Invoice : invoice[i].status \in Lapsing /\ invoice[i].pastDue}
  <2>1. S \in SUBSET {i \in Invoice : status[i] \in {"sent", "viewed"}}
    BY DEF Lapsing, NeverInPart
  <2>2. status' = [i \in Invoice |-> IF i \in S THEN "overdue" ELSE status[i]]
    BY <1>1 DEF OverdueScan
  <2> HIDE DEF S
  <2> QED BY <2>1, <2>2 DEF Lifecycle!Next, Lifecycle!Lapse
<1>2. ASSUME NEW i \in Invoice, InvoiceStep(i)
      PROVE  Lifecycle!Next \/ UNCHANGED status
  <2>1. ASSUME NEW to, invoice'[i].status = to,
               to \in Lifecycle!Flow[invoice[i].status],
               \A j \in Invoice : j # i => invoice'[j] = invoice[j]
        PROVE  Lifecycle!Next
    <3>1. status' = [status EXCEPT ![i] = to]
      BY <2>1
    <3> QED BY <3>1, <2>1, <1>0
  <2>2. CASE Create(i)
    BY <2>2, <2>1 DEF Create, Lifecycle!Flow
  <2>3. CASE Send(i)
    BY <2>3, <2>1 DEF Send, Lifecycle!Flow
  <2>4. CASE Cancel(i)
    BY <2>4, <2>1 DEF Cancel, Cancellable, Lifecycle!Flow
  <2>5. CASE MarkViewed(i)
    BY <2>5, <2>1 DEF MarkViewed, Lifecycle!Flow
  <2>6. CASE UpdateCommit(i)
    BY <2>6 DEF UpdateCommit
  <2>7. CASE DueDatePasses(i)
    BY <2>7 DEF DueDatePasses
  <2>8. CASE UNCHANGED invoice
    BY <2>8
  <2> QED BY <1>2, <2>2, <2>3, <2>4, <2>5, <2>6, <2>7, <2>8
          DEF InvoiceStep, UpdateLock, UpdateRollback, EnqueueEmail,
              Dispatch, Abandon
<1>3. CASE UNCHANGED invoiceVars
  BY <1>3 DEF invoiceVars
<1> QED BY <1>1, <1>2, <1>3 DEF InvoiceNext

(* The invoice handlers and the overdue job implement InvoiceLifecycle.    *)
THEOREM Implementation == InvoiceSpec => FollowsLifecycle
<1> DEFINE status == [i \in Invoice |-> invoice[i].status]
<1>1. InvoiceInit => Lifecycle!Init
  BY DEF InvoiceInit, Lifecycle!Init
<1>2. IInv /\ [InvoiceNext]_invoiceVars => [Lifecycle!Next]_status
  BY InvoiceStepFollows DEF IInv, NeverCollected, NeverInPart
<1> QED BY <1>1, <1>2, Invariance, PTL
        DEF InvoiceSpec, FollowsLifecycle, Lifecycle!Spec
=============================================================================
