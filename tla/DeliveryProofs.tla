--------------------------- MODULE DeliveryProofs ---------------------------
(***************************************************************************)
(* Proofs about Delivery, for any subscriptions, events, urls and limits.  *)
(***************************************************************************)
EXTENDS Delivery, FiniteSetTheorems, TLAPS

(* What holds of one job by itself.  The last conjunct is why a job can be *)
(* given its url when it is selected, and its first attempt when it is     *)
(* pushed.                                                                 *)
RowFits(row) ==
  /\ row \in JobRow
  /\ row.told \subseteq {row.url}
  /\ row.heard + (IF row.pc \in {"queued", "calling"} THEN 1 ELSE 0) <= row.attempt
  /\ row.pc \in {"none", "selected"} => row.told = {} /\ row.heard = 0

JobsFit ==
  /\ job \in [Job -> JobRow]
  /\ \A j \in Job : /\ RowFits(job[j])
                    /\ j[1] \notin dispatched => job[j].pc = "none"

RowsTyped ==
  /\ subscription \in [Sub -> [status : SubscriptionStatus, url : Url]]
  /\ dispatched \in SUBSET Occurrence

IInv == RowsTyped /\ JobsFit

-----------------------------------------------------------------------------
(* A step of one job keeps JobsFit when the job's own row fits.            *)
LEMMA OneJob ==
  ASSUME JobsFit, NEW j \in Job, job[j].pc # "none",
         NEW row, RowFits(row), job' = [job EXCEPT ![j] = row],
         dispatched' = dispatched
  PROVE  JobsFit'
<1>1. job' \in [Job -> JobRow]
  BY DEF JobsFit, RowFits
<1>2. ASSUME NEW k \in Job
      PROVE  RowFits(job[k])' /\ (k[1] \notin dispatched => job[k].pc = "none")'
  <2>1. CASE k = j
    <3>1. job'[k] = row
      BY <2>1 DEF JobsFit
    <3>2. j[1] \in dispatched
      BY DEF JobsFit
    <3>3. QED
      BY <2>1, <3>1, <3>2 DEF RowFits
  <2>2. CASE k # j
    BY <2>2 DEF JobsFit, RowFits
  <2>3. QED
    BY <2>1, <2>2
<1>3. QED
  BY <1>1, <1>2 DEF JobsFit

(* A job whose attempt failed is queued again or given up, and fits.       *)
LEMMA FailureFits ==
  ASSUME NEW row \in JobRow, row.told \subseteq {row.url},
         row.heard <= row.attempt
  PROVE  RowFits(AfterFailure(row))
<1>1. MaxAttempts \in Nat \ {0}
  BY DeliveryAssumption DEF DeliveryAssumption
<1>2. CASE row.attempt < MaxAttempts
  <2>1. PICK next : next = AfterFailure(row)
    OBVIOUS
  <2>2. next = [row EXCEPT !.pc = "queued", !.attempt = row.attempt + 1]
    BY <1>2, <2>1, Zenon DEF AfterFailure
  <2> PICK mid : mid = [row EXCEPT !.pc = "queued"]
    OBVIOUS
  <2>a. next = [mid EXCEPT !.attempt = row.attempt + 1]
    BY <2>2, Zenon
  <2>3. /\ next \in JobRow /\ next.told = row.told /\ next.url = row.url
        /\ next.heard = row.heard /\ next.attempt = row.attempt + 1
        /\ next.pc = "queued"
    <3>1. /\ row.attempt \in 1..MaxAttempts /\ row.attempt + 1 \in 1..MaxAttempts
          /\ mid \in JobRow
      BY <1>1, <1>2 DEF JobRow, JobPC
    <3>2. QED
      BY <2>a, <3>1 DEF JobRow, JobPC
  <2>4. next.heard + 1 <= next.attempt
    BY <1>1, <2>3 DEF JobRow
  <2>5. QED
    BY <2>1, <2>3, <2>4 DEF RowFits
<1>3. CASE ~(row.attempt < MaxAttempts)
  <2>1. PICK next : next = AfterFailure(row)
    OBVIOUS
  <2>2. next = [row EXCEPT !.pc = "dead"]
    BY <1>3, <2>1, Zenon DEF AfterFailure
  <2>3. /\ next \in JobRow /\ next.told = row.told /\ next.url = row.url
        /\ next.heard = row.heard /\ next.attempt = row.attempt
        /\ next.pc = "dead"
    BY <2>2 DEF JobRow, JobPC
  <2>4. next.heard + 0 <= next.attempt
    BY <1>1, <2>3 DEF JobRow
  <2>5. QED
    BY <2>1, <2>3, <2>4 DEF RowFits
<1>4. QED
  BY <1>2, <1>3

(* A request that arrives is within the budget: it was the attempt's own.  *)
LEMMA ReachedFits ==
  ASSUME NEW row \in JobRow, RowFits(row), row.pc = "calling"
  PROVE  /\ Reached(row) \in JobRow
         /\ Reached(row).told \subseteq {Reached(row).url}
         /\ Reached(row).heard <= Reached(row).attempt
<1>1. MaxAttempts \in Nat \ {0}
  BY DeliveryAssumption DEF DeliveryAssumption
<1>2. row.heard + 1 <= row.attempt
  BY DEF RowFits
<1>3. PICK next : next = Reached(row)
  OBVIOUS
<1>4. next = [row EXCEPT !.told = row.told \cup {row.url}, !.heard = row.heard + 1]
  BY <1>3, Zenon DEF Reached
<1> PICK mid : mid = [row EXCEPT !.told = row.told \cup {row.url}]
  OBVIOUS
<1>a. next = [mid EXCEPT !.heard = row.heard + 1]
  BY <1>4, Zenon
<1>5. /\ next.told = row.told \cup {row.url} /\ next.heard = row.heard + 1
      /\ next.url = row.url /\ next.attempt = row.attempt
      /\ next.heard \in 0..MaxAttempts /\ next.told \subseteq Url
  BY <1>1, <1>2, <1>a DEF JobRow
<1>6. next \in JobRow
  BY <1>a, <1>5 DEF JobRow
<1>7. QED
  BY <1>2, <1>3, <1>5, <1>6 DEF RowFits

-----------------------------------------------------------------------------
LEMMA InitFits == Init => IInv
<1> SUFFICES ASSUME Init PROVE IInv
  OBVIOUS
<1>1. MaxAttempts \in Nat \ {0}
  BY DeliveryAssumption DEF DeliveryAssumption
<1>2. PICK u \in Url :
        /\ subscription = [s \in Sub |-> [status |-> "absent", url |-> u]]
        /\ job = [j \in Job |-> [pc |-> "none", url |-> u, attempt |-> 1,
                                 told |-> {}, heard |-> 0]]
  BY DEF Init
<1>3. RowFits([pc |-> "none", url |-> u, attempt |-> 1, told |-> {}, heard |-> 0])
  BY <1>1 DEF RowFits, JobRow, JobPC
<1>4. JobsFit
  BY <1>2, <1>3 DEF JobsFit, RowFits
<1>5. RowsTyped
  BY <1>2 DEF RowsTyped, SubscriptionStatus, Init
<1>6. QED
  BY <1>4, <1>5 DEF IInv

LEMMA StepFits == IInv /\ [Next]_vars => IInv'
<1> SUFFICES ASSUME IInv, [Next]_vars PROVE IInv'
  OBVIOUS
<1> USE DEF IInv
<1>1. ASSUME NEW s \in Sub,
             CreateSubscription(s) \/ UpdateSubscription(s) \/ DeleteSubscription(s)
      PROVE  IInv'
  <2>1. JobsFit'
    BY <1>1 DEF CreateSubscription, UpdateSubscription, DeleteSubscription, JobsFit
  <2>2. RowsTyped'
    BY <1>1 DEF CreateSubscription, UpdateSubscription, DeleteSubscription,
                RowsTyped, SubscriptionStatus
  <2>3. QED
    BY <2>1, <2>2
<1>2. ASSUME NEW o \in Occurrence, SelectSubscriptions(o) PROVE IInv'
  <2>1. RowsTyped'
    BY <1>2 DEF SelectSubscriptions, RowsTyped
  <2>2. ASSUME NEW j \in Job
        PROVE  RowFits(job'[j]) /\ (j[1] \notin dispatched' => job'[j].pc = "none")
    <3>1. CASE j[1] = o /\ subscription[j[2]].status = "active"
      <4>1. job[j].pc = "none" /\ RowFits(job[j])
        BY <1>2, <3>1 DEF SelectSubscriptions, JobsFit
      <4>2. PICK url : url = subscription[j[2]].url
        OBVIOUS
      <4>3. j[2] \in Sub /\ url \in Url
        BY <4>2 DEF Job, RowsTyped
      <4>4. job'[j] = [job[j] EXCEPT !.pc = "selected", !.url = url]
        BY <1>2, <3>1, <4>2, Zenon DEF SelectSubscriptions
      <4>5. PICK mid : mid = [job[j] EXCEPT !.pc = "selected"]
        OBVIOUS
      <4>6. job'[j] = [mid EXCEPT !.url = url]
        BY <4>4, <4>5, Zenon
      <4>7. PICK row : row = [mid EXCEPT !.url = url]
        OBVIOUS
      <4>8. RowFits(row) /\ job'[j] = row
        BY <4>1, <4>3, <4>5, <4>6, <4>7 DEF RowFits, JobRow, JobPC
      <4>9. QED
        BY <1>2, <3>1, <4>8 DEF SelectSubscriptions
    <3>2. CASE ~(j[1] = o /\ subscription[j[2]].status = "active")
      <4>1. job'[j] = job[j]
        BY <1>2, <3>2, Zenon DEF SelectSubscriptions
      <4>2. QED
        BY <1>2, <4>1 DEF SelectSubscriptions, JobsFit
    <3>3. QED
      BY <3>1, <3>2
  <2>3. job' \in [Job -> JobRow]
    <3>1. job' = [j \in Job |-> job'[j]]
      BY <1>2 DEF SelectSubscriptions
    <3>2. QED
      BY <2>2, <3>1 DEF RowFits
  <2>4. JobsFit'
    BY <2>2, <2>3 DEF JobsFit, RowFits
  <2>5. QED
    BY <2>1, <2>4
<1>3. ASSUME NEW j \in Job,
             Push(j) \/ LosePush(j) \/ Attempt(j) \/ Outcome(j)
      PROVE  IInv'
  <2>1. RowFits(job[j])
    BY DEF JobsFit
  <2>2. RowsTyped'
    BY <1>3 DEF Push, LosePush, Attempt, Start, Reject, Outcome, Delivered, Refused,
                Unanswered, RowsTyped
  <2>3. /\ dispatched' = dispatched
        /\ job[j].pc # "none"
    BY <1>3 DEF Push, LosePush, Attempt, Start, Reject, Outcome, Delivered, Refused,
                Unanswered
  <2>4. \E row : RowFits(row) /\ job' = [job EXCEPT ![j] = row]
    <3>1. CASE Push(j)
      <4>1. PICK row : row = [job[j] EXCEPT !.pc = "queued"]
        OBVIOUS
      <4>2. RowFits(row)
        BY <2>1, <3>1, <4>1 DEF Push, RowFits, JobRow, JobPC
      <4>3. QED
        BY <3>1, <4>1, <4>2 DEF Push
    <3>2. CASE LosePush(j)
      <4>1. PICK row : row = [job[j] EXCEPT !.pc = "lost"]
        OBVIOUS
      <4>2. RowFits(row)
        BY <2>1, <3>2, <4>1 DEF LosePush, RowFits, JobRow, JobPC
      <4>3. QED
        BY <3>2, <4>1, <4>2 DEF LosePush
    <3>3. CASE Start(j)
      <4>1. PICK row : row = [job[j] EXCEPT !.pc = "calling"]
        OBVIOUS
      <4>2. RowFits(row)
        BY <2>1, <3>3, <4>1 DEF Start, RowFits, JobRow, JobPC
      <4>3. QED
        BY <3>3, <4>1, <4>2 DEF Start
    <3>4. CASE Reject(j)
      <4>1. job[j].heard <= job[j].attempt
        BY <2>1, <3>4 DEF Reject, RowFits, JobRow
      <4>2. RowFits(AfterFailure(job[j]))
        BY <2>1, <4>1, FailureFits DEF RowFits
      <4>3. QED
        BY <3>4, <4>2, Zenon DEF Reject
    <3>5. ASSUME Delivered(j)
          PROVE  \E row : RowFits(row) /\ job' = [job EXCEPT ![j] = row]
      <4>1. PICK mid : mid = Reached(job[j])
        OBVIOUS
      <4>2. /\ mid \in JobRow /\ mid.told \subseteq {mid.url}
            /\ mid.heard <= mid.attempt
        BY <2>1, <3>5, <4>1, ReachedFits DEF Delivered, RowFits
      <4>3. PICK row : row = [mid EXCEPT !.pc = "done"]
        OBVIOUS
      <4>4. RowFits(row)
        BY <4>2, <4>3 DEF RowFits, JobRow, JobPC
      <4>5. job' = [job EXCEPT ![j] = row]
        BY <3>5, <4>1, <4>3, Zenon DEF Delivered
      <4>6. QED
        BY <4>4, <4>5
    <3>6. CASE Refused(j)
      <4>1. RowFits(AfterFailure(Reached(job[j])))
        BY <2>1, <3>6, ReachedFits, FailureFits DEF Refused, RowFits
      <4>2. QED
        BY <3>6, <4>1, Zenon DEF Refused
    <3>7. CASE Unanswered(j)
      <4>1. job[j].pc = "calling" /\ job[j].heard <= job[j].attempt
        BY <2>1, <3>7 DEF Unanswered, RowFits, JobRow
      <4>2. RowFits(AfterFailure(job[j]))
        BY <2>1, <4>1, FailureFits DEF RowFits
      <4>3. RowFits(AfterFailure(Reached(job[j])))
        BY <2>1, <4>1, ReachedFits, FailureFits DEF RowFits
      <4>4. PICK row \in {job[j], Reached(job[j])} :
              job' = [job EXCEPT ![j] = AfterFailure(row)]
        BY <3>7, Zenon DEF Unanswered
      <4>5. QED
        BY <4>2, <4>3, <4>4, Zenon
    <3>8. QED
      BY <1>3, <3>1, <3>2, <3>3, <3>4, <3>5, <3>6, <3>7 DEF Attempt, Outcome
  <2>5. JobsFit'
    BY <2>3, <2>4, OneJob
  <2>6. QED
    BY <2>2, <2>5
<1>4. CASE TimePasses
  BY <1>4 DEF TimePasses, RowsTyped, JobsFit
<1>5. CASE UNCHANGED vars
  BY <1>5 DEF vars, RowsTyped, JobsFit
<1>6. QED
  BY <1>1, <1>2, <1>3, <1>4, <1>5 DEF Next

THEOREM Invariance == Spec => []IInv
<1>1. Init => IInv
  BY InitFits
<1>2. IInv /\ [Next]_vars => IInv'
  BY StepFits
<1>3. QED
  BY <1>1, <1>2, PTL DEF Spec

(* Type correctness.                                                       *)
THEOREM TypeCorrect == Spec => []DeliveryTypeOK
<1>1. IInv => DeliveryTypeOK
  BY DEF IInv, RowsTyped, JobsFit, DeliveryTypeOK
<1>2. QED
  BY <1>1, Invariance, PTL

(* The retries of one event stay with one endpoint, whatever happens to    *)
(* the subscription.                                                       *)
THEOREM OneEndpoint == Spec => []OneEndpointPerEvent
<1>1. ASSUME IInv, NEW j \in Job
      PROVE  Cardinality(job[j].told) <= 1
  <2>1. job[j].told \subseteq {job[j].url}
    BY <1>1 DEF IInv, JobsFit, RowFits
  <2>2. CASE job[j].told = {}
    BY <2>2, FS_EmptySet
  <2>3. CASE job[j].told = {job[j].url}
    <3>1. PICK u : u = job[j].url
      OBVIOUS
    <3>2. Cardinality({u}) = 1
      BY FS_Singleton, Zenon
    <3>3. job[j].told = {u}
      BY <2>3, <3>1
    <3>4. QED
      BY <3>2, <3>3
  <2>4. QED
    BY <2>1, <2>2, <2>3
<1>2. IInv => OneEndpointPerEvent
  BY <1>1 DEF OneEndpointPerEvent
<1>3. QED
  BY <1>2, Invariance, PTL

(* No subscriber hears of one event more often than there are attempts.    *)
THEOREM WithinBudget == Spec => []HeardWithinBudget
<1>1. IInv => HeardWithinBudget
  BY DEF IInv, JobsFit, RowFits, HeardWithinBudget
<1>2. QED
  BY <1>1, Invariance, PTL

(* The deliveries of all jobs together are a behaviour of CircuitBreaker,  *)
(* whose theorems therefore hold of the breaker the worker shares.         *)
THEOREM Implementation == Spec => UsesBreaker
<1>1. Init => Breaker!Init
  BY DEF Init
<1>2. [Next]_vars => [Breaker!Next]_(Breaker!vars)
  <2> SUFFICES ASSUME [Next]_vars PROVE [Breaker!Next]_(Breaker!vars)
    OBVIOUS
  <2>1. ASSUME UNCHANGED breakerVars PROVE UNCHANGED Breaker!vars
    BY <2>1 DEF breakerVars, Breaker!vars, Breaker!inner, Breaker!history
  <2>2. CASE TimePasses
    BY <2>2 DEF TimePasses, Breaker!Next
  <2>3. ASSUME NEW j \in Job, Attempt(j) \/ Outcome(j)
        PROVE  [Breaker!Next]_(Breaker!vars)
    <3>1. CASE Start(j)
      BY <3>1, Zenon DEF Start, Breaker!Next
    <3>2. CASE Reject(j)
      BY <2>1, <3>2, Zenon DEF Reject
    <3>3. CASE Delivered(j)
      BY <3>3, Zenon DEF Delivered, Breaker!Next
    <3>4. CASE Refused(j)
      BY <3>4, Zenon DEF Refused, Breaker!Next
    <3>5. CASE Unanswered(j)
      BY <3>5, Zenon DEF Unanswered, Breaker!Next
    <3>6. QED
      BY <2>3, <3>1, <3>2, <3>3, <3>4, <3>5 DEF Attempt, Outcome
  <2>4. ASSUME NEW j \in Job, Push(j) \/ LosePush(j)
        PROVE  UNCHANGED breakerVars
    BY <2>4 DEF Push, LosePush
  <2>5. ASSUME NEW s \in Sub,
               CreateSubscription(s) \/ UpdateSubscription(s) \/ DeleteSubscription(s)
        PROVE  UNCHANGED breakerVars
    BY <2>5 DEF CreateSubscription, UpdateSubscription, DeleteSubscription
  <2>6. ASSUME NEW o \in Occurrence, SelectSubscriptions(o)
        PROVE  UNCHANGED breakerVars
    BY <2>6 DEF SelectSubscriptions
  <2>7. CASE UNCHANGED vars
    BY <2>1, <2>7 DEF vars
  <2>8. QED
    BY <2>1, <2>2, <2>3, <2>4, <2>5, <2>6, <2>7 DEF Next
<1>3. QED
  BY <1>1, <1>2, PTL DEF Spec, UsesBreaker, Breaker!Spec
=============================================================================
