------------------------------ MODULE Delivery ------------------------------
(***************************************************************************)
(* Outbound webhooks: the subscriptions                                    *)
(* (src/modules/webhook_subscription/mod.rs), the fan-out of an event      *)
(* (dispatch_webhooks in src/jobs/mod.rs) and the worker that delivers it  *)
(* (src/jobs/webhook_delivery.rs) through one circuit breaker, shared by   *)
(* all subscribers: this module composes the worker with CircuitBreaker.   *)
(*                                                                         *)
(* The queue keeps a job until its handler returned Ok or used up its      *)
(* attempts; the policy is RetryPolicy::retries, without a backoff.  That  *)
(* a subscription is not active, or does not list the event, is the same   *)
(* to the fan-out: both are "inactive".  The handler writes nothing else,  *)
(* and the /test endpoint nothing at all.                                  *)
(***************************************************************************)
EXTENDS Naturals, FiniteSets

CONSTANTS
  Sub,          \* subscriptions
  Occurrence,   \* events announced by the rest of the system
  Url,
  MaxAttempts,  \* 1 + the retries of the worker
  FailureThreshold, SuccessThreshold, Cooldown

ASSUME DeliveryAssumption == MaxAttempts \in Nat \ {0} /\ Url # {}

(* The fan-out makes one job for each pair.                                *)
Job == Occurrence \X Sub

VARIABLES
  subscription,  \* the rows
  dispatched,    \* occurrences whose fan-out has read the subscriptions
  job,           \* ... and its jobs, with the url they took along
  state, failures, successes, opened_at, age, running, losses, wins

Breaker == INSTANCE CircuitBreaker WITH Call <- Job

breakerVars == <<state, failures, successes, opened_at, age, running, losses, wins>>
vars == <<subscription, dispatched, job, breakerVars>>

SubscriptionStatus == {"absent", "active", "inactive", "deleted"}
JobPC == {"none", "selected", "lost", "queued", "calling", "done", "dead"}

(* told: the endpoints that saw a request of this job; heard: how many.    *)
JobRow == [pc : JobPC, url : Url, attempt : 1..MaxAttempts,
           told : SUBSET Url, heard : 0..MaxAttempts]

DeliveryTypeOK ==
  /\ subscription \in [Sub -> [status : SubscriptionStatus, url : Url]]
  /\ dispatched \in SUBSET Occurrence
  /\ job \in [Job -> JobRow]

Init ==
  /\ \E u \in Url :
       /\ subscription = [s \in Sub |-> [status |-> "absent", url |-> u]]
       /\ job = [j \in Job |-> [pc |-> "none", url |-> u, attempt |-> 1,
                                told |-> {}, heard |-> 0]]
  /\ dispatched = {}
  /\ Breaker!Init

-----------------------------------------------------------------------------
(* POST, PATCH and DELETE /webhook-subscriptions, one statement each.      *)
CreateSubscription(s) ==
  /\ subscription[s].status = "absent"
  /\ \E u \in Url :
       subscription' = [subscription EXCEPT ![s] = [status |-> "active", url |-> u]]
  /\ UNCHANGED <<dispatched, job, breakerVars>>

UpdateSubscription(s) ==
  /\ subscription[s].status \in {"active", "inactive"}
  /\ \E u \in Url, status \in {"active", "inactive"} :
       subscription' = [subscription EXCEPT ![s] = [status |-> status, url |-> u]]
  /\ UNCHANGED <<dispatched, job, breakerVars>>

DeleteSubscription(s) ==
  /\ subscription[s].status \in {"active", "inactive"}
  /\ subscription' = [subscription EXCEPT ![s].status = "deleted"]
  /\ UNCHANGED <<dispatched, job, breakerVars>>

-----------------------------------------------------------------------------
(* dispatch_webhooks reads the matching subscriptions in one statement ... *)
SelectSubscriptions(o) ==
  /\ o \notin dispatched
  /\ dispatched' = dispatched \cup {o}
  /\ job' = [j \in Job |->
               IF j[1] = o /\ subscription[j[2]].status = "active"
               THEN [job[j] EXCEPT !.pc = "selected", !.url = subscription[j[2]].url]
               ELSE job[j]]
  /\ UNCHANGED <<subscription, breakerVars>>

(* ... and pushes a job for each.  A push that fails is logged; a process  *)
(* that stops here loses all that are left.                                *)
Push(j) ==
  /\ job[j].pc = "selected"
  /\ job' = [job EXCEPT ![j].pc = "queued"]
  /\ UNCHANGED <<subscription, dispatched, breakerVars>>

LosePush(j) ==
  /\ job[j].pc = "selected"
  /\ job' = [job EXCEPT ![j].pc = "lost"]
  /\ UNCHANGED <<subscription, dispatched, breakerVars>>

-----------------------------------------------------------------------------
(* Mutant: the breaker is asked, and its answer not awaited. *)
StartAnyway(j) ==
  /\ job[j].pc = "queued"
  /\ job' = [job EXCEPT ![j].pc = "calling"]
  /\ running' = running \cup {j}
  /\ UNCHANGED <<subscription, dispatched, state, failures, successes, opened_at,
                 age, losses, wins>>

(* Mutant: the url is looked up for every attempt. *)
StartAfresh(j) ==
  /\ job[j].pc = "queued"
  /\ Breaker!Admit(j)
  /\ job' = [job EXCEPT ![j].pc = "calling", ![j].url = subscription[j[2]].url]
  /\ UNCHANGED <<subscription, dispatched>>

(* handle, the breaker lets the attempt pass: the request is on its way.   *)
Start(j) ==
  /\ job[j].pc = "queued"
  /\ Breaker!Admit(j)
  /\ job' = [job EXCEPT ![j].pc = "calling"]
  /\ UNCHANGED <<subscription, dispatched>>

(* Mutant: one attempt too many. *)
AfterFailureLate(row) ==
  IF row.attempt <= MaxAttempts
  THEN [row EXCEPT !.pc = "queued", !.attempt = @ + 1]
  ELSE [row EXCEPT !.pc = "dead"]

(* The handler failed: the next attempt, or none.                          *)
AfterFailure(row) ==
  IF row.attempt < MaxAttempts
  THEN [row EXCEPT !.pc = "queued", !.attempt = @ + 1]
  ELSE [row EXCEPT !.pc = "dead"]

Reached(row) == [row EXCEPT !.told = @ \cup {row.url}, !.heard = @ + 1]

(* Mutant: a rejection is not an attempt. *)
RejectFree(j) ==
  /\ job[j].pc = "queued"
  /\ state = "open" /\ Breaker!Elapsed < Cooldown
  /\ UNCHANGED vars

(* The breaker is open: the attempt is over at once.                       *)
Reject(j) ==
  /\ job[j].pc = "queued"
  /\ state = "open" /\ Breaker!Elapsed < Cooldown
  /\ job' = [job EXCEPT ![j] = AfterFailure(@)]
  /\ UNCHANGED <<subscription, dispatched, breakerVars>>

(* The subscriber answers 2xx.                                             *)
Delivered(j) ==
  /\ job[j].pc = "calling"
  /\ Breaker!Succeed(j)
  /\ job' = [job EXCEPT ![j] = [Reached(@) EXCEPT !.pc = "done"]]
  /\ UNCHANGED <<subscription, dispatched>>

(* Mutant: an answer of any kind costs no attempt. *)
RefusedFree(j) ==
  /\ job[j].pc = "calling"
  /\ Breaker!Succeed(j)
  /\ job' = [job EXCEPT ![j] = [Reached(@) EXCEPT !.pc = "queued"]]
  /\ UNCHANGED <<subscription, dispatched>>

(* It answers something else: a failure of the job and, as an answer came, *)
(* a success to the breaker.                                               *)
Refused(j) ==
  /\ job[j].pc = "calling"
  /\ Breaker!Succeed(j)
  /\ job' = [job EXCEPT ![j] = AfterFailure(Reached(@))]
  /\ UNCHANGED <<subscription, dispatched>>

(* No answer comes, whether or not the request arrived.                    *)
Unanswered(j) ==
  /\ job[j].pc = "calling"
  /\ Breaker!Fail(j)
  /\ \E row \in {job[j], Reached(job[j])} :
       job' = [job EXCEPT ![j] = AfterFailure(row)]
  /\ UNCHANGED <<subscription, dispatched>>

TimePasses ==
  /\ Breaker!Tick
  /\ UNCHANGED <<subscription, dispatched, job>>

Attempt(j) == Start(j) \/ Reject(j)
Outcome(j) == Delivered(j) \/ Refused(j) \/ Unanswered(j)

Next ==
  \/ TimePasses
  \/ \E s \in Sub :
       CreateSubscription(s) \/ UpdateSubscription(s) \/ DeleteSubscription(s)
  \/ \E o \in Occurrence : SelectSubscriptions(o)
  \/ \E j \in Job : Push(j) \/ LosePush(j) \/ Attempt(j) \/ Outcome(j)

Spec == Init /\ [][Next]_vars

(* The worker keeps polling its queue, and its client times out.           *)
Fairness == \A j \in Job : WF_vars(Attempt(j)) /\ WF_vars(Outcome(j))

FairSpec == Spec /\ Fairness

-----------------------------------------------------------------------------
(* "a subscription edit after the job was enqueued doesn't mis-route the   *)
(* delivery to a new URL": however often one event is retried, and         *)
(* whatever happens to its subscription meanwhile, its requests go to one  *)
(* endpoint only.                                                          *)
OneEndpointPerEvent == \A j \in Job : Cardinality(job[j].told) <= 1

(* A subscriber sees one event no more often than the worker has attempts, *)
(* and an attempt that the open breaker rejected is not made up for.       *)
HeardWithinBudget ==
  \A j \in Job :
    job[j].heard + (IF job[j].pc \in {"queued", "calling"} THEN 1 ELSE 0)
      <= job[j].attempt

(* Concurrent deliveries to any number of subscribers use the breaker as   *)
(* it is meant to be used: together they are one of its behaviours.        *)
UsesBreaker == Breaker!Spec

(* Every job that was queued is settled, delivered or given up: an open    *)
(* breaker delays none for ever.                                           *)
EveryJobSettles ==
  \A j \in Job : job[j].pc = "queued" ~> job[j].pc \in {"done", "dead"}
=============================================================================
