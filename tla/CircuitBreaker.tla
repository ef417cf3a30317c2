--------------------------- MODULE CircuitBreaker ---------------------------
(***************************************************************************)
(* The breaker around calls to Stripe, the mail service and subscribers'   *)
(* webhooks (src/circuit_breaker/mod.rs), shared by concurrent callers.    *)
(*                                                                         *)
(* `call' takes the lock twice: before the wrapped future, to admit or     *)
(* reject, and after it, to count the outcome.  The lock is free while the *)
(* future runs, so the state may have changed any number of times between  *)
(* the two, and a future that is dropped is never counted.  A rejected     *)
(* call changes nothing and is not a step.                                 *)
(***************************************************************************)
EXTENDS Naturals, FiniteSets

CONSTANTS
  Call,               \* calls that can be in progress at once
  FailureThreshold,
  SuccessThreshold,
  Cooldown            \* in ticks

ASSUME BreakerAssumption ==
  /\ IsFiniteSet(Call)
  /\ FailureThreshold \in Nat \ {0}
  /\ SuccessThreshold \in Nat \ {0}
  /\ Cooldown \in Nat

VARIABLES
  state,
  failures,
  successes,
  opened_at,  \* None, or Some of an instant
  age,        \* ... and the time since that instant, up to Cooldown
  running,    \* calls whose future was started and has not resolved
  losses,     \* history: failures since a call last succeeded, up to FailureThreshold
  wins        \* history: successes since a call last failed, up to SuccessThreshold

inner == <<state, failures, successes, opened_at, age>>
history == <<losses, wins>>
vars == <<inner, running, history>>

TypeOK ==
  /\ state \in {"closed", "open", "half-open"}
  /\ failures \in Nat
  /\ successes \in Nat
  /\ opened_at \in {"None", "Some"}
  /\ age \in 0..Cooldown
  /\ running \in SUBSET Call
  /\ losses \in 0..FailureThreshold
  /\ wins \in 0..SuccessThreshold

Init ==
  /\ state = "closed"
  /\ failures = 0
  /\ successes = 0
  /\ opened_at = "None"
  /\ age = 0
  /\ running = {}
  /\ losses = 0
  /\ wins = 0

-----------------------------------------------------------------------------
(* Mutant: the cooldown is measured from the call that asks. *)
ElapsedNow == 0

Elapsed == IF opened_at = "Some" THEN age ELSE 0

(* Mutants: an open breaker rejects nothing, or probes without a cooldown. *)
AdmitOpen(c) ==
  /\ c \notin running
  /\ running' = running \cup {c}
  /\ UNCHANGED <<inner, history>>

AdmitEarly(c) ==
  /\ c \notin running
  /\ running' = running \cup {c}
  /\ IF state = "open"
     THEN state' = "half-open" /\ successes' = 0 /\ failures' = 0
     ELSE UNCHANGED <<state, successes, failures>>
  /\ UNCHANGED <<opened_at, age, history>>

(* The pre-call section, and the start of the future. *)
Admit(c) ==
  /\ c \notin running
  /\ state = "open" => Elapsed >= Cooldown
  /\ running' = running \cup {c}
  /\ IF state = "open"
     THEN state' = "half-open" /\ successes' = 0 /\ failures' = 0
     ELSE UNCHANGED <<state, successes, failures>>
  /\ UNCHANGED <<opened_at, age, history>>

(* The post-call section for Ok. *)
Succeed(c) ==
  /\ c \in running
  /\ running' = running \ {c}
  /\ failures' = 0
  /\ \/ /\ state = "half-open"
        /\ successes + 1 >= SuccessThreshold
        /\ state' = "closed" /\ successes' = 0 /\ opened_at' = "None"
     \/ /\ state = "half-open"
        /\ successes + 1 < SuccessThreshold
        /\ successes' = successes + 1
        /\ UNCHANGED <<state, opened_at>>
     \/ /\ state # "half-open"
        /\ UNCHANGED <<state, successes, opened_at>>
  /\ losses' = 0
  /\ wins' = IF wins < SuccessThreshold THEN wins + 1 ELSE wins
  /\ UNCHANGED age

(* Mutants: the threshold is off by one, one way or the other. *)
ShouldOpenEarly ==
  \/ state = "half-open"
  \/ state = "closed" /\ failures + 2 >= FailureThreshold
ShouldOpenLate ==
  \/ state = "half-open"
  \/ state = "closed" /\ failures >= FailureThreshold

(* The post-call section for Err. *)
ShouldOpen ==
  \/ state = "half-open"
  \/ state = "closed" /\ failures + 1 >= FailureThreshold

Fail(c) ==
  /\ c \in running
  /\ running' = running \ {c}
  /\ successes' = 0
  /\ failures' = failures + 1
  /\ IF ShouldOpen
     THEN state' = "open" /\ opened_at' = "Some" /\ age' = 0
     ELSE UNCHANGED <<state, opened_at, age>>
  /\ losses' = IF losses < FailureThreshold THEN losses + 1 ELSE losses
  /\ wins' = 0

(* Mutant: a dropped future takes back a failure it never counted. *)
AbandonRefunds(c) ==
  /\ c \in running
  /\ running' = running \ {c}
  /\ failures' = failures - 1
  /\ UNCHANGED <<state, successes, opened_at, age, history>>

(* The future is dropped with the request that awaits it. *)
Abandon(c) ==
  /\ c \in running
  /\ running' = running \ {c}
  /\ UNCHANGED <<inner, history>>

Tick ==
  /\ age < Cooldown
  /\ age' = age + 1
  /\ UNCHANGED <<state, failures, successes, opened_at, running, history>>

Next == Tick \/ \E c \in Call : Admit(c) \/ Succeed(c) \/ Fail(c) \/ Abandon(c)

Spec == Init /\ [][Next]_vars

(* Time passes, callers keep calling, and every future resolves or is      *)
(* dropped (the clients have timeouts, and so have their callers).         *)
Fairness ==
  /\ WF_vars(Tick)
  /\ WF_vars(\E c \in Call : Admit(c))
  /\ \A c \in Call : WF_vars(Succeed(c) \/ Fail(c) \/ Abandon(c))

FairSpec == Spec /\ Fairness

-----------------------------------------------------------------------------
(* The counters agree with the state: a closed breaker is below its        *)
(* failure threshold, a half-open one has seen no failure and not yet      *)
(* enough successes, and opened_at is set exactly when it is not closed -  *)
(* also when calls admitted in one state finish in another.                *)
CountersFitState ==
  /\ state = "closed" => failures < FailureThreshold
  /\ state = "half-open" => failures = 0 /\ successes < SuccessThreshold
  /\ state # "half-open" => successes = 0
  /\ opened_at = "None" <=> state = "closed"

(* Calls that were admitted before it opened may still fail while it is    *)
(* open; they push the count past the threshold by fewer than there can be *)
(* calls, so it never runs away.                                           *)
OvershootIsBounded ==
  failures + Cardinality(running) < FailureThreshold + Cardinality(Call)

(* State changes are earned: a closed breaker opens only at a run of       *)
(* FailureThreshold failures, and a half-open one closes only at a run of  *)
(* SuccessThreshold successes, in the order the calls really finished.     *)
TransitionsAreEarned ==
  [][/\ (state = "closed" /\ state' = "open") => losses' >= FailureThreshold
     /\ (state = "half-open" /\ state' = "closed") => wins' >= SuccessThreshold
    ]_vars

(* It keeps the contract: cooldown respected, closed only from half-open.  *)
Contract == INSTANCE BreakerContract
ImplementsContract == Contract!Spec

(* A service that has stopped failing is called normally again: unless     *)
(* calls keep failing or being dropped, the breaker ends up closed.        *)
RecoversWhenHealthy ==
  \/ <>[](state = "closed")
  \/ []<><<\E c \in Call : Fail(c) \/ Abandon(c)>>_vars
=============================================================================
