------------------------ MODULE CircuitBreakerProofs ------------------------
(***************************************************************************)
(* Theorems about CircuitBreaker, for any number of concurrent calls and   *)
(* any positive thresholds.  All rest on one inductive invariant: the      *)
(* types, CountersFitState, and the two facts that tie the counters to the *)
(* history of outcomes.                                                    *)
(***************************************************************************)
EXTENDS CircuitBreaker, FiniteSetTheorems, TLAPS

(* While it matters, the failure count is a run of failures at the end of  *)
(* the history, and the success count a run of successes.                  *)
CountersFitHistory ==
  /\ state = "closed" => failures <= losses
  /\ successes <= wins

IInv == TypeOK /\ CountersFitState /\ CountersFitHistory

(* The initial state satisfies the invariant.                              *)
LEMMA InitInvariant == Init => IInv
  BY BreakerAssumption
  DEF BreakerAssumption, Init, IInv, TypeOK, CountersFitState, CountersFitHistory

(* Every step of any call, and of time, preserves the invariant.           *)
LEMMA StepInvariant == IInv /\ [Next]_vars => IInv'
<1> SUFFICES ASSUME IInv, [Next]_vars PROVE IInv'
  OBVIOUS
<1> USE BreakerAssumption DEF BreakerAssumption, IInv, TypeOK, CountersFitState, CountersFitHistory
<1>1. CASE Tick
  BY <1>1 DEF Tick, history
<1>2. ASSUME NEW c \in Call, Admit(c) PROVE IInv'
  BY <1>2 DEF Admit, Elapsed, history
<1>3. ASSUME NEW c \in Call, Succeed(c) PROVE IInv'
  <2>1. CASE state = "half-open" /\ successes + 1 >= SuccessThreshold
    BY <1>3, <2>1 DEF Succeed
  <2>2. CASE state = "half-open" /\ ~(successes + 1 >= SuccessThreshold)
    BY <1>3, <2>2 DEF Succeed
  <2>3. CASE state # "half-open"
    BY <1>3, <2>3 DEF Succeed
  <2> QED BY <2>1, <2>2, <2>3
<1>4. ASSUME NEW c \in Call, Fail(c) PROVE IInv'
  <2>1. CASE ShouldOpen
    BY <1>4, <2>1 DEF Fail
  <2>2. CASE ~ShouldOpen
    BY <1>4, <2>2 DEF Fail, ShouldOpen
  <2> QED BY <2>1, <2>2
<1>5. ASSUME NEW c \in Call, Abandon(c) PROVE IInv'
  BY <1>5 DEF Abandon, inner, history
<1>6. CASE UNCHANGED vars
  BY <1>6 DEF vars, inner, history
<1> QED BY <1>1, <1>2, <1>3, <1>4, <1>5, <1>6 DEF Next

(* The invariant holds in every reachable state.                           *)
THEOREM Invariance == Spec => []IInv
  BY InitInvariant, StepInvariant, PTL DEF Spec

(* Every variable keeps its type.                                          *)
THEOREM TypeCorrect == Spec => []TypeOK
  BY Invariance, PTL DEF IInv

(* The counters always agree with the state, whichever state the calls     *)
(* that finish were admitted in.                                           *)
THEOREM CountersCorrect == Spec => []CountersFitState
  BY Invariance, PTL DEF IInv

-----------------------------------------------------------------------------
(* The number of calls in progress is a natural number, and changes by one *)
(* when a call starts or ends.                                             *)
LEMMA RunningIsFinite ==
  ASSUME TypeOK
  PROVE  /\ IsFiniteSet(running)
         /\ Cardinality(running) \in Nat
         /\ Cardinality(Call) \in Nat
         /\ Cardinality(running) <= Cardinality(Call)
         /\ \A c \in running :
              Cardinality(running \ {c}) = Cardinality(running) - 1
<1> USE BreakerAssumption DEF BreakerAssumption, TypeOK
<1>1. IsFiniteSet(running) /\ Cardinality(running) <= Cardinality(Call)
  BY FS_Subset
<1>2. Cardinality(running) \in Nat /\ Cardinality(Call) \in Nat
  BY <1>1, FS_CardinalityType
<1>3. ASSUME NEW c \in running
      PROVE  Cardinality(running \ {c}) = Cardinality(running) - 1
  BY <1>1, FS_RemoveElement
<1> QED BY <1>1, <1>2, <1>3

(* Calls that were in progress when the breaker opened push the failure    *)
(* count past the threshold by fewer than there can be calls.              *)
THEOREM OvershootBounded == Spec => []OvershootIsBounded
<1>1. Init => OvershootIsBounded
  <2> SUFFICES ASSUME Init PROVE OvershootIsBounded
    OBVIOUS
  <2>1. Cardinality(running) = 0
    BY FS_EmptySet DEF Init
  <2>2. Cardinality(Call) \in Nat
    BY BreakerAssumption, FS_CardinalityType DEF BreakerAssumption
  <2> QED BY <2>1, <2>2, BreakerAssumption DEF BreakerAssumption, Init, OvershootIsBounded
<1>2. IInv /\ IInv' /\ OvershootIsBounded /\ [Next]_vars => OvershootIsBounded'
  <2> SUFFICES ASSUME IInv, IInv', OvershootIsBounded, [Next]_vars
               PROVE  OvershootIsBounded'
    OBVIOUS
  <2>1. PICK n \in Nat, N \in Nat :
          /\ n = Cardinality(running)
          /\ N = Cardinality(Call)
          /\ \A c \in running : Cardinality(running \ {c}) = n - 1
    BY RunningIsFinite DEF IInv
  <2>2. PICK m \in Nat : m = Cardinality(running') /\ m <= N
    <3>1. IsFiniteSet(running')
      BY BreakerAssumption, FS_Subset DEF BreakerAssumption, IInv, TypeOK
    <3> QED BY <2>1, <3>1, BreakerAssumption, FS_Subset, FS_CardinalityType
            DEF BreakerAssumption, IInv, TypeOK
  <2>3. /\ failures \in Nat /\ failures' \in Nat
        /\ state \in {"closed", "open", "half-open"}
        /\ state' = "half-open" => failures' = 0
        /\ state' = "closed" => failures' < FailureThreshold
    BY DEF IInv, TypeOK, CountersFitState
  <2>4. failures + n < FailureThreshold + N
    BY <2>1 DEF OvershootIsBounded
  <2>5. FailureThreshold \in Nat /\ FailureThreshold > 0
    BY BreakerAssumption DEF BreakerAssumption
  <2> SUFFICES failures' + m < FailureThreshold + N
    BY <2>1, <2>2 DEF OvershootIsBounded
  <2>6. CASE Tick \/ UNCHANGED vars
    <3>1. m = n /\ failures' = failures
      BY <2>6, <2>1, <2>2 DEF Tick, vars, inner
    <3> QED BY <3>1, <2>4
  <2>7. ASSUME NEW c \in Call, Admit(c) PROVE failures' + m < FailureThreshold + N
    <3>1. state' \in {"closed", "half-open"}
      BY <2>7, <2>3 DEF Admit
    <3> QED BY <3>1, <2>2, <2>3, <2>5
  <2>8. ASSUME NEW c \in Call, Succeed(c) PROVE failures' + m < FailureThreshold + N
    BY <2>8, <2>2, <2>5 DEF Succeed
  <2>9. ASSUME NEW c \in Call, Fail(c) PROVE failures' + m < FailureThreshold + N
    BY <2>9, <2>1, <2>2, <2>3, <2>4, <2>5 DEF Fail
  <2>10. ASSUME NEW c \in Call, Abandon(c) PROVE failures' + m < FailureThreshold + N
    BY <2>10, <2>1, <2>2, <2>3, <2>4, <2>5 DEF Abandon, inner
  <2> QED BY <2>6, <2>7, <2>8, <2>9, <2>10 DEF Next
<1> QED BY <1>1, <1>2, Invariance, PTL DEF Spec

(* The breaker opens only at a run of failures and closes only at a run of *)
(* successes.                                                              *)
THEOREM Earned == Spec => TransitionsAreEarned
<1> DEFINE A == /\ (state = "closed" /\ state' = "open")
                     => losses' >= FailureThreshold
                /\ (state = "half-open" /\ state' = "closed")
                     => wins' >= SuccessThreshold
<1>1. IInv /\ [Next]_vars => [A]_vars
  <2> SUFFICES ASSUME IInv, Next PROVE A
    OBVIOUS
  <2> USE BreakerAssumption DEF BreakerAssumption, IInv, TypeOK, CountersFitHistory
  <2>1. CASE Tick
    BY <2>1 DEF Tick
  <2>2. ASSUME NEW c \in Call, Admit(c) PROVE A
    BY <2>2 DEF Admit
  <2>3. ASSUME NEW c \in Call, Succeed(c) PROVE A
    BY <2>3 DEF Succeed
  <2>4. ASSUME NEW c \in Call, Fail(c) PROVE A
    BY <2>4 DEF Fail, ShouldOpen
  <2>5. ASSUME NEW c \in Call, Abandon(c) PROVE A
    BY <2>5 DEF Abandon, inner
  <2> QED BY <2>1, <2>2, <2>3, <2>4, <2>5 DEF Next
<1> QED BY <1>1, Invariance, PTL DEF Spec, TransitionsAreEarned

(* The breaker implements its contract: every step is a trip, a wait, a    *)
(* probe, a close, or changes neither state nor age.                       *)
THEOREM Implementation == Spec => ImplementsContract
<1>1. Init => Contract!Init
  BY DEF Init, Contract!Init
<1>2. IInv /\ [Next]_vars => [Contract!Next]_<<state, age>>
  <2> SUFFICES ASSUME IInv, [Next]_vars
               PROVE  Contract!Next \/ UNCHANGED <<state, age>>
    OBVIOUS
  <2> USE BreakerAssumption DEF BreakerAssumption, IInv, TypeOK, CountersFitState, Contract!Next
  <2>1. CASE Tick
    BY <2>1 DEF Tick, Contract!Wait
  <2>2. ASSUME NEW c \in Call, Admit(c)
        PROVE  Contract!Probe \/ UNCHANGED <<state, age>>
    BY <2>2 DEF Admit, Elapsed, Contract!Probe
  <2>3. ASSUME NEW c \in Call, Succeed(c)
        PROVE  Contract!Close \/ UNCHANGED <<state, age>>
    BY <2>3 DEF Succeed, Contract!Close
  <2>4. ASSUME NEW c \in Call, Fail(c)
        PROVE  Contract!Trip \/ UNCHANGED <<state, age>>
    BY <2>4 DEF Fail, ShouldOpen, Contract!Trip
  <2>5. ASSUME NEW c \in Call, Abandon(c) PROVE UNCHANGED <<state, age>>
    BY <2>5 DEF Abandon, inner
  <2>6. CASE UNCHANGED vars
    BY <2>6 DEF vars, inner
  <2> QED BY <2>1, <2>2, <2>3, <2>4, <2>5, <2>6 DEF Next
<1> QED BY <1>1, <1>2, Invariance, PTL
        DEF Spec, ImplementsContract, Contract!Spec
=============================================================================
