-------------------------- MODULE BreakerContract ---------------------------
(***************************************************************************)
(* What a circuit breaker promises, as the head of                         *)
(* src/circuit_breaker/mod.rs states it: consecutive failures open it, it  *)
(* lets calls through again only after a cooldown spent without being      *)
(* re-opened, it closes only from half-open, and it is opened only by a    *)
(* call that failed.                                                       *)
(***************************************************************************)
EXTENDS Naturals

CONSTANTS Cooldown

VARIABLES
  state,   \* closed, open or half-open
  age      \* time since the breaker last opened, up to Cooldown

Init == state = "closed" /\ age = 0

Trip  == state \in {"closed", "half-open"} /\ state' = "open" /\ age' = 0
Wait  == age < Cooldown /\ age' = age + 1 /\ UNCHANGED state
Probe == state = "open" /\ age = Cooldown /\ state' = "half-open" /\ UNCHANGED age
Close == state = "half-open" /\ state' = "closed" /\ UNCHANGED age

Next == Trip \/ Wait \/ Probe \/ Close

Spec == Init /\ [][Next]_<<state, age>>
=============================================================================
