------------------------------ MODULE RateLimit ------------------------------
(***************************************************************************)
(* The rate limiter (src/middleware/rate_limit.rs) and the Redis counter   *)
(* it uses (src/cache/mod.rs), for the requests of one x-org-id, or of one *)
(* IP address; the requests of others have counters of their own.          *)
(*                                                                         *)
(* A request reads the clock on arrival, to name the counter of the        *)
(* current minute, and is counted some time later, at most Lag.  INCR and  *)
(* EXPIRE NX are one atomic step, so that a counter lives for one minute   *)
(* from the first request it counts.  A request over the limit then asks   *)
(* for the TTL of the counter, to tell the client when to come back.  When *)
(* Redis does not answer, a request is let through, counted or not.        *)
(***************************************************************************)
EXTENDS Integers, FiniteSets

CONSTANTS
  Request,   \* the requests that may arrive
  Limit,     \* RATE_LIMIT_PER_MIN; 0 switches the limiter off
  Minute,    \* the length of a minute, in ticks of the clock
  Lag,       \* bound: ticks between reading the clock and being counted
  Horizon    \* bound: the last tick

ASSUME RateLimitAssumption ==
  /\ Limit \in Nat \ {0} /\ Minute \in Nat \ {0}
  /\ Lag \in 0..Minute - 1 /\ Horizon \in Nat

VARIABLES
  now,
  counter,   \* rate:{who}:{minute}: its count and the end of its life
  request    \* where a request is; the minute it read; when it arrived, then
             \* when it was counted; when it is told to come back

vars == <<now, counter, request>>

MinuteOf(t) == t \div Minute
Later(a, b) == IF a < b THEN b ELSE a

RequestPC == {"none", "arrived", "over", "passed", "unheard", "open", "refused"}

RateTypeOK ==
  /\ now \in 0..Horizon
  /\ counter \in [0..MinuteOf(Horizon) ->
                    [count : Nat, expires : 0..Horizon + Minute]]
  /\ request \in [Request -> [pc : RequestPC, minute : 0..MinuteOf(Horizon),
                              at : 0..Horizon, back : 0..Horizon + Minute]]

Init ==
  /\ now = 0
  /\ counter = [m \in 0..MinuteOf(Horizon) |-> [count |-> 0, expires |-> 0]]
  /\ request = [r \in Request |-> [pc |-> "none", minute |-> 0, at |-> 0, back |-> 0]]

-----------------------------------------------------------------------------
(* bucket_key *)
Arrive(r) ==
  /\ request[r].pc = "none"
  /\ request' = [request EXCEPT ![r] = [pc |-> "arrived", minute |-> MinuteOf(now),
                                        at |-> now, back |-> 0]]
  /\ UNCHANGED <<now, counter>>

(* Mutants: one request too few or too many, a life that is not a minute. *)
ExceedsOrEquals(count) == count >= Limit
ExceedsByTwo(count) == count > Limit + 1
ShortLife == Minute - 1
LongLife == 2 * Minute

Exceeds(count) == count > Limit
Life == Minute

(* Cache::incr_with_ttl *)
Increment(c) ==
  IF c.count > 0 /\ now < c.expires
  THEN [c EXCEPT !.count = @ + 1]
  ELSE [count |-> 1, expires |-> now + Life]

(* ... whose reply may be lost: the request is let through all the same. *)
Count(r) ==
  LET m == request[r].minute
      c == Increment(counter[m])
  IN  /\ request[r].pc = "arrived"
      /\ counter' = [counter EXCEPT ![m] = c]
      /\ \E pc \in {IF Exceeds(c.count) THEN "over" ELSE "passed", "unheard"} :
           request' = [request EXCEPT ![r].pc = pc, ![r].at = now]
      /\ UNCHANGED now

(* Redis is not reached, and nothing is counted. *)
FailOpen(r) ==
  /\ request[r].pc = "arrived"
  /\ request' = [request EXCEPT ![r].pc = "open"]
  /\ UNCHANGED <<now, counter>>

(* Mutant: an expired counter has a retry-after of -2. *)
RetryAfterRaw(m) == IF now < counter[m].expires THEN counter[m].expires - now ELSE -2

RetryAfter(m) == Later(1, counter[m].expires - now)

(* TTL, or a minute if that command fails. *)
Refuse(r) ==
  /\ request[r].pc = "over"
  /\ \E wait \in {RetryAfter(request[r].minute), Minute} :
       request' = [request EXCEPT ![r].pc = "refused", ![r].back = now + wait]
  /\ UNCHANGED <<now, counter>>

Tick ==
  /\ now < Horizon
  /\ \A r \in Request : request[r].pc = "arrived" => now < request[r].at + Lag
  /\ now' = now + 1
  /\ UNCHANGED <<counter, request>>

Next == Tick \/ \E r \in Request : Arrive(r) \/ Count(r) \/ FailOpen(r) \/ Refuse(r)

Spec == Init /\ [][Next]_vars

-----------------------------------------------------------------------------
Passed == {r \in Request : request[r].pc = "passed"}
CountedIn == {r \in Request : request[r].pc \in {"passed", "unheard"}}

(* Nobody is refused early: the limit has been used up by requests that    *)
(* were counted and let through within a minute before, in the same        *)
(* bucket; those let through without being counted use nothing up.         *)
RefusalIsFair ==
  \A r \in Request : request[r].pc \in {"over", "refused"} =>
    LET before == {q \in CountedIn : /\ request[q].minute = request[r].minute
                                     /\ request[q].at > request[r].at - Minute}
    IN  Cardinality(before) >= Limit

(* A client that obeys Retry-After is counted in another minute than the   *)
(* one it was refused in, although the TTL runs from the first request     *)
(* and may have run out by the time it is asked for.                       *)
RetryAfterClears ==
  \A r \in Request :
    request[r].pc = "refused" => MinuteOf(request[r].back) > request[r].minute

(* The module head: "a client can burst 2x limit at window boundaries",    *)
(* and no more: no stretch of a minute sees over twice the limit pass of   *)
(* the requests that were counted in the minute they had arrived in.  Some *)
(* that cross a boundary on their way to Redis may come on top, as their   *)
(* counter may have expired and start afresh, and all whose count Redis    *)
(* did not tell.                                                           *)
BurstIsBounded ==
  \A t \in 0..now :
    Cardinality({r \in Passed : /\ request[r].at \in t..t + Minute - 1
                               /\ MinuteOf(request[r].at) = request[r].minute})
      <= 2 * Limit
=============================================================================
