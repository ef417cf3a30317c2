-------------------------- MODULE RateLimitProofs --------------------------
(***************************************************************************)
(* The promises of the rate limiter, for any set of requests, any limit,   *)
(* length of a minute, delay on the way to Redis and horizon.              *)
(*                                                                         *)
(* A counter is looked at from two sides.  Those let through in its        *)
(* present life are at least what it counts (Fills), which makes a refusal *)
(* fair; those let through in the minute it is named after are at most     *)
(* what it counts while that minute lasts (Holds), which bounds a burst.   *)
(***************************************************************************)
EXTENDS RateLimit, FiniteSetTheorems, TLAPS

Bucket == 0..MinuteOf(Horizon)
Begin(m) == m * Minute

(* A request reads the clock before it is counted, and if it has been, its *)
(* counter is in use.                                                      *)
ArrivalFits(r) ==
  /\ request[r].pc # "none" =>
       request[r].at <= now /\ Begin(request[r].minute) <= request[r].at
  /\ request[r].pc \in {"over", "passed", "unheard", "refused"} =>
       counter[request[r].minute].count > 0

(* A counter in use lives on into the minute after the one it is named     *)
(* for, and never for more than a minute from now.                         *)
LifeFits(m) ==
  /\ counter[m].count > 0 => counter[m].expires >= Begin(m) + Minute
  /\ counter[m].expires <= now + Minute

InLife(m) == {r \in CountedIn : /\ request[r].minute = m
                                /\ request[r].at >= counter[m].expires - Minute}
InMinute(m) == {r \in Passed : /\ request[r].minute = m
                               /\ MinuteOf(request[r].at) = m}

Fills(m) == Cardinality(InLife(m)) >= IF counter[m].count < Limit
                                      THEN counter[m].count ELSE Limit

Holds(m) == /\ Cardinality(InMinute(m)) <= Limit
            /\ MinuteOf(now) = m => Cardinality(InMinute(m)) <= counter[m].count

RateInv ==
  /\ RateTypeOK
  /\ IsFiniteSet(CountedIn)
  /\ \A r \in Request : ArrivalFits(r)
  /\ \A m \in Bucket : LifeFits(m) /\ Fills(m) /\ Holds(m)
  /\ RefusalIsFair
  /\ RetryAfterClears

-----------------------------------------------------------------------------
(* Minutes.                                                                *)
LEMMA MinuteFacts ==
  ASSUME NEW t \in Nat
  PROVE  /\ MinuteOf(t) \in Nat
         /\ \A m \in Nat :
              /\ Begin(m) \in Nat
              /\ MinuteOf(t) = m <=> Begin(m) <= t /\ t < Begin(m) + Minute
              /\ MinuteOf(t) < m <=> t < Begin(m)
              /\ MinuteOf(t) > m <=> t >= Begin(m) + Minute
<1> USE RateLimitAssumption DEF RateLimitAssumption, MinuteOf, Begin
<1>1. PICK q \in Nat : q = MinuteOf(t) /\ q * Minute <= t /\ t < q * Minute + Minute
  OBVIOUS
<1>2. ASSUME NEW m \in Nat
      PROVE  /\ Begin(m) \in Nat
             /\ q < m => t < m * Minute
             /\ q > m => t >= m * Minute + Minute
             /\ q = m => m * Minute <= t /\ t < m * Minute + Minute
  <2>1. m * Minute \in Nat
    OBVIOUS
  <2>2. CASE q < m
    <3>1. PICK d \in Nat : m = q + 1 + d
      BY <2>2
    <3>2. m * Minute = q * Minute + Minute + d * Minute /\ d * Minute \in Nat
      BY <3>1
    <3>3. QED
      BY <1>1, <2>1, <2>2, <3>2
  <2>3. CASE q > m
    <3>1. PICK d \in Nat : q = m + 1 + d
      BY <2>3
    <3>2. q * Minute = m * Minute + Minute + d * Minute /\ d * Minute \in Nat
      BY <3>1
    <3>3. QED
      BY <1>1, <2>1, <2>3, <3>2
  <2>4. CASE q = m
    BY <1>1, <2>1, <2>4
  <2>5. QED
    BY <2>1, <2>2, <2>3, <2>4
<1>3. ASSUME NEW m \in Nat
      PROVE  /\ q = m <=> m * Minute <= t /\ t < m * Minute + Minute
             /\ q < m <=> t < m * Minute
             /\ q > m <=> t >= m * Minute + Minute
  <2>1. PICK b \in Nat : b = m * Minute
    BY <1>2
  <2>2. q < m \/ q = m \/ q > m
    OBVIOUS
  <2>3. QED
    BY <1>2, <2>1, <2>2
<1>4. QED
  BY <1>1, <1>2, <1>3

LEMMA MinuteBound ==
  ASSUME NEW t \in 0..Horizon
  PROVE  MinuteOf(t) \in Bucket
<1>1. t \in Nat /\ Horizon \in Nat
  BY RateLimitAssumption DEF RateLimitAssumption
<1>2. PICK m \in Nat : m = MinuteOf(t)
  BY <1>1, MinuteFacts
<1>3. PICK h \in Nat : h = MinuteOf(Horizon)
  BY <1>1, MinuteFacts
<1>4. Begin(m) <= t /\ Begin(m) \in Nat
  BY <1>1, <1>2, MinuteFacts
<1>5. ~(h < m)
  BY <1>1, <1>3, <1>4, MinuteFacts
<1>6. QED
  BY <1>2, <1>3, <1>5 DEF Bucket
-----------------------------------------------------------------------------
(* The set that a refusal is about.                                        *)
Recent(r) == {q \in CountedIn : /\ request[q].minute = request[r].minute
                                /\ request[q].at > request[r].at - Minute}

Refused(r) == request[r].pc \in {"over", "refused"}

FairFor(r) == Refused(r) => Cardinality(Recent(r)) >= Limit

LEMMA FairnessByRequest ==
  /\ RefusalIsFair <=> \A r \in Request : FairFor(r)
  /\ RefusalIsFair' <=> \A r \in Request : FairFor(r)'
  BY DEF RefusalIsFair, FairFor, Refused, Recent

LEMMA RateInitial == Init => RateInv
<1> SUFFICES ASSUME Init PROVE RateInv
  OBVIOUS
<1> USE RateLimitAssumption DEF RateLimitAssumption
<1>1. RateTypeOK
  <2>1. 0 \in Bucket
    BY MinuteBound DEF MinuteOf, Bucket
  <2>2. QED
    BY <2>1 DEF Init, RateTypeOK, RequestPC, Bucket
<1>2. Passed = {} /\ CountedIn = {}
  BY DEF Init, Passed, CountedIn
<1>3. IsFiniteSet({}) /\ Cardinality({}) = 0
  BY FS_EmptySet
<1>4. ASSUME NEW m \in Bucket PROVE LifeFits(m) /\ Fills(m) /\ Holds(m)
  <2>1. InLife(m) = {} /\ InMinute(m) = {}
    BY <1>2 DEF InLife, InMinute
  <2>2. counter[m].count = 0
    BY DEF Init, Bucket
  <2>3. counter[m].expires = 0 /\ now = 0
    BY DEF Init, Bucket
  <2>4. LifeFits(m)
    BY <2>2, <2>3 DEF LifeFits
  <2>5. QED
    BY <1>3, <2>1, <2>2, <2>4 DEF Fills, Holds
<1>5. RefusalIsFair /\ RetryAfterClears /\ \A r \in Request : ArrivalFits(r)
  BY DEF Init, RefusalIsFair, RetryAfterClears, ArrivalFits
<1>6. QED
  BY <1>1, <1>2, <1>3, <1>4, <1>5 DEF RateInv

(* A step that counts nothing leaves those let through as they are.        *)
Uncounted ==
  /\ UNCHANGED counter
  /\ \A q \in Request :
       /\ request'[q].pc \in {"passed", "unheard"}
            <=> request[q].pc \in {"passed", "unheard"}
       /\ request[q].pc \in {"passed", "unheard"} => request'[q] = request[q]

LEMMA UncountedKeeps ==
  ASSUME RateInv, Uncounted, RateTypeOK', UNCHANGED now
  PROVE  /\ IsFiniteSet(CountedIn')
         /\ \A m \in Bucket : LifeFits(m)' /\ Fills(m)' /\ Holds(m)'
         /\ \A r \in Request :
              (Refused(r)' => Refused(r) /\ request'[r].at = request[r].at
                                         /\ request'[r].minute = request[r].minute)
                => FairFor(r)'
<1>1. Passed' = Passed /\ CountedIn' = CountedIn
  BY DEF Uncounted, Passed, CountedIn
<1>2. ASSUME NEW m \in Bucket PROVE LifeFits(m)' /\ Fills(m)' /\ Holds(m)'
  <2>1. InLife(m)' = InLife(m) /\ InMinute(m)' = InMinute(m)
    BY <1>1 DEF InLife, InMinute, Passed, CountedIn, Uncounted
  <2>2. QED
    BY <2>1 DEF RateInv, Uncounted, LifeFits, Fills, Holds
<1>3. ASSUME NEW r \in Request,
             Refused(r)' => Refused(r) /\ request'[r].at = request[r].at
                                       /\ request'[r].minute = request[r].minute
      PROVE  FairFor(r)'
  <2>1. ASSUME Refused(r)' PROVE Recent(r)' = Recent(r)
    BY <1>1, <1>3, <2>1 DEF Recent, CountedIn, Uncounted
  <2>2. FairFor(r)
    BY FairnessByRequest DEF RateInv
  <2>3. QED
    BY <1>3, <2>1, <2>2 DEF FairFor
<1>4. QED
  BY <1>1, <1>2, <1>3 DEF RateInv

LEMMA ArriveKeeps ==
  ASSUME RateInv, NEW r \in Request, Arrive(r)
  PROVE  RateInv'
<1> USE RateLimitAssumption DEF RateLimitAssumption, RateInv, RateTypeOK
<1>1. PICK m \in Bucket : m = MinuteOf(now) /\ m \in Nat /\ now \in Nat
  BY MinuteBound DEF Bucket
<1>2. /\ request[r].pc = "none" /\ UNCHANGED <<now, counter>>
      /\ request' = [request EXCEPT ![r] = [pc |-> "arrived", minute |-> m,
                                            at |-> now, back |-> 0]]
  BY <1>1 DEF Arrive
<1>3. RateTypeOK'
  BY <1>1, <1>2 DEF RequestPC, Bucket
<1>4. Uncounted
  BY <1>2 DEF Uncounted
<1>5. ASSUME NEW q \in Request PROVE ArrivalFits(q)'
  <2>1. Begin(m) <= now
    BY <1>1, MinuteFacts
  <2>2. ArrivalFits(q)
    OBVIOUS
  <2>3. QED
    BY <1>1, <1>2, <2>1, <2>2 DEF ArrivalFits
<1>6. RefusalIsFair'
  BY <1>2, <1>3, <1>4, FairnessByRequest, UncountedKeeps DEF Refused
<1>7. RetryAfterClears'
  BY <1>2 DEF RetryAfterClears
<1>8. QED
  BY <1>2, <1>3, <1>4, <1>5, <1>6, <1>7, UncountedKeeps DEF Bucket

LEMMA FailOpenKeeps ==
  ASSUME RateInv, NEW r \in Request, FailOpen(r)
  PROVE  RateInv'
<1> USE RateLimitAssumption DEF RateLimitAssumption, RateInv, RateTypeOK
<1>1. /\ request[r].pc = "arrived" /\ UNCHANGED <<now, counter>>
      /\ request' = [request EXCEPT ![r].pc = "open"]
  BY DEF FailOpen
<1>2. RateTypeOK'
  BY <1>1 DEF RequestPC
<1>3. Uncounted
  BY <1>1 DEF Uncounted
<1>4. ASSUME NEW q \in Request PROVE ArrivalFits(q)'
  BY <1>1 DEF ArrivalFits
<1>5. RefusalIsFair'
  BY <1>1, <1>2, <1>3, FairnessByRequest, UncountedKeeps DEF Refused
<1>6. RetryAfterClears'
  BY <1>1 DEF RetryAfterClears
<1>7. QED
  BY <1>1, <1>2, <1>3, <1>4, <1>5, <1>6, UncountedKeeps DEF Bucket

(* The counter lives on into the next minute, and so does what is left of  *)
(* its life when it is asked for; a minute of waiting does it as well.     *)
LEMMA RefuseKeeps ==
  ASSUME RateInv, NEW r \in Request, Refuse(r)
  PROVE  RateInv'
<1> USE RateLimitAssumption DEF RateLimitAssumption, RateInv, RateTypeOK
<1>1. PICK wait \in {RetryAfter(request[r].minute), Minute} :
        /\ request[r].pc = "over" /\ UNCHANGED <<now, counter>>
        /\ request' = [request EXCEPT ![r].pc = "refused", ![r].back = now + wait]
  BY DEF Refuse
<1>2. PICK m \in Bucket : m = request[r].minute /\ m \in Nat /\ Begin(m) \in Nat
  BY MinuteFacts DEF Bucket
<1>3. Cardinality(Recent(r)) >= Limit /\ FairFor(r)
  BY <1>1, FairnessByRequest DEF FairFor, Refused
<1>4. Begin(m) <= request[r].at /\ request[r].at <= now
  BY <1>1, <1>2 DEF ArrivalFits
<1>5. wait \in Nat /\ now + wait \in Nat /\ now + wait <= Horizon + Minute
  <2>1. PICK e \in 0..Horizon + Minute : e = counter[m].expires
    BY <1>2 DEF Bucket
  <2>2. wait = Minute \/ wait = Later(1, e - now)
    BY <1>1, <1>2, <2>1, Zenon DEF RetryAfter
  <2>3. now \in 0..Horizon
    OBVIOUS
  <2>4. QED
    BY ONLY <2>1, <2>2, <2>3, RateLimitAssumption DEF RateLimitAssumption, Later
<1>6. PICK t \in 0..Horizon + Minute : t = now + wait
  BY <1>5
<1>7. PICK mid : mid = [request EXCEPT ![r].pc = "refused"]
  OBVIOUS
<1>8. request' = [mid EXCEPT ![r].back = t]
  BY <1>1, <1>6, <1>7, Zenon
<1>9. /\ request' \in [Request -> [pc : RequestPC, minute : Bucket, at : 0..Horizon,
                                  back : 0..Horizon + Minute]]
      /\ request'[r].pc = "refused" /\ request'[r].minute = m
      /\ request'[r].at = request[r].at /\ request'[r].back = t
      /\ \A q \in Request \ {r} : request'[q] = request[q]
  BY <1>2, <1>7, <1>8 DEF RequestPC, Bucket
<1>10. RateTypeOK'
  BY <1>1, <1>9 DEF Bucket
<1>11. Uncounted
  BY <1>1, <1>9 DEF Uncounted
<1>12. ASSUME NEW q \in Request PROVE ArrivalFits(q)'
  BY <1>1, <1>2, <1>9 DEF ArrivalFits
<1>13. RefusalIsFair'
  <2>1. ASSUME NEW q \in Request PROVE FairFor(q)'
    <3>1. Refused(q)' => /\ Refused(q) /\ request'[q].at = request[q].at
                         /\ request'[q].minute = request[q].minute
      BY <1>1, <1>2, <1>9 DEF Refused
    <3>2. QED
      BY <1>1, <1>10, <1>11, <3>1, UncountedKeeps
  <2>2. QED
    BY <2>1, FairnessByRequest
<1>14. RetryAfterClears'
  <2>1. t >= Begin(m) + Minute
    <3>1. CASE wait = Minute
      BY <1>2, <1>4, <1>6, <3>1
    <3>2. CASE wait = RetryAfter(m)
      <4>1. t >= counter[m].expires
        BY <1>2, <1>6, <3>2 DEF RetryAfter, Later, Bucket
      <4>2. counter[m].count > 0
        BY <1>1, <1>2 DEF ArrivalFits
      <4>3. QED
        BY <1>2, <4>1, <4>2 DEF LifeFits, Bucket
    <3>3. QED
      BY <1>1, <1>2, <3>1, <3>2
  <2>2. t \in Nat /\ MinuteOf(t) > m
    BY <1>2, <1>6, <2>1, MinuteFacts
  <2>3. QED
    BY <1>2, <1>9, <2>2 DEF RetryAfterClears
<1>15. QED
  BY <1>1, <1>10, <1>11, <1>12, <1>13, <1>14, UncountedKeeps DEF Bucket

(* Nobody is counted; when a minute begins nobody is in it yet.            *)
LEMMA TickKeeps ==
  ASSUME RateInv, Tick
  PROVE  RateInv'
<1> USE RateLimitAssumption DEF RateLimitAssumption, RateInv, RateTypeOK
<1>1. /\ now < Horizon /\ now' = now + 1 /\ UNCHANGED <<counter, request>>
      /\ now \in Nat
  BY DEF Tick
<1>2. RateTypeOK'
  BY <1>1
<1>3. Passed' = Passed /\ CountedIn' = CountedIn
  BY <1>1 DEF Passed, CountedIn
<1>4. ASSUME NEW m \in Bucket PROVE LifeFits(m)' /\ Fills(m)' /\ Holds(m)'
  <2>0. LifeFits(m) /\ Fills(m) /\ Holds(m)
    OBVIOUS
  <2>1. InLife(m)' = InLife(m) /\ InMinute(m)' = InMinute(m) /\ counter'[m] = counter[m]
    BY <1>1, <1>3 DEF InLife, InMinute
  <2>3. /\ m \in Nat /\ counter[m].count \in Nat /\ counter[m].expires \in Nat
        /\ Minute \in Nat
    BY DEF Bucket
  <2> HIDE DEF RateInv, RateTypeOK, RateLimitAssumption
  <2>2. LifeFits(m)' /\ Fills(m)'
    <3>1. LifeFits(m)'
      BY <1>1, <2>0, <2>1, <2>3 DEF LifeFits
    <3>2. Fills(m)'
      BY <2>0, <2>1 DEF Fills
    <3>3. QED
      BY <3>1, <3>2
  <2>4. CASE MinuteOf(now) = m
    BY <2>0, <2>1, <2>2, <2>4 DEF Holds
  <2>5. CASE MinuteOf(now) > m
    <3>1. MinuteOf(now') # m
      BY <1>1, <2>3, <2>5, MinuteFacts
    <3>2. QED
      BY <2>0, <2>1, <2>2, <3>1 DEF Holds
  <2>6. CASE MinuteOf(now) < m
    <3>1. ASSUME NEW q \in InMinute(m) PROVE FALSE
      <4>1. q \in Request /\ request[q].pc = "passed" /\ MinuteOf(request[q].at) = m
        BY DEF InMinute, Passed
      <4>2. request[q].at \in Nat /\ request[q].at <= now
        BY <4>1 DEF ArrivalFits, RateInv, RateTypeOK
      <4>3. now < Begin(m) /\ Begin(m) \in Nat
        BY <1>1, <2>3, <2>6, MinuteFacts
      <4>4. Begin(m) <= request[q].at
        <5>1. PICK t \in Nat : t = request[q].at /\ MinuteOf(t) = m
          BY <4>1, <4>2
        <5>2. QED
          BY <2>3, <5>1, MinuteFacts
      <4>5. QED
        BY <1>1, <4>2, <4>3, <4>4
    <3>2. InMinute(m) = {}
      BY <3>1
    <3>3. Cardinality(InMinute(m)') = 0
      BY <2>1, <3>2, FS_EmptySet
    <3>4. QED
      BY <2>0, <2>1, <2>2, <2>3, <3>3 DEF Holds
  <2>7. MinuteOf(now) \in Nat
    BY <1>1, MinuteFacts
  <2>8. QED
    BY <2>2, <2>3, <2>4, <2>5, <2>6, <2>7
<1>5. ASSUME NEW r \in Request PROVE ArrivalFits(r)' /\ FairFor(r)'
  <2>1. ArrivalFits(r)'
    BY <1>1 DEF ArrivalFits
  <2>2. Recent(r)' = Recent(r)
    BY <1>1, <1>3 DEF Recent
  <2>3. FairFor(r)
    BY FairnessByRequest
  <2>4. QED
    BY <1>1, <2>1, <2>2, <2>3 DEF FairFor, Refused
<1>6. RetryAfterClears'
  BY <1>1 DEF RetryAfterClears
<1>7. QED
  BY <1>1, <1>2, <1>3, <1>4, <1>5, <1>6, FairnessByRequest DEF Bucket

(* Redis counts r: the counter goes on, or begins a new life.              *)
Goes(m) == counter[m].count > 0 /\ now < counter[m].expires

LEMMA CountEffects ==
  ASSUME RateInv, NEW r \in Request, Count(r)
  PROVE  \E m \in Bucket, c \in [count : Nat, expires : 0..Horizon + Minute],
            x \in {"over", "passed", "unheard"} :
           /\ request[r].pc = "arrived" /\ request[r].minute = m
           /\ c.count = IF Goes(m) THEN counter[m].count + 1 ELSE 1
           /\ c.expires = IF Goes(m) THEN counter[m].expires ELSE now + Minute
           /\ x = "passed" => c.count <= Limit
           /\ x = "over" => c.count > Limit
           /\ counter' = [counter EXCEPT ![m] = c] /\ UNCHANGED now
           /\ RateTypeOK'
           /\ request'[r].pc = x /\ request'[r].minute = m /\ request'[r].at = now
           /\ \A q \in Request \ {r} : request'[q] = request[q]
<1> USE RateLimitAssumption DEF RateLimitAssumption, RateInv, RateTypeOK
<1>1. PICK m \in Bucket : m = request[r].minute
  BY DEF Bucket
<1>2. PICK c \in [count : Nat, expires : 0..Horizon + Minute] :
        /\ c = Increment(counter[m])
        /\ c.count = IF Goes(m) THEN counter[m].count + 1 ELSE 1
        /\ c.expires = IF Goes(m) THEN counter[m].expires ELSE now + Minute
  <2>1. PICK o \in [count : Nat, expires : 0..Horizon + Minute] : o = counter[m]
    BY DEF Bucket
  <2>2. /\ o.count \in Nat /\ o.expires \in 0..Horizon + Minute
        /\ now + Minute \in 0..Horizon + Minute /\ o.count + 1 \in Nat
    OBVIOUS
  <2>3. CASE Goes(m)
    <3>1. Increment(o) = [count |-> o.count + 1, expires |-> o.expires]
      BY <2>1, <2>3 DEF Goes, Increment
    <3>2. PICK c \in [count : Nat, expires : 0..Horizon + Minute] :
            /\ c = Increment(o)
            /\ c.count = o.count + 1 /\ c.expires = o.expires
      <4>1. PICK k \in Nat : k = o.count + 1
        BY <2>2
      <4>2. PICK e \in 0..Horizon + Minute : e = o.expires
        BY <2>2
      <4>3. Increment(o) = [count |-> k, expires |-> e]
        BY <3>1, <4>1, <4>2, Zenon
      <4>4. [count |-> k, expires |-> e] \in [count : Nat, expires : 0..Horizon + Minute]
        BY <4>1, <4>2, Zenon
      <4>5. QED
        BY <4>1, <4>2, <4>3, <4>4, Zenon
    <3>3. QED
      BY <2>1, <2>3, <3>2
  <2>4. CASE ~Goes(m)
    <3>1. PICK e \in 0..Horizon + Minute : e = now + Minute
      BY <2>2
    <3>2. Increment(o) = [count |-> 1, expires |-> e]
      BY <2>1, <2>4, <3>1 DEF Goes, Increment, Life
    <3>3. PICK c \in [count : Nat, expires : 0..Horizon + Minute] :
            c = Increment(o) /\ c.count = 1 /\ c.expires = e
      <4>1. [count |-> 1, expires |-> e] \in [count : Nat, expires : 0..Horizon + Minute]
        OBVIOUS
      <4>2. QED
        BY <3>2, <4>1, Zenon
    <3>4. QED
      BY <2>1, <2>4, <3>1, <3>3
  <2>5. QED
    BY <2>3, <2>4
<1>3. PICK x \in {IF Exceeds(Increment(counter[m]).count) THEN "over" ELSE "passed",
                 "unheard"} :
        request' = [request EXCEPT ![r].pc = x, ![r].at = now]
  BY <1>1, Zenon DEF Count
<1>4. /\ x \in {"over", "passed", "unheard"}
      /\ x = "passed" => c.count <= Limit
      /\ x = "over" => c.count > Limit
  <2>1. c.count \in Nat /\ Limit \in Nat /\ Increment(counter[m]) = c
    BY <1>2
  <2>2. x \in {IF c.count > Limit THEN "over" ELSE "passed", "unheard"}
    BY <1>3, <2>1, Zenon DEF Exceeds
  <2> HIDE DEF RateInv, RateTypeOK, RateLimitAssumption
  <2> QED BY <2>1, <2>2
<1>5. /\ request[r].pc = "arrived" /\ UNCHANGED now
      /\ counter' = [counter EXCEPT ![m] = c]
  BY <1>1, <1>2, Zenon DEF Count
<1>6. PICK mid : mid = [request EXCEPT ![r].pc = x]
  OBVIOUS
<1>7. request' = [mid EXCEPT ![r].at = now]
  BY <1>3, <1>6, Zenon
<1>8. /\ request' \in [Request -> [pc : RequestPC, minute : Bucket, at : 0..Horizon,
                                  back : 0..Horizon + Minute]]
      /\ request'[r].pc = x /\ request'[r].minute = m /\ request'[r].at = now
      /\ \A q \in Request \ {r} : request'[q] = request[q]
  BY <1>1, <1>4, <1>6, <1>7 DEF RequestPC, Bucket
<1>9. RateTypeOK'
  BY <1>5, <1>8 DEF Bucket
<1>10. QED
  BY <1>1, <1>2, <1>4, <1>5, <1>8, <1>9

LEMMA CountKeeps ==
  ASSUME RateInv, NEW r \in Request, Count(r)
  PROVE  RateInv'
<1>1. PICK m \in Bucket, c \in [count : Nat, expires : 0..Horizon + Minute],
           x \in {"over", "passed", "unheard"} :
        /\ request[r].pc = "arrived" /\ request[r].minute = m
        /\ c.count = IF Goes(m) THEN counter[m].count + 1 ELSE 1
        /\ c.expires = IF Goes(m) THEN counter[m].expires ELSE now + Minute
        /\ x = "passed" => c.count <= Limit
        /\ x = "over" => c.count > Limit
        /\ counter' = [counter EXCEPT ![m] = c] /\ UNCHANGED now
        /\ RateTypeOK'
        /\ request'[r].pc = x /\ request'[r].minute = m /\ request'[r].at = now
        /\ \A q \in Request \ {r} : request'[q] = request[q]
  BY CountEffects
<1>2. /\ now \in Nat /\ m \in Nat /\ Limit \in Nat \ {0} /\ Minute \in Nat \ {0}
      /\ counter[m].count \in Nat /\ counter[m].expires \in Nat
      /\ c.count \in Nat /\ c.expires \in Nat
      /\ counter'[m] = c /\ \A k \in Bucket \ {m} : counter'[k] = counter[k]
  BY <1>1, RateLimitAssumption DEF RateLimitAssumption, RateInv, RateTypeOK, Bucket
<1>3. /\ IsFiniteSet(CountedIn) /\ ArrivalFits(r) /\ LifeFits(m) /\ Fills(m) /\ Holds(m)
      /\ Begin(m) <= now /\ Begin(m) \in Nat
  <2>1. request[r].at \in Nat
    BY DEF RateInv, RateTypeOK
  <2>2. Begin(m) \in Nat
    BY <1>2, MinuteFacts
  <2>3. ArrivalFits(r)
    BY DEF RateInv
  <2>4. Begin(m) <= now
    BY <1>1, <1>2, <2>1, <2>2, <2>3 DEF ArrivalFits
  <2>5. QED
    BY <1>2, <2>2, <2>3, <2>4 DEF RateInv
<1>4. /\ r \notin CountedIn /\ \A q \in CountedIn : request'[q] = request[q]
      /\ CountedIn' = IF x = "over" THEN CountedIn ELSE CountedIn \cup {r}
      /\ Passed' = IF x = "passed" THEN Passed \cup {r} ELSE Passed
      /\ Passed \subseteq CountedIn
  BY <1>1 DEF Passed, CountedIn
<1>5. IsFiniteSet(CountedIn')
  BY <1>3, <1>4, FS_AddElement
<1>6. LifeFits(m)'
  <2>1. CASE Goes(m)
    BY <1>1, <1>2, <1>3, <2>1 DEF LifeFits, Goes
  <2>2. CASE ~Goes(m)
    BY <1>1, <1>2, <1>3, <2>2 DEF LifeFits
  <2>3. QED
    BY <2>1, <2>2
<1>7. Fills(m)'
  <2>1. CASE Goes(m) /\ x # "over"
    <3>1. PICK S : S = InLife(m) /\ IsFiniteSet(S) /\ Cardinality(S) \in Nat
      BY <1>3, FS_Subset, FS_CardinalityType DEF InLife
    <3>2. r \notin S
      BY <1>4, <3>1 DEF InLife
    <3>3. InLife(m)' = S \cup {r}
      BY <1>1, <1>2, <1>3, <1>4, <2>1, <3>1 DEF InLife, LifeFits
    <3>4. Cardinality(S \cup {r}) = Cardinality(S) + 1
      BY <3>1, <3>2, FS_AddElement
    <3>5. QED
      BY <1>1, <1>2, <1>3, <2>1, <3>1, <3>3, <3>4 DEF Fills
  <2>2. CASE Goes(m) /\ x = "over"
    <3>1. InLife(m)' = InLife(m)
      BY <1>1, <1>2, <1>4, <2>2 DEF InLife
    <3>2. c.count > Limit /\ counter[m].count >= Limit
      BY <1>1, <1>2, <2>2
    <3>3. Cardinality(InLife(m)) >= Limit
      BY <1>2, <1>3, <3>2 DEF Fills
    <3>4. QED
      BY <1>2, <3>1, <3>2, <3>3 DEF Fills
  <2>3. CASE ~Goes(m)
    <3>1. c.count = 1 /\ x # "over" /\ c.expires = now + Minute
      BY <1>1, <1>2, <2>3
    <3>2. r \in InLife(m)' /\ InLife(m)' \subseteq CountedIn'
      BY <1>1, <1>2, <1>4, <3>1 DEF InLife
    <3>3. PICK S : S = InLife(m)' /\ IsFiniteSet(S) /\ Cardinality(S) \in Nat
      BY <1>5, <3>2, FS_Subset, FS_CardinalityType
    <3>4. Cardinality(S) # 0
      BY <3>2, <3>3, FS_EmptySet
    <3>5. QED
      BY <1>2, <3>1, <3>3, <3>4 DEF Fills
  <2>4. QED
    BY <2>1, <2>2, <2>3
<1>8. Holds(m)'
  <2>1. PICK S : S = InMinute(m) /\ IsFiniteSet(S) /\ Cardinality(S) \in Nat
    BY <1>3, <1>4, FS_Subset, FS_CardinalityType DEF InMinute
  <2>2. CASE MinuteOf(now) = m
    <3>1. now < Begin(m) + Minute
      BY <1>2, <2>2, MinuteFacts
    <3>2. c.count = counter[m].count + 1
      <4>1. CASE counter[m].count > 0
        BY <1>1, <1>2, <1>3, <3>1, <4>1 DEF LifeFits, Goes
      <4>2. CASE counter[m].count = 0
        BY <1>1, <4>2 DEF Goes
      <4>3. QED
        BY <1>2, <4>1, <4>2
    <3>3. CASE x = "passed"
      <4>1. InMinute(m)' = S \cup {r} /\ r \notin S
        BY <1>1, <1>4, <2>1, <2>2, <3>3 DEF InMinute
      <4>2. Cardinality(S \cup {r}) = Cardinality(S) + 1
        BY <2>1, <4>1, FS_AddElement
      <4>3. QED
        BY <1>1, <1>2, <1>3, <2>1, <2>2, <3>2, <3>3, <4>1, <4>2 DEF Holds
    <3>4. CASE x # "passed"
      <4>1. InMinute(m)' = S
        BY <1>1, <1>4, <2>1, <3>4 DEF InMinute
      <4>2. QED
        BY <1>1, <1>2, <1>3, <2>1, <2>2, <3>2, <4>1 DEF Holds
    <3>5. QED
      BY <3>3, <3>4
  <2>3. CASE MinuteOf(now) # m
    <3>1. InMinute(m)' = S
      BY <1>1, <1>4, <2>1, <2>3 DEF InMinute
    <3>2. QED
      BY <1>1, <1>3, <2>1, <2>3, <3>1 DEF Holds
  <2>4. QED
    BY <2>2, <2>3
<1>9. ASSUME NEW k \in Bucket, k # m PROVE LifeFits(k)' /\ Fills(k)' /\ Holds(k)'
  <2>1. LifeFits(k) /\ Fills(k) /\ Holds(k)
    BY DEF RateInv
  <2>2. counter'[k] = counter[k]
    BY <1>2, <1>9
  <2>3. InLife(k)' = InLife(k) /\ InMinute(k)' = InMinute(k)
    BY <1>1, <1>4, <1>9, <2>2 DEF InLife, InMinute
  <2>4. QED
    BY <1>1, <2>1, <2>2, <2>3 DEF LifeFits, Fills, Holds
<1>10. ASSUME NEW q \in Request PROVE ArrivalFits(q)'
  <2>1. c.count > 0
    BY <1>1, <1>2
  <2>2. CASE q = r
    BY <1>1, <1>2, <1>3, <2>1, <2>2 DEF ArrivalFits
  <2>3. CASE q # r
    <3>1. request'[q] = request[q] /\ ArrivalFits(q) /\ request[q].minute \in Bucket
      BY <1>1, <2>3 DEF RateInv, RateTypeOK, Bucket
    <3>2. QED
      BY <1>1, <1>2, <2>1, <3>1 DEF ArrivalFits
  <2>4. QED
    BY <2>2, <2>3
<1>11. ASSUME NEW q \in Request PROVE FairFor(q)'
  <2>1. CASE q = r /\ x = "over"
    <3>1. Goes(m) /\ counter[m].count >= Limit
      BY <1>1, <1>2, <2>1
    <3>2. PICK S : S = Recent(r)' /\ IsFiniteSet(S)
      BY <1>5, FS_Subset DEF Recent
    <3>3. PICK T : T = InLife(m)
      OBVIOUS
    <3>4. T \subseteq S
      <4>1. ASSUME NEW p \in T PROVE p \in S
        <5>1. /\ p \in CountedIn /\ request[p].minute = m /\ request[p].at \in Nat
              /\ request[p].at >= counter[m].expires - Minute
          BY <3>3 DEF InLife, CountedIn, RateInv, RateTypeOK
        <5>2. request[p].at > now - Minute
          BY <1>2, <3>1, <5>1 DEF Goes
        <5>3. QED
          BY <1>1, <1>4, <2>1, <3>2, <5>1, <5>2 DEF Recent
      <4>2. QED
        BY <4>1
    <3>5. Cardinality(T) >= Limit
      BY <1>2, <1>3, <3>1, <3>3 DEF Fills
    <3>6. IsFiniteSet(T) /\ Cardinality(T) <= Cardinality(S)
      BY <3>2, <3>4, FS_Subset
    <3>7. Cardinality(T) \in Nat /\ Cardinality(S) \in Nat
      BY <3>2, <3>6, FS_CardinalityType
    <3>8. QED
      BY <1>2, <2>1, <3>2, <3>5, <3>6, <3>7 DEF FairFor
  <2>2. CASE q = r /\ x # "over"
    BY <1>1, <2>2 DEF FairFor, Refused
  <2>3. CASE q # r
    <3>1. CASE Refused(q)'
      <4>1. request'[q] = request[q] /\ Refused(q)
        BY <1>1, <2>3, <3>1 DEF Refused
      <4>2. Cardinality(Recent(q)) >= Limit
        BY <4>1, FairnessByRequest DEF RateInv, FairFor
      <4>3. PICK S : S = Recent(q)' /\ IsFiniteSet(S)
        BY <1>5, FS_Subset DEF Recent
      <4>4. PICK T : T = Recent(q)
        OBVIOUS
      <4>5. T \subseteq S
        BY <1>4, <4>1, <4>3, <4>4 DEF Recent
      <4>6. IsFiniteSet(T) /\ Cardinality(T) <= Cardinality(S)
        BY <4>3, <4>5, FS_Subset
      <4>7. Cardinality(T) \in Nat /\ Cardinality(S) \in Nat
        BY <4>3, <4>6, FS_CardinalityType
      <4>8. QED
        BY <1>2, <4>2, <4>3, <4>4, <4>6, <4>7 DEF FairFor
    <3>2. QED
      BY <3>1 DEF FairFor
  <2>4. QED
    BY <2>1, <2>2, <2>3
<1>12. RetryAfterClears'
  BY <1>1 DEF RetryAfterClears, RateInv
<1>13. RefusalIsFair'
  BY <1>11, FairnessByRequest
<1>14. QED
  BY <1>1, <1>5, <1>6, <1>7, <1>8, <1>9, <1>10, <1>12, <1>13 DEF RateInv, Bucket

LEMMA RateStep == RateInv /\ [Next]_vars => RateInv'
<1> SUFFICES ASSUME RateInv, [Next]_vars PROVE RateInv'
  OBVIOUS
<1>1. CASE UNCHANGED vars
  <2>1. /\ RateTypeOK' /\ RefusalIsFair' /\ RetryAfterClears' /\ Passed' = Passed
        /\ CountedIn' = CountedIn
    BY <1>1 DEF RateInv, RateTypeOK, RefusalIsFair, RetryAfterClears, Passed,
                CountedIn, vars
  <2>2. ASSUME NEW r \in Request PROVE ArrivalFits(r)'
    BY <1>1 DEF RateInv, ArrivalFits, vars
  <2>3. ASSUME NEW m \in Bucket PROVE LifeFits(m)' /\ Fills(m)' /\ Holds(m)'
    <3>1. InLife(m)' = InLife(m) /\ InMinute(m)' = InMinute(m)
      BY <1>1, <2>1 DEF InLife, InMinute, vars
    <3>2. QED
      BY <1>1, <3>1 DEF RateInv, LifeFits, Fills, Holds, vars
  <2>4. QED
    BY <2>1, <2>2, <2>3 DEF RateInv, Bucket
<1>2. QED
  BY <1>1, TickKeeps, ArriveKeeps, CountKeeps, FailOpenKeeps, RefuseKeeps DEF Next

-----------------------------------------------------------------------------
(* Every state of the limiter is as above, whatever its requests do.       *)
THEOREM RateInvariance == Spec => []RateInv
  BY RateInitial, RateStep, PTL DEF Spec

(* Counters and requests keep their types, whatever Redis answers and when *)
(* the clock ticks.                                                        *)
THEOREM RateTypeCorrect == Spec => []RateTypeOK
  BY RateInvariance, PTL DEF RateInv

(* RateLimit::call refuses only when the limit is used up by requests of   *)
(* the same bucket let through within a minute before.                     *)
THEOREM RefusalsFair == Spec => []RefusalIsFair
  BY RateInvariance, PTL DEF RateInv

(* The Retry-After of a refusal leads into another minute.                 *)
THEOREM RetryClears == Spec => []RetryAfterClears
  BY RateInvariance, PTL DEF RateInv

(* A stretch of a minute meets at most two buckets, each of which lets the *)
(* limit pass in its own minute.                                           *)
THEOREM BurstsBounded == Spec => []BurstIsBounded
<1>1. ASSUME RateInv, NEW t \in 0..now
      PROVE  Cardinality({r \in Passed : /\ request[r].at \in t..t + Minute - 1
                                        /\ MinuteOf(request[r].at) = request[r].minute})
               <= 2 * Limit
  <2>1. /\ t \in Nat /\ t \in 0..Horizon
        /\ Limit \in Nat \ {0} /\ Minute \in Nat \ {0} /\ IsFiniteSet(Passed)
    <3>1. Passed \subseteq CountedIn
      BY DEF Passed, CountedIn
    <3> QED BY <1>1, <3>1, FS_Subset, RateLimitAssumption
            DEF RateInv, RateTypeOK, RateLimitAssumption
  <2>2. PICK k \in Bucket : k = MinuteOf(t) /\ k \in Nat
    BY <2>1, MinuteBound, MinuteFacts
  <2>3. \A m \in Nat : Begin(m + 1) = Begin(m) + Minute /\ Begin(m) \in Nat
    BY <2>1 DEF Begin
  <2>4. PICK S : S = {r \in Passed : /\ request[r].at \in t..t + Minute - 1
                                    /\ MinuteOf(request[r].at) = request[r].minute}
    OBVIOUS
  <2>5. ASSUME NEW m \in Nat
        PROVE  IsFiniteSet(InMinute(m)) /\ Cardinality(InMinute(m)) \in 0..Limit
    <3>1. PICK T : T = InMinute(m) /\ IsFiniteSet(T) /\ Cardinality(T) \in Nat
      BY <2>1, FS_Subset, FS_CardinalityType DEF InMinute
    <3>2. CASE m \in Bucket
      BY <1>1, <2>1, <3>1, <3>2 DEF RateInv, Holds
    <3>3. CASE m \notin Bucket
      <4>1. T = {}
        BY <1>1, <3>1, <3>3 DEF RateInv, RateTypeOK, InMinute, Passed, Bucket
      <4>2. QED
        BY <2>1, <3>1, <4>1, FS_EmptySet
    <3>4. QED
      BY <3>2, <3>3
  <2>6. PICK A, B : A = InMinute(k) /\ B = InMinute(k + 1)
    OBVIOUS
  <2>7. S \subseteq A \cup B
    <3>1. ASSUME NEW r \in S PROVE r \in A \cup B
      <4>1. PICK a \in Nat : a = request[r].at
        BY <1>1, <2>4 DEF Passed, RateInv, RateTypeOK
      <4>2. /\ r \in Passed /\ MinuteOf(a) = request[r].minute
            /\ t <= a /\ a < t + Minute
        BY <2>1, <2>4, <4>1
      <4>3. Begin(k) <= t /\ t < Begin(k) + Minute
        BY <2>1, <2>2, MinuteFacts
      <4>4. MinuteOf(a) = k \/ MinuteOf(a) = k + 1
        <5>1. CASE a < Begin(k) + Minute
          <6>1. Begin(k) <= a /\ a < Begin(k) + Minute
            BY <2>1, <2>2, <2>3, <4>1, <4>2, <4>3, <5>1
          <6>2. QED
            BY <2>2, <4>1, <6>1, MinuteFacts
        <5>2. CASE a >= Begin(k) + Minute
          <6>1. /\ k + 1 \in Nat /\ Begin(k + 1) <= a
                /\ a < Begin(k + 1) + Minute
            BY <2>1, <2>2, <2>3, <4>1, <4>2, <4>3, <5>2
          <6>2. QED
            BY <4>1, <6>1, MinuteFacts
        <5>3. QED
          BY <2>1, <2>2, <2>3, <4>1, <5>1, <5>2
      <4>5. QED
        BY <2>6, <4>1, <4>2, <4>4 DEF InMinute
    <3>2. QED
      BY <3>1
  <2>8. /\ IsFiniteSet(A) /\ Cardinality(A) \in 0..Limit
        /\ IsFiniteSet(B) /\ Cardinality(B) \in 0..Limit
    BY <2>2, <2>5, <2>6
  <2>9. /\ IsFiniteSet(A \cup B) /\ Cardinality(A \cap B) \in Nat
        /\ Cardinality(A \cup B) = Cardinality(A) + Cardinality(B)
                                     - Cardinality(A \cap B)
    BY <2>8, FS_Union, FS_Intersection, FS_CardinalityType
  <2>10. Cardinality(S) <= Cardinality(A \cup B) /\ Cardinality(S) \in Nat
    BY <2>7, <2>9, FS_Subset, FS_CardinalityType
  <2>11. Cardinality(S) <= 2 * Limit
    BY <2>1, <2>8, <2>9, <2>10
  <2>12. QED
    BY <2>4, <2>11
<1>2. RateInv => BurstIsBounded
  BY <1>1 DEF BurstIsBounded
<1>3. QED
  BY <1>2, RateInvariance, PTL
=============================================================================
