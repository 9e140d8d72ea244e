-------------------------- MODULE ProviderWrapperProofs --------------------------
(***************************************************************************)
(* Proofs about the two wrappers of a provider, RateLimiter and Retry, one     *)
(* after the other: neither looks into the other.                             *)
(***************************************************************************)
EXTENDS RateLimiter, Retry, FiniteSetTheorems, TLAPS

-----------------------------------------------------------------------------
(***************************************************************************)
(* RateLimiter.  RateBound is not inductive: the tokens still in the bucket  *)
(* count too.  RateInv adds them, and Tight says that the bound is reached by *)
(* some window, the one since the bucket was last full, which is why a        *)
(* refusal is never unjustified.                                             *)
(***************************************************************************)
\* What was handed out since s, and what the bucket could hand out now.
Granted(s) == SpentSince(s) + Refilled

Allowed(s) == MaxTokens + (now - s)

RateInv == \A s \in 0..now : Granted(s) <= Allowed(s)

Tight == \E s \in 0..now : Granted(s) = Allowed(s)

Inv == TypeOK /\ RateInv /\ Tight

-----------------------------------------------------------------------------
(* A full bucket holds a whole token at least (NewRateLimiter, ratelimit.go:25). *)
LEMMA FullBucket == MaxTokens \in Nat /\ MaxTokens >= Interval /\ MaxTokens' = MaxTokens
  BY LimiterAssumption DEF MaxTokens

(* The sleep of Wait (ratelimit.go:52) is a time.                               *)
LEMMA WaitIsTime == WaitTime \in Nat
  <1>1. Interval \div Grain \in Nat
    BY LimiterAssumption
  <1> QED
    BY <1>1, LimiterAssumption DEF WaitTime

(* refill (ratelimit.go:82) leaves the bucket within its bounds.                *)
LEMMA RefilledBounds ==
  ASSUME TypeOK
  PROVE  /\ Refilled \in 0..MaxTokens
         /\ Refilled <= tokens + (now - lastRefill)
  BY FullBucket, LimiterAssumption DEF TypeOK, Refilled, Min

(* A second look at the same moment finds what the first one left.              *)
LEMMA LookIdempotent ==
  ASSUME TypeOK, NEW t \in Int, t <= MaxTokens,
         now' = now, lastRefill' = now, tokens' = t
  PROVE  Refilled' = t
  <1>1. now \in Int
    BY LimiterAssumption DEF TypeOK
  <1> QED
    BY <1>1, FullBucket DEF Refilled, Min

LEMMA InitInv == Init => Inv
  <1> SUFFICES ASSUME Init PROVE Inv
    OBVIOUS
  <1>1. TypeOK
    BY FullBucket, LimiterAssumption DEF Init, TypeOK
  <1>2. Refilled = MaxTokens
    BY FullBucket DEF Init, Refilled, Min
  <1>3. Granted(0) = Allowed(0) /\ 0..now = {0}
    BY <1>2, FullBucket, LimiterAssumption DEF Init, Granted, Allowed, SpentSince
  <1> QED
    BY <1>1, <1>3, FullBucket DEF Inv, RateInv, Tight, Allowed, Init

-----------------------------------------------------------------------------
(* Every step keeps the limiter well typed.                                     *)
LEMMA TypeStep == TypeOK /\ [Next]_vars => TypeOK'
  <1> SUFFICES ASSUME TypeOK, [Next]_vars PROVE TypeOK'
    OBVIOUS
  <1> USE LimiterAssumption
  <1>1. ASSUME NEW c \in Callers, Wait(c) PROVE TypeOK'
    <2>1. UNCHANGED <<tokens, lastRefill, now, wake, spent, spentBefore, prompt>>
      BY <1>1 DEF Wait, bucket, history
    <2>2. /\ pc' \in [Callers -> {"idle", "try", "waiting", "acquired", "cancelled"}]
          /\ done' \in [Callers -> BOOLEAN]
      BY <1>1 DEF TypeOK, Wait
    <2>3. requests' \in [Callers -> 0..Requests] /\ since' \in [Callers -> 0..MaxTime]
      <3>1. requests[c] + 1 \in 0..Requests /\ now \in 0..MaxTime
        BY <1>1 DEF TypeOK, Wait
      <3> QED
        BY <1>1, <3>1 DEF TypeOK, Wait
    <2> QED
      BY <2>1, <2>2, <2>3 DEF TypeOK
  <1>2. ASSUME NEW c \in Callers, Acquire(c) PROVE TypeOK'
    <2>1. tokens' \in 0..MaxTokens /\ spent' \in Nat
      BY <1>2, RefilledBounds, FullBucket DEF TypeOK, Acquire, Affordable
    <2> QED
      BY <1>2, <2>1 DEF TypeOK, Acquire
  <1>3. ASSUME NEW c \in Callers, Refuse(c) PROVE TypeOK'
    <2>1. tokens' \in 0..MaxTokens /\ now + WaitTime \in Nat
      BY <1>3, RefilledBounds, WaitIsTime DEF TypeOK, Refuse, Look
    <2> QED
      BY <1>3, <2>1 DEF TypeOK, Refuse, Look, history
  <1>4. ASSUME NEW c \in Callers, Timer(c) \/ GiveUp(c) \/ Cancel(c) PROVE TypeOK'
    BY <1>4 DEF TypeOK, Timer, GiveUp, Cancel, bucket, history
  <1>5. CASE Available
    BY <1>5, RefilledBounds DEF TypeOK, Available, Look, calls, history
  <1>6. CASE Tick
    BY <1>6 DEF TypeOK, Tick, bucket, calls
  <1>7. CASE UNCHANGED vars
    BY <1>7 DEF TypeOK, vars, bucket, calls, history
  <1> QED
    BY <1>1, <1>2, <1>3, <1>4, <1>5, <1>6, <1>7 DEF Next

-----------------------------------------------------------------------------
(* Handing out a token moves it from the bucket to what was spent.              *)
LEMMA AcquireKeeps ==
  ASSUME Inv, TypeOK', NEW c \in Callers, Acquire(c)
  PROVE  RateInv' /\ Tight'
  <1>1. Refilled \in Nat /\ Refilled >= Interval
    BY RefilledBounds DEF Inv, Acquire, Affordable
  <1>2. Refilled' = Refilled - Interval
    <2>1. Refilled - Interval \in Int /\ Refilled - Interval <= MaxTokens
      BY <1>1, RefilledBounds, FullBucket, LimiterAssumption DEF Inv
    <2> QED
      BY <2>1, LookIdempotent DEF Inv, Acquire
  <1>3. now' = now /\ \A s \in 0..now : Granted(s)' = Granted(s) /\ Allowed(s)' = Allowed(s)
    BY <1>1, <1>2, LimiterAssumption
       DEF Inv, TypeOK, Acquire, Granted, Allowed, SpentSince
  <1> QED
    BY <1>3 DEF Inv, RateInv, Tight

(* A look, and a refusal, change what the bucket says and not what it is worth. *)
LEMMA LookKeeps ==
  ASSUME Inv, TypeOK', Look, UNCHANGED <<now, spent, spentBefore>>
  PROVE  RateInv' /\ Tight'
  <1>1. Refilled' = Refilled
    <2>1. Refilled \in Int /\ Refilled <= MaxTokens
      BY RefilledBounds, FullBucket DEF Inv
    <2> QED
      BY <2>1, LookIdempotent DEF Inv, Look
  <1>2. \A s \in 0..now : Granted(s)' = Granted(s) /\ Allowed(s)' = Allowed(s)
    BY <1>1 DEF Granted, Allowed, SpentSince
  <1> QED
    BY <1>2 DEF Inv, RateInv, Tight

(* When the clock ticks the bucket gains at most what the bound does; a full    *)
(* one gains nothing, and a new window begins that is as full as allowed.       *)
LEMMA TickKeeps ==
  ASSUME Inv, TypeOK', Tick
  PROVE  RateInv' /\ Tight'
  <1>1. /\ now \in Nat /\ now' = now + 1 /\ now' \in 0..MaxTime
        /\ spent' = spent /\ spent \in Nat
        /\ spentBefore'[now'] = spent
        /\ \A s \in 0..now : spentBefore'[s] = spentBefore[s] /\ spentBefore[s] \in Nat
    BY LimiterAssumption DEF Inv, TypeOK, Tick
  <1>2. Refilled' = IF Refilled < MaxTokens THEN Refilled + 1 ELSE MaxTokens
    BY FullBucket DEF Inv, TypeOK, Tick, bucket, Refilled, Min
  <1>3. Refilled \in 0..MaxTokens /\ MaxTokens \in Nat /\ MaxTokens' = MaxTokens
    BY RefilledBounds, FullBucket DEF Inv
  <1>4. \A s \in 0..now :
           /\ Granted(s)' = (Granted(s) - Refilled) + Refilled'
           /\ Allowed(s)' = Allowed(s) + 1
           /\ Granted(s) \in Int /\ Allowed(s) \in Int
    BY <1>1, <1>2, <1>3 DEF Granted, Allowed, SpentSince
  <1>5. \A s \in {now'} : Granted(s)' = Refilled' /\ Allowed(s)' = MaxTokens
    BY <1>1, <1>2, <1>3 DEF Granted, Allowed, SpentSince
  <1>6. RateInv'
    <2> SUFFICES ASSUME NEW s \in 0..now' PROVE Granted(s)' <= Allowed(s)'
      BY DEF RateInv
    <2>1. CASE s = now'
      BY <1>2, <1>3, <1>5, <2>1
    <2>2. CASE s \in 0..now
      BY <1>2, <1>3, <1>4, <2>2 DEF Inv, RateInv
    <2> QED
      BY <1>1, <2>1, <2>2
  <1>7. Tight'
    <2>1. CASE Refilled < MaxTokens
      <3>1. PICK s \in 0..now : Granted(s) = Allowed(s)
        BY DEF Inv, Tight
      <3>2. Granted(s)' = Allowed(s)' /\ s \in 0..now'
        BY <1>1, <1>2, <1>3, <1>4, <2>1, <3>1
      <3> QED
        BY <3>2 DEF Tight
    <2>2. CASE Refilled = MaxTokens
      <3>1. \A s \in {now'} : Granted(s)' = Allowed(s)' /\ s \in 0..now'
        BY <1>1, <1>2, <1>5, <2>2, <1>3
      <3> QED
        BY <3>1 DEF Tight
    <2> QED
      BY <1>3, <2>1, <2>2
  <1> QED
    BY <1>6, <1>7

(* Every step keeps the inductive invariant.                                    *)
LEMMA InvStep == Inv /\ [Next]_vars => Inv'
  <1> SUFFICES ASSUME Inv, [Next]_vars PROVE Inv'
    OBVIOUS
  <1>t. TypeOK'
    BY TypeStep DEF Inv
  <1> SUFFICES RateInv' /\ Tight'
    BY <1>t DEF Inv
  <1>1. CASE \E c \in Callers : Acquire(c)
    BY <1>t, <1>1, AcquireKeeps
  <1>2. CASE Available \/ \E c \in Callers : Refuse(c)
    BY <1>t, <1>2, LookKeeps DEF Available, Refuse, history
  <1>3. CASE Tick
    BY <1>t, <1>3, TickKeeps
  <1>4. CASE UNCHANGED <<bucket, now, history>>
    BY <1>4 DEF Inv, RateInv, Tight, Granted, Allowed, SpentSince, Refilled, Min,
                bucket, history
  <1> QED
    BY <1>1, <1>2, <1>3, <1>4 DEF Next, vars, Wait, Timer, GiveUp, Cancel

(* The limiter is always well typed, its bound holds with the tokens in the     *)
(* bucket counted in, and some window reaches it.                               *)
THEOREM InvAlways == Spec => []Inv
  BY InitInv, InvStep, PTL DEF Spec

(* The bucket never runs into debt and never overflows (TypeOK), and in every   *)
(* window of time the goroutines acquire at most a burst and what accrues.      *)
THEOREM BoundAlways == Spec => []TypeOK /\ []RateBound
  <1>1. Inv => TypeOK /\ RateBound
    <2> SUFFICES ASSUME Inv, NEW s \in 0..now
                 PROVE  TypeOK /\ SpentSince(s) <= MaxTokens + (now - s)
      BY DEF RateBound, Inv
    <2>1. Granted(s) <= Allowed(s) /\ Refilled \in Nat
      BY RefilledBounds, FullBucket DEF Inv, RateInv
    <2>2. SpentSince(s) \in Int /\ Allowed(s) \in Int
      BY LimiterAssumption, FullBucket DEF Inv, TypeOK, SpentSince, Allowed
    <2> QED
      BY <2>1, <2>2 DEF Inv, Granted, Allowed
  <1> QED
    BY <1>1, InvAlways, PTL

(* TryAcquire refuses only what the bound forbids.                              *)
THEOREM RefusalsAreNeeded == Spec => RefusesOnlyExcess
  <1>1. ASSUME Inv, [Next]_vars, NEW c \in Callers, pc[c] = "try", pc'[c] = "waiting"
        PROVE  \E s \in 0..now : SpentSince(s) + Interval > MaxTokens + (now - s)
    <2>1. Refuse(c)
      BY <1>1 DEF Inv, TypeOK, Next, vars, calls, Wait, Acquire, Refuse, Timer, GiveUp, Cancel,
                  Available, Tick
    <2>2. Refilled < Interval /\ Refilled \in Nat
      BY <1>1, <2>1, RefilledBounds, FullBucket, LimiterAssumption DEF Refuse, Affordable, Inv
    <2>3. PICK s \in 0..now : Granted(s) = Allowed(s)
      BY <1>1 DEF Inv, Tight
    <2>4. SpentSince(s) \in Int /\ Allowed(s) \in Int
      BY <1>1, LimiterAssumption, FullBucket DEF Inv, TypeOK, SpentSince, Allowed
    <2> QED
      BY <2>2, <2>3, <2>4, LimiterAssumption DEF Granted, Allowed
  <1>2. Inv /\ [Next]_vars =>
           [\A c \in Callers :
              pc[c] = "try" /\ pc'[c] = "waiting" =>
                 \E s \in 0..now : SpentSince(s) + Interval > MaxTokens + (now - s)]_vars
    BY <1>1
  <1> QED
    BY <1>2, InvAlways, PTL DEF Spec, RefusesOnlyExcess

-----------------------------------------------------------------------------
(***************************************************************************)
(* ServedInTime.  While all are punctual, the tokens handed out are those of  *)
(* the goroutines served, so the first refusal says that the burst is gone,   *)
(* and each further one is charged to a token served since, or to one sleep   *)
(* that the truncation of the timer made too short.                           *)
(***************************************************************************)
Punctual == prompt /\ \A c \in Callers : requests[c] <= 1

Served == {c \in Callers : pc[c] = "acquired"}

\* What the sleeps for the tokens handed out beyond the burst may have taken.
Owed == SleepsPerToken * ((Cardinality(Served) - Burst) * WaitTime)

\* c last went to sleep at r.  Since then the bucket gained what the sleep took,
\* or what the one before took too, or somebody else was served.
AsleepSince(c, r) ==
    /\ r >= since[c]
    /\ \/ r - since[c] <= Owed /\ Refilled >= Min(MaxTokens, now - r)
       \/ /\ SleepsPerToken = 2
          /\ r - since[c] <= Owed + WaitTime
          /\ Refilled >= Min(MaxTokens, WaitTime + (now - r))
       \/ r - since[c] <= Owed - WaitTime

CallerInv(c) ==
    /\ since[c] <= now
    /\ pc[c] = "waiting" => now <= wake[c] /\ AsleepSince(c, wake[c] - WaitTime)
    /\ pc[c] = "try" => now = since[c] \/ AsleepSince(c, now - WaitTime)

PunctualInv ==
    /\ spent = Cardinality(Served) * Interval
    /\ Refilled >= MaxTokens - spent
    /\ \A c \in Callers : CallerInv(c)

OnceAsked == \A c \in Callers : pc[c] # "idle" => requests[c] >= 1

TimeInv == OnceAsked /\ (Punctual => PunctualInv)

(* A sleep takes at least a tick and more than half a token's time.              *)
LEMMA WaitTimes ==
  /\ WaitTime \in Nat \ {0} /\ WaitTime' = WaitTime
  /\ WaitTime <= Interval /\ 2 * WaitTime >= Interval
  <1> DEFINE q == Interval \div Grain
  <1>1. Interval \in Nat \ {0} /\ Grain \in Nat \ {0} /\ Grain <= Interval
    BY LimiterAssumption
  <1>2. q \in Int /\ q * Grain <= Interval /\ Interval < (q + 1) * Grain
    BY <1>1
  <1>3. q * Grain \in Int /\ (q + 1) * Grain = q * Grain + Grain
    BY <1>1, <1>2
  <1> HIDE DEF q
  <1>4. q >= 1
    <2>1. q <= 0 => q * Grain <= 0
      BY <1>1, <1>2
    <2> QED
      BY <1>1, <1>2, <1>3, <2>1
  <1>5. q * Grain >= Grain
    <2>1. (q - 1) * Grain >= 0
      BY <1>1, <1>2, <1>4
    <2>2. (q - 1) * Grain = q * Grain - Grain
      BY <1>1, <1>2
    <2> QED
      BY <1>1, <1>3, <2>1, <2>2
  <1>6. WaitTime = q * Grain /\ WaitTime' = WaitTime
    BY DEF WaitTime, q
  <1> QED
    BY <1>1, <1>2, <1>3, <1>5, <1>6

LEMMA Sleeps ==
  /\ SleepsPerToken \in {1, 2} /\ SleepsPerToken' = SleepsPerToken
  /\ SleepsPerToken = 1 => WaitTime = Interval
  BY DEF SleepsPerToken, WaitTime

(* The goroutines served are counted, and one that is not leaves room.          *)
LEMMA ServedCount ==
  /\ IsFiniteSet(Served)
  /\ Cardinality(Served) \in Nat
  /\ Cardinality(Callers) \in Nat
  /\ \A c \in Callers \ Served : Cardinality(Served) <= Cardinality(Callers) - 1
  <1>1. IsFiniteSet(Callers) /\ Served \in SUBSET Callers
    BY LimiterAssumption DEF Served
  <1>2. IsFiniteSet(Served) /\ Cardinality(Served) \in Nat /\ Cardinality(Callers) \in Nat
    BY <1>1, FS_Subset, FS_CardinalityType
  <1>3. ASSUME NEW c \in Callers \ Served
        PROVE  Cardinality(Served) <= Cardinality(Callers) - 1
    <2>1. Cardinality(Served) <= Cardinality(Callers)
      BY <1>1, FS_Subset
    <2>2. Cardinality(Served) # Cardinality(Callers)
      BY <1>1, <1>3, FS_Subset
    <2> QED
      BY <1>2, <2>1, <2>2
  <1> QED
    BY <1>2, <1>3

(* What the sleeps may take, in terms of the goroutines served.                  *)
LEMMA OwedFacts ==
  /\ Owed \in Int
  /\ Cardinality(Served) >= Burst => Owed >= 0
  /\ \A c \in Callers \ Served :
        /\ SleepsPerToken * ((Cardinality(Callers) - Burst) * WaitTime) \in Int
        /\ Owed <= SleepsPerToken * ((Cardinality(Callers) - Burst) * WaitTime)
                    - SleepsPerToken * WaitTime
  <1> DEFINE n == Cardinality(Served)
             m == Cardinality(Callers)
             w == WaitTime
             k == SleepsPerToken
             a == (n - Burst) * w
             b == (m - Burst) * w
  <1>1. n \in Nat /\ m \in Nat /\ w \in Nat /\ k \in {1, 2} /\ Burst \in Nat
    BY ServedCount, WaitTimes, Sleeps, LimiterAssumption
  <1>2. Owed = k * a
    BY DEF Owed
  <1>3. \A c \in Callers \ Served : n <= m - 1
    BY ServedCount
  <1> HIDE DEF n, m, w, k
  <1>4. a \in Int /\ b \in Int
    BY <1>1
  <1>5. n >= Burst => a >= 0
    BY <1>1
  <1>6. n <= m - 1 => a <= b - w
    <2>1. n <= m - 1 => (m - 1 - n) * w >= 0
      BY <1>1
    <2>2. (m - 1 - n) * w = b - w - a
      BY <1>1
    <2> QED
      BY <1>1, <1>4, <2>1, <2>2
  <1> HIDE DEF a, b
  <1>7. Owed \in Int /\ k * b \in Int /\ (a >= 0 => Owed >= 0)
        /\ (a <= b - w => Owed <= k * b - k * w)
    BY <1>1, <1>2, <1>4
  <1> QED
    BY <1>3, <1>5, <1>6, <1>7 DEF n, m, w, k, b

-----------------------------------------------------------------------------
LEMMA InitTime == Init => TimeInv
  <1> SUFFICES ASSUME Init PROVE TimeInv
    OBVIOUS
  <1>1. Served = {}
    BY DEF Init, Served
  <1>2. spent = Cardinality(Served) * Interval
    <2>1. Cardinality(Served) = 0
      BY <1>1, FS_EmptySet
    <2> QED
      BY <2>1, LimiterAssumption DEF Init
  <1>3. Refilled >= MaxTokens - spent
    BY FullBucket DEF Init, Refilled, Min
  <1>4. \A c \in Callers : CallerInv(c) /\ pc[c] = "idle"
    BY DEF Init, CallerInv
  <1> QED
    BY <1>2, <1>3, <1>4 DEF TimeInv, OnceAsked, PunctualInv

(* A goroutine asleep, or just awake, while another one steps and takes nothing. *)
LEMMA AsleepStays ==
  ASSUME TypeOK, NEW c \in Callers, since[c]' = since[c], CallerInv(c),
         UNCHANGED <<now, Served>>, Refilled' = Refilled,
         wake[c]' = wake[c], pc[c]' = pc[c]
  PROVE  CallerInv(c)'
  <1>1. Owed' = Owed
    BY WaitTimes, Sleeps DEF Owed
  <1>2. \A r \in Int : AsleepSince(c, r)' <=> AsleepSince(c, r)
    BY <1>1, WaitTimes, FullBucket, Sleeps DEF AsleepSince
  <1>3. wake[c] - WaitTime \in Int /\ now - WaitTime \in Int
    BY WaitTimes, LimiterAssumption DEF TypeOK
  <1>4. (wake[c] - WaitTime)' = wake[c] - WaitTime /\ (now - WaitTime)' = now - WaitTime
    BY WaitTimes
  <1>5. /\ AsleepSince(c, wake[c] - WaitTime)' <=> AsleepSince(c, wake[c] - WaitTime)
        /\ AsleepSince(c, now - WaitTime)' <=> AsleepSince(c, now - WaitTime)
    BY <1>1, <1>4, WaitTimes, FullBucket, Sleeps DEF AsleepSince
  <1> QED
    BY <1>5 DEF CallerInv

(* Who was punctual so far: a step never makes up for one that was not.          *)
LEMMA PunctualBefore ==
  ASSUME TypeOK, OnceAsked, [Next]_vars
  PROVE  /\ OnceAsked'
         /\ Punctual' => Punctual
  <1>0. \A c \in Callers : requests[c] \in Nat
    BY LimiterAssumption DEF TypeOK
  <1>1. OnceAsked' /\ \A c \in Callers : requests'[c] >= requests[c] /\ requests'[c] \in Nat
    <2>1. CASE \E c \in Callers : Wait(c)
      <3>1. PICK c \in Callers : Wait(c)
        BY <2>1
      <3>2. /\ requests' = [requests EXCEPT ![c] = @ + 1] /\ pc' = [pc EXCEPT ![c] = "try"]
            /\ pc \in [Callers -> {"idle", "try", "waiting", "acquired", "cancelled"}]
            /\ requests \in [Callers -> 0..Requests]
        BY <3>1 DEF Wait, TypeOK
      <3>3. /\ requests'[c] = requests[c] + 1
            /\ \A d \in Callers \ {c} : requests'[d] = requests[d] /\ pc'[d] = pc[d]
        BY <3>2
      <3> QED
        BY <1>0, <3>3 DEF OnceAsked
    <2>2. CASE requests' = requests /\ \A c \in Callers : pc'[c] # "idle" => pc[c] # "idle"
      BY <1>0, <2>2 DEF OnceAsked
    <2>3. \/ \E c \in Callers : Wait(c)
          \/ requests' = requests /\ \A c \in Callers : pc'[c] # "idle" => pc[c] # "idle"
      <3>1. ASSUME NEW c \in Callers,
                   Acquire(c) \/ Refuse(c) \/ Timer(c) \/ GiveUp(c) \/ Cancel(c)
            PROVE  requests' = requests /\ \A d \in Callers : pc'[d] # "idle" => pc[d] # "idle"
        <4>1. /\ requests' = requests /\ pc[c] # "idle"
              /\ pc' = pc \/ \E l \in {"acquired", "waiting", "try", "cancelled"} :
                               pc' = [pc EXCEPT ![c] = l]
          BY <3>1 DEF Acquire, Refuse, Timer, GiveUp, Cancel
        <4> QED
          BY <4>1 DEF TypeOK
      <3>2. ASSUME Available \/ Tick \/ UNCHANGED vars PROVE requests' = requests /\ pc' = pc
        BY <3>2 DEF Available, Tick, vars, calls
      <3> QED
        BY <3>1, <3>2 DEF Next
    <2> QED
      BY <2>1, <2>2, <2>3
  <1>3. prompt' => prompt
    BY DEF Next, vars, history, Wait, Acquire, Refuse, Timer, GiveUp, Cancel, Available, Tick
  <1> QED
    BY <1>0, <1>1, <1>3 DEF Punctual

-----------------------------------------------------------------------------
(* Who calls Wait for the first time was not served before.                      *)
LEMMA WaitTimed ==
  ASSUME TypeOK, TypeOK', OnceAsked, PunctualInv, Punctual', NEW d \in Callers, Wait(d)
  PROVE  PunctualInv'
  <1>1. requests[d] < 1 /\ pc[d] = "idle"
    BY DEF TypeOK, OnceAsked, Punctual, Wait
  <1>2. Served' = Served
    BY <1>1 DEF Served, Wait, TypeOK
  <1>3. Refilled' = Refilled /\ now' = now /\ spent' = spent
    BY DEF Wait, Refilled, Min, bucket, history
  <1>4. ASSUME NEW c \in Callers, c # d PROVE CallerInv(c)'
    BY <1>2, <1>3, <1>4, AsleepStays DEF PunctualInv, Wait, TypeOK
  <1>5. CallerInv(d)'
    BY LimiterAssumption DEF CallerInv, Wait, TypeOK
  <1> QED
    BY <1>2, <1>3, <1>4, <1>5, FullBucket DEF PunctualInv

(* A refusal: the first says that the burst is gone, the one after a sleep that  *)
(* somebody was served meanwhile or that the sleep was too short, and two sleeps *)
(* without anybody served would have filled a token.                             *)
LEMMA RefuseTimed ==
  ASSUME TypeOK, TypeOK', PunctualInv, NEW d \in Callers, Refuse(d)
  PROVE  PunctualInv'
  <1>1. Served' = Served /\ now' = now /\ spent' = spent
    BY DEF Served, Refuse, TypeOK, history
  <1>2. Refilled' = Refilled /\ Refilled \in 0..MaxTokens
    <2>1. Refilled \in Int /\ Refilled <= MaxTokens /\ Refilled \in 0..MaxTokens
      BY RefilledBounds, FullBucket
    <2> QED
      BY <2>1, LookIdempotent DEF Refuse, Look
  <1>3. ASSUME NEW c \in Callers, c # d PROVE CallerInv(c)'
    BY <1>1, <1>2, <1>3, AsleepStays DEF PunctualInv, Refuse, TypeOK
  <1>4. AsleepSince(d, now)
    <2>1. Refilled < Interval /\ pc[d] = "try" /\ CallerInv(d)
      BY <1>2, FullBucket, LimiterAssumption DEF Refuse, Affordable, PunctualInv
    <2>2. now \in Int /\ since[d] \in Int /\ since[d] <= now
      BY <2>1, LimiterAssumption DEF TypeOK, CallerInv
    <2>3. CASE now = since[d]
      <3>1. Cardinality(Served) >= Burst
        <4>1. (Burst - Cardinality(Served)) * Interval < Interval
          <5>1. (Burst - Cardinality(Served)) * Interval = MaxTokens - spent
            BY ServedCount, LimiterAssumption DEF MaxTokens, PunctualInv
          <5>2. MaxTokens - spent < Interval
            BY <1>2, <2>1, FullBucket, LimiterAssumption DEF PunctualInv, TypeOK
          <5> QED
            BY <5>1, <5>2
        <4>2. Burst - Cardinality(Served) >= 1
              => (Burst - Cardinality(Served) - 1) * Interval >= 0
          BY ServedCount, LimiterAssumption
        <4>3. (Burst - Cardinality(Served) - 1) * Interval
              = (Burst - Cardinality(Served)) * Interval - Interval
          BY ServedCount, LimiterAssumption
        <4> QED
          BY <4>1, <4>2, <4>3, ServedCount, LimiterAssumption
      <3> QED
        BY <2>2, <2>3, <3>1, <1>2, OwedFacts, FullBucket DEF AsleepSince, Min
    <2>4. CASE AsleepSince(d, now - WaitTime)
      <3>1. now - (now - WaitTime) = WaitTime
        BY <2>2, WaitTimes
      <3>2. WaitTime <= MaxTokens
        BY WaitTimes, FullBucket, LimiterAssumption
      <3>3. CASE now - WaitTime - since[d] <= Owed /\ Refilled >= WaitTime
        BY <1>2, <2>1, <2>2, <3>1, <3>2, <3>3, OwedFacts, WaitTimes, Sleeps, FullBucket,
           LimiterAssumption DEF AsleepSince, Min
      <3>4. CASE Refilled >= Min(MaxTokens, WaitTime + WaitTime)
        BY <1>2, <2>1, <3>4, WaitTimes, FullBucket, LimiterAssumption DEF Min
      <3>5. CASE now - WaitTime - since[d] <= Owed - WaitTime
        BY <1>2, <2>2, <3>5, OwedFacts, WaitTimes, FullBucket DEF AsleepSince, Min
      <3> QED
        BY <2>2, <2>4, <3>1, <3>2, <3>3, <3>4, <3>5, FullBucket, WaitTimes
           DEF AsleepSince, Min
    <2> QED
      BY <2>1, <2>3, <2>4 DEF CallerInv
  <1>5. CallerInv(d)'
    <2>1. wake'[d] = now + WaitTime /\ pc'[d] = "waiting" /\ since' = since /\ now \in Int
      BY LimiterAssumption DEF Refuse, TypeOK
    <2>2. (wake[d] - WaitTime)' = now
      BY <2>1, WaitTimes
    <2>3. Owed' = Owed
      BY <1>1, WaitTimes, Sleeps DEF Owed
    <2>4. AsleepSince(d, wake[d] - WaitTime)'
      BY <1>1, <1>2, <1>4, <2>1, <2>2, <2>3, WaitTimes, Sleeps, FullBucket DEF AsleepSince
    <2>5. since[d] <= now
      BY DEF PunctualInv, CallerInv
    <2> QED
      BY <1>1, <2>1, <2>4, <2>5, WaitTimes DEF CallerInv
  <1> QED
    BY <1>1, <1>2, <1>3, <1>5, FullBucket DEF PunctualInv

(* A token handed out lets everybody else who is asleep wait for one more.       *)
LEMMA AcquireTimed ==
  ASSUME TypeOK, TypeOK', PunctualInv, NEW d \in Callers, Acquire(d)
  PROVE  PunctualInv'
  <1>1. now' = now /\ since' = since /\ wake' = wake /\ spent' = spent + Interval /\ d \notin Served
    BY DEF Acquire, Served
  <1>2. Cardinality(Served)' = Cardinality(Served) + 1
    <2>1. Served' = Served \cup {d}
      BY DEF Acquire, Served, TypeOK
    <2> QED
      BY <1>1, <2>1, ServedCount, FS_AddElement
  <1>3. Refilled' = Refilled - Interval /\ Refilled \in Nat
    <2>1. Refilled - Interval \in Int /\ Refilled - Interval <= MaxTokens /\ Refilled \in Nat
      BY RefilledBounds, FullBucket, LimiterAssumption
    <2> QED
      BY <2>1, LookIdempotent DEF Acquire
  <1>4. /\ Owed' >= Owed + WaitTime /\ Owed' \in Int
        /\ SleepsPerToken = 2 => Owed' = Owed + 2 * WaitTime
    <2> DEFINE a == (Cardinality(Served) - Burst) * WaitTime
    <2>1. (Cardinality(Served) + 1 - Burst) * WaitTime = a + WaitTime /\ a \in Int
      BY ServedCount, WaitTimes, LimiterAssumption
    <2>2. Owed' = SleepsPerToken * ((Cardinality(Served)' - Burst) * WaitTime)
      BY WaitTimes, Sleeps DEF Owed
    <2>3. (Cardinality(Served)' - Burst) * WaitTime = a + WaitTime
      BY <1>2, <2>1, ServedCount, WaitTimes, LimiterAssumption
    <2>4. Owed' = SleepsPerToken * (a + WaitTime)
      BY <2>2, <2>3
    <2>5. Owed = SleepsPerToken * a
      BY DEF Owed
    <2> HIDE DEF a
    <2> QED
      BY <2>1, <2>4, <2>5, WaitTimes, Sleeps
  <1>5. ASSUME NEW c \in Callers, NEW r \in Int, AsleepSince(c, r)
        PROVE  r >= since[c] /\ r - since[c] <= Owed' - WaitTime
    <2>1. since[c] \in Int
      BY LimiterAssumption DEF TypeOK
    <2> QED
      BY <1>4, <1>5, <2>1, OwedFacts, WaitTimes, Sleeps DEF AsleepSince
  <1>6. ASSUME NEW c \in Callers PROVE CallerInv(c)'
    <2>1. CASE c = d
      BY <1>1, <2>1 DEF PunctualInv, CallerInv, Acquire, TypeOK
    <2>2. CASE c # d
      <3>1. pc'[c] = pc[c] /\ CallerInv(c)
        BY <2>2 DEF Acquire, TypeOK, PunctualInv
      <3>2. wake[c] - WaitTime \in Int /\ now - WaitTime \in Int
        <4>1. wake[c] \in Nat /\ now \in Nat
          BY LimiterAssumption DEF TypeOK
        <4> QED
          BY <4>1, WaitTimes
      <3>3. (wake[c] - WaitTime)' = wake[c] - WaitTime /\ (now - WaitTime)' = now - WaitTime
        BY <1>1, WaitTimes
      <3>4. AsleepSince(c, wake[c] - WaitTime) => AsleepSince(c, wake[c] - WaitTime)'
        BY <1>1, <1>5, <3>2, <3>3, WaitTimes DEF AsleepSince
      <3>5. AsleepSince(c, now - WaitTime) => AsleepSince(c, now - WaitTime)'
        BY <1>1, <1>5, <3>2, <3>3, WaitTimes DEF AsleepSince
      <3> QED
        BY <1>1, <3>1, <3>4, <3>5 DEF CallerInv
    <2> QED
      BY <2>1, <2>2
  <1>7. spent' = Cardinality(Served)' * Interval
    BY <1>1, <1>2, ServedCount, LimiterAssumption DEF PunctualInv
  <1>8. Refilled' >= MaxTokens - spent'
    BY <1>1, <1>3, FullBucket, LimiterAssumption DEF PunctualInv, TypeOK
  <1> QED
    BY <1>6, <1>7, <1>8, FullBucket DEF PunctualInv

(* Who is asleep wakes on time, gives up or is told to.                          *)
LEMMA WakeTimed ==
  ASSUME TypeOK, TypeOK', PunctualInv, NEW d \in Callers, Timer(d) \/ GiveUp(d) \/ Cancel(d)
  PROVE  PunctualInv'
  <1>1. Served' = Served
    BY DEF Served, Timer, GiveUp, Cancel, TypeOK
  <1>2. /\ Refilled' = Refilled /\ now' = now /\ spent' = spent
        /\ wake' = wake /\ since' = since
        /\ \A c \in Callers : c # d => pc'[c] = pc[c]
    BY DEF Timer, GiveUp, Cancel, Refilled, Min, bucket, history, TypeOK
  <1>3. ASSUME NEW c \in Callers, pc'[c] = pc[c] PROVE CallerInv(c)'
    BY <1>1, <1>2, <1>3, AsleepStays DEF PunctualInv
  <1>4. CallerInv(d)'
    <2>1. CASE Cancel(d)
      BY <1>3, <2>1 DEF Cancel
    <2>2. CASE GiveUp(d)
      BY <1>2, <2>2 DEF GiveUp, CallerInv, PunctualInv, TypeOK
    <2>3. CASE Timer(d)
      <3>1. pc[d] = "waiting" /\ CallerInv(d) /\ now = wake[d] /\ pc'[d] = "try"
        BY <2>3, LimiterAssumption DEF Timer, CallerInv, PunctualInv, TypeOK
      <3>2. Owed' = Owed
        BY <1>1, WaitTimes, Sleeps DEF Owed
      <3>3. AsleepSince(d, now - WaitTime)
        BY <3>1 DEF CallerInv
      <3>4. AsleepSince(d, now - WaitTime)'
        BY <1>2, <3>2, <3>3, WaitTimes, Sleeps, FullBucket DEF AsleepSince
      <3> QED
        BY <1>2, <3>1, <3>4 DEF CallerInv
    <2> QED
      BY <2>1, <2>2, <2>3
  <1> QED
    BY <1>1, <1>2, <1>3, <1>4, FullBucket DEF PunctualInv

(* A look, by anybody, keeps what the bucket is worth.                            *)
LEMMA AvailableTimed ==
  ASSUME TypeOK, TypeOK', PunctualInv, Available \/ UNCHANGED vars
  PROVE  PunctualInv'
  <1>1. Served' = Served /\ UNCHANGED <<now, pc, wake, since, spent>>
    BY DEF Served, Available, vars, calls, history
  <1>2. Refilled' = Refilled
    <2>1. Refilled \in Int /\ Refilled <= MaxTokens
      BY RefilledBounds, FullBucket
    <2> QED
      BY <2>1, LookIdempotent DEF Available, Look, vars, bucket, Refilled, Min
  <1>3. ASSUME NEW c \in Callers PROVE CallerInv(c)'
    BY <1>1, <1>2, AsleepStays DEF PunctualInv
  <1> QED
    BY <1>1, <1>2, <1>3, FullBucket DEF PunctualInv

(* The clock: the bucket gains what those asleep slept.                           *)
LEMMA TickTimed ==
  ASSUME TypeOK, TypeOK', PunctualInv, Punctual', Tick
  PROVE  PunctualInv'
  <1>1. Served' = Served /\ now' = now + 1 /\ now \in Nat /\ UNCHANGED <<pc, wake, since, spent>>
    BY LimiterAssumption DEF Served, Tick, calls, TypeOK
  <1>2. Refilled' = IF Refilled < MaxTokens THEN Refilled + 1 ELSE MaxTokens
    BY FullBucket DEF TypeOK, Tick, bucket, Refilled, Min
  <1>3. Refilled \in 0..MaxTokens /\ MaxTokens \in Nat /\ MaxTokens' = MaxTokens
    BY RefilledBounds, FullBucket
  <1>4. Owed' = Owed
    BY <1>1, WaitTimes, Sleeps DEF Owed
  <1>5. ASSUME NEW c \in Callers PROVE CallerInv(c)'
    <2>1. Asleep(c) /\ CallerInv(c) /\ wake[c] \in Int /\ since[c] \in Int
      <3>1. Asleep(c) /\ CallerInv(c)
        BY DEF Tick, Punctual, PunctualInv
      <3>2. wake[c] \in Int /\ since[c] \in Int
        BY LimiterAssumption DEF TypeOK
      <3> QED
        BY <3>1, <3>2
    <2>2. CASE pc[c] = "waiting"
      <3>1. now + 1 <= wake[c] /\ AsleepSince(c, wake[c] - WaitTime)
        BY <1>1, <2>1, <2>2 DEF Asleep, CallerInv
      <3>2. wake[c] - WaitTime \in Int /\ (wake[c] - WaitTime)' = wake[c] - WaitTime
        BY <1>1, <2>1, WaitTimes
      <3>3. AsleepSince(c, wake[c] - WaitTime)'
        BY <1>1, <1>2, <1>3, <1>4, <2>1, <3>1, <3>2, WaitTimes, Sleeps DEF AsleepSince, Min
      <3> QED
        BY <1>1, <2>1, <2>2, <3>1, <3>3 DEF CallerInv
    <2>3. CASE pc[c] # "waiting"
      BY <1>1, <2>1, <2>3 DEF Asleep, CallerInv
    <2> QED
      BY <2>2, <2>3
  <1> QED
    BY <1>1, <1>2, <1>3, <1>5, LimiterAssumption DEF PunctualInv, TypeOK

(* Every step keeps the goroutines' times.                                       *)
LEMMA TimeStep == TypeOK /\ TimeInv /\ [Next]_vars => TimeInv'
  <1> SUFFICES ASSUME TypeOK, TimeInv, [Next]_vars PROVE TimeInv'
    OBVIOUS
  <1>1. TypeOK' /\ OnceAsked /\ OnceAsked' /\ (Punctual' => Punctual)
    BY TypeStep, PunctualBefore DEF TimeInv
  <1> SUFFICES ASSUME Punctual' PROVE PunctualInv'
    BY <1>1 DEF TimeInv
  <1>2. PunctualInv
    BY <1>1 DEF TimeInv
  <1>3. CASE \E d \in Callers : Wait(d)
    BY <1>1, <1>2, <1>3, WaitTimed
  <1>4. CASE \E d \in Callers : Acquire(d)
    BY <1>1, <1>2, <1>4, AcquireTimed
  <1>5. CASE \E d \in Callers : Refuse(d)
    BY <1>1, <1>2, <1>5, RefuseTimed
  <1>6. CASE \E d \in Callers : Timer(d) \/ GiveUp(d) \/ Cancel(d)
    BY <1>1, <1>2, <1>6, WakeTimed
  <1>7. CASE Available \/ UNCHANGED vars
    BY <1>1, <1>2, <1>7, AvailableTimed
  <1>8. CASE Tick
    BY <1>1, <1>2, <1>8, TickTimed
  <1> QED
    BY <1>3, <1>4, <1>5, <1>6, <1>7, <1>8 DEF Next

(* Wait, when nothing is late and each goroutine called once, serves every       *)
(* goroutine within the sleeps that the tokens beyond the burst take: for any    *)
(* number of goroutines, any rate, burst and timer (ratelimit.go:44).            *)
THEOREM ServedInTimeAlways == Spec => []ServedInTime
  <1>1. ASSUME TypeOK, TimeInv PROVE ServedInTime
    <2> DEFINE most == SleepsPerToken * ((Cardinality(Callers) - Burst) * WaitTime)
    <2> SUFFICES ASSUME Punctual, NEW c \in Callers, pc[c] \in {"try", "waiting"},
                        now > since[c]
                 PROVE  now - since[c] <= most
      BY DEF ServedInTime, Punctual
    <2>1. PunctualInv /\ CallerInv(c)
      BY <1>1 DEF TimeInv, PunctualInv
    <2>2. c \in Callers \ Served
      BY DEF Served
    <2>3. most \in Int /\ Owed <= most - SleepsPerToken * WaitTime /\ Owed \in Int
      BY <2>2, OwedFacts
    <2> HIDE DEF most
    <2>4. PICK r \in Int : AsleepSince(c, r) /\ now <= r + WaitTime
      <3>1. now \in Int /\ since[c] \in Int /\ wake[c] \in Int
        BY <1>1, LimiterAssumption DEF TypeOK
      <3>2. CASE pc[c] = "waiting"
        <4>1. wake[c] - WaitTime \in Int /\ now <= (wake[c] - WaitTime) + WaitTime
          BY <2>1, <3>1, <3>2, WaitTimes DEF CallerInv
        <4> QED
          BY <2>1, <3>2, <4>1 DEF CallerInv
      <3>3. CASE pc[c] = "try"
        <4>1. now - WaitTime \in Int /\ now <= (now - WaitTime) + WaitTime /\ now # since[c]
          BY <3>1, WaitTimes
        <4> QED
          BY <2>1, <3>3, <4>1 DEF CallerInv
      <3> QED
        BY <3>2, <3>3
    <2>5. now \in Int /\ since[c] \in Int /\ WaitTime \in Nat /\ SleepsPerToken \in {1, 2}
      BY <1>1, WaitTimes, LimiterAssumption DEF TypeOK, SleepsPerToken
    <2>6. \/ r - since[c] <= Owed
          \/ SleepsPerToken = 2 /\ r - since[c] <= Owed + WaitTime
          \/ r - since[c] <= Owed - WaitTime
      BY <2>4 DEF AsleepSince
    <2>7. /\ SleepsPerToken = 1 => SleepsPerToken * WaitTime = WaitTime
          /\ SleepsPerToken = 2 => SleepsPerToken * WaitTime = WaitTime + WaitTime
      BY <2>5
    <2> HIDE DEF Owed
    <2>8. now - since[c] <= Owed + SleepsPerToken * WaitTime
      <3>1. CASE SleepsPerToken = 1
        BY <2>3, <2>4, <2>5, <2>6, <2>7, <3>1
      <3>2. CASE SleepsPerToken = 2
        BY <2>3, <2>4, <2>5, <2>6, <2>7, <3>2
      <3> QED
        BY <2>5, <3>1, <3>2
    <2>9. SleepsPerToken * WaitTime \in Int
      BY <2>5, <2>7
    <2> QED
      BY <2>3, <2>5, <2>8, <2>9
  <1>2. TypeOK /\ TimeInv /\ [Next]_vars => TypeOK' /\ TimeInv'
    BY TypeStep, TimeStep
  <1>3. Init => TypeOK /\ TimeInv
    BY InitInv, InitTime DEF Inv
  <1> QED
    BY <1>1, <1>2, <1>3, PTL DEF Spec
-----------------------------------------------------------------------------

(***************************************************************************)
(* Retry.  The invariants of one call say little about the middle of the     *)
(* loop; RetryInv ties attempt, the history and lastErr to the place the call *)
(* has reached.                                                              *)
(***************************************************************************)
\* The pauses there can be: one for each attempt but the last.
Pauses == IF cfg.maxRetries < 0 THEN 0 ELSE cfg.maxRetries

\* The last attempt failed with an error that may be repeated.
RetryableFailure == lastErr # <<>> /\ IsRetryable(lastErr)

AtCheck ==
    place = "check" =>
        /\ attempts = attempt
        /\ IF attempt = 0 THEN lastErr = <<>>
           ELSE RetryableFailure /\ attempt <= cfg.maxRetries + 1
        /\ Len(slept) = IF attempt <= cfg.maxRetries THEN attempt ELSE Pauses

AtCall ==
    place = "call" => attempt <= cfg.maxRetries /\ attempts = attempt /\ Len(slept) = attempt

AtRunning ==
    place = "running" =>
        attempt <= cfg.maxRetries /\ attempts = attempt + 1 /\ Len(slept) = attempt

AtSleep ==
    place = "sleep" => /\ attempt < cfg.maxRetries
                    /\ attempts = attempt + 1 /\ Len(slept) = attempt + 1
                    /\ RetryableFailure

AtDone ==
    place = "done" => /\ attempts <= (IF cfg.maxRetries < 0 THEN 0 ELSE cfg.maxRetries + 1)
                   /\ Len(slept) <= Pauses

RetryInv ==
    /\ RetryTypeOK
    /\ AtCheck /\ AtCall /\ AtRunning /\ AtSleep /\ AtDone
    /\ OneLateCall
    /\ HonestOutcome

-----------------------------------------------------------------------------
\* What the call returns is well typed.
LEMMA OutcomeTypes ==
  /\ NoOutcome \in [result : {"none", "value", "zero"},
                         err : Errors \cup {<<>>, <<"context">>}]
  /\ Result \in [result : {"none", "value", "zero"},
                      err : Errors \cup {<<>>, <<"context">>}]
  /\ \A e \in Errors \cup {<<>>, <<"context">>} :
        Failure(e) \in [result : {"none", "value", "zero"},
                             err : Errors \cup {<<>>, <<"context">>}]
  BY DEF NoOutcome, Result, Failure

LEMMA RetryInitInv == RetryInit => RetryInv
  <1> SUFFICES ASSUME RetryInit PROVE RetryInv
    OBVIOUS
  <1>1. RetryTypeOK
    <2>1. slept \in Seq({Delay(n) : n \in 0..attempt})
      BY DEF RetryInit
    <2> QED
      BY <2>1, OutcomeTypes, RetryAssumption DEF RetryInit, RetryTypeOK
  <1>2. Len(slept) = 0 /\ cfg.maxRetries \in Int
    BY RetryAssumption DEF RetryInit
  <1> QED
    BY <1>1, <1>2 DEF RetryInit, RetryInv, AtCheck, AtCall, AtRunning, AtSleep, AtDone, Pauses,
                      OneLateCall, HonestOutcome

(* Every step keeps one call well typed.                                        *)
LEMMA RetryTypeStep == RetryTypeOK /\ [RetryNext]_retryVars => RetryTypeOK'
  <1> SUFFICES ASSUME RetryTypeOK, [RetryNext]_retryVars PROVE RetryTypeOK'
    OBVIOUS
  <1> DEFINE D(m) == {Delay(n) : n \in 0..m}
  <1>1. CASE UNCHANGED <<cfg, attempt, slept>>
    <2>1. slept' \in Seq({Delay(n) : n \in 0..attempt})'
      BY <1>1 DEF RetryTypeOK, Delay
    <2>2. \/ UNCHANGED outcome
          \/ outcome' = Result
          \/ \E e \in Errors \cup {<<>>, <<"context">>} : outcome' = Failure(e)
      BY DEF RetryTypeOK, RetryNext, Step, retryVars, Check, Call, Succeed,
             FailForGood, FailRetryable,
             Wake, StopSleeping, CancelContext, Return
    <2>3. outcome' \in [result : {"none", "value", "zero"},
                       err : Errors \cup {<<>>, <<"context">>}]
      BY <2>2, OutcomeTypes DEF RetryTypeOK
    <2>4. /\ place' \in {"check", "call", "running", "sleep", "done"}
          /\ cancelled' \in BOOLEAN /\ lastErr' \in Errors \cup {<<>>}
      BY DEF RetryTypeOK, RetryNext, Step, retryVars, Check, Call, Succeed,
             FailForGood, FailRetryable,
             Wake, StopSleeping, CancelContext, Return
    <2>5. attempts' \in Nat /\ lateCalls' \in Nat
      BY DEF RetryTypeOK, RetryNext, Step, retryVars, Check, Call, Succeed,
             FailForGood, FailRetryable,
             Wake, StopSleeping, CancelContext
    <2> QED
      BY <1>1, <2>1, <2>3, <2>4, <2>5 DEF RetryTypeOK
  <1>2. CASE UNCHANGED <<cfg, slept>> /\ attempt' = attempt + 1
    <2>1. D(attempt) \subseteq D(attempt + 1)
      BY DEF RetryTypeOK
    <2>2. slept \in Seq(D(attempt + 1))
      BY <2>1 DEF RetryTypeOK
    <2>3. slept' \in Seq({Delay(n) : n \in 0..attempt})'
      BY <1>2, <2>2 DEF Delay
    <2>4. /\ place' = "check"
          /\ lastErr' \in Errors \cup {<<>>}
          /\ UNCHANGED <<outcome, cancelled, attempts, lateCalls>>
      BY <1>2 DEF RetryTypeOK, RetryNext, Step, retryVars, Check, Call,
                  Succeed, FailForGood, FailRetryable,
                  Wake, StopSleeping, CancelContext, MayRepeat
    <2> QED
      BY <1>2, <2>3, <2>4 DEF RetryTypeOK
  <1>3. ASSUME NEW err \in Errors, FailRetryable(err), MayRepeat
        PROVE  RetryTypeOK'
    <2>1. Append(slept, Delay(attempt)) \in Seq(D(attempt))
      BY DEF RetryTypeOK
    <2>2. slept' \in Seq({Delay(n) : n \in 0..attempt})'
      BY <1>3, <2>1 DEF FailRetryable, Delay
    <2> QED
      BY <1>3, <2>2 DEF RetryTypeOK, FailRetryable
  <1> QED
    BY <1>1, <1>2, <1>3 DEF RetryNext, Step, retryVars, Check, Call,
                            Succeed, FailForGood, FailRetryable,
                            Wake, StopSleeping, CancelContext

\* The arithmetic and the lengths a step needs.
LEMMA Numbers ==
  ASSUME RetryTypeOK
  PROVE  /\ cfg.maxRetries \in Int /\ attempt \in Nat
         /\ Len(slept) \in Nat
         /\ \A d : slept' = Append(slept, d) => Len(slept') = Len(slept) + 1
  BY RetryAssumption DEF RetryTypeOK

(* Every step keeps the place of the call in step with its history.              *)
LEMMA RetryInvStep ==
  RetryInv /\ [RetryNext]_retryVars => RetryInv'
  <1> SUFFICES ASSUME RetryInv, [RetryNext]_retryVars PROVE RetryInv'
    OBVIOUS
  <1>t. RetryTypeOK'
    BY RetryTypeStep DEF RetryInv
  <1>n. /\ cfg.maxRetries \in Int /\ attempt \in Nat /\ Len(slept) \in Nat
        /\ \A d : slept' = Append(slept, d) => Len(slept') = Len(slept) + 1
    BY Numbers DEF RetryInv
  <1> USE <1>n DEF RetryInv, AtCheck, AtCall, AtRunning, AtSleep, AtDone, Pauses,
                   RetryableFailure,
                   OneLateCall, HonestOutcome
  <1>1. CASE Check
    BY <1>t, <1>1 DEF Check, Return, Failure, RetryTypeOK
  <1>2. CASE Call
    BY <1>t, <1>2 DEF Call, RetryTypeOK
  <1>3. CASE Succeed
    BY <1>t, <1>3 DEF Succeed, Return, Result, RetryTypeOK
  <1>4. ASSUME NEW err \in Errors, FailForGood(err) PROVE RetryInv'
    BY <1>t, <1>4, RetryAssumption DEF FailForGood, Return, Failure,
                      RetryTypeOK, IsRetryable
  <1>5. ASSUME NEW err \in Errors, FailRetryable(err) PROVE RetryInv'
    <2>1. lastErr' # <<>> /\ IsRetryable(lastErr)'
      BY <1>5, RetryAssumption DEF FailRetryable, IsRetryable
    <2>2. CASE MayRepeat
      BY <1>t, <1>5, <2>1, <2>2 DEF FailRetryable, MayRepeat
    <2>3. CASE ~MayRepeat
      BY <1>t, <1>5, <2>1, <2>3 DEF FailRetryable, MayRepeat
    <2> QED
      BY <2>2, <2>3
  <1>6. CASE Wake
    BY <1>t, <1>6 DEF Wake, RetryTypeOK, IsRetryable
  <1>7. CASE StopSleeping
    BY <1>t, <1>7 DEF StopSleeping, Return, Failure, RetryTypeOK
  <1>8. CASE CancelContext
    BY <1>t, <1>8 DEF CancelContext, RetryTypeOK, IsRetryable
  <1>9. CASE UNCHANGED retryVars
    BY <1>t, <1>9 DEF retryVars, RetryTypeOK, IsRetryable
  <1> QED
    BY <1>1, <1>2, <1>3, <1>4, <1>5, <1>6, <1>7, <1>8, <1>9 DEF RetryNext, Step

LEMMA InvImplies ==
  RetryInv =>
     RetryTypeOK /\ Budget /\ OneLateCall /\ HonestOutcome
  <1> SUFFICES ASSUME RetryInv PROVE Budget
    BY DEF RetryInv
  <1>1. cfg.maxRetries \in Int /\ attempt \in Nat /\ Len(slept) \in Nat
    BY Numbers DEF RetryInv
  <1>2. place \in {"check", "call", "running", "sleep", "done"}
    BY DEF RetryInv, RetryTypeOK
  <1> QED
    BY <1>1, <1>2 DEF RetryInv, AtCheck, AtCall, AtRunning, AtSleep, AtDone, Pauses, Budget,
                      OneLateCall

(* For every configuration, a negative number of repetitions included: WithRetry *)
(* (retry.go:29) keeps to its attempts and pauses, starts at most one attempt     *)
(* after the context is done, and says truthfully how it ended.                   *)
THEOREM RetryCorrect == RetrySpec => []RetryTypeOK /\ []Budget /\ []OneLateCall /\ []HonestOutcome
  <1>1. RetryInit => RetryInv
    BY RetryInitInv
  <1>2. RetryInv /\ [RetryNext]_retryVars => RetryInv'
    BY RetryInvStep
  <1>3. RetryInv => RetryTypeOK /\ Budget /\ OneLateCall /\ HonestOutcome
    BY InvImplies
  <1> QED
    BY <1>1, <1>2, <1>3, PTL DEF RetrySpec

-----------------------------------------------------------------------------
(* Powers of two count subsets, and so they grow and double.                    *)
LEMMA PowerCounts ==
  ASSUME NEW n \in Nat
  PROVE  /\ IsFiniteSet(SUBSET (1..n)) /\ Cardinality(SUBSET (1..n)) = 2^n
         /\ 2^n \in Nat /\ 2^n >= 1
  <1>1. IsFiniteSet(1..n) /\ Cardinality(1..n) = n
    <2>1. 1 \in Int /\ n \in Int
      OBVIOUS
    <2>2. IsFiniteSet(1..n) /\ Cardinality(1..n) = IF 1 > n THEN 0 ELSE n - 1 + 1
      BY <2>1, FS_Interval
    <2>3. 1 > n => n = 0
      OBVIOUS
    <2> QED
      BY <2>2, <2>3
  <1>2. IsFiniteSet(SUBSET (1..n)) /\ Cardinality(SUBSET (1..n)) = 2^n
    BY <1>1, FS_SUBSET
  <1>3. Cardinality(SUBSET (1..n)) \in Nat
    BY <1>2, FS_CardinalityType
  <1>4. SUBSET (1..n) # {}
    OBVIOUS
  <1>5. Cardinality(SUBSET (1..n)) # 0
    BY <1>2, <1>4, FS_EmptySet
  <1>6. 2^n \in Nat /\ 2^n # 0
    BY <1>2, <1>3, <1>5
  <1> DEFINE p == 2^n
  <1> HIDE DEF p
  <1>7. p \in Nat /\ p # 0 => p >= 1
    OBVIOUS
  <1> QED
    BY <1>2, <1>6, <1>7 DEF p

LEMMA PowerGrows ==
  ASSUME NEW m \in Nat, NEW n \in Nat, m < n
  PROVE  2^m < 2^n
  <1>1. SUBSET (1..m) \subseteq SUBSET (1..n)
    OBVIOUS
  <1>2. (1..n) \in SUBSET (1..n) /\ (1..n) \notin SUBSET (1..m)
    <2>1. n \in 1..n /\ n \notin 1..m
      OBVIOUS
    <2> QED
      BY <2>1
  <1>3. Cardinality(SUBSET (1..m)) <= Cardinality(SUBSET (1..n))
    BY <1>1, PowerCounts, FS_Subset
  <1>4. Cardinality(SUBSET (1..m)) # Cardinality(SUBSET (1..n))
    BY <1>1, <1>2, PowerCounts, FS_Subset
  <1>5. 2^m <= 2^n /\ 2^m # 2^n
    BY <1>3, <1>4, PowerCounts
  <1>6. 2^m \in Nat /\ 2^n \in Nat
    BY PowerCounts
  <1>7. \A x, y \in Nat : x <= y /\ x # y => x < y
    OBVIOUS
  <1> QED
    BY <1>5, <1>6, <1>7

LEMMA PowerDoubles ==
  ASSUME NEW n \in Nat
  PROVE  2^(n + 1) = 2 * 2^n
  <1> DEFINE A == SUBSET (1..n)
             B == {T \cup {n + 1} : T \in A}
             f == [T \in A |-> T \cup {n + 1}]
  <1>1. IsFiniteSet(A) /\ Cardinality(A) = 2^n /\ 2^n \in Nat
    BY PowerCounts
  <1>2. \A T \in A : n + 1 \notin T
    OBVIOUS
  <1>3. f \in Bijection(A, B)
    <2>1. f \in Surjection(A, B)
      BY DEF Surjection
    <2>2. \A S, T \in A : f[S] = f[T] => S = T
      BY <1>2
    <2>3. f \in [A -> B]
      OBVIOUS
    <2>4. f \in Injection(A, B)
      <3> HIDE DEF f, A, B
      <3> QED
        BY <2>2, <2>3 DEF Injection, IsInjective
    <2> QED
      BY <2>1, <2>4 DEF Bijection
  <1>4. IsFiniteSet(B) /\ Cardinality(B) = Cardinality(A)
    BY <1>1, <1>3, FS_Bijection DEF ExistsBijection
  <1>5. A \cup B = SUBSET (1..(n + 1))
    <2>0. 1..(n + 1) = (1..n) \cup {n + 1}
      OBVIOUS
    <2>1. A \cup B \subseteq SUBSET (1..(n + 1))
      BY <2>0
    <2>2. ASSUME NEW U \in SUBSET (1..(n + 1)), n + 1 \in U PROVE U \in B
      <3>1. U \ {n + 1} \in A /\ U = (U \ {n + 1}) \cup {n + 1}
        BY <2>2
      <3> QED
        BY <3>1
    <2>3. ASSUME NEW U \in SUBSET (1..(n + 1)), n + 1 \notin U PROVE U \in A
      BY <2>3
    <2> QED
      BY <2>1, <2>2, <2>3
  <1>6. A \cap B = {}
    BY <1>2
  <1>7. Cardinality(A \cup B) = Cardinality(A) + Cardinality(B) - Cardinality({})
    <2>1. IsFiniteSet(A) /\ IsFiniteSet(B) /\ A \cap B = {}
      BY <1>1, <1>4, <1>6
    <2> HIDE DEF A, B
    <2> QED
      BY <2>1, FS_Union
  <1>8. Cardinality(SUBSET (1..(n + 1))) = 2^(n + 1)
    <2>1. n + 1 \in Nat
      OBVIOUS
    <2> QED
      BY <2>1, PowerCounts
  <1>9. 2^(n + 1) = 2^n + 2^n - 0
    BY <1>1, <1>4, <1>5, <1>7, <1>8, FS_EmptySet
  <1> DEFINE p == 2^n
  <1> HIDE DEF p
  <1>10. p \in Nat => p + p - 0 = 2 * p
    OBVIOUS
  <1> QED
    BY <1>1, <1>9, <1>10 DEF p

\* A product that is a Duration is not changed by wrapping, and twice the half is lost.
LEMMA WrapKeeps ==
  ASSUME Width \in Nat \ {0}, NEW x \in Int, -(2^(Width - 1)) <= x, x < 2^(Width - 1)
  PROVE  Wrap(x) = x
  <1> DEFINE h == 2^(Width - 1)
  <1>1. h \in Nat /\ h >= 1 /\ 2^Width = 2 * h
    <2>1. Width - 1 \in Nat /\ Width = (Width - 1) + 1
      OBVIOUS
    <2> QED
      BY <2>1, PowerCounts, PowerDoubles
  <1>2. Wrap(x) = ((x + h) % (2 * h)) - h
    BY <1>1 DEF Wrap
  <1>3. -h <= x /\ x < h
    OBVIOUS
  <1> HIDE DEF h
  <1>4. 0 <= x + h /\ x + h < 2 * h
    BY <1>1, <1>3
  <1>5. (x + h) % (2 * h) = x + h
    <2> DEFINE y == x + h
               d == 2 * h
    <2>1. y \in Int /\ d \in Int /\ 0 <= y /\ y < d
      BY <1>1, <1>4
    <2> HIDE DEF y, d
    <2>2. y % d = y
      BY <2>1
    <2> QED
      BY <2>2 DEF y, d
  <1> QED
    BY <1>1, <1>2, <1>5

LEMMA WrapHalf ==
  ASSUME Width \in Nat \ {0}
  PROVE  Wrap(2^(Width - 1)) = -(2^(Width - 1))
  <1> DEFINE h == 2^(Width - 1)
  <1>1. h \in Nat /\ h >= 1 /\ 2^Width = 2 * h
    <2>1. Width - 1 \in Nat /\ Width = (Width - 1) + 1
      OBVIOUS
    <2> QED
      BY <2>1, PowerCounts, PowerDoubles
  <1>2. Wrap(h) = ((h + h) % (2 * h)) - h
    BY <1>1 DEF Wrap
  <1> HIDE DEF h
  <1>3. h + h = 2 * h /\ 2 * h \in Nat /\ 2 * h >= 1
    BY <1>1
  <1>4. \A d \in Nat : d >= 1 => d % d = 0
    OBVIOUS
  <1>5. Wrap(h) = -h
    BY <1>1, <1>2, <1>3, <1>4
  <1> QED
    BY <1>5 DEF h

LEMMA Products ==
  ASSUME NEW b \in Int, NEW p \in Nat
  PROVE  /\ b * p \in Int
         /\ b >= 1 => b * p >= p
         /\ b <= -1 => b * p <= -p
         /\ b = 0 => b * p = 0
  <1>1. b * p \in Int
    OBVIOUS
  <1>2. ASSUME b >= 1 PROVE b * p >= p
    <2>1. (b - 1) * p >= 0
      BY <1>2
    <2>2. (b - 1) * p = b * p - p
      OBVIOUS
    <2> QED
      BY <1>1, <2>1, <2>2
  <1>3. ASSUME b <= -1 PROVE b * p <= -p
    <2>1. (-1 - b) * p >= 0
      BY <1>3
    <2>2. (-1 - b) * p = -p - b * p
      OBVIOUS
    <2> QED
      BY <1>1, <2>1, <2>2
  <1>4. b = 0 => b * p = 0
    OBVIOUS
  <1> QED
    BY <1>1, <1>2, <1>3, <1>4

\* The product that is computed is the one intended, as long as that is a Duration.
LEMMA DelayIsExponential ==
  ASSUME cfg \in Configs, NEW n \in Nat,
         -(2^(Width - 1)) <= cfg.baseDelay * 2^n, cfg.baseDelay * 2^n < 2^(Width - 1)
  PROVE  Wrap(cfg.baseDelay * Shift(n)) = cfg.baseDelay * 2^n
  <1> DEFINE b == cfg.baseDelay
             h == 2^(Width - 1)
             p == 2^n
  <1>0. b \in Int /\ Width - 1 \in Nat /\ Width \in Nat /\ Width \in Nat \ {0}
    BY RetryAssumption
  <1>1. h \in Nat /\ h >= 1 /\ p \in Nat /\ p >= 1
    BY <1>0, PowerCounts
  <1>2. -h <= b * p /\ b * p < h /\ b * p \in Int
    BY <1>0, <1>1
  <1>3. Wrap(b * p) = b * p
    BY <1>2, <1>0, WrapKeeps
  <1>4. Wrap(0) = 0
    <2>1. 0 \in Int /\ -(2^(Width - 1)) <= 0 /\ 0 < 2^(Width - 1)
      BY <1>1
    <2> QED
      BY <2>1, <1>0, WrapKeeps
  <1>5. CASE n < Width - 1
    <2>1. p < h
      BY <1>0, <1>5, PowerGrows
    <2>2. Wrap(p) = p
      <3>1. p \in Int /\ -(2^(Width - 1)) <= p /\ p < 2^(Width - 1)
        BY <1>1, <2>1
      <3> QED
        BY <3>1, <1>0, WrapKeeps
    <2>3. Shift(n) = p
      BY <1>0, <1>5, <2>2 DEF Shift
    <2> QED
      BY <1>3, <2>3
  <1>6. CASE n = Width - 1
    <2>1. Shift(n) = -h /\ p = h
      BY <1>0, <1>6, WrapHalf DEF Shift
    <2> HIDE DEF b, h, p
    <2>2. b = 0 \/ b = -1
      <3>1. b >= 1 => b * p >= p
        BY <1>0, <1>1, Products
      <3>2. b <= -2 => (b + 1) * p <= -p
        <4>1. b <= -2 => b + 1 <= -1
          BY <1>0
        <4>2. b + 1 \in Int
          BY <1>0
        <4> QED
          BY <4>1, <4>2, <1>1, Products
      <3>3. (b + 1) * p = b * p + p
        BY <1>0, <1>1
      <3> QED
        BY <1>0, <1>1, <1>2, <2>1, <3>1, <3>2, <3>3
    <2>3. CASE b = 0
      <3>1. b * p = 0 /\ b * (-h) = 0
        BY <2>3, <1>1
      <3> QED
        BY <3>1, <2>1, <1>4 DEF b, h, p
    <2>4. CASE b = -1
      <3>1. b * p = -h /\ b * (-h) = h
        BY <2>4, <2>1, <1>1
      <3> QED
        BY <3>1, <2>1, <1>0, WrapHalf DEF b, h, p
    <2> QED
      BY <2>2, <2>3, <2>4
  <1>7. CASE n >= Width
    <2>1. h < p
      BY <1>0, <1>7, PowerGrows
    <2>2. Shift(n) = 0
      BY <1>0, <1>7 DEF Shift
    <2> HIDE DEF b, h, p
    <2>3. b = 0
      BY <1>0, <1>1, <1>2, <2>1, Products
    <2>4. b * p = 0 /\ b * 0 = 0
      BY <2>3, <1>1
    <2> QED
      BY <2>2, <2>4, <1>4 DEF b, p
  <1> QED
    BY <1>0, <1>5, <1>6, <1>7

\* Whatever is left of the product, MaxDelay caps it; of 1 << n nothing is left from Width on.
LEMMA DelayIsCapped ==
  ASSUME cfg \in Configs, NEW n \in Nat
  PROVE  Delay(n) <= cfg.maxDelay /\ (n + 1 > Width => Delay(n) <= 0)
  <1>0. /\ cfg.baseDelay \in Int /\ cfg.maxDelay \in Int
        /\ Width - 1 \in Nat /\ Width \in Nat /\ Width \in Nat \ {0}
    BY RetryAssumption
  <1>1. /\ 2^(Width - 1) \in Nat /\ 2^(Width - 1) >= 1
        /\ 2^Width \in Nat /\ 2^Width >= 1
    BY <1>0, PowerCounts
  <1>2. \A x \in Int : Wrap(x) \in Int
    <2> DEFINE h == 2^(Width - 1)
               d == 2^Width
    <2>1. h \in Nat /\ d \in Nat /\ d >= 1
      BY <1>1
    <2>2. \A x \in Int : Wrap(x) = ((x + h) % d) - h
      BY DEF Wrap
    <2> HIDE DEF h, d
    <2>3. \A x \in Int : (x + h) % d \in Int
      BY <2>1
    <2> QED
      BY <2>1, <2>2, <2>3
  <1>3. Wrap(0) = 0
    <2>1. 0 \in Int /\ -(2^(Width - 1)) <= 0 /\ 0 < 2^(Width - 1)
      BY <1>1
    <2> QED
      BY <2>1, <1>0, WrapKeeps
  <1>4. Shift(n) \in Int /\ (n >= Width => Shift(n) = 0)
    <2>1. 2^n \in Int
      BY PowerCounts
    <2> QED
      BY <1>0, <1>2, <2>1 DEF Shift
  <1>5. Wrap(cfg.baseDelay * Shift(n)) \in Int
    <2>1. cfg.baseDelay * Shift(n) \in Int
      BY <1>0, <1>4
    <2> QED
      BY <1>2, <2>1
  <1>6. n >= Width => Wrap(cfg.baseDelay * Shift(n)) = 0
    <2>1. cfg.baseDelay * 0 = 0
      BY <1>0
    <2> QED
      BY <1>3, <1>4, <2>1
  <1> DEFINE delay == Wrap(cfg.baseDelay * Shift(n))
  <1>7. Delay(n) = IF delay > cfg.maxDelay THEN cfg.maxDelay ELSE delay
    BY DEF Delay
  <1> HIDE DEF delay
  <1>8. delay \in Int /\ (n >= Width => delay = 0)
    BY <1>5, <1>6 DEF delay
  <1> QED
    BY <1>0, <1>7, <1>8

\* The pauses so far are those computed for the attempts, in their order.
PausesInv == \A i \in DOMAIN slept : slept[i] = Delay(i - 1)

LEMMA PausesStep == RetryInv /\ PausesInv /\ [RetryNext]_retryVars => PausesInv'
  <1> SUFFICES ASSUME RetryInv, PausesInv, [RetryNext]_retryVars PROVE PausesInv'
    OBVIOUS
  <1>1. CASE UNCHANGED <<cfg, slept>>
    BY <1>1 DEF PausesInv, Delay
  <1>2. ASSUME NEW err \in Errors, FailRetryable(err), MayRepeat PROVE PausesInv'
    <2>1. /\ slept \in Seq({Delay(n) : n \in 0..attempt}) /\ Len(slept) = attempt
          /\ attempt \in Nat /\ slept' = Append(slept, Delay(attempt))
      BY <1>2 DEF FailRetryable, RetryInv, RetryTypeOK, AtRunning
    <2>2. /\ DOMAIN slept' = 1..(attempt + 1) /\ slept'[attempt + 1] = Delay(attempt)
          /\ DOMAIN slept = 1..attempt /\ \A i \in 1..attempt : slept'[i] = slept[i]
      BY <2>1
    <2>3. \A n : Delay(n)' = Delay(n)
      BY <1>2 DEF FailRetryable, Delay
    <2>4. /\ (attempt + 1) - 1 = attempt
          /\ \A i \in 1..(attempt + 1) : i = attempt + 1 \/ i \in 1..attempt
      BY <2>1
    <2>5. \A i \in DOMAIN slept' : slept'[i] = Delay(i - 1)
      BY <2>2, <2>4 DEF PausesInv
    <2> QED
      BY <2>3, <2>5 DEF PausesInv
  <1> QED
    BY <1>1, <1>2 DEF RetryNext, Step, retryVars, Check, Call, Succeed,
                      FailForGood, FailRetryable,
                      Wake, StopSleeping, CancelContext

(* Never more attempts or pauses than MaxRetries allows (retry.go:11, :53), with a *)
(* pause between any two attempts and none after the last.                         *)
THEOREM BudgetAlways == RetrySpec => []Budget
  BY RetryCorrect, PTL

(* The wrapped product of retry.go:55-58 gives the exponential pause, or MaxDelay,  *)
(* for every width and configuration and every attempt whose exact product is a     *)
(* Duration, 1<<attempt reaching or leaving the width included; a pause never        *)
(* exceeds MaxDelay, and there is none once 1<<attempt has left the width.           *)
THEOREM BackoffAlways == RetrySpec => []BackoffIsExponential
  <1>1. RetryInit => PausesInv
    BY DEF RetryInit, PausesInv
  <1>2. RetryInv /\ PausesInv => BackoffIsExponential
    <2> SUFFICES ASSUME RetryInv, PausesInv, NEW i \in DOMAIN slept
                 PROVE  LET intended == cfg.baseDelay * 2^(i - 1)
                        IN  /\ -(2^(Width - 1)) <= intended /\ intended < 2^(Width - 1) =>
                                  slept[i] = IF intended > cfg.maxDelay THEN cfg.maxDelay ELSE intended
                            /\ slept[i] <= cfg.maxDelay
                            /\ i > Width => slept[i] <= 0
      BY DEF BackoffIsExponential
    <2>1. i \in Nat /\ i - 1 \in Nat /\ cfg \in Configs
      BY DEF RetryInv, RetryTypeOK
    <2>2. slept[i] = Delay(i - 1)
      BY DEF PausesInv
    <2>3. ASSUME -(2^(Width - 1)) <= cfg.baseDelay * 2^(i - 1),
                 cfg.baseDelay * 2^(i - 1) < 2^(Width - 1)
          PROVE  slept[i] = IF cfg.baseDelay * 2^(i - 1) > cfg.maxDelay
                            THEN cfg.maxDelay ELSE cfg.baseDelay * 2^(i - 1)
      <3>1. Wrap(cfg.baseDelay * Shift(i - 1)) = cfg.baseDelay * 2^(i - 1)
        BY <2>1, <2>3, DelayIsExponential
      <3> QED
        BY <2>2, <3>1 DEF Delay
    <2>4. slept[i] <= cfg.maxDelay /\ (i > Width => slept[i] <= 0)
      <3>1. Delay(i - 1) <= cfg.maxDelay /\ (i - 1 + 1 > Width => Delay(i - 1) <= 0)
        BY <2>1, DelayIsCapped
      <3>2. i - 1 + 1 = i
        BY <2>1
      <3> QED
        BY <2>2, <3>1, <3>2
    <2> QED
      BY <2>3, <2>4
  <1>3. RetryInit => RetryInv
    BY RetryInitInv
  <1>4. RetryInv /\ [RetryNext]_retryVars => RetryInv'
    BY RetryInvStep
  <1> QED
    BY <1>1, <1>2, <1>3, <1>4, PausesStep, PTL DEF RetrySpec
=============================================================================
