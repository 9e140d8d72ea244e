------------------------------- MODULE RateLimiter -------------------------------
(***************************************************************************)
(* RateLimiter (src/ratelimit.go): a token bucket shared by the goroutines  *)
(* that call providers through RateLimitedProvider.  Tokens are refilled    *)
(* lazily, whenever somebody looks at the bucket; a caller that finds none  *)
(* sleeps for the time one token takes and tries again, unless its context  *)
(* is done first.                                                           *)
(* Tokens are measured in the time they take to accrue: one token is         *)
(* Interval clock ticks, so a tick refills one unit.  The rounding of        *)
(* float64 is not modelled; the truncation of the sleep to whole units of    *)
(* the timer is (Grain).                                                     *)
(***************************************************************************)
EXTENDS Integers, FiniteSets

CONSTANTS
    Callers,    \* goroutines
    Interval,   \* ticks in which one token accrues: 1 / refillRate
    Burst,      \* tokens a full bucket holds
    Grain,      \* ticks in the timer's unit
    Requests,   \* bound: calls of Wait per goroutine
    MaxTime     \* bound: the clock stops here

ASSUME LimiterAssumption ==
    /\ IsFiniteSet(Callers)
    /\ Interval \in Nat \ {0}
    /\ Burst \in Nat \ {0}
    /\ Grain \in 1..Interval
    /\ Requests \in Nat
    /\ MaxTime \in Nat

VARIABLES
    tokens,         \* r.tokens, in ticks
    lastRefill,
    now,
    pc,             \* "idle", "try", "waiting", "acquired" or "cancelled"
    wake,           \* when the timer of a waiting goroutine fires
    done,           \* the ctx of the goroutine's call is done
    requests,       \* history: calls of Wait so far
    since,          \* history: when the goroutine's last Wait began
    spent,          \* history: tokens handed out, in ticks
    spentBefore,    \* history: the value of spent when the clock reached a time
    prompt          \* history: no timer was late, and no goroutine kept waiting to run

bucket == <<tokens, lastRefill>>
calls == <<pc, wake, done, requests, since>>
history == <<spent, spentBefore, prompt>>
vars == <<bucket, now, calls, history>>

MaxTokens == Burst * Interval

\* time.Duration(float64(time.Second) / r.refillRate)
WaitTime == (Interval \div Grain) * Grain

Min(a, b) == IF a < b THEN a ELSE b

\* refill: what the bucket holds when somebody looks at it now.
RefilledUncapped == tokens + (now - lastRefill)
Refilled == Min(tokens + (now - lastRefill), MaxTokens)

\* Whether the bucket holds a whole token.
AffordableAbove == Refilled > Interval
Affordable == Refilled >= Interval

\* A look that takes nothing keeps the refill.
LookDropsRefill == lastRefill' = now /\ UNCHANGED tokens
Look == lastRefill' = now /\ tokens' = Refilled

Init ==
    /\ tokens = MaxTokens
    /\ lastRefill = 0
    /\ now = 0
    /\ pc = [c \in Callers |-> "idle"]
    /\ wake = [c \in Callers |-> 0]
    /\ done = [c \in Callers |-> FALSE]
    /\ requests = [c \in Callers |-> 0]
    /\ since = [c \in Callers |-> 0]
    /\ spent = 0
    /\ spentBefore = [t \in 0..MaxTime |-> 0]
    /\ prompt = TRUE

-----------------------------------------------------------------------------
\* RateLimitedProvider.Translate enters Wait, with a context of the call's own.
Wait(c) ==
    /\ pc[c] \in {"idle", "acquired", "cancelled"}
    /\ requests[c] < Requests
    /\ requests' = [requests EXCEPT ![c] = @ + 1]
    /\ since' = [since EXCEPT ![c] = now]
    /\ pc' = [pc EXCEPT ![c] = "try"]
    /\ done' = [done EXCEPT ![c] = FALSE]
    /\ UNCHANGED <<bucket, now, wake, history>>

\* TryAcquire under the lock: refill, and take a token if there is one.
Acquire(c) ==
    /\ pc[c] = "try"
    /\ Affordable
    /\ tokens' = Refilled - Interval
    /\ lastRefill' = now
    /\ spent' = spent + Interval
    /\ pc' = [pc EXCEPT ![c] = "acquired"]
    /\ UNCHANGED <<now, wake, done, requests, since, spentBefore, prompt>>

\* TryAcquire finds none: the refill is kept, and the timer is set.
Refuse(c) ==
    /\ pc[c] = "try"
    /\ ~Affordable
    /\ Look
    /\ pc' = [pc EXCEPT ![c] = "waiting"]
    /\ wake' = [wake EXCEPT ![c] = now + WaitTime]
    /\ UNCHANGED <<now, done, requests, since, history>>

\* The timer fires: try again.  select may take this branch with ctx done too.
Timer(c) ==
    /\ pc[c] = "waiting"
    /\ wake[c] <= now
    /\ pc' = [pc EXCEPT ![c] = "try"]
    /\ UNCHANGED <<bucket, now, wake, done, requests, since, history>>

\* The other branch: Wait returns the context's error.
GiveUp(c) ==
    /\ pc[c] = "waiting"
    /\ done[c]
    /\ pc' = [pc EXCEPT ![c] = "cancelled"]
    /\ UNCHANGED <<bucket, now, wake, done, requests, since, history>>

Cancel(c) ==
    /\ pc[c] \in {"try", "waiting"}
    /\ ~done[c]
    /\ done' = [done EXCEPT ![c] = TRUE]
    /\ UNCHANGED <<bucket, now, pc, wake, requests, since, history>>

\* Available, by anybody: a look that refills.
Available ==
    /\ Look
    /\ UNCHANGED <<now, calls, history>>

\* Nobody has anything to do before the clock moves on.
Asleep(c) == pc[c] # "try" /\ (pc[c] = "waiting" => wake[c] > now /\ ~done[c])

Tick ==
    /\ now < MaxTime
    /\ now' = now + 1
    /\ spentBefore' = [spentBefore EXCEPT ![now + 1] = spent]
    /\ prompt' = (prompt /\ \A c \in Callers : Asleep(c))
    /\ UNCHANGED <<bucket, calls, spent>>

Next ==
    \/ \E c \in Callers :
          Wait(c) \/ Acquire(c) \/ Refuse(c) \/ Timer(c) \/ GiveUp(c) \/ Cancel(c)
    \/ Available
    \/ Tick

Spec == Init /\ [][Next]_vars

-----------------------------------------------------------------------------
(* The bucket holds between nothing and a full burst, the last refill is not  *)
(* in the future, and every goroutine is somewhere in Wait.                   *)
TypeOK ==
    /\ tokens \in 0..MaxTokens
    /\ now \in 0..MaxTime
    /\ lastRefill \in 0..now
    /\ pc \in [Callers -> {"idle", "try", "waiting", "acquired", "cancelled"}]
    /\ wake \in [Callers -> Nat]
    /\ done \in [Callers -> BOOLEAN]
    /\ requests \in [Callers -> 0..Requests]
    /\ since \in [Callers -> 0..MaxTime]
    /\ spent \in Nat
    /\ spentBefore \in [0..MaxTime -> Nat]
    /\ prompt \in BOOLEAN

\* What was handed out from time s on.
SpentSince(s) == spent - spentBefore[s]

(* The promise of the token bucket (ratelimit.go:9): in any window of time, the *)
(* goroutines together acquire no more than a full burst and what accrues in    *)
(* the window, however the lazy refills fall and whoever looks at the bucket.   *)
RateBound == \A s \in 0..now : SpentSince(s) <= MaxTokens + (now - s)

(* The other half: TryAcquire (ratelimit.go:67) refuses only what the bound      *)
(* forbids, some window being so full that one more token would exceed it.  No   *)
(* refill is lost, neither by a look nor by a refusal.                           *)
RefusesOnlyExcess ==
    [][\A c \in Callers :
          pc[c] = "try" /\ pc'[c] = "waiting" =>
             \E s \in 0..now : SpentSince(s) + Interval > MaxTokens + (now - s)]_vars

\* How often a goroutine may sleep for one token: a sleep truncated to the timer's
\* unit can end just before the token is there.
SleepsPerToken == IF WaitTime = Interval THEN 1 ELSE 2

(* Wait (ratelimit.go:44) while everybody is prompt and has called once: although *)
(* no queue orders the waiting goroutines and each sleeps on its own timer, each  *)
(* is served, or gives up, within the sleeps that the tokens beyond the burst     *)
(* take.  No goroutine sleeps a third time for the same token (ratelimit.go:53).  *)
ServedInTime ==
    prompt /\ (\A c \in Callers : requests[c] <= 1) =>
        \A c \in Callers : pc[c] \in {"try", "waiting"} /\ now > since[c] =>
            now - since[c] <= SleepsPerToken * ((Cardinality(Callers) - Burst) * WaitTime)
=============================================================================
