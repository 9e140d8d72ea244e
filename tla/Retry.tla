---------------------------------- MODULE Retry ----------------------------------
(***************************************************************************)
(* WithRetry (src/retry.go), as RetryableProvider.Translate uses it: one    *)
(* call that runs a function until it succeeds, fails for good, has used    *)
(* up its attempts or finds its context cancelled, with a growing pause      *)
(* between attempts.  The context may be cancelled at any moment.           *)
(* Durations are signed integers of Width bits, as time.Duration is one of  *)
(* 64; the unit of time is left open.                                        *)
(***************************************************************************)
EXTENDS Integers, Sequences

CONSTANTS
    Configs,    \* RetryConfig values: [maxRetries, baseDelay, maxDelay]
    Errors,     \* errors the function may return: chains of wrapped errors
    Width       \* bits of a Duration

\* A chain is a sequence of these, the outermost error first.
Kinds == {"retryable", "final", "context", "other"}

ASSUME RetryAssumption ==
    /\ Errors \subseteq Seq(Kinds) \ {<<>>}
    /\ Configs \subseteq [maxRetries : Int, baseDelay : Int, maxDelay : Int]
    /\ Width \in Nat \ {0}

VARIABLES
    cfg,        \* the configuration of this call
    place,         \* "check", "call", "running", "sleep" or "done"
    attempt,
    cancelled,  \* ctx is done
    lastErr,    \* the error of the last attempt; <<>> is nil
    outcome,    \* what WithRetry returned: [result, err]
    attempts,      \* history: attempts started
    lateCalls,  \* history: attempts started after the cancellation
    slept       \* history: the pauses that were started

retryVars == <<cfg, place, attempt, cancelled, lastErr, outcome, attempts, lateCalls, slept>>

IsProviderError(kind) == kind \in {"retryable", "final"}

\* IsRetryable: errors.As finds the outermost ProviderError of the chain.
IsRetryable(err) ==
    \E i \in DOMAIN err : err[i] = "retryable" /\ \A j \in 1..(i - 1) : ~IsProviderError(err[j])

\* Signed arithmetic of Width bits: 1<<n loses the bits that do not fit.
Wrap(x) == ((x + 2^(Width - 1)) % 2^Width) - 2^(Width - 1)
ShiftByOneMore(n) == IF n + 1 < Width THEN Wrap(2^(n + 1)) ELSE 0
Shift(n) == IF n < Width THEN Wrap(2^n) ELSE 0

\* The pause after an attempt: BaseDelay * 1<<attempt, at most MaxDelay.
Delay(n) ==
    LET delay == Wrap(cfg.baseDelay * Shift(n))
    IN  IF delay > cfg.maxDelay THEN cfg.maxDelay ELSE delay

NoOutcome == [result |-> "none", err |-> <<>>]
Result == [result |-> "value", err |-> <<>>]
FailureSwallowed(err) == [result |-> "zero", err |-> <<>>]
Failure(err) == [result |-> "zero", err |-> err]

\* A pause and another attempt follow, unless this was the last.
MayRepeatOnceMore == attempt <= cfg.maxRetries
MayRepeat == attempt < cfg.maxRetries

RetryInit ==
    /\ cfg \in Configs
    /\ place = "check"
    /\ attempt = 0
    /\ cancelled = FALSE
    /\ lastErr = <<>>
    /\ outcome = NoOutcome
    /\ attempts = 0
    /\ lateCalls = 0
    /\ slept = <<>>

-----------------------------------------------------------------------------
Return(r) ==
    /\ place' = "done"
    /\ outcome' = r

\* The head of the loop, and the look at the context before the attempt.
Check ==
    /\ place = "check"
    /\ IF attempt > cfg.maxRetries THEN Return(Failure(lastErr))
       ELSE IF cancelled THEN Return(Failure(<<"context">>))
       ELSE place' = "call" /\ UNCHANGED outcome
    /\ UNCHANGED <<cfg, attempt, cancelled, lastErr, attempts, lateCalls, slept>>

Call ==
    /\ place = "call"
    /\ place' = "running"
    /\ attempts' = attempts + 1
    /\ lateCalls' = IF cancelled THEN lateCalls + 1 ELSE lateCalls
    /\ UNCHANGED <<cfg, attempt, cancelled, lastErr, outcome, slept>>

Succeed ==
    /\ place = "running"
    /\ Return(Result)
    /\ UNCHANGED <<cfg, attempt, cancelled, lastErr, attempts, lateCalls, slept>>

\* The attempt fails for good: no further one.
FailForGood(err) ==
    /\ place = "running"
    /\ ~IsRetryable(err)
    /\ lastErr' = err
    /\ Return(Failure(err))
    /\ UNCHANGED <<cfg, attempt, cancelled, attempts, lateCalls, slept>>

\* The attempt fails and may be repeated: pause, but not after the last one.
FailRetryable(err) ==
    /\ place = "running"
    /\ IsRetryable(err)
    /\ lastErr' = err
    /\ IF MayRepeat
       THEN /\ place' = "sleep"
            /\ slept' = Append(slept, Delay(attempt))
            /\ UNCHANGED attempt
       ELSE /\ place' = "check"
            /\ attempt' = attempt + 1
            /\ UNCHANGED slept
    /\ UNCHANGED <<cfg, cancelled, outcome, attempts, lateCalls>>

WakeNever == FALSE

\* The timer fires; select may take it even when the context is done too.
Wake ==
    /\ place = "sleep"
    /\ place' = "check"
    /\ attempt' = attempt + 1
    /\ UNCHANGED <<cfg, cancelled, lastErr, outcome, attempts, lateCalls, slept>>

StopSleeping ==
    /\ place = "sleep"
    /\ cancelled
    /\ Return(Failure(<<"context">>))
    /\ UNCHANGED <<cfg, attempt, cancelled, lastErr, attempts, lateCalls, slept>>

\* The caller cancels, or its deadline passes.
CancelContext ==
    /\ ~cancelled
    /\ place # "done"
    /\ cancelled' = TRUE
    /\ UNCHANGED <<cfg, place, attempt, lastErr, outcome, attempts, lateCalls, slept>>

Step ==
    \/ Check
    \/ Call
    \/ Succeed
    \/ \E err \in Errors : FailForGood(err) \/ FailRetryable(err)
    \/ Wake
    \/ StopSleeping

RetryNext == Step \/ CancelContext

RetrySpec == RetryInit /\ [][RetryNext]_retryVars

\* The goroutine runs and the timer fires.  That the function returns is assumed of it:
\* WithRetry puts no limit on an attempt.
FairRetrySpec == RetrySpec /\ WF_retryVars(Step)

-----------------------------------------------------------------------------
(* The state of one call of WithRetry is well typed, and each pause is one    *)
(* that retry.go:55-58 computes for an attempt made so far.                    *)
RetryTypeOK ==
    /\ cfg \in Configs
    /\ place \in {"check", "call", "running", "sleep", "done"}
    /\ attempt \in Nat
    /\ cancelled \in BOOLEAN
    /\ lastErr \in Errors \cup {<<>>}
    /\ outcome \in [result : {"none", "value", "zero"}, err : Errors \cup {<<>>, <<"context">>}]
    /\ attempts \in Nat
    /\ lateCalls \in Nat
    /\ slept \in Seq({Delay(n) : n \in 0..attempt})

\* At most one attempt starts after the context is done: the one whose check (retry.go:35)
\* came just before the cancellation.
OneLateCall ==
    /\ lateCalls <= 1
    /\ lateCalls = 1 => cancelled /\ place # "call"

(* RetryConfig.MaxRetries (retry.go:11) is the number of repetitions: never   *)
(* more than MaxRetries + 1 attempts, a pause between any two of them and      *)
(* none after the last ("Don't sleep after the last attempt", retry.go:53).    *)
(* And once the context is done, at most one attempt more, also when select     *)
(* takes the timer's branch (retry.go:63) although the context is done.        *)
Budget ==
    /\ attempts <= (IF cfg.maxRetries < 0 THEN 0 ELSE cfg.maxRetries + 1)
    /\ place \in {"check", "call"} /\ attempt <= cfg.maxRetries =>
          attempts = attempt /\ Len(slept) = attempt
    /\ place = "running" => attempts = attempt + 1 /\ Len(slept) = attempt
    /\ place = "sleep" => attempts = attempt + 1 /\ Len(slept) = attempt + 1
    /\ Len(slept) <= (IF cfg.maxRetries < 0 THEN 0 ELSE cfg.maxRetries)
    /\ OneLateCall

(* The result (retry.go:37-68) tells the truth: a value means that the last    *)
(* attempt succeeded, a context error that the context is done, a retryable    *)
(* error that every attempt was used, any other that it was final.             *)
HonestOutcome ==
    place = "done" =>
        \/ outcome.result = "value" /\ outcome.err = <<>> /\ attempts > 0
        \/ outcome.result = "zero" /\ outcome.err = <<"context">> /\ cancelled
        \/ /\ outcome.result = "zero" /\ outcome.err = lastErr
           /\ IF lastErr = <<>> THEN cfg.maxRetries < 0
              ELSE IsRetryable(lastErr) => attempts = cfg.maxRetries + 1

(* Exponential backoff (retry.go:28, :55-58) over the integers: the pause after *)
(* attempt i is BaseDelay * 2^(i-1) or MaxDelay, whichever is less, as long as   *)
(* that product is a Duration.  Beyond it the product wraps around before it is  *)
(* compared with MaxDelay: the pauses are still not longer than MaxDelay, but    *)
(* they need not grow, and from the attempt on at which 1 << attempt has no bit  *)
(* left there is no pause at all.                                                *)
BackoffIsExponential ==
    \A i \in DOMAIN slept :
        LET intended == cfg.baseDelay * 2^(i - 1)
        IN  /\ -(2^(Width - 1)) <= intended /\ intended < 2^(Width - 1) =>
                  slept[i] = IF intended > cfg.maxDelay THEN cfg.maxDelay ELSE intended
            /\ slept[i] <= cfg.maxDelay
            /\ i > Width => slept[i] <= 0

(* WithRetry (retry.go:29) returns whether the function ever succeeds or not, as *)
(* long as each call of it returns.                                              *)
Terminates == <>(place = "done")
=============================================================================
