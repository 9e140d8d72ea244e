----------------------------- MODULE ProviderStack -----------------------------
(***************************************************************************)
(* Retry over rate limit over OpenAI: RetryableProvider (src/retry.go) wraps *)
(* RateLimitedProvider (src/ratelimit.go) wraps OpenAIProvider               *)
(* (src/provider/openai.go), shared by goroutines with one call each.  Every *)
(* attempt of WithRetry waits for a token of the common bucket and then asks  *)
(* the API, which may fail, say nothing or answer anything.  The clock of     *)
(* the bucket is left out: RateLimiter has it.                                *)
(***************************************************************************)
EXTENDS Integers, Sequences

CONSTANTS
    Callers,        \* goroutines
    Observed,       \* the one whose loop is compared with Retry: any of them
    Requests,       \* TranslateRequests: [texts, contexts, settings]
    NoContext,      \* the empty context of a text
    KnownStyles,    \* the keys of StyleDescriptions
    MaxRetries,
    Burst,
    NotAString,     \* an item of an answer that is no string, null say
    Formatted       \* what %v makes of it

\* How long the pauses are is left to Retry.
Config == [maxRetries |-> MaxRetries, baseDelay |-> 0, maxDelay |-> 0]
ProviderErrors == {"retryable", "final"} \X {"context", "other"}
Errors == ProviderErrors \cup {<<"retryable">>, <<"final">>, <<"other">>}

ASSUME StackAssumption ==
    /\ MaxRetries \in Nat
    /\ Burst \in Nat \ {0}
    /\ Observed \in Callers
    /\ \A r \in Requests : /\ r.texts \in Seq(STRING) /\ r.contexts \in Seq(STRING)
                           /\ Len(r.contexts) <= Len(r.texts)

VARIABLES
    request,    \* what each goroutine wants translated
    pc,         \* in WithRetry "check", "call", "sleep", "done"; in Wait "try", "waiting"; "api"
    attempt, cancelled, lastErr, outcome,   \* as in Retry
    tokens,     \* whole tokens in the bucket
    answer,     \* the strings that were returned
    got,        \* history: what they were read from
    calls, lateCalls, pauses,               \* history, as in Retry
    requests, lateRequests                  \* history: requests to the API, and late ones

loop == <<attempt, lastErr, outcome, pauses>>
counts == <<calls, lateCalls, requests, lateRequests>>
vars == <<request, pc, cancelled, tokens, answer, got, loop, counts>>

\* The loop of one goroutine, as Retry specifies it: the rest is the function it runs.
RetryLoop == INSTANCE Retry WITH
    Configs <- {Config}, Width <- 16, cfg <- Config,
    place <- IF pc[Observed] \in {"try", "waiting", "api"} THEN "running" ELSE pc[Observed],
    attempt <- attempt[Observed], cancelled <- cancelled[Observed],
    lastErr <- lastErr[Observed], outcome <- outcome[Observed],
    attempts <- calls[Observed], lateCalls <- lateCalls[Observed],
    slept <- [i \in 1..pauses[Observed] |-> 0]

-----------------------------------------------------------------------------
\* buildSystemPrompt: the source language is not told.
Prompt(settings) ==
    [target |-> settings.target,
     style |-> IF settings.style \in KnownStyles THEN settings.style ELSE "neutral",
     context |-> settings.context, glossary |-> settings.glossary,
     excluded |-> settings.excluded]

ContextOf(req, i) == IF i \in DOMAIN req.contexts THEN req.contexts[i] ELSE NoContext

FirstHasContext(req) == ContextOf(req, 1) # NoContext
HasContexts(req) == \E i \in DOMAIN req.contexts : req.contexts[i] # NoContext

\* buildUserMessage: a list of texts, or of texts with contexts.
UserMessage(req) ==
    [i \in DOMAIN req.texts |->
        [text |-> req.texts[i], context |-> IF HasContexts(req) THEN ContextOf(req, i) ELSE NoContext]]

\* The array the prompt asks for: the translations in the order of the message.
Proper(req) ==
    [i \in DOMAIN req.texts |-> [of |-> UserMessage(req)[i], by |-> Prompt(req.settings)]]

\* What may come: the array under its key, or others, or nothing but an array; all
\* strings, one item no string, one item too few.
Arrays(req) ==
    {Proper(req), Tail(Proper(req)), [Proper(req) EXCEPT ![1] = NotAString]}
Contents(req) ==
    {[translations |-> t, others |-> o, direct |-> {}] :
        t \in {{}} \cup {{a} : a \in Arrays(req)},
        o \in {{}, {Tail(Proper(req)), Proper(req)}, Arrays(req) \ {Proper(req)}}}
    \cup {[translations |-> {}, others |-> {}, direct |-> {a}] : a \in Arrays(req) \cup {<<>>}}

ArraysOf(content) == content.translations \cup content.others \cup content.direct
\* parseResponse: the arrays it may settle on, the first of an object being any.
ParseResponse(content) ==
    IF content.translations # {} THEN content.translations
    ELSE IF content.others # {} THEN content.others ELSE content.direct

ASSUME NotAStringAssumption ==
    \A r \in Requests : \A i \in DOMAIN r.texts : Proper(r)[i] # NotAString

ToStringSlice(array) == [i \in DOMAIN array |-> IF array[i] = NotAString THEN Formatted ELSE array[i]]

Init ==
    /\ request \in [Callers -> Requests]
    /\ pc = [c \in Callers |-> "check"]
    /\ attempt = [c \in Callers |-> 0]
    /\ cancelled = [c \in Callers |-> FALSE]
    /\ lastErr = [c \in Callers |-> <<>>]
    /\ outcome = [c \in Callers |-> RetryLoop!NoOutcome]
    /\ tokens = Burst
    /\ answer = [c \in Callers |-> <<>>]
    /\ got = [c \in Callers |-> {}]
    /\ calls = [c \in Callers |-> 0]
    /\ lateCalls = [c \in Callers |-> 0]
    /\ pauses = [c \in Callers |-> 0]
    /\ requests = [c \in Callers |-> 0]
    /\ lateRequests = [c \in Callers |-> 0]

-----------------------------------------------------------------------------
GoTo(c, label) == pc' = [pc EXCEPT ![c] = label]
Return(c, r) == GoTo(c, "done") /\ outcome' = [outcome EXCEPT ![c] = r]
Late(c) == IF cancelled[c] THEN 1 ELSE 0

\* WithRetry, before an attempt.
CheckBlind(c) ==
    /\ pc[c] = "check"
    /\ IF attempt[c] > MaxRetries THEN Return(c, RetryLoop!Failure(lastErr[c]))
       ELSE GoTo(c, "call") /\ UNCHANGED outcome
    /\ UNCHANGED <<request, cancelled, tokens, answer, got, attempt, lastErr, pauses, counts>>
Check(c) ==
    /\ pc[c] = "check"
    /\ IF attempt[c] > MaxRetries THEN Return(c, RetryLoop!Failure(lastErr[c]))
       ELSE IF cancelled[c] THEN Return(c, RetryLoop!Failure(<<"context">>))
       ELSE GoTo(c, "call") /\ UNCHANGED outcome
    /\ UNCHANGED <<request, cancelled, tokens, answer, got, attempt, lastErr, pauses, counts>>

\* The attempt: RateLimitedProvider.Translate enters Wait.
Call(c) ==
    /\ pc[c] = "call"
    /\ GoTo(c, "try")
    /\ calls' = [calls EXCEPT ![c] = @ + 1]
    /\ lateCalls' = [lateCalls EXCEPT ![c] = @ + Late(c)]
    /\ UNCHANGED <<request, cancelled, tokens, answer, got, loop, requests, lateRequests>>

\* A token is had without a look at the context; a request without texts asks nobody.
Acquire(c) ==
    /\ pc[c] = "try"
    /\ tokens > 0
    /\ tokens' = tokens - 1
    /\ GoTo(c, "api")
    /\ IF request[c].texts = <<>> THEN UNCHANGED <<requests, lateRequests>>
       ELSE /\ requests' = [requests EXCEPT ![c] = @ + 1]
            /\ lateRequests' = [lateRequests EXCEPT ![c] = @ + Late(c)]
    /\ UNCHANGED <<request, cancelled, answer, got, loop, calls, lateCalls>>

Refuse(c) ==
    /\ pc[c] = "try"
    /\ tokens = 0
    /\ GoTo(c, "waiting")
    /\ UNCHANGED <<request, cancelled, tokens, answer, got, loop, counts>>

Timer(c) ==
    /\ pc[c] = "waiting"
    /\ GoTo(c, "try")
    /\ UNCHANGED <<request, cancelled, tokens, answer, got, loop, counts>>

MayRepeatOnceMore(c) == attempt[c] <= MaxRetries
MayRepeat(c) == attempt[c] < MaxRetries

\* The attempt failed: return the error, or pause and begin again.
Fail(c, err) ==
    /\ lastErr' = [lastErr EXCEPT ![c] = err]
    /\ \/ /\ ~RetryLoop!IsRetryable(err)
          /\ Return(c, RetryLoop!Failure(err))
          /\ UNCHANGED <<attempt, pauses>>
       \/ /\ RetryLoop!IsRetryable(err)
          /\ IF MayRepeat(c)
             THEN /\ GoTo(c, "sleep")
                  /\ pauses' = [pauses EXCEPT ![c] = @ + 1]
                  /\ UNCHANGED attempt
             ELSE /\ GoTo(c, "check")
                  /\ attempt' = [attempt EXCEPT ![c] = @ + 1]
                  /\ UNCHANGED pauses
          /\ UNCHANGED outcome
    /\ UNCHANGED <<request, cancelled, tokens, answer, got, counts>>

\* The wait for a token ends with the context: "rate limit wait cancelled".
GiveUp(c) ==
    /\ pc[c] = "waiting"
    /\ cancelled[c]
    /\ Fail(c, <<"final", "context">>)

\* The API call fails; the words of the error decide whether it may be repeated.
ApiFails(c) ==
    /\ pc[c] = "api"
    /\ request[c].texts # <<>>
    /\ \E err \in ProviderErrors : (err[2] = "context" => cancelled[c]) /\ Fail(c, err)

NoChoices(c) ==
    /\ pc[c] = "api"
    /\ request[c].texts # <<>>
    /\ Fail(c, <<"retryable">>)

Succeed(c, strings, content) ==
    /\ Return(c, RetryLoop!Result)
    /\ answer' = [answer EXCEPT ![c] = strings]
    /\ got' = [got EXCEPT ![c] = {content}]
    /\ UNCHANGED <<request, cancelled, tokens, attempt, lastErr, pauses, counts>>

NoTexts(c) ==
    /\ pc[c] = "api"
    /\ request[c].texts = <<>>
    /\ Succeed(c, <<>>, <<>>)

\* A count mismatch and an answer without an array end the call: neither is retried.
Answer(c) ==
    /\ pc[c] = "api"
    /\ request[c].texts # <<>>
    /\ \E content \in Contents(request[c]) :
          \/ ParseResponse(content) = {} /\ Fail(c, <<"final">>)
          \/ \E array \in ParseResponse(content) :
                IF Len(array) = Len(request[c].texts)
                THEN Succeed(c, ToStringSlice(array), content)
                ELSE Fail(c, <<"other">>)

Wake(c) ==
    /\ pc[c] = "sleep"
    /\ GoTo(c, "check")
    /\ attempt' = [attempt EXCEPT ![c] = @ + 1]
    /\ UNCHANGED <<request, cancelled, tokens, answer, got, lastErr, outcome, pauses, counts>>

StopSleeping(c) ==
    /\ pc[c] = "sleep"
    /\ cancelled[c]
    /\ Return(c, RetryLoop!Failure(<<"context">>))
    /\ UNCHANGED <<request, cancelled, tokens, answer, got, attempt, lastErr, pauses, counts>>

Cancel(c) ==
    /\ pc[c] # "done"
    /\ ~cancelled[c]
    /\ cancelled' = [cancelled EXCEPT ![c] = TRUE]
    /\ UNCHANGED <<request, pc, tokens, answer, got, loop, counts>>

RefillToOneLess ==
    /\ tokens < Burst - 1
    /\ tokens' = tokens + 1
    /\ UNCHANGED <<request, pc, cancelled, answer, got, loop, counts>>
Refill ==
    /\ tokens < Burst
    /\ tokens' = tokens + 1
    /\ UNCHANGED <<request, pc, cancelled, answer, got, loop, counts>>

Step(c) ==
    \/ Check(c) \/ Call(c) \/ Acquire(c) \/ Refuse(c) \/ Timer(c) \/ GiveUp(c)
    \/ ApiFails(c) \/ NoChoices(c) \/ NoTexts(c) \/ Answer(c) \/ Wake(c) \/ StopSleeping(c)

Next == Refill \/ \E c \in Callers : Step(c) \/ Cancel(c)

Spec == Init /\ [][Next]_vars

\* The request is sent and the context is not done.  Neither openai.go:30 nor the wrappers
\* set a timeout, so nothing in the program ends this wait.
AwaitsApi(c) == pc[c] = "api" /\ request[c].texts # <<>> /\ ~cancelled[c]

\* Time passes, every goroutine that can run does, timers fire, and a request ends with its
\* context.  That the API answers, or fails, is not assumed.
FairSpec == Spec /\ WF_vars(Refill) /\ \A c \in Callers : WF_vars(~AwaitsApi(c) /\ Step(c))

-----------------------------------------------------------------------------
(* Whatever the limiter, the API and the other goroutines do, the loop of a       *)
(* goroutine is one of WithRetry (retry.go:29): its attempts, pauses and results  *)
(* are those Retry allows, with the errors of ratelimit.go:119 and                *)
(* openai.go:73-89, :228.                                                          *)
RetriesAsSpecified == RetryLoop!RetrySpec

(* The limiter takes a token before it asks again about the context               *)
(* (ratelimit.go:44), and the loop starts attempts (retry.go:35): together they    *)
(* send at most one request after the context is done.  Every attempt but the one  *)
(* that waits for its token or gave up there has sent one request.                 *)
RequestsAreWanted ==
    \A c \in Callers :
        /\ lateRequests[c] <= 1
        /\ request[c].texts # <<>> /\ requests[c] # calls[c] =>
              /\ requests[c] + 1 = calls[c]
              /\ \/ pc[c] \in {"try", "waiting"}
                 \/ pc[c] = "done" /\ cancelled[c] /\ outcome[c].err = <<"final", "context">>

\* What a caller hopes for: each text in its own context, under the call's settings.
Hoped(req) ==
    [i \in DOMAIN req.texts |-> [of |-> [text |-> req.texts[i], context |-> ContextOf(req, i)],
                                 by |-> Prompt(req.settings)]]

(* An answer has one string for each text, all of one array of one response       *)
(* (openai.go:203-252).  If the model answered as it was asked to, under           *)
(* "translations" and in the order of the texts, they are the translations of the   *)
(* texts in their own contexts, whatever other arrays the response holds.           *)
AnswerIsItsOwn ==
    \A c \in Callers :
        outcome[c].result = "value" /\ request[c].texts # <<>> =>
            /\ Len(answer[c]) = Len(request[c].texts)
            /\ \A content \in got[c] :
                  /\ \E array \in ArraysOf(content) :
                        answer[c] = ToStringSlice(array)
                  /\ content.translations = {Proper(request[c])} => answer[c] = Hoped(request[c])

(* A call returns, or the API is silent to one of its requests for ever: there is  *)
(* no timeout (openai.go:30, retry.go:41, ratelimit.go:126; main.go:164 gives a     *)
(* context that never ends), so only a context that is done frees it.  Nothing      *)
(* else holds a call up: callers compete for tokens (ratelimit.go:44) and repeat    *)
(* what fails (retry.go:60), but their attempts are bounded, the bucket is          *)
(* refilled, and a caller whom the API leaves waiting keeps no other one waiting.   *)
EveryCallReturnsOrAwaitsApi ==
    \A c \in Callers : <>(pc[c] = "done") \/ <>[]AwaitsApi(c)
=============================================================================
