-------------------------- MODULE ProviderStackProofs --------------------------
(***************************************************************************)
(* What holds of ProviderStack for any goroutines, requests, repetitions    *)
(* and bucket: one step moves one goroutine, so an invariant of each is      *)
(* kept if the step keeps it for the goroutine that moves.                   *)
(***************************************************************************)
EXTENDS ProviderStack, FiniteSetTheorems, TLAPS

Places == {"check", "call", "try", "waiting", "api", "sleep", "done"}
Outcomes == [result : {"none", "value", "zero"}, err : Errors \cup {<<>>, <<"context">>}]

Types ==
    /\ request \in [Callers -> Requests]
    /\ pc \in [Callers -> Places]
    /\ attempt \in [Callers -> Nat]
    /\ cancelled \in [Callers -> BOOLEAN]
    /\ lastErr \in [Callers -> Errors \cup {<<>>}]
    /\ outcome \in [Callers -> Outcomes]
    /\ answer \in [Callers -> {answer[c] : c \in Callers}]
    /\ got \in [Callers -> {got[c] : c \in Callers}]
    /\ calls \in [Callers -> Nat]
    /\ lateCalls \in [Callers -> Nat]
    /\ pauses \in [Callers -> Nat]
    /\ requests \in [Callers -> Nat]
    /\ lateRequests \in [Callers -> Nat]

\* How many requests an attempt has sent, by the place of the goroutine in it; and a
\* request is late only if the attempt began before the context was done.
RequestsInv(c) ==
    /\ lateRequests[c] \in {0, 1}
    /\ lateRequests[c] = 1 => cancelled[c] /\ pc[c] \in {"api", "check", "sleep", "done"}
    /\ request[c].texts # <<>> =>
          /\ pc[c] \in {"check", "call", "api", "sleep"} => requests[c] = calls[c]
          /\ pc[c] \in {"try", "waiting"} => requests[c] + 1 = calls[c]
          /\ pc[c] = "done" =>
                \/ requests[c] = calls[c]
                \/ /\ requests[c] + 1 = calls[c]
                   /\ cancelled[c] /\ outcome[c].err = <<"final", "context">>

\* A value is returned at the end only, with an answer of its own.
AnswerInv(c) ==
    /\ pc[c] # "done" => outcome[c].result = "none"
    /\ outcome[c].result = "value" /\ request[c].texts # <<>> =>
          /\ Len(answer[c]) = Len(request[c].texts)
          /\ \A content \in got[c] :
                /\ \E array \in ArraysOf(content) : answer[c] = ToStringSlice(array)
                /\ content.translations = {Proper(request[c])} => answer[c] = Hoped(request[c])

IInv == Types /\ \A c \in Callers : RequestsInv(c) /\ AnswerInv(c)

-----------------------------------------------------------------------------
\* Nothing about a goroutine has changed.
Same(c) ==
    /\ request'[c] = request[c] /\ pc'[c] = pc[c] /\ cancelled'[c] = cancelled[c]
    /\ attempt'[c] = attempt[c] /\ lastErr'[c] = lastErr[c] /\ outcome'[c] = outcome[c]
    /\ pauses'[c] = pauses[c] /\ answer'[c] = answer[c] /\ got'[c] = got[c]
    /\ calls'[c] = calls[c] /\ lateCalls'[c] = lateCalls[c]
    /\ requests'[c] = requests[c] /\ lateRequests'[c] = lateRequests[c]

LEMMA SameKeeps ==
    ASSUME NEW c \in Callers, RequestsInv(c), AnswerInv(c), Same(c)
    PROVE  RequestsInv(c)' /\ AnswerInv(c)'
BY DEF RequestsInv, AnswerInv, Same

LEMMA ErrorTypes ==
    /\ <<"retryable">> \in Errors /\ <<"final">> \in Errors /\ <<"other">> \in Errors
    /\ <<"final", "context">> \in Errors /\ ProviderErrors \subseteq Errors
BY DEF Errors, ProviderErrors

LEMMA OutcomeTypes ==
    /\ RetryLoop!NoOutcome \in Outcomes /\ RetryLoop!NoOutcome.result = "none"
    /\ RetryLoop!Result \in Outcomes /\ RetryLoop!Result.result = "value"
    /\ \A e \in Errors \cup {<<>>, <<"context">>} :
          /\ RetryLoop!Failure(e) \in Outcomes
          /\ RetryLoop!Failure(e).result = "zero" /\ RetryLoop!Failure(e).err = e
BY DEF Outcomes, RetryLoop!NoOutcome, RetryLoop!Result, RetryLoop!Failure

LEMMA InitIInv == Init => IInv
<1> SUFFICES ASSUME Init PROVE IInv
  OBVIOUS
<1>1. Types
  BY OutcomeTypes DEF Init, Types, Places
<1>2. \A c \in Callers : RequestsInv(c)
  <2> TAKE c \in Callers
  <2>1. pc[c] = "check" /\ calls[c] = 0 /\ requests[c] = 0 /\ lateRequests[c] = 0
    BY DEF Init
  <2> QED BY <2>1 DEF RequestsInv
<1>3. \A c \in Callers : AnswerInv(c)
  BY OutcomeTypes DEF Init, AnswerInv
<1> QED BY <1>1, <1>2, <1>3 DEF IInv

\* A failed attempt: the loop ends with its error, pauses, or runs out of attempts.
LEMMA FailStep ==
    ASSUME Types, NEW c \in Callers, NEW err \in Errors, Fail(c, err)
    PROVE  /\ Types'
           /\ \A d \in Callers \ {c} : Same(d)
           /\ UNCHANGED <<request, cancelled, answer, got, counts>>
           /\ \/ pc'[c] = "done" /\ outcome'[c] = RetryLoop!Failure(err)
              \/ /\ pc'[c] \in {"sleep", "check"} /\ outcome'[c] = outcome[c]
                 /\ RetryLoop!IsRetryable(err)
<1>1. /\ UNCHANGED <<request, cancelled, answer, got, counts>>
      /\ lastErr' = [lastErr EXCEPT ![c] = err]
  BY DEF Fail
<1>2. \/ pc' = [pc EXCEPT ![c] = "done"] /\ outcome' = [outcome EXCEPT ![c] = RetryLoop!Failure(err)]
      \/ /\ \E l \in {"sleep", "check"} : pc' = [pc EXCEPT ![c] = l]
         /\ outcome' = outcome /\ RetryLoop!IsRetryable(err)
  BY DEF Fail, Return, GoTo
<1>3. /\ \/ attempt' = attempt
         \/ attempt' = [attempt EXCEPT ![c] = @ + 1]
      /\ \/ pauses' = pauses
         \/ pauses' = [pauses EXCEPT ![c] = @ + 1]
  BY DEF Fail
<1>4. RetryLoop!Failure(err) \in Outcomes
  BY OutcomeTypes
<1>5. Types'
  <2>1. pc' \in [Callers -> Places] /\ outcome' \in [Callers -> Outcomes]
    BY <1>2, <1>4 DEF Types, Places
  <2>2. attempt' \in [Callers -> Nat] /\ pauses' \in [Callers -> Nat]
    <3>1. attempt \in [Callers -> Nat] /\ pauses \in [Callers -> Nat]
      BY DEF Types
    <3>2. \A f \in [Callers -> Nat] : [f EXCEPT ![c] = @ + 1] \in [Callers -> Nat]
      OBVIOUS
    <3>3. /\ [attempt EXCEPT ![c] = @ + 1] \in [Callers -> Nat]
          /\ [pauses EXCEPT ![c] = @ + 1] \in [Callers -> Nat]
      BY <3>1, <3>2
    <3> QED BY <1>3, <3>1, <3>3
  <2>3. lastErr' \in [Callers -> Errors \cup {<<>>}]
    BY <1>1 DEF Types
  <2> QED BY <1>1, <2>1, <2>2, <2>3 DEF Types, counts
<1>6. \A d \in Callers \ {c} : Same(d)
  BY <1>1, <1>2, <1>3 DEF Types, Same, counts
<1> QED BY <1>1, <1>2, <1>5, <1>6 DEF Types

\* What a step of a goroutine has to keep.
Kept(c) ==
    /\ Types'
    /\ \A d \in Callers \ {c} : Same(d)
    /\ RequestsInv(c)' /\ AnswerInv(c)'

\* The head of the loop lets no goroutine go on whose context is done.
LEMMA CheckKept == ASSUME IInv, NEW c \in Callers, Check(c) PROVE Kept(c)
<1>1. /\ UNCHANGED <<request, cancelled, answer, got, attempt, lastErr, pauses, counts>>
      /\ pc[c] = "check"
      /\ \/ /\ pc' = [pc EXCEPT ![c] = "done"]
            /\ \E e \in Errors \cup {<<>>, <<"context">>} :
                  outcome' = [outcome EXCEPT ![c] = RetryLoop!Failure(e)]
         \/ pc' = [pc EXCEPT ![c] = "call"] /\ outcome' = outcome /\ ~cancelled[c]
  <2>1. lastErr[c] \in Errors \cup {<<>>}
    BY DEF IInv, Types
  <2> QED BY <2>1 DEF Check, Return, GoTo
<1>2. Types'
  <2>1. pc' \in [Callers -> Places] /\ outcome' \in [Callers -> Outcomes]
    BY <1>1, OutcomeTypes DEF IInv, Types, Places
  <2> QED BY <1>1, <2>1 DEF IInv, Types, counts
<1>3. \A d \in Callers \ {c} : Same(d)
  BY <1>1 DEF IInv, Types, Same, counts
<1>4. \/ pc'[c] = "done" /\ outcome'[c].result = "zero"
      \/ pc'[c] = "call" /\ outcome'[c] = outcome[c] /\ ~cancelled[c]
  <2>1. ASSUME NEW e \in Errors \cup {<<>>, <<"context">>},
               pc' = [pc EXCEPT ![c] = "done"],
               outcome' = [outcome EXCEPT ![c] = RetryLoop!Failure(e)]
        PROVE  pc'[c] = "done" /\ outcome'[c].result = "zero"
    <3>1. pc'[c] = "done" /\ outcome'[c] = RetryLoop!Failure(e)
      BY <2>1 DEF IInv, Types
    <3> QED BY <3>1, OutcomeTypes
  <2>2. ASSUME pc' = [pc EXCEPT ![c] = "call"] PROVE pc'[c] = "call"
    BY <2>2 DEF IInv, Types
  <2> QED BY <1>1, <2>1, <2>2
<1>5. RequestsInv(c)'
  BY <1>1, <1>4 DEF IInv, RequestsInv, counts
<1>6. AnswerInv(c)'
  BY <1>1, <1>4 DEF IInv, AnswerInv
<1> QED BY <1>2, <1>3, <1>5, <1>6 DEF Kept

LEMMA CallKept == ASSUME IInv, NEW c \in Callers, Call(c) PROVE Kept(c)
<1>1. /\ UNCHANGED <<request, cancelled, answer, got, attempt, lastErr, pauses, outcome,
                     requests, lateRequests>>
      /\ pc[c] = "call" /\ pc' = [pc EXCEPT ![c] = "try"]
      /\ calls' = [calls EXCEPT ![c] = @ + 1]
      /\ \E k \in {0, 1} : lateCalls' = [lateCalls EXCEPT ![c] = @ + k]
  BY DEF Call, GoTo, Late, loop
<1>2. Types'
  <2>0. calls \in [Callers -> Nat] /\ lateCalls \in [Callers -> Nat]
    BY DEF IInv, Types
  <2>1. calls' \in [Callers -> Nat] /\ lateCalls' \in [Callers -> Nat]
    BY <1>1, <2>0
  <2> QED BY <1>1, <2>1 DEF IInv, Types, Places
<1>3. \A d \in Callers \ {c} : Same(d)
  BY <1>1 DEF IInv, Types, Same
<1>4. pc'[c] = "try" /\ calls'[c] = calls[c] + 1 /\ calls[c] \in Nat
  BY <1>1 DEF IInv, Types
<1>5. RequestsInv(c)'
  BY <1>1, <1>4 DEF IInv, RequestsInv
<1>6. AnswerInv(c)'
  BY <1>1, <1>4 DEF IInv, AnswerInv
<1> QED BY <1>2, <1>3, <1>5, <1>6 DEF Kept

\* A token is taken without a look at the context: the one late request.
LEMMA AcquireKept == ASSUME IInv, NEW c \in Callers, Acquire(c) PROVE Kept(c)
<1>1. /\ UNCHANGED <<request, cancelled, answer, got, attempt, lastErr, pauses, outcome,
                     calls, lateCalls>>
      /\ pc[c] = "try" /\ pc' = [pc EXCEPT ![c] = "api"]
      /\ \/ request[c].texts = <<>> /\ requests' = requests /\ lateRequests' = lateRequests
         \/ /\ request[c].texts # <<>> /\ requests' = [requests EXCEPT ![c] = @ + 1]
            /\ lateRequests' = [lateRequests EXCEPT ![c] = @ + Late(c)]
  BY DEF Acquire, GoTo, loop
<1>2. Late(c) \in {0, 1} /\ (Late(c) = 1 => cancelled[c])
  BY DEF Late
<1>3. Types'
  <2>0. requests \in [Callers -> Nat] /\ lateRequests \in [Callers -> Nat]
    BY DEF IInv, Types
  <2>a. \A f \in [Callers -> Nat], k \in {0, 1} : [f EXCEPT ![c] = @ + k] \in [Callers -> Nat]
    OBVIOUS
  <2>1. requests' \in [Callers -> Nat]
    <3>1. requests' = requests \/ requests' = [requests EXCEPT ![c] = @ + 1]
      BY <1>1
    <3>2. [requests EXCEPT ![c] = @ + 1] \in [Callers -> Nat]
      BY <2>0, <2>a
    <3> QED BY <2>0, <3>1, <3>2
  <2>2. lateRequests' \in [Callers -> Nat]
    <3>1. \/ lateRequests' = lateRequests
          \/ lateRequests' = [lateRequests EXCEPT ![c] = @ + Late(c)]
      BY <1>1
    <3>2. [lateRequests EXCEPT ![c] = @ + Late(c)] \in [Callers -> Nat]
      BY <1>2, <2>0, <2>a
    <3> QED BY <2>0, <3>1, <3>2
  <2>3. Types /\ pc' \in [Callers -> Places]
    BY <1>1 DEF IInv, Types, Places
  <2>4. /\ answer' = answer /\ got' = got /\ request' = request /\ attempt' = attempt
        /\ cancelled' = cancelled /\ lastErr' = lastErr /\ pauses' = pauses
        /\ outcome' = outcome /\ calls' = calls /\ lateCalls' = lateCalls
    BY <1>1
  <2> QED BY <2>1, <2>2, <2>3, <2>4 DEF Types
<1>4. \A d \in Callers \ {c} : Same(d)
  BY <1>1 DEF IInv, Types, Same
<1>5. /\ pc'[c] = "api" /\ requests[c] \in Nat /\ calls[c] \in Nat
      /\ \/ request[c].texts = <<>> /\ requests'[c] = requests[c] /\ lateRequests'[c] = lateRequests[c]
         \/ /\ request[c].texts # <<>> /\ requests'[c] = requests[c] + 1
            /\ lateRequests'[c] = lateRequests[c] + Late(c)
  BY <1>1 DEF IInv, Types
<1>6. lateRequests[c] = 0
  BY <1>1 DEF IInv, RequestsInv
<1>7. RequestsInv(c)'
  BY <1>1, <1>2, <1>5, <1>6 DEF IInv, RequestsInv
<1>8. AnswerInv(c)'
  BY <1>1, <1>5 DEF IInv, AnswerInv
<1> QED BY <1>3, <1>4, <1>7, <1>8 DEF Kept

LEMMA WaitKept == ASSUME IInv, NEW c \in Callers, Refuse(c) \/ Timer(c) PROVE Kept(c)
<1>1. /\ UNCHANGED <<request, cancelled, answer, got, loop, counts>>
      /\ pc[c] \in {"try", "waiting"}
      /\ \E l \in {"try", "waiting"} : pc' = [pc EXCEPT ![c] = l]
  BY DEF Refuse, Timer, GoTo
<1>2. Types'
  BY <1>1 DEF IInv, Types, Places, loop, counts
<1>3. \A d \in Callers \ {c} : Same(d)
  BY <1>1 DEF IInv, Types, Same, loop, counts
<1>4. pc'[c] \in {"try", "waiting"}
  BY <1>1 DEF IInv, Types
<1>5. RequestsInv(c)'
  BY <1>1, <1>4 DEF IInv, RequestsInv, loop, counts
<1>6. AnswerInv(c)'
  BY <1>1, <1>4 DEF IInv, AnswerInv, loop
<1> QED BY <1>2, <1>3, <1>5, <1>6 DEF Kept

LEMMA WakeKept == ASSUME IInv, NEW c \in Callers, Wake(c) PROVE Kept(c)
<1>1. /\ UNCHANGED <<request, cancelled, answer, got, lastErr, outcome, pauses, counts>>
      /\ pc[c] = "sleep" /\ pc' = [pc EXCEPT ![c] = "check"]
      /\ attempt' = [attempt EXCEPT ![c] = @ + 1]
  BY DEF Wake, GoTo
<1>2. Types'
  <2>0. attempt \in [Callers -> Nat]
    BY DEF IInv, Types
  <2>1. attempt' \in [Callers -> Nat]
    BY <1>1, <2>0
  <2> QED BY <1>1, <2>1 DEF IInv, Types, Places, counts
<1>3. \A d \in Callers \ {c} : Same(d)
  BY <1>1 DEF IInv, Types, Same, counts
<1>4. pc'[c] = "check"
  BY <1>1 DEF IInv, Types
<1>5. RequestsInv(c)'
  BY <1>1, <1>4 DEF IInv, RequestsInv, counts
<1>6. AnswerInv(c)'
  BY <1>1, <1>4 DEF IInv, AnswerInv
<1> QED BY <1>2, <1>3, <1>5, <1>6 DEF Kept

LEMMA StopSleepingKept == ASSUME IInv, NEW c \in Callers, StopSleeping(c) PROVE Kept(c)
<1>1. /\ UNCHANGED <<request, cancelled, answer, got, attempt, lastErr, pauses, counts>>
      /\ pc[c] = "sleep" /\ pc' = [pc EXCEPT ![c] = "done"]
      /\ outcome' = [outcome EXCEPT ![c] = RetryLoop!Failure(<<"context">>)]
  BY DEF StopSleeping, Return, GoTo
<1>2. Types'
  <2>1. outcome' \in [Callers -> Outcomes]
    BY <1>1, OutcomeTypes DEF IInv, Types
  <2> QED BY <1>1, <2>1 DEF IInv, Types, Places, counts
<1>3. \A d \in Callers \ {c} : Same(d)
  BY <1>1 DEF IInv, Types, Same, counts
<1>4. pc'[c] = "done" /\ outcome'[c].result = "zero"
  BY <1>1, OutcomeTypes DEF IInv, Types
<1>5. RequestsInv(c)'
  BY <1>1, <1>4 DEF IInv, RequestsInv, counts
<1>6. AnswerInv(c)'
  BY <1>1, <1>4 DEF IInv, AnswerInv
<1> QED BY <1>2, <1>3, <1>5, <1>6 DEF Kept

LEMMA CancelKept == ASSUME IInv, NEW c \in Callers, Cancel(c) PROVE Kept(c)
<1>1. /\ UNCHANGED <<request, pc, answer, got, loop, counts>>
      /\ pc[c] # "done" /\ ~cancelled[c] /\ cancelled' = [cancelled EXCEPT ![c] = TRUE]
  BY DEF Cancel
<1>2. Types'
  BY <1>1 DEF IInv, Types, loop, counts
<1>3. \A d \in Callers \ {c} : Same(d)
  BY <1>1 DEF IInv, Types, Same, loop, counts
<1>4. RequestsInv(c)'
  BY <1>1 DEF IInv, RequestsInv, loop, counts
<1>5. AnswerInv(c)'
  BY <1>1 DEF IInv, AnswerInv, loop
<1> QED BY <1>2, <1>3, <1>4, <1>5 DEF Kept

\* An attempt that failed in the API has sent its request; one that gave up waiting
\* has not, and its error is final.
LEMMA FailedInApiKept ==
    ASSUME IInv, NEW c \in Callers, NEW err \in Errors, pc[c] = "api", Fail(c, err)
    PROVE  Kept(c)
<1>1. /\ Types' /\ \A d \in Callers \ {c} : Same(d)
      /\ UNCHANGED <<request, cancelled, answer, got, counts>>
      /\ \/ pc'[c] = "done" /\ outcome'[c] = RetryLoop!Failure(err)
         \/ pc'[c] \in {"sleep", "check"} /\ outcome'[c] = outcome[c]
  BY FailStep DEF IInv
<1>2. RequestsInv(c)'
  BY <1>1 DEF IInv, RequestsInv, counts
<1>3. AnswerInv(c)'
  BY <1>1, OutcomeTypes DEF IInv, AnswerInv
<1> QED BY <1>1, <1>2, <1>3 DEF Kept

LEMMA GiveUpIsFinal == ~RetryLoop!IsRetryable(<<"final", "context">>)
BY DEF RetryLoop!IsRetryable, RetryLoop!IsProviderError

LEMMA GiveUpKept == ASSUME IInv, NEW c \in Callers, GiveUp(c) PROVE Kept(c)
<1>1. /\ pc[c] = "waiting" /\ cancelled[c] /\ Fail(c, <<"final", "context">>)
  BY DEF GiveUp
<1>2. /\ Types' /\ \A d \in Callers \ {c} : Same(d)
      /\ UNCHANGED <<request, cancelled, answer, got, counts>>
      /\ pc'[c] = "done" /\ outcome'[c] = RetryLoop!Failure(<<"final", "context">>)
  BY <1>1, FailStep, ErrorTypes, GiveUpIsFinal DEF IInv
<1>3. outcome'[c].err = <<"final", "context">> /\ outcome'[c].result = "zero"
  BY <1>2, OutcomeTypes, ErrorTypes
<1>4. RequestsInv(c)'
  BY <1>1, <1>2, <1>3 DEF IInv, RequestsInv, counts
<1>5. AnswerInv(c)'
  BY <1>2, <1>3 DEF IInv, AnswerInv
<1> QED BY <1>2, <1>4, <1>5 DEF Kept

LEMMA SucceedKept ==
    ASSUME IInv, NEW c \in Callers, NEW strings, NEW content, pc[c] = "api",
           Succeed(c, strings, content),
           request[c].texts # <<>> =>
               /\ Len(strings) = Len(request[c].texts)
               /\ \E array \in ArraysOf(content) : strings = ToStringSlice(array)
               /\ content.translations = {Proper(request[c])} => strings = Hoped(request[c])
    PROVE  Kept(c)
<1>1. /\ UNCHANGED <<request, cancelled, tokens, attempt, lastErr, pauses, counts>>
      /\ pc' = [pc EXCEPT ![c] = "done"]
      /\ outcome' = [outcome EXCEPT ![c] = RetryLoop!Result]
      /\ answer' = [answer EXCEPT ![c] = strings]
      /\ got' = [got EXCEPT ![c] = {content}]
  BY DEF Succeed, Return, GoTo
<1>2. /\ pc'[c] = "done" /\ outcome'[c] = RetryLoop!Result
      /\ answer'[c] = strings /\ got'[c] = {content}
  BY <1>1 DEF IInv, Types
<1>3. Types'
  <2>1. pc' \in [Callers -> Places] /\ outcome' \in [Callers -> Outcomes]
    BY <1>1, OutcomeTypes DEF IInv, Types, Places
  <2>2. answer' \in [Callers -> {answer'[d] : d \in Callers}]
    BY <1>1 DEF IInv, Types
  <2>3. got' \in [Callers -> {got'[d] : d \in Callers}]
    BY <1>1 DEF IInv, Types
  <2> QED BY <1>1, <2>1, <2>2, <2>3 DEF IInv, Types, counts
<1>4. \A d \in Callers \ {c} : Same(d)
  BY <1>1 DEF IInv, Types, Same, counts
<1>5. RequestsInv(c)'
  BY <1>1, <1>2 DEF IInv, RequestsInv, counts
<1>6. AnswerInv(c)'
  BY <1>1, <1>2 DEF AnswerInv
<1> QED BY <1>3, <1>4, <1>5, <1>6 DEF Kept

\* The items an answer may have.
Items(req) == {Proper(req)[i] : i \in DOMAIN req.texts} \cup {NotAString}

\* An answer as it was asked for is the hoped for one, none of its items is changed.
LEMMA ProperIsHoped ==
    ASSUME NEW req \in Requests
    PROVE  ToStringSlice(Proper(req)) = Hoped(req)
<1>1. DOMAIN Proper(req) = DOMAIN req.texts
  BY DEF Proper
<1>2. \A i \in DOMAIN req.texts : Proper(req)[i] # NotAString
  BY NotAStringAssumption
<1>3. \A i \in DOMAIN req.texts :
         (IF HasContexts(req) THEN ContextOf(req, i) ELSE NoContext) = ContextOf(req, i)
  BY DEF HasContexts, ContextOf
<1>4. \A i \in DOMAIN req.texts :
         Proper(req)[i] = [of |-> [text |-> req.texts[i], context |-> ContextOf(req, i)],
                           by |-> Prompt(req.settings)]
  BY <1>3 DEF Proper, UserMessage
<1>5. ToStringSlice(Proper(req)) = [i \in DOMAIN req.texts |-> Proper(req)[i]]
  BY <1>1, <1>2 DEF ToStringSlice
<1> QED BY <1>4, <1>5 DEF Hoped

LEMMA ArraysAreSequences ==
    ASSUME NEW req \in Requests, req.texts # <<>>
    PROVE  /\ Proper(req) \in Seq(Items(req))
           /\ Arrays(req) \subseteq Seq(Items(req))
<1>1. req.texts \in Seq(STRING) /\ Len(req.texts) \in Nat \ {0} /\ DOMAIN req.texts = 1..Len(req.texts)
  BY StackAssumption
<1>2. Proper(req) \in [1..Len(req.texts) -> Items(req)]
  BY <1>1 DEF Proper, Items
<1>3. Proper(req) \in Seq(Items(req)) /\ Len(Proper(req)) = Len(req.texts) /\ Proper(req) # <<>>
  BY <1>1, <1>2
<1>4. Tail(Proper(req)) \in Seq(Items(req))
  BY <1>3
<1>5. [Proper(req) EXCEPT ![1] = NotAString] \in Seq(Items(req))
  <2>1. NotAString \in Items(req)
    BY DEF Items
  <2>2. [Proper(req) EXCEPT ![1] = NotAString] \in [1..Len(req.texts) -> Items(req)]
    BY <1>1, <1>2, <2>1
  <2>3. \A S : \A n \in Nat : \A f \in [1..n -> S] : f \in Seq(S)
    OBVIOUS
  <2> QED BY <1>1, <2>2, <2>3
<1> QED BY <1>3, <1>4, <1>5 DEF Arrays

LEMMA ToStringSliceLength ==
    ASSUME NEW S, NEW array \in Seq(S)
    PROVE  Len(ToStringSlice(array)) = Len(array)
BY DEF ToStringSlice

LEMMA ParseResponseGives ==
    ASSUME NEW req \in Requests, req.texts # <<>>, NEW content \in Contents(req),
           NEW array \in ParseResponse(content)
    PROVE  /\ array \in ArraysOf(content) /\ array \in Seq(Items(req))
           /\ content.translations = {Proper(req)} => array = Proper(req)
<1>1. array \in ArraysOf(content)
  BY DEF ParseResponse, ArraysOf
<1>2. content.translations \subseteq Arrays(req)
  BY DEF Contents
<1>3. Proper(req) \in Arrays(req)
  BY DEF Arrays
<1>4. content.others \subseteq Arrays(req)
  BY <1>3 DEF Contents, Arrays
<1>5. content.direct \subseteq Arrays(req) \cup {<<>>}
  BY DEF Contents
<1>6. array \in Arrays(req) \cup {<<>>}
  BY <1>1, <1>2, <1>4, <1>5 DEF ArraysOf
<1>7. array \in Seq(Items(req))
  <2>1. <<>> \in Seq(Items(req))
    OBVIOUS
  <2> QED BY <1>6, <2>1, ArraysAreSequences
<1>8. content.translations = {Proper(req)} => array = Proper(req)
  BY DEF ParseResponse
<1> QED BY <1>1, <1>7, <1>8

LEMMA AnswerKept == ASSUME IInv, NEW c \in Callers, Answer(c) PROVE Kept(c)
<1> DEFINE req == request[c]
<1>1. pc[c] = "api" /\ req.texts # <<>> /\ req \in Requests
  BY DEF Answer, IInv, Types
<1>2. PICK content \in Contents(req) :
          \/ Fail(c, <<"final">>)
          \/ \E array \in ParseResponse(content) :
                IF Len(array) = Len(req.texts) THEN Succeed(c, ToStringSlice(array), content)
                ELSE Fail(c, <<"other">>)
  BY DEF Answer
<1>3. CASE Fail(c, <<"final">>) \/ Fail(c, <<"other">>)
  BY <1>1, <1>3, FailedInApiKept, ErrorTypes
<1>4. ASSUME NEW array \in ParseResponse(content), Len(array) = Len(req.texts),
             Succeed(c, ToStringSlice(array), content)
      PROVE  Kept(c)
  <2>1. /\ array \in ArraysOf(content) /\ array \in Seq(Items(req))
        /\ content.translations = {Proper(req)} => array = Proper(req)
    BY <1>1, ParseResponseGives
  <2>2. Len(ToStringSlice(array)) = Len(req.texts)
    BY <1>4, <2>1, ToStringSliceLength
  <2>3. content.translations = {Proper(req)} => ToStringSlice(array) = Hoped(req)
    BY <1>1, <2>1, ProperIsHoped
  <2> QED BY <1>1, <1>4, <2>1, <2>2, <2>3, SucceedKept
<1> QED BY <1>2, <1>3, <1>4

LEMMA NoTextsKept == ASSUME IInv, NEW c \in Callers, NoTexts(c) PROVE Kept(c)
BY SucceedKept DEF NoTexts

-----------------------------------------------------------------------------
\* A step is one of a goroutine, which keeps its invariants and leaves the others alone.
LEMMA StepKept == ASSUME IInv, NEW c \in Callers, Step(c) \/ Cancel(c) PROVE Kept(c)
<1>1. CASE Check(c) \/ Call(c) \/ Acquire(c)
  BY <1>1, CheckKept, CallKept, AcquireKept
<1>2. CASE Refuse(c) \/ Timer(c) \/ GiveUp(c)
  BY <1>2, WaitKept, GiveUpKept
<1>3. CASE ApiFails(c) \/ NoChoices(c)
  <2>1. PICK err \in Errors : pc[c] = "api" /\ Fail(c, err)
    BY <1>3, ErrorTypes DEF ApiFails, NoChoices
  <2> QED BY <2>1, FailedInApiKept
<1>4. CASE NoTexts(c) \/ Answer(c)
  BY <1>4, NoTextsKept, AnswerKept
<1>5. CASE Wake(c) \/ StopSleeping(c) \/ Cancel(c)
  BY <1>5, WakeKept, StopSleepingKept, CancelKept
<1> QED BY <1>1, <1>2, <1>3, <1>4, <1>5 DEF Step

LEMMA IdleStep == ASSUME IInv, Refill \/ UNCHANGED vars PROVE Types' /\ \A d \in Callers : Same(d)
<1>1. UNCHANGED <<request, pc, cancelled, answer, got, loop, counts>>
  BY DEF Refill, vars
<1> QED BY <1>1 DEF IInv, Types, Same, loop, counts

(* Whatever goroutine moves, in its retry loop, at the limiter or in the API       *)
(* (retry.go:29-69, ratelimit.go:44-60, :117-123, openai.go:60-92), or whether the *)
(* bucket is refilled, every goroutine keeps the invariants.                       *)
THEOREM Inductive == IInv /\ [Next]_vars => IInv'
<1> SUFFICES ASSUME IInv, [Next]_vars PROVE IInv'
  OBVIOUS
<1>1. CASE Refill \/ UNCHANGED vars
  BY <1>1, IdleStep, SameKeeps DEF IInv
<1>2. ASSUME NEW c \in Callers, Step(c) \/ Cancel(c) PROVE IInv'
  <2>1. Kept(c)
    BY <1>2, StepKept
  <2>2. ASSUME NEW d \in Callers PROVE RequestsInv(d)' /\ AnswerInv(d)'
    <3>1. CASE d = c
      BY <2>1, <3>1 DEF Kept
    <3>2. CASE d # c
      BY <2>1, <3>2, SameKeeps DEF Kept, IInv
    <3> QED BY <3>1, <3>2
  <2> QED BY <2>1, <2>2 DEF IInv, Kept
<1> QED BY <1>1, <1>2 DEF Next

(* The inductive invariant holds in every state of the stack: before, between and   *)
(* after the attempts of any goroutine (retry.go:33).                               *)
THEOREM InvariantAlways == Spec => []IInv
BY InitIInv, Inductive, PTL DEF Spec

(* The limiter's token taken without a look at the context (ratelimit.go:44) and   *)
(* the loop's look at it before an attempt (retry.go:35) allow one request at most  *)
(* after the context is done, and no attempt asks the API twice.                    *)
THEOREM RequestsAreWantedAlways == Spec => []RequestsAreWanted
<1>1. ASSUME IInv PROVE RequestsAreWanted
  <2> SUFFICES ASSUME NEW c \in Callers
               PROVE  /\ lateRequests[c] <= 1
                      /\ request[c].texts # <<>> /\ requests[c] # calls[c] =>
                            /\ requests[c] + 1 = calls[c]
                            /\ \/ pc[c] \in {"try", "waiting"}
                               \/ /\ pc[c] = "done" /\ cancelled[c]
                                  /\ outcome[c].err = <<"final", "context">>
    BY DEF RequestsAreWanted
  <2>1. RequestsInv(c) /\ pc[c] \in Places
    BY <1>1 DEF IInv, Types
  <2> QED BY <2>1 DEF RequestsInv, Places
<1> QED BY <1>1, InvariantAlways, PTL

(* A value that is returned has one string for each text, all of one array of one   *)
(* response, and if the model answered as it was asked they are the translations    *)
(* of the texts in their own contexts (openai.go:203-252).                          *)
THEOREM AnswerIsItsOwnAlways == Spec => []AnswerIsItsOwn
<1>1. ASSUME IInv PROVE AnswerIsItsOwn
  BY <1>1 DEF IInv, AnswerInv, AnswerIsItsOwn
<1> QED BY <1>1, InvariantAlways, PTL

-----------------------------------------------------------------------------
\* The pauses of RetryLoop last no time, whatever the attempt.
LEMMA NoDelay == ASSUME NEW n \in Nat PROVE RetryLoop!Delay(n) = 0
<1>1. 2^n \in Int
  <2>1. IsFiniteSet(1..n) /\ Cardinality(1..n) = n
    <3>1. 1 \in Int /\ n \in Int
      OBVIOUS
    <3>2. IsFiniteSet(1..n) /\ Cardinality(1..n) = IF 1 > n THEN 0 ELSE n - 1 + 1
      BY <3>1, FS_Interval
    <3>3. 1 > n => n = 0
      OBVIOUS
    <3> QED BY <3>2, <3>3
  <2>2. IsFiniteSet(SUBSET (1..n)) /\ Cardinality(SUBSET (1..n)) = 2^n
    BY <2>1, FS_SUBSET
  <2> QED BY <2>2, FS_CardinalityType
<1>2. \A x \in Int : RetryLoop!Wrap(x) \in Int
  BY DEF RetryLoop!Wrap
<1>3. RetryLoop!Shift(n) \in Int
  BY <1>1, <1>2 DEF RetryLoop!Shift
<1>4. RetryLoop!Wrap(0) = 0
  BY DEF RetryLoop!Wrap
<1>5. Config.baseDelay * RetryLoop!Shift(n) = 0 /\ Config.maxDelay = 0
  BY <1>3 DEF Config
<1> QED BY <1>4, <1>5 DEF RetryLoop!Delay

\* One more pause.
LEMMA OnePauseMore ==
    ASSUME NEW k \in Nat
    PROVE  [i \in 1..(k + 1) |-> 0] = Append([i \in 1..k |-> 0], 0)
OBVIOUS

LEMMA InitRefines == Init => RetryLoop!RetryInit
<1> SUFFICES ASSUME Init PROVE RetryLoop!RetryInit
  OBVIOUS
<1>1. Observed \in Callers
  BY StackAssumption
<1>2. /\ pc[Observed] = "check" /\ attempt[Observed] = 0 /\ cancelled[Observed] = FALSE
      /\ lastErr[Observed] = <<>> /\ outcome[Observed] = RetryLoop!NoOutcome
      /\ calls[Observed] = 0 /\ lateCalls[Observed] = 0 /\ pauses[Observed] = 0
  BY <1>1 DEF Init
<1>3. [i \in 1..pauses[Observed] |-> 0] = <<>>
  BY <1>2
<1> QED BY <1>2, <1>3 DEF RetryLoop!RetryInit

\* A step that leaves a goroutine alone, or moves it within an attempt, is none of its loop.
LEMMA SameStutters == ASSUME Same(Observed) PROVE UNCHANGED RetryLoop!retryVars
BY DEF Same, RetryLoop!retryVars

\* A failed attempt fails for good or is repeated, as Retry has it.
LEMMA FailRefines ==
    ASSUME Types, NEW err \in Errors, Fail(Observed, err), pc[Observed] \in {"waiting", "api"}
    PROVE  RetryLoop!RetryNext
<1> DEFINE c == Observed
<1>0. c \in Callers
  BY StackAssumption
<1>1. /\ cancelled' = cancelled /\ calls' = calls /\ lateCalls' = lateCalls
      /\ lastErr'[c] = err
  BY <1>0 DEF Fail, Types, counts
<1>2. CASE /\ ~RetryLoop!IsRetryable(err) /\ UNCHANGED <<attempt, pauses>>
           /\ Return(c, RetryLoop!Failure(err))
  <2>1. pc'[c] = "done" /\ outcome'[c] = RetryLoop!Failure(err)
    BY <1>0, <1>2 DEF Return, GoTo, Types
  <2>2. RetryLoop!FailForGood(err)
    BY <1>1, <1>2, <2>1 DEF RetryLoop!FailForGood, RetryLoop!Return
  <2> QED BY <2>2 DEF RetryLoop!RetryNext, RetryLoop!Step
<1>3. CASE /\ RetryLoop!IsRetryable(err) /\ MayRepeat(c) /\ GoTo(c, "sleep")
           /\ pauses' = [pauses EXCEPT ![c] = @ + 1] /\ UNCHANGED <<attempt, outcome>>
  <2>1. pc'[c] = "sleep" /\ pauses'[c] = pauses[c] + 1 /\ pauses[c] \in Nat /\ attempt[c] \in Nat
    BY <1>0, <1>3 DEF GoTo, Types
  <2>2. [i \in 1..pauses'[c] |-> 0] = Append([i \in 1..pauses[c] |-> 0], RetryLoop!Delay(attempt[c]))
    BY <2>1, NoDelay, OnePauseMore
  <2>3. RetryLoop!FailRetryable(err)
    BY <1>1, <1>3, <2>1, <2>2 DEF RetryLoop!FailRetryable, RetryLoop!MayRepeat, MayRepeat, Config
  <2> QED BY <2>3 DEF RetryLoop!RetryNext, RetryLoop!Step
<1>4. CASE /\ RetryLoop!IsRetryable(err) /\ ~MayRepeat(c) /\ GoTo(c, "check")
           /\ attempt' = [attempt EXCEPT ![c] = @ + 1] /\ UNCHANGED <<pauses, outcome>>
  <2>1. pc'[c] = "check" /\ attempt'[c] = attempt[c] + 1
    BY <1>0, <1>4 DEF GoTo, Types
  <2>2. RetryLoop!FailRetryable(err)
    BY <1>1, <1>4, <2>1 DEF RetryLoop!FailRetryable, RetryLoop!MayRepeat, MayRepeat, Config
  <2> QED BY <2>2 DEF RetryLoop!RetryNext, RetryLoop!Step
<1> QED BY <1>2, <1>3, <1>4 DEF Fail

LEMMA StepRefines ==
    ASSUME Types, Step(Observed) \/ Cancel(Observed)
    PROVE  RetryLoop!RetryNext \/ UNCHANGED RetryLoop!retryVars
<1> DEFINE c == Observed
<1>0. c \in Callers
  BY StackAssumption
<1>1. CASE Check(c)
  <2>1. UNCHANGED <<cancelled, attempt, lastErr, pauses, counts>> /\ pc[c] = "check"
    BY <1>1 DEF Check
  <2>2. \A r : Return(c, r) => pc'[c] = "done" /\ outcome'[c] = r
    BY <1>0 DEF Return, GoTo, Types
  <2>3. GoTo(c, "call") => pc'[c] = "call"
    BY <1>0 DEF GoTo, Types
  <2>4. RetryLoop!Check
    BY <1>1, <2>1, <2>2, <2>3 DEF Check, counts, RetryLoop!Check, RetryLoop!Return, Config
  <2> QED BY <2>4 DEF RetryLoop!RetryNext, RetryLoop!Step
<1>2. CASE Call(c)
  <2>1. /\ UNCHANGED <<cancelled, attempt, lastErr, outcome, pauses>> /\ pc[c] = "call"
        /\ pc'[c] = "try" /\ calls'[c] = calls[c] + 1 /\ lateCalls'[c] = lateCalls[c] + Late(c)
        /\ lateCalls[c] \in Nat
    BY <1>0, <1>2 DEF Call, GoTo, loop, Types
  <2>2. RetryLoop!Call
    BY <2>1 DEF RetryLoop!Call, Late, Config
  <2> QED BY <2>2 DEF RetryLoop!RetryNext, RetryLoop!Step
<1>3. CASE Acquire(c) \/ Refuse(c) \/ Timer(c)
  <2>1. /\ UNCHANGED <<cancelled, loop, calls, lateCalls>>
        /\ pc[c] \in {"try", "waiting", "api"} /\ pc'[c] \in {"try", "waiting", "api"}
    BY <1>0, <1>3 DEF Acquire, Refuse, Timer, GoTo, counts, Types
  <2> QED BY <2>1 DEF RetryLoop!retryVars, loop
<1>4. CASE GiveUp(c) \/ ApiFails(c) \/ NoChoices(c)
  <2>1. PICK err \in Errors : pc[c] \in {"waiting", "api"} /\ Fail(c, err)
    BY <1>4, ErrorTypes DEF GiveUp, ApiFails, NoChoices
  <2> QED BY <2>1, FailRefines
<1>5. ASSUME NEW strings, NEW content, pc[c] = "api", Succeed(c, strings, content)
      PROVE  RetryLoop!RetryNext
  <2>1. /\ UNCHANGED <<cancelled, attempt, lastErr, pauses, counts>>
        /\ pc'[c] = "done" /\ outcome'[c] = RetryLoop!Result
    BY <1>0, <1>5 DEF Succeed, Return, GoTo, Types
  <2>2. RetryLoop!Succeed
    BY <1>5, <2>1 DEF counts, RetryLoop!Succeed, RetryLoop!Return
  <2> QED BY <2>2 DEF RetryLoop!RetryNext, RetryLoop!Step
<1>6. CASE NoTexts(c) \/ Answer(c)
  <2>1. pc[c] = "api"
    BY <1>6 DEF NoTexts, Answer
  <2>2. \/ \E strings, content : Succeed(c, strings, content)
        \/ \E err \in Errors : Fail(c, err)
    BY <1>6, ErrorTypes DEF NoTexts, Answer
  <2> QED BY <2>1, <2>2, <1>5, FailRefines
<1>7. CASE Wake(c)
  <2>1. /\ UNCHANGED <<cancelled, lastErr, outcome, pauses, counts>> /\ pc[c] = "sleep"
        /\ pc'[c] = "check" /\ attempt'[c] = attempt[c] + 1
    BY <1>0, <1>7 DEF Wake, GoTo, Types
  <2>2. RetryLoop!Wake
    BY <2>1 DEF RetryLoop!Wake, counts
  <2> QED BY <2>2 DEF RetryLoop!RetryNext, RetryLoop!Step
<1>8. CASE StopSleeping(c)
  <2>1. /\ UNCHANGED <<cancelled, attempt, lastErr, pauses, counts>> /\ pc[c] = "sleep"
        /\ cancelled[c] /\ pc'[c] = "done"
        /\ outcome'[c] = RetryLoop!Failure(<<"context">>)
    BY <1>0, <1>8 DEF StopSleeping, Return, GoTo, Types
  <2>2. RetryLoop!StopSleeping
    BY <2>1 DEF RetryLoop!StopSleeping, RetryLoop!Return, counts
  <2> QED BY <2>2 DEF RetryLoop!RetryNext, RetryLoop!Step
<1>9. CASE Cancel(c)
  <2>1. /\ UNCHANGED <<pc, loop, counts>> /\ pc[c] # "done" /\ ~cancelled[c] /\ cancelled'[c] = TRUE
    BY <1>0, <1>9 DEF Cancel, Types
  <2>2. RetryLoop!CancelContext
    BY <2>1 DEF RetryLoop!CancelContext, loop, counts
  <2> QED BY <2>2 DEF RetryLoop!RetryNext
<1> QED BY <1>1, <1>2, <1>3, <1>4, <1>6, <1>7, <1>8, <1>9 DEF Step

(* The loop of any one goroutine, with the limiter and the API in it and the other  *)
(* goroutines beside it, is a loop that Retry allows (retry.go:29-69).              *)
THEOREM RefinesRetry == Spec => RetriesAsSpecified
<1>1. IInv /\ [Next]_vars => [RetryLoop!RetryNext]_(RetryLoop!retryVars)
  <2> SUFFICES ASSUME IInv, [Next]_vars PROVE RetryLoop!RetryNext \/ UNCHANGED RetryLoop!retryVars
    OBVIOUS
  <2>0. Observed \in Callers
    BY StackAssumption
  <2>1. CASE Refill \/ UNCHANGED vars
    BY <2>0, <2>1, IdleStep, SameStutters
  <2>2. ASSUME NEW c \in Callers, Step(c) \/ Cancel(c), c # Observed
        PROVE  UNCHANGED RetryLoop!retryVars
    BY <2>0, <2>2, StepKept, SameStutters DEF Kept
  <2>3. CASE Step(Observed) \/ Cancel(Observed)
    BY <2>3, StepRefines DEF IInv
  <2> QED BY <2>1, <2>2, <2>3 DEF Next
<1> QED BY <1>1, InitRefines, InvariantAlways, PTL DEF Spec, RetriesAsSpecified, RetryLoop!RetrySpec
=============================================================================
