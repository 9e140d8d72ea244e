--------------------------------- MODULE MCRetry ---------------------------------
(* Retry with small configurations for TLC. *)
EXTENDS Retry

Config(retries, base, most) == [maxRetries |-> retries, baseDelay |-> base, maxDelay |-> most]

\* No attempt (RetryConfig does not exclude negative numbers), one, up to five, with
\* pauses below, at and above the cap; and enough for the product to leave its 8 bits, either way.
MCConfigs == {Config(n, d, 10) : n \in -1..4, d \in {0, 1, 3, 10, 11}} \cup {Config(9, 1, 10), Config(9, -1, 10)}

\* Plain and wrapped errors; the outermost provider error decides.
MCErrors == {<<"retryable">>, <<"final">>, <<"other">>, <<"context">>, <<"retryable", "context">>,
             <<"other", "retryable">>, <<"final", "retryable">>}
=============================================================================
