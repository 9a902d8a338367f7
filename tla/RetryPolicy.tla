----------------------------- MODULE RetryPolicy -----------------------------
(***************************************************************************)
(* The pure part of src/src/pipeline/fetchers/retry.py: how one answer to  *)
(* a fetch attempt is classified, how often each class may be tried, and   *)
(* how long the loop sleeps before it tries again.  Times are in           *)
(* milliseconds.                                                           *)
(***************************************************************************)
EXTENDS Integers

\* The status of an attempt that raised HttpFetchError or BrowserFetchError.
NoResponse == 0

\* An answer: a response's status and Retry-After header, or no response.
\* A header is absent or of no known form, a delay in seconds, a date that lies
\* so many seconds ahead of the clock, or one that parse_retry_after fails on:
\* a digit that float does not read, a date that datetime cannot hold.
Header == [form : {"none", "raises"}] \cup [form : {"delay"}, seconds : Nat]
                                      \cup [form : {"date"}, seconds : Int]
Answer == [status : Nat, retry_after : Header]

\* The header asks for a wait.
Asks(h) == h.form \in {"delay", "date"}

\* ErrorClass.
Classes == {"rate_limited", "server_error", "timeout_or_network", "not_retryable"}

Classify(a) ==
    CASE a.status = NoResponse -> "timeout_or_network"
      [] a.status = 429        -> "rate_limited"
      [] a.status \in 500..599 -> "server_error"
      [] OTHER                 -> "not_retryable"

\* RETRY_ATTEMPTS_PER_CLASS; a class that is not in it is never retried.
RetryAttempts ==
    [rate_limited |-> 3, server_error |-> 3, timeout_or_network |-> 4]

Retryable == DOMAIN RetryAttempts

\* A slip: one attempt too many.
IsLastTooLate(c, n) == c \notin Retryable \/ n > RetryAttempts[c]

\* Whether attempt number n, answered with class c, is the last one.
IsLast(c, n) == c \notin Retryable \/ n >= RetryAttempts[c]

-----------------------------------------------------------------------------
(* Waiting. *)

Smaller(x, y) == IF x <= y THEN x ELSE y

MaxRetryAfter == 60000
ServerErrorBase == 1000
ServerErrorMax == 30000
TimeoutBase == 200
TimeoutMax == 2000

\* Two slips: a date that has passed gives a negative delay; no maximum.
RetryAfterNegative(h) == Smaller(h.seconds * 1000, MaxRetryAfter)
RetryAfterUncapped(h) == IF h.seconds < 0 THEN 0 ELSE h.seconds * 1000

\* parse_retry_after, for a header that asks for a wait: clamped to a minute, and
\* not before now.
RetryAfter(h) ==
    LET asked == Smaller(h.seconds * 1000, MaxRetryAfter)
    IN  IF asked < 0 THEN 0 ELSE asked

\* The base of the exponential backoff after attempt number n.
Backoff(base, n, max) == Smaller(base * 2^(n - 1), max)

\* _wait_seconds raises what parse_retry_after does.
WaitRaises(a) == Classify(a) = "rate_limited" /\ a.retry_after.form = "raises"

\* Otherwise: its least and its greatest value, the jitter being uniform
\* in between.  In the code a wait is a float; these bounds are exact.
ShortestWait(a, n) ==
    CASE Classify(a) = "rate_limited" ->
            IF Asks(a.retry_after) THEN RetryAfter(a.retry_after)
            ELSE Backoff(ServerErrorBase, n, MaxRetryAfter)
      [] Classify(a) = "server_error" ->
            Backoff(ServerErrorBase, n, ServerErrorMax)
      [] Classify(a) = "timeout_or_network" ->
            Backoff(TimeoutBase, n, TimeoutMax)

LongestWait(a, n) ==
    LET least == ShortestWait(a, n)
    IN  CASE Classify(a) = "rate_limited"       -> least
          [] Classify(a) = "server_error"       -> least + least \div 4
          [] Classify(a) = "timeout_or_network" -> least + least \div 2

=============================================================================
