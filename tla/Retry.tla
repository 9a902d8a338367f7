-------------------------------- MODULE Retry --------------------------------
(***************************************************************************)
(* One call of fetch_with_retry (src/src/pipeline/fetchers/retry.py): the  *)
(* loop that tries an attempt, classifies its answer, and sleeps before    *)
(* the next try.  The network answers each attempt as it likes.            *)
(***************************************************************************)
EXTENDS RetryPolicy, Sequences, SequencesExt

CONSTANT Answers        \* the answers an attempt may get

ASSUME AnswersAssumption == Answers \subseteq Answer

VARIABLES
    pc,                 \* where the call is
    attempt_number,
    last_result,        \* the response of the latest attempt, or <<>> for None
    last_exception,     \* its fetch error, or <<>>
    outcome,            \* what the call returned or raised
    log,                \* auxiliary: the answers so far
    waits,              \* auxiliary: the sleeps so far
    slept               \* auxiliary: their sum

vars == <<pc, attempt_number, last_result, last_exception, outcome, log, waits, slept>>

\* None, or one answer.
None == <<>>
Optional == {None} \cup {<<a>> : a \in Answers}

Pending == [kind |-> "pending"]
Escaped == [kind |-> "escaped"]
Returned(a) == [kind |-> "returned", answer |-> a]
Raised(a) == [kind |-> "raised", answer |-> a]

Init ==
    /\ pc = "loop"
    /\ attempt_number = 0
    /\ last_result = None
    /\ last_exception = None
    /\ outcome = Pending
    /\ log = <<>>
    /\ waits = <<>>
    /\ slept = 0

Attempt ==
    /\ pc = "loop"
    /\ attempt_number' = attempt_number + 1
    /\ pc' = "await"
    /\ UNCHANGED <<last_result, last_exception, outcome, log, waits, slept>>

\* A slip: the exception of an earlier attempt is not forgotten.
KeepException(a) ==
    IF a.status = NoResponse
    THEN last_exception' = <<a>> /\ last_result' = None
    ELSE last_result' = <<a>> /\ UNCHANGED last_exception

\* The attempt gave a response or raised a fetch error.
Recorded(a) ==
    IF a.status = NoResponse
    THEN last_exception' = <<a>> /\ last_result' = None
    ELSE last_result' = <<a>> /\ last_exception' = None

\* The loop is left with what the latest attempt gave.
Leave ==
    outcome' = IF last_exception' # None THEN Raised(last_exception'[1])
               ELSE Returned(last_result'[1])

\* The loop sleeps before the next attempt; an exception of _wait_seconds goes
\* straight through.
Pause(a) ==
    \/ /\ ~WaitRaises(a)
       /\ pc' = "sleep"
       /\ \E wait \in {ShortestWait(a, attempt_number), LongestWait(a, attempt_number)} :
             waits' = Append(waits, wait) /\ slept' = slept + wait
       /\ UNCHANGED outcome
    \/ /\ WaitRaises(a)
       /\ pc' = "done"
       /\ outcome' = Escaped
       /\ UNCHANGED <<waits, slept>>

Answered(a) ==
    /\ pc = "await"
    /\ Recorded(a)
    /\ log' = Append(log, a)
    /\ IF IsLast(Classify(a), attempt_number)
       THEN pc' = "done" /\ Leave /\ UNCHANGED <<waits, slept>>
       ELSE Pause(a)
    /\ UNCHANGED attempt_number

\* Any other exception of the attempt, a RobotsDisallowedError say, goes
\* straight through.
Escape ==
    /\ pc = "await"
    /\ pc' = "done"
    /\ outcome' = Escaped
    /\ UNCHANGED <<attempt_number, last_result, last_exception, log, waits, slept>>

\* A slip: a sleep of zero seconds is never woken from.
WakeFromDelay ==
    /\ pc = "sleep"
    /\ Last(waits) > 0
    /\ pc' = "loop"
    /\ UNCHANGED <<attempt_number, last_result, last_exception, outcome, log, waits, slept>>

Wake ==
    /\ pc = "sleep"
    /\ pc' = "loop"
    /\ UNCHANGED <<attempt_number, last_result, last_exception, outcome, log, waits, slept>>

Next == Attempt \/ (\E a \in Answers : Answered(a)) \/ Escape \/ Wake

Spec == Init /\ [][Next]_vars

\* An attempt ends, and a sleep does.  Both transports have timeouts of 30 s,
\* but httpx's is per read and some awaits of Playwright have none: that those
\* end too is assumed.
FairSpec == Spec /\ WF_vars(Next)

-----------------------------------------------------------------------------
(* Properties. *)

TypeOK ==
    /\ pc \in {"loop", "await", "sleep", "done"}
    /\ attempt_number \in Nat
    /\ last_result \in Optional
    /\ last_exception \in Optional
    /\ outcome \in {Pending, Escaped} \cup {Returned(a) : a \in Answers}
                                      \cup {Raised(a) : a \in Answers}
    /\ log \in Seq(Answers)
    /\ waits \in Seq(Nat)
    /\ slept \in Nat

\* The call ends with its latest answer and no older one: a response is
\* returned even when an earlier attempt raised, and an error is raised even
\* when an earlier attempt got a response.  Only a call that an exception of
\* another kind went through ends without one.
EndsWithLatestAnswer ==
    pc = "done" /\ outcome # Escaped =>
        /\ log # <<>>
        /\ LET a == log[Len(log)]
           IN  outcome = IF a.status = NoResponse THEN Raised(a) ELSE Returned(a)

\* An answer that is not retryable ends the call at once, and no call makes
\* more than four attempts, or more than three when a 429 or a 5xx is the third
\* answer: bounds from above, since one counter serves all the classes.
AttemptsAreBounded ==
    /\ attempt_number <= 4
    /\ \A i \in 1..(Len(log) - 1) : ~IsLast(Classify(log[i]), i)
    /\ Len(log) = 4 => Classify(log[3]) = "timeout_or_network"

\* However the classes mix, a call sleeps for at most two minutes and 1.2
\* seconds in all, and after a 429 never for less than the server asked for,
\* up to a minute.
WaitsAreBounded ==
    /\ slept <= 121200
    /\ \A i \in DOMAIN waits :
          log[i].status = 429 /\ Asks(log[i].retry_after)
          => waits[i] >= Smaller(log[i].retry_after.seconds * 1000, MaxRetryAfter)

\* An upper bound on the steps a call has left: four attempts, each an await,
\* a sleep and a turn of the loop.
StepsLeft ==
    IF pc = "done" THEN 0
    ELSE 3 * (4 - attempt_number) + [loop |-> 0, sleep |-> 1, await |-> 2][pc]

\* However the answers mix, each step takes the call nearer to its end; no mix
\* of retryable classes renews the budget of attempts.
EachStepNearsTheEnd == [][StepsLeft' \in Nat /\ StepsLeft' < StepsLeft]_vars

\* The loop ends.
Terminates == <>(pc = "done")

=============================================================================
