----------------------------- MODULE RetryProofs -----------------------------
(***************************************************************************)
(* For any set of answers: the retry loop makes no more attempts than it   *)
(* may, sleeps no longer than it may, and ends with its latest answer.     *)
(* The invariant ties the attempt counter to the answers so far, says that *)
(* the loop goes on only after answers that allow another attempt, and     *)
(* keeps what was slept within a budget that grows with the attempts.      *)
(***************************************************************************)
EXTENDS Retry, SequenceTheorems, TLAPS

LoopInv ==
    /\ pc \in {"loop", "await", "sleep", "done"}
    /\ attempt_number \in Nat
    /\ log \in Seq(Answers)

\* The attempt whose answer is awaited is the one after those in the log.  One
\* that an exception went through may have got an answer or not.
CountInv ==
    /\ pc = "await" => attempt_number = Len(log) + 1
    /\ pc # "await" /\ outcome # Escaped => attempt_number = Len(log)
    /\ outcome = Escaped => attempt_number \in {Len(log), Len(log) + 1}

\* Whether the loop may go on after its i-th answer.
GoesOn(i) == ~IsLast(Classify(log[i]), i)

GoesOnInv ==
    /\ \A i \in 1..(Len(log) - 1) : GoesOn(i)
    /\ pc # "done" \/ outcome = Escaped => \A i \in 1..Len(log) : GoesOn(i)

OutcomeInv ==
    /\ pc # "done" => outcome = Pending
    /\ pc = "done" /\ outcome # Escaped =>
          /\ Len(log) > 0
          /\ LET a == log[Len(log)]
             IN  outcome = IF a.status = NoResponse THEN Raised(a) ELSE Returned(a)

IInv == LoopInv /\ CountInv /\ GoesOnInv /\ OutcomeInv

LEMMA Outcomes == /\ Pending # Escaped
                  /\ \A a : Raised(a) # Escaped /\ Returned(a) # Escaped
BY DEF Pending, Escaped, Raised, Returned

LEMMA InitInv == Init => IInv
BY Outcomes DEF Init, IInv, LoopInv, CountInv, GoesOnInv, OutcomeInv, Pending

\* The class of an answer, and what each class allows.
LEMMA Classified == \A a : Classify(a) \in Classes
BY DEF Classify, Classes

LEMMA Budgets ==
    ASSUME NEW c \in Classes, NEW n \in Nat, ~IsLast(c, n)
    PROVE  n <= 3 /\ (n = 3 => c = "timeout_or_network")
BY DEF Classes, IsLast, Retryable, RetryAttempts

LEMMA AttemptInv == ASSUME IInv, Attempt PROVE IInv'
BY Outcomes DEF Attempt, IInv, LoopInv, CountInv, GoesOnInv, OutcomeInv, GoesOn

LEMMA WakeInv == ASSUME IInv, Wake PROVE IInv'
BY Outcomes DEF Wake, IInv, LoopInv, CountInv, GoesOnInv, OutcomeInv, GoesOn

LEMMA EscapeInv == ASSUME IInv, Escape PROVE IInv'
BY Outcomes DEF Escape, IInv, LoopInv, CountInv, GoesOnInv, OutcomeInv, GoesOn

LEMMA AnsweredInv ==
    ASSUME IInv, NEW a \in Answers, Answered(a)
    PROVE  IInv'
<1>. DEFINE n == Len(log) + 1
<1>1. /\ pc = "await" /\ outcome = Pending
      /\ log' = Append(log, a)
      /\ attempt_number = n /\ attempt_number' = n
      /\ log \in Seq(Answers) /\ n \in Nat \ {0}
  BY DEF Answered, IInv, LoopInv, CountInv, OutcomeInv
<1>2. /\ log' \in Seq(Answers) /\ Len(log') = n /\ log'[n] = a
      /\ \A i \in 1..Len(log) : log'[i] = log[i]
  BY <1>1, AppendProperties
<1>3. \A i \in 1..(Len(log') - 1) : GoesOn(i)'
  BY <1>1, <1>2 DEF IInv, GoesOnInv, GoesOn
<1>4. CASE IsLast(Classify(a), n)
  <2>1. pc' = "done" /\ Leave
    BY <1>1, <1>4 DEF Answered
  <2>2. outcome' = IF a.status = NoResponse THEN Raised(a) ELSE Returned(a)
    <3>1. CASE a.status = NoResponse
      <4>1. last_exception' = <<a>>
        BY <3>1 DEF Answered, Recorded
      <4>. QED  BY <2>1, <3>1, <4>1 DEF Leave, None
    <3>2. CASE a.status # NoResponse
      <4>1. last_exception' = None /\ last_result' = <<a>>
        BY <3>2 DEF Answered, Recorded
      <4>. QED  BY <2>1, <3>2, <4>1 DEF Leave, None
    <3>. QED  BY <3>1, <3>2
  <2>3. outcome' # Escaped
    BY <2>2, Outcomes
  <2>. QED  BY <1>1, <1>2, <1>3, <2>1, <2>2, <2>3
            DEF IInv, LoopInv, CountInv, GoesOnInv, OutcomeInv
<1>5. CASE ~IsLast(Classify(a), n)
  <2>1. \/ pc' = "sleep" /\ outcome' = Pending
        \/ pc' = "done" /\ outcome' = Escaped
    BY <1>1, <1>5 DEF Answered, Pause
  <2>2. \A i \in 1..Len(log') : GoesOn(i)'
    BY <1>1, <1>2, <1>3, <1>5 DEF GoesOn
  <2>. QED  BY <1>1, <1>2, <1>3, <2>1, <2>2, Outcomes
            DEF IInv, LoopInv, CountInv, GoesOnInv, OutcomeInv
<1>. QED  BY <1>4, <1>5

LEMMA NextInv == IInv /\ [Next]_vars => IInv'
<1>. SUFFICES ASSUME IInv, [Next]_vars PROVE IInv'
  OBVIOUS
<1>1. CASE UNCHANGED vars
  BY <1>1 DEF vars, IInv, LoopInv, CountInv, GoesOnInv, OutcomeInv, GoesOn
<1>2. CASE Next
  BY <1>2, AttemptInv, AnsweredInv, EscapeInv, WakeInv DEF Next
<1>. QED  BY <1>1, <1>2

LEMMA Invariant == Spec => []IInv
BY InitInv, NextInv, PTL DEF Spec

\* A call returns or raises what its latest attempt gave, and nothing older.
THEOREM LatestAnswer == Spec => []EndsWithLatestAnswer
<1>1. IInv => EndsWithLatestAnswer
  BY DEF IInv, LoopInv, OutcomeInv, EndsWithLatestAnswer
<1>. QED  BY <1>1, Invariant, PTL

\* No call makes a fifth attempt, nor goes on after an answer that ends it.
THEOREM BoundedAttempts == Spec => []AttemptsAreBounded
<1>1. IInv => AttemptsAreBounded
  <2>. SUFFICES ASSUME IInv PROVE AttemptsAreBounded
    OBVIOUS
  <2>1. log \in Seq(Answers) /\ Len(log) \in Nat /\ attempt_number \in Nat
    BY DEF IInv, LoopInv
  <2>2. \A i \in 1..(Len(log) - 1) : GoesOn(i)
    BY DEF IInv, GoesOnInv
  <2>3. \A i \in 1..Len(log) :
            GoesOn(i) => i <= 3 /\ (i = 3 => Classify(log[i]) = "timeout_or_network")
    BY <2>1, Classified, Budgets DEF GoesOn
  <2>4. Len(log) <= 4 /\ (Len(log) = 4 => Classify(log[3]) = "timeout_or_network")
    <3>1. CASE Len(log) <= 1
      BY <2>1, <3>1
    <3>2. CASE Len(log) > 1
      <4>1. Len(log) - 1 \in 1..(Len(log) - 1) /\ Len(log) - 1 \in 1..Len(log)
        BY <2>1, <3>2
      <4>2. Len(log) - 1 <= 3
        BY <2>1, <2>2, <2>3, <4>1
      <4>3. ASSUME Len(log) = 4 PROVE Classify(log[3]) = "timeout_or_network"
        <5>1. 3 \in 1..(Len(log) - 1) /\ 3 \in 1..Len(log)
          BY <4>3
        <5>. QED  BY <2>2, <2>3, <5>1
      <4>. QED  BY <2>1, <4>2, <4>3
    <3>. QED  BY <2>1, <3>1, <3>2
  <2>5. attempt_number <= 4
    <3>1. CASE attempt_number = Len(log)
      BY <2>4, <3>1
    <3>2. CASE /\ attempt_number = Len(log) + 1
               /\ pc # "done" \/ outcome = Escaped
      <4>1. CASE Len(log) = 0
        BY <3>2, <4>1
      <4>2. CASE Len(log) # 0
        <5>1. Len(log) \in 1..Len(log)
          BY <2>1, <4>2
        <5>2. GoesOn(Len(log))
          BY <3>2, <5>1 DEF IInv, GoesOnInv
        <5>. QED  BY <2>1, <2>3, <3>2, <5>1, <5>2
      <4>. QED  BY <4>1, <4>2
    <3>. QED  BY <3>1, <3>2 DEF IInv, CountInv
  <2>. QED  BY <2>2, <2>4, <2>5 DEF AttemptsAreBounded, GoesOn
<1>. QED  BY <1>1, Invariant, PTL

-----------------------------------------------------------------------------
(* The waits. *)

IsWithin(wait, max) == wait \in Nat /\ wait <= max

LEMMA Powers == 2^0 = 1 /\ 2^1 = 2 /\ 2^2 = 4
OBVIOUS

\* What the header of an answer can hold.
LEMMA Headers ==
    ASSUME NEW a \in Answers
    PROVE  /\ a.status \in Nat
           /\ Asks(a.retry_after) => a.retry_after.seconds \in Int
<1>1. a \in Answer
  BY AnswersAssumption
<1>2. a.status \in Nat /\ a.retry_after \in Header
  BY <1>1 DEF Answer
<1>. QED  BY <1>2 DEF Header, Asks

\* The backoff before each of the retries there are.
LEMMA Backoffs ==
    ASSUME NEW n \in 1..3
    PROVE  /\ IsWithin(Backoff(ServerErrorBase, n, MaxRetryAfter), 4000)
           /\ IsWithin(Backoff(ServerErrorBase, n, ServerErrorMax), 4000)
           /\ IsWithin(Backoff(TimeoutBase, n, TimeoutMax), 800)
<1>. DEFINE retry == n - 1  factor == 2^retry
<1>1. retry = 0 \/ retry = 1 \/ retry = 2
  OBVIOUS
<1>. HIDE DEF retry
<1>2. factor = 1 \/ factor = 2 \/ factor = 4
  <2>1. CASE retry = 0
    BY <2>1, Powers
  <2>2. CASE retry = 1
    BY <2>2, Powers
  <2>3. CASE retry = 2
    BY <2>3, Powers
  <2>. QED  BY <1>1, <2>1, <2>2, <2>3
<1>. HIDE DEF factor
<1>3. /\ IsWithin(Smaller(ServerErrorBase * factor, MaxRetryAfter), 4000)
      /\ IsWithin(Smaller(ServerErrorBase * factor, ServerErrorMax), 4000)
      /\ IsWithin(Smaller(TimeoutBase * factor, TimeoutMax), 800)
  BY <1>2 DEF IsWithin, Smaller, ServerErrorBase, MaxRetryAfter, ServerErrorMax,
              TimeoutBase, TimeoutMax
<1>. QED  BY <1>3 DEF Backoff, factor, retry

\* Retry-After is kept within a minute, and not below what was asked for.
LEMMA Clamped ==
    ASSUME NEW h, h.seconds \in Int
    PROVE  /\ IsWithin(RetryAfter(h), 60000)
           /\ RetryAfter(h) >= Smaller(h.seconds * 1000, MaxRetryAfter)
BY DEF IsWithin, RetryAfter, Smaller, MaxRetryAfter

\* The longest the loop can have slept before its next attempts.
Budget(retries) ==
    IF retries = 0 THEN 0 ELSE IF retries = 1 THEN 60000
    ELSE IF retries = 2 THEN 120000 ELSE 121200

LEMMA Waits ==
    ASSUME NEW a \in Answers, NEW n \in 1..3, ~IsLast(Classify(a), n),
           NEW wait \in {ShortestWait(a, n), LongestWait(a, n)}
    PROVE  /\ IsWithin(wait, 60000)
           /\ n = 3 => wait <= 1200
           /\ a.status = 429 /\ Asks(a.retry_after) =>
                  wait >= Smaller(a.retry_after.seconds * 1000, MaxRetryAfter)
<1>. DEFINE c == Classify(a)
<1>1. c \in Classes /\ c # "not_retryable" /\ (n = 3 => c = "timeout_or_network")
  BY Classified, Budgets DEF IsLast, Retryable, RetryAttempts
<1>2. (a.status = 429) = (c = "rate_limited")
  BY Headers DEF Classify, NoResponse
<1>3. CASE c = "rate_limited"
  <2>1. /\ wait = ShortestWait(a, n)
        /\ ShortestWait(a, n) = IF Asks(a.retry_after) THEN RetryAfter(a.retry_after)
                                ELSE Backoff(ServerErrorBase, n, MaxRetryAfter)
    BY <1>3 DEF ShortestWait, LongestWait
  <2>2. CASE ~Asks(a.retry_after)
    BY <1>1, <1>3, <2>1, <2>2, Backoffs DEF IsWithin
  <2>3. CASE Asks(a.retry_after)
    BY <1>1, <1>3, <2>1, <2>3, Headers, Clamped DEF IsWithin
  <2>. QED  BY <2>2, <2>3
<1>4. CASE c = "server_error"
  <2>. DEFINE least == Backoff(ServerErrorBase, n, ServerErrorMax)
  <2>1. ShortestWait(a, n) = least /\ LongestWait(a, n) = least + least \div 4
    BY <1>4 DEF ShortestWait, LongestWait
  <2>2. IsWithin(least, 4000)
    BY Backoffs
  <2>. HIDE DEF least
  <2>3. IsWithin(wait, 60000)
    BY <2>1, <2>2 DEF IsWithin
  <2>. QED  BY <1>1, <1>2, <1>4, <2>3
<1>5. CASE c = "timeout_or_network"
  <2>. DEFINE least == Backoff(TimeoutBase, n, TimeoutMax)
  <2>1. ShortestWait(a, n) = least /\ LongestWait(a, n) = least + least \div 2
    BY <1>5 DEF ShortestWait, LongestWait
  <2>2. IsWithin(least, 800)
    BY Backoffs
  <2>. HIDE DEF least
  <2>3. IsWithin(wait, 1200)
    BY <2>1, <2>2 DEF IsWithin
  <2>. QED  BY <1>2, <1>5, <2>3 DEF IsWithin
<1>. QED  BY <1>1, <1>3, <1>4, <1>5 DEF Classes

\* There is a wait for each answer after which the loop went on.
WaitsInv ==
    /\ waits \in Seq(Nat)
    /\ Len(waits) = Len(log) \/ (pc = "done" /\ Len(waits) = Len(log) - 1)
    /\ IsWithin(slept, Budget(Len(waits)))
    /\ \A i \in 1..Len(waits) :
          log[i].status = 429 /\ Asks(log[i].retry_after)
          => waits[i] >= Smaller(log[i].retry_after.seconds * 1000, MaxRetryAfter)

LEMMA InitWaits == Init => WaitsInv
<1>. SUFFICES ASSUME Init PROVE WaitsInv
  OBVIOUS
<1>1. Len(waits) = 0 /\ Len(log) = 0 /\ slept = 0 /\ waits \in Seq(Nat)
  BY DEF Init
<1>2. 1..Len(waits) = {}
  BY <1>1
<1>3. IsWithin(slept, Budget(Len(waits)))
  BY <1>1 DEF Budget, IsWithin
<1>. QED  BY <1>1, <1>2, <1>3 DEF WaitsInv

LEMMA AnsweredWaits ==
    ASSUME IInv, WaitsInv, NEW a \in Answers, Answered(a)
    PROVE  WaitsInv'
<1>. DEFINE n == Len(log) + 1
<1>1. /\ pc = "await" /\ outcome = Pending /\ attempt_number = n
      /\ log' = Append(log, a) /\ log \in Seq(Answers) /\ n \in Nat \ {0}
  BY DEF Answered, IInv, LoopInv, CountInv, OutcomeInv
<1>2. Len(log') = n /\ log'[n] = a /\ \A i \in 1..Len(log) : log'[i] = log[i]
  BY <1>1, AppendProperties
<1>3. Len(waits) = Len(log) /\ waits \in Seq(Nat) /\ IsWithin(slept, Budget(Len(waits)))
  BY <1>1, Outcomes DEF WaitsInv
<1>4. CASE IsLast(Classify(a), n) \/ WaitRaises(a)
  <2>1. pc' = "done" /\ waits' = waits /\ slept' = slept
    BY <1>1, <1>4 DEF Answered, Pause
  <2>2. Len(waits') = Len(log') - 1 /\ \A i \in 1..Len(waits') : log'[i] = log[i]
    BY <1>1, <1>2, <1>3, <2>1
  <2>3. ASSUME NEW i \in 1..Len(waits'), log'[i].status = 429, Asks(log'[i].retry_after)
        PROVE  waits'[i] >= Smaller(log'[i].retry_after.seconds * 1000, MaxRetryAfter)
    <3>1. i \in 1..Len(waits) /\ log'[i] = log[i] /\ waits'[i] = waits[i]
      BY <2>1, <2>2
    <3>2. log[i].status = 429 /\ Asks(log[i].retry_after)
      BY <2>3, <3>1
    <3>. QED  BY <3>1, <3>2 DEF WaitsInv
  <2>. QED  BY <1>3, <2>1, <2>2, <2>3 DEF WaitsInv
<1>5. CASE ~IsLast(Classify(a), n) /\ ~WaitRaises(a)
  <2>1. PICK wait \in {ShortestWait(a, n), LongestWait(a, n)} :
            pc' = "sleep" /\ waits' = Append(waits, wait) /\ slept' = slept + wait
    BY <1>1, <1>5 DEF Answered, Pause
  <2>2. n \in 1..3
    BY <1>1, <1>5, Classified, Budgets
  <2>3. /\ IsWithin(wait, 60000) /\ (n = 3 => wait <= 1200)
        /\ a.status = 429 /\ Asks(a.retry_after) =>
               wait >= Smaller(a.retry_after.seconds * 1000, MaxRetryAfter)
    BY <1>5, <2>2, Waits
  <2>4. /\ waits' \in Seq(Nat) /\ Len(waits') = n /\ waits'[n] = wait
        /\ \A i \in 1..Len(waits) : waits'[i] = waits[i]
    <3>1. wait \in Nat
      BY <2>3 DEF IsWithin
    <3>. QED  BY <1>3, <2>1, <3>1, AppendProperties
  <2>5. IsWithin(slept', Budget(n))
    <3>1. IsWithin(slept, Budget(n - 1))
      BY <1>1, <1>3
    <3>. HIDE DEF n
    <3>2. n = 1 \/ n = 2 \/ n = 3
      BY <2>2
    <3>. QED  BY <2>1, <2>3, <3>1, <3>2 DEF Budget, IsWithin
  <2>6. ASSUME NEW i \in 1..Len(waits'),
               log'[i].status = 429, Asks(log'[i].retry_after)
        PROVE  waits'[i] >= Smaller(log'[i].retry_after.seconds * 1000, MaxRetryAfter)
    <3>1. CASE i = n
      BY <1>2, <2>3, <2>4, <2>6, <3>1
    <3>2. CASE i # n
      <4>1. i \in 1..Len(waits) /\ i \in 1..Len(log)
        BY <1>1, <1>3, <2>4, <3>2
      <4>2. log'[i] = log[i] /\ waits'[i] = waits[i]
        BY <1>2, <2>4, <4>1
      <4>. QED  BY <2>6, <4>1, <4>2 DEF WaitsInv
    <3>. QED  BY <3>1, <3>2
  <2>. QED  BY <1>2, <2>1, <2>4, <2>5, <2>6 DEF WaitsInv
<1>. QED  BY <1>4, <1>5

LEMMA NextWaits == IInv /\ WaitsInv /\ [Next]_vars => WaitsInv'
<1>. SUFFICES ASSUME IInv, WaitsInv, [Next]_vars PROVE WaitsInv'
  OBVIOUS
<1>1. CASE UNCHANGED vars
  BY <1>1 DEF vars, WaitsInv
<1>2. CASE Attempt \/ Wake
  BY <1>2, Outcomes DEF Attempt, Wake, WaitsInv
<1>3. CASE Escape
  BY <1>3, Outcomes DEF Escape, WaitsInv, IInv, OutcomeInv
<1>. QED  BY <1>1, <1>2, <1>3, AnsweredWaits DEF Next

LEMMA WaitsInvariant == Spec => []WaitsInv
BY InitWaits, NextWaits, Invariant, PTL DEF Spec

\* However the classes mix: two minutes and 1.2 seconds of sleep at most, and
\* after a 429 never less than was asked for, up to a minute.
THEOREM BoundedWaits == Spec => []WaitsAreBounded
<1>1. WaitsInv => WaitsAreBounded
  <2>. SUFFICES ASSUME WaitsInv PROVE WaitsAreBounded
    OBVIOUS
  <2>1. slept <= 121200
    BY DEF WaitsInv, Budget, IsWithin
  <2>2. DOMAIN waits = 1..Len(waits)
    BY DEF WaitsInv
  <2>. QED  BY <2>1, <2>2 DEF WaitsInv, WaitsAreBounded
<1>. QED  BY <1>1, WaitsInvariant, PTL

-----------------------------------------------------------------------------
(* The end. *)

\* The loop goes on only while there is another attempt to make.
Allowed ==
    /\ pc \in {"loop", "await", "sleep", "done"}
    /\ attempt_number \in 0..4
    /\ pc \in {"loop", "sleep"} => attempt_number <= 3

LEMMA AttemptsAllowed == ASSUME IInv PROVE Allowed
<1>1. log \in Seq(Answers) /\ Len(log) \in Nat
  BY DEF IInv, LoopInv
<1>2. ASSUME NEW i \in 1..Len(log), GoesOn(i) PROVE i <= 3
  BY <1>1, <1>2, Classified, Budgets DEF GoesOn
<1>3. Len(log) - 1 <= 3
  <2>1. CASE Len(log) <= 1
    BY <1>1, <2>1
  <2>2. CASE Len(log) > 1
    <3>1. Len(log) - 1 \in 1..(Len(log) - 1) /\ Len(log) - 1 \in 1..Len(log)
      BY <1>1, <2>2
    <3>. QED  BY <1>2, <3>1 DEF IInv, GoesOnInv
  <2>. QED  BY <1>1, <2>1, <2>2
<1>4. ASSUME pc # "done" \/ outcome = Escaped PROVE Len(log) <= 3
  <2>1. CASE Len(log) = 0
    BY <2>1
  <2>2. CASE Len(log) # 0
    <3>1. Len(log) \in 1..Len(log)
      BY <1>1, <2>2
    <3>. QED  BY <1>2, <1>4, <3>1 DEF IInv, GoesOnInv
  <2>. QED  BY <2>1, <2>2
<1>5. CASE pc # "done" \/ outcome = Escaped
  <2>1. attempt_number = Len(log) \/ attempt_number = Len(log) + 1
    BY DEF IInv, CountInv
  <2>2. pc \in {"loop", "sleep"} => attempt_number = Len(log)
    BY Outcomes DEF IInv, CountInv, OutcomeInv
  <2>. QED  BY <1>1, <1>4, <1>5, <2>1, <2>2 DEF Allowed, IInv, LoopInv
<1>6. CASE pc = "done" /\ outcome # Escaped
  <2>1. attempt_number = Len(log)
    BY <1>6 DEF IInv, CountInv
  <2>. QED  BY <1>1, <1>3, <1>6, <2>1 DEF Allowed
<1>. QED  BY <1>5, <1>6

\* An answer that is not the last leaves another attempt.
LEMMA Nearer ==
    ASSUME Allowed, Allowed', Next
    PROVE  StepsLeft' \in Nat /\ StepsLeft' < StepsLeft
<1>1. /\ attempt_number \in 0..4 /\ attempt_number' \in 0..4
      /\ pc \in {"loop", "sleep"} => attempt_number <= 3
  BY DEF Allowed
<1>2. CASE Attempt
  BY <1>1, <1>2 DEF Attempt, StepsLeft
<1>3. ASSUME NEW a \in Answers, Answered(a)
      PROVE  StepsLeft' \in Nat /\ StepsLeft' < StepsLeft
  <2>1. /\ pc = "await" /\ attempt_number' = attempt_number
        /\ pc' = "done" \/ pc' = "sleep"
    BY <1>3 DEF Answered, Pause
  <2>. QED  BY <1>1, <2>1 DEF StepsLeft
<1>4. CASE Escape
  BY <1>1, <1>4 DEF Escape, StepsLeft
<1>5. CASE Wake
  BY <1>1, <1>5 DEF Wake, StepsLeft
<1>. QED  BY <1>2, <1>3, <1>4, <1>5 DEF Next

\* For any answers, in any order: each step takes the call nearer to its end.
THEOREM RetryWindsDown == Spec => EachStepNearsTheEnd
<1>1. IInv => Allowed
  BY AttemptsAllowed
<1>2. Allowed /\ Allowed' /\ [Next]_vars => [StepsLeft' \in Nat /\ StepsLeft' < StepsLeft]_vars
  BY Nearer
<1>. QED  BY <1>1, <1>2, Invariant, PTL DEF Spec, EachStepNearsTheEnd

\* What the loop holds of its attempts; at most one of the two is there.
HeldInv ==
    /\ last_result \in Optional /\ last_exception \in Optional
    /\ outcome \in {Pending, Escaped} \cup {Returned(a) : a \in Answers}
                                      \cup {Raised(a) : a \in Answers}

LEMMA NextHeld == HeldInv /\ [Next]_vars => HeldInv'
<1>. SUFFICES ASSUME HeldInv, [Next]_vars PROVE HeldInv'
  OBVIOUS
<1>1. CASE UNCHANGED vars
  BY <1>1 DEF vars, HeldInv
<1>2. CASE Attempt \/ Wake \/ Escape
  BY <1>2 DEF Attempt, Wake, Escape, HeldInv
<1>3. ASSUME NEW a \in Answers, Answered(a) PROVE HeldInv'
  <2>1. /\ last_result' \in Optional /\ last_exception' \in Optional
        /\ \/ last_exception' = <<a>>
           \/ last_exception' = None /\ last_result' = <<a>>
    BY <1>3 DEF Answered, Recorded, Optional
  <2>2. outcome' \in {outcome, Escaped, Raised(a), Returned(a)}
    <3>1. outcome' = outcome \/ outcome' = Escaped \/ Leave
      BY <1>3 DEF Answered, Pause
    <3>2. CASE last_exception' = <<a>>
      BY <3>1, <3>2 DEF Leave, None
    <3>3. CASE last_exception' = None /\ last_result' = <<a>>
      BY <3>1, <3>3 DEF Leave, None
    <3>. QED  BY <2>1, <3>2, <3>3
  <2>. QED  BY <2>1, <2>2 DEF HeldInv
<1>. QED  BY <1>1, <1>2, <1>3 DEF Next

\* The types of the loop's variables, for any set of answers.
THEOREM TypeCorrect == Spec => []TypeOK
<1>1. Init => HeldInv
  BY DEF Init, HeldInv, Optional
<1>2. IInv /\ WaitsInv /\ HeldInv => TypeOK
  BY DEF IInv, LoopInv, WaitsInv, HeldInv, TypeOK, IsWithin
<1>. QED  BY <1>1, <1>2, NextHeld, Invariant, WaitsInvariant, PTL DEF Spec
=============================================================================
