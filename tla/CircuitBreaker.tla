--------------------------- MODULE CircuitBreaker ---------------------------
(***************************************************************************)
(* DomainCircuitBreaker (src/src/pipeline/fetchers/circuit_breaker.py):    *)
(* one closed / open / half-open machine per domain.  Its methods have no  *)
(* await, so a call is one step; here they are called in any order, as     *)
(* callers that check first and report later may call them.                *)
(*                                                                         *)
(* The clock is kept as the age of opened_at, counted up to ResetTimeout,  *)
(* and consecutive_failures is counted up to FailMax: the code compares    *)
(* neither with anything beyond.  A domain that has no entry reads like a  *)
(* fresh entry.                                                            *)
(***************************************************************************)
EXTENDS Integers

CONSTANTS
    Domains,
    FailMax,            \* fail_max
    ResetTimeout        \* reset_timeout, in units of time

ASSUME BreakerAssumption ==
    /\ FailMax \in Nat \ {0}
    /\ ResetTimeout \in Nat

VARIABLES
    entry,              \* _domains
    call                \* auxiliary: the last call and its answer

vars == <<entry, call>>

\* Calls alternate between turn 0 and turn 1, so that each can be told from
\* the one before, even one that changes nothing.
Called(method, d, answer) ==
    call' = [method |-> method, domain |-> d, answer |-> answer, turn |-> 1 - call.turn]

NoCall(d) == [method |-> "ask", domain |-> d, answer |-> FALSE, turn |-> 0]

\* opened_at is None.
NotOpened == -1

Entry(state, failures, age) ==
    [state |-> state, consecutive_failures |-> failures, opened_for |-> age]

Fresh == Entry("closed", 0, NotOpened)

Init ==
    /\ entry = [d \in Domains |-> Fresh]
    /\ \E d \in Domains : call = NoCall(d)

Failures(d) == entry[d].consecutive_failures
Age(d) == entry[d].opened_for

Elapsed(d) == Age(d) >= ResetTimeout

\* A slip: asking an open breaker restarts its cooldown.
IsOpenRestarts(d) ==
    IF entry[d].state # "open"
    THEN Called("ask", d, FALSE) /\ UNCHANGED entry
    ELSE /\ Called("ask", d, ~Elapsed(d))
         /\ entry' = [entry EXCEPT ![d] =
                         IF Elapsed(d) THEN Entry("half_open", Failures(d), Age(d))
                         ELSE Entry("open", Failures(d), 0)]

\* is_open: an open domain whose cooldown has elapsed is moved to half-open.
IsOpen(d) ==
    IF entry[d].state # "open"
    THEN Called("ask", d, FALSE) /\ UNCHANGED entry
    ELSE /\ Called("ask", d, ~Elapsed(d))
         /\ entry' = IF Elapsed(d)
                     THEN [entry EXCEPT ![d] = Entry("half_open", Failures(d), Age(d))]
                     ELSE entry

\* A slip: a trial that succeeds resets the streak and leaves the state alone.
RecordSuccessHalfOpen(d) ==
    /\ entry' = [entry EXCEPT ![d] = Entry(@.state, 0, @.opened_for)]
    /\ Called("success", d, FALSE)

RecordSuccess(d) ==
    /\ entry' = [entry EXCEPT ![d] = Fresh]
    /\ Called("success", d, FALSE)

CountUp(n) == IF n < FailMax THEN n + 1 ELSE n

\* Two slips: one failure too many before the breaker trips; a failure while
\* it is open or half-open does not start the cooldown again.
TripsLate(d) ==
    entry[d].state = "half_open" \/ Failures(d) >= FailMax

RecordFailureSameCooldown(d) ==
    /\ LET n == CountUp(Failures(d))
       IN  entry' = [entry EXCEPT
                       ![d] = IF n < FailMax THEN Entry(@.state, n, @.opened_for)
                              ELSE Entry("open", n, IF Age(d) = NotOpened THEN 0 ELSE Age(d))]
    /\ Called("failure", d, FALSE)

\* Whether the failure that is being recorded opens the breaker.
Trips(d) ==
    \/ entry[d].state = "half_open"
    \/ CountUp(Failures(d)) >= FailMax

RecordFailure(d) ==
    /\ LET n == CountUp(Failures(d))
       IN  entry' = [entry EXCEPT
                       ![d] = IF Trips(d) THEN Entry("open", n, 0)
                              ELSE Entry(entry[d].state, n, Age(d))]
    /\ Called("failure", d, FALSE)

Older(age) == IF age = NotOpened \/ age = ResetTimeout THEN age ELSE age + 1

Tick ==
    /\ entry' = [d \in Domains |-> Entry(entry[d].state, Failures(d), Older(Age(d)))]
    /\ UNCHANGED call

Next ==
    \/ Tick
    \/ \E d \in Domains : IsOpen(d) \/ RecordSuccess(d) \/ RecordFailure(d)

Spec == Init /\ [][Next]_vars

-----------------------------------------------------------------------------
(* Properties. *)

ClosedEntry == [state                : {"closed"},
                consecutive_failures : 0..(FailMax - 1),
                opened_for           : {NotOpened}]

TrippedEntry == [state                : {"open", "half_open"},
                 consecutive_failures : {FailMax},
                 opened_for           : 0..ResetTimeout]

Call == [method : {"ask", "success", "failure"}, domain : Domains,
         answer : BOOLEAN, turn : {0, 1}]

\* An entry that is open has an opened_at (the assert in is_open), and a
\* breaker leaves the closed state exactly when the streak has reached
\* fail_max: the streak of a half-open domain is not forgotten.
TypeOK ==
    /\ entry \in [Domains -> ClosedEntry \cup TrippedEntry]
    /\ \A d \in Domains : entry[d].state = "half_open" => Elapsed(d)
    /\ call \in Call

\* The refinement mapping: the half-open state is not visible from outside.
Streak == [d \in Domains |-> Failures(d)]
Cooldown ==
    [d \in Domains |-> IF Age(d) = NotOpened THEN 0 ELSE ResetTimeout - Age(d)]

Promise == INSTANCE BreakerPromise WITH streak <- Streak, cooldown <- Cooldown

\* In whatever order its methods are called, is_open answers as the promise
\* of FR-10 says: it skips a domain after fail_max failures in a row, for a
\* full reset_timeout after the last of them, and no other domain.
KeepsPromise == Promise!Spec

=============================================================================
