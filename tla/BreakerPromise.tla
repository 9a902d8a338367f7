--------------------------- MODULE BreakerPromise ---------------------------
(***************************************************************************)
(* What the circuit breaker promises (FR-10), without its three states:    *)
(* FailMax consecutive failures of a domain, and every failure after them, *)
(* make it skipped for the next ResetTimeout units of time; a success ends *)
(* both the streak and the skipping.                                       *)
(*                                                                         *)
(* Not promised is that one trial at a time is allowed through, as the     *)
(* docstring of is_open can be read (circuit_breaker.py:54): asking does   *)
(* not consume the trial, so after the cooldown every call is let through  *)
(* until one of them reports.                                              *)
(***************************************************************************)
EXTENDS Integers

CONSTANTS Domains, FailMax, ResetTimeout

VARIABLES
    streak,         \* consecutive failures, counted up to FailMax
    cooldown,       \* how long the domain is still to be skipped
    call            \* the last call: what was asked or reported, the answer

vars == <<streak, cooldown, call>>

\* A call can be seen, even one that changes nothing else: its turn is 1
\* after 0 and 0 after 1.
Called(method, d, answer) ==
    call' = [method |-> method, domain |-> d, answer |-> answer, turn |-> 1 - call.turn]

NoCall(d) == [method |-> "ask", domain |-> d, answer |-> FALSE, turn |-> 0]

Init ==
    /\ streak = [d \in Domains |-> 0]
    /\ cooldown = [d \in Domains |-> 0]
    /\ \E d \in Domains : call = NoCall(d)

Ask(d) ==
    /\ Called("ask", d, cooldown[d] > 0)
    /\ UNCHANGED <<streak, cooldown>>

Succeed(d) ==
    /\ streak' = [streak EXCEPT ![d] = 0]
    /\ cooldown' = [cooldown EXCEPT ![d] = 0]
    /\ Called("success", d, FALSE)

Fail(d) ==
    /\ IF streak[d] + 1 < FailMax
       THEN /\ streak' = [streak EXCEPT ![d] = @ + 1]
            /\ UNCHANGED cooldown
       ELSE /\ streak' = [streak EXCEPT ![d] = FailMax]
            /\ cooldown' = [cooldown EXCEPT ![d] = ResetTimeout]
    /\ Called("failure", d, FALSE)

Tick ==
    /\ cooldown' = [d \in Domains |-> IF cooldown[d] > 0 THEN cooldown[d] - 1 ELSE 0]
    /\ UNCHANGED <<streak, call>>

Next == Tick \/ \E d \in Domains : Ask(d) \/ Succeed(d) \/ Fail(d)

Spec == Init /\ [][Next]_vars

=============================================================================
