------------------------------- MODULE MCRetry -------------------------------
(* An instance of Retry for TLC. *)
EXTENDS Retry, TLC

NoHeader == [form |-> "none"]
BadHeader == [form |-> "raises"]

\* Both sides of every boundary of classify, and of the clamp of Retry-After.
MCAnswers ==
    {[status |-> s, retry_after |-> NoHeader] : s \in {NoResponse, 200, 428, 429, 499, 500, 599, 600}}
    \cup {[status |-> s, retry_after |-> BadHeader] : s \in {200, 429}}
    \cup {[status |-> 429, retry_after |-> [form |-> "delay", seconds |-> n]] : n \in {0, 5, 120}}
    \cup {[status |-> 429, retry_after |-> [form |-> "date", seconds |-> n]] : n \in {-30, 59, 61}}
=============================================================================
