----------------------------- MODULE Resilience -----------------------------
(***************************************************************************)
(* fetch_with_resilience (src/src/pipeline/fetchers/resilience.py): ask    *)
(* the breaker, run the fetch with its retries, report how it ended.  The  *)
(* breaker is shared by all callers and fetchers, and the fetch in the     *)
(* middle is an await: whatever was true of the breaker before it need not *)
(* be true after it.  Escalation composes these actions with the fetchers  *)
(* that make them.                                                         *)
(***************************************************************************)
EXTENDS RetryPolicy

CONSTANTS
    Callers,            \* tasks that fetch pages of one domain, one at a time
    FailMax,
    ResetTimeout

\* The one domain; others have entries of their own in the breaker.
Domains == {"domain"}
domain == "domain"

VARIABLES
    entry, call,        \* the breaker
    fetching,           \* the callers that are in fetch_with_retry
    up,                 \* whether the server answers well
    late                \* the callers that may have been answered before it did

Breaker == INSTANCE CircuitBreaker

State == entry[domain].state

Init ==
    /\ Breaker!Init
    /\ fetching = {}
    /\ up = FALSE
    /\ late = {}

\* The breaker is asked, and if it is open CircuitOpenError is raised.
Fetch(c) ==
    /\ c \notin fetching
    /\ Breaker!IsOpen(domain)
    /\ fetching' = IF call'.answer THEN fetching ELSE fetching \cup {c}
    /\ UNCHANGED <<up, late>>

\* _BREAKER_FAILURE_CLASSES, and the errors that survive the retries.
Failures == {"rate_limited", "server_error", "timeout_or_network"}

\* fetch_with_retry returned a response of class c, or raised a fetch error.
Report(c, class) ==
    /\ c \in fetching
    /\ up /\ c \notin late => class \notin Failures
    /\ IF class \in Failures THEN Breaker!RecordFailure(domain)
                             ELSE Breaker!RecordSuccess(domain)
    /\ fetching' = fetching \ {c}
    /\ late' = late \ {c}
    /\ UNCHANGED up

\* A slip: every exception counts against the domain.
EscapeCounted(c) ==
    /\ c \in fetching
    /\ Breaker!RecordFailure(domain)
    /\ fetching' = fetching \ {c}
    /\ late' = late \ {c}
    /\ UNCHANGED up

\* Any other exception, one of the retry loop's own sleep included, or a
\* cancellation, goes by the breaker.
Escape(c) ==
    /\ c \in fetching
    /\ fetching' = fetching \ {c}
    /\ late' = late \ {c}
    /\ UNCHANGED <<entry, call, up>>

Tick == Breaker!Tick /\ UNCHANGED <<fetching, up, late>>

\* The server recovers for good.
Repair ==
    /\ ~up
    /\ up' = TRUE
    /\ late' = fetching
    /\ UNCHANGED <<entry, call, fetching>>

-----------------------------------------------------------------------------
(* Properties. *)

\* The breaker's own invariant, and its callers.
TypeOK ==
    /\ Breaker!TypeOK
    /\ fetching \subseteq Callers
    /\ late \subseteq fetching
    /\ up \in BOOLEAN

\* How far the breaker is from closed, how close to opening, and how long
\* from its next trial.
Distance == [closed |-> 0, half_open |-> 1, open |-> 2][State]
Streak == Breaker!Failures(domain)
Cooldown == Breaker!Cooldown[domain]

SetBack == Distance' > Distance \/ Streak' > Streak \/ Cooldown' > Cooldown

\* Once the server answers well again, the breaker is set back by nothing but
\* the failures of callers that were on their way before, each of them once,
\* in whatever order the callers ask and report: every other step leaves its
\* state, its streak and its cooldown as they are or takes them towards closed.
OnlyLateFailuresSetBack ==
    [][up => /\ late' \subseteq late
             /\ SetBack => late' # late]_<<entry, call, fetching, up, late>>

\* A domain is not skipped for ever, even if it never answers well and its
\* callers keep asking.
NeverSkippedForEver == State = "open" ~> State # "open"

\* Once the server answers well again, the breaker closes for good: the
\* failures that are still on their way open it at most for a while.
Recovers == [](up => <>[](State = "closed"))

=============================================================================
