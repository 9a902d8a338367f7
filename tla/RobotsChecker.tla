---------------------------- MODULE RobotsChecker ----------------------------
(***************************************************************************)
(* RobotsChecker (src/src/pipeline/fetchers/robots.py): the rules of every *)
(* origin, fetched when they are first needed and kept for the run.  One   *)
(* lock serves all origins and is held while robots.txt is fetched; it is  *)
(* first come, first served, and the task at the head of robots_lock has   *)
(* it.  A task stands for the url it asks about.                           *)
(***************************************************************************)
EXTENDS Naturals, Sequences

CONSTANTS
    Tasks,
    Origins,
    OriginOf,           \* OriginOf[t]: the origin of the url of task t
    Published           \* Published[o]: the rules in the robots.txt of o

\* What the parser can tell: which urls may be fetched, and whether there is
\* a Crawl-delay that asks for less than the configured rate.
Rules == [allowed : SUBSET Tasks, slow : BOOLEAN]

RobotsConstants ==
    /\ OriginOf \in [Tasks -> Origins]
    /\ Published \in [Origins -> Rules]

VARIABLES
    parsers,            \* _parsers: the rules of an origin, or Unknown
    robots_lock,        \* _lock: its holder, then those that wait for it
    answered            \* auxiliary: how robots.txt was answered, each time

vars == <<parsers, robots_lock, answered>>

Unknown == [unknown |-> TRUE]

FullyPermissive == [allowed |-> Tasks, slow |-> FALSE]
FullyDisallowed == [allowed |-> {}, slow |-> FALSE]

\* No answer (an httpx.HTTPError), and the answers that matter.
NoAnswer == 0
Statuses == {NoAnswer, 200, 301, 404, 503}

\* How an answer counts: the file, that there is none, or no policy at all.
Outcome(status) ==
    IF status = 200 THEN "read" ELSE IF status \in 400..499 THEN "missing" ELSE "failed"

Init ==
    /\ parsers = [o \in Origins |-> Unknown]
    /\ robots_lock = <<>>
    /\ answered = [o \in Origins |-> <<>>]

Known(o) == parsers[o] # Unknown

\* A slip: without an answer, there are no rules.
PermissiveUnlessRead(o, status) ==
    IF status = 200 THEN Published[o] ELSE FullyPermissive

\* What _fetch_parser makes of the answer.
Parsed(o, status) ==
    IF status = 200 THEN Published[o]
    ELSE IF status \in 400..499 THEN FullyPermissive
    ELSE FullyDisallowed

\* is_allowed or crawl_delay is called, and waits for the lock.
Ask(t) ==
    /\ robots_lock' = Append(robots_lock, t)
    /\ UNCHANGED <<parsers, answered>>

HasLock(t) == robots_lock # <<>> /\ Head(robots_lock) = t

\* The holder of the lock finds the rules, or fetches and keeps them.
LookUp(t) ==
    LET o == OriginOf[t] IN
    /\ HasLock(t)
    /\ \/ /\ Known(o)
          /\ UNCHANGED <<parsers, answered>>
       \/ /\ ~Known(o)
          /\ \E status \in Statuses :
                /\ parsers' = [parsers EXCEPT ![o] = Parsed(o, status)]
                /\ answered' = [answered EXCEPT ![o] = Append(@, Outcome(status))]
    /\ robots_lock' = Tail(robots_lock)

\* The fetch raises something that is not an HTTPError: nothing is kept.
LookUpFails(t) ==
    /\ HasLock(t)
    /\ ~Known(OriginOf[t])
    /\ robots_lock' = Tail(robots_lock)
    /\ UNCHANGED <<parsers, answered>>

-----------------------------------------------------------------------------
(* Properties. *)

TypeOK ==
    /\ parsers \in [Origins -> Rules \cup {Unknown}]
    /\ robots_lock \in Seq(Tasks)
    /\ answered \in [Origins -> Seq({"read", "missing", "failed"})]

\* The rules that may be acted on: the published ones, or none if there is no
\* such file, as robots.py:18-21 has it.
Permitted(t) ==
    LET o == OriginOf[t]
    IN  \E i \in DOMAIN answered[o] :
            \/ answered[o][i] = "read" /\ t \in Published[o].allowed
            \/ answered[o][i] = "missing"

\* robots.txt is read once for an origin, however many fetches ask at once.
ReadOnce == \A o \in Origins : Len(answered[o]) <= 1

=============================================================================
