------------------------------ MODULE FetchOnce ------------------------------
(***************************************************************************)
(* _fetch_once of HttpFetcher and BrowserFetcher (src/src/pipeline/        *)
(* fetchers/http.py and browser.py), called by several tasks: robots.txt,  *)
(* the pace of the domain, a browser context if the browser fetches, and   *)
(* then the page.  A fetch error is retried, from the start.               *)
(*                                                                         *)
(* The robots checker is shared by the two fetchers, as _build_fetcher has *)
(* it (orchestrator/run.py:214-243); each has a rate limiter of its own.   *)
(* robots.txt belongs to an origin, a scheme and a netloc, and a bucket to *)
(* a netloc: origins that differ in their scheme share a bucket.           *)
(* Between two awaits a task is not interrupted: where an await need not   *)
(* suspend, the steps below allow more orders than the event loop would.   *)
(***************************************************************************)
EXTENDS Naturals, Sequences

CONSTANTS
    Tasks,              \* each fetches one url
    BrowserTasks,       \* those that do it through the browser
    Origins,
    OriginOf,
    Netlocs,
    NetlocOf,           \* NetlocOf[o]: an origin without its scheme
    Published,          \* the rules in robots.txt
    RespectCrawlDelay,  \* respect_crawl_delay
    Unit, NormalRate, SlowRate, Burst, Horizon,
    PoolSize,
    MaxAttempts         \* attempts of the retry loop

Rates == {NormalRate, SlowRate}

\* A bucket belongs to one of the two limiters, and to a netloc.
Keys == {"http", "browser"} \X Netlocs

VARIABLES
    pc,                 \* where each task is
    attempt,            \* the attempts each has begun
    parsers, robots_lock, answered,
    bucket, bucket_lock, grants,
    idle, created, pool_lock, getters, woken, held

robots == <<parsers, robots_lock, answered>>
limiter == <<bucket, bucket_lock, grants>>
pool == <<idle, created, pool_lock, getters, woken, held>>
vars == <<pc, attempt, parsers, robots_lock, answered, bucket, bucket_lock,
          grants, idle, created, pool_lock, getters, woken, held>>

Robots == INSTANCE RobotsChecker
Limiter == INSTANCE RateLimiter
Pool == INSTANCE ContextPool WITH Fetchers <- BrowserTasks

ASSUME FetchAssumption ==
    /\ BrowserTasks \subseteq Tasks
    /\ NetlocOf \in [Origins -> Netlocs]
    /\ RespectCrawlDelay \in BOOLEAN
    /\ SlowRate < NormalRate
    /\ MaxAttempts \in Nat \ {0}
    /\ Robots!RobotsConstants
    /\ Limiter!LimiterConstants
    /\ Pool!PoolConstants

Key(t) == <<IF t \in BrowserTasks THEN "browser" ELSE "http", NetlocOf[OriginOf[t]]>>

Init ==
    /\ pc = [t \in Tasks |-> "start"]
    /\ attempt = [t \in Tasks |-> 0]
    /\ Robots!Init
    /\ Limiter!Init
    /\ Pool!Init

Goto(t, where) == pc' = [pc EXCEPT ![t] = where]

Start(t) ==
    /\ pc[t] = "start"
    /\ attempt' = [attempt EXCEPT ![t] = @ + 1]
    /\ Robots!Ask(t)
    /\ Goto(t, "allowed?")
    /\ UNCHANGED <<limiter, pool>>

\* Where is_allowed leads to: RobotsDisallowedError is not retried.
AfterRobots(t) ==
    IF t \notin parsers'[OriginOf[t]].allowed THEN "done"
    ELSE IF RespectCrawlDelay THEN "allowed" ELSE "pace"

IsAllowed(t) ==
    /\ pc[t] = "allowed?"
    /\ Robots!LookUp(t)
    /\ Goto(t, AfterRobots(t))
    /\ UNCHANGED <<attempt, limiter, pool>>

CrawlDelay(t) ==
    /\ \/ /\ pc[t] = "allowed"
          /\ Robots!Ask(t)
          /\ Goto(t, "delay?")
       \/ /\ pc[t] = "delay?"
          /\ Robots!LookUp(t)
          /\ Goto(t, "pace")
    /\ UNCHANGED <<attempt, limiter, pool>>

\* robots.txt could not be fetched, in a way nothing catches.
RobotsEscape(t) ==
    /\ pc[t] \in {"allowed?", "delay?"}
    /\ Robots!LookUpFails(t)
    /\ Goto(t, "done")
    /\ UNCHANGED <<attempt, limiter, pool>>

\* A slip: the more generous of the two counts.
GenerousRate(t) == NormalRate

\* _effective_rate_limit: a Crawl-delay counts if it is the stricter one.
EffectiveRate(t) ==
    IF RespectCrawlDelay /\ parsers[OriginOf[t]].slow THEN SlowRate ELSE NormalRate

AskLimiter(t) ==
    /\ pc[t] = "pace"
    /\ Limiter!Acquire(t, Key(t), EffectiveRate(t))
    /\ Goto(t, "paced")
    /\ UNCHANGED <<attempt, robots, pool>>

\* A task that is let through goes for the page, by way of the pool.
Paced(t) ==
    /\ pc[t] = "paced"
    /\ \/ /\ Limiter!Grant(t, Key(t))
          /\ Goto(t, IF t \in BrowserTasks THEN "context" ELSE "page")
       \/ /\ Limiter!Pace(t, Key(t))
          /\ UNCHANGED pc
    /\ UNCHANGED <<attempt, robots, pool>>

AskPool(t) ==
    /\ pc[t] = "context"
    /\ Pool!Acquire(t)
    /\ Goto(t, IF held'[t] # Pool!NoContext THEN "page" ELSE "waiting")
    /\ UNCHANGED <<attempt, robots, limiter>>

\* A task that waits for the lock of the pool, or for a context, moves on.
GetContext(t) ==
    /\ pc[t] = "waiting"
    /\ Pool!Create(t) \/ Pool!GiveUpLock(t) \/ Pool!Resume(t)
    /\ IF held'[t] # Pool!NoContext THEN Goto(t, "page") ELSE UNCHANGED pc
    /\ UNCHANGED <<attempt, robots, limiter>>

NoNewContext(t) ==
    /\ pc[t] = "waiting"
    /\ Pool!CreateFails(t)
    /\ Goto(t, "done")
    /\ UNCHANGED <<attempt, robots, limiter>>

\* A slip: a retry goes for the page again with the token of the last attempt.
RetryThePage(t) ==
    /\ pc[t] = "page"
    /\ \/ Goto(t, "done")
       \/ /\ attempt[t] < MaxAttempts
          /\ Goto(t, IF t \in BrowserTasks THEN "context" ELSE "start")
    /\ IF t \in BrowserTasks THEN Pool!Release(t) ELSE UNCHANGED pool
    /\ UNCHANGED <<attempt, robots, limiter>>

\* The page was fetched, or the fetch failed: with an error that is retried,
\* while there are attempts, or with one that is not.  A context is released
\* in any case.
Page(t) ==
    /\ pc[t] = "page"
    /\ \/ Goto(t, "done")
       \/ attempt[t] < MaxAttempts /\ Goto(t, "start")
    /\ IF t \in BrowserTasks THEN Pool!Release(t) ELSE UNCHANGED pool
    /\ UNCHANGED <<attempt, robots, limiter>>

Tick == Limiter!Tick /\ UNCHANGED <<pc, attempt, robots, pool>>

Step(t) ==
    \/ Start(t) \/ IsAllowed(t) \/ CrawlDelay(t) \/ RobotsEscape(t)
    \/ AskLimiter(t) \/ Paced(t)
    \/ AskPool(t) \/ GetContext(t) \/ NoNewContext(t)
    \/ Page(t)

Next == Tick \/ \E t \in Tasks : Step(t)

Spec == Init /\ [][Next]_vars

\* Time passes, and every await ends.  Pages and robots.txt have timeouts of
\* 30 s, but httpx's is per read, and new_page, content, evaluate and body of
\* Playwright have none: that those end too is assumed.
FairSpec == Spec /\ WF_vars(Tick) /\ \A t \in Tasks : WF_vars(Step(t))

-----------------------------------------------------------------------------
(* Properties. *)

Places == {"start", "allowed?", "allowed", "delay?", "pace", "paced", "context",
           "waiting", "page", "done"}

TypeOK ==
    /\ pc \in [Tasks -> Places]
    /\ attempt \in [Tasks -> 0..MaxAttempts]
    /\ Robots!TypeOK
    /\ Limiter!TypeOK
    /\ Pool!TypeOK

\* No page is fetched, and no token or context taken for it, unless the
\* origin's robots.txt was read and permits it or is known not to exist; and
\* robots.txt is read once per origin, however many tasks need it at once.
RobotsRespected ==
    /\ \A t \in Tasks : pc[t] \in {"pace", "paced", "context", "waiting", "page"} =>
           Robots!Permitted(t)
    /\ Robots!ReadOnce

\* The pace for an origin whose robots.txt was answered: the configured one, or
\* that of a stricter Crawl-delay.
PaceFor(o) ==
    LET slow == \E i \in DOMAIN answered[o] : answered[o][i] = "read" /\ Published[o].slow
    IN  IF RespectCrawlDelay /\ slow THEN SlowRate ELSE NormalRate

\* In every stretch of time a fetcher keeps to one pace in a netloc, whatever
\* queues and sleeps there are: that for one of its origins whose robots.txt
\* was answered, the one whose task came first.  With one scheme to a netloc
\* that is the pace its robots.txt asks for; with two it need not be the
\* stricter.
PaceIsKept ==
    \A k \in Keys :
        \/ grants[k] = <<>>
        \/ \E o \in Origins : /\ NetlocOf[o] = k[2]
                             /\ answered[o] # <<>>
                             /\ Limiter!PaceOf(k, PaceFor(o))

\* A context is used by one fetch at a time, only while it fetches its page,
\* and never lost: it is idle or in use, whatever failed in between.
ContextsAreExclusive ==
    /\ Pool!EachContextInOnePlace
    /\ \A t \in BrowserTasks : held[t] # Pool!NoContext <=> pc[t] = "page"

\* What each task has paid for.
Stage(t) ==
    IF pc[t] = "page" THEN "fetching"
    ELSE IF pc[t] \in {"context", "waiting"} THEN "admitted" ELSE "outside"

Polite == INSTANCE PoliteFetch WITH
    KeyOf <- [t \in Tasks |-> Key(t)],
    Contexts <- Pool!Contexts,
    Unknown <- Robots!Unknown,
    NoContext <- Pool!NoContext,
    rules <- parsers,
    sold <- [k \in Keys |-> Len(grants[k])],
    stage <- [t \in Tasks |-> Stage(t)],
    using <- held

\* Whatever the locks, the waiters and the retries do in between, a fetch goes
\* by PoliteFetch: it pays a token for every attempt at its page, and does so
\* after the rules of the origin, which never change again, have let it.
FetchesPolitely == Polite!Spec

\* Every fetch ends: no task waits for ever for a lock, a token or a context,
\* although a context may be snatched from a task that was woken for it, and
\* the fetches of others fail anywhere.
EveryFetchEnds == \A t \in Tasks : <>(pc[t] = "done")

-----------------------------------------------------------------------------
(* What the documents say and the code does not do. *)

\* browser.py:3-6 and docs/adr/0003-two-fetch-strategies.md:23: both fetchers
\* sit behind the same per-domain rate limiter.  So what the two grant in one
\* domain at the same instant is within one burst.
SamePaceForBoth ==
    \A domain \in Netlocs :
        Len(SelectSeq(grants[<<"http", domain>>], LAMBDA age : age = 0))
          + Len(SelectSeq(grants[<<"browser", domain>>], LAMBDA age : age = 0)) <= Burst

=============================================================================
