# TLA+ models of the scraping pipeline

Specifications of the pipeline's core logic, model-checked with TLC and, where
it matters most, proved with TLAPS. Paths are relative to the repository; `P/`
abbreviates `src/src/pipeline/`.

## 1. Inventory

The pipeline is one asyncio program. `python -m pipeline run --site <id>`
(`P/__main__.py`) calls `run_site` once and exits. One process crawls one site,
page after page, in one task; the only others it makes are those that capture
XHR bodies (`browser.py:164`), which are awaited by the fetch that made them.
Concurrency comes from *several processes* (two runs started by a scheduler or by hand share the
object store's directory and the sqlite file), and is *permitted* by the
fetcher layer, whose objects are written to be shared by concurrent tasks.

| Component | State it keeps | Operations | Interacts with |
|---|---|---|---|
| Orchestrator (`P/orchestrator/run.py`) | the locals of one run: identity, date, parsed records, deduped records, quarantined items, gate | `run_site`: crawl, dedupe, evaluate, persist staging / curated / quarantine / report, save manifest | scraper, fetchers, both stores, DQ engine |
| Local backend (`P/backends/local.py`) | files under one root; sqlite tables `dedupe`, `runs`, `site_state` | `put`, `get`, `exists`, `list`; `seen`, `mark_seen`, `save_run`, `get_site_state`, `put_site_state` | called by every run; shared between processes |
| Retry (`P/fetchers/retry.py`) | one call's attempt counter, last result, last exception | `fetch_with_retry`, `classify`, `parse_retry_after` | wraps one transport attempt of either fetcher |
| Circuit breaker (`P/fetchers/circuit_breaker.py`) | per domain: state, consecutive failures, `opened_at` | `is_open`, `record_success`, `record_failure` | one instance per run, shared by http and browser fetcher |
| Resilience (`P/fetchers/resilience.py`) | none | `fetch_with_resilience` | breaker before and after the retry loop |
| DQ engine (`P/quality/dq_engine.py`) | none | `evaluate`: four scores, four statuses, one gate | called once by a run on its deduped batch |
| Rate limiter (`P/fetchers/rate_limiter.py`) | per domain: tokens, time of last refill, a lock | `acquire` | one limiter in each fetcher |
| Robots checker (`P/fetchers/robots.py`) | per origin: the parsed rules; a lock | `is_allowed`, `crawl_delay` | one instance per run |
| Browser fetcher, context pool (`P/fetchers/browser.py`) | idle contexts, number created, a lock | `acquire`, `release`, `close`, `fetch` | Playwright |
| Escalating fetcher, classifier (`P/fetchers/escalating.py`, `classifier.py`) | the lazily made browser fetcher, two counters | `fetch` | http fetcher, then browser fetcher |
| Http fetcher (`P/fetchers/http.py`) | none of its own | `fetch` | robots, limiter, httpx, resilience |
| Scrapers (`P/scrapers/*`, `P/core/scraper.py`) | `quarantined` | `discover`, `parse` | called by the run |
| Models, normalizers, settings, sites (`P/core/*`) | none | declarations and pure conversions | all |
| Command line (`P/__main__.py`) | none | parse arguments, run one site | orchestrator |

`alerting/`, `proxy/`, `infra/`, the AWS and the "free" backend are empty at
this commit.

### What is hard here

* **Two runs overlap.** `seen` and `mark_seen` are separate transactions
  (`run.py:262`, `:264`), and `put` truncates before it writes (`local.py:48`).
* **A run stops anywhere.** `run_site` catches nothing. Raw pages, dedupe rows,
  parts, reports and the manifest are written one after the other, with no
  transaction around them and no recovery at the next start.
* **The TTL.** A dedupe row expires at an instant and is renewed by the next
  mark; whether a hash passes depends on runs long ended.
* **One loop, three budgets.** The retry loop counts attempts once for all error
  classes and keeps two "last" variables over its iterations.
* **A breaker around an await.** What `is_open` said need not be true when the
  result is recorded; answers of different calls arrive in any order.
* **Queues in front of one page.** An attempt waits for the robots cache, for a
  token and for a browser context; any of them may fail, and a released context
  may be snatched from the waiter that was woken for it.
* **One breaker, two fetchers.** A page that http answers with a JS shell is a
  success to the breaker, and the browser fetch that follows a call of its own;
  the browser is looked up before an await and stored after it.
* **Thresholds.** Fractions compared with decimal thresholds that small batches
  meet exactly (19/20 = 0.95), and items that never reach the scores.

`PROJECT.json` lists these as hazards, each at its line, with the properties
that would notice it going wrong, or the reason why none covers it.

### What makes each component correct

* Orchestrator and stores: the manifest is a commit record; nothing reaches the
  curated zone around the gate; a hash passes once per TTL, and what does not
  pass was let through by a run that can show it or has failed; a part written under a run's own key stays as
  it is; an abandoned crawl consumes nothing; a dedupe row is answered for by a
  run; what was rejected is kept, but for runs of one day and for runs that fail;
  exit code 0 means published; a run comes nearer to its end with each step. To readers, the zones are write-once registers filled in a fixed order.
* Retry: returns or raises its *latest* answer; at most so many attempts and so
  much sleep; ends.
* Breaker: skips a domain exactly as FR-10 promises, in any order of calls.
* Resilience: an open domain is tried again; after the server recovers, the
  breaker closes for good, and only a late failure sets back its state, its streak
  or its cooldown.
* DQ engine: what a published batch guarantees of its records, in general and of
  each scraper; a good record never makes the gate worse.
* Rate limiter: never more than `burst + rate * t` grants in any stretch `t`;
  every waiter is served.
* Robots: nothing is fetched that robots.txt does not permit; it is read once per
  origin.
* Both fetchers: every attempt at a page pays a token of its own, after the rules
  of its origin have allowed it.
* Context pool: at most `size` contexts, each used by one fetch at a time, none
  lost; every waiter is served.
* Escalation: no more browsers than tasks, launched for shells only; a browser that fails does
  not make the breaker skip a domain that answers http.
* Scrapers: a required or a scored field that disappears from every item does not
  go unnoticed.

## 2. Modules

| Module | Models | Extends / instantiates |
|---|---|---|
| `RunSite` | `run_site` over the local object store and state store | |
| `MCRunSite` | instances: which runs, sites, pages | `RunSite` |
| `Publication` | abstract specification: write-once registers | |
| `RunSiteProofs` | seven theorems about the zones and the progress of a run | `RunSite` |
| `RunSiteDedupeProofs` | five theorems about dedupe and exit code | `RunSiteProofs` |
| `PublicationProofs` | `RunSite` implements `Publication` | `RunSiteProofs` |
| `RetryPolicy` | pure part of the retry: classes, budgets, waits | |
| `Retry` | `fetch_with_retry` | `RetryPolicy` |
| `MCRetry` | the answers TLC tries | `Retry` |
| `RetryProofs` | five theorems | `Retry` |
| `BreakerPromise` | abstract specification: what FR-10 promises | |
| `CircuitBreaker` | `DomainCircuitBreaker` | instantiates `BreakerPromise` |
| `CircuitBreakerProofs` | type correctness and refinement | `CircuitBreaker` |
| `Resilience` | `fetch_with_resilience`, several callers | instantiates `CircuitBreaker`, extends `RetryPolicy` |
| `Escalation` | `EscalatingFetcher.fetch`, the classifier, the launch of the browser | instantiates `Resilience` |
| `EscalationProofs` | eight theorems | `Escalation`, instantiates `CircuitBreakerProofs` |
| `RobotsChecker` | the cache of rules and its lock | |
| `RateLimiter` | `RateLimiter`, `TokenBucket` | |
| `ContextPool` | `_ContextPool` and its queue | |
| `PoliteFetch` | abstract specification: what the fetchers promise the sites | |
| `FetchOnce` | `_fetch_once` of both fetchers, several tasks | instantiates the four above |
| `MCFetchOnce` | one site under two schemes, which task is in which, what robots.txt says | `FetchOnce` |
| `FetchOnceProofs` | six theorems | `FetchOnce` |
| `DqEngine` | `evaluate` on a growing batch | |
| `Scrapers` | what each scraper makes of an item | |
| `SiteBatch` | a crawl of one site up to its gate | `DqEngine`, `Scrapers` |
| `MCSiteBatch` | kinds of records, a bound | `SiteBatch` |
| `DqEngineProofs` | eight theorems | `SiteBatch` |

Definitions whose comment starts with "A slip" are plausible wrong versions of
the definition that follows them. No specification uses them; each shows, when
put in the place of its neighbour, that some property notices the difference.

### RunSite

`run[r]` holds the locals of one call of `run_site`; `pc` is the await it is
at. `objects` is the directory tree, `dedupe` and `manifests` are the sqlite
tables, `today` is the UTC date. One action is what happens between two awaits:

| Action | Code |
|---|---|
| `Start` | run id and `run_date` are made once (`run.py:90-104`) |
| `PersistRaw`, `Parse` | the loop of `_fetch_and_parse` (`:171-190`); a page with neither a record nor a rejected item raises `ParsingError`, which is `Abort` |
| `DropSeen`, `FindUnseen`, `MarkSeen` | `_dedupe` (`:256-266`): `seen` and `mark_seen` are separate transactions, so other runs may act in between |
| `Evaluate` | `evaluate`; an empty batch fails, any other gate is a choice, which `DqEngine` details |
| `PersistStaging`, `PersistCurated`, `PersistQuarantine`, `PersistReport` | each a `put`: two steps, open-and-truncate, then write |
| `SaveRun` | `INSERT OR REPLACE` into `runs` |
| `Abort` | any exception, or the death of the process, at any await, also between truncate and write |
| `NewDay` | the clock |

A record is its content hash. A file is torn (truncated, not yet written),
whole, or mixed (two writers whose bytes interleave). `deduped` entries carry
the day they were marked; `crawled` (what the pages held) and `prior` (runs
that had ended when this one began) are history. `ExitCode` is what `main`
returns for the call. Keys are built as
in the code: raw, staging, curated and report keys name the run, the quarantine
key names only site and day, the latest report has one key for all.

`Publication` says the same without runs, awaits or torn files: five registers
(staged, curated, reported, committed, latest), each part of the first four
written once. The refinement mapping reads them off the store: a part is in its
register when its file is whole.

Not modelled here: `get`, `exists`, `list`, `get_site_state`, `put_site_state`
(no caller in `src/`), the wording of the report, the metadata fields of the
manifest, and time of day: the code compares datetimes, the model days.

### RetryPolicy and Retry

`RetryPolicy` holds `classify`, the attempt table, `Retry-After` and the
backoff, in milliseconds. The jitter is uniform over an interval; the model
takes either end of it. A header is ignored (`none`), a delay, a date, or one
that `parse_retry_after` raises on (`raises`): a digit that `isdigit` accepts and
`float` does not (`retry.py:81`), or a date out of range (`:84`). `Retry` is the
loop: `Attempt` (counter is advanced, the transport is called), `Answered` (answer
is recorded, classified, and ends the loop or is slept on in `Pause`, where that
exception leaves the call), `Escape` (any other exception of the attempt), `Wake`.
`log`, `waits` and their sum `slept` are history.

### CircuitBreaker, BreakerPromise, Resilience, Escalation

`CircuitBreaker` has the code's entry per domain. Instants became ages: how long
ago `opened_at` was, counted up to `ResetTimeout`; the streak is counted up to
`FailMax`. Neither is compared with anything beyond. `call` records the latest
call and its answer, with a turn that alternates so that two equal calls are two
steps.

`BreakerPromise` has no states: a streak, a cooldown that a failure at or after
the `FailMax`-th sets to its full length, and a call. `is_open` must answer
`cooldown > 0`. The refinement mapping forgets the difference between open and
half-open: the cooldown is what remains of `ResetTimeout`. It does not promise
that "one trial attempt is allowed through" (`circuit_breaker.py:54`): asking does
not consume the trial, so any number of calls pass until one of them reports.

`Resilience` puts callers around the breaker. Between `Fetch` (asks `is_open`)
and `Report` (records the outcome) lies the retry loop, represented by its
outcome. `up` says the server has recovered, `late` which callers were already
under way when it did. `Escape` is an exception that reports nothing: one that is
no fetch error, or one of the retry loop's own sleep.

`Escalation` walks each task through one `fetch`: `AskHttp`, then `HttpFails`,
`HttpAnswers` or `HttpShell`; after a shell `Launch` or `LaunchFails` if there
is no browser yet, `AskBrowser`, `BrowserAnswers`; `Raises` is the exception
that goes past the breaker. The two fetches are two calls of `Resilience` on
one breaker, as `_build_fetcher` wires them. A response is what the classifier
looks at (a 2xx status, html, a marker, little text), and `ClassifyResponse`
its three tests in their order. A 4xx or 5xx that survived its retries is no
exception: it is a response, is classified `ok` and returned, and the scraper
turns it into a `ParsingError`.

`run_site` has one task, and the first fetch that raises or answers with an
error ends the run; as the breaker is made anew by each run, it never opens
there. What two tasks explore is the class's own design, fetchers that take
concurrent calls. That browser failures never trip the breaker while http answers
(`BrowserFailuresNeverTrip`) is what the shared breaker does; `resilience.py:3-5`,
"not whether the pipeline's retry and circuit-breaking guarantees apply", could be
read to want a browser that always fails to be skipped.

### RobotsChecker, RateLimiter, ContextPool, FetchOnce, PoliteFetch

The three components are modules of operators over their own variables;
`FetchOnce` instantiates them and walks each task through one attempt:
`Start` / `IsAllowed` (robots.txt), `CrawlDelay` (robots.txt again),
`AskLimiter` / `Paced` (a token), `AskPool` / `GetContext` (a context, browser
tasks only), `Page` (navigation; releases the context whatever happens, and is
retried up to `MaxAttempts`). `RobotsEscape` and `NoNewContext` are the
exceptions that no `except` in the fetchers catches.

* Locks are `asyncio.Lock`: first come, first served, no overtaking; a sequence
  whose head is the holder. The robots lock is held over the request for
  robots.txt, a bucket's lock over its sleep, the pool's lock over `new_context`.
* `_available` is an `asyncio.Queue`: `Release` appends the context and moves the
  first of `getters` to `woken`; until that task runs (`Resume`) the context can
  be taken by another, and then it waits again at the end of the queue.
* Buckets are refilled when looked at. Time is an integer, a token has `Unit`
  parts; how long ago a bucket was refilled, and each token taken, is counted up
  to `Horizon`.
* An answer to robots.txt is its status; the grammar is reduced to which tasks'
  urls are allowed and whether there is a Crawl-delay below the configured rate.
* Where an await need not suspend (rules already cached, lock free), the steps
  still are separate, so the model has more orders of steps than the event loop.
* Rules belong to an origin, scheme and netloc (`robots.py:66-68`), buckets to a
  netloc alone (`http.py:67`, `browser.py:131`): `NetlocOf` says which origins
  share a bucket. No registered scraper mixes schemes; the instance does, so that
  two rates are asked of one bucket.
* `Burst` may be 0: `RateLimitConfig` does not forbid it, though every scraper
  declares at least 1. A bucket then never holds a token.
* `close`, `aclose`, `last_xhr_responses` and scrolling are left out: nothing in
  `src/` calls or reads the first three, the last only takes time.

`PoliteFetch` has no locks, buckets or queues: the rules of an origin are learnt
once (`Learn`), a page is paid for with a token after they have allowed it
(`Admit`), a browser page borrows a context that nobody else has (`Borrow`), and
whoever leaves pays again before the next page (`Leave`). The refinement mapping
reads the rules off the cache, the tokens sold off the grants, the stage off the
`pc` and the contexts off the pool.

### DqEngine, Scrapers, SiteBatch

The batch is the sums from which the scores are computed, and grows by one
record per step, so that every reachable state is a batch the engine could be
given. Scores are compared with thresholds by cross-multiplication; the code's
floats give the same comparisons (completeness scores are quarters and halves,
which add exactly; IEEE division is correctly rounded, and agreement was
confirmed numerically for batches up to 3000 records). `rejected` counts the
quarantined items, which `evaluate` never sees.

`Scrapers` says for each of the four scrapers (the two of quotes share their
parser) when an item becomes a record, when it is quarantined and when an
exception leaves `parse`, from how everything it looks for is found: absent, blank
or there, for a price whether the normalizers can read it, for a link or an image
whether `urljoin` and pydantic accept it. A record is what the
engine can tell of it; a completeness score is counted in quarters. `SiteBatch`
crawls: item after item is yielded into the batch, dropped by the dedupe (a
choice, as in `RunSite`), quarantined, or ends the crawl (`RaiseAtItem`,
`RaiseAtPage`). The site `"other"` stands for a scraper still to be written, of
which only the kinds of records are known. `lacking` is history: what was missing
from every item so far, of the fields that a requirement or a score guards
(`Guarded`). `Unguarded` are rating, image and tags, which become attributes that
no check looks at; and a link or an availability that is blank does not count as
missing, because the code makes the page's own url of the one (`normalize.py:30`)
and takes the other for there.

## 3. Runs

Passing runs. State counts are TLC's distinct states.

| Run | Instance | Shows |
|---|---|---|
| `Overlap` (2 551 862) | two runs of one site, one page of up to two records, two hashes, TTL 1 day, two days, symmetry over runs and hashes | types; `ManifestIsCommitRecord`, `CuratedWasGated`, `NoRepublishWithinTtl`, `NothingDroppedUnseen`, `SeenIsAccountedFor`, `LatestReportTraceable`, `ExitZeroMeansPublished`, `PublishedIsImmutable` |
| `Crawl` (278 487) | two sites, two pages each, one hash, with fairness | `MarkedOnlyAfterWholeCrawl`, `RejectsAreAccountedFor`, `Publishes` (the refinement), `EachStepNearsTheEnd`, `EveryStartedRunEnds` |
| `Retry` (10 110) | 16 answers: both sides of each boundary of `classify` and of the clamp of `Retry-After`, and headers that are ignored or raise | types, `EndsWithLatestAnswer`, `AttemptsAreBounded`, `WaitsAreBounded`, `Terminates` |
| `Breaker` (452) | two domains, `fail_max` 3, cooldown 3 | types, `KeepsPromise` |
| `Escalation` (2 762) | two tasks, `fail_max` 3, cooldown 2, with fairness | types, `BrowsersAreFew`, `EscalatesShellsOnly`, `BrowserFailuresNeverTrip`, `OnlyLateFailuresSetBack`, `NeverSkippedForEver`, `Recovers` |
| `Attempts` (154 551) | one site under two schemes, https with a Crawl-delay, http without: a browser task in each, one context; an http task whose url https forbids; burst 1, two attempts each; with fairness | types, `RobotsRespected`, `PaceIsKept`, `ContextsAreExclusive`, `FetchesPolitely` (the refinement), `EveryFetchEnds` |
| `Gate` (56 548) | crawls of each site and of any other; batches to 60 records with up to five lost points | types, `PublishedIsMostlyFlawless`, `SmallBatchesAreStrict`, `PublishedBySite`, `SystematicChangeIsNoticed`, `GoodRecordNeverHurts` |

Why the bounds are enough to be interesting:

* *Overlap*: two runs and two days give every case of overlap, of one run after
  another within the TTL and after it, of the same key being written by both;
  two records per page give a duplicate within a batch. There is no cap on the
  number of records but `MaxPerPage`, and calendar days end at `LastDay`.
* *Crawl*: two pages are the least that make "a crawl abandoned half way"
  differ from "no crawl"; two sites keep the rows of one from being taken for
  the other's.
* *Retry*: no bound at all on the loop: its own budgets end it after four
  attempts, and every mix of the 16 answers is tried.
* *Breaker*: nothing is bounded; the two counters saturate where the code stops
  telling values apart. Two domains, so that mixing them up would show.
* *Escalation*: two tasks can launch two browsers at once, one of which is lost;
  `FailMax` is one more than the tasks, the least for which
  `BrowserFailuresNeverTrip` is promised, and http failures can still open the
  breaker. Launches need no bound: whoever finds a browser launches none, and a
  launch that fails leaves none.
* *Attempts*: with one context and a retry there is always a task that waits while
  another comes back for the context (the steal happens in this instance); the two
  browser tasks share a bucket and bring it different rates, either of them first; a
  burst of 1 makes the second fetch of a domain wait; a `Horizon` of 2 is what an
  empty bucket needs to fill at the slow rate, and so what a violation of the
  pace by one token fits into.
* *Gate*: 60 is above each of the sizes (20, 25, 50) at which the tolerance
  for one defect changes. `FewDefects` prunes batches with more than five lost
  points, most of which fail anyway: five points reach the fail threshold of every dimension but completeness, which five
  lost quarters keep above it from 25 records on; there the gate is explored down
  to a warning only, and that it holds beyond is proved. Small batches (up to three)
  are not pruned, so that a layout change shows in full; that it shows in larger
  ones is proved, too.

Runs that TLC must find violated: places where the repository's documents say
something the code does not do.

| Run | What the documents say | What the run shows |
|---|---|---|
| `Quarantine` | `P/core/models.py:131`: a rejected record is written to `rejected.jsonl`, "never silently dropped" | the key names site and day only (`run.py:298`): a second run on that day replaces the file |
| `Discarded` | ADR 0005, line 19: "No record is ever discarded outright" | records are marked while the batch is deduped (`run.py:264`): a run that then fails loses them until the TTL is over |
| `OneLaunch` | `P/fetchers/escalating.py:27`: the provider "is only ever called on the *first* actual escalation" | the browser fetcher is tested for before an await and stored after it (`escalating.py:62`): two tasks launch two browsers. The test "is invoked at most once" (`src/tests/unit/test_escalating_fetcher.py:103`) fetches one page after another, as `run_site` does |
| `GateQuarantine` | ADR 0005, line 19: scores come "from the ratio of staged-vs-quarantined records" | a batch passes with as many items in quarantine as in it |
| `SharedPace` | `P/fetchers/browser.py:3`: "behind the exact same per-domain rate limiter"; ADR 0003, line 23 | each fetcher has its own (`browser.py:102`, `http.py:38`): one domain grants two tokens at an instant with a burst of one |

What these runs show is bounded by properties that do hold.
`RejectsAreAccountedFor`: a rejected item is lost only to a run of the same site
and day, or with a run that failed before it came to its report.
`SeenIsAccountedFor` and `NothingDroppedUnseen`: a row of the dedupe table, and a
record that was dropped, stands for one that is published, staged for a failed
gate or in the memory of a run, or that a failed run let through; the last is what
`Discarded` shows to be lost. `BrowsersAreFew` and `OneBrowser`: no more browsers
than tasks, so one for the one task of a run.

Also met while modelling, and not given a run:

* The dedupe cannot tell a second equal record of one batch from a record of an
  earlier run (`run.py:262`), though its docstring says "in a prior run" and ADR
  0005, line 6, counts a duplicate within the same run among the records to
  quarantine: it is dropped. `NothingDroppedUnseen` says that some run, this one or
  one before it, let a copy through.
* A re-run of an unchanged site within the TTL has an empty batch and fails its
  gate. It has missed nothing that an earlier run took on, but if that run failed,
  what it took on may be lost.
* `seen` looks up a hash whatever its site (`local.py:135`), as its docstring says
  (`base.py:46`), while `mark_seen` records a hash "for `site_id`" (`base.py:50`):
  of two sites with the same content, one loses its records to the other.
* A record that fails the pandera schema stays in its batch and is published with
  it (`dq_engine.py:171`), though ADR 0005, line 16, sends it to quarantine.
* A listing whose link is no http url ends the run with pydantic's own exception
  (`books_sandbox.py:130`), one whose link or image `urljoin` refuses with a
  `ValueError` (`:103`, `:122`), where the docstring (`:61`) promises a quarantined
  item.
* A rating, an image, the tags of a quote may vanish from every item without a
  sign; a blank link becomes the page's own url and a blank availability counts as
  complete (`books_sandbox.py:103`, `:124`).
* One counter serves the three retry budgets, so a class that comes late does not
  get "its own attempt budget" (`retry.py:9-12`); `AttemptsAreBounded` is a bound
  from above.
* A `Retry-After` that `parse_retry_after` raises on goes past the retry loop, the
  fetchers and the breaker, where its docstring (`retry.py:74`) has it return `None`.
* While a breaker is half-open, any number of calls pass (`circuit_breaker.py:54`
  speaks of one).
* A bucket keeps the rate of its first caller (`rate_limiter.py:69`), so of two
  schemes of one netloc the stricter Crawl-delay may not be kept.

## 4. Fairness

* `RunSite`: weak fairness of `Step(r)`. Each await of a run ends: retries and
  sleeps are bounded (`Retry`), sqlite gives up on a locked database, file
  operations return. That a fetch ends is in part an assumption: httpx's timeout of
  30 s is one of each read, so a server that trickles its answer could hold a run
  for ever, and of Playwright's awaits only `goto` and the waits of scrolling are
  given one, while `new_context`, `new_page`, `content`, `evaluate` and the
  `response.body` of a captured XHR are not. `Start`, `Abort` and `NewDay` are never
  forced.
* `Retry`: weak fairness of `Next`: a sleep ends, and so does an attempt, under the
  same assumption.
* `FetchOnce`: time passes, and each task's current step is taken: locks are first
  come first served; pages, contexts and robots.txt come or fail, under the same
  assumption. Waiting for a context
  is *not* first come first served; `EveryFetchEnds` holds because each task
  fetches finitely often. With a never-ending stream of newcomers a waiter could
  be overtaken for ever.
* `Escalation`: weak fairness of time, of each task's next fetch (tasks keep
  fetching) and of the end of a launch; strong fairness that each task's http
  fetches, and its browser fetches, end in an answer again and again. The last is
  an assumption about the caller: a fetch that always raises something else
  (robots.txt forbids it each time) reports nothing to the breaker, which would
  then stay half-open.

## 5. What is proved

Every invariant of a passing run, every action property and the three
refinements, for every value of the constants, under the assumptions the modules
state (`ConstantsAssumption`, `BreakerAssumption`, `EscalationAssumption`,
`AnswersAssumption`, `RecordsAssumption`, `ScrapersAssumption`,
`FetchAssumption`); TLC evaluates these in every run that extends their module.

* **RunSiteProofs.** `TypeCorrect`, `CuratedIsGated`, `ManifestCommits`,
  `LatestIsTraceable`, `PublishedStays`, for any number of runs, sites, pages
  and hashes. None of the properties is inductive: each speaks of finished
  files, while a put has a state in between and a run may fail in it. `IInv`
  says, for each zone, what exists at each `pc`: before its phase, nothing under
  the run's key; in it, nothing or a torn file according to `open`; after it,
  the whole part; and what a failed run may have left. `StepFrame` says that a
  step of one run touches only the keys of that run, the quarantine file of its
  day and the latest report; with it the proof is one lemma per action and a
  frame lemma for the other runs. `RejectsAreKept` needs one more invariant, as
  the quarantine file is shared: a run opens, writes and leaves a file that holds
  its items, unless another run of its site and day has rejected something, too,
  and a run that is past that file without having written it failed before its
  report. `RunsWindDown`:
  `StepsLeft`, a weight of the pages, records and phases to come, falls with each
  step of a run and is left alone by the steps of the others.
* **RunSiteDedupeProofs.** `OncePerTtl`, `DroppedWasSeen`, `MarkedAfterCrawl`,
  `SeenIsKept`, `ExitZeroIsTrue`. `DedupeInvariant` relates records, rows
  and runs: a row is at least as young as every record marked with its hash, and
  stems from one of them; a run that has found a hash unseen knows its own and
  all earlier marks of it to be a TTL old; and what a run found is still to be
  looked up, or some run let it through less than a TTL before this one began.
  `BatchesAreFound` adds that a run that let something through has its batch in
  memory, published, or staged for a failed gate, or failed.
* **PublicationProofs.** `Refines`: `RunSite` implements `Publication`. Each
  action is a first write of one register, a rewrite of the latest report, or a
  stutter; `IInv` supplies that a key in its phase was not whole before, and that
  what stands behind it is.
* **RetryProofs.** `LatestAnswer`, `BoundedAttempts`, `BoundedWaits`,
  `TypeCorrect`, `RetryWindsDown`, for any set of answers. The invariant ties the
  counter to the length of the log and says that every answer but the last allowed
  another attempt; for the waits, that `slept` is within a budget per retry: a minute, a
  minute and 1.2 seconds, as the third can only follow a timeout.
  `RetryWindsDown`: `StepsLeft`, a bound made of the attempts left, falls with
  every step, as the loop is at its top or asleep only while the counter leaves
  another attempt. TLC checks `Terminates` in its place.
* **CircuitBreakerProofs.** `TypeCorrect` (inductive as it stands; it says that
  an open entry has an `opened_at`, so the `assert` in `is_open` cannot fail) and
  `Implements`: the three-state breaker implements `BreakerPromise`, action by
  action, for any domains, `fail_max` and `reset_timeout`.
* **EscalationProofs.** `ImplementsBreaker`: tasks, fetchers and clock together
  are a behaviour of `CircuitBreaker`, so `SharedBreakerKeepsPromise` follows
  from `Implements` through an instance. `FewBrowsers` (launched browsers and
  launches under way together are never more than the tasks: once there is a
  browser no launch begins, so each task launches at most one with success),
  `ShellsOnly`, `TypeCorrect`, and
  `BrowserNeverTrips`: the streak is never longer than the number of tasks that
  are idle or on http, since a task that is on its way to the browser has just
  succeeded or come after a success. `OnlyLateSetBack`: with the server up, a
  report that is not late is a success, and of the breaker's steps only a failure
  leads away from closed, lengthens the streak or raises the cooldown. `OneBrowser`: a single task, which is what `run_site`
  has, launches one browser at most.
* **DqEngineProofs.** `MostlyFlawless` (68 % of any published batch is free of
  defects: 100 - 4*5 - 2 - 2*5), `StrictWhenSmall`, `GoodRecordHarmless`,
  `TypeCorrect`, for any kinds of records and any batch size. The invariant: each
  record that is not flawless costs the batch at least one point somewhere. They
  speak of `DqEngine`'s specification, which `CrawlImplementsEngine` carries over
  to crawls. `ChangeIsNoticed`: with a guarded field missing from every item, a batch of
  any size is empty or is short, record by record, of more than the gate allows.
  `GoodBySite` (75 % of the listings, 90 % of the articles and all of the quotes
  of a published batch of any size are flawless) counts what a defect costs each
  scraper: a flawed listing at least a quarter of completeness or its validity, a
  flawed article at least half its completeness, and a quote has no
  flawed form. `ScrapersYieldRecords`: what the scrapers make of items are
  records of the engine, consistent and fresh.
* **FetchOnceProofs.** `TypeCorrect`, `Respected` (the rules of an origin are what
  its one answer said, and every task beyond the check was let through by them),
  `Exclusive` (each context is idle, or held by the one task that fetches with
  it), `PaceRespected`: for each grant of a bucket, the tokens granted since, the
  tokens there and what will be gained at the next refill never exceed a full
  bucket and what was gained since that grant, at the bucket's rate, which an
  answered robots.txt of an origin of the netloc asks for. `FetchImplementsPolite`: the
  fetchers implement `PoliteFetch`, step by step, with `Exclusive` and what
  `Respected` rests on as the invariant. `NoBurstNoPage`: with a burst of 0,
  which `RateLimitConfig` accepts, no token is ever granted and no task reaches
  its page.

Only model-checked: the liveness properties, as TLAPS does not handle liveness
under fairness, and the five runs whose properties do not hold. Of three of the
former the half that is safety is proved: a run and a retry loop cannot take
steps for ever (`RunsWindDown`, `RetryWindsDown`), so that `EveryStartedRunEnds`
and `Terminates` add only that a step can be taken and is; and `Recovers` adds to
`OnlyLateSetBack` that the late answers do arrive and the breaker is asked again.
`NeverSkippedForEver` and `EveryFetchEnds` have no such half: they are about
tasks that wait for each other or for the clock.

## 6. Not modelled

* `P/quality/report.py`: a template; when it is written is in `RunSite`.
* `ObjectStore.get`, `exists`, `list`, `StateStore.get_site_state`,
  `put_site_state`, `BrowserFetcher.close`, `aclose`, `last_xhr_responses`,
  `health_check`, `normalize_datetime`, `SiteState`, `Alert`, `HealthStatus`:
  nothing in `src/` that runs calls or reads them, so there is no behaviour of
  the program to be faithful to.
* Settings, site registry, loading of a scraper's class, git lookup: read once at
  the start; what can go wrong there is `Abort`.
* Scrolling (`browser.py:200`): it decides how much a page holds, which is a
  choice everywhere.
* Selectors, text clean-up and hashing of the scrapers; the floats of the scores
  and the syntax of `Retry-After` (which headers are read, ignored or raised on):
  data, abstracted to the cases the control flow tells apart.
* The counters of `EscalatingFetcher`: only printed.
* Cancellation: nothing in `src/` cancels a task; the only tasks it makes capture
  XHR bodies, which nothing reads.

## 7. Running

    tlc -workers 2 -config RunSite_Overlap.cfg MCRunSite     # likewise the others
    tlapm RunSiteProofs.tla                                  # likewise the others

`PROJECT.json` names each run's module and configuration, the lines each
definition models, the wrong version that each property notices, and what each
theorem establishes.
