----------------------------- MODULE Escalation -----------------------------
(***************************************************************************)
(* EscalatingFetcher (src/src/pipeline/fetchers/escalating.py) with the    *)
(* classifier it decides by (src/src/pipeline/fetchers/classifier.py): a   *)
(* page is fetched over http, and once more in a browser if what came back *)
(* is an empty page or a JS shell.  The two fetches are two calls of       *)
(* fetch_with_resilience on one breaker, as _build_fetcher wires them, and *)
(* the browser is launched when it is first needed.                        *)
(*                                                                         *)
(* Tasks are callers of one EscalatingFetcher for pages of one domain.     *)
(* run_site is a single one; the class does not rely on it.                *)
(***************************************************************************)
EXTENDS RetryPolicy, FiniteSets

CONSTANTS
    Tasks,
    FailMax,            \* of the shared breaker
    ResetTimeout

ASSUME EscalationAssumption ==
    /\ IsFiniteSet(Tasks)
    /\ FailMax \in Nat \ {0}
    /\ ResetTimeout \in Nat

VARIABLES
    entry, call, fetching, up, late,    \* the breaker and its callers
    pc,                 \* pc[t]: where task t is in fetch
    page,               \* page[t]: the response it escalates for
    browser,            \* _browser_fetcher: the launch it came from, or None
    launched,           \* how many browsers the provider has launched
    failed              \* auxiliary: whether an http fetch has failed

guarded == <<entry, call, fetching, up, late>>
launcher == <<browser, launched>>
vars == <<guarded, pc, page, launcher, failed>>

Calls == INSTANCE Resilience WITH Callers <- Tasks

None == 0

-----------------------------------------------------------------------------
(* The classifier: what it looks at in a response, in this order. *)

Pages == [ok : BOOLEAN,         \* a 2xx status
          html : BOOLEAN,       \* an html content type, or none
          marker : BOOLEAN,     \* a marker of a soft block in its visible text
          short : BOOLEAN]      \* less visible text than the minimum

NoPage == [ok |-> FALSE, html |-> FALSE, marker |-> FALSE, short |-> TRUE]

\* A slip: the length of the text is tested before the markers.
ClassifyByLength(p) ==
    CASE ~p.ok \/ ~p.html -> "ok"
      [] p.ok /\ p.html /\ p.short -> "empty_or_js_shell"
      [] p.ok /\ p.html /\ ~p.short /\ p.marker -> "soft_block"
      [] OTHER -> "ok"

ClassifyResponse(p) ==
    CASE ~p.ok \/ ~p.html -> "ok"
      [] p.ok /\ p.html /\ p.marker -> "soft_block"
      [] p.ok /\ p.html /\ ~p.marker /\ p.short -> "empty_or_js_shell"
      [] OTHER -> "ok"

IsShell(p) == ClassifyResponse(p) = "empty_or_js_shell"

-----------------------------------------------------------------------------
(* The steps of a task. *)

Launching == {t \in Tasks : pc[t] = "launching"}

Init ==
    /\ Calls!Init
    /\ pc = [t \in Tasks |-> "idle"]
    /\ page = [t \in Tasks |-> NoPage]
    /\ browser = None /\ launched = 0
    /\ failed = FALSE

Goto(t, next) == pc' = [pc EXCEPT ![t] = next]

\* A fetch that a breaker lets through or skips with CircuitOpenError.
Ask(t, now, next) ==
    /\ pc[t] = now
    /\ Calls!Fetch(t)
    /\ Goto(t, IF call'.answer THEN "idle" ELSE next)
    /\ UNCHANGED <<launcher, failed>>

AskHttp(t) == Ask(t, "idle", "http") /\ UNCHANGED page

\* The http fetch failed: an error that survived its retries, raised or as a
\* response that is not 2xx and so never classified.
HttpFails(t) ==
    /\ pc[t] = "http"
    /\ \E class \in Calls!Failures : Calls!Report(t, class)
    /\ Goto(t, "idle")
    /\ failed' = TRUE
    /\ UNCHANGED <<page, launcher>>

\* Any other response, which the breaker takes for a success, is returned
\* unless it is a shell.
HttpAnswers(t, p) ==
    /\ pc[t] = "http"
    /\ ~IsShell(p)
    /\ Calls!Report(t, "not_retryable")
    /\ Goto(t, "idle")
    /\ UNCHANGED <<page, launcher, failed>>

\* A slip: a shell is no success, so it is not reported.
HttpShellUnreported(t, p) ==
    /\ pc[t] = "http"
    /\ IsShell(p)
    /\ Calls!Escape(t)
    /\ Goto(t, IF browser = None THEN "launching" ELSE "escalated")
    /\ page' = [page EXCEPT ![t] = p]
    /\ UNCHANGED <<launcher, failed>>

\* The task looks the browser fetcher up at once, and launches one if there
\* is none; another task may be doing so already.
HttpShell(t, p) ==
    /\ pc[t] = "http"
    /\ IsShell(p)
    /\ Calls!Report(t, "not_retryable")
    /\ Goto(t, IF browser = None THEN "launching" ELSE "escalated")
    /\ page' = [page EXCEPT ![t] = p]
    /\ UNCHANGED <<launcher, failed>>

\* A slip: the launched browser is used and not kept.
LaunchUnkept(t) ==
    /\ pc[t] = "launching"
    /\ launched' = launched + 1
    /\ Goto(t, "escalated")
    /\ UNCHANGED <<guarded, page, browser, failed>>

\* _get_browser_fetcher: the last launch to finish is the one that is kept.
Launch(t) ==
    /\ pc[t] = "launching"
    /\ launched' = launched + 1
    /\ browser' = launched'
    /\ Goto(t, "escalated")
    /\ UNCHANGED <<guarded, page, failed>>

LaunchFails(t) ==
    /\ pc[t] = "launching"
    /\ Goto(t, "idle")
    /\ page' = [page EXCEPT ![t] = NoPage]
    /\ UNCHANGED <<guarded, launcher, failed>>

\* There is no await before the browser fetcher asks the breaker: that this
\* is a step of its own only adds interleavings.
AskBrowser(t) ==
    /\ Ask(t, "escalated", "browser")
    /\ page' = [page EXCEPT ![t] = IF call'.answer THEN NoPage ELSE @]

\* The browser's response is returned unclassified, its failure raised.
BrowserAnswers(t) ==
    /\ pc[t] = "browser"
    /\ \E class \in Classes : Calls!Report(t, class)
    /\ Goto(t, "idle")
    /\ page' = [page EXCEPT ![t] = NoPage]
    /\ UNCHANGED <<launcher, failed>>

\* robots.txt, or an exception that is neither retried nor reported.
Raises(t) ==
    /\ pc[t] \in {"http", "browser"}
    /\ Calls!Escape(t)
    /\ Goto(t, "idle")
    /\ page' = [page EXCEPT ![t] = NoPage]
    /\ UNCHANGED <<launcher, failed>>

Tick == Calls!Tick /\ UNCHANGED <<pc, page, launcher, failed>>

Repair == Calls!Repair /\ UNCHANGED <<pc, page, launcher, failed>>

HttpEnds(t) == HttpFails(t) \/ \E p \in Pages : HttpAnswers(t, p) \/ HttpShell(t, p)

Next ==
    \/ \E t \in Tasks : \/ AskHttp(t) \/ HttpEnds(t) \/ Raises(t)
                       \/ Launch(t) \/ LaunchFails(t)
                       \/ AskBrowser(t) \/ BrowserAnswers(t)
    \/ Tick
    \/ Repair

Spec == Init /\ [][Next]_vars

\* Time passes, tasks keep fetching, and their fetches end in an answer now
\* and then, rather than in a robots.txt that forbids it each time.
FairSpec ==
    /\ Spec
    /\ WF_vars(Tick)
    /\ \A t \in Tasks : /\ WF_vars(AskHttp(t) \/ AskBrowser(t))
                        /\ WF_vars(Launch(t) \/ LaunchFails(t))
                        /\ SF_vars(HttpEnds(t))
                        /\ SF_vars(BrowserAnswers(t))

-----------------------------------------------------------------------------
(* Properties. *)

\* Types of the state; the breaker's own, and that exactly the tasks that
\* await a fetch are callers of the breaker.
TypeOK ==
    /\ Calls!TypeOK
    /\ pc \in [Tasks -> {"idle", "http", "launching", "escalated", "browser"}]
    /\ fetching = {t \in Tasks : pc[t] \in {"http", "browser"}}
    /\ page \in [Tasks -> Pages]
    /\ launched \in Nat /\ browser \in 0..launched
    /\ failed \in BOOLEAN

\* A browser costs much.  Tasks that escalate before the first launch is over
\* launch one each, but none begins a launch once a browser is there, whatever
\* launches fail in between: there are never more browsers, launched and under
\* way, than tasks, and so one for run_site, which fetches page after page.
BrowsersAreFew == launched + Cardinality(Launching) <= Cardinality(Tasks)

\* No task that uses a browser fetcher finds it missing, and none uses one
\* for a soft block, an error page or a file: those are to stay on http.
EscalatesShellsOnly ==
    \A t \in Tasks : pc[t] \in {"launching", "escalated", "browser"} =>
        /\ pc[t] # "launching" => browser # None
        /\ page[t].ok /\ page[t].html /\ page[t].short /\ ~page[t].marker

\* The shell is a success of http to the breaker they share: as long as http
\* answers, a browser that fails every time never opens it, if fewer tasks
\* than fail_max share it.
BrowserFailuresNeverTrip ==
    ~failed /\ Cardinality(Tasks) < FailMax => Calls!State = "closed"

\* An open domain is tried again, through http or a browser.
NeverSkippedForEver == Calls!NeverSkippedForEver

\* Whichever fetcher they are of, only failures from before the server
\* recovered set the breaker back, lengthen its streak or renew its cooldown.
OnlyLateFailuresSetBack == Calls!OnlyLateFailuresSetBack

\* Once the server answers both fetchers well, the breaker closes for good.
Recovers == Calls!Recovers

-----------------------------------------------------------------------------
(* What the documents say and the code does not do. *)

\* escalating.py:27: the provider "is only ever called on the *first* actual
\* escalation", for which one browser is launched.
LaunchedOnce == launched <= 1

=============================================================================
