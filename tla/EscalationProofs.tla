-------------------------- MODULE EscalationProofs --------------------------
(***************************************************************************)
(* For any finite set of tasks, any fail_max and any reset_timeout: the    *)
(* composition of the two fetchers and their callers drives the breaker as *)
(* CircuitBreaker allows, so that everything proved of the breaker holds   *)
(* of it here; how many browsers are launched, and for which pages; and    *)
(* that a browser that fails cannot open the breaker while http answers.   *)
(***************************************************************************)
EXTENDS Escalation, FiniteSetTheorems, TLAPS

\* The breaker of the fetchers, with what is proved of it.
B == INSTANCE CircuitBreakerProofs WITH Domains <- Calls!Domains

-----------------------------------------------------------------------------
(* The breaker inside Resilience is that breaker. *)

LEMMA SameInit == Calls!Breaker!Init => B!Init
BY DEF Calls!Breaker!Init, B!Init, Calls!Breaker!Fresh, B!Fresh, Calls!Breaker!NoCall,
       B!NoCall, Calls!Breaker!Entry, B!Entry, Calls!Breaker!NotOpened, B!NotOpened

LEMMA SameType == Calls!Breaker!TypeOK <=> B!TypeOK
BY DEF Calls!Breaker!TypeOK, B!TypeOK, Calls!Breaker!ClosedEntry, B!ClosedEntry,
       Calls!Breaker!TrippedEntry, B!TrippedEntry, Calls!Breaker!Call, B!Call,
       Calls!Breaker!Elapsed, B!Elapsed, Calls!Breaker!Age, B!Age,
       Calls!Breaker!NotOpened, B!NotOpened

LEMMA SameSteps ==
    /\ Calls!Breaker!Tick => B!Tick
    /\ Calls!Breaker!IsOpen(Calls!domain) => B!IsOpen(Calls!domain)
    /\ Calls!Breaker!RecordSuccess(Calls!domain) => B!RecordSuccess(Calls!domain)
    /\ Calls!Breaker!RecordFailure(Calls!domain) => B!RecordFailure(Calls!domain)
BY DEF Calls!Breaker!Tick, B!Tick, Calls!Breaker!IsOpen, B!IsOpen,
       Calls!Breaker!RecordSuccess, B!RecordSuccess,
       Calls!Breaker!RecordFailure, B!RecordFailure, Calls!Breaker!Trips, B!Trips,
       Calls!Breaker!CountUp, B!CountUp, Calls!Breaker!Older, B!Older,
       Calls!Breaker!Called, B!Called, Calls!Breaker!Entry, B!Entry,
       Calls!Breaker!Fresh, B!Fresh, Calls!Breaker!Failures, B!Failures,
       Calls!Breaker!Elapsed, B!Elapsed, Calls!Breaker!Age, B!Age,
       Calls!Breaker!NotOpened, B!NotOpened

\* What a step of a task or of the clock does to the breaker.
Untouched == UNCHANGED <<entry, call>>

LEMMA BreakerStep ==
    ASSUME [Next]_vars
    PROVE  \/ Untouched
           \/ B!Tick
           \/ B!IsOpen(Calls!domain)
           \/ B!RecordSuccess(Calls!domain)
           \/ B!RecordFailure(Calls!domain)
<1>1. CASE UNCHANGED vars
  BY <1>1 DEF vars, guarded, Untouched
<1>2. CASE Tick
  BY <1>2, SameSteps DEF Tick, Calls!Tick
<1>3. CASE Repair
  BY <1>3 DEF Repair, Calls!Repair, Untouched
<1>4. ASSUME NEW t \in Tasks, NEW class, Calls!Report(t, class)
      PROVE  B!RecordSuccess(Calls!domain) \/ B!RecordFailure(Calls!domain)
  BY <1>4, SameSteps DEF Calls!Report
<1>5. ASSUME NEW t \in Tasks, Calls!Fetch(t) PROVE B!IsOpen(Calls!domain)
  BY <1>5, SameSteps DEF Calls!Fetch
<1>6. ASSUME NEW t \in Tasks, AskHttp(t) \/ AskBrowser(t) PROVE B!IsOpen(Calls!domain)
  BY <1>5, <1>6 DEF AskHttp, AskBrowser, Ask
<1>7. ASSUME NEW t \in Tasks, HttpEnds(t) \/ BrowserAnswers(t)
      PROVE  B!RecordSuccess(Calls!domain) \/ B!RecordFailure(Calls!domain)
  BY <1>4, <1>7 DEF HttpEnds, HttpFails, HttpAnswers, HttpShell, BrowserAnswers
<1>8. ASSUME NEW t \in Tasks, Raises(t) \/ Launch(t) \/ LaunchFails(t) PROVE Untouched
  BY <1>8 DEF Raises, Calls!Escape, Launch, LaunchFails, guarded, Untouched
<1>. QED  BY <1>1, <1>2, <1>3, <1>6, <1>7, <1>8 DEF Next

\* The two fetchers, however many tasks call them, use the breaker as its own
\* module allows.
THEOREM ImplementsBreaker == Spec => B!Spec
<1>1. Init => B!Init
  BY SameInit DEF Init, Calls!Init
<1>2. [Next]_vars => [B!Next]_(B!vars)
  BY BreakerStep DEF Untouched, B!Next, B!vars, Calls!Domains, Calls!domain
<1>. QED  BY <1>1, <1>2, PTL DEF Spec, B!Spec

\* So the breaker between them keeps the promise of FR-10.
THEOREM SharedBreakerKeepsPromise == Spec => B!KeepsPromise
BY ImplementsBreaker, B!Implements, EscalationAssumption, PTL

-----------------------------------------------------------------------------
(* Types, and the browsers. *)

Places == {"idle", "http", "launching", "escalated", "browser"}

LocalType ==
    /\ pc \in [Tasks -> Places]
    /\ fetching = {t \in Tasks : pc[t] \in {"http", "browser"}}
    /\ late \subseteq fetching
    /\ up \in BOOLEAN
    /\ page \in [Tasks -> Pages]
    /\ launched \in Nat
    /\ browser \in 0..launched
    /\ failed \in BOOLEAN

\* A launch adds to the browsers what it takes from the launches under way,
\* and none is begun but while there is no browser.
Launches ==
    /\ launched + Cardinality(Launching) <= Cardinality(Tasks)
    /\ browser = None => launched = 0

LocalInv == LocalType /\ Launches /\ EscalatesShellsOnly

LEMMA InitLocal == Init => LocalInv
<1>. SUFFICES ASSUME Init PROVE LocalInv
  OBVIOUS
<1>1. Launching = {}
  BY DEF Init, Launching
<1>2. Cardinality(Launching) = 0 /\ Cardinality(Tasks) \in Nat
  BY <1>1, FS_EmptySet, FS_CardinalityType, EscalationAssumption
<1>3. NoPage \in Pages
  BY DEF NoPage, Pages
<1>4. LocalType
  <2>1. pc \in [Tasks -> Places] /\ page \in [Tasks -> Pages]
    BY <1>3 DEF Init, Places
  <2>2. fetching = {} /\ late = {} /\ up = FALSE
    BY DEF Init, Calls!Init
  <2>3. {t \in Tasks : pc[t] \in {"http", "browser"}} = {}
    BY DEF Init
  <2>4. launched = 0 /\ browser = 0 /\ failed = FALSE
    BY DEF Init, None
  <2>5. fetching = {t \in Tasks : pc[t] \in {"http", "browser"}}
    BY <2>2, <2>3
  <2>6. launched \in Nat /\ browser \in 0..launched
    BY <2>4
  <2>7. late \subseteq fetching /\ up \in BOOLEAN /\ failed \in BOOLEAN
    BY <2>2, <2>4
  <2>. QED  BY <2>1, <2>5, <2>6, <2>7 DEF LocalType
<1>5. Launches
  BY <1>2 DEF Init, Launches, None
<1>6. EscalatesShellsOnly
  BY DEF Init, EscalatesShellsOnly
<1>. QED  BY <1>4, <1>5, <1>6 DEF LocalInv

\* The tasks that launch are finitely many.
LEMMA LaunchingFinite ==
    /\ IsFiniteSet(Launching)
    /\ Cardinality(Launching) \in Nat
    /\ Cardinality(Launching) <= Cardinality(Tasks)
    /\ Cardinality(Tasks) \in Nat
<1>1. Launching \in SUBSET Tasks
  BY DEF Launching
<1>. QED  BY <1>1, FS_Subset, FS_CardinalityType, EscalationAssumption

LEMMA LaunchingFinitePrime ==
    /\ IsFiniteSet(Launching')
    /\ Cardinality(Launching') \in Nat
    /\ Cardinality(Launching') <= Cardinality(Tasks)
<1>1. Launching' \in SUBSET Tasks
  BY DEF Launching
<1>. QED  BY <1>1, FS_Subset, FS_CardinalityType, EscalationAssumption

\* A task that goes from one place to another, neither of them a launch,
\* leaves the launches as they are.
LEMMA SameLaunching ==
    ASSUME LocalType, NEW t \in Tasks, pc[t] # "launching",
           NEW next \in Places \ {"launching"}, Goto(t, next)
    PROVE  Launching' = Launching
BY DEF LocalType, Goto, Launching

\* A task fetches through http or the browser: it asks the breaker, its fetch
\* ends, or an exception ends it.
LEMMA AskLocal ==
    ASSUME LocalInv, NEW t \in Tasks, AskHttp(t) \/ AskBrowser(t)
    PROVE  LocalInv'
<1>1. /\ pc[t] \in {"idle", "escalated"}
      /\ pc' = [pc EXCEPT ![t] = IF call'.answer THEN "idle"
                                 ELSE IF pc[t] = "idle" THEN "http" ELSE "browser"]
      /\ fetching' = IF call'.answer THEN fetching ELSE fetching \cup {t}
      /\ UNCHANGED <<up, late, launcher, failed>>
  BY DEF AskHttp, AskBrowser, Ask, Calls!Fetch, Goto
<1>2. page' = page \/ (call'.answer /\ page' = [page EXCEPT ![t] = NoPage])
                   \/ (~call'.answer /\ page' = [page EXCEPT ![t] = @])
  BY DEF AskHttp, AskBrowser
<1>3. NoPage \in Pages
  BY DEF NoPage, Pages
<1>4. page' \in [Tasks -> Pages]
  BY <1>2, <1>3 DEF LocalInv, LocalType
<1>5. LocalType'
  BY <1>1, <1>4 DEF LocalInv, LocalType, Places, launcher
<1>6. Launching' = Launching
  BY <1>1 DEF LocalInv, LocalType, Launching
<1>7. Launches'
  BY <1>1, <1>6 DEF LocalInv, Launches, launcher
<1>8. EscalatesShellsOnly'
  <2>. SUFFICES ASSUME NEW u \in Tasks, pc'[u] \in {"launching", "escalated", "browser"}
                PROVE  /\ pc'[u] # "launching" => browser' # None
                       /\ page'[u].ok /\ page'[u].html /\ page'[u].short /\ ~page'[u].marker
    BY DEF EscalatesShellsOnly
  <2>1. pc[u] \in {"launching", "escalated", "browser"} /\ page'[u] = page[u]
    BY <1>1, <1>2 DEF LocalInv, LocalType, AskHttp, AskBrowser
  <2>2. pc'[u] # "launching" => pc[u] # "launching"
    BY <1>1 DEF LocalInv, LocalType
  <2>. QED  BY <1>1, <2>1, <2>2 DEF LocalInv, EscalatesShellsOnly, launcher
<1>. QED  BY <1>5, <1>7, <1>8 DEF LocalInv

\* A task is done with its fetch.
LEMMA EndLocal ==
    ASSUME LocalInv, NEW t \in Tasks, pc[t] # "launching",
           pc' = [pc EXCEPT ![t] = "idle"],
           fetching' = fetching \ {t}, late' = late \ {t},
           page' = page \/ page' = [page EXCEPT ![t] = NoPage],
           failed' \in BOOLEAN,
           UNCHANGED <<up, launcher>>
    PROVE  LocalInv'
<1>1. NoPage \in Pages
  BY DEF NoPage, Pages
<1>2. LocalType'
  BY <1>1 DEF LocalInv, LocalType, Places, launcher
<1>3. Launching' = Launching
  BY DEF LocalInv, LocalType, Launching
<1>4. Launches'
  BY <1>3 DEF LocalInv, Launches, launcher
<1>5. EscalatesShellsOnly'
  <2>. SUFFICES ASSUME NEW u \in Tasks, pc'[u] \in {"launching", "escalated", "browser"}
                PROVE  /\ pc'[u] # "launching" => browser' # None
                       /\ page'[u].ok /\ page'[u].html /\ page'[u].short /\ ~page'[u].marker
    BY DEF EscalatesShellsOnly
  <2>1. u # t /\ pc'[u] = pc[u] /\ page'[u] = page[u]
    BY DEF LocalInv, LocalType
  <2>. QED  BY <2>1 DEF LocalInv, EscalatesShellsOnly, launcher
<1>. QED  BY <1>2, <1>4, <1>5 DEF LocalInv

\* What Report and Escape do to the callers.
LEMMA Reported ==
    ASSUME NEW t, NEW class, Calls!Report(t, class)
    PROVE  fetching' = fetching \ {t} /\ late' = late \ {t} /\ up' = up
BY DEF Calls!Report

LEMMA ShellFacts ==
    ASSUME NEW p \in Pages, IsShell(p)
    PROVE  p.ok /\ p.html /\ p.short /\ ~p.marker
<1>1. ClassifyResponse(p) = "empty_or_js_shell"
  BY DEF IsShell
<1>2. CASE ~p.ok \/ ~p.html
  BY <1>1, <1>2 DEF ClassifyResponse, Pages
<1>3. CASE p.ok /\ p.html /\ p.marker
  BY <1>1, <1>3 DEF ClassifyResponse, Pages
<1>4. CASE p.ok /\ p.html /\ ~p.marker /\ ~p.short
  BY <1>1, <1>4 DEF ClassifyResponse, Pages
<1>. QED  BY <1>2, <1>3, <1>4 DEF Pages

\* A shell: the task looks the browser up, or is one more that launches it.
LEMMA ShellLocal ==
    ASSUME LocalInv, NEW t \in Tasks, NEW p \in Pages, HttpShell(t, p)
    PROVE  LocalInv'
<1>1. /\ pc[t] = "http"
      /\ pc' = [pc EXCEPT ![t] = IF browser = None THEN "launching" ELSE "escalated"]
      /\ page' = [page EXCEPT ![t] = p]
      /\ browser' = browser /\ launched' = launched /\ failed' = failed
      /\ fetching' = fetching \ {t} /\ late' = late \ {t} /\ up' = up
  BY Reported DEF HttpShell, Goto, launcher
<1>4. LocalType'
  BY <1>1 DEF LocalInv, LocalType, Places
<1>5. Launches'
  <2>1. CASE browser = None
    BY <1>1, <2>1, LaunchingFinitePrime, LaunchingFinite DEF LocalInv, Launches
  <2>2. CASE browser # None
    <3>1. Launching' = Launching
      BY <1>1, <2>2 DEF LocalInv, LocalType, Launching
    <3>. QED  BY <1>1, <2>2, <3>1 DEF LocalInv, Launches
  <2>. QED  BY <2>1, <2>2
<1>6. EscalatesShellsOnly'
  <2>. SUFFICES ASSUME NEW u \in Tasks, pc'[u] \in {"launching", "escalated", "browser"}
                PROVE  /\ pc'[u] # "launching" => browser' # None
                       /\ page'[u].ok /\ page'[u].html /\ page'[u].short /\ ~page'[u].marker
    BY DEF EscalatesShellsOnly
  <2>1. CASE u = t
    BY <1>1, <2>1, ShellFacts DEF LocalInv, LocalType, HttpShell
  <2>2. CASE u # t
    BY <1>1, <2>2 DEF LocalInv, LocalType, EscalatesShellsOnly
  <2>. QED  BY <2>1, <2>2
<1>. QED  BY <1>4, <1>5, <1>6 DEF LocalInv

\* A launch ends: one fewer is under way, and there is a browser if it went
\* well.
LEMMA LaunchLocal ==
    ASSUME LocalInv, NEW t \in Tasks, Launch(t) \/ LaunchFails(t)
    PROVE  LocalInv'
<1>1. /\ pc[t] = "launching"
      /\ pc' = [pc EXCEPT ![t] = IF Launch(t) THEN "escalated" ELSE "idle"]
      /\ UNCHANGED <<guarded, failed>>
  BY DEF Launch, LaunchFails, Goto, launcher
<1>2. Launching' = Launching \ {t} /\ t \in Launching
  BY <1>1 DEF LocalInv, LocalType, Launching
<1>3. Cardinality(Launching') = Cardinality(Launching) - 1
  BY <1>2, LaunchingFinite, FS_RemoveElement
<1>4. NoPage \in Pages
  BY DEF NoPage, Pages
<1>5. CASE Launch(t)
  <2>1. launched' = launched + 1 /\ browser' = launched' /\ page' = page
    BY <1>5 DEF Launch
  <2>2. LocalType'
    BY <1>1, <1>5, <2>1 DEF LocalInv, LocalType, Places, guarded
  <2>3. Launches'
    BY <1>1, <1>3, <2>1, LaunchingFinite DEF LocalInv, LocalType, Launches, None
  <2>4. EscalatesShellsOnly'
    BY <1>1, <1>5, <2>1 DEF LocalInv, LocalType, EscalatesShellsOnly, None
  <2>. QED  BY <2>2, <2>3, <2>4 DEF LocalInv
<1>6. CASE ~Launch(t)
  <2>1. launched' = launched /\ browser' = browser /\ page' = [page EXCEPT ![t] = NoPage]
    BY <1>6 DEF LaunchFails, launcher
  <2>2. LocalType'
    BY <1>1, <1>4, <1>6, <2>1 DEF LocalInv, LocalType, Places, guarded
  <2>3. Launches'
    BY <1>1, <1>3, <2>1, LaunchingFinite DEF LocalInv, LocalType, Launches
  <2>4. EscalatesShellsOnly'
    BY <1>1, <1>6, <2>1 DEF LocalInv, LocalType, EscalatesShellsOnly
  <2>. QED  BY <2>2, <2>3, <2>4 DEF LocalInv
<1>. QED  BY <1>5, <1>6

LEMMA NextLocal == LocalInv /\ [Next]_vars => LocalInv'
<1>. SUFFICES ASSUME LocalInv, [Next]_vars PROVE LocalInv'
  OBVIOUS
<1>1. CASE UNCHANGED vars
  BY <1>1 DEF vars, guarded, launcher, LocalInv, LocalType, Launches, EscalatesShellsOnly,
              Launching
<1>2. CASE Tick
  BY <1>2 DEF Tick, Calls!Tick, launcher, LocalInv, LocalType, Launches,
              EscalatesShellsOnly, Launching
<1>3. CASE Repair
  BY <1>3 DEF Repair, Calls!Repair, launcher, LocalInv, LocalType, Launches,
              EscalatesShellsOnly, Launching
<1>4. ASSUME NEW t \in Tasks, HttpFails(t) PROVE LocalInv'
  BY <1>4, EndLocal, Reported DEF HttpFails, Goto
<1>5. ASSUME NEW t \in Tasks, NEW p \in Pages, HttpAnswers(t, p) PROVE LocalInv'
  <2>1. failed' \in BOOLEAN
    BY <1>5 DEF HttpAnswers, LocalInv, LocalType
  <2>. QED  BY <1>5, <2>1, EndLocal, Reported DEF HttpAnswers, Goto
<1>6. ASSUME NEW t \in Tasks, BrowserAnswers(t) PROVE LocalInv'
  <2>1. failed' \in BOOLEAN
    BY <1>6 DEF BrowserAnswers, LocalInv, LocalType
  <2>. QED  BY <1>6, <2>1, EndLocal, Reported DEF BrowserAnswers, Goto
<1>7. ASSUME NEW t \in Tasks, Raises(t) PROVE LocalInv'
  <2>1. failed' \in BOOLEAN
    BY <1>7 DEF Raises, LocalInv, LocalType
  <2>. QED  BY <1>7, <2>1, EndLocal DEF Raises, Calls!Escape, Goto
<1>. QED
  BY <1>1, <1>2, <1>3, <1>4, <1>5, <1>6, <1>7, AskLocal, ShellLocal, LaunchLocal
     DEF Next, HttpEnds

LEMMA LocalInvariant == Spec => []LocalInv
BY InitLocal, NextLocal, PTL DEF Spec

\* Types, with those of the breaker.
THEOREM TypeCorrect == Spec => []TypeOK
<1>1. LocalInv /\ B!TypeOK => TypeOK
  BY SameType DEF LocalInv, LocalType, Places, TypeOK, Calls!TypeOK
<1>. QED  BY <1>1, LocalInvariant, ImplementsBreaker, B!TypeCorrect, EscalationAssumption, PTL

\* Browsers and launches under way are together never more than the tasks.
THEOREM FewBrowsers == Spec => []BrowsersAreFew
<1>1. LocalInv => BrowsersAreFew
  BY DEF LocalInv, Launches, BrowsersAreFew
<1>. QED  BY <1>1, LocalInvariant, PTL

\* The browser is used for shells, and is there when it is used.
THEOREM ShellsOnly == Spec => []EscalatesShellsOnly
<1>1. LocalInv => EscalatesShellsOnly
  BY DEF LocalInv
<1>. QED  BY <1>1, LocalInvariant, PTL

-----------------------------------------------------------------------------
(* A browser that fails does not open the breaker. *)

\* The tasks that may have failed in the browser since the last success: a
\* task that is on its way to the browser was itself the last success or came
\* after it.
Settled == {t \in Tasks : pc[t] \in {"idle", "http"}}

Streak == entry[Calls!domain].consecutive_failures

TripInv ==
    ~failed /\ Cardinality(Tasks) < FailMax =>
        /\ Calls!State = "closed"
        /\ Streak <= Cardinality(Settled)

LEMMA SettledFinite ==
    /\ IsFiniteSet(Settled)
    /\ Cardinality(Settled) \in Nat
    /\ Cardinality(Settled) <= Cardinality(Tasks)
    /\ Cardinality(Tasks) \in Nat
<1>1. Settled \in SUBSET Tasks
  BY DEF Settled
<1>. QED  BY <1>1, FS_Subset, FS_CardinalityType, EscalationAssumption

LEMMA SettledFinitePrime ==
    /\ IsFiniteSet(Settled')
    /\ Cardinality(Settled') \in Nat
    /\ Cardinality(Settled') <= Cardinality(Tasks)
<1>1. Settled' \in SUBSET Tasks
  BY DEF Settled
<1>. QED  BY <1>1, FS_Subset, FS_CardinalityType, EscalationAssumption

LEMMA ClosedStreak ==
    ASSUME B!TypeOK
    PROVE  /\ Streak \in Nat
           /\ Calls!domain \in DOMAIN entry
           /\ Calls!State = "closed" =>
                 entry[Calls!domain] = B!Entry("closed", Streak, B!NotOpened)
<1>1. entry \in [Calls!Domains -> B!ClosedEntry \cup B!TrippedEntry]
      /\ Calls!domain \in Calls!Domains
  BY DEF B!TypeOK, Calls!domain, Calls!Domains
<1>2. entry[Calls!domain] \in B!ClosedEntry \cup B!TrippedEntry
  BY <1>1
<1>3. CASE entry[Calls!domain] \in B!ClosedEntry
  BY <1>1, <1>3, EscalationAssumption DEF B!ClosedEntry, B!Entry, Streak
<1>4. CASE entry[Calls!domain] \in B!TrippedEntry
  BY <1>1, <1>4, EscalationAssumption DEF B!TrippedEntry, Streak, Calls!State
<1>. QED  BY <1>2, <1>3, <1>4

\* A success empties the streak; a failure adds one to it, and opens the
\* breaker only at FailMax; asking and the clock leave a closed one alone.
LEMMA SuccessStreak ==
    ASSUME B!TypeOK, B!RecordSuccess(Calls!domain)
    PROVE  Calls!State' = "closed" /\ Streak' = 0
BY ClosedStreak DEF B!RecordSuccess, B!Fresh, B!Entry, Calls!State, Streak

LEMMA FailureStreak ==
    ASSUME B!TypeOK, B!RecordFailure(Calls!domain),
           Calls!State = "closed", Streak + 1 < FailMax
    PROVE  Calls!State' = "closed" /\ Streak' = Streak + 1
<1>1. B!CountUp(Streak) = Streak + 1 /\ ~(Streak + 1 >= FailMax)
  BY ClosedStreak, EscalationAssumption DEF B!CountUp
<1>2. ~B!Trips(Calls!domain)
  BY <1>1 DEF B!Trips, B!Failures, Streak, Calls!State
<1>. QED
  BY <1>1, <1>2, ClosedStreak
     DEF B!RecordFailure, B!Failures, B!Entry, Calls!State, Streak

LEMMA OtherStreak ==
    ASSUME B!TypeOK, Untouched \/ B!Tick \/ B!IsOpen(Calls!domain),
           Calls!State = "closed"
    PROVE  Calls!State' = "closed" /\ Streak' = Streak
<1>1. CASE Untouched
  BY <1>1 DEF Untouched, Calls!State, Streak
<1>2. CASE B!Tick
  BY <1>2 DEF B!Tick, B!Entry, B!Failures, Calls!State, Streak, Calls!Domains, Calls!domain
<1>3. CASE B!IsOpen(Calls!domain)
  BY <1>3 DEF B!IsOpen, Calls!State, Streak
<1>. QED  BY <1>1, <1>2, <1>3

\* A task that settles or stays settled: there are no fewer of them.
LEMMA SettledGrows ==
    ASSUME Settled \subseteq Settled'
    PROVE  Cardinality(Settled) <= Cardinality(Settled')
BY SettledFinitePrime, FS_Subset

LEMMA InitTrip == Init => TripInv
<1>. SUFFICES ASSUME Init PROVE TripInv
  OBVIOUS
<1>1. entry[Calls!domain] = B!Fresh
  BY SameInit DEF Init, Calls!Init, B!Init, Calls!Domains, Calls!domain
<1>. QED  BY <1>1, SettledFinite DEF TripInv, B!Fresh, B!Entry, Calls!State, Streak

LEMMA NextTrip == LocalInv /\ B!TypeOK /\ TripInv /\ [Next]_vars => TripInv'
<1>. SUFFICES ASSUME LocalInv, B!TypeOK, TripInv, [Next]_vars,
                     ~failed', Cardinality(Tasks) < FailMax
              PROVE  Calls!State' = "closed" /\ Streak' <= Cardinality(Settled')
  BY DEF TripInv
<1>1. ~failed
  BY DEF Next, vars, launcher, LocalInv, LocalType, AskHttp, AskBrowser, Ask, HttpEnds,
         HttpFails, HttpAnswers, HttpShell, BrowserAnswers, Raises, Launch, LaunchFails,
         Tick, Repair
<1>2. Calls!State = "closed" /\ Streak <= Cardinality(Settled) /\ Streak \in Nat
  BY <1>1, ClosedStreak DEF TripInv
<1>3. ASSUME B!RecordSuccess(Calls!domain)
      PROVE  Calls!State' = "closed" /\ Streak' <= Cardinality(Settled')
  BY <1>3, SuccessStreak, SettledFinitePrime
<1>4. ASSUME Untouched \/ B!Tick \/ B!IsOpen(Calls!domain), Settled \subseteq Settled'
      PROVE  Calls!State' = "closed" /\ Streak' <= Cardinality(Settled')
  BY <1>2, <1>4, OtherStreak, SettledGrows, SettledFinite, SettledFinitePrime
<1>5. CASE UNCHANGED vars \/ Tick \/ Repair
  <2>1. Settled' = Settled
    BY <1>5 DEF vars, Tick, Repair, Settled
  <2>2. Untouched \/ B!Tick
    BY <1>5, SameSteps DEF vars, guarded, Untouched, Tick, Calls!Tick, Repair, Calls!Repair
  <2>. QED  BY <1>4, <2>1, <2>2
<1>6. ASSUME NEW t \in Tasks, AskHttp(t) \/ AskBrowser(t)
      PROVE  Calls!State' = "closed" /\ Streak' <= Cardinality(Settled')
  <2>1. B!IsOpen(Calls!domain)
    BY <1>6, SameSteps DEF AskHttp, AskBrowser, Ask, Calls!Fetch
  <2>2. Settled \subseteq Settled'
    BY <1>6 DEF AskHttp, AskBrowser, Ask, Goto, Settled, LocalInv, LocalType
  <2>. QED  BY <1>4, <2>1, <2>2
<1>7. ASSUME NEW t \in Tasks, NEW p \in Pages, HttpAnswers(t, p) \/ HttpShell(t, p)
      PROVE  Calls!State' = "closed" /\ Streak' <= Cardinality(Settled')
  <2>1. Calls!Report(t, "not_retryable")
    BY <1>7 DEF HttpAnswers, HttpShell
  <2>2. B!RecordSuccess(Calls!domain)
    BY <2>1, SameSteps DEF Calls!Report, Calls!Failures
  <2>. QED  BY <1>3, <2>2
<1>8. ASSUME NEW t \in Tasks, HttpFails(t) PROVE FALSE
  BY <1>8 DEF HttpFails
<1>9. ASSUME NEW t \in Tasks, Raises(t) \/ Launch(t) \/ LaunchFails(t)
      PROVE  Calls!State' = "closed" /\ Streak' <= Cardinality(Settled')
  <2>1. Untouched
    BY <1>9 DEF Raises, Calls!Escape, Launch, LaunchFails, guarded, Untouched
  <2>2. Settled \subseteq Settled'
    BY <1>9 DEF Raises, Launch, LaunchFails, Goto, Settled, LocalInv, LocalType
  <2>. QED  BY <1>4, <2>1, <2>2
<1>10. ASSUME NEW t \in Tasks, BrowserAnswers(t)
       PROVE  Calls!State' = "closed" /\ Streak' <= Cardinality(Settled')
  <2>1. B!RecordSuccess(Calls!domain) \/ B!RecordFailure(Calls!domain)
    BY <1>10, SameSteps DEF BrowserAnswers, Calls!Report
  <2>2. CASE B!RecordFailure(Calls!domain)
    <3>1. Settled' = Settled \cup {t} /\ t \notin Settled
      BY <1>10 DEF BrowserAnswers, Goto, Settled, LocalInv, LocalType
    <3>2. Cardinality(Settled') = Cardinality(Settled) + 1
      BY <3>1, SettledFinite, FS_AddElement
    <3>3. Streak + 1 < FailMax
      BY <1>2, <3>2, SettledFinite, SettledFinitePrime, EscalationAssumption
    <3>. QED  BY <1>2, <2>2, <3>2, <3>3, FailureStreak, SettledFinite
  <2>. QED  BY <1>3, <2>1, <2>2
<1>. QED
  BY <1>5, <1>6, <1>7, <1>8, <1>9, <1>10 DEF Next, HttpEnds

\* With fewer tasks than fail_max, and while no fetch through http fails, the
\* breaker stays closed: each task that failed in the browser must succeed
\* over http before it can fail there again.
THEOREM BrowserNeverTrips == Spec => []BrowserFailuresNeverTrip
<1>1. TripInv => BrowserFailuresNeverTrip
  BY DEF TripInv, BrowserFailuresNeverTrip
<1>. QED
  BY <1>1, InitTrip, NextTrip, LocalInvariant, ImplementsBreaker, B!TypeCorrect,
     EscalationAssumption, PTL DEF Spec

-----------------------------------------------------------------------------
(* A server that has recovered. *)

LEMMA Standing ==
    ASSUME B!TypeOK
    PROVE  /\ Calls!State \in {"closed", "half_open", "open"}
           /\ Calls!Distance \in 0..2
           /\ Calls!State = "closed" => Calls!Distance = 0
           /\ Calls!Streak = Streak /\ Calls!Streak \in Nat
           /\ entry[Calls!domain].opened_for \in -1..ResetTimeout
           /\ Calls!Cooldown = IF entry[Calls!domain].opened_for = -1 THEN 0
                               ELSE ResetTimeout - entry[Calls!domain].opened_for
           /\ Calls!Cooldown \in Nat
<1>1. entry[Calls!domain] \in B!ClosedEntry \cup B!TrippedEntry /\ ResetTimeout \in Nat
  BY EscalationAssumption DEF B!TypeOK, Calls!domain, Calls!Domains
<1>2. Calls!State \in {"closed", "half_open", "open"}
  BY <1>1 DEF B!ClosedEntry, B!TrippedEntry, Calls!State
<1>3. entry[Calls!domain].opened_for \in -1..ResetTimeout
  BY <1>1 DEF B!ClosedEntry, B!TrippedEntry, B!NotOpened
<1>4. Calls!Streak = Streak
  BY DEF Calls!Streak, Calls!Breaker!Failures, Streak
<1>5. Calls!Cooldown = IF entry[Calls!domain].opened_for = -1 THEN 0
                       ELSE ResetTimeout - entry[Calls!domain].opened_for
  BY DEF Calls!Cooldown, Calls!Breaker!Cooldown, Calls!Breaker!Age,
         Calls!Breaker!NotOpened, Calls!Domains, Calls!domain
<1>. QED  BY <1>1, <1>2, <1>3, <1>4, <1>5, ClosedStreak DEF Calls!Distance

\* The same after a step, for the parts that are defined by the entry.
LEMMA StandingPrime ==
    /\ Calls!Streak' = entry'[Calls!domain].consecutive_failures
    /\ Calls!Cooldown' = IF entry'[Calls!domain].opened_for = -1 THEN 0
                         ELSE ResetTimeout - entry'[Calls!domain].opened_for
    /\ Calls!State' = entry'[Calls!domain].state
BY DEF Calls!Streak, Calls!Breaker!Failures, Calls!Cooldown, Calls!Breaker!Cooldown,
       Calls!Breaker!Age, Calls!Breaker!NotOpened, Calls!Domains, Calls!domain, Calls!State

\* Asking, the clock and a success never set it back.
LEMMA NoSetBack ==
    ASSUME B!TypeOK,
           \/ Untouched \/ B!Tick \/ B!IsOpen(Calls!domain)
           \/ B!RecordSuccess(Calls!domain)
    PROVE  ~Calls!SetBack
<1> DEFINE d == Calls!domain
<1>0. d \in DOMAIN entry /\ d \in Calls!Domains /\ ResetTimeout \in Nat
  BY ClosedStreak, EscalationAssumption DEF Calls!Domains, Calls!domain
<1>1. CASE entry' = entry
  <2>1. Calls!Distance' = Calls!Distance
    BY <1>1 DEF Calls!Distance, Calls!State
  <2>2. Calls!Streak' = Calls!Streak /\ Calls!Cooldown' = Calls!Cooldown
    BY <1>1, Standing, StandingPrime DEF Streak
  <2>. QED  BY <2>1, <2>2, Standing DEF Calls!SetBack
<1>2. CASE B!Tick
  <2>1. entry'[d] = B!Entry(entry[d].state, entry[d].consecutive_failures,
                            B!Older(entry[d].opened_for))
    BY <1>0, <1>2 DEF B!Tick, B!Failures, B!Age
  <2>2. /\ entry'[d].state = entry[d].state
        /\ entry'[d].consecutive_failures = entry[d].consecutive_failures
        /\ entry'[d].opened_for = B!Older(entry[d].opened_for)
    BY <2>1 DEF B!Entry
  <2>3. Calls!Distance' = Calls!Distance
    BY <2>2 DEF Calls!Distance, Calls!State
  <2>4. Calls!Streak' = Calls!Streak
    BY <2>2, Standing, StandingPrime DEF Streak
  <2>5. Calls!Cooldown' <= Calls!Cooldown
    BY <1>0, <2>2, Standing, StandingPrime DEF B!Older, B!NotOpened
  <2>6. Calls!Cooldown' \in Int
    BY <1>0, <2>2, Standing, StandingPrime DEF B!Older, B!NotOpened
  <2>. QED  BY <2>3, <2>4, <2>5, <2>6, Standing DEF Calls!SetBack
<1>3. CASE B!IsOpen(d) /\ entry' # entry
  <2>1. /\ entry[d].state = "open"
        /\ entry' = [entry EXCEPT ![d] =
                         B!Entry("half_open", entry[d].consecutive_failures,
                                 entry[d].opened_for)]
    BY <1>3 DEF B!IsOpen, B!Failures, B!Age
  <2>2. /\ entry'[d].state = "half_open"
        /\ entry'[d].consecutive_failures = entry[d].consecutive_failures
        /\ entry'[d].opened_for = entry[d].opened_for
    BY <1>0, <2>1 DEF B!Entry
  <2>3. Calls!State = "open" /\ Calls!State' = "half_open"
    BY <2>1, <2>2 DEF Calls!State
  <2>4. Calls!Distance' < Calls!Distance /\ Calls!Distance' \in Nat
    BY <2>3 DEF Calls!Distance
  <2>5. Calls!Streak' = Calls!Streak /\ Calls!Cooldown' = Calls!Cooldown
    BY <2>2, Standing, StandingPrime DEF Streak
  <2>. QED  BY <2>4, <2>5, Standing DEF Calls!SetBack
<1>4. CASE B!RecordSuccess(d)
  <2>1. /\ entry'[d].state = "closed" /\ entry'[d].consecutive_failures = 0
        /\ entry'[d].opened_for = -1
    BY <1>0, <1>4 DEF B!RecordSuccess, B!Fresh, B!Entry, B!NotOpened
  <2>2. Calls!Distance' = 0
    BY <2>1 DEF Calls!Distance, Calls!State
  <2>3. Calls!Streak' = 0 /\ Calls!Cooldown' = 0
    BY <2>1, StandingPrime
  <2>. QED  BY <2>2, <2>3, Standing DEF Calls!SetBack
<1>. QED  BY <1>1, <1>2, <1>3, <1>4 DEF Untouched

\* A caller that sets it back was on its way when the server recovered, and
\* is so no more.
LEMMA ReportSetsBack ==
    ASSUME B!TypeOK, LocalInv, up, NEW t \in Tasks, NEW class, Calls!Report(t, class)
    PROVE  late' \subseteq late /\ (Calls!SetBack => late' # late)
<1>1. late' = late \ {t}
  BY DEF Calls!Report
<1>2. CASE class \in Calls!Failures
  BY <1>1, <1>2 DEF Calls!Report
<1>3. CASE class \notin Calls!Failures
  BY <1>1, <1>3, SameSteps, NoSetBack DEF Calls!Report
<1>. QED  BY <1>2, <1>3

\* For any tasks, fail_max and reset_timeout: after the server has recovered
\* only the failures that were under way take the breaker further from closed,
\* lengthen its streak or renew its cooldown.
THEOREM OnlyLateSetBack == Spec => OnlyLateFailuresSetBack
<1>1. LocalInv /\ B!TypeOK /\ [Next]_vars
          => [up => /\ late' \subseteq late
                    /\ Calls!SetBack => late' # late]_guarded
  <2>. SUFFICES ASSUME LocalInv, B!TypeOK, [Next]_vars, up
                PROVE  late' \subseteq late /\ (Calls!SetBack => late' # late)
    OBVIOUS
  <2>1. CASE UNCHANGED vars
    BY <2>1, NoSetBack DEF vars, guarded, Untouched
  <2>2. CASE Tick
    BY <2>2, SameSteps, NoSetBack DEF Tick, Calls!Tick
  <2>3. CASE Repair
    BY <2>3 DEF Repair, Calls!Repair
  <2>4. ASSUME NEW t \in Tasks, AskHttp(t) \/ AskBrowser(t)
        PROVE  late' \subseteq late /\ (Calls!SetBack => late' # late)
    BY <2>4, SameSteps, NoSetBack DEF AskHttp, AskBrowser, Ask, Calls!Fetch
  <2>5. ASSUME NEW t \in Tasks, HttpEnds(t) \/ BrowserAnswers(t)
        PROVE  late' \subseteq late /\ (Calls!SetBack => late' # late)
    BY <2>5, ReportSetsBack DEF HttpEnds, HttpFails, HttpAnswers, HttpShell, BrowserAnswers
  <2>6. ASSUME NEW t \in Tasks, Raises(t) \/ Launch(t) \/ LaunchFails(t)
        PROVE  late' \subseteq late /\ (Calls!SetBack => late' # late)
    BY <2>6, NoSetBack DEF Raises, Calls!Escape, Launch, LaunchFails, guarded, Untouched
  <2>. QED  BY <2>1, <2>2, <2>3, <2>4, <2>5, <2>6 DEF Next
<1>. QED
  BY <1>1, LocalInvariant, ImplementsBreaker, B!TypeCorrect, EscalationAssumption, PTL
  DEF Spec, OnlyLateFailuresSetBack, Calls!OnlyLateFailuresSetBack, guarded

\* A fetcher with one caller, as run_site is, launches one browser at most.
THEOREM OneBrowser == ASSUME Cardinality(Tasks) = 1 PROVE Spec => [](launched <= 1)
<1>1. LocalInv => launched <= 1
  BY LaunchingFinite DEF LocalInv, LocalType, Launches
<1>. QED  BY <1>1, LocalInvariant, PTL
=============================================================================
