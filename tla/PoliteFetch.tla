----------------------------- MODULE PoliteFetch -----------------------------
(***************************************************************************)
(* What the two fetchers promise the sites, with nothing of locks, buckets *)
(* and queues: the rules of an origin are learnt once and then kept; every *)
(* page costs a token of its own, paid after the rules were known and had  *)
(* allowed the page; and a page in the browser has a context that no other *)
(* page has at the time.  FetchOnce is shown to implement it.              *)
(***************************************************************************)
EXTENDS Naturals

CONSTANTS
    Tasks, BrowserTasks, Origins, OriginOf, Published,
    Keys, KeyOf,        \* KeyOf[t]: whose tokens task t pays with
    Contexts,
    Unknown, NoContext

VARIABLES
    rules,              \* rules[o]: the rules of origin o, or Unknown
    sold,               \* sold[k]: the tokens taken so far
    stage,              \* stage[t]: whether t has paid, and has its page
    using               \* using[t]: the context of browser task t

promised == <<rules, sold, stage, using>>

Init ==
    /\ rules = [o \in Origins |-> Unknown]
    /\ sold = [k \in Keys |-> 0]
    /\ stage = [t \in Tasks |-> "outside"]
    /\ using = [t \in BrowserTasks |-> NoContext]

\* What is published, or that everything or nothing may be fetched.
Learn(o) ==
    /\ rules[o] = Unknown
    /\ \E r \in {Published[o]} \cup [allowed : {Tasks, {}}, slow : {FALSE}] :
          rules' = [rules EXCEPT ![o] = r]
    /\ UNCHANGED <<sold, stage, using>>

\* A task pays for one page that it may have.
Admit(t) ==
    /\ stage[t] = "outside"
    /\ rules[OriginOf[t]] # Unknown
    /\ t \in rules[OriginOf[t]].allowed
    /\ sold' = [sold EXCEPT ![KeyOf[t]] = @ + 1]
    /\ stage' = [stage EXCEPT ![t] = IF t \in BrowserTasks THEN "admitted" ELSE "fetching"]
    /\ UNCHANGED <<rules, using>>

Borrow(t) ==
    /\ stage[t] = "admitted"
    /\ \E c \in Contexts : /\ \A u \in BrowserTasks : using[u] # c
                           /\ using' = [using EXCEPT ![t] = c]
    /\ stage' = [stage EXCEPT ![t] = "fetching"]
    /\ UNCHANGED <<rules, sold>>

\* The page is there or has failed: the next one is paid for again.
Leave(t) ==
    /\ stage[t] # "outside"
    /\ stage' = [stage EXCEPT ![t] = "outside"]
    /\ using' = [u \in BrowserTasks |-> IF u = t THEN NoContext ELSE using[u]]
    /\ UNCHANGED <<rules, sold>>

Next ==
    \/ \E o \in Origins : Learn(o)
    \/ \E t \in Tasks : Admit(t) \/ Leave(t)
    \/ \E t \in BrowserTasks : Borrow(t)

Spec == Init /\ [][Next]_promised
=============================================================================
