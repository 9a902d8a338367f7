----------------------------- MODULE ContextPool -----------------------------
(***************************************************************************)
(* _ContextPool (src/src/pipeline/fetchers/browser.py): at most PoolSize   *)
(* browser contexts, made on demand and handed from one fetch to the next  *)
(* through an asyncio.Queue.                                               *)
(*                                                                         *)
(* The lock is first come, first served, and the task at the head of       *)
(* pool_lock has it.  The queue is not: put wakes the first waiter, but    *)
(* the context stays in the queue until that task runs, and any task that  *)
(* runs before it may take the context away; the waiter then waits again,  *)
(* behind all others.                                                      *)
(***************************************************************************)
EXTENDS Naturals, Sequences

CONSTANTS
    Fetchers,           \* the tasks that fetch through the browser
    PoolSize            \* context_pool_size

PoolConstants == PoolSize \in Nat \ {0}

VARIABLES
    idle,               \* _available: the idle contexts
    created,            \* _created: contexts are numbered in this order
    pool_lock,          \* _lock: its holder, then those that wait for it
    getters,            \* those that wait in _available.get
    woken,              \* those that put has woken, and that have not run yet
    held                \* held[t]: the context that t works with

vars == <<idle, created, pool_lock, getters, woken, held>>

NoContext == 0
Contexts == 1..PoolSize

Init ==
    /\ idle = <<>>
    /\ created = 0
    /\ pool_lock = <<>>
    /\ getters = <<>>
    /\ woken = {}
    /\ held = [t \in Fetchers |-> NoContext]

HasLock(t) == pool_lock # <<>> /\ Head(pool_lock) = t

\* A slip: the context is looked at and left in the queue.
PeekIdle(t) ==
    /\ held' = [held EXCEPT ![t] = Head(idle)]
    /\ UNCHANGED idle

TakeIdle(t) ==
    /\ held' = [held EXCEPT ![t] = Head(idle)]
    /\ idle' = Tail(idle)

\* acquire, up to its first await: an idle context, or the lock, or, when the
\* lock is free and there are contexts enough, the queue.
Acquire(t) ==
    /\ IF idle # <<>>
       THEN TakeIdle(t) /\ UNCHANGED <<pool_lock, getters>>
       ELSE IF pool_lock # <<>> \/ created < PoolSize
       THEN pool_lock' = Append(pool_lock, t) /\ UNCHANGED <<idle, getters, held>>
       ELSE getters' = Append(getters, t) /\ UNCHANGED <<idle, pool_lock, held>>
    /\ UNCHANGED <<created, woken>>

\* new_context, which is awaited with the lock held, succeeds.
Create(t) ==
    /\ HasLock(t)
    /\ created < PoolSize
    /\ created' = created + 1
    /\ held' = [held EXCEPT ![t] = created + 1]
    /\ pool_lock' = Tail(pool_lock)
    /\ UNCHANGED <<idle, getters, woken>>

\* It raises: the lock is given back, nothing was created.
CreateFails(t) ==
    /\ HasLock(t)
    /\ created < PoolSize
    /\ pool_lock' = Tail(pool_lock)
    /\ UNCHANGED <<idle, created, getters, woken, held>>

\* get returns at once if there is a context by now, and else waits.
Get(t) ==
    /\ IF idle # <<>>
       THEN TakeIdle(t) /\ UNCHANGED getters
       ELSE getters' = Append(getters, t) /\ UNCHANGED <<idle, held>>

\* The lock came too late: every context has been created.
GiveUpLock(t) ==
    /\ HasLock(t)
    /\ created >= PoolSize
    /\ pool_lock' = Tail(pool_lock)
    /\ Get(t)
    /\ UNCHANGED <<created, woken>>

\* A waiter runs again; the context it was woken for may be gone.
Resume(t) ==
    /\ t \in woken
    /\ woken' = woken \ {t}
    /\ Get(t)
    /\ UNCHANGED <<created, pool_lock>>

\* A slip: the context is put back and nobody is told.
ReleaseSilently(t) ==
    /\ idle' = Append(idle, held[t])
    /\ held' = [held EXCEPT ![t] = NoContext]
    /\ UNCHANGED <<created, pool_lock, getters, woken>>

\* release: the context goes to the queue, and the first waiter is woken.
Release(t) ==
    /\ idle' = Append(idle, held[t])
    /\ held' = [held EXCEPT ![t] = NoContext]
    /\ IF getters = <<>>
       THEN UNCHANGED <<getters, woken>>
       ELSE /\ woken' = woken \cup {Head(getters)}
            /\ getters' = Tail(getters)
    /\ UNCHANGED <<created, pool_lock>>

Waiting(t) == \/ t \in woken
              \/ \E i \in DOMAIN pool_lock : pool_lock[i] = t
              \/ \E i \in DOMAIN getters : getters[i] = t

-----------------------------------------------------------------------------
(* Properties. *)

TypeOK ==
    /\ idle \in Seq(Contexts)
    /\ created \in 0..PoolSize
    /\ pool_lock \in Seq(Fetchers)
    /\ getters \in Seq(Fetchers)
    /\ woken \subseteq Fetchers
    /\ held \in [Fetchers -> Contexts \cup {NoContext}]

\* Every context that was created is in exactly one place: idle, once, or
\* with one fetch.  No two pages of different fetches share cookies.
EachContextInOnePlace ==
    /\ \A i, j \in DOMAIN idle : idle[i] = idle[j] => i = j
    /\ \A t, u \in Fetchers : held[t] = held[u] /\ held[t] # NoContext => t = u
    /\ {idle[i] : i \in DOMAIN idle} \cap {held[t] : t \in Fetchers} = {}
    /\ {idle[i] : i \in DOMAIN idle} \cup {held[t] : t \in Fetchers} \cup {NoContext}
           = 0..created

=============================================================================
