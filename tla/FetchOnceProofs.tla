-------------------------- MODULE FetchOnceProofs ---------------------------
(***************************************************************************)
(* For any tasks, origins, rates, burst and pool size: pages are fetched   *)
(* only where robots.txt permits it, no bucket grants more than its pace,  *)
(* and a context is with one fetch at a time and never lost.  Each of the  *)
(* three has an invariant of its own; they share the types.                *)
(***************************************************************************)
EXTENDS FetchOnce, SequenceTheorems, TLAPS

-----------------------------------------------------------------------------
(* Steps: what a step of FetchOnce is to each of its components. *)

RobotsStep ==
    \/ UNCHANGED robots
    \/ \E t \in Tasks : Robots!Ask(t) \/ Robots!LookUp(t) \/ Robots!LookUpFails(t)

LimiterStep ==
    \/ UNCHANGED limiter
    \/ \E t \in Tasks : \/ pc[t] = "pace" /\ Limiter!Acquire(t, Key(t), EffectiveRate(t))
                        \/ Limiter!Grant(t, Key(t))
                        \/ Limiter!Pace(t, Key(t))
    \/ Limiter!Tick

PoolStep(t) ==
    \/ Pool!Acquire(t) \/ Pool!Create(t) \/ Pool!CreateFails(t)
    \/ Pool!GiveUpLock(t) \/ Pool!Resume(t)
    \/ held[t] # Pool!NoContext /\ Pool!Release(t)

\* Only tasks that fetch through the browser go to the pool, and a task that
\* is about to start has an attempt left.
Going ==
    /\ \A t \in Tasks : pc[t] \in {"context", "waiting"} => t \in BrowserTasks
    /\ \A t \in Tasks : pc[t] = "start" => attempt[t] < MaxAttempts

\* A browser task has a context exactly while it fetches its page.
Holding == \A t \in BrowserTasks : held[t] # Pool!NoContext <=> pc[t] = "page"

LEMMA ComponentSteps ==
    ASSUME [Next]_vars, Going, Holding
    PROVE  /\ RobotsStep
           /\ LimiterStep
           /\ UNCHANGED pool \/ \E t \in BrowserTasks : PoolStep(t)
<1>1. CASE UNCHANGED vars
  BY <1>1 DEF vars, RobotsStep, LimiterStep, robots, limiter, pool
<1>2. CASE Tick
  BY <1>2 DEF Tick, RobotsStep, LimiterStep
<1>3. ASSUME NEW t \in Tasks, Start(t) \/ IsAllowed(t) \/ CrawlDelay(t) \/ RobotsEscape(t)
      PROVE  RobotsStep /\ UNCHANGED <<limiter, pool>>
  BY <1>3 DEF Start, IsAllowed, CrawlDelay, RobotsEscape, RobotsStep
<1>4. ASSUME NEW t \in Tasks, AskLimiter(t) \/ Paced(t)
      PROVE  LimiterStep /\ UNCHANGED <<robots, pool>>
  BY <1>4 DEF AskLimiter, Paced, LimiterStep
<1>5. ASSUME NEW t \in Tasks, AskPool(t) \/ GetContext(t) \/ NoNewContext(t)
      PROVE  t \in BrowserTasks /\ PoolStep(t) /\ UNCHANGED <<robots, limiter>>
  BY <1>5 DEF AskPool, GetContext, NoNewContext, PoolStep, Going
<1>6. ASSUME NEW t \in Tasks, Page(t)
      PROVE  /\ UNCHANGED pool \/ (t \in BrowserTasks /\ PoolStep(t))
             /\ UNCHANGED <<robots, limiter>>
  BY <1>6 DEF Page, PoolStep, Holding
<1>. QED
  BY <1>1, <1>2, <1>3, <1>4, <1>5, <1>6 DEF Next, Step, RobotsStep, LimiterStep

-----------------------------------------------------------------------------
(* Types. *)

LEMMA RobotsTypes ==
    ASSUME Robots!TypeOK, RobotsStep
    PROVE  Robots!TypeOK'
<1>1. CASE UNCHANGED robots
  BY <1>1 DEF robots, Robots!TypeOK
<1>2. ASSUME NEW t \in Tasks, Robots!Ask(t) PROVE Robots!TypeOK'
  BY <1>2 DEF Robots!Ask, Robots!TypeOK
<1>3. ASSUME NEW t \in Tasks, Robots!LookUpFails(t) PROVE Robots!TypeOK'
  BY <1>3 DEF Robots!LookUpFails, Robots!HasLock, Robots!TypeOK
<1>4. ASSUME NEW t \in Tasks, Robots!LookUp(t) PROVE Robots!TypeOK'
  <2>. DEFINE o == OriginOf[t]
  <2>1. o \in Origins /\ Published \in [Origins -> Robots!Rules]
    BY FetchAssumption DEF Robots!RobotsConstants
  <2>2. \A s \in Robots!Statuses : /\ Robots!Parsed(o, s) \in Robots!Rules
                                   /\ Robots!Outcome(s) \in {"read", "missing", "failed"}
    BY <2>1 DEF Robots!Parsed, Robots!Outcome, Robots!Rules, Robots!FullyPermissive,
                Robots!FullyDisallowed
  <2>3. robots_lock' \in Seq(Tasks)
    BY <1>4 DEF Robots!LookUp, Robots!HasLock, Robots!TypeOK
  <2>4. CASE UNCHANGED <<parsers, answered>>
    BY <2>3, <2>4 DEF Robots!TypeOK
  <2>5. ASSUME NEW s \in Robots!Statuses,
               parsers' = [parsers EXCEPT ![o] = Robots!Parsed(o, s)],
               answered' = [answered EXCEPT ![o] = Append(@, Robots!Outcome(s))]
        PROVE  Robots!TypeOK'
    <3>1. parsers' \in [Origins -> Robots!Rules \cup {Robots!Unknown}]
      BY <2>1, <2>2, <2>5 DEF Robots!TypeOK
    <3>2. answered' \in [Origins -> Seq({"read", "missing", "failed"})]
      BY <2>1, <2>2, <2>5 DEF Robots!TypeOK
    <3>. QED  BY <2>3, <3>1, <3>2 DEF Robots!TypeOK
  <2>. QED  BY <1>4, <2>4, <2>5 DEF Robots!LookUp
<1>. QED  BY <1>1, <1>2, <1>3, <1>4 DEF RobotsStep

\* What the limiters' constants are.
LEMMA LimiterFacts ==
    /\ Unit \in Nat /\ Unit > 0 /\ Burst \in Nat /\ Horizon \in Nat
    /\ Burst * Unit \in Nat
    /\ NormalRate \in Nat /\ SlowRate \in Nat
    /\ \A t \in Tasks : Key(t) \in Keys /\ EffectiveRate(t) \in Rates
    /\ \A t \in Tasks : OriginOf[t] \in Origins /\ NetlocOf[OriginOf[t]] = Key(t)[2]
    /\ \A b \in Limiter!Bucket : b.rate \in Nat /\ b.tokens \in Nat /\ b.since \in Nat
<1>1. /\ Unit \in Nat /\ Unit > 0 /\ Burst \in Nat /\ Horizon \in Nat /\ Rates \subseteq Nat
  BY FetchAssumption DEF Limiter!LimiterConstants
<1>2. NormalRate \in Nat /\ SlowRate \in Nat
  BY <1>1 DEF Rates
<1>3. \A t \in Tasks : Key(t) \in Keys /\ EffectiveRate(t) \in Rates
  BY FetchAssumption DEF Robots!RobotsConstants, Key, Keys, EffectiveRate, Rates
<1>4. \A t \in Tasks : OriginOf[t] \in Origins /\ NetlocOf[OriginOf[t]] = Key(t)[2]
  BY FetchAssumption DEF Robots!RobotsConstants, Key
<1>5. Burst * Unit \in Nat
  BY <1>1
<1>6. \A b \in Limiter!Bucket : b.rate \in Nat /\ b.tokens \in Nat /\ b.since \in Nat
  <2>. SUFFICES ASSUME NEW b \in Limiter!Bucket
                PROVE  b.rate \in Nat /\ b.tokens \in Nat /\ b.since \in Nat
    OBVIOUS
  <2>1. b.tokens \in 0..(Burst * Unit)
    BY DEF Limiter!Bucket
  <2>4. b.rate \in Rates /\ b.since \in 0..Horizon
    BY DEF Limiter!Bucket
  <2>5. b.rate \in Nat
    BY <1>1, <2>4
  <2>6. b.since \in Nat
    BY <1>1, <2>4
  <2>. DEFINE full == Burst * Unit
  <2>2. full \in Nat /\ b.tokens \in 0..full
    BY <1>5, <2>1
  <2>. HIDE DEF full
  <2>3. b.tokens \in Nat
    BY <2>2
  <2>. QED  BY <2>3, <2>5, <2>6
<1>. QED  BY <1>1, <1>2, <1>3, <1>4, <1>5, <1>6

\* No rate is zero, so no bucket is taken for one that is not there.
LEMMA RateIsPositive == \A b \in Limiter!Bucket : b.rate > 0 /\ b # Limiter!NoBucket
<1>. SUFFICES ASSUME NEW b \in Limiter!Bucket PROVE b.rate > 0
  BY DEF Limiter!NoBucket
<1>1. b.rate \in Rates
  BY DEF Limiter!Bucket
<1>2. Rates \subseteq Nat \ {0}
  BY FetchAssumption DEF Limiter!LimiterConstants
<1>3. b.rate \in Nat \ {0}
  BY <1>1, <1>2
<1>. QED  BY <1>3

\* The bucket that Acquire makes.
FullBucket(rate) == [rate |-> rate, tokens |-> Burst * Unit, since |-> 0]

LEMMA FullBucketType ==
    ASSUME NEW rate \in Rates
    PROVE  FullBucket(rate) \in Limiter!Bucket
BY LimiterFacts DEF FullBucket, Limiter!Bucket

\* The tokens after a refill: what there was and was gained, up to the burst.
LEMMA RefilledFacts ==
    ASSUME NEW k \in Keys, bucket[k] \in Limiter!Bucket
    PROVE  /\ Limiter!Refilled(k) \in 0..(Burst * Unit)
           /\ Limiter!Refilled(k) <= bucket[k].tokens + bucket[k].since * bucket[k].rate
<1>1. bucket[k].rate \in Nat /\ bucket[k].tokens \in Nat /\ bucket[k].since \in Nat
  BY LimiterFacts
<1>2. bucket[k].since * bucket[k].rate \in Nat
  BY <1>1
<1>. QED  BY <1>1, <1>2, LimiterFacts DEF Limiter!Refilled

\* A bucket that is looked at.
LEMMA RefillType ==
    ASSUME Limiter!TypeOK, NEW k \in Keys, bucket[k] # Limiter!NoBucket,
           NEW taken \in Nat, taken <= Limiter!Refilled(k), Limiter!Refill(k, taken)
    PROVE  bucket' \in [Keys -> Limiter!Bucket \cup {Limiter!NoBucket}]
<1>1. bucket[k] \in Limiter!Bucket
  BY DEF Limiter!TypeOK
<1>2. bucket[k].rate \in Rates /\ 0 \in 0..Horizon
  BY <1>1, LimiterFacts DEF Limiter!Bucket
<1>3. Limiter!Refilled(k) - taken \in 0..(Burst * Unit)
  BY <1>1, RefilledFacts, LimiterFacts
<1>4. [rate |-> bucket[k].rate, since |-> 0, tokens |-> Limiter!Refilled(k) - taken]
          \in Limiter!Bucket
  BY <1>2, <1>3 DEF Limiter!Bucket
<1>. QED  BY <1>4 DEF Limiter!TypeOK, Limiter!Refill

LEMMA LaterFacts ==
    \A n \in 0..Horizon : /\ Limiter!Later(n) \in 0..Horizon
                          /\ n < Horizon => Limiter!Later(n) = n + 1
                          /\ n = Horizon => Limiter!Later(n) = Horizon
BY LimiterFacts DEF Limiter!Later

\* A bucket with tokens for the holder of its lock was made before.
Locked == \A k \in Keys : bucket[k] = Limiter!NoBucket => bucket_lock[k] = <<>>

LEMMA TickTypes ==
    ASSUME Limiter!TypeOK, Limiter!Tick
    PROVE  Limiter!TypeOK'
<1>1. ASSUME NEW k \in Keys PROVE bucket'[k] \in Limiter!Bucket \cup {Limiter!NoBucket}
  <2>1. CASE bucket[k] = Limiter!NoBucket
    BY <2>1 DEF Limiter!Tick
  <2>2. CASE bucket[k] # Limiter!NoBucket
    <3>1. bucket[k] \in Limiter!Bucket
      BY <2>2 DEF Limiter!TypeOK
    <3>2. bucket[k].rate \in Rates /\ bucket[k].tokens \in 0..(Burst * Unit)
          /\ Limiter!Later(bucket[k].since) \in 0..Horizon
      BY <3>1, LaterFacts DEF Limiter!Bucket
    <3>3. bucket'[k] = [rate |-> bucket[k].rate, tokens |-> bucket[k].tokens,
                        since |-> Limiter!Later(bucket[k].since)]
      BY <2>2 DEF Limiter!Tick
    <3>. QED  BY <3>2, <3>3 DEF Limiter!Bucket
  <2>. QED  BY <2>1, <2>2
<1>2. ASSUME NEW k \in Keys PROVE grants'[k] \in Seq(0..Horizon)
  <2>1. grants'[k] = [i \in 1..Len(grants[k]) |-> Limiter!Later(grants[k][i])]
        /\ Len(grants[k]) \in Nat
    BY DEF Limiter!Tick, Limiter!TypeOK
  <2>2. \A i \in 1..Len(grants[k]) : Limiter!Later(grants[k][i]) \in 0..Horizon
    <3>. SUFFICES ASSUME NEW i \in 1..Len(grants[k])
                  PROVE  Limiter!Later(grants[k][i]) \in 0..Horizon
      OBVIOUS
    <3>1. grants[k] \in Seq(0..Horizon)
      BY DEF Limiter!TypeOK
    <3>2. grants[k][i] \in 0..Horizon
      BY <3>1, ElementOfSeq
    <3>. QED  BY <3>2, LaterFacts
  <2>. QED  BY <2>1, <2>2
<1>3. bucket' = [k \in Keys |-> bucket'[k]] /\ grants' = [k \in Keys |-> grants'[k]]
  BY DEF Limiter!Tick
<1>. QED  BY <1>1, <1>2, <1>3 DEF Limiter!TypeOK, Limiter!Tick

LEMMA LimiterTypes ==
    ASSUME Limiter!TypeOK, Locked, LimiterStep
    PROVE  Limiter!TypeOK' /\ Locked'
<1>1. CASE UNCHANGED limiter
  BY <1>1 DEF limiter, Limiter!TypeOK, Locked
<1>2. CASE Limiter!Tick
  <2>1. Locked'
    <3>. SUFFICES ASSUME NEW k \in Keys, bucket'[k] = Limiter!NoBucket
                  PROVE  bucket[k] = Limiter!NoBucket
      BY <1>2 DEF Locked, Limiter!Tick
    <3>. SUFFICES ASSUME bucket[k] # Limiter!NoBucket PROVE FALSE
      OBVIOUS
    <3>1. bucket[k] \in Limiter!Bucket
      BY DEF Limiter!TypeOK
    <3>2. bucket'[k].rate = bucket[k].rate
      BY <1>2 DEF Limiter!Tick
    <3>. QED  BY <3>1, <3>2, RateIsPositive DEF Limiter!NoBucket
  <2>. QED  BY <1>2, <2>1, TickTypes
<1>3. ASSUME NEW t \in Tasks, NEW k \in Keys, NEW rate \in Rates,
             Limiter!Acquire(t, k, rate)
      PROVE  Limiter!TypeOK' /\ Locked'
  <2>1. bucket' = IF bucket[k] = Limiter!NoBucket
                  THEN [bucket EXCEPT ![k] = FullBucket(rate)] ELSE bucket
    BY <1>3 DEF Limiter!Acquire, FullBucket
  <2>2. FullBucket(rate) \in Limiter!Bucket /\ FullBucket(rate) # Limiter!NoBucket
    BY FullBucketType, RateIsPositive DEF Limiter!NoBucket
  <2>3. bucket' \in [Keys -> Limiter!Bucket \cup {Limiter!NoBucket}]
    BY <2>1, <2>2 DEF Limiter!TypeOK
  <2>4. bucket_lock' \in [Keys -> Seq(Tasks)] /\ grants' = grants
    BY <1>3 DEF Limiter!Acquire, Limiter!TypeOK
  <2>5. Locked'
    BY <1>3, <2>1, <2>2 DEF Limiter!Acquire, Limiter!TypeOK, Locked
  <2>. QED  BY <2>3, <2>4, <2>5 DEF Limiter!TypeOK
<1>4. ASSUME NEW t \in Tasks, NEW k \in Keys, Limiter!Grant(t, k) \/ Limiter!Pace(t, k)
      PROVE  Limiter!TypeOK' /\ Locked'
  <2>1. bucket[k] # Limiter!NoBucket /\ bucket_lock[k] # <<>>
    BY <1>4 DEF Limiter!Grant, Limiter!Pace, Limiter!HasLock, Locked
  <2>2. bucket' \in [Keys -> Limiter!Bucket \cup {Limiter!NoBucket}]
    BY <1>4, <2>1, RefillType, LimiterFacts, RefilledFacts
       DEF Limiter!Grant, Limiter!Pace, Limiter!TypeOK
  <2>3. bucket_lock' \in [Keys -> Seq(Tasks)]
    <3>1. bucket_lock[k] \in Seq(Tasks)
      BY DEF Limiter!TypeOK
    <3>2. Tail(bucket_lock[k]) \in Seq(Tasks)
      BY <2>1, <3>1, HeadTailProperties
    <3>3. \/ bucket_lock' = bucket_lock
          \/ bucket_lock' = [bucket_lock EXCEPT ![k] = Tail(bucket_lock[k])]
      BY <1>4 DEF Limiter!Grant, Limiter!Pace
    <3>. QED  BY <3>2, <3>3 DEF Limiter!TypeOK
  <2>4. grants' \in [Keys -> Seq(0..Horizon)]
    <3>1. grants[k] \in Seq(0..Horizon) /\ 0 \in 0..Horizon
      BY LimiterFacts DEF Limiter!TypeOK
    <3>2. Append(grants[k], 0) \in Seq(0..Horizon)
      BY <3>1, AppendProperties
    <3>3. grants' = grants \/ grants' = [grants EXCEPT ![k] = Append(grants[k], 0)]
      BY <1>4 DEF Limiter!Grant, Limiter!Pace
    <3>. QED  BY <3>2, <3>3 DEF Limiter!TypeOK
  <2>5. bucket'[k].rate = bucket[k].rate /\ bucket[k] \in Limiter!Bucket
    BY <1>4, <2>1 DEF Limiter!Grant, Limiter!Pace, Limiter!Refill, Limiter!TypeOK
  <2>6. bucket'[k] # Limiter!NoBucket
    BY <2>5, RateIsPositive DEF Limiter!NoBucket
  <2>7. \A j \in Keys : j # k => bucket'[j] = bucket[j] /\ bucket_lock'[j] = bucket_lock[j]
    BY <1>4 DEF Limiter!Grant, Limiter!Pace, Limiter!Refill, Limiter!TypeOK
  <2>8. Locked'
    BY <2>6, <2>7 DEF Locked
  <2>. QED  BY <2>2, <2>3, <2>4, <2>8 DEF Limiter!TypeOK
<1>. QED  BY <1>1, <1>2, <1>3, <1>4, LimiterFacts DEF LimiterStep

\* The pool, with its tasks: what a task does there changes its own context.
LEMMA PoolTypes ==
    ASSUME Pool!TypeOK, NEW t \in BrowserTasks,
           PoolStep(t)
    PROVE  Pool!TypeOK'
<1>1. /\ idle \in Seq(Pool!Contexts) /\ created \in 0..PoolSize /\ PoolSize \in Nat
      /\ pool_lock \in Seq(BrowserTasks) /\ getters \in Seq(BrowserTasks)
      /\ held \in [BrowserTasks -> Pool!Contexts \cup {Pool!NoContext}]
  BY FetchAssumption DEF Pool!TypeOK, Pool!PoolConstants
<1>2. idle # <<>> => Head(idle) \in Pool!Contexts /\ Tail(idle) \in Seq(Pool!Contexts)
  BY <1>1, HeadTailProperties
<1>3. pool_lock # <<>> => Tail(pool_lock) \in Seq(BrowserTasks)
  BY <1>1, HeadTailProperties
<1>4. getters # <<>> => Head(getters) \in BrowserTasks /\ Tail(getters) \in Seq(BrowserTasks)
  BY <1>1, HeadTailProperties
<1>5. /\ Append(pool_lock, t) \in Seq(BrowserTasks)
      /\ Append(getters, t) \in Seq(BrowserTasks)
  BY <1>1, AppendProperties
<1>6. CASE Pool!Acquire(t)
  BY <1>1, <1>2, <1>5, <1>6 DEF Pool!Acquire, Pool!TakeIdle, Pool!TypeOK
<1>7. CASE Pool!Create(t)
  <2>1. created + 1 \in Pool!Contexts /\ created + 1 \in 0..PoolSize
    BY <1>1, <1>7 DEF Pool!Create, Pool!Contexts
  <2>. QED  BY <1>1, <1>3, <1>7, <2>1 DEF Pool!Create, Pool!HasLock, Pool!TypeOK
<1>8. CASE Pool!CreateFails(t)
  BY <1>1, <1>3, <1>8 DEF Pool!CreateFails, Pool!HasLock, Pool!TypeOK
<1>9. CASE Pool!GiveUpLock(t)
  BY <1>1, <1>2, <1>3, <1>5, <1>9
     DEF Pool!GiveUpLock, Pool!HasLock, Pool!Get, Pool!TakeIdle, Pool!TypeOK
<1>10. CASE Pool!Resume(t)
  BY <1>1, <1>2, <1>5, <1>10 DEF Pool!Resume, Pool!Get, Pool!TakeIdle, Pool!TypeOK
<1>11. CASE held[t] # Pool!NoContext /\ Pool!Release(t)
  <2>1. held[t] \in Pool!Contexts
    BY <1>1, <1>11
  <2>2. Append(idle, held[t]) \in Seq(Pool!Contexts)
    BY <1>1, <2>1, AppendProperties
  <2>. QED  BY <1>1, <1>4, <1>11, <2>2 DEF Pool!Release, Pool!TypeOK
<1>. QED  BY <1>6, <1>7, <1>8, <1>9, <1>10, <1>11 DEF PoolStep

Types == TypeOK /\ Going /\ Locked /\ Holding

LEMMA InitTypes == Init => Types
<1>. SUFFICES ASSUME Init PROVE Types
  OBVIOUS
<1>1. pc \in [Tasks -> Places] /\ attempt \in [Tasks -> 0..MaxAttempts]
  BY FetchAssumption DEF Init, Places
<1>2. Robots!TypeOK
  BY DEF Init, Robots!Init, Robots!TypeOK
<1>3. Limiter!TypeOK /\ Locked
  BY DEF Init, Limiter!Init, Limiter!TypeOK, Locked
<1>4. Pool!TypeOK
  BY FetchAssumption DEF Init, Pool!Init, Pool!TypeOK, Pool!PoolConstants
<1>5. Going /\ Holding
  BY FetchAssumption DEF Init, Going, Holding, Pool!Init
<1>. QED  BY <1>1, <1>2, <1>3, <1>4, <1>5 DEF Types, TypeOK

\* The task that a step is of, and where it goes.
LEMMA StepEffect ==
    ASSUME Types, NEW t \in Tasks, Step(t)
    PROVE  /\ \E next \in Places : pc' = [pc EXCEPT ![t] = next]
           /\ attempt' = attempt \/ (pc[t] = "start" /\ attempt' = [attempt EXCEPT ![t] = @ + 1])
<1>1. CASE Start(t)
  BY <1>1 DEF Start, Goto, Places
<1>2. CASE IsAllowed(t)
  BY <1>2 DEF IsAllowed, AfterRobots, Goto, Places
<1>3. CASE CrawlDelay(t) \/ RobotsEscape(t) \/ AskLimiter(t)
  BY <1>3 DEF CrawlDelay, RobotsEscape, AskLimiter, Goto, Places
<1>4. CASE Paced(t)
  <2>1. pc = [pc EXCEPT ![t] = pc[t]] /\ pc[t] \in Places
    BY DEF Types, TypeOK
  <2>2. attempt' = attempt
    BY <1>4 DEF Paced
  <2>3. pc' = pc \/ pc' = [pc EXCEPT ![t] = "context"] \/ pc' = [pc EXCEPT ![t] = "page"]
    BY <1>4 DEF Paced, Goto
  <2>. QED  BY <2>1, <2>2, <2>3 DEF Places
<1>5. CASE AskPool(t) \/ NoNewContext(t)
  BY <1>5 DEF AskPool, NoNewContext, Goto, Places
<1>6. CASE GetContext(t)
  <2>1. pc = [pc EXCEPT ![t] = pc[t]] /\ pc[t] \in Places
    BY DEF Types, TypeOK
  <2>2. attempt' = attempt
    BY <1>6 DEF GetContext
  <2>3. pc' = pc \/ pc' = [pc EXCEPT ![t] = "page"]
    BY <1>6 DEF GetContext, Goto
  <2>. QED  BY <2>1, <2>2, <2>3 DEF Places
<1>7. CASE Page(t)
  BY <1>7 DEF Page, Goto, Places
<1>. QED  BY <1>1, <1>2, <1>3, <1>4, <1>5, <1>6, <1>7 DEF Step

LEMMA GoingStep ==
    ASSUME Types, NEW t \in Tasks, Step(t)
    PROVE  Going'
<1>1. pc \in [Tasks -> Places] /\ attempt \in [Tasks -> 0..MaxAttempts]
  BY DEF Types, TypeOK
<1>2. \A u \in Tasks \ {t} : pc'[u] = pc[u] /\ attempt'[u] = attempt[u]
  BY <1>1, StepEffect
<1>3. pc'[t] \in {"context", "waiting"} => t \in BrowserTasks
  BY <1>1 DEF Step, Start, IsAllowed, AfterRobots, CrawlDelay, RobotsEscape, AskLimiter,
              Paced, AskPool, GetContext, NoNewContext, Page, Goto, Types, Going
<1>4. pc'[t] = "start" => attempt'[t] < MaxAttempts
  BY <1>1 DEF Step, Start, IsAllowed, AfterRobots, CrawlDelay, RobotsEscape, AskLimiter,
              Paced, AskPool, GetContext, NoNewContext, Page, Goto, Types, Going
<1>. QED  BY <1>2, <1>3, <1>4, FetchAssumption DEF Types, Going

\* In the pool, only the context of the task itself changes.
LEMMA PoolEffect ==
    ASSUME Types, NEW t \in BrowserTasks, PoolStep(t)
    PROVE  \A u \in BrowserTasks \ {t} : held'[u] = held[u]
BY DEF PoolStep, Pool!Acquire, Pool!Create, Pool!CreateFails, Pool!GiveUpLock, Pool!Resume,
       Pool!Release, Pool!Get, Pool!TakeIdle, Types, TypeOK, Pool!TypeOK

LEMMA HoldingStep ==
    ASSUME Types, NEW t \in Tasks, Step(t)
    PROVE  Holding'
<1>1. /\ pc \in [Tasks -> Places] /\ BrowserTasks \subseteq Tasks
      /\ held \in [BrowserTasks -> Pool!Contexts \cup {Pool!NoContext}]
  BY FetchAssumption DEF Types, TypeOK, Pool!TypeOK
<1>2. \A u \in Tasks \ {t} : pc'[u] = pc[u]
  BY <1>1, StepEffect
<1>3. CASE t \notin BrowserTasks
  <2>1. held' = held
    BY <1>3 DEF Step, Start, IsAllowed, CrawlDelay, RobotsEscape, AskLimiter, Paced, AskPool,
                GetContext, NoNewContext, Page, pool, Types, Going
  <2>. QED  BY <1>1, <1>2, <1>3, <2>1 DEF Types, Holding
<1>4. CASE t \in BrowserTasks
  <2>1. \A u \in BrowserTasks \ {t} : held'[u] = held[u]
    BY <1>4, PoolEffect DEF Types, Holding, Step, Start, IsAllowed, CrawlDelay, RobotsEscape, AskLimiter,
       Paced, AskPool, GetContext, NoNewContext, Page, pool, PoolStep
  <2>2. CASE Start(t) \/ IsAllowed(t) \/ CrawlDelay(t) \/ RobotsEscape(t) \/ AskLimiter(t)
             \/ Paced(t)
    <3>1. held' = held /\ pc[t] # "page" /\ pc'[t] # "page"
      BY <1>1, <1>4, <2>2 DEF Start, IsAllowed, AfterRobots, CrawlDelay, RobotsEscape,
         AskLimiter, Paced, pool, Goto
    <3>. QED  BY <1>1, <1>2, <3>1 DEF Types, Holding
  <2>3. CASE AskPool(t) \/ GetContext(t)
    <3>1. pc[t] # "page" /\ (held'[t] # Pool!NoContext <=> pc'[t] = "page")
      BY <1>1, <2>3 DEF AskPool, GetContext, Goto
    <3>. QED  BY <1>1, <1>2, <2>1, <3>1 DEF Types, Holding
  <2>4. CASE NoNewContext(t)
    <3>1. held' = held /\ pc[t] # "page" /\ pc'[t] # "page"
      BY <1>1, <2>4 DEF NoNewContext, Pool!CreateFails, Goto
    <3>. QED  BY <1>1, <1>2, <3>1 DEF Types, Holding
  <2>5. CASE Page(t)
    <3>1. held'[t] = Pool!NoContext /\ pc'[t] # "page"
      BY <1>1, <1>4, <2>5 DEF Page, Pool!Release, Goto
    <3>. QED  BY <1>1, <1>2, <2>1, <3>1 DEF Types, Holding
  <2>. QED  BY <2>2, <2>3, <2>4, <2>5 DEF Step
<1>. QED  BY <1>3, <1>4

LEMMA NextTypes == Types /\ [Next]_vars => Types'
<1>. SUFFICES ASSUME Types, [Next]_vars PROVE Types'
  OBVIOUS
<1>1. Robots!TypeOK' /\ Limiter!TypeOK' /\ Locked'
  BY ComponentSteps, RobotsTypes, LimiterTypes DEF Types, TypeOK
<1>2. CASE UNCHANGED vars
  BY <1>1, <1>2 DEF vars, Types, TypeOK, Pool!TypeOK, Going, Holding
<1>3. CASE Tick
  BY <1>1, <1>3 DEF Tick, pool, Types, TypeOK, Pool!TypeOK, Going, Holding
<1>4. ASSUME NEW t \in Tasks, Step(t) PROVE Types'
  <2>1. pc' \in [Tasks -> Places]
    BY <1>4, StepEffect DEF Types, TypeOK
  <2>2. attempt' \in [Tasks -> 0..MaxAttempts]
    <3>1. attempt \in [Tasks -> 0..MaxAttempts] /\ MaxAttempts \in Nat
          /\ (pc[t] = "start" => attempt[t] + 1 \in 0..MaxAttempts)
      BY FetchAssumption DEF Types, TypeOK, Going
    <3>. QED  BY <1>4, <3>1, StepEffect
  <2>3. Pool!TypeOK'
    <3>1. CASE UNCHANGED pool
      BY <3>1 DEF pool, Types, TypeOK, Pool!TypeOK
    <3>2. CASE AskPool(t) \/ GetContext(t) \/ NoNewContext(t)
      <4>1. t \in BrowserTasks /\ PoolStep(t)
        BY <3>2 DEF AskPool, GetContext, NoNewContext, PoolStep, Types, Going
      <4>. QED  BY <4>1, PoolTypes DEF Types, TypeOK
    <3>3. CASE Page(t)
      <4>1. CASE t \in BrowserTasks
        BY <3>3, <4>1, PoolTypes DEF Page, PoolStep, Types, TypeOK, Holding
      <4>2. CASE t \notin BrowserTasks
        BY <3>1, <3>3, <4>2 DEF Page
      <4>. QED  BY <4>1, <4>2
    <3>. QED
      BY <1>4, <3>1, <3>2, <3>3 DEF Step, Start, IsAllowed, CrawlDelay, RobotsEscape,
         AskLimiter, Paced
  <2>. QED  BY <1>1, <1>4, <2>1, <2>2, <2>3, GoingStep, HoldingStep DEF Types, TypeOK
<1>. QED  BY <1>2, <1>3, <1>4 DEF Next

LEMMA TypesInvariant == Spec => []Types
BY InitTypes, NextTypes, PTL DEF Spec

THEOREM TypeCorrect == Spec => []TypeOK
<1>1. Types => TypeOK
  BY DEF Types
<1>. QED  BY <1>1, TypesInvariant, PTL

-----------------------------------------------------------------------------
(* robots.txt *)

\* The rules of an origin are what the one answer about it says.
Answer(o, s) ==
    /\ parsers[o] = Robots!Parsed(o, s)
    /\ answered[o] = <<Robots!Outcome(s)>>

RulesInv ==
    \A o \in Origins :
        \/ parsers[o] = Robots!Unknown /\ answered[o] = <<>>
        \/ \E s \in Robots!Statuses : Answer(o, s)

\* The places of a task that robots.txt has let through.
Through == {"allowed", "delay?", "pace", "paced", "context", "waiting", "page"}

ThroughInv ==
    \A t \in Tasks : pc[t] \in Through =>
        /\ parsers[OriginOf[t]] # Robots!Unknown
        /\ t \in parsers[OriginOf[t]].allowed

RobotsInv == RulesInv /\ ThroughInv

LEMMA ParsedIsKnown ==
    ASSUME NEW o \in Origins, NEW s \in Robots!Statuses
    PROVE  Robots!Parsed(o, s) # Robots!Unknown
<1>1. Published[o] \in Robots!Rules
  BY FetchAssumption DEF Robots!RobotsConstants
<1>2. Robots!Parsed(o, s) \in Robots!Rules
  BY <1>1 DEF Robots!Parsed, Robots!Rules, Robots!FullyPermissive, Robots!FullyDisallowed
<1>3. Robots!Unknown \notin Robots!Rules
  BY DEF Robots!Unknown, Robots!Rules
<1>. QED  BY <1>2, <1>3

\* Rules that are known stay as they are.
LEMMA RulesStep ==
    ASSUME RulesInv, Robots!TypeOK, RobotsStep
    PROVE  /\ RulesInv'
           /\ \A o \in Origins : parsers[o] # Robots!Unknown =>
                  parsers'[o] = parsers[o] /\ answered'[o] = answered[o]
<1>1. CASE UNCHANGED <<parsers, answered>>
  BY <1>1 DEF RulesInv, Answer
<1>2. ASSUME NEW t \in Tasks, Robots!LookUp(t), ~UNCHANGED <<parsers, answered>>
      PROVE  /\ RulesInv'
             /\ \A o \in Origins : parsers[o] # Robots!Unknown =>
                    parsers'[o] = parsers[o] /\ answered'[o] = answered[o]
  <2>. DEFINE p == OriginOf[t]
  <2>1. p \in Origins
    BY FetchAssumption DEF Robots!RobotsConstants
  <2>2. parsers[p] = Robots!Unknown
    BY <1>2 DEF Robots!LookUp, Robots!Known
  <2>3. PICK s \in Robots!Statuses :
            /\ parsers' = [parsers EXCEPT ![p] = Robots!Parsed(p, s)]
            /\ answered' = [answered EXCEPT ![p] = Append(@, Robots!Outcome(s))]
    BY <1>2 DEF Robots!LookUp
  <2>4. answered[p] = <<>>
    BY <2>1, <2>2, ParsedIsKnown DEF RulesInv, Answer
  <2>5. \A o \in Origins \ {p} : parsers'[o] = parsers[o] /\ answered'[o] = answered[o]
    BY <2>1, <2>3 DEF Robots!TypeOK
  <2>6. parsers'[p] = Robots!Parsed(p, s) /\ answered'[p] = <<Robots!Outcome(s)>>
    BY <2>1, <2>3, <2>4 DEF Robots!TypeOK
  <2>7. RulesInv'
    BY <2>5, <2>6 DEF RulesInv, Answer
  <2>. QED  BY <2>2, <2>5, <2>7
<1>. QED
  BY <1>1, <1>2 DEF RobotsStep, robots, Robots!Ask, Robots!LookUpFails

LEMMA ThroughStep ==
    ASSUME Types, RobotsInv, NEW t \in Tasks, Step(t)
    PROVE  ThroughInv'
<1>1. \A o \in Origins : parsers[o] # Robots!Unknown => parsers'[o] = parsers[o]
  BY RulesStep, ComponentSteps DEF Types, TypeOK, RobotsInv, Next
<1>2. \A u \in Tasks : OriginOf[u] \in Origins
  BY FetchAssumption DEF Robots!RobotsConstants
<1>3. pc \in [Tasks -> Places]
  BY DEF Types, TypeOK
<1>4. \A u \in Tasks \ {t} : pc'[u] = pc[u]
  BY <1>3, StepEffect
<1>5. CASE IsAllowed(t)
  <2>. DEFINE o == OriginOf[t]
  <2>1. pc'[t] \in Through => t \in parsers'[o].allowed
    BY <1>3, <1>5 DEF IsAllowed, AfterRobots, Goto, Through
  <2>2. parsers'[o] # Robots!Unknown
    <3>1. CASE parsers[o] # Robots!Unknown
      BY <1>1, <1>2, <3>1
    <3>2. CASE parsers[o] = Robots!Unknown
      <4>1. PICK s \in Robots!Statuses :
                parsers' = [parsers EXCEPT ![o] = Robots!Parsed(o, s)]
        BY <1>5, <3>2 DEF IsAllowed, Robots!LookUp, Robots!Known
      <4>. QED  BY <1>2, <4>1, ParsedIsKnown DEF Types, TypeOK, Robots!TypeOK
    <3>. QED  BY <3>1, <3>2
  <2>. QED  BY <1>1, <1>2, <1>4, <2>1, <2>2 DEF RobotsInv, ThroughInv
<1>6. CASE ~IsAllowed(t)
  <2>1. pc'[t] \in Through => pc[t] \in Through
    BY <1>3, <1>6 DEF Step, Start, CrawlDelay, RobotsEscape, AskLimiter, Paced, AskPool,
       GetContext, NoNewContext, Page, Goto, Through
  <2>. QED  BY <1>1, <1>2, <1>4, <2>1 DEF RobotsInv, ThroughInv
<1>. QED  BY <1>5, <1>6

LEMMA NextRobots == Types /\ RobotsInv /\ [Next]_vars => RobotsInv'
<1>. SUFFICES ASSUME Types, RobotsInv, [Next]_vars PROVE RobotsInv'
  OBVIOUS
<1>1. RulesInv'
  BY RulesStep, ComponentSteps DEF Types, TypeOK, RobotsInv
<1>2. CASE UNCHANGED vars \/ Tick
  BY <1>1, <1>2 DEF vars, Tick, robots, RobotsInv, ThroughInv
<1>. QED  BY <1>1, <1>2, ThroughStep DEF Next, RobotsInv

LEMMA InitRobots == Init => RobotsInv
BY FetchAssumption
   DEF Init, Robots!Init, RobotsInv, RulesInv, ThroughInv, Through

LEMMA RobotsInvariant == Spec => []RobotsInv
BY InitRobots, NextRobots, TypesInvariant, PTL DEF Spec

\* No task is let through unless the one answer about its origin permits it.
THEOREM Respected == Spec => []RobotsRespected
<1>1. RobotsInv => RobotsRespected
  <2>. SUFFICES ASSUME RobotsInv PROVE RobotsRespected
    OBVIOUS
  <2>1. Robots!ReadOnce
    <3>. SUFFICES ASSUME NEW o \in Origins PROVE Len(answered[o]) <= 1
      BY DEF Robots!ReadOnce
    <3>1. answered[o] = <<>> \/ \E x : answered[o] = <<x>>
      BY DEF RobotsInv, RulesInv, Answer
    <3>2. CASE answered[o] = <<>>
      BY <3>2
    <3>3. ASSUME NEW x, answered[o] = <<x>> PROVE Len(answered[o]) <= 1
      BY <3>3
    <3>. QED  BY <3>1, <3>2, <3>3
  <2>2. ASSUME NEW t \in Tasks,
               pc[t] \in {"pace", "paced", "context", "waiting", "page"}
        PROVE  Robots!Permitted(t)
    <3>. DEFINE o == OriginOf[t]
    <3>1. o \in Origins
      BY FetchAssumption DEF Robots!RobotsConstants
    <3>2. parsers[o] # Robots!Unknown /\ t \in parsers[o].allowed
      BY <2>2 DEF RobotsInv, ThroughInv, Through
    <3>3. PICK s \in Robots!Statuses : Answer(o, s)
      BY <3>1, <3>2 DEF RobotsInv, RulesInv
    <3>4. 1 \in DOMAIN answered[o] /\ answered[o][1] = Robots!Outcome(s)
      BY <3>3 DEF Answer
    <3>5. CASE s = 200
      BY <3>2, <3>3, <3>4, <3>5
         DEF Answer, Robots!Parsed, Robots!Outcome, Robots!Permitted
    <3>6. CASE s = 404
      BY <3>4, <3>6 DEF Robots!Outcome, Robots!Permitted
    <3>7. CASE s \notin {200, 404}
      BY <3>2, <3>3, <3>7
         DEF Answer, Robots!Parsed, Robots!FullyDisallowed, Robots!Statuses, Robots!NoAnswer
    <3>. QED  BY <3>5, <3>6, <3>7
  <2>. QED  BY <2>1, <2>2 DEF RobotsRespected
<1>. QED  BY <1>1, RobotsInvariant, PTL

-----------------------------------------------------------------------------
(* The contexts. *)

\* Where each context is, number by number.
ContextInv ==
    /\ \A i \in 1..Len(idle) : idle[i] \in 1..created
    /\ \A t \in BrowserTasks : held[t] \in 0..created
    /\ \A i, j \in 1..Len(idle) : idle[i] = idle[j] => i = j
    /\ \A t, u \in BrowserTasks : held[t] = held[u] /\ held[t] # 0 => t = u
    /\ \A i \in 1..Len(idle), t \in BrowserTasks : idle[i] # held[t]
    /\ \A c \in 1..created : \/ \E i \in 1..Len(idle) : idle[i] = c
                             \/ \E t \in BrowserTasks : held[t] = c

LEMMA InitContext == Init => ContextInv
BY DEF Init, Pool!Init, Pool!NoContext, ContextInv

\* A task without a context takes the first that is idle.
LEMMA TakeContext ==
    ASSUME Pool!TypeOK, ContextInv, NEW t \in BrowserTasks, held[t] = 0,
           idle # <<>>, Pool!TakeIdle(t), created' = created
    PROVE  ContextInv'
<1>1. /\ idle \in Seq(Pool!Contexts) /\ Len(idle) \in Nat /\ Len(idle) > 0
      /\ created \in Nat
      /\ Head(idle) = idle[1] /\ Len(Tail(idle)) = Len(idle) - 1
      /\ \A i \in 1..Len(Tail(idle)) : Tail(idle)[i] = idle[i + 1]
  BY FetchAssumption, HeadTailProperties, EmptySeq DEF Pool!TypeOK, Pool!PoolConstants
<1>2. /\ held'[t] = idle[1]
      /\ \A u \in BrowserTasks \ {t} : held'[u] = held[u]
      /\ Len(idle') = Len(idle) - 1
      /\ \A i \in 1..Len(idle') : i + 1 \in 1..Len(idle) /\ idle'[i] = idle[i + 1]
      /\ 1 \in 1..Len(idle)
  BY <1>1 DEF Pool!TakeIdle, Pool!TypeOK
<1>3. /\ \A i \in 1..Len(idle') : idle'[i] \in 1..created'
      /\ \A u \in BrowserTasks : held'[u] \in 0..created'
  <2>1. \A i \in 1..Len(idle') : idle'[i] \in 1..created'
    <3>. SUFFICES ASSUME NEW i \in 1..Len(idle') PROVE idle[i + 1] \in 1..created
      BY <1>2
    <3>. QED  BY <1>2 DEF ContextInv
  <2>2. idle[1] \in 0..created
    BY <1>1, <1>2 DEF ContextInv
  <2>. QED  BY <1>2, <2>1, <2>2 DEF ContextInv
<1>4. \A i, j \in 1..Len(idle') : idle'[i] = idle'[j] => i = j
  <2>. SUFFICES ASSUME NEW i \in 1..Len(idle'), NEW j \in 1..Len(idle'), idle'[i] = idle'[j]
                PROVE  i = j
    OBVIOUS
  <2>1. i + 1 \in 1..Len(idle) /\ j + 1 \in 1..Len(idle) /\ idle[i + 1] = idle[j + 1]
    BY <1>2
  <2>2. i + 1 = j + 1
    BY <2>1 DEF ContextInv
  <2>. QED  BY <2>2
<1>5. \A u, v \in BrowserTasks : held'[u] = held'[v] /\ held'[u] # 0 => u = v
  BY <1>1, <1>2 DEF ContextInv
<1>6. \A i \in 1..Len(idle'), u \in BrowserTasks : idle'[i] # held'[u]
  <2>. SUFFICES ASSUME NEW i \in 1..Len(idle'), NEW u \in BrowserTasks
                PROVE  idle[i + 1] # held'[u]
    BY <1>2
  <2>1. i + 1 \in 1..Len(idle) /\ i + 1 # 1
    BY <1>2
  <2>2. CASE u = t
    BY <1>2, <2>1, <2>2 DEF ContextInv
  <2>3. CASE u # t
    BY <1>2, <2>1, <2>3 DEF ContextInv
  <2>. QED  BY <2>2, <2>3
<1>7. ASSUME NEW c \in 1..created'
      PROVE  \/ \E i \in 1..Len(idle') : idle'[i] = c
             \/ \E u \in BrowserTasks : held'[u] = c
  <2>1. c \in 1..created
    OBVIOUS
  <2>2. ASSUME NEW i \in 1..Len(idle), idle[i] = c
        PROVE  \/ \E j \in 1..Len(idle') : idle'[j] = c
               \/ \E u \in BrowserTasks : held'[u] = c
    <3>1. CASE i = 1
      BY <1>2, <2>2, <3>1
    <3>2. CASE i # 1
      <4>1. i - 1 \in 1..Len(idle') /\ idle'[i - 1] = c
        BY <1>1, <1>2, <2>2, <3>2
      <4>. QED  BY <4>1
    <3>. QED  BY <3>1, <3>2
  <2>3. ASSUME NEW u \in BrowserTasks, held[u] = c PROVE held'[u] = c
    BY <1>1, <1>2, <2>1, <2>3
  <2>. QED  BY <2>1, <2>2, <2>3 DEF ContextInv
<1>. QED  BY <1>3, <1>4, <1>5, <1>6, <1>7 DEF ContextInv

LEMMA CreateContext ==
    ASSUME Pool!TypeOK, ContextInv, NEW t \in BrowserTasks, held[t] = 0, Pool!Create(t)
    PROVE  ContextInv'
<1>1. created \in Nat
  BY FetchAssumption DEF Pool!TypeOK, Pool!PoolConstants
<1>2. /\ created' = created + 1 /\ held'[t] = created + 1 /\ idle' = idle
      /\ \A u \in BrowserTasks \ {t} : held'[u] = held[u]
  BY DEF Pool!Create, Pool!TypeOK
<1>3. /\ \A i \in 1..Len(idle') : idle'[i] \in 1..created'
      /\ \A u \in BrowserTasks : held'[u] \in 0..created'
  BY <1>1, <1>2 DEF ContextInv
<1>4. \A i, j \in 1..Len(idle') : idle'[i] = idle'[j] => i = j
  BY <1>2 DEF ContextInv
<1>5. \A u, v \in BrowserTasks : held'[u] = held'[v] /\ held'[u] # 0 => u = v
  BY <1>1, <1>2 DEF ContextInv
<1>6. \A i \in 1..Len(idle'), u \in BrowserTasks : idle'[i] # held'[u]
  BY <1>1, <1>2 DEF ContextInv
<1>7. ASSUME NEW c \in 1..created'
      PROVE  \/ \E i \in 1..Len(idle') : idle'[i] = c
             \/ \E u \in BrowserTasks : held'[u] = c
  <2>1. c \in 1..created \/ c = created + 1
    BY <1>1, <1>2
  <2>2. \A u \in BrowserTasks : held[u] = c /\ c \in 1..created => held'[u] = c
    BY <1>1, <1>2
  <2>. QED  BY <1>2, <2>1, <2>2 DEF ContextInv
<1>. QED  BY <1>3, <1>4, <1>5, <1>6, <1>7 DEF ContextInv

LEMMA ReleaseContext ==
    ASSUME Pool!TypeOK, ContextInv, NEW t \in BrowserTasks, held[t] # 0, Pool!Release(t)
    PROVE  ContextInv'
<1>1. /\ idle \in Seq(Pool!Contexts) /\ Len(idle) \in Nat /\ created \in Nat
      /\ held[t] \in Pool!Contexts
  BY FetchAssumption DEF Pool!TypeOK, Pool!PoolConstants, Pool!NoContext
<1>2. /\ Len(Append(idle, held[t])) = Len(idle) + 1
      /\ \A i \in 1..Len(idle) : Append(idle, held[t])[i] = idle[i]
      /\ Append(idle, held[t])[Len(idle) + 1] = held[t]
  BY <1>1, AppendProperties
<1>3. /\ Len(idle') = Len(idle) + 1
      /\ \A i \in 1..Len(idle) : idle'[i] = idle[i]
      /\ idle'[Len(idle) + 1] = held[t]
      /\ held'[t] = 0 /\ created' = created
      /\ \A u \in BrowserTasks \ {t} : held'[u] = held[u]
  BY <1>2 DEF Pool!Release, Pool!TypeOK, Pool!NoContext
<1>4. /\ \A i \in 1..Len(idle') : idle'[i] \in 1..created'
      /\ \A u \in BrowserTasks : held'[u] \in 0..created'
  <2>1. held[t] \in 1..created
    BY <1>1 DEF ContextInv
  <2>2. \A i \in 1..Len(idle') : i \in 1..Len(idle) \/ i = Len(idle) + 1
    BY <1>1, <1>3
  <2>3. \A i \in 1..Len(idle') : idle'[i] \in 1..created'
    BY <1>3, <2>1, <2>2 DEF ContextInv
  <2>4. \A u \in BrowserTasks : held'[u] \in 0..created'
    BY <1>1, <1>3 DEF ContextInv
  <2>. QED  BY <2>3, <2>4
<1>5. \A i, j \in 1..Len(idle') : idle'[i] = idle'[j] => i = j
  BY <1>1, <1>3 DEF ContextInv
<1>6. \A u, v \in BrowserTasks : held'[u] = held'[v] /\ held'[u] # 0 => u = v
  BY <1>1, <1>3 DEF ContextInv
<1>7. \A i \in 1..Len(idle'), u \in BrowserTasks : idle'[i] # held'[u]
  BY <1>1, <1>3 DEF ContextInv
<1>8. ASSUME NEW c \in 1..created'
      PROVE  \/ \E i \in 1..Len(idle') : idle'[i] = c
             \/ \E u \in BrowserTasks : held'[u] = c
  <2>1. c \in 1..created /\ Len(idle) + 1 \in 1..Len(idle')
        /\ \A i \in 1..Len(idle) : i \in 1..Len(idle')
    BY <1>1, <1>3
  <2>2. \/ \E i \in 1..Len(idle) : idle[i] = c
        \/ \E u \in BrowserTasks : held[u] = c
    BY <2>1 DEF ContextInv
  <2>. QED  BY <1>3, <2>1, <2>2
<1>. QED  BY <1>4, <1>5, <1>6, <1>7, <1>8 DEF ContextInv

LEMMA NextContext == Types /\ ContextInv /\ [Next]_vars => ContextInv'
<1>. SUFFICES ASSUME Types, ContextInv, [Next]_vars PROVE ContextInv'
  OBVIOUS
<1>1. CASE UNCHANGED <<idle, created, held>>
  BY <1>1 DEF ContextInv
<1>2. Pool!TypeOK
  BY DEF Types, TypeOK
<1>3. CASE UNCHANGED vars \/ Tick
  BY <1>1, <1>3 DEF vars, Tick, pool
<1>4. ASSUME NEW t \in Tasks, AskPool(t) \/ GetContext(t) PROVE ContextInv'
  <2>1. t \in BrowserTasks /\ held[t] = 0
    BY <1>4 DEF AskPool, GetContext, Types, Going, Holding, Pool!NoContext
  <2>2. CASE Pool!Create(t)
    BY <1>2, <2>1, <2>2, CreateContext
  <2>3. CASE idle # <<>> /\ Pool!TakeIdle(t) /\ created' = created
    BY <1>2, <2>1, <2>3, TakeContext
  <2>. QED
    BY <1>1, <1>4, <2>2, <2>3 DEF AskPool, GetContext, Pool!Acquire, Pool!GiveUpLock,
       Pool!Resume, Pool!Get
<1>5. ASSUME NEW t \in Tasks, Page(t) PROVE ContextInv'
  <2>1. CASE t \in BrowserTasks
    BY <1>2, <1>5, <2>1, ReleaseContext DEF Page, Types, Holding, Pool!NoContext
  <2>2. CASE t \notin BrowserTasks
    BY <1>1, <1>5, <2>2 DEF Page, pool
  <2>. QED  BY <2>1, <2>2
<1>6. ASSUME NEW t \in Tasks, NoNewContext(t) PROVE ContextInv'
  BY <1>1, <1>6 DEF NoNewContext, Pool!CreateFails
<1>7. ASSUME NEW t \in Tasks,
             Start(t) \/ IsAllowed(t) \/ CrawlDelay(t) \/ RobotsEscape(t) \/ AskLimiter(t)
                 \/ Paced(t)
      PROVE  ContextInv'
  BY <1>1, <1>7 DEF Start, IsAllowed, CrawlDelay, RobotsEscape, AskLimiter, Paced, pool
<1>. QED  BY <1>3, <1>4, <1>5, <1>6, <1>7 DEF Next, Step

LEMMA ContextInvariant == Spec => []ContextInv
BY InitContext, NextContext, TypesInvariant, PTL DEF Spec

\* However many tasks, contexts and failures: each context is in one place.
THEOREM Exclusive == Spec => []ContextsAreExclusive
<1>1. Types /\ ContextInv => ContextsAreExclusive
  <2>. SUFFICES ASSUME Types, ContextInv PROVE ContextsAreExclusive
    OBVIOUS
  <2>1. created \in Nat /\ DOMAIN idle = 1..Len(idle)
    BY FetchAssumption DEF Types, TypeOK, Pool!TypeOK, Pool!PoolConstants
  <2>2. {idle[i] : i \in DOMAIN idle} \cap {held[t] : t \in BrowserTasks} = {}
    BY <2>1 DEF ContextInv
  <2>3. {idle[i] : i \in DOMAIN idle} \cup {held[t] : t \in BrowserTasks}
            \cup {Pool!NoContext} = 0..created
    <3>1. \A c \in 0..created : c = 0 \/ c \in 1..created
      BY <2>1
    <3>2. \A c \in 1..created : c \in 0..created
      BY <2>1
    <3>3. 0 \in 0..created
      BY <2>1
    <3>. QED  BY <2>1, <3>1, <3>2, <3>3 DEF ContextInv, Pool!NoContext
  <2>4. Pool!EachContextInOnePlace
    BY <2>1, <2>2, <2>3 DEF ContextInv, Pool!EachContextInOnePlace, Pool!NoContext
  <2>. QED  BY <2>4 DEF ContextsAreExclusive, Types, Holding
<1>. QED  BY <1>1, TypesInvariant, ContextInvariant, PTL

-----------------------------------------------------------------------------
(* The pace. *)

\* A bucket at a rate, and the ages of the tokens it granted: the later are
\* the younger, and it was refilled since.
Aging(g, since) ==
    /\ \A i \in 1..Len(g) : since <= g[i]
    /\ \A i, j \in 1..Len(g) : i <= j => g[j] <= g[i]

\* Since any grant, what was granted and what is there now is no more than a
\* full bucket and what was gained.
Credit(g, tokens, since, rate) ==
    \A i \in 1..Len(g) : g[i] < Horizon =>
        (Len(g) - i + 1) * Unit + tokens + since * rate <= Burst * Unit + g[i] * rate

Stretches(g, rate) ==
    \A i \in 1..Len(g) : \A j \in i..Len(g) : g[i] < Horizon =>
        (j - i + 1) * Unit <= Burst * Unit + (g[i] - g[j]) * rate

Kept(g, b) ==
    /\ Aging(g, b.since)
    /\ Credit(g, b.tokens, b.since, b.rate)
    /\ Stretches(g, b.rate)

RateOf(o) == IF RespectCrawlDelay /\ parsers[o].slow THEN SlowRate ELSE NormalRate

\* The rate is what robots.txt asks for in one of the origins of a netloc.
RateAsked(netloc, rate) ==
    \E o \in Origins : /\ NetlocOf[o] = netloc
                       /\ parsers[o] # Robots!Unknown
                       /\ rate = RateOf(o)

BucketInv(k) ==
    IF bucket[k] = Limiter!NoBucket THEN grants[k] = <<>>
    ELSE RateAsked(k[2], bucket[k].rate) /\ Kept(grants[k], bucket[k])

PaceInv == \A k \in Keys : BucketInv(k)

LEMMA Product ==
    \A a, r \in Nat : a * r \in Nat /\ (a + 1) * r = a * r + r
OBVIOUS

\* What is known of a bucket, for arithmetic.
LEMMA BucketFacts ==
    ASSUME Limiter!TypeOK, NEW k \in Keys, bucket[k] # Limiter!NoBucket
    PROVE  /\ bucket[k] \in Limiter!Bucket
           /\ bucket[k].rate \in Nat /\ bucket[k].tokens \in Nat
           /\ bucket[k].since \in 0..Horizon
           /\ grants[k] \in Seq(0..Horizon) /\ Len(grants[k]) \in Nat
           /\ \A i \in 1..Len(grants[k]) : grants[k][i] \in 0..Horizon
<1>1. bucket[k] \in Limiter!Bucket /\ grants[k] \in Seq(0..Horizon)
  BY DEF Limiter!TypeOK
<1>2. bucket[k].since \in 0..Horizon
  BY <1>1 DEF Limiter!Bucket
<1>. QED  BY <1>1, <1>2, LimiterFacts, ElementOfSeq, LenProperties

\* Time passes for the bucket and for its grants alike, but for those that
\* are not told apart any more.
LEMMA KeptTick ==
    ASSUME Limiter!TypeOK, NEW k \in Keys, bucket[k] # Limiter!NoBucket,
           Kept(grants[k], bucket[k]), Limiter!Tick
    PROVE  Kept(grants'[k], bucket'[k])
<1>. DEFINE g == grants[k]  h == grants'[k]
            rate == bucket[k].rate  tokens == bucket[k].tokens  since == bucket[k].since
            full == Burst * Unit
<1>1. /\ rate \in Nat /\ tokens \in Nat /\ since \in 0..Horizon
      /\ Len(g) \in Nat /\ \A i \in 1..Len(g) : g[i] \in 0..Horizon
      /\ Horizon \in Nat /\ Unit \in Nat /\ full \in Nat
  BY BucketFacts, LimiterFacts
<1>2. /\ bucket'[k].rate = rate /\ bucket'[k].tokens = tokens
      /\ bucket'[k].since = Limiter!Later(since)
  BY DEF Limiter!Tick
<1>3. Len(h) = Len(g) /\ \A i \in 1..Len(g) : h[i] = Limiter!Later(g[i])
  BY <1>1 DEF Limiter!Tick
<1>4. /\ Aging(g, since) /\ Credit(g, tokens, since, rate) /\ Stretches(g, rate)
  BY DEF Kept
<1>5. /\ \A i \in 1..Len(g) : h[i] \in 0..Horizon
      /\ \A i \in 1..Len(g) : h[i] < Horizon => g[i] < Horizon /\ h[i] = g[i] + 1
      /\ \A i \in 1..Len(g) : g[i] < Horizon => h[i] = g[i] + 1
      /\ \A i \in 1..Len(g) : g[i] = Horizon => h[i] = Horizon
  <2>. SUFFICES ASSUME NEW i \in 1..Len(g)
                PROVE  /\ h[i] \in 0..Horizon
                       /\ h[i] < Horizon => g[i] < Horizon /\ h[i] = g[i] + 1
                       /\ g[i] < Horizon => h[i] = g[i] + 1
                       /\ g[i] = Horizon => h[i] = Horizon
    OBVIOUS
  <2>. DEFINE age == g[i]  later == Limiter!Later(g[i])
  <2>1. age \in 0..Horizon
    BY <1>1
  <2>2. h[i] = later
    BY <1>3
  <2>3. /\ later \in 0..Horizon
        /\ age < Horizon => later = age + 1
        /\ age = Horizon => later = Horizon
    BY <2>1, LaterFacts
  <2>4. Horizon \in Nat
    BY <1>1
  <2>. HIDE DEF g, h, later
  <2>. QED  BY <2>1, <2>2, <2>3, <2>4
<1>6. /\ Limiter!Later(since) \in 0..Horizon
      /\ since < Horizon => Limiter!Later(since) = since + 1
      /\ since = Horizon => Limiter!Later(since) = Horizon
  BY <1>1, LaterFacts
<1>. HIDE DEF g, h, rate, tokens, since, full
<1>7. Aging(h, Limiter!Later(since))
  <2>1. ASSUME NEW i \in 1..Len(h) PROVE Limiter!Later(since) <= h[i]
    BY <1>1, <1>3, <1>4, <1>5, <1>6 DEF Aging
  <2>2. ASSUME NEW i \in 1..Len(h), NEW j \in 1..Len(h), i <= j PROVE h[j] <= h[i]
    <3>1. g[j] <= g[i] /\ g[i] \in 0..Horizon /\ g[j] \in 0..Horizon
      BY <1>1, <1>3, <1>4, <2>2 DEF Aging
    <3>2. i \in 1..Len(g) /\ j \in 1..Len(g)
      BY <1>3
    <3>3. CASE g[i] < Horizon
      <4>1. h[i] = g[i] + 1 /\ h[j] = g[j] + 1
        BY <1>1, <1>5, <3>1, <3>2, <3>3
      <4>. QED  BY <3>1, <4>1
    <3>4. CASE g[i] = Horizon
      BY <1>1, <1>5, <3>2, <3>4
    <3>. QED  BY <1>1, <3>1, <3>3, <3>4
  <2>. QED  BY <2>1, <2>2 DEF Aging
<1>8. Credit(h, tokens, Limiter!Later(since), rate)
  <2>. SUFFICES ASSUME NEW i \in 1..Len(h), h[i] < Horizon
                PROVE  (Len(h) - i + 1) * Unit + tokens + Limiter!Later(since) * rate
                           <= full + h[i] * rate
    BY DEF Credit, full
  <2>1. g[i] < Horizon /\ h[i] = g[i] + 1 /\ since < Horizon /\ g[i] \in Nat
        /\ Limiter!Later(since) = since + 1
    BY <1>1, <1>3, <1>4, <1>5, <1>6 DEF Aging
  <2>2. (Len(g) - i + 1) * Unit + tokens + since * rate <= full + g[i] * rate
    BY <1>3, <1>4, <2>1 DEF Credit, full
  <2>3. (since + 1) * rate = since * rate + rate /\ (g[i] + 1) * rate = g[i] * rate + rate
        /\ since * rate \in Nat /\ g[i] * rate \in Nat
    <3>1. since \in Nat /\ g[i] \in Nat /\ rate \in Nat
      BY <1>1, <2>1
    <3>. QED  BY <3>1, Product
  <2>4. (Len(g) - i + 1) * Unit \in Int
    BY <1>1, <1>3
  <2>. QED  BY <1>1, <1>3, <2>1, <2>2, <2>3, <2>4
<1>9. Stretches(h, rate)
  <2>. SUFFICES ASSUME NEW i \in 1..Len(h), NEW j \in i..Len(h), h[i] < Horizon
                PROVE  (j - i + 1) * Unit <= full + (h[i] - h[j]) * rate
    BY DEF Stretches, full
  <2>1. i \in 1..Len(g) /\ j \in 1..Len(g) /\ i <= j /\ j \in i..Len(g)
    BY <1>1, <1>3
  <2>2. g[i] < Horizon /\ h[i] = g[i] + 1 /\ g[j] <= g[i] /\ g[i] \in Nat /\ g[j] \in Nat
    <3>1. g[i] < Horizon /\ h[i] = g[i] + 1
      BY <1>5, <2>1
    <3>2. g[j] <= g[i]
      BY <1>4, <2>1 DEF Aging
    <3>3. g[i] \in Nat /\ g[j] \in Nat
      BY <1>1, <2>1
    <3>. QED  BY <3>1, <3>2, <3>3
  <2>3. h[j] = g[j] + 1
    BY <1>1, <1>5, <2>1, <2>2
  <2>4. h[i] - h[j] = g[i] - g[j]
    BY <2>2, <2>3
  <2>. QED  BY <1>4, <2>1, <2>2, <2>4 DEF Stretches, full
<1>. QED  BY <1>2, <1>7, <1>8, <1>9 DEF Kept, h

\* A refill turns what was gained into tokens, and loses what is too much.
LEMMA KeptPace ==
    ASSUME Limiter!TypeOK, NEW k \in Keys, bucket[k] # Limiter!NoBucket,
           Kept(grants[k], bucket[k]), NEW t \in Tasks, Limiter!Pace(t, k)
    PROVE  Kept(grants'[k], bucket'[k])
<1>. DEFINE g == grants[k]
            rate == bucket[k].rate  tokens == bucket[k].tokens  since == bucket[k].since
            full == Burst * Unit  refilled == Limiter!Refilled(k)
<1>1. /\ rate \in Nat /\ tokens \in Nat /\ since \in Nat
      /\ Len(g) \in Nat /\ \A i \in 1..Len(g) : g[i] \in Nat
      /\ Unit \in Nat /\ full \in Nat
  <2>1. rate \in Nat /\ tokens \in Nat /\ since \in Nat
    BY BucketFacts
  <2>2. Len(g) \in Nat /\ \A i \in 1..Len(g) : g[i] \in Nat
    BY BucketFacts
  <2>. QED  BY <2>1, <2>2, LimiterFacts
<1>2. refilled \in Int /\ refilled <= tokens + since * rate
  BY BucketFacts, RefilledFacts, LimiterFacts
<1>3. /\ bucket'[k].rate = rate /\ bucket'[k].tokens = refilled - 0
      /\ bucket'[k].since = 0 /\ grants'[k] = g
  BY DEF Limiter!Pace, Limiter!Refill, Limiter!TypeOK
<1>4. /\ Aging(g, since) /\ Credit(g, tokens, since, rate) /\ Stretches(g, rate)
  BY DEF Kept
<1>. HIDE DEF g, rate, tokens, since, full, refilled
<1>5. Aging(g, 0)
  BY <1>1, <1>4 DEF Aging
<1>6. Credit(g, refilled - 0, 0, rate)
  <2>. SUFFICES ASSUME NEW i \in 1..Len(g), g[i] < Horizon
                PROVE  (Len(g) - i + 1) * Unit + (refilled - 0) + 0 * rate
                           <= full + g[i] * rate
    BY DEF Credit, full
  <2>1. (Len(g) - i + 1) * Unit + tokens + since * rate <= full + g[i] * rate
    BY <1>4 DEF Credit, full
  <2>2. (Len(g) - i + 1) * Unit \in Int /\ since * rate \in Int /\ g[i] * rate \in Int
        /\ 0 * rate = 0
    BY <1>1
  <2>. QED  BY <1>1, <1>2, <2>1, <2>2
<1>. QED  BY <1>3, <1>4, <1>5, <1>6 DEF Kept

\* A grant takes a token that is there.
LEMMA KeptGrant ==
    ASSUME Limiter!TypeOK, NEW k \in Keys, bucket[k] # Limiter!NoBucket,
           Kept(grants[k], bucket[k]), NEW t \in Tasks, Limiter!Grant(t, k)
    PROVE  Kept(grants'[k], bucket'[k])
<1>. DEFINE g == grants[k]  h == grants'[k]  n == Len(grants[k])
            rate == bucket[k].rate  tokens == bucket[k].tokens  since == bucket[k].since
            full == Burst * Unit  refilled == Limiter!Refilled(k)
<1>1. /\ rate \in Nat /\ tokens \in Nat /\ since \in Nat
      /\ n \in Nat /\ \A i \in 1..n : g[i] \in Nat
      /\ Unit \in Nat /\ full \in Nat
  <2>1. rate \in Nat /\ tokens \in Nat /\ since \in Nat
    BY BucketFacts
  <2>2. n \in Nat /\ \A i \in 1..n : g[i] \in Nat
    BY BucketFacts
  <2>. QED  BY <2>1, <2>2, LimiterFacts
<1>2. refilled \in Int /\ refilled <= tokens + since * rate /\ refilled <= full
      /\ refilled >= Unit
  BY BucketFacts, RefilledFacts, LimiterFacts DEF Limiter!Grant
<1>3. /\ bucket'[k].rate = rate /\ bucket'[k].tokens = refilled - Unit
      /\ bucket'[k].since = 0 /\ h = Append(g, 0)
  BY DEF Limiter!Grant, Limiter!Refill, Limiter!TypeOK
<1>4. /\ Len(h) = n + 1 /\ h[n + 1] = 0 /\ \A i \in 1..n : h[i] = g[i]
  BY <1>3, BucketFacts, AppendProperties
<1>5. /\ Aging(g, since) /\ Credit(g, tokens, since, rate) /\ Stretches(g, rate)
      /\ Len(g) = n
  BY DEF Kept
<1>. HIDE DEF g, h, n, rate, tokens, since, full, refilled
<1>6. \A i \in 1..(n + 1) : i \in 1..n \/ i = n + 1
  BY <1>1
<1>7. Aging(h, 0)
  <2>1. \A i \in 1..Len(h) : 0 <= h[i]
    BY <1>1, <1>4, <1>6
  <2>2. ASSUME NEW i \in 1..Len(h), NEW j \in 1..Len(h), i <= j PROVE h[j] <= h[i]
    <3>1. CASE j = n + 1
      BY <1>4, <2>1, <3>1
    <3>2. CASE j # n + 1
      <4>1. i \in 1..n /\ j \in 1..n
        BY <1>1, <1>4, <2>2, <3>2
      <4>. QED  BY <1>4, <1>5, <2>2, <4>1 DEF Aging
    <3>. QED  BY <3>1, <3>2
  <2>. QED  BY <2>1, <2>2 DEF Aging
\* What an older grant has left for this one.
<1>8. ASSUME NEW i \in 1..n, g[i] < Horizon
      PROVE  (n - i + 1) * Unit + refilled <= full + g[i] * rate
  <2>1. (n - i + 1) * Unit + tokens + since * rate <= full + g[i] * rate
    BY <1>5, <1>8 DEF Credit, full
  <2>2. (n - i + 1) * Unit \in Int /\ since * rate \in Int /\ g[i] * rate \in Int
    BY <1>1
  <2>. QED  BY <1>1, <1>2, <2>1, <2>2
<1>9. Credit(h, refilled - Unit, 0, rate)
  <2>. SUFFICES ASSUME NEW i \in 1..(n + 1), h[i] < Horizon
                PROVE  (n + 1 - i + 1) * Unit + (refilled - Unit) + 0 * rate
                           <= full + h[i] * rate
    <3>. SUFFICES ASSUME NEW i \in 1..Len(h), h[i] < Horizon
                  PROVE  (Len(h) - i + 1) * Unit + (refilled - Unit) + 0 * rate
                             <= full + h[i] * rate
      BY DEF Credit, full
    <3>. DEFINE count == Len(h) - i + 1  counted == n + 1 - i + 1
    <3>1. count = counted /\ i \in 1..(n + 1)
      BY <1>1, <1>4
    <3>2. counted * Unit + (refilled - Unit) + 0 * rate <= full + h[i] * rate
      BY <3>1
    <3>. HIDE DEF count, counted
    <3>3. count * Unit + (refilled - Unit) + 0 * rate <= full + h[i] * rate
      BY <3>1, <3>2
    <3>. QED  BY <3>3 DEF count
  <2>1. 0 * rate = 0
    BY <1>1
  <2>2. CASE i = n + 1
    <3>1. (n + 1 - i + 1) * Unit = Unit /\ h[i] * rate = 0
      BY <1>1, <1>4, <2>2
    <3>. QED  BY <1>1, <1>2, <2>1, <3>1
  <2>3. CASE i \in 1..n
    <3>1. (n - i + 1) * Unit + refilled <= full + g[i] * rate
      BY <1>4, <1>8, <2>3
    <3>2. (n + 1 - i + 1) * Unit = (n - i + 1) * Unit + Unit
          /\ (n - i + 1) * Unit \in Int /\ g[i] * rate \in Int
      BY <1>1, <2>3
    <3>. QED  BY <1>1, <1>2, <1>4, <2>1, <2>3, <3>1, <3>2
  <2>. QED  BY <1>6, <2>2, <2>3
<1>10. Stretches(h, rate)
  <2>. SUFFICES ASSUME NEW i \in 1..(n + 1), NEW j \in i..(n + 1), h[i] < Horizon
                PROVE  (j - i + 1) * Unit <= full + (h[i] - h[j]) * rate
    BY <1>4 DEF Stretches, full
  <2>1. CASE i = n + 1
    <3>1. j = n + 1
      BY <1>1, <2>1
    <3>2. (j - i + 1) * Unit = Unit /\ (h[i] - h[j]) * rate = 0
      BY <1>1, <1>4, <2>1, <3>1
    <3>. QED  BY <1>1, <1>2, <3>2
  <2>2. CASE i \in 1..n /\ j = n + 1
    <3>1. (n - i + 1) * Unit + refilled <= full + g[i] * rate
      BY <1>4, <1>8, <2>2
    <3>2. (j - i + 1) * Unit = (n - i + 1) * Unit + Unit
          /\ (h[i] - h[j]) * rate = g[i] * rate
          /\ (n - i + 1) * Unit \in Int /\ g[i] * rate \in Int
      BY <1>1, <1>4, <2>2
    <3>. QED  BY <1>1, <1>2, <3>1, <3>2
  <2>3. CASE i \in 1..n /\ j \in i..n
    BY <1>1, <1>4, <1>5, <2>3 DEF Stretches, full
  <2>4. (i = n + 1) \/ (i \in 1..n /\ j = n + 1) \/ (i \in 1..n /\ j \in i..n)
    <3>1. n \in Nat
      BY <1>1
    <3>. QED  BY <3>1
  <2>. QED  BY <2>1, <2>2, <2>3, <2>4
<1>. QED  BY <1>3, <1>7, <1>9, <1>10 DEF Kept, h

\* A bucket that was just made has granted nothing.
LEMMA KeptNew == \A b : Kept(<<>>, b)
BY DEF Kept, Aging, Credit, Stretches

LEMMA InitPace == Init => PaceInv
BY DEF Init, Limiter!Init, PaceInv, BucketInv

\* The rate of a bucket was set when the rules of an origin were known, and
\* these stay.
LEMMA RateStays ==
    ASSUME Types, RobotsInv, [Next]_vars, NEW o \in Origins, parsers[o] # Robots!Unknown
    PROVE  parsers'[o] # Robots!Unknown /\ RateOf(o)' = RateOf(o)
<1>1. parsers'[o] = parsers[o]
  BY RulesStep, ComponentSteps DEF Types, TypeOK, RobotsInv
<1>. QED  BY <1>1 DEF RateOf

LEMMA NextPace == Types /\ RobotsInv /\ PaceInv /\ [Next]_vars => PaceInv'
<1>. SUFFICES ASSUME Types, RobotsInv, PaceInv, [Next]_vars, NEW k \in Keys
              PROVE  BucketInv(k)'
  BY DEF PaceInv
<1>. BucketInv(k)
  BY DEF PaceInv
<1>1. Limiter!TypeOK /\ LimiterStep
  BY ComponentSteps DEF Types, TypeOK
<1>2. ASSUME bucket[k] # Limiter!NoBucket, bucket'[k].rate = bucket[k].rate,
             Kept(grants'[k], bucket'[k])
      PROVE  BucketInv(k)'
  <2>1. bucket[k] \in Limiter!Bucket
    BY <1>1, <1>2 DEF Limiter!TypeOK
  <2>2. bucket'[k] # Limiter!NoBucket
    BY <1>2, <2>1, RateIsPositive DEF Limiter!NoBucket
  <2>3. PICK o \in Origins : /\ NetlocOf[o] = k[2] /\ parsers[o] # Robots!Unknown
                             /\ bucket[k].rate = RateOf(o)
    BY <1>2 DEF BucketInv, RateAsked
  <2>4. parsers'[o] # Robots!Unknown /\ bucket'[k].rate = RateOf(o)'
    BY <1>2, <2>3, RateStays
  <2>. QED  BY <1>2, <2>2, <2>3, <2>4 DEF BucketInv, RateAsked
<1>3. CASE bucket'[k] = bucket[k] /\ grants'[k] = grants[k]
  <2>1. CASE bucket[k] = Limiter!NoBucket
    BY <1>3, <2>1 DEF BucketInv
  <2>2. CASE bucket[k] # Limiter!NoBucket
    BY <1>3, <1>2, <2>2 DEF BucketInv
  <2>. QED  BY <2>1, <2>2
<1>4. CASE Limiter!Tick
  <2>1. CASE bucket[k] = Limiter!NoBucket
    BY <1>4, <2>1 DEF Limiter!Tick, BucketInv
  <2>2. CASE bucket[k] # Limiter!NoBucket
    <3>1. Kept(grants'[k], bucket'[k])
      BY <1>1, <1>4, <2>2, KeptTick DEF BucketInv
    <3>2. bucket'[k].rate = bucket[k].rate
      BY <1>4, <2>2 DEF Limiter!Tick
    <3>. QED  BY <1>2, <2>2, <3>1, <3>2
  <2>. QED  BY <2>1, <2>2
<1>5. ASSUME NEW t \in Tasks, pc[t] = "pace", Limiter!Acquire(t, Key(t), EffectiveRate(t))
      PROVE  BucketInv(k)'
  <2>1. CASE k = Key(t) /\ bucket[k] = Limiter!NoBucket
    <3>1. bucket'[k] = FullBucket(EffectiveRate(t)) /\ grants'[k] = <<>>
      BY <1>1, <1>5, <2>1 DEF Limiter!Acquire, FullBucket, Limiter!TypeOK, BucketInv
    <3>2. parsers[OriginOf[t]] # Robots!Unknown
      BY <1>5 DEF RobotsInv, ThroughInv, Through
    <3>3. bucket'[k].rate = RateOf(OriginOf[t])
      BY <3>1 DEF FullBucket, EffectiveRate, RateOf
    <3>. DEFINE o == OriginOf[t]
    <3>4. o \in Origins /\ NetlocOf[o] = k[2]
      BY <2>1, LimiterFacts
    <3>5. parsers'[o] # Robots!Unknown /\ bucket'[k].rate = RateOf(o)'
      BY <3>2, <3>3, <3>4, RateStays
    <3>6. RateAsked(k[2], bucket[k].rate)'
      BY <3>4, <3>5 DEF RateAsked
    <3>. QED  BY <3>1, <3>6, KeptNew DEF BucketInv
  <2>2. CASE ~(k = Key(t) /\ bucket[k] = Limiter!NoBucket)
    <3>1. bucket'[k] = bucket[k] /\ grants'[k] = grants[k]
      BY <1>1, <1>5, <2>2 DEF Limiter!Acquire, Limiter!TypeOK
    <3>. QED  BY <1>3, <3>1
  <2>. QED  BY <2>1, <2>2
<1>6. ASSUME NEW t \in Tasks, Limiter!Grant(t, Key(t)) \/ Limiter!Pace(t, Key(t))
      PROVE  BucketInv(k)'
  <2>1. CASE k = Key(t)
    <3>1. bucket[k] # Limiter!NoBucket
      BY <1>6, <2>1 DEF Limiter!Grant, Limiter!Pace, Limiter!HasLock, Types, Locked
    <3>2. Kept(grants'[k], bucket'[k])
      BY <1>1, <1>6, <2>1, <3>1, KeptGrant, KeptPace DEF BucketInv
    <3>3. bucket'[k].rate = bucket[k].rate
      BY <1>1, <1>6, <2>1 DEF Limiter!Grant, Limiter!Pace, Limiter!Refill, Limiter!TypeOK
    <3>. QED  BY <1>2, <3>1, <3>2, <3>3
  <2>2. CASE k # Key(t)
    <3>1. bucket'[k] = bucket[k] /\ grants'[k] = grants[k]
      BY <1>1, <1>6, <2>2
         DEF Limiter!Grant, Limiter!Pace, Limiter!Refill, Limiter!TypeOK
    <3>. QED  BY <1>3, <3>1
  <2>. QED  BY <2>1, <2>2
<1>7. CASE UNCHANGED limiter
  BY <1>3, <1>7 DEF limiter
<1>. QED  BY <1>1, <1>4, <1>5, <1>6, <1>7 DEF LimiterStep

LEMMA PaceInvariant == Spec => []PaceInv
BY InitPace, NextPace, TypesInvariant, RobotsInvariant, PTL DEF Spec

\* Whether a Crawl-delay counts is what the one answer says.
LEMMA SlowIsRead ==
    ASSUME RobotsInv, NEW o \in Origins, parsers[o] # Robots!Unknown
    PROVE  parsers[o].slow = (\E i \in DOMAIN answered[o] :
                                  answered[o][i] = "read" /\ Published[o].slow)
<1>1. PICK s \in Robots!Statuses : Answer(o, s)
  BY DEF RobotsInv, RulesInv
<1>2. DOMAIN answered[o] = {1} /\ answered[o][1] = Robots!Outcome(s)
  BY <1>1 DEF Answer
<1>3. Published[o].slow \in BOOLEAN
  BY FetchAssumption DEF Robots!RobotsConstants, Robots!Rules
<1>4. CASE s = 200
  BY <1>1, <1>2, <1>3, <1>4 DEF Answer, Robots!Parsed, Robots!Outcome
<1>5. CASE s # 200
  <2>1. Robots!Outcome(s) # "read"
    BY <1>5 DEF Robots!Outcome
  <2>2. parsers[o].slow = FALSE
    BY <1>1, <1>5 DEF Answer, Robots!Parsed, Robots!FullyPermissive, Robots!FullyDisallowed
  <2>. QED  BY <1>2, <2>1, <2>2
<1>. QED  BY <1>4, <1>5

\* However long it runs and however many tasks fetch in turn: no bucket
\* grants more than its burst and what it gains at one rate, which is that for
\* an origin of its netloc.
THEOREM PaceRespected == Spec => []PaceIsKept
<1>1. Types /\ RobotsInv /\ PaceInv => PaceIsKept
  <2>. SUFFICES ASSUME Types, RobotsInv, PaceInv, NEW k \in Keys, grants[k] # <<>>
                PROVE  \E o \in Origins : /\ NetlocOf[o] = k[2]
                                          /\ answered[o] # <<>>
                                          /\ Limiter!PaceOf(k, PaceFor(o))
    BY DEF PaceIsKept
  <2>1. /\ RateAsked(k[2], bucket[k].rate)
        /\ Stretches(grants[k], bucket[k].rate)
    BY DEF PaceInv, BucketInv, Kept
  <2>2. PICK o \in Origins : /\ NetlocOf[o] = k[2] /\ parsers[o] # Robots!Unknown
                             /\ bucket[k].rate = RateOf(o)
    BY <2>1 DEF RateAsked
  <2>3. answered[o] # <<>>
    BY <2>2 DEF RobotsInv, RulesInv, Answer
  <2>4. PaceFor(o) = bucket[k].rate
    BY <2>2, SlowIsRead DEF PaceFor, RateOf
  <2>5. grants[k] \in Seq(0..Horizon)
    BY DEF Types, TypeOK, Limiter!TypeOK
  <2>6. DOMAIN grants[k] = 1..Len(grants[k])
    BY <2>5
  <2>7. Limiter!PaceOf(k, bucket[k].rate)
    BY <2>1, <2>6 DEF Limiter!PaceOf, Stretches
  <2>. QED  BY <2>2, <2>3, <2>4, <2>7
<1>. QED  BY <1>1, TypesInvariant, RobotsInvariant, PaceInvariant, PTL

\* Nobody has been let through by a limiter.
NobodyFetches ==
    /\ \A k \in Keys : grants[k] = <<>>
    /\ \A t \in Tasks : pc[t] \notin {"context", "waiting", "page"}

\* A burst below one is a configuration without fetches: the tokens of a
\* bucket stay under one for ever, and no task ever gets as far as its page.
THEOREM NoBurstNoPage == ASSUME Burst = 0 PROVE Spec => []NobodyFetches
<1>1. Init => NobodyFetches
  BY DEF Init, Limiter!Init, NobodyFetches
<1>2. Types /\ NobodyFetches /\ [Next]_vars => NobodyFetches'
  <2>. SUFFICES ASSUME Types, NobodyFetches, [Next]_vars PROVE NobodyFetches'
    OBVIOUS
  <2>1. \A t \in Tasks : ~Limiter!Grant(t, Key(t))
    <3>. SUFFICES ASSUME NEW t \in Tasks, Limiter!Grant(t, Key(t)) PROVE FALSE
      OBVIOUS
    <3>1. Key(t) \in Keys /\ bucket[Key(t)] # Limiter!NoBucket
      BY LimiterFacts DEF Limiter!Grant, Limiter!HasLock, Types, Locked
    <3>2. Limiter!Refilled(Key(t)) \in 0..(Burst * Unit)
      BY <3>1, RefilledFacts DEF Types, TypeOK, Limiter!TypeOK
    <3>3. Burst * Unit = 0 /\ Limiter!Refilled(Key(t)) >= Unit /\ Unit \in Nat /\ Unit > 0
      BY LimiterFacts DEF Limiter!Grant
    <3>. QED  BY <3>2, <3>3
  <2>2. ASSUME NEW k \in Keys PROVE grants'[k] = <<>>
    <3>1. grants[k] = <<>>
      BY DEF NobodyFetches
    <3>2. CASE Limiter!Tick
      BY <3>1, <3>2 DEF Limiter!Tick
    <3>3. CASE UNCHANGED grants
      BY <3>1, <3>3
    <3>4. LimiterStep
      BY ComponentSteps DEF Types
    <3>. QED  BY <2>1, <3>2, <3>3, <3>4
              DEF LimiterStep, limiter, Limiter!Acquire, Limiter!Pace
  <2>3. ASSUME NEW t \in Tasks PROVE pc'[t] \notin {"context", "waiting", "page"}
    <3>1. pc \in [Tasks -> Places] /\ pc[t] \notin {"context", "waiting", "page"}
      BY DEF Types, TypeOK, NobodyFetches
    <3>2. CASE UNCHANGED pc
      BY <3>1, <3>2
    <3>3. ASSUME NEW u \in Tasks, Step(u) PROVE pc'[t] \notin {"context", "waiting", "page"}
      <4>1. CASE u # t
        BY <3>1, <3>3, <4>1, StepEffect
      <4>2. CASE u = t
        BY <2>1, <3>1, <3>3, <4>2
           DEF Step, Start, IsAllowed, AfterRobots, CrawlDelay, RobotsEscape, AskLimiter,
               Paced, AskPool, GetContext, NoNewContext, Page, Goto
      <4>. QED  BY <4>1, <4>2
    <3>. QED  BY <3>2, <3>3 DEF Next, Tick, vars
  <2>. QED  BY <2>2, <2>3 DEF NobodyFetches
<1>. QED  BY <1>1, <1>2, TypesInvariant, PTL DEF Spec

-----------------------------------------------------------------------------
(* The promise: FetchOnce implements PoliteFetch. *)

Sold == [k \in Keys |-> Len(grants[k])]
Stages == [t \in Tasks |-> Stage(t)]

\* Only Grant sells a token.
LEMMA SoldGrant ==
    ASSUME Limiter!TypeOK, NEW t \in Tasks, Limiter!Grant(t, Key(t))
    PROVE  Sold' = [Sold EXCEPT ![Key(t)] = @ + 1]
<1>1. Key(t) \in Keys
  BY LimiterFacts
<1>2. grants' = [grants EXCEPT ![Key(t)] = Append(grants[Key(t)], 0)]
      /\ grants \in [Keys -> Seq(0..Horizon)]
  BY DEF Limiter!Grant, Limiter!TypeOK
<1>3. grants[Key(t)] \in Seq(0..Horizon) /\ 0 \in 0..Horizon
  BY <1>1, <1>2, LimiterFacts
<1>4. Len(Append(grants[Key(t)], 0)) = Len(grants[Key(t)]) + 1
  BY <1>3, AppendProperties
<1>5. ASSUME NEW k \in Keys
      PROVE  Len(grants'[k]) = IF k = Key(t) THEN Len(grants[k]) + 1 ELSE Len(grants[k])
  BY <1>1, <1>2, <1>4
<1>. QED  BY <1>1, <1>5 DEF Sold

LEMMA StagesStep ==
    ASSUME Types, NEW t \in Tasks, Step(t)
    PROVE  Stages' = [Stages EXCEPT ![t] = Stage(t)']
<1>1. pc \in [Tasks -> Places]
  BY DEF Types, TypeOK
<1>2. \A u \in Tasks \ {t} : pc'[u] = pc[u]
  BY <1>1, StepEffect
<1>. QED  BY <1>2 DEF Stages, Stage

\* A step of a task before it has its token: at most the rules are learnt.
LEMMA BeforeIsPolite ==
    ASSUME Types, RobotsInv, NEW t \in Tasks,
           Start(t) \/ IsAllowed(t) \/ CrawlDelay(t) \/ RobotsEscape(t) \/ AskLimiter(t)
    PROVE  [Polite!Next]_(Polite!promised)
<1>1. Step(t)
  BY DEF Step
<1>2. pc \in [Tasks -> Places] /\ Robots!TypeOK
  BY DEF Types, TypeOK
<1>3. Stages' = Stages
  <2>1. Stage(t) = "outside" /\ Stage(t)' = "outside"
    BY <1>2 DEF Start, IsAllowed, AfterRobots, CrawlDelay, RobotsEscape, AskLimiter, Goto,
                Stage
  <2>. QED  BY <1>1, <2>1, StagesStep DEF Stages
<1>4. held' = held /\ grants' = grants
  BY DEF Start, IsAllowed, CrawlDelay, RobotsEscape, AskLimiter, pool, limiter,
         Limiter!Acquire
<1>5. Sold' = Sold
  BY <1>4 DEF Sold
<1>6. parsers' = parsers \/ Polite!Learn(OriginOf[t])
  <2>. DEFINE o == OriginOf[t]
  <2>1. SUFFICES ASSUME parsers' # parsers PROVE Polite!Learn(o)
    OBVIOUS
  <2>2. Robots!LookUp(t)
    BY <2>1 DEF Start, IsAllowed, CrawlDelay, RobotsEscape, AskLimiter, robots,
                Robots!Ask, Robots!LookUpFails
  <2>3. PICK s \in Robots!Statuses : parsers' = [parsers EXCEPT ![o] = Robots!Parsed(o, s)]
    BY <2>1, <2>2 DEF Robots!LookUp
  <2>4. parsers[o] = Robots!Unknown
    BY <2>1, <2>2 DEF Robots!LookUp, Robots!Known
  <2>5. Robots!Parsed(o, s) \in {Published[o]} \cup [allowed : {Tasks, {}}, slow : {FALSE}]
    BY DEF Robots!Parsed, Robots!FullyPermissive, Robots!FullyDisallowed
  <2>. QED  BY <1>3, <1>4, <1>5, <2>3, <2>4, <2>5 DEF Polite!Learn, Sold, Stages
<1>7. OriginOf[t] \in Origins
  BY FetchAssumption DEF Robots!RobotsConstants
<1>. QED  BY <1>3, <1>4, <1>5, <1>6, <1>7 DEF Polite!Next, Polite!promised, Sold, Stages

\* A token is taken by a task that robots.txt has let through, and is for the
\* page it goes for next.
LEMMA PacedIsPolite ==
    ASSUME Types, RobotsInv, NEW t \in Tasks, Paced(t)
    PROVE  [Polite!Next]_(Polite!promised)
<1>1. Step(t)
  BY DEF Step
<1>2. pc \in [Tasks -> Places] /\ Limiter!TypeOK
  BY DEF Types, TypeOK
<1>3. held' = held /\ parsers' = parsers /\ Stage(t) = "outside"
  BY DEF Paced, pool, robots, Stage
<1>4. CASE Limiter!Grant(t, Key(t)) /\ Goto(t, IF t \in BrowserTasks THEN "context" ELSE "page")
  <2>1. Sold' = [Sold EXCEPT ![Key(t)] = @ + 1]
    BY <1>2, <1>4, SoldGrant
  <2>2. Stage(t)' = IF t \in BrowserTasks THEN "admitted" ELSE "fetching"
    BY <1>2, <1>4 DEF Goto, Stage
  <2>3. Stages' = [Stages EXCEPT ![t] = IF t \in BrowserTasks THEN "admitted" ELSE "fetching"]
    BY <1>1, <2>2, StagesStep
  <2>4. parsers[OriginOf[t]] # Robots!Unknown /\ t \in parsers[OriginOf[t]].allowed
    BY DEF Paced, RobotsInv, ThroughInv, Through
  <2>5. Polite!Admit(t)
    BY <1>3, <2>1, <2>3, <2>4 DEF Polite!Admit, Sold, Stages
  <2>. QED  BY <2>5 DEF Polite!Next
<1>5. CASE Limiter!Pace(t, Key(t)) /\ UNCHANGED pc
  <2>1. Sold' = Sold /\ Stages' = Stages
    BY <1>5 DEF Limiter!Pace, Sold, Stages, Stage
  <2>. QED  BY <1>3, <2>1 DEF Polite!promised, Sold, Stages
<1>. QED  BY <1>4, <1>5 DEF Paced

\* The context a task gets is one nobody has.
LEMMA PoolIsPolite ==
    ASSUME Types, Types', ContextInv', NEW t \in Tasks,
           AskPool(t) \/ GetContext(t) \/ NoNewContext(t)
    PROVE  [Polite!Next]_(Polite!promised)
<1>1. Step(t) /\ t \in BrowserTasks /\ PoolStep(t)
  BY DEF Step, AskPool, GetContext, NoNewContext, PoolStep, Types, Going
<1>2. /\ pc \in [Tasks -> Places]
      /\ held \in [BrowserTasks -> Pool!Contexts \cup {Pool!NoContext}]
      /\ held' \in [BrowserTasks -> Pool!Contexts \cup {Pool!NoContext}]
  BY DEF Types, TypeOK, Pool!TypeOK
<1>3. /\ parsers' = parsers /\ grants' = grants /\ Stage(t) = "admitted"
      /\ held[t] = Pool!NoContext
  BY <1>1 DEF AskPool, GetContext, NoNewContext, robots, limiter, Stage, Types, Holding
<1>4. Sold' = Sold
  BY <1>3 DEF Sold
<1>5. \A u \in BrowserTasks \ {t} : held'[u] = held[u]
  BY <1>1, PoolEffect
<1>6. CASE held'[t] # Pool!NoContext
  <2>1. pc'[t] = "page"
    BY <1>1, <1>6 DEF Types, Holding
  <2>2. Stages' = [Stages EXCEPT ![t] = "fetching"]
    BY <1>1, <2>1, StagesStep DEF Stage
  <2>3. held' = [held EXCEPT ![t] = held'[t]] /\ held'[t] \in Pool!Contexts
    BY <1>1, <1>2, <1>5, <1>6
  <2>4. \A u \in BrowserTasks : held[u] # held'[t]
    BY <1>1, <1>3, <1>5, <1>6 DEF ContextInv, Pool!NoContext
  <2>5. Polite!Borrow(t)
    BY <1>1, <1>3, <1>4, <2>2, <2>3, <2>4 DEF Polite!Borrow, Sold, Stages
  <2>. QED  BY <1>1, <2>5 DEF Polite!Next
<1>7. CASE held'[t] = Pool!NoContext
  <2>1. held' = held
    BY <1>1, <1>2, <1>3, <1>5, <1>7
  <2>2. CASE NoNewContext(t)
    <3>1. Stages' = [Stages EXCEPT ![t] = "outside"]
      BY <1>1, <1>2, <2>2, StagesStep DEF NoNewContext, Goto, Stage
    <3>2. held' = [u \in BrowserTasks |-> IF u = t THEN Pool!NoContext ELSE held[u]]
      BY <1>2, <1>3, <2>1
    <3>3. Polite!Leave(t)
      BY <1>1, <1>3, <1>4, <3>1, <3>2 DEF Polite!Leave, Sold, Stages
    <3>. QED  BY <3>3 DEF Polite!Next
  <2>3. CASE AskPool(t) \/ GetContext(t)
    <3>1. Stage(t)' = "admitted"
      BY <1>2, <1>7, <2>3 DEF AskPool, GetContext, Goto, Stage
    <3>2. Stages' = Stages
      BY <1>1, <1>3, <3>1, StagesStep DEF Stages
    <3>. QED  BY <1>3, <1>4, <2>1, <3>2 DEF Polite!promised, Sold, Stages
  <2>. QED  BY <2>2, <2>3
<1>. QED  BY <1>6, <1>7

\* With its page, whatever came of it, a task has used up what it paid for.
LEMMA PageIsPolite ==
    ASSUME Types, NEW t \in Tasks, Page(t)
    PROVE  [Polite!Next]_(Polite!promised)
<1>1. Step(t)
  BY DEF Step
<1>2. /\ pc \in [Tasks -> Places]
      /\ held \in [BrowserTasks -> Pool!Contexts \cup {Pool!NoContext}]
  BY DEF Types, TypeOK, Pool!TypeOK
<1>3. parsers' = parsers /\ grants' = grants /\ Stage(t) = "fetching"
  BY DEF Page, robots, limiter, Stage
<1>4. Sold' = Sold
  BY <1>3 DEF Sold
<1>5. Stages' = [Stages EXCEPT ![t] = "outside"]
  BY <1>1, <1>2, StagesStep DEF Page, Goto, Stage
<1>6. held' = [u \in BrowserTasks |-> IF u = t THEN Pool!NoContext ELSE held[u]]
  BY <1>2 DEF Page, Pool!Release, pool
<1>7. Polite!Leave(t)
  BY <1>3, <1>4, <1>5, <1>6 DEF Polite!Leave, Sold, Stages
<1>. QED  BY <1>7 DEF Polite!Next

\* For any tasks, origins and pool: what the fetchers do, with all their locks
\* and waiters, is what PoliteFetch does.
THEOREM FetchImplementsPolite == Spec => FetchesPolitely
<1>1. Init => Polite!Init
  <2>. SUFFICES ASSUME Init PROVE Polite!Init
    OBVIOUS
  <2>1. parsers = [o \in Origins |-> Robots!Unknown]
        /\ held = [t \in BrowserTasks |-> Pool!NoContext]
    BY DEF Init, Robots!Init, Pool!Init
  <2>2. Sold = [k \in Keys |-> 0]
    BY DEF Init, Limiter!Init, Sold
  <2>3. Stages = [t \in Tasks |-> "outside"]
    BY DEF Init, Stages, Stage
  <2>. QED  BY <2>1, <2>2, <2>3 DEF Polite!Init, Sold, Stages
<1>2. Types /\ RobotsInv /\ Types' /\ ContextInv' /\ [Next]_vars
          => [Polite!Next]_(Polite!promised)
  <2>. SUFFICES ASSUME Types, RobotsInv, Types', ContextInv', [Next]_vars
                PROVE  [Polite!Next]_(Polite!promised)
    OBVIOUS
  <2>1. CASE UNCHANGED vars
    <3>1. Sold' = Sold /\ Stages' = Stages /\ parsers' = parsers /\ held' = held
      BY <2>1 DEF vars, Sold, Stages, Stage
    <3>. QED  BY <3>1 DEF Polite!promised, Sold, Stages
  <2>2. CASE Tick
    <3>1. parsers' = parsers /\ held' = held /\ Stages' = Stages
      BY <2>2 DEF Tick, robots, pool, Stages, Stage
    <3>2. Sold' = Sold
      <4>1. ASSUME NEW k \in Keys PROVE Len(grants'[k]) = Len(grants[k])
        <5>1. grants[k] \in Seq(0..Horizon)
          BY DEF Types, TypeOK, Limiter!TypeOK
        <5>2. /\ grants'[k] = [i \in 1..Len(grants[k]) |-> Limiter!Later(grants[k][i])]
              /\ Len(grants[k]) \in Nat
          BY <2>2, <5>1 DEF Tick, Limiter!Tick
        <5>. QED  BY <5>2
      <4>. QED  BY <4>1 DEF Sold
    <3>. QED  BY <3>1, <3>2 DEF Polite!promised, Sold, Stages
  <2>. QED
    BY <2>1, <2>2, BeforeIsPolite, PacedIsPolite, PoolIsPolite, PageIsPolite DEF Next, Step
<1>. QED
  BY <1>1, <1>2, TypesInvariant, RobotsInvariant, ContextInvariant, PTL
  DEF Spec, FetchesPolitely, Polite!Spec
=============================================================================
