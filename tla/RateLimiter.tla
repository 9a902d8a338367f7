----------------------------- MODULE RateLimiter -----------------------------
(***************************************************************************)
(* RateLimiter and TokenBucket (src/src/pipeline/fetchers/rate_limiter.py) *)
(* with integer time: a token is Unit parts, and a bucket gains rate parts *)
(* per unit of time.  A bucket is refilled when it is looked at, so it     *)
(* keeps how long ago that was, counted up to Horizon: every bucket is     *)
(* full by then.  acquire keeps the bucket's lock, which is first come,    *)
(* first served, while it sleeps.                                          *)
(***************************************************************************)
EXTENDS Naturals, Sequences

CONSTANTS
    Tasks,
    Keys,               \* a bucket's key: its limiter and netloc
    Unit,               \* parts of a token
    Rates,              \* the rates in use
    Burst,              \* burst, the same for all
    Horizon             \* bound: how far back the past is told apart

LimiterConstants ==
    /\ Unit \in Nat \ {0}
    /\ Burst \in Nat
    /\ Horizon \in Nat
    /\ Rates \subseteq Nat \ {0}
    /\ \A rate \in Rates : rate * Horizon >= Burst * Unit

VARIABLES
    bucket,             \* _buckets: key -> its bucket, or NoBucket
    bucket_lock,        \* per bucket: the holder of its lock, and who waits
    grants              \* auxiliary: per bucket, how long ago each token was taken

vars == <<bucket, bucket_lock, grants>>

Bucket == [rate : Rates, tokens : 0..(Burst * Unit), since : 0..Horizon]
NoBucket == [rate |-> 0, tokens |-> 0, since |-> 0]

Init ==
    /\ bucket = [k \in Keys |-> NoBucket]
    /\ bucket_lock = [k \in Keys |-> <<>>]
    /\ grants = [k \in Keys |-> <<>>]

\* acquire: the bucket is made by the first call, with the rate of that call.
Acquire(t, k, rate) ==
    /\ bucket' = IF bucket[k] = NoBucket
                 THEN [bucket EXCEPT ![k] = [rate |-> rate, tokens |-> Burst * Unit,
                                             since |-> 0]]
                 ELSE bucket
    /\ bucket_lock' = [bucket_lock EXCEPT ![k] = Append(@, t)]
    /\ UNCHANGED grants

HasLock(t, k) == bucket_lock[k] # <<>> /\ Head(bucket_lock[k]) = t

\* A slip: tokens pile up while nobody asks.
UnboundedRefill(k) == bucket[k].tokens + bucket[k].since * bucket[k].rate

\* _refill: the tokens there are now.
Refilled(k) ==
    LET gained == bucket[k].tokens + bucket[k].since * bucket[k].rate
    IN  IF gained > Burst * Unit THEN Burst * Unit ELSE gained

Refill(k, taken) ==
    bucket' = [bucket EXCEPT ![k] = [rate |-> bucket[k].rate, since |-> 0,
                                     tokens |-> Refilled(k) - taken]]

\* The holder of the lock takes a token and leaves.
Grant(t, k) ==
    /\ HasLock(t, k)
    /\ Refilled(k) >= Unit
    /\ Refill(k, Unit)
    /\ bucket_lock' = [bucket_lock EXCEPT ![k] = Tail(@)]
    /\ grants' = [grants EXCEPT ![k] = Append(@, 0)]

\* Or it goes to sleep, with the lock.
Pace(t, k) ==
    /\ HasLock(t, k)
    /\ Refilled(k) < Unit
    /\ Refill(k, 0)
    /\ UNCHANGED <<bucket_lock, grants>>

Later(n) == IF n < Horizon THEN n + 1 ELSE n

Tick ==
    /\ bucket' = [k \in Keys |->
                     IF bucket[k] = NoBucket THEN NoBucket
                     ELSE [rate |-> bucket[k].rate, since |-> Later(bucket[k].since),
                           tokens |-> bucket[k].tokens]]
    /\ grants' = [k \in Keys |-> [i \in DOMAIN grants[k] |-> Later(grants[k][i])]]
    /\ UNCHANGED bucket_lock

-----------------------------------------------------------------------------
(* Properties. *)

TypeOK ==
    /\ bucket \in [Keys -> Bucket \cup {NoBucket}]
    /\ bucket_lock \in [Keys -> Seq(Tasks)]
    /\ grants \in [Keys -> Seq(0..Horizon)]

\* In any stretch of time a bucket at the given rate grants no more than its
\* burst and what it gained meanwhile; stretches that began before the
\* Horizon are not told apart.
PaceOf(k, rate) ==
    \A i \in DOMAIN grants[k] : \A j \in i..Len(grants[k]) :
        grants[k][i] < Horizon =>
            (j - i + 1) * Unit <= Burst * Unit + (grants[k][i] - grants[k][j]) * rate

=============================================================================
