------------------------ MODULE CircuitBreakerProofs ------------------------
(***************************************************************************)
(* For any set of domains, any fail_max and any reset_timeout, and any     *)
(* order of calls: the breaker's entries are consistent, and it implements *)
(* BreakerPromise.  TypeOK is inductive as it stands.                      *)
(***************************************************************************)
EXTENDS CircuitBreaker, TLAPS

USE DEF NotOpened

\* What there is to know about an entry.
Sound(e) == /\ e \in ClosedEntry \cup TrippedEntry
            /\ e.state = "half_open" => e.opened_for >= ResetTimeout

LEMMA EntriesSound == TypeOK => \A d \in Domains : Sound(entry[d])
BY DEF TypeOK, Sound, Elapsed, Age

LEMMA FreshIsSound == Sound(Fresh) /\ Fresh \in ClosedEntry
BY BreakerAssumption DEF Fresh, Entry, Sound, ClosedEntry

LEMMA InitTypeOK == Init => TypeOK
BY FreshIsSound DEF Init, TypeOK, Sound, Elapsed, Age, NoCall, Call

LEMMA CallIsCall ==
    ASSUME TypeOK, NEW d \in Domains,
           NEW method \in {"ask", "success", "failure"}, NEW answer \in BOOLEAN,
           Called(method, d, answer)
    PROVE  call' \in Call
BY DEF TypeOK, Called, Call

\* A call that leaves its domain a sound entry keeps the type.
LEMMA SoundUpdate ==
    ASSUME TypeOK, NEW d \in Domains, NEW e, Sound(e),
           entry' = [entry EXCEPT ![d] = e],
           call' \in Call
    PROVE  TypeOK'
<1>1. entry' \in [Domains -> ClosedEntry \cup TrippedEntry]
  BY DEF TypeOK, Sound
<1>2. \A c \in Domains : entry'[c] = IF c = d THEN e ELSE entry[c]
  BY DEF TypeOK
<1>. QED  BY <1>1, <1>2 DEF TypeOK, Sound, Elapsed, Age

LEMMA IsOpenTypeOK ==
    ASSUME TypeOK, NEW d \in Domains, IsOpen(d)
    PROVE  TypeOK'
<1>. DEFINE e == Entry("half_open", Failures(d), Age(d))
<1>1. call' \in Call
  <2>1. \E b \in BOOLEAN : Called("ask", d, b)
    BY DEF IsOpen, Elapsed
  <2>. QED  BY <2>1, CallIsCall
<1>2. CASE entry' = entry
  BY <1>1, <1>2 DEF TypeOK, Elapsed, Age
<1>3. CASE entry[d].state = "open" /\ Elapsed(d) /\ entry' = [entry EXCEPT ![d] = e]
  <2>1. entry[d] \in TrippedEntry
    BY <1>3 DEF TypeOK, ClosedEntry
  <2>2. Sound(e)
    BY <1>3, <2>1 DEF Sound, TrippedEntry, Entry, Elapsed, Failures, Age
  <2>. HIDE DEF e
  <2>. QED  BY <1>1, <1>3, <2>2, SoundUpdate
<1>. QED  BY <1>2, <1>3 DEF IsOpen

LEMMA RecordSuccessTypeOK ==
    ASSUME TypeOK, NEW d \in Domains, RecordSuccess(d)
    PROVE  TypeOK'
BY FreshIsSound, SoundUpdate, CallIsCall DEF RecordSuccess

\* The breaker trips exactly when the streak is about to reach fail_max.
LEMMA TripsAtFailMax ==
    ASSUME TypeOK, NEW d \in Domains
    PROVE  /\ Trips(d) <=> ~(Failures(d) + 1 < FailMax)
           /\ Trips(d) => CountUp(Failures(d)) = FailMax
           /\ ~Trips(d) => /\ entry[d] \in ClosedEntry
                           /\ CountUp(Failures(d)) = Failures(d) + 1
<1>1. CASE entry[d] \in ClosedEntry
  BY <1>1, BreakerAssumption DEF ClosedEntry, Trips, CountUp, Failures
<1>2. CASE entry[d] \in TrippedEntry
  BY <1>2, BreakerAssumption DEF TrippedEntry, Trips, CountUp, Failures
<1>. QED  BY <1>1, <1>2 DEF TypeOK

\* What record_failure makes of the entry.
LEMMA FailureEffect ==
    ASSUME TypeOK, NEW d \in Domains, RecordFailure(d)
    PROVE  \/ /\ ~(Failures(d) + 1 < FailMax)
              /\ entry' = [entry EXCEPT ![d] = Entry("open", FailMax, 0)]
           \/ /\ Failures(d) + 1 < FailMax
              /\ entry[d] \in ClosedEntry
              /\ entry' = [entry EXCEPT ![d] = Entry("closed", Failures(d) + 1, NotOpened)]
<1>1. CASE Trips(d)
  BY <1>1, TripsAtFailMax DEF RecordFailure
<1>2. CASE ~Trips(d)
  <2>1. entry[d] \in ClosedEntry /\ entry[d].state = "closed" /\ Age(d) = NotOpened
    BY <1>2, TripsAtFailMax DEF ClosedEntry, Age
  <2>. QED  BY <1>2, <2>1, TripsAtFailMax DEF RecordFailure
<1>. QED  BY <1>1, <1>2

LEMMA RecordFailureTypeOK ==
    ASSUME TypeOK, NEW d \in Domains, RecordFailure(d)
    PROVE  TypeOK'
<1>1. call' \in Call
  BY CallIsCall DEF RecordFailure
<1>2. Sound(Entry("open", FailMax, 0))
  BY BreakerAssumption DEF Sound, Entry, TrippedEntry
<1>3. ASSUME Failures(d) + 1 < FailMax, entry[d] \in ClosedEntry
      PROVE  Sound(Entry("closed", Failures(d) + 1, NotOpened))
  BY <1>3, BreakerAssumption DEF Sound, Entry, ClosedEntry, Failures
<1>. QED  BY <1>1, <1>2, <1>3, FailureEffect, SoundUpdate

\* An entry one unit of time later.
LEMMA OlderEntry ==
    ASSUME NEW e, Sound(e)
    PROVE  Sound(Entry(e.state, e.consecutive_failures, Older(e.opened_for)))
<1>1. CASE e \in ClosedEntry
  BY <1>1, BreakerAssumption DEF Sound, Entry, ClosedEntry, TrippedEntry, Older
<1>2. CASE e \in TrippedEntry
  BY <1>2, BreakerAssumption DEF Sound, Entry, ClosedEntry, TrippedEntry, Older
<1>. QED  BY <1>1, <1>2 DEF Sound

LEMMA TickTypeOK ==
    ASSUME TypeOK, Tick
    PROVE  TypeOK'
<1>1. \A d \in Domains : Sound(entry'[d])
  BY OlderEntry, EntriesSound DEF Tick, Failures, Age
<1>2. entry' \in [Domains -> ClosedEntry \cup TrippedEntry]
  BY <1>1 DEF Tick, Sound
<1>. QED  BY <1>1, <1>2 DEF TypeOK, Sound, Elapsed, Age, Tick

LEMMA NextTypeOK == TypeOK /\ [Next]_vars => TypeOK'
<1>. SUFFICES ASSUME TypeOK, [Next]_vars PROVE TypeOK'
  OBVIOUS
<1>1. CASE UNCHANGED vars
  BY <1>1 DEF vars, TypeOK, Elapsed, Age
<1>2. CASE Next
  BY <1>2, IsOpenTypeOK, RecordSuccessTypeOK, RecordFailureTypeOK, TickTypeOK DEF Next
<1>. QED  BY <1>1, <1>2

\* The entries of the breaker stay consistent; is_open's assert cannot fail.
THEOREM TypeCorrect == Spec => []TypeOK
BY InitTypeOK, NextTypeOK, PTL DEF Spec

-----------------------------------------------------------------------------
(* The refinement: every call is the promised one. *)

LEMMA InitPromise == Init => Promise!Init
<1>. SUFFICES ASSUME Init PROVE Promise!Init
  OBVIOUS
<1>1. \A d \in Domains : Failures(d) = 0 /\ Age(d) = NotOpened
  BY DEF Init, Fresh, Entry, Failures, Age
<1>2. Streak = [d \in Domains |-> 0]
  BY <1>1 DEF Streak
<1>3. Cooldown = [d \in Domains |-> 0]
  BY <1>1 DEF Cooldown
<1>4. \E d \in Domains : call = Promise!NoCall(d)
  BY DEF Init, NoCall, Promise!NoCall
<1>. QED  BY <1>2, <1>3, <1>4 DEF Promise!Init

\* is_open answers that a domain is to be skipped while its cooldown lasts.
LEMMA IsOpenPromise ==
    ASSUME TypeOK, NEW d \in Domains, IsOpen(d)
    PROVE  Promise!Ask(d)
<1>1. (entry[d].state = "open" /\ ~Elapsed(d)) <=> Cooldown[d] > 0
  <2>1. CASE entry[d] \in ClosedEntry
    BY <2>1 DEF ClosedEntry, Cooldown, Age
  <2>2. CASE entry[d] \in TrippedEntry
    BY <2>2, BreakerAssumption, EntriesSound DEF Sound, TrippedEntry, Cooldown, Elapsed, Age
  <2>. QED  BY <2>1, <2>2 DEF TypeOK
<1>2. Promise!Called("ask", d, Cooldown[d] > 0)
  <2>1. CASE Cooldown[d] > 0
    <3>1. Called("ask", d, TRUE) /\ (Cooldown[d] > 0) = TRUE
      BY <1>1, <2>1 DEF IsOpen
    <3>. QED  BY <3>1 DEF Called, Promise!Called
  <2>2. CASE ~(Cooldown[d] > 0)
    <3>1. (Cooldown[d] > 0) = FALSE
      BY <2>2
    <3>2. CASE entry[d].state # "open"
      <4>1. Called("ask", d, FALSE)
        BY <3>2 DEF IsOpen
      <4>. QED  BY <3>1, <4>1 DEF Called, Promise!Called
    <3>3. CASE entry[d].state = "open"
      <4>1. (~Elapsed(d)) = FALSE
        BY <1>1, <2>2, <3>3
      <4>2. Called("ask", d, ~Elapsed(d))
        BY <3>3 DEF IsOpen
      <4>. QED  BY <3>1, <4>1, <4>2 DEF Called, Promise!Called
    <3>. QED  BY <3>2, <3>3
  <2>. QED  BY <2>1, <2>2
<1>3. Streak' = Streak /\ Cooldown' = Cooldown
  <2>1. CASE entry' = entry
    BY <2>1 DEF Streak, Cooldown, Failures, Age
  <2>2. CASE entry' = [entry EXCEPT ![d] = Entry("half_open", Failures(d), Age(d))]
    <3>1. \A c \in Domains : Failures(c)' = Failures(c) /\ Age(c)' = Age(c)
      BY <2>2 DEF TypeOK, Entry, Failures, Age
    <3>. QED  BY <3>1 DEF Streak, Cooldown
  <2>. QED  BY <2>1, <2>2 DEF IsOpen
<1>. QED  BY <1>2, <1>3 DEF Promise!Ask

LEMMA RecordSuccessPromise ==
    ASSUME TypeOK, NEW d \in Domains, RecordSuccess(d)
    PROVE  Promise!Succeed(d)
<1>1. \A c \in Domains : /\ Failures(c)' = IF c = d THEN 0 ELSE Failures(c)
                         /\ Age(c)' = IF c = d THEN NotOpened ELSE Age(c)
  BY DEF RecordSuccess, TypeOK, Fresh, Entry, Failures, Age
<1>2. Streak' = [Streak EXCEPT ![d] = 0]
  BY <1>1 DEF Streak
<1>3. Cooldown' = [Cooldown EXCEPT ![d] = 0]
  BY <1>1 DEF Cooldown
<1>. QED  BY <1>2, <1>3 DEF Promise!Succeed, RecordSuccess, Called, Promise!Called

LEMMA RecordFailurePromise ==
    ASSUME TypeOK, NEW d \in Domains, RecordFailure(d)
    PROVE  Promise!Fail(d)
<1>1. Streak[d] = Failures(d) /\ Promise!Called("failure", d, FALSE)
  BY DEF Streak, RecordFailure, Called, Promise!Called
<1>2. CASE /\ ~(Failures(d) + 1 < FailMax)
           /\ entry' = [entry EXCEPT ![d] = Entry("open", FailMax, 0)]
  <2>1. \A c \in Domains : /\ Failures(c)' = IF c = d THEN FailMax ELSE Failures(c)
                           /\ Age(c)' = IF c = d THEN 0 ELSE Age(c)
    BY <1>2 DEF TypeOK, Entry, Failures, Age
  <2>2. Streak' = [Streak EXCEPT ![d] = FailMax]
    BY <2>1 DEF Streak
  <2>3. Cooldown' = [Cooldown EXCEPT ![d] = ResetTimeout]
    <3>1. ResetTimeout - 0 = ResetTimeout /\ 0 # NotOpened
      BY BreakerAssumption
    <3>2. \A c \in Domains \ {d} : Cooldown'[c] = Cooldown[c]
      BY <2>1 DEF Cooldown
    <3>3. Cooldown'[d] = ResetTimeout
      BY <2>1, <3>1 DEF Cooldown
    <3>4. Cooldown' = [c \in Domains |-> Cooldown'[c]]
      BY DEF Cooldown
    <3>5. [Cooldown EXCEPT ![d] = ResetTimeout]
              = [c \in Domains |-> IF c = d THEN ResetTimeout ELSE Cooldown[c]]
      BY DEF Cooldown
    <3>. QED  BY <3>2, <3>3, <3>4, <3>5
  <2>. QED  BY <1>1, <1>2, <2>2, <2>3 DEF Promise!Fail
<1>3. CASE /\ Failures(d) + 1 < FailMax
           /\ entry[d] \in ClosedEntry
           /\ entry' = [entry EXCEPT ![d] = Entry("closed", Failures(d) + 1, NotOpened)]
  <2>1. \A c \in Domains : /\ Failures(c)' = IF c = d THEN Failures(d) + 1 ELSE Failures(c)
                           /\ Age(c)' = Age(c)
    BY <1>3 DEF TypeOK, Entry, Failures, Age, ClosedEntry
  <2>2. Streak' = [Streak EXCEPT ![d] = @ + 1]
    BY <2>1 DEF Streak
  <2>3. Cooldown' = Cooldown
    BY <2>1 DEF Cooldown
  <2>. QED  BY <1>1, <1>3, <2>2, <2>3 DEF Promise!Fail
<1>. QED  BY <1>2, <1>3, FailureEffect

LEMMA TickPromise ==
    ASSUME TypeOK, Tick
    PROVE  Promise!Tick
<1>1. \A d \in Domains : /\ Failures(d)' = Failures(d)
                         /\ Age(d)' = Older(Age(d))
  BY DEF Tick, Entry, Failures, Age
<1>2. Streak' = Streak
  BY <1>1 DEF Streak
<1>3. ASSUME NEW d \in Domains
      PROVE  Cooldown'[d] = IF Cooldown[d] > 0 THEN Cooldown[d] - 1 ELSE 0
  <2>1. CASE entry[d] \in ClosedEntry
    BY <1>1, <2>1 DEF ClosedEntry, Cooldown, Older, Age
  <2>2. CASE entry[d] \in TrippedEntry
    BY <1>1, <2>2, BreakerAssumption DEF TrippedEntry, Cooldown, Older, Age
  <2>. QED  BY <2>1, <2>2 DEF TypeOK
<1>4. Cooldown' = [d \in Domains |-> Cooldown'[d]]
  BY DEF Cooldown
<1>5. Cooldown' = [d \in Domains |-> IF Cooldown[d] > 0 THEN Cooldown[d] - 1 ELSE 0]
  BY <1>3, <1>4
<1>. QED  BY <1>2, <1>5 DEF Promise!Tick, Tick

LEMMA NextPromise == TypeOK /\ [Next]_vars => [Promise!Next]_(Promise!vars)
<1>. SUFFICES ASSUME TypeOK, [Next]_vars PROVE [Promise!Next]_(Promise!vars)
  OBVIOUS
<1>1. CASE UNCHANGED vars
  BY <1>1 DEF vars, Promise!vars, Streak, Cooldown, Failures, Age
<1>2. CASE Next
  BY <1>2, IsOpenPromise, RecordSuccessPromise, RecordFailurePromise, TickPromise
     DEF Next, Promise!Next
<1>. QED  BY <1>1, <1>2

\* The three states of the breaker implement the promise of FR-10.
THEOREM Implements == Spec => KeepsPromise
BY InitPromise, TypeCorrect, NextPromise, PTL DEF Spec, KeepsPromise, Promise!Spec
=============================================================================
