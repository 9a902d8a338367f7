------------------------- MODULE RunSiteDedupeProofs -------------------------
(***************************************************************************)
(* Proofs about the dedupe of RunSite: what passes it, what it drops, and  *)
(* when a hash is marked, for any runs, sites, hashes, TTL and calendar.   *)
(***************************************************************************)
EXTENDS RunSiteProofs

-----------------------------------------------------------------------------
(* What the steps of a run do to its records and to the dedupe table. *)

\* All but the records a run still has to look up.
PastKept(r) ==
    /\ run'[r].dt = run[r].dt
    /\ run'[r].deduped = run[r].deduped
    /\ run'[r].prior = run[r].prior

MemoryKept(r) ==
    /\ PastKept(r)
    /\ run'[r].records = run[r].records
    /\ run'[r].crawled = run[r].crawled

Begins(r) ==
    /\ run[r].pc = "idle" /\ run'[r].pc = "fetch"
    /\ run'[r].dt = today
    /\ run'[r].prior = {q \in Runs : run[q].pc \in Ended}
    /\ run'[r].deduped = run[r].deduped
    /\ run'[r].crawled = run[r].crawled
    /\ dedupe' = dedupe

Parses(r) ==
    /\ run[r].pc = "parse" /\ run'[r].pc \in {"fetch", "dedupe"}
    /\ PastKept(r)
    /\ \E found \in Seq(Hashes) :
          /\ run'[r].records = run[r].records \o found
          /\ run'[r].crawled = run[r].crawled \cup {found[i] : i \in DOMAIN found}
    /\ dedupe' = dedupe

Drops(r) ==
    /\ run[r].pc = "dedupe" /\ run'[r].pc = "dedupe"
    /\ PastKept(r)
    /\ run'[r].crawled = run[r].crawled
    /\ run[r].records # <<>>
    /\ run'[r].records = Tail(run[r].records)
    /\ Seen(Head(run[r].records))
    /\ dedupe' = dedupe

Finds(r) ==
    /\ run[r].pc = "dedupe" /\ run'[r].pc = "mark"
    /\ MemoryKept(r)
    /\ run[r].records # <<>>
    /\ ~Seen(Head(run[r].records))
    /\ dedupe' = dedupe

Marks(r) ==
    /\ run[r].pc = "mark" /\ run'[r].pc = "dedupe"
    /\ run[r].records # <<>>
    /\ run'[r].dt = run[r].dt
    /\ run'[r].prior = run[r].prior
    /\ run'[r].crawled = run[r].crawled
    /\ run'[r].records = Tail(run[r].records)
    /\ run'[r].deduped = Append(run[r].deduped,
                                [hash |-> Head(run[r].records), day |-> today])
    /\ dedupe' = Upsert(dedupe, Head(run[r].records),
                        [site_id    |-> SiteOf[r],
                         first_seen |-> today,
                         expires_at |-> today + TtlDays])

Settled == {"staging", "curated", "quarantine", "report", "latest", "manifest", "done"}

\* The other steps: on to a later phase of the same part of the run.
Proceeds(r) ==
    /\ MemoryKept(r)
    /\ dedupe' = dedupe
    /\ \/ run'[r].pc = run[r].pc /\ run[r].pc \notin Ended
       \/ run[r].pc = "fetch" /\ run'[r].pc = "parse"
       \/ run[r].pc = "dedupe" /\ run[r].records = <<>> /\ run'[r].pc = "staging"
       \/ run[r].pc \in Settled \ Ended /\ run'[r].pc \in Settled
       \/ run[r].pc \notin Ended /\ run'[r].pc = "failed"

LEMMA ParseEffect ==
    ASSUME TypeOK, NEW r \in Runs, Parse(r)
    PROVE  Parses(r)
<1>0. run \in [Runs -> RunState] /\ run[r] \in RunState
  BY DEF TypeOK
<1>1. PICK found \in PageRecords,
           rejects \in SUBSET {[run |-> r, page |-> run[r].page]} :
           run' = [run EXCEPT
                     ![r].records = @ \o found,
                     ![r].crawled = @ \cup {found[i] : i \in DOMAIN found},
                     ![r].rejected = @ \cup rejects,
                     ![r].page = @ + 1,
                     ![r].pc = IF run[r].page < PagesOf[SiteOf[r]]
                               THEN "fetch" ELSE "dedupe"]
  BY DEF Parse
<1>2. run'[r] = [run[r] EXCEPT
                   !.records = @ \o found,
                   !.crawled = @ \cup {found[i] : i \in DOMAIN found},
                   !.rejected = @ \cup rejects,
                   !.page = @ + 1,
                   !.pc = IF run[r].page < PagesOf[SiteOf[r]]
                          THEN "fetch" ELSE "dedupe"]
  BY <1>0, <1>1
<1>3. /\ run'[r].records = run[r].records \o found
      /\ run'[r].crawled = run[r].crawled \cup {found[i] : i \in DOMAIN found}
      /\ PastKept(r)
      /\ run'[r].pc \in {"fetch", "dedupe"}
  BY <1>0, <1>2 DEF RunState, PastKept
<1> QED BY <1>3, FoundType DEF Parse, Parses

LEMMA PutEffect ==
    ASSUME run \in [Runs -> RunState],
           NEW r \in Runs, NEW k, NEW rows, NEW next, Put(r, k, rows, next)
    PROVE  MemoryKept(r) /\ run'[r].pc \in {run[r].pc, next}
<1>0. run[r] \in RunState
  OBVIOUS
<1>1. CASE run' = [run EXCEPT ![r].open = TRUE]
  BY <1>0, <1>1 DEF MemoryKept, PastKept, RunState
<1>2. CASE run' = [run EXCEPT ![r].open = FALSE, ![r].pc = next]
  BY <1>0, <1>2 DEF MemoryKept, PastKept, RunState
<1> QED BY <1>1, <1>2 DEF Put

LEMMA PersistEffect ==
    ASSUME TypeOK, NEW r \in Runs,
           \/ PersistRaw(r) \/ PersistStaging(r) \/ PersistCurated(r)
           \/ PersistQuarantine(r) \/ PersistReport(r)
    PROVE  Proceeds(r)
<1>0. run \in [Runs -> RunState]
  BY DEF TypeOK
<1>1. {AfterStaging(r), AfterCurated(r)} \subseteq Settled \ Ended
  BY DEF AfterStaging, AfterCurated, Settled, Ended
<1>2. CASE PersistRaw(r)
  BY <1>0, <1>2, PutEffect DEF PersistRaw, Proceeds, Ended
<1>3. CASE PersistStaging(r)
  BY <1>0, <1>1, <1>3, PutEffect DEF PersistStaging, Proceeds, Settled, Ended
<1>4. CASE PersistCurated(r)
  BY <1>0, <1>1, <1>4, PutEffect DEF PersistCurated, Proceeds, Settled, Ended
<1>5. CASE PersistQuarantine(r)
  BY <1>0, <1>5, PutEffect DEF PersistQuarantine, Proceeds, Settled, Ended
<1>6. CASE PersistReport(r)
  BY <1>0, <1>6, PutEffect DEF PersistReport, Proceeds, Settled, Ended
<1> QED BY <1>2, <1>3, <1>4, <1>5, <1>6

\* Every step of a run is one of the seven.
LEMMA StepEffect ==
    ASSUME TypeOK, MarkHasRecord, NEW r \in Runs, Start(r) \/ Step(r) \/ Abort(r)
    PROVE  /\ Begins(r) \/ Parses(r) \/ Drops(r) \/ Finds(r) \/ Marks(r) \/ Proceeds(r)
           /\ today' = today
<1>0. run \in [Runs -> RunState] /\ run[r] \in RunState
  BY DEF TypeOK
<1>1. CASE Start(r)
  BY <1>0, <1>1 DEF Start, Begins, RunState
<1>2. CASE Parse(r)
  BY <1>2, ParseEffect DEF Parse
<1>3. CASE DropSeen(r)
  BY <1>0, <1>3 DEF DropSeen, Drops, PastKept, RunState
<1>4. CASE FindUnseen(r)
  BY <1>0, <1>4 DEF FindUnseen, Finds, MemoryKept, PastKept, RunState
<1>5. CASE MarkSeen(r)
  <2>1. /\ run[r].pc = "mark" /\ run'[r].pc = "dedupe"
        /\ run'[r].dt = run[r].dt
        /\ run'[r].prior = run[r].prior
        /\ run'[r].crawled = run[r].crawled
        /\ run'[r].records = Tail(run[r].records)
        /\ run'[r].deduped = Append(run[r].deduped,
                                    [hash |-> Head(run[r].records), day |-> today])
    BY <1>0, <1>5 DEF MarkSeen, RunState
  <2> QED BY <1>5, <2>1 DEF MarkSeen, MarkHasRecord, Marks
<1>6. CASE Evaluate(r)
  BY <1>0, <1>6 DEF Evaluate, Proceeds, MemoryKept, PastKept, RunState
<1>7. CASE SaveRun(r)
  BY <1>0, <1>7 DEF SaveRun, Proceeds, MemoryKept, PastKept, RunState, Settled, Ended
<1>8. CASE Abort(r)
  BY <1>0, <1>8 DEF Abort, Proceeds, MemoryKept, PastKept, RunState
<1>9. CASE \/ PersistRaw(r) \/ PersistStaging(r) \/ PersistCurated(r)
           \/ PersistQuarantine(r) \/ PersistReport(r)
  BY <1>9, PersistEffect DEF PersistRaw, PersistStaging, PersistCurated,
     PersistQuarantine, PersistReport
<1> QED BY <1>1, <1>2, <1>3, <1>4, <1>5, <1>6, <1>7, <1>8, <1>9 DEF Step

-----------------------------------------------------------------------------
(***************************************************************************)
(* The inductive invariant.  Of the entries that runs have let through, a  *)
(* row of the table is the youngest for its hash; a run that has found a   *)
(* record unseen, and is about to mark it, knows its own and all earlier   *)
(* entries to be a TTL old; and what a run has found is still to be looked *)
(* up, or some run let it through within the TTL.                          *)
(***************************************************************************)
Looking == {"fetch", "parse", "dedupe", "mark"}

HistoryInv(r) ==
    /\ run[r].dt <= today
    /\ run[r].pc = "idle" => run[r].crawled = {}
    /\ run[r].pc \in {"idle", "fetch", "parse"} => run[r].deduped = <<>>
    /\ \A s \in run[r].prior : run[s].pc \in Ended

\* No mark of h is younger than the row of h.
YoungInv(r) ==
    \A i \in DOMAIN run[r].deduped :
        LET e == run[r].deduped[i]
        IN  e.hash \in DOMAIN dedupe /\ e.day <= dedupe[e.hash].first_seen

\* A row of h comes from a run of its site that let h through.
RowInv(h) ==
    /\ dedupe[h].first_seen <= today
    /\ dedupe[h].expires_at = dedupe[h].first_seen + TtlDays
    /\ \E r \in Runs :
          /\ SiteOf[r] = dedupe[h].site_id
          /\ \E i \in DOMAIN run[r].deduped :
                 run[r].deduped[i] = [hash |-> h, day |-> dedupe[h].first_seen]

LookupInv(r) ==
    run[r].pc = "mark" =>
        \A s \in run[r].prior \cup {r} : \A j \in DOMAIN run[s].deduped :
            run[s].deduped[j].hash = Head(run[r].records) =>
                run[s].deduped[j].day + TtlDays <= today

OnceInv(r) ==
    \A s \in Runs :
        \A i \in DOMAIN run[r].deduped, j \in DOMAIN run[s].deduped :
            /\ s \in run[r].prior \/ (s = r /\ j < i)
            /\ run[r].deduped[i].hash = run[s].deduped[j].hash
            => run[r].deduped[i].day >= run[s].deduped[j].day + TtlDays

\* Some run let h through, less than a TTL before r began.
LetThrough(r, h) ==
    \E q \in Runs : \E i \in DOMAIN run[q].deduped :
        /\ run[q].deduped[i].hash = h
        /\ run[r].dt < run[q].deduped[i].day + TtlDays

FoundInv(r) ==
    /\ run[r].pc \in Looking =>
           \A h \in run[r].crawled :
               (\E i \in DOMAIN run[r].records : run[r].records[i] = h) \/ LetThrough(r, h)
    /\ run[r].pc \in Settled => \A h \in run[r].crawled : LetThrough(r, h)

\* A run that let anything through has crawled its site.
CrawlInv(r) ==
    run[r].deduped # <<>> => \A p \in 1..PagesOf[SiteOf[r]] : IsWhole(RawKey(r, p))

DedupeInvariant ==
    /\ \A r \in Runs : /\ HistoryInv(r) /\ YoungInv(r) /\ LookupInv(r)
                       /\ OnceInv(r) /\ FoundInv(r) /\ CrawlInv(r)
    /\ \A h \in DOMAIN dedupe : RowInv(h)

LEMMA InitDedupe == Init => DedupeInvariant
<1> SUFFICES ASSUME Init PROVE DedupeInvariant
  OBVIOUS
<1>1. /\ \A r \in Runs : /\ run[r].pc = "idle" /\ run[r].dt = 0
                         /\ run[r].deduped = <<>> /\ run[r].crawled = {}
                         /\ run[r].prior = {}
      /\ DOMAIN dedupe = {}
      /\ today = 1
  BY DEF Init
<1> QED BY <1>1 DEF DedupeInvariant, HistoryInv, YoungInv, LookupInv, OnceInv, FoundInv,
                   CrawlInv, Looking, Settled

-----------------------------------------------------------------------------
(* Steps. *)

\* What a mark of h adds to the n entries of r, and to the table.
MarkedAs(r, h, n) ==
    /\ h = Head(run[r].records)
    /\ DOMAIN run[r].deduped = 1..n
    /\ DOMAIN run'[r].deduped = 1..(n + 1)
    /\ \A i \in 1..n : run'[r].deduped[i] = run[r].deduped[i]
    /\ run'[r].deduped[n + 1] = [hash |-> h, day |-> today]
    /\ DOMAIN dedupe' = DOMAIN dedupe \cup {h}
    /\ dedupe'[h].site_id = SiteOf[r]
    /\ dedupe'[h].first_seen = today
    /\ dedupe'[h].expires_at = today + TtlDays
    /\ \A g \in DOMAIN dedupe \ {h} : dedupe'[g] = dedupe[g]

LEMMA MarkEffect ==
    ASSUME TypeOK, NEW r \in Runs, Marks(r)
    PROVE  \E h \in Hashes, n \in Nat : MarkedAs(r, h, n)
<1>0. PICK h : h = Head(run[r].records)
  OBVIOUS
<1> DEFINE row == [site_id |-> SiteOf[r], first_seen |-> today,
                   expires_at |-> today + TtlDays]
           e == [hash |-> h, day |-> today]
<1>1. run[r].records \in Seq(Hashes) /\ run[r].deduped \in Seq(Marked) /\ today \in Nat
  BY DEF TypeOK, RunState
<1>2. h \in Hashes
  BY <1>1, <1>0, HeadTailProperties DEF Marks
<1>3. e \in Marked
  BY <1>1, <1>2 DEF Marked
<1>4. run'[r].deduped = Append(run[r].deduped, e) /\ dedupe' = Upsert(dedupe, h, row)
  BY <1>0 DEF Marks
<1>5. /\ DOMAIN dedupe' = DOMAIN dedupe \cup {h}
      /\ dedupe'[h] = row
      /\ \A g \in DOMAIN dedupe \ {h} : dedupe'[g] = dedupe[g]
  BY <1>4 DEF Upsert
<1> HIDE DEF e
<1>6. /\ Len(run[r].deduped) \in Nat
      /\ DOMAIN run[r].deduped = 1..Len(run[r].deduped)
  BY <1>1, LenProperties
<1>7. /\ DOMAIN run'[r].deduped = 1..(Len(run[r].deduped) + 1)
      /\ \A i \in 1..Len(run[r].deduped) : run'[r].deduped[i] = run[r].deduped[i]
      /\ run'[r].deduped[Len(run[r].deduped) + 1] = e
  BY <1>1, <1>3, <1>4, <1>6, AppendProperties
<1>8. MarkedAs(r, h, Len(run[r].deduped))
  BY <1>5, <1>6, <1>7, <1>0 DEF e, MarkedAs
<1> QED BY <1>2, <1>6, <1>8

\* A step of any kind, seen from a run that does not mark.
Quiet(r) ==
    /\ run'[r].deduped = run[r].deduped
    /\ run[r].pc # "idle" => run'[r].dt = run[r].dt /\ run'[r].prior = run[r].prior

\* Entries are only added.
Grows(r) ==
    \A i \in DOMAIN run[r].deduped :
        i \in DOMAIN run'[r].deduped /\ run'[r].deduped[i] = run[r].deduped[i]

LEMMA AllGrow ==
    ASSUME TypeOK, MarkHasRecord, NEW q \in Runs, Start(q) \/ Step(q) \/ Abort(q)
    PROVE  \A r \in Runs : Grows(r)
<1> TAKE r \in Runs
<1>1. CASE r # q
  BY <1>1, StepFrame DEF Grows
<1>2. CASE r = q /\ Marks(q)
  <2>1. PICK h \in Hashes, n \in Nat : MarkedAs(q, h, n)
    BY <1>2, MarkEffect
  <2> QED BY <1>2, <2>1 DEF Grows, MarkedAs
<1>3. CASE r = q /\ ~Marks(q)
  BY <1>3, StepEffect DEF Grows, Begins, Parses, Drops, Finds, Proceeds, MemoryKept, PastKept
<1> QED BY <1>1, <1>2, <1>3

\* Facts about a run's memory that its type gives.
LEMMA RunFacts ==
    ASSUME TypeOK, NEW r \in Runs
    PROVE  /\ today \in Nat /\ TtlDays \in Nat /\ TtlDays > 0
           /\ run[r].dt \in Nat
           /\ run[r].prior \subseteq Runs
           /\ run[r].crawled \subseteq Hashes
           /\ run[r].records \in Seq(Hashes)
           /\ run[r].deduped \in Seq(Marked)
           /\ \A i \in DOMAIN run[r].deduped :
                 run[r].deduped[i].hash \in Hashes /\ run[r].deduped[i].day \in Nat
           /\ \A h \in DOMAIN dedupe : /\ dedupe[h].first_seen \in Nat
                                      /\ dedupe[h].expires_at \in Nat
<1>1. /\ today \in Nat /\ TtlDays \in Nat /\ TtlDays > 0
      /\ run[r].dt \in Nat
      /\ run[r].prior \subseteq Runs
      /\ run[r].crawled \subseteq Hashes
      /\ run[r].records \in Seq(Hashes)
      /\ run[r].deduped \in Seq(Marked)
  BY ConstantsAssumption DEF ConstantsAssumption, TypeOK, RunState
<1>2. \A i \in DOMAIN run[r].deduped : run[r].deduped[i] \in Marked
  BY <1>1, ElementOfSeq, LenProperties
<1>3. \A h \in DOMAIN dedupe : dedupe[h] \in DedupeRow
  BY DEF TypeOK
<1> QED BY <1>1, <1>2, <1>3 DEF Marked, DedupeRow

LEMMA StepHistory ==
    ASSUME TypeOK, MarkHasRecord, \A r \in Runs : HistoryInv(r),
           NEW q \in Runs, Start(q) \/ Step(q) \/ Abort(q)
    PROVE  \A r \in Runs : HistoryInv(r)'
<1> TAKE r \in Runs
<1>0. /\ run[r].prior \subseteq Runs /\ run[q].prior \subseteq Runs /\ today \in Nat
      /\ \A s \in Runs : run[s].pc \in Ended => run'[s].pc \in Ended
      /\ today' = today
  BY RunFacts, OnlyActive, StepFrame, StepEffect
<1>1. CASE r # q
  <2>1. run'[r] = run[r]
    BY <1>1, StepFrame
  <2> QED BY <1>0, <2>1 DEF HistoryInv
<1>2. CASE r = q /\ Begins(q)
  <2>1. run'[q].dt <= today /\ run'[q].pc = "fetch" /\ run'[q].deduped = <<>>
    BY <1>0, <1>2 DEF Begins, HistoryInv
  <2>2. \A s \in run'[q].prior : run'[s].pc \in Ended
    BY <1>0, <1>2 DEF Begins
  <2> QED BY <1>0, <1>2, <2>1, <2>2 DEF HistoryInv
<1>3. CASE r = q /\ ~Begins(q)
  <2>1. /\ run'[q].dt = run[q].dt /\ run'[q].prior = run[q].prior
        /\ run'[q].pc # "idle" \/ run'[q].crawled = run[q].crawled
        /\ run'[q].pc = "idle" => run[q].pc = "idle"
    BY <1>3, StepEffect DEF Parses, Drops, Finds, Marks, Proceeds, MemoryKept, PastKept,
       Settled, Ended
  <2>2. run'[q].pc \in {"idle", "fetch", "parse"} =>
           run[q].pc \in {"idle", "fetch", "parse"} /\ run'[q].deduped = run[q].deduped
    BY <1>3, StepEffect DEF Parses, Drops, Finds, Marks, Proceeds, MemoryKept, PastKept,
       Settled, Ended
  <2>3. \A s \in run[q].prior : run'[s].pc \in Ended
    BY <1>0 DEF HistoryInv
  <2> QED BY <1>0, <1>3, <2>1, <2>2, <2>3 DEF HistoryInv
<1> QED BY <1>1, <1>2, <1>3

LEMMA StepYoung ==
    ASSUME TypeOK, MarkHasRecord, \A r \in Runs : YoungInv(r),
           \A h \in DOMAIN dedupe : RowInv(h),
           NEW q \in Runs, Start(q) \/ Step(q) \/ Abort(q)
    PROVE  \A r \in Runs : YoungInv(r)'
<1>1. CASE Marks(q)
  <2>0. PICK h \in Hashes, n \in Nat : MarkedAs(q, h, n)
    BY <1>1, MarkEffect
  <2> SUFFICES ASSUME NEW r \in Runs, NEW i \in DOMAIN run'[r].deduped
               PROVE  LET e == run'[r].deduped[i]
                      IN  e.hash \in DOMAIN dedupe' /\ e.day <= dedupe'[e.hash].first_seen
    BY DEF YoungInv
  <2>1. CASE i \in DOMAIN run[r].deduped /\ run'[r].deduped[i] = run[r].deduped[i]
    <3>1. /\ run[r].deduped[i].hash \in DOMAIN dedupe
          /\ run[r].deduped[i].day <= dedupe[run[r].deduped[i].hash].first_seen
      BY <2>1 DEF YoungInv
    <3>2. CASE run[r].deduped[i].hash = h
      <4>1. dedupe[h].first_seen <= today
        BY <3>1, <3>2 DEF RowInv
      <4>2. run[r].deduped[i].day \in Nat /\ dedupe[h].first_seen \in Nat /\ today \in Nat
        BY <2>1, <3>1, <3>2, RunFacts
      <4>3. run[r].deduped[i].day <= today
        BY <3>1, <3>2, <4>1, <4>2
      <4> QED BY <2>0, <2>1, <3>2, <4>3 DEF MarkedAs
    <3>3. CASE run[r].deduped[i].hash # h
      BY <2>0, <2>1, <3>1, <3>3 DEF MarkedAs
    <3> QED BY <3>2, <3>3
  <2>2. CASE r = q /\ run'[r].deduped[i] = [hash |-> h, day |-> today]
    <3>1. h \in DOMAIN dedupe' /\ dedupe'[h].first_seen = today /\ today \in Nat
      BY <2>0, RunFacts DEF MarkedAs
    <3> QED BY <2>2, <3>1
  <2>3. CASE r # q
    BY <2>1, <2>3, StepFrame
  <2>4. CASE r = q
    <3>1. i \in 1..(n + 1) /\ n \in Nat
      BY <2>0, <2>4 DEF MarkedAs
    <3>2. CASE i \in 1..n
      BY <2>0, <2>1, <2>4, <3>2 DEF MarkedAs
    <3>3. CASE i = n + 1
      BY <2>0, <2>2, <2>4, <3>3 DEF MarkedAs
    <3> QED BY <3>1, <3>2, <3>3
  <2> QED BY <2>3, <2>4
<1>2. CASE ~Marks(q)
  <2>1. dedupe' = dedupe /\ run'[q].deduped = run[q].deduped
    BY <1>2, StepEffect DEF Begins, Parses, Drops, Finds, Proceeds, MemoryKept, PastKept
  <2>2. \A r \in Runs : run'[r].deduped = run[r].deduped
    BY <2>1, StepFrame
  <2> QED BY <2>1, <2>2 DEF YoungInv
<1> QED BY <1>1, <1>2

LEMMA StepRows ==
    ASSUME TypeOK, MarkHasRecord, \A h \in DOMAIN dedupe : RowInv(h),
           NEW q \in Runs, Start(q) \/ Step(q) \/ Abort(q)
    PROVE  \A h \in DOMAIN dedupe' : RowInv(h)'
<1>1. ASSUME NEW h \in DOMAIN dedupe, h \in DOMAIN dedupe', dedupe'[h] = dedupe[h]
      PROVE  RowInv(h)'
  <2>0. today' = today
    BY StepEffect
  <2>1. PICK r \in Runs :
           /\ SiteOf[r] = dedupe[h].site_id
           /\ \E i \in DOMAIN run[r].deduped :
                  run[r].deduped[i] = [hash |-> h, day |-> dedupe[h].first_seen]
    BY DEF RowInv
  <2>2. \E i \in DOMAIN run'[r].deduped :
           run'[r].deduped[i] = [hash |-> h, day |-> dedupe[h].first_seen]
    BY <2>1, AllGrow DEF Grows
  <2> QED BY <1>1, <2>0, <2>1, <2>2 DEF RowInv
<1>2. CASE Marks(q)
  <2>0. PICK h \in Hashes, n \in Nat : MarkedAs(q, h, n)
    BY <1>2, MarkEffect
  <2>1. ASSUME NEW g \in DOMAIN dedupe', g # h
        PROVE  RowInv(g)'
    BY <1>1, <2>0, <2>1 DEF MarkedAs
  <2>2. RowInv(h)'
    <3>1. n + 1 \in DOMAIN run'[q].deduped
      BY <2>0 DEF MarkedAs
    <3>2. run'[q].deduped[n + 1] = [hash |-> h, day |-> dedupe'[h].first_seen]
      BY <2>0 DEF MarkedAs
    <3>3. /\ dedupe'[h].expires_at = dedupe'[h].first_seen + TtlDays
          /\ SiteOf[q] = dedupe'[h].site_id
          /\ dedupe'[h].first_seen <= today'
      BY <2>0, StepEffect, RunFacts DEF MarkedAs
    <3> QED BY <3>1, <3>2, <3>3 DEF RowInv
  <2> QED BY <2>0, <2>1, <2>2 DEF MarkedAs
<1>3. CASE ~Marks(q)
  <2>1. dedupe' = dedupe
    BY <1>3, StepEffect DEF Begins, Parses, Drops, Finds, Proceeds
  <2> QED BY <1>1, <2>1
<1> QED BY <1>2, <1>3

\* A record found unseen: every mark of it that counts is a TTL old.
LEMMA FindsOld ==
    ASSUME TypeOK, NEW q \in Runs, Finds(q),
           \A r \in Runs : YoungInv(r), \A h \in DOMAIN dedupe : RowInv(h)
    PROVE  \A s \in Runs : \A j \in DOMAIN run[s].deduped :
               run[s].deduped[j].hash = Head(run[q].records) =>
                   run[s].deduped[j].day + TtlDays <= today
<1> SUFFICES ASSUME NEW s \in Runs, NEW j \in DOMAIN run[s].deduped,
                    run[s].deduped[j].hash = Head(run[q].records)
             PROVE  run[s].deduped[j].day + TtlDays <= today
  OBVIOUS
<1> DEFINE h == Head(run[q].records)
<1>1. h \in DOMAIN dedupe /\ run[s].deduped[j].day <= dedupe[h].first_seen
  BY DEF YoungInv
<1>2. ~(today < dedupe[h].expires_at)
  BY <1>1 DEF Finds, Seen
<1>3. dedupe[h].expires_at = dedupe[h].first_seen + TtlDays
  BY <1>1 DEF RowInv
<1>4. /\ dedupe[h].first_seen \in Nat /\ today \in Nat /\ TtlDays \in Nat
      /\ run[s].deduped[j].day \in Nat
  BY <1>1, RunFacts
<1> HIDE DEF h
<1> QED BY <1>1, <1>2, <1>3, <1>4

LEMMA StepLookup ==
    ASSUME TypeOK, MarkHasRecord,
           \A r \in Runs : HistoryInv(r) /\ YoungInv(r) /\ LookupInv(r),
           \A h \in DOMAIN dedupe : RowInv(h),
           NEW q \in Runs, Start(q) \/ Step(q) \/ Abort(q)
    PROVE  \A r \in Runs : LookupInv(r)'
<1> TAKE r \in Runs
<1> SUFFICES ASSUME run'[r].pc = "mark"
             PROVE  \A s \in run'[r].prior \cup {r} : \A j \in DOMAIN run'[s].deduped :
                        run'[s].deduped[j].hash = Head(run'[r].records) =>
                            run'[s].deduped[j].day + TtlDays <= today'
  BY DEF LookupInv
<1>0. today' = today /\ run[r].prior \subseteq Runs
  BY StepEffect, RunFacts
<1>1. CASE r # q
  <2>1. run'[r] = run[r]
    BY <1>1, StepFrame
  <2>2. ASSUME NEW s \in run[r].prior \cup {r}
        PROVE  run'[s] = run[s]
    BY <1>0, <1>1, <2>2, OnlyActive, StepFrame DEF HistoryInv
  <2> QED BY <1>0, <2>1, <2>2 DEF LookupInv
<1>2. CASE r = q
  <2>1. Finds(q) \/ (Proceeds(q) /\ run'[q].pc = run[q].pc)
    BY <1>2, StepEffect DEF Begins, Parses, Drops, Marks, Proceeds, Settled, Ended
  <2>2. MemoryKept(q)
    BY <2>1 DEF Finds, Proceeds
  <2>3. \A s \in Runs : run'[s].deduped = run[s].deduped
    BY <2>2, StepFrame DEF MemoryKept, PastKept
  <2>4. CASE Finds(q)
    BY <1>0, <1>2, <2>2, <2>3, <2>4, FindsOld DEF MemoryKept, PastKept
  <2>5. CASE Proceeds(q) /\ run'[q].pc = run[q].pc
    BY <1>0, <1>2, <2>2, <2>3, <2>5 DEF MemoryKept, PastKept, LookupInv
  <2> QED BY <2>1, <2>4, <2>5
<1> QED BY <1>1, <1>2

LEMMA StepOnce ==
    ASSUME TypeOK, MarkHasRecord,
           \A r \in Runs : HistoryInv(r) /\ LookupInv(r) /\ OnceInv(r),
           NEW q \in Runs, Start(q) \/ Step(q) \/ Abort(q)
    PROVE  \A r \in Runs : OnceInv(r)'
<1> SUFFICES ASSUME NEW r \in Runs, NEW s \in Runs,
                    NEW i \in DOMAIN run'[r].deduped, NEW j \in DOMAIN run'[s].deduped,
                    s \in run'[r].prior \/ (s = r /\ j < i),
                    run'[r].deduped[i].hash = run'[s].deduped[j].hash
             PROVE  run'[r].deduped[i].day >= run'[s].deduped[j].day + TtlDays
  BY DEF OnceInv
<1>1. CASE Marks(q)
  <2>5. PICK h \in Hashes, n \in Nat : MarkedAs(q, h, n)
    BY <1>1, MarkEffect
  <2>0. /\ \A p \in Runs : run'[p].prior = run[p].prior
        /\ \A p \in Runs \ {q} : run'[p] = run[p]
        /\ \A p \in Runs : run[p].prior \subseteq Runs
        /\ \A p \in Runs : q \notin run[p].prior
        /\ n \in Nat /\ DOMAIN run[q].deduped = 1..n
        /\ DOMAIN run'[q].deduped = 1..(n + 1)
        /\ \A k \in 1..n : run'[q].deduped[k] = run[q].deduped[k]
        /\ run'[q].deduped[n + 1] = [hash |-> h, day |-> today]
    <3>1. \A p \in Runs \ {q} : run'[p] = run[p]
      BY StepFrame
    <3>2. \A p \in Runs : q \notin run[p].prior
      BY <1>1 DEF Marks, HistoryInv, Ended
    <3>3. \A p \in Runs : run'[p].prior = run[p].prior
      BY <1>1, <3>1 DEF Marks
    <3> QED BY <2>5, <3>1, <3>2, <3>3, RunFacts DEF MarkedAs
  <2>1. CASE r # q
    <3>1. s # q
      BY <2>0, <2>1
    <3> QED BY <2>0, <2>1, <3>1 DEF OnceInv
  <2>2. CASE r = q /\ i \in 1..n
    <3>1. CASE s = q
      <4>1. j \in 1..n /\ j < i
        BY <2>0, <2>2, <3>1
      <4>2. run'[q].deduped[i] = run[q].deduped[i] /\ run'[q].deduped[j] = run[q].deduped[j]
        BY <2>0, <2>2, <4>1
      <4> QED BY <2>0, <2>2, <3>1, <4>1, <4>2 DEF OnceInv
    <3>2. CASE s # q
      <4>1. s \in run[r].prior /\ run'[s] = run[s]
        BY <2>0, <2>2, <3>2
      <4>2. i \in DOMAIN run[r].deduped /\ run'[r].deduped[i] = run[r].deduped[i]
        BY <2>0, <2>2
      <4> QED BY <4>1, <4>2 DEF OnceInv
    <3> QED BY <3>1, <3>2
  <2>3. CASE r = q /\ i = n + 1
    <3>1. /\ run'[r].deduped[i].day = today /\ run'[r].deduped[i].hash = h
          /\ s \in run[q].prior \cup {q}
      BY <2>0, <2>3
    <3>2. j \in DOMAIN run[s].deduped /\ run'[s].deduped[j] = run[s].deduped[j]
      BY <2>0, <2>3
    <3>3. run[s].deduped[j].day + TtlDays <= today
      <4>1. run[s].deduped[j].hash = Head(run[q].records)
        BY <2>5, <3>1, <3>2 DEF MarkedAs
      <4>2. run[q].pc = "mark"
        BY <1>1 DEF Marks
      <4> QED BY <3>1, <3>2, <4>1, <4>2 DEF LookupInv
    <3>4. today \in Nat /\ TtlDays \in Nat /\ run[s].deduped[j].day \in Nat
      BY <3>2, RunFacts
    <3> QED BY <3>1, <3>2, <3>3, <3>4
  <2> QED BY <2>0, <2>1, <2>2, <2>3
<1>2. CASE Begins(q)
  <2>1. \A p \in Runs : run'[p].deduped = run[p].deduped
    BY <1>2, StepFrame DEF Begins
  <2>2. run[q].deduped = <<>>
    BY <1>2 DEF Begins, HistoryInv
  <2>3. DOMAIN run'[q].deduped = {}
    BY <2>1, <2>2
  <2>4. r # q
    BY <2>3
  <2>5. run'[r].prior = run[r].prior
    BY <2>4, StepFrame
  <2> QED BY <2>1, <2>5 DEF OnceInv
<1>3. CASE ~Marks(q) /\ ~Begins(q)
  <2>1. PastKept(q)
    BY <1>3, StepEffect DEF Parses, Drops, Finds, Proceeds, MemoryKept
  <2>2. \A p \in Runs : run'[p].deduped = run[p].deduped /\ run'[p].prior = run[p].prior
    BY <2>1, StepFrame DEF PastKept
  <2> QED BY <2>2 DEF OnceInv
<1> QED BY <1>1, <1>2, <1>3

\* What was let through stays let through.
LEMMA LetThroughStays ==
    ASSUME \A p \in Runs : Grows(p), NEW r \in Runs, run'[r].dt = run[r].dt,
           NEW h, LetThrough(r, h)
    PROVE  LetThrough(r, h)'
BY DEF LetThrough, Grows

\* A record that is dropped was let through by the run its row comes from.
LEMMA DroppedWasLetThrough ==
    ASSUME TypeOK, NEW q \in Runs, HistoryInv(q), Drops(q),
           \A h \in DOMAIN dedupe : RowInv(h)
    PROVE  LetThrough(q, Head(run[q].records))
<1> DEFINE h == Head(run[q].records)
<1>1. h \in DOMAIN dedupe /\ today < dedupe[h].expires_at
  BY DEF Drops, Seen
<1>2. PICK r \in Runs : \E i \in DOMAIN run[r].deduped :
         run[r].deduped[i] = [hash |-> h, day |-> dedupe[h].first_seen]
  BY <1>1 DEF RowInv
<1>3. dedupe[h].expires_at = dedupe[h].first_seen + TtlDays
  BY <1>1 DEF RowInv
<1>4. /\ today \in Nat /\ TtlDays \in Nat /\ run[q].dt \in Nat
      /\ dedupe[h].first_seen \in Nat /\ run[q].dt <= today
  BY <1>1, RunFacts DEF HistoryInv
<1>5. run[q].dt < dedupe[h].first_seen + TtlDays
  BY <1>1, <1>3, <1>4
<1> HIDE DEF h
<1>6. LetThrough(q, h)
  BY <1>2, <1>5 DEF LetThrough
<1> QED BY <1>6 DEF h

\* A sequence that is not empty is its head and its tail.
LEMMA HeadOrTail ==
    ASSUME NEW S, NEW t \in Seq(S), t # <<>>, NEW i \in DOMAIN t, t[i] # Head(t)
    PROVE  \E j \in DOMAIN Tail(t) : Tail(t)[j] = t[i]
<1>1. /\ Len(t) \in Nat /\ DOMAIN t = 1..Len(t) /\ Head(t) = t[1]
      /\ Len(Tail(t)) = Len(t) - 1 /\ DOMAIN Tail(t) = 1..Len(Tail(t))
      /\ \A j \in 1..Len(Tail(t)) : Tail(t)[j] = t[j + 1]
  BY HeadTailProperties, LenProperties
<1>2. i - 1 \in 1..(Len(t) - 1)
  BY <1>1
<1> QED BY <1>1, <1>2

LEMMA StepFound ==
    ASSUME TypeOK, MarkHasRecord,
           \A r \in Runs : HistoryInv(r) /\ FoundInv(r),
           \A h \in DOMAIN dedupe : RowInv(h),
           NEW q \in Runs, Start(q) \/ Step(q) \/ Abort(q)
    PROVE  \A r \in Runs : FoundInv(r)'
<1> TAKE r \in Runs
<1>0. \A p \in Runs : Grows(p)
  BY AllGrow
<1>1. CASE r # q
  BY <1>0, <1>1, StepFrame, LetThroughStays DEF FoundInv
<1> DEFINE t == run[q].records
           Left(h) == \E i \in DOMAIN t : t[i] = h
<1>2. CASE Begins(q)
  <2>1. run'[q].crawled = {}
    BY <1>2 DEF Begins, HistoryInv
  <2>2. FoundInv(q)'
    BY <2>1 DEF FoundInv
  <2> QED BY <1>1, <2>2
<1>3. CASE Parses(q)
  <2>1. PICK found \in Seq(Hashes) :
           /\ run'[q].records = t \o found
           /\ run'[q].crawled = run[q].crawled \cup {found[i] : i \in DOMAIN found}
    BY <1>3 DEF Parses
  <2>2. /\ Len(t) \in Nat /\ Len(found) \in Nat
        /\ DOMAIN t = 1..Len(t) /\ DOMAIN found = 1..Len(found)
        /\ DOMAIN (t \o found) = 1..(Len(t) + Len(found))
        /\ \A i \in 1..Len(t) : (t \o found)[i] = t[i]
        /\ \A i \in 1..Len(found) : (t \o found)[Len(t) + i] = found[i]
    <3>1. t \in Seq(Hashes)
      BY RunFacts
    <3> HIDE DEF t
    <3> QED BY <3>1, LenProperties, ConcatProperties
  <2>3. ASSUME NEW h \in run'[q].crawled
        PROVE  (\E i \in DOMAIN run'[q].records : run'[q].records[i] = h)
               \/ LetThrough(q, h)'
    <3> HIDE DEF t
    <3>1. CASE h \in run[q].crawled
      <4>1. Left(h) \/ LetThrough(q, h)
        BY <1>3, <3>1 DEF Parses, FoundInv, Looking, t
      <4>2. CASE Left(h)
        BY <2>1, <2>2, <4>2
      <4>3. CASE LetThrough(q, h)
        BY <1>0, <1>3, <4>3, LetThroughStays DEF Parses, PastKept
      <4> QED BY <4>1, <4>2, <4>3
    <3>2. CASE h \notin run[q].crawled
      <4>1. PICK i \in 1..Len(found) : found[i] = h
        BY <2>1, <2>2, <2>3, <3>2
      <4>2. Len(t) + i \in 1..(Len(t) + Len(found))
        BY <2>2
      <4> QED BY <2>1, <2>2, <4>1, <4>2
    <3> QED BY <3>1, <3>2
  <2>4. FoundInv(q)'
    BY <1>3, <2>3 DEF Parses, FoundInv, Looking, Settled
  <2> QED BY <1>1, <2>4
<1>4. CASE Drops(q) \/ Marks(q)
  <2>1. /\ t \in Seq(Hashes) /\ t # <<>> /\ run'[q].records = Tail(t)
        /\ run'[q].crawled = run[q].crawled /\ run'[q].dt = run[q].dt
        /\ run[q].pc \in Looking /\ run'[q].pc = "dedupe"
    BY <1>4, RunFacts DEF Drops, Marks, PastKept, Looking
  <2>2. ASSUME NEW h, h = Head(t)
        PROVE  LetThrough(q, h)'
    <3>1. CASE Drops(q)
      <4>1. LetThrough(q, h)
        BY <2>2, <3>1, DroppedWasLetThrough
      <4> QED BY <1>0, <2>1, <4>1, LetThroughStays
    <3>2. CASE Marks(q)
      <4>0. PICK g \in Hashes, n \in Nat : MarkedAs(q, g, n)
        BY <3>2, MarkEffect
      <4>1. n + 1 \in DOMAIN run'[q].deduped
        BY <2>2, <4>0 DEF MarkedAs
      <4>2. /\ run'[q].deduped[n + 1].hash = h
            /\ run'[q].deduped[n + 1].day = today
        BY <2>2, <4>0 DEF MarkedAs
      <4>3. run'[q].dt < today + TtlDays
        BY <2>1, RunFacts DEF HistoryInv
      <4> QED BY <4>1, <4>2, <4>3 DEF LetThrough
    <3> QED BY <1>4, <3>1, <3>2
  <2>3. ASSUME NEW h \in run'[q].crawled
        PROVE  (\E i \in DOMAIN run'[q].records : run'[q].records[i] = h)
               \/ LetThrough(q, h)'
    <3>1. Left(h) \/ LetThrough(q, h)
      BY <2>1 DEF FoundInv
    <3> HIDE DEF t
    <3>2. CASE LetThrough(q, h)
      BY <1>0, <2>1, <3>2, LetThroughStays
    <3>3. CASE h = Head(t)
      BY <2>2, <3>3
    <3>4. CASE Left(h) /\ h # Head(t)
      <4>1. PICK i \in DOMAIN t : t[i] = h
        BY <3>4
      <4>2. \E j \in DOMAIN Tail(t) : Tail(t)[j] = h
        BY <2>1, <3>4, <4>1, HeadOrTail
      <4> QED BY <2>1, <4>2
    <3> QED BY <3>1, <3>2, <3>3, <3>4
  <2>4. FoundInv(q)'
    BY <2>1, <2>3 DEF FoundInv, Settled
  <2> QED BY <1>1, <2>4
<1>5. CASE Finds(q) \/ Proceeds(q)
  <2>1. /\ MemoryKept(q)
        /\ run'[q].pc \in Looking => run[q].pc \in Looking
        /\ run'[q].pc \in Settled =>
              run[q].pc \in Settled \/ (run[q].pc \in Looking /\ run[q].records = <<>>)
    BY <1>5 DEF Finds, Proceeds, Looking, Settled, Ended
  <2>2. /\ run'[q].records = run[q].records /\ run'[q].crawled = run[q].crawled
        /\ run'[q].dt = run[q].dt
    BY <2>1 DEF MemoryKept, PastKept
  <2>3. \A h : LetThrough(q, h) => LetThrough(q, h)'
    BY <1>0, <2>2, LetThroughStays
  <2>4. ASSUME run'[q].pc \in Looking
        PROVE  \A h \in run'[q].crawled :
                 (\E i \in DOMAIN run'[q].records : run'[q].records[i] = h)
                 \/ LetThrough(q, h)'
    BY <2>1, <2>2, <2>3, <2>4 DEF FoundInv
  <2>5. ASSUME run'[q].pc \in Settled
        PROVE  \A h \in run'[q].crawled : LetThrough(q, h)'
    BY <2>1, <2>2, <2>3, <2>5 DEF FoundInv
  <2>6. FoundInv(q)'
    BY <2>4, <2>5 DEF FoundInv
  <2> QED BY <1>1, <2>6
<1> QED BY <1>2, <1>3, <1>4, <1>5, StepEffect

\* A raw page of a run that no longer crawls is not opened again.
LEMMA StepCrawl ==
    ASSUME TypeOK, MarkHasRecord, \A r \in Runs : RunInv(r),
           \A r \in Runs : HistoryInv(r) /\ CrawlInv(r),
           NEW q \in Runs, Start(q) \/ Step(q) \/ Abort(q)
    PROVE  \A r \in Runs : CrawlInv(r)'
<1> TAKE r \in Runs
<1>1. CASE r # q
  <2>1. run'[r] = run[r] /\ \A p \in Nat : Same(RawKey(r, p))
    BY <1>1, StepFrame DEF OwnKey
  <2>2. PagesOf[SiteOf[r]] \in Nat
    BY ConstantsAssumption DEF ConstantsAssumption
  <2>3. \A p \in 1..PagesOf[SiteOf[r]] : p \in Nat
    BY <2>2
  <2> QED BY <2>1, <2>3 DEF CrawlInv, Same, IsWhole, Exists, RawKey
<1>2. CASE Marks(q) /\ r = q
  <2>1. objects' = objects
    BY <1>2 DEF Marks, Start, Step, Abort, PersistRaw, Parse, DropSeen, FindUnseen,
       MarkSeen, Evaluate, PersistStaging, PersistCurated, PersistQuarantine,
       PersistReport, SaveRun
  <2>2. run[q].pc \in BeyondCrawl /\ RawInv(q)
    BY <1>2 DEF Marks, RunInv, BeyondCrawl
  <2>5. \A p \in Nat : 1 <= p /\ p < run[q].page => IsWhole(RawKey(q, p))
    BY <2>2 DEF RawInv
  <2>3. PagesOf[SiteOf[q]] \in Nat /\ PagesOf[SiteOf[q]] < run[q].page /\ run[q].page \in Nat
    BY <2>2, ConstantsAssumption DEF ConstantsAssumption, RawInv, TypeOK, RunState
  <2>4. \A p \in 1..PagesOf[SiteOf[q]] : IsWhole(RawKey(q, p))
    BY <2>5, <2>3
  <2> QED BY <1>2, <2>1, <2>4 DEF CrawlInv, IsWhole, Exists, RawKey
<1>3. CASE ~Marks(q) /\ r = q
  <2>1. run'[q].deduped = run[q].deduped
    BY <1>3, StepEffect DEF Begins, Parses, Drops, Finds, Proceeds, MemoryKept, PastKept
  <2> SUFFICES ASSUME run[q].deduped # <<>>
               PROVE  \A p \in 1..PagesOf[SiteOf[q]] : IsWhole(RawKey(q, p))'
    BY <1>3, <2>1 DEF CrawlInv
  <2>2. run[q].pc \notin {"idle", "fetch", "parse"}
    BY DEF HistoryInv
  <2>3. \A p : Same(RawKey(q, p))
    <3>1. CASE UNCHANGED objects
      BY <3>1, QuietSame
    <3>2. ASSUME NEW k, NEW rows, NEW next, Put(q, k, rows, next), k[1] # "raw"
          PROVE  \A p : Same(RawKey(q, p))
      BY <3>2, PutSame, RawKeyFacts
    <3>3. CASE PersistStaging(q)
      BY <3>2, <3>3, KeyFacts DEF PersistStaging
    <3>4. CASE PersistCurated(q)
      BY <3>2, <3>4, KeyFacts DEF PersistCurated
    <3>5. CASE PersistQuarantine(q)
      <4>1. QuarantineKey(q)[1] = "quarantine"
        BY SharedKeyFacts
      <4> QED BY <3>2, <3>5, <4>1 DEF PersistQuarantine
    <3>6. CASE PersistReport(q)
      <4>1. LatestReportKey[1] = "latest"
        BY SharedKeyFacts
      <4> QED BY <3>2, <3>6, <4>1, KeyFacts DEF PersistReport
    <3> QED BY <2>2, <3>1, <3>3, <3>4, <3>5, <3>6 DEF Start, Step, Abort, PersistRaw, Parse,
            DropSeen, FindUnseen, MarkSeen, Evaluate, SaveRun
  <2>4. \A p \in 1..PagesOf[SiteOf[q]] : IsWhole(RawKey(q, p))
    BY DEF CrawlInv
  <2> QED BY <2>3, <2>4 DEF Same, IsWhole, Exists, RawKey
<1> QED BY <1>1, <1>2, <1>3

\* The next day makes every row and every entry older, and moves nothing.
LEMMA DayStep ==
    ASSUME TypeOK, DedupeInvariant,
           UNCHANGED <<run, objects, dedupe>>, today' \in Nat, today <= today'
    PROVE  DedupeInvariant'
<1>0. \A k : Same(k)
  BY QuietSame
<1>1. ASSUME NEW r \in Runs
      PROVE  /\ HistoryInv(r)' /\ YoungInv(r)' /\ OnceInv(r)' /\ FoundInv(r)' /\ CrawlInv(r)'
  <2>1. HistoryInv(r)'
    BY RunFacts DEF DedupeInvariant, HistoryInv
  <2>2. YoungInv(r)' /\ OnceInv(r)'
    BY DEF DedupeInvariant, YoungInv, OnceInv
  <2>3. FoundInv(r)'
    BY DEF DedupeInvariant, FoundInv, LetThrough
  <2>4. CrawlInv(r)'
    BY DEF DedupeInvariant, CrawlInv, IsWhole, Exists, RawKey
  <2> QED BY <2>1, <2>2, <2>3, <2>4
<1>2. ASSUME NEW r \in Runs
      PROVE  LookupInv(r)'
  <2> SUFFICES ASSUME run[r].pc = "mark",
                      NEW s \in run[r].prior \cup {r}, NEW j \in DOMAIN run[s].deduped,
                      run[s].deduped[j].hash = Head(run[r].records)
               PROVE  run[s].deduped[j].day + TtlDays <= today'
    BY DEF LookupInv
  <2>1. run[s].deduped[j].day + TtlDays <= today
    BY DEF DedupeInvariant, LookupInv
  <2>2. s \in Runs
    BY RunFacts
  <2>3. run[s].deduped[j].day \in Nat /\ TtlDays \in Nat /\ today \in Nat
    BY <2>2, RunFacts
  <2> QED BY <2>1, <2>3
<1>3. ASSUME NEW h \in DOMAIN dedupe
      PROVE  RowInv(h)'
  <2>2. dedupe[h].first_seen <= today /\ today \in Nat
    BY DEF DedupeInvariant, RowInv, TypeOK
  <2>3. dedupe[h].first_seen \in Nat
    BY DEF TypeOK, DedupeRow
  <2>1. dedupe[h].first_seen <= today'
    BY <2>2, <2>3
  <2> QED BY <2>1 DEF DedupeInvariant, RowInv
<1> QED BY <1>1, <1>2, <1>3 DEF DedupeInvariant

LEMMA NextDedupe == IInv /\ DedupeInvariant /\ [Next]_vars => DedupeInvariant'
<1> SUFFICES ASSUME IInv, DedupeInvariant, [Next]_vars PROVE DedupeInvariant'
  OBVIOUS
<1>0. TypeOK /\ (\A r \in Runs : RunInv(r)) /\ MarkHasRecord /\ today \in Nat
  BY DEF IInv, TypeInv, TypeOK, RunInv, OpenInv, MarkHasRecord
<1>1. CASE \E q \in Runs : Start(q) \/ Step(q) \/ Abort(q)
  BY <1>0, <1>1, StepHistory, StepYoung, StepRows, StepLookup, StepOnce, StepFound,
     StepCrawl DEF DedupeInvariant
<1>2. CASE NewDay
  BY <1>0, <1>2, DayStep DEF NewDay
<1>3. CASE UNCHANGED vars
  BY <1>0, <1>3, DayStep DEF vars
<1> QED BY <1>1, <1>2, <1>3 DEF Next

LEMMA DedupeInvariance == Spec => []DedupeInvariant
<1>1. Spec => []IInv
  BY Invariance
<1> QED BY <1>1, InitDedupe, NextDedupe, PTL DEF Spec

-----------------------------------------------------------------------------
(* The theorems. *)

\* The dedupe lets a hash through at most once per TTL within a run, and
\* between a run and those that ended before it began, although the lookup
\* and the mark are separate transactions and other runs come in between.
THEOREM OncePerTtl == Spec => []NoRepublishWithinTtl
<1>1. DedupeInvariant => NoRepublishWithinTtl
  BY DEF DedupeInvariant, OnceInv, NoRepublishWithinTtl
<1> QED BY <1>1, DedupeInvariance, PTL

\* A run that has let something through still has its batch, or has put it
\* where its gate sent it, or has failed.
LEMMA BatchesAreFound ==
    ASSUME IInv, DedupeInvariant, NEW r \in Runs, NEW i \in DOMAIN run[r].deduped
    PROVE  BatchCanBeFound(r) \/ run[r].pc = "failed"
<1>1. run[r].deduped # <<>>
  OBVIOUS
<1>2. run[r].pc \notin {"idle", "fetch", "parse"}
  BY <1>1 DEF DedupeInvariant, HistoryInv
<1>3. CASE run[r].pc \in BeyondCurated /\ run[r].gate = "fail"
  BY <1>3 DEF IInv, RunInv, StagingInv, BeyondStaging, BatchCanBeFound
<1>4. CASE run[r].pc \in BeyondCurated /\ run[r].gate # "fail"
  BY <1>4 DEF IInv, RunInv, CuratedInv, BatchCanBeFound
<1>5. run[r].pc \in Phases
  BY DEF IInv, TypeInv, TypeOK, RunState
<1> QED BY <1>2, <1>3, <1>4, <1>5 DEF Phases, Ended, BeyondCurated, Closing, BatchCanBeFound

\* What a run drops was let through by a run that has it, has stored it, or
\* failed: no run that finishes drops what no zone and no run has, but for what
\* a failed run left marked.
THEOREM DroppedWasSeen == Spec => []NothingDroppedUnseen
<1>1. IInv /\ DedupeInvariant => NothingDroppedUnseen
  <2> SUFFICES ASSUME IInv, DedupeInvariant, NEW r \in Runs, run[r].pc \in Settled,
                      NEW h \in run[r].crawled
               PROVE  \E q \in Runs :
                         /\ \E i \in DOMAIN run[q].deduped :
                                /\ run[q].deduped[i].hash = h
                                /\ run[r].dt < run[q].deduped[i].day + TtlDays
                         /\ BatchCanBeFound(q) \/ run[q].pc = "failed"
    BY DEF Settled, NothingDroppedUnseen
  <2>1. LetThrough(r, h)
    BY DEF DedupeInvariant, FoundInv
  <2> QED BY <2>1, BatchesAreFound DEF LetThrough
<1> QED BY <1>1, Invariance, DedupeInvariance, PTL

\* A row in the dedupe table proves that its run had crawled its whole site.
THEOREM MarkedAfterCrawl == Spec => []MarkedOnlyAfterWholeCrawl
<1>1. DedupeInvariant => MarkedOnlyAfterWholeCrawl
  <2> SUFFICES ASSUME DedupeInvariant, NEW h \in DOMAIN dedupe
               PROVE  \E r \in Runs :
                         /\ SiteOf[r] = dedupe[h].site_id
                         /\ \E i \in DOMAIN run[r].deduped :
                                run[r].deduped[i] = [hash |-> h, day |-> dedupe[h].first_seen]
                         /\ \A p \in 1..PagesOf[SiteOf[r]] : IsWhole(RawKey(r, p))
    BY DEF MarkedOnlyAfterWholeCrawl
  <2>1. PICK r \in Runs :
           /\ SiteOf[r] = dedupe[h].site_id
           /\ \E i \in DOMAIN run[r].deduped :
                  run[r].deduped[i] = [hash |-> h, day |-> dedupe[h].first_seen]
    BY DEF DedupeInvariant, RowInv
  <2>2. run[r].deduped # <<>>
    BY <2>1
  <2>3. CrawlInv(r)
    BY DEF DedupeInvariant
  <2> QED BY <2>1, <2>2, <2>3 DEF CrawlInv
<1> QED BY <1>1, DedupeInvariance, PTL

\* What is marked seen and dropped from later runs can be found: in the curated
\* zone, in the staging zone of a gate that failed, or in the memory of a run
\* that goes on; only a run that failed can have lost it.
THEOREM SeenIsKept == Spec => []SeenIsAccountedFor
<1>1. IInv /\ DedupeInvariant => SeenIsAccountedFor
  <2> SUFFICES ASSUME IInv, DedupeInvariant, NEW h \in DOMAIN dedupe
               PROVE  \E r \in Runs :
                         /\ SiteOf[r] = dedupe[h].site_id
                         /\ \E i \in DOMAIN run[r].deduped :
                                run[r].deduped[i] = [hash |-> h, day |-> dedupe[h].first_seen]
                         /\ BatchCanBeFound(r) \/ run[r].pc = "failed"
    BY DEF SeenIsAccountedFor
  <2>1. PICK r \in Runs :
           /\ SiteOf[r] = dedupe[h].site_id
           /\ \E i \in DOMAIN run[r].deduped :
                  run[r].deduped[i] = [hash |-> h, day |-> dedupe[h].first_seen]
    BY DEF DedupeInvariant, RowInv
  <2> QED BY <2>1, BatchesAreFound
<1> QED BY <1>1, Invariance, DedupeInvariance, PTL

\* A run that is done has its manifest, whatever other runs save.
DoneInv ==
    \A r \in Runs : run[r].pc = "done" =>
        \E m \in manifests : m.run_id = r /\ m.site_count = Len(run[r].deduped)

LEMMA NextDone == IInv /\ DoneInv /\ [Next]_vars => DoneInv'
<1> SUFFICES ASSUME IInv, DoneInv, [Next]_vars PROVE DoneInv'
  OBVIOUS
<1>0. TypeOK /\ run \in [Runs -> RunState] /\ MarkHasRecord
  BY DEF IInv, TypeInv, TypeOK, RunInv, OpenInv, MarkHasRecord
<1>1. ASSUME NEW q \in Runs, SaveRun(q)
      PROVE  DoneInv'
  <2> DEFINE m == [run_id |-> q, site_count |-> Len(run[q].deduped),
                   quarantined |-> Cardinality(run[q].rejected)]
  <2>1. manifests' = {n \in manifests : n.run_id # q} \cup {m}
    BY <1>1 DEF SaveRun
  <2>2. run'[q].deduped = run[q].deduped
    BY <1>0, <1>1 DEF SaveRun, RunState
  <2>3. \A r \in Runs \ {q} : run'[r] = run[r]
    BY <1>0, <1>1 DEF SaveRun
  <2>4. m \in manifests' /\ m.run_id = q /\ m.site_count = Len(run[q].deduped)
    BY <2>1
  <2> HIDE DEF m
  <2>5. ASSUME NEW r \in Runs, run'[r].pc = "done"
        PROVE  \E n \in manifests' : n.run_id = r /\ n.site_count = Len(run'[r].deduped)
    <3>1. CASE r = q
      BY <2>2, <2>4, <3>1
    <3>2. CASE r # q
      BY <2>1, <2>3, <2>5, <3>2 DEF DoneInv
    <3> QED BY <3>1, <3>2
  <2> QED BY <2>5 DEF DoneInv
<1>2. ASSUME NEW q \in Runs, Start(q) \/ Step(q) \/ Abort(q), ~SaveRun(q)
      PROVE  DoneInv'
  <2>1. manifests' = manifests
    BY <1>2 DEF Start, Step, Abort, PersistRaw, Parse, DropSeen, FindUnseen, MarkSeen,
       Evaluate, PersistStaging, PersistCurated, PersistQuarantine, PersistReport
  <2>2. \A r \in Runs \ {q} : run'[r] = run[r]
    BY <1>0, <1>2, StepFrame
  <2>3. run'[q].pc # "done"
    <3>1. CASE \/ PersistRaw(q) \/ PersistStaging(q) \/ PersistCurated(q)
               \/ PersistQuarantine(q) \/ PersistReport(q)
      <4>0. AfterStaging(q) # "done" /\ AfterCurated(q) # "done"
        BY DEF AfterStaging, AfterCurated
      <4> QED BY <1>0, <3>1, <4>0, PutEffect DEF PersistRaw, PersistStaging, PersistCurated,
              PersistQuarantine, PersistReport
    <3>2. CASE Abort(q)
      BY <1>0, <3>2 DEF Abort, RunState
    <3>3. CASE Parse(q)
      BY <1>0, <3>3, ParseEffect DEF Parses
    <3>4. CASE Evaluate(q)
      BY <1>0, <3>4 DEF Evaluate, RunState
    <3>5. CASE Start(q)
      BY <1>0, <3>5 DEF Start, RunState
    <3>6. CASE DropSeen(q) \/ FindUnseen(q) \/ MarkSeen(q)
      BY <1>0, <3>6 DEF DropSeen, FindUnseen, MarkSeen, RunState
    <3> QED BY <1>2, <3>1, <3>2, <3>3, <3>4, <3>5, <3>6 DEF Step
  <2> QED BY <2>1, <2>2, <2>3 DEF DoneInv
<1>3. CASE NewDay \/ UNCHANGED vars
  BY <1>3 DEF NewDay, vars, DoneInv
<1> QED BY <1>1, <1>2, <1>3 DEF Next

\* Exit code 0 of the command line is a promise about the store: the run's
\* batch is published, and the manifest that counts it is still there.
THEOREM ExitZeroIsTrue == Spec => []ExitZeroMeansPublished
<1>1. Init => DoneInv
  BY DEF Init, DoneInv
<1>2. IInv /\ DoneInv => ExitZeroMeansPublished
  <2> SUFFICES ASSUME IInv, DoneInv, NEW r \in Runs,
                      run[r].pc = "done", run[r].gate # "fail"
               PROVE  /\ run[r].deduped # <<>>
                      /\ Holds(CuratedKey(r), r, run[r].deduped)
                      /\ \E m \in manifests :
                             m.run_id = r /\ m.site_count = Len(run[r].deduped)
    BY DEF ExitCode, ExitZeroMeansPublished
  <2>1. CuratedInv(r)
    BY DEF IInv, RunInv
  <2>2. run[r].deduped # <<>> /\ Holds(CuratedKey(r), r, run[r].deduped)
    BY <2>1 DEF CuratedInv, BeyondCurated, Closing
  <2> QED BY <2>2 DEF DoneInv
<1> QED BY <1>1, <1>2, NextDone, Invariance, PTL DEF Spec

=============================================================================
