---------------------------- MODULE RunSiteProofs ----------------------------
(***************************************************************************)
(* Proofs about RunSite, for any number of runs, sites, pages and hashes,  *)
(* any TTL and any calendar.                                               *)
(***************************************************************************)
EXTENDS RunSite, SequenceTheorems, FiniteSetTheorems, TLAPS

-----------------------------------------------------------------------------
(* The store: what Upsert and Put do to it. *)

\* Upsert adds or replaces one entry and leaves the others alone.
LEMMA UpsertType ==
    ASSUME NEW S, NEW f, f \in [DOMAIN f -> S], NEW x, NEW v \in S
    PROVE  Upsert(f, x, v) \in [DOMAIN f \cup {x} -> S]
BY Zenon DEF Upsert

LEMMA ObjectsUpsert ==
    ASSUME NEW k, NEW v, objects' = Upsert(objects, k, v)
    PROVE  /\ DOMAIN objects' = DOMAIN objects \cup {k}
           /\ objects'[k] = v
           /\ \A y \in DOMAIN objects \ {k} : objects'[y] = objects[y]
BY DEF Upsert

\* What a file can hold tells the three cases apart.
LEMMA FileFacts ==
    ASSUME NEW r, NEW rows
    PROVE  /\ Torn.state = "torn"
           /\ Mixed.state = "mixed"
           /\ Whole(r, rows).state = "whole"
           /\ Whole(r, rows).by = r
           /\ Whole(r, rows).rows = rows
BY DEF Torn, Mixed, Whole

\* The states a file can be in, as TypeOK has them.
FilesOK == \A k \in DOMAIN objects : objects[k].state \in {"torn", "mixed", "whole"}

LEMMA FilesUpsert ==
    ASSUME FilesOK, NEW k, NEW v, v.state \in {"torn", "mixed", "whole"},
           objects' = Upsert(objects, k, v)
    PROVE  FilesOK'
<1> SUFFICES ASSUME NEW y \in DOMAIN objects'
             PROVE  objects'[y].state \in {"torn", "mixed", "whole"}
  BY DEF FilesOK
<1>1. /\ DOMAIN objects' = DOMAIN objects \cup {k}
      /\ objects'[k] = v
      /\ \A x \in DOMAIN objects \ {k} : objects'[x] = objects[x]
  BY ObjectsUpsert
<1>2. CASE y = k
  BY <1>1, <1>2
<1>3. CASE y # k
  BY <1>1, <1>3 DEF FilesOK
<1> QED BY <1>2, <1>3

\* A put keeps the files well formed and moves only the run that makes it.
LEMMA PutType ==
    ASSUME run \in [Runs -> RunState], FilesOK,
           NEW r \in Runs, NEW k, NEW rows, NEW next \in Phases,
           Put(r, k, rows, next)
    PROVE  /\ run' \in [Runs -> RunState]
           /\ FilesOK'
           /\ \A q \in Runs : run'[q].rejected = run[q].rejected
<1>0. run[r] \in RunState
  OBVIOUS
<1>1. ASSUME objects' = Upsert(objects, k, Torn),
             run' = [run EXCEPT ![r].open = TRUE]
      PROVE  /\ run' \in [Runs -> RunState]
             /\ FilesOK'
             /\ \A q \in Runs : run'[q].rejected = run[q].rejected
  <2>1. [run[r] EXCEPT !.open = TRUE] \in RunState
    BY <1>0 DEF RunState
  <2>2. run' \in [Runs -> RunState]
    BY <1>1, <2>1
  <2>3. FilesOK'
    BY <1>1, FilesUpsert, FileFacts
  <2>4. \A q \in Runs : run'[q].rejected = run[q].rejected
    BY <1>0, <1>1 DEF RunState
  <2> QED BY <2>2, <2>3, <2>4
<1>2. ASSUME NEW c \in Written(k, Whole(r, rows)),
             objects' = Upsert(objects, k, c),
             run' = [run EXCEPT ![r].open = FALSE, ![r].pc = next]
      PROVE  /\ run' \in [Runs -> RunState]
             /\ FilesOK'
             /\ \A q \in Runs : run'[q].rejected = run[q].rejected
  <2>1. [run[r] EXCEPT !.open = FALSE, !.pc = next] \in RunState
    BY <1>0 DEF RunState
  <2>2. run' \in [Runs -> RunState]
    BY <1>2, <2>1
  <2>3. c.state \in {"torn", "mixed", "whole"}
    BY FileFacts DEF Written
  <2>4. FilesOK'
    BY <1>2, <2>3, FilesUpsert
  <2>5. \A q \in Runs : run'[q].rejected = run[q].rejected
    BY <1>0, <1>2 DEF RunState
  <2> QED BY <2>2, <2>4, <2>5
<1> QED BY <1>1, <1>2 DEF Put

-----------------------------------------------------------------------------
(* Type correctness. *)

\* A run rejects finitely many items, so the manifest's count is a number.
RejectsFinite == \A r \in Runs : IsFiniteSet(run[r].rejected)

TypeInv == TypeOK /\ RejectsFinite

LEMMA InitType == Init => TypeInv
<1> SUFFICES ASSUME Init PROVE TypeInv
  OBVIOUS
<1>1. run \in [Runs -> RunState]
  BY EmptySeq DEF Init, RunState, Phases, Gates
<1>2. RejectsFinite
  BY FS_EmptySet DEF Init, RejectsFinite
<1> QED BY <1>1, <1>2 DEF Init, TypeInv, TypeOK, DedupeRow

LEMMA StartType ==
    ASSUME TypeInv, NEW r \in Runs, Start(r)
    PROVE  TypeInv'
<1>0. run \in [Runs -> RunState] /\ run[r] \in RunState /\ today \in Nat
  BY DEF TypeInv, TypeOK
<1>1. [run[r] EXCEPT !.pc = "fetch", !.dt = today,
                     !.prior = {q \in Runs : run[q].pc \in Ended}] \in RunState
  BY <1>0 DEF RunState, Phases
<1>2. run' \in [Runs -> RunState]
  BY <1>0, <1>1 DEF Start
<1>3. \A q \in Runs : run'[q].rejected = run[q].rejected
  BY <1>0 DEF Start, RunState
<1> QED BY <1>2, <1>3 DEF Start, TypeInv, TypeOK, RejectsFinite

\* What a page yields is a sequence of hashes.
LEMMA FoundType ==
    ASSUME NEW found \in PageRecords
    PROVE  found \in Seq(Hashes) /\ {found[i] : i \in DOMAIN found} \subseteq Hashes
<1>1. PICK n \in 0..MaxPerPage : found \in [1..n -> Hashes]
  BY DEF PageRecords
<1> QED BY <1>1, SeqDef, ConstantsAssumption DEF ConstantsAssumption

LEMMA ParseType ==
    ASSUME TypeInv, NEW r \in Runs, Parse(r)
    PROVE  TypeInv'
<1>0. run \in [Runs -> RunState] /\ run[r] \in RunState
  BY DEF TypeInv, TypeOK
<1>1. PICK found \in PageRecords,
           rejects \in SUBSET {[run |-> r, page |-> run[r].page]} :
        run' = [run EXCEPT
                  ![r].records = @ \o found,
                  ![r].crawled = @ \cup {found[i] : i \in DOMAIN found},
                  ![r].rejected = @ \cup rejects,
                  ![r].page = @ + 1,
                  ![r].pc = IF run[r].page < PagesOf[SiteOf[r]]
                            THEN "fetch" ELSE "dedupe"]
  BY DEF Parse
<1>2. rejects \subseteq Rejects
  BY <1>0 DEF Rejects, RunState
<1>3. IsFiniteSet(rejects)
  <2>1. IsFiniteSet({[run |-> r, page |-> run[r].page]})
    BY FS_Singleton
  <2> QED BY <2>1, FS_Subset
<1>4. run[r].records \o found \in Seq(Hashes)
  BY <1>0, FoundType, ConcatProperties DEF RunState
<1>5. run[r].crawled \cup {found[i] : i \in DOMAIN found} \subseteq Hashes
  BY <1>0, FoundType DEF RunState
<1>6. run[r].rejected \cup rejects \subseteq Rejects
  BY <1>0, <1>2 DEF RunState
<1>7. run[r].page + 1 \in Nat
  BY <1>0 DEF RunState
<1>8. (IF run[r].page < PagesOf[SiteOf[r]] THEN "fetch" ELSE "dedupe") \in Phases
  BY DEF Phases
<1>9. [run[r] EXCEPT
         !.records = @ \o found,
         !.crawled = @ \cup {found[i] : i \in DOMAIN found},
         !.rejected = @ \cup rejects,
         !.page = @ + 1,
         !.pc = IF run[r].page < PagesOf[SiteOf[r]]
                THEN "fetch" ELSE "dedupe"] \in RunState
  BY <1>0, <1>4, <1>5, <1>6, <1>7, <1>8 DEF RunState
<1>10. run' \in [Runs -> RunState]
  BY <1>0, <1>1, <1>9
<1>11. RejectsFinite'
  <2>1. run'[r].rejected = run[r].rejected \cup rejects
    BY <1>0, <1>1 DEF RunState
  <2>2. \A q \in Runs \ {r} : run'[q] = run[q]
    BY <1>0, <1>1
  <2>3. IsFiniteSet(run[r].rejected \cup rejects)
    BY <1>3, FS_Union DEF TypeInv, RejectsFinite
  <2> QED BY <2>1, <2>2, <2>3 DEF TypeInv, RejectsFinite
<1> QED BY <1>10, <1>11 DEF Parse, TypeInv, TypeOK

LEMMA DropSeenType ==
    ASSUME TypeInv, NEW r \in Runs, DropSeen(r)
    PROVE  TypeInv'
<1>0. run \in [Runs -> RunState] /\ run[r] \in RunState
  BY DEF TypeInv, TypeOK
<1>1. Tail(run[r].records) \in Seq(Hashes)
  BY <1>0, HeadTailProperties DEF DropSeen, RunState
<1>2. [run[r] EXCEPT !.records = Tail(@)] \in RunState
  BY <1>0, <1>1 DEF RunState
<1>3. run' \in [Runs -> RunState]
  BY <1>0, <1>2 DEF DropSeen
<1>4. \A q \in Runs : run'[q].rejected = run[q].rejected
  BY <1>0 DEF DropSeen, RunState
<1> QED BY <1>3, <1>4 DEF DropSeen, TypeInv, TypeOK, RejectsFinite

LEMMA FindUnseenType ==
    ASSUME TypeInv, NEW r \in Runs, FindUnseen(r)
    PROVE  TypeInv'
<1>0. run \in [Runs -> RunState] /\ run[r] \in RunState
  BY DEF TypeInv, TypeOK
<1>1. [run[r] EXCEPT !.pc = "mark"] \in RunState
  BY <1>0 DEF RunState, Phases
<1>2. run' \in [Runs -> RunState]
  BY <1>0, <1>1 DEF FindUnseen
<1>3. \A q \in Runs : run'[q].rejected = run[q].rejected
  BY <1>0 DEF FindUnseen, RunState
<1> QED BY <1>2, <1>3 DEF FindUnseen, TypeInv, TypeOK, RejectsFinite

\* A run in phase "mark" has a record at hand.
MarkHasRecord == \A r \in Runs : run[r].pc = "mark" => run[r].records # <<>>

LEMMA MarkSeenType ==
    ASSUME TypeInv, MarkHasRecord, NEW r \in Runs, MarkSeen(r)
    PROVE  TypeInv'
<1> DEFINE h == Head(run[r].records)
           row == [site_id |-> SiteOf[r], first_seen |-> today,
                   expires_at |-> today + TtlDays]
<1>0. run \in [Runs -> RunState] /\ run[r] \in RunState /\ today \in Nat
  BY DEF TypeInv, TypeOK
<1>1. h \in Hashes /\ Tail(run[r].records) \in Seq(Hashes)
  BY <1>0, HeadTailProperties DEF MarkSeen, MarkHasRecord, RunState
<1>2. row \in DedupeRow
  BY <1>0, ConstantsAssumption DEF ConstantsAssumption, DedupeRow
<1>3. /\ dedupe' = Upsert(dedupe, h, row)
      /\ run' = [run EXCEPT
                   ![r].records = Tail(@),
                   ![r].deduped = Append(@, [hash |-> h, day |-> today]),
                   ![r].pc = "dedupe"]
  BY DEF MarkSeen
<1>4. Append(run[r].deduped, [hash |-> h, day |-> today]) \in Seq(Marked)
  <2>1. run[r].deduped \in Seq(Marked)
    BY <1>0 DEF RunState
  <2>2. [hash |-> h, day |-> today] \in Marked
    BY <1>0, <1>1 DEF Marked
  <2> QED BY <2>1, <2>2
<1> HIDE DEF h, row
<1>5. [run[r] EXCEPT
         !.records = Tail(@),
         !.deduped = Append(@, [hash |-> h, day |-> today]),
         !.pc = "dedupe"] \in RunState
  BY <1>0, <1>1, <1>4 DEF RunState, Phases
<1>6. run' \in [Runs -> RunState]
  BY <1>0, <1>3, <1>5
<1>7. \A q \in Runs : run'[q].rejected = run[q].rejected
  BY <1>0, <1>3 DEF RunState
<1>8. DOMAIN dedupe' \subseteq Hashes /\ dedupe' \in [DOMAIN dedupe' -> DedupeRow]
  <2>1. DOMAIN dedupe \subseteq Hashes /\ dedupe \in [DOMAIN dedupe -> DedupeRow]
    BY DEF TypeInv, TypeOK
  <2>2. dedupe' \in [DOMAIN dedupe \cup {h} -> DedupeRow]
    BY <1>2, <1>3, <2>1, UpsertType
  <2> QED BY <1>1, <2>1, <2>2
<1> QED BY <1>6, <1>7, <1>8 DEF MarkSeen, TypeInv, TypeOK, RejectsFinite

LEMMA EvaluateType ==
    ASSUME TypeInv, NEW r \in Runs, Evaluate(r)
    PROVE  TypeInv'
<1>0. run \in [Runs -> RunState] /\ run[r] \in RunState
  BY DEF TypeInv, TypeOK
<1>1. PICK g \in Gates : run' = [run EXCEPT ![r].gate = g, ![r].pc = "staging"]
  BY DEF Evaluate
<1>2. [run[r] EXCEPT !.gate = g, !.pc = "staging"] \in RunState
  BY <1>0 DEF RunState, Phases
<1>3. run' \in [Runs -> RunState]
  BY <1>0, <1>1, <1>2
<1>4. \A q \in Runs : run'[q].rejected = run[q].rejected
  BY <1>0, <1>1 DEF RunState
<1> QED BY <1>3, <1>4 DEF Evaluate, TypeInv, TypeOK, RejectsFinite

\* The steps that put an object, whatever the object.
LEMMA PuttingType ==
    ASSUME TypeInv, NEW r \in Runs, NEW k, NEW rows, NEW next \in Phases,
           Put(r, k, rows, next), UNCHANGED <<dedupe, manifests, today>>
    PROVE  TypeInv'
<1>1. run \in [Runs -> RunState] /\ FilesOK
  BY DEF TypeInv, TypeOK, FilesOK
<1>2. /\ run' \in [Runs -> RunState]
      /\ FilesOK'
      /\ \A q \in Runs : run'[q].rejected = run[q].rejected
  BY <1>1, PutType
<1> QED BY <1>2 DEF TypeInv, TypeOK, FilesOK, RejectsFinite

LEMMA PersistType ==
    ASSUME TypeInv, NEW r \in Runs,
           \/ PersistRaw(r) \/ PersistStaging(r) \/ PersistCurated(r)
           \/ PersistQuarantine(r) \/ PersistReport(r)
    PROVE  TypeInv'
<1>0. /\ AfterStaging(r) \in Phases
      /\ AfterCurated(r) \in Phases
      /\ {"parse", "report", "latest", "manifest"} \subseteq Phases
  BY DEF AfterStaging, AfterCurated, Phases
<1>1. CASE PersistRaw(r)
  BY <1>0, <1>1, PuttingType DEF PersistRaw
<1>2. CASE PersistStaging(r)
  BY <1>0, <1>2, PuttingType DEF PersistStaging
<1>3. CASE PersistCurated(r)
  BY <1>0, <1>3, PuttingType DEF PersistCurated
<1>4. CASE PersistQuarantine(r)
  BY <1>0, <1>4, PuttingType DEF PersistQuarantine
<1>5. CASE PersistReport(r)
  BY <1>0, <1>5, PuttingType DEF PersistReport
<1> QED BY <1>1, <1>2, <1>3, <1>4, <1>5

LEMMA SaveRunType ==
    ASSUME TypeInv, NEW r \in Runs, SaveRun(r)
    PROVE  TypeInv'
<1> DEFINE m == [run_id |-> r, site_count |-> Len(run[r].deduped),
                 quarantined |-> Cardinality(run[r].rejected)]
<1>0. run \in [Runs -> RunState] /\ run[r] \in RunState
  BY DEF TypeInv, TypeOK
<1>1. m \in Manifest
  <2>1. Len(run[r].deduped) \in Nat
    BY <1>0, LenProperties DEF RunState
  <2>2. Cardinality(run[r].rejected) \in Nat
    BY FS_CardinalityType DEF TypeInv, RejectsFinite
  <2> QED BY <2>1, <2>2 DEF Manifest
<1>2. manifests' \subseteq Manifest
  BY <1>1 DEF SaveRun, TypeInv, TypeOK
<1>3. [run[r] EXCEPT !.pc = "done"] \in RunState
  BY <1>0 DEF RunState, Phases, Ended
<1>4. run' \in [Runs -> RunState]
  BY <1>0, <1>3 DEF SaveRun
<1>5. \A q \in Runs : run'[q].rejected = run[q].rejected
  BY <1>0 DEF SaveRun, RunState
<1> QED BY <1>2, <1>4, <1>5 DEF SaveRun, TypeInv, TypeOK, RejectsFinite

LEMMA AbortType ==
    ASSUME TypeInv, NEW r \in Runs, Abort(r)
    PROVE  TypeInv'
<1>0. run \in [Runs -> RunState] /\ run[r] \in RunState
  BY DEF TypeInv, TypeOK
<1>1. [run[r] EXCEPT !.pc = "failed"] \in RunState
  BY <1>0 DEF RunState, Phases, Ended
<1>2. run' \in [Runs -> RunState]
  BY <1>0, <1>1 DEF Abort
<1>3. \A q \in Runs : run'[q].rejected = run[q].rejected
  BY <1>0 DEF Abort, RunState
<1> QED BY <1>2, <1>3 DEF Abort, TypeInv, TypeOK, RejectsFinite

-----------------------------------------------------------------------------
(***************************************************************************)
(* The inductive invariant.  What a run has written can be told from its   *)
(* phase: a part is absent before its phase, begun during it and whole     *)
(* after it.  A failed run keeps only what its curated part stands for.    *)
(***************************************************************************)
Early == {"idle", "fetch", "parse", "dedupe", "mark"}
Closing == {"latest", "manifest", "done"}
BeyondCurated == {"quarantine", "report"} \cup Closing
BeyondStaging == {"curated"} \cup BeyondCurated
BeyondCrawl == {"dedupe", "mark", "staging"} \cup BeyondStaging

\* A part that r has perhaps opened and not yet written.
Begun(r, k) ==
    IF run[r].open THEN Exists(k) /\ objects[k] = Torn ELSE ~Exists(k)

\* Only a run that puts an object, or failed at it, has a file open.
OpenInv(r) ==
    /\ run[r].open => run[r].pc \in {"fetch", "staging", "curated", "quarantine",
                                     "report", "latest", "failed"}
    /\ run[r].pc = "mark" => run[r].records # <<>>

RawInv(r) ==
    /\ run[r].pc = "idle" => run[r].page = 1
    /\ run[r].pc \in {"fetch", "parse"} \cup BeyondCrawl =>
           \A p \in Nat : 1 <= p /\ p < run[r].page => IsWhole(RawKey(r, p))
    /\ run[r].pc = "fetch" /\ run[r].open =>
           /\ Exists(RawKey(r, run[r].page))
           /\ objects[RawKey(r, run[r].page)] = Torn
    /\ run[r].pc = "parse" => IsWhole(RawKey(r, run[r].page))
    /\ run[r].pc \in BeyondCrawl => PagesOf[SiteOf[r]] < run[r].page

StagingInv(r) ==
    /\ run[r].pc \in Early => ~Exists(StagingKey(r))
    /\ run[r].pc = "staging" => Begun(r, StagingKey(r))
    /\ run[r].pc \in BeyondStaging => Holds(StagingKey(r), r, run[r].deduped)

CuratedInv(r) ==
    /\ run[r].pc \in Early => run[r].gate = "fail"
    /\ run[r].gate # "fail" => run[r].deduped # <<>>
    /\ run[r].pc \in Early \cup {"staging"} => ~Exists(CuratedKey(r))
    /\ run[r].pc = "curated" => run[r].gate # "fail" /\ Begun(r, CuratedKey(r))
    /\ run[r].pc \in BeyondCurated /\ run[r].gate # "fail" =>
           Holds(CuratedKey(r), r, run[r].deduped)
    /\ Exists(CuratedKey(r)) =>
           run[r].gate # "fail" /\ Holds(StagingKey(r), r, run[r].deduped)

ReportInv(r) ==
    /\ run[r].pc \in Early \cup {"staging", "curated", "quarantine"} =>
           ~Exists(ReportKey(r))
    /\ run[r].pc = "report" => Begun(r, ReportKey(r))
    /\ run[r].pc \in Closing => Holds(ReportKey(r), r, run[r].gate)

RunInv(r) ==
    OpenInv(r) /\ RawInv(r) /\ StagingInv(r) /\ CuratedInv(r) /\ ReportInv(r)

\* A saved manifest is of a run that ended, and counts what it staged.
ManifestInv ==
    \A m \in manifests :
        /\ m.run_id \in Runs
        /\ run[m.run_id].pc = "done"
        /\ m.site_count = Len(run[m.run_id].deduped)

\* The latest report, when whole, is one that a run wrote after its own.
LatestInv ==
    IsWhole(LatestReportKey) =>
        \E r \in Runs :
            /\ run[r].pc \in Ended \cup {"manifest"}
            /\ Holds(LatestReportKey, r, run[r].gate)
            /\ Holds(ReportKey(r), r, run[r].gate)
            /\ run[r].gate # "fail" => Holds(CuratedKey(r), r, run[r].deduped)

IInv == TypeInv /\ (\A r \in Runs : RunInv(r)) /\ ManifestInv /\ LatestInv

-----------------------------------------------------------------------------
(* Keys: which steps can touch which parts. *)

\* A key tells its zone and its run.
LEMMA RawKeyFacts ==
    ASSUME NEW r, NEW p
    PROVE  RawKey(r, p)[1] = "raw" /\ RawKey(r, p)[2] = r /\ RawKey(r, p)[3] = p
BY DEF RawKey

LEMMA KeyFacts ==
    ASSUME NEW r
    PROVE  /\ StagingKey(r)[1] = "staging" /\ StagingKey(r)[2] = r
           /\ CuratedKey(r)[1] = "curated" /\ CuratedKey(r)[2] = r
           /\ ReportKey(r)[1] = "report" /\ ReportKey(r)[2] = r
BY DEF StagingKey, CuratedKey, ReportKey

LEMMA SharedKeyFacts ==
    ASSUME NEW r
    PROVE  QuarantineKey(r)[1] = "quarantine" /\ LatestReportKey[1] = "latest"
BY DEF QuarantineKey, LatestReportKey

\* The objects under k are left alone.
Same(k) ==
    /\ k \in DOMAIN objects' <=> k \in DOMAIN objects
    /\ k \in DOMAIN objects => objects'[k] = objects[k]

\* The keys that name run r.
OwnKey(r, k) ==
    \/ k \in {StagingKey(r), CuratedKey(r), ReportKey(r)}
    \/ \E p \in Nat : k = RawKey(r, p)

\* A put touches one key.
LEMMA PutSame ==
    ASSUME NEW r \in Runs, NEW k, NEW rows, NEW next, Put(r, k, rows, next)
    PROVE  \A y : y # k => Same(y)
<1>1. PICK v : objects' = Upsert(objects, k, v)
  BY DEF Put
<1> QED BY <1>1, ObjectsUpsert DEF Same

\* A put moves one run.
LEMMA PutMoves ==
    ASSUME run \in [Runs -> RunState],
           NEW r \in Runs, NEW k, NEW rows, NEW next, Put(r, k, rows, next)
    PROVE  \A q \in Runs \ {r} : run'[q] = run[q]
BY DEF Put

\* No step of a run moves another one, or touches its parts.
LEMMA StepFrame ==
    ASSUME TypeOK, NEW q \in Runs, Start(q) \/ Step(q) \/ Abort(q),
           NEW r \in Runs, r # q
    PROVE  run'[r] = run[r] /\ \A k : OwnKey(r, k) => Same(k)
<1>0. run \in [Runs -> RunState]
  BY DEF TypeOK
<1>1. ASSUME UNCHANGED objects
      PROVE  \A k : OwnKey(r, k) => Same(k)
  BY <1>1 DEF Same
<1>2. ASSUME NEW k, NEW rows, NEW next, Put(q, k, rows, next), ~OwnKey(r, k)
      PROVE  run'[r] = run[r] /\ \A y : OwnKey(r, y) => Same(y)
  <2>1. run'[r] = run[r]
    BY <1>0, <1>2, PutMoves
  <2>2. \A y : y # k => Same(y)
    BY <1>2, PutSame
  <2> QED BY <1>2, <2>1, <2>2
<1>3. /\ \A p : ~OwnKey(r, RawKey(q, p))
      /\ ~OwnKey(r, StagingKey(q))
      /\ ~OwnKey(r, CuratedKey(q))
      /\ ~OwnKey(r, ReportKey(q))
      /\ ~OwnKey(r, QuarantineKey(q))
      /\ ~OwnKey(r, LatestReportKey)
  <2>1. ASSUME NEW k, OwnKey(r, k)
        PROVE  k[1] \in {"raw", "staging", "curated", "report"} /\ k[2] = r
    <3>1. CASE k \in {StagingKey(r), CuratedKey(r), ReportKey(r)}
      BY <3>1, KeyFacts
    <3>2. ASSUME NEW p \in Nat, k = RawKey(r, p)
          PROVE  k[1] = "raw" /\ k[2] = r
      BY <3>2, RawKeyFacts
    <3> QED BY <2>1, <3>1, <3>2 DEF OwnKey
  <2>2. ASSUME NEW p PROVE ~OwnKey(r, RawKey(q, p))
    BY <2>1, RawKeyFacts
  <2>3. /\ ~OwnKey(r, StagingKey(q))
        /\ ~OwnKey(r, CuratedKey(q))
        /\ ~OwnKey(r, ReportKey(q))
    BY <2>1, KeyFacts
  <2>4. ~OwnKey(r, QuarantineKey(q)) /\ ~OwnKey(r, LatestReportKey)
    BY <2>1, SharedKeyFacts
  <2> QED BY <2>2, <2>3, <2>4
<1>4. CASE Start(q)
  BY <1>0, <1>1, <1>4 DEF Start
<1>5. CASE Abort(q)
  BY <1>0, <1>1, <1>5 DEF Abort
<1>6. CASE Parse(q)
  BY <1>0, <1>1, <1>6 DEF Parse
<1>7. CASE DropSeen(q)
  BY <1>0, <1>1, <1>7 DEF DropSeen
<1>8. CASE FindUnseen(q)
  BY <1>0, <1>1, <1>8 DEF FindUnseen
<1>9. CASE MarkSeen(q)
  BY <1>0, <1>1, <1>9 DEF MarkSeen
<1>10. CASE Evaluate(q)
  BY <1>0, <1>1, <1>10 DEF Evaluate
<1>11. CASE SaveRun(q)
  BY <1>0, <1>1, <1>11 DEF SaveRun
<1>12. CASE PersistRaw(q)
  BY <1>2, <1>3, <1>12 DEF PersistRaw
<1>13. CASE PersistStaging(q)
  BY <1>2, <1>3, <1>13 DEF PersistStaging
<1>14. CASE PersistCurated(q)
  BY <1>2, <1>3, <1>14 DEF PersistCurated
<1>15. CASE PersistQuarantine(q)
  BY <1>2, <1>3, <1>15 DEF PersistQuarantine
<1>16. CASE PersistReport(q)
  BY <1>2, <1>3, <1>16 DEF PersistReport
<1> QED BY <1>4, <1>5, <1>6, <1>7, <1>8, <1>9, <1>10, <1>11, <1>12, <1>13,
           <1>14, <1>15, <1>16 DEF Step

\* A run that does not move, and whose parts are left alone, keeps RunInv.
LEMMA FrameInv ==
    ASSUME TypeOK, NEW r \in Runs, RunInv(r),
           run'[r] = run[r], \A k : OwnKey(r, k) => Same(k)
    PROVE  RunInv(r)'
<1>1. Same(StagingKey(r)) /\ Same(CuratedKey(r)) /\ Same(ReportKey(r))
  BY DEF OwnKey
<1>2. \A p \in Nat : Same(RawKey(r, p))
  BY DEF OwnKey
<1>3. run[r].page \in Nat
  BY DEF TypeOK, RunState
<1>4. /\ StagingKey(r)' = StagingKey(r)
      /\ CuratedKey(r)' = CuratedKey(r)
      /\ ReportKey(r)' = ReportKey(r)
      /\ \A p : RawKey(r, p)' = RawKey(r, p)
  BY DEF StagingKey, CuratedKey, ReportKey, RawKey
<1>5. OpenInv(r)'
  BY DEF RunInv, OpenInv
<1>6. RawInv(r)'
  BY <1>2, <1>3, <1>4 DEF RunInv, RawInv, IsWhole, Exists, Same
<1>7. StagingInv(r)'
  BY <1>1, <1>4 DEF RunInv, StagingInv, Begun, Holds, Exists, Same, Whole, Torn
<1>8. CuratedInv(r)'
  BY <1>1, <1>4 DEF RunInv, CuratedInv, Begun, Holds, Exists, Same, Whole, Torn
<1>9. ReportInv(r)'
  BY <1>1, <1>4 DEF RunInv, ReportInv, Begun, Holds, Exists, Same, Whole, Torn
<1> QED BY <1>5, <1>6, <1>7, <1>8, <1>9 DEF RunInv

-----------------------------------------------------------------------------
(* Each step of a run keeps RunInv of that run. *)

\* What a run keeps across any put: all but its phase and its open file.
Kept(r) ==
    /\ run'[r].page = run[r].page
    /\ run'[r].records = run[r].records
    /\ run'[r].deduped = run[r].deduped
    /\ run'[r].gate = run[r].gate
    /\ run'[r].dt = run[r].dt
    /\ run'[r].rejected = run[r].rejected

\* A put opens its file, or writes it and goes on.
LEMMA PutOutcome ==
    ASSUME run \in [Runs -> RunState],
           NEW r \in Runs, NEW k, NEW rows, NEW next, Put(r, k, rows, next)
    PROVE  /\ Kept(r)
           /\ k \in DOMAIN objects'
           /\ \/ /\ ~run[r].open
                 /\ run'[r].open = TRUE
                 /\ run'[r].pc = run[r].pc
                 /\ objects'[k] = Torn
              \/ /\ run[r].open
                 /\ run'[r].open = FALSE
                 /\ run'[r].pc = next
                 /\ objects[k] = Torn => objects'[k] = Whole(r, rows)
                 /\ objects'[k] \in {Whole(r, rows), Mixed}
<1>0. run[r] \in RunState
  OBVIOUS
<1>1. CASE ~run[r].open /\ objects' = Upsert(objects, k, Torn)
           /\ run' = [run EXCEPT ![r].open = TRUE]
  <2>1. Kept(r) /\ run'[r].pc = run[r].pc
    BY <1>0, <1>1 DEF Kept, RunState
  <2>2. run'[r].open = TRUE
    BY <1>0, <1>1 DEF RunState
  <2>3. k \in DOMAIN objects' /\ objects'[k] = Torn
    BY <1>1 DEF Upsert
  <2> QED BY <1>1, <2>1, <2>2, <2>3
<1>2. ASSUME run[r].open,
             NEW c \in Written(k, Whole(r, rows)),
             objects' = Upsert(objects, k, c),
             run' = [run EXCEPT ![r].open = FALSE, ![r].pc = next]
      PROVE  /\ Kept(r)
             /\ k \in DOMAIN objects'
             /\ run'[r].open = FALSE
             /\ run'[r].pc = next
             /\ objects[k] = Torn => objects'[k] = Whole(r, rows)
             /\ objects'[k] \in {Whole(r, rows), Mixed}
  <2>1. Kept(r) /\ run'[r].pc = next
    BY <1>0, <1>2 DEF Kept, RunState
  <2>2. run'[r].open = FALSE
    BY <1>0, <1>2 DEF RunState
  <2>3. k \in DOMAIN objects' /\ objects'[k] = c
    BY <1>2 DEF Upsert
  <2> QED BY <1>2, <2>1, <2>2, <2>3 DEF Written
<1> QED BY <1>1, <1>2 DEF Put

\* The same, without the file.
LEMMA PutPhase ==
    ASSUME run \in [Runs -> RunState],
           NEW r \in Runs, NEW k, NEW rows, NEW next, Put(r, k, rows, next)
    PROVE  /\ Kept(r)
           /\ run'[r].pc = run[r].pc \/ (run'[r].pc = next /\ run'[r].open = FALSE)
<1>0. run[r] \in RunState
  OBVIOUS
<1>1. CASE run' = [run EXCEPT ![r].open = TRUE]
  BY <1>0, <1>1 DEF Kept, RunState
<1>2. CASE run' = [run EXCEPT ![r].open = FALSE, ![r].pc = next]
  BY <1>0, <1>2 DEF Kept, RunState
<1> QED BY <1>1, <1>2 DEF Put

\* Steps that leave the store alone.
LEMMA QuietSame ==
    ASSUME UNCHANGED objects
    PROVE  \A k : Same(k)
BY DEF Same

USE DEF Early, Closing, BeyondCurated, BeyondStaging, BeyondCrawl

\* Between two early phases, with the store and the gate unchanged, the parts
\* of a run stay absent.
LEMMA QuietInv ==
    ASSUME NEW r \in Runs, StagingInv(r), CuratedInv(r), ReportInv(r),
           run[r].pc \in Early, run'[r].pc \in Early,
           run'[r].gate = run[r].gate, objects' = objects
    PROVE  StagingInv(r)' /\ CuratedInv(r)' /\ ReportInv(r)'
<1>1. StagingInv(r)'
  BY DEF StagingInv, Exists, StagingKey
<1>2. CuratedInv(r)'
  BY DEF CuratedInv, Exists, CuratedKey
<1>3. ReportInv(r)'
  BY DEF ReportInv, Exists, ReportKey
<1> QED BY <1>1, <1>2, <1>3

LEMMA StartInv ==
    ASSUME TypeOK, NEW r \in Runs, RunInv(r), Start(r)
    PROVE  RunInv(r)'
<1>0. run \in [Runs -> RunState] /\ run[r] \in RunState /\ run[r].page \in Nat
  BY DEF TypeOK, RunState
<1>1. /\ run[r].pc = "idle"
      /\ run'[r].pc = "fetch"
      /\ run'[r].open = run[r].open
      /\ Kept(r)
      /\ objects' = objects
  BY <1>0 DEF Start, RunState, Kept
<1>2. OpenInv(r)'
  BY <1>1 DEF RunInv, OpenInv
<1>3. RawInv(r)'
  BY <1>0, <1>1 DEF RunInv, OpenInv, RawInv, Kept
<1> QED BY <1>1, <1>2, <1>3, QuietInv DEF RunInv, OpenInv, Kept

\* Parse goes on to the next target, or to the dedupe after the last one.
LEMMA ParseInv ==
    ASSUME TypeOK, NEW r \in Runs, RunInv(r), Parse(r)
    PROVE  RunInv(r)'
<1>0. run \in [Runs -> RunState] /\ run[r] \in RunState /\ run[r].page \in Nat
  BY DEF TypeOK, RunState
<1>1. /\ run[r].pc = "parse"
      /\ run'[r].pc = IF run[r].page < PagesOf[SiteOf[r]] THEN "fetch" ELSE "dedupe"
      /\ run'[r].page = run[r].page + 1
      /\ run'[r].deduped = run[r].deduped
      /\ run'[r].gate = run[r].gate
      /\ run'[r].open = run[r].open
      /\ objects' = objects
  <2>1. PICK found \in PageRecords,
             rejects \in SUBSET {[run |-> r, page |-> run[r].page]} :
             run' = [run EXCEPT
                       ![r].records = @ \o found,
                       ![r].crawled = @ \cup {found[i] : i \in DOMAIN found},
                       ![r].rejected = @ \cup rejects,
                       ![r].page = @ + 1,
                       ![r].pc = IF run[r].page < PagesOf[SiteOf[r]]
                                 THEN "fetch" ELSE "dedupe"]
    BY DEF Parse
  <2>2. run'[r] = [run[r] EXCEPT
                     !.records = @ \o found,
                     !.crawled = @ \cup {found[i] : i \in DOMAIN found},
                     !.rejected = @ \cup rejects,
                     !.page = @ + 1,
                     !.pc = IF run[r].page < PagesOf[SiteOf[r]]
                            THEN "fetch" ELSE "dedupe"]
    BY <1>0, <2>1
  <2>3. run[r].pc = "parse" /\ objects' = objects
    BY DEF Parse
  <2> QED BY <1>0, <2>2, <2>3 DEF RunState
<1>3. PagesOf[SiteOf[r]] \in Nat
  BY ConstantsAssumption DEF ConstantsAssumption
<1>4. OpenInv(r)'
  BY <1>1 DEF RunInv, OpenInv
<1>5. RawInv(r)'
  <2>1. \A p \in Nat : 1 <= p /\ p < run[r].page + 1 => IsWhole(RawKey(r, p))
    BY <1>0, <1>1 DEF RunInv, RawInv
  <2>2. \A p : IsWhole(RawKey(r, p))' <=> IsWhole(RawKey(r, p))
    BY <1>1 DEF IsWhole, Exists, RawKey
  <2> QED BY <1>0, <1>1, <1>3, <2>1, <2>2 DEF RunInv, OpenInv, RawInv
<1> QED BY <1>1, <1>4, <1>5, QuietInv DEF RunInv, OpenInv

\* The three steps of the dedupe loop stay behind the crawl.
LEMMA DedupeInv ==
    ASSUME TypeOK, NEW r \in Runs, RunInv(r),
           DropSeen(r) \/ FindUnseen(r) \/ MarkSeen(r)
    PROVE  RunInv(r)'
<1>0. run \in [Runs -> RunState] /\ run[r] \in RunState /\ run[r].page \in Nat
  BY DEF TypeOK, RunState
<1>1. /\ run[r].pc \in {"dedupe", "mark"}
      /\ run'[r].pc \in {"dedupe", "mark"}
      /\ run'[r].page = run[r].page
      /\ run'[r].gate = run[r].gate
      /\ objects' = objects
  BY <1>0 DEF DropSeen, FindUnseen, MarkSeen, RunState
<1>2. run'[r].open = run[r].open
  BY <1>0 DEF DropSeen, FindUnseen, MarkSeen, RunState
<1>3. run'[r].pc = "mark" => run'[r].records # <<>>
  BY <1>0 DEF DropSeen, FindUnseen, MarkSeen, RunState
<1>4. OpenInv(r)'
  BY <1>1, <1>2, <1>3 DEF RunInv, OpenInv
<1>5. RawInv(r)'
  BY <1>0, <1>1, <1>2 DEF RunInv, RawInv, OpenInv, IsWhole, Exists, RawKey
<1> QED BY <1>1, <1>2, <1>4, <1>5, QuietInv DEF RunInv, OpenInv

\* The verdict: only a batch that is not empty gets past "fail".
LEMMA EvaluateInv ==
    ASSUME TypeOK, NEW r \in Runs, RunInv(r), Evaluate(r)
    PROVE  RunInv(r)'
<1>0. run \in [Runs -> RunState] /\ run[r] \in RunState /\ run[r].page \in Nat
  BY DEF TypeOK, RunState
<1>1. /\ run[r].pc = "dedupe"
      /\ run'[r].pc = "staging"
      /\ run'[r].page = run[r].page
      /\ run'[r].deduped = run[r].deduped
      /\ run'[r].gate # "fail" => run[r].deduped # <<>>
      /\ objects' = objects
  BY <1>0 DEF Evaluate, RunState
<1>2. run'[r].open = run[r].open
  BY <1>0 DEF Evaluate, RunState
<1>3. OpenInv(r)'
  BY <1>1, <1>2 DEF RunInv, OpenInv
<1>4. RawInv(r)'
  BY <1>0, <1>1, <1>2 DEF RunInv, RawInv, OpenInv, IsWhole, Exists, RawKey
<1>5. StagingInv(r)'
  BY <1>1, <1>2 DEF RunInv, OpenInv, StagingInv, Begun, Exists, StagingKey
<1>6. CuratedInv(r)'
  BY <1>1 DEF RunInv, CuratedInv, Exists, CuratedKey
<1>7. ReportInv(r)'
  BY <1>1 DEF RunInv, ReportInv, Exists, ReportKey
<1> QED BY <1>3, <1>4, <1>5, <1>6, <1>7 DEF RunInv

\* A put that leaves the raw pages of r alone keeps RawInv.
LEMMA RawKeptInv ==
    ASSUME TypeOK, NEW r \in Runs, RawInv(r),
           \A p : Same(RawKey(r, p)),
           run'[r].page = run[r].page,
           run[r].pc \in BeyondCrawl, run'[r].pc \in BeyondCrawl
    PROVE  RawInv(r)'
<1>1. run[r].page \in Nat
  BY DEF TypeOK, RunState
<1>2. \A p : IsWhole(RawKey(r, p)) => IsWhole(RawKey(r, p))'
  BY DEF Same, IsWhole, Exists, RawKey
<1> QED BY <1>1, <1>2 DEF RawInv

LEMMA PersistRawInv ==
    ASSUME TypeOK, NEW r \in Runs, RunInv(r), PersistRaw(r)
    PROVE  RunInv(r)'
<1> DEFINE k == RawKey(r, run[r].page)
<1>0. run \in [Runs -> RunState] /\ run[r].page \in Nat
  BY DEF TypeOK, RunState
<1>1. run[r].pc = "fetch" /\ Put(r, k, <<>>, "parse")
  BY DEF PersistRaw
<1>2. /\ Kept(r)
      /\ k \in DOMAIN objects'
      /\ \/ /\ ~run[r].open
            /\ run'[r].open = TRUE
            /\ run'[r].pc = run[r].pc
            /\ objects'[k] = Torn
         \/ /\ run[r].open
            /\ run'[r].open = FALSE
            /\ run'[r].pc = "parse"
            /\ objects[k] = Torn => objects'[k] = Whole(r, <<>>)
            /\ objects'[k] \in {Whole(r, <<>>), Mixed}
  BY <1>0, <1>1, PutOutcome
<1>3. \A y : y # k => Same(y)
  BY <1>1, PutSame
<1>4. Same(StagingKey(r)) /\ Same(CuratedKey(r)) /\ Same(ReportKey(r))
  BY <1>3, KeyFacts, RawKeyFacts
<1>5. \A p : p # run[r].page => Same(RawKey(r, p))
  BY <1>3, RawKeyFacts
<1>6. OpenInv(r)'
  BY <1>1, <1>2 DEF RunInv, OpenInv
<1>7. RawInv(r)'
  <2>1. \A p \in Nat : 1 <= p /\ p < run[r].page => IsWhole(RawKey(r, p))'
    BY <1>0, <1>1, <1>5 DEF RunInv, RawInv, Same, IsWhole, Exists, RawKey
  <2>2. run[r].open => objects'[k].state = "whole"
    BY <1>1, <1>2, FileFacts DEF RunInv, RawInv
  <2>3. k \in DOMAIN objects' /\ (~run[r].open => objects'[k] = Torn)
    BY <1>2
  <2>4. /\ run'[r].page = run[r].page
        /\ run[r].open => run'[r].pc = "parse"
        /\ ~run[r].open => run'[r].pc = "fetch"
    BY <1>1, <1>2 DEF Kept
  <2> QED BY <2>1, <2>2, <2>3, <2>4 DEF RawInv, IsWhole, Exists, RawKey, Torn
<1>8. StagingInv(r)' /\ CuratedInv(r)' /\ ReportInv(r)'
  BY <1>1, <1>2, <1>4 DEF RunInv, StagingInv, CuratedInv, ReportInv, Kept, Same,
                          Exists, StagingKey, CuratedKey, ReportKey
<1> QED BY <1>6, <1>7, <1>8 DEF RunInv

LEMMA PersistStagingInv ==
    ASSUME TypeOK, NEW r \in Runs, RunInv(r), PersistStaging(r)
    PROVE  RunInv(r)'
<1> DEFINE k == StagingKey(r)
           rows == run[r].deduped
           next == AfterStaging(r)
<1>0. run \in [Runs -> RunState] /\ k[1] = "staging"
  BY KeyFacts DEF TypeOK
<1>1. run[r].pc = "staging" /\ Put(r, k, rows, next)
  BY DEF PersistStaging
<1> HIDE DEF k, rows, next
<1>2. /\ Kept(r)
      /\ k \in DOMAIN objects'
      /\ \/ /\ ~run[r].open
            /\ run'[r].open = TRUE
            /\ run'[r].pc = run[r].pc
            /\ objects'[k] = Torn
         \/ /\ run[r].open
            /\ run'[r].open = FALSE
            /\ run'[r].pc = next
            /\ objects[k] = Torn => objects'[k] = Whole(r, rows)
            /\ objects'[k] \in {Whole(r, rows), Mixed}
  BY <1>0, <1>1, PutOutcome
<1>3. \A y : y # k => Same(y)
  BY <1>1, PutSame
<1>4. Same(CuratedKey(r)) /\ Same(ReportKey(r))
  BY <1>0, <1>3, KeyFacts
<1>5. \A p : Same(RawKey(r, p))
  <2> SUFFICES ASSUME NEW p PROVE Same(RawKey(r, p))
    OBVIOUS
  <2>1. RawKey(r, p) # k
    BY <1>0, RawKeyFacts
  <2> QED BY <1>3, <2>1
<1>6. /\ next \in {"curated", "quarantine", "report"}
      /\ next = "curated" <=> run[r].gate # "fail"
  BY DEF next, AfterStaging, AfterCurated
<1>7. OpenInv(r)'
  BY <1>1, <1>2, <1>6 DEF RunInv, OpenInv
<1>8. RawInv(r)'
  BY <1>1, <1>2, <1>5, <1>6, RawKeptInv DEF RunInv, Kept
<1>9. StagingInv(r)'
  BY <1>1, <1>2, <1>6 DEF RunInv, StagingInv, Begun, Exists, Holds, Kept, Same,
                          StagingKey, Torn, Whole, k, rows
<1>10. CuratedInv(r)'
  BY <1>1, <1>2, <1>4, <1>6 DEF RunInv, CuratedInv, Begun, Exists, Holds, Kept,
                                Same, StagingKey, CuratedKey, Torn, Whole, k, rows
<1>11. ReportInv(r)'
  BY <1>1, <1>2, <1>4, <1>6 DEF RunInv, ReportInv, Begun, Exists, Holds, Kept,
                                Same, ReportKey, Torn, Whole
<1> QED BY <1>7, <1>8, <1>9, <1>10, <1>11 DEF RunInv

LEMMA PersistCuratedInv ==
    ASSUME TypeOK, NEW r \in Runs, RunInv(r), PersistCurated(r)
    PROVE  RunInv(r)'
<1> DEFINE k == CuratedKey(r)
           rows == run[r].deduped
           next == AfterCurated(r)
<1>0. run \in [Runs -> RunState] /\ k[1] = "curated"
  BY KeyFacts DEF TypeOK
<1>1. run[r].pc = "curated" /\ Put(r, k, rows, next)
  BY DEF PersistCurated
<1> HIDE DEF k, rows, next
<1>2. /\ Kept(r)
      /\ k \in DOMAIN objects'
      /\ \/ /\ ~run[r].open
            /\ run'[r].open = TRUE
            /\ run'[r].pc = run[r].pc
            /\ objects'[k] = Torn
         \/ /\ run[r].open
            /\ run'[r].open = FALSE
            /\ run'[r].pc = next
            /\ objects[k] = Torn => objects'[k] = Whole(r, rows)
            /\ objects'[k] \in {Whole(r, rows), Mixed}
  BY <1>0, <1>1, PutOutcome
<1>3. \A y : y # k => Same(y)
  BY <1>1, PutSame
<1>4. Same(StagingKey(r)) /\ Same(ReportKey(r))
  BY <1>0, <1>3, KeyFacts
<1>5. \A p : Same(RawKey(r, p))
  <2> SUFFICES ASSUME NEW p PROVE Same(RawKey(r, p))
    OBVIOUS
  <2>1. RawKey(r, p) # k
    BY <1>0, RawKeyFacts
  <2> QED BY <1>3, <2>1
<1>6. next \in {"quarantine", "report"}
  BY DEF next, AfterCurated
<1>7. OpenInv(r)'
  BY <1>1, <1>2, <1>6 DEF RunInv, OpenInv
<1>8. RawInv(r)'
  BY <1>1, <1>2, <1>5, <1>6, RawKeptInv DEF RunInv, Kept
<1>9. StagingInv(r)'
  BY <1>1, <1>2, <1>4, <1>6 DEF RunInv, StagingInv, Begun, Exists, Holds, Kept, Same,
                          StagingKey, Torn, Whole
<1>10. CuratedInv(r)'
  <2>1. run[r].gate # "fail" /\ Holds(StagingKey(r), r, run[r].deduped)
    BY <1>1 DEF RunInv, CuratedInv, StagingInv
  <2>2. StagingKey(r) \in DOMAIN objects'
        /\ objects'[StagingKey(r)] = Whole(r, run[r].deduped)
    BY <1>4, <2>1 DEF Same, Holds, Exists
  <2>3. run[r].open => objects[k] = Torn
    BY <1>1 DEF RunInv, CuratedInv, Begun, k
  <2>4. run[r].open => objects'[k] = Whole(r, run[r].deduped)
    BY <1>2, <2>3 DEF rows
  <2> QED BY <1>1, <1>2, <1>6, <2>1, <2>2, <2>4 DEF RunInv, CuratedInv, Begun, Exists,
             Holds, Kept, StagingKey, CuratedKey, Torn, Whole, k
<1>11. ReportInv(r)'
  BY <1>1, <1>2, <1>4, <1>6 DEF RunInv, ReportInv, Begun, Exists, Holds, Kept,
                                Same, ReportKey, Torn, Whole
<1> QED BY <1>7, <1>8, <1>9, <1>10, <1>11 DEF RunInv

LEMMA PersistQuarantineInv ==
    ASSUME TypeOK, NEW r \in Runs, RunInv(r), PersistQuarantine(r)
    PROVE  RunInv(r)'
<1> DEFINE k == QuarantineKey(r)
           rows == run[r].rejected
           next == "report"
<1>0. run \in [Runs -> RunState] /\ k[1] = "quarantine"
  BY SharedKeyFacts DEF TypeOK
<1>1. run[r].pc = "quarantine" /\ Put(r, k, rows, next)
  BY DEF PersistQuarantine
<1> HIDE DEF k, rows, next
<1>2. /\ Kept(r)
      /\ k \in DOMAIN objects'
      /\ \/ /\ ~run[r].open
            /\ run'[r].open = TRUE
            /\ run'[r].pc = run[r].pc
            /\ objects'[k] = Torn
         \/ /\ run[r].open
            /\ run'[r].open = FALSE
            /\ run'[r].pc = next
            /\ objects[k] = Torn => objects'[k] = Whole(r, rows)
            /\ objects'[k] \in {Whole(r, rows), Mixed}
  BY <1>0, <1>1, PutOutcome
<1>3. \A y : y # k => Same(y)
  BY <1>1, PutSame
<1>4. Same(StagingKey(r)) /\ Same(CuratedKey(r)) /\ Same(ReportKey(r))
  BY <1>0, <1>3, KeyFacts
<1>5. \A p : Same(RawKey(r, p))
  <2> SUFFICES ASSUME NEW p PROVE Same(RawKey(r, p))
    OBVIOUS
  <2>1. RawKey(r, p) # k
    BY <1>0, RawKeyFacts
  <2> QED BY <1>3, <2>1
<1>6. next = "report"
  BY DEF next
<1>7. OpenInv(r)'
  BY <1>1, <1>2, <1>6 DEF RunInv, OpenInv
<1>8. RawInv(r)'
  BY <1>1, <1>2, <1>5, <1>6, RawKeptInv DEF RunInv, Kept
<1>9. StagingInv(r)'
  BY <1>1, <1>2, <1>4, <1>6 DEF RunInv, StagingInv, Begun, Exists, Holds, Kept, Same,
                          StagingKey, Torn, Whole
<1>10. CuratedInv(r)'
  BY <1>1, <1>2, <1>4, <1>6 DEF RunInv, CuratedInv, Begun, Exists, Holds, Kept,
                                Same, StagingKey, CuratedKey, Torn, Whole
<1>11. ReportInv(r)'
  BY <1>1, <1>2, <1>4, <1>6 DEF RunInv, ReportInv, Begun, Exists, Holds, Kept,
                                Same, ReportKey, Torn, Whole
<1> QED BY <1>7, <1>8, <1>9, <1>10, <1>11 DEF RunInv

LEMMA PersistOwnReportInv ==
    ASSUME TypeOK, NEW r \in Runs, RunInv(r), PersistReport(r), run[r].pc = "report"
    PROVE  RunInv(r)'
<1> DEFINE k == ReportKey(r)
           rows == run[r].gate
           next == "latest"
<1>0. run \in [Runs -> RunState] /\ k[1] = "report"
  BY KeyFacts DEF TypeOK
<1>1. run[r].pc = "report" /\ Put(r, k, rows, next)
  BY DEF PersistReport
<1> HIDE DEF k, rows, next
<1>2. /\ Kept(r)
      /\ k \in DOMAIN objects'
      /\ \/ /\ ~run[r].open
            /\ run'[r].open = TRUE
            /\ run'[r].pc = run[r].pc
            /\ objects'[k] = Torn
         \/ /\ run[r].open
            /\ run'[r].open = FALSE
            /\ run'[r].pc = next
            /\ objects[k] = Torn => objects'[k] = Whole(r, rows)
            /\ objects'[k] \in {Whole(r, rows), Mixed}
  BY <1>0, <1>1, PutOutcome
<1>3. \A y : y # k => Same(y)
  BY <1>1, PutSame
<1>4. Same(StagingKey(r)) /\ Same(CuratedKey(r))
  BY <1>0, <1>3, KeyFacts
<1>5. \A p : Same(RawKey(r, p))
  <2> SUFFICES ASSUME NEW p PROVE Same(RawKey(r, p))
    OBVIOUS
  <2>1. RawKey(r, p) # k
    BY <1>0, RawKeyFacts
  <2> QED BY <1>3, <2>1
<1>6. next = "latest"
  BY DEF next
<1>7. OpenInv(r)'
  BY <1>1, <1>2, <1>6 DEF RunInv, OpenInv
<1>8. RawInv(r)'
  BY <1>1, <1>2, <1>5, <1>6, RawKeptInv DEF RunInv, Kept
<1>9. StagingInv(r)'
  BY <1>1, <1>2, <1>4, <1>6 DEF RunInv, StagingInv, Begun, Exists, Holds, Kept, Same,
                          StagingKey, Torn, Whole
<1>10. CuratedInv(r)'
  BY <1>1, <1>2, <1>4, <1>6 DEF RunInv, CuratedInv, Begun, Exists, Holds, Kept,
                                Same, StagingKey, CuratedKey, Torn, Whole
<1>11. ReportInv(r)'
  BY <1>1, <1>2, <1>4, <1>6 DEF RunInv, ReportInv, Begun, Exists, Holds, Kept,
                                Same, ReportKey, Torn, Whole, k, rows
<1> QED BY <1>7, <1>8, <1>9, <1>10, <1>11 DEF RunInv

LEMMA PersistLatestInv ==
    ASSUME TypeOK, NEW r \in Runs, RunInv(r), PersistReport(r), run[r].pc = "latest"
    PROVE  RunInv(r)'
<1> DEFINE k == LatestReportKey
           rows == run[r].gate
           next == "manifest"
<1>0. run \in [Runs -> RunState] /\ k[1] = "latest"
  BY SharedKeyFacts DEF TypeOK
<1>1. run[r].pc = "latest" /\ Put(r, k, rows, next)
  BY DEF PersistReport
<1> HIDE DEF k, rows, next
<1>2. /\ Kept(r)
      /\ k \in DOMAIN objects'
      /\ \/ /\ ~run[r].open
            /\ run'[r].open = TRUE
            /\ run'[r].pc = run[r].pc
            /\ objects'[k] = Torn
         \/ /\ run[r].open
            /\ run'[r].open = FALSE
            /\ run'[r].pc = next
            /\ objects[k] = Torn => objects'[k] = Whole(r, rows)
            /\ objects'[k] \in {Whole(r, rows), Mixed}
  BY <1>0, <1>1, PutOutcome
<1>3. \A y : y # k => Same(y)
  BY <1>1, PutSame
<1>4. Same(StagingKey(r)) /\ Same(CuratedKey(r)) /\ Same(ReportKey(r))
  BY <1>0, <1>3, KeyFacts
<1>5. \A p : Same(RawKey(r, p))
  <2> SUFFICES ASSUME NEW p PROVE Same(RawKey(r, p))
    OBVIOUS
  <2>1. RawKey(r, p) # k
    BY <1>0, RawKeyFacts
  <2> QED BY <1>3, <2>1
<1>6. next = "manifest"
  BY DEF next
<1>7. OpenInv(r)'
  BY <1>1, <1>2, <1>6 DEF RunInv, OpenInv
<1>8. RawInv(r)'
  BY <1>1, <1>2, <1>5, <1>6, RawKeptInv DEF RunInv, Kept
<1>9. StagingInv(r)'
  BY <1>1, <1>2, <1>4, <1>6 DEF RunInv, StagingInv, Begun, Exists, Holds, Kept, Same,
                          StagingKey, Torn, Whole
<1>10. CuratedInv(r)'
  BY <1>1, <1>2, <1>4, <1>6 DEF RunInv, CuratedInv, Begun, Exists, Holds, Kept,
                                Same, StagingKey, CuratedKey, Torn, Whole
<1>11. ReportInv(r)'
  BY <1>1, <1>2, <1>4, <1>6 DEF RunInv, ReportInv, Begun, Exists, Holds, Kept,
                                Same, ReportKey, Torn, Whole
<1> QED BY <1>7, <1>8, <1>9, <1>10, <1>11 DEF RunInv

LEMMA SaveRunInv ==
    ASSUME TypeOK, NEW r \in Runs, RunInv(r), SaveRun(r)
    PROVE  RunInv(r)'
<1>0. run \in [Runs -> RunState] /\ run[r] \in RunState
  BY DEF TypeOK
<1>1. run[r].pc = "manifest" /\ run'[r].pc = "done" /\ Kept(r) /\ objects' = objects
  BY <1>0 DEF SaveRun, Kept, RunState
<1>2. run'[r].open = run[r].open
  BY <1>0 DEF SaveRun, RunState
<1>3. \A y : Same(y)
  BY <1>1, QuietSame
<1>4. OpenInv(r)'
  BY <1>1, <1>2 DEF RunInv, OpenInv
<1>5. RawInv(r)'
  BY <1>1, <1>3, RawKeptInv DEF RunInv, Kept
<1>6. StagingInv(r)'
  BY <1>1 DEF RunInv, StagingInv, Exists, Holds, Kept, StagingKey, Whole
<1>7. CuratedInv(r)'
  BY <1>1 DEF RunInv, CuratedInv, Exists, Holds, Kept, StagingKey, CuratedKey, Whole
<1>8. ReportInv(r)'
  BY <1>1 DEF RunInv, ReportInv, Exists, Holds, Kept, ReportKey, Whole
<1> QED BY <1>4, <1>5, <1>6, <1>7, <1>8 DEF RunInv

\* A failed run leaves behind what it had written.
LEMMA AbortInv ==
    ASSUME TypeOK, NEW r \in Runs, RunInv(r), Abort(r)
    PROVE  RunInv(r)'
<1>0. run \in [Runs -> RunState] /\ run[r] \in RunState
  BY DEF TypeOK
<1>1. run'[r].pc = "failed" /\ Kept(r) /\ objects' = objects
  BY <1>0 DEF Abort, Kept, RunState
<1>2. OpenInv(r)'
  BY <1>1 DEF OpenInv
<1>3. RawInv(r)'
  BY <1>1 DEF RawInv
<1>4. StagingInv(r)'
  BY <1>1 DEF StagingInv
<1>5. CuratedInv(r)'
  BY <1>1 DEF RunInv, CuratedInv, Exists, Holds, Kept, StagingKey, CuratedKey, Whole
<1>6. ReportInv(r)'
  BY <1>1 DEF ReportInv
<1> QED BY <1>2, <1>3, <1>4, <1>5, <1>6 DEF RunInv

-----------------------------------------------------------------------------
(* The invariant of the whole system. *)

LEMMA StepRunInv ==
    ASSUME TypeOK, NEW r \in Runs, RunInv(r), Start(r) \/ Step(r) \/ Abort(r)
    PROVE  RunInv(r)'
BY StartInv, ParseInv, DedupeInv, EvaluateInv, PersistRawInv, PersistStagingInv,
   PersistCuratedInv, PersistQuarantineInv, PersistOwnReportInv, PersistLatestInv,
   SaveRunInv, AbortInv DEF Step, PersistReport

\* A run that ended does nothing.
LEMMA OnlyActive ==
    ASSUME NEW r \in Runs, Start(r) \/ Step(r) \/ Abort(r)
    PROVE  run[r].pc \notin Ended
BY DEF Start, Step, Abort, PersistRaw, Parse, DropSeen, FindUnseen, MarkSeen,
       Evaluate, PersistStaging, PersistCurated, PersistQuarantine, PersistReport,
       SaveRun, Ended

LEMMA StepType ==
    ASSUME TypeInv, \A r \in Runs : RunInv(r),
           NEW r \in Runs, Start(r) \/ Step(r) \/ Abort(r)
    PROVE  TypeInv'
<1>1. MarkHasRecord
  BY DEF RunInv, OpenInv, MarkHasRecord
<1> QED BY <1>1, StartType, ParseType, DropSeenType, FindUnseenType, MarkSeenType,
           EvaluateType, PersistType, SaveRunType, AbortType DEF Step

\* Only SaveRun writes a manifest, and a manifest's run does not move again.
LEMMA StepManifest ==
    ASSUME TypeOK, ManifestInv, NEW r \in Runs, Start(r) \/ Step(r) \/ Abort(r)
    PROVE  ManifestInv'
<1>0. run \in [Runs -> RunState] /\ run[r] \in RunState
  BY DEF TypeOK
<1>1. \A q \in Runs : run[q].pc = "done" => run'[q] = run[q]
  BY OnlyActive, StepFrame DEF Ended
<1>2. CASE manifests' = manifests
  BY <1>1, <1>2 DEF ManifestInv
<1>3. CASE SaveRun(r)
  <2>1. run'[r].pc = "done" /\ run'[r].deduped = run[r].deduped
    BY <1>0, <1>3 DEF SaveRun, RunState
  <2> SUFFICES ASSUME NEW m \in manifests'
               PROVE  /\ m.run_id \in Runs
                      /\ run'[m.run_id].pc = "done"
                      /\ m.site_count = Len(run'[m.run_id].deduped)
    BY DEF ManifestInv
  <2>2. CASE m \in manifests
    BY <1>1, <2>2 DEF ManifestInv
  <2>3. CASE m \notin manifests
    BY <1>3, <2>1, <2>3 DEF SaveRun
  <2> QED BY <2>2, <2>3
<1> QED BY <1>2, <1>3 DEF Start, Step, Abort, PersistRaw, Parse, DropSeen, FindUnseen,
           MarkSeen, Evaluate, PersistStaging, PersistCurated, PersistQuarantine,
           PersistReport

\* Of all steps, only a run in phase "latest" touches the latest report.
LEMMA StepLatestSame ==
    ASSUME NEW r \in Runs, Start(r) \/ Step(r) \/ Abort(r), run[r].pc # "latest"
    PROVE  Same(LatestReportKey)
<1>0. LatestReportKey[1] = "latest"
  BY SharedKeyFacts
<1>1. CASE UNCHANGED objects
  BY <1>1, QuietSame
<1>2. ASSUME NEW k, NEW rows, NEW next, Put(r, k, rows, next), k[1] # "latest"
      PROVE  Same(LatestReportKey)
  BY <1>0, <1>2, PutSame
<1>3. CASE PersistRaw(r)
  <2>1. RawKey(r, run[r].page)[1] = "raw"
    BY RawKeyFacts
  <2> QED BY <1>2, <1>3, <2>1 DEF PersistRaw
<1>4. CASE PersistStaging(r)
  BY <1>2, <1>4, KeyFacts DEF PersistStaging
<1>5. CASE PersistCurated(r)
  BY <1>2, <1>5, KeyFacts DEF PersistCurated
<1>6. CASE PersistQuarantine(r)
  <2>1. QuarantineKey(r)[1] = "quarantine"
    BY SharedKeyFacts
  <2> QED BY <1>2, <1>6, <2>1 DEF PersistQuarantine
<1>7. CASE PersistReport(r)
  BY <1>2, <1>7, KeyFacts DEF PersistReport
<1> QED BY <1>1, <1>3, <1>4, <1>5, <1>6, <1>7 DEF Start, Step, Abort, Parse, DropSeen,
           FindUnseen, MarkSeen, Evaluate, SaveRun

\* What the latest report says of r stays true of it.
LatestOf(r) ==
    /\ run[r].pc \in Ended \cup {"manifest"}
    /\ Holds(LatestReportKey, r, run[r].gate)
    /\ Holds(ReportKey(r), r, run[r].gate)
    /\ run[r].gate # "fail" => Holds(CuratedKey(r), r, run[r].deduped)

LEMMA LatestOfKept ==
    ASSUME NEW r \in Runs, LatestOf(r),
           Kept(r), run'[r].pc \in Ended \cup {"manifest"},
           Same(LatestReportKey), Same(ReportKey(r)), Same(CuratedKey(r))
    PROVE  LatestOf(r)'
BY DEF LatestOf, Kept, Same, Holds, Exists, LatestReportKey, ReportKey, CuratedKey

LEMMA StepLatest ==
    ASSUME TypeOK, \A r \in Runs : RunInv(r), LatestInv,
           NEW q \in Runs, Start(q) \/ Step(q) \/ Abort(q)
    PROVE  LatestInv'
<1>0. run \in [Runs -> RunState] /\ run[q] \in RunState
  BY DEF TypeOK
<1> SUFFICES ASSUME IsWhole(LatestReportKey)'
             PROVE  \E r \in Runs : LatestOf(r)'
  BY DEF LatestInv, LatestOf
<1>1. CASE run[q].pc # "latest"
  <2>1. Same(LatestReportKey)
    BY <1>1, StepLatestSame
  <2>2. IsWhole(LatestReportKey)
    BY <2>1 DEF Same, IsWhole, Exists, LatestReportKey
  <2>3. PICK r \in Runs : LatestOf(r)
    BY <2>2 DEF LatestInv, LatestOf
  <2>4. CASE r # q
    <3>1. run'[r] = run[r] /\ Same(ReportKey(r)) /\ Same(CuratedKey(r))
      BY <2>4, StepFrame DEF OwnKey
    <3>2. Kept(r) /\ run'[r].pc \in Ended \cup {"manifest"}
      BY <2>3, <3>1 DEF Kept, LatestOf
    <3> QED BY <2>1, <2>3, <3>1, <3>2, LatestOfKept
  <2>5. CASE r = q
    <3>1. run[q].pc = "manifest"
      BY <2>3, <2>5, OnlyActive DEF LatestOf
    <3>2. SaveRun(q) \/ Abort(q)
      BY <3>1 DEF Start, Step, PersistRaw, Parse, DropSeen, FindUnseen, MarkSeen,
                  Evaluate, PersistStaging, PersistCurated, PersistQuarantine,
                  PersistReport
    <3>3. Kept(q) /\ run'[q].pc \in Ended /\ UNCHANGED objects
      BY <1>0, <3>2 DEF SaveRun, Abort, Kept, RunState, Ended
    <3> QED BY <2>1, <2>3, <2>5, <3>3, LatestOfKept, QuietSame
  <2> QED BY <2>4, <2>5
<1>2. CASE run[q].pc = "latest" /\ ~Abort(q)
  <2>1. Put(q, LatestReportKey, run[q].gate, "manifest")
    BY <1>2 DEF Start, Step, PersistRaw, Parse, DropSeen, FindUnseen, MarkSeen,
                Evaluate, PersistStaging, PersistCurated, PersistQuarantine,
                PersistReport, SaveRun
  <2>2. /\ Kept(q)
        /\ LatestReportKey \in DOMAIN objects'
        /\ \/ objects'[LatestReportKey] = Torn
           \/ /\ run'[q].pc = "manifest"
              /\ objects'[LatestReportKey] \in {Whole(q, run[q].gate), Mixed}
    <3> DEFINE k == LatestReportKey
               rows == run[q].gate
               next == "manifest"
    <3>1. Put(q, k, rows, next)
      BY <2>1
    <3> HIDE DEF k, rows, next
    <3>2. /\ Kept(q)
          /\ k \in DOMAIN objects'
          /\ \/ /\ ~run[q].open
                /\ run'[q].open = TRUE
                /\ run'[q].pc = run[q].pc
                /\ objects'[k] = Torn
             \/ /\ run[q].open
                /\ run'[q].open = FALSE
                /\ run'[q].pc = next
                /\ objects[k] = Torn => objects'[k] = Whole(q, rows)
                /\ objects'[k] \in {Whole(q, rows), Mixed}
      BY <1>0, <3>1, PutOutcome
    <3> QED BY <3>2 DEF k, rows, next
  <2>3. /\ run'[q].pc = "manifest"
        /\ objects'[LatestReportKey] = Whole(q, run[q].gate)
    BY <2>2 DEF IsWhole, Exists, LatestReportKey, Torn, Mixed
  <2>4. Same(ReportKey(q)) /\ Same(CuratedKey(q))
    <3>1. LatestReportKey[1] = "latest"
      BY SharedKeyFacts
    <3> QED BY <2>1, <3>1, PutSame, KeyFacts
  <2>5. /\ Holds(ReportKey(q), q, run[q].gate)
        /\ run[q].gate # "fail" => Holds(CuratedKey(q), q, run[q].deduped)
    BY <1>2 DEF RunInv, ReportInv, CuratedInv
  <2>6. LatestOf(q)'
    BY <2>2, <2>3, <2>4, <2>5 DEF LatestOf, Kept, Same, Holds, Exists,
                                   LatestReportKey, ReportKey, CuratedKey
  <2> QED BY <2>6
<1>3. CASE run[q].pc = "latest" /\ Abort(q)
  <2>1. UNCHANGED objects /\ \A r \in Runs \ {q} : run'[r] = run[r]
    BY <1>0, <1>3 DEF Abort, TypeOK
  <2>2. IsWhole(LatestReportKey)
    BY <2>1 DEF IsWhole, Exists, LatestReportKey
  <2>3. PICK r \in Runs : LatestOf(r)
    BY <2>2 DEF LatestInv, LatestOf
  <2>4. r # q
    BY <1>3, <2>3 DEF LatestOf, Ended
  <2>5. Kept(r) /\ run'[r].pc \in Ended \cup {"manifest"}
    BY <2>1, <2>3, <2>4 DEF Kept, LatestOf
  <2> QED BY <2>1, <2>3, <2>5, LatestOfKept, QuietSame
<1> QED BY <1>1, <1>2, <1>3

LEMMA InitInv == Init => IInv
<1> SUFFICES ASSUME Init PROVE IInv
  OBVIOUS
<1>1. \A r \in Runs : /\ run[r].pc = "idle" /\ run[r].page = 1
                      /\ run[r].gate = "fail" /\ ~run[r].open
  BY DEF Init
<1>2. DOMAIN objects = {} /\ manifests = {}
  BY DEF Init
<1>3. ASSUME NEW r \in Runs PROVE RunInv(r)
  BY <1>1, <1>2 DEF RunInv, OpenInv, RawInv, StagingInv, CuratedInv, ReportInv, Exists
<1>4. ManifestInv /\ LatestInv
  BY <1>2 DEF ManifestInv, LatestInv, IsWhole, Exists
<1> QED BY <1>3, <1>4, InitType DEF IInv

LEMMA NextInv == IInv /\ [Next]_vars => IInv'
<1> SUFFICES ASSUME IInv, [Next]_vars PROVE IInv'
  OBVIOUS
<1>0. TypeInv /\ TypeOK /\ (\A r \in Runs : RunInv(r)) /\ ManifestInv /\ LatestInv
  BY DEF IInv, TypeInv
<1>1. ASSUME NEW q \in Runs, Start(q) \/ Step(q) \/ Abort(q)
      PROVE  IInv'
  <2>1. TypeInv'
    BY <1>0, <1>1, StepType
  <2>2. ASSUME NEW r \in Runs PROVE RunInv(r)'
    <3>1. CASE r = q
      BY <1>0, <1>1, <3>1, StepRunInv
    <3>2. CASE r # q
      BY <1>0, <1>1, <3>2, StepFrame, FrameInv
    <3> QED BY <3>1, <3>2
  <2>3. ManifestInv'
    BY <1>0, <1>1, StepManifest
  <2>4. LatestInv'
    BY <1>0, <1>1, StepLatest
  <2> QED BY <2>1, <2>2, <2>3, <2>4 DEF IInv
<1>2. CASE UNCHANGED <<run, objects, dedupe, manifests>> /\ today' \in Nat
  <2>1. TypeInv'
    BY <1>0, <1>2 DEF TypeInv, TypeOK, RejectsFinite
  <2>2. \A r \in Runs : RunInv(r)'
    BY <1>0, <1>2, FrameInv, QuietSame
  <2>3. ManifestInv'
    BY <1>0, <1>2 DEF ManifestInv
  <2>4. LatestInv'
    BY <1>0, <1>2 DEF LatestInv, IsWhole, Holds, Exists, LatestReportKey, ReportKey,
                      CuratedKey
  <2> QED BY <2>1, <2>2, <2>3, <2>4 DEF IInv
<1>3. CASE NewDay
  BY <1>0, <1>2, <1>3 DEF NewDay, TypeOK
<1>4. CASE UNCHANGED vars
  BY <1>0, <1>2, <1>4 DEF vars, TypeOK
<1> QED BY <1>1, <1>3, <1>4 DEF Next

LEMMA Invariance == Spec => []IInv
BY InitInv, NextInv, PTL DEF Spec

-----------------------------------------------------------------------------
(***************************************************************************)
(* The quarantine zone, whose files are shared by the runs of a site and   *)
(* day.  A run that has rejected something opens, writes and leaves a file *)
(* that holds its items, unless another run of that site and day that has  *)
(* rejected something puts that file, too.                                 *)
(***************************************************************************)
AfterQuarantine == {"report"} \cup Closing

\* The run got beyond its quarantine file, though it may have failed since.
PastQuarantine(r) ==
    run[r].pc \in AfterQuarantine \/ (run[r].pc = "failed" /\ Exists(ReportKey(r)))

QuarantineInv(r) ==
    /\ run[r].pc = "idle" => run[r].rejected = {}
    /\ run[r].pc = "quarantine" => run[r].rejected # {}
    /\ run[r].pc = "quarantine" /\ run[r].open =>
           \/ SharesQuarantine(r)
           \/ Exists(QuarantineKey(r)) /\ objects[QuarantineKey(r)] = Torn
    /\ PastQuarantine(r) /\ run[r].rejected # {} =>
           \/ SharesQuarantine(r)
           \/ Holds(QuarantineKey(r), r, run[r].rejected)

\* What a run rejected stays so, and its date is fixed when it starts.
RejectsKept(r) ==
    /\ run[r].rejected \subseteq run'[r].rejected
    /\ run[r].pc # "idle" => run'[r].dt = run[r].dt
    /\ run'[r].pc = "idle" => run'[r] = run[r]

LEMMA ParseRejects ==
    ASSUME TypeOK, NEW r \in Runs, Parse(r)
    PROVE  /\ run'[r].pc \in {"fetch", "dedupe"}
           /\ run'[r].dt = run[r].dt
           /\ run[r].rejected \subseteq run'[r].rejected
<1>0. run \in [Runs -> RunState] /\ run[r] \in RunState
  BY DEF TypeOK
<1>1. PICK found \in PageRecords,
           rejects \in SUBSET {[run |-> r, page |-> run[r].page]} :
           run' = [run EXCEPT
                     ![r].records = @ \o found,
                     ![r].crawled = @ \cup {found[i] : i \in DOMAIN found},
                     ![r].rejected = @ \cup rejects,
                     ![r].page = @ + 1,
                     ![r].pc = IF run[r].page < PagesOf[SiteOf[r]]
                               THEN "fetch" ELSE "dedupe"]
  BY DEF Parse
<1>2. run'[r] = [run[r] EXCEPT
                   !.records = @ \o found,
                   !.crawled = @ \cup {found[i] : i \in DOMAIN found},
                   !.rejected = @ \cup rejects,
                   !.page = @ + 1,
                   !.pc = IF run[r].page < PagesOf[SiteOf[r]]
                          THEN "fetch" ELSE "dedupe"]
  BY <1>0, <1>1
<1> QED BY <1>0, <1>2 DEF RunState

LEMMA EvaluatePhase ==
    ASSUME TypeOK, NEW r \in Runs, Evaluate(r)
    PROVE  /\ run'[r].pc = "staging"
           /\ run'[r].records = run[r].records
           /\ run'[r].open = run[r].open
           /\ run'[r].dt = run[r].dt
           /\ run'[r].rejected = run[r].rejected
<1>0. run \in [Runs -> RunState] /\ run[r] \in RunState
  BY DEF TypeOK
<1>1. PICK g \in Gates : run' = [run EXCEPT ![r].gate = g, ![r].pc = "staging"]
  BY DEF Evaluate
<1> QED BY <1>0, <1>1 DEF RunState

LEMMA StepKeepsRejects ==
    ASSUME TypeOK, NEW q \in Runs, Start(q) \/ Step(q) \/ Abort(q)
    PROVE  \A r \in Runs : RejectsKept(r)
<1> TAKE r \in Runs
<1>0. run \in [Runs -> RunState] /\ run[q] \in RunState
  BY DEF TypeOK
<1>1. CASE r # q
  BY <1>1, StepFrame DEF RejectsKept
<1>2. CASE r = q /\ Start(q)
  BY <1>0, <1>2 DEF Start, RunState, RejectsKept
<1>3. CASE r = q /\ Parse(q)
  BY <1>3, ParseRejects DEF RejectsKept
<1>4. CASE r = q /\ (DropSeen(q) \/ FindUnseen(q) \/ MarkSeen(q) \/ Evaluate(q))
  <2>1. CASE DropSeen(q)
    BY <1>0, <1>4, <2>1 DEF DropSeen, RunState, RejectsKept
  <2>2. CASE FindUnseen(q)
    BY <1>0, <1>4, <2>2 DEF FindUnseen, RunState, RejectsKept
  <2>3. CASE MarkSeen(q)
    BY <1>0, <1>4, <2>3 DEF MarkSeen, RunState, RejectsKept
  <2>4. CASE Evaluate(q)
    BY <1>4, <2>4, EvaluatePhase DEF RejectsKept
  <2> QED BY <1>4, <2>1, <2>2, <2>3, <2>4
<1>5. CASE r = q /\ (SaveRun(q) \/ Abort(q))
  BY <1>0, <1>5 DEF SaveRun, Abort, RunState, RejectsKept
<1>6. AfterStaging(q) # "idle" /\ AfterCurated(q) # "idle"
  BY DEF AfterStaging, AfterCurated
<1>7. ASSUME r = q, run[q].pc # "idle", NEW k, NEW rows, NEW next, next # "idle",
             Put(q, k, rows, next)
      PROVE  RejectsKept(r)
  <2>1. Kept(q) /\ (run'[q].pc = run[q].pc \/ (run'[q].pc = next /\ run'[q].open = FALSE))
    BY <1>0, <1>7, PutPhase
  <2> QED BY <1>7, <2>1 DEF Kept, RejectsKept
<1>8. CASE r = q /\ PersistRaw(q)
  BY <1>7, <1>8 DEF PersistRaw
<1>9. CASE r = q /\ (PersistStaging(q) \/ PersistCurated(q) \/ PersistQuarantine(q))
  BY <1>6, <1>7, <1>9 DEF PersistStaging, PersistCurated, PersistQuarantine
<1>10. CASE r = q /\ PersistReport(q)
  BY <1>7, <1>10 DEF PersistReport
<1> QED BY <1>1, <1>2, <1>3, <1>4, <1>5, <1>8, <1>9, <1>10 DEF Step

\* Once a run shares its file it goes on to share it.
LEMMA SharingStays ==
    ASSUME \A r \in Runs : QuarantineInv(r) /\ RejectsKept(r),
           NEW r \in Runs, run[r].pc # "idle", SharesQuarantine(r)
    PROVE  SharesQuarantine(r)'
<1>1. PICK q \in Runs \ {r} : /\ SiteOf[q] = SiteOf[r]
                             /\ run[q].dt = run[r].dt
                             /\ run[q].rejected # {}
  BY DEF SharesQuarantine
<1>2. run[q].pc # "idle"
  BY <1>1 DEF QuarantineInv
<1>3. run'[q].dt = run'[r].dt /\ run'[q].rejected # {}
  BY <1>1, <1>2 DEF RejectsKept
<1> QED BY <1>1, <1>3 DEF SharesQuarantine

\* Runs with one key are of one site and day; the zones have different keys.
LEMMA QuarantineKeyFacts ==
    ASSUME NEW r, NEW q, QuarantineKey(q) = QuarantineKey(r)
    PROVE  SiteOf[q] = SiteOf[r] /\ run[q].dt = run[r].dt
BY DEF QuarantineKey

LEMMA OnlyQuarantineTouches ==
    ASSUME NEW q \in Runs, Start(q) \/ Step(q) \/ Abort(q), NEW r \in Runs,
           PersistQuarantine(q) => QuarantineKey(q) # QuarantineKey(r)
    PROVE  Same(QuarantineKey(r))
<1>1. CASE UNCHANGED objects
  BY <1>1, QuietSame
<1>2. ASSUME NEW k, NEW rows, NEW next, Put(q, k, rows, next), k # QuarantineKey(r)
      PROVE  Same(QuarantineKey(r))
  BY <1>2, PutSame
<1>3. QuarantineKey(r)[1] = "quarantine" /\ LatestReportKey[1] = "latest"
  BY SharedKeyFacts
<1>4. CASE PersistRaw(q)
  <2>1. RawKey(q, run[q].page) # QuarantineKey(r)
    BY <1>3, RawKeyFacts
  <2> QED BY <1>2, <1>4, <2>1 DEF PersistRaw
<1>5. CASE PersistStaging(q) \/ PersistCurated(q)
  BY <1>2, <1>3, <1>5, KeyFacts DEF PersistStaging, PersistCurated
<1>6. CASE PersistQuarantine(q)
  BY <1>2, <1>6 DEF PersistQuarantine
<1>7. CASE PersistReport(q)
  <2>1. ReportKey(q) # QuarantineKey(r) /\ LatestReportKey # QuarantineKey(r)
    BY <1>3, KeyFacts
  <2> QED BY <1>2, <1>7, <2>1 DEF PersistReport
<1> QED BY <1>1, <1>4, <1>5, <1>6, <1>7 DEF Start, Step, Abort, Parse, DropSeen,
           FindUnseen, MarkSeen, Evaluate, SaveRun

\* A step of another run either leaves the file alone or shares it.
LEMMA OthersQuarantine ==
    ASSUME TypeOK, \A r \in Runs : QuarantineInv(r),
           NEW q \in Runs, Start(q) \/ Step(q) \/ Abort(q), NEW r \in Runs, r # q
    PROVE  QuarantineInv(r)'
<1>1. /\ run'[r] = run[r] /\ QuarantineKey(r)' = QuarantineKey(r)
      /\ PastQuarantine(r)' <=> PastQuarantine(r)
  <2>1. run'[r] = run[r] /\ Same(ReportKey(r)) /\ ReportKey(r)' = ReportKey(r)
    BY StepFrame DEF OwnKey, ReportKey
  <2> QED BY <2>1 DEF QuarantineKey, PastQuarantine, Exists, Same
<1>2. \A s \in Runs : QuarantineInv(s) /\ RejectsKept(s)
  BY StepKeepsRejects
<1>3. run[r].pc # "idle" /\ SharesQuarantine(r) => SharesQuarantine(r)'
  BY <1>2, SharingStays
<1>4. CASE PersistQuarantine(q) /\ QuarantineKey(q) = QuarantineKey(r)
  <2>1. run[q].rejected # {}
    BY <1>2, <1>4 DEF PersistQuarantine, QuarantineInv
  <2>2. SharesQuarantine(r)
    BY <1>4, <2>1, QuarantineKeyFacts DEF SharesQuarantine
  <2> QED BY <1>1, <1>2, <1>3, <2>2 DEF QuarantineInv
<1>5. CASE ~(PersistQuarantine(q) /\ QuarantineKey(q) = QuarantineKey(r))
  <2>1. Same(QuarantineKey(r))
    BY <1>5, OnlyQuarantineTouches
  <2> QED BY <1>1, <1>2, <1>3, <2>1 DEF QuarantineInv, Same, Exists, Holds, Whole, Torn
<1> QED BY <1>4, <1>5

\* The run's own steps.
LEMMA OwnQuarantine ==
    ASSUME TypeOK, \A r \in Runs : QuarantineInv(r) /\ RunInv(r),
           NEW r \in Runs, Start(r) \/ Step(r) \/ Abort(r)
    PROVE  QuarantineInv(r)'
<1>0. run \in [Runs -> RunState] /\ run[r] \in RunState
  BY DEF TypeOK
<1>1. \A s \in Runs : QuarantineInv(s) /\ RejectsKept(s)
  BY StepKeepsRejects
<1>2. run[r].pc # "idle" /\ SharesQuarantine(r) => SharesQuarantine(r)'
  BY <1>1, SharingStays
<1>3. ASSUME run'[r].pc \in Early \cup {"staging", "curated"},
             run'[r].pc # "idle"
      PROVE  QuarantineInv(r)'
  BY <1>3 DEF QuarantineInv, PastQuarantine, AfterQuarantine
<1>4. CASE Start(r) \/ Parse(r) \/ DropSeen(r) \/ FindUnseen(r) \/ MarkSeen(r)
  <2>1. run'[r].pc \in {"fetch", "dedupe", "mark"}
    BY <1>0, <1>4, ParseRejects DEF Start, DropSeen, FindUnseen, MarkSeen, RunState
  <2> QED BY <1>3, <2>1
<1>5. CASE Evaluate(r)
  <2>1. run'[r].pc = "staging"
    BY <1>5, EvaluatePhase
  <2> QED BY <1>3, <2>1
<1>11. CASE Abort(r)
  <2>1. /\ run[r].pc \notin Ended /\ run'[r].pc = "failed"
        /\ run'[r].rejected = run[r].rejected /\ run'[r].dt = run[r].dt
        /\ objects' = objects
    BY <1>0, <1>11 DEF Abort, RunState
  <2>2. run[r].pc \in Phases /\ ReportInv(r)
    BY <1>0 DEF RunState, RunInv
  <2>3. Exists(ReportKey(r)) => run[r].pc \in AfterQuarantine
    BY <2>1, <2>2 DEF ReportInv, Phases, Ended, AfterQuarantine
  <2>4. CASE ~Exists(ReportKey(r))
    BY <2>1, <2>4 DEF QuarantineInv, PastQuarantine, AfterQuarantine, Exists, ReportKey
  <2>5. CASE run[r].pc \in AfterQuarantine
    <3>1. run[r].rejected = {} \/ SharesQuarantine(r) \/ Holds(QuarantineKey(r), r, run[r].rejected)
      BY <1>1, <2>5 DEF QuarantineInv, PastQuarantine
    <3>2. QuarantineKey(r)' = QuarantineKey(r)
      BY <2>1 DEF QuarantineKey
    <3>3. run[r].pc # "idle"
      BY <2>5 DEF AfterQuarantine
    <3> QED BY <1>2, <2>1, <3>1, <3>2, <3>3 DEF QuarantineInv, AfterQuarantine, Holds, Exists, Whole
  <2> QED BY <2>3, <2>4, <2>5
<1>6. CASE PersistRaw(r)
  <2>1. run'[r].pc \in {"fetch", "parse"}
    BY <1>0, <1>6, PutPhase DEF PersistRaw
  <2> QED BY <1>3, <2>1
<1>7. ASSUME NEW k, NEW rows, Put(r, k, rows, AfterStaging(r)) \/ Put(r, k, rows, AfterCurated(r)),
             run[r].pc \in {"staging", "curated"}
      PROVE  QuarantineInv(r)'
  <2>1. PICK next \in {AfterStaging(r), AfterCurated(r)} : Put(r, k, rows, next)
    BY <1>7
  <2>2. Kept(r) /\ (run'[r].pc = run[r].pc \/ (run'[r].pc = next /\ run'[r].open = FALSE))
    BY <1>0, <2>1, PutPhase
  <2>3. \/ next = "curated"
        \/ next = "quarantine" /\ run[r].rejected # {}
        \/ next = "report" /\ run[r].rejected = {}
    BY DEF AfterStaging, AfterCurated
  <2> QED BY <1>7, <2>2, <2>3 DEF Kept, QuarantineInv, PastQuarantine, AfterQuarantine
<1>8. CASE PersistStaging(r) \/ PersistCurated(r)
  BY <1>7, <1>8 DEF PersistStaging, PersistCurated
<1>9. CASE PersistQuarantine(r)
  <2> DEFINE k == QuarantineKey(r)
             rows == run[r].rejected
  <2>1. run[r].pc = "quarantine" /\ Put(r, k, rows, "report")
    BY <1>9 DEF PersistQuarantine
  <2>2. rows # {} /\ (run[r].open => SharesQuarantine(r) \/ objects[k] = Torn)
    BY <1>1, <2>1 DEF QuarantineInv
  <2>3. QuarantineKey(r)' = QuarantineKey(r)
    BY <1>1, <2>1 DEF RejectsKept, QuarantineKey
  <2> HIDE DEF k, rows
  <2>4. /\ Kept(r)
        /\ k \in DOMAIN objects'
        /\ \/ /\ ~run[r].open
              /\ run'[r].open = TRUE
              /\ run'[r].pc = run[r].pc
              /\ objects'[k] = Torn
           \/ /\ run[r].open
              /\ run'[r].open = FALSE
              /\ run'[r].pc = "report"
              /\ objects[k] = Torn => objects'[k] = Whole(r, rows)
              /\ objects'[k] \in {Whole(r, rows), Mixed}
    BY <1>0, <2>1, PutOutcome
  <2>5. CASE run'[r].pc = run[r].pc /\ objects'[k] = Torn
    BY <2>1, <2>2, <2>3, <2>4, <2>5
       DEF k, rows, Kept, QuarantineInv, PastQuarantine, AfterQuarantine, Exists, Torn
  <2>6. CASE run'[r].pc = "report" /\ objects'[k] = Whole(r, rows)
    BY <2>2, <2>3, <2>4, <2>6 DEF k, rows, Kept, QuarantineInv, Holds, Exists, Whole
  <2>7. CASE run'[r].pc = "report" /\ SharesQuarantine(r)
    BY <1>2, <2>1, <2>7 DEF QuarantineInv
  <2> QED BY <2>2, <2>4, <2>5, <2>6, <2>7
<1>10. CASE PersistReport(r) \/ SaveRun(r)
  <2>1. Same(QuarantineKey(r))
    BY <1>10, OnlyQuarantineTouches DEF Step, PersistReport, SaveRun, PersistQuarantine
  <2>2. /\ run[r].pc \in AfterQuarantine /\ run'[r].pc \in AfterQuarantine
        /\ run'[r].rejected = run[r].rejected
    <3>1. CASE PersistReport(r)
      <4>1. ASSUME NEW k, NEW rows, NEW next, Put(r, k, rows, next)
            PROVE  /\ run'[r].rejected = run[r].rejected
                   /\ run'[r].pc \in {run[r].pc, next}
        <5>1. /\ Kept(r)
              /\ run'[r].pc = run[r].pc \/ (run'[r].pc = next /\ run'[r].open = FALSE)
          BY <1>0, <4>1, PutPhase
        <5> QED BY <5>1 DEF Kept
      <4> QED BY <3>1, <4>1 DEF PersistReport, AfterQuarantine
    <3>2. CASE SaveRun(r)
      BY <1>0, <3>2 DEF SaveRun, RunState, AfterQuarantine
    <3> QED BY <1>10, <3>1, <3>2
  <2>3. QuarantineKey(r)' = QuarantineKey(r)
    BY <1>1, <2>2 DEF RejectsKept, QuarantineKey, AfterQuarantine
  <2> QED BY <1>1, <1>2, <2>1, <2>2, <2>3
          DEF QuarantineInv, PastQuarantine, AfterQuarantine, Same, Exists, Holds, Whole
<1> QED BY <1>4, <1>5, <1>6, <1>8, <1>9, <1>10, <1>11 DEF Step

LEMMA NextQuarantine ==
    IInv /\ (\A r \in Runs : QuarantineInv(r)) /\ [Next]_vars
        => (\A r \in Runs : QuarantineInv(r))'
<1> SUFFICES ASSUME IInv, \A r \in Runs : QuarantineInv(r), [Next]_vars, NEW r \in Runs
             PROVE  QuarantineInv(r)'
  OBVIOUS
<1>0. TypeOK /\ \A s \in Runs : RunInv(s)
  BY DEF IInv, TypeInv
<1>1. CASE \E q \in Runs : Start(q) \/ Step(q) \/ Abort(q)
  BY <1>0, <1>1, OwnQuarantine, OthersQuarantine
<1>2. CASE UNCHANGED <<run, objects>>
  BY <1>2 DEF QuarantineInv, PastQuarantine, SharesQuarantine, QuarantineKey, ReportKey,
          Exists, Holds
<1> QED BY <1>1, <1>2 DEF Next, NewDay, vars

-----------------------------------------------------------------------------
(***************************************************************************)
(* Termination, as far as it is safety: every step of a run lowers the     *)
(* bound on the steps it has left.  A page to come stands for more than    *)
(* the records it can yield, and a run that crawls has not gone past its   *)
(* last page.                                                              *)
(***************************************************************************)
PageInv(r) ==
    run[r].pc \in {"idle", "fetch", "parse"} => run[r].page <= PagesOf[SiteOf[r]]

Nears(r) == PageInv(r)' /\ StepsLeft(r)' \in Nat /\ StepsLeft(r)' < StepsLeft(r)

\* What the bound depends on.
BoundFacts(r) ==
    /\ run[r].open \in BOOLEAN
    /\ run[r].page \in Nat
    /\ Len(run[r].records) \in Nat

LEMMA BoundType ==
    ASSUME TypeOK, NEW r \in Runs
    PROVE  /\ run \in [Runs -> RunState] /\ run[r] \in RunState
           /\ BoundFacts(r)
           /\ run[r].records \in Seq(Hashes)
           /\ PagesOf[SiteOf[r]] \in Nat /\ PagesOf[SiteOf[r]] > 0
           /\ MaxPerPage \in Nat
<1>1. run \in [Runs -> RunState] /\ run[r] \in RunState
  BY DEF TypeOK
<1>2. run[r].records \in Seq(Hashes) /\ run[r].open \in BOOLEAN /\ run[r].page \in Nat
  BY <1>1 DEF RunState
<1>3. Len(run[r].records) \in Nat
  BY <1>2, LenProperties
<1>4. PagesOf[SiteOf[r]] \in Nat /\ PagesOf[SiteOf[r]] > 0 /\ MaxPerPage \in Nat
  BY ConstantsAssumption DEF ConstantsAssumption
<1> QED BY <1>1, <1>2, <1>3, <1>4 DEF BoundFacts

LEMMA TimesFacts ==
    ASSUME NEW n \in Nat, n >= 1, NEW m \in Nat
    PROVE  /\ n * (2 * m + 3) \in Nat
           /\ n * (2 * m + 3) >= 2 * m + 3
           /\ (n - 1) * (2 * m + 3) = n * (2 * m + 3) - (2 * m + 3)
<1> DEFINE c == 2 * m + 3
<1>1. c \in Nat
  OBVIOUS
<1> HIDE DEF c
<1>2. n * c \in Nat /\ n * c >= c /\ (n - 1) * c = n * c - c
  BY <1>1, SMT
<1> QED BY <1>2 DEF c

\* While a run crawls, it has a page to come.
LEMMA PageStepsFacts ==
    ASSUME TypeOK, NEW r \in Runs, PageInv(r), run[r].pc \in {"idle", "fetch", "parse"}
    PROVE  /\ PageSteps(r) \in Nat
           /\ PageSteps(r) >= 2 * MaxPerPage + 3
           /\ run'[r].page = run[r].page => PageSteps(r)' = PageSteps(r)
           /\ run'[r].page = run[r].page + 1 =>
                  PageSteps(r)' = PageSteps(r) - (2 * MaxPerPage + 3)
<1> DEFINE n == PagesOf[SiteOf[r]] + 1 - run[r].page
<1>1. n \in Nat /\ n >= 1 /\ MaxPerPage \in Nat
  BY BoundType DEF PageInv, BoundFacts
<1>2. PageSteps(r) = n * (2 * MaxPerPage + 3)
  BY DEF PageSteps
<1>3. PageSteps(r)' = (PagesOf[SiteOf[r]] + 1 - run'[r].page) * (2 * MaxPerPage + 3)
  BY DEF PageSteps
<1>4. run'[r].page = run[r].page + 1 => PagesOf[SiteOf[r]] + 1 - run'[r].page = n - 1
  BY BoundType DEF BoundFacts
<1>5. run'[r].page = run[r].page => PagesOf[SiteOf[r]] + 1 - run'[r].page = n
  OBVIOUS
<1> HIDE DEF n
<1>6. /\ n * (2 * MaxPerPage + 3) \in Nat
      /\ n * (2 * MaxPerPage + 3) >= 2 * MaxPerPage + 3
      /\ (n - 1) * (2 * MaxPerPage + 3)
            = n * (2 * MaxPerPage + 3) - (2 * MaxPerPage + 3)
  BY <1>1, TimesFacts
<1> QED BY <1>2, <1>3, <1>4, <1>5, <1>6

\* A put takes two steps, and goes on to its next phase with the second.
Turn(r, next) ==
    /\ run'[r].page = run[r].page
    /\ run'[r].records = run[r].records
    /\ \/ ~run[r].open /\ run'[r].open = TRUE /\ run'[r].pc = run[r].pc
       \/ run[r].open /\ run'[r].open = FALSE /\ run'[r].pc = next

LEMMA PutTurn ==
    ASSUME TypeOK, NEW r \in Runs, NEW k, NEW rows, NEW next, Put(r, k, rows, next)
    PROVE  Turn(r, next)
<1>0. run[r] \in RunState /\ run \in [Runs -> RunState]
  BY DEF TypeOK
<1>1. CASE ~run[r].open /\ run' = [run EXCEPT ![r].open = TRUE]
  BY <1>0, <1>1 DEF RunState, Turn
<1>2. CASE run[r].open /\ run' = [run EXCEPT ![r].open = FALSE, ![r].pc = next]
  BY <1>0, <1>2 DEF RunState, Turn
<1> QED BY <1>1, <1>2 DEF Put

\* The bound, as a function of what it depends on.
Remaining(phase, pages, records, opened) ==
    IF phase \in Ended THEN 0
    ELSE (IF phase \in {"idle", "fetch", "parse"} THEN pages ELSE 0)
         + 2 * records + StepsFrom[phase] - (IF opened THEN 1 ELSE 0)

LEMMA StepsLeftIs ==
    ASSUME NEW r
    PROVE  /\ StepsLeft(r) = Remaining(run[r].pc, PageSteps(r), Len(run[r].records), run[r].open)
           /\ StepsLeft(r)' = Remaining(run'[r].pc, PageSteps(r)', Len(run'[r].records), run'[r].open)
BY DEF StepsLeft, Remaining

\* The two steps of a put in a phase after the dedupe, and those of the crawl.
PutPhases == {"staging", "curated", "quarantine", "report", "latest"}

LEMMA PutFalls ==
    ASSUME NEW phase \in PutPhases, NEW next \in PutPhases \cup {"manifest"},
           StepsFrom[next] < StepsFrom[phase],
           NEW pages, NEW others, NEW n \in Nat
    PROVE  /\ Remaining(phase, others, n, TRUE) \in Nat
           /\ Remaining(phase, others, n, TRUE) < Remaining(phase, pages, n, FALSE)
           /\ Remaining(next, others, n, FALSE) \in Nat
           /\ Remaining(next, others, n, FALSE) < Remaining(phase, pages, n, TRUE)
BY DEF Remaining, StepsFrom, PutPhases, Ended

LEMMA CrawlFalls ==
    ASSUME NEW pages \in Nat, NEW n \in Nat
    PROVE  /\ Remaining("fetch", pages, n, FALSE) \in Nat
           /\ Remaining("fetch", pages, n, FALSE) < Remaining("idle", pages, n, FALSE)
           /\ Remaining("fetch", pages, n, TRUE) \in Nat
           /\ Remaining("fetch", pages, n, TRUE) < Remaining("fetch", pages, n, FALSE)
           /\ Remaining("parse", pages, n, FALSE) \in Nat
           /\ Remaining("parse", pages, n, FALSE) < Remaining("fetch", pages, n, TRUE)
BY DEF Remaining, StepsFrom, Ended

LEMMA ParseFalls ==
    ASSUME NEW pages \in Nat, NEW fewer \in Int, NEW m \in Nat, NEW n \in Nat, NEW f \in Nat,
           pages >= 2 * m + 3, fewer = pages - (2 * m + 3), f <= m,
           NEW next \in {"fetch", "dedupe"}
    PROVE  /\ Remaining(next, fewer, n + f, FALSE) \in Nat
           /\ Remaining(next, fewer, n + f, FALSE) < Remaining("parse", pages, n, FALSE)
BY DEF Remaining, StepsFrom, Ended

LEMMA DedupeFalls ==
    ASSUME NEW pages, NEW others, NEW n \in Nat
    PROVE  /\ Remaining("dedupe", others, n, FALSE) \in Nat
           /\ Remaining("dedupe", others, n, FALSE) < Remaining("dedupe", pages, n + 1, FALSE)
           /\ Remaining("dedupe", others, n, FALSE) < Remaining("mark", pages, n + 1, FALSE)
           /\ Remaining("mark", others, n, FALSE) \in Nat
           /\ Remaining("mark", others, n, FALSE) < Remaining("dedupe", pages, n, FALSE)
           /\ Remaining("staging", others, n, FALSE) \in Nat
           /\ Remaining("staging", others, n, FALSE) < Remaining("dedupe", pages, n, FALSE)
BY DEF Remaining, StepsFrom, Ended

LEMMA EndFalls ==
    ASSUME NEW phase \in Phases \ Ended, NEW pages, NEW n \in Nat, NEW opened \in BOOLEAN,
           phase \in {"idle", "fetch", "parse"} => pages \in Nat,
           opened => phase # "manifest"
    PROVE  0 < Remaining(phase, pages, n, opened)
BY DEF Remaining, StepsFrom, Phases, Ended

LEMMA StartNears ==
    ASSUME TypeOK, NEW r \in Runs, OpenInv(r), PageInv(r), Start(r)
    PROVE  Nears(r)
<1>1. /\ run[r].pc = "idle" /\ run'[r].pc = "fetch"
      /\ run'[r].page = run[r].page /\ run'[r].records = run[r].records
      /\ run'[r].open = run[r].open
  BY BoundType DEF Start, RunState
<1>2. run[r].open = FALSE /\ Len(run[r].records) \in Nat
  BY <1>1, BoundType DEF OpenInv, BoundFacts
<1>3. PageSteps(r) \in Nat /\ PageSteps(r)' = PageSteps(r)
  BY <1>1, PageStepsFacts
<1>4. PageInv(r)'
  BY <1>1 DEF PageInv
<1>5. StepsLeft(r) = Remaining("idle", PageSteps(r), Len(run[r].records), FALSE)
  BY <1>1, <1>2, StepsLeftIs
<1>6. StepsLeft(r)' = Remaining("fetch", PageSteps(r), Len(run[r].records), FALSE)
  BY <1>1, <1>2, <1>3, StepsLeftIs
<1> QED BY <1>2, <1>3, <1>4, <1>5, <1>6, CrawlFalls DEF Nears

LEMMA PersistRawNears ==
    ASSUME TypeOK, NEW r \in Runs, PageInv(r), PersistRaw(r)
    PROVE  Nears(r)
<1>1. run[r].pc = "fetch" /\ Put(r, RawKey(r, run[r].page), <<>>, "parse")
  BY DEF PersistRaw
<1>2. Turn(r, "parse")
  BY <1>1, PutTurn
<1>3. PageSteps(r) \in Nat /\ PageSteps(r)' = PageSteps(r)
  BY <1>1, <1>2, PageStepsFacts DEF Turn
<1>4. PageInv(r)'
  BY <1>1, <1>2 DEF PageInv, Turn
<1>5. Len(run[r].records) \in Nat /\ run[r].open \in BOOLEAN
  BY BoundType DEF BoundFacts
<1> QED BY <1>1, <1>2, <1>3, <1>4, <1>5, StepsLeftIs, CrawlFalls DEF Nears, Turn

LEMMA ParseNears ==
    ASSUME TypeOK, NEW r \in Runs, OpenInv(r), PageInv(r), Parse(r)
    PROVE  Nears(r)
<1>0. run \in [Runs -> RunState] /\ run[r] \in RunState
  BY DEF TypeOK
<1>1. PICK found \in PageRecords,
           rejects \in SUBSET {[run |-> r, page |-> run[r].page]} :
           run' = [run EXCEPT
                     ![r].records = @ \o found,
                     ![r].crawled = @ \cup {found[i] : i \in DOMAIN found},
                     ![r].rejected = @ \cup rejects,
                     ![r].page = @ + 1,
                     ![r].pc = IF run[r].page < PagesOf[SiteOf[r]]
                               THEN "fetch" ELSE "dedupe"]
  BY DEF Parse
<1>2. run'[r] = [run[r] EXCEPT
                   !.records = @ \o found,
                   !.crawled = @ \cup {found[i] : i \in DOMAIN found},
                   !.rejected = @ \cup rejects,
                   !.page = @ + 1,
                   !.pc = IF run[r].page < PagesOf[SiteOf[r]]
                          THEN "fetch" ELSE "dedupe"]
  BY <1>0, <1>1
<1>3. /\ run'[r].records = run[r].records \o found
      /\ run'[r].page = run[r].page + 1
      /\ run'[r].open = run[r].open
      /\ run'[r].pc = IF run[r].page < PagesOf[SiteOf[r]] THEN "fetch" ELSE "dedupe"
  BY <1>0, <1>2 DEF RunState
<1>4. run[r].pc = "parse" /\ run[r].open = FALSE
  BY BoundType DEF Parse, OpenInv, BoundFacts
<1>5. /\ MaxPerPage \in Nat /\ Len(run[r].records) \in Nat /\ run[r].page \in Nat
      /\ PagesOf[SiteOf[r]] \in Nat /\ run[r].records \in Seq(Hashes)
  BY BoundType DEF BoundFacts
<1>6. Len(found) \in Nat /\ Len(found) <= MaxPerPage
  <2>1. PICK n \in 0..MaxPerPage : found \in [1..n -> Hashes]
    BY DEF PageRecords
  <2>2. found \in Seq(Hashes) /\ DOMAIN found = 1..n
    BY <2>1, FoundType
  <2>3. Len(found) = n
    BY <1>5, <2>1, <2>2, LenProperties
  <2> QED BY <1>5, <2>1, <2>3
<1>7. Len(run'[r].records) = Len(run[r].records) + Len(found)
  BY <1>3, <1>5, FoundType, ConcatProperties
<1>8. /\ PageSteps(r) \in Nat /\ PageSteps(r) >= 2 * MaxPerPage + 3
      /\ PageSteps(r)' = PageSteps(r) - (2 * MaxPerPage + 3)
  BY <1>3, <1>4, PageStepsFacts
<1>9. PageInv(r)'
  BY <1>3, <1>5 DEF PageInv
<1> DEFINE next == run'[r].pc
           pages == PageSteps(r)
           fewer == PageSteps(r)'
           n == Len(run[r].records)
           f == Len(found)
<1>10. next \in {"fetch", "dedupe"}
  BY <1>3
<1>11. /\ StepsLeft(r) = Remaining("parse", pages, n, FALSE)
       /\ StepsLeft(r)' = Remaining(next, fewer, n + f, FALSE)
  BY <1>3, <1>4, <1>7, StepsLeftIs
<1>12. /\ pages \in Nat /\ n \in Nat /\ f \in Nat /\ f <= MaxPerPage /\ MaxPerPage \in Nat
       /\ pages >= 2 * MaxPerPage + 3 /\ fewer = pages - (2 * MaxPerPage + 3)
  BY <1>5, <1>6, <1>8
<1> HIDE DEF next, pages, fewer, n, f
<1>13. fewer \in Int
  BY <1>12
<1>14. /\ Remaining(next, fewer, n + f, FALSE) \in Nat
       /\ Remaining(next, fewer, n + f, FALSE) < Remaining("parse", pages, n, FALSE)
  BY <1>10, <1>12, <1>13, ParseFalls
<1> QED BY <1>9, <1>11, <1>14 DEF Nears

LEMMA DedupeNears ==
    ASSUME TypeOK, NEW r \in Runs, OpenInv(r), DropSeen(r) \/ FindUnseen(r) \/ MarkSeen(r)
    PROVE  Nears(r)
<1>1. /\ run[r].open = FALSE /\ run'[r].open = FALSE
      /\ \/ /\ run[r].pc \in {"dedupe", "mark"} /\ run'[r].pc = "dedupe"
            /\ run'[r].records = Tail(run[r].records)
         \/ /\ run[r].pc = "dedupe" /\ run'[r].pc = "mark"
            /\ run'[r].records = run[r].records
  <2>1. run \in [Runs -> RunState] /\ run[r] \in RunState /\ run[r].open = FALSE
    BY BoundType DEF DropSeen, FindUnseen, MarkSeen, OpenInv, BoundFacts
  <2>2. CASE DropSeen(r)
    BY <2>1, <2>2 DEF DropSeen, RunState
  <2>3. CASE FindUnseen(r)
    BY <2>1, <2>3 DEF FindUnseen, RunState
  <2>4. CASE MarkSeen(r)
    BY <2>1, <2>4 DEF MarkSeen, RunState
  <2> QED BY <2>2, <2>3, <2>4
<1>2. Len(run[r].records) \in Nat /\ run[r].records \in Seq(Hashes)
  BY BoundType DEF BoundFacts
<1>3. run[r].records # <<>>
  BY DEF DropSeen, FindUnseen, MarkSeen, OpenInv
<1>4. /\ Len(Tail(run[r].records)) \in Nat
      /\ Len(run[r].records) = Len(Tail(run[r].records)) + 1
  BY <1>2, <1>3, EmptySeq, HeadTailProperties
<1>5. PageInv(r)'
  BY <1>1 DEF PageInv
<1>6. CASE /\ run[r].pc \in {"dedupe", "mark"} /\ run'[r].pc = "dedupe"
           /\ run'[r].records = Tail(run[r].records)
  BY <1>1, <1>4, <1>5, <1>6, StepsLeftIs, DedupeFalls DEF Nears
<1>7. CASE /\ run[r].pc = "dedupe" /\ run'[r].pc = "mark"
           /\ run'[r].records = run[r].records
  BY <1>1, <1>2, <1>5, <1>7, StepsLeftIs, DedupeFalls DEF Nears
<1> QED BY <1>1, <1>6, <1>7

LEMMA PutNears ==
    ASSUME TypeOK, NEW r \in Runs, NEW k, NEW rows, NEW next,
           run[r].pc \in PutPhases,
           next \in PutPhases \cup {"manifest"},
           StepsFrom[next] < StepsFrom[run[r].pc],
           Put(r, k, rows, next)
    PROVE  Nears(r)
<1>1. Turn(r, next)
  BY PutTurn
<1>2. Len(run[r].records) \in Nat /\ run[r].open \in BOOLEAN
  BY BoundType DEF BoundFacts
<1>3. PageInv(r)'
  BY <1>1 DEF PageInv, PutPhases, Turn
<1> DEFINE phase == run[r].pc
           pages == PageSteps(r)
           others == PageSteps(r)'
           n == Len(run[r].records)
<1>4. \/ /\ StepsLeft(r) = Remaining(phase, pages, n, FALSE)
         /\ StepsLeft(r)' = Remaining(phase, others, n, TRUE)
      \/ /\ StepsLeft(r) = Remaining(phase, pages, n, TRUE)
         /\ StepsLeft(r)' = Remaining(next, others, n, FALSE)
  BY <1>1, <1>2, StepsLeftIs DEF Turn
<1>5. n \in Nat /\ phase \in PutPhases /\ StepsFrom[next] < StepsFrom[phase]
  BY <1>2
<1> HIDE DEF phase, pages, others, n
<1>6. /\ Remaining(phase, others, n, TRUE) \in Nat
      /\ Remaining(phase, others, n, TRUE) < Remaining(phase, pages, n, FALSE)
      /\ Remaining(next, others, n, FALSE) \in Nat
      /\ Remaining(next, others, n, FALSE) < Remaining(phase, pages, n, TRUE)
  BY <1>5, PutFalls
<1> QED BY <1>3, <1>4, <1>6 DEF Nears

LEMMA StepNears ==
    ASSUME TypeOK, NEW r \in Runs, OpenInv(r), PageInv(r), Start(r) \/ Step(r) \/ Abort(r)
    PROVE  Nears(r)
<1>0. Len(run[r].records) \in Nat /\ run[r].open \in BOOLEAN
  BY BoundType DEF BoundFacts
<1>1. CASE Evaluate(r)
  <2>1. /\ run[r].pc = "dedupe" /\ run'[r].pc = "staging"
        /\ run'[r].records = run[r].records
        /\ run[r].open = FALSE /\ run'[r].open = FALSE
    BY <1>0, <1>1, EvaluatePhase DEF Evaluate, OpenInv
  <2>2. PageInv(r)'
    BY <2>1 DEF PageInv
  <2> QED BY <1>0, <2>1, <2>2, StepsLeftIs, DedupeFalls DEF Nears
<1>2. CASE PersistStaging(r)
  <2>1. /\ AfterStaging(r) \in PutPhases /\ "staging" \in PutPhases
        /\ StepsFrom[AfterStaging(r)] < StepsFrom["staging"]
    BY DEF AfterStaging, AfterCurated, PutPhases, StepsFrom
  <2> QED BY <1>2, <2>1, PutNears DEF PersistStaging
<1>3. CASE PersistCurated(r)
  <2>1. /\ AfterCurated(r) \in PutPhases /\ "curated" \in PutPhases
        /\ StepsFrom[AfterCurated(r)] < StepsFrom["curated"]
    BY DEF AfterCurated, PutPhases, StepsFrom
  <2> QED BY <1>3, <2>1, PutNears DEF PersistCurated
<1>4. StepsFrom["report"] < StepsFrom["quarantine"] /\ StepsFrom["latest"] < StepsFrom["report"]
      /\ StepsFrom["manifest"] < StepsFrom["latest"]
      /\ {"report", "quarantine", "latest"} \subseteq PutPhases
  BY DEF PutPhases, StepsFrom
<1>5. CASE PersistQuarantine(r)
  BY <1>4, <1>5, PutNears DEF PersistQuarantine
<1>6. CASE PersistReport(r)
  BY <1>4, <1>6, PutNears DEF PersistReport
<1>7. CASE SaveRun(r) \/ Abort(r)
  <2>1. /\ run[r].pc \in Phases \ Ended /\ run'[r].pc \in Ended
        /\ run[r].open => run[r].pc # "manifest"
    BY <1>7, BoundType DEF SaveRun, Abort, RunState, OpenInv, Phases, Ended
  <2>2. run[r].pc \in {"idle", "fetch", "parse"} => PageSteps(r) \in Nat
    BY PageStepsFacts
  <2>3. PageInv(r)'
    BY <2>1 DEF PageInv, Ended
  <2>4. StepsLeft(r)' = 0 /\ 0 < StepsLeft(r)
    <3> DEFINE phase == run[r].pc
               pages == PageSteps(r)
               n == Len(run[r].records)
               opened == run[r].open
    <3>1. StepsLeft(r) = Remaining(phase, pages, n, opened) /\ StepsLeft(r)' = 0
      BY <2>1, StepsLeftIs DEF Remaining
    <3>2. /\ phase \in Phases \ Ended /\ n \in Nat /\ opened \in BOOLEAN
          /\ phase \in {"idle", "fetch", "parse"} => pages \in Nat
          /\ opened => phase # "manifest"
      BY <1>0, <2>1, <2>2
    <3> HIDE DEF phase, pages, n, opened
    <3>3. 0 < Remaining(phase, pages, n, opened)
      BY <3>2, EndFalls
    <3> QED BY <3>1, <3>3
  <2> QED BY <2>3, <2>4 DEF Nears
<1> QED BY <1>1, <1>2, <1>3, <1>5, <1>6, <1>7, StartNears, PersistRawNears,
           ParseNears, DedupeNears DEF Step

LEMMA NextNears ==
    IInv /\ (\A r \in Runs : PageInv(r)) /\ [Next]_vars
        => /\ (\A r \in Runs : PageInv(r))'
           /\ [\A r \in Runs : run'[r] # run[r] =>
                  StepsLeft(r)' \in Nat /\ StepsLeft(r)' < StepsLeft(r)]_vars
<1> SUFFICES ASSUME IInv, \A r \in Runs : PageInv(r), [Next]_vars, NEW r \in Runs
             PROVE  /\ PageInv(r)'
                    /\ run'[r] # run[r] =>
                           StepsLeft(r)' \in Nat /\ StepsLeft(r)' < StepsLeft(r)
  OBVIOUS
<1>0. TypeOK /\ \A s \in Runs : OpenInv(s)
  BY DEF IInv, TypeInv, RunInv
<1>1. CASE Start(r) \/ Step(r) \/ Abort(r)
  BY <1>0, <1>1, StepNears DEF Nears
<1>2. CASE run'[r] = run[r]
  BY <1>2 DEF PageInv
<1>3. CASE \E q \in Runs \ {r} : Start(q) \/ Step(q) \/ Abort(q)
  BY <1>0, <1>2, <1>3, StepFrame
<1>4. CASE UNCHANGED run
  BY <1>2, <1>4
<1> QED BY <1>1, <1>3, <1>4 DEF Next, NewDay, vars

-----------------------------------------------------------------------------
(* The theorems. *)

\* Every variable keeps its type, in particular the dedupe table and the
\* manifests, whatever runs overlap, fail or wait for another day.
THEOREM TypeCorrect == Spec => []TypeOK
BY Invariance, PTL DEF IInv, TypeInv

\* The gate of run_site cannot be got around: a file in the curated zone, even
\* one half written by a run that failed there, belongs to a batch that is not
\* empty, did not fail, and is whole in the staging zone.
THEOREM CuratedIsGated == Spec => []CuratedWasGated
<1>1. IInv => CuratedWasGated
  BY DEF IInv, RunInv, CuratedInv, CuratedWasGated
<1> QED BY <1>1, Invariance, PTL

\* A manifest in the runs table proves its run complete: pages, staging part,
\* report, and curated part exactly when the gate did not fail.
THEOREM ManifestCommits == Spec => []ManifestIsCommitRecord
<1>1. IInv => ManifestIsCommitRecord
  <2> SUFFICES ASSUME IInv, NEW m \in manifests
               PROVE  LET r == m.run_id IN
                        /\ run[r].pc = "done"
                        /\ m.site_count = Len(run[r].deduped)
                        /\ \A p \in 1..PagesOf[SiteOf[r]] : IsWhole(RawKey(r, p))
                        /\ Holds(StagingKey(r), r, run[r].deduped)
                        /\ Holds(ReportKey(r), r, run[r].gate)
                        /\ IF run[r].gate = "fail"
                           THEN ~Exists(CuratedKey(r))
                           ELSE Holds(CuratedKey(r), r, run[r].deduped)
    BY DEF ManifestIsCommitRecord
  <2> DEFINE r == m.run_id
  <2>1. r \in Runs /\ run[r].pc = "done" /\ m.site_count = Len(run[r].deduped)
    BY DEF IInv, ManifestInv
  <2>2. RunInv(r) /\ run[r].page \in Nat
    BY <2>1 DEF IInv, TypeInv, TypeOK, RunState
  <2>3. PagesOf[SiteOf[r]] \in Nat
    BY <2>1, ConstantsAssumption DEF ConstantsAssumption
  <2>4. \A p \in 1..PagesOf[SiteOf[r]] : IsWhole(RawKey(r, p))
    BY <2>1, <2>2, <2>3 DEF RunInv, RawInv
  <2>5. Holds(StagingKey(r), r, run[r].deduped) /\ Holds(ReportKey(r), r, run[r].gate)
    BY <2>1, <2>2 DEF RunInv, StagingInv, ReportInv
  <2>6. IF run[r].gate = "fail" THEN ~Exists(CuratedKey(r))
                                ELSE Holds(CuratedKey(r), r, run[r].deduped)
    BY <2>1, <2>2 DEF RunInv, CuratedInv
  <2> QED BY <2>1, <2>4, <2>5, <2>6
<1> QED BY <1>1, Invariance, PTL

\* Whoever wrote last, a latest report that can be read is the report of one
\* run, and never announces a pass without the curated part it is about.
THEOREM LatestIsTraceable == Spec => []LatestReportTraceable
<1>1. IInv => LatestReportTraceable
  BY FileFacts DEF IInv, LatestInv, LatestReportTraceable, Holds, Exists
<1> QED BY <1>1, Invariance, PTL

\* A part written under a run's own key is never opened again.
THEOREM PublishedStays == Spec => PublishedIsImmutable
<1>1. ASSUME IInv, [Next]_vars, NEW r \in Runs,
             NEW k \in {StagingKey(r), CuratedKey(r), ReportKey(r)}, IsWhole(k)
      PROVE  Same(k)
  <2>0. TypeOK /\ RunInv(r)
    BY <1>1 DEF IInv, TypeInv
  <2>1. CASE UNCHANGED objects
    BY <2>1, QuietSame
  <2>2. CASE \E q \in Runs \ {r} : Start(q) \/ Step(q) \/ Abort(q)
    BY <1>1, <2>0, <2>2, StepFrame DEF OwnKey
  <2>3. CASE PersistStaging(r)
    <3>1. k # StagingKey(r)
      BY <1>1, <2>0, <2>3, FileFacts
         DEF PersistStaging, RunInv, StagingInv, Begun, IsWhole, Exists
    <3> QED BY <1>1, <2>3, <3>1, PutSame DEF PersistStaging
  <2>4. CASE PersistCurated(r)
    <3>1. k # CuratedKey(r)
      BY <1>1, <2>0, <2>4, FileFacts
         DEF PersistCurated, RunInv, CuratedInv, Begun, IsWhole, Exists
    <3> QED BY <1>1, <2>4, <3>1, PutSame DEF PersistCurated
  <2>5. CASE PersistReport(r) /\ run[r].pc = "report"
    <3>1. k # ReportKey(r)
      BY <1>1, <2>0, <2>5, FileFacts
         DEF RunInv, ReportInv, Begun, IsWhole, Exists
    <3> QED BY <1>1, <2>5, <3>1, PutSame DEF PersistReport
  <2>6. CASE PersistReport(r) /\ run[r].pc = "latest"
    <3>1. LatestReportKey[1] = "latest"
      BY SharedKeyFacts
    <3>2. k # LatestReportKey
      BY <1>1, <3>1, KeyFacts
    <3> QED BY <2>6, <3>2, PutSame DEF PersistReport
  <2>7. CASE PersistQuarantine(r)
    <3>1. QuarantineKey(r)[1] = "quarantine"
      BY SharedKeyFacts
    <3>2. k # QuarantineKey(r)
      BY <1>1, <3>1, KeyFacts
    <3> QED BY <2>7, <3>2, PutSame DEF PersistQuarantine
  <2>8. CASE PersistRaw(r)
    <3>1. RawKey(r, run[r].page)[1] = "raw"
      BY RawKeyFacts
    <3>2. k # RawKey(r, run[r].page)
      BY <1>1, <3>1, KeyFacts
    <3> QED BY <2>8, <3>2, PutSame DEF PersistRaw
  <2>9. CASE PersistReport(r)
    BY <2>5, <2>6, <2>9 DEF PersistReport
  <2>10. CASE UNCHANGED vars \/ NewDay \/ Start(r) \/ Abort(r)
    BY <2>1, <2>10 DEF vars, NewDay, Start, Abort
  <2>11. CASE Parse(r) \/ DropSeen(r) \/ FindUnseen(r) \/ MarkSeen(r)
    BY <2>1, <2>11 DEF Parse, DropSeen, FindUnseen, MarkSeen
  <2>12. CASE Evaluate(r) \/ SaveRun(r)
    BY <2>1, <2>12 DEF Evaluate, SaveRun
  <2>13. CASE Step(r)
    BY <2>3, <2>4, <2>7, <2>8, <2>9, <2>11, <2>12, <2>13 DEF Step
  <2> QED BY <1>1, <2>2, <2>10, <2>13 DEF Next
<1>2. IInv /\ [Next]_vars =>
        [\A r \in Runs :
            \A k \in {StagingKey(r), CuratedKey(r), ReportKey(r)} :
                IsWhole(k) => Exists(k)' /\ objects'[k] = objects[k]]_vars
  <2> SUFFICES ASSUME IInv, [Next]_vars, NEW r \in Runs,
                      NEW k \in {StagingKey(r), CuratedKey(r), ReportKey(r)},
                      IsWhole(k)
               PROVE  Exists(k)' /\ objects'[k] = objects[k]
    OBVIOUS
  <2>1. Same(k)
    BY <1>1
  <2> QED BY <2>1 DEF Same, IsWhole, Exists
<1> QED BY <1>2, Invariance, PTL DEF Spec, PublishedIsImmutable

\* What a run rejected is in its memory or its quarantine file, shared with
\* another run of its site and day, or gone with a run that failed before it
\* came to its report; there is no fifth case.
THEOREM RejectsAreKept == Spec => []RejectsAreAccountedFor
<1>1. Init => \A r \in Runs : QuarantineInv(r)
  BY DEF Init, QuarantineInv, PastQuarantine, AfterQuarantine, Closing
<1>2. IInv /\ (\A r \in Runs : QuarantineInv(r)) => RejectsAreAccountedFor
  <2> SUFFICES ASSUME IInv, NEW r \in Runs, QuarantineInv(r), run[r].rejected # {}
               PROVE  \/ run[r].pc \in {"fetch", "parse", "dedupe", "mark", "staging",
                                        "curated", "quarantine"}
                      \/ Holds(QuarantineKey(r), r, run[r].rejected)
                      \/ SharesQuarantine(r)
                      \/ run[r].pc = "failed" /\ ~Exists(ReportKey(r))
    BY DEF RejectsAreAccountedFor
  <2>1. run[r].pc \in Phases
    BY DEF IInv, TypeInv, TypeOK, RunState
  <2>2. run[r].pc # "idle"
    BY DEF QuarantineInv
  <2>3. CASE PastQuarantine(r)
    BY <2>3 DEF QuarantineInv
  <2>4. CASE ~PastQuarantine(r)
    BY <2>1, <2>2, <2>4 DEF PastQuarantine, AfterQuarantine, Phases, Ended, Closing
  <2> QED BY <2>3, <2>4
<1> QED BY <1>1, <1>2, NextQuarantine, Invariance, PTL DEF Spec

\* Every step of a run brings its end nearer, by a bound that nothing the other
\* runs do can raise: the safety half of EveryStartedRunEnds.
THEOREM RunsWindDown == Spec => EachStepNearsTheEnd
<1>1. Init => \A r \in Runs : PageInv(r)
  BY ConstantsAssumption DEF Init, PageInv, ConstantsAssumption
<1> QED BY <1>1, NextNears, Invariance, PTL DEF Spec, EachStepNearsTheEnd

=============================================================================
