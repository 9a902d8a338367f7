------------------------------- MODULE RunSite -------------------------------
(***************************************************************************)
(* The orchestrator's run_site (src/src/pipeline/orchestrator/run.py) over *)
(* the local backend (src/src/pipeline/backends/local.py).                 *)
(*                                                                         *)
(* A run is one execution of `python -m pipeline run --site <id>`: a       *)
(* process that fetches and parses the pages of one site, drops the        *)
(* records already in the dedupe table, judges what is left, writes the    *)
(* zones of the object store and ends by saving its manifest.  Runs share  *)
(* the object store's files and the state store's tables; nothing in the   *)
(* code keeps two of them from overlapping, and any of them may stop at    *)
(* any await, by an exception nothing catches or because its process dies. *)
(*                                                                         *)
(* A record is its content_hash, stamped with the day it was marked seen:  *)
(* its other fields only matter to the quality engine, so the gate of a    *)
(* batch that is not empty is a choice here.  A rejected item is the page  *)
(* it was found on.                                                        *)
(***************************************************************************)
EXTENDS Naturals, Sequences, FiniteSets

CONSTANTS
    Runs,           \* one member per call of run_site; stands for its run_id
    Sites,          \* the site ids registered in sites.yaml
    SiteOf,         \* SiteOf[r]: the site that run r is started for
    PagesOf,        \* PagesOf[s]: how many targets discover() yields for s
    Hashes,         \* content hashes
    MaxPerPage,     \* bound: the most records parsed from one page
    TtlDays,        \* _DEDUPE_TTL_DAYS, 90 in the code
    LastDay         \* bound: the last day of the calendar that is explored

ASSUME ConstantsAssumption ==
    /\ SiteOf \in [Runs -> Sites]
    /\ PagesOf \in [Sites -> Nat \ {0}]
    /\ MaxPerPage \in Nat
    /\ TtlDays \in Nat \ {0}
    /\ LastDay \in Nat

VARIABLES
    run,            \* run[r]: the local variables of run r
    objects,        \* the object store: key -> contents of the file
    dedupe,         \* table dedupe: content_hash -> its row
    manifests,      \* table runs: the saved manifests
    today           \* the current UTC date, as a day number

vars == <<run, objects, dedupe, manifests, today>>

-----------------------------------------------------------------------------
(* Types. *)

Gates == {"pass", "warn", "fail"}

Ended == {"done", "failed"}

Phases == {"idle", "fetch", "parse", "dedupe", "mark", "staging", "curated",
           "quarantine", "report", "latest", "manifest"} \cup Ended

\* A record that passed the dedupe, with the day it was marked seen.
Marked == [hash : Hashes, day : Nat]

\* A rejected item, by the run and the page it was found on.
Rejects == [run : Runs, page : Nat]

RunState ==
    [pc       : Phases,
     open     : BOOLEAN,            \* between the open and the write of a put
     dt       : Nat,                \* run_date
     page     : Nat,                \* the target being fetched or parsed
     records  : Seq(Hashes),        \* parsed, not yet deduped
     deduped  : Seq(Marked),
     rejected : SUBSET Rejects,     \* scraper.quarantined
     gate     : Gates,
     crawled  : SUBSET Hashes,      \* auxiliary: what the pages held
     prior    : SUBSET Runs]        \* auxiliary: the runs that ended before

DedupeRow == [site_id : Sites, first_seen : Nat, expires_at : Nat]

Manifest == [run_id : Runs, site_count : Nat, quarantined : Nat]

-----------------------------------------------------------------------------
(* The keys of the object store. *)

RawKey(r, p) == <<"raw", r, p>>
\* A slip: one staging part per site and day, as in the quarantine zone.
StagingKeyPerDay(r) == <<"staging", SiteOf[r], run[r].dt>>
StagingKey(r) == <<"staging", r>>
CuratedKey(r) == <<"curated", r>>
\* A slip: one rejected.jsonl per day.
QuarantineKeyPerDay(r) == <<"quarantine", run[r].dt>>
QuarantineKey(r) == <<"quarantine", SiteOf[r], run[r].dt>>
ReportKey(r) == <<"report", r>>
LatestReportKey == <<"latest">>

(* What a file can hold: nothing yet, since it was opened for writing and  *)
(* truncated; the bytes of two writers; or what one run wrote.             *)
Torn == [state |-> "torn"]
Mixed == [state |-> "mixed"]
Whole(r, rows) == [state |-> "whole", by |-> r, rows |-> rows]

Exists(k) == k \in DOMAIN objects
IsWhole(k) == Exists(k) /\ objects[k].state = "whole"
Holds(k, r, rows) == Exists(k) /\ objects[k] = Whole(r, rows)

\* f with x mapped to v, whether or not x was in its domain.
Upsert(f, x, v) == [y \in DOMAIN f \cup {x} |-> IF y = x THEN v ELSE f[y]]

(***************************************************************************)
(* LocalObjectStore.put: Path.write_bytes opens the file, which truncates  *)
(* it, and then writes.  A writer that finds the file no longer empty when *)
(* it comes to write has been overtaken: another handle wrote after both   *)
(* had truncated, and unless its bytes cover all of the other's the file   *)
(* is a mixture.                                                           *)
(***************************************************************************)
Written(k, contents) ==
    IF objects[k] = Torn THEN {contents} ELSE {contents, Mixed}

Put(r, k, rows, next) ==
    \/ /\ ~run[r].open
       /\ objects' = Upsert(objects, k, Torn)
       /\ run' = [run EXCEPT ![r].open = TRUE]
    \/ /\ run[r].open
       /\ \E contents \in Written(k, Whole(r, rows)) :
              objects' = Upsert(objects, k, contents)
       /\ run' = [run EXCEPT ![r].open = FALSE, ![r].pc = next]

\* A slip: the lookup does not mind the expiry.
SeenEver(h) == h \in DOMAIN dedupe

\* SqliteStateStore.seen: recorded, and its TTL not yet expired.
Seen(h) == h \in DOMAIN dedupe /\ today < dedupe[h].expires_at

-----------------------------------------------------------------------------
(* The steps of a run. *)

Init ==
    /\ run = [r \in Runs |-> [pc |-> "idle", open |-> FALSE, dt |-> 0,
                              page |-> 1, records |-> <<>>, deduped |-> <<>>,
                              rejected |-> {}, gate |-> "fail", crawled |-> {},
                              prior |-> {}]]
    /\ objects = [k \in {} |-> Torn]
    /\ dedupe = [h \in {} |-> Torn]
    /\ manifests = {}
    /\ today = 1

\* The run's identity is made and its date fixed, once, before any work.
Start(r) ==
    /\ run[r].pc = "idle"
    /\ run' = [run EXCEPT ![r].pc = "fetch",
                          ![r].dt = today,
                          ![r].prior = {q \in Runs : run[q].pc \in Ended}]
    /\ UNCHANGED <<objects, dedupe, manifests, today>>

\* A target was fetched; its body goes to the raw zone before it is parsed.
PersistRaw(r) ==
    /\ run[r].pc = "fetch"
    /\ Put(r, RawKey(r, run[r].page), <<>>, "parse")
    /\ UNCHANGED <<dedupe, manifests, today>>

\* What one page can yield: records, and perhaps a rejected item.  A page
\* with neither makes parse raise ParsingError.
PageRecords == UNION {[1..n -> Hashes] : n \in 0..MaxPerPage}

\* A slip: the crawl stops one target short.
ParseOneShort(r) ==
    /\ run[r].pc = "parse"
    /\ \E found \in PageRecords :
          /\ found # <<>>
          /\ run' = [run EXCEPT
                       ![r].records = @ \o found,
                       ![r].page = @ + 1,
                       ![r].pc = IF run[r].page + 1 < PagesOf[SiteOf[r]]
                                 THEN "fetch" ELSE "dedupe"]
    /\ UNCHANGED <<objects, dedupe, manifests, today>>

\* A slip: a page that gave no record is fetched again.
ParseAgain(r) ==
    /\ run[r].pc = "parse"
    /\ \E found \in PageRecords, rejects \in SUBSET {[run |-> r, page |-> run[r].page]} :
          /\ found # <<>> \/ rejects # {}
          /\ run' = [run EXCEPT
                       ![r].records = @ \o found,
                       ![r].rejected = @ \cup rejects,
                       ![r].page = IF found = <<>> THEN @ ELSE @ + 1,
                       ![r].pc = IF found = <<>> \/ run[r].page < PagesOf[SiteOf[r]]
                                 THEN "fetch" ELSE "dedupe"]
    /\ UNCHANGED <<objects, dedupe, manifests, today>>

Parse(r) ==
    /\ run[r].pc = "parse"
    /\ \E found \in PageRecords, rejects \in SUBSET {[run |-> r, page |-> run[r].page]} :
          /\ found # <<>> \/ rejects # {}
          /\ run' = [run EXCEPT
                       ![r].records = @ \o found,
                       ![r].crawled = @ \cup {found[i] : i \in DOMAIN found},
                       ![r].rejected = @ \cup rejects,
                       ![r].page = @ + 1,
                       ![r].pc = IF run[r].page < PagesOf[SiteOf[r]]
                                 THEN "fetch" ELSE "dedupe"]
    /\ UNCHANGED <<objects, dedupe, manifests, today>>

\* A slip: a record that was seen is looked up again and again.
DropSeenStays(r) ==
    /\ run[r].pc = "dedupe"
    /\ run[r].records # <<>>
    /\ Seen(Head(run[r].records))
    /\ UNCHANGED vars

\* _dedupe looks at the next record: the lookup and the insert that may
\* follow are separate transactions.
DropSeen(r) ==
    /\ run[r].pc = "dedupe"
    /\ run[r].records # <<>>
    /\ Seen(Head(run[r].records))
    /\ run' = [run EXCEPT ![r].records = Tail(@)]
    /\ UNCHANGED <<objects, dedupe, manifests, today>>

FindUnseen(r) ==
    /\ run[r].pc = "dedupe"
    /\ run[r].records # <<>>
    /\ ~Seen(Head(run[r].records))
    /\ run' = [run EXCEPT ![r].pc = "mark"]
    /\ UNCHANGED <<objects, dedupe, manifests, today>>

\* A slip: ON CONFLICT DO NOTHING, so that an expired row is never renewed.
MarkSeenOnce(r) ==
    /\ run[r].pc = "mark"
    /\ LET h == Head(run[r].records) IN
          /\ dedupe' = IF h \in DOMAIN dedupe THEN dedupe
                       ELSE Upsert(dedupe, h, [site_id    |-> SiteOf[r],
                                               first_seen |-> today,
                                               expires_at |-> today + TtlDays])
          /\ run' = [run EXCEPT
                       ![r].records = Tail(@),
                       ![r].deduped = Append(@, [hash |-> h, day |-> today]),
                       ![r].pc = "dedupe"]
    /\ UNCHANGED <<objects, manifests, today>>

\* A slip: the row is written without its expiry.
MarkSeenNoExpiry(r) ==
    /\ run[r].pc = "mark"
    /\ LET h == Head(run[r].records) IN
          /\ dedupe' = Upsert(dedupe, h, [site_id    |-> SiteOf[r],
                                          first_seen |-> today])
          /\ run' = [run EXCEPT
                       ![r].records = Tail(@),
                       ![r].deduped = Append(@, [hash |-> h, day |-> today]),
                       ![r].pc = "dedupe"]
    /\ UNCHANGED <<objects, manifests, today>>

MarkSeen(r) ==
    /\ run[r].pc = "mark"
    /\ LET h == Head(run[r].records) IN
          /\ dedupe' = Upsert(dedupe, h, [site_id    |-> SiteOf[r],
                                          first_seen |-> today,
                                          expires_at |-> today + TtlDays])
          /\ run' = [run EXCEPT
                       ![r].records = Tail(@),
                       ![r].deduped = Append(@, [hash |-> h, day |-> today]),
                       ![r].pc = "dedupe"]
    /\ UNCHANGED <<objects, manifests, today>>

\* evaluate: an empty batch fails the gate, any other batch may get any gate.
Evaluate(r) ==
    /\ run[r].pc = "dedupe"
    /\ run[r].records = <<>>
    /\ \E g \in Gates :
          /\ run[r].deduped = <<>> => g = "fail"
          /\ run' = [run EXCEPT ![r].gate = g, ![r].pc = "staging"]
    /\ UNCHANGED <<objects, dedupe, manifests, today>>

\* Two slips: a run with nothing to quarantine skips its report; the curated
\* part is withheld from empty batches only.
SkipReport(r) == IF run[r].rejected # {} THEN "quarantine" ELSE "manifest"
IgnoreGate(r) == IF run[r].deduped # <<>> THEN "curated" ELSE "report"

\* Where a run goes once its staging, or its curated part, is written.
AfterCurated(r) == IF run[r].rejected # {} THEN "quarantine" ELSE "report"
\* A slip: a batch that gets a warning is not published.
PassOnly(r) == IF run[r].gate = "pass" THEN "curated" ELSE AfterCurated(r)
AfterStaging(r) == IF run[r].gate # "fail" THEN "curated" ELSE AfterCurated(r)

PersistStaging(r) ==
    /\ run[r].pc = "staging"
    /\ Put(r, StagingKey(r), run[r].deduped, AfterStaging(r))
    /\ UNCHANGED <<dedupe, manifests, today>>

PersistCurated(r) ==
    /\ run[r].pc = "curated"
    /\ Put(r, CuratedKey(r), run[r].deduped, AfterCurated(r))
    /\ UNCHANGED <<dedupe, manifests, today>>

\* The key names the site and the day, not the run.
PersistQuarantine(r) ==
    /\ run[r].pc = "quarantine"
    /\ Put(r, QuarantineKey(r), run[r].rejected, "report")
    /\ UNCHANGED <<dedupe, manifests, today>>

\* A slip: the latest report is written before the run's own.
PersistLatestFirst(r) ==
    /\ \/ /\ run[r].pc = "report"
          /\ Put(r, LatestReportKey, run[r].gate, "latest")
       \/ /\ run[r].pc = "latest"
          /\ Put(r, ReportKey(r), run[r].gate, "manifest")
    /\ UNCHANGED <<dedupe, manifests, today>>

\* The report is written twice: under the run, then as the latest report.
PersistReport(r) ==
    /\ \/ /\ run[r].pc = "report"
          /\ Put(r, ReportKey(r), run[r].gate, "latest")
       \/ /\ run[r].pc = "latest"
          /\ Put(r, LatestReportKey, run[r].gate, "manifest")
    /\ UNCHANGED <<dedupe, manifests, today>>

\* A slip: one manifest is kept per site, that of its last run.
SaveRunPerSite(r) ==
    /\ run[r].pc = "manifest"
    /\ manifests' = {m \in manifests : SiteOf[m.run_id] # SiteOf[r]}
                    \cup {[run_id      |-> r,
                           site_count  |-> Len(run[r].deduped),
                           quarantined |-> Cardinality(run[r].rejected)]}
    /\ run' = [run EXCEPT ![r].pc = "done"]
    /\ UNCHANGED <<objects, dedupe, today>>

\* save_run replaces any manifest of the same run_id; then run_site returns.
SaveRun(r) ==
    /\ run[r].pc = "manifest"
    /\ manifests' = {m \in manifests : m.run_id # r}
                    \cup {[run_id      |-> r,
                           site_count  |-> Len(run[r].deduped),
                           quarantined |-> Cardinality(run[r].rejected)]}
    /\ run' = [run EXCEPT ![r].pc = "done"]
    /\ UNCHANGED <<objects, dedupe, today>>

(***************************************************************************)
(* run_site catches nothing: a disabled or unknown site, a fetch that      *)
(* raises, a ParsingError, a failing file or database operation ends the   *)
(* run where it stands, and so does the death of its process.  What it     *)
(* had in memory is gone; its local variables are kept here as history.    *)
(***************************************************************************)
Abort(r) ==
    /\ run[r].pc \notin Ended
    /\ run' = [run EXCEPT ![r].pc = "failed"]
    /\ UNCHANGED <<objects, dedupe, manifests, today>>

NewDay ==
    /\ today < LastDay
    /\ today' = today + 1
    /\ UNCHANGED <<run, objects, dedupe, manifests>>

\* What the event loop of run r does next.
Step(r) ==
    \/ PersistRaw(r) \/ Parse(r)
    \/ DropSeen(r) \/ FindUnseen(r) \/ MarkSeen(r)
    \/ Evaluate(r)
    \/ PersistStaging(r) \/ PersistCurated(r) \/ PersistQuarantine(r)
    \/ PersistReport(r) \/ SaveRun(r)

Next ==
    \/ \E r \in Runs : Start(r) \/ Step(r) \/ Abort(r)
    \/ NewDay

Spec == Init /\ [][Next]_vars

\* Every await of run_site returns or raises, so a started run goes on: retries
\* are bounded, sqlite gives up on a locked database, and fetches time out.  The
\* last is in part an assumption: httpx's timeout is one of each read, and of
\* playwright's awaits only goto has one that the code sets.
FairSpec == Spec /\ \A r \in Runs : WF_vars(Step(r))

\* main: the exit code of the process that made the call, once it ended.
ExitCode(r) == IF run[r].pc = "done" /\ run[r].gate # "fail" THEN 0 ELSE 1

-----------------------------------------------------------------------------
(* What the readers of the store see: the registers of Publication. *)

\* The runs r whose part under key[r] is there, and what it holds.
Register(key) ==
    [r \in {q \in Runs : IsWhole(key[q])} |-> objects[key[r]].rows]

StagingKeys == [r \in Runs |-> StagingKey(r)]
CuratedKeys == [r \in Runs |-> CuratedKey(r)]
ReportKeys == [r \in Runs |-> ReportKey(r)]

\* The record counts of the saved manifests.
Counted ==
    [r \in {m.run_id : m \in manifests} |->
        (CHOOSE m \in manifests : m.run_id = r).site_count]

\* The run whose report is the latest one, if that can be read.
LatestOwner ==
    IF IsWhole(LatestReportKey) THEN {objects[LatestReportKey].by} ELSE {}

P == INSTANCE Publication WITH
        staged    <- Register(StagingKeys),
        curated   <- Register(CuratedKeys),
        reported  <- Register(ReportKeys),
        committed <- Counted,
        latest    <- LatestOwner

-----------------------------------------------------------------------------
(* Properties. *)

\* Types of the state.
TypeOK ==
    /\ run \in [Runs -> RunState]
    /\ \A k \in DOMAIN objects : objects[k].state \in {"torn", "mixed", "whole"}
    /\ DOMAIN dedupe \subseteq Hashes
    /\ dedupe \in [DOMAIN dedupe -> DedupeRow]
    /\ manifests \subseteq Manifest
    /\ today \in Nat

\* The saved manifest is the commit record of a run: when it is there, the
\* run went through to its end, every page it parsed can be read back from
\* the raw zone, its staging part holds exactly the records it counts, its
\* report is there, and its curated part exists if and only if its gate did
\* not fail (the order of the awaits in run_site).
ManifestIsCommitRecord ==
    \A m \in manifests : LET r == m.run_id IN
        /\ run[r].pc = "done"
        /\ m.site_count = Len(run[r].deduped)
        /\ \A p \in 1..PagesOf[SiteOf[r]] : IsWhole(RawKey(r, p))
        /\ Holds(StagingKey(r), r, run[r].deduped)
        /\ Holds(ReportKey(r), r, run[r].gate)
        /\ IF run[r].gate = "fail"
           THEN ~Exists(CuratedKey(r))
           ELSE Holds(CuratedKey(r), r, run[r].deduped)

\* Nothing enters the curated zone around the gate: even a half-written
\* curated part belongs to a batch that is not empty, did not fail the gate
\* and is already complete in the staging zone.
CuratedWasGated ==
    \A r \in Runs : Exists(CuratedKey(r)) =>
        /\ run[r].gate # "fail"
        /\ run[r].deduped # <<>>
        /\ Holds(StagingKey(r), r, run[r].deduped)

\* Within one run, and between a run and any run that had ended, done or
\* failed, before it started, a content_hash is let through the dedupe at
\* most once per TTL, whatever runs overlap them.
NoRepublishWithinTtl ==
    \A r, s \in Runs :
        \A i \in DOMAIN run[r].deduped, j \in DOMAIN run[s].deduped :
            /\ s \in run[r].prior \/ (s = r /\ j < i)
            /\ run[r].deduped[i].hash = run[s].deduped[j].hash
            => run[r].deduped[i].day >= run[s].deduped[j].day + TtlDays

\* The batch of r is still in its memory, or in the zone its gate sent it to.
BatchCanBeFound(r) ==
    \/ run[r].pc \in {"dedupe", "mark", "staging", "curated"}
    \/ Holds(CuratedKey(r), r, run[r].deduped)
    \/ run[r].gate = "fail" /\ Holds(StagingKey(r), r, run[r].deduped)

\* What a run found and did not let through, some run let through within the
\* TTL (this run, for a record its pages repeat); and that run has the record
\* in memory, published it, or staged it for a gate that failed.  Or else it
\* failed itself, and may have lost it: NoRecordDiscarded.  So a re-run whose
\* batch is empty drops nothing but what a run before it took on.
NothingDroppedUnseen ==
    \A r \in Runs : run[r].pc \in {"staging", "curated", "quarantine", "report",
                                  "latest", "manifest", "done"} =>
        \A h \in run[r].crawled : \E q \in Runs :
            /\ \E i \in DOMAIN run[q].deduped :
                   /\ run[q].deduped[i].hash = h
                   /\ run[r].dt < run[q].deduped[i].day + TtlDays
            /\ BatchCanBeFound(q) \/ run[q].pc = "failed"

\* A process that exits with 0 has published: its batch is in the curated
\* zone, not empty, and its manifest, which counts it, is still there.
ExitZeroMeansPublished ==
    \A r \in Runs : ExitCode(r) = 0 =>
        /\ run[r].deduped # <<>>
        /\ Holds(CuratedKey(r), r, run[r].deduped)
        /\ \E m \in manifests : m.run_id = r /\ m.site_count = Len(run[r].deduped)

\* To their readers, the zones and the manifests are write-once registers,
\* filled in the order staged, curated, reported, committed.
Publishes == P!Spec

\* A run that fails while it crawls leaves no trace in the dedupe table: a
\* row comes from a run of its own site that has every page of that site in
\* the raw zone, so a record of an abandoned crawl is found again next time.
MarkedOnlyAfterWholeCrawl ==
    \A h \in DOMAIN dedupe : \E r \in Runs :
        /\ SiteOf[r] = dedupe[h].site_id
        /\ \E i \in DOMAIN run[r].deduped :
               run[r].deduped[i] = [hash |-> h, day |-> dedupe[h].first_seen]
        /\ \A p \in 1..PagesOf[SiteOf[r]] : IsWhole(RawKey(r, p))

\* A hash is marked before its batch is judged and before any part of it is
\* written.  Still a row stands for a record that can be found: the run that
\* marked it has it in memory, or published it, or staged it for a gate that
\* failed; only a run that failed on the way can have lost it.
SeenIsAccountedFor ==
    \A h \in DOMAIN dedupe : \E r \in Runs :
        /\ SiteOf[r] = dedupe[h].site_id
        /\ \E i \in DOMAIN run[r].deduped :
               run[r].deduped[i] = [hash |-> h, day |-> dedupe[h].first_seen]
        /\ BatchCanBeFound(r) \/ run[r].pc = "failed"

\* Some other run of the same site and day has rejected something, too.
SharesQuarantine(r) ==
    \E q \in Runs \ {r} : /\ SiteOf[q] = SiteOf[r]
                         /\ run[q].dt = run[r].dt
                         /\ run[q].rejected # {}

\* What became of the items that a run has rejected: they are still in its
\* memory; or its quarantine file holds them, unless another run of the site
\* and day has rejected something, too, and writes that file; or the run failed
\* before it came to its report, and may have lost them with its memory.
RejectsAreAccountedFor ==
    \A r \in Runs : run[r].rejected # {} =>
        \/ run[r].pc \in {"fetch", "parse", "dedupe", "mark", "staging", "curated",
                         "quarantine"}
        \/ Holds(QuarantineKey(r), r, run[r].rejected)
        \/ SharesQuarantine(r)
        \/ run[r].pc = "failed" /\ ~Exists(ReportKey(r))

\* The latest report, when it can be read at all, is the report of one run,
\* and never announces a passed gate without the curated part it is about.
LatestReportTraceable ==
    IsWhole(LatestReportKey) =>
        LET r == objects[LatestReportKey].by
            gate == objects[LatestReportKey].rows
        IN  /\ Holds(ReportKey(r), r, gate)
            /\ gate # "fail" => Holds(CuratedKey(r), r, run[r].deduped)

\* A part written under a run's own key is never touched again: not by a
\* later run of the same site on the same day, not by the run itself.
PublishedIsImmutable ==
    [][\A r \in Runs :
          \A k \in {StagingKey(r), CuratedKey(r), ReportKey(r)} :
              IsWhole(k) => Exists(k)' /\ objects'[k] = objects[k]]_vars

\* A bound on the steps a run has left: three for each page to come and two
\* for each record, and at most twelve once the records are looked up.
PageSteps(r) == (PagesOf[SiteOf[r]] + 1 - run[r].page) * (2 * MaxPerPage + 3)

StepsFrom ==
    [idle    |-> 13, fetch   |-> 12, parse      |-> 10, dedupe |-> 12, mark   |-> 11,
     staging |-> 11, curated |-> 9,  quarantine |-> 7,  report |-> 5,  latest |-> 3,
     manifest |-> 1]

StepsLeft(r) ==
    IF run[r].pc \in Ended THEN 0
    ELSE (IF run[r].pc \in {"idle", "fetch", "parse"} THEN PageSteps(r) ELSE 0)
         + 2 * Len(run[r].records)
         + StepsFrom[run[r].pc]
         - (IF run[r].open THEN 1 ELSE 0)

\* No run goes round in circles: whatever the others do to the store and the
\* dedupe table in between, each of its steps brings its end nearer.
EachStepNearsTheEnd ==
    [][\A r \in Runs : run'[r] # run[r] =>
           StepsLeft(r)' \in Nat /\ StepsLeft(r)' < StepsLeft(r)]_vars

\* A run that started ends: no phase of run_site can wait for ever.
EveryStartedRunEnds ==
    \A r \in Runs : run[r].pc = "fetch" ~> run[r].pc \in Ended

-----------------------------------------------------------------------------
(* What the documents say and the code does not do. *)

\* core/models.py:131: a rejected record is written to rejected.jsonl,
\* "never silently dropped".  Said of a run that finished.
QuarantineNeverLost ==
    \A r \in Runs : run[r].pc = "done" /\ run[r].rejected # {} =>
        /\ IsWhole(QuarantineKey(r))
        /\ run[r].rejected \subseteq objects[QuarantineKey(r)].rows

\* docs/adr/0005-quarantine-over-drop.md:19: "No record is ever discarded
\* outright".  A record whose hash is marked seen, and so will be dropped
\* from every later run, has been staged by some run.
NoRecordDiscarded ==
    (\A r \in Runs : run[r].pc \in Ended \cup {"idle"}) =>
        \A h \in DOMAIN dedupe : \E r \in Runs :
            /\ IsWhole(StagingKey(r))
            /\ \E i \in DOMAIN objects[StagingKey(r)].rows :
                   objects[StagingKey(r)].rows[i].hash = h

=============================================================================
