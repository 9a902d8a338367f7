------------------------------ MODULE DqEngine ------------------------------
(***************************************************************************)
(* The quality gate (src/src/pipeline/quality/dq_engine.py): the four      *)
(* scores of a batch and the status they give it, as the batch grows one   *)
(* record at a time.                                                       *)
(*                                                                         *)
(* A record is what the engine can tell of it, and the batch the sums the  *)
(* scores are made of.  A score is a fraction; it is compared with its     *)
(* thresholds by cross-multiplication, in thousandths.  The code's floats  *)
(* give the same comparisons: completeness scores are quarters or halves,  *)
(* which add up exactly, and the quotients are correctly rounded.          *)
(***************************************************************************)
EXTENDS Integers

CONSTANTS
    Records,        \* the kinds of records that scrapers yield
    MaxBatch,       \* bound: the largest batch
    MaxRejected     \* bound: the most quarantined items

Gates == {"pass", "warn", "fail"}

\* completeness_score in quarters; whether the record passes the pandera
\* schema; whether price and currency agree; whether its content_hash is new
\* to the batch.
Record == [quarters : 0..4, valid : BOOLEAN, consistent : BOOLEAN, fresh : BOOLEAN]

ASSUME RecordsAssumption == Records \subseteq Record

VARIABLES
    batch,          \* the sums over the records of the batch
    rejected,       \* the items in scraper.quarantined
    flawless        \* auxiliary: the records with no defect at all

vars == <<batch, rejected, flawless>>

Batch == [size : Nat, quarters : Nat, unique : Nat, valid : Nat, consistent : Nat]

Flawless(r) == r.quarters = 4 /\ r.valid /\ r.consistent /\ r.fresh

-----------------------------------------------------------------------------
(* The gate. *)

\* STRICT_PROFILE.
Profile ==
    [completeness |-> [warn |-> 990, fail |-> 950],
     uniqueness   |-> [warn |-> 995, fail |-> 980],
     validity     |-> [warn |-> 990, fail |-> 950],
     consistency  |-> [warn |-> 990, fail |-> 950]]

\* A slip: the score is rounded to a whole percentage first.
BelowRounded(points, total, threshold) ==
    total = 0 \/ 10 * ((100 * points + total \div 2) \div total) < threshold

\* The score points / total is below the threshold; without records it is 0.
Below(points, total, threshold) ==
    total = 0 \/ 1000 * points < threshold * total

\* _dimension_result.
Status(points, total, thresholds) ==
    IF Below(points, total, thresholds.fail) THEN "fail"
    ELSE IF Below(points, total, thresholds.warn) THEN "warn"
    ELSE "pass"

Statuses(b) ==
    {Status(b.quarters, 4 * b.size, Profile.completeness),
     Status(b.unique, b.size, Profile.uniqueness),
     Status(b.valid, b.size, Profile.validity),
     Status(b.consistent, b.size, Profile.consistency)}

\* A slip: a warning hides a failure.
WarnFirst(b) ==
    IF "warn" \in Statuses(b) THEN "warn"
    ELSE IF "fail" \in Statuses(b) THEN "fail"
    ELSE "pass"

\* _overall_status: the gate of a batch.
Gate(b) ==
    IF "fail" \in Statuses(b) THEN "fail"
    ELSE IF "warn" \in Statuses(b) THEN "warn"
    ELSE "pass"

-----------------------------------------------------------------------------
(* A batch in the making. *)

Init ==
    /\ batch = [size |-> 0, quarters |-> 0, unique |-> 0, valid |-> 0, consistent |-> 0]
    /\ rejected = 0
    /\ flawless = 0

One(p) == IF p THEN 1 ELSE 0

\* Two slips: repeated hashes are counted for unique ones; invalid records
\* are left out of the size.
WithRepeats(b, r) ==
    [size       |-> b.size + 1,
     quarters   |-> b.quarters + r.quarters,
     unique     |-> b.unique + One(~r.fresh),
     valid      |-> b.valid + One(r.valid),
     consistent |-> b.consistent + One(r.consistent)]

WithValidOnly(b, r) ==
    [size       |-> b.size + One(r.valid),
     quarters   |-> b.quarters + r.quarters,
     unique     |-> b.unique + One(r.fresh),
     valid      |-> b.valid + One(r.valid),
     consistent |-> b.consistent + One(r.consistent)]

\* What one more record adds to the scores.
With(b, r) ==
    [size       |-> b.size + 1,
     quarters   |-> b.quarters + r.quarters,
     unique     |-> b.unique + One(r.fresh),
     valid      |-> b.valid + One(r.valid),
     consistent |-> b.consistent + One(r.consistent)]

\* The batch gets one more record; its first is always new to it.
AddRecord(r) ==
    /\ batch.size < MaxBatch
    /\ batch.size = 0 => r.fresh
    /\ batch' = With(batch, r)
    /\ flawless' = flawless + One(Flawless(r))
    /\ UNCHANGED rejected

\* An item that could not be made a record.
Reject ==
    /\ rejected < MaxRejected
    /\ rejected' = rejected + 1
    /\ UNCHANGED <<batch, flawless>>

Next == Reject \/ \E r \in Records : AddRecord(r)

Spec == Init /\ [][Next]_vars

-----------------------------------------------------------------------------
(* Properties. *)

\* Types, and no count is above the size of the batch.
TypeOK ==
    /\ batch \in Batch
    /\ batch.quarters <= 4 * batch.size
    /\ batch.unique <= batch.size
    /\ batch.valid <= batch.size
    /\ batch.consistent <= batch.size
    /\ rejected \in Nat
    /\ flawless \in 0..batch.size

Worse(g, h) == \/ g = "fail" /\ h # "fail"
               \/ g = "warn" /\ h = "pass"

\* One more flawless record never makes the gate worse, whatever the batch
\* was: no rounding, no threshold turns a good record against its batch.
GoodRecordNeverHurts ==
    [][\A r \in Records :
          Flawless(r) /\ AddRecord(r) => ~Worse(Gate(batch'), Gate(batch))]_vars

\* What reaches the curated zone: the thresholds of the four dimensions
\* together leave at least 68 % of a published batch without any defect, and
\* a batch with no record is not published.
PublishedIsMostlyFlawless ==
    Gate(batch) # "fail" => batch.size > 0 /\ 100 * flawless >= 68 * batch.size

\* How far a small batch can be tolerated: one invalid or inconsistent record
\* withholds a batch of fewer than 20, one repeated hash a batch of fewer
\* than 50, and no batch of fewer than 25 passes with any defect unnoticed.
SmallBatchesAreStrict ==
    /\ batch.size < 20 /\ Gate(batch) # "fail" =>
           batch.valid = batch.size /\ batch.consistent = batch.size
    /\ batch.size < 50 /\ Gate(batch) # "fail" => batch.unique = batch.size
    /\ batch.size < 25 /\ Gate(batch) = "pass" => flawless = batch.size

\* docs/adr/0005-quarantine-over-drop.md:19: the completeness and validity
\* scores are "computed from the ratio of staged-vs-quarantined records": no
\* batch is promoted when more than 5 % of what was scraped is in quarantine.
QuarantineVolumeCounts ==
    Gate(batch) # "fail" => 95 * rejected <= 5 * batch.size

=============================================================================
