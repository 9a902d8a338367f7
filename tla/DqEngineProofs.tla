--------------------------- MODULE DqEngineProofs ---------------------------
(***************************************************************************)
(* For any kinds of records and batches of any size: what the thresholds   *)
(* of the four dimensions together guarantee of a published batch, and     *)
(* that a flawless record never makes the gate worse.  The invariant the   *)
(* first needs: a record that is not flawless has cost the batch a point   *)
(* in at least one of the four dimensions.                                 *)
(*                                                                         *)
(* And for any crawl: that the scrapers' batches are batches of the engine *)
(* (SiteBatch implements DqEngine), and that the gate notices whatever is  *)
(* missing from every item.                                                *)
(***************************************************************************)
EXTENDS SiteBatch, TLAPS

Missing ==
    (4 * batch.size - batch.quarters) + (batch.size - batch.unique)
        + (batch.size - batch.valid) + (batch.size - batch.consistent)

IInv == TypeOK /\ batch.size - flawless <= Missing

-----------------------------------------------------------------------------
(* The gate, spelled out. *)

FailsSome(b) ==
    \/ b.size = 0
    \/ 1000 * b.quarters < 950 * (4 * b.size)
    \/ 1000 * b.unique < 980 * b.size
    \/ 1000 * b.valid < 950 * b.size
    \/ 1000 * b.consistent < 950 * b.size

WarnsSome(b) ==
    \/ 1000 * b.quarters < 990 * (4 * b.size)
    \/ 1000 * b.unique < 995 * b.size
    \/ 1000 * b.valid < 990 * b.size
    \/ 1000 * b.consistent < 990 * b.size

LEMMA StatusFacts ==
    ASSUME NEW points, NEW total, NEW thresholds
    PROVE  LET s == Status(points, total, thresholds)
           IN  /\ s \in Gates
               /\ s = "fail" <=> Below(points, total, thresholds.fail)
               /\ s = "pass" <=> /\ ~Below(points, total, thresholds.fail)
                                 /\ ~Below(points, total, thresholds.warn)
BY DEF Status, Gates

LEMMA GateFacts ==
    ASSUME NEW b \in Batch
    PROVE  /\ Gate(b) \in Gates
           /\ Gate(b) = "fail" <=> FailsSome(b)
           /\ Gate(b) = "pass" <=> ~FailsSome(b) /\ ~WarnsSome(b)
<1>. DEFINE s1 == Status(b.quarters, 4 * b.size, Profile.completeness)
            s2 == Status(b.unique, b.size, Profile.uniqueness)
            s3 == Status(b.valid, b.size, Profile.validity)
            s4 == Status(b.consistent, b.size, Profile.consistency)
<1>1. /\ Profile.completeness.fail = 950 /\ Profile.completeness.warn = 990
      /\ Profile.uniqueness.fail = 980   /\ Profile.uniqueness.warn = 995
      /\ Profile.validity.fail = 950     /\ Profile.validity.warn = 990
      /\ Profile.consistency.fail = 950  /\ Profile.consistency.warn = 990
  BY DEF Profile
<1>2. /\ b.size \in Nat /\ b.quarters \in Nat /\ b.unique \in Nat
      /\ b.valid \in Nat /\ b.consistent \in Nat
      /\ 4 * b.size = 0 <=> b.size = 0
  BY DEF Batch
<1>3. /\ s1 = "fail" <=> (b.size = 0 \/ 1000 * b.quarters < 950 * (4 * b.size))
      /\ s1 = "pass" <=> ~(b.size = 0 \/ 1000 * b.quarters < 950 * (4 * b.size))
                         /\ ~(b.size = 0 \/ 1000 * b.quarters < 990 * (4 * b.size))
  BY <1>1, <1>2, StatusFacts DEF Below
<1>4. /\ s2 = "fail" <=> (b.size = 0 \/ 1000 * b.unique < 980 * b.size)
      /\ s2 = "pass" <=> ~(b.size = 0 \/ 1000 * b.unique < 980 * b.size)
                         /\ ~(b.size = 0 \/ 1000 * b.unique < 995 * b.size)
  BY <1>1, StatusFacts DEF Below
<1>5. /\ s3 = "fail" <=> (b.size = 0 \/ 1000 * b.valid < 950 * b.size)
      /\ s3 = "pass" <=> ~(b.size = 0 \/ 1000 * b.valid < 950 * b.size)
                         /\ ~(b.size = 0 \/ 1000 * b.valid < 990 * b.size)
  BY <1>1, StatusFacts DEF Below
<1>6. /\ s4 = "fail" <=> (b.size = 0 \/ 1000 * b.consistent < 950 * b.size)
      /\ s4 = "pass" <=> ~(b.size = 0 \/ 1000 * b.consistent < 950 * b.size)
                         /\ ~(b.size = 0 \/ 1000 * b.consistent < 990 * b.size)
  BY <1>1, StatusFacts DEF Below
<1>7. s1 \in Gates /\ s2 \in Gates /\ s3 \in Gates /\ s4 \in Gates
  BY StatusFacts
<1>8. Statuses(b) = {s1, s2, s3, s4}
  BY DEF Statuses
<1>. HIDE DEF s1, s2, s3, s4
<1>9. /\ Gate(b) \in Gates
      /\ Gate(b) = "fail" <=> "fail" \in {s1, s2, s3, s4}
      /\ Gate(b) = "pass" <=> s1 = "pass" /\ s2 = "pass" /\ s3 = "pass" /\ s4 = "pass"
  BY <1>7, <1>8 DEF Gate, Gates
<1>10. Gate(b) = "fail" <=> FailsSome(b)
  BY <1>3, <1>4, <1>5, <1>6, <1>9 DEF FailsSome
<1>11. Gate(b) = "pass" <=> ~FailsSome(b) /\ ~WarnsSome(b)
  BY <1>3, <1>4, <1>5, <1>6, <1>9 DEF FailsSome, WarnsSome
<1>. QED  BY <1>9, <1>10, <1>11

-----------------------------------------------------------------------------
(* The invariant. *)

LEMMA InitInv == Init => IInv
BY DEF Init, IInv, TypeOK, Batch, Missing

\* A record counts for at most a point in each dimension, and for less than
\* that in some dimension unless it is flawless.
LEMMA AddRecordInv ==
    ASSUME IInv, NEW r \in Records, AddRecord(r)
    PROVE  IInv'
<1>1. /\ r.quarters \in 0..4 /\ One(r.fresh) \in 0..1 /\ One(r.valid) \in 0..1
      /\ One(r.consistent) \in 0..1 /\ One(Flawless(r)) \in 0..1
  BY RecordsAssumption DEF Record, One
<1>2. 1 - One(Flawless(r)) <= (4 - r.quarters) + (1 - One(r.fresh))
                                 + (1 - One(r.valid)) + (1 - One(r.consistent))
  <2>1. CASE Flawless(r)
    BY <1>1, <2>1 DEF One
  <2>2. CASE ~Flawless(r)
    <3>1. r.quarters <= 3 \/ One(r.fresh) = 0 \/ One(r.valid) = 0 \/ One(r.consistent) = 0
      BY <1>1, <2>2 DEF Flawless, One
    <3>. QED  BY <1>1, <2>2, <3>1 DEF One
  <2>. QED  BY <2>1, <2>2
<1>3. /\ batch'.size = batch.size + 1
      /\ batch'.quarters = batch.quarters + r.quarters
      /\ batch'.unique = batch.unique + One(r.fresh)
      /\ batch'.valid = batch.valid + One(r.valid)
      /\ batch'.consistent = batch.consistent + One(r.consistent)
      /\ flawless' = flawless + One(Flawless(r))
      /\ rejected' = rejected
  BY DEF AddRecord, With
<1>4. /\ batch.size \in Nat /\ batch.quarters \in Nat /\ batch.unique \in Nat
      /\ batch.valid \in Nat /\ batch.consistent \in Nat /\ flawless \in Nat
      /\ rejected \in Nat
  BY DEF IInv, TypeOK, Batch
<1>5. batch' \in Batch
  BY <1>1, <1>4 DEF AddRecord, With, Batch
<1>6. TypeOK'
  BY <1>1, <1>3, <1>4, <1>5 DEF IInv, TypeOK
<1>7. (batch.size - flawless <= Missing)'
  BY <1>1, <1>2, <1>3, <1>4 DEF IInv, Missing
<1>. QED  BY <1>6, <1>7 DEF IInv

LEMMA NextInv == IInv /\ [Next]_vars => IInv'
<1>. SUFFICES ASSUME IInv, [Next]_vars PROVE IInv'
  OBVIOUS
<1>1. CASE UNCHANGED vars
  BY <1>1 DEF vars, IInv, TypeOK, Missing
<1>2. CASE Reject
  BY <1>2 DEF Reject, IInv, TypeOK, Missing
<1>. QED  BY <1>1, <1>2, AddRecordInv DEF Next

LEMMA Invariant == Spec => []IInv
BY InitInv, NextInv, PTL DEF Spec

-----------------------------------------------------------------------------
(* The theorems. *)

\* The counts of a batch are never above its size.
THEOREM TypeCorrect == Spec => []TypeOK
<1>1. IInv => TypeOK
  BY DEF IInv
<1>. QED  BY <1>1, Invariant, PTL

\* A published batch has records, and 68 % of them or more have no defect:
\* at most 20 % miss a quarter, 2 % repeat a hash, and 5 % each are invalid
\* or inconsistent.
THEOREM MostlyFlawless == Spec => []PublishedIsMostlyFlawless
<1>1. IInv => PublishedIsMostlyFlawless
  <2>. SUFFICES ASSUME IInv, Gate(batch) # "fail"
                PROVE  batch.size > 0 /\ 100 * flawless >= 68 * batch.size
    BY DEF PublishedIsMostlyFlawless
  <2>1. ~FailsSome(batch)
    BY GateFacts DEF IInv, TypeOK
  <2>2. /\ batch.size \in Nat /\ batch.quarters \in Nat /\ batch.unique \in Nat
        /\ batch.valid \in Nat /\ batch.consistent \in Nat /\ flawless \in Nat
    BY DEF IInv, TypeOK, Batch
  <2>. QED  BY <2>1, <2>2 DEF FailsSome, IInv, Missing
<1>. QED  BY <1>1, Invariant, PTL

\* The sizes below which the gate tolerates nothing.
THEOREM StrictWhenSmall == Spec => []SmallBatchesAreStrict
<1>1. IInv => SmallBatchesAreStrict
  <2>. SUFFICES ASSUME IInv PROVE SmallBatchesAreStrict
    OBVIOUS
  <2>1. /\ batch.size \in Nat /\ batch.quarters \in Nat /\ batch.unique \in Nat
        /\ batch.valid \in Nat /\ batch.consistent \in Nat /\ flawless \in Nat
        /\ batch.quarters <= 4 * batch.size /\ batch.unique <= batch.size
        /\ batch.valid <= batch.size /\ batch.consistent <= batch.size
        /\ flawless <= batch.size
    BY DEF IInv, TypeOK, Batch
  <2>2. Gate(batch) # "fail" => ~FailsSome(batch)
    BY GateFacts DEF IInv, TypeOK
  <2>3. Gate(batch) = "pass" => ~WarnsSome(batch)
    BY GateFacts DEF IInv, TypeOK
  <2>4. batch.size < 20 /\ Gate(batch) # "fail" =>
            batch.valid = batch.size /\ batch.consistent = batch.size
    BY <2>1, <2>2 DEF FailsSome
  <2>5. batch.size < 50 /\ Gate(batch) # "fail" => batch.unique = batch.size
    BY <2>1, <2>2 DEF FailsSome
  <2>6. batch.size < 25 /\ Gate(batch) = "pass" => flawless = batch.size
    <3>. SUFFICES ASSUME batch.size < 25, ~WarnsSome(batch)
                  PROVE  flawless = batch.size
      BY <2>3
    <3>1. /\ batch.quarters = 4 * batch.size /\ batch.unique = batch.size
          /\ batch.valid = batch.size /\ batch.consistent = batch.size
      BY <2>1 DEF WarnsSome
    <3>2. Missing = 0
      BY <2>1, <3>1 DEF Missing
    <3>. QED  BY <2>1, <3>2 DEF IInv
  <2>. QED  BY <2>4, <2>5, <2>6 DEF SmallBatchesAreStrict
<1>. QED  BY <1>1, Invariant, PTL

\* A flawless record never makes the gate worse.
THEOREM GoodRecordHarmless == Spec => GoodRecordNeverHurts
<1>1. ASSUME IInv, IInv', NEW r \in Records, AddRecord(r), Flawless(r)
      PROVE  ~Worse(Gate(batch'), Gate(batch))
  <2>1. batch \in Batch /\ batch' \in Batch
    BY <1>1 DEF IInv, TypeOK
  <2>2. /\ batch'.size = batch.size + 1
        /\ batch'.quarters = batch.quarters + 4
        /\ batch'.unique = batch.unique + 1
        /\ batch'.valid = batch.valid + 1
        /\ batch'.consistent = batch.consistent + 1
    BY <1>1 DEF AddRecord, With, Flawless, One
  <2>3. /\ batch.size \in Nat /\ batch.quarters \in Nat /\ batch.unique \in Nat
        /\ batch.valid \in Nat /\ batch.consistent \in Nat
    BY <2>1 DEF Batch
  <2>4. ~FailsSome(batch) => ~FailsSome(batch')
    BY <2>2, <2>3 DEF FailsSome
  <2>5. ~WarnsSome(batch) => ~WarnsSome(batch')
    BY <2>2, <2>3 DEF WarnsSome
  <2>. QED  BY <2>1, <2>4, <2>5, GateFacts DEF Worse, Gates
<1>2. IInv /\ IInv' /\ [Next]_vars =>
          [\A r \in Records :
              Flawless(r) /\ AddRecord(r) => ~Worse(Gate(batch'), Gate(batch))]_vars
  BY <1>1
<1>. QED  BY <1>2, Invariant, PTL DEF Spec, GoodRecordNeverHurts

-----------------------------------------------------------------------------
(* The crawl of a site. *)

\* Every step of a crawl is a step of the engine, or does not touch it.
LEMMA CrawlStep == [CrawlNext]_crawlVars => [Next]_vars
<1>. SUFFICES ASSUME CrawlNext PROVE [Next]_vars
  BY DEF crawlVars
<1>1. CASE RaiseAtPage
  BY <1>1 DEF RaiseAtPage
<1>2. CASE Other
  BY <1>2 DEF Other
<1>3. ASSUME site \in Sites, NEW i \in Items(site), Item(i) PROVE [Next]_vars
  <2>1. CASE Yield(i)
    <3>1. RecordOf(site, i) \in Yielded(site)
      BY <1>3, <2>1 DEF Yield, Yielded
    <3>2. RecordOf(site, i) \in Records
      BY <1>3, <3>1, ScrapersAssumption
    <3>. QED  BY <2>1, <3>2 DEF Yield, Next
  <2>2. CASE Drop(i)
    BY <2>2 DEF Drop
  <2>3. CASE Quarantine(i)
    BY <2>3 DEF Quarantine, Next
  <2>4. CASE RaiseAtItem(i)
    BY <2>4 DEF RaiseAtItem
  <2>. QED  BY <1>3, <2>1, <2>2, <2>3, <2>4 DEF Item
<1>. QED  BY <1>1, <1>2, <1>3 DEF CrawlNext

\* The scrapers' batches are batches of the engine, so that what was proved
\* of those holds of these.
THEOREM CrawlImplementsEngine == CrawlSpec => Spec
<1>1. CrawlInit => Init
  BY DEF CrawlInit
<1>. QED  BY <1>1, CrawlStep, PTL DEF CrawlSpec, Spec

\* What the batch is short of when something is missing from every item.
Shortfall ==
    /\ site = "books" =>
           /\ "title" \in lacking => batch.quarters <= 3 * batch.size
           /\ "link" \in lacking => batch.size = 0
           /\ "price" \in lacking => batch.valid = 0
           /\ "availability" \in lacking => batch.quarters <= 3 * batch.size
    /\ site = "wikipedia" =>
           /\ "heading" \in lacking => batch.size = 0
           /\ "lead" \in lacking => batch.size = 0
           /\ "description" \in lacking => batch.quarters <= 2 * batch.size
    /\ site = "quotes" /\ lacking # {} => batch.size = 0

CrawlInv == TypeOK /\ lacking \subseteq Guarded(site) /\ Shortfall

LEMMA CrawlInitInv == CrawlInit => CrawlInv
<1>. SUFFICES ASSUME CrawlInit PROVE CrawlInv
  OBVIOUS
<1>1. TypeOK
  BY InitInv DEF CrawlInit, IInv
<1>2. batch.size = 0 /\ batch.quarters = 0 /\ batch.valid = 0 /\ lacking = Guarded(site)
  BY DEF CrawlInit, Init
<1>. QED  BY <1>1, <1>2 DEF CrawlInv, Shortfall

\* A step that leaves the batch alone cannot disturb the shortfall.
LEMMA ShortfallStays ==
    ASSUME Shortfall, batch' = batch, site' = site, lacking' \subseteq lacking
    PROVE  Shortfall'
BY DEF Shortfall

\* A new record is as short as the items before it.
LEMMA YieldInv ==
    ASSUME CrawlInv, site \in Sites, NEW i \in Items(site), Yield(i)
    PROVE  Shortfall'
<1>. DEFINE r == RecordOf(site, i)
<1>1. /\ batch'.size = batch.size + 1
      /\ batch'.quarters = batch.quarters + r.quarters
      /\ batch'.valid = batch.valid + One(r.valid)
  BY DEF Yield, AddRecord, With
<1>2. batch.size \in Nat /\ batch.quarters \in Nat /\ batch.valid \in Nat
  BY DEF CrawlInv, TypeOK, Batch
<1>3. site' = site /\ lacking' = lacking \cap Lacks(site, i)
  BY DEF Yield, See
<1>4. CASE site = "books"
  <2>1. i \in Listings /\ r = ListingRecord(i) /\ ~ListingRejected(i) /\ ~ListingRaises(i)
    BY <1>4 DEF Items, RecordOf, Yield, Kept, Raises, Rejected
  <2>2. i.link \in {"blank", "http"} /\ i.price \in {"zero", "positive"} /\ i.title # "absent"
    BY <2>1 DEF Listings, ListingRejected, ListingRaises
  <2>3. r.quarters = 4 - Quarter(i.title = "blank") - Quarter(i.availability = "absent")
        /\ r.valid = (i.title # "blank" /\ i.price = "positive")
    BY <2>1 DEF ListingRecord
  <2>4. Quarter(i.title = "blank") \in 0..1 /\ Quarter(i.availability = "absent") \in 0..1
    BY DEF Quarter
  <2>5. "title" \in lacking' => "title" \in lacking /\ r.quarters <= 3
    <3>. SUFFICES ASSUME "title" \in lacking' PROVE "title" \in lacking /\ r.quarters <= 3
      OBVIOUS
    <3>1. i.title # "text"
      BY <1>3 DEF Lacks
    <3>2. i.title = "blank"
      BY <2>1, <2>2, <3>1 DEF Listings, Text
    <3>. QED  BY <1>3, <2>3, <2>4, <3>2 DEF Quarter
  <2>6. "link" \notin lacking'
    BY <1>3, <2>2 DEF Lacks
  <2>7. "price" \in lacking' => "price" \in lacking /\ One(r.valid) = 0
    <3>. SUFFICES ASSUME "price" \in lacking' PROVE "price" \in lacking /\ One(r.valid) = 0
      OBVIOUS
    <3>1. i.price # "positive"
      BY <1>3 DEF Lacks
    <3>2. r.valid = FALSE
      BY <2>3, <3>1
    <3>. QED  BY <1>3, <3>2 DEF One
  <2>8. "availability" \in lacking' => "availability" \in lacking /\ r.quarters <= 3
    <3>. SUFFICES ASSUME "availability" \in lacking'
                  PROVE  "availability" \in lacking /\ r.quarters <= 3
      OBVIOUS
    <3>1. i.availability \notin {"text", "blank"}
      BY <1>3 DEF Lacks
    <3>2. i.availability = "absent"
      BY <2>1, <3>1 DEF Listings, Text
    <3>. QED  BY <1>3, <2>3, <2>4, <3>2 DEF Quarter
  <2>9. r.quarters \in Int /\ One(r.valid) \in 0..1
    BY <2>3, <2>4 DEF One
  <2>. HIDE DEF r
  <2>. QED  BY <1>1, <1>2, <1>3, <1>4, <2>5, <2>6, <2>7, <2>8, <2>9 DEF CrawlInv, Shortfall
<1>5. CASE site = "wikipedia"
  <2>1. i \in Articles /\ r = ArticleRecord(i) /\ i.heading # "absent" /\ i.lead # "absent"
    BY <1>5 DEF Items, RecordOf, Yield, Kept, Raises, Rejected, ArticleRaises, ArticleRejected
  <2>2. i.heading = "text" /\ i.lead = "text"
    BY <2>1 DEF Articles
  <2>3. "heading" \notin lacking' /\ "lead" \notin lacking'
    BY <1>3, <2>2 DEF Lacks
  <2>4. "description" \in lacking' => "description" \in lacking /\ i.description # "text"
    BY <1>3 DEF Lacks
  <2>5. r.quarters = IF i.description = "text" THEN 4 ELSE 2
    BY <2>1 DEF ArticleRecord
  <2>. HIDE DEF r
  <2>. QED  BY <1>1, <1>2, <1>3, <1>5, <2>3, <2>4, <2>5 DEF CrawlInv, Shortfall
<1>6. CASE site = "quotes"
  <2>1. i \in Quotes /\ i.text # "absent" /\ i.author # "absent"
    BY <1>6 DEF Items, Yield, Kept, Rejected, QuoteRejected
  <2>2. i.text = "text" /\ i.author = "text"
    BY <2>1 DEF Quotes
  <2>3. lacking' \subseteq {"text", "author"}
    BY <1>3, <1>6 DEF Lacks, Guarded, Fields, Unguarded
  <2>4. "text" \notin lacking' /\ "author" \notin lacking'
    BY <1>3, <2>2 DEF Lacks
  <2>5. lacking' = {}
    BY <2>3, <2>4
  <2>. QED  BY <1>3, <1>6, <2>5 DEF Shortfall
<1>. QED  BY <1>4, <1>5, <1>6 DEF Sites

LEMMA CrawlNextInv == CrawlInv /\ TypeOK' /\ [CrawlNext]_crawlVars => CrawlInv'
<1>. SUFFICES ASSUME CrawlInv, TypeOK', [CrawlNext]_crawlVars
              PROVE  (lacking \subseteq Guarded(site))' /\ Shortfall'
  BY DEF CrawlInv
<1>1. site' = site /\ lacking' \subseteq lacking
  BY DEF crawlVars, crawl, CrawlNext, Item, Yield, Drop, Quarantine, See, RaiseAtItem,
         RaiseAtPage, Other
<1>2. (lacking \subseteq Guarded(site))'
  BY <1>1 DEF CrawlInv
<1>3. CASE batch' = batch
  BY <1>1, <1>3, ShortfallStays DEF CrawlInv
<1>4. CASE batch' # batch
  <2>1. CASE site \in Sites /\ \E i \in Items(site) : Yield(i)
    BY <1>2, <2>1, YieldInv
  <2>2. CASE Other
    BY <1>1, <1>2, <2>2 DEF Other, Shortfall
  <2>. QED
    BY <1>4, <2>1, <2>2 DEF crawlVars, vars, CrawlNext, Item, Drop, Quarantine, Reject,
                            RaiseAtItem, RaiseAtPage
<1>. QED  BY <1>2, <1>3, <1>4

\* However large the batch: when something that is guarded is found in no item,
\* the run ends or its gate fails.
THEOREM ChangeIsNoticed == CrawlSpec => []SystematicChangeIsNoticed
<1>1. CrawlInv => SystematicChangeIsNoticed
  <2>. SUFFICES ASSUME CrawlInv, site \in Sites, lacking # {}
                PROVE  FailsSome(batch)
    BY GateFacts DEF SystematicChangeIsNoticed, CrawlInv, TypeOK
  <2>1. /\ batch.size \in Nat /\ batch.quarters \in Nat /\ batch.valid \in Nat
    BY DEF CrawlInv, TypeOK, Batch
  <2>2. \/ batch.size = 0 \/ batch.quarters <= 3 * batch.size \/ batch.valid = 0
    BY <2>1 DEF CrawlInv, Shortfall, Guarded, Fields, Unguarded, Sites
  <2>. QED  BY <2>1, <2>2 DEF FailsSome
<1>. QED  BY <1>1, CrawlImplementsEngine, TypeCorrect, CrawlInitInv, CrawlNextInv, PTL
          DEF CrawlSpec

-----------------------------------------------------------------------------
(* The quality of what is published, site by site. *)

\* The records of the scrapers are records of the engine, and none of them is
\* inconsistent or repeats a hash: of the four dimensions, their batches can
\* lose points in completeness and validity only.
THEOREM ScrapersYieldRecords ==
    \A s \in Sites : Yielded(s) \subseteq {r \in Record : r.consistent /\ r.fresh}
<1>. SUFFICES ASSUME NEW s \in Sites, NEW i \in Items(s)
              PROVE  RecordOf(s, i) \in {r \in Record : r.consistent /\ r.fresh}
  BY DEF Yielded
<1>1. CASE s = "books"
  <2>1. RecordOf(s, i) = ListingRecord(i)
    BY <1>1 DEF RecordOf
  <2>2. 4 - Quarter(i.title = "blank") - Quarter(i.availability = "absent") \in 0..4
    BY DEF Quarter
  <2>3. (i.title # "blank" /\ i.price = "positive") \in BOOLEAN
    OBVIOUS
  <2>. QED  BY <2>1, <2>2, <2>3 DEF ListingRecord, Record
<1>2. CASE s = "wikipedia"
  <2>1. RecordOf(s, i) = ArticleRecord(i)
    BY <1>2 DEF RecordOf
  <2>. QED  BY <2>1 DEF ArticleRecord, Record
<1>3. CASE s = "quotes"
  <2>1. RecordOf(s, i) = QuoteRecord(i)
    BY <1>3 DEF RecordOf
  <2>. QED  BY <2>1 DEF QuoteRecord, Record
<1>. QED  BY <1>1, <1>2, <1>3 DEF Sites

\* What the defects of each site cost the batch.
Cost ==
    LET flawed == batch.size - flawless
        short == 4 * batch.size - batch.quarters
    IN  /\ site = "books" => flawed <= short + (batch.size - batch.valid)
        /\ site = "wikipedia" => 2 * flawed <= short
        /\ site = "quotes" => flawed <= 0

\* The same of a record: what it costs if it is not flawless.
RecordCost(s, r) ==
    LET flawed == 1 - One(Flawless(r))
        short == 4 - r.quarters
    IN  /\ s = "books" => flawed <= short + (1 - One(r.valid))
        /\ s = "wikipedia" => 2 * flawed <= short
        /\ s = "quotes" => flawed <= 0

LEMMA YieldedCost ==
    ASSUME NEW s \in Sites, NEW i \in Items(s)
    PROVE  RecordCost(s, RecordOf(s, i))
<1>1. CASE s = "books"
  <2>. DEFINE r == RecordOf(s, i)
  <2>1. r = ListingRecord(i)
    BY <1>1 DEF RecordOf
  <2>2. /\ r.quarters = 4 - Quarter(i.title = "blank") - Quarter(i.availability = "absent")
        /\ r.valid = (i.title # "blank" /\ i.price = "positive")
        /\ r.consistent = TRUE /\ r.fresh = TRUE
    BY <2>1 DEF ListingRecord
  <2>3. Quarter(i.title = "blank") \in 0..1 /\ Quarter(i.availability = "absent") \in 0..1
    BY DEF Quarter
  <2>. SUFFICES RecordCost(s, r)
    OBVIOUS
  <2>. HIDE DEF r
  <2>4. CASE r.quarters = 4 /\ r.valid
    BY <1>1, <2>2, <2>4 DEF RecordCost, Flawless, One
  <2>5. CASE ~(r.quarters = 4 /\ r.valid)
    <3>1. One(Flawless(r)) = 0
      BY <2>5 DEF Flawless, One
    <3>2. r.quarters \in Int /\ r.quarters <= 4 /\ One(r.valid) \in 0..1
          /\ (r.quarters # 4 \/ One(r.valid) = 0)
      BY <2>2, <2>3, <2>5 DEF One
    <3>. QED  BY <1>1, <3>1, <3>2 DEF RecordCost
  <2>. QED  BY <2>4, <2>5
<1>2. CASE s = "wikipedia"
  <2>1. RecordOf(s, i) = ArticleRecord(i)
    BY <1>2 DEF RecordOf
  <2>. QED  BY <1>2, <2>1 DEF ArticleRecord, RecordCost, Flawless, One
<1>3. CASE s = "quotes"
  <2>1. RecordOf(s, i) = QuoteRecord(i)
    BY <1>3 DEF RecordOf
  <2>. QED  BY <1>3, <2>1 DEF QuoteRecord, RecordCost, Flawless, One
<1>. QED  BY <1>1, <1>2, <1>3 DEF Sites

LEMMA CrawlInitCost == CrawlInit => Cost
BY DEF CrawlInit, Init, Cost

LEMMA CrawlNextCost == TypeOK /\ Cost /\ [CrawlNext]_crawlVars => Cost'
<1>. SUFFICES ASSUME TypeOK, Cost, [CrawlNext]_crawlVars PROVE Cost'
  OBVIOUS
<1>1. site' = site
  BY DEF crawlVars, crawl, CrawlNext, Item, Yield, Drop, Quarantine, See, RaiseAtItem,
         RaiseAtPage, Other
<1>2. CASE batch' = batch /\ flawless' = flawless
  BY <1>1, <1>2 DEF Cost
<1>3. CASE Other
  BY <1>1, <1>3 DEF Other, Cost
<1>4. ASSUME site \in Sites, NEW i \in Items(site), Yield(i) PROVE Cost'
  <2>. DEFINE r == RecordOf(site, i)  new == One(Flawless(RecordOf(site, i)))
              good == One(RecordOf(site, i).valid)  quarters == RecordOf(site, i).quarters
  <2>1. /\ batch'.size = batch.size + 1
        /\ batch'.quarters = batch.quarters + quarters
        /\ batch'.valid = batch.valid + good
        /\ flawless' = flawless + new
    BY <1>4 DEF Yield, AddRecord, With
  <2>2. /\ batch.size \in Nat /\ batch.quarters \in Nat /\ batch.valid \in Nat
        /\ flawless \in Nat
    BY DEF TypeOK, Batch
  <2>3. /\ site = "books" => 1 - new <= (4 - quarters) + (1 - good)
        /\ site = "wikipedia" => 2 * (1 - new) <= 4 - quarters
        /\ site = "quotes" => 1 - new <= 0
    BY <1>4, YieldedCost DEF RecordCost
  <2>4. r \in Record
    <3>1. r \in Yielded(site)
      BY <1>4 DEF Yield, Yielded
    <3>. QED  BY <1>4, <3>1, ScrapersYieldRecords
  <2>5. quarters \in Int /\ good \in Int /\ new \in Int
    BY <2>4 DEF Record, One
  <2>. HIDE DEF r, new, good, quarters
  <2>. QED  BY <1>1, <2>1, <2>2, <2>3, <2>5 DEF Cost
<1>. QED
  BY <1>2, <1>3, <1>4 DEF crawlVars, vars, CrawlNext, Item, Drop, Quarantine, Reject,
                          RaiseAtItem, RaiseAtPage

\* A published batch of any size: three quarters of its listings, nine tenths
\* of its articles and all of its quotes are without a defect.
THEOREM GoodBySite == CrawlSpec => []PublishedBySite
<1>1. TypeOK /\ Cost => PublishedBySite
  <2>. SUFFICES ASSUME TypeOK, Cost, ~FailsSome(batch)
                PROVE  /\ site = "books" => 100 * flawless >= 75 * batch.size
                       /\ site = "wikipedia" => 100 * flawless >= 90 * batch.size
                       /\ site = "quotes" => flawless = batch.size
    BY GateFacts DEF PublishedBySite, TypeOK
  <2>1. /\ batch.size \in Nat /\ batch.quarters \in Nat /\ batch.valid \in Nat
        /\ flawless \in Nat /\ flawless <= batch.size
    BY DEF TypeOK, Batch
  <2>. QED  BY <2>1 DEF Cost, FailsSome
<1>. QED  BY <1>1, CrawlImplementsEngine, TypeCorrect, CrawlInitCost, CrawlNextCost, PTL
          DEF CrawlSpec
=============================================================================
