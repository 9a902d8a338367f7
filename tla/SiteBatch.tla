----------------------------- MODULE SiteBatch ------------------------------
(***************************************************************************)
(* A crawl of one site as the quality gate sees it: the scraper turns item *)
(* after item into a record, a quarantined item or an exception            *)
(* (Scrapers), the dedupe leaves out what was seen before, and the gate    *)
(* judges the batch of what is left (DqEngine).                            *)
(*                                                                         *)
(* The site "other" stands for any scraper that may be added to the        *)
(* registry: all that is known of it is that its records are of the kinds  *)
(* in Records.                                                             *)
(***************************************************************************)
EXTENDS DqEngine, Scrapers

\* Records has the kinds of records that the scrapers yield.
ASSUME ScrapersAssumption == \A s \in Sites : Yielded(s) \subseteq Records

VARIABLES
    site,
    raised,         \* an exception left parse: the run ends without a batch
    lacking         \* auxiliary: what of Guarded was missing from every item so far

crawl == <<site, raised, lacking>>
crawlVars == <<vars, crawl>>

\* What a scraper of a known site looks for.
Fields(s) ==
    CASE s = "books" -> {"title", "link", "price", "availability", "rating", "image"}
      [] s = "wikipedia" -> {"heading", "lead", "description"}
      [] s = "quotes" -> {"text", "author", "tags"}
      [] OTHER -> {}

\* What can vanish from every item without a sign: it goes into the attributes
\* of the record as None or as an empty list, and no check looks there.
Unguarded == {"rating", "image", "tags"}

Guarded(s) == Fields(s) \ Unguarded

\* Nor is a blank link or a blank availability missed: the one becomes the
\* page's own URL, the other is not None (books_sandbox.py:103, :124).
Lacks(s, i) ==
    {f \in Guarded(s) : /\ i[f] \notin {"text", "http", "positive"}
                        /\ ~(f \in {"link", "availability"} /\ i[f] = "blank")}

-----------------------------------------------------------------------------
(* The crawl. *)

CrawlInit ==
    /\ Init
    /\ site \in Sites \cup {"other"}
    /\ raised = FALSE
    /\ lacking = Guarded(site)

See(i) ==
    /\ lacking' = lacking \cap Lacks(site, i)
    /\ UNCHANGED <<site, raised>>

Yield(i) == Kept(site, i) /\ AddRecord(RecordOf(site, i)) /\ See(i)

\* The dedupe finds the record's hash among those seen before, in this crawl
\* or an earlier one.
Drop(i) == Kept(site, i) /\ See(i) /\ UNCHANGED vars

Quarantine(i) == Rejected(site, i) /\ Reject /\ See(i)

RaiseAtItem(i) == Raises(site, i) /\ raised' = TRUE /\ UNCHANGED <<vars, site, lacking>>

\* A page with an error status, or with nothing on it that is an item.
RaiseAtPage == raised' = TRUE /\ UNCHANGED <<vars, site, lacking>>

Item(i) == Yield(i) \/ Drop(i) \/ Quarantine(i) \/ RaiseAtItem(i)

\* A scraper that is not known.
Other == site = "other" /\ Next /\ UNCHANGED crawl

CrawlNext ==
    /\ ~raised
    /\ \/ site \in Sites /\ \E i \in Items(site) : Item(i)
       \/ Other
       \/ RaiseAtPage

CrawlSpec == CrawlInit /\ [][CrawlNext]_crawlVars

-----------------------------------------------------------------------------
(* Properties. *)

\* What a reader gets of each site: no scraper loses points in all the ways the
\* gate tolerates, so that far more of a published batch is without a defect
\* than the thresholds say by themselves.
PublishedBySite ==
    Gate(batch) # "fail" =>
        /\ site = "books" => 100 * flawless >= 75 * batch.size
        /\ site = "wikipedia" => 100 * flawless >= 90 * batch.size
        /\ site = "quotes" => flawless = batch.size

\* A site changes its layout, and the title, link, price or availability is
\* gone from every listing, or the heading, lead or description from every
\* article, or the text or author from every quote: whether its absence is an
\* error, a quarantined item or a less complete record, the run ends or its
\* gate fails, however large the batch and whatever the dedupe leaves out.  It
\* says nothing of what is Unguarded, and Lacks does not count a link or an
\* availability that is there but blank: those are published without a sign.
SystematicChangeIsNoticed ==
    site \in Sites /\ lacking # {} => raised \/ Gate(batch) = "fail"

=============================================================================
