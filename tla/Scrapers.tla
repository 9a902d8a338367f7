------------------------------ MODULE Scrapers ------------------------------
(***************************************************************************)
(* What the scrapers under src/src/pipeline/scrapers make of an item of a  *)
(* page: a record, a quarantined item, or an exception that leaves parse   *)
(* and ends the run.  An item is how each thing that a scraper looks for   *)
(* is found in the page, and a record is what the data-quality engine can  *)
(* tell of it.                                                             *)
(***************************************************************************)
EXTENDS Integers

\* The text of an element: "blank" is nothing but white space.
Text == {"absent", "blank", "text"}

\* A listing of books_sandbox.  A price is unreadable without a digit or
\* without a currency symbol, and is never negative: a minus is skipped.
\* urljoin makes the page's own URL of a blank link, and raises ValueError for
\* a malformed one.  A rating is one of the five words.
Listings == [title : Text,
             link : {"absent", "blank", "malformed", "not_http", "http"},
             price : {"absent", "unreadable", "zero", "positive"},
             availability : Text,
             rating : {"absent", "text"},
             image : {"absent", "malformed", "text"}]

\* An article of wikipedia_tech.  A heading that is blank and a lead that is
\* too short are as good as absent.
Articles == [heading : {"absent", "text"},
             lead : {"absent", "text"},
             description : Text]

\* A quote of quotes_js or quotes_scroll; blank is as good as absent.
Quotes == [text : {"absent", "text"},
           author : {"absent", "text"},
           tags : {"absent", "text"}]

Sites == {"books", "wikipedia", "quotes"}

Items(site) ==
    CASE site = "books" -> Listings
      [] site = "wikipedia" -> Articles
      [] site = "quotes" -> Quotes

-----------------------------------------------------------------------------
(* books_sandbox *)

\* A quarter of the completeness score.
Quarter(p) == IF p THEN 1 ELSE 0

\* A required field is missing, or a normalizer raises.  The link is resolved
\* before the price is looked at.
ListingRejected(i) ==
    \/ i.title = "absent"
    \/ i.link = "absent"
    \/ i.link # "malformed" /\ i.price \in {"absent", "unreadable"}

\* Neither urljoin's ValueError nor pydantic's refusal of the source url is a
\* RecordValidationError.
ListingRaises(i) ==
    /\ ~ListingRejected(i)
    /\ i.link \in {"malformed", "not_http"} \/ i.image = "malformed"

\* A slip: availability is taken for optional.
ListingOptional(i) ==
    [quarters   |-> 4 - Quarter(i.title = "blank"),
     valid      |-> i.title # "blank" /\ i.price = "positive",
     consistent |-> TRUE,
     fresh      |-> TRUE]

\* Of the four fields that completeness counts, the price and the currency
\* are there; the availability counts unless its element is missing.
ListingRecord(i) ==
    [quarters   |-> 4 - Quarter(i.title = "blank") - Quarter(i.availability = "absent"),
     valid      |-> i.title # "blank" /\ i.price = "positive",
     consistent |-> TRUE,
     fresh      |-> TRUE]

-----------------------------------------------------------------------------
(* wikipedia_tech *)

\* ParsingError.
ArticleRaises(i) == i.heading = "absent"

ArticleRejected(i) == ~ArticleRaises(i) /\ i.lead = "absent"

\* A slip: the description counts for one of the two fields it is made into.
ArticleQuarter(i) ==
    [quarters   |-> IF i.description = "text" THEN 4 ELSE 3,
     valid      |-> TRUE,
     consistent |-> TRUE,
     fresh      |-> TRUE]

\* No price and no currency agree and are valid.
ArticleRecord(i) ==
    [quarters   |-> IF i.description = "text" THEN 4 ELSE 2,
     valid      |-> TRUE,
     consistent |-> TRUE,
     fresh      |-> TRUE]

-----------------------------------------------------------------------------
(* quotes_js and quotes_scroll *)

QuoteRejected(i) == i.text = "absent" \/ i.author = "absent"

QuoteRecord(i) ==
    [quarters |-> 4, valid |-> TRUE, consistent |-> TRUE, fresh |-> TRUE]

-----------------------------------------------------------------------------
(* Any of them. *)

Raises(site, i) ==
    \/ site = "books" /\ ListingRaises(i)
    \/ site = "wikipedia" /\ ArticleRaises(i)

Rejected(site, i) ==
    \/ site = "books" /\ ListingRejected(i)
    \/ site = "wikipedia" /\ ArticleRejected(i)
    \/ site = "quotes" /\ QuoteRejected(i)

RecordOf(site, i) ==
    CASE site = "books" -> ListingRecord(i)
      [] site = "wikipedia" -> ArticleRecord(i)
      [] site = "quotes" -> QuoteRecord(i)

\* The item becomes a record.
Kept(site, i) == ~Raises(site, i) /\ ~Rejected(site, i)

Yielded(site) == {RecordOf(site, i) : i \in {j \in Items(site) : Kept(site, j)}}

=============================================================================
