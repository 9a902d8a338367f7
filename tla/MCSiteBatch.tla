----------------------------- MODULE MCSiteBatch ----------------------------
(* Instances of SiteBatch for TLC. *)
EXTENDS SiteBatch

Clean == [quarters |-> 4, valid |-> TRUE, consistent |-> TRUE, fresh |-> TRUE]

\* What the scrapers yield, as ScrapersAssumption has it.
Scraped == {[Clean EXCEPT !.quarters = q, !.valid = v] : q \in 2..4, v \in BOOLEAN}

\* Records the engine is also meant to judge, though no scraper yields them
\* and the dedupe lets no repeated hash through.
AnyRecord ==
    Scraped \cup {[Clean EXCEPT !.consistent = FALSE], [Clean EXCEPT !.fresh = FALSE]}

\* Bound: the most points a batch may lose in the four dimensions together,
\* unless it is small.
FewDefects ==
    \/ batch.size <= 3
    \/ 4 * batch.size - batch.quarters + 3 * batch.size
           - batch.unique - batch.valid - batch.consistent <= 5
=============================================================================
