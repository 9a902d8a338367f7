----------------------------- MODULE MCFetchOnce -----------------------------
(* Instances of FetchOnce for TLC. *)
EXTENDS FetchOnce

CONSTANTS b1, b2, h, https, http, site

OneSite == [o \in Origins |-> site]

\* One site under two schemes.  The robots.txt of https has a Crawl-delay and
\* forbids the url of h, that of http allows everything at the normal rate; so
\* the two browser tasks share a bucket and ask for different rates.
Mixed == [t \in Tasks |-> IF t = b2 THEN http ELSE https]

MixedPublished ==
    [o \in Origins |-> IF o = https THEN [allowed |-> Tasks \ {h}, slow |-> TRUE]
                                    ELSE [allowed |-> Tasks, slow |-> FALSE]]

\* All fetch from one origin, which allows everything.
Together == [t \in Tasks |-> https]

TogetherPublished == [o \in Origins |-> [allowed |-> Tasks, slow |-> TRUE]]
=============================================================================
