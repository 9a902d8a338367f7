------------------------------ MODULE MCRunSite ------------------------------
(* Instances of RunSite for TLC. *)
EXTENDS RunSite, TLC

CONSTANTS r1, r2, r3, s1, s2, h1, h2

\* Two runs of one site.
SameSite == [r \in Runs |-> s1]

\* Runs r1 and r3 are of site s1, r2 of s2.
TwoSites == [r \in Runs |-> IF r = r2 THEN s2 ELSE s1]

OnePage == [s \in Sites |-> 1]
TwoPages == [s \in Sites |-> 2]

\* With one site, runs are interchangeable; hashes always are.
Symmetry == Permutations(Runs) \cup Permutations(Hashes)
=============================================================================
