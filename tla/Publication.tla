----------------------------- MODULE Publication -----------------------------
(***************************************************************************)
(* What the zones of the object store and the table of runs promise to     *)
(* their readers, with nothing of how run_site gets there: registers that  *)
(* are written once, in the order staged, published, reported, committed,  *)
(* and a latest report that is unreadable or the report of some run.       *)
(* RunSite is shown to implement it.                                       *)
(***************************************************************************)
EXTENDS Naturals, Sequences

CONSTANT Runs

VARIABLES
    staged,         \* staged[r]: the rows of run r in the staging zone
    curated,        \* curated[r]: its rows in the curated zone
    reported,       \* reported[r]: the gate in its report
    committed,      \* committed[r]: the number of rows its manifest counts
    latest          \* {r} when the latest report is that of run r, else {}

registers == <<staged, curated, reported, committed, latest>>

Empty == [r \in {} |-> <<>>]

Init == /\ staged = Empty
        /\ curated = Empty
        /\ reported = Empty
        /\ committed = Empty
        /\ latest = {}

\* Register f, not yet written for run r, now is; the others keep their value.
FirstWrite(f, g, r) ==
    /\ r \notin DOMAIN f
    /\ DOMAIN g = DOMAIN f \cup {r}
    /\ \A q \in DOMAIN f : g[q] = f[q]

Stage(r) ==
    /\ FirstWrite(staged, staged', r)
    /\ UNCHANGED <<curated, reported, committed, latest>>

\* Only what is staged is published, whole, and never an empty batch.
Publish(r) ==
    /\ r \in DOMAIN staged \ DOMAIN reported
    /\ staged[r] # <<>>
    /\ FirstWrite(curated, curated', r)
    /\ curated'[r] = staged[r]
    /\ UNCHANGED <<staged, reported, committed, latest>>

\* The report says what was decided about a batch that is already in place.
Report(r) ==
    /\ r \in DOMAIN staged
    /\ FirstWrite(reported, reported', r)
    /\ reported'[r] # "fail" <=> r \in DOMAIN curated
    /\ UNCHANGED <<staged, curated, committed, latest>>

\* The manifest comes last: the run was reported, and counted as staged.
Commit(r) ==
    /\ r \in DOMAIN reported
    /\ FirstWrite(committed, committed', r)
    /\ committed'[r] = Len(staged[r])
    /\ UNCHANGED <<staged, curated, reported, latest>>

Announce(r) ==
    /\ r \in DOMAIN reported
    /\ latest' = {r}
    /\ UNCHANGED <<staged, curated, reported, committed>>

\* The latest report is being rewritten.
Withdraw ==
    /\ latest' = {}
    /\ UNCHANGED <<staged, curated, reported, committed>>

Next ==
    \/ \E r \in Runs : \/ Stage(r) \/ Publish(r) \/ Report(r)
                       \/ Commit(r) \/ Announce(r)
    \/ Withdraw

Spec == Init /\ [][Next]_registers
=============================================================================
