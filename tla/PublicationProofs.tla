-------------------------- MODULE PublicationProofs --------------------------
(***************************************************************************)
(* RunSite implements Publication: whatever runs overlap, fail or die, the *)
(* zones and the manifests are, to their readers, write-once registers.    *)
(***************************************************************************)
EXTENDS RunSiteProofs

-----------------------------------------------------------------------------
(* Registers under a function of keys. *)

\* A register whose parts are left alone is left alone.
LEMMA RegisterSame ==
    ASSUME NEW key, \A r \in Runs : Same(key[r])
    PROVE  Register(key)' = Register(key)
<1>1. \A r \in Runs : IsWhole(key[r])' <=> IsWhole(key[r])
  BY DEF Same, IsWhole, Exists
<1>2. \A r \in Runs : IsWhole(key[r]) => objects'[key[r]] = objects[key[r]]
  BY DEF Same, IsWhole, Exists
<1> QED BY <1>1, <1>2 DEF Register

\* A part that is opened, or mixed, while it is not whole stays unread.
LEMMA RegisterTorn ==
    ASSUME NEW key, NEW r \in Runs, ~IsWhole(key[r]), ~IsWhole(key[r])',
           \A q \in Runs \ {r} : Same(key[q])
    PROVE  Register(key)' = Register(key)
<1>1. \A q \in Runs : IsWhole(key[q])' <=> IsWhole(key[q])
  BY DEF Same, IsWhole, Exists
<1>2. \A q \in Runs : IsWhole(key[q]) => objects'[key[q]] = objects[key[q]]
  BY DEF Same, IsWhole, Exists
<1> QED BY <1>1, <1>2 DEF Register

\* A part that becomes whole is a first write of its run.
LEMMA RegisterWritten ==
    ASSUME NEW key, NEW r \in Runs, NEW by, NEW rows, ~IsWhole(key[r]),
           key[r] \in DOMAIN objects', objects'[key[r]] = Whole(by, rows),
           \A q \in Runs \ {r} : Same(key[q])
    PROVE  /\ P!FirstWrite(Register(key), Register(key)', r)
           /\ Register(key)'[r] = rows
<1>1. IsWhole(key[r])' /\ objects'[key[r]].rows = rows
  BY FileFacts DEF IsWhole, Exists
<1>2. \A q \in Runs \ {r} : /\ IsWhole(key[q])' <=> IsWhole(key[q])
                            /\ IsWhole(key[q]) => objects'[key[q]] = objects[key[q]]
  BY DEF Same, IsWhole, Exists
<1>3. DOMAIN Register(key) = {q \in Runs : IsWhole(key[q])}
  BY DEF Register
<1>4. DOMAIN Register(key)' = {q \in Runs : IsWhole(key[q])'}
  BY DEF Register
<1>5. \A q \in Runs : IsWhole(key[q]) => Register(key)[q] = objects[key[q]].rows
  BY DEF Register
<1>6. \A q \in Runs : IsWhole(key[q])' => Register(key)'[q] = objects'[key[q]].rows
  BY DEF Register
<1> QED BY <1>1, <1>2, <1>3, <1>4, <1>5, <1>6 DEF P!FirstWrite

\* The registers keep their keys.
LEMMA KeysConstant ==
    /\ StagingKeys' = StagingKeys
    /\ CuratedKeys' = CuratedKeys
    /\ ReportKeys' = ReportKeys
    /\ \A r \in Runs : /\ StagingKeys[r] = StagingKey(r)
                       /\ CuratedKeys[r] = CuratedKey(r)
                       /\ ReportKeys[r] = ReportKey(r)
BY DEF StagingKeys, CuratedKeys, ReportKeys, StagingKey, CuratedKey, ReportKey

\* The manifests count what their runs let through.
CountedOK ==
    /\ DOMAIN Counted = {m.run_id : m \in manifests}
    /\ \A r \in DOMAIN Counted : r \in Runs /\ run[r].pc = "done"
                                 /\ Counted[r] = Len(run[r].deduped)

LEMMA CountedFacts == ManifestInv => CountedOK
<1> SUFFICES ASSUME ManifestInv PROVE CountedOK
  OBVIOUS
<1>1. DOMAIN Counted = {m.run_id : m \in manifests}
  BY DEF Counted
<1>2. ASSUME NEW r \in DOMAIN Counted
      PROVE  r \in Runs /\ run[r].pc = "done" /\ Counted[r] = Len(run[r].deduped)
  <2> DEFINE m == CHOOSE n \in manifests : n.run_id = r
  <2>1. \E n \in manifests : n.run_id = r
    BY <1>1
  <2>2. m \in manifests /\ m.run_id = r
    BY <2>1
  <2>3. Counted[r] = m.site_count
    BY <1>1 DEF Counted
  <2> HIDE DEF m
  <2> QED BY <2>2, <2>3 DEF ManifestInv
<1> QED BY <1>1, <1>2 DEF CountedOK

-----------------------------------------------------------------------------
(* The steps. *)

\* A step that changes none of the files and tables behind the registers.
LEMMA Unseen ==
    ASSUME \A r \in Runs : /\ Same(StagingKey(r)) /\ Same(CuratedKey(r))
                           /\ Same(ReportKey(r)),
           Same(LatestReportKey), manifests' = manifests
    PROVE  UNCHANGED P!registers
<1>1. Register(StagingKeys)' = Register(StagingKeys)
  BY KeysConstant, RegisterSame
<1>2. Register(CuratedKeys)' = Register(CuratedKeys)
  BY KeysConstant, RegisterSame
<1>3. Register(ReportKeys)' = Register(ReportKeys)
  BY KeysConstant, RegisterSame
<1>4. Counted' = Counted
  BY DEF Counted
<1>5. LatestOwner' = LatestOwner
  BY DEF LatestOwner, Same, IsWhole, Exists, LatestReportKey
<1> QED BY <1>1, <1>2, <1>3, <1>4, <1>5 DEF P!registers

\* A put leaves the parts of other zones, and of other runs, alone.
LEMMA PutElsewhere ==
    ASSUME NEW r \in Runs, NEW k, NEW rows, NEW next, Put(r, k, rows, next)
    PROVE  /\ \A q : StagingKey(q) # k => Same(StagingKey(q))
           /\ \A q : CuratedKey(q) # k => Same(CuratedKey(q))
           /\ \A q : ReportKey(q) # k => Same(ReportKey(q))
           /\ LatestReportKey # k => Same(LatestReportKey)
BY PutSame

\* Keys of two zones, or of two runs, differ.
LEMMA KeysDiffer ==
    ASSUME NEW r, NEW q
    PROVE  /\ StagingKey(q) \notin {CuratedKey(r), ReportKey(r), QuarantineKey(r), LatestReportKey}
           /\ CuratedKey(q) \notin {StagingKey(r), ReportKey(r), QuarantineKey(r), LatestReportKey}
           /\ ReportKey(q) \notin {StagingKey(r), CuratedKey(r), QuarantineKey(r), LatestReportKey}
           /\ LatestReportKey \notin {StagingKey(r), CuratedKey(r), ReportKey(r), QuarantineKey(r)}
           /\ \A p : RawKey(r, p) \notin {StagingKey(q), CuratedKey(q), ReportKey(q), LatestReportKey}
           /\ q # r => /\ StagingKey(q) # StagingKey(r)
                       /\ CuratedKey(q) # CuratedKey(r)
                       /\ ReportKey(q) # ReportKey(r)
<1>1. /\ StagingKey(q)[1] = "staging" /\ StagingKey(q)[2] = q
      /\ CuratedKey(q)[1] = "curated" /\ CuratedKey(q)[2] = q
      /\ ReportKey(q)[1] = "report" /\ ReportKey(q)[2] = q
  BY KeyFacts
<1>2. /\ StagingKey(r)[1] = "staging" /\ StagingKey(r)[2] = r
      /\ CuratedKey(r)[1] = "curated" /\ CuratedKey(r)[2] = r
      /\ ReportKey(r)[1] = "report" /\ ReportKey(r)[2] = r
  BY KeyFacts
<1>3. QuarantineKey(r)[1] = "quarantine" /\ LatestReportKey[1] = "latest"
  BY SharedKeyFacts
<1>4. \A p : RawKey(r, p)[1] = "raw"
  BY RawKeyFacts
<1> QED BY <1>1, <1>2, <1>3, <1>4

\* A put under r's key in a register's zone: nothing to see while the file is
\* open, a first write when it is closed.
LEMMA PutRegister ==
    ASSUME run \in [Runs -> RunState],
           NEW r \in Runs, NEW key, NEW rows, NEW next,
           Put(r, key[r], rows, next), Begun(r, key[r]),
           \A q \in Runs \ {r} : key[q] # key[r]
    PROVE  \/ Register(key)' = Register(key)
           \/ /\ P!FirstWrite(Register(key), Register(key)', r)
              /\ Register(key)'[r] = rows
<1> DEFINE k == key[r]
<1>0. Put(r, k, rows, next) /\ Begun(r, k)
  OBVIOUS
<1>1. \A q \in Runs \ {r} : Same(key[q])
  BY <1>0, PutSame
<1>2. ~IsWhole(k)
  BY <1>0, FileFacts DEF Begun, IsWhole, Exists
<1> HIDE DEF k
<1>3. /\ Kept(r)
      /\ k \in DOMAIN objects'
      /\ \/ /\ ~run[r].open
            /\ run'[r].open = TRUE
            /\ run'[r].pc = run[r].pc
            /\ objects'[k] = Torn
         \/ /\ run[r].open
            /\ run'[r].open = FALSE
            /\ run'[r].pc = next
            /\ objects[k] = Torn => objects'[k] = Whole(r, rows)
            /\ objects'[k] \in {Whole(r, rows), Mixed}
  BY <1>0, PutOutcome
<1>4. CASE objects'[k] = Torn
  <2>1. ~IsWhole(k)'
    BY <1>4, FileFacts DEF IsWhole, Exists, k
  <2> QED BY <1>1, <1>2, <2>1, RegisterTorn DEF k
<1>5. CASE objects'[k] = Whole(r, rows)
  BY <1>1, <1>2, <1>3, <1>5, RegisterWritten DEF k
<1>6. run[r].open => objects[k] = Torn
  BY <1>0 DEF Begun
<1> QED BY <1>3, <1>4, <1>5, <1>6

\* What IInv says of the registers.
LEMMA RegisterFacts ==
    ASSUME IInv, NEW r \in Runs
    PROVE  /\ r \in DOMAIN Register(StagingKeys) <=> IsWhole(StagingKey(r))
           /\ r \in DOMAIN Register(CuratedKeys) <=> IsWhole(CuratedKey(r))
           /\ r \in DOMAIN Register(ReportKeys) <=> IsWhole(ReportKey(r))
           /\ IsWhole(StagingKey(r)) =>
                 Register(StagingKeys)[r] = objects[StagingKey(r)].rows
BY KeysConstant DEF Register

LEMMA HoldsFacts ==
    ASSUME NEW k, NEW r, NEW rows, Holds(k, r, rows)
    PROVE  IsWhole(k) /\ objects[k].rows = rows
BY FileFacts DEF Holds, IsWhole, Exists

LEMMA StagingStep ==
    ASSUME IInv, NEW r \in Runs, PersistStaging(r)
    PROVE  [P!Next]_(P!registers)
<1>0. run \in [Runs -> RunState] /\ RunInv(r)
  BY DEF IInv, TypeInv, TypeOK
<1>1. /\ Put(r, StagingKeys[r], run[r].deduped, AfterStaging(r))
      /\ Begun(r, StagingKeys[r])
      /\ \A q \in Runs \ {r} : StagingKeys[q] # StagingKeys[r]
  BY <1>0, KeysConstant, KeysDiffer DEF PersistStaging, RunInv, StagingInv
<1>2. \/ Register(StagingKeys)' = Register(StagingKeys)
      \/ P!FirstWrite(Register(StagingKeys), Register(StagingKeys)', r)
  BY <1>0, <1>1, PutRegister, KeysConstant
<1>3. /\ \A q \in Runs : Same(CuratedKey(q)) /\ Same(ReportKey(q))
      /\ Same(LatestReportKey)
  BY <1>1, PutElsewhere, KeysConstant, KeysDiffer
<1>4. Register(CuratedKeys)' = Register(CuratedKeys)
  BY <1>3, KeysConstant, RegisterSame
<1>5. Register(ReportKeys)' = Register(ReportKeys)
  BY <1>3, KeysConstant, RegisterSame
<1>6. Counted' = Counted /\ LatestOwner' = LatestOwner
  BY <1>3 DEF PersistStaging, Counted, LatestOwner, Same, IsWhole, Exists, LatestReportKey
<1> QED BY <1>2, <1>4, <1>5, <1>6 DEF P!registers, P!Next, P!Stage

LEMMA CuratedStep ==
    ASSUME IInv, NEW r \in Runs, PersistCurated(r)
    PROVE  [P!Next]_(P!registers)
<1>0. run \in [Runs -> RunState] /\ RunInv(r)
  BY DEF IInv, TypeInv, TypeOK
<1>1. /\ Put(r, CuratedKeys[r], run[r].deduped, AfterCurated(r))
      /\ Begun(r, CuratedKeys[r])
      /\ \A q \in Runs \ {r} : CuratedKeys[q] # CuratedKeys[r]
  BY <1>0, KeysConstant, KeysDiffer DEF PersistCurated, RunInv, CuratedInv
<1>2. \/ Register(CuratedKeys)' = Register(CuratedKeys)
      \/ /\ P!FirstWrite(Register(CuratedKeys), Register(CuratedKeys)', r)
         /\ Register(CuratedKeys)'[r] = run[r].deduped
  BY <1>0, <1>1, PutRegister, KeysConstant
<1>3. /\ \A q \in Runs : Same(StagingKey(q)) /\ Same(ReportKey(q))
      /\ Same(LatestReportKey)
  BY <1>1, PutElsewhere, KeysConstant, KeysDiffer
<1>4. Register(StagingKeys)' = Register(StagingKeys)
  BY <1>3, KeysConstant, RegisterSame
<1>5. Register(ReportKeys)' = Register(ReportKeys)
  BY <1>3, KeysConstant, RegisterSame
<1>6. Counted' = Counted /\ LatestOwner' = LatestOwner
  BY <1>3 DEF PersistCurated, Counted, LatestOwner, Same, IsWhole, Exists, LatestReportKey
<1>7. /\ Holds(StagingKey(r), r, run[r].deduped)
      /\ ~Exists(ReportKey(r)) /\ run[r].deduped # <<>>
  BY <1>0 DEF PersistCurated, RunInv, StagingInv, CuratedInv, ReportInv, BeyondStaging
<1>8. /\ r \in DOMAIN Register(StagingKeys) \ DOMAIN Register(ReportKeys)
      /\ Register(StagingKeys)[r] = run[r].deduped
  BY <1>7, RegisterFacts, HoldsFacts DEF IsWhole
<1> QED BY <1>2, <1>4, <1>5, <1>6, <1>7, <1>8 DEF P!registers, P!Next, P!Publish

LEMMA ReportStep ==
    ASSUME IInv, NEW r \in Runs, PersistReport(r), run[r].pc = "report"
    PROVE  [P!Next]_(P!registers)
<1>0. run \in [Runs -> RunState] /\ RunInv(r)
  BY DEF IInv, TypeInv, TypeOK
<1>1. /\ Put(r, ReportKeys[r], run[r].gate, "latest")
      /\ Begun(r, ReportKeys[r])
      /\ \A q \in Runs \ {r} : ReportKeys[q] # ReportKeys[r]
  BY <1>0, KeysConstant, KeysDiffer DEF PersistReport, RunInv, ReportInv
<1>2. \/ Register(ReportKeys)' = Register(ReportKeys)
      \/ /\ P!FirstWrite(Register(ReportKeys), Register(ReportKeys)', r)
         /\ Register(ReportKeys)'[r] = run[r].gate
  BY <1>0, <1>1, PutRegister, KeysConstant
<1>3. /\ \A q \in Runs : Same(StagingKey(q)) /\ Same(CuratedKey(q))
      /\ Same(LatestReportKey)
  BY <1>1, PutElsewhere, KeysConstant, KeysDiffer
<1>4. Register(StagingKeys)' = Register(StagingKeys)
  BY <1>3, KeysConstant, RegisterSame
<1>5. Register(CuratedKeys)' = Register(CuratedKeys)
  BY <1>3, KeysConstant, RegisterSame
<1>6. Counted' = Counted /\ LatestOwner' = LatestOwner
  BY <1>3 DEF PersistReport, Counted, LatestOwner, Same, IsWhole, Exists, LatestReportKey
<1>7. /\ Holds(StagingKey(r), r, run[r].deduped)
      /\ run[r].gate # "fail" => Holds(CuratedKey(r), r, run[r].deduped)
      /\ run[r].gate = "fail" => ~Exists(CuratedKey(r))
  BY <1>0 DEF RunInv, StagingInv, CuratedInv, BeyondStaging, BeyondCurated
<1>8. /\ r \in DOMAIN Register(StagingKeys)
      /\ run[r].gate # "fail" <=> r \in DOMAIN Register(CuratedKeys)
  BY <1>7, RegisterFacts, HoldsFacts DEF IsWhole
<1> QED BY <1>2, <1>4, <1>5, <1>6, <1>8 DEF P!registers, P!Next, P!Report

LEMMA LatestStep ==
    ASSUME IInv, NEW r \in Runs, PersistReport(r), run[r].pc = "latest"
    PROVE  [P!Next]_(P!registers)
<1>0. run \in [Runs -> RunState] /\ RunInv(r)
  BY DEF IInv, TypeInv, TypeOK
<1>1. PICK k : k = LatestReportKey
  OBVIOUS
<1>2. Put(r, k, run[r].gate, "manifest") /\ manifests' = manifests
  BY <1>1 DEF PersistReport
<1>3. \A q \in Runs : Same(StagingKey(q)) /\ Same(CuratedKey(q)) /\ Same(ReportKey(q))
  BY <1>1, <1>2, PutElsewhere, KeysDiffer
<1>4. /\ Register(StagingKeys)' = Register(StagingKeys)
      /\ Register(CuratedKeys)' = Register(CuratedKeys)
      /\ Register(ReportKeys)' = Register(ReportKeys)
  BY <1>3, KeysConstant, RegisterSame
<1>5. Counted' = Counted
  BY <1>2 DEF Counted
<1>6. k \in DOMAIN objects' /\ objects'[k] \in {Torn, Whole(r, run[r].gate), Mixed}
  <2> DEFINE rows == run[r].gate
             next == "manifest"
  <2>1. Put(r, k, rows, next)
    BY <1>2
  <2> HIDE DEF rows, next
  <2>2. /\ Kept(r)
        /\ k \in DOMAIN objects'
        /\ \/ /\ ~run[r].open
              /\ run'[r].open = TRUE
              /\ run'[r].pc = run[r].pc
              /\ objects'[k] = Torn
           \/ /\ run[r].open
              /\ run'[r].open = FALSE
              /\ run'[r].pc = next
              /\ objects[k] = Torn => objects'[k] = Whole(r, rows)
              /\ objects'[k] \in {Whole(r, rows), Mixed}
    BY <1>0, <2>1, PutOutcome
  <2> QED BY <2>2 DEF rows
<1>7. CASE objects'[k] = Whole(r, run[r].gate)
  <2>1. LatestOwner' = {r}
    BY <1>1, <1>6, <1>7, FileFacts DEF LatestOwner, IsWhole, Exists, LatestReportKey
  <2>2. r \in DOMAIN Register(ReportKeys)
    BY <1>0, RegisterFacts, HoldsFacts DEF RunInv, ReportInv, Closing
  <2> QED BY <1>4, <1>5, <2>1, <2>2 DEF P!Next, P!Announce
<1>8. CASE objects'[k] \in {Torn, Mixed}
  <2>1. LatestOwner' = {}
    BY <1>1, <1>6, <1>8, FileFacts DEF LatestOwner, IsWhole, Exists, LatestReportKey
  <2> QED BY <1>4, <1>5, <2>1 DEF P!Next, P!Withdraw
<1> QED BY <1>6, <1>7, <1>8

LEMMA SaveStep ==
    ASSUME IInv, NEW r \in Runs, SaveRun(r)
    PROVE  [P!Next]_(P!registers)
<1>0. /\ run \in [Runs -> RunState] /\ run[r] \in RunState
      /\ TypeOK /\ RunInv(r) /\ ManifestInv
  BY DEF IInv, TypeInv, TypeOK
<1>1. PICK m : /\ m.run_id = r /\ m.site_count = Len(run[r].deduped)
               /\ manifests' = {n \in manifests : n.run_id # r} \cup {m}
  BY DEF SaveRun
<1>2. ManifestInv'
  BY <1>0, StepManifest DEF Step
<1>3. /\ run'[r].deduped = run[r].deduped /\ run[r].pc = "manifest"
      /\ \A q \in Runs \ {r} : run'[q] = run[q]
      /\ objects' = objects
  BY <1>0 DEF SaveRun, RunState
<1>4. r \notin {n.run_id : n \in manifests}
  BY <1>0, <1>3 DEF ManifestInv
<1>5. {n.run_id : n \in manifests'} = {n.run_id : n \in manifests} \cup {r}
  BY <1>1, <1>4
<1>6. /\ DOMAIN Counted = {n.run_id : n \in manifests}
      /\ \A q \in DOMAIN Counted : q \in Runs /\ run[q].pc = "done"
                                   /\ Counted[q] = Len(run[q].deduped)
  BY <1>0, CountedFacts DEF CountedOK
<1>7. /\ DOMAIN Counted' = {n.run_id : n \in manifests'}
      /\ \A q \in DOMAIN Counted' : q \in Runs /\ Counted'[q] = Len(run'[q].deduped)
  <2>1. CountedOK'
    BY <1>2, CountedFacts, PTL
  <2> QED BY <2>1 DEF CountedOK
<1>8. P!FirstWrite(Counted, Counted', r) /\ Counted'[r] = Len(run[r].deduped)
  <2>1. r \notin DOMAIN Counted /\ DOMAIN Counted' = DOMAIN Counted \cup {r}
    BY <1>4, <1>5, <1>6, <1>7
  <2>2. ASSUME NEW q \in DOMAIN Counted
        PROVE  Counted'[q] = Counted[q]
    <3>1. q \in Runs \ {r} /\ Counted[q] = Len(run[q].deduped)
      BY <1>6, <2>1
    <3>2. Counted'[q] = Len(run'[q].deduped)
      BY <1>7, <2>1
    <3>3. run'[q] = run[q]
      BY <1>3, <3>1
    <3> QED BY <3>1, <3>2, <3>3
  <2>3. Counted'[r] = Len(run[r].deduped)
    BY <1>3, <1>7, <2>1
  <2> QED BY <2>1, <2>2, <2>3 DEF P!FirstWrite
<1>9. /\ Holds(StagingKey(r), r, run[r].deduped)
      /\ Holds(ReportKey(r), r, run[r].gate)
  BY <1>0, <1>3 DEF RunInv, StagingInv, ReportInv, BeyondStaging, BeyondCurated, Closing
<1>10. /\ r \in DOMAIN Register(ReportKeys)
       /\ Register(StagingKeys)[r] = run[r].deduped
  BY <1>9, RegisterFacts, HoldsFacts
<1>11. /\ Register(StagingKeys)' = Register(StagingKeys)
       /\ Register(CuratedKeys)' = Register(CuratedKeys)
       /\ Register(ReportKeys)' = Register(ReportKeys)
       /\ LatestOwner' = LatestOwner
  BY <1>3, KeysConstant DEF Register, LatestOwner, IsWhole, Exists, LatestReportKey
<1> QED BY <1>8, <1>10, <1>11 DEF P!Next, P!Commit

LEMMA InitPublication == Init => P!Init
<1> SUFFICES ASSUME Init PROVE P!Init
  OBVIOUS
<1>1. DOMAIN objects = {} /\ manifests = {}
  BY DEF Init
<1>2. ASSUME NEW key PROVE Register(key) = [r \in {} |-> <<>>]
  BY <1>1 DEF Register, IsWhole, Exists
<1>3. Counted = [r \in {} |-> <<>>] /\ LatestOwner = {}
  BY <1>1 DEF Counted, LatestOwner, IsWhole, Exists
<1> QED BY <1>2, <1>3 DEF P!Init, P!Empty

LEMMA NextPublication == IInv /\ [Next]_vars => [P!Next]_(P!registers)
<1> SUFFICES ASSUME IInv, [Next]_vars PROVE [P!Next]_(P!registers)
  OBVIOUS
<1>1. CASE objects' = objects /\ manifests' = manifests
  BY <1>1, Unseen, QuietSame
<1>2. ASSUME NEW r \in Runs, PersistRaw(r)
      PROVE  [P!Next]_(P!registers)
  <2>1. PICK k : k = RawKey(r, run[r].page)
    OBVIOUS
  <2>2. Put(r, k, <<>>, "parse") /\ manifests' = manifests
    BY <1>2, <2>1 DEF PersistRaw
  <2> QED BY <2>1, <2>2, PutElsewhere, KeysDiffer, Unseen
<1>3. ASSUME NEW r \in Runs, PersistQuarantine(r)
      PROVE  [P!Next]_(P!registers)
  <2>1. PICK k : k = QuarantineKey(r)
    OBVIOUS
  <2>2. Put(r, k, run[r].rejected, "report") /\ manifests' = manifests
    BY <1>3, <2>1 DEF PersistQuarantine
  <2> QED BY <2>1, <2>2, PutElsewhere, KeysDiffer, Unseen
<1>4. ASSUME NEW r \in Runs, PersistReport(r)
      PROVE  [P!Next]_(P!registers)
  BY <1>4, ReportStep, LatestStep DEF PersistReport
<1>5. ASSUME NEW r \in Runs, Start(r) \/ Step(r) \/ Abort(r)
      PROVE  [P!Next]_(P!registers)
  BY <1>1, <1>2, <1>3, <1>4, <1>5, StagingStep, CuratedStep, SaveStep
     DEF Start, Step, Abort, Parse, DropSeen, FindUnseen, MarkSeen, Evaluate
<1> QED BY <1>1, <1>5 DEF Next, NewDay, vars

\* To a reader of the store, any number of runs that overlap, fail and die are
\* the write-once registers of Publication: no order of their steps shows a
\* part that was not staged first, a report that does not say what was
\* published, or a manifest whose run is not complete.
THEOREM Refines == Spec => Publishes
BY InitPublication, NextPublication, Invariance, PTL DEF Spec, Publishes, P!Spec

=============================================================================
