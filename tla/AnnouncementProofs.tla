------------------------- MODULE AnnouncementProofs -------------------------
(***************************************************************************)
(* Proofs about what Reconcile makes known: that every row is announced,   *)
(* that announcements agree with the table, that an opening is announced   *)
(* once per episode, and that a finding resolves only after as many scans  *)
(* without it as its module asks for.                                      *)
(***************************************************************************)
EXTENDS ReconcileProofs

-----------------------------------------------------------------------------
(* Announcements under overlap.  A row is made by InsertNew alone, which puts *)
(* it into the result; that a Refresh, a MarkAbsent or a status change makes  *)
(* none rests on their copies being of rows that are still there.             *)

\* The copies in flight are of findings that have a row.
CopiesOnRecord ==
  /\ \A s \in Scanners : scan[s].busy =>
       \A fp \in Fingerprints :
         scan[s].existing[fp].status # "none" => store[fp].status # "none"
  /\ \A h \in Handlers : edit[h].busy => store[edit[h].fp].status # "none"

AnnounceInv == RowInv /\ CopiesOnRecord /\ AnnouncedIfUndisturbed

\* The result of scan s will tell of the finding.
InResult(s, fp) == scan[s].busy /\ \E e \in scan[s].newlyOpen : e.fp = fp

Announced(fp) == told[fp].kind # "none" \/ \E s \in Scanners : InResult(s, fp)

LEMMA AnnouncedSpelled ==
  AnnouncedIfUndisturbed <=>
    (Undisturbed => \A fp \in Fingerprints : store[fp].status # "none" => Announced(fp))
  BY DEF AnnouncedIfUndisturbed, EveryRecordAnnounced, Announced, InResult

LEMMA AnnounceInit == Init => AnnounceInv
<1> SUFFICES ASSUME Init PROVE AnnounceInv
  OBVIOUS
<1>1. \A fp \in Fingerprints : store[fp].status = "none"
  BY DEF Init, NoRecord
<1>2. CopiesOnRecord
  BY DEF Init, CopiesOnRecord, IdleScan, IdleEdit
<1>3. QED
  BY <1>1, <1>2, RowInvInit, AnnouncedSpelled DEF AnnounceInv

\* Faults and crashes are not taken back.
LEMMA DisturbanceStays == TypeOK /\ [Next]_vars /\ Undisturbed' => Undisturbed
<1> SUFFICES ASSUME TypeOK, [Next]_vars
             PROVE  faults' >= faults /\ crashes' >= crashes
  BY StepType DEF Undisturbed, TypeOK
<1> USE DEF TypeOK
<1>1. ASSUME NEW s \in Scanners, ScanStep(s)
      PROVE  faults' >= faults /\ crashes' >= crashes
  <2>1. ASSUME NEW t \in Targets, NEW returned, NEW malformed,
               ListByTarget(s, t, returned, malformed)
        PROVE  faults' = faults /\ crashes' = crashes
    BY <2>1 DEF ListByTarget
  <2>2. ASSUME NEW fp \in Fingerprints,
               InsertNew(s, fp) \/ Refresh(s, fp) \/ MarkAbsent(s, fp)
        PROVE  faults' = faults /\ crashes' = crashes
    BY <2>2 DEF InsertNew, Refresh, MarkAbsent
  <2>3. OnResult(s) => faults' = faults /\ crashes' = crashes
    BY DEF OnResult
  <2>4. UpsertFails(s) => faults' = faults + 1 /\ crashes' = crashes
    BY DEF UpsertFails
  <2>5. (faults' = faults /\ crashes' = crashes) \/ UpsertFails(s)
    BY <1>1, <2>1, <2>2, <2>3 DEF ScanStep
  <2>6. QED
    BY <2>4, <2>5
<1>2. ASSUME NEW h \in Handlers, EditStep(h)
      PROVE  faults' >= faults /\ crashes' >= crashes
  BY <1>2 DEF EditStep, GetForStatus, UpsertStatus, UpsertStatusFails
<1>3. CASE Crash
  BY <1>3 DEF Crash
<1>4. CASE UNCHANGED vars
  BY <1>4 DEF vars
<1>5. QED
  BY <1>1, <1>2, <1>3, <1>4 DEF Next

\* What keeps the invariant: a step that keeps the rows on record, whose new
\* copies are of rows, and that announces the rows it makes and forgets no
\* announcement.
LEMMA AnnounceFrom ==
  ASSUME AnnounceInv, [Next]_vars, CopiesOnRecord',
         Undisturbed' => \A fp \in Fingerprints :
           /\ Announced(fp) => Announced(fp)'
           /\ store'[fp].status # "none" => store[fp].status # "none" \/ Announced(fp)'
  PROVE  AnnounceInv'
<1>1. RowInv'
  BY RowInvStep DEF AnnounceInv
<1>2. Undisturbed' => Undisturbed
  BY DisturbanceStays DEF AnnounceInv, RowInv
<1>3. (Undisturbed => \A fp \in Fingerprints : store[fp].status # "none" => Announced(fp))
  BY AnnouncedSpelled DEF AnnounceInv
<1>4. (Undisturbed => \A fp \in Fingerprints : store[fp].status # "none" => Announced(fp))'
  BY <1>2, <1>3
<1>5. AnnouncedIfUndisturbed'
  BY <1>4, AnnouncedSpelled, PTL
<1>6. QED
  BY <1>1, <1>5 DEF AnnounceInv

\* Rows stay on record.
LEMMA RowsStay ==
  ASSUME RowInv, [Next]_vars, NEW fp \in Fingerprints, store[fp].status # "none"
  PROVE  store'[fp].status # "none"
  BY RowInvStep DEF KeepsIdentity, vars

\* The three writes of a scan: what they leave alone, and that only an insert
\* makes a row.
LEMMA ScanWriteAnnounces ==
  ASSUME AnnounceInv, NEW s \in Scanners, NEW fp \in Fingerprints,
         InsertNew(s, fp) \/ Refresh(s, fp) \/ MarkAbsent(s, fp)
  PROVE  /\ \A x \in Scanners \ {s} : scan'[x] = scan[x]
         /\ scan[s].busy /\ scan'[s].busy /\ scan'[s].existing = scan[s].existing
         /\ scan[s].newlyOpen \subseteq scan'[s].newlyOpen
         /\ UNCHANGED <<edit, told>>
         /\ \A g \in Fingerprints \ {fp} : store'[g] = store[g]
         /\ store[fp].status # "none" \/ InResult(s, fp)'
<1> USE DEF AnnounceInv, RowInv
<1>1. scan[s] \in BusyScan /\ scan[s].busy
  BY BusyScanType DEF InsertNew, Refresh, MarkAbsent
<1>2. scan \in [Scanners -> {IdleScan} \cup BusyScan] /\ store \in [Fingerprints -> Record]
  BY DEF TypeOK
<1>3. \A g \in Fingerprints \ {fp} : store'[g] = store[g]
  <2>1. PICK r \in Record : Upsert(fp, r)
    BY ScanWrites
  <2>2. QED
    BY <1>2, <2>1, UpsertOne
<1>4. UNCHANGED <<edit, told>>
  BY DEF InsertNew, Refresh, MarkAbsent
<1>5. /\ \A x \in Scanners \ {s} : scan'[x] = scan[x]
      /\ scan'[s].busy /\ scan'[s].existing = scan[s].existing
      /\ scan[s].newlyOpen \subseteq scan'[s].newlyOpen
  <2>1. CASE InsertNew(s, fp)
    BY <1>1, <1>2, <2>1 DEF InsertNew, BusyScan, WithEvent
  <2>2. CASE Refresh(s, fp)
    BY <1>1, <1>2, <2>2 DEF Refresh, BusyScan, WithEvent
  <2>3. CASE MarkAbsent(s, fp)
    BY <1>1, <1>2, <2>3 DEF MarkAbsent, BusyScan
  <2>4. QED
    BY <2>1, <2>2, <2>3
<1>6. store[fp].status # "none" \/ InResult(s, fp)'
  <2>1. CASE InsertNew(s, fp)
    <3>1. [fp |-> fp, id |-> nextID + 1] \in scan'[s].newlyOpen
      BY <1>1, <1>2, <2>1 DEF InsertNew, BusyScan, WithEvent
    <3>2. QED
      BY <1>5, <3>1 DEF InResult
  <2>2. CASE Refresh(s, fp)
    BY <1>1, <2>2 DEF Refresh, CopiesOnRecord
  <2>3. CASE MarkAbsent(s, fp)
    BY <1>1, <2>3 DEF MarkAbsent, SnapshotSound, CountsAbsence, CopiesOnRecord
  <2>4. QED
    BY <2>1, <2>2, <2>3
<1>7. QED
  BY <1>1, <1>3, <1>4, <1>5, <1>6

\* What is handed over is heard, and nothing heard before is unheard.
LEMMA ResultIsTold ==
  ASSUME TypeOK, NEW s \in Scanners, OnResult(s), NEW fp \in Fingerprints,
         told[fp].kind # "none" \/ InResult(s, fp)
  PROVE  told'[fp].kind # "none"
<1>1. told'[fp] = LatestEvent(fp, scan[s].newlyOpen, scan[s].resolved)
  BY DEF OnResult
<1>2. QED
  BY <1>1 DEF LatestEvent, InResult

LEMMA AnnounceStep == AnnounceInv /\ [Next]_vars => AnnounceInv'
<1> SUFFICES ASSUME AnnounceInv, [Next]_vars PROVE AnnounceInv'
  OBVIOUS
<1> USE DEF Announced
<1>0. /\ scan \in [Scanners -> {IdleScan} \cup BusyScan]
      /\ edit \in [Handlers -> {IdleEdit} \cup BusyEdit]
      /\ TypeOK /\ RowInv /\ CopiesOnRecord
  BY DEF AnnounceInv, RowInv, TypeOK
<1>1. ASSUME NEW s \in Scanners, ScanStep(s)
      PROVE  AnnounceInv'
  <2>1. ASSUME NEW t \in Targets, NEW returned \in SUBSET FingerprintsOf(t),
               NEW malformed \in SUBSET returned,
               ListByTarget(s, t, returned, malformed)
        PROVE  AnnounceInv'
    <3>1. /\ \A x \in Scanners \ {s} : scan'[x] = scan[x]
          /\ ~scan[s].busy
          /\ scan'[s].existing = [fp \in Fingerprints |->
               IF TargetOf[fp] = t THEN store[fp] ELSE NoRecord]
          /\ UNCHANGED <<store, edit, told>>
      BY <1>0, <2>1 DEF ListByTarget
    <3>2. CopiesOnRecord'
      BY <1>0, <3>1 DEF CopiesOnRecord, NoRecord
    <3>3. ASSUME NEW fp \in Fingerprints, NEW x \in Scanners, InResult(x, fp)
          PROVE  InResult(x, fp)'
      BY <3>1, <3>3 DEF InResult
    <3>4. QED
      BY <3>1, <3>2, <3>3, AnnounceFrom
  <2>2. ASSUME NEW fp \in Fingerprints,
               InsertNew(s, fp) \/ Refresh(s, fp) \/ MarkAbsent(s, fp)
        PROVE  AnnounceInv'
    <3>1. /\ \A x \in Scanners \ {s} : scan'[x] = scan[x]
          /\ scan[s].busy /\ scan'[s].busy /\ scan'[s].existing = scan[s].existing
          /\ scan[s].newlyOpen \subseteq scan'[s].newlyOpen
          /\ UNCHANGED <<edit, told>>
          /\ \A g \in Fingerprints \ {fp} : store'[g] = store[g]
          /\ store[fp].status # "none" \/ InResult(s, fp)'
      BY <2>2, ScanWriteAnnounces
    <3>2. \A g \in Fingerprints : store[g].status # "none" => store'[g].status # "none"
      BY <1>0, RowsStay
    <3>3. \A h \in Handlers : edit[h].busy => edit[h].fp \in Fingerprints
      BY <1>0, BusyEditType DEF BusyEdit
    <3>4. CopiesOnRecord'
      BY <1>0, <3>1, <3>2, <3>3 DEF CopiesOnRecord
    <3>5. ASSUME NEW g \in Fingerprints, NEW x \in Scanners, InResult(x, g)
          PROVE  InResult(x, g)'
      BY <3>1, <3>5 DEF InResult
    <3>6. QED
      BY <3>1, <3>4, <3>5, AnnounceFrom
  <2>3. CASE OnResult(s)
    <3>1. \A x \in Scanners : x = s \/ scan'[x] = scan[x]
      BY <1>0, <2>3 DEF OnResult
    <3>2. ~scan'[s].busy /\ UNCHANGED <<store, edit>>
      BY <1>0, <2>3 DEF OnResult, IdleScan
    <3>3. CopiesOnRecord'
      BY <1>0, <3>1, <3>2 DEF CopiesOnRecord
    <3>4. ASSUME NEW fp \in Fingerprints, NEW x \in Scanners \ {s}, InResult(x, fp)
          PROVE  InResult(x, fp)'
      BY <3>1, <3>4 DEF InResult
    <3>5. \A fp \in Fingerprints : Announced(fp) => Announced(fp)'
      BY <1>0, <2>3, <3>4, ResultIsTold
    <3>6. QED
      BY <3>2, <3>3, <3>5, AnnounceFrom
  <2>4. CASE UpsertFails(s)
    <3>1. \A x \in Scanners : x = s \/ scan'[x] = scan[x]
      BY <1>0, <2>4 DEF UpsertFails
    <3>2. ~scan'[s].busy /\ UNCHANGED <<store, edit>> /\ ~Undisturbed'
      BY <1>0, <2>4 DEF UpsertFails, IdleScan, Undisturbed, TypeOK
    <3>3. CopiesOnRecord'
      BY <1>0, <3>1, <3>2 DEF CopiesOnRecord
    <3>4. QED
      BY <3>2, <3>3, AnnounceFrom
  <2>5. \A S : {} \in SUBSET S
    OBVIOUS
  <2>6. QED
    BY <1>1, <2>1, <2>2, <2>3, <2>4, <2>5 DEF ScanStep
<1>2. ASSUME NEW h \in Handlers, EditStep(h)
      PROVE  AnnounceInv'
  <2>1. UNCHANGED <<scan, told>>
    BY <1>2 DEF EditStep, GetForStatus, UpsertStatus, UpsertStatusFails
  <2>2. \A fp \in Fingerprints : Announced(fp) => Announced(fp)'
    BY <2>1 DEF InResult
  <2>3. \A g \in Fingerprints : store[g].status # "none" => store'[g].status # "none"
    BY <1>0, RowsStay
  <2>4. \A x \in Handlers : edit[x].busy => edit[x].fp \in Fingerprints
    BY <1>0, BusyEditType DEF BusyEdit
  <2>5. /\ \A x \in Handlers \ {h} : edit'[x] = edit[x]
        /\ edit'[h].busy => store[edit'[h].fp].status # "none" /\ edit'[h].fp \in Fingerprints
    <3>1. ASSUME NEW fp \in Fingerprints, NEW next \in UserStatuses, GetForStatus(h, fp, next)
          PROVE  edit'[h].fp = fp /\ store[fp].status # "none"
      BY <1>0, <3>1 DEF GetForStatus
    <3>2. CASE UpsertStatus(h) \/ UpsertStatusFails(h)
      BY <1>0, <3>2 DEF UpsertStatus, UpsertStatusFails, IdleEdit
    <3>3. \A x \in Handlers \ {h} : edit'[x] = edit[x]
      BY <1>0, <1>2 DEF EditStep, GetForStatus, UpsertStatus, UpsertStatusFails
    <3>4. QED
      BY <1>2, <3>1, <3>2, <3>3 DEF EditStep
  <2>6. CopiesOnRecord'
    BY <1>0, <2>1, <2>3, <2>4, <2>5 DEF CopiesOnRecord
  <2>7. \A g \in Fingerprints : store'[g].status # "none" => store[g].status # "none"
    <3>1. CASE UpsertStatus(h)
      <4>1. /\ edit[h].fp \in Fingerprints /\ edit[h].record \in Record
            /\ Upsert(edit[h].fp, edit[h].record)
            /\ store[edit[h].fp].status # "none"
        BY <1>0, <3>1, BusyEditType DEF UpsertStatus, BusyEdit, CopiesOnRecord
      <4>2. \A g \in Fingerprints \ {edit[h].fp} : store'[g] = store[g]
        BY <1>0, <4>1, UpsertOne DEF TypeOK
      <4>3. QED
        BY <4>1, <4>2
    <3>2. CASE UNCHANGED store
      BY <3>2
    <3>3. QED
      BY <1>2, <3>1, <3>2 DEF EditStep, GetForStatus, UpsertStatusFails
  <2>8. QED
    BY <2>2, <2>6, <2>7, AnnounceFrom
<1>3. CASE Crash
  <2>1. CopiesOnRecord' /\ ~Undisturbed'
    BY <1>0, <1>3 DEF Crash, CopiesOnRecord, IdleScan, IdleEdit, Undisturbed, TypeOK
  <2>2. QED
    BY <2>1, AnnounceFrom
<1>4. CASE UNCHANGED vars
  <2>1. CopiesOnRecord' /\ UNCHANGED <<store, told, scan>>
    BY <1>0, <1>4 DEF vars, CopiesOnRecord
  <2>2. QED
    BY <2>1, AnnounceFrom DEF InResult
<1>5. QED
  BY <1>1, <1>2, <1>3, <1>4 DEF Next

\* While no write fails and nothing crashes, every row is announced, or in the
\* result of a call still running, however scans and status changes overlap.
THEOREM OverlapAnnounces == Spec => []AnnouncedIfUndisturbed
<1>1. AnnounceInv => AnnouncedIfUndisturbed
  BY DEF AnnounceInv
<1>2. QED
  BY <1>1, AnnounceInit, AnnounceStep, PTL DEF Spec

-----------------------------------------------------------------------------
(* Announcements without overlap.  Between two writes of a scan the table is  *)
(* ahead of what was told by the result so far, so the invariant compares the *)
(* table with what subscribers will have heard once the results under way are *)
(* handed over.                                                               *)

About(events, fp) == \E e \in events : e.fp = fp

OpenedIn(s, fp)   == scan[s].busy /\ About(scan[s].newlyOpen, fp)
ResolvedIn(s, fp) == scan[s].busy /\ About(scan[s].resolved, fp)

\* What subscribers know of the finding with the results under way.
Heard(fp) ==
  IF \E s \in Scanners : ResolvedIn(s, fp) THEN "resolved"
  ELSE IF \E s \in Scanners : OpenedIn(s, fp) THEN "opened"
  ELSE told[fp].kind

HeardMatches(fp) ==
  /\ (store[fp].status = "none") <=> (Heard(fp) = "none")
  /\ store[fp].status = "resolved" => Heard(fp) = "resolved"
  /\ Heard(fp) = "resolved" => store[fp].status \in {"resolved", decided[fp]}

\* A result is about findings of its scan's target that are done with.
ResultSound ==
  \A s \in Scanners, fp \in Fingerprints : OpenedIn(s, fp) \/ ResolvedIn(s, fp) =>
    /\ TargetOf[fp] = scan[s].target
    /\ fp \notin scan[s].todo \cup scan[s].gone

\* No opening is about to be told that was told last.
OpeningIsNews ==
  \A s \in Scanners, fp \in Fingerprints : OpenedIn(s, fp) => told[fp].kind # "opened"

MatchInv ==
  /\ RowInv /\ SerialInv
  /\ ResultSound
  /\ Undisturbed => OpeningIsNews /\ \A fp \in Fingerprints : HeardMatches(fp)

LEMMA MatchInit == Init => MatchInv
<1> SUFFICES ASSUME Init PROVE MatchInv
  OBVIOUS
<1>1. /\ \A s \in Scanners : ~scan[s].busy
      /\ \A fp \in Fingerprints : store[fp].status = "none" /\ told[fp].kind = "none"
  BY DEF Init, IdleScan, NoRecord
<1>2. \A s \in Scanners, fp \in Fingerprints : ~OpenedIn(s, fp) /\ ~ResolvedIn(s, fp)
  BY <1>1 DEF OpenedIn, ResolvedIn
<1>3. \A fp \in Fingerprints : HeardMatches(fp)
  BY <1>1, <1>2 DEF HeardMatches, Heard
<1>4. QED
  BY <1>2, <1>3, RowInvInit, SerialInit DEF MatchInv, ResultSound, OpeningIsNews

\* What a step that tells nobody and adds nothing about a finding leaves heard.
LEMMA HeardSame ==
  ASSUME NEW fp \in Fingerprints, told'[fp] = told[fp],
         \A s \in Scanners : /\ OpenedIn(s, fp)' <=> OpenedIn(s, fp)
                             /\ ResolvedIn(s, fp)' <=> ResolvedIn(s, fp)
  PROVE  Heard(fp)' = Heard(fp)
  BY DEF Heard

\* Of a finding a scan has yet to write, no result tells.
LEMMA NothingYet ==
  ASSUME SerialInv, ResultSound, NEW s \in Scanners, scan[s].busy,
         NEW fp \in Fingerprints, fp \in scan[s].todo \cup scan[s].gone
  PROVE  \A x \in Scanners : ~OpenedIn(x, fp) /\ ~ResolvedIn(x, fp)
<1> SUFFICES ASSUME NEW x \in Scanners, OpenedIn(x, fp) \/ ResolvedIn(x, fp)
             PROVE  FALSE
  OBVIOUS
<1>1. scan[x].busy /\ TargetOf[fp] = scan[x].target /\ fp \notin scan[x].todo \cup scan[x].gone
  BY DEF OpenedIn, ResolvedIn, ResultSound
<1>2. TargetOf[fp] = scan[s].target
  BY DEF SerialInv
<1>3. x = s
  BY <1>1, <1>2 DEF SerialInv
<1>4. QED
  BY <1>1, <1>3

\* Only the scan of its target tells of a finding.
LEMMA OneTeller ==
  ASSUME SerialInv, ResultSound, NEW s \in Scanners, scan[s].busy,
         NEW fp \in Fingerprints, TargetOf[fp] = scan[s].target,
         NEW x \in Scanners \ {s}
  PROVE  ~OpenedIn(x, fp) /\ ~ResolvedIn(x, fp)
  BY DEF SerialInv, ResultSound, OpenedIn, ResolvedIn

\* What a scan's write does to its result.
LEMMA ScanWriteResult ==
  ASSUME RowInv, SerialInv, NEW s \in Scanners, NEW fp \in Fingerprints,
         InsertNew(s, fp) \/ Refresh(s, fp) \/ MarkAbsent(s, fp)
  PROVE  /\ \A x \in Scanners \ {s} : scan'[x] = scan[x]
         /\ scan[s].busy /\ scan'[s].busy /\ scan'[s].target = scan[s].target
         /\ fp \in scan[s].todo \cup scan[s].gone
         /\ scan'[s].todo \cup scan'[s].gone \subseteq (scan[s].todo \cup scan[s].gone) \ {fp}
         /\ UNCHANGED <<edit, told, decided, faults, crashes>>
         /\ \A g \in Fingerprints \ {fp} :
              /\ About(scan'[s].newlyOpen, g) <=> About(scan[s].newlyOpen, g)
              /\ About(scan'[s].resolved, g) <=> About(scan[s].resolved, g)
<1>1. scan[s] \in BusyScan /\ scan[s].busy
  BY BusyScanType DEF RowInv, InsertNew, Refresh, MarkAbsent
<1>2. scan \in [Scanners -> {IdleScan} \cup BusyScan]
  BY DEF RowInv, TypeOK
<1>3. fp \in scan[s].todo \cup scan[s].gone
  BY DEF InsertNew, Refresh, MarkAbsent
<1>4. fp \notin scan[s].todo \cap scan[s].gone
  BY <1>1, <1>3 DEF SerialInv
<1>5. UNCHANGED <<edit, told, decided, faults, crashes>>
  BY DEF InsertNew, Refresh, MarkAbsent
<1>6. ASSUME NEW events, NEW id, NEW g \in Fingerprints \ {fp}
      PROVE  About(WithEvent(events, fp, id), g) <=> About(events, g)
  BY DEF About, WithEvent
<1>7. CASE InsertNew(s, fp)
  <2>1. /\ \A x \in Scanners \ {s} : scan'[x] = scan[x]
        /\ scan'[s].busy /\ scan'[s].target = scan[s].target
        /\ scan'[s].todo = scan[s].todo \ {fp} /\ scan'[s].gone = scan[s].gone
        /\ scan'[s].newlyOpen = WithEvent(scan[s].newlyOpen, fp, nextID + 1)
        /\ scan'[s].resolved = scan[s].resolved
        /\ fp \in scan[s].todo
    BY <1>1, <1>2, <1>7 DEF InsertNew, BusyScan
  <2>2. QED
    BY <1>1, <1>3, <1>4, <1>5, <1>6, <2>1
<1>8. CASE Refresh(s, fp)
  <2>1. /\ \A x \in Scanners \ {s} : scan'[x] = scan[x]
        /\ scan'[s].busy /\ scan'[s].target = scan[s].target
        /\ scan'[s].todo = scan[s].todo \ {fp} /\ scan'[s].gone = scan[s].gone
        /\ \/ scan'[s].newlyOpen = WithEvent(scan[s].newlyOpen, fp, scan[s].existing[fp].id)
           \/ scan'[s].newlyOpen = scan[s].newlyOpen
        /\ scan'[s].resolved = scan[s].resolved
        /\ fp \in scan[s].todo
    BY <1>1, <1>2, <1>8 DEF Refresh, BusyScan
  <2>2. QED
    BY <1>1, <1>3, <1>4, <1>5, <1>6, <2>1
<1>9. CASE MarkAbsent(s, fp)
  <2>1. /\ \A x \in Scanners \ {s} : scan'[x] = scan[x]
        /\ scan'[s].busy /\ scan'[s].target = scan[s].target
        /\ scan'[s].todo = scan[s].todo /\ scan'[s].gone = scan[s].gone \ {fp}
        /\ scan'[s].newlyOpen = scan[s].newlyOpen
        /\ \/ scan'[s].resolved = WithEvent(scan[s].resolved, fp, scan[s].existing[fp].id)
           \/ scan'[s].resolved = scan[s].resolved
        /\ fp \in scan[s].gone
    BY <1>1, <1>2, <1>9 DEF MarkAbsent, BusyScan
  <2>2. QED
    BY <1>1, <1>3, <1>4, <1>5, <1>6, <2>1
<1>10. QED
  BY <1>7, <1>8, <1>9

\* A status a scan writes is one it announces, or the one there was.
LEMMA ScanWriteTells ==
  ASSUME MatchInv, NEW s \in Scanners, NEW fp \in Fingerprints,
         InsertNew(s, fp) \/ Refresh(s, fp) \/ MarkAbsent(s, fp)
  PROVE  \/ /\ store[fp].status \in {"none", "resolved"} /\ store'[fp].status = "open"
            /\ OpenedIn(s, fp)' /\ ~ResolvedIn(s, fp)'
         \/ /\ store[fp].status # "none" /\ store'[fp].status = "resolved"
            /\ ResolvedIn(s, fp)'
            /\ ~OpenedIn(s, fp)'
         \/ /\ store'[fp].status = store[fp].status
            /\ ~OpenedIn(s, fp)' /\ ~ResolvedIn(s, fp)'
<1> DEFINE prev == scan[s].existing[fp]
           at == scan[s].at
<1> USE DEF MatchInv
<1>1. scan[s] \in BusyScan /\ scan[s].busy /\ scan'[s].busy
  BY BusyScanType, ScanWriteResult DEF RowInv, InsertNew, Refresh, MarkAbsent
<1>2. /\ prev \in Record /\ at \in Nat /\ nextID + 1 \in Nat
      /\ scan \in [Scanners -> {IdleScan} \cup BusyScan]
  <2>1. prev \in Record /\ at \in Nat
    BY <1>1 DEF BusyScan
  <2>2. nextID + 1 \in Nat /\ scan \in [Scanners -> {IdleScan} \cup BusyScan]
    BY DEF RowInv, TypeOK
  <2>3. QED
    BY <2>1, <2>2
<1>3. fp \in scan[s].todo \cup scan[s].gone
  BY ScanWriteResult
<1>4. prev.status = store[fp].status
  BY <1>1, <1>3 DEF SerialInv
<1>5. ~OpenedIn(s, fp) /\ ~ResolvedIn(s, fp)
  BY <1>1, <1>3, NothingYet
<1>6. ASSUME NEW events, NEW id
      PROVE  About(WithEvent(events, fp, id), fp)
  <2>1. [fp |-> fp, id |-> id] \in WithEvent(events, fp, id)
    BY DEF WithEvent
  <2>2. QED
    BY <2>1 DEF About
<1>7. CASE InsertNew(s, fp)
  <2>1. /\ scan'[s].newlyOpen = WithEvent(scan[s].newlyOpen, fp, nextID + 1)
        /\ scan'[s].resolved = scan[s].resolved
    BY <1>1, <1>2, <1>7 DEF InsertNew, BusyScan
  <2>2. Upsert(fp, NewRecord(nextID + 1, at)) /\ prev.status = "none"
    BY <1>7 DEF InsertNew
  <2>3. store'[fp].status = "open"
    <3>1. NewRecord(nextID + 1, at) \in Record /\ NewRecord(nextID + 1, at).status = "open"
      BY <1>2, RecordTypes, WrittenStatus
    <3>2. QED
      BY <2>2, <3>1, StatusWrite DEF RowInv
  <2>4. OpenedIn(s, fp)' /\ ~ResolvedIn(s, fp)'
    BY <1>1, <1>5, <1>6, <2>1 DEF OpenedIn, ResolvedIn
  <2>5. QED
    BY <1>4, <2>2, <2>3, <2>4
<1>8. CASE Refresh(s, fp)
  <2>1. /\ scan'[s].newlyOpen = IF IsReopening(prev) THEN WithEvent(scan[s].newlyOpen, fp, prev.id)
                                ELSE scan[s].newlyOpen
        /\ scan'[s].resolved = scan[s].resolved
    BY <1>1, <1>2, <1>8 DEF Refresh, BusyScan
  <2>2. Upsert(fp, Refreshed(prev, at)) /\ prev.status # "none"
    BY <1>8 DEF Refresh
  <2>3. store'[fp].status = IF prev.status = "resolved" THEN "open" ELSE prev.status
    <3>1. /\ Refreshed(prev, at) \in Record
          /\ Refreshed(prev, at).status = IF prev.status = "resolved" THEN "open" ELSE prev.status
      BY <1>2, RecordTypes, WrittenStatus
    <3>2. QED
      BY <2>2, <3>1, StatusWrite DEF RowInv
  <2>4. ~ResolvedIn(s, fp)' /\ (OpenedIn(s, fp)' <=> IsReopening(prev))
    BY <1>1, <1>5, <1>6, <2>1 DEF OpenedIn, ResolvedIn
  <2>5. QED
    BY <1>4, <2>2, <2>3, <2>4 DEF IsReopening
<1>9. CASE MarkAbsent(s, fp)
  <2>1. /\ scan'[s].resolved = IF StreakReached(prev) THEN WithEvent(scan[s].resolved, fp, prev.id)
                               ELSE scan[s].resolved
        /\ scan'[s].newlyOpen = scan[s].newlyOpen
    BY <1>1, <1>2, <1>9 DEF MarkAbsent, BusyScan
  <2>2. Upsert(fp, MarkedAbsent(prev, at)) /\ fp \in scan[s].gone
    BY <1>9 DEF MarkAbsent
  <2>3. prev.status # "none"
    BY <1>1, <2>2 DEF RowInv, SnapshotSound, CountsAbsence
  <2>4. MarkedAbsent(prev, at).status = IF StreakReached(prev) THEN "resolved" ELSE prev.status
    BY <1>2 DEF MarkedAbsent, Record
  <2>5. store'[fp].status = IF StreakReached(prev) THEN "resolved" ELSE prev.status
    <3>1. MarkedAbsent(prev, at) \in Record
      BY <1>2, RecordTypes
    <3>2. QED
      BY <2>2, <2>4, <3>1, StatusWrite DEF RowInv
  <2>6. ~OpenedIn(s, fp)' /\ (ResolvedIn(s, fp)' <=> StreakReached(prev))
    BY <1>1, <1>5, <1>6, <2>1 DEF OpenedIn, ResolvedIn
  <2>7. QED
    BY <1>4, <2>3, <2>5, <2>6
<1>10. QED
  BY <1>7, <1>8, <1>9

\* Steps that tell nothing, write nothing and change no result keep the
\* comparison.
LEMMA NothingTold ==
  ASSUME MatchInv, [Next]_vars, SerialInv',
         UNCHANGED <<store, told, decided>>,
         \A x \in Scanners, fp \in Fingerprints :
           /\ OpenedIn(x, fp)' <=> OpenedIn(x, fp)
           /\ ResolvedIn(x, fp)' <=> ResolvedIn(x, fp)
           /\ OpenedIn(x, fp) \/ ResolvedIn(x, fp) => scan'[x] = scan[x]
  PROVE  MatchInv'
<1>1. RowInv' /\ (Undisturbed' => Undisturbed)
  BY RowInvStep, DisturbanceStays DEF MatchInv, RowInv
<1>2. ResultSound'
  BY DEF MatchInv, ResultSound
<1>3. OpeningIsNews => OpeningIsNews'
  BY DEF OpeningIsNews
<1>4. ASSUME NEW fp \in Fingerprints, HeardMatches(fp)
      PROVE  HeardMatches(fp)'
  <2>1. Heard(fp)' = Heard(fp)
    BY HeardSame
  <2>2. QED
    BY <1>4, <2>1 DEF HeardMatches
<1>5. QED
  BY <1>1, <1>2, <1>3, <1>4 DEF MatchInv

LEMMA ScanWriteMatches ==
  ASSUME MatchInv, [Next]_vars, SerialInv', NEW s \in Scanners, NEW fp \in Fingerprints,
         InsertNew(s, fp) \/ Refresh(s, fp) \/ MarkAbsent(s, fp)
  PROVE  MatchInv'
<1>1. /\ \A x \in Scanners \ {s} : scan'[x] = scan[x]
      /\ scan[s].busy /\ scan'[s].busy /\ scan'[s].target = scan[s].target
      /\ fp \in scan[s].todo \cup scan[s].gone
      /\ scan'[s].todo \cup scan'[s].gone \subseteq (scan[s].todo \cup scan[s].gone) \ {fp}
      /\ UNCHANGED <<edit, told, decided, faults, crashes>>
      /\ \A g \in Fingerprints \ {fp} :
           /\ About(scan'[s].newlyOpen, g) <=> About(scan[s].newlyOpen, g)
           /\ About(scan'[s].resolved, g) <=> About(scan[s].resolved, g)
  BY ScanWriteResult DEF MatchInv
<1>2. \A x \in Scanners : ~OpenedIn(x, fp) /\ ~ResolvedIn(x, fp)
  BY <1>1, NothingYet DEF MatchInv
<1>3. \A x \in Scanners \ {s}, g \in Fingerprints :
        /\ OpenedIn(x, g)' <=> OpenedIn(x, g)
        /\ ResolvedIn(x, g)' <=> ResolvedIn(x, g)
  BY <1>1 DEF OpenedIn, ResolvedIn
<1>4. \A x \in Scanners, g \in Fingerprints \ {fp} :
        /\ OpenedIn(x, g)' <=> OpenedIn(x, g)
        /\ ResolvedIn(x, g)' <=> ResolvedIn(x, g)
  <2>1. \A g \in Fingerprints \ {fp} : /\ OpenedIn(s, g)' <=> OpenedIn(s, g)
                                       /\ ResolvedIn(s, g)' <=> ResolvedIn(s, g)
    BY <1>1 DEF OpenedIn, ResolvedIn
  <2>2. QED
    BY <1>3, <2>1
<1>5. \A g \in Fingerprints \ {fp} : store'[g] = store[g]
  BY ScanWriteRefines DEF MatchInv
<1>6. \/ /\ store[fp].status \in {"none", "resolved"} /\ store'[fp].status = "open"
         /\ OpenedIn(s, fp)' /\ ~ResolvedIn(s, fp)'
      \/ /\ store[fp].status # "none" /\ store'[fp].status = "resolved"
         /\ ResolvedIn(s, fp)'
         /\ ~OpenedIn(s, fp)'
      \/ /\ store'[fp].status = store[fp].status
         /\ ~OpenedIn(s, fp)' /\ ~ResolvedIn(s, fp)'
  BY ScanWriteTells
<1>7. Heard(fp) = told[fp].kind
  BY <1>2 DEF Heard
<1>8. \A x \in Scanners \ {s} : ~OpenedIn(x, fp)' /\ ~ResolvedIn(x, fp)'
  BY <1>2, <1>3
<1>9. Heard(fp)' = IF ResolvedIn(s, fp)' THEN "resolved"
                   ELSE IF OpenedIn(s, fp)' THEN "opened" ELSE told[fp].kind
  <2>1. told'[fp] = told[fp]
    BY <1>1
  <2>2. QED
    BY <1>8, <2>1 DEF Heard
<1>10. ResultSound'
  <2> SUFFICES ASSUME NEW x \in Scanners, NEW g \in Fingerprints,
                      OpenedIn(x, g)' \/ ResolvedIn(x, g)'
               PROVE  /\ TargetOf[g] = scan'[x].target
                      /\ g \notin scan'[x].todo \cup scan'[x].gone
    BY DEF ResultSound
  <2>1. CASE x = s /\ g = fp
    BY <1>1, <2>1 DEF MatchInv, SerialInv
  <2>2. CASE g # fp
    <3>1. OpenedIn(x, g) \/ ResolvedIn(x, g)
      BY <1>4, <2>2
    <3>2. TargetOf[g] = scan[x].target /\ g \notin scan[x].todo \cup scan[x].gone
      BY <3>1 DEF MatchInv, ResultSound
    <3>3. QED
      BY <1>1, <3>2
  <2>3. CASE x # s /\ g = fp
    BY <1>8, <2>3
  <2>4. QED
    BY <2>1, <2>2, <2>3
<1>11. ASSUME \A g \in Fingerprints : HeardMatches(g)
       PROVE  \A g \in Fingerprints : HeardMatches(g)'
  <2> SUFFICES ASSUME NEW g \in Fingerprints PROVE HeardMatches(g)'
    OBVIOUS
  <2>1. HeardMatches(g)
    BY <1>11
  <2>2. CASE g # fp
    <3>1. Heard(g)' = Heard(g)
      BY <1>1, <1>4, <2>2, HeardSame
    <3>2. QED
      BY <1>1, <1>5, <2>1, <2>2, <3>1 DEF HeardMatches
  <2>3. CASE g = fp
    <3>1. UNCHANGED decided
      BY <1>1
    <3>2. QED
      BY <1>6, <1>7, <1>9, <2>1, <2>3, <3>1 DEF HeardMatches
  <2>4. QED
    BY <2>2, <2>3
<1>12. ASSUME OpeningIsNews, HeardMatches(fp)
       PROVE  OpeningIsNews'
  <2> SUFFICES ASSUME NEW x \in Scanners, NEW g \in Fingerprints, OpenedIn(x, g)'
               PROVE  told'[g].kind # "opened"
    BY DEF OpeningIsNews
  <2>1. told' = told
    BY <1>1
  <2>2. CASE g # fp
    BY <1>4, <1>12, <2>1, <2>2 DEF OpeningIsNews
  <2>3. CASE g = fp
    <3>1. x = s
      BY <1>8, <2>3
    <3>2. store[fp].status \in {"none", "resolved"}
      BY <1>6, <2>3, <3>1
    <3>3. told[fp].kind \in {"none", "resolved"}
      BY <1>7, <1>12, <3>2 DEF HeardMatches
    <3>4. QED
      BY <2>1, <2>3, <3>3
  <2>4. QED
    BY <2>2, <2>3
<1>13. RowInv' /\ (Undisturbed' => Undisturbed)
  BY RowInvStep, DisturbanceStays DEF MatchInv, RowInv
<1>14. QED
  BY <1>10, <1>11, <1>12, <1>13 DEF MatchInv

\* Handing a result over makes told what was heard of it.
LEMMA OnResultMatches ==
  ASSUME MatchInv, [Next]_vars, SerialInv', NEW s \in Scanners, OnResult(s)
  PROVE  MatchInv'
<1>1. /\ scan[s].busy
      /\ \A fp \in Fingerprints :
           told'[fp] = LatestEvent(fp, scan[s].newlyOpen, scan[s].resolved)
      /\ UNCHANGED <<store, decided>>
  BY DEF OnResult
<1>2. ~scan'[s].busy /\ \A x \in Scanners \ {s} : scan'[x] = scan[x]
  BY DEF OnResult, IdleScan, MatchInv, RowInv, TypeOK
<1>3. /\ \A fp \in Fingerprints : ~OpenedIn(s, fp)' /\ ~ResolvedIn(s, fp)'
      /\ \A x \in Scanners \ {s}, fp \in Fingerprints :
           /\ OpenedIn(x, fp)' <=> OpenedIn(x, fp)
           /\ ResolvedIn(x, fp)' <=> ResolvedIn(x, fp)
  BY <1>2 DEF OpenedIn, ResolvedIn
<1>4. ASSUME NEW fp \in Fingerprints
      PROVE  told'[fp].kind = IF ResolvedIn(s, fp) THEN "resolved"
                              ELSE IF OpenedIn(s, fp) THEN "opened" ELSE told[fp].kind
  <2>1. told'[fp] = LatestEvent(fp, scan[s].newlyOpen, scan[s].resolved)
    BY <1>1
  <2>2. /\ ResolvedIn(s, fp) <=> \E e \in scan[s].resolved : e.fp = fp
        /\ OpenedIn(s, fp) <=> \E e \in scan[s].newlyOpen : e.fp = fp
    BY <1>1 DEF OpenedIn, ResolvedIn, About
  <2>3. CASE ResolvedIn(s, fp)
    <3>1. told'[fp] = [kind |-> "resolved", id |-> EventFor(fp, scan[s].resolved).id]
      BY <2>1, <2>2, <2>3 DEF LatestEvent
    <3>2. QED
      BY <2>3, <3>1
  <2>4. CASE ~ResolvedIn(s, fp) /\ OpenedIn(s, fp)
    <3>1. told'[fp] = [kind |-> "opened", id |-> EventFor(fp, scan[s].newlyOpen).id]
      BY <2>1, <2>2, <2>4 DEF LatestEvent
    <3>2. QED
      BY <2>4, <3>1
  <2>5. CASE ~ResolvedIn(s, fp) /\ ~OpenedIn(s, fp)
    <3>1. told'[fp] = told[fp]
      BY <2>1, <2>2, <2>5 DEF LatestEvent
    <3>2. QED
      BY <2>5, <3>1
  <2>6. QED
    BY <2>3, <2>4, <2>5
<1>5. ASSUME NEW fp \in Fingerprints, OpenedIn(s, fp) \/ ResolvedIn(s, fp)
      PROVE  \A x \in Scanners \ {s} : ~OpenedIn(x, fp) /\ ~ResolvedIn(x, fp)
  BY <1>1, <1>5, OneTeller DEF MatchInv, ResultSound
<1>6. ASSUME NEW fp \in Fingerprints
      PROVE  Heard(fp)' = Heard(fp)
  <2>1. CASE OpenedIn(s, fp) \/ ResolvedIn(s, fp)
    <3>1. \A x \in Scanners \ {s} : ~OpenedIn(x, fp) /\ ~ResolvedIn(x, fp)
      BY <1>5, <2>1
    <3>2. Heard(fp)' = told'[fp].kind
      BY <1>3, <3>1 DEF Heard
    <3>3. Heard(fp) = IF ResolvedIn(s, fp) THEN "resolved"
                      ELSE IF OpenedIn(s, fp) THEN "opened" ELSE told[fp].kind
      BY <3>1 DEF Heard
    <3>4. QED
      BY <1>4, <3>2, <3>3
  <2>2. CASE ~OpenedIn(s, fp) /\ ~ResolvedIn(s, fp)
    <3>1. told'[fp].kind = told[fp].kind
      BY <1>4, <2>2
    <3>2. \A x \in Scanners : /\ OpenedIn(x, fp)' <=> OpenedIn(x, fp)
                              /\ ResolvedIn(x, fp)' <=> ResolvedIn(x, fp)
      BY <1>3, <2>2
    <3>3. QED
      BY <3>1, <3>2 DEF Heard
  <2>3. QED
    BY <2>1, <2>2
<1>7. ResultSound'
  BY <1>2, <1>3 DEF MatchInv, ResultSound
<1>8. ASSUME OpeningIsNews
      PROVE  OpeningIsNews'
  <2> SUFFICES ASSUME NEW x \in Scanners, NEW fp \in Fingerprints, OpenedIn(x, fp)'
               PROVE  told'[fp].kind # "opened"
    BY DEF OpeningIsNews
  <2>1. x # s /\ OpenedIn(x, fp)
    BY <1>3
  <2>2. ~OpenedIn(s, fp) /\ ~ResolvedIn(s, fp)
    BY <1>5, <2>1
  <2>3. QED
    BY <1>4, <1>8, <2>1, <2>2 DEF OpeningIsNews
<1>9. ASSUME NEW fp \in Fingerprints, HeardMatches(fp)
      PROVE  HeardMatches(fp)'
  BY <1>1, <1>6, <1>9 DEF HeardMatches
<1>10. RowInv' /\ (Undisturbed' => Undisturbed)
  BY RowInvStep, DisturbanceStays DEF MatchInv, RowInv
<1>11. QED
  BY <1>7, <1>8, <1>9, <1>10 DEF MatchInv

\* The status handler changes a row that was announced, and to what the user
\* decided.
LEMMA EditMatches ==
  ASSUME MatchInv, [Next]_vars, SerialInv', NEW h \in Handlers, EditStep(h)
  PROVE  MatchInv'
<1>1. UNCHANGED <<scan, told>>
  BY DEF EditStep, GetForStatus, UpsertStatus, UpsertStatusFails
<1>2. \A x \in Scanners, fp \in Fingerprints :
        /\ OpenedIn(x, fp)' <=> OpenedIn(x, fp)
        /\ ResolvedIn(x, fp)' <=> ResolvedIn(x, fp)
  BY <1>1 DEF OpenedIn, ResolvedIn
<1>3. CASE UNCHANGED <<store, decided>>
  BY <1>1, <1>2, <1>3, NothingTold
<1>4. CASE UpsertStatus(h)
  <2> DEFINE g == edit[h].fp
             r == edit[h].record
  <2>1. /\ g \in Fingerprints /\ r \in Record /\ r.status \in UserStatuses
        /\ Upsert(g, r)
        /\ store[g].status # "none"
    BY <1>4, BusyEditType DEF UpsertStatus, BusyEdit, MatchInv, RowInv, SerialInv
  <2>2. /\ \A f \in Fingerprints \ {g} : store'[f] = store[f]
        /\ store'[g].status = r.status
    BY <2>1, StatusWrite DEF MatchInv, RowInv
  <2>3. /\ decided'[g] = r.status
        /\ \A f \in Fingerprints \ {g} : decided'[f] = decided[f]
    BY <1>4, <2>1 DEF UpsertStatus, MatchInv, RowInv, TypeOK
  <2>4. ASSUME NEW fp \in Fingerprints, HeardMatches(fp)
        PROVE  HeardMatches(fp)'
    <3>1. Heard(fp)' = Heard(fp)
      BY <1>1, <1>2, HeardSame
    <3>2. CASE fp = g
      BY <2>1, <2>2, <2>3, <2>4, <3>1, <3>2 DEF HeardMatches, UserStatuses
    <3>3. CASE fp # g
      BY <2>2, <2>3, <2>4, <3>1, <3>3 DEF HeardMatches
    <3>4. QED
      BY <3>2, <3>3
  <2>5. ResultSound' /\ (OpeningIsNews => OpeningIsNews')
    BY <1>1, <1>2 DEF MatchInv, ResultSound, OpeningIsNews
  <2>6. RowInv' /\ (Undisturbed' => Undisturbed)
    BY RowInvStep, DisturbanceStays DEF MatchInv, RowInv
  <2>7. QED
    BY <2>4, <2>5, <2>6 DEF MatchInv
<1>5. QED
  BY <1>3, <1>4 DEF EditStep, GetForStatus, UpsertStatusFails

LEMMA MatchStep ==
  ASSUME Overlap = FALSE
  PROVE  MatchInv /\ [Next]_vars => MatchInv'
<1> SUFFICES ASSUME MatchInv, [Next]_vars PROVE MatchInv'
  OBVIOUS
<1>1. SerialInv'
  BY SerialStep DEF MatchInv
<1>2. scan \in [Scanners -> {IdleScan} \cup BusyScan]
  BY DEF MatchInv, RowInv, TypeOK
<1>3. ASSUME NEW s \in Scanners, ScanStep(s)
      PROVE  MatchInv'
  <2>1. ASSUME NEW t \in Targets, NEW returned \in SUBSET FingerprintsOf(t),
               NEW malformed \in SUBSET returned,
               ListByTarget(s, t, returned, malformed)
        PROVE  MatchInv'
    <3>1. /\ \A x \in Scanners \ {s} : scan'[x] = scan[x]
          /\ ~scan[s].busy /\ scan'[s].newlyOpen = {} /\ scan'[s].resolved = {}
          /\ UNCHANGED <<store, told, decided>>
      BY <1>2, <2>1 DEF ListByTarget
    <3>2. \A fp \in Fingerprints : /\ ~OpenedIn(s, fp) /\ ~ResolvedIn(s, fp)
                                   /\ ~OpenedIn(s, fp)' /\ ~ResolvedIn(s, fp)'
      BY <3>1 DEF OpenedIn, ResolvedIn, About
    <3>3. \A x \in Scanners \ {s}, fp \in Fingerprints :
            /\ OpenedIn(x, fp)' <=> OpenedIn(x, fp)
            /\ ResolvedIn(x, fp)' <=> ResolvedIn(x, fp)
      BY <3>1 DEF OpenedIn, ResolvedIn
    <3>4. QED
      BY <1>1, <3>1, <3>2, <3>3, NothingTold
  <2>2. ASSUME NEW fp \in Fingerprints,
               InsertNew(s, fp) \/ Refresh(s, fp) \/ MarkAbsent(s, fp)
        PROVE  MatchInv'
    BY <1>1, <2>2, ScanWriteMatches
  <2>3. CASE OnResult(s)
    BY <1>1, <2>3, OnResultMatches
  <2>4. CASE UpsertFails(s)
    <3>1. ~Undisturbed'
      BY <2>4 DEF UpsertFails, Undisturbed, MatchInv, RowInv, TypeOK
    <3>2. ~scan'[s].busy /\ \A x \in Scanners \ {s} : scan'[x] = scan[x]
      BY <1>2, <2>4 DEF UpsertFails, IdleScan
    <3>3. ResultSound'
      BY <3>2 DEF MatchInv, ResultSound, OpenedIn, ResolvedIn
    <3>4. QED
      BY <1>1, <3>1, <3>3, RowInvStep DEF MatchInv
  <2>5. \A S : {} \in SUBSET S
    OBVIOUS
  <2>6. QED
    BY <1>3, <2>1, <2>2, <2>3, <2>4, <2>5 DEF ScanStep
<1>4. ASSUME NEW h \in Handlers, EditStep(h)
      PROVE  MatchInv'
  BY <1>1, <1>4, EditMatches
<1>5. CASE Crash
  <2>1. ~Undisturbed'
    BY <1>5 DEF Crash, Undisturbed, MatchInv, RowInv, TypeOK
  <2>2. ResultSound'
    BY <1>5 DEF Crash, IdleScan, ResultSound, OpenedIn, ResolvedIn
  <2>3. QED
    BY <1>1, <2>1, <2>2, RowInvStep DEF MatchInv
<1>6. CASE UNCHANGED vars
  <2>1. UNCHANGED <<store, scan, told, decided>>
    BY <1>6 DEF vars
  <2>2. \A x \in Scanners, fp \in Fingerprints :
          /\ OpenedIn(x, fp)' <=> OpenedIn(x, fp)
          /\ ResolvedIn(x, fp)' <=> ResolvedIn(x, fp)
    BY <2>1 DEF OpenedIn, ResolvedIn
  <2>3. QED
    BY <1>1, <2>1, <2>2, NothingTold
<1>7. QED
  BY <1>3, <1>4, <1>5, <1>6 DEF Next

\* While nothing fails and operations on one target do not overlap, what
\* subscribers were told agrees between scans with the table.
THEOREM AnnouncementsAgree ==
  ASSUME Overlap = FALSE
  PROVE  Spec => []AnnouncementsMatch
<1>1. MatchInv => AnnouncementsMatch
  <2> SUFFICES ASSUME MatchInv, Undisturbed,
                      NEW fp \in Fingerprints, ~ScanActive(TargetOf[fp])
               PROVE  /\ (store[fp].status = "none") <=> (told[fp].kind = "none")
                      /\ store[fp].status = "resolved" => told[fp].kind = "resolved"
                      /\ told[fp].kind = "resolved" =>
                           store[fp].status \in {"resolved", decided[fp]}
    BY DEF AnnouncementsMatch
  <2>1. \A s \in Scanners : ~OpenedIn(s, fp) /\ ~ResolvedIn(s, fp)
    BY DEF MatchInv, ResultSound, ScanActive, OpenedIn, ResolvedIn
  <2>2. Heard(fp) = told[fp].kind
    BY <2>1 DEF Heard
  <2>3. QED
    BY <2>2 DEF MatchInv, HeardMatches
<1>2. QED
  BY <1>1, MatchInit, MatchStep, PTL DEF Spec

\* ... and then the opening of a finding is told once per episode.
THEOREM OpeningsToldOnce ==
  ASSUME Overlap = FALSE
  PROVE  Spec => OpenedOncePerEpisode
<1>1. MatchInv /\ [Next]_vars =>
        [\A s \in Scanners :
           Undisturbed /\ scan[s].busy /\ ~scan'[s].busy =>
             \A e \in scan[s].newlyOpen : told[e.fp].kind # "opened"]_vars
  <2> SUFFICES ASSUME MatchInv, NEW s \in Scanners, Undisturbed, scan[s].busy,
                      NEW e \in scan[s].newlyOpen
               PROVE  told[e.fp].kind # "opened"
    OBVIOUS
  <2>1. e.fp \in Fingerprints
    BY BusyScanType DEF MatchInv, RowInv, BusyScan, Event
  <2>2. OpenedIn(s, e.fp)
    BY DEF OpenedIn, About
  <2>3. QED
    BY <2>1, <2>2 DEF MatchInv, OpeningIsNews
<1>2. QED
  BY <1>1, MatchInit, MatchStep, PTL DEF Spec, OpenedOncePerEpisode

-----------------------------------------------------------------------------
(* Streaks of absences without overlap.  A row's streak never exceeds the     *)
(* scans in a row that missed its finding, but while a scan has yet to write   *)
(* a row it saw: the streak is reset by that write and not before.             *)

StreakCounted(fp) ==
  (\A s \in Scanners : scan[s].busy => fp \notin scan[s].todo)
    => store[fp].absentStreak <= missed[fp]

\* The miss a scan is about to count is in missed already.
MissAhead(s) ==
  scan[s].busy =>
    \A fp \in scan[s].gone : scan[s].existing[fp].absentStreak < missed[fp]

\* A status request writes back the streak that is on record.
EditKeepsStreak(h) ==
  edit[h].busy => edit[h].record.absentStreak = store[edit[h].fp].absentStreak

StreakInv ==
  /\ RowInv /\ SerialInv
  /\ Undisturbed => /\ \A fp \in Fingerprints : StreakCounted(fp)
                    /\ \A s \in Scanners : MissAhead(s)
                    /\ \A h \in Handlers : EditKeepsStreak(h)

LEMMA StreakInit == Init => StreakInv
<1> SUFFICES ASSUME Init PROVE StreakInv
  OBVIOUS
<1>1. /\ \A s \in Scanners : ~scan[s].busy
      /\ \A h \in Handlers : ~edit[h].busy
      /\ \A fp \in Fingerprints : store[fp].absentStreak = 0 /\ missed[fp] = 0
  BY DEF Init, IdleScan, IdleEdit, NoRecord
<1>2. QED
  BY <1>1, RowInvInit, SerialInit
     DEF StreakInv, StreakCounted, MissAhead, EditKeepsStreak

\* What the writes make of a streak.
LEMMA WrittenStreak ==
  ASSUME NEW r \in Record, NEW row \in Record, NEW t \in Nat, NEW id \in Nat
  PROVE  /\ NewRecord(id, t).absentStreak = 0
         /\ Refreshed(r, t).absentStreak = 0
         /\ MarkedAbsent(r, t).absentStreak = r.absentStreak + 1
         /\ Merged(row, r).absentStreak = r.absentStreak
  BY DEF Record, NewRecord, Refreshed, MarkedAbsent, Merged

\* A scan's write advances one finding of the scan and keeps its snapshot.
LEMMA ScanWriteAdvances ==
  ASSUME RowInv, NEW s \in Scanners, NEW fp \in Fingerprints,
         InsertNew(s, fp) \/ Refresh(s, fp) \/ MarkAbsent(s, fp)
  PROVE  /\ \A x \in Scanners \ {s} : scan'[x] = scan[x]
         /\ scan[s].busy /\ scan'[s].busy
         /\ fp \in scan[s].todo \cup scan[s].gone
         /\ scan'[s].existing = scan[s].existing
         /\ scan[s].todo \subseteq scan'[s].todo \cup {fp}
         /\ scan'[s].gone \subseteq scan[s].gone
         /\ UNCHANGED <<edit, missed>>
<1>1. scan[s] \in BusyScan /\ scan[s].busy
  BY BusyScanType DEF RowInv, InsertNew, Refresh, MarkAbsent
<1>2. scan \in [Scanners -> {IdleScan} \cup BusyScan]
  BY DEF RowInv, TypeOK
<1>3. CASE InsertNew(s, fp)
  BY <1>1, <1>2, <1>3 DEF InsertNew, BusyScan
<1>4. CASE Refresh(s, fp)
  BY <1>1, <1>2, <1>4 DEF Refresh, BusyScan
<1>5. CASE MarkAbsent(s, fp)
  BY <1>1, <1>2, <1>5 DEF MarkAbsent, BusyScan
<1>6. QED
  BY <1>3, <1>4, <1>5

LEMMA ScanWriteCounts ==
  ASSUME StreakInv, Undisturbed, NEW s \in Scanners, NEW fp \in Fingerprints,
         InsertNew(s, fp) \/ Refresh(s, fp) \/ MarkAbsent(s, fp)
  PROVE  /\ \A g \in Fingerprints : StreakCounted(g)'
         /\ \A x \in Scanners : MissAhead(x)'
         /\ \A h \in Handlers : EditKeepsStreak(h)'
<1>1. /\ \A x \in Scanners \ {s} : scan'[x] = scan[x]
      /\ scan[s].busy /\ scan'[s].busy
      /\ fp \in scan[s].todo \cup scan[s].gone
      /\ scan'[s].existing = scan[s].existing
      /\ scan[s].todo \subseteq scan'[s].todo \cup {fp}
      /\ scan'[s].gone \subseteq scan[s].gone
      /\ UNCHANGED <<edit, missed>>
  BY ScanWriteAdvances DEF StreakInv
<1>2. /\ scan[s] \in BusyScan
      /\ scan[s].existing[fp] \in Record /\ scan[s].at \in Nat
      /\ store \in [Fingerprints -> Record] /\ store[fp] \in Record
      /\ missed[fp] \in Nat /\ nextID + 1 \in Nat
  <2>1. scan[s] \in BusyScan
    BY <1>1, BusyScanType DEF StreakInv, RowInv
  <2>2. scan[s].existing[fp] \in Record /\ scan[s].at \in Nat
    BY <2>1 DEF BusyScan
  <2>3. /\ store \in [Fingerprints -> Record] /\ store[fp] \in Record
        /\ missed[fp] \in Nat /\ nextID + 1 \in Nat
    BY DEF StreakInv, RowInv, TypeOK
  <2>4. QED
    BY <2>1, <2>2, <2>3
<1>3. PICK r \in Record : Upsert(fp, r) /\ r.absentStreak <= missed[fp]
  <2>1. CASE InsertNew(s, fp)
    <3>1. /\ NewRecord(nextID + 1, scan[s].at) \in Record
          /\ NewRecord(nextID + 1, scan[s].at).absentStreak = 0
      BY <1>2, RecordTypes, WrittenStreak
    <3>2. Upsert(fp, NewRecord(nextID + 1, scan[s].at))
      BY <2>1 DEF InsertNew
    <3>3. 0 <= missed[fp]
      BY <1>2
    <3>4. QED
      BY <3>1, <3>2, <3>3
  <2>2. CASE Refresh(s, fp)
    <3>1. /\ Refreshed(scan[s].existing[fp], scan[s].at) \in Record
          /\ Refreshed(scan[s].existing[fp], scan[s].at).absentStreak = 0
      BY <1>2, RecordTypes, WrittenStreak
    <3>2. Upsert(fp, Refreshed(scan[s].existing[fp], scan[s].at))
      BY <2>2 DEF Refresh
    <3>3. 0 <= missed[fp]
      BY <1>2
    <3>4. QED
      BY <3>1, <3>2, <3>3
  <2>3. CASE MarkAbsent(s, fp)
    <3>1. scan[s].existing[fp].absentStreak < missed[fp]
      BY <1>1, <2>3 DEF MarkAbsent, StreakInv, MissAhead
    <3>2. /\ MarkedAbsent(scan[s].existing[fp], scan[s].at) \in Record
          /\ MarkedAbsent(scan[s].existing[fp], scan[s].at).absentStreak
               = scan[s].existing[fp].absentStreak + 1
      BY <1>2, RecordTypes, WrittenStreak
    <3>3. scan[s].existing[fp].absentStreak \in Nat
      BY <1>2 DEF Record
    <3>4. Upsert(fp, MarkedAbsent(scan[s].existing[fp], scan[s].at))
      BY <2>3 DEF MarkAbsent
    <3>5. scan[s].existing[fp].absentStreak + 1 <= missed[fp]
      BY <1>2, <3>1, <3>3
    <3>6. QED
      BY <3>2, <3>4, <3>5
  <2>4. QED
    BY <2>1, <2>2, <2>3
<1>4. /\ store'[fp].absentStreak = r.absentStreak
      /\ \A g \in Fingerprints \ {fp} : store'[g] = store[g]
  BY <1>2, <1>3, UpsertOne, WrittenStreak
<1>5. ASSUME NEW g \in Fingerprints
      PROVE  StreakCounted(g)'
  <2>1. CASE g = fp
    BY <1>1, <1>3, <1>4, <2>1 DEF StreakCounted
  <2>2. CASE g # fp
    <3>1. \A x \in Scanners : scan[x].busy /\ g \in scan[x].todo =>
            scan'[x].busy /\ g \in scan'[x].todo
      BY <1>1, <2>2
    <3>2. QED
      BY <1>1, <1>4, <2>2, <3>1 DEF StreakInv, StreakCounted
  <2>3. QED
    BY <2>1, <2>2
<1>6. \A x \in Scanners : MissAhead(x)'
  BY <1>1 DEF StreakInv, MissAhead
<1>7. ASSUME NEW h \in Handlers
      PROVE  EditKeepsStreak(h)'
  <2> SUFFICES ASSUME edit[h].busy
               PROVE  edit[h].record.absentStreak = store'[edit[h].fp].absentStreak
    BY <1>1 DEF EditKeepsStreak
  <2>1. edit[h].fp \in Fingerprints
    BY BusyEditType DEF StreakInv, RowInv, BusyEdit
  <2>2. edit[h].fp # fp
    BY <1>1 DEF StreakInv, SerialInv
  <2>3. QED
    BY <1>4, <2>1, <2>2 DEF StreakInv, EditKeepsStreak
<1>8. QED
  BY <1>5, <1>6, <1>7

\* A scan that begins counts a miss of each finding of its target that it has
\* not seen, and no other operation of that target is under way.
LEMMA ListingCounts ==
  ASSUME StreakInv, Undisturbed, Overlap = FALSE, NEW s \in Scanners, NEW t \in Targets,
         NEW returned \in SUBSET FingerprintsOf(t), NEW malformed \in SUBSET returned,
         ListByTarget(s, t, returned, malformed)
  PROVE  /\ \A g \in Fingerprints : StreakCounted(g)'
         /\ \A x \in Scanners : MissAhead(x)'
         /\ \A h \in Handlers : EditKeepsStreak(h)'
<1> DEFINE valid == returned \ malformed
<1>1. /\ \A x \in Scanners \ {s} : scan'[x] = scan[x]
      /\ ~scan[s].busy /\ scan'[s].busy
      /\ scan'[s].todo = valid
      /\ scan'[s].gone \subseteq FingerprintsOf(t) \ valid
      /\ \A g \in FingerprintsOf(t) : scan'[s].existing[g] = store[g]
      /\ UNCHANGED <<store, edit>>
  BY DEF ListByTarget, StreakInv, RowInv, TypeOK, FingerprintsOf
<1>2. \A x \in Scanners : scan[x].busy => scan[x].target # t
  BY DEF ListByTarget, MayStart, ScanActive
<1>3. \A x \in Scanners : scan[x].busy =>
        \A g \in scan[x].todo \cup scan[x].gone : TargetOf[g] # t
  BY <1>2 DEF StreakInv, SerialInv
<1>4. \A g \in Fingerprints :
        missed'[g] = IF TargetOf[g] # t THEN missed[g]
                     ELSE IF g \in valid THEN 0 ELSE missed[g] + 1
  BY DEF ListByTarget
<1>5. \A g \in Fingerprints : missed[g] \in Nat /\ store[g].absentStreak \in Nat
  BY DEF StreakInv, RowInv, TypeOK, Record
<1>6. \A g \in FingerprintsOf(t) : store[g].absentStreak <= missed[g]
  BY <1>3 DEF StreakInv, StreakCounted, FingerprintsOf
<1>7. ASSUME NEW g \in Fingerprints
      PROVE  StreakCounted(g)'
  <2>1. CASE TargetOf[g] = t
    <3>1. CASE g \in valid
      BY <1>1, <3>1 DEF StreakCounted
    <3>2. CASE g \notin valid
      <4>1. missed'[g] = missed[g] + 1
        BY <1>4, <2>1, <3>2
      <4>2. store[g].absentStreak <= missed[g]
        BY <1>6, <2>1 DEF FingerprintsOf
      <4>3. store'[g].absentStreak <= missed'[g]
        BY <1>1, <1>5, <4>1, <4>2
      <4>4. QED
        BY <4>3 DEF StreakCounted
    <3>3. QED
      BY <3>1, <3>2
  <2>2. CASE TargetOf[g] # t
    <3>1. missed'[g] = missed[g] /\ store'[g] = store[g]
      BY <1>1, <1>4, <2>2
    <3>2. \A x \in Scanners : scan[x].busy /\ g \in scan[x].todo =>
            scan'[x].busy /\ g \in scan'[x].todo
      BY <1>1
    <3>3. QED
      BY <3>1, <3>2 DEF StreakInv, StreakCounted
  <2>3. QED
    BY <2>1, <2>2
<1>8. ASSUME NEW x \in Scanners
      PROVE  MissAhead(x)'
  <2>1. CASE x = s
    <3> SUFFICES ASSUME NEW g \in scan'[s].gone
                 PROVE  scan'[s].existing[g].absentStreak < missed'[g]
      BY <2>1 DEF MissAhead
    <3>1. g \in FingerprintsOf(t) /\ g \notin valid /\ g \in Fingerprints /\ TargetOf[g] = t
      BY <1>1 DEF FingerprintsOf
    <3>2. /\ missed'[g] = missed[g] + 1
          /\ scan'[s].existing[g].absentStreak = store[g].absentStreak
          /\ store[g].absentStreak <= missed[g]
      BY <1>1, <1>4, <1>6, <3>1
    <3>3. QED
      BY <1>5, <3>1, <3>2
  <2>2. CASE x # s
    <3> SUFFICES ASSUME scan[x].busy, NEW g \in scan[x].gone
                 PROVE  scan[x].existing[g].absentStreak < missed'[g]
      BY <1>1, <2>2 DEF MissAhead
    <3>1. TargetOf[g] # t
      BY <1>3
    <3>2. g \in Fingerprints
      BY BusyScanType DEF StreakInv, RowInv, BusyScan
    <3>3. scan[x].existing[g].absentStreak < missed[g]
      BY DEF StreakInv, MissAhead
    <3>4. QED
      BY <1>4, <3>1, <3>2, <3>3
  <2>3. QED
    BY <2>1, <2>2
<1>9. \A h \in Handlers : EditKeepsStreak(h)'
  BY <1>1 DEF StreakInv, EditKeepsStreak
<1>10. QED
  BY <1>7, <1>8, <1>9

LEMMA EditCounts ==
  ASSUME StreakInv, Undisturbed, Undisturbed', NEW h \in Handlers, EditStep(h)
  PROVE  /\ \A g \in Fingerprints : StreakCounted(g)'
         /\ \A x \in Scanners : MissAhead(x)'
         /\ \A k \in Handlers : EditKeepsStreak(k)'
<1>1. UNCHANGED <<scan, missed>>
  BY DEF EditStep, GetForStatus, UpsertStatus, UpsertStatusFails
<1>2. /\ edit \in [Handlers -> {IdleEdit} \cup BusyEdit]
      /\ store \in [Fingerprints -> Record]
  BY DEF StreakInv, RowInv, TypeOK
<1>3. ASSUME NEW fp \in Fingerprints, NEW next \in UserStatuses, GetForStatus(h, fp, next)
      PROVE  /\ UNCHANGED store
             /\ \A k \in Handlers : EditKeepsStreak(k)'
  <2>1. /\ edit'[h].fp = fp
        /\ edit'[h].record = [store[fp] EXCEPT !.status = next]
        /\ \A k \in Handlers \ {h} : edit'[k] = edit[k]
        /\ UNCHANGED store
    BY <1>2, <1>3 DEF GetForStatus
  <2>2. edit'[h].record.absentStreak = store[fp].absentStreak
    BY <1>2, <2>1 DEF Record
  <2>3. QED
    BY <2>1, <2>2 DEF StreakInv, EditKeepsStreak
<1>4. ASSUME UpsertStatus(h)
      PROVE  /\ \A g \in Fingerprints : store'[g].absentStreak = store[g].absentStreak
             /\ \A k \in Handlers : EditKeepsStreak(k)'
  <2>1. /\ edit[h].busy /\ edit[h].fp \in Fingerprints /\ edit[h].record \in Record
        /\ Upsert(edit[h].fp, edit[h].record)
    BY <1>4, BusyEditType DEF UpsertStatus, BusyEdit, StreakInv, RowInv
  <2>2. edit[h].record.absentStreak = store[edit[h].fp].absentStreak
    BY <2>1 DEF StreakInv, EditKeepsStreak
  <2>3. /\ store'[edit[h].fp] = Merged(store[edit[h].fp], edit[h].record)
        /\ \A g \in Fingerprints \ {edit[h].fp} : store'[g] = store[g]
    BY <1>2, <2>1, UpsertOne
  <2>4. store'[edit[h].fp].absentStreak = edit[h].record.absentStreak
    BY <1>2, <2>1, <2>3, WrittenStreak
  <2>5. \A g \in Fingerprints : store'[g].absentStreak = store[g].absentStreak
    BY <2>2, <2>3, <2>4
  <2>6. ~edit'[h].busy /\ \A k \in Handlers \ {h} : edit'[k] = edit[k]
    BY <1>2, <1>4 DEF UpsertStatus, IdleEdit
  <2>7. \A k \in Handlers : edit[k].busy => edit[k].fp \in Fingerprints
    BY BusyEditType DEF StreakInv, RowInv, BusyEdit
  <2>8. QED
    BY <2>5, <2>6, <2>7 DEF StreakInv, EditKeepsStreak
<1>5. ~UpsertStatusFails(h)
  BY DEF UpsertStatusFails, Undisturbed, StreakInv, RowInv, TypeOK
<1>6. /\ \A g \in Fingerprints : store'[g].absentStreak = store[g].absentStreak
      /\ \A k \in Handlers : EditKeepsStreak(k)'
  BY <1>3, <1>4, <1>5 DEF EditStep
<1>7. QED
  BY <1>1, <1>6 DEF StreakInv, StreakCounted, MissAhead

LEMMA StreakStep ==
  ASSUME Overlap = FALSE
  PROVE  StreakInv /\ [Next]_vars => StreakInv'
<1> SUFFICES ASSUME StreakInv, [Next]_vars PROVE StreakInv'
  OBVIOUS
<1>1. RowInv' /\ SerialInv' /\ (Undisturbed' => Undisturbed)
  BY RowInvStep, SerialStep, DisturbanceStays DEF StreakInv, RowInv
<1> SUFFICES ASSUME Undisturbed'
             PROVE  /\ \A g \in Fingerprints : StreakCounted(g)'
                    /\ \A x \in Scanners : MissAhead(x)'
                    /\ \A h \in Handlers : EditKeepsStreak(h)'
  BY <1>1 DEF StreakInv
<1> DEFINE Goal == /\ \A g \in Fingerprints : StreakCounted(g)'
                   /\ \A x \in Scanners : MissAhead(x)'
                   /\ \A h \in Handlers : EditKeepsStreak(h)'
<1>2. Undisturbed /\ scan \in [Scanners -> {IdleScan} \cup BusyScan]
  BY <1>1 DEF StreakInv, RowInv, TypeOK
<1>3. ASSUME NEW s \in Scanners, ScanStep(s)
      PROVE  Goal
  <2>1. ASSUME NEW t \in Targets, NEW returned \in SUBSET FingerprintsOf(t),
               NEW malformed \in SUBSET returned,
               ListByTarget(s, t, returned, malformed)
        PROVE  Goal
    BY <1>2, <2>1, ListingCounts
  <2>2. ASSUME NEW fp \in Fingerprints,
               InsertNew(s, fp) \/ Refresh(s, fp) \/ MarkAbsent(s, fp)
        PROVE  Goal
    BY <1>2, <2>2, ScanWriteCounts
  <2>3. CASE OnResult(s)
    <3>1. /\ ~scan'[s].busy /\ \A x \in Scanners \ {s} : scan'[x] = scan[x]
          /\ scan[s].todo = {}
          /\ UNCHANGED <<store, edit, missed>>
      BY <1>2, <2>3 DEF OnResult, IdleScan
    <3>2. \A g \in Fingerprints : StreakCounted(g)'
      BY <1>2, <3>1 DEF StreakInv, StreakCounted
    <3>3. \A x \in Scanners : MissAhead(x)'
      BY <1>2, <3>1 DEF StreakInv, MissAhead
    <3>4. \A h \in Handlers : EditKeepsStreak(h)'
      BY <1>2, <3>1 DEF StreakInv, EditKeepsStreak
    <3>5. QED
      BY <3>2, <3>3, <3>4
  <2>4. ~UpsertFails(s)
    BY DEF UpsertFails, Undisturbed, StreakInv, RowInv, TypeOK
  <2>5. QED
    BY <1>3, <2>1, <2>2, <2>3, <2>4 DEF ScanStep
<1>4. ASSUME NEW h \in Handlers, EditStep(h)
      PROVE  Goal
  BY <1>2, <1>4, EditCounts
<1>5. ~Crash
  BY DEF Crash, Undisturbed, StreakInv, RowInv, TypeOK
<1>6. CASE UNCHANGED vars
  BY <1>2, <1>6 DEF vars, StreakInv, StreakCounted, MissAhead, EditKeepsStreak
<1>7. QED
  BY <1>3, <1>4, <1>5, <1>6 DEF Next

\* A step that resolves a row is a scan's, and the scans that missed its finding
\* are enough.
LEMMA ResolvingStep ==
  ASSUME StreakInv, Undisturbed, [Next]_vars, NEW fp \in Fingerprints,
         store[fp].status # "resolved", store'[fp].status = "resolved"
  PROVE  missed[fp] >= ResolveAfter
<1>1. /\ store \in [Fingerprints -> Record]
      /\ TypeOK
  BY DEF StreakInv, RowInv, TypeOK
<1>2. ASSUME NEW h \in Handlers, EditStep(h)
      PROVE  FALSE
  <2>1. store' # store
    OBVIOUS
  <2>2. UpsertStatus(h)
    BY <1>2, <2>1 DEF EditStep, GetForStatus, UpsertStatusFails
  <2>3. /\ edit[h].fp \in Fingerprints /\ edit[h].record \in Record
        /\ edit[h].record.status \in UserStatuses
        /\ Upsert(edit[h].fp, edit[h].record)
    BY <1>1, <2>2, BusyEditType DEF UpsertStatus, BusyEdit
  <2>4. /\ store'[edit[h].fp].status = edit[h].record.status
        /\ \A g \in Fingerprints \ {edit[h].fp} : store'[g] = store[g]
    BY <1>1, <2>3, StatusWrite
  <2>5. QED
    BY <2>3, <2>4 DEF UserStatuses
<1>3. ASSUME NEW s \in Scanners, NEW g \in Fingerprints,
             InsertNew(s, g) \/ Refresh(s, g) \/ MarkAbsent(s, g)
      PROVE  missed[fp] >= ResolveAfter
  <2> DEFINE prev == scan[s].existing[g]
             t == scan[s].at
  <2>1. /\ scan[s] \in BusyScan /\ scan[s].busy
        /\ prev \in Record /\ t \in Nat /\ nextID + 1 \in Nat
    <3>1. scan[s].busy
      BY <1>3 DEF InsertNew, Refresh, MarkAbsent
    <3>2. scan[s] \in BusyScan
      BY <1>1, <3>1, BusyScanType
    <3>3. prev \in Record /\ t \in Nat
      BY <3>2 DEF BusyScan
    <3>4. nextID + 1 \in Nat
      BY <1>1 DEF TypeOK
    <3>5. QED
      BY <3>1, <3>2, <3>3, <3>4
  <2>2. ASSUME NEW r \in Record, Upsert(g, r)
        PROVE  g = fp /\ r.status = "resolved"
    <3>1. store'[g].status = r.status /\ \A f \in Fingerprints \ {g} : store'[f] = store[f]
      BY <1>1, <2>2, StatusWrite
    <3>2. QED
      BY <3>1
  <2>3. ~InsertNew(s, g)
    <3>1. NewRecord(nextID + 1, t) \in Record /\ NewRecord(nextID + 1, t).status = "open"
      BY <2>1, RecordTypes, WrittenStatus
    <3>2. QED
      BY <2>2, <3>1 DEF InsertNew
  <2>4. ~Refresh(s, g)
    <3>1. Refreshed(prev, t) \in Record /\ Refreshed(prev, t).status # "resolved"
      BY <2>1, RecordTypes, WrittenStatus
    <3>2. QED
      BY <2>2, <3>1 DEF Refresh
  <2>5. MarkAbsent(s, g) /\ g \in scan[s].gone
    BY <1>3, <2>3, <2>4 DEF MarkAbsent
  <2>6. g = fp /\ MarkedAbsent(prev, t).status = "resolved"
    <3>1. MarkedAbsent(prev, t) \in Record
      BY <2>1, RecordTypes
    <3>2. QED
      BY <2>2, <2>5, <3>1 DEF MarkAbsent
  <2>7. StreakReached(prev)
    <3>1. prev.status # "resolved"
      BY <2>1, <2>5 DEF StreakInv, RowInv, SnapshotSound, CountsAbsence
    <3>2. QED
      BY <2>1, <2>6, <3>1 DEF MarkedAbsent, Record
  <2>8. prev.absentStreak < missed[fp]
    BY <2>1, <2>5, <2>6 DEF StreakInv, MissAhead
  <2>9. prev.absentStreak \in Nat /\ missed[fp] \in Nat /\ ResolveAfter \in Nat
    BY <1>1, <2>1, ConstantsAssumption DEF Record, TypeOK
  <2>10. QED
    BY <2>7, <2>8, <2>9 DEF StreakReached
<1>4. ASSUME NEW s \in Scanners, ScanStep(s)
      PROVE  missed[fp] >= ResolveAfter
  <2>1. store' # store
    OBVIOUS
  <2>2. \E g \in Fingerprints : InsertNew(s, g) \/ Refresh(s, g) \/ MarkAbsent(s, g)
    BY <1>4, <2>1 DEF ScanStep, ListByTarget, OnResult, UpsertFails
  <2>3. QED
    BY <1>3, <2>2
<1>5. ~Crash /\ ~UNCHANGED vars
  BY DEF Crash, vars
<1>6. QED
  BY <1>2, <1>4, <1>5 DEF Next

\* While nothing fails and operations on one target do not overlap, nothing resolves
\* before ResolveAfter scans in a row returned no valid finding of it.
THEOREM ResolvedAfterMisses ==
  ASSUME Overlap = FALSE
  PROVE  Spec => ResolvedOnlyAfterMisses
<1>1. StreakInv /\ [Next]_vars =>
        [\A fp \in Fingerprints :
           Undisturbed /\ store[fp].status # "resolved" /\ store'[fp].status = "resolved"
             => missed[fp] >= ResolveAfter]_vars
  BY ResolvingStep
<1>2. QED
  BY <1>1, StreakInit, StreakStep, PTL DEF Spec, ResolvedOnlyAfterMisses

=============================================================================
