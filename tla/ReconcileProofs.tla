--------------------------- MODULE ReconcileProofs ---------------------------
(***************************************************************************)
(* Proofs about Reconcile, for any number of fingerprints, targets, scans  *)
(* and handlers, with and without overlap, faults and crashes.             *)
(***************************************************************************)
EXTENDS Reconcile, TLAPS

-----------------------------------------------------------------------------
(* Records *)

\* The row operators return rows.
LEMMA RecordTypes ==
  ASSUME NEW r \in Record, NEW row \in Record, NEW t \in Nat, NEW id \in Nat
  PROVE  /\ NewRecord(id, t) \in Record
         /\ Refreshed(r, t) \in Record
         /\ MarkedAbsent(r, t) \in Record
         /\ Merged(row, r) \in Record
<1> USE DEF Record, Statuses, UserStatuses, Never
<1>1. NewRecord(id, t) \in Record
  BY DEF NewRecord
<1>2. Refreshed(r, t) \in Record
  BY DEF Refreshed
<1>3. MarkedAbsent(r, t) \in Record
  <2>1. CASE StreakReached(r)
    <3>1. r.absentStreak + 1 \in Nat /\ "resolved" \in Statuses
      OBVIOUS
    <3>2. MarkedAbsent(r, t) = [r EXCEPT !.absentStreak = r.absentStreak + 1,
                                         !.status = "resolved", !.resolvedAt = t]
      BY <2>1 DEF MarkedAbsent
    <3>3. QED
      BY <3>1, <3>2
  <2>2. CASE ~StreakReached(r)
    BY <2>2 DEF MarkedAbsent
  <2>3. QED
    BY <2>1, <2>2
<1>4. Merged(row, r) \in Record
  BY DEF Merged
<1>5. QED
  BY <1>1, <1>2, <1>3, <1>4

\* The conflict clause keeps identity and takes every status and stamp.
LEMMA MergedFields ==
  ASSUME NEW r \in Record, NEW row \in Record
  PROVE  /\ Merged(row, r).status = r.status
         /\ Merged(row, r).resolvedAt = r.resolvedAt
         /\ row.status # "none" => /\ Merged(row, r).id = row.id
                                   /\ Merged(row, r).firstSeen = row.firstSeen
  BY DEF Record, Merged

\* An event about a fingerprint can be added to a result.
LEMMA WithEventType ==
  ASSUME NEW events \in SUBSET Event, NEW fp \in Fingerprints, NEW id \in Nat
  PROVE  WithEvent(events, fp, id) \in SUBSET Event
<1>1. [fp |-> fp, id |-> id] \in Event
  BY DEF Event
<1>2. QED
  BY <1>1 DEF WithEvent

\* What a write of the engine makes of a status and of a stamp.
LEMMA WrittenStatus ==
  ASSUME NEW r \in Record, NEW t \in Nat, NEW id \in Nat
  PROVE  /\ NewRecord(id, t).status = "open"
         /\ Refreshed(r, t).status = IF r.status = "resolved" THEN "open" ELSE r.status
         /\ Refreshed(r, t).status # "resolved"
         /\ MarkedAbsent(r, t).status \in {r.status, "resolved"}
         /\ MarkedAbsent(r, t).status = "resolved" =>
              MarkedAbsent(r, t).resolvedAt = t \/ r.status = "resolved"
  BY DEF Record, NewRecord, Refreshed, MarkedAbsent, IsReopening

\* A write replaces one row.
LEMMA UpsertOne ==
  ASSUME store \in [Fingerprints -> Record],
         NEW fp \in Fingerprints, NEW r \in Record, Upsert(fp, r)
  PROVE  /\ store' \in [Fingerprints -> Record]
         /\ store'[fp] = Merged(store[fp], r)
         /\ \A g \in Fingerprints \ {fp} : store'[g] = store[g]
<1>1. Merged(store[fp], r) \in Record
  BY RecordTypes
<1>2. QED
  BY <1>1 DEF Upsert

-----------------------------------------------------------------------------
(* Types *)

LEMMA InitType == Init => TypeOK
  BY ConstantsAssumption DEF Init, TypeOK, Record, Statuses, UserStatuses,
     NoRecord, Never

LEMMA ListByTargetType ==
  ASSUME TypeOK, NEW s \in Scanners, NEW t \in Targets,
         NEW returned \in SUBSET FingerprintsOf(t),
         NEW malformed \in SUBSET returned,
         ListByTarget(s, t, returned, malformed)
  PROVE  TypeOK'
<1> DEFINE valid    == returned \ malformed
           existing == [fp \in Fingerprints |->
                          IF TargetOf[fp] = t THEN store[fp] ELSE NoRecord]
           begun == [busy |-> TRUE, target |-> t, at |-> now + 1,
                     existing |-> existing, todo |-> valid,
                     gone |-> {fp \in FingerprintsOf(t) \ valid :
                                 CountsAbsence(existing[fp])},
                     newlyOpen |-> {}, resolved |-> {}]
<1>1. NoRecord \in Record
  BY DEF NoRecord, Record, Statuses, Never
<1>2. existing \in [Fingerprints -> Record]
  BY <1>1 DEF TypeOK
<1>3. valid \in SUBSET Fingerprints /\ FingerprintsOf(t) \in SUBSET Fingerprints
  BY DEF FingerprintsOf
<1>4. begun \in BusyScan
  <2> HIDE DEF existing, valid
  <2> QED BY <1>2, <1>3 DEF BusyScan, TypeOK
<1>5. scan' = [scan EXCEPT ![s] = begun]
  BY DEF ListByTarget
<1>6. scan' \in [Scanners -> {IdleScan} \cup BusyScan]
  BY <1>4, <1>5 DEF TypeOK
<1>7. missed' \in [Fingerprints -> Nat] /\ now' \in Nat
  BY DEF ListByTarget, TypeOK
<1>8. QED
  BY <1>6, <1>7 DEF TypeOK, ListByTarget

\* A scan that is busy has its type.
LEMMA BusyScanType ==
  ASSUME TypeOK, NEW s \in Scanners, scan[s].busy
  PROVE  scan[s] \in BusyScan
  BY DEF TypeOK, IdleScan

LEMMA BusyEditType ==
  ASSUME TypeOK, NEW h \in Handlers, edit[h].busy
  PROVE  edit[h] \in BusyEdit
  BY DEF TypeOK, IdleEdit

LEMMA InsertNewType ==
  ASSUME TypeOK, NEW s \in Scanners, NEW fp \in Fingerprints, InsertNew(s, fp)
  PROVE  TypeOK'
<1>1. scan[s] \in BusyScan
  BY BusyScanType DEF InsertNew
<1>2. NewRecord(nextID + 1, scan[s].at) \in Record
  BY <1>1, RecordTypes DEF TypeOK, BusyScan, Record, NewRecord, Never, Statuses, UserStatuses
<1>3. store' \in [Fingerprints -> Record]
  BY <1>2, UpsertOne DEF InsertNew, TypeOK
<1>4. nextID + 1 \in Nat /\ scan[s].newlyOpen \in SUBSET Event
  BY <1>1 DEF TypeOK, BusyScan
<1>5. WithEvent(scan[s].newlyOpen, fp, nextID + 1) \in SUBSET Event
  BY <1>4, WithEventType
<1>6. [scan[s] EXCEPT !.todo = @ \ {fp},
         !.newlyOpen = WithEvent(@, fp, nextID + 1)] \in BusyScan
  BY <1>1, <1>5 DEF BusyScan
<1>7. scan' \in [Scanners -> {IdleScan} \cup BusyScan]
  BY <1>6 DEF InsertNew, TypeOK
<1>8. nextID' \in Nat /\ now' \in Nat
  BY <1>4 DEF InsertNew, TypeOK
<1>9. QED
  BY <1>3, <1>7, <1>8 DEF InsertNew, TypeOK

LEMMA RefreshType ==
  ASSUME TypeOK, NEW s \in Scanners, NEW fp \in Fingerprints, Refresh(s, fp)
  PROVE  TypeOK'
<1>1. scan[s] \in BusyScan
  BY BusyScanType DEF Refresh
<1>2. scan[s].existing[fp] \in Record /\ scan[s].at \in Nat
  BY <1>1 DEF BusyScan
<1>3. Refreshed(scan[s].existing[fp], scan[s].at) \in Record
  BY <1>2, RecordTypes
<1>4. store' \in [Fingerprints -> Record]
  BY <1>3, UpsertOne DEF Refresh, TypeOK
<1>5. scan[s].existing[fp].id \in Nat /\ scan[s].newlyOpen \in SUBSET Event
  BY <1>1, <1>2 DEF Record, BusyScan
<1>6. WithEvent(scan[s].newlyOpen, fp, scan[s].existing[fp].id) \in SUBSET Event
  BY <1>5, WithEventType
<1>7. [scan[s] EXCEPT !.todo = @ \ {fp},
         !.newlyOpen = IF IsReopening(scan[s].existing[fp])
                       THEN WithEvent(@, fp, scan[s].existing[fp].id)
                       ELSE @] \in BusyScan
  BY <1>1, <1>6 DEF BusyScan
<1>8. scan' \in [Scanners -> {IdleScan} \cup BusyScan]
  BY <1>7 DEF Refresh, TypeOK
<1>9. QED
  BY <1>4, <1>8 DEF Refresh, TypeOK

LEMMA MarkAbsentType ==
  ASSUME TypeOK, NEW s \in Scanners, NEW fp \in Fingerprints, MarkAbsent(s, fp)
  PROVE  TypeOK'
<1>1. scan[s] \in BusyScan
  BY BusyScanType DEF MarkAbsent
<1>2. scan[s].existing[fp] \in Record /\ scan[s].at \in Nat
  BY <1>1 DEF BusyScan
<1>3. MarkedAbsent(scan[s].existing[fp], scan[s].at) \in Record
  BY <1>2, RecordTypes
<1>4. store' \in [Fingerprints -> Record]
  BY <1>3, UpsertOne DEF MarkAbsent, TypeOK
<1>5. scan[s].existing[fp].id \in Nat /\ scan[s].resolved \in SUBSET Event
  BY <1>1, <1>2 DEF Record, BusyScan
<1>6. WithEvent(scan[s].resolved, fp, scan[s].existing[fp].id) \in SUBSET Event
  BY <1>5, WithEventType
<1>7. [scan[s] EXCEPT !.gone = @ \ {fp},
         !.resolved = IF StreakReached(scan[s].existing[fp])
                      THEN WithEvent(@, fp, scan[s].existing[fp].id)
                      ELSE @] \in BusyScan
  BY <1>1, <1>6 DEF BusyScan
<1>8. scan' \in [Scanners -> {IdleScan} \cup BusyScan]
  BY <1>7 DEF MarkAbsent, TypeOK
<1>9. QED
  BY <1>4, <1>8 DEF MarkAbsent, TypeOK

LEMMA OnResultType ==
  ASSUME TypeOK, NEW s \in Scanners, OnResult(s)
  PROVE  TypeOK'
<1>1. scan[s] \in BusyScan
  BY BusyScanType DEF OnResult
<1>2. ASSUME NEW fp \in Fingerprints
      PROVE  LatestEvent(fp, scan[s].newlyOpen, scan[s].resolved)
               \in [kind : {"none", "opened", "resolved"}, id : Nat]
  <2>1. ASSUME NEW events \in SUBSET Event, \E e \in events : e.fp = fp
        PROVE  EventFor(fp, events).id \in Nat
    <3>1. EventFor(fp, events) \in events
      BY <2>1 DEF EventFor
    <3>2. QED BY <3>1 DEF Event
  <2>2. scan[s].newlyOpen \in SUBSET Event /\ scan[s].resolved \in SUBSET Event
    BY <1>1 DEF BusyScan
  <2>3. QED
    BY <2>1, <2>2 DEF LatestEvent, TypeOK
<1>3. told' \in [Fingerprints -> [kind : {"none", "opened", "resolved"}, id : Nat]]
  BY <1>2 DEF OnResult
<1>4. scan' \in [Scanners -> {IdleScan} \cup BusyScan]
  BY DEF OnResult, TypeOK
<1>5. QED
  BY <1>3, <1>4 DEF OnResult, TypeOK

LEMMA EditType ==
  ASSUME TypeOK, NEW h \in Handlers, EditStep(h)
  PROVE  TypeOK'
<1>1. ASSUME NEW fp \in Fingerprints, NEW next \in UserStatuses,
             GetForStatus(h, fp, next)
      PROVE  TypeOK'
  <2>1. [store[fp] EXCEPT !.status = next]
          \in {r \in Record : r.status \in UserStatuses}
    BY DEF TypeOK, Record, Statuses
  <2>2. edit' \in [Handlers -> {IdleEdit} \cup BusyEdit]
    BY <1>1, <2>1 DEF GetForStatus, TypeOK, BusyEdit
  <2>3. QED
    BY <1>1, <2>2 DEF GetForStatus, TypeOK
<1>2. ASSUME UpsertStatus(h)
      PROVE  TypeOK'
  <2>1. /\ edit[h].record \in Record /\ edit[h].fp \in Fingerprints
        /\ edit[h].record.status \in UserStatuses
    BY <1>2, BusyEditType DEF UpsertStatus, BusyEdit
  <2>2. store' \in [Fingerprints -> Record]
    BY <1>2, <2>1, UpsertOne DEF UpsertStatus, TypeOK
  <2>3. QED
    BY <1>2, <2>1, <2>2 DEF UpsertStatus, TypeOK
<1>3. ASSUME UpsertStatusFails(h)
      PROVE  TypeOK'
  BY <1>3 DEF UpsertStatusFails, TypeOK
<1>4. QED
  BY <1>1, <1>2, <1>3 DEF EditStep

\* Every step preserves the types.
LEMMA StepType == TypeOK /\ [Next]_vars => TypeOK'
<1> SUFFICES ASSUME TypeOK, [Next]_vars
             PROVE  TypeOK'
  OBVIOUS
<1>1. ASSUME NEW s \in Scanners, ScanStep(s)
      PROVE  TypeOK'
  <2>1. ASSUME NEW t \in Targets, NEW returned \in SUBSET FingerprintsOf(t),
               NEW malformed \in SUBSET returned,
               ListByTarget(s, t, returned, malformed)
        PROVE  TypeOK'
    BY <2>1, ListByTargetType
  <2>2. ASSUME NEW fp \in Fingerprints,
               InsertNew(s, fp) \/ Refresh(s, fp) \/ MarkAbsent(s, fp)
        PROVE  TypeOK'
    BY <2>2, InsertNewType, RefreshType, MarkAbsentType
  <2>3. CASE OnResult(s)
    BY <2>3, OnResultType
  <2>4. CASE UpsertFails(s)
    BY <2>4 DEF UpsertFails, TypeOK
  <2>5. {{}} \subseteq SUBSET {} /\ \A S : {} \in SUBSET S
    OBVIOUS
  <2>6. QED
    BY <1>1, <2>1, <2>2, <2>3, <2>4, <2>5 DEF ScanStep
<1>2. ASSUME NEW h \in Handlers, EditStep(h)
      PROVE  TypeOK'
  BY <1>2, EditType
<1>3. CASE Crash
  BY <1>3 DEF Crash, TypeOK
<1>4. CASE UNCHANGED vars
  BY <1>4 DEF vars, TypeOK
<1>5. QED
  BY <1>1, <1>2, <1>3, <1>4 DEF Next

\* Every variable always has its type.
THEOREM TypeCorrect == Spec => []TypeOK
  BY InitType, StepType, PTL DEF Spec

-----------------------------------------------------------------------------
(* Rows under overlap.  What a write puts in the table comes from a copy    *)
(* read earlier, so the invariant speaks of the copies in flight as well.   *)

\* The snapshot of a scan holds stamped resolutions, and the scan marks absent
\* only records that count absences.
SnapshotSound ==
  \A s \in Scanners : scan[s].busy =>
    /\ scan[s].at # Never
    /\ \A fp \in Fingerprints :
         /\ scan[s].existing[fp].status = "resolved" =>
              scan[s].existing[fp].resolvedAt # Never
         /\ fp \in scan[s].gone => CountsAbsence(scan[s].existing[fp])

RowInv == TypeOK /\ ResolvedIsStamped /\ SnapshotSound

\* A write of a sound copy keeps the table sound.
LEMMA WriteIsSound ==
  ASSUME TypeOK, ResolvedIsStamped, NEW fp \in Fingerprints, NEW r \in Record,
         r.status = "resolved" => r.resolvedAt # Never, Upsert(fp, r)
  PROVE  ResolvedIsStamped'
<1>1. store \in [Fingerprints -> Record] /\ store[fp] \in Record
  BY DEF TypeOK
<1>2. /\ store'[fp] = Merged(store[fp], r)
      /\ \A g \in Fingerprints \ {fp} : store'[g] = store[g]
  BY <1>1, UpsertOne
<1>3. /\ store'[fp].status = r.status
      /\ store'[fp].resolvedAt = r.resolvedAt
  BY <1>1, <1>2, MergedFields
<1>4. QED
  BY <1>2, <1>3 DEF ResolvedIsStamped

\* A write of a copy of some row changes nobody's identity.
LEMMA WriteKeepsIdentity ==
  ASSUME TypeOK, NEW fp \in Fingerprints, NEW r \in Record,
         r.status # "none", Upsert(fp, r)
  PROVE  KeepsIdentity
<1>1. store \in [Fingerprints -> Record] /\ store[fp] \in Record
  BY DEF TypeOK
<1>2. /\ store'[fp] = Merged(store[fp], r)
      /\ \A g \in Fingerprints \ {fp} : store'[g] = store[g]
  BY <1>1, UpsertOne
<1>3. /\ store'[fp].status # "none"
      /\ store[fp].status # "none" => /\ store'[fp].id = store[fp].id
                                      /\ store'[fp].firstSeen = store[fp].firstSeen
  BY <1>1, <1>2, MergedFields
<1>4. QED
  BY <1>2, <1>3 DEF KeepsIdentity

\* What the three writes of a scan write.
LEMMA ScanWrites ==
  ASSUME RowInv, NEW s \in Scanners, NEW fp \in Fingerprints,
         InsertNew(s, fp) \/ Refresh(s, fp) \/ MarkAbsent(s, fp)
  PROVE  \E r \in Record : /\ Upsert(fp, r)
                           /\ r.status # "none"
                           /\ r.status = "resolved" => r.resolvedAt # Never
<1> DEFINE prev == scan[s].existing[fp]
           at == scan[s].at
<1>1. scan[s] \in BusyScan
  BY BusyScanType DEF RowInv, InsertNew, Refresh, MarkAbsent
<1>2. prev \in Record /\ at \in Nat /\ nextID + 1 \in Nat
  BY <1>1 DEF BusyScan, RowInv, TypeOK
<1>3. CASE InsertNew(s, fp)
  <2>1. Upsert(fp, NewRecord(nextID + 1, at))
    BY <1>3 DEF InsertNew
  <2>3. NewRecord(nextID + 1, at) \in Record
    BY <1>2, RecordTypes
  <2>4. NewRecord(nextID + 1, at).status # "none"
    BY <1>2, WrittenStatus
  <2>5. NewRecord(nextID + 1, at).status = "resolved" => NewRecord(nextID + 1, at).resolvedAt # Never
    BY <1>2, WrittenStatus
  <2>6. QED
    BY <2>1, <2>3, <2>4, <2>5
<1>4. CASE Refresh(s, fp)
  <2>1. Upsert(fp, Refreshed(prev, at)) /\ prev.status # "none"
    BY <1>4 DEF Refresh
  <2>3. Refreshed(prev, at) \in Record
    BY <1>2, RecordTypes
  <2>4. Refreshed(prev, at).status # "none"
    BY <1>2, <2>1, WrittenStatus
  <2>5. Refreshed(prev, at).status = "resolved" => Refreshed(prev, at).resolvedAt # Never
    BY <1>2, <2>1, WrittenStatus
  <2>6. QED
    BY <2>1, <2>3, <2>4, <2>5
<1>5. CASE MarkAbsent(s, fp)
  <2>1. /\ Upsert(fp, MarkedAbsent(prev, at))
        /\ scan[s].busy /\ fp \in scan[s].gone
    BY <1>5 DEF MarkAbsent
  <2>2. prev.status \notin {"none", "resolved"} /\ at # Never
    BY <2>1 DEF RowInv, SnapshotSound, CountsAbsence
  <2>3. MarkedAbsent(prev, at) \in Record
    BY <1>2, RecordTypes
  <2>4. MarkedAbsent(prev, at).status # "none"
    BY <1>2, <2>2, WrittenStatus
  <2>5. MarkedAbsent(prev, at).status = "resolved" => MarkedAbsent(prev, at).resolvedAt # Never
    BY <1>2, <2>2, WrittenStatus
  <2>6. QED
    BY <2>1, <2>3, <2>4, <2>5
<1>6. QED
  BY <1>3, <1>4, <1>5

\* A scan's step changes no other scan, and shrinks what it still has to do.
LEMMA ScanWriteKeepsSnapshot ==
  ASSUME RowInv, NEW s \in Scanners, NEW fp \in Fingerprints,
         InsertNew(s, fp) \/ Refresh(s, fp) \/ MarkAbsent(s, fp)
  PROVE  SnapshotSound'
<1>1. scan[s] \in BusyScan /\ scan[s].busy
  BY BusyScanType DEF RowInv, InsertNew, Refresh, MarkAbsent
<1>2. scan \in [Scanners -> {IdleScan} \cup BusyScan]
  BY DEF RowInv, TypeOK
<1>3. /\ \A x \in Scanners \ {s} : scan'[x] = scan[x]
      /\ scan'[s].busy
      /\ scan'[s].at = scan[s].at
      /\ scan'[s].existing = scan[s].existing
      /\ scan'[s].gone \subseteq scan[s].gone
  <2>1. CASE InsertNew(s, fp)
    BY <1>1, <1>2, <2>1 DEF InsertNew, BusyScan
  <2>2. CASE Refresh(s, fp)
    BY <1>1, <1>2, <2>2 DEF Refresh, BusyScan
  <2>3. CASE MarkAbsent(s, fp)
    BY <1>1, <1>2, <2>3 DEF MarkAbsent, BusyScan
  <2>4. QED
    BY <2>1, <2>2, <2>3
<1>4. QED
  BY <1>1, <1>3 DEF RowInv, SnapshotSound

\* A listing reads sound rows.
LEMMA ListingIsSound ==
  ASSUME RowInv, NEW s \in Scanners, NEW t \in Targets,
         NEW returned \in SUBSET FingerprintsOf(t),
         NEW malformed \in SUBSET returned,
         ListByTarget(s, t, returned, malformed)
  PROVE  SnapshotSound'
<1> DEFINE existing == [fp \in Fingerprints |->
                          IF TargetOf[fp] = t THEN store[fp] ELSE NoRecord]
<1>1. scan \in [Scanners -> {IdleScan} \cup BusyScan] /\ now \in Nat
  BY DEF RowInv, TypeOK
<1>2. /\ \A x \in Scanners \ {s} : scan'[x] = scan[x]
      /\ scan'[s].at = now + 1
      /\ scan'[s].existing = existing
      /\ \A fp \in scan'[s].gone : CountsAbsence(existing[fp])
  BY <1>1 DEF ListByTarget
<1>3. \A fp \in Fingerprints : existing[fp].status = "resolved" =>
                                 existing[fp].resolvedAt # Never
  BY DEF RowInv, ResolvedIsStamped, NoRecord
<1>4. now + 1 # Never
  BY <1>1 DEF Never
<1>5. QED
  BY <1>2, <1>3, <1>4 DEF RowInv, SnapshotSound

LEMMA RowInvInit == Init => RowInv
  BY InitType DEF Init, RowInv, ResolvedIsStamped, SnapshotSound, NoRecord, IdleScan

\* Every step keeps the invariant, and no step changes a row's identity.
LEMMA RowInvStep == RowInv /\ [Next]_vars => RowInv' /\ (KeepsIdentity \/ UNCHANGED vars)
<1> SUFFICES ASSUME RowInv, [Next]_vars
             PROVE  /\ ResolvedIsStamped' /\ SnapshotSound'
                    /\ KeepsIdentity \/ UNCHANGED vars
  BY StepType DEF RowInv
<1> DEFINE Goal == /\ ResolvedIsStamped' /\ SnapshotSound'
                   /\ KeepsIdentity \/ UNCHANGED vars
<1>1. ASSUME UNCHANGED store, SnapshotSound'
      PROVE  Goal
  BY <1>1 DEF RowInv, ResolvedIsStamped, KeepsIdentity
<1>2. ASSUME NEW s \in Scanners, ScanStep(s)
      PROVE  Goal
  <2>1. ASSUME NEW t \in Targets, NEW returned \in SUBSET FingerprintsOf(t),
               NEW malformed \in SUBSET returned,
               ListByTarget(s, t, returned, malformed)
        PROVE  Goal
    BY <1>1, <2>1, ListingIsSound DEF ListByTarget
  <2>2. ASSUME NEW fp \in Fingerprints,
               InsertNew(s, fp) \/ Refresh(s, fp) \/ MarkAbsent(s, fp)
        PROVE  Goal
    BY <2>2, ScanWrites, ScanWriteKeepsSnapshot, WriteIsSound, WriteKeepsIdentity
       DEF RowInv
  <2>3. CASE OnResult(s) \/ UpsertFails(s)
    <3>1. SnapshotSound' /\ UNCHANGED store
      BY <2>3 DEF OnResult, UpsertFails, RowInv, SnapshotSound, IdleScan, TypeOK
    <3>2. QED
      BY <1>1, <3>1
  <2>4. \A S : {} \in SUBSET S
    OBVIOUS
  <2>5. QED
    BY <1>2, <2>1, <2>2, <2>3, <2>4 DEF ScanStep
<1>3. ASSUME NEW h \in Handlers, EditStep(h)
      PROVE  Goal
  <2>1. UNCHANGED scan
    BY <1>3 DEF EditStep, GetForStatus, UpsertStatus, UpsertStatusFails
  <2>2. SnapshotSound'
    BY <2>1 DEF RowInv, SnapshotSound
  <2>3. CASE UpsertStatus(h)
    <3>1. /\ edit[h].fp \in Fingerprints /\ edit[h].record \in Record
          /\ edit[h].record.status \in UserStatuses
          /\ Upsert(edit[h].fp, edit[h].record)
      BY <2>3, BusyEditType DEF UpsertStatus, BusyEdit, RowInv
    <3>2. QED
      BY <2>2, <3>1, WriteIsSound, WriteKeepsIdentity DEF RowInv, UserStatuses
  <2>4. CASE UNCHANGED store
    BY <1>1, <2>2, <2>4
  <2>5. QED
    BY <1>3, <2>3, <2>4 DEF EditStep, GetForStatus, UpsertStatusFails
<1>4. CASE Crash
  <2>1. SnapshotSound' /\ UNCHANGED store
    BY <1>4 DEF Crash, SnapshotSound, IdleScan
  <2>2. QED
    BY <1>1, <2>1
<1>5. CASE UNCHANGED vars
  BY <1>1, <1>5 DEF vars, RowInv, SnapshotSound
<1>6. QED
  BY <1>2, <1>3, <1>4, <1>5 DEF Next

LEMMA RowInvHolds == Spec => []RowInv
  BY RowInvInit, RowInvStep, PTL DEF Spec

\* No interleaving, failed write or crash leaves a resolved row unstamped.
THEOREM ResolvedStamped == Spec => []ResolvedIsStamped
<1>1. RowInv => ResolvedIsStamped
  BY DEF RowInv
<1>2. QED
  BY <1>1, RowInvHolds, PTL

\* No interleaving, failed write or crash changes the identity of a finding.
THEOREM IdentityStability == Spec => IdentityStable
<1>1. RowInv /\ [Next]_vars => [KeepsIdentity]_vars
  BY RowInvStep
<1>2. QED
  BY <1>1, RowInvHolds, PTL DEF Spec, IdentityStable

-----------------------------------------------------------------------------
(* Without overlap the engine implements the lifecycle.                     *)

\* At most one operation per target is in flight, and the statuses in its
\* copies of the rows it has yet to write are those of the rows.
SerialInv ==
  /\ \A x, y \in Scanners :
       scan[x].busy /\ scan[y].busy /\ scan[x].target = scan[y].target => x = y
  /\ \A x, y \in Handlers :
       edit[x].busy /\ edit[y].busy /\ TargetOf[edit[x].fp] = TargetOf[edit[y].fp]
         => x = y
  /\ \A x \in Scanners, y \in Handlers :
       scan[x].busy /\ edit[y].busy => scan[x].target # TargetOf[edit[y].fp]
  /\ \A x \in Scanners : scan[x].busy =>
       \A fp \in scan[x].todo \cup scan[x].gone :
         /\ TargetOf[fp] = scan[x].target
         /\ scan[x].existing[fp].status = store[fp].status
         /\ fp \notin scan[x].todo \cap scan[x].gone
  /\ \A y \in Handlers : edit[y].busy => store[edit[y].fp].status # "none"

StatusOf == [fp \in Fingerprints |-> store[fp].status]

LEMMA SerialInit == Init => SerialInv /\ Lifecycle!LInit
  BY DEF Init, SerialInv, IdleScan, IdleEdit, NoRecord, Lifecycle!LInit

\* A write changes the status of one fingerprint.
LEMMA StatusWrite ==
  ASSUME TypeOK, NEW fp \in Fingerprints, NEW r \in Record, Upsert(fp, r)
  PROVE  /\ StatusOf' = [StatusOf EXCEPT ![fp] = r.status]
         /\ \A g \in Fingerprints \ {fp} : store'[g] = store[g]
         /\ store'[fp].status = r.status
<1>1. store \in [Fingerprints -> Record] /\ store[fp] \in Record
  BY DEF TypeOK
<1>2. /\ store'[fp] = Merged(store[fp], r)
      /\ \A g \in Fingerprints \ {fp} : store'[g] = store[g]
  BY <1>1, UpsertOne
<1>3. store'[fp].status = r.status
  BY <1>1, <1>2, MergedFields
<1>4. QED
  BY <1>2, <1>3 DEF StatusOf

\* What a scan's write does to the status of its fingerprint.
LEMMA ScanWriteRefines ==
  ASSUME RowInv, SerialInv, NEW s \in Scanners, NEW fp \in Fingerprints,
         InsertNew(s, fp) \/ Refresh(s, fp) \/ MarkAbsent(s, fp)
  PROVE  /\ [Lifecycle!LNext]_Lifecycle!lvars
         /\ store[fp].status # "none" => store'[fp].status # "none"
         /\ \A g \in Fingerprints \ {fp} : store'[g] = store[g]
<1> DEFINE prev == scan[s].existing[fp]
           at == scan[s].at
<1>1. scan[s] \in BusyScan /\ scan[s].busy
  BY BusyScanType DEF RowInv, InsertNew, Refresh, MarkAbsent
<1>2. prev \in Record /\ at \in Nat /\ nextID + 1 \in Nat
  BY <1>1 DEF BusyScan, RowInv, TypeOK
<1>3. fp \in scan[s].todo \cup scan[s].gone
  BY DEF InsertNew, Refresh, MarkAbsent
<1>4. prev.status = store[fp].status
  BY <1>1, <1>3 DEF SerialInv
<1>5. UNCHANGED decided
  BY DEF InsertNew, Refresh, MarkAbsent
<1>6. StatusOf[fp] = prev.status /\ StatusOf = [StatusOf EXCEPT ![fp] = prev.status]
  BY <1>4 DEF StatusOf
<1>7. ASSUME NEW r \in Record, Upsert(fp, r),
             \/ r.status = prev.status
             \/ prev.status \in {"none", "resolved"} /\ r.status = "open"
             \/ prev.status \in {"open", "acknowledged"} /\ r.status = "resolved"
      PROVE  [Lifecycle!LNext]_Lifecycle!lvars
  <2>1. StatusOf' = [StatusOf EXCEPT ![fp] = r.status]
    BY <1>7, StatusWrite DEF RowInv
  <2>2. CASE r.status = prev.status
    <3>1. StatusOf' = StatusOf
      BY <1>6, <2>1, <2>2
    <3>2. QED
      BY <1>5, <3>1 DEF Lifecycle!lvars, StatusOf
  <2>3. CASE prev.status \in {"none", "resolved"} /\ r.status = "open"
    <3>1. Lifecycle!Opens(fp)
      BY <1>5, <1>6, <2>1, <2>3 DEF Lifecycle!Opens, StatusOf
    <3>2. QED
      BY <3>1 DEF Lifecycle!LNext
  <2>4. CASE prev.status \in {"open", "acknowledged"} /\ r.status = "resolved"
    <3>1. Lifecycle!Resolves(fp)
      BY <1>5, <1>6, <2>1, <2>4 DEF Lifecycle!Resolves, StatusOf
    <3>2. QED
      BY <3>1 DEF Lifecycle!LNext
  <2>5. QED
    BY <1>7, <2>2, <2>3, <2>4
<1>8. PICK r \in Record :
        /\ Upsert(fp, r)
        /\ r.status # "none"
        /\ \/ r.status = prev.status
           \/ prev.status \in {"none", "resolved"} /\ r.status = "open"
           \/ prev.status \in {"open", "acknowledged"} /\ r.status = "resolved"
  <2>1. CASE InsertNew(s, fp)
    <3>1. Upsert(fp, NewRecord(nextID + 1, at)) /\ prev.status = "none"
      BY <2>1 DEF InsertNew
    <3>2. NewRecord(nextID + 1, at) \in Record
      BY <1>2, RecordTypes
    <3>3. NewRecord(nextID + 1, at).status = "open"
      BY <1>2, WrittenStatus
    <3>4. QED
      BY <3>1, <3>2, <3>3
  <2>2. CASE Refresh(s, fp)
    <3>1. Upsert(fp, Refreshed(prev, at)) /\ prev.status # "none"
      BY <2>2 DEF Refresh
    <3>2. Refreshed(prev, at) \in Record
      BY <1>2, RecordTypes
    <3>3. Refreshed(prev, at).status =
            IF prev.status = "resolved" THEN "open" ELSE prev.status
      BY <1>2, WrittenStatus
    <3>4. QED
      BY <3>1, <3>2, <3>3
  <2>3. CASE MarkAbsent(s, fp)
    <3>1. Upsert(fp, MarkedAbsent(prev, at)) /\ fp \in scan[s].gone
      BY <2>3 DEF MarkAbsent
    <3>2. prev.status \in {"open", "acknowledged"}
      BY <1>1, <1>2, <3>1
         DEF RowInv, SnapshotSound, CountsAbsence, Record, Statuses, UserStatuses
    <3>3. MarkedAbsent(prev, at) \in Record
      BY <1>2, RecordTypes
    <3>4. MarkedAbsent(prev, at).status \in {prev.status, "resolved"}
      BY <1>2, WrittenStatus
    <3>5. QED
      BY <3>1, <3>2, <3>3, <3>4
  <2>4. QED
    BY <2>1, <2>2, <2>3
<1>9. /\ store'[fp].status = r.status
      /\ \A g \in Fingerprints \ {fp} : store'[g] = store[g]
  BY <1>8, StatusWrite DEF RowInv
<1>10. [Lifecycle!LNext]_Lifecycle!lvars
  BY <1>7, <1>8
<1>11. QED
  BY <1>8, <1>9, <1>10

\* A write by the one scan of a target keeps every other copy current.
LEMMA ScanWriteSerial ==
  ASSUME RowInv, SerialInv, NEW s \in Scanners, NEW fp \in Fingerprints,
         InsertNew(s, fp) \/ Refresh(s, fp) \/ MarkAbsent(s, fp)
  PROVE  SerialInv'
<1>1. scan[s] \in BusyScan /\ scan[s].busy
  BY BusyScanType DEF RowInv, InsertNew, Refresh, MarkAbsent
<1>2. scan \in [Scanners -> {IdleScan} \cup BusyScan]
  BY DEF RowInv, TypeOK
<1>3. /\ \A x \in Scanners \ {s} : scan'[x] = scan[x]
      /\ scan'[s].busy
      /\ scan'[s].target = scan[s].target
      /\ scan'[s].existing = scan[s].existing
      /\ scan'[s].todo \subseteq scan[s].todo
      /\ scan'[s].gone \subseteq scan[s].gone
      /\ fp \notin scan'[s].todo \cup scan'[s].gone
      /\ fp \in scan[s].todo \cup scan[s].gone
      /\ UNCHANGED edit
  <2>1. CASE InsertNew(s, fp)
    BY <1>1, <1>2, <2>1 DEF InsertNew, BusyScan, SerialInv
  <2>2. CASE Refresh(s, fp)
    BY <1>1, <1>2, <2>2 DEF Refresh, BusyScan, SerialInv
  <2>3. CASE MarkAbsent(s, fp)
    BY <1>1, <1>2, <2>3 DEF MarkAbsent, BusyScan, SerialInv
  <2>4. QED
    BY <2>1, <2>2, <2>3
<1>4. /\ store[fp].status # "none" => store'[fp].status # "none"
      /\ \A g \in Fingerprints \ {fp} : store'[g] = store[g]
  BY ScanWriteRefines
<1>5. TargetOf[fp] = scan[s].target
  BY <1>1, <1>3 DEF SerialInv
<1>6. ASSUME NEW x \in Scanners, scan'[x].busy, NEW g \in scan'[x].todo \cup scan'[x].gone
      PROVE  /\ TargetOf[g] = scan'[x].target
             /\ scan'[x].existing[g].status = store'[g].status
             /\ g \notin scan'[x].todo \cap scan'[x].gone
  <2>0. scan[x].busy /\ g \in scan[x].todo \cup scan[x].gone /\ scan[x] \in BusyScan
    BY <1>1, <1>3, <1>6, BusyScanType DEF RowInv
  <2>1. /\ TargetOf[g] = scan[x].target
        /\ scan[x].existing[g].status = store[g].status
        /\ g \notin scan[x].todo \cap scan[x].gone
        /\ g \in Fingerprints
    BY <2>0 DEF SerialInv, BusyScan
  <2>2. g # fp
    <3>1. CASE x = s
      BY <1>3, <1>6, <3>1
    <3>2. CASE x # s
      BY <1>1, <1>5, <2>0, <2>1, <3>2 DEF SerialInv
    <3>3. QED
      BY <3>1, <3>2
  <2>3. store'[g] = store[g]
    BY <1>4, <2>1, <2>2
  <2>4. QED
    BY <1>3, <2>1, <2>3
<1>7. \A y \in Handlers : edit'[y].busy => store'[edit'[y].fp].status # "none"
  <2> SUFFICES ASSUME NEW y \in Handlers, edit[y].busy
               PROVE  store'[edit[y].fp].status # "none"
    BY <1>3
  <2>1. edit[y].fp \in Fingerprints /\ store[edit[y].fp].status # "none"
    BY BusyEditType DEF RowInv, BusyEdit, SerialInv
  <2>2. QED
    BY <1>4, <2>1
<1>8. /\ \A x, y \in Scanners :
           scan'[x].busy /\ scan'[y].busy /\ scan'[x].target = scan'[y].target => x = y
      /\ \A x \in Scanners, y \in Handlers :
           scan'[x].busy /\ edit'[y].busy => scan'[x].target # TargetOf[edit'[y].fp]
  BY <1>1, <1>3 DEF SerialInv
<1>9. QED
  BY <1>3, <1>6, <1>7, <1>8 DEF SerialInv

\* A listing starts only when nothing else is in flight on its target.
LEMMA ListingSerial ==
  ASSUME RowInv, SerialInv, Overlap = FALSE, NEW s \in Scanners, NEW t \in Targets,
         NEW returned \in SUBSET FingerprintsOf(t),
         NEW malformed \in SUBSET returned,
         ListByTarget(s, t, returned, malformed)
  PROVE  SerialInv'
<1> DEFINE valid    == returned \ malformed
           existing == [fp \in Fingerprints |->
                          IF TargetOf[fp] = t THEN store[fp] ELSE NoRecord]
           gone     == {fp \in FingerprintsOf(t) \ valid : CountsAbsence(existing[fp])}
<1>1. scan \in [Scanners -> {IdleScan} \cup BusyScan]
  BY DEF RowInv, TypeOK
<1>2. /\ \A x \in Scanners \ {s} : scan'[x] = scan[x]
      /\ scan'[s].target = t
      /\ scan'[s].existing = existing
      /\ scan'[s].todo = valid
      /\ scan'[s].gone = gone
      /\ UNCHANGED <<store, edit>>
  BY <1>1 DEF ListByTarget
<1>3. ~ScanActive(t) /\ ~EditActive(t)
  BY DEF ListByTarget, MayStart
<1>4. \A fp \in valid \cup gone : /\ TargetOf[fp] = t
                                  /\ existing[fp].status = store[fp].status
                                  /\ fp \notin valid \cap gone
  BY DEF FingerprintsOf
<1> HIDE DEF valid, existing, gone
<1>5. \A x \in Scanners : scan'[x].busy =>
        \A fp \in scan'[x].todo \cup scan'[x].gone :
          /\ TargetOf[fp] = scan'[x].target
          /\ scan'[x].existing[fp].status = store'[fp].status
          /\ fp \notin scan'[x].todo \cap scan'[x].gone
  BY <1>2, <1>4 DEF SerialInv
<1>6. \A x \in Scanners \ {s} : scan[x].busy => scan[x].target # t
  BY <1>3 DEF ScanActive
<1>7. \A y \in Handlers : edit[y].busy => TargetOf[edit[y].fp] # t
  BY <1>3 DEF EditActive
<1>8. QED
  BY <1>2, <1>5, <1>6, <1>7 DEF SerialInv

\* The status handler neither starts beside a scan nor disturbs a copy.
LEMMA EditSerial ==
  ASSUME RowInv, SerialInv, Overlap = FALSE, NEW h \in Handlers, EditStep(h)
  PROVE  SerialInv' /\ [Lifecycle!LNext]_Lifecycle!lvars
<1>1. edit \in [Handlers -> {IdleEdit} \cup BusyEdit]
  BY DEF RowInv, TypeOK
<1>2. ASSUME NEW fp \in Fingerprints, NEW next \in UserStatuses,
             GetForStatus(h, fp, next)
      PROVE  SerialInv' /\ [Lifecycle!LNext]_Lifecycle!lvars
  <2>1. /\ \A y \in Handlers \ {h} : edit'[y] = edit[y]
        /\ edit'[h].fp = fp
        /\ store[fp].status # "none"
        /\ UNCHANGED <<store, scan, decided>>
    BY <1>1, <1>2 DEF GetForStatus
  <2>2. ~ScanActive(TargetOf[fp]) /\ ~EditActive(TargetOf[fp])
    BY <1>2 DEF GetForStatus, MayStart
  <2>3. /\ \A x \in Scanners : scan[x].busy => scan[x].target # TargetOf[fp]
        /\ \A y \in Handlers : edit[y].busy => TargetOf[edit[y].fp] # TargetOf[fp]
    BY <2>2 DEF ScanActive, EditActive
  <2>4. SerialInv'
    BY <2>1, <2>3 DEF SerialInv
  <2>5. QED
    BY <2>1, <2>4 DEF Lifecycle!lvars
<1>3. CASE UpsertStatus(h)
  <2> DEFINE g == edit[h].fp
             r == edit[h].record
  <2>1. /\ edit[h].busy
        /\ g \in Fingerprints /\ r \in Record /\ r.status \in UserStatuses
        /\ Upsert(g, r)
    BY <1>3, BusyEditType DEF UpsertStatus, BusyEdit, RowInv
  <2>2. /\ StatusOf' = [StatusOf EXCEPT ![g] = r.status]
        /\ \A f \in Fingerprints \ {g} : store'[f] = store[f]
        /\ store'[g].status = r.status
    BY <2>1, StatusWrite DEF RowInv
  <2>3. /\ decided' = [decided EXCEPT ![g] = r.status]
        /\ edit' = [edit EXCEPT ![h] = IdleEdit]
        /\ UNCHANGED scan
    BY <1>3 DEF UpsertStatus
  <2>4. StatusOf[g] # "none"
    BY <2>1 DEF SerialInv, StatusOf
  <2>6. [Lifecycle!LNext]_Lifecycle!lvars
    <3>1. r.status \in Lifecycle!UserStatuses
      BY <2>1 DEF Lifecycle!UserStatuses, UserStatuses
    <3>2. \E choice \in Lifecycle!UserStatuses : Lifecycle!Decides(g, choice)
      BY <2>2, <2>3, <2>4, <3>1 DEF Lifecycle!Decides, StatusOf
    <3>3. QED
      BY <2>1, <3>2 DEF Lifecycle!LNext
  <2>7. ~edit'[h].busy /\ \A y \in Handlers \ {h} : edit'[y] = edit[y]
    BY <1>1, <2>3 DEF IdleEdit
  <2>8. \A x \in Scanners : scan[x].busy =>
          \A fp \in scan[x].todo \cup scan[x].gone : store'[fp] = store[fp]
    <3> SUFFICES ASSUME NEW x \in Scanners, scan[x].busy,
                        NEW fp \in scan[x].todo \cup scan[x].gone
                 PROVE  store'[fp] = store[fp]
      OBVIOUS
    <3>1. fp \in Fingerprints
      BY BusyScanType DEF RowInv, BusyScan
    <3>2. TargetOf[fp] # TargetOf[g]
      BY <2>1 DEF SerialInv
    <3>3. QED
      BY <2>2, <3>1, <3>2
  <2>9. \A y \in Handlers : edit'[y].busy => store'[edit'[y].fp].status # "none"
    <3> SUFFICES ASSUME NEW y \in Handlers, edit'[y].busy
                 PROVE  store'[edit'[y].fp].status # "none"
      OBVIOUS
    <3>1. y # h /\ edit'[y] = edit[y]
      BY <2>7
    <3>2. edit[y].fp \in Fingerprints /\ store[edit[y].fp].status # "none"
      BY <3>1, BusyEditType DEF RowInv, BusyEdit, SerialInv
    <3>3. QED
      BY <2>1, <2>2, <3>1, <3>2 DEF UserStatuses
  <2>10. /\ \A x, y \in Handlers :
              edit'[x].busy /\ edit'[y].busy
              /\ TargetOf[edit'[x].fp] = TargetOf[edit'[y].fp] => x = y
         /\ \A x \in Scanners, y \in Handlers :
              scan[x].busy /\ edit'[y].busy => scan[x].target # TargetOf[edit'[y].fp]
    BY <2>7 DEF SerialInv
  <2>11. SerialInv'
    BY <2>3, <2>8, <2>9, <2>10 DEF SerialInv
  <2>12. QED
    BY <2>6, <2>11
<1>4. CASE UpsertStatusFails(h)
  <2>1. /\ ~edit'[h].busy /\ \A y \in Handlers \ {h} : edit'[y] = edit[y]
        /\ UNCHANGED <<store, scan, decided>>
    BY <1>1, <1>4 DEF UpsertStatusFails, IdleEdit
  <2>2. SerialInv'
    BY <2>1 DEF SerialInv
  <2>3. QED
    BY <2>1, <2>2 DEF Lifecycle!lvars
<1>5. QED
  BY <1>2, <1>3, <1>4 DEF EditStep

LEMMA SerialStep ==
  ASSUME Overlap = FALSE
  PROVE  RowInv /\ SerialInv /\ [Next]_vars
           => SerialInv' /\ [Lifecycle!LNext]_Lifecycle!lvars
<1> SUFFICES ASSUME RowInv, SerialInv, [Next]_vars
             PROVE  SerialInv' /\ [Lifecycle!LNext]_Lifecycle!lvars
  OBVIOUS
<1>1. ASSUME NEW s \in Scanners, ScanStep(s)
      PROVE  SerialInv' /\ [Lifecycle!LNext]_Lifecycle!lvars
  <2>1. ASSUME NEW t \in Targets, NEW returned \in SUBSET FingerprintsOf(t),
               NEW malformed \in SUBSET returned,
               ListByTarget(s, t, returned, malformed)
        PROVE  SerialInv' /\ [Lifecycle!LNext]_Lifecycle!lvars
    <3>1. UNCHANGED <<store, decided>>
      BY <2>1 DEF ListByTarget
    <3>2. QED
      BY <2>1, <3>1, ListingSerial DEF Lifecycle!lvars
  <2>2. ASSUME NEW fp \in Fingerprints,
               InsertNew(s, fp) \/ Refresh(s, fp) \/ MarkAbsent(s, fp)
        PROVE  SerialInv' /\ [Lifecycle!LNext]_Lifecycle!lvars
    BY <2>2, ScanWriteSerial, ScanWriteRefines
  <2>3. CASE OnResult(s) \/ UpsertFails(s)
    <3>1. UNCHANGED <<store, edit, decided>>
      BY <2>3 DEF OnResult, UpsertFails
    <3>2. ~scan'[s].busy /\ \A x \in Scanners \ {s} : scan'[x] = scan[x]
      BY <2>3 DEF OnResult, UpsertFails, IdleScan, RowInv, TypeOK
    <3>3. SerialInv'
      BY <3>1, <3>2 DEF SerialInv
    <3>4. QED
      BY <3>1, <3>3 DEF Lifecycle!lvars
  <2>4. \A S : {} \in SUBSET S
    OBVIOUS
  <2>5. QED
    BY <1>1, <2>1, <2>2, <2>3, <2>4 DEF ScanStep
<1>2. ASSUME NEW h \in Handlers, EditStep(h)
      PROVE  SerialInv' /\ [Lifecycle!LNext]_Lifecycle!lvars
  BY <1>2, EditSerial
<1>3. CASE Crash
  <2>1. SerialInv'
    BY <1>3 DEF Crash, SerialInv, IdleScan, IdleEdit
  <2>2. QED
    BY <1>3, <2>1 DEF Crash, Lifecycle!lvars
<1>4. CASE UNCHANGED vars
  BY <1>4 DEF vars, SerialInv, Lifecycle!lvars
<1>5. QED
  BY <1>1, <1>2, <1>3, <1>4 DEF Next

\* When operations on one target do not overlap, the engine implements the
\* lifecycle, through failed writes and crashes too.
THEOREM SerialRefinement ==
  ASSUME Overlap = FALSE
  PROVE  Spec => ImplementsLifecycle
<1>1. Init => RowInv /\ SerialInv /\ Lifecycle!LInit
  BY RowInvInit, SerialInit
<1>2. RowInv /\ SerialInv /\ [Next]_vars
        => (RowInv /\ SerialInv)' /\ [Lifecycle!LNext]_Lifecycle!lvars
  BY RowInvStep, SerialStep
<1>3. QED
  BY <1>1, <1>2, PTL DEF Spec, ImplementsLifecycle, Lifecycle!LSpec

\* ... and then no scan overrides a suppression: only the user ends it.
THEOREM SuppressionHolds ==
  ASSUME Overlap = FALSE
  PROVE  Spec => []SuppressionStands
<1>1. Init => SuppressionStands
  BY DEF Init, SuppressionStands
<1>2. SuppressionStands /\ RowInv /\ [Lifecycle!LNext]_Lifecycle!lvars
        => SuppressionStands'
  <2> SUFFICES ASSUME SuppressionStands, TypeOK, [Lifecycle!LNext]_Lifecycle!lvars,
                      NEW g \in Fingerprints, decided'[g] = "suppressed"
               PROVE  store'[g].status = "suppressed"
    BY DEF SuppressionStands, RowInv
  <2>1. StatusOf'[g] = store'[g].status /\ StatusOf[g] = store[g].status
    BY DEF StatusOf
  <2>2. ASSUME NEW fp \in Fingerprints, Lifecycle!Opens(fp) \/ Lifecycle!Resolves(fp)
        PROVE  StatusOf'[g] = "suppressed"
    BY <2>1, <2>2 DEF Lifecycle!Opens, Lifecycle!Resolves, StatusOf, SuppressionStands
  <2>3. ASSUME NEW fp \in Fingerprints, NEW choice \in Lifecycle!UserStatuses,
               Lifecycle!Decides(fp, choice)
        PROVE  StatusOf'[g] = "suppressed"
    <3>1. /\ StatusOf' = [StatusOf EXCEPT ![fp] = choice]
          /\ decided' = [decided EXCEPT ![fp] = choice]
      BY <2>3 DEF Lifecycle!Decides, StatusOf
    <3>2. CASE g = fp
      BY <3>1, <3>2 DEF StatusOf, TypeOK
    <3>3. CASE g # fp
      BY <2>1, <3>1, <3>3 DEF StatusOf, SuppressionStands, TypeOK
    <3>4. QED
      BY <3>2, <3>3
  <2>4. CASE UNCHANGED Lifecycle!lvars
    BY <2>1, <2>4 DEF Lifecycle!lvars, StatusOf, SuppressionStands
  <2>5. QED
    BY <2>1, <2>2, <2>3, <2>4 DEF Lifecycle!LNext
<1>3. Init => RowInv /\ SerialInv
  BY RowInvInit, SerialInit
<1>4. RowInv /\ SerialInv /\ [Next]_vars
        => (RowInv /\ SerialInv)' /\ [Lifecycle!LNext]_Lifecycle!lvars
  BY RowInvStep, SerialStep
<1>5. QED
  BY <1>1, <1>2, <1>3, <1>4, PTL DEF Spec
=============================================================================
