------------------------------ MODULE Reconcile ------------------------------
(***************************************************************************)
(* The reconcile engine (store/reconcile.go) over the SQLite store         *)
(* (store/sqlite.go), called by scans (scanOne, sched/scheduler.go) and    *)
(* raced by the status handler of the web server (handleFindingStatus,     *)
(* web/server.go).                                                         *)
(*                                                                         *)
(* Every SQL statement is one atomic step and nothing else is: a scan      *)
(* lists the records of its target, then writes them back one by one from  *)
(* that snapshot; the handler reads a record and writes the whole record   *)
(* back.  No lock spans the read and the writes.                           *)
(*                                                                         *)
(* The title, severity, remediation and evidence of a finding are left     *)
(* out: a refresh copies them and nothing here depends on them.            *)
(***************************************************************************)
EXTENDS Naturals, FiniteSets

CONSTANTS
  Fingerprints,   \* identities of problems (core.Fingerprint)
  Targets,        \* canonical targets
  TargetOf,       \* a fingerprint hashes its target: [Fingerprints -> Targets]
  Scanners,       \* goroutines inside scanOne
  Handlers,       \* goroutines inside handleFindingStatus
  ResolveAfter,   \* ModuleInfo.ResolveAfterOrDefault()
  Overlap,        \* may operations on one target be in flight together?
  MaybeMalformed, \* may a collector return findings that fail validation?
  MaxScans,       \* bound: scans started
  MaxFaults,      \* bound: failed Upserts
  MaxCrashes      \* bound: process crashes

ASSUME ConstantsAssumption ==
  /\ TargetOf \in [Fingerprints -> Targets]
  /\ ResolveAfter \in Nat \ {0}
  /\ Overlap \in BOOLEAN
  /\ MaybeMalformed \in BOOLEAN
  /\ MaxScans \in Nat /\ MaxFaults \in Nat /\ MaxCrashes \in Nat

VARIABLES
  store,      \* the findings table: store[fp], NoRecord when there is no row
  now,        \* the clock; each scan reads a later instant
  nextID,     \* ULIDs handed out so far
  scan,       \* scan[s]: the local variables of one Reconcile call
  edit,       \* edit[h]: the local variables of one handleFindingStatus call
  told,       \* history: the last event handed to OnResult's subscribers
  missed,     \* history: consecutive scans that returned no valid finding fp
  decided,    \* history: the last status the API accepted from the user
  faults,     \* Upserts that failed
  crashes     \* crashes of the process

vars == <<store, now, nextID, scan, edit, told, missed, decided, faults, crashes>>

-----------------------------------------------------------------------------
(* Records *)

UserStatuses == {"open", "acknowledged", "suppressed"}
Statuses == {"none", "resolved"} \cup UserStatuses

Never == 0      \* a nil ResolvedAt

Record == [status : Statuses, id : Nat, firstSeen : Nat, lastSeen : Nat,
           resolvedAt : Nat, absentStreak : Nat]

NoRecord == [status |-> "none", id |-> 0, firstSeen |-> 0, lastSeen |-> 0,
             resolvedAt |-> Never, absentStreak |-> 0]

\* The row Reconcile inserts for a fingerprint its snapshot does not hold.
NewRecord(id, t) ==
  [status |-> "open", id |-> id, firstSeen |-> t, lastSeen |-> t,
   resolvedAt |-> Never, absentStreak |-> 0]

\* (Mutant of IsReopening: an acknowledged finding reopens at every refresh.)
IsReopeningUnlessOpen(r) == r.status # "open"

IsReopening(r) == r.status = "resolved"

\* (Mutants of Refreshed: the streak of absences survives a sighting; or is
\* counted down instead of reset.)
RefreshedKeepingStreak(r, t) ==
  IF IsReopening(r)
  THEN [r EXCEPT !.lastSeen = t, !.status = "open", !.resolvedAt = Never]
  ELSE [r EXCEPT !.lastSeen = t]

RefreshedCountingDown(r, t) == [r EXCEPT !.lastSeen = t, !.absentStreak = @ - 1]

\* The row Reconcile writes back for a fingerprint its snapshot holds.
Refreshed(r, t) ==
  IF IsReopening(r)
  THEN [r EXCEPT !.lastSeen = t, !.absentStreak = 0,
                 !.status = "open", !.resolvedAt = Never]
  ELSE [r EXCEPT !.lastSeen = t, !.absentStreak = 0]

\* (Mutant of CountsAbsence: suppressed findings count absences and resolve.)
CountsAbsenceWhenSuppressed(r) == r.status \notin {"none", "resolved"}

\* Resolved stays resolved and suppressed is the user's call: neither counts
\* absences nor resolves.
CountsAbsence(r) == r.status \notin {"none", "resolved", "suppressed"}

StreakReached(r) == r.absentStreak + 1 >= ResolveAfter

\* The row Reconcile writes back for a fingerprint the scan did not return.
MarkedAbsent(r, t) ==
  IF StreakReached(r)
  THEN [r EXCEPT !.absentStreak = @ + 1, !.status = "resolved", !.resolvedAt = t]
  ELSE [r EXCEPT !.absentStreak = @ + 1]

\* (Mutants of Merged: the whole row is replaced, as MemStore.Upsert does; or
\* resolved_at is missing from the columns updated.)
MergedReplacing(row, r) == r

MergedWithoutResolvedAt(row, r) ==
  IF row.status = "none" THEN r
  ELSE [r EXCEPT !.id = row.id, !.firstSeen = row.firstSeen,
                 !.resolvedAt = row.resolvedAt]

\* INSERT ... ON CONFLICT(module, fingerprint) DO UPDATE: a row that exists
\* keeps its id and first_seen whatever the caller passes.
Merged(row, r) ==
  IF row.status = "none" THEN r
  ELSE [r EXCEPT !.id = row.id, !.firstSeen = row.firstSeen]

Upsert(fp, r) == store' = [store EXCEPT ![fp] = Merged(@, r)]

-----------------------------------------------------------------------------
(* In-flight operations *)

Event == [fp : Fingerprints, id : Nat]

IdleScan == [busy |-> FALSE]
IdleEdit == [busy |-> FALSE]

BusyScan == [busy : {TRUE}, target : Targets, at : Nat,
             existing : [Fingerprints -> Record],
             todo : SUBSET Fingerprints,        \* valid findings to ingest
             gone : SUBSET Fingerprints,        \* absent records to mark
             newlyOpen : SUBSET Event, resolved : SUBSET Event]

BusyEdit == [busy : {TRUE}, fp : Fingerprints,
             record : {r \in Record : r.status \in UserStatuses}]

\* (Mutant of WithEvent: assigns where the code appends.)
WithEventOnly(events, fp, id) == {[fp |-> fp, id |-> id]}

\* append(res.NewlyOpen, ...) and append(res.Resolved, ...)
WithEvent(events, fp, id) == events \cup {[fp |-> fp, id |-> id]}

FingerprintsOf(t) == {fp \in Fingerprints : TargetOf[fp] = t}

ScanActive(t) == \E s \in Scanners : scan[s].busy /\ scan[s].target = t
EditActive(t) == \E h \in Handlers : edit[h].busy /\ TargetOf[edit[h].fp] = t

\* Nothing in the code keeps operations on one target apart.  Overlap = FALSE
\* is the assumption that they happen to be: scans of a target are hours
\* apart and the user does not click while one is running.
MayStart(t) == Overlap \/ ~(ScanActive(t) \/ EditActive(t))

-----------------------------------------------------------------------------
Init ==
  /\ store   = [fp \in Fingerprints |-> NoRecord]
  /\ now     = 0
  /\ nextID  = 0
  /\ scan    = [s \in Scanners |-> IdleScan]
  /\ edit    = [h \in Handlers |-> IdleEdit]
  /\ told    = [fp \in Fingerprints |-> [kind |-> "none", id |-> 0]]
  /\ missed  = [fp \in Fingerprints |-> 0]
  /\ decided = [fp \in Fingerprints |-> "none"]
  /\ faults  = 0
  /\ crashes = 0

\* Collect returned `returned`, of which `malformed` fail ValidateForIngest;
\* Reconcile reads the clock and lists the records of the target.  Malformed
\* findings are never marked seen, so their records count as absent.
ListByTarget(s, t, returned, malformed) ==
  LET valid    == returned \ malformed
      existing == [fp \in Fingerprints |->
                     IF TargetOf[fp] = t THEN store[fp] ELSE NoRecord]
  IN
  /\ ~scan[s].busy
  /\ now < MaxScans
  /\ MayStart(t)
  /\ now' = now + 1
  /\ scan' = [scan EXCEPT ![s] =
       [busy |-> TRUE, target |-> t, at |-> now + 1, existing |-> existing,
        todo |-> valid,
        gone |-> {fp \in FingerprintsOf(t) \ valid : CountsAbsence(existing[fp])},
        newlyOpen |-> {}, resolved |-> {}]]
  /\ missed' = [fp \in Fingerprints |->
       IF TargetOf[fp] # t THEN missed[fp]
       ELSE IF fp \in valid THEN 0 ELSE missed[fp] + 1]
  /\ UNCHANGED <<store, nextID, edit, told, decided, faults, crashes>>

\* A valid finding without a record in the snapshot: insert it as open.
InsertNew(s, fp) ==
  LET id == nextID + 1 IN
  /\ scan[s].busy
  /\ fp \in scan[s].todo
  /\ scan[s].existing[fp].status = "none"
  /\ nextID' = id
  /\ Upsert(fp, NewRecord(id, scan[s].at))
  /\ scan' = [scan EXCEPT ![s].todo = @ \ {fp},
                          ![s].newlyOpen = WithEvent(@, fp, id)]
  /\ UNCHANGED <<now, edit, told, missed, decided, faults, crashes>>

\* A valid finding with a record in the snapshot: refresh it, and reopen it
\* if the snapshot says it was resolved.
Refresh(s, fp) ==
  LET prev == scan[s].existing[fp] IN
  /\ scan[s].busy
  /\ fp \in scan[s].todo
  /\ prev.status # "none"
  /\ Upsert(fp, Refreshed(prev, scan[s].at))
  /\ scan' = [scan EXCEPT ![s].todo = @ \ {fp},
       ![s].newlyOpen = IF IsReopening(prev)
                        THEN WithEvent(@, fp, prev.id) ELSE @]
  /\ UNCHANGED <<now, nextID, edit, told, missed, decided, faults, crashes>>

\* Once every valid finding is in, the records the scan did not see.
MarkAbsent(s, fp) ==
  LET prev == scan[s].existing[fp] IN
  /\ scan[s].busy
  /\ scan[s].todo = {}
  /\ fp \in scan[s].gone
  /\ Upsert(fp, MarkedAbsent(prev, scan[s].at))
  /\ scan' = [scan EXCEPT ![s].gone = @ \ {fp},
       ![s].resolved = IF StreakReached(prev)
                       THEN WithEvent(@, fp, prev.id) ELSE @]
  /\ UNCHANGED <<now, nextID, edit, told, missed, decided, faults, crashes>>

EventFor(fp, events) == CHOOSE e \in events : e.fp = fp

\* (Mutant of LatestEvent: resolutions are not passed on.)
LatestEventOpened(fp, opened, resolved) ==
  IF \E e \in opened : e.fp = fp
  THEN [kind |-> "opened", id |-> EventFor(fp, opened).id]
  ELSE told[fp]

\* What fp's subscribers heard last once a result is handed over.
LatestEvent(fp, opened, resolved) ==
  IF \E e \in resolved : e.fp = fp
  THEN [kind |-> "resolved", id |-> EventFor(fp, resolved).id]
  ELSE IF \E e \in opened : e.fp = fp
  THEN [kind |-> "opened", id |-> EventFor(fp, opened).id]
  ELSE told[fp]

\* Reconcile returns without error and scanOne hands the result to OnResult.
OnResult(s) ==
  /\ scan[s].busy
  /\ scan[s].todo = {} /\ scan[s].gone = {}
  /\ told' = [fp \in Fingerprints |->
                LatestEvent(fp, scan[s].newlyOpen, scan[s].resolved)]
  /\ scan' = [scan EXCEPT ![s] = IdleScan]
  /\ UNCHANGED <<store, now, nextID, edit, missed, decided, faults, crashes>>

\* An Upsert fails (or newID does): Reconcile returns the error together with
\* the partial result, and scanOne drops the result.
UpsertFails(s) ==
  /\ scan[s].busy
  /\ scan[s].todo \cup scan[s].gone # {}
  /\ faults < MaxFaults
  /\ faults' = faults + 1
  /\ scan' = [scan EXCEPT ![s] = IdleScan]
  /\ UNCHANGED <<store, now, nextID, edit, told, missed, decided, crashes>>

\* handleFindingStatus, first half: Get the record; 404 when there is none.
GetForStatus(h, fp, next) ==
  /\ ~edit[h].busy
  /\ store[fp].status # "none"
  /\ MayStart(TargetOf[fp])
  /\ edit' = [edit EXCEPT ![h] =
       [busy |-> TRUE, fp |-> fp, record |-> [store[fp] EXCEPT !.status = next]]]
  /\ UNCHANGED <<store, now, nextID, scan, told, missed, decided, faults, crashes>>

\* handleFindingStatus, second half: write back the whole record.
UpsertStatus(h) ==
  /\ edit[h].busy
  /\ Upsert(edit[h].fp, edit[h].record)
  /\ decided' = [decided EXCEPT ![edit[h].fp] = edit[h].record.status]
  /\ edit' = [edit EXCEPT ![h] = IdleEdit]
  /\ UNCHANGED <<now, nextID, scan, told, missed, faults, crashes>>

\* The handler's Upsert fails: the user is told (HTTP 500).
UpsertStatusFails(h) ==
  /\ edit[h].busy
  /\ faults < MaxFaults
  /\ faults' = faults + 1
  /\ edit' = [edit EXCEPT ![h] = IdleEdit]
  /\ UNCHANGED <<store, now, nextID, scan, told, missed, decided, crashes>>

\* The process dies and is started again: only the database survives.
Crash ==
  /\ crashes < MaxCrashes
  /\ crashes' = crashes + 1
  /\ scan' = [s \in Scanners |-> IdleScan]
  /\ edit' = [h \in Handlers |-> IdleEdit]
  /\ UNCHANGED <<store, now, nextID, told, missed, decided, faults>>

ScanStep(s) ==
  \/ \E t \in Targets : \E returned \in SUBSET FingerprintsOf(t) :
       \E malformed \in IF MaybeMalformed THEN SUBSET returned ELSE {{}} :
         ListByTarget(s, t, returned, malformed)
  \/ \E fp \in Fingerprints : InsertNew(s, fp) \/ Refresh(s, fp) \/ MarkAbsent(s, fp)
  \/ OnResult(s)
  \/ UpsertFails(s)

EditStep(h) ==
  \/ \E fp \in Fingerprints, next \in UserStatuses : GetForStatus(h, fp, next)
  \/ UpsertStatus(h)
  \/ UpsertStatusFails(h)

Next ==
  \/ \E s \in Scanners : ScanStep(s)
  \/ \E h \in Handlers : EditStep(h)
  \/ Crash

Spec == Init /\ [][Next]_vars

-----------------------------------------------------------------------------
(* Properties *)

\* Every variable has its type; an in-flight scan works on its own target and
\* has no fingerprint both to ingest and to mark absent.
TypeOK ==
  /\ store \in [Fingerprints -> Record]
  /\ now \in Nat /\ nextID \in Nat
  /\ scan \in [Scanners -> {IdleScan} \cup BusyScan]
  /\ edit \in [Handlers -> {IdleEdit} \cup BusyEdit]
  /\ told \in [Fingerprints -> [kind : {"none", "opened", "resolved"}, id : Nat]]
  /\ missed \in [Fingerprints -> Nat]
  /\ decided \in [Fingerprints -> {"none"} \cup UserStatuses]
  /\ faults \in Nat /\ crashes \in Nat

\* This step changes no row's id or first_seen.
KeepsIdentity ==
  \A fp \in Fingerprints :
    store[fp].status # "none" =>
      /\ store'[fp].status # "none"
      /\ store'[fp].id = store[fp].id
      /\ store'[fp].firstSeen = store[fp].firstSeen

\* Once a finding has a row, its id and first_seen never change, even when two
\* scans both believe they are the first to see it and both insert it (the
\* column list of Upsert's ON CONFLICT clause).
IdentityStable == [][KeepsIdentity]_vars

\* A resolved row carries the instant it was resolved at, whichever stale copy
\* was written back last: handleFindings hides a resolved row without one
\* (web/server.go:165-166).
ResolvedIsStamped ==
  \A fp \in Fingerprints :
    store[fp].status = "resolved" => store[fp].resolvedAt # Never

\* No write has failed and the process has not died.
Undisturbed == faults = 0 /\ crashes = 0

\* No row stays unannounced: each has been handed to OnResult or is in the
\* result of a Reconcile call still running ("returns what changed so the
\* scheduler can drive notifications without re-querying",
\* store/reconcile.go:21-22).
EveryRecordAnnounced ==
  \A fp \in Fingerprints :
    store[fp].status # "none" =>
      \/ told[fp].kind # "none"
      \/ \E s \in Scanners :
           scan[s].busy /\ \E e \in scan[s].newlyOpen : e.fp = fp

\* Overlap alone never leaves a row unannounced: both scans that insert a
\* finding announce it.
AnnouncedIfUndisturbed == Undisturbed => EveryRecordAnnounced

\* A finding the user suppressed stays suppressed until the user says
\* otherwise ("suppressed is the user's call", store/reconcile.go:95).
SuppressionStands ==
  \A fp \in Fingerprints :
    decided[fp] = "suppressed" => store[fp].status = "suppressed"

\* As long as nothing fails, the last event handed over agrees between scans
\* with the table: a resolved
\* row was announced as resolved, and a row announced as resolved that is not
\* resolved now is one the user took out of that state.
AnnouncementsMatch ==
  \A fp \in Fingerprints :
    Undisturbed /\ ~ScanActive(TargetOf[fp]) =>
      /\ (store[fp].status = "none") <=> (told[fp].kind = "none")
      /\ store[fp].status = "resolved" => told[fp].kind = "resolved"
      /\ told[fp].kind = "resolved" =>
           store[fp].status \in {"resolved", decided[fp]}

\* As long as nothing fails, the opening of a finding is announced once per
\* episode: never again before its resolution was announced.
OpenedOncePerEpisode ==
  [][\A s \in Scanners :
       Undisturbed /\ scan[s].busy /\ ~scan'[s].busy =>
         \A e \in scan[s].newlyOpen : told[e.fp].kind # "opened"]_vars

\* As long as nothing fails, a finding resolves by itself only after ResolveAfter
\* consecutive scans that did not return it (store/store.go:18-20).  One that is
\* returned but fails validation has been missed (reconcile.go:39-42): that counts
\* as one absence, and does not resolve it at once.
ResolvedOnlyAfterMisses ==
  [][\A fp \in Fingerprints :
       Undisturbed /\ store[fp].status # "resolved" /\ store'[fp].status = "resolved"
         => missed[fp] >= ResolveAfter]_vars

\* Without overlap the engine implements the lifecycle it documents.
Lifecycle == INSTANCE FindingLifecycle
               WITH status <- [fp \in Fingerprints |-> store[fp].status]
ImplementsLifecycle == Lifecycle!LSpec
=============================================================================
