--------------------------- MODULE SchedulerProofs ---------------------------
(***************************************************************************)
(* Proofs about Scheduler: types, the accounting of worker slots and of    *)
(* the WaitGroup, what Stop guarantees, and what ends a backoff, for       *)
(* any modules, targets, callers, workers and number of goroutines.        *)
(***************************************************************************)
EXTENDS Scheduler, FiniteSetTheorems, TLAPS

TrackedScans == {g \in Scans : Tracked(g)}

\* A loop exists only after Start and has targets to do only inside a sweep.
LoopInv ==
  /\ ~started => Looping = {}
  /\ stopper # "idle" => started
  /\ \A m \in Modules : loop[m].todo # {} => loop[m].phase = "running"

\* A sweep's scan is canceled only with the scheduler's own context.
CancelInv ==
  \A g \in Scans :
    scan[g].phase = "returned" /\ scan[g].origin = "sweep" /\ scan[g].outcome = "canceled"
      => cancelled

SInv ==
  /\ TypeOK
  /\ SlotsAccounted
  /\ WaitGroupAccounted
  /\ CancelInv
  /\ StoppedMeansStopped
  /\ LoopInv

-----------------------------------------------------------------------------
(* Finite sets *)

LEMMA SetsFinite ==
  /\ IsFiniteSet(Running) /\ IsFiniteSet(TrackedScans) /\ IsFiniteSet(Looping)
  /\ IsFiniteSet(Running') /\ IsFiniteSet(TrackedScans') /\ IsFiniteSet(Looping')
<1>1. /\ Running \subseteq Scans /\ TrackedScans \subseteq Scans
      /\ Looping \subseteq Modules
      /\ Running' \subseteq Scans /\ TrackedScans' \subseteq Scans
      /\ Looping' \subseteq Modules
  BY DEF Running, TrackedScans, Looping
<1>2. IsFiniteSet(Scans) /\ IsFiniteSet(Modules)
  BY SchedulerAssumption
<1>3. QED
  BY <1>1, <1>2, FS_Subset

\* A set that gains a member counts one more, a set that loses one, one less.
LEMMA OneMore ==
  ASSUME NEW S, IsFiniteSet(S), NEW x, x \notin S, NEW T, T = S \cup {x}
  PROVE  Cardinality(T) = Cardinality(S) + 1
BY FS_AddElement

LEMMA OneLess ==
  ASSUME NEW S, IsFiniteSet(S), NEW x \in S, NEW T, T = S \ {x}
  PROVE  Cardinality(T) = Cardinality(S) - 1
BY FS_RemoveElement

\* A goroutine that is not idle has a module, a target and an origin.
LEMMA ScanShape ==
  ASSUME TypeOK, NEW g \in Scans, scan[g].phase # "idle"
  PROVE  scan[g] \in Scan
BY DEF TypeOK, Idle

-----------------------------------------------------------------------------
(* What a step does to the goroutines around scanOne *)

\* g starts a scan for `origin`; s.wg counts it unless ScanNow started it.
Spawned(g, m, t, origin) ==
  /\ scan[g].phase = "idle"
  /\ scan' = [scan EXCEPT ![g] = Queued(m, t, origin)]
  /\ wg' = IF origin \in {"sweep", "add"} THEN wg + 1 ELSE wg
  /\ sem' = sem
  /\ Looping' = Looping
  /\ origin = "sweep" => loop[m].todo # {}

LEMMA AddSpawned ==
  ASSUME TypeOK, NEW a \in Adders, NEW g \in Scans, AddTargetSpawns(a, g)
  PROVE  /\ Spawned(g, adding[a].module, adding[a].target, "add")
         /\ adding[a].module \in Modules /\ adding[a].target \in Targets
<1>1. adding[a] \in Adding
  BY DEF AddTargetSpawns, TypeOK, Idle
<1>2. Looping' = Looping
  BY DEF AddTargetSpawns, Looping
<1>3. QED
  BY <1>1, <1>2 DEF AddTargetSpawns, Spawned, Adding

LEMMA CallSpawned ==
  ASSUME TypeOK, NEW c \in Callers, NEW g \in Scans, NEW t \in Targets,
         ScanNowSpawns(c, g, t)
  PROVE  Spawned(g, calling[c].module, t, c) /\ calling[c].module \in Modules
<1>1. calling[c] \in Calling
  BY DEF ScanNowSpawns, TypeOK, Idle
<1>2. Looping' = Looping
  BY DEF ScanNowSpawns, Looping
<1>3. c \notin {"sweep", "add"}
  BY SchedulerAssumption
<1>4. QED
  BY <1>1, <1>2, <1>3 DEF ScanNowSpawns, Spawned, Calling

LEMMA SweepSpawned ==
  ASSUME TypeOK, NEW m \in Modules, NEW g \in Scans, NEW t \in Targets,
         SweepSpawns(m, g, t)
  PROVE  Spawned(g, m, t, "sweep")
<1>1. \A n \in Modules : loop'[n].phase = loop[n].phase
  BY DEF SweepSpawns, TypeOK, Loop
<1>2. Looping' = Looping
  BY <1>1 DEF Looping
<1>3. QED
  BY <1>2 DEF SweepSpawns, Spawned, Counted

LEMMA ScanEffects ==
  ASSUME TypeOK, Next
  PROVE  \/ UNCHANGED <<scan, sem>>
         \/ \E g \in Scans, m \in Modules, t \in Targets, o \in Origins :
              Spawned(g, m, t, o)
         \/ \E g \in Scans : ScanOne(g)
<1>1. CASE \E a \in Adders : AddStep(a)
  <2> PICK a \in Adders : AddStep(a)
    BY <1>1
  <2>1. CASE \E g \in Scans : AddTargetSpawns(a, g)
    BY <2>1, AddSpawned DEF Origins
  <2>2. QED
    BY <2>1 DEF AddStep, AddTarget, AddTargetChecks
<1>2. CASE \E c \in Callers : CallStep(c)
  <2> PICK c \in Callers : CallStep(c)
    BY <1>2
  <2>1. CASE \E g \in Scans, t \in Targets : ScanNowSpawns(c, g, t)
    BY <2>1, CallSpawned DEF Origins
  <2>2. QED
    BY <2>1 DEF CallStep, ScanNow, ScanNowReturns, ClientLeaves
<1>3. CASE \E m \in Modules : SweepStep(m)
  <2> PICK m \in Modules : SweepStep(m)
    BY <1>3
  <2>1. CASE \E g \in Scans, t \in Targets : SweepSpawns(m, g, t)
    BY <2>1, SweepSpawned DEF Origins
  <2>2. QED
    BY <2>1 DEF SweepStep, SweepBegins, SweepSkips
<1>4. QED
  BY <1>1, <1>2, <1>3
  DEF Next, Register, LoopExits, AddTargetEarly, RemoveTarget, BackoffEnds,
      Start, ParentDone, Stop, StopReturns

-----------------------------------------------------------------------------
(* Worker slots *)

\* Of the goroutines, a step of scanOne changes only its own.
LEMMA SlotsStep ==
  ASSUME TypeOK, SlotsAccounted, Next
  PROVE  SlotsAccounted'
<1>1. CASE UNCHANGED <<scan, sem>>
  BY <1>1 DEF SlotsAccounted, Running
<1>2. ASSUME NEW g \in Scans, NEW m \in Modules, NEW t \in Targets,
             NEW o \in Origins, Spawned(g, m, t, o)
      PROVE  SlotsAccounted'
  <2>1. Running' = Running
    BY <1>2 DEF Spawned, Queued, Running, TypeOK
  <2>2. QED
    BY <1>2, <2>1 DEF SlotsAccounted, Spawned
<1>3. ASSUME NEW g \in Scans, Acquire(g)
      PROVE  SlotsAccounted'
  <2>1. g \notin Running /\ Running' = Running \cup {g}
    BY <1>3, ScanShape DEF Acquire, Running, TypeOK, Scan
  <2>2. Cardinality(Running') = Cardinality(Running) + 1
    BY <2>1, SetsFinite, OneMore
  <2>3. QED
    BY <1>3, <2>2, SchedulerAssumption DEF Acquire, SlotsAccounted, TypeOK
<1>4. ASSUME NEW g \in Scans, CanceledInQueue(g)
      PROVE  SlotsAccounted'
  <2>1. Running' = Running
    BY <1>4 DEF CanceledInQueue, Returned, Running, TypeOK
  <2>2. QED
    BY <1>4, <2>1 DEF CanceledInQueue, SlotsAccounted
<1>5. ASSUME NEW g \in Scans, NEW outcome, ScanReturns(g, outcome)
      PROVE  SlotsAccounted'
  <2>1. g \in Running /\ Running' = Running \ {g}
    BY <1>5 DEF ScanReturns, Returned, Running, TypeOK
  <2>2. Cardinality(Running') = Cardinality(Running) - 1
    BY <2>1, SetsFinite, OneLess
  <2>3. QED
    BY <1>5, <2>2, SchedulerAssumption
    DEF ScanReturns, Released, SlotsAccounted, TypeOK
<1>6. ASSUME NEW g \in Scans, ScanEnds(g)
      PROVE  SlotsAccounted'
  <2>1. Running' = Running
    BY <1>6 DEF ScanEnds, Idle, Running, TypeOK
  <2>2. QED
    BY <1>6, <2>1 DEF ScanEnds, SlotsAccounted
<1>7. QED
  BY <1>1, <1>2, <1>3, <1>4, <1>5, <1>6, ScanEffects DEF ScanOne

-----------------------------------------------------------------------------
(* The WaitGroup *)

LEMMA TrackedSpawn ==
  ASSUME TypeOK, NEW g \in Scans, NEW m \in Modules, NEW t \in Targets,
         NEW o \in Origins, Spawned(g, m, t, o)
  PROVE  /\ g \notin TrackedScans
         /\ TrackedScans' = IF o \in {"sweep", "add"}
                            THEN TrackedScans \cup {g} ELSE TrackedScans
<1>1. \A x \in Scans : scan'[x] = IF x = g THEN Queued(m, t, o) ELSE scan[x]
  BY DEF Spawned, TypeOK
<1>2. scan'[g].phase = "queued" /\ scan'[g].origin = o
  BY <1>1 DEF Queued
<1>3. \A x \in Scans : x # g => (Tracked(x)' <=> Tracked(x))
  BY <1>1 DEF Tracked
<1>4. ~Tracked(g) /\ (Tracked(g)' <=> o \in {"sweep", "add"})
  BY <1>2 DEF Tracked, Spawned
<1>5. QED
  BY <1>3, <1>4 DEF TrackedScans

\* Neither Acquire nor a return from scanOne changes whose goroutine it is.
LEMMA TrackedKept ==
  ASSUME TypeOK, NEW g \in Scans, scan[g].phase \in {"queued", "running"},
         NEW r, scan' = [scan EXCEPT ![g] = r],
         r.phase # "idle", r.origin = scan[g].origin
  PROVE  TrackedScans' = TrackedScans
<1>1. \A x \in Scans : scan'[x] = IF x = g THEN r ELSE scan[x]
  BY DEF TypeOK
<1>2. \A x \in Scans : Tracked(x)' <=> Tracked(x)
  BY <1>1 DEF Tracked
<1>3. QED
  BY <1>2 DEF TrackedScans

LEMMA TrackedEnd ==
  ASSUME TypeOK, NEW g \in Scans, ScanEnds(g)
  PROVE  TrackedScans' = TrackedScans \ {g}
<1>1. \A x \in Scans : scan'[x] = IF x = g THEN Idle ELSE scan[x]
  BY DEF ScanEnds, TypeOK
<1>2. \A x \in Scans : x # g => (Tracked(x)' <=> Tracked(x))
  BY <1>1 DEF Tracked
<1>3. ~Tracked(g)'
  BY <1>1 DEF Tracked, Idle
<1>4. QED
  BY <1>2, <1>3 DEF TrackedScans

\* Loops come with Start and go with LoopExits; a sweep keeps its loop.
LEMMA LoopEffects ==
  ASSUME TypeOK, LoopInv, Next
  PROVE  /\ Start => Looping = {} /\ Looping' = modules
         /\ \A m \in Modules : LoopExits(m) => m \in Looping /\ Looping' = Looping \ {m}
         /\ Start \/ (\E m \in Modules : LoopExits(m)) \/ Looping' = Looping
<1>1. ASSUME Start
      PROVE  Looping = {} /\ Looping' = modules
  <2>1. Looping = {}
    BY <1>1 DEF Start, LoopInv
  <2>2. \A m \in Modules : loop'[m].phase = IF m \in modules THEN "starting"
                                            ELSE loop[m].phase
    BY <1>1 DEF Start, TypeOK, Loop
  <2>3. Looping' = modules
    BY <2>1, <2>2 DEF Looping, TypeOK
  <2>4. QED
    BY <2>1, <2>3
<1>2. ASSUME NEW m \in Modules, LoopExits(m)
      PROVE  m \in Looping /\ Looping' = Looping \ {m}
  <2>1. loop[m].phase = "running"
    BY <1>2 DEF LoopExits, AtSelect
  <2>2. /\ loop'[m].phase = "done"
        /\ \A n \in Modules : n # m => loop'[n] = loop[n]
    BY <1>2 DEF LoopExits, TypeOK, Loop
  <2>3. QED
    BY <2>1, <2>2 DEF Looping
<1>3. ASSUME NEW m \in Modules, SweepStep(m)
      PROVE  Looping' = Looping
  <2>1. CASE SweepBegins(m)
    <3>1. loop[m].phase \in {"starting", "running"} /\ loop'[m].phase = "running"
      BY <2>1 DEF SweepBegins, AtSelect, TypeOK
    <3>2. \A n \in Modules : n # m => loop'[n] = loop[n]
      BY <2>1 DEF SweepBegins, TypeOK
    <3>3. QED
      BY <3>1, <3>2 DEF Looping
  <2>2. ASSUME NEW t \in Targets, SweepSkips(m, t)
        PROVE  Looping' = Looping
    <3>1. \A n \in Modules : loop'[n].phase = loop[n].phase
      BY <2>2 DEF SweepSkips, TypeOK, Loop
    <3>2. QED
      BY <3>1 DEF Looping
  <2>3. ASSUME NEW t \in Targets, NEW g \in Scans, SweepSpawns(m, g, t)
        PROVE  Looping' = Looping
    <3>1. \A n \in Modules : loop'[n].phase = loop[n].phase
      BY <2>3 DEF SweepSpawns, TypeOK, Loop
    <3>2. QED
      BY <3>1 DEF Looping
  <2>4. QED
    BY <1>3, <2>1, <2>2, <2>3 DEF SweepStep
<1>4. ASSUME loop' = loop
      PROVE  Looping' = Looping
  BY <1>4 DEF Looping
<1>5. ASSUME \E a \in Adders : AddStep(a)
      PROVE  Looping' = Looping
  BY <1>4, <1>5 DEF AddStep, AddTarget, AddTargetChecks, AddTargetSpawns
<1>6. ASSUME \E c \in Callers : CallStep(c)
      PROVE  Looping' = Looping
  BY <1>4, <1>6 DEF CallStep, ScanNow, ScanNowSpawns, ScanNowReturns, ClientLeaves
<1>7. ASSUME \E g \in Scans : ScanOne(g)
      PROVE  Looping' = Looping
  BY <1>4, <1>7 DEF ScanOne, Acquire, CanceledInQueue, ScanReturns, ScanEnds
<1>8. Start \/ (\E m \in Modules : LoopExits(m)) \/ Looping' = Looping
  BY <1>3, <1>4, <1>5, <1>6, <1>7
  DEF Next, Register, AddTargetEarly, RemoveTarget, BackoffEnds, ParentDone,
      Stop, StopReturns
<1>9. QED
  BY <1>1, <1>2, <1>8

\* A step that touches neither a scan goroutine nor a loop leaves s.wg alone.
LEMMA GroupKept ==
  ASSUME TypeOK, Next, UNCHANGED <<scan, sem>>
  PROVE  Start \/ (\E m \in Modules : LoopExits(m)) \/ wg' = wg
<1>1. ASSUME NEW g \in Scans, ScanEnds(g)
      PROVE  FALSE
  <2>1. scan'[g].phase = "idle" /\ scan[g].phase = "returned"
    BY <1>1 DEF ScanEnds, Idle, TypeOK
  <2>2. QED
    BY <2>1
<1>2. ASSUME NEW a \in Adders, NEW g \in Scans, AddTargetSpawns(a, g)
      PROVE  FALSE
  BY <1>2 DEF AddTargetSpawns, Queued, TypeOK
<1>3. ASSUME NEW m \in Modules, NEW g \in Scans, NEW t \in Targets,
             SweepSpawns(m, g, t)
      PROVE  FALSE
  BY <1>3 DEF SweepSpawns, Queued, TypeOK
<1>4. QED
  BY <1>1, <1>2, <1>3
  DEF Next, Register, AddTargetEarly, RemoveTarget, BackoffEnds, ParentDone,
      Stop, StopReturns, AddStep, AddTarget, AddTargetChecks, CallStep, ScanNow,
      ScanNowSpawns, ScanNowReturns, ClientLeaves, SweepStep, SweepBegins,
      SweepSkips, ScanOne, Acquire, CanceledInQueue, ScanReturns

LEMMA GroupStep ==
  ASSUME TypeOK, WaitGroupAccounted, LoopInv, Next
  PROVE  WaitGroupAccounted'
<1> DEFINE count == Cardinality(Looping) + Cardinality(TrackedScans)
<1>1. /\ WaitGroupAccounted <=> wg = count
      /\ WaitGroupAccounted' <=> wg' = count'
  BY DEF WaitGroupAccounted, TrackedScans
<1>2. Cardinality(Looping) \in Nat /\ Cardinality(TrackedScans) \in Nat
  BY SetsFinite, FS_CardinalityType
<1>3. ASSUME NEW g \in Scans, NEW m \in Modules, NEW t \in Targets,
             NEW o \in Origins, Spawned(g, m, t, o)
      PROVE  wg' = count'
  <2>1. CASE o \in {"sweep", "add"}
    <3>1. Cardinality(TrackedScans') = Cardinality(TrackedScans) + 1
      BY <1>3, <2>1, TrackedSpawn, SetsFinite, OneMore
    <3>2. QED
      BY <1>1, <1>2, <1>3, <2>1, <3>1 DEF Spawned
  <2>2. CASE o \notin {"sweep", "add"}
    BY <1>1, <1>3, <2>2, TrackedSpawn DEF Spawned
  <2>3. QED
    BY <2>1, <2>2
<1>4. ASSUME NEW g \in Scans, ScanOne(g)
      PROVE  wg' = count'
  <2>1. Looping' = Looping
    BY <1>4 DEF ScanOne, Acquire, CanceledInQueue, ScanReturns, ScanEnds, Looping
  <2>2. CASE Acquire(g)
    <3>1. scan[g].phase = "queued" /\ [scan[g] EXCEPT !.phase = "running"].phase = "running"
          /\ [scan[g] EXCEPT !.phase = "running"].origin = scan[g].origin
      BY <2>2, ScanShape DEF Acquire, Scan
    <3>2. TrackedScans' = TrackedScans
      BY <2>2, <3>1, TrackedKept DEF Acquire
    <3>3. QED
      BY <1>1, <2>1, <2>2, <3>2 DEF Acquire
  <2>3. ASSUME NEW outcome, scan' = [scan EXCEPT ![g] = Returned(g, outcome)],
               scan[g].phase \in {"queued", "running"}, wg' = wg
        PROVE  wg' = count'
    <3>1. /\ Returned(g, outcome).phase # "idle"
          /\ Returned(g, outcome).origin = scan[g].origin
      BY DEF Returned
    <3>2. TrackedScans' = TrackedScans
      BY <2>3, <3>1, TrackedKept
    <3>3. QED
      BY <1>1, <2>1, <2>3, <3>2
  <2>4. CASE ScanEnds(g)
    <3>1. TrackedScans' = TrackedScans \ {g}
      BY <2>4, TrackedEnd
    <3>2. CASE Tracked(g)
      <4>1. Cardinality(TrackedScans') = Cardinality(TrackedScans) - 1
        BY <3>1, <3>2, SetsFinite, OneLess DEF TrackedScans
      <4>2. wg' = wg - 1
        BY <2>4, <3>2 DEF ScanEnds
      <4>3. QED
        BY <1>1, <1>2, <2>1, <4>1, <4>2
    <3>3. CASE ~Tracked(g)
      <4>1. TrackedScans' = TrackedScans
        BY <3>1, <3>3 DEF TrackedScans
      <4>2. wg' = wg
        BY <2>4, <3>3 DEF ScanEnds
      <4>3. QED
        BY <1>1, <2>1, <4>1, <4>2
    <3>4. QED
      BY <3>2, <3>3
  <2>5. QED
    BY <1>4, <2>2, <2>3, <2>4 DEF ScanOne, CanceledInQueue, ScanReturns
<1>5. CASE UNCHANGED <<scan, sem>>
  <2>1. TrackedScans' = TrackedScans
    BY <1>5 DEF TrackedScans, Tracked
  <2>2. CASE Start
    <3>1. Looping = {} /\ Looping' = modules
      BY <2>2, LoopEffects
    <3>2. Cardinality(Looping) = 0
      BY <3>1, FS_EmptySet
    <3>3. IsFiniteSet(modules) /\ Cardinality(modules) \in Nat
      BY <3>1, SetsFinite, FS_CardinalityType
    <3>4. wg' = wg + Cardinality(modules)
      BY <2>2 DEF Start
    <3>5. QED
      BY <1>1, <1>2, <2>1, <3>1, <3>2, <3>3, <3>4
  <2>3. ASSUME NEW m \in Modules, LoopExits(m)
        PROVE  wg' = count'
    <3>1. m \in Looping /\ Looping' = Looping \ {m}
      BY <2>3, LoopEffects
    <3>2. Cardinality(Looping') = Cardinality(Looping) - 1
      BY <3>1, SetsFinite, OneLess
    <3>3. wg' = wg - 1
      BY <2>3 DEF LoopExits
    <3>4. QED
      BY <1>1, <1>2, <2>1, <3>2, <3>3
  <2>4. CASE ~Start /\ ~\E m \in Modules : LoopExits(m)
    BY <1>1, <1>5, <2>1, <2>4, LoopEffects, GroupKept
  <2>5. QED
    BY <1>1, <2>2, <2>3, <2>4
<1>6. QED
  BY <1>1, <1>3, <1>4, <1>5, ScanEffects

-----------------------------------------------------------------------------
(* Loops *)

LEMMA LoopStep ==
  ASSUME TypeOK, LoopInv, Next
  PROVE  LoopInv'
<1>1. /\ started' \/ (~started /\ ~Start)
      /\ started => started'
  BY DEF Next, Register, AddTargetEarly, RemoveTarget, BackoffEnds, Start, ParentDone,
      Stop, StopReturns, AddStep, AddTarget, AddTargetChecks, AddTargetSpawns,
      CallStep, ScanNow, ScanNowSpawns, ScanNowReturns, ClientLeaves, SweepStep,
      SweepBegins, SweepSkips, SweepSpawns, LoopExits, ScanOne, Acquire,
      CanceledInQueue, ScanReturns, ScanEnds, registry, TypeOK
<1>2. ~started' => Looping' = {}
  BY <1>1, LoopEffects DEF LoopInv
<1>3. stopper' # "idle" => started'
  <2>1. stopper' = stopper \/ started
    BY DEF Next, Register, AddTargetEarly, RemoveTarget, BackoffEnds, Start,
        ParentDone, Stop, StopReturns, AddStep, AddTarget, AddTargetChecks,
        AddTargetSpawns, CallStep, ScanNow, ScanNowSpawns, ScanNowReturns,
        ClientLeaves, SweepStep, SweepBegins, SweepSkips, SweepSpawns, LoopExits,
        ScanOne, Acquire, CanceledInQueue, ScanReturns, ScanEnds, LoopInv
  <2>2. QED
    BY <1>1, <2>1 DEF LoopInv
<1>4. ASSUME NEW m \in Modules
      PROVE  loop'[m].todo # {} => loop'[m].phase = "running"
  <2>1. loop[m].todo # {} => loop[m].phase = "running"
    BY DEF LoopInv
  <2>2. ASSUME loop' = loop
        PROVE  loop'[m].todo # {} => loop'[m].phase = "running"
    BY <2>1, <2>2
  <2>3. CASE Start
    <3>1. loop[m].todo = {}
      BY <2>1, <2>3 DEF Start, LoopInv, Looping
    <3>2. loop'[m].todo = loop[m].todo
      BY <2>3 DEF Start, TypeOK, Loop
    <3>3. QED
      BY <3>1, <3>2
  <2>4. ASSUME NEW n \in Modules, SweepBegins(n)
        PROVE  loop'[m].todo # {} => loop'[m].phase = "running"
    BY <2>1, <2>4 DEF SweepBegins, TypeOK
  <2>5. ASSUME NEW n \in Modules, NEW t \in Targets,
               loop' = [loop EXCEPT ![n].todo = @ \ {t}]
        PROVE  loop'[m].todo # {} => loop'[m].phase = "running"
    <3>1. loop'[m].phase = loop[m].phase /\ loop'[m].todo \subseteq loop[m].todo
      BY <2>5 DEF TypeOK, Loop
    <3>2. QED
      BY <2>1, <3>1
  <2>6. ASSUME NEW n \in Modules, LoopExits(n)
        PROVE  loop'[m].todo # {} => loop'[m].phase = "running"
    <3>1. CASE m = n
      BY <2>6, <3>1 DEF LoopExits, AtSelect, TypeOK, Loop
    <3>2. CASE m # n
      BY <2>1, <2>6, <3>2 DEF LoopExits, TypeOK
    <3>3. QED
      BY <3>1, <3>2
  <2>7. CASE \E n \in Modules : SweepStep(n)
    BY <2>4, <2>5, <2>7 DEF SweepStep, SweepSkips, SweepSpawns
  <2>8. CASE \/ \E a \in Adders : AddStep(a)
             \/ \E c \in Callers : CallStep(c)
             \/ \E g \in Scans : ScanOne(g)
    BY <2>2, <2>8
    DEF AddStep, AddTarget, AddTargetChecks, AddTargetSpawns, CallStep, ScanNow,
        ScanNowSpawns, ScanNowReturns, ClientLeaves, ScanOne, Acquire,
        CanceledInQueue, ScanReturns, ScanEnds
  <2>9. QED
    BY <2>2, <2>3, <2>6, <2>7, <2>8
    DEF Next, Register, AddTargetEarly, RemoveTarget, BackoffEnds, ParentDone, Stop,
        StopReturns
<1>5. QED
  BY <1>2, <1>3, <1>4 DEF LoopInv

-----------------------------------------------------------------------------
(* Types *)

\* The scan goroutines, a step at a time.
LEMMA ScanTypeStep ==
  ASSUME TypeOK, Next
  PROVE  scan' \in [Scans -> {Idle} \cup Scan]
<1> SUFFICES ASSUME NEW g \in Scans, NEW r \in {Idle} \cup Scan,
                    scan' = [scan EXCEPT ![g] = r] \/ scan' = scan
             PROVE  scan' \in [Scans -> {Idle} \cup Scan]
  <2>1. ASSUME NEW g \in Scans, NEW m \in Modules, NEW t \in Targets,
               NEW o \in Origins
        PROVE  Queued(m, t, o) \in Scan
    BY DEF Queued, Scan
  <2>2. ASSUME NEW g \in Scans, Acquire(g)
        PROVE  [scan[g] EXCEPT !.phase = "running"] \in Scan
    BY <2>2, ScanShape DEF Acquire, Scan
  <2>3. ASSUME NEW g \in Scans, scan[g].phase # "idle",
               NEW outcome \in {"ok", "failed", "canceled"}
        PROVE  Returned(g, outcome) \in Scan
    BY <2>3, ScanShape DEF Returned, Scan
  <2>4. CASE UNCHANGED <<scan, sem>>
    BY <2>4 DEF TypeOK
  <2>5. CASE \E g \in Scans, m \in Modules, t \in Targets, o \in Origins :
               Spawned(g, m, t, o)
    BY <2>1, <2>5 DEF Spawned
  <2>6. CASE \E g \in Scans : ScanOne(g)
    BY <2>2, <2>3, <2>6 DEF ScanOne, Acquire, CanceledInQueue, ScanReturns, ScanEnds
  <2>7. QED
    BY <2>4, <2>5, <2>6, ScanEffects
<1>1. QED
  BY DEF TypeOK

\* The loops and the calls in progress.
LEMMA LoopTypeStep ==
  ASSUME TypeOK, Next
  PROVE  loop' \in [Modules -> Loop]
<1>1. ASSUME NEW m \in Modules, NEW todo \in SUBSET Targets,
             NEW phase \in {"off", "starting", "running", "done"}
      PROVE  [phase |-> phase, todo |-> todo] \in Loop
  BY DEF Loop
<1>2. \A m \in Modules : loop[m] \in Loop /\ targets[m] \in SUBSET Targets
  BY DEF TypeOK
<1>3. CASE Start
  BY <1>2, <1>3 DEF Start, Loop
<1>4. ASSUME NEW m \in Modules, SweepBegins(m)
      PROVE  loop' \in [Modules -> Loop]
  BY <1>1, <1>2, <1>4 DEF SweepBegins, Snapshot, TypeOK
<1>5. ASSUME NEW m \in Modules, NEW t \in Targets,
             loop' = [loop EXCEPT ![m].todo = @ \ {t}]
      PROVE  loop' \in [Modules -> Loop]
  BY <1>2, <1>5 DEF Loop, TypeOK
<1>6. ASSUME NEW m \in Modules, LoopExits(m)
      PROVE  loop' \in [Modules -> Loop]
  BY <1>2, <1>6 DEF LoopExits, Loop, TypeOK
<1>7. CASE loop' = loop
  BY <1>7 DEF TypeOK
<1>8. CASE \E m \in Modules : SweepStep(m)
  BY <1>4, <1>5, <1>8 DEF SweepStep, SweepSkips, SweepSpawns
<1>9. CASE \/ \E a \in Adders : AddStep(a)
           \/ \E c \in Callers : CallStep(c)
           \/ \E g \in Scans : ScanOne(g)
  BY <1>7, <1>9
  DEF AddStep, AddTarget, AddTargetChecks, AddTargetSpawns, CallStep, ScanNow,
      ScanNowSpawns, ScanNowReturns, ClientLeaves, ScanOne, Acquire,
      CanceledInQueue, ScanReturns, ScanEnds
<1>10. QED
  BY <1>3, <1>6, <1>7, <1>8, <1>9
  DEF Next, Register, AddTargetEarly, RemoveTarget, BackoffEnds, ParentDone, Stop,
      StopReturns

LEMMA CallTypeStep ==
  ASSUME TypeOK, Next
  PROVE  /\ adding' \in [Adders -> {Idle} \cup Adding]
         /\ calling' \in [Callers -> {Idle} \cup Calling]
         /\ gone' \in SUBSET Callers
<1>1. ASSUME NEW a \in Adders, AddStep(a)
      PROVE  /\ adding' \in [Adders -> {Idle} \cup Adding]
             /\ UNCHANGED <<calling, gone>>
  <2>1. CASE \E m \in Modules, t \in Targets : AddTarget(a, m, t)
    BY <2>1 DEF AddTarget, Adding, TypeOK
  <2>2. CASE AddTargetChecks(a)
    <3>1. adding[a] \in Adding
      BY <2>2 DEF AddTargetChecks, Idle, TypeOK
    <3>2. [adding[a] EXCEPT !.phase = "spawn"] \in Adding
      BY <3>1 DEF Adding
    <3>3. QED
      BY <2>2, <3>2 DEF AddTargetChecks, TypeOK
  <2>3. CASE \E g \in Scans : AddTargetSpawns(a, g)
    BY <2>3 DEF AddTargetSpawns, TypeOK
  <2>4. QED
    BY <1>1, <2>1, <2>2, <2>3 DEF AddStep
<1>2. ASSUME NEW c \in Callers, CallStep(c)
      PROVE  /\ calling' \in [Callers -> {Idle} \cup Calling]
             /\ gone' \in SUBSET Callers
             /\ UNCHANGED adding
  <2>1. CASE \E m \in Modules : ScanNow(c, m)
    BY <2>1 DEF ScanNow, Snapshot, Calling, TypeOK
  <2>2. ASSUME NEW g \in Scans, NEW t \in Targets, ScanNowSpawns(c, g, t)
        PROVE  /\ calling' \in [Callers -> {Idle} \cup Calling]
               /\ UNCHANGED <<adding, gone>>
    <3>1. calling[c] \in Calling
      BY <2>2 DEF ScanNowSpawns, Idle, TypeOK
    <3>2. [calling[c] EXCEPT !.todo = @ \ {t}] \in Calling
      BY <3>1 DEF Calling
    <3>3. QED
      BY <2>2, <3>2 DEF ScanNowSpawns, TypeOK
  <2>3. CASE ScanNowReturns(c) \/ ClientLeaves(c)
    BY <2>3 DEF ScanNowReturns, ClientLeaves, TypeOK
  <2>4. QED
    BY <1>2, <2>1, <2>2, <2>3 DEF CallStep, TypeOK
<1>3. CASE UNCHANGED <<adding, calling, gone>>
  BY <1>3 DEF TypeOK
<1>4. CASE \/ \E m \in Modules : SweepStep(m)
           \/ \E g \in Scans : ScanOne(g)
  BY <1>3, <1>4
  DEF SweepStep, SweepBegins, SweepSkips, SweepSpawns, ScanOne, Acquire,
      CanceledInQueue, ScanReturns, ScanEnds
<1>5. QED
  BY <1>1, <1>2, <1>3, <1>4
  DEF Next, Register, AddTargetEarly, RemoveTarget, BackoffEnds, Start, ParentDone,
      Stop, StopReturns, LoopExits, TypeOK

\* A scan that returns as canceled found its own context done.
LEMMA CancelStep ==
  ASSUME TypeOK, CancelInv, Next
  PROVE  CancelInv'
<1>1. cancelled => cancelled'
  <2>1. CASE UNCHANGED cancelled
    BY <2>1
  <2>2. CASE ParentDone \/ Stop
    BY <2>2 DEF ParentDone, Stop
  <2>3. QED
    BY <2>1, <2>2
    DEF Next, Register, AddTargetEarly, RemoveTarget, BackoffEnds, Start, StopReturns,
        AddStep, AddTarget, AddTargetChecks, AddTargetSpawns, CallStep, ScanNow,
        ScanNowSpawns, ScanNowReturns, ClientLeaves, SweepStep, SweepBegins,
        SweepSkips, SweepSpawns, LoopExits, ScanOne, Acquire, CanceledInQueue,
        ScanReturns, ScanEnds
<1>2. ASSUME NEW g \in Scans, NEW m \in Modules, NEW t \in Targets, NEW o \in Origins,
             Spawned(g, m, t, o)
      PROVE  CancelInv'
  <2>1. \A x \in Scans : scan'[x] = IF x = g THEN Queued(m, t, o) ELSE scan[x]
    BY <1>2 DEF Spawned, TypeOK
  <2>2. Queued(m, t, o).phase = "queued"
    BY DEF Queued
  <2>3. QED
    BY <1>1, <2>1, <2>2 DEF CancelInv
<1>3. ASSUME NEW g \in Scans, ScanOne(g)
      PROVE  CancelInv'
  <2>1. \A x \in Scans : x # g => scan'[x] = scan[x]
    BY <1>3
    DEF ScanOne, Acquire, CanceledInQueue, ScanReturns, ScanEnds, TypeOK
  <2>2. \/ scan'[g].phase # "returned"
        \/ scan'[g].outcome # "canceled"
        \/ CtxDone(g) /\ scan'[g].origin = scan[g].origin
    <3>1. CASE Acquire(g)
      <4>1. scan[g] \in Scan
        BY <3>1, ScanShape DEF Acquire
      <4>2. QED
        BY <3>1, <4>1 DEF Acquire, Scan, TypeOK
    <3>2. CASE CanceledInQueue(g)
      BY <3>2 DEF CanceledInQueue, Returned, TypeOK
    <3>3. CASE \E outcome \in {"ok", "failed", "canceled"} : ScanReturns(g, outcome)
      BY <3>3 DEF ScanReturns, Returned, TypeOK
    <3>4. CASE ScanEnds(g)
      BY <3>4 DEF ScanEnds, Idle, TypeOK
    <3>5. QED
      BY <1>3, <3>1, <3>2, <3>3, <3>4 DEF ScanOne
  <2>3. "sweep" \notin Callers
    BY SchedulerAssumption
  <2>4. QED
    BY <1>1, <2>1, <2>2, <2>3 DEF CancelInv, CtxDone
<1>4. CASE UNCHANGED scan
  BY <1>1, <1>4 DEF CancelInv
<1>5. QED
  BY <1>2, <1>3, <1>4, ScanEffects

\* The backoff bookkeeping: only the end of a sweep's scan and the clock touch it.
LEMMA BackoffEffects ==
  ASSUME TypeOK, Next
  PROVE  \/ UNCHANGED <<failures, gated>>
         \/ \E g \in Scans :
              /\ ScanEnds(g)
              /\ scan[g].origin = "sweep"
              /\ LET p == <<scan[g].module, scan[g].target>> IN
                 /\ p \in Pairs
                 /\ IF scan[g].outcome = "failed" THEN BackOff(p) ELSE ClearBackoff(p)
         \/ \E p \in Pairs : gated' = gated \ {p} /\ UNCHANGED failures
<1>1. CASE \E g \in Scans : ScanOne(g)
  <2> PICK g \in Scans : ScanOne(g)
    BY <1>1
  <2>1. CASE ScanEnds(g)
    <3>1. <<scan[g].module, scan[g].target>> \in Pairs
      BY <2>1, ScanShape DEF ScanEnds, Scan, Pairs
    <3>2. QED
      BY <2>1, <3>1 DEF ScanEnds, LooksAtError, backoff
  <2>2. QED
    BY <2>1 DEF ScanOne, Acquire, CanceledInQueue, ScanReturns, backoff
<1>2. CASE \E m \in Modules, t \in Targets : BackoffEnds(m, t)
  BY <1>2 DEF BackoffEnds, Pairs
<1>3. CASE \/ \E a \in Adders : AddStep(a)
           \/ \E c \in Callers : CallStep(c)
           \/ \E m \in Modules : SweepStep(m)
  BY <1>3
  DEF AddStep, AddTarget, AddTargetChecks, AddTargetSpawns, CallStep, ScanNow,
      ScanNowSpawns, ScanNowReturns, ClientLeaves, SweepStep, SweepBegins,
      SweepSkips, SweepSpawns, backoff
<1>4. QED
  BY <1>1, <1>2, <1>3
  DEF Next, Register, AddTargetEarly, RemoveTarget, Start, ParentDone, Stop,
      StopReturns, LoopExits, backoff

LEMMA IncrementType ==
  ASSUME NEW n \in 0..MaxFailures
  PROVE  Increment(n) \in 1..MaxFailures
BY SchedulerAssumption DEF Increment

LEMMA BackoffTypeStep ==
  ASSUME TypeOK, Next
  PROVE  failures' \in [Pairs -> 0..MaxFailures] /\ gated' \in SUBSET Pairs
<1>1. failures \in [Pairs -> 0..MaxFailures] /\ gated \in SUBSET Pairs
  BY DEF TypeOK
<1>2. 0 \in 0..MaxFailures
  BY SchedulerAssumption
<1>3. ASSUME NEW p \in Pairs, BackOff(p)
      PROVE  failures' \in [Pairs -> 0..MaxFailures] /\ gated' \in SUBSET Pairs
  <2>1. Increment(failures[p]) \in 1..MaxFailures
    BY <1>1, IncrementType
  <2>2. QED
    BY <1>1, <1>3, <2>1 DEF BackOff
<1>4. ASSUME NEW p \in Pairs, ClearBackoff(p)
      PROVE  failures' \in [Pairs -> 0..MaxFailures] /\ gated' \in SUBSET Pairs
  BY <1>1, <1>2, <1>4 DEF ClearBackoff
<1>5. QED
  BY <1>1, <1>3, <1>4, BackoffEffects

LEMMA TypeStep ==
  ASSUME TypeOK, SlotsAccounted', WaitGroupAccounted', Next
  PROVE  TypeOK'
<1>1. sem' \in Nat /\ wg' \in Nat
  BY SetsFinite, FS_CardinalityType
  DEF SlotsAccounted, WaitGroupAccounted, TrackedScans
<1>2. /\ modules' \in SUBSET Modules
      /\ targets' \in [Modules -> SUBSET Targets]
      /\ started' \in BOOLEAN
      /\ cancelled' \in BOOLEAN
      /\ stopper' \in {"idle", "waiting", "returned"}
  <2>1. /\ modules \in SUBSET Modules
        /\ targets \in [Modules -> SUBSET Targets]
        /\ started \in BOOLEAN /\ cancelled \in BOOLEAN
        /\ stopper \in {"idle", "waiting", "returned"}
    BY DEF TypeOK
  <2>2. CASE \E a \in Adders : AddStep(a)
    BY <2>1, <2>2 DEF AddStep, AddTarget, AddTargetChecks, AddTargetSpawns, registry
  <2>3. CASE \E c \in Callers : CallStep(c)
    BY <2>1, <2>3
    DEF CallStep, ScanNow, ScanNowSpawns, ScanNowReturns, ClientLeaves, registry
  <2>4. CASE \E m \in Modules : SweepStep(m)
    BY <2>1, <2>4 DEF SweepStep, SweepBegins, SweepSkips, SweepSpawns, registry
  <2>5. CASE \E g \in Scans : ScanOne(g)
    BY <2>1, <2>5
    DEF ScanOne, Acquire, CanceledInQueue, ScanReturns, ScanEnds, registry
  <2>6. QED
    BY <2>1, <2>2, <2>3, <2>4, <2>5
    DEF Next, Register, AddTargetEarly, RemoveTarget, BackoffEnds, Start, ParentDone,
        Stop, StopReturns, LoopExits, registry
<1>3. QED
  BY <1>1, <1>2, ScanTypeStep, LoopTypeStep, CallTypeStep, BackoffTypeStep DEF TypeOK

-----------------------------------------------------------------------------
(* Stop *)

\* When Stop returns, the WaitGroup is at zero and so nothing it counts is left;
\* what is started later is not started by a sweep.
LEMMA StopStep ==
  ASSUME SInv, Next
  PROVE  StoppedMeansStopped'
<1> USE DEF SInv
<1>1. CASE StopReturns
  <2>1. Looping' = Looping /\ scan' = scan
    BY <1>1 DEF StopReturns, Looping
  <2>2. Cardinality(Looping) + Cardinality(TrackedScans) = 0
    BY <1>1 DEF StopReturns, WaitDone, WaitGroupAccounted, TrackedScans
  <2>3. Cardinality(Looping) \in Nat /\ Cardinality(TrackedScans) \in Nat
    BY SetsFinite, FS_CardinalityType
  <2>4. Looping = {} /\ TrackedScans = {}
    BY <2>2, <2>3, SetsFinite, FS_EmptySet
  <2>5. QED
    BY <2>1, <2>4 DEF StoppedMeansStopped, TrackedScans, Tracked
<1>2. CASE ~StopReturns
  <2> SUFFICES ASSUME stopper' = "returned"
               PROVE  /\ Looping' = {}
                      /\ \A x \in Scans :
                           scan'[x].phase # "idle" => scan'[x].origin # "sweep"
    BY DEF StoppedMeansStopped
  <2>1. stopper = "returned"
    BY <1>2 DEF Next, Register, AddTargetEarly, RemoveTarget, BackoffEnds, Start,
        ParentDone, Stop, AddStep, AddTarget, AddTargetChecks, AddTargetSpawns,
        CallStep, ScanNow, ScanNowSpawns, ScanNowReturns, ClientLeaves, SweepStep,
        SweepBegins, SweepSkips, SweepSpawns, LoopExits, ScanOne, Acquire,
        CanceledInQueue, ScanReturns, ScanEnds
  <2>2. /\ Looping = {}
        /\ \A x \in Scans : scan[x].phase # "idle" => scan[x].origin # "sweep"
    BY <2>1 DEF StoppedMeansStopped
  <2>3. ~Start
    BY <2>1 DEF Start, LoopInv
  <2>4. Looping' = {}
    BY <2>2, <2>3, LoopEffects
  <2>5. ASSUME NEW g \in Scans, NEW m \in Modules, NEW t \in Targets,
               NEW o \in Origins, Spawned(g, m, t, o)
        PROVE  \A x \in Scans : scan'[x].phase # "idle" => scan'[x].origin # "sweep"
    <3>1. o # "sweep"
      BY <2>2, <2>5 DEF Spawned, LoopInv, Looping
    <3>2. \A x \in Scans : scan'[x] = IF x = g THEN Queued(m, t, o) ELSE scan[x]
      BY <2>5 DEF Spawned, TypeOK
    <3>3. Queued(m, t, o).origin = o
      BY DEF Queued
    <3>4. QED
      BY <2>2, <3>1, <3>2, <3>3
  <2>6. ASSUME NEW g \in Scans, ScanOne(g)
        PROVE  \A x \in Scans : scan'[x].phase # "idle" => scan'[x].origin # "sweep"
    <3>1. \A x \in Scans : x # g => scan'[x] = scan[x]
      BY <2>6
      DEF ScanOne, Acquire, CanceledInQueue, ScanReturns, ScanEnds, TypeOK
    <3>2. scan[g].phase # "idle"
      BY <2>6 DEF ScanOne, Acquire, CanceledInQueue, ScanReturns, ScanEnds
    <3>3. scan'[g].phase # "idle" => scan'[g].origin = scan[g].origin
      <4>1. CASE Acquire(g)
        BY <3>2, <4>1, ScanShape DEF Acquire, Scan, TypeOK
      <4>2. CASE CanceledInQueue(g) \/ \E outcome \in {"ok", "failed", "canceled"} :
                                         ScanReturns(g, outcome)
        BY <4>2 DEF CanceledInQueue, ScanReturns, Returned, TypeOK
      <4>3. CASE ScanEnds(g)
        BY <4>3 DEF ScanEnds, Idle, TypeOK
      <4>4. QED
        BY <2>6, <4>1, <4>2, <4>3 DEF ScanOne
    <3>4. QED
      BY <2>2, <3>1, <3>2, <3>3
  <2>7. QED
    BY <2>2, <2>4, <2>5, <2>6, ScanEffects
<1>3. QED
  BY <1>1, <1>2

-----------------------------------------------------------------------------
(* The invariant and the theorems *)

LEMMA SInvInit == Init => SInv
<1> SUFFICES ASSUME Init
             PROVE  SInv
  OBVIOUS
<1>1. Running = {} /\ TrackedScans = {} /\ Looping = {}
  BY DEF Init, Running, TrackedScans, Tracked, Looping, Idle
<1>2. TypeOK
  <2>1. 0 \in 0..MaxFailures
    BY SchedulerAssumption
  <2>2. QED
    BY <2>1 DEF Init, TypeOK, Loop, Idle
<1>3. SlotsAccounted /\ WaitGroupAccounted
  <2>1. Cardinality(Running) = 0 /\ Cardinality(TrackedScans) = 0
        /\ Cardinality(Looping) = 0
    BY <1>1, FS_EmptySet
  <2>2. sem = 0 /\ wg = 0 /\ sem <= Workers
    BY SchedulerAssumption DEF Init
  <2>3. SlotsAccounted
    BY <2>1, <2>2 DEF SlotsAccounted
  <2>4. WaitGroupAccounted
    BY <2>1, <2>2 DEF WaitGroupAccounted, TrackedScans
  <2>5. QED
    BY <2>3, <2>4
<1>4. CancelInv /\ StoppedMeansStopped /\ LoopInv
  BY <1>1 DEF Init, Idle, CancelInv, StoppedMeansStopped, LoopInv
<1>5. QED
  BY <1>2, <1>3, <1>4 DEF SInv

LEMMA SInvStep == SInv /\ [Next]_vars => SInv'
<1> SUFFICES ASSUME SInv, [Next]_vars
             PROVE  SInv'
  OBVIOUS
<1>1. CASE Next
  <2>1. SlotsAccounted' /\ WaitGroupAccounted' /\ LoopInv'
    BY <1>1, SlotsStep, GroupStep, LoopStep DEF SInv
  <2>2. CancelInv' /\ StoppedMeansStopped'
    BY <1>1, CancelStep, StopStep DEF SInv
  <2>3. TypeOK'
    BY <1>1, <2>1, TypeStep DEF SInv
  <2>4. QED
    BY <2>1, <2>2, <2>3 DEF SInv
<1>2. CASE UNCHANGED vars
  BY <1>2
  DEF vars, registry, backoff, SInv, TypeOK, SlotsAccounted, WaitGroupAccounted,
      CancelInv, StoppedMeansStopped, LoopInv, Running, Looping, Tracked
<1>3. QED
  BY <1>1, <1>2

LEMMA SchedulerInvariant == Spec => []SInv
BY SInvInit, SInvStep, PTL DEF Spec

\* The scheduler's maps, counters and goroutines always have their types.
THEOREM SchedulerTypes == Spec => []TypeOK
<1>1. SInv => TypeOK
  BY DEF SInv
<1>2. QED
  BY <1>1, SchedulerInvariant, PTL

\* The semaphore counts the scans that run, never more than Workers: scanOne
\* gives its slot back on every path (line 311).
THEOREM SlotsNeverLeak == Spec => []SlotsAccounted
<1>1. SInv => SlotsAccounted
  BY DEF SInv
<1>2. QED
  BY <1>1, SchedulerInvariant, PTL

\* s.wg counts the loops and the scans of sweeps and AddTarget, whatever ScanNow,
\* RemoveTarget, failures and cancellation do meanwhile.
THEOREM WaitGroupCounts == Spec => []WaitGroupAccounted
<1>1. SInv => WaitGroupAccounted
  BY DEF SInv
<1>2. QED
  BY <1>1, SchedulerInvariant, PTL

\* A scan that waits for a slot waits for scans that run, and Stop for a loop or
\* a scan: neither ever waits for nobody (lines 204, 310).
NobodyWaitsForNobody ==
  /\ \A g \in Scans : scan[g].phase = "queued" /\ sem >= Workers => Running # {}
  /\ stopper = "waiting" /\ wg # 0 => Looping # {} \/ \E g \in Scans : Tracked(g)

THEOREM WaitsAreForSomebody == Spec => []NobodyWaitsForNobody
<1>1. ASSUME SlotsAccounted, sem >= Workers
      PROVE  Running # {}
  <2>1. Cardinality(Running) # 0
    BY <1>1, SchedulerAssumption DEF SlotsAccounted
  <2>2. QED
    BY <2>1, FS_EmptySet
<1>2. ASSUME WaitGroupAccounted, wg # 0
      PROVE  Looping # {} \/ \E g \in Scans : Tracked(g)
  <2>1. ~(Cardinality(Looping) = 0 /\ Cardinality({g \in Scans : Tracked(g)}) = 0)
    BY <1>2 DEF WaitGroupAccounted
  <2>2. Looping # {} \/ {g \in Scans : Tracked(g)} # {}
    BY <2>1, FS_EmptySet
  <2>3. QED
    BY <2>2
<1>3. SInv => NobodyWaitsForNobody
  BY <1>1, <1>2 DEF SInv, NobodyWaitsForNobody
<1>4. QED
  BY <1>3, SchedulerInvariant, PTL

\* Once Stop has returned no loop is alive and no sweep's scan is left or starts.
THEOREM StopIsFinal == Spec => []StoppedMeansStopped
<1>1. SInv => StoppedMeansStopped
  BY DEF SInv
<1>2. QED
  BY <1>1, SchedulerInvariant, PTL

\* While the scheduler runs only a success of a sweep's scan of a target clears its
\* failures: no immediate scan, no ScanNow and no canceled scan does.
THEOREM BackoffHolds == Spec => BackoffStands
<1>1. ASSUME SInv, Next, NEW p \in Pairs, failures[p] > 0, failures'[p] = 0
      PROVE  cancelled \/ \E g \in Scans : EndsWell(g, p)
  <2>1. failures \in [Pairs -> 0..MaxFailures]
    BY <1>1 DEF SInv, TypeOK
  <2>2. PICK g \in Scans :
          /\ ScanEnds(g) /\ scan[g].origin = "sweep"
          /\ <<scan[g].module, scan[g].target>> \in Pairs
          /\ IF scan[g].outcome = "failed" THEN BackOff(<<scan[g].module, scan[g].target>>)
                                          ELSE ClearBackoff(<<scan[g].module, scan[g].target>>)
    <3>1. failures'[p] # failures[p]
      BY <1>1, <2>1
    <3>2. QED
      BY <1>1, <3>1, BackoffEffects DEF SInv
  <2> DEFINE q == <<scan[g].module, scan[g].target>>
  <2>3. CASE q # p
    <3>1. failures'[p] = failures[p]
      BY <2>1, <2>2, <2>3 DEF BackOff, ClearBackoff
    <3>2. QED
      BY <1>1, <2>1, <3>1
  <2>4. CASE q = p /\ scan[g].outcome = "failed"
    <3>1. failures'[p] = Increment(failures[p])
      BY <2>1, <2>2, <2>4 DEF BackOff
    <3>2. Increment(failures[p]) \in 1..MaxFailures
      BY <2>1, IncrementType
    <3>3. QED
      BY <1>1, <3>1, <3>2
  <2>5. CASE q = p /\ scan[g].outcome # "failed"
    <3>1. scan[g].phase = "returned" /\ scan'[g].phase = "idle"
      BY <1>1, <2>2 DEF ScanEnds, Idle, SInv, TypeOK
    <3>2. scan[g].outcome \in {"ok", "canceled"}
      BY <1>1, <2>5, <3>1, ScanShape DEF SInv, Scan
    <3>3. scan[g].outcome = "canceled" => cancelled
      BY <1>1, <2>2, <3>1 DEF SInv, CancelInv
    <3>4. QED
      BY <2>2, <2>5, <3>1, <3>2, <3>3 DEF EndsWell
  <2>6. QED
    BY <2>3, <2>4, <2>5
<1>2. SInv /\ [Next]_vars =>
        [\A p \in Pairs :
           failures[p] > 0 /\ failures'[p] = 0
             => cancelled \/ \E g \in Scans : EndsWell(g, p)]_vars
  BY <1>1
<1>3. QED
  BY <1>2, SchedulerInvariant, PTL DEF Spec, BackoffStands
-----------------------------------------------------------------------------
(* Targets that were removed *)

LEMMA WorkFinite ==
  ASSUME NEW m, NEW t
  PROVE  /\ IsFiniteSet(BySweep(m, t)) /\ IsFiniteSet(ByCaller(m, t))
         /\ IsFiniteSet(ByAdder(m, t)) /\ IsFiniteSet(ByRoutine(m, t))
<1>1. BySweep(m, t) \subseteq {m} /\ IsFiniteSet({m})
  BY FS_Singleton DEF BySweep
<1>2. /\ ByCaller(m, t) \subseteq Callers /\ ByAdder(m, t) \subseteq Adders
      /\ ByRoutine(m, t) \subseteq Scans
  BY DEF ByCaller, ByAdder, ByRoutine
<1>3. IsFiniteSet(Callers) /\ IsFiniteSet(Adders) /\ IsFiniteSet(Scans)
  BY SchedulerAssumption
<1>4. QED
  BY <1>1, <1>2, <1>3, FS_Subset

\* A subset of a finite set counts no more.
LEMMA NoMore ==
  ASSUME NEW S, IsFiniteSet(S), NEW T, T \subseteq S
  PROVE  Cardinality(T) \in Nat /\ Cardinality(S) \in Nat /\ Cardinality(T) <= Cardinality(S)
BY FS_Subset, FS_CardinalityType

LEMMA SumsKeepOrder ==
  \A p, q, r, s, p1, q1, r1, s1 \in Nat :
    p1 <= p /\ q1 <= q /\ r1 <= r /\ s1 <= s => p1 + q1 + r1 + s1 <= p + q + r + s
OBVIOUS

LEMMA FewerLeft ==
  ASSUME NEW m, NEW t,
         BySweep(m, t)' \subseteq BySweep(m, t), ByCaller(m, t)' \subseteq ByCaller(m, t),
         ByAdder(m, t)' \subseteq ByAdder(m, t), ByRoutine(m, t)' \subseteq ByRoutine(m, t)
  PROVE  ScansLeft(m, t)' <= ScansLeft(m, t)
<1> DEFINE a == Cardinality(BySweep(m, t))  b == Cardinality(ByCaller(m, t))
           c == Cardinality(ByAdder(m, t))  d == Cardinality(ByRoutine(m, t))
<1>1. a \in Nat /\ a' \in Nat /\ a' <= a
  BY WorkFinite, NoMore
<1>2. b \in Nat /\ b' \in Nat /\ b' <= b
  BY WorkFinite, NoMore
<1>3. c \in Nat /\ c' \in Nat /\ c' <= c
  BY WorkFinite, NoMore
<1>4. d \in Nat /\ d' \in Nat /\ d' <= d
  BY WorkFinite, NoMore
<1>5. ScansLeft(m, t) = a + b + c + d /\ ScansLeft(m, t)' = a' + b' + c' + d'
  BY DEF ScansLeft
<1> HIDE DEF a, b, c, d
<1>6. a' + b' + c' + d' <= a + b + c + d
  BY ONLY <1>1, <1>2, <1>3, <1>4, SumsKeepOrder
<1>7. QED
  BY ONLY <1>5, <1>6

\* A goroutine takes over what a sweep, a caller or an adder had still to do.
LEMMA TakenOver ==
  ASSUME NEW m, NEW t, NEW g, NEW x,
         g \notin ByRoutine(m, t), ByRoutine(m, t)' = ByRoutine(m, t) \cup {g},
         \/ /\ x \in BySweep(m, t) /\ BySweep(m, t)' = BySweep(m, t) \ {x}
            /\ ByCaller(m, t)' = ByCaller(m, t) /\ ByAdder(m, t)' = ByAdder(m, t)
         \/ /\ x \in ByCaller(m, t) /\ ByCaller(m, t)' = ByCaller(m, t) \ {x}
            /\ BySweep(m, t)' = BySweep(m, t) /\ ByAdder(m, t)' = ByAdder(m, t)
         \/ /\ x \in ByAdder(m, t) /\ ByAdder(m, t)' = ByAdder(m, t) \ {x}
            /\ BySweep(m, t)' = BySweep(m, t) /\ ByCaller(m, t)' = ByCaller(m, t)
  PROVE  ScansLeft(m, t)' <= ScansLeft(m, t)
<1> DEFINE a == Cardinality(BySweep(m, t))  b == Cardinality(ByCaller(m, t))
           c == Cardinality(ByAdder(m, t))  d == Cardinality(ByRoutine(m, t))
<1>1. a \in Nat /\ b \in Nat /\ c \in Nat /\ d \in Nat
  BY WorkFinite, FS_CardinalityType
<1>2. d' = d + 1
  BY WorkFinite, OneMore
<1>3. \/ a' = a - 1 /\ b' = b /\ c' = c
      \/ b' = b - 1 /\ a' = a /\ c' = c
      \/ c' = c - 1 /\ a' = a /\ b' = b
  BY WorkFinite, OneLess
<1>4. ScansLeft(m, t) = a + b + c + d /\ ScansLeft(m, t)' = a' + b' + c' + d'
  BY DEF ScansLeft
<1> HIDE DEF a, b, c, d
<1>5. QED
  BY <1>1, <1>2, <1>3, <1>4

\* The goroutine that starts is one more for its target and none for another.
LEMMA RoutineSpawned ==
  ASSUME TypeOK, NEW g \in Scans, NEW n \in Modules, NEW u \in Targets, NEW o \in Origins,
         Spawned(g, n, u, o), NEW m \in Modules, NEW t \in Targets
  PROVE  /\ g \notin ByRoutine(m, t)
         /\ ByRoutine(m, t)' = IF n = m /\ u = t THEN ByRoutine(m, t) \cup {g}
                               ELSE ByRoutine(m, t)
<1>1. \A x \in Scans : scan'[x] = IF x = g THEN Queued(n, u, o) ELSE scan[x]
  BY DEF Spawned, TypeOK
<1>2. scan[g].phase = "idle" /\ Queued(n, u, o).phase = "queued"
      /\ Queued(n, u, o).module = n /\ Queued(n, u, o).target = u
  BY DEF Spawned, Queued
<1>3. QED
  BY <1>1, <1>2 DEF ByRoutine

\* scanOne and what follows it take a goroutine on, and never back.
LEMMA RoutinesRunOut ==
  ASSUME TypeOK, NEW g \in Scans, ScanOne(g), NEW m \in Modules, NEW t \in Targets
  PROVE  ByRoutine(m, t)' \subseteq ByRoutine(m, t)
<1>1. CASE Acquire(g)
  <2>1. scan[g] \in Scan /\ scan[g].phase = "queued"
    BY <1>1, ScanShape DEF Acquire
  <2>2. \A x \in Scans : /\ x # g => scan'[x] = scan[x]
                         /\ x = g => scan'[x].module = scan[x].module
                                     /\ scan'[x].target = scan[x].target
    BY <1>1, <2>1 DEF Acquire, TypeOK, Scan
  <2>3. QED
    BY <2>1, <2>2 DEF ByRoutine
<1>2. ASSUME NEW outcome, scan' = [scan EXCEPT ![g] = Returned(g, outcome)]
      PROVE  ByRoutine(m, t)' \subseteq ByRoutine(m, t)
  <2>1. \A x \in Scans : x # g => scan'[x] = scan[x]
    BY <1>2 DEF TypeOK
  <2>2. scan'[g].phase = "returned"
    BY <1>2 DEF TypeOK, Returned
  <2>3. QED
    BY <2>1, <2>2 DEF ByRoutine
<1>3. CASE ScanEnds(g)
  <2>1. \A x \in Scans : x # g => scan'[x] = scan[x]
    BY <1>3 DEF ScanEnds, TypeOK
  <2>2. scan'[g].phase = "idle"
    BY <1>3 DEF ScanEnds, TypeOK, Idle
  <2>3. QED
    BY <2>1, <2>2 DEF ByRoutine
<1>4. QED
  BY <1>1, <1>2, <1>3 DEF ScanOne, CanceledInQueue, ScanReturns

\* What a loop does while the target is not registered.
LEMMA SweepsRunOut ==
  ASSUME TypeOK, NEW n \in Modules, SweepStep(n),
         NEW m \in Modules, NEW t \in Targets, t \notin targets[m]
  PROVE  ScansLeft(m, t)' <= ScansLeft(m, t)
<1>1. ByCaller(m, t)' = ByCaller(m, t) /\ ByAdder(m, t)' = ByAdder(m, t)
  BY DEF SweepStep, SweepBegins, SweepSkips, SweepSpawns, ByCaller, ByAdder
<1>2. CASE SweepBegins(n)
  <2>1. \A x \in Modules : loop'[x].todo = IF x = n THEN targets[n] ELSE loop[x].todo
    BY <1>2 DEF SweepBegins, Snapshot, TypeOK
  <2>2. BySweep(m, t)' \subseteq BySweep(m, t)
    BY <2>1 DEF BySweep
  <2>3. ByRoutine(m, t)' = ByRoutine(m, t)
    BY <1>2 DEF SweepBegins, ByRoutine
  <2>4. QED
    BY <1>1, <2>2, <2>3, FewerLeft
<1>3. ASSUME NEW u \in Targets, SweepSkips(n, u)
      PROVE  ScansLeft(m, t)' <= ScansLeft(m, t)
  <2>1. \A x \in Modules : loop'[x].todo \subseteq loop[x].todo
    BY <1>3 DEF SweepSkips, TypeOK, Loop
  <2>2. BySweep(m, t)' \subseteq BySweep(m, t)
    BY <2>1 DEF BySweep
  <2>3. ByRoutine(m, t)' = ByRoutine(m, t)
    BY <1>3 DEF SweepSkips, ByRoutine
  <2>4. QED
    BY <1>1, <2>2, <2>3, FewerLeft
<1>4. ASSUME NEW g \in Scans, NEW u \in Targets, SweepSpawns(n, g, u)
      PROVE  ScansLeft(m, t)' <= ScansLeft(m, t)
  <2>1. Spawned(g, n, u, "sweep")
    BY <1>4, SweepSpawned
  <2>2. \A x \in Modules : loop'[x].todo = IF x = n THEN loop[x].todo \ {u} ELSE loop[x].todo
    BY <1>4 DEF SweepSpawns, TypeOK, Loop
  <2>3. CASE n = m /\ u = t
    <3>1. m \in BySweep(m, t) /\ BySweep(m, t)' = BySweep(m, t) \ {m}
      BY <1>4, <2>2, <2>3 DEF BySweep, SweepSpawns
    <3>2. g \notin ByRoutine(m, t) /\ ByRoutine(m, t)' = ByRoutine(m, t) \cup {g}
      BY <2>1, <2>3, RoutineSpawned DEF Origins
    <3>3. QED
      BY <1>1, <3>1, <3>2, TakenOver
  <2>4. CASE ~(n = m /\ u = t)
    <3>1. BySweep(m, t)' = BySweep(m, t)
      BY <2>2, <2>4 DEF BySweep
    <3>2. ByRoutine(m, t)' = ByRoutine(m, t)
      BY <2>1, <2>4, RoutineSpawned DEF Origins
    <3>3. QED
      BY <1>1, <3>1, <3>2, FewerLeft
  <2>5. QED
    BY <2>3, <2>4
<1>5. QED
  BY <1>2, <1>3, <1>4 DEF SweepStep

\* What a call of ScanNow does to it.
LEMMA CallsRunOut ==
  ASSUME TypeOK, NEW c \in Callers, CallStep(c),
         NEW m \in Modules, NEW t \in Targets, t \notin targets[m]
  PROVE  ScansLeft(m, t)' <= ScansLeft(m, t)
<1>1. BySweep(m, t)' = BySweep(m, t) /\ ByAdder(m, t)' = ByAdder(m, t)
  BY DEF CallStep, ScanNow, ScanNowSpawns, ScanNowReturns, ClientLeaves, BySweep, ByAdder
<1>2. ASSUME NEW n \in Modules, ScanNow(c, n)
      PROVE  ScansLeft(m, t)' <= ScansLeft(m, t)
  <2>1. /\ \A x \in Callers : x # c => calling'[x] = calling[x]
        /\ calling'[c].module = n /\ calling'[c].todo = targets[n]
    BY <1>2 DEF ScanNow, Snapshot, TypeOK
  <2>2. ByCaller(m, t)' \subseteq ByCaller(m, t)
    BY <2>1 DEF ByCaller
  <2>3. ByRoutine(m, t)' = ByRoutine(m, t)
    BY <1>2 DEF ScanNow, ByRoutine
  <2>4. QED
    BY <1>1, <2>2, <2>3, FewerLeft
<1>3. ASSUME NEW g \in Scans, NEW u \in Targets, ScanNowSpawns(c, g, u)
      PROVE  ScansLeft(m, t)' <= ScansLeft(m, t)
  <2> PICK n \in Modules : n = calling[c].module /\ Spawned(g, n, u, c)
    BY <1>3, CallSpawned DEF Spawned
  <2>1. n = calling[c].module /\ Spawned(g, n, u, c) /\ c \in Origins
    BY DEF Origins
  <2>2. calling[c] \in Calling
    BY <1>3 DEF ScanNowSpawns, TypeOK, Idle
  <2>3. /\ \A x \in Callers : x # c => calling'[x] = calling[x]
        /\ calling'[c].phase = calling[c].phase /\ calling'[c].module = calling[c].module
        /\ calling'[c].todo = calling[c].todo \ {u}
    BY <1>3, <2>2 DEF ScanNowSpawns, TypeOK, Calling
  <2>4. CASE n = m /\ u = t
    <3>1. c \in ByCaller(m, t) /\ ByCaller(m, t)' = ByCaller(m, t) \ {c}
      BY <1>3, <2>1, <2>3, <2>4 DEF ByCaller, ScanNowSpawns
    <3>2. g \notin ByRoutine(m, t) /\ ByRoutine(m, t)' = ByRoutine(m, t) \cup {g}
      BY <2>1, <2>4, RoutineSpawned
    <3>3. QED
      BY <1>1, <3>1, <3>2, TakenOver
  <2>5. CASE ~(n = m /\ u = t)
    <3>1. ByCaller(m, t)' = ByCaller(m, t)
      BY <2>1, <2>3, <2>5 DEF ByCaller
    <3>2. ByRoutine(m, t)' = ByRoutine(m, t)
      BY <2>1, <2>5, RoutineSpawned
    <3>3. QED
      BY <1>1, <3>1, <3>2, FewerLeft
  <2>6. QED
    BY <2>4, <2>5
<1>4. CASE ScanNowReturns(c) \/ ClientLeaves(c)
  <2>1. \A x \in Callers : calling'[x] = calling[x] \/ calling'[x].phase = "idle"
    BY <1>4 DEF ScanNowReturns, ClientLeaves, TypeOK, Idle
  <2>2. ByCaller(m, t)' \subseteq ByCaller(m, t)
    BY <2>1 DEF ByCaller
  <2>3. ByRoutine(m, t)' = ByRoutine(m, t)
    BY <1>4 DEF ScanNowReturns, ClientLeaves, ByRoutine
  <2>4. QED
    BY <1>1, <2>2, <2>3, FewerLeft
<1>5. QED
  BY <1>2, <1>3, <1>4 DEF CallStep

\* And a call of AddTarget that does not register it again.
LEMMA AddsRunOut ==
  ASSUME TypeOK, NEW a \in Adders, AddStep(a),
         NEW m \in Modules, NEW t \in Targets, t \notin targets'[m]
  PROVE  ScansLeft(m, t)' <= ScansLeft(m, t)
<1>1. BySweep(m, t)' = BySweep(m, t) /\ ByCaller(m, t)' = ByCaller(m, t)
  BY DEF AddStep, AddTarget, AddTargetChecks, AddTargetSpawns, BySweep, ByCaller
<1>2. ASSUME NEW n \in Modules, NEW u \in Targets, AddTarget(a, n, u)
      PROVE  ScansLeft(m, t)' <= ScansLeft(m, t)
  <2>1. /\ \A x \in Adders : x # a => adding'[x] = adding[x]
        /\ adding'[a].module = n /\ adding'[a].target = u
    BY <1>2 DEF AddTarget, TypeOK
  <2>2. ~(n = m /\ u = t)
    BY <1>2 DEF AddTarget, TypeOK
  <2>3. ByAdder(m, t)' \subseteq ByAdder(m, t)
    BY <2>1, <2>2 DEF ByAdder
  <2>4. ByRoutine(m, t)' = ByRoutine(m, t)
    BY <1>2 DEF AddTarget, ByRoutine
  <2>5. QED
    BY <1>1, <2>3, <2>4, FewerLeft
<1>3. CASE AddTargetChecks(a)
  <2>1. adding[a] \in Adding
    BY <1>3 DEF AddTargetChecks, TypeOK, Idle
  <2>2. \A x \in Adders : \/ adding'[x].phase = "idle"
                          \/ /\ adding[x].phase # "idle"
                             /\ adding'[x].module = adding[x].module
                             /\ adding'[x].target = adding[x].target
    BY <1>3, <2>1 DEF AddTargetChecks, TypeOK, Idle, Adding
  <2>3. ByAdder(m, t)' \subseteq ByAdder(m, t)
    BY <2>2 DEF ByAdder
  <2>4. ByRoutine(m, t)' = ByRoutine(m, t)
    BY <1>3 DEF AddTargetChecks, ByRoutine
  <2>5. QED
    BY <1>1, <2>3, <2>4, FewerLeft
<1>4. ASSUME NEW g \in Scans, AddTargetSpawns(a, g)
      PROVE  ScansLeft(m, t)' <= ScansLeft(m, t)
  <2> DEFINE n == adding[a].module  u == adding[a].target
  <2>1. Spawned(g, n, u, "add") /\ n \in Modules /\ u \in Targets
    BY <1>4, AddSpawned
  <2>2. /\ \A x \in Adders : x # a => adding'[x] = adding[x]
        /\ adding'[a].phase = "idle" /\ adding[a].phase # "idle"
    BY <1>4 DEF AddTargetSpawns, TypeOK, Idle
  <2>3. CASE n = m /\ u = t
    <3>1. a \in ByAdder(m, t) /\ ByAdder(m, t)' = ByAdder(m, t) \ {a}
      BY <2>2, <2>3 DEF ByAdder
    <3>2. g \notin ByRoutine(m, t) /\ ByRoutine(m, t)' = ByRoutine(m, t) \cup {g}
      BY <2>1, <2>3, RoutineSpawned DEF Origins
    <3>3. QED
      BY <1>1, <3>1, <3>2, TakenOver
  <2>4. CASE ~(n = m /\ u = t)
    <3>1. ByAdder(m, t)' = ByAdder(m, t)
      BY <2>2, <2>4 DEF ByAdder
    <3>2. ByRoutine(m, t)' = ByRoutine(m, t)
      BY <2>1, <2>4, RoutineSpawned DEF Origins
    <3>3. QED
      BY <1>1, <3>1, <3>2, FewerLeft
  <2>5. QED
    BY <2>3, <2>4
<1>5. QED
  BY <1>2, <1>3, <1>4 DEF AddStep

LEMMA RunsOutStep ==
  ASSUME TypeOK, [Next]_vars, NEW m \in Modules, NEW t \in Targets,
         t \notin targets[m] \cup targets'[m]
  PROVE  ScansLeft(m, t)' <= ScansLeft(m, t)
<1>1. ASSUME \A x \in Modules : loop'[x].todo = loop[x].todo, UNCHANGED <<adding, calling>>,
             ByRoutine(m, t)' \subseteq ByRoutine(m, t)
      PROVE  ScansLeft(m, t)' <= ScansLeft(m, t)
  <2>1. /\ BySweep(m, t)' \subseteq BySweep(m, t) /\ ByCaller(m, t)' \subseteq ByCaller(m, t)
        /\ ByAdder(m, t)' \subseteq ByAdder(m, t)
    BY <1>1 DEF BySweep, ByCaller, ByAdder
  <2>2. QED
    BY <1>1, <2>1, FewerLeft
<1>2. CASE UNCHANGED <<loop, adding, calling, scan>>
  BY <1>1, <1>2 DEF ByRoutine
<1>3. CASE Start \/ \E n \in Modules : LoopExits(n)
  <2>1. \A x \in Modules : loop'[x].todo = loop[x].todo
    BY <1>3 DEF Start, LoopExits, TypeOK, Loop
  <2>2. UNCHANGED <<adding, calling, scan>>
    BY <1>3 DEF Start, LoopExits
  <2>3. QED
    BY <1>1, <2>1, <2>2 DEF ByRoutine
<1>4. ASSUME NEW g \in Scans, ScanOne(g)
      PROVE  ScansLeft(m, t)' <= ScansLeft(m, t)
  <2>1. UNCHANGED <<loop, adding, calling>>
    BY <1>4 DEF ScanOne, Acquire, CanceledInQueue, ScanReturns, ScanEnds
  <2>2. QED
    BY <1>1, <1>4, <2>1, RoutinesRunOut
<1>5. CASE \/ \E n \in Modules : Register(n)
           \/ \E n \in Modules, u \in Targets :
                AddTargetEarly(n, u) \/ RemoveTarget(n, u) \/ BackoffEnds(n, u)
           \/ ParentDone \/ Stop \/ StopReturns \/ UNCHANGED vars
  BY <1>2, <1>5
  DEF Register, AddTargetEarly, RemoveTarget, BackoffEnds, ParentDone, Stop, StopReturns, vars
<1>6. QED
  BY <1>3, <1>4, <1>5, SweepsRunOut, CallsRunOut, AddsRunOut DEF Next

\* Once removed, a target keeps only the scans that were under way: their number
\* never grows until somebody registers it again (lines 168-176, 255-262).
THEOREM RemovedTargetsRunOut == Spec => RemovedRunsOut
<1>1. SInv /\ [Next]_vars =>
        [\A m \in Modules, t \in Targets :
           t \notin targets[m] \cup targets'[m] => ScansLeft(m, t)' <= ScansLeft(m, t)]_vars
  BY RunsOutStep DEF SInv
<1>2. QED
  BY <1>1, SchedulerInvariant, PTL DEF Spec, RemovedRunsOut
=============================================================================
