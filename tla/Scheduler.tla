------------------------------ MODULE Scheduler ------------------------------
(***************************************************************************)
(* sched.Scheduler (sched/scheduler.go): one loop per registered module    *)
(* sweeps the module's targets and starts a goroutine per scan; AddTarget  *)
(* and ScanNow start goroutines of their own; a semaphore bounds how many  *)
(* scans run at once and a WaitGroup is what Stop waits for.               *)
(*                                                                         *)
(* What runs under s.mu or failMu is one step, and so is one look at a     *)
(* channel or a context.  Time is left to chance: a sweep may start        *)
(* whenever a loop waits, and a backoff may end whenever there is one.     *)
(***************************************************************************)
EXTENDS Naturals, FiniteSets

CONSTANTS
  Modules,      \* module ids
  Targets,      \* canonical targets
  Adders,       \* goroutines inside AddTarget
  Callers,      \* goroutines inside ScanNow
  Scans,        \* bound: scan goroutines alive at once
  Workers,      \* Config.Workers
  MaxFailures   \* bound: where the count of consecutive failures stops

ASSUME SchedulerAssumption ==
  /\ Workers \in Nat \ {0}        \* withDefaults leaves no zero
  /\ MaxFailures \in Nat \ {0}
  /\ \A S \in {Modules, Adders, Callers, Scans} : IsFiniteSet(S)
  /\ Callers \cap {"sweep", "add"} = {}

VARIABLES
  modules,    \* modules registered
  targets,    \* registration.targets: [Modules -> SUBSET Targets]
  started,    \* s.started
  cancelled,  \* s.ctx is done
  loop,       \* loop[m]: the moduleLoop goroutine of m
  adding,     \* adding[a]: an AddTarget call past its critical section
  calling,    \* calling[c]: a ScanNow call
  gone,       \* callers whose request context is done
  scan,       \* scan[g]: a goroutine around scanOne
  sem,        \* len(s.sem)
  wg,         \* the counter of s.wg
  failures,   \* failures[<<m, t>>], the map of moduleLoop
  gated,      \* the <<m, t>> whose nextOK lies in the future
  stopper     \* the caller of Stop: "idle", "waiting" or "returned"

vars == <<modules, targets, started, cancelled, loop, adding, calling, gone,
          scan, sem, wg, failures, gated, stopper>>

\* Groups of variables that most steps leave alone.
registry == <<modules, targets, started>>
backoff  == <<failures, gated>>

Origins == {"sweep", "add"} \cup Callers
Pairs   == Modules \X Targets

Idle == [phase |-> "idle"]
Scan == [phase : {"queued", "running"}, module : Modules, target : Targets,
         origin : Origins]
        \cup
        [phase : {"returned"}, module : Modules, target : Targets,
         origin : Origins, outcome : {"ok", "failed", "canceled"}]

Loop    == [phase : {"off", "starting", "running", "done"}, todo : SUBSET Targets]
Calling == [phase : {"busy"}, module : Modules, todo : SUBSET Targets]
Adding  == [phase : {"check", "spawn"}, module : Modules, target : Targets]

Queued(m, t, origin) ==
  [phase |-> "queued", module |-> m, target |-> t, origin |-> origin]

\* Goroutines counted by s.wg; those of ScanNow have a WaitGroup of their own.
Tracked(g) == scan[g].phase # "idle" /\ scan[g].origin \in {"sweep", "add"}

\* The context a scan was given: the scheduler's or the request's.
CtxDone(g) ==
  IF scan[g].origin \in Callers THEN scan[g].origin \in gone ELSE cancelled

-----------------------------------------------------------------------------
Init ==
  /\ modules = {} /\ targets = [m \in Modules |-> {}]
  /\ started = FALSE /\ cancelled = FALSE
  /\ loop    = [m \in Modules |-> [phase |-> "off", todo |-> {}]]
  /\ adding  = [a \in Adders |-> Idle]
  /\ calling = [c \in Callers |-> Idle]
  /\ gone    = {}
  /\ scan    = [g \in Scans |-> Idle]
  /\ sem = 0 /\ wg = 0
  /\ failures = [p \in Pairs |-> 0] /\ gated = {}
  /\ stopper  = "idle"

\* Register refuses a second collector for one id; it is to be called before
\* Start.
Register(m) ==
  /\ ~started
  /\ m \notin modules
  /\ modules' = modules \cup {m}
  /\ UNCHANGED <<targets, started, cancelled, loop, adding, calling, gone,
                 scan, sem, wg, backoff, stopper>>

\* AddTarget before Start, when main restores the saved targets: the map write
\* is all there is to it.
AddTargetEarly(m, t) ==
  /\ ~started
  /\ m \in modules
  /\ targets' = [targets EXCEPT ![m] = @ \cup {t}]
  /\ UNCHANGED <<modules, started, cancelled, loop, adding, calling, gone,
                 scan, sem, wg, backoff, stopper>>

\* AddTarget after Start: the map write under s.mu.
AddTarget(a, m, t) ==
  /\ started
  /\ adding[a].phase = "idle"
  /\ m \in modules
  /\ targets' = [targets EXCEPT ![m] = @ \cup {t}]
  /\ adding' = [adding EXCEPT ![a] = [phase |-> "check", module |-> m, target |-> t]]
  /\ UNCHANGED <<modules, started, cancelled, loop, calling, gone,
                 scan, sem, wg, backoff, stopper>>

\* if ctx.Err() == nil
AddTargetChecks(a) ==
  /\ adding[a].phase = "check"
  /\ adding' = IF cancelled
               THEN [adding EXCEPT ![a] = Idle]
               ELSE [adding EXCEPT ![a].phase = "spawn"]
  /\ UNCHANGED <<registry, cancelled, loop, calling, gone, scan, sem, wg,
                 backoff, stopper>>

\* s.wg.Add(1) and the goroutine of the immediate scan.
AddTargetSpawns(a, g) ==
  /\ adding[a].phase = "spawn"
  /\ scan[g].phase = "idle"
  /\ scan' = [scan EXCEPT ![g] = Queued(adding[a].module, adding[a].target, "add")]
  /\ wg' = wg + 1
  /\ adding' = [adding EXCEPT ![a] = Idle]
  /\ UNCHANGED <<registry, cancelled, loop, calling, gone, sem, backoff, stopper>>

RemoveTarget(m, t) ==
  /\ m \in modules
  /\ targets' = [targets EXCEPT ![m] = @ \ {t}]
  /\ UNCHANGED <<modules, started, cancelled, loop, adding, calling, gone,
                 scan, sem, wg, backoff, stopper>>

Start ==
  /\ ~started
  /\ started' = TRUE
  /\ wg' = wg + Cardinality(modules)
  /\ loop' = [m \in Modules |->
                IF m \in modules THEN [loop[m] EXCEPT !.phase = "starting"] ELSE loop[m]]
  /\ UNCHANGED <<modules, targets, cancelled, adding, calling, gone, scan, sem,
                 backoff, stopper>>

\* The context Start was given ends (a signal, in main).
ParentDone ==
  /\ started
  /\ ~cancelled
  /\ cancelled' = TRUE
  /\ UNCHANGED <<registry, loop, adding, calling, gone, scan, sem, wg, backoff, stopper>>

\* Stop, up to wg.Wait.  main calls it once, after Start.
Stop ==
  /\ started
  /\ stopper = "idle"
  /\ cancelled' = TRUE
  /\ stopper' = "waiting"
  /\ UNCHANGED <<registry, loop, adding, calling, gone, scan, sem, wg, backoff>>

\* (Mutant of WaitDone: Stop does not wait.)
WaitDoneAtOnce == TRUE

WaitDone == wg = 0

StopReturns ==
  /\ stopper = "waiting"
  /\ WaitDone
  /\ stopper' = "returned"
  /\ UNCHANGED <<registry, cancelled, loop, adding, calling, gone, scan, sem,
                 wg, backoff>>

\* (Mutant of Snapshot: a failing target is tried again until it succeeds.)
SnapshotWithFailing(m) == targets[m] \cup {t \in Targets : failures[<<m, t>>] > 0}

\* snapshotTargets, under s.mu.
Snapshot(m) == targets[m]

-----------------------------------------------------------------------------
(* ScanNow *)

\* ScanNow takes a snapshot of the module's targets ...
ScanNow(c, m) ==
  /\ calling[c].phase = "idle"
  /\ m \in modules
  /\ calling' = [calling EXCEPT ![c] =
                   [phase |-> "busy", module |-> m, todo |-> Snapshot(m)]]
  /\ UNCHANGED <<registry, cancelled, loop, adding, gone, scan, sem, wg,
                 backoff, stopper>>

\* ... starts a scan of each, whatever its backoff ...
ScanNowSpawns(c, g, t) ==
  /\ calling[c].phase = "busy"
  /\ t \in calling[c].todo
  /\ scan[g].phase = "idle"
  /\ scan' = [scan EXCEPT ![g] = Queued(calling[c].module, t, c)]
  /\ calling' = [calling EXCEPT ![c].todo = @ \ {t}]
  /\ UNCHANGED <<registry, cancelled, loop, adding, gone, sem, wg, backoff, stopper>>

\* ... and waits for all of them.
ScanNowReturns(c) ==
  /\ calling[c].phase = "busy"
  /\ calling[c].todo = {}
  /\ \A g \in Scans : scan[g].phase # "idle" => scan[g].origin # c
  /\ calling' = [calling EXCEPT ![c] = Idle]
  /\ gone' = gone \ {c}
  /\ UNCHANGED <<registry, cancelled, loop, adding, scan, sem, wg, backoff, stopper>>

\* The client hangs up: the request's context is done.
ClientLeaves(c) ==
  /\ calling[c].phase = "busy"
  /\ gone' = gone \cup {c}
  /\ UNCHANGED <<registry, cancelled, loop, adding, calling, scan, sem, wg,
                 backoff, stopper>>

-----------------------------------------------------------------------------
(* moduleLoop *)

AtSelect(m) == loop[m].phase = "running" /\ loop[m].todo = {}

\* The first sweep, or time.After: a snapshot of the targets under s.mu.  The
\* timer may win against a context that is done at the same time.
SweepBegins(m) ==
  /\ loop[m].phase = "starting" \/ AtSelect(m)
  /\ loop' = [loop EXCEPT ![m] = [phase |-> "running", todo |-> Snapshot(m)]]
  /\ UNCHANGED <<registry, cancelled, adding, calling, gone, scan, sem, wg,
                 backoff, stopper>>

\* The sweep skips a target that is backing off ...
SweepSkips(m, t) ==
  /\ t \in loop[m].todo
  /\ <<m, t>> \in gated
  /\ loop' = [loop EXCEPT ![m].todo = @ \ {t}]
  /\ UNCHANGED <<registry, cancelled, adding, calling, gone, scan, sem, wg,
                 backoff, stopper>>

\* (Mutants of Counted: the goroutine of a sweep is not added to s.wg; or both
\* the sweep and the goroutine add it.)
NotCounted == wg
CountedTwice == wg + 2

\* s.wg.Add(1) before the goroutine starts.
Counted == wg + 1

\* ... and starts a scan of any other, whether or not an earlier scan of it is
\* still queued or running.
SweepSpawns(m, g, t) ==
  /\ t \in loop[m].todo
  /\ <<m, t>> \notin gated
  /\ scan[g].phase = "idle"
  /\ scan' = [scan EXCEPT ![g] = Queued(m, t, "sweep")]
  /\ wg' = Counted
  /\ loop' = [loop EXCEPT ![m].todo = @ \ {t}]
  /\ UNCHANGED <<registry, cancelled, adding, calling, gone, sem, backoff, stopper>>

\* ctx.Done wins the select; the deferred wg.Done.
LoopExits(m) ==
  /\ AtSelect(m)
  /\ cancelled
  /\ loop' = [loop EXCEPT ![m].phase = "done"]
  /\ wg' = wg - 1
  /\ UNCHANGED <<registry, cancelled, adding, calling, gone, scan, sem,
                 backoff, stopper>>

\* time.Now() passes nextOK.
BackoffEnds(m, t) ==
  /\ <<m, t>> \in gated
  /\ gated' = gated \ {<<m, t>>}
  /\ UNCHANGED <<registry, cancelled, loop, adding, calling, gone, scan, sem, wg,
                 failures, stopper>>

-----------------------------------------------------------------------------
(* scanOne and what its callers do with the error *)

\* A worker slot is free.  The select may pick it with the context done.
Acquire(g) ==
  /\ scan[g].phase = "queued"
  /\ sem < Workers
  /\ sem' = sem + 1
  /\ scan' = [scan EXCEPT ![g].phase = "running"]
  /\ UNCHANGED <<registry, cancelled, loop, adding, calling, gone, wg, backoff, stopper>>

Returned(g, outcome) ==
  [phase |-> "returned", module |-> scan[g].module, target |-> scan[g].target,
   origin |-> scan[g].origin, outcome |-> outcome]

\* The context is done before a slot is free.
CanceledInQueue(g) ==
  /\ scan[g].phase = "queued"
  /\ CtxDone(g)
  /\ scan' = [scan EXCEPT ![g] = Returned(g, "canceled")]
  /\ UNCHANGED <<registry, cancelled, loop, adding, calling, gone, sem, wg,
                 backoff, stopper>>

\* (Mutant of Released: a failed Collect returns without giving the slot back.)
ReleasedUnlessFailed(outcome) == IF outcome = "failed" THEN sem ELSE sem - 1

\* The deferred receive from s.sem, on every path.
Released(outcome) == sem - 1

\* Collect, Reconcile and OnResult are done ("ok"), or one of the first two
\* returned an error: a time-out, a refused connection, or the context.
ScanReturns(g, outcome) ==
  /\ scan[g].phase = "running"
  /\ outcome = "canceled" => CtxDone(g)
  /\ sem' = Released(outcome)
  /\ scan' = [scan EXCEPT ![g] = Returned(g, outcome)]
  /\ UNCHANGED <<registry, cancelled, loop, adding, calling, gone, wg,
                 backoff, stopper>>

\* A success, and a canceled scan too, clears the target's backoff.
ClearBackoff(p) ==
  /\ failures' = [failures EXCEPT ![p] = 0]
  /\ gated' = gated \ {p}

\* The count, which the model stops at MaxFailures.
Increment(n) == IF n < MaxFailures THEN n + 1 ELSE n

\* failures++ and a new gate.  OnError would be told; main sets none.
BackOff(p) ==
  /\ failures' = [failures EXCEPT ![p] = Increment(@)]
  /\ gated' = gated \cup {p}

\* (Mutant of LooksAtError: AddTarget's and ScanNow's look at it as well.)
LooksAtErrorAlways(g) == TRUE

\* Of the goroutines around scanOne only a sweep's looks at the error.
LooksAtError(g) == scan[g].origin = "sweep"

\* The goroutine ends.
ScanEnds(g) ==
  /\ scan[g].phase = "returned"
  /\ scan' = [scan EXCEPT ![g] = Idle]
  /\ wg' = IF Tracked(g) THEN wg - 1 ELSE wg
  /\ LET p == <<scan[g].module, scan[g].target>> IN
     IF ~LooksAtError(g) THEN UNCHANGED backoff
     ELSE IF scan[g].outcome = "failed" THEN BackOff(p) ELSE ClearBackoff(p)
  /\ UNCHANGED <<registry, cancelled, loop, adding, calling, gone, sem, stopper>>

AddStep(a) ==
  \/ \E m \in Modules, t \in Targets : AddTarget(a, m, t)
  \/ AddTargetChecks(a)
  \/ \E g \in Scans : AddTargetSpawns(a, g)

CallStep(c) ==
  \/ \E m \in Modules : ScanNow(c, m)
  \/ \E g \in Scans, t \in Targets : ScanNowSpawns(c, g, t)
  \/ ScanNowReturns(c)
  \/ ClientLeaves(c)

SweepStep(m) ==
  \/ SweepBegins(m)
  \/ \E t \in Targets : SweepSkips(m, t) \/ \E g \in Scans : SweepSpawns(m, g, t)

ScanOne(g) ==
  \/ Acquire(g)
  \/ CanceledInQueue(g)
  \/ \E outcome \in {"ok", "failed", "canceled"} : ScanReturns(g, outcome)
  \/ ScanEnds(g)

Next ==
  \/ \E m \in Modules : Register(m) \/ SweepStep(m) \/ LoopExits(m)
  \/ \E m \in Modules, t \in Targets :
       AddTargetEarly(m, t) \/ RemoveTarget(m, t) \/ BackoffEnds(m, t)
  \/ \E a \in Adders : AddStep(a)
  \/ \E c \in Callers : CallStep(c)
  \/ \E g \in Scans : ScanOne(g)
  \/ Start \/ ParentDone \/ Stop \/ StopReturns

Spec == Init /\ [][Next]_vars

\* Every Collect ends, for its context has a deadline (ScanTimeout), and the
\* goroutine around it runs on.  A channel serves the senders that wait for it
\* in their order: a scan that can get a slot again and again gets one.
\* Its other steps, once enabled, stay so: strong fairness asks no more of them.
ScanFairness == \A g \in Scans : SF_vars(ScanOne(g))

\* A loop runs on: its timer runs out, a sweep goes through its snapshot, and a
\* select that finds two cases ready draws between them.  Starting a goroutine
\* never waits in the code; strong fairness keeps the bound Scans from starving
\* a spawner, here and below.
LoopFairness == \A m \in Modules : SF_vars(SweepStep(m)) /\ SF_vars(LoopExits(m))

\* Time passes.
BackoffFairness == \A m \in Modules, t \in Targets : WF_vars(BackoffEnds(m, t))

\* Calls already made run on.  Nobody has to call AddTarget, ScanNow,
\* RemoveTarget or Stop, and no client has to leave.
CallFairness ==
  /\ \A a \in Adders :
       SF_vars(AddTargetChecks(a) \/ \E g \in Scans : AddTargetSpawns(a, g))
  /\ \A c \in Callers :
       SF_vars(ScanNowReturns(c) \/ \E g \in Scans, t \in Targets : ScanNowSpawns(c, g, t))
  /\ WF_vars(StopReturns)

SweepSpec == Spec /\ ScanFairness /\ LoopFairness /\ BackoffFairness
CallsSpec == Spec /\ ScanFairness /\ LoopFairness /\ CallFairness

-----------------------------------------------------------------------------
(* Properties *)

\* Every variable has its type.
TypeOK ==
  /\ modules \in SUBSET Modules
  /\ targets \in [Modules -> SUBSET Targets]
  /\ started \in BOOLEAN /\ cancelled \in BOOLEAN
  /\ loop \in [Modules -> Loop]
  /\ adding \in [Adders -> {Idle} \cup Adding]
  /\ calling \in [Callers -> {Idle} \cup Calling]
  /\ gone \in SUBSET Callers
  /\ scan \in [Scans -> {Idle} \cup Scan]
  /\ sem \in Nat /\ wg \in Nat
  /\ failures \in [Pairs -> 0..MaxFailures]
  /\ gated \in SUBSET Pairs
  /\ stopper \in {"idle", "waiting", "returned"}

Running == {g \in Scans : scan[g].phase = "running"}
Looping == {m \in Modules : loop[m].phase \in {"starting", "running"}}

\* No worker slot leaks, whichever way a scan ends: the semaphore counts the
\* scans that run, and those are never more than Workers.
SlotsAccounted == sem = Cardinality(Running) /\ sem <= Workers

\* s.wg counts exactly the loops and the scans Stop is to wait for, so that it
\* neither goes below zero (a panic) nor keeps Stop waiting for nothing.
WaitGroupAccounted ==
  wg = Cardinality(Looping) + Cardinality({g \in Scans : Tracked(g)})

\* After Stop has returned no loop is alive, no scan of a sweep is queued or
\* running, and none is ever started again (Stop, line 196).
StoppedMeansStopped ==
  stopper = "returned" =>
    /\ Looping = {}
    /\ \A g \in Scans : scan[g].phase # "idle" => scan[g].origin # "sweep"

\* A scan of a sweep found the target well and its goroutine ends now.
EndsWell(g, p) ==
  /\ scan[g].phase = "returned" /\ scan'[g].phase = "idle"
  /\ scan[g].origin = "sweep" /\ scan[g].outcome = "ok"
  /\ p = <<scan[g].module, scan[g].target>>

\* While the scheduler runs a failing target's backoff is over for good only
\* with a sweep's scan of it that succeeds: not with a canceled one, which
\* counts as a success (line 274), nor with what an immediate scan or a ScanNow
\* meets whose client has left.
BackoffStands ==
  [][\A p \in Pairs :
       failures[p] > 0 /\ failures'[p] = 0 => cancelled \/ \E g \in Scans : EndsWell(g, p)]_vars

\* Who will still scan a target or does: a sweep or a ScanNow that has it in
\* its snapshot, an AddTarget past its critical section, a goroutine.
BySweep(m, t)   == {n \in {m} : t \in loop[n].todo}
ByCaller(m, t)  == {c \in Callers : calling[c].phase # "idle" /\ calling[c].module = m
                                   /\ t \in calling[c].todo}
ByAdder(m, t)   == {a \in Adders : adding[a].phase # "idle" /\ adding[a].module = m
                                   /\ adding[a].target = t}
ByRoutine(m, t) == {g \in Scans : scan[g].phase \in {"queued", "running"}
                                   /\ scan[g].module = m /\ scan[g].target = t}

ScansLeft(m, t) ==
  Cardinality(BySweep(m, t)) + Cardinality(ByCaller(m, t))
    + Cardinality(ByAdder(m, t)) + Cardinality(ByRoutine(m, t))

\* "RemoveTarget stops scanning a target" (line 168), though sweeps go on with
\* their snapshots: while a target is not registered the scans of it that are
\* still to come or to end never grow in number, whatever is still failing,
\* backing off, being added or being asked for.
RemovedRunsOut ==
  [][\A m \in Modules, t \in Targets :
       t \notin targets[m] \cup targets'[m] => ScansLeft(m, t)' <= ScansLeft(m, t)]_vars

Scanning(m, t) ==
  \E g \in Running : scan[g].module = m /\ scan[g].target = t

\* As long as the scheduler runs, a registered target is scanned over and over,
\* however often it or another one fails ("one dead host slows only itself",
\* line 235).
TargetsScanned ==
  \A m \in Modules, t \in Targets :
    started /\ m \in modules /\ t \in targets[m]
      ~> Scanning(m, t) \/ cancelled \/ t \notin targets[m]

\* Stop comes back, although scans may still be queued and a loop may start
\* one more sweep.
StopTerminates == stopper = "waiting" ~> stopper = "returned"

\* ScanNow comes back, with or without its client.
ScanNowTerminates ==
  \A c \in Callers : calling[c].phase = "busy" ~> calling[c].phase = "idle"
=============================================================================
