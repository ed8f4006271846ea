# A verification project for CertLight

CertLight watches the TLS certificates of a handful of hosts. It is one Go
process: a scheduler scans every target again and again, a reconcile engine
turns what a scan returned into records of findings in SQLite, a dispatcher
batches the changes into digests for webhooks, Slack, Telegram, syslog and the like, and a
web server lets the user add and remove targets, acknowledge or suppress
findings and paste a license key. These modules model the parts of it that keep
state and can interleave, and say what they are to guarantee.

Paths below are relative to the repository's source tree.

## The system

| component | state | operations | called by |
|---|---|---|---|
| Reconcile engine (`store/reconcile.go`) | none of its own; the `findings` table | `Reconcile`: list, insert or refresh, mark absent, return what changed | the scheduler's scan goroutines |
| Findings store (`store/sqlite.go`) | table `findings`, one row per (module, fingerprint) | `Get`, `ListByTarget`, `Upsert` (each one statement) | engine, web handlers |
| Scheduler (`sched/scheduler.go`) | registrations and targets (under `s.mu`), semaphore, WaitGroup, context; backoff maps per module loop | `Register`, `AddTarget`, `RemoveTarget`, `Start`, `Stop`, `ScanNow`; internal `moduleLoop`, `scanOne` | `main`, web handlers |
| Dispatcher (`notify/notify.go`, `notify/bridge.go`) | pending window, index by key, timer, closed flag (under `d.mu`), WaitGroup of deliveries | `Enqueue`, `Flush`, `Close`; timer callback, `sendWithRetry` | the scheduler's `OnResult`, `main` |
| Channels (`notify/channels.go`, `format.go`, `hfs.go`, `hfsbridge/`) | none | `Send` | dispatcher |
| Web server (`web/server.go`) | the activation (under `s.mu`) | findings status, targets, license, scan now, AI Assist | the browser; each request is a goroutine |
| Targets table and license file (`store/targets.go`, `store/sqlite.go`) | saved raw inputs; one key | `SaveTarget`, `DeleteTarget`, `ListSavedTargets`; write, read | web handlers, `main` at boot |
| License (`license/license.go`) | none | `Activate`, `Verify`, `CanAddTarget` | web server, `main` |
| TLS collector (`certlight/collector.go`) | none | `Collect`: dial, grade, probe legacy TLS | `scanOne` |
| AI Assist (`internal/aiclient/`, `web/ai.go`) | none; a request's attempt | ask with retries, guard the output | web server |
| Boot and shutdown (`cmd/certlight/main.go`) | | wires all of it; on a signal stops the listener, the scheduler, the dispatcher | |

What is hard about it:

* **Stale copies.** `Reconcile` lists the records of a target first and writes
  them back one statement at a time afterwards; `handleFindingStatus` reads a row
  and writes the whole row back. No lock or transaction spans either, and
  nothing keeps two scans of one target apart: a sweep does not look whether the
  last scan has ended, and `AddTarget` and `ScanNow` start scans of their own.
* **Partial failure.** Each write is a statement of its own and can fail alone.
  `scanOne` drops the partial result with the error.
* **Timers against locks.** The dispatcher's window timer may fire and its
  callback lose the race for `d.mu` to a full batch, a flush or `Close`.
* **Shutdown.** Loops, sweeps, immediate scans and `ScanNow` scans are all under
  way when the context ends; a `select` with two ready cases picks either. `main` runs
  the dispatcher's `Close` without waiting for any of them.
* **What the receiver believes.** Each digest has a goroutine of its own, a failed attempt may
  have arrived, and a retried "opened" may come after a "resolved" of another digest.
* **What leaves the machine.** Evidence is nested, capped in three dimensions and stripped of secret keys at once.
* **Check, then act.** The target limit is read before the target is added; the
  scheduler's map and the table are changed one after the other.

## The modules

### `FindingLifecycle` and `Reconcile`

`FindingLifecycle` is what the engine promises (the comment at
`store/reconcile.go:9-22`): a finding opens when it is seen and is not on record or was
resolved; resolves only from a state in which absence counts; changes
otherwise only by the user's decision. Its only state is `status`.

`Reconcile` is the code. `store` is the table; `scan[s]` a call of `Reconcile`
between two of its statements, with the snapshot `existing` that
`ListByTarget` took, the findings still to ingest (`todo`) and the records still to mark
absent (`gone`), and the result so far; `edit[h]` a status request between its
`Get` and its `Upsert`. One SQL statement is one action: `InsertNew`,
`Refresh`, `MarkAbsent`, `UpsertStatus`. `OnResult` is the return of the call and the hand-over to
the subscribers; `UpsertFails`, `UpsertStatusFails` and `Crash` are what can go wrong.
`Merged` is the `ON CONFLICT` clause: the id and `first_seen` of an existing row win.
The code walks the findings and records in slice order; the model takes any order. Time
is the number of scans begun, enough to order instants.
History variables: `told` (the last event handed over), `missed` (scans in a
row that returned no valid finding of it: one that fails validation counts as missed), `decided` (the user's last decision).

`Overlap` says whether operations on one target may overlap. The code never
prevents it (`Overlap = TRUE`), but scans of a target are normally far apart, and the
properties that need this are checked and proved for `Overlap = FALSE`.

### `Outbox`, `Dispatcher` and `Pipeline`

`Outbox` is what the dispatcher promises (its comments, `notify/notify.go:1-7, 62-64, 110-112, 150`): it accepts events until it is
closed; each is settled once on each channel, delivered or given up on, in a digest of one module and at most `MaxBatch` events that says
nothing twice, and given up on only after `Retries` attempts, all with that digest; `Close` comes back when all are settled. It knows of no
windows, timers, keys or goroutines. It does not promise that anybody hears of what is given up on: `sendWithRetry` tells
`OnSendError` if it is set, and `main` sets none (`notify/notify.go:221`, `cmd/certlight/main.go:131-135`).

`Dispatcher` is the dispatcher alone, with callers that enqueue whatever they like. `pending` and `seen` are the window
and its index by key, `timer` is `d.timer` (nil,
armed, or fired and not yet replaced). `callbacks` counts timer callbacks that have
started and wait for `d.mu`. `Enqueue`, `TimerFires`, the callback, `Flush` and `Close` are the
bodies that run under `d.mu`; each calls `FlushLocked` where the code does. `sends` has an
element per `sendWithRetry` goroutine; `SendSucceeds` and `SendFails` are one
attempt, and `heard` is what attempts have got through to each receiver: a channel that posts over HTTP
(`Confirming`) has delivered its digest when it succeeds, and may have when it fails; of syslog any part of a digest may arrive in
either case (`ArrivesIfTaken`, `ArrivesIfFailed`). Within a digest openings come before closures (`LastWord`).
`closer` is the caller of `Close`. The histories `accepted`, `delivered` and
`abandoned` are the events taken in, taken by a channel, and given up on there (`GiveUp`), which nobody is told.

`Pipeline` composes it with those who call it. `Reconcile` is a scan that has stored its findings and
goes on to hand over, in `todo`, what it opened and then what it resolved, one `Enqueue` at a time (`Announce`;
`TurnedAway` when the dispatcher is closed or has the key). `record` is the last transition of each finding. `Signal`, `MainReturns`,
`MainDrained` and `Exit` are `main` from the signal to its end: the listener returns, the deferred `Close` flushes and waits, the
process ends with all its goroutines. `ListenerFails` is the other end, through `os.Exit` and without `Close`. The scheduler's `Stop` runs in a goroutine `main` does not join, so scans go on meanwhile, as in the code.
Histories: `hasty` (findings that changed again while news of them were still under way) and `late` (findings whose last change found the dispatcher closed).

### `Scheduler`

One action per critical section, channel operation or look at a context.
`loop[m]` is the goroutine of a module with the rest of its sweep's snapshot; `scan[g]` a
goroutine around `scanOne`, from its start ("queued" at the semaphore, "running",
"returned") to its bookkeeping, and `origin` tells what started it, hence which context
and which WaitGroup it has and whether anybody looks at its error (`LooksAtError`). `OnError` is not modelled: `main` sets none.
`AddTarget` and `ScanNow` are calls in several steps; `Snapshot` is `snapshotTargets`. `gated` stands for
`nextOK` lying ahead; how long a backoff or an interval is, is left open.

### `Dashboard`

The handlers that change the configuration, as the accesses they make:
`AddTargetAllowed` (count and ask), `AddTarget`, `SaveTarget`; `RemoveTarget`,
`DeleteTarget`; `SetLicense`, `TruncateLicense`, `WriteLicense`, `SwitchActivation`; each write with its
failure. `os.WriteFile` truncates the license file when it opens it and writes the key then, so the process may end in between with no
key in it; a write may fail with none, a part (as good as none) or all of the key written. `Restart` ends the process anywhere and runs the boot code:
`Activate(file)` and the replay of the saved raw inputs. Raw inputs are model
values, `CanonicalOf` is what `ValidateTarget` makes of them (so
`example.com` and `example.com:443` are one target). Signatures are
`KeyTier`: what tier the issuer signed a key for, or "invalid".
Histories: `warned` (the user was told that a target is not saved), `raced` (an addition and a removal of one target,
or two requests with a key, were in flight together), `doubt` (what a failed write may have left in the license file) and `ceiling` (the highest limit so far).

### `Collector`

A scan of one server, which the administrator reconfigures (`Deploy`) while time passes (`Tick`).
`Dial` is the connection whose certificate and parameters `Collect` grades, at the instant it reads the clock;
`DialFails` its error; `Probe` and `ProbeFails` the second connection that offers legacy TLS; `Reconcile` is
the whole of the engine's call in one step, without the user's decisions (both are in module `Reconcile`).
The checks (`CheckExpiry`, `CheckChain`, ...) are operators from a certificate or a configuration to sets of
findings; fingerprints are the pairs `Id`. `Flawed` says what is wrong with a server without going through
the checks, from what the documentation says of each, and is what the properties compare the record with. Histories: `witnessed` (what a
scan under way could see of the server), `alarmed` (certificates a critical `tls.expiry` was on record for).

### `AIAssist`

One request to explain a finding: `GetFinding`, `AIAllowed`, then `Client.Explain`'s loop, whose
attempts reach the sidecar (`DoRequest`) and end in a failure to be retried (`AttemptFails`), a
reply that is not (`Refused`) or a narration (`Narrates`). Scans regrade the finding (`Upsert`), the license changes
(`SwitchActivation`) and the browser leaves (`GoAway`) meanwhile. Requests share nothing but what they read, so one
at a time shows all they can do. `GetFinding` reads some evidence (`recorded`), the packet's is cut by
`SanitizeEvidence`, and `DoRequest` sends it (`received`), once or again.

Module `Evidence` is that cut: evidence is the set of its nodes, a node the path of keys and indices that leads to it, and
`SanitizeEvidence` drops the secret keys of a map, then what sorts after the limit of a map or a list, and whatever is too deep. What it is to
achieve is said without walking down: `SecretFree`, `Small`, and `NoneWithheldInVain` for what it may not drop.

A text is the set of its sentences, and a sentence what
the guards' patterns see in it; the guards neither reorder nor count sentences, only their length is added up.
Histories: `rated`, `licensed` (severities and licenses there were since the request came), `asked`, `verdict`, `said`.

## The runs

| run | instance | what it shows |
|---|---|---|
| `reconcile_serial` | 1 target, 2 findings, no overlap, malformed findings, 4 scans, a failed write, a crash, `ResolveAfter` 2 | suppression stands, the engine implements `FindingLifecycle`; undisturbed, announcements match the table, openings are told once per episode, nothing resolves early |
| `reconcile_overlap` | 2 overlapping scans and a status request, malformed findings, a failed write, a crash | types, resolved rows are stamped, identities are stable, and overlap by itself leaves nothing unannounced |
| `reconcile_suppression_race` | 1 finding, overlap | **violated**: a scan writes its stale copy over a suppression |
| `reconcile_partial_failure` | no overlap, one failed write | **violated**: rows inserted before the failure are never announced |
| `pipeline` | 2 findings of one module, a scan goroutine, a channel that answers, batch of 2, 2 attempts, 3 events, a signal or a failing listener anywhere | the dispatcher implements `Outbox`; nothing is lost but what is given up on after its attempts, and nothing left behind by `Close`, windows are sound (a flush is coming, keys are theirs), the receiver is left with the truth, every event is settled, even those in flight at the signal (but for a failed listener), and a signal ends the program |
| `scheduler_calls` | 1 target, 1 worker, `AddTarget`, `ScanNow` and sweeps, `Stop` | slot and WaitGroup accounting, what `Stop` guarantees, backoff ends with a sweep's success only, the scans of a removed target run out, `ScanNow` and `Stop` return |
| `scheduler_loops` | 2 targets, 1 worker, 2 goroutines | each target is scanned again and again |
| `dashboard` | 2 requests at a time, 3 targets (one with an alias), a good and a bad key, a failure, a restart, limits 1 and 2 | a restart restores the targets and the license in force (but for a write cut off or failed, see `ActivationPersisted`) and drops nothing; two requests pass the limit by one target and no more |
| `dashboard_add_remove_race` | 2 requests | **violated**: map and table disagree |
| `collector` | 4 configurations of a server with 3 certificates, 2 deploys, probes that fail as often as they like, 7 half-days | what opens was wrong and what resolves was right at some instant of the scan (but for a failed probe), no certificate expires without a critical finding, the record follows the server in the end (of legacy TLS: if the probe stops failing) |
| `collector_probe_failure` | the same | **violated**: a legacy probe that times out resolves the finding |
| `ai_assist` | 2 severities, 3 words for them, 41 sets of up to 3 sentences, 1 retry, 4 shapes of evidence | what is shown is grounded and what is grounded is shown, no secret evidence is sent, little of the rest, and none withheld in vain, the sidecar is not asked in vain or without a license, every request is answered |

### Bounds, and why they are enough

* Reconcile: one record's fate depends on others only through the order of
  writes of one call, so two findings (one written, one not yet) show every
  partial state. Four scans cover seen, missed twice (`ResolveAfter` 2 makes
  "one fewer" different from "enough"), seen again. Two scans and one request are
  all kinds of overlap. `MaxFaults` and `MaxCrashes` 1: each already ends the call it hits.
* Pipeline: three events are a full batch of two and one that finds the window it left, or an opening, its closure and
  the opening again of one finding; two findings let a digest hold news of one and a later digest those of the other; two attempts
  distinguish first and last. Channels share nothing but the digest, one is enough for TLC. The safety properties were also
  checked once with two scan goroutines (too long for a run kept here). That a flush makes a digest per module, more channels, and those that do not
  answer, are covered by the proofs only, which hold for any number of each.
* Scheduler: one worker is the tightest semaphore and two goroutines contend for
  it. `Scans` bounds goroutines alive at once (the code has no bound); a spawner
  waits when none is free, and fairness sees to it that it gets one.
  `MaxFailures` 1 caps the counter: the code asks whether it is 0 and how long the backoff is, which is left open. Modules are independent but for the semaphore
  and the WaitGroup, which several goroutines of one module exercise as well.
* Dashboard: limits of 1 (free) and 2 (pro) instead of 10 and 100; two requests
  against a limit of 1 reach 2 targets, and a third target is there to be added if the bound were
  wrong. One failure and one restart, at any step. Requests are symmetric, and so are the two targets
  without an alias.

* Collector: a day has two units, so that truncation to whole days matters. The clock stops at 7, within which one
  certificate comes to its last day and expires, one enters its last week and one its last thirty
  days. Two deploys put a server back to what it was, or change it on both sides of a connection. `MaxGap` is 36 hours; the
  proof allows up to two days, which is where the claim stops being true.
* AI Assist: `MaxRetries` 1 tells first, retried and last attempt apart (the program configures 0, the client's default is higher). A text
  of three sentences has one that is kept, one that either guard drops, and one that both do; `Minimum` 2 is met exactly,
  missed by one, or exceeded. Evidence with limits of 2: maps of four keys of which one is secret, a list that is one too long with a map inside,
  and nesting one level too deep with a secret on the last level.

Deadlock is not checked where the system may stop for good: when the bounds are
used up, after the program's end, after `Stop`.

### Fairness

* `Pipeline`: while the process lives, timers fire, callbacks get the mutex (Go's mutexes do not starve), an attempt
  ends (its context carries 15 seconds), and `main` runs on. No signal has to come, no scan has to end or to hand its news over; that every *accepted* event is
  settled nevertheless is the claim.
* `Scheduler`: every `Collect` ends (its context carries `ScanTimeout`) and its
  goroutine runs on. A blocked channel send is served in order, so a
  scan that finds a free slot again and again gets one: strong fairness of `ScanOne`, whose other steps stay enabled and need but weak. A
  `select` with two ready cases draws at random: strong fairness of `LoopExits`.
  Timers run out. Strong fairness of the spawning steps makes up for the bound `Scans`. Nobody has
  to call `AddTarget`, `ScanNow`, `RemoveTarget` or `Stop`. `CallsSpec` assumes that calls begun go on and scans and loops run (`scheduler_calls`:
  `Stop` and `ScanNow` come back, though an `AddTarget` starts a scan meanwhile); `SweepSpec` that backoffs end (`scheduler_loops`).
* `Collector`: scans go on, each ends, and the server is up again and again. Time need not pass and nobody has to deploy. Nothing keeps the
  probe from failing in every scan: `RecordFollowsServer` claims of the legacy finding that it stays on record only *if* from some time on no probe
  fails (`ProbesSucceed`, a premise of that claim and no fairness assumption); the other findings, and that fixed ones resolve, need no premise.
* `AIAssist`: the handler runs on and an attempt's time-out ends it. The sidecar need not reply.
* `Reconcile` and `Dashboard` state safety only and assume none.

## What is proved

`ReconcileProofs`, for all sets, bounds and thresholds:

* `TypeCorrect`, `ResolvedStamped`, `IdentityStability` with no assumption on overlap. The inductive
  invariant (`RowInv`) adds to `TypeOK` and `ResolvedIsStamped` that every *copy* of a row is sound
  (`SnapshotSound`): a record in a snapshot that says "resolved" has its instant, and the records
  a scan is going to mark absent are such that absence counts. Without it a stale copy could
  write a resolved row without its instant.
* `SerialRefinement`, `SuppressionHolds` for `Overlap = FALSE`. The invariant (`SerialInv`)
  says that at most one operation per target is in flight, and that the statuses in the part of the
  snapshot it has yet to write back are those of the table; so writing a record back is a
  step of the lifecycle or a stutter.

`AnnouncementProofs`, about what the engine makes known while nothing fails (`Undisturbed`):

* `OverlapAnnounces` with no assumption on overlap: a row is made by `InsertNew` alone, which announces it, because all copies under way are of
  findings that have a row (`CopiesOnRecord`).
* `AnnouncementsAgree` and `OpeningsToldOnce` for `Overlap = FALSE`. While a scan writes, the table is ahead of what was told; `MatchInv`
  compares it with what subscribers will have heard once the results under way are handed over (`Heard`).
* `ResolvedAfterMisses` for `Overlap = FALSE`, malformed findings counted as misses. A row's streak does not exceed the scans in a row that missed the finding, but
  between the start of a scan that saw it and the write that resets it; `StreakInv` says when it holds, and that each record still to be marked is one miss behind.

`DispatcherProofs`: `DispatcherTypes`, `NothingIsLost`, `WindowsAreSound`, from one inductive invariant (`DInv`): every accepted event is in the
window, in flight, delivered or given up on, per channel; a window with events has a timer, and one that has fired has
a callback on its way; from `Close` on the window is empty; its keys are those of its events.

`DispatcherImplementsOutbox` says that this is all an observer sees. `DInv` does not tell a digest sent twice from one sent once; `OwedInv`
adds that what waits in the window was told to no channel (`Untold`), and that the sends under way to a channel are digests, disjoint from each
other and from what is settled there (`SendsOwed`); numbers of events make each accepted one new (`Numbered`). Then `Enqueue` accepts, a flush
stutters but makes digests (`DigestsOfWindow`: few enough because the window was below `MaxBatch`), the end of a send delivers
or gives up, a retry counts one more attempt of the whole digest, and `Close` returns only when `NothingLost` leaves nothing unsettled. The refinement is
of the safety part; that events are settled in the end is `EveryEventSettled`.

`PipelineProofs`: `PipelineImplementsDispatcher` (every behaviour of the pipeline is one of the dispatcher, so what is proved of the dispatcher holds
in it: `PipelineLosesNothing`, `PipelineImplementsOutbox`), `PipelineTypes`, and `ReceiversLeftWithTheTruth`, for any scans, modules, findings, channels and
retries. Its invariant (`NewsInv`) says, of findings whose scans were not hasty, that whatever is on its way is the last accepted event and
agrees with the record (`NewsIsLatest`), that it is the only news of the finding (`NewsIsSingle`), and that a channel that answers will hear it,
was given up on with it, or knows (`NewsSettled`). The goroutine per digest is harmless exactly because no two digests with news of such a finding are under way at once.

`SchedulerProofs`: `SchedulerTypes`, `SlotsNeverLeak`, `WaitGroupCounts`, `StopIsFinal`,
`BackoffHolds`, `RemovedTargetsRunOut`, `WaitsAreForSomebody`, for any number of modules, targets, callers and goroutines. The invariant (`SInv`) is their
conjunction with `LoopInv`: no loop before `Start`, and targets left to do only inside a sweep. The types
of the two counters follow from what they count, and `StopIsFinal` from the accounting: when `Stop` finds the
WaitGroup at zero nothing it counts is left, and only a live loop could start a sweep's scan. `BackoffHolds` rests on
`CancelInv`: a sweep's scan has been canceled only if the scheduler's context has. `RemovedTargetsRunOut` counts
what is still to scan a target (snapshots, calls, goroutines): a step that starts a goroutine takes it from a snapshot or a call (`TakenOver`), and
only a registered target gets into a snapshot. `WaitsAreForSomebody` is the safety half of what `StopTerminates` and `ScanNowTerminates` say
with fairness.

`DashboardProofs`: `DashboardTypes`, `RestartKeepsTargets`, `RestartIsExact`, `OvershootIsBounded`,
`LicenseIsPersisted`, for any number of targets, keys, requests, failures and restarts. `RestartIsExact` rests on
`AgreeInv`: for a target nobody raced for, the requests under way are all additions or all removals, each
has left the map as it wants it, and map and table agree when there is none. `OvershootIsBounded` rests on `LimitInv`, which
counts the targets together with the requests already allowed to add one; `LicenseIsPersisted` on `LicenseInv`: only keys
that verified reach the file; while keys are set one at a time a request has an empty file before it and its own key in it after its write, and with none under way
the file holds the key in force, an expired one, or what a failed write has left (`doubt`: no key, or the one that was to be written).

`CollectorProofs`: `CollectorTypes`, and `ExpiryIsForewarned` for `MaxGap <= 2 * Day` and any certificates, servers,
deploys and time. The invariant (`AlarmInv`) says that a certificate the last scan saw less than `MaxGap` before its end, or later, is among those
alarm was raised for (`Alarmed`), for the server and for a scan under way. The critical stage begins
less than two days before the end (whole days left at most 1), hence the assumption: with scans further apart a certificate can pass it unseen.
`OpeningsAreFlaws` and `ResolutionsAreFixes` have none. Their lemmas (`ExpiryFinds`, ..., `GradedFinds`) show that the checks find exactly what `Flawed`
says, and the invariant (`WitnessInv`) that what a scan holds was seen on its two connections, at instants it witnessed.

`AIAssistProofs`: `AIAssistTypes`, `NarrationsAreGuarded`, `SidecarIsSpared`, `EvidenceIsMinimised`, for any severities, sentences, narrations and evidence. `ReadInv` says
that the severity the handler holds is one the finding had during the request; `AskInv` that the sidecar was asked once
per attempt at most, and a license looked at before. That what is grounded is shown is kept by every step (`SaidInv`: nothing is said before the answer) and rests on
the guards themselves: sentences that pass both guards are long enough by themselves, and a text is no shorter than a part of it (`LengthOfPart`).
`EvidenceIsMinimised` rests on `PacketInv` (what was sent is the sanitised form of what was read) and on lemmas about `SanitizeEvidence`:
no more keys than the limit are chosen of a map (`FewChosen`), and where one was left out without being secret the limit is used up
(`FullWithout`). `Length` is a fold and choosing a number of keys is counting; where such a proof would go by induction over data it takes
a least exception instead (`LeastNumber`, `LeastPart`, from the well-founded orders of the library) and refutes it.
It assumes of evidence what every JSON value has (`IsEvidence`: finitely many nodes, each below its parent, and no map that is a list).

Only model-checked: the liveness properties `EveryEventSettled`, `ExitsOnSignal`, `TargetsScanned`, `StopTerminates`, `ScanNowTerminates`, `RecordFollowsServer`
and `RequestsAnswered`; the proof system has no rule for fairness conditions, which speak of what is ENABLED. Every safety and action
property and both refinements that a passing run checks are theorems. The proofs use no `RECURSIVE` operator.

## Disagreements met on the way

Four are shown by a run (`PROJECT.json`, "findings"). The others were seen while
modelling; the models contain the behaviour, and no property excludes it:

* two overlapping first scans announce one finding under two ids; the table keeps the first;
* a finding that fails `ValidateForIngest` counts as absent, so its record resolves;
* `Stop` neither cancels nor awaits the scans of `ScanNow`;
* a removed target is still scanned from a sweep's snapshot or from the queue (no more than was under way: `RemovedRunsOut`);
* errors of the scans of `AddTarget` and `ScanNow` reach no `OnError`, and those of sweeps none either in the shipped program, which sets none
  (cmd/certlight/main.go): a target that cannot be scanned fails, and backs off, without a word;
* nor does it set `OnSendError` (notify/notify.go:221, cmd/certlight/main.go:131-135): the events of a digest given up on are lost and nobody is
  told (`abandoned`; `NothingLost` and `EveryEventSettled` count them as settled);
* the target limit is exceeded by concurrent requests (by how much is `OvershootBounded`);
* the error of `DeleteTarget` is dropped and the target is back after a restart (`RestartExactUnlessRaced` excepts it);
* an expired key keeps its tier until the next start;
* the expiry ladder has three stages (30, 7 and 1 days); README.md:15, certlight/collector.go:9 and the changelog name a fourth at 14;
* an expired certificate with a good chain also gets a chain finding: `leaf.Verify` looks at the dates, although
  certlight/collector.go:231-232 says the check grades trust only;
* a finding whose severity rises while it is open is refreshed and not announced; `tls.expiry` "resolves" when the certificate expires (and `tls.expired` opens);
* a narration that only states a wrong severity is shown in full (aiclient/guard.go:25-26), although `ErrRejected` (guard.go:62-64) is said
  to stand for "nothing grounded was left" after such sentences are removed; severities in `what_to_verify` are not looked at;
* with `-slack-webhook`, `-telegram-*` or `-interval` on the command line a key that has expired ends the program at its next start
  (cmd/certlight/main.go:117-141), although README.md:60 and license/license.go:11, 178-179 say that an expired key never bricks or stops the product;
* a finding that resolves and opens again within one window is reported opened, then resolved, whatever the order was: the receiver's last word is wrong
  until the next change (`hasty`);
* a scan still running at shutdown may store findings it can no longer announce, and the next start does not find them new (`late`);
* a listener that fails ends the program by `os.Exit`, which skips the deferred `Close`: what waits in the window is lost (`EveryEventSettled` excepts it);
* the license file is truncated before it is written (web/server.go:300): a process that ends in between, or a write that fails, leaves no key, and the
  one in force is gone with the next start; a write that fails after the whole key is answered as an error, and the next start finds that key;
  two license requests may leave one's key in the file and the other's in force;
* a legacy probe that fails in every scan keeps the finding off the record for good.

## What is not modelled

* The order of a digest by severity, license signatures, the neutralising and cutting of texts sent to the sidecar, prompts, formatting,
  transport: see the plan and `PROJECT.json`, "components". Evidence of structs or typed lists: what comes from the store is what JSON decodes to.
* Flags.
* An arrival at a receiver after its attempt has timed out *and* another digest has landed: an attempt's effect is one with its end. Nor that an
  `AddTarget` may call `wg.Add` while `Stop`'s `Wait` is returning from a count of zero, which the Go runtime may answer with a panic.
* Durations outside `Collector`: the models know that time passes, not how much.
* `MemStore` (a test double), the demo program, the dashboard page.
* `PruneResolvedBefore`, `Vacuum`, `RetentionCutoff`: nothing in the program calls them.

## Plan

1. *Done*: `FindingLifecycle`, `Reconcile`, `Dispatcher`, `Pipeline` (with the shutdown of `main`), `Scheduler`, `Dashboard`, `Collector`, `AIAssist`,
   `Evidence`, `Outbox`, with the proofs above: all safety, all action properties, three refinements (`FindingLifecycle`, `Outbox`, `Dispatcher`).
2. A finer `Pipeline`: the windows' order of reopening (`hasty`) with durations, to say how far apart scans must be; `Stop` and its waiting scans
   in place of scans that may always go on.
3. Pure operators: `backoffFor` (doubling, cap, overflow), `sortBySeverity`, license parsing outcomes.
4. Proofs: bounds of `backoffFor`; an abstract specification of the scheduler.
