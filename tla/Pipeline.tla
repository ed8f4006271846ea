------------------------------ MODULE Pipeline ------------------------------
(***************************************************************************)
(* From a scan to the receivers of its news, until the program ends: what  *)
(* Reconcile returned is handed over event by event by the goroutine of    *)
(* the scan (scanOne, BindScheduler), batched and sent by the dispatcher,  *)
(* and drained by main's deferred disp.Close after a signal.  A listener   *)
(* that fails ends the program without it.                                 *)
(*                                                                         *)
(* Nobody waits for scans before Close: scheduler.Stop runs in a goroutine *)
(* main does not join.  What a scan has stored by then and not handed over *)
(* is never announced.                                                     *)
(*                                                                         *)
(* A table row that changes without an event (a status set by the user, a  *)
(* Reconcile that failed half-way) is Reconcile.tla's matter: record holds *)
(* the transitions Reconcile reported.                                     *)
(***************************************************************************)
EXTENDS Dispatcher

CONSTANT Scans      \* goroutines inside scanOne

ASSUME PipelineAssumption ==
  MinSeverity = 0       \* main passes notify.Config{}: every severity passes

VARIABLES
  record,      \* record[fp]: the last transition Reconcile reported
  todo,        \* todo[g]: transitions of g's result not handed over yet
  signalled,   \* SIGINT or SIGTERM has come
  exited,      \* main has returned
  hasty,       \* history: findings whose last transition was recorded while
               \*   an earlier one was still on its way
  late         \* history: findings whose last transition found it closed

pvars == <<vars, record, todo, signalled, exited, hasty, late>>

Transition == [kind : Kinds, fp : Fingerprints]

PInit ==
  /\ Init
  /\ record = [fp \in Fingerprints |-> "nothing"]
  /\ todo = [g \in Scans |-> {}]
  /\ signalled = FALSE /\ exited = FALSE
  /\ hasty = {} /\ late = {}

FindingsOf(events) == {e.fp : e \in events}

\* A transition of the finding is recorded and has not come to its end.
UnderWay(fp) ==
  \/ \E g \in Scans : fp \in FindingsOf(todo[g])
  \/ fp \in FindingsOf(pending)
  \/ \E s \in sends : fp \in FindingsOf(s.events)

-----------------------------------------------------------------------------
(* Scans *)

\* Bound: no more transitions than Enqueue may still accept.
WithinBound(changes) ==
  count + Cardinality(UNION {todo[g] : g \in Scans} \cup changes) <= MaxEvents

\* A scan of module m has stored its findings: Reconcile returns those it
\* opened and those it resolved.
Reconcile(g, m, opened, resolved) ==
  LET changes == {[kind |-> "opened", fp |-> fp] : fp \in opened}
                 \cup {[kind |-> "resolved", fp |-> fp] : fp \in resolved}
  IN
  /\ ~exited
  /\ todo[g] = {}
  /\ changes # {} /\ opened \cap resolved = {}
  /\ \A fp \in opened \cup resolved : ModuleOf[fp] = m
  /\ WithinBound(changes)
  /\ todo' = [todo EXCEPT ![g] = changes]
  /\ record' = [fp \in Fingerprints |->
       IF fp \in opened THEN "opened"
       ELSE IF fp \in resolved THEN "resolved" ELSE record[fp]]
  /\ hasty' = {fp \in Fingerprints :
       IF fp \in opened \cup resolved THEN UnderWay(fp) ELSE fp \in hasty}
  /\ UNCHANGED <<vars, signalled, exited, late>>

\* NewlyOpen is ranged over before Resolved.
NextInLine(t, changes) ==
  t.kind = "resolved" => \A u \in changes : u.kind = "resolved"

\* Enqueue returns at once: the dispatcher is closed, or the window already
\* holds the key.
TurnedAway(t) ==
  /\ Closed \/ KeyOf(t) \in seen
  /\ late' = IF Closed THEN late \cup {t.fp} ELSE late
  /\ UNCHANGED vars

\* BindScheduler's OnResult hands the next transition to Enqueue.
Announce(g) ==
  \E t \in todo[g] :
    /\ ~exited
    /\ NextInLine(t, todo[g])
    /\ todo' = [todo EXCEPT ![g] = @ \ {t}]
    /\ \/ TurnedAway(t)
       \/ \E severity \in Severities : Enqueue(t.kind, t.fp, severity) /\ late' = late
    /\ UNCHANGED <<record, signalled, exited, hasty>>

-----------------------------------------------------------------------------
(* The dispatcher's goroutines and main *)

\* A step of the dispatcher's own goroutines.
Deliver ==
  /\ ~exited
  /\ TimerFires \/ Flush \/ \E ch \in Channels : SendStep(ch)
  /\ UNCHANGED <<record, todo, signalled, exited, hasty, late>>

Signal ==
  /\ ~signalled /\ ~exited
  /\ signalled' = TRUE
  /\ UNCHANGED <<vars, record, todo, exited, hasty, late>>

\* Shutdown makes ListenAndServe return ErrServerClosed at once, main's body
\* ends and its deferred calls run.
MainReturns ==
  /\ signalled /\ ~exited
  /\ Close
  /\ UNCHANGED <<record, todo, signalled, exited, hasty, late>>

\* The deferred Close returns.
MainDrained ==
  /\ CloseReturns
  /\ UNCHANGED <<record, todo, signalled, exited, hasty, late>>

\* (Mutant of MayExit: main does not wait for the sends.)
MayExitUndrained == closer # "open"
MayExit == closer = "returned"

\* The process ends, and with it every goroutine.
Exit ==
  /\ ~exited /\ MayExit
  /\ exited' = TRUE
  /\ UNCHANGED <<vars, record, todo, signalled, hasty, late>>

\* ListenAndServe returns another error: fatal ends the process at once, the
\* deferred Close is not run and what the window holds is gone.
ListenerFails ==
  /\ ~exited /\ closer = "open"
  /\ exited' = TRUE
  /\ UNCHANGED <<vars, record, todo, signalled, hasty, late>>

PNext ==
  \/ \E g \in Scans, m \in Modules, opened, resolved \in SUBSET Fingerprints :
       Reconcile(g, m, opened, resolved)
  \/ \E g \in Scans : Announce(g)
  \/ Deliver
  \/ Signal
  \/ MainReturns
  \/ MainDrained
  \/ ListenerFails
  \/ Exit

PSpec == PInit /\ [][PNext]_pvars

\* While the process lives its timers fire, its mutexes are handed over, its
\* sends end and its main goroutine runs.  No signal has to come and no scan
\* has to end.
PFairness ==
  /\ WF_pvars(~exited /\ TimerFires /\ Deliver)
  /\ WF_pvars(~exited /\ Flush /\ Deliver)
  /\ \A ch \in Channels : WF_pvars(~exited /\ SendStep(ch) /\ Deliver)
  /\ WF_pvars(MainReturns)
  /\ WF_pvars(MainDrained)
  /\ WF_pvars(Exit)

PFairSpec == PSpec /\ PFairness

-----------------------------------------------------------------------------
(* Properties *)

\* Every variable has its type.
PTypeOK ==
  /\ TypeOK
  /\ record \in Heard
  /\ todo \in [Scans -> SUBSET Transition]
  /\ signalled \in BOOLEAN /\ exited \in BOOLEAN
  /\ hasty \in SUBSET Fingerprints /\ late \in SUBSET Fingerprints

\* The transitions of a finding that Enqueue accepted last.
LastAccepted(fp) ==
  {e \in accepted : e.fp = fp /\ \A d \in accepted : d.fp = fp => d.n <= e.n}

\* The receiver of an answering channel is left with the truth: once nothing
\* about a finding is on its way it was last told what the last scan found,
\* and so at the end of the program -- unless the channel gave up on that very
\* event, scans came faster than the news of them, or Close came
\* first (notify.go:200 gives each digest a goroutine of its own, and a failed
\* attempt may have arrived).
LastWordStands ==
  \A ch \in Confirming : \A fp \in Fingerprints \ (hasty \cup late) :
    ~UnderWay(fp) /\ LastAccepted(fp) \cap abandoned[ch] = {}
      => heard[ch][fp] = record[fp]

\* Every accepted event is in the end taken by each channel or given up on there
\* after its attempts (what is given up on, nobody is told of), unless the listener failed and the process ended without Close (main.go:163).
EveryEventSettled ==
  \A ch \in Channels : \A n \in 1..MaxEvents :
    (\E e \in accepted : e.n = n)
      ~> \/ \E e \in delivered[ch] \cup abandoned[ch] : e.n = n
         \/ exited /\ closer = "open"

\* A signal ends the program: Close always comes back, whatever the receivers
\* do and whatever scans still hand over (main.go:156).
ExitsOnSignal == signalled ~> exited
=============================================================================
