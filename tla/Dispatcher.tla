----------------------------- MODULE Dispatcher -----------------------------
(***************************************************************************)
(* notify.Dispatcher (notify/notify.go): events enqueued by the goroutines *)
(* that finish scans are batched over a window, and each batch becomes one *)
(* digest per module that is sent to every channel with retries.  What an  *)
(* attempt gets through to the receiver (notify/channels.go) is a choice.  *)
(*                                                                         *)
(* Each method body runs under d.mu and is one step.  What runs outside    *)
(* the mutex is interleaved: the window timer, the callbacks it has        *)
(* already started, the senders, and Close waiting for them.               *)
(*                                                                         *)
(* An event carries the number of the Enqueue call that accepted it, which *)
(* the code does not have: it tells two openings of one finding apart.     *)
(***************************************************************************)
EXTENDS Naturals, FiniteSets

CONSTANTS
  Fingerprints,   \* fingerprints of findings
  Modules,        \* module ids
  ModuleOf,       \* [Fingerprints -> Modules]
  Severities,     \* severity ranks events come with
  MinSeverity,    \* Config.MinSeverity; 0 when empty
  Channels,       \* the notification channels
  Confirming,     \* those that post over HTTP, whose receiver answers
  MaxBatch,       \* Config.MaxBatch
  Retries,        \* Config.Retries
  MaxEvents       \* bound: events accepted

ASSUME DispatcherAssumption ==
  /\ ModuleOf \in [Fingerprints -> Modules]
  /\ Severities \subseteq Nat /\ MinSeverity \in Nat
  /\ Confirming \subseteq Channels
  /\ MaxBatch \in Nat \ {0}        \* withDefaults leaves no zero
  /\ Retries \in Nat \ {0}
  /\ MaxEvents \in Nat

VARIABLES
  pending,     \* events of the current window
  seen,        \* keys of the current window
  timer,       \* d.timer: "nil", "armed", or "fired" and not yet replaced
  callbacks,   \* timer callbacks started and waiting for d.mu
  closer,      \* "open", "waiting" (closed, in wg.Wait) or "returned"
  sends,       \* sendWithRetry goroutines
  heard,       \* heard[ch][fp]: the last this process told the receiver of it
  count,       \* events accepted so far
  accepted,    \* history: the events accepted
  delivered,   \* history: delivered[ch], events of digests sent without error
  abandoned    \* history: abandoned[ch], events of digests given up on

window  == <<pending, seen, timer, callbacks>>
history == <<count, accepted, delivered, abandoned>>
vars    == <<window, closer, sends, heard, history>>

Kinds == {"opened", "resolved"}
Key   == [kind : Kinds, fp : Fingerprints]
Event == [kind : Kinds, fp : Fingerprints, n : Nat]
Send  == [channel : Channels, module : Modules, events : SUBSET Event, attempt : 0..(Retries - 1)]

Heard == [Fingerprints -> Kinds \cup {"nothing"}]

\* The deduplication key; the fingerprint determines the module.
KeyOf(e) == [kind |-> e.kind, fp |-> e.fp]

-----------------------------------------------------------------------------
Init ==
  /\ pending = {} /\ seen = {}
  /\ timer = "nil" /\ callbacks = 0
  /\ closer = "open"
  /\ sends = {}
  /\ heard = [ch \in Channels |-> [fp \in Fingerprints |-> "nothing"]]
  /\ count = 0
  /\ accepted  = {}
  /\ delivered = [ch \in Channels |-> {}]
  /\ abandoned  = [ch \in Channels |-> {}]

\* Events below MinSeverity are dropped at the door, closures never.
Passes(kind, severity) == kind = "resolved" \/ severity >= MinSeverity

EventsOf(m, events) == {e \in events : ModuleOf[e.fp] = m}

\* One digest per module with events, one sender per channel and digest.
Digests(events) ==
  {[channel |-> ch, module |-> m, events |-> EventsOf(m, events), attempt |-> 0] :
     ch \in Channels, m \in {ModuleOf[e.fp] : e \in events}}

\* (Mutant of FlushLocked: the timer is left in place.)
FlushLockedKeepingTimer(events) ==
  /\ timer' = timer
  /\ pending' = {}
  /\ seen' = {}
  /\ sends' = sends \cup Digests(events)

\* flushLocked with these events pending.  Stopping a timer that has fired
\* does not call its callback back.
FlushLocked(events) ==
  /\ timer' = "nil"
  /\ pending' = {}
  /\ seen' = IF events = {} THEN seen ELSE {}
  /\ sends' = sends \cup Digests(events)

\* The event is kept for this window, and a timer is started unless there is
\* one.
KeepPending(events) ==
  /\ pending' = events
  /\ timer' = IF timer = "nil" THEN "armed" ELSE timer
  /\ UNCHANGED sends

Full(events) == Cardinality(events) >= MaxBatch

\* (Mutant of Closed: Enqueue does not look at closed.)
NeverClosed == FALSE
Closed == closer # "open"

\* Enqueue accepts an event: it passes the severity filter, the dispatcher is
\* not closed and the window holds no event with this key.  In all the other
\* cases the call changes nothing.
Enqueue(kind, fp, severity) ==
  LET e      == [kind |-> kind, fp |-> fp, n |-> count + 1]
      events == pending \cup {e}
  IN
  /\ count < MaxEvents
  /\ Passes(kind, severity)
  /\ ~Closed
  /\ KeyOf(e) \notin seen
  /\ count' = count + 1
  /\ accepted' = accepted \cup {e}
  /\ IF Full(events)
     THEN FlushLocked(events)
     ELSE KeepPending(events) /\ seen' = seen \cup {KeyOf(e)}
  /\ UNCHANGED <<callbacks, closer, heard, delivered, abandoned>>

\* The window has passed: the runtime starts Flush in a goroutine of its own.
TimerFires ==
  /\ timer = "armed"
  /\ timer' = "fired"
  /\ callbacks' = callbacks + 1
  /\ UNCHANGED <<pending, seen, closer, sends, heard, history>>

\* A started callback gets d.mu.  Other flushes may have come between, so what
\* it flushes may be a later window than the one its timer was set for.
Flush ==
  /\ callbacks > 0
  /\ callbacks' = callbacks - 1
  /\ FlushLocked(pending)
  /\ UNCHANGED <<closer, heard, history>>

\* Close, up to wg.Wait.
Close ==
  /\ closer = "open"
  /\ FlushLocked(pending)
  /\ closer' = "waiting"
  /\ UNCHANGED <<callbacks, heard, history>>

\* wg.Wait returns.
CloseReturns ==
  /\ closer = "waiting"
  /\ sends = {}
  /\ closer' = "returned"
  /\ UNCHANGED <<window, sends, heard, history>>

-----------------------------------------------------------------------------
(* Channel.Send and its retries *)

\* Within a digest openings come before closures, in a payload's lists, in a
\* text and in a row of syslog frames alike.
LastWord(events, fp) ==
  IF \E e \in events : e.fp = fp /\ e.kind = "resolved" THEN "resolved" ELSE "opened"

\* What the receiver has heard after these events of a digest.
Hear(known, events) ==
  [fp \in Fingerprints |->
     IF \E e \in events : e.fp = fp THEN LastWord(events, fp) ELSE known[fp]]

\* (Mutant of ArrivesIfTaken: the status of the answer is not looked at.)
ArrivesWhateverStatus(s) == SUBSET s.events

\* Send returns nil.  A status of 2xx says that the receiver has the digest; a
\* syslog frame written is a frame on its way, and each may get lost.
ArrivesIfTaken(s) == IF s.channel \in Confirming THEN {s.events} ELSE SUBSET s.events

\* Send returns an error: the dial, the POST or the write of a frame fails, it
\* takes 15 seconds, or the status is another one.  The receiver may have the
\* digest all the same, or the frames written so far.
ArrivesIfFailed(s) == IF s.channel \in Confirming THEN {{}, s.events} ELSE SUBSET s.events

\* One call of Channel.Send that returns nil: the digest was taken.
SendSucceeds(s) ==
  /\ s \in sends
  /\ \E events \in ArrivesIfTaken(s) :
       heard' = [heard EXCEPT ![s.channel] = Hear(@, events)]
  /\ sends' = sends \ {s}
  /\ delivered' = [delivered EXCEPT ![s.channel] = @ \cup s.events]
  /\ UNCHANGED <<window, closer, count, accepted, abandoned>>

\* (Mutant of LastAttempt: one attempt too many.)
LastAttemptLate(s) == s.attempt + 1 > Retries

\* (Mutant of LastAttempt: one attempt too few.)
LastAttemptEarly(s) == s.attempt + 2 >= Retries

LastAttempt(s) == s.attempt + 1 >= Retries

\* The loop is over and the digest gone.  OnSendError would be told of it, but
\* main sets none (main.go:131-135): nobody hears of the events lost here.
GiveUp(s) == abandoned' = [abandoned EXCEPT ![s.channel] = @ \cup s.events]

\* (Mutant of SendFails: after the last attempt it starts over.)
SendFailsStartingOver(s) ==
  /\ s \in sends
  /\ sends' = (sends \ {s})
               \cup {[s EXCEPT !.attempt = IF LastAttempt(s) THEN 0 ELSE @ + 1]}
  /\ UNCHANGED <<window, closer, heard, history>>

\* One call of Channel.Send that returns an error, a timeout for instance.
SendFails(s) ==
  /\ s \in sends
  /\ \E events \in ArrivesIfFailed(s) :
       heard' = [heard EXCEPT ![s.channel] = Hear(@, events)]
  /\ IF LastAttempt(s)
     THEN sends' = sends \ {s} /\ GiveUp(s)
     ELSE /\ sends' = (sends \ {s}) \cup {[s EXCEPT !.attempt = @ + 1]}
          /\ UNCHANGED abandoned
  /\ UNCHANGED <<window, closer, count, accepted, delivered>>

SendStep(ch) ==
  \E s \in sends :
    /\ s.channel = ch
    /\ SendSucceeds(s) \/ SendFails(s)

Next ==
  \/ \E kind \in Kinds, fp \in Fingerprints, severity \in Severities :
       Enqueue(kind, fp, severity)
  \/ TimerFires
  \/ Flush
  \/ Close
  \/ CloseReturns
  \/ \E ch \in Channels : SendStep(ch)

Spec == Init /\ [][Next]_vars

-----------------------------------------------------------------------------
(* Properties *)

\* Every variable has its type.
TypeOK ==
  /\ pending \in SUBSET Event /\ seen \in SUBSET Key
  /\ timer \in {"nil", "armed", "fired"} /\ callbacks \in Nat
  /\ closer \in {"open", "waiting", "returned"}
  /\ sends \in SUBSET Send
  /\ heard \in [Channels -> Heard]
  /\ count \in Nat
  /\ accepted \in SUBSET Event
  /\ delivered \in [Channels -> SUBSET Event]
  /\ abandoned \in [Channels -> SUBSET Event]

InFlight(ch) == UNION {s.events : s \in {x \in sends : x.channel = ch}}

\* No event is lost between windows, flushes and retries: each accepted one
\* waits in the window, or on every channel is on its way, taken, or given up on
\* after the attempts there (notify.go:210).
NoEventLost ==
  \A ch \in Channels :
    accepted \subseteq pending \cup InFlight(ch) \cup delivered[ch] \cup abandoned[ch]

\* Events never wait for nothing: a window with events has a timer that will
\* fire or a callback that is about to flush it (Enqueue starts a timer only
\* when d.timer is nil, and a timer that has fired is not nil).
WindowWillClose ==
  pending # {} => timer = "armed" \/ callbacks > 0

\* A window never holds MaxBatch events once d.mu is released.
WindowBounded == Cardinality(pending) < MaxBatch

\* One window never announces the same transition of a finding twice, and its
\* keys are exactly those of its events, so none is refused for a past window.
OnePerKey ==
  /\ \A d, e \in pending : KeyOf(d) = KeyOf(e) => d = e
  /\ seen = {KeyOf(e) : e \in pending}

\* What Enqueue and the flushes keep of a window between two holders of d.mu.
WindowSound == WindowWillClose /\ WindowBounded /\ OnePerKey

\* After Close has returned nothing is waiting and nothing is being sent, and
\* it stays so whatever Enqueue is called with and whichever timer callback
\* comes late (notify.go:150: it waits for in-flight sends).
CloseDrains ==
  closer = "returned" => pending = {} /\ sends = {}

\* An event is lost in one way only, on a channel whose attempts all failed:
\* none while the dispatcher runs, and none is left behind when it is closed.
NothingLost == NoEventLost /\ CloseDrains

\* The events Enqueue may accept.
Acceptable == [kind : Kinds, fp : Fingerprints, n : 1..MaxEvents]

\* The sends of the channel that hold the event: one at most.
Carriers(ch, e) == {s \in sends : s.channel = ch /\ e \in s.events}

\* How many attempts to send the event failed so far; none when no send holds it.
TriesOf(ch, e) ==
  IF Carriers(ch, e) = {} THEN 0 ELSE (CHOOSE s \in Carriers(ch, e) : TRUE).attempt

Tries == [ch \in Channels |-> [e \in Acceptable |-> TriesOf(ch, e)]]

Out == INSTANCE Outbox WITH Events <- Acceptable, tries <- Tries

\* The dispatcher is an outbox: each event it accepts is settled once on each
\* channel, in a digest of one module that is no longer than MaxBatch and says
\* nothing twice; it is given up on there only after Retries attempts, all of
\* them with the events of that digest; and Close comes back only when all are
\* settled (notify.go:1-7, 61, 150, 210).
ImplementsOutbox == Out!OSpec
=============================================================================
