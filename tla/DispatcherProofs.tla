-------------------------- MODULE DispatcherProofs --------------------------
(***************************************************************************)
(* Proofs about Dispatcher, for any channels, modules, batch size and      *)
(* number of retries.                                                      *)
(***************************************************************************)
EXTENDS Dispatcher, FiniteSetTheorems, TLAPS

\* A timer that has fired and was not replaced has its callback still waiting,
\* and a window with events has a timer.
TimerInv ==
  /\ timer = "fired" => callbacks > 0
  /\ pending # {} => timer # "nil"

\* From Close on the window is empty.
CloseInv ==
  /\ closer # "open" => pending = {}
  /\ closer = "returned" => sends = {}

DInv ==
  /\ TypeOK
  /\ IsFiniteSet(pending)
  /\ NoEventLost
  /\ TimerInv
  /\ WindowBounded
  /\ OnePerKey
  /\ CloseInv

LEMMA DInvInit == Init => DInv
<1> SUFFICES ASSUME Init
             PROVE  DInv
  OBVIOUS
<1>1. TypeOK
  BY DEF Init, TypeOK, Heard, Kinds
<1>2. NoEventLost /\ TimerInv /\ OnePerKey /\ CloseInv
  BY DEF Init, NoEventLost, TimerInv, OnePerKey, CloseInv
<1>3. WindowBounded /\ IsFiniteSet(pending)
  BY FS_EmptySet, DispatcherAssumption DEF Init, WindowBounded
<1>4. QED
  BY <1>1, <1>2, <1>3 DEF DInv

\* The digests of a set of events are sends of exactly these events.
LEMMA DigestsType ==
  ASSUME NEW events \in SUBSET Event
  PROVE  Digests(events) \in SUBSET Send
<1>1. \A m \in Modules : EventsOf(m, events) \in SUBSET Event
  BY DEF EventsOf
<1>2. {ModuleOf[e.fp] : e \in events} \subseteq Modules
  BY DispatcherAssumption DEF Event
<1>3. 0 \in 0..(Retries - 1)
  BY DispatcherAssumption
<1>4. QED
  BY <1>1, <1>2, <1>3 DEF Digests, Send

LEMMA DigestsCover ==
  ASSUME NEW events \in SUBSET Event, NEW ch \in Channels, NEW e \in events
  PROVE  \E s \in Digests(events) : s.channel = ch /\ e \in s.events
<1> DEFINE m == ModuleOf[e.fp]
           s == [channel |-> ch, module |-> m, events |-> EventsOf(m, events),
                 attempt |-> 0]
<1>1. s \in Digests(events)
  BY DEF Digests
<1>2. e \in s.events
  BY DEF EventsOf
<1>3. QED
  BY <1>1, <1>2

\* What a receiver has heard keeps its type.
LEMMA HearType ==
  ASSUME NEW known \in Heard, NEW events
  PROVE  Hear(known, events) \in Heard
  BY DEF Hear, Heard, LastWord, Kinds

\* Nothing pending makes no digest.
LEMMA NoDigests == Digests({}) = {}
  BY DEF Digests

\* flushLocked moves what is pending into flight on every channel.
LEMMA FlushMoves ==
  ASSUME TypeOK, NEW events \in SUBSET Event, FlushLocked(events),
         NEW ch \in Channels
  PROVE  events \cup InFlight(ch) \subseteq InFlight(ch)'
<1>1. sends' = sends \cup Digests(events)
  BY DEF FlushLocked
<1>2. InFlight(ch) \subseteq InFlight(ch)'
  BY <1>1 DEF InFlight
<1>3. events \subseteq InFlight(ch)'
  BY <1>1, DigestsCover DEF InFlight
<1>4. QED
  BY <1>2, <1>3

\* What flushLocked establishes, whoever calls it.
LEMMA FlushEstablishes ==
  ASSUME TypeOK, OnePerKey, NEW events \in SUBSET Event, pending \subseteq events,
         FlushLocked(events)
  PROVE  /\ pending' = {} /\ seen' = {} /\ timer' = "nil"
         /\ sends' \in SUBSET Send
         /\ WindowBounded' /\ OnePerKey' /\ IsFiniteSet(pending)'
<1>1. pending' = {} /\ timer' = "nil" /\ sends' = sends \cup Digests(events)
  BY DEF FlushLocked
<1>2. seen' = {}
  BY DEF FlushLocked, OnePerKey
<1>3. sends' \in SUBSET Send
  BY <1>1, DigestsType DEF TypeOK
<1>4. WindowBounded' /\ IsFiniteSet(pending)'
  BY <1>1, FS_EmptySet, DispatcherAssumption DEF WindowBounded
<1>5. OnePerKey'
  BY <1>1, <1>2 DEF OnePerKey
<1>6. QED
  BY <1>1, <1>2, <1>3, <1>4, <1>5

LEMMA EnqueueStep ==
  ASSUME DInv, NEW kind \in Kinds, NEW fp \in Fingerprints, NEW severity \in Severities,
         Enqueue(kind, fp, severity)
  PROVE  DInv'
<1> DEFINE e      == [kind |-> kind, fp |-> fp, n |-> count + 1]
           events == pending \cup {e}
<1>1. e \in Event /\ KeyOf(e) \in Key /\ count' \in Nat
  BY DEF DInv, TypeOK, Event, Key, KeyOf, Enqueue
<1>2. events \in SUBSET Event /\ pending \subseteq events
  BY <1>1 DEF DInv, TypeOK
<1>3. /\ accepted' = accepted \cup {e}
      /\ KeyOf(e) \notin seen
      /\ closer = "open"
      /\ UNCHANGED <<callbacks, closer, heard, delivered, abandoned>>
  BY DEF Enqueue, Closed
<1>4. CASE Full(events)
  <2>1. FlushLocked(events)
    BY <1>4 DEF Enqueue
  <2>2. /\ pending' = {} /\ seen' = {} /\ timer' = "nil"
        /\ sends' \in SUBSET Send
        /\ WindowBounded' /\ OnePerKey' /\ IsFiniteSet(pending)'
    BY <1>2, <2>1, FlushEstablishes DEF DInv
  <2>3. TypeOK'
    BY <1>1, <1>3, <2>2 DEF DInv, TypeOK
  <2>4. NoEventLost'
    <3> SUFFICES ASSUME NEW ch \in Channels
                 PROVE  accepted' \subseteq pending' \cup InFlight(ch)'
                                             \cup delivered'[ch] \cup abandoned'[ch]
      BY DEF NoEventLost
    <3>1. events \cup InFlight(ch) \subseteq InFlight(ch)'
      BY <1>2, <2>1, FlushMoves DEF DInv
    <3>2. QED
      BY <1>3, <3>1 DEF DInv, NoEventLost
  <2>5. TimerInv' /\ CloseInv'
    BY <1>3, <2>2 DEF TimerInv, CloseInv
  <2>6. QED
    BY <2>2, <2>3, <2>4, <2>5 DEF DInv
<1>5. CASE ~Full(events)
  <2>1. KeepPending(events) /\ seen' = seen \cup {KeyOf(e)}
    BY <1>5 DEF Enqueue
  <2>2. /\ pending' = events
        /\ timer' = IF timer = "nil" THEN "armed" ELSE timer
        /\ sends' = sends
    BY <2>1 DEF KeepPending
  <2>3. TypeOK'
    BY <1>1, <1>2, <1>3, <2>1, <2>2 DEF DInv, TypeOK
  <2>4. NoEventLost'
    BY <1>3, <2>2 DEF DInv, NoEventLost, InFlight
  <2>5. TimerInv' /\ CloseInv'
    BY <1>3, <2>2 DEF DInv, TimerInv, CloseInv
  <2>6. WindowBounded' /\ IsFiniteSet(pending)'
    <3>0. IsFiniteSet(events)
      BY FS_AddElement DEF DInv
    <3>1. ~(Cardinality(events) >= MaxBatch)
      BY <1>5 DEF Full
    <3>2. Cardinality(events) \in Nat
      BY <3>0, FS_CardinalityType
    <3>3. QED
      BY <2>2, <3>0, <3>1, <3>2, DispatcherAssumption DEF WindowBounded
  <2>7. OnePerKey'
    <3>1. \A d \in pending : KeyOf(d) # KeyOf(e)
      BY <1>3 DEF DInv, OnePerKey
    <3>2. \A d, x \in events : KeyOf(d) = KeyOf(x) => d = x
      BY <3>1 DEF DInv, OnePerKey
    <3>3. seen' = {KeyOf(x) : x \in events}
      BY <2>1 DEF DInv, OnePerKey
    <3>4. QED
      BY <2>2, <3>2, <3>3 DEF OnePerKey
  <2>8. QED
    BY <2>3, <2>4, <2>5, <2>6, <2>7 DEF DInv
<1>6. QED
  BY <1>4, <1>5

\* The timer callback, and Close up to wg.Wait, are one flush.
LEMMA FlushStep ==
  ASSUME DInv, Flush \/ Close
  PROVE  DInv'
<1>1. FlushLocked(pending) /\ UNCHANGED <<heard, count, accepted, delivered, abandoned>>
  BY DEF Flush, Close, history
<1>2. /\ pending' = {} /\ seen' = {} /\ timer' = "nil"
      /\ sends' \in SUBSET Send
      /\ WindowBounded' /\ OnePerKey' /\ IsFiniteSet(pending)'
  BY <1>1, FlushEstablishes DEF DInv, TypeOK
<1>3. callbacks' \in Nat /\ closer' \in {"open", "waiting", "returned"}
  BY DEF Flush, Close, DInv, TypeOK
<1>4. TypeOK'
  BY <1>1, <1>2, <1>3 DEF DInv, TypeOK
<1>5. NoEventLost'
  <2> SUFFICES ASSUME NEW ch \in Channels
               PROVE  accepted' \subseteq pending' \cup InFlight(ch)'
                                           \cup delivered'[ch] \cup abandoned'[ch]
    BY DEF NoEventLost
  <2>1. pending \cup InFlight(ch) \subseteq InFlight(ch)'
    BY <1>1, FlushMoves DEF DInv, TypeOK
  <2>2. QED
    BY <1>1, <2>1 DEF DInv, NoEventLost
<1>6. TimerInv'
  BY <1>2 DEF TimerInv
<1>7. CloseInv'
  <2>1. CASE Flush
    <3>1. closer' = "returned" => sends' = {}
      BY <1>1, <2>1, NoDigests DEF Flush, FlushLocked, DInv, CloseInv
    <3>2. QED
      BY <1>2, <3>1 DEF CloseInv
  <2>2. CASE Close
    BY <1>2, <2>2 DEF Close, CloseInv
  <2>3. QED
    BY <2>1, <2>2
<1>8. QED
  BY <1>2, <1>4, <1>5, <1>6, <1>7 DEF DInv

\* A send that ends hands its events on; one that is retried keeps them.
LEMMA SendKeepsInv ==
  ASSUME DInv, NEW ch \in Channels, SendStep(ch)
  PROVE  DInv'
<1>1. PICK s \in sends : s.channel = ch /\ (SendSucceeds(s) \/ SendFails(s))
  BY DEF SendStep
<1>2. s \in Send /\ s.events \in SUBSET Event /\ s.channel = ch
  BY <1>1 DEF DInv, TypeOK, Send
<1>3. UNCHANGED <<pending, seen, timer, callbacks, closer, count, accepted>>
  BY <1>1 DEF SendSucceeds, SendFails, window
<1>3a. heard' \in [Channels -> Heard]
  <2>1. \E events : heard' = [heard EXCEPT ![s.channel] = Hear(@, events)]
    BY <1>1 DEF SendSucceeds, SendFails
  <2>2. QED
    BY <1>2, <2>1, HearType DEF DInv, TypeOK
<1>4. /\ sends' \in SUBSET Send
      /\ delivered' \in [Channels -> SUBSET Event]
      /\ abandoned' \in [Channels -> SUBSET Event]
      /\ sends # {}
      /\ \A c \in Channels :
           InFlight(c) \cup delivered[c] \cup abandoned[c]
             \subseteq InFlight(c)' \cup delivered'[c] \cup abandoned'[c]
  <2>0. sends \in SUBSET Send /\ sends # {} /\ s \in sends
        /\ delivered \in [Channels -> SUBSET Event]
        /\ abandoned \in [Channels -> SUBSET Event]
    BY <1>1 DEF DInv, TypeOK
  <2>1. CASE SendSucceeds(s)
    <3>1. /\ sends' = sends \ {s} /\ abandoned' = abandoned
          /\ delivered' = [delivered EXCEPT ![ch] = @ \cup s.events]
      BY <1>2, <2>1 DEF SendSucceeds
    <3>2. \A c \in Channels : \A x \in sends :
            x.channel = c => x \in sends' \/ x.events \subseteq delivered'[c]
      BY <1>2, <2>0, <3>1
    <3>3. \A c \in Channels : delivered[c] \subseteq delivered'[c]
      BY <2>0, <3>1
    <3>4. \A c \in Channels :
            InFlight(c) \cup delivered[c] \cup abandoned[c]
              \subseteq InFlight(c)' \cup delivered'[c] \cup abandoned'[c]
      BY <3>1, <3>2, <3>3 DEF InFlight
    <3>5. QED
      BY <1>2, <2>0, <3>1, <3>4
  <2>2. CASE SendFails(s) /\ LastAttempt(s)
    <3>1. /\ sends' = sends \ {s} /\ delivered' = delivered
          /\ abandoned' = [abandoned EXCEPT ![ch] = @ \cup s.events]
      BY <1>2, <2>2 DEF SendFails, GiveUp
    <3>2. \A c \in Channels : \A x \in sends :
            x.channel = c => x \in sends' \/ x.events \subseteq abandoned'[c]
      BY <1>2, <2>0, <3>1
    <3>3. \A c \in Channels : abandoned[c] \subseteq abandoned'[c]
      BY <2>0, <3>1
    <3>4. \A c \in Channels :
            InFlight(c) \cup delivered[c] \cup abandoned[c]
              \subseteq InFlight(c)' \cup delivered'[c] \cup abandoned'[c]
      BY <3>1, <3>2, <3>3 DEF InFlight
    <3>5. QED
      BY <1>2, <2>0, <3>1, <3>4
  <2>3. CASE SendFails(s) /\ ~LastAttempt(s)
    <3> DEFINE again == [s EXCEPT !.attempt = @ + 1]
    <3>1. /\ sends' = (sends \ {s}) \cup {again}
          /\ UNCHANGED <<delivered, abandoned>>
      BY <2>3 DEF SendFails
    <3>2. again \in Send /\ again.channel = s.channel /\ again.events = s.events
      BY <1>2, <2>3, DispatcherAssumption DEF Send, LastAttempt
    <3>3. \A x \in sends : \E y \in sends' : y.channel = x.channel /\ y.events = x.events
      BY <3>1, <3>2
    <3>4. \A c \in Channels : InFlight(c) \subseteq InFlight(c)'
      BY <3>3 DEF InFlight
    <3>5. QED
      BY <2>0, <3>1, <3>2, <3>4
  <2>4. QED
    BY <1>1, <2>1, <2>2, <2>3
<1>5. TypeOK'
  BY <1>3, <1>3a, <1>4 DEF DInv, TypeOK
<1>6. NoEventLost'
  BY <1>3, <1>4 DEF DInv, NoEventLost
<1>7. CloseInv' /\ TimerInv' /\ WindowBounded' /\ OnePerKey' /\ IsFiniteSet(pending)'
  BY <1>3, <1>4 DEF DInv, CloseInv, TimerInv, WindowBounded, OnePerKey
<1>8. QED
  BY <1>5, <1>6, <1>7 DEF DInv

LEMMA DInvStep == DInv /\ [Next]_vars => DInv'
<1> SUFFICES ASSUME DInv, [Next]_vars
             PROVE  DInv'
  OBVIOUS
<1>1. ASSUME NEW kind \in Kinds, NEW fp \in Fingerprints, NEW severity \in Severities,
             Enqueue(kind, fp, severity)
      PROVE  DInv'
  BY <1>1, EnqueueStep
<1>2. CASE TimerFires
  <2>1. TypeOK' /\ TimerInv'
    BY <1>2 DEF TimerFires, DInv, TypeOK, TimerInv, history
  <2>2. QED
    BY <1>2, <2>1 DEF TimerFires, DInv, NoEventLost, InFlight, WindowBounded,
                      OnePerKey, CloseInv, history
<1>3. CASE Flush \/ Close
  BY <1>3, FlushStep
<1>4. CASE CloseReturns
  BY <1>4 DEF CloseReturns, DInv, TypeOK, NoEventLost, InFlight, TimerInv,
              WindowBounded, OnePerKey, CloseInv, window, history
<1>5. ASSUME NEW ch \in Channels, SendStep(ch)
      PROVE  DInv'
  BY <1>5, SendKeepsInv
<1>6. CASE UNCHANGED vars
  BY <1>6 DEF vars, window, history, DInv, TypeOK, NoEventLost, InFlight, TimerInv,
              WindowBounded, OnePerKey, CloseInv
<1>7. QED
  BY <1>1, <1>2, <1>3, <1>4, <1>5, <1>6 DEF Next

LEMMA DInvHolds == Spec => []DInv
  BY DInvInit, DInvStep, PTL DEF Spec

\* Every variable always has its type; no send outlives its retries.
THEOREM DispatcherTypes == Spec => []TypeOK
<1>1. DInv => TypeOK
  BY DEF DInv
<1>2. QED
  BY <1>1, DInvHolds, PTL

\* Each accepted event waits, is on its way, is taken or was given up on, on every
\* channel, and Close leaves none waiting or on its way.
THEOREM NothingIsLost == Spec => []NothingLost
<1>1. DInv => NothingLost
  BY DEF DInv, CloseInv, NothingLost, CloseDrains
<1>2. QED
  BY <1>1, DInvHolds, PTL

\* A window with events always has a flush coming, stays below MaxBatch and holds
\* one event per key, none of a past window.
THEOREM WindowsAreSound == Spec => []WindowSound
<1>1. DInv => WindowSound
  BY DEF DInv, TypeOK, TimerInv, WindowWillClose, WindowSound
<1>2. QED
  BY <1>1, DInvHolds, PTL

-----------------------------------------------------------------------------
(* The dispatcher is an outbox. *)

\* Nothing was done about these events on any channel yet.
Untold(events) ==
  \A ch \in Channels : events \cap (InFlight(ch) \cup Out!Settled(ch)) = {}

\* What is under way to a channel are digests of events not settled there, no
\* event in two of them.
SendsOwed ==
  /\ \A s \in sends :
       /\ Out!IsDigest(s.events) /\ s.events \subseteq accepted
       /\ s.events \cap Out!Settled(s.channel) = {}
  /\ \A s, r \in sends : s.channel = r.channel /\ s # r => s.events \cap r.events = {}

\* Every accepted event is one that may be, with a number counted so far.
Numbered ==
  \A e \in accepted : e \in Acceptable /\ e.n \in 1..count

OwedInv ==
  /\ Numbered
  /\ pending \subseteq accepted
  /\ \A ch \in Channels : Out!Settled(ch) \subseteq accepted
  /\ Untold(pending)
  /\ SendsOwed

LEMMA OwedInit == Init => OwedInv
  BY DEF Init, OwedInv, Numbered, Untold, SendsOwed, InFlight, Out!Settled

\* An event is in one send of a channel at most.
LEMMA OneCarrier ==
  ASSUME SendsOwed, NEW s \in sends, NEW e \in s.events
  PROVE  Carriers(s.channel, e) = {s} /\ TriesOf(s.channel, e) = s.attempt
<1>1. Carriers(s.channel, e) = {s}
  BY DEF SendsOwed, Carriers
<1>2. QED
  BY <1>1 DEF TriesOf

\* The attempts counted for a channel change by what its sends change.
LEMMA TriesChange ==
  ASSUME NEW ch \in Channels, NEW events, NEW k,
         \A c \in Channels, e \in Acceptable :
           TriesOf(c, e)' = IF c = ch /\ e \in events THEN k ELSE TriesOf(c, e)
  PROVE  Out!Counts(ch, events, k)
<1> DEFINE T == Tries
           U == Tries'
<1>1. /\ T = [c \in Channels |-> [e \in Acceptable |-> TriesOf(c, e)]]
      /\ U = [c \in Channels |-> [e \in Acceptable |-> TriesOf(c, e)']]
  BY DEF Tries
<1> HIDE DEF T, U
<1>2. \A c \in Channels, e \in Acceptable : T[c][e] = TriesOf(c, e) /\ U[c][e] = TriesOf(c, e)'
  BY <1>1
<1> DEFINE V == [T EXCEPT ![ch] = [e \in Acceptable |-> IF e \in events THEN k ELSE T[ch][e]]]
<1>3. \A c \in Channels : U[c] = V[c]
  <2> SUFFICES ASSUME NEW c \in Channels
               PROVE  U[c] = V[c]
    OBVIOUS
  <2>1. /\ U[c] = [e \in Acceptable |-> TriesOf(c, e)']
        /\ T[c] = [e \in Acceptable |-> TriesOf(c, e)]
    BY <1>1
  <2>2. V[c] = IF c = ch THEN [e \in Acceptable |-> IF e \in events THEN k ELSE T[ch][e]]
                         ELSE T[c]
    BY <1>1
  <2>3. QED
    BY <1>2, <2>1, <2>2
<1>4. U = V
  BY <1>1, <1>3
<1>5. QED
  BY <1>4 DEF T, U, Out!Counts

\* Nothing was tried of what is sent for the first time.
LEMMA FlushTriesNothing ==
  ASSUME SendsOwed, SendsOwed', NEW events, sends' = sends \cup Digests(events)
  PROVE  Tries' = Tries
<1> SUFFICES ASSUME NEW ch \in Channels, NEW e \in Acceptable
             PROVE  TriesOf(ch, e)' = TriesOf(ch, e)
  BY DEF Tries
<1>1. \A x \in Carriers(ch, e)' : Carriers(ch, e)' = {x}
  BY DEF SendsOwed, Carriers
<1>2. CASE Carriers(ch, e) # {}
  <2>1. PICK s \in Carriers(ch, e) : TRUE
    BY <1>2
  <2>2. s \in sends /\ s.channel = ch /\ e \in s.events /\ s \in Carriers(ch, e)'
    BY <2>1 DEF Carriers
  <2>3. TriesOf(ch, e) = s.attempt
    BY <2>2, OneCarrier
  <2>4. TriesOf(ch, e)' = s.attempt
    BY <1>1, <2>2 DEF TriesOf
  <2>5. QED
    BY <2>3, <2>4
<1>3. CASE Carriers(ch, e) = {}
  <2>1. ASSUME NEW x \in Carriers(ch, e)'
        PROVE  x.attempt = 0
    BY <1>3 DEF Carriers, Digests
  <2>2. TriesOf(ch, e)' = 0
    BY <1>1, <2>1 DEF TriesOf
  <2>3. QED
    BY <1>3, <2>2 DEF TriesOf
<1>4. QED
  BY <1>2, <1>3

\* Outbox counts as Dispatcher does.
LEMMA OutboxCounts == ASSUME NEW S PROVE Out!Cardinality(S) = Cardinality(S)
  BY DEF Cardinality, Out!Cardinality

\* A flush of a window makes digests.
LEMMA DigestsOfWindow ==
  ASSUME NEW events \in SUBSET Event, IsFiniteSet(events), Cardinality(events) <= MaxBatch,
         \A d, e \in events : KeyOf(d) = KeyOf(e) => d = e,
         NEW s \in Digests(events)
  PROVE  Out!IsDigest(s.events) /\ s.events \subseteq events /\ s.channel \in Channels
<1>1. PICK ch \in Channels, m \in {ModuleOf[e.fp] : e \in events} :
        s = [channel |-> ch, module |-> m, events |-> EventsOf(m, events), attempt |-> 0]
  BY DEF Digests
<1>2. s.events = EventsOf(m, events) /\ s.channel = ch
  BY <1>1
<1>3. s.events \in SUBSET events /\ \A d \in s.events : ModuleOf[d.fp] = m
  BY <1>2 DEF EventsOf
<1>4. s.events # {}
  BY <1>2 DEF EventsOf
<1>5. Cardinality(s.events) <= MaxBatch
  <2>1. IsFiniteSet(s.events) /\ Cardinality(s.events) <= Cardinality(events)
    BY <1>3, FS_Subset
  <2>2. Cardinality(s.events) \in Nat /\ Cardinality(events) \in Nat
    BY <2>1, FS_CardinalityType
  <2>3. QED
    BY <2>1, <2>2, DispatcherAssumption
<1>6. \A d, e \in s.events : d.kind = e.kind /\ d.fp = e.fp => d = e
  BY <1>3 DEF KeyOf
<1>7. Out!IsDigest(s.events)
  <2> DEFINE told == s.events
  <2>1. \A d, e \in told : ModuleOf[d.fp] = ModuleOf[e.fp]
    BY <1>3
  <2>2. told # {} /\ Cardinality(told) <= MaxBatch /\ \A d, e \in told : d.kind = e.kind /\ d.fp = e.fp => d = e
    BY <1>4, <1>5, <1>6
  <2> HIDE DEF told
  <2>3. Out!IsDigest(told)
    BY <2>1, <2>2, OutboxCounts DEF Out!IsDigest
  <2>4. QED
    BY <2>3 DEF told
<1>8. QED
  BY <1>2, <1>3, <1>7

\* Two of them for one channel are of two modules.
LEMMA DigestsApart ==
  ASSUME NEW events, NEW s \in Digests(events), NEW r \in Digests(events),
         s.channel = r.channel, s # r
  PROVE  s.events \cap r.events = {}
<1>1. \A x \in Digests(events) :
        /\ x = [channel |-> x.channel, module |-> x.module,
                events |-> EventsOf(x.module, events), attempt |-> 0]
        /\ x.events = EventsOf(x.module, events)
  BY DEF Digests
<1>2. s.module # r.module
  BY <1>1
<1>3. QED
  BY <1>1, <1>2 DEF EventsOf

\* Whoever flushes events nobody was told of keeps what is owed owed.
LEMMA FlushOwes ==
  ASSUME TypeOK, OwedInv, NEW events \in SUBSET Event, Untold(events),
         IsFiniteSet(events), Cardinality(events) <= MaxBatch,
         \A d, e \in events : KeyOf(d) = KeyOf(e) => d = e,
         FlushLocked(events), accepted \cup events \subseteq accepted',
         UNCHANGED <<delivered, abandoned>>
  PROVE  Untold(pending)' /\ SendsOwed'
<1>1. pending' = {} /\ sends' = sends \cup Digests(events)
  BY DEF FlushLocked
<1>2. \A ch : Out!Settled(ch)' = Out!Settled(ch)
  BY DEF Out!Settled
<1>3. \A s \in Digests(events) :
        Out!IsDigest(s.events) /\ s.events \subseteq events /\ s.channel \in Channels
  BY DigestsOfWindow
<1>4. \A s \in sends : s.channel \in Channels /\ s.events \subseteq InFlight(s.channel)
  BY DEF TypeOK, Send, InFlight
<1>5. ASSUME NEW s \in sends'
      PROVE  /\ Out!IsDigest(s.events) /\ s.events \subseteq accepted'
             /\ s.events \cap Out!Settled(s.channel) = {}
  <2>1. CASE s \in sends
    BY <2>1 DEF OwedInv, SendsOwed
  <2>2. CASE s \in Digests(events)
    BY <1>3, <2>2 DEF Untold
  <2>3. QED
    BY <1>1, <2>1, <2>2
<1>6. ASSUME NEW s \in sends', NEW r \in sends', s.channel = r.channel, s # r
      PROVE  s.events \cap r.events = {}
  <2>1. CASE s \in sends /\ r \in sends
    BY <1>6, <2>1 DEF OwedInv, SendsOwed
  <2>2. CASE s \in Digests(events) /\ r \in Digests(events)
    BY <1>6, <2>2, DigestsApart
  <2>3. CASE s \in sends /\ r \in Digests(events)
    BY <1>3, <1>4, <1>6, <2>3 DEF Untold
  <2>4. CASE s \in Digests(events) /\ r \in sends
    BY <1>3, <1>4, <1>6, <2>4 DEF Untold
  <2>5. QED
    BY <1>1, <2>1, <2>2, <2>3, <2>4
<1>7. Untold(pending)'
  BY <1>1 DEF Untold
<1>8. QED
  BY <1>2, <1>5, <1>6, <1>7 DEF SendsOwed

LEMMA EnqueueOwes ==
  ASSUME DInv, OwedInv, NEW kind \in Kinds, NEW fp \in Fingerprints, NEW severity \in Severities,
         Enqueue(kind, fp, severity)
  PROVE  OwedInv' /\ [Out!ONext]_(Out!ovars)
<1> DEFINE e      == [kind |-> kind, fp |-> fp, n |-> count + 1]
           events == pending \cup {e}
<1>1. count \in Nat /\ count < MaxEvents /\ MaxEvents \in Nat
  BY DispatcherAssumption DEF DInv, TypeOK, Enqueue
<1>2. e \in Event /\ e \in Acceptable
  BY <1>1 DEF Event, Acceptable
<1>3. e \notin accepted
  BY <1>1 DEF OwedInv, Numbered
<1>4. /\ accepted' = accepted \cup {e} /\ count' = count + 1
      /\ KeyOf(e) \notin seen /\ closer = "open"
      /\ UNCHANGED <<closer, delivered, abandoned>>
  BY DEF Enqueue, Closed
<1> HIDE DEF e
<1>5. ASSUME Tries' = Tries
      PROVE  Out!ONext
  BY <1>2, <1>3, <1>4, <1>5 DEF Out!ONext, Out!Accepts
<1>6. Numbered'
  <2>1. e.n = count + 1
    BY DEF e
  <2>2. QED
    BY <1>1, <1>2, <1>4, <2>1 DEF OwedInv, Numbered
<1>7. \A ch : Out!Settled(ch)' = Out!Settled(ch)
  BY <1>4 DEF Out!Settled
<1>8. \A s \in sends : s.channel \in Channels /\ s.events \subseteq accepted
  BY DEF DInv, TypeOK, Send, OwedInv, SendsOwed
<1>9. \A ch \in Channels : InFlight(ch) \subseteq accepted
  BY <1>8 DEF InFlight
<1>10. Untold(events)
  BY <1>3, <1>9 DEF OwedInv, Untold
<1>11. /\ events \in SUBSET Event /\ IsFiniteSet(events) /\ Cardinality(events) <= MaxBatch
       /\ \A d, x \in events : KeyOf(d) = KeyOf(x) => d = x
  <2>1. IsFiniteSet(pending) /\ Cardinality(pending) < MaxBatch
    BY DEF DInv, WindowBounded
  <2>2. /\ IsFiniteSet(events)
        /\ Cardinality(events) = IF e \in pending THEN Cardinality(pending) ELSE Cardinality(pending) + 1
    BY <2>1, FS_AddElement
  <2>3. Cardinality(pending) \in Nat
    BY <2>1, FS_CardinalityType
  <2>4. Cardinality(events) <= MaxBatch
    <3> HIDE DEF events
    <3>1. QED
      BY <2>1, <2>2, <2>3, DispatcherAssumption
  <2>5. \A d, x \in events : KeyOf(d) = KeyOf(x) => d = x
    <3>1. \A d \in pending : KeyOf(d) # KeyOf(e)
      BY <1>4 DEF DInv, OnePerKey
    <3>2. QED
      BY <3>1 DEF DInv, OnePerKey
  <2>6. QED
    BY <1>2, <2>2, <2>4, <2>5 DEF DInv, TypeOK
<1>12. \A ch \in Channels : Out!Settled(ch)' \subseteq accepted'
  BY <1>4, <1>7 DEF OwedInv
<1>13. CASE Full(events)
  <2>1. FlushLocked(events)
    BY <1>13 DEF Enqueue, e
  <2>2. accepted \cup events \subseteq accepted'
    BY <1>4 DEF OwedInv
  <2> HIDE DEF events
  <2>3. Untold(pending)' /\ SendsOwed'
    BY <1>4, <1>10, <1>11, <2>1, <2>2, FlushOwes DEF DInv
  <2>4. pending' = {} /\ sends' = sends \cup Digests(events)
    BY <2>1 DEF FlushLocked
  <2>5. Tries' = Tries
    BY <2>3, <2>4, FlushTriesNothing DEF OwedInv
  <2>6. QED
    BY <1>5, <1>6, <1>12, <2>3, <2>4, <2>5 DEF OwedInv
<1>14. CASE ~Full(events)
  <2>1. pending' = events /\ sends' = sends
    BY <1>14 DEF Enqueue, KeepPending, e
  <2>2. \A ch : InFlight(ch)' = InFlight(ch)
    BY <2>1 DEF InFlight
  <2>3. Untold(pending)'
    BY <1>7, <1>10, <2>1, <2>2 DEF Untold
  <2>4. SendsOwed'
    BY <1>4, <1>7, <2>1 DEF OwedInv, SendsOwed
  <2>5. pending' \subseteq accepted'
    BY <1>4, <2>1 DEF OwedInv
  <2>6. Tries' = Tries
    BY <2>1 DEF Tries, TriesOf, Carriers
  <2>7. QED
    BY <1>5, <1>6, <1>12, <2>3, <2>4, <2>5, <2>6 DEF OwedInv
<1>15. QED
  BY <1>13, <1>14

LEMMA FlushOwesStep ==
  ASSUME DInv, OwedInv, Flush \/ Close
  PROVE  OwedInv' /\ [Out!ONext]_(Out!ovars)
<1>1. FlushLocked(pending) /\ UNCHANGED <<count, accepted, delivered, abandoned>>
  BY DEF Flush, Close, history
<1>2. /\ pending \in SUBSET Event /\ IsFiniteSet(pending) /\ Cardinality(pending) <= MaxBatch
      /\ \A d, e \in pending : KeyOf(d) = KeyOf(e) => d = e
  <2>1. IsFiniteSet(pending) /\ Cardinality(pending) < MaxBatch
    BY DEF DInv, WindowBounded
  <2>2. Cardinality(pending) <= MaxBatch
    BY <2>1, FS_CardinalityType, DispatcherAssumption
  <2>3. QED
    BY <2>1, <2>2 DEF DInv, TypeOK, OnePerKey
<1>3. Untold(pending)' /\ SendsOwed'
  BY <1>1, <1>2, FlushOwes DEF DInv, OwedInv
<1>4. pending' = {} /\ sends' = sends \cup Digests(pending)
  BY <1>1 DEF FlushLocked
<1>5. OwedInv'
  BY <1>1, <1>3, <1>4 DEF OwedInv, Numbered, Out!Settled
<1>6. Tries' = Tries
  <2>1. PICK events : events = pending
    OBVIOUS
  <2>2. QED
    BY <1>3, <1>4, <2>1, FlushTriesNothing DEF OwedInv
<1>7. CASE Flush
  BY <1>1, <1>5, <1>6, <1>7 DEF Flush, Out!ovars
<1>8. CASE Close
  BY <1>1, <1>5, <1>6, <1>8 DEF Close, Out!ONext, Out!Closes
<1>9. QED
  BY <1>7, <1>8

\* wg.Wait comes back when the last event is settled.
LEMMA ReturnOwesStep ==
  ASSUME DInv, OwedInv, CloseReturns
  PROVE  OwedInv' /\ [Out!ONext]_(Out!ovars)
<1>1. UNCHANGED <<pending, sends, count, accepted, delivered, abandoned>>
  BY DEF CloseReturns, window, history
<1>2. OwedInv'
  BY <1>1 DEF OwedInv, Numbered, Untold, InFlight, SendsOwed, Out!Settled
<1>3. \A ch \in Channels : accepted \subseteq Out!Settled(ch)
  <2>1. pending = {} /\ \A ch \in Channels : InFlight(ch) = {}
    BY DEF CloseReturns, DInv, CloseInv, InFlight
  <2>2. QED
    BY <2>1 DEF DInv, NoEventLost, Out!Settled
<1>4. Tries' = Tries
  BY <1>1 DEF Tries, TriesOf, Carriers
<1>5. QED
  BY <1>1, <1>2, <1>3, <1>4 DEF CloseReturns, Out!ONext, Out!Returns

\* A send that ends settles its events on its channel, which owed them, and is
\* given up on only after its last attempt; one that is tried again owes them
\* still, with an attempt more to count.
LEMMA SendOwesStep ==
  ASSUME DInv, OwedInv, NEW ch \in Channels, SendStep(ch)
  PROVE  OwedInv' /\ [Out!ONext]_(Out!ovars)
<1>1. PICK s \in sends : s.channel = ch /\ (SendSucceeds(s) \/ SendFails(s))
  BY DEF SendStep
<1>2. UNCHANGED <<pending, count, accepted, closer>>
  BY <1>1 DEF SendSucceeds, SendFails, window
<1>3. /\ sends \in SUBSET Send
      /\ delivered \in [Channels -> SUBSET Event] /\ abandoned \in [Channels -> SUBSET Event]
  BY DEF DInv, TypeOK
<1>4. /\ Out!IsDigest(s.events) /\ s.events \subseteq accepted
      /\ s.events \cap Out!Settled(ch) = {}
      /\ s.events \cap pending = {}
  <2>1. s.events \subseteq InFlight(ch)
    BY <1>1 DEF InFlight
  <2>2. QED
    BY <1>1, <2>1 DEF OwedInv, SendsOwed, Untold
<1>5. ASSUME sends' = sends \ {s},
             \A c \in Channels :
               Out!Settled(c)' = IF c = ch THEN Out!Settled(c) \cup s.events ELSE Out!Settled(c)
      PROVE  OwedInv'
  <2>1. \A c \in Channels : InFlight(c)' \subseteq InFlight(c)
    BY <1>5 DEF InFlight
  <2>2. Untold(pending)'
    BY <1>2, <1>4, <1>5, <2>1 DEF OwedInv, Untold
  <2>3. ASSUME NEW r \in sends' PROVE r.events \cap Out!Settled(r.channel)' = {}
    <3>1. r \in sends /\ r # s /\ r.channel \in Channels
      BY <1>3, <1>5 DEF Send
    <3>2. r.events \cap Out!Settled(r.channel) = {}
      BY <3>1 DEF OwedInv, SendsOwed
    <3>3. r.channel = ch => r.events \cap s.events = {}
      BY <1>1, <3>1 DEF OwedInv, SendsOwed
    <3>4. QED
      BY <1>5, <3>1, <3>2, <3>3
  <2>4. SendsOwed'
    BY <1>2, <1>5, <2>3 DEF OwedInv, SendsOwed
  <2>5. \A c \in Channels : Out!Settled(c)' \subseteq accepted'
    BY <1>2, <1>4, <1>5 DEF OwedInv
  <2>6. QED
    BY <1>2, <2>2, <2>4, <2>5 DEF OwedInv, Numbered
<1>5a. /\ s.events \in SUBSET accepted /\ s.attempt \in 0..(Retries - 1)
       /\ Retries \in Nat \ {0}
  BY <1>1, <1>3, <1>4, DispatcherAssumption DEF Send
<1>5b. Out!Owed(ch, s.events, s.attempt)
  <2>1. \A e \in s.events : e \in Acceptable /\ TriesOf(ch, e) = s.attempt
    BY <1>1, <1>4, OneCarrier DEF OwedInv, Numbered
  <2>2. \A e \in s.events : Tries[ch][e] = s.attempt
    BY <2>1 DEF Tries
  <2>3. QED
    BY <1>4, <2>2 DEF Out!Owed
<1>5c. ASSUME sends' = sends \ {s}
       PROVE  Out!Counts(ch, s.events, 0)
  <2> SUFFICES ASSUME NEW c \in Channels, NEW e \in Acceptable
               PROVE  TriesOf(c, e)' = IF c = ch /\ e \in s.events THEN 0 ELSE TriesOf(c, e)
    BY TriesChange
  <2>1. CASE c = ch /\ e \in s.events
    <3>1. Carriers(ch, e) = {s}
      BY <1>1, <2>1, OneCarrier DEF OwedInv
    <3>2. Carriers(ch, e)' = {}
      BY <1>5c, <3>1 DEF Carriers
    <3>3. QED
      BY <2>1, <3>2 DEF TriesOf
  <2>2. CASE ~(c = ch /\ e \in s.events)
    <3>1. Carriers(c, e)' = Carriers(c, e)
      BY <1>1, <1>5c, <2>2 DEF Carriers
    <3>2. QED
      BY <2>2, <3>1 DEF TriesOf
  <2>3. QED
    BY <2>1, <2>2
<1>6. CASE SendSucceeds(s)
  <2>1. /\ sends' = sends \ {s} /\ abandoned' = abandoned
        /\ delivered' = [delivered EXCEPT ![ch] = @ \cup s.events]
    BY <1>1, <1>6 DEF SendSucceeds
  <2>2. \A c \in Channels :
          Out!Settled(c)' = IF c = ch THEN Out!Settled(c) \cup s.events ELSE Out!Settled(c)
    BY <1>3, <2>1 DEF Out!Settled
  <2>3. Out!Delivers(ch, s.events, s.attempt)
    BY <1>2, <1>5b, <1>5c, <2>1 DEF Out!Delivers
  <2>4. OwedInv'
    BY <1>5, <2>1, <2>2
  <2>5. Out!ONext
    BY <1>5a, <2>3 DEF Out!ONext
  <2>6. QED
    BY <2>4, <2>5
<1>7. CASE SendFails(s) /\ LastAttempt(s)
  <2>1. /\ sends' = sends \ {s} /\ delivered' = delivered
        /\ abandoned' = [abandoned EXCEPT ![ch] = @ \cup s.events]
    BY <1>1, <1>7 DEF SendFails, GiveUp
  <2>2. \A c \in Channels :
          Out!Settled(c)' = IF c = ch THEN Out!Settled(c) \cup s.events ELSE Out!Settled(c)
    BY <1>3, <2>1 DEF Out!Settled
  <2>3. s.attempt + 1 = Retries
    BY <1>5a, <1>7 DEF LastAttempt
  <2>4. Out!GivesUp(ch, s.events, s.attempt)
    BY <1>2, <1>5b, <1>5c, <2>1, <2>3 DEF Out!GivesUp
  <2>5. OwedInv'
    BY <1>5, <2>1, <2>2
  <2>6. Out!ONext
    BY <1>5a, <2>4 DEF Out!ONext
  <2>7. QED
    BY <2>5, <2>6
<1>8. CASE SendFails(s) /\ ~LastAttempt(s)
  <2> DEFINE again == [s EXCEPT !.attempt = @ + 1]
  <2>1. sends' = (sends \ {s}) \cup {again} /\ UNCHANGED <<delivered, abandoned>>
    BY <1>8 DEF SendFails
  <2>2. again.channel = ch /\ again.events = s.events /\ again.attempt = s.attempt + 1
    BY <1>1, <1>3 DEF Send
  <2> HIDE DEF again
  <2>3. \A c : Out!Settled(c)' = Out!Settled(c)
    BY <2>1 DEF Out!Settled
  <2>4. \A r \in sends' : \E x \in sends : x.channel = r.channel /\ x.events = r.events
    BY <1>1, <2>1, <2>2
  <2>5. \A c \in Channels : InFlight(c)' \subseteq InFlight(c)
    BY <2>4 DEF InFlight
  <2>6. Untold(pending)'
    BY <1>2, <2>3, <2>5 DEF OwedInv, Untold
  <2>7. \A r, x \in sends' : r.channel = x.channel /\ r # x => r.events \cap x.events = {}
    <3>1. \A r \in sends : r # s /\ r.channel = ch => r.events \cap s.events = {}
      BY <1>1 DEF OwedInv, SendsOwed
    <3>2. \A r, x \in sends : r.channel = x.channel /\ r # x => r.events \cap x.events = {}
      BY DEF OwedInv, SendsOwed
    <3>3. QED
      BY <2>1, <2>2, <3>1, <3>2
  <2>8. SendsOwed'
    <3>1. ASSUME NEW r \in sends'
          PROVE  /\ Out!IsDigest(r.events) /\ r.events \subseteq accepted'
                 /\ r.events \cap Out!Settled(r.channel)' = {}
      BY <1>2, <2>3, <2>4 DEF OwedInv, SendsOwed
    <3>2. QED
      BY <2>7, <3>1 DEF SendsOwed
  <2>9. OwedInv'
    BY <1>2, <2>3, <2>6, <2>8 DEF OwedInv, Numbered
  <2>10. s.attempt + 1 < Retries
    BY <1>5a, <1>8 DEF LastAttempt
  <2>11. Out!Counts(ch, s.events, s.attempt + 1)
    <3> SUFFICES ASSUME NEW c \in Channels, NEW e \in Acceptable
                 PROVE  TriesOf(c, e)' = IF c = ch /\ e \in s.events THEN s.attempt + 1
                                                                    ELSE TriesOf(c, e)
      BY TriesChange
    <3>1. CASE c = ch /\ e \in s.events
      <4>1. Carriers(ch, e) = {s}
        BY <1>1, <3>1, OneCarrier DEF OwedInv
      <4>2. Carriers(ch, e)' = {again}
        BY <2>1, <2>2, <3>1, <4>1 DEF Carriers
      <4>3. QED
        BY <2>2, <3>1, <4>2 DEF TriesOf
    <3>2. CASE ~(c = ch /\ e \in s.events)
      <4>1. Carriers(c, e)' = Carriers(c, e)
        BY <1>1, <2>1, <2>2, <3>2 DEF Carriers
      <4>2. QED
        BY <3>2, <4>1 DEF TriesOf
    <3>3. QED
      BY <3>1, <3>2
  <2>12. Out!Fails(ch, s.events, s.attempt)
    BY <1>2, <1>5b, <2>1, <2>10, <2>11 DEF Out!Fails
  <2>13. Out!ONext
    BY <1>5a, <2>12 DEF Out!ONext
  <2>14. QED
    BY <2>9, <2>13
<1>9. QED
  BY <1>1, <1>6, <1>7, <1>8

LEMMA OwedStep == DInv /\ OwedInv /\ [Next]_vars => OwedInv' /\ [Out!ONext]_(Out!ovars)
<1> SUFFICES ASSUME DInv, OwedInv, [Next]_vars
             PROVE  OwedInv' /\ [Out!ONext]_(Out!ovars)
  OBVIOUS
<1>1. ASSUME UNCHANGED <<pending, sends, count, accepted, delivered, abandoned, closer>>
      PROVE  OwedInv' /\ [Out!ONext]_(Out!ovars)
  <2>1. OwedInv'
    BY <1>1 DEF OwedInv, Numbered, Untold, InFlight, SendsOwed, Out!Settled
  <2>2. UNCHANGED Out!ovars
    BY <1>1 DEF Out!ovars, Tries, TriesOf, Carriers
  <2>3. QED
    BY <2>1, <2>2
<1>2. CASE TimerFires \/ UNCHANGED vars
  BY <1>1, <1>2 DEF TimerFires, history, vars, window
<1>3. CASE \E kind \in Kinds, fp \in Fingerprints, severity \in Severities : Enqueue(kind, fp, severity)
  BY <1>3, EnqueueOwes
<1>4. CASE Flush \/ Close
  BY <1>4, FlushOwesStep
<1>5. CASE CloseReturns
  BY <1>5, ReturnOwesStep
<1>6. CASE \E ch \in Channels : SendStep(ch)
  BY <1>6, SendOwesStep
<1>7. QED
  BY <1>2, <1>3, <1>4, <1>5, <1>6 DEF Next

\* Whatever windows, timers, flushes and retries do, each accepted event is
\* settled once on each channel, in a digest of its module no longer than
\* MaxBatch and given up on only after Retries attempts, and Close comes back
\* only then.
THEOREM DispatcherImplementsOutbox == Spec => ImplementsOutbox
<1>1. Init => Out!OInit
  BY DEF Init, Out!OInit, Tries, TriesOf, Carriers
<1>2. QED
  BY <1>1, OwedInit, OwedStep, DInvInit, DInvStep, PTL DEF Spec, ImplementsOutbox, Out!OSpec
=============================================================================
