--------------------------- MODULE PipelineProofs ---------------------------
(***************************************************************************)
(* Proofs about Pipeline, for any findings, scans, channels, batch size    *)
(* and number of retries.                                                  *)
(***************************************************************************)
EXTENDS Pipeline, DispatcherProofs

-----------------------------------------------------------------------------
(* The pipeline uses the dispatcher as a dispatcher may be used. *)

\* Every step maps to a step of Dispatcher or to a stutter.
LEMMA StepImplementsDispatcher ==
  ASSUME PTypeOK, [PNext]_pvars
  PROVE  [Next]_vars
<1>1. ASSUME NEW g \in Scans, NEW m \in Modules,
             NEW opened \in SUBSET Fingerprints, NEW resolved \in SUBSET Fingerprints,
             Reconcile(g, m, opened, resolved)
      PROVE  UNCHANGED vars
  BY <1>1 DEF Reconcile
<1>2. ASSUME NEW g \in Scans, Announce(g)
      PROVE  [Next]_vars
  <2>1. PICK t \in todo[g] :
          TurnedAway(t) \/ \E severity \in Severities : Enqueue(t.kind, t.fp, severity)
    BY <1>2 DEF Announce
  <2>2. t.kind \in Kinds /\ t.fp \in Fingerprints
    BY DEF PTypeOK, Transition
  <2>3. CASE TurnedAway(t)
    BY <2>3 DEF TurnedAway
  <2>4. CASE \E severity \in Severities : Enqueue(t.kind, t.fp, severity)
    BY <2>2, <2>4 DEF Next
  <2>5. QED
    BY <2>1, <2>3, <2>4
<1>3. CASE Deliver \/ MainReturns \/ MainDrained
  BY <1>3 DEF Deliver, MainReturns, MainDrained, Next
<1>4. CASE Signal \/ ListenerFails \/ Exit \/ UNCHANGED pvars
  BY <1>4 DEF Signal, ListenerFails, Exit, pvars
<1>5. QED
  BY <1>1, <1>2, <1>3, <1>4 DEF PNext

LEMMA TypesInit == PInit => PTypeOK
<1> SUFFICES ASSUME PInit
             PROVE  PTypeOK
  OBVIOUS
<1>1. TypeOK
  BY DInvInit DEF PInit, DInv
<1>2. QED
  BY <1>1 DEF PInit, PTypeOK, Heard

LEMMA TypesStep ==
  ASSUME PTypeOK, TypeOK', [PNext]_pvars
  PROVE  PTypeOK'
<1>1. ASSUME NEW g \in Scans, NEW m \in Modules,
             NEW opened \in SUBSET Fingerprints, NEW resolved \in SUBSET Fingerprints,
             Reconcile(g, m, opened, resolved)
      PROVE  PTypeOK'
  <2> DEFINE changes == {[kind |-> "opened", fp |-> fp] : fp \in opened}
                        \cup {[kind |-> "resolved", fp |-> fp] : fp \in resolved}
  <2>1. changes \in SUBSET Transition
    BY DEF Transition, Kinds
  <2>2. todo' \in [Scans -> SUBSET Transition]
    BY <1>1, <2>1 DEF Reconcile, PTypeOK
  <2>3. record' \in Heard
    BY <1>1 DEF Reconcile, PTypeOK, Heard, Kinds
  <2>4. hasty' \in SUBSET Fingerprints
    BY <1>1 DEF Reconcile
  <2>5. QED
    BY <1>1, <2>2, <2>3, <2>4 DEF Reconcile, PTypeOK
<1>2. ASSUME NEW g \in Scans, Announce(g)
      PROVE  PTypeOK'
  <2>1. PICK t \in todo[g] :
          /\ todo' = [todo EXCEPT ![g] = @ \ {t}]
          /\ TurnedAway(t) \/ late' = late
          /\ UNCHANGED <<record, signalled, exited, hasty>>
    BY <1>2 DEF Announce
  <2>2. late' \in SUBSET Fingerprints
    BY <2>1 DEF TurnedAway, PTypeOK, Transition
  <2>3. todo' \in [Scans -> SUBSET Transition]
    BY <2>1 DEF PTypeOK
  <2>4. QED
    BY <2>1, <2>2, <2>3 DEF PTypeOK
<1>3. CASE Deliver \/ MainReturns \/ MainDrained \/ Signal \/ ListenerFails \/ Exit
           \/ UNCHANGED pvars
  BY <1>3 DEF Deliver, MainReturns, MainDrained, Signal, ListenerFails, Exit, pvars, PTypeOK
<1>4. QED
  BY <1>1, <1>2, <1>3 DEF PNext

LEMMA PDInvHolds == PSpec => [](PTypeOK /\ DInv)
<1>1. PInit => PTypeOK /\ DInv
  BY TypesInit, DInvInit DEF PInit
<1>2. PTypeOK /\ DInv /\ [PNext]_pvars => (PTypeOK /\ DInv)'
  <2> SUFFICES ASSUME PTypeOK, DInv, [PNext]_pvars
               PROVE  PTypeOK' /\ DInv'
    OBVIOUS
  <2>1. DInv'
    BY StepImplementsDispatcher, DInvStep
  <2>2. TypeOK'
    BY <2>1 DEF DInv
  <2>3. QED
    BY <2>1, <2>2, TypesStep
<1>3. QED
  BY <1>1, <1>2, PTL DEF PSpec

\* The process from a scan to its end is, seen from its dispatcher, a
\* behaviour of Dispatcher: what is proved of that holds in it.
THEOREM PipelineImplementsDispatcher == PSpec => Spec
<1>1. PInit => Init
  BY DEF PInit
<1>2. PTypeOK /\ DInv /\ [PNext]_pvars => [Next]_vars
  BY StepImplementsDispatcher
<1>3. QED
  BY <1>1, <1>2, PDInvHolds, PTL DEF PSpec, Spec

\* Every variable always has its type.
THEOREM PipelineTypes == PSpec => []PTypeOK
  BY PDInvHolds, PTL

\* In whichever order scans, timers, sends and the end of the program come, an
\* accepted event waits, is on its way, is taken or was given up on.
THEOREM PipelineLosesNothing == PSpec => []NothingLost
  BY PipelineImplementsDispatcher, NothingIsLost, PTL

\* Scans, the dispatcher and main together are an outbox to which scans hand
\* their events and which main closes.
THEOREM PipelineImplementsOutbox == PSpec => ImplementsOutbox
  BY PipelineImplementsDispatcher, DispatcherImplementsOutbox

-----------------------------------------------------------------------------
(* The receivers of channels that answer *)

\* What Enqueue accepted and no receiver has settled yet.
OnItsWay == pending \cup UNION {s.events : s \in sends}

\* No event is newer than the counter says.
Counted == \A e \in accepted : e.n <= count

\* Unless a scan was hasty, whatever is on its way is the last news: of the
\* table, and of what Enqueue accepted.
NewsIsLatest ==
  /\ \A g \in Scans : \A t \in todo[g] : t.fp \notin hasty => t.kind = record[t.fp]
  /\ \A e \in OnItsWay : e.fp \notin hasty =>
       e.kind = record[e.fp] /\ e \in LastAccepted(e.fp)

\* Unless a scan was hasty, what it has still to hand over is the only news of
\* that finding.
NewsIsSingle ==
  \A g, h \in Scans : \A t \in todo[g] : t.fp \notin hasty =>
    /\ \A u \in todo[h] : u.fp = t.fp => h = g /\ u = t
    /\ t.fp \notin FindingsOf(OnItsWay)

\* The news of a finding are on their way to a channel.
Expected(ch, fp) ==
  \/ \E g \in Scans : fp \in FindingsOf(todo[g])
  \/ fp \in FindingsOf(pending \cup InFlight(ch))

\* A channel that answers will hear of a finding, or was given up on with just
\* that event, or knows.
NewsSettled ==
  \A ch \in Confirming : \A fp \in Fingerprints \ (hasty \cup late) :
    \/ Expected(ch, fp)
    \/ LastAccepted(fp) \cap abandoned[ch] # {}
    \/ heard[ch][fp] = record[fp]

NewsInv == Counted /\ NewsIsLatest /\ NewsIsSingle /\ NewsSettled

LEMMA NewsInit == PInit => NewsInv
<1> SUFFICES ASSUME PInit
             PROVE  NewsInv
  OBVIOUS
<1>1. OnItsWay = {} /\ accepted = {} /\ \A g \in Scans : todo[g] = {}
  BY DEF PInit, Init, OnItsWay
<1>2. NewsSettled
  BY DispatcherAssumption DEF PInit, Init, NewsSettled
<1>3. QED
  BY <1>1, <1>2 DEF NewsInv, Counted, NewsIsLatest, NewsIsSingle

\* What UnderWay says, in terms of what is on its way.
LEMMA UnderWayIs ==
  ASSUME NEW fp \in Fingerprints
  PROVE  UnderWay(fp) <=> \/ \E g \in Scans : fp \in FindingsOf(todo[g])
                          \/ fp \in FindingsOf(OnItsWay)
  BY DEF UnderWay, FindingsOf, OnItsWay

LEMMA ExpectedIsUnderWay ==
  ASSUME NEW ch \in Channels, NEW fp \in Fingerprints, Expected(ch, fp)
  PROVE  UnderWay(fp)
  BY DEF Expected, UnderWay, FindingsOf, InFlight

\* Steps that only move what is on its way, without losing it for a channel,
\* keep the invariant.
LEMMA MovingKeepsNews ==
  ASSUME NewsInv, OnItsWay' \subseteq OnItsWay,
         \A ch \in Channels : pending \cup InFlight(ch) \subseteq pending' \cup InFlight(ch)',
         UNCHANGED <<record, todo, hasty, late, heard, count, accepted, abandoned>>
  PROVE  NewsInv'
<1>1. Counted'
  BY DEF NewsInv, Counted
<1>2. NewsIsLatest' /\ NewsIsSingle'
  BY DEF NewsInv, NewsIsLatest, NewsIsSingle, LastAccepted, FindingsOf
<1>3. \A ch \in Channels, fp \in Fingerprints : Expected(ch, fp) => Expected(ch, fp)'
  BY DEF Expected, FindingsOf
<1>4. NewsSettled'
  BY <1>3, DispatcherAssumption DEF NewsInv, NewsSettled, LastAccepted
<1>5. QED
  BY <1>1, <1>2, <1>4 DEF NewsInv

\* A flush only moves.
LEMMA FlushMovesNews ==
  ASSUME TypeOK, FlushLocked(pending)
  PROVE  /\ OnItsWay' \subseteq OnItsWay
         /\ \A ch \in Channels :
              pending \cup InFlight(ch) \subseteq pending' \cup InFlight(ch)'
<1>1. \A s \in Digests(pending) : s.events \subseteq pending
  BY DEF Digests, EventsOf
<1>2. OnItsWay' \subseteq OnItsWay
  BY <1>1 DEF FlushLocked, OnItsWay
<1>3. QED
  BY <1>2, FlushMoves DEF TypeOK

LEMMA ReconcileKeepsNews ==
  ASSUME PTypeOK, NewsInv, NEW g \in Scans, NEW m \in Modules,
         NEW opened \in SUBSET Fingerprints, NEW resolved \in SUBSET Fingerprints,
         Reconcile(g, m, opened, resolved)
  PROVE  NewsInv'
<1> DEFINE changed == opened \cup resolved
           changes == {[kind |-> "opened", fp |-> fp] : fp \in opened}
                      \cup {[kind |-> "resolved", fp |-> fp] : fp \in resolved}
<1>1. /\ todo[g] = {} /\ opened \cap resolved = {}
      /\ todo' = [todo EXCEPT ![g] = changes]
      /\ UNCHANGED <<pending, sends, heard, count, accepted, abandoned, late>>
  BY DEF Reconcile, vars, window, history
<1>2. todo'[g] = changes /\ \A h \in Scans \ {g} : todo'[h] = todo[h]
  BY <1>1 DEF PTypeOK
<1>3. \A fp \in Fingerprints :
        record'[fp] = IF fp \in opened THEN "opened"
                      ELSE IF fp \in resolved THEN "resolved" ELSE record[fp]
  BY DEF Reconcile
<1>4. \A fp \in Fingerprints \ hasty' :
        IF fp \in changed THEN ~UnderWay(fp) ELSE fp \notin hasty
  BY DEF Reconcile
<1>4a. \A fp \in Fingerprints \ hasty' : fp \in changed =>
         /\ \A h \in Scans : fp \notin FindingsOf(todo[h])
         /\ fp \notin FindingsOf(OnItsWay)
  BY <1>4, UnderWayIs
<1>5. OnItsWay' = OnItsWay /\ \A ch \in Channels : InFlight(ch)' = InFlight(ch)
  BY <1>1 DEF OnItsWay, InFlight
<1>6. Counted'
  BY <1>1 DEF NewsInv, Counted
<1>7. \A t \in changes : t.fp \in changed /\ t.kind = record'[t.fp] /\ t.fp \in Fingerprints
  BY <1>1, <1>3
<1>8. \A t, u \in changes : t.fp = u.fp => t = u
  BY <1>1
<1>9. \A h \in Scans : \A t \in todo[h] : t.fp \in Fingerprints
  BY DEF PTypeOK, Transition
<1>10. \A e \in OnItsWay : e.fp \in Fingerprints
  BY DEF PTypeOK, TypeOK, OnItsWay, Send, Event
<1>11. NewsIsLatest'
  <2>1. ASSUME NEW h \in Scans, NEW t \in todo'[h], t.fp \notin hasty'
        PROVE  t.kind = record'[t.fp]
    <3>1. CASE h = g
      BY <1>2, <1>7, <2>1, <3>1
    <3>2. CASE h # g
      <4>1. t \in todo[h] /\ t.fp \in Fingerprints
        BY <1>2, <1>9, <3>2
      <4>2. t.fp \notin changed
        BY <1>4a, <2>1, <4>1 DEF FindingsOf
      <4>3. QED
        BY <1>3, <1>4, <2>1, <4>1, <4>2 DEF NewsInv, NewsIsLatest
    <3>3. QED
      BY <3>1, <3>2
  <2>2. ASSUME NEW e \in OnItsWay, e.fp \notin hasty'
        PROVE  e.kind = record'[e.fp] /\ e \in LastAccepted(e.fp)
    <3>1. e.fp \in Fingerprints
      BY <1>10
    <3>2. e.fp \notin changed
      BY <1>4a, <2>2, <3>1 DEF FindingsOf
    <3>3. QED
      BY <1>3, <1>4, <2>2, <3>1, <3>2 DEF NewsInv, NewsIsLatest
  <2>3. QED
    BY <1>1, <1>5, <2>1, <2>2 DEF NewsIsLatest, LastAccepted
<1>12. NewsIsSingle'
  <2> SUFFICES ASSUME NEW k \in Scans, NEW h \in Scans, NEW t \in todo'[k],
                      t.fp \notin hasty'
               PROVE  /\ \A u \in todo'[h] : u.fp = t.fp => h = k /\ u = t
                      /\ t.fp \notin FindingsOf(OnItsWay)
    BY <1>5 DEF NewsIsSingle
  <2>0. t.fp \in Fingerprints
    BY <1>2, <1>7, <1>9
  <2>1. CASE t.fp \in changed
    <3>1. /\ \A x \in Scans : t.fp \notin FindingsOf(todo[x])
          /\ t.fp \notin FindingsOf(OnItsWay)
      BY <1>4a, <2>0, <2>1
    <3>2. \A x \in Scans : \A u \in todo'[x] : u.fp = t.fp => x = g /\ u \in changes
      BY <1>2, <3>1 DEF FindingsOf
    <3>3. QED
      BY <1>8, <3>1, <3>2
  <2>2. CASE t.fp \notin changed
    <3>1. \A x \in Scans : \A u \in todo'[x] : u.fp = t.fp => u \in todo[x]
      BY <1>2, <1>7, <2>2
    <3>2. t.fp \notin hasty
      BY <1>4, <2>0, <2>2
    <3>3. QED
      BY <3>1, <3>2 DEF NewsInv, NewsIsSingle
  <2>3. QED
    BY <2>1, <2>2
<1>13. NewsSettled'
  <2> SUFFICES ASSUME NEW ch \in Confirming, NEW fp \in Fingerprints \ (hasty' \cup late')
               PROVE  \/ Expected(ch, fp)'
                      \/ LastAccepted(fp)' \cap abandoned'[ch] # {}
                      \/ heard'[ch][fp] = record'[fp]
    BY DEF NewsSettled
  <2>1. CASE fp \in changed
    <3>0. \E kind \in Kinds : [kind |-> kind, fp |-> fp] \in changes
      BY <2>1 DEF Kinds
    <3>1. \E t \in todo'[g] : t.fp = fp
      BY <1>2, <3>0
    <3>2. QED
      BY <3>1 DEF Expected, FindingsOf
  <2>2. CASE fp \notin changed
    <3>1. fp \notin hasty /\ fp \notin late
      BY <1>1, <1>4, <2>2
    <3>2. Expected(ch, fp) => Expected(ch, fp)'
      <4>1. \A h \in Scans : todo[h] \subseteq todo'[h]
        BY <1>1, <1>2
      <4>2. pending' = pending /\ InFlight(ch)' = InFlight(ch)
        BY <1>1, <1>5, DispatcherAssumption
      <4>3. QED
        BY <4>1, <4>2 DEF Expected, FindingsOf
    <3>3. QED
      BY <1>1, <1>3, <2>2, <3>1, <3>2 DEF NewsInv, NewsSettled, LastAccepted
  <2>3. QED
    BY <2>1, <2>2
<1>14. QED
  BY <1>6, <1>11, <1>12, <1>13 DEF NewsInv

\* A transition Enqueue turns away is in the window already, or it is late.
LEMMA TurnedAwayKeepsNews ==
  ASSUME PTypeOK, DInv, NewsInv, NEW g \in Scans, NEW t \in todo[g],
         todo' = [todo EXCEPT ![g] = @ \ {t}], TurnedAway(t),
         UNCHANGED <<record, hasty>>
  PROVE  NewsInv'
<1>1. UNCHANGED <<pending, seen, sends, heard, count, accepted, abandoned>>
  BY DEF TurnedAway, vars, window, history
<1>2. OnItsWay' = OnItsWay /\ \A ch \in Channels : InFlight(ch)' = InFlight(ch)
  BY <1>1 DEF OnItsWay, InFlight
<1>3. \A h \in Scans : todo'[h] \subseteq todo[h] /\ todo[h] \subseteq todo'[h] \cup {t}
  BY DEF PTypeOK
<1>4. Counted' /\ NewsIsLatest' /\ NewsIsSingle'
  BY <1>1, <1>2, <1>3 DEF NewsInv, Counted, NewsIsLatest, NewsIsSingle, LastAccepted
<1>5. NewsSettled'
  <2> SUFFICES ASSUME NEW ch \in Confirming, NEW fp \in Fingerprints \ (hasty' \cup late')
               PROVE  \/ Expected(ch, fp)'
                      \/ LastAccepted(fp)' \cap abandoned'[ch] # {}
                      \/ heard'[ch][fp] = record'[fp]
    BY DEF NewsSettled
  <2>1. fp \notin hasty /\ fp \notin late
    BY DEF TurnedAway
  <2>2. pending' = pending /\ InFlight(ch)' = InFlight(ch)
    BY <1>1, <1>2, DispatcherAssumption
  <2>3. CASE t.fp = fp
    <3>1. KeyOf(t) \in seen
      BY <2>3 DEF TurnedAway
    <3>2. \E e \in pending : KeyOf(e) = KeyOf(t)
      BY <3>1 DEF DInv, OnePerKey
    <3>3. \E e \in pending : e.fp = fp
      BY <2>3, <3>2 DEF KeyOf
    <3>4. QED
      BY <2>2, <3>3 DEF Expected, FindingsOf
  <2>4. CASE t.fp # fp
    <3>1. Expected(ch, fp) => Expected(ch, fp)'
      BY <1>3, <2>2, <2>4 DEF Expected, FindingsOf
    <3>2. QED
      BY <1>1, <2>1, <3>1 DEF NewsInv, NewsSettled, LastAccepted
  <2>5. QED
    BY <2>3, <2>4
<1>6. QED
  BY <1>4, <1>5 DEF NewsInv

\* A transition Enqueue accepts is the last event of its finding, and is
\* expected on every channel.
LEMMA AcceptedKeepsNews ==
  ASSUME PTypeOK, DInv, NewsInv, NEW g \in Scans, NEW t \in todo[g],
         todo' = [todo EXCEPT ![g] = @ \ {t}],
         NEW severity \in Severities, Enqueue(t.kind, t.fp, severity),
         UNCHANGED <<record, hasty, late>>
  PROVE  NewsInv'
<1> DEFINE e      == [kind |-> t.kind, fp |-> t.fp, n |-> count + 1]
           events == pending \cup {e}
<1>1. /\ count' = count + 1
      /\ accepted' = accepted \cup {e}
      /\ UNCHANGED <<heard, abandoned>>
  BY DEF Enqueue
<1>2. t.kind \in Kinds /\ t.fp \in Fingerprints /\ count \in Nat /\ e \in Event
  BY DEF PTypeOK, TypeOK, Transition, Event
<1>3. /\ events \in SUBSET Event /\ accepted \in SUBSET Event
      /\ OnItsWay \in SUBSET Event
  BY <1>2 DEF PTypeOK, TypeOK, OnItsWay, Send
<1>4. \A d \in accepted : d.n \in Nat /\ d.n <= count
  BY <1>3 DEF NewsInv, Counted, Event
<1>5. Counted'
  BY <1>1, <1>2, <1>4 DEF Counted
<1>6. /\ OnItsWay' \subseteq OnItsWay \cup {e}
      /\ \A ch \in Channels : events \cup InFlight(ch) \subseteq pending' \cup InFlight(ch)'
  <2>1. CASE Full(events)
    <3>1. FlushLocked(events)
      BY <2>1 DEF Enqueue
    <3>2. \A s \in Digests(events) : s.events \subseteq events
      BY DEF Digests, EventsOf
    <3>3. OnItsWay' \subseteq OnItsWay \cup {e}
      BY <3>1, <3>2 DEF FlushLocked, OnItsWay
    <3>4. QED
      BY <1>3, <3>1, <3>3, FlushMoves DEF PTypeOK
  <2>2. CASE ~Full(events)
    <3>1. pending' = events /\ sends' = sends
      BY <2>2 DEF Enqueue, KeepPending
    <3>2. QED
      BY <3>1 DEF OnItsWay, InFlight
  <2>3. QED
    BY <2>1, <2>2
<1>7. \A h \in Scans : todo'[h] \subseteq todo[h] /\ todo[h] \subseteq todo'[h] \cup {t}
  BY DEF PTypeOK
<1>8. /\ todo'[g] = todo[g] \ {t}
      /\ \A h \in Scans \ {g} : todo'[h] = todo[h]
  BY DEF PTypeOK
<1>9. e \in LastAccepted(t.fp)'
  BY <1>1, <1>2, <1>4 DEF LastAccepted
<1>10. \A fp \in Fingerprints \ {t.fp} : LastAccepted(fp)' = LastAccepted(fp)
  BY <1>1 DEF LastAccepted
<1>11. t.fp \notin hasty => t.fp \notin FindingsOf(OnItsWay) /\ t.kind = record[t.fp]
  BY DEF NewsInv, NewsIsSingle, NewsIsLatest
<1>12. NewsIsLatest'
  <2>1. ASSUME NEW d \in OnItsWay', d.fp \notin hasty
        PROVE  d.kind = record[d.fp] /\ d \in LastAccepted(d.fp)'
    <3>1. CASE d = e
      BY <1>9, <1>11, <2>1, <3>1
    <3>2. CASE d # e
      <4>1. d \in OnItsWay /\ d.fp \in Fingerprints
        BY <1>3, <1>6, <2>1, <3>2 DEF Event
      <4>2. d.fp # t.fp
        BY <1>11, <2>1, <4>1 DEF FindingsOf
      <4>3. d.kind = record[d.fp] /\ d \in LastAccepted(d.fp)
        BY <2>1, <4>1 DEF NewsInv, NewsIsLatest
      <4>4. \A x \in accepted' : x.fp = d.fp => x \in accepted
        BY <1>1, <4>2
      <4>5. QED
        BY <1>1, <4>3, <4>4 DEF LastAccepted
    <3>3. QED
      BY <3>1, <3>2
  <2>2. \A h \in Scans : \A u \in todo'[h] : u.fp \notin hasty => u.kind = record[u.fp]
    BY <1>7 DEF NewsInv, NewsIsLatest
  <2>3. \A d \in OnItsWay' : d.fp \notin hasty =>
          d.kind = record[d.fp] /\ d \in LastAccepted(d.fp)'
    BY <2>1
  <2>4. QED
    BY <2>2, <2>3 DEF NewsIsLatest, LastAccepted
<1>13. NewsIsSingle'
  <2> SUFFICES ASSUME NEW k \in Scans, NEW h \in Scans, NEW u \in todo'[k],
                      u.fp \notin hasty
               PROVE  /\ \A w \in todo'[h] : w.fp = u.fp => h = k /\ w = u
                      /\ u.fp \notin FindingsOf(OnItsWay')
    BY DEF NewsIsSingle, FindingsOf
  <2>1. u \in todo[k] /\ ~(k = g /\ u = t)
    BY <1>7, <1>8
  <2>2. u.fp # t.fp
    BY <2>1 DEF NewsInv, NewsIsSingle
  <2>3. QED
    BY <1>6, <1>7, <2>1, <2>2 DEF NewsInv, NewsIsSingle, FindingsOf
<1>14. NewsSettled'
  <2> SUFFICES ASSUME NEW ch \in Confirming, NEW fp \in Fingerprints \ (hasty \cup late)
               PROVE  \/ Expected(ch, fp)'
                      \/ LastAccepted(fp)' \cap abandoned[ch] # {}
                      \/ heard[ch][fp] = record[fp]
    BY <1>1 DEF NewsSettled
  <2>0. ch \in Channels
    BY DispatcherAssumption
  <2>1. CASE fp = t.fp
    <3>1. e \in pending' \cup InFlight(ch)'
      BY <1>6, <2>0
    <3>2. fp \in FindingsOf(pending' \cup InFlight(ch)')
      BY <2>1, <3>1 DEF FindingsOf
    <3>3. QED
      BY <3>2 DEF Expected, FindingsOf
  <2>2. CASE fp # t.fp
    <3>1. Expected(ch, fp) => Expected(ch, fp)'
      BY <1>6, <1>7, <2>0, <2>2 DEF Expected, FindingsOf
    <3>2. QED
      BY <1>10, <2>2, <3>1 DEF NewsInv, NewsSettled
  <2>3. QED
    BY <2>1, <2>2
<1>15. QED
  BY <1>5, <1>12, <1>13, <1>14 DEF NewsInv

\* Hearing of other findings changes nothing for this one.
LEMMA HearOther ==
  ASSUME NEW known, NEW events, NEW fp \in Fingerprints, fp \notin FindingsOf(events)
  PROVE  Hear(known, events)[fp] = known[fp]
  BY DEF Hear, FindingsOf

\* A digest that says one thing of a finding is heard so.
LEMMA HearNews ==
  ASSUME NEW known, NEW events \in SUBSET Event, NEW fp \in FindingsOf(events),
         NEW kind, \A e \in events : e.fp = fp => e.kind = kind
  PROVE  Hear(known, events)[fp] = kind
<1>1. PICK e \in events : e.fp = fp
  BY DEF FindingsOf
<1>2. e.kind = kind /\ kind \in Kinds /\ fp \in Fingerprints
  BY <1>1 DEF Event
<1>3. LastWord(events, fp) = kind
  BY <1>1, <1>2 DEF LastWord, Kinds
<1>4. QED
  BY <1>1, <1>2, <1>3 DEF Hear

\* What one Send leaves of the news of a finding on its channel.
LEMMA SendSettles ==
  ASSUME TypeOK, NEW s \in sends, SendSucceeds(s) \/ SendFails(s),
         NEW ch \in Confirming, s.channel = ch,
         NEW fp \in FindingsOf(s.events), NEW kind,
         \A e \in s.events : e.fp = fp => e.kind = kind
  PROVE  \/ \E x \in sends' : x.channel = ch /\ fp \in FindingsOf(x.events)
         \/ s.events \subseteq abandoned'[ch]
         \/ heard'[ch][fp] = kind
<1>0. s.events \in SUBSET Event /\ ch \in Channels
  BY DispatcherAssumption DEF TypeOK, Send
<1>1. CASE SendSucceeds(s)
  <2>1. heard' = [heard EXCEPT ![ch] = Hear(@, s.events)]
    BY <1>1 DEF SendSucceeds, ArrivesIfTaken
  <2>2. heard'[ch] = Hear(heard[ch], s.events)
    BY <1>0, <2>1 DEF TypeOK
  <2>3. QED
    BY <1>0, <2>2, HearNews
<1>2. CASE SendFails(s) /\ LastAttempt(s)
  <2>1. abandoned' = [abandoned EXCEPT ![ch] = @ \cup s.events]
    BY <1>2 DEF SendFails, GiveUp
  <2>2. QED
    BY <1>0, <2>1 DEF TypeOK
<1>3. CASE SendFails(s) /\ ~LastAttempt(s)
  <2>1. sends' = (sends \ {s}) \cup {[s EXCEPT !.attempt = @ + 1]}
    BY <1>3 DEF SendFails
  <2>2. /\ [s EXCEPT !.attempt = @ + 1].channel = ch
        /\ [s EXCEPT !.attempt = @ + 1].events = s.events
    BY DEF TypeOK, Send
  <2>3. QED
    BY <2>1, <2>2
<1>4. QED
  BY <1>1, <1>2, <1>3

LEMMA SendKeepsNews ==
  ASSUME PTypeOK, NewsInv, NEW ch \in Channels, SendStep(ch),
         UNCHANGED <<record, todo, hasty, late>>
  PROVE  NewsInv'
<1>1. PICK s \in sends : s.channel = ch /\ (SendSucceeds(s) \/ SendFails(s))
  BY DEF SendStep
<1>2. UNCHANGED <<pending, count, accepted>>
  BY <1>1 DEF SendSucceeds, SendFails, window
<1>3. s \in Send /\ s.events \in SUBSET Event
  BY <1>1 DEF PTypeOK, TypeOK, Send
<1>4. /\ \A x \in sends' : \E y \in sends : x.events = y.events
      /\ \A y \in sends \ {s} : y \in sends'
  <2>1. CASE sends' = sends \ {s}
    BY <2>1
  <2>2. CASE sends' = (sends \ {s}) \cup {[s EXCEPT !.attempt = @ + 1]}
    BY <1>3, <2>2 DEF Send
  <2>3. QED
    BY <1>1, <2>1, <2>2 DEF SendSucceeds, SendFails
<1>5. OnItsWay' \subseteq OnItsWay
  BY <1>2, <1>4 DEF OnItsWay
<1>6. Counted' /\ NewsIsLatest' /\ NewsIsSingle'
  BY <1>2, <1>5 DEF NewsInv, Counted, NewsIsLatest, NewsIsSingle, LastAccepted, FindingsOf
<1>7. /\ \A c \in Channels : abandoned[c] \subseteq abandoned'[c]
      /\ \A c \in Channels : c # ch => heard'[c] = heard[c]
  BY <1>1 DEF SendSucceeds, SendFails, GiveUp, PTypeOK, TypeOK
<1>8. NewsSettled'
  <2> SUFFICES ASSUME NEW c \in Confirming, NEW fp \in Fingerprints \ (hasty \cup late)
               PROVE  \/ Expected(c, fp)'
                      \/ LastAccepted(fp) \cap abandoned'[c] # {}
                      \/ heard'[c][fp] = record[fp]
    BY <1>2 DEF NewsSettled, LastAccepted
  <2>0. c \in Channels
    BY DispatcherAssumption
  <2>1. CASE c = ch /\ fp \in FindingsOf(s.events)
    <3>1. \A e \in s.events : e.fp = fp => e.kind = record[fp] /\ e \in LastAccepted(fp)
      BY <1>1 DEF NewsInv, NewsIsLatest, OnItsWay
    <3>2. \/ \E x \in sends' : x.channel = c /\ fp \in FindingsOf(x.events)
          \/ s.events \subseteq abandoned'[c]
          \/ heard'[c][fp] = record[fp]
      BY <1>1, <2>1, <3>1, SendSettles DEF PTypeOK
    <3>3. (\E x \in sends' : x.channel = c /\ fp \in FindingsOf(x.events)) => Expected(c, fp)'
      BY DEF Expected, FindingsOf, InFlight
    <3>4. s.events \subseteq abandoned'[c] => LastAccepted(fp) \cap abandoned'[c] # {}
      BY <2>1, <3>1 DEF FindingsOf
    <3>5. QED
      BY <3>2, <3>3, <3>4
  <2>2. CASE ~(c = ch /\ fp \in FindingsOf(s.events))
    <3>1. Expected(c, fp) => Expected(c, fp)'
      BY <1>1, <1>2, <1>4, <2>2 DEF Expected, FindingsOf, InFlight
    <3>2. heard'[c][fp] = heard[c][fp]
      <4>1. CASE c # ch
        BY <1>7, <2>0, <4>1
      <4>2. CASE c = ch
        <5>1. PICK events \in SUBSET s.events :
                heard' = [heard EXCEPT ![ch] = Hear(@, events)]
          BY <1>1 DEF SendSucceeds, SendFails, ArrivesIfTaken, ArrivesIfFailed
        <5>2. heard'[ch] = Hear(heard[ch], events)
          BY <5>1 DEF PTypeOK, TypeOK
        <5>3. fp \notin FindingsOf(events)
          BY <2>2, <4>2 DEF FindingsOf
        <5>4. QED
          BY <4>2, <5>2, <5>3, HearOther
      <4>3. QED
        BY <4>1, <4>2
    <3>3. QED
      BY <1>7, <2>0, <3>1, <3>2 DEF NewsInv, NewsSettled
  <2>3. QED
    BY <2>1, <2>2
<1>9. QED
  BY <1>6, <1>8 DEF NewsInv

LEMMA NewsStep ==
  ASSUME PTypeOK, DInv, NewsInv, [PNext]_pvars
  PROVE  NewsInv'
<1>1. ASSUME NEW g \in Scans, NEW m \in Modules,
             NEW opened \in SUBSET Fingerprints, NEW resolved \in SUBSET Fingerprints,
             Reconcile(g, m, opened, resolved)
      PROVE  NewsInv'
  BY <1>1, ReconcileKeepsNews
<1>2. ASSUME NEW g \in Scans, Announce(g)
      PROVE  NewsInv'
  <2>1. PICK t \in todo[g] :
          /\ todo' = [todo EXCEPT ![g] = @ \ {t}]
          /\ \/ TurnedAway(t)
             \/ \E severity \in Severities : Enqueue(t.kind, t.fp, severity) /\ late' = late
          /\ UNCHANGED <<record, hasty>>
    BY <1>2 DEF Announce
  <2>2. CASE TurnedAway(t)
    BY <2>1, <2>2, TurnedAwayKeepsNews
  <2>3. ASSUME NEW severity \in Severities, Enqueue(t.kind, t.fp, severity), late' = late
        PROVE  NewsInv'
    BY <2>1, <2>3, AcceptedKeepsNews
  <2>4. QED
    BY <2>1, <2>2, <2>3
<1>3. ASSUME NEW ch \in Channels, Deliver, SendStep(ch)
      PROVE  NewsInv'
  BY <1>3, SendKeepsNews DEF Deliver
<1>4. CASE Deliver /\ TimerFires
  BY <1>4, MovingKeepsNews DEF Deliver, TimerFires, history, OnItsWay, InFlight
<1>5. CASE Deliver /\ Flush
  <2>1. FlushLocked(pending) /\ UNCHANGED <<heard, history>>
    BY <1>5 DEF Flush
  <2>2. QED
    BY <1>5, <2>1, FlushMovesNews, MovingKeepsNews DEF Deliver, history, PTypeOK
<1>6. CASE MainReturns
  <2>1. FlushLocked(pending) /\ UNCHANGED <<heard, history>>
    BY <1>6 DEF MainReturns, Close
  <2>2. QED
    BY <1>6, <2>1, FlushMovesNews, MovingKeepsNews DEF MainReturns, history, PTypeOK
<1>7. CASE MainDrained
  BY <1>7, MovingKeepsNews
     DEF MainDrained, CloseReturns, window, history, OnItsWay, InFlight
<1>8. CASE Signal \/ ListenerFails \/ Exit \/ UNCHANGED pvars
  BY <1>8, MovingKeepsNews
     DEF Signal, ListenerFails, Exit, pvars, vars, window, history, OnItsWay, InFlight
<1>9. QED
  BY <1>1, <1>2, <1>3, <1>4, <1>5, <1>6, <1>7, <1>8 DEF PNext, Deliver

\* The receiver of an answering channel is left with the truth, whatever was
\* retried, arrived twice or was cut off, unless that very event was given up
\* on, scans came faster than their news, or Close came first.
THEOREM ReceiversLeftWithTheTruth == PSpec => []LastWordStands
<1>1. PInit => NewsInv
  BY NewsInit
<1>2. (PTypeOK /\ DInv) /\ NewsInv /\ [PNext]_pvars => NewsInv'
  BY NewsStep
<1>3. NewsInv => LastWordStands
  <2> SUFFICES ASSUME NewsInv, NEW ch \in Confirming,
                      NEW fp \in Fingerprints \ (hasty \cup late),
                      ~UnderWay(fp), LastAccepted(fp) \cap abandoned[ch] = {}
               PROVE  heard[ch][fp] = record[fp]
    BY DEF LastWordStands
  <2>1. ~Expected(ch, fp)
    BY ExpectedIsUnderWay, DispatcherAssumption
  <2>2. QED
    BY <2>1 DEF NewsInv, NewsSettled
<1>4. QED
  BY <1>1, <1>2, <1>3, PDInvHolds, PTL DEF PSpec
=============================================================================
