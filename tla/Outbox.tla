------------------------------- MODULE Outbox -------------------------------
(***************************************************************************)
(* What the dispatcher promises those who enqueue events, whatever its     *)
(* windows, timers, goroutines and retries do (notify/notify.go, the       *)
(* comments of lines 1-7, 56, 61, 95, 110-112 and 150): what it accepts    *)
(* reaches each channel in digests, each event once, or is given up on     *)
(* there after Retries attempts and not before; once it is closed it       *)
(* accepts nothing, and Close comes back when nothing is left to settle.   *)
(***************************************************************************)
EXTENDS Naturals, FiniteSets

CONSTANTS
  Events,     \* what may be accepted: records of a kind, an fp and more
  Channels,
  ModuleOf,   \* the module of each fp
  MaxBatch,
  Retries

VARIABLES
  accepted,   \* the events taken in
  delivered,  \* delivered[ch]: those the channel has taken
  abandoned,  \* abandoned[ch]: those given up on
  tries,      \* tries[ch][e]: failed attempts of a digest not settled yet
  closer      \* "open", "waiting" (in Close) or "returned"

ovars == <<accepted, delivered, abandoned, tries, closer>>

OInit ==
  /\ accepted = {}
  /\ delivered = [ch \in Channels |-> {}]
  /\ abandoned = [ch \in Channels |-> {}]
  /\ tries = [ch \in Channels |-> [e \in Events |-> 0]]
  /\ closer = "open"

\* Some events of one module, one of each kind per finding, in one message.
IsDigest(events) ==
  /\ events # {} /\ Cardinality(events) <= MaxBatch
  /\ \A d, e \in events :
       /\ ModuleOf[d.fp] = ModuleOf[e.fp]
       /\ d.kind = e.kind /\ d.fp = e.fp => d = e

Settled(ch) == delivered[ch] \cup abandoned[ch]

Accepts(e) ==
  /\ closer = "open"
  /\ e \notin accepted
  /\ accepted' = accepted \cup {e}
  /\ UNCHANGED <<delivered, abandoned, tries, closer>>

\* A digest this channel has not settled, after k attempts that failed.
Owed(ch, digest, k) ==
  /\ IsDigest(digest) /\ digest \subseteq accepted \ Settled(ch)
  /\ \A e \in digest : tries[ch][e] = k

\* The digest counts as tried k times.
Counts(ch, digest, k) ==
  tries' = [tries EXCEPT ![ch] = [e \in Events |-> IF e \in digest THEN k ELSE tries[ch][e]]]

Delivers(ch, digest, k) ==
  /\ Owed(ch, digest, k)
  /\ delivered' = [delivered EXCEPT ![ch] = @ \cup digest]
  /\ Counts(ch, digest, 0)
  /\ UNCHANGED <<accepted, abandoned, closer>>

\* An attempt fails that is not the last one.
Fails(ch, digest, k) ==
  /\ Owed(ch, digest, k)
  /\ k + 1 < Retries
  /\ Counts(ch, digest, k + 1)
  /\ UNCHANGED <<accepted, delivered, abandoned, closer>>

\* The last attempt fails.
GivesUp(ch, digest, k) ==
  /\ Owed(ch, digest, k)
  /\ k + 1 = Retries
  /\ abandoned' = [abandoned EXCEPT ![ch] = @ \cup digest]
  /\ Counts(ch, digest, 0)
  /\ UNCHANGED <<accepted, delivered, closer>>

Closes ==
  /\ closer = "open"
  /\ closer' = "waiting"
  /\ UNCHANGED <<accepted, delivered, abandoned, tries>>

Returns ==
  /\ closer = "waiting"
  /\ \A ch \in Channels : accepted \subseteq Settled(ch)
  /\ closer' = "returned"
  /\ UNCHANGED <<accepted, delivered, abandoned, tries>>

ONext ==
  \/ \E e \in Events : Accepts(e)
  \/ \E ch \in Channels : \E digest \in SUBSET accepted : \E k \in 0..(Retries - 1) :
       Delivers(ch, digest, k) \/ Fails(ch, digest, k) \/ GivesUp(ch, digest, k)
  \/ Closes
  \/ Returns

OSpec == OInit /\ [][ONext]_ovars
=============================================================================
