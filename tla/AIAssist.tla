------------------------------ MODULE AIAssist ------------------------------
(***************************************************************************)
(* "Explain this finding": handleExplainFinding (web/ai.go) and the client *)
(* of the sidecar it calls (internal/aiclient), while scans go on grading  *)
(* the finding and the license in force changes.                           *)
(*                                                                         *)
(* Requests share nothing but what they read, the finding and the          *)
(* activation, so one request at a time is modelled.  A text is the set of *)
(* its sentences, a sentence what the guards can tell of it.               *)
(***************************************************************************)
EXTENDS Integers, FiniteSets, FiniteSetsExt, Evidence

CONSTANTS
  Severities,   \* the engine's
  Words,        \* words for a severity a sentence may use
  Meaning,      \* the severity a word means: [Words -> Severities]
  None,         \* no severity, no finding
  Sentences,    \* sentences the model may write
  Narrations,   \* what it may answer
  Minimum,      \* minGroundedExplanation
  MaxRetries,   \* of the client
  Evidences     \* evidence scans may record

\* rates: the severity the sentence states, one that is not the engine's if it
\* states several.  claims: does it say that the
\* finding was resolved, its severity changed, ...?
Sentence == [rates : Words \cup {None}, claims : BOOLEAN, length : Nat]

Narration == [explanation : SUBSET Sentences \ {{}}, verify : SUBSET SUBSET Sentences]

ASSUME AIAssumption ==
  /\ Meaning \in [Words -> Severities]
  /\ None \notin Severities \cup Words
  /\ Sentences \subseteq Sentence
  /\ Narrations \subseteq Narration
  /\ \A narration \in Narrations : IsFiniteSet(narration.explanation)
  /\ \A nodes \in Evidences : IsEvidence(nodes)
  /\ {Minimum, MaxRetries} \subseteq Nat

Tiers == {"free", "pro", "team"}

VARIABLES
  finding,    \* the severity of the finding on record, if it is
  tier,       \* the activation in force
  endpoint,   \* the flags: AI Assist is off, open or keyed
  phase,      \* of the request
  severity,   \* rec.Severity as the handler read it
  evidence,   \* rec.Evidence as it read it, then that of the packet
  attempt,    \* the client's
  gone,       \* has the browser gone, is the context of the request canceled?
  answer,     \* what the handler answered
  rated,      \* history: severities the finding had since the request came
  licensed,   \* history: was there a license for a keyed endpoint since?
  asked,      \* history: requests that reached the sidecar
  verdict,    \* history: did it reply what repeating cannot mend?
  said,       \* history: its narration
  recorded,   \* history: the evidence the handler read
  received    \* history: the evidence the sidecar was sent

environment == <<finding, tier, endpoint>>
handler == <<phase, severity, evidence, attempt, answer>>
history == <<rated, licensed, recorded>>
sidecar == <<asked, verdict, said, received>>
vars == <<environment, gone, handler, history, sidecar>>

-----------------------------------------------------------------------------
(* The output guards (aiclient/guard.go) *)

Conflicts(s, engine) == s.rates # None /\ Meaning[s.rates] # engine

\* The text as it was, if nothing is left of it.
DropConflictingSeverity(text, engine) ==
  LET kept == {s \in text : ~Conflicts(s, engine)} IN IF kept = {} THEN text ELSE kept

DropStatusClaims(text) == {s \in text : ~s.claims}

\* (Mutant of Guarded: the guards in the other order.)
GuardedClaimsFirst(narration, engine) ==
  [explanation |-> DropConflictingSeverity(DropStatusClaims(narration.explanation), engine),
   verify |-> {DropStatusClaims(v) : v \in narration.verify} \ {{}}]

Guarded(narration, engine) ==
  [explanation |-> DropStatusClaims(DropConflictingSeverity(narration.explanation, engine)),
   verify |-> {DropStatusClaims(v) : v \in narration.verify} \ {{}}]

Length(text) == MapThenSumSet(LAMBDA s : s.length, text)

IsGrounded(text) == Length(text) >= Minimum

-----------------------------------------------------------------------------
(* The handler *)

NoNarration == [explanation |-> {}, verify |-> {}]

\* "error" stands for a status other than 200.
NoAnswer    == [kind |-> "none", shown |-> NoNarration]
Error       == [kind |-> "error", shown |-> NoNarration]
Unavailable == [kind |-> "unavailable", shown |-> NoNarration]
Available(narration) == [kind |-> "available", shown |-> narration]

Init ==
  /\ finding \in Severities \cup {None}
  /\ tier \in Tiers
  /\ endpoint \in {"off", "open", "keyed"}
  /\ phase = "idle" /\ severity = None /\ evidence = {} /\ attempt = 0
  /\ answer = NoAnswer
  /\ gone = FALSE
  /\ rated = {} /\ licensed = FALSE /\ recorded = {}
  /\ asked = 0 /\ verdict = FALSE /\ said = NoNarration /\ received = {}

PaysForKey(t) == t \in {"pro", "team"}

\* The browser asks about the finding.
Request ==
  /\ phase \in {"idle", "answered"}
  /\ phase' = "asked" /\ severity' = None /\ evidence' = {} /\ attempt' = 0
  /\ answer' = NoAnswer
  /\ gone' = FALSE
  /\ rated' = {finding} /\ licensed' = PaysForKey(tier) /\ recorded' = {}
  /\ asked' = 0 /\ verdict' = FALSE /\ said' = NoNarration /\ received' = {}
  /\ UNCHANGED environment

Answer(a) == phase' = "answered" /\ answer' = a

\* Store.Get.  The evidence is what the last scan left.
GetFinding ==
  /\ phase = "asked" /\ finding # None
  /\ phase' = "found" /\ severity' = finding
  /\ evidence' \in Evidences /\ recorded' = evidence'
  /\ UNCHANGED <<environment, gone, attempt, answer, rated, licensed, sidecar>>

\* The finding is not on record, the request is malformed or the store fails.
GetFails ==
  /\ phase = "asked"
  /\ Answer(Error)
  /\ UNCHANGED <<environment, gone, severity, evidence, attempt, history, sidecar>>

AIAllowed == endpoint # "off" /\ (endpoint = "keyed" => PaysForKey(tier))

\* The packet is made (NewFindingPacket; a finding on record has a check, a
\* title and a severity) and the client called.
CallClient ==
  /\ phase = "found" /\ AIAllowed
  /\ phase' = "ready" /\ evidence' = SanitizeEvidence(evidence)
  /\ UNCHANGED <<environment, gone, severity, attempt, answer, history, sidecar>>

NotAllowed ==
  /\ phase = "found" /\ ~AIAllowed
  /\ Answer(Unavailable)
  /\ UNCHANGED <<environment, gone, severity, evidence, attempt, history, sidecar>>

-----------------------------------------------------------------------------
(* Client.Explain *)

\* (Mutant of AfterFailure: off by one.)
AfterFailureOnceMore(retryable) ==
  \/ /\ retryable /\ attempt <= MaxRetries
     /\ phase' = "backoff" /\ attempt' = attempt + 1 /\ UNCHANGED answer
  \/ /\ ~retryable \/ attempt > MaxRetries
     /\ Answer(Unavailable) /\ UNCHANGED attempt

\* What the loop makes of an attempt that failed.
AfterFailure(retryable) ==
  \/ /\ retryable /\ attempt < MaxRetries
     /\ phase' = "backoff" /\ attempt' = attempt + 1 /\ UNCHANGED answer
  \/ /\ ~retryable \/ attempt = MaxRetries
     /\ Answer(Unavailable) /\ UNCHANGED attempt

\* An attempt's context is made from the request's ...
DoRequest ==
  /\ phase = "ready" /\ ~gone
  /\ phase' = "waiting"
  /\ asked' = asked + 1 /\ received' = evidence
  /\ UNCHANGED <<environment, gone, severity, evidence, attempt, answer, history, verdict, said>>

\* ... and http.Client sends nothing under one that is canceled.
DoRequestCanceled ==
  /\ phase = "ready" /\ gone
  /\ AfterFailure(TRUE)
  /\ UNCHANGED <<environment, gone, severity, evidence, history, sidecar>>

\* (Mutant of AttemptFails: an attempt has no time-out.)
AttemptFailsIfGone ==
  /\ phase = "waiting" /\ gone
  /\ AfterFailure(TRUE)
  /\ UNCHANGED <<environment, gone, severity, evidence, history, sidecar>>

\* The attempt's time-out, a canceled request, a broken connection, a status
\* of 500 or above, a body that reports an error.
AttemptFails ==
  /\ phase = "waiting"
  /\ AfterFailure(TRUE)
  /\ UNCHANGED <<environment, gone, severity, evidence, history, sidecar>>

\* (Mutant of Refused: retried like a failure of the server.)
RefusedRetryable ==
  /\ phase = "waiting"
  /\ verdict' = TRUE
  /\ AfterFailure(TRUE)
  /\ UNCHANGED <<environment, gone, severity, evidence, history, asked, said, received>>

\* A status of 4xx, no JSON, no choices, an empty explanation.
Refused ==
  /\ phase = "waiting"
  /\ verdict' = TRUE
  /\ AfterFailure(FALSE)
  /\ UNCHANGED <<environment, gone, severity, evidence, history, asked, said, received>>

\* A narration: the handler answers what the guards leave of it, or that it
\* was withheld (ErrRejected).
Narrates(narration) ==
  /\ phase = "waiting"
  /\ verdict' = TRUE /\ said' = narration
  /\ LET guarded == Guarded(narration, severity) IN
       Answer(IF IsGrounded(guarded.explanation) THEN Available(guarded) ELSE Unavailable)
  /\ UNCHANGED <<environment, gone, severity, evidence, attempt, history, asked, received>>

\* The back-off before the next attempt is over ...
BackoffEnds ==
  /\ phase = "backoff"
  /\ phase' = "ready"
  /\ UNCHANGED <<environment, gone, severity, evidence, attempt, answer, history, sidecar>>

\* ... or the request is canceled; with both, select draws.
BackoffCanceled ==
  /\ phase = "backoff" /\ gone
  /\ Answer(Unavailable)
  /\ UNCHANGED <<environment, gone, severity, evidence, attempt, history, sidecar>>

-----------------------------------------------------------------------------
(* Everybody else *)

\* The browser closes the connection.
GoAway ==
  /\ phase \notin {"idle", "answered"}
  /\ gone' = TRUE
  /\ UNCHANGED <<environment, handler, history, sidecar>>

\* A scan finds the flaw, or finds it at another severity.
Upsert(s) ==
  /\ finding' = s
  /\ rated' = rated \cup {s}
  /\ UNCHANGED <<tier, endpoint, gone, handler, licensed, recorded, sidecar>>

SwitchActivation(t) ==
  /\ tier' = t
  /\ licensed' = (licensed \/ PaysForKey(t))
  /\ UNCHANGED <<finding, endpoint, gone, handler, rated, recorded, sidecar>>

Program ==
  \/ GetFinding \/ GetFails \/ CallClient \/ NotAllowed
  \/ DoRequest \/ DoRequestCanceled \/ AttemptFails
  \/ BackoffEnds \/ BackoffCanceled

Next ==
  \/ Request
  \/ Program
  \/ Refused
  \/ \E narration \in Narrations : Narrates(narration)
  \/ GoAway
  \/ \E s \in Severities : Upsert(s)
  \/ \E t \in Tiers : SwitchActivation(t)

Spec == Init /\ [][Next]_vars

\* The handler runs on and attempts time out.  The sidecar need not reply.
FairSpec == Spec /\ WF_vars(Program)

-----------------------------------------------------------------------------
(* Properties *)

Texts == [explanation : SUBSET Sentences, verify : SUBSET SUBSET Sentences]

Answers == [kind : {"none", "error", "unavailable", "available"}, shown : Texts]

\* Every variable has its type; attempts stay within the limit.
TypeOK ==
  /\ finding \in Severities \cup {None}
  /\ tier \in Tiers
  /\ endpoint \in {"off", "open", "keyed"}
  /\ phase \in {"idle", "asked", "found", "ready", "waiting", "backoff", "answered"}
  /\ severity \in Severities \cup {None}
  /\ {evidence, recorded, received} \subseteq SUBSET UNION Evidences
  /\ attempt \in 0..MaxRetries
  /\ gone \in BOOLEAN
  /\ answer \in Answers
  /\ rated \subseteq Severities \cup {None} /\ licensed \in BOOLEAN
  /\ asked \in Nat /\ verdict \in BOOLEAN
  /\ said \in Narrations \cup {NoNarration}

\* What is shown claims no change of the finding (guard.go:82-84, "a status
\* claim is never acceptable narration"), and of its severity says what the
\* engine said at some instant of the request, however often scans regraded it;
\* but narrations that say nothing else pass (guard.go:25-26).
ShownIsGrounded ==
  answer.kind = "available" =>
    /\ \A s \in UNION ({answer.shown.explanation} \cup answer.shown.verify) : ~s.claims
    /\ \E v \in rated \ {None} :
         \/ \A s \in answer.shown.explanation : ~Conflicts(s, v)
         \/ \A s \in said.explanation : Conflicts(s, v)

\* No narration is withheld for what else it contains: if its sentences that
\* state neither a severity nor a change are explanation enough, they are shown.
GroundedIsShown ==
  LET plain == {s \in said.explanation : s.rates = None /\ ~s.claims} IN
  phase = "answered" /\ said # NoNarration /\ Length(plain) >= Minimum =>
    answer.kind = "available" /\ plain \subseteq answer.shown.explanation

\* The guards let through what is grounded and only that (guard.go:62-64).
NarrationGuarded == ShownIsGrounded /\ GroundedIsShown

\* The sidecar hears of a request again only after a failure that repeating can
\* mend, MaxRetries times at most and while the browser waits (client.go:388-392),
\* and if it is keyed only when there was a license for that at some instant of
\* the request (web/ai.go:18-22).
SidecarSpared ==
  [][asked' > asked => /\ ~verdict /\ asked <= MaxRetries /\ ~gone
                       /\ endpoint = "keyed" => licensed]_vars

\* No evidence below a secret key reaches the sidecar, on any attempt
\* (evidence.go:21-25).
NothingSecretSent == SecretFree(received)

\* Nor does more of the rest than the limits allow (evidence.go:10-14); but
\* within the limits the sidecar gets all the evidence that is no secret, of
\* what the handler read in the store.
EvidenceMinimised ==
  /\ NothingSecretSent
  /\ Small(received)
  /\ received \subseteq recorded
  /\ asked > 0 => NoneWithheldInVain(recorded, received)

\* Every request is answered, whatever the sidecar does.
RequestsAnswered == phase = "asked" ~> phase = "answered"
=============================================================================
