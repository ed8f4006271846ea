--------------------------- MODULE AIAssistProofs ---------------------------
(***************************************************************************)
(* Proofs about AIAssist and Evidence, for any severities, sentences,      *)
(* narrations and evidence, any minimum and limits and any number of       *)
(* retries.                                                                *)
(***************************************************************************)
EXTENDS AIAssist, FiniteSetTheorems, SequenceTheorems, TLAPS

-----------------------------------------------------------------------------
(* Least elements: what induction is in the proofs below, as the argument   *)
(* that there is no least exception.                                        *)

LEMMA LeastNumber ==
  ASSUME NEW N \in SUBSET Nat, N # {}
  PROVE  \E n \in N : \A k \in N : n <= k
<1>1. PICK n \in N : \A k \in N : <<k, n>> \notin OpToRel(<, Nat)
  BY NatLessThanWellFounded, WFMin
<1>2. \A k \in N : ~(k < n)
  BY <1>1 DEF OpToRel
<1>3. QED
  BY <1>2

LEMMA LeastPart ==
  ASSUME NEW S, IsFiniteSet(S), NEW Parts \in SUBSET SUBSET S, Parts # {}
  PROVE  \E s \in Parts : IsFiniteSet(s) /\ \A t \in SUBSET s : t # s => t \notin Parts
<1>1. \A s \in Parts : IsFiniteSet(s)
  BY FS_Subset
<1>2. Parts \subseteq FiniteSubsetsOf(S)
  BY <1>1 DEF FiniteSubsetsOf
<1>3. IsWellFoundedOn(StrictSubsetOrdering(S), FiniteSubsetsOf(S))
  BY FS_StrictSubsetOrderingWellFounded
<1>4. PICK s \in Parts : \A t \in Parts : <<t, s>> \notin StrictSubsetOrdering(S)
  BY <1>2, <1>3, WFMin
<1>5. \A t \in SUBSET s : t # s => t \notin Parts
  BY <1>4 DEF StrictSubsetOrdering
<1>6. QED
  BY <1>1, <1>5

-----------------------------------------------------------------------------
(* Types *)

\* The guards only leave things out.
LEMMA GuardedType ==
  ASSUME NEW narration \in Texts, NEW engine
  PROVE  Guarded(narration, engine) \in Texts
  BY DEF Guarded, DropConflictingSeverity, DropStatusClaims, Texts

\* What narrations and severities are read is typed.
LEMMA NarrationType == Narrations \cup {NoNarration} \subseteq Texts
  BY AIAssumption DEF Narration, NoNarration, Texts

LEMMA AnswerType == NoAnswer \in Answers /\ Error \in Answers /\ Unavailable \in Answers
<1>1. NoNarration \in Texts
  BY NarrationType
<1>2. QED
  BY <1>1 DEF Answers, NoAnswer, Error, Unavailable

LEMMA FirstAttempt == 0 \in 0..MaxRetries
  BY AIAssumption

\* Sanitising leaves out.
LEMMA SanitizedIsPart == ASSUME NEW nodes PROVE SanitizeEvidence(nodes) \subseteq nodes
  BY DEF SanitizeEvidence

LEMMA InitTypes == Init => TypeOK
<1> SUFFICES ASSUME Init PROVE TypeOK
  OBVIOUS
<1>1. answer \in Answers /\ attempt \in 0..MaxRetries
  BY AnswerType, FirstAttempt DEF Init
<1>2. QED
  BY <1>1 DEF Init, TypeOK

LEMMA TypeStep == TypeOK /\ [Next]_vars => TypeOK'
<1> SUFFICES ASSUME TypeOK, [Next]_vars PROVE TypeOK'
  OBVIOUS
<1> USE DEF TypeOK, environment, handler, history, sidecar
<1>1. ASSUME Request PROVE TypeOK'
  <2>1. licensed' \in BOOLEAN
    BY <1>1 DEF Request, PaysForKey
  <2>2. answer' \in Answers /\ attempt' \in 0..MaxRetries
    BY <1>1, AnswerType, FirstAttempt DEF Request
  <2>3. rated' \subseteq Severities \cup {None}
    BY <1>1 DEF Request
  <2>4. QED
    BY <1>1, <2>1, <2>2, <2>3 DEF Request
<1>2. ASSUME GetFinding \/ CallClient \/ BackoffEnds PROVE TypeOK'
  <2>1. {evidence', recorded', received'} \subseteq SUBSET UNION Evidences
    BY <1>2, SanitizedIsPart DEF GetFinding, CallClient, BackoffEnds
  <2>2. QED
    BY <1>2, <2>1 DEF GetFinding, CallClient, BackoffEnds
<1>3. ASSUME GetFails \/ NotAllowed \/ BackoffCanceled PROVE TypeOK'
  BY <1>3, AnswerType DEF GetFails, NotAllowed, BackoffCanceled, Answer
<1>4. ASSUME DoRequest PROVE TypeOK'
  BY <1>4 DEF DoRequest
<1>5. ASSUME DoRequestCanceled \/ AttemptFails \/ Refused PROVE TypeOK'
  <2>1. /\ attempt' \in 0..MaxRetries
        /\ phase' \in {"backoff", "answered"}
        /\ answer' \in {answer, Unavailable}
    BY <1>5, AIAssumption
       DEF DoRequestCanceled, AttemptFails, Refused, AfterFailure, Answer
  <2>2. UNCHANGED <<environment, gone, severity, evidence, history, asked, said, received>> /\ verdict' \in BOOLEAN
    BY <1>5 DEF DoRequestCanceled, AttemptFails, Refused
  <2>3. QED
    BY <2>1, <2>2, AnswerType
<1>6. ASSUME NEW narration \in Narrations, Narrates(narration) PROVE TypeOK'
  <2>1. Guarded(narration, severity) \in Texts
    BY GuardedType, NarrationType
  <2>2. answer' \in {Available(Guarded(narration, severity)), Unavailable} /\ phase' = "answered"
    BY <1>6 DEF Narrates, Answer
  <2>3. answer' \in Answers
    BY <2>1, <2>2, AnswerType DEF Available, Answers
  <2>4. /\ UNCHANGED <<environment, gone, severity, evidence, attempt, history, asked, received>>
        /\ verdict' = TRUE /\ said' = narration
    BY <1>6 DEF Narrates
  <2>5. QED
    BY <2>2, <2>3, <2>4
<1>7. ASSUME GoAway PROVE TypeOK'
  BY <1>7 DEF GoAway
<1>8. ASSUME NEW s \in Severities, Upsert(s) PROVE TypeOK'
  BY <1>8 DEF Upsert
<1>9. ASSUME NEW t \in Tiers, SwitchActivation(t) PROVE TypeOK'
  BY <1>9 DEF SwitchActivation, PaysForKey
<1>10. CASE UNCHANGED vars
  BY <1>10 DEF vars
<1>11. QED
  BY <1>1, <1>2, <1>3, <1>4, <1>5, <1>6, <1>7, <1>8, <1>9, <1>10 DEF Next, Program

\* Every variable has its type, and a client makes MaxRetries + 1 attempts at
\* most.
THEOREM AIAssistTypes == Spec => []TypeOK
  BY InitTypes, TypeStep, PTL DEF Spec

-----------------------------------------------------------------------------
(* The length of a text: what Length's sum over a set comes to, one sentence *)
(* at a time.                                                                *)

First(text) == CHOOSE s \in text : TRUE

\* f adds up lengths, over the parts of a text.
Adds(f, text) ==
  f = [t \in SUBSET text |-> IF t = {} THEN 0 ELSE First(t).length + f[t \ {First(t)}]]

LEMMA FirstIn == ASSUME NEW text, text # {} PROVE First(text) \in text
  BY DEF First

LEMMA LengthIs ==
  ASSUME NEW text
  PROVE  Length(text) = (CHOOSE f : Adds(f, text))[text]
  BY DEF Length, MapThenSumSet, MapThenFoldSet, Adds, First

LEMMA AddsAt ==
  ASSUME NEW text, NEW f, Adds(f, text), NEW t \in SUBSET text
  PROVE  f[t] = IF t = {} THEN 0 ELSE First(t).length + f[t \ {First(t)}]
  BY DEF Adds

\* What is added up of a text does not depend on the text it is a part of.
LEMMA AddsAgree ==
  ASSUME NEW text, IsFiniteSet(text), NEW wider, text \subseteq wider,
         NEW f, Adds(f, text), NEW g, Adds(g, wider)
  PROVE  f[text] = g[text]
<1> DEFINE Bad == {t \in SUBSET text : f[t] # g[t]}
<1>1. SUFFICES ASSUME Bad # {} PROVE FALSE
  OBVIOUS
<1>2. Bad \in SUBSET SUBSET text
  OBVIOUS
<1>4. PICK t \in Bad : IsFiniteSet(t) /\ \A u \in SUBSET t : u # t => u \notin Bad
  <2> HIDE DEF Bad
  <2>1. QED
    BY ONLY IsFiniteSet(text), <1>1, <1>2, LeastPart
<1>5. t \in SUBSET text /\ t \in SUBSET wider
  OBVIOUS
<1>6. CASE t = {}
  BY <1>5, <1>6, AddsAt
<1>7. CASE t # {}
  <2>1. First(t) \in t
    BY <1>7, FirstIn
  <2>2. f[t \ {First(t)}] = g[t \ {First(t)}]
    BY <1>4, <2>1
  <2>3. QED
    BY <1>5, <1>7, <2>2, AddsAt
<1>8. QED
  BY <1>6, <1>7

\* The sum of a finite text is well defined.
LEMMA AddsExists ==
  ASSUME NEW text, IsFiniteSet(text)
  PROVE  \E f : Adds(f, text)
<1> DEFINE Bad == {t \in SUBSET text : ~ \E f : Adds(f, t)}
<1>1. SUFFICES ASSUME Bad # {} PROVE FALSE
  OBVIOUS
<1>2. Bad \in SUBSET SUBSET text
  OBVIOUS
<1>4. PICK t \in Bad : IsFiniteSet(t) /\ \A u \in SUBSET t : u # t => u \notin Bad
  <2> HIDE DEF Bad
  <2>1. QED
    BY ONLY IsFiniteSet(text), <1>1, <1>2, LeastPart
<1>5. \A u \in SUBSET t : u # t => \E f : Adds(f, u)
  BY <1>4
<1> DEFINE h == [u \in SUBSET t |-> IF u = {} THEN 0 ELSE First(u).length + Length(u \ {First(u)})]
<1>6. ASSUME NEW u \in SUBSET t, u # t PROVE h[u] = Length(u)
  <2> DEFINE f == CHOOSE f : Adds(f, u)
  <2>1. Adds(f, u) /\ Length(u) = f[u]
    BY <1>5, <1>6, LengthIs
  <2> HIDE DEF f
  <2>2. CASE u = {}
    BY <2>1, <2>2, AddsAt
  <2>3. CASE u # {}
    <3> DEFINE v == u \ {First(u)}
               g == CHOOSE g : Adds(g, v)
    <3>1. First(u) \in u
      BY <2>3, FirstIn
    <3>2. v \in SUBSET t /\ v # t /\ v \subseteq u
      BY <3>1
    <3>3. Adds(g, v) /\ Length(v) = g[v]
      BY <1>5, <3>2, LengthIs
    <3>4. IsFiniteSet(v)
      BY FS_Subset, <3>2
    <3>5. g[v] = f[v]
      <4> HIDE DEF g, v
      <4>1. QED
        BY <2>1, <3>2, <3>3, <3>4, AddsAgree
    <3>6. f[u] = First(u).length + f[v]
      BY <2>1, <2>3, AddsAt
    <3>7. h[u] = First(u).length + Length(v)
      BY <2>3
    <3>8. QED
      BY <2>1, <3>3, <3>5, <3>6, <3>7
  <2>4. QED
    BY <2>2, <2>3
<1>7. ASSUME NEW u \in SUBSET t, u # {} PROVE h[u] = First(u).length + h[u \ {First(u)}]
  <2>1. First(u) \in u
    BY <1>7, FirstIn
  <2>2. u \ {First(u)} \in SUBSET t /\ u \ {First(u)} # t
    BY <2>1
  <2>3. h[u \ {First(u)}] = Length(u \ {First(u)})
    BY <1>6, <2>2
  <2>4. QED
    BY <1>7, <2>3
<1>8. Adds(h, t)
  <2>1. h = [u \in SUBSET t |-> IF u = {} THEN 0 ELSE First(u).length + h[u \ {First(u)}]]
    BY <1>7
  <2>2. QED
    BY <2>1 DEF Adds
<1>9. QED
  BY <1>4, <1>8

LEMMA LengthOfNone == Length({}) = 0
<1>1. IsFiniteSet({})
  BY FS_EmptySet
<1>2. Adds(CHOOSE f : Adds(f, {}), {})
  BY <1>1, AddsExists
<1>3. QED
  BY <1>2, LengthIs, AddsAt

LEMMA LengthOfFirst ==
  ASSUME NEW text, IsFiniteSet(text), text # {}
  PROVE  Length(text) = First(text).length + Length(text \ {First(text)})
<1> DEFINE f    == CHOOSE f : Adds(f, text)
           rest == text \ {First(text)}
           g    == CHOOSE g : Adds(g, rest)
<1>1. IsFiniteSet(rest)
  BY FS_Subset
<1>2. Adds(f, text) /\ Adds(g, rest)
  BY <1>1, AddsExists
<1>3. Length(text) = f[text] /\ Length(rest) = g[rest]
  BY LengthIs
<1>4. rest \subseteq text
  OBVIOUS
<1>5. f[rest] = g[rest]
  <2> HIDE DEF f, g, rest
  <2>1. QED
    BY <1>1, <1>2, <1>4, AddsAgree
<1>6. f[text] = First(text).length + f[rest]
  <2> HIDE DEF f
  <2>1. QED
    BY <1>2, AddsAt
<1>7. QED
  BY <1>3, <1>5, <1>6

\* Any sentence of a finite text may be counted first.
LEMMA LengthOfAny ==
  ASSUME NEW text \in SUBSET Sentences, IsFiniteSet(text)
  PROVE  Length(text) \in Nat /\ \A s \in text : Length(text) = s.length + Length(text \ {s})
<1> DEFINE Good(t) == Length(t) \in Nat /\ \A s \in t : Length(t) = s.length + Length(t \ {s})
           Bad == {t \in SUBSET text : ~Good(t)}
<1>1. SUFFICES ASSUME Bad # {} PROVE FALSE
  OBVIOUS
<1>2. Bad \in SUBSET SUBSET text
  OBVIOUS
<1>4. PICK t \in Bad : IsFiniteSet(t) /\ \A u \in SUBSET t : u # t => u \notin Bad
  <2> HIDE DEF Bad
  <2>1. QED
    BY ONLY IsFiniteSet(text), <1>1, <1>2, LeastPart
<1>5. \A u \in SUBSET t : u # t => Good(u)
  BY <1>4
<1>6. CASE t = {}
  BY <1>4, <1>6, LengthOfNone
<1>7. CASE t # {}
  <2>1. First(t) \in t /\ \A s \in t : s.length \in Nat
    BY <1>7, FirstIn, AIAssumption DEF Sentence
  <2>2. Length(t) = First(t).length + Length(t \ {First(t)})
    BY <1>4, <1>7, LengthOfFirst
  <2>3. Length(t \ {First(t)}) \in Nat
    BY <1>5, <2>1
  <2>4. ASSUME NEW s \in t PROVE Length(t) = s.length + Length(t \ {s})
    <3>1. CASE s = First(t)
      BY <2>2, <3>1
    <3>2. CASE s # First(t)
      <4>1. Length(t \ {First(t)}) = s.length + Length((t \ {First(t)}) \ {s})
        BY <1>5, <2>1, <3>2
      <4>2. Length(t \ {s}) = First(t).length + Length((t \ {s}) \ {First(t)})
        BY <1>5, <2>1, <3>2
      <4>3. (t \ {First(t)}) \ {s} = (t \ {s}) \ {First(t)}
        OBVIOUS
      <4>4. Length((t \ {First(t)}) \ {s}) \in Nat
        BY <1>5, <2>1
      <4>5. First(t).length \in Nat /\ s.length \in Nat
        BY <2>1
      <4> DEFINE n == Length((t \ {s}) \ {First(t)})
      <4>6. n \in Nat
        BY <4>3, <4>4
      <4>7. Length(t) = First(t).length + (s.length + n)
        BY <2>2, <4>1, <4>3
      <4>8. Length(t \ {s}) = First(t).length + n
        BY <4>2
      <4> HIDE DEF n
      <4>9. QED
        BY <4>5, <4>6, <4>7, <4>8
    <3>3. QED
      BY <3>1, <3>2
  <2>5. Length(t) \in Nat
    BY <2>1, <2>2, <2>3
  <2>6. QED
    BY <1>4, <2>4, <2>5
<1>8. QED
  BY <1>6, <1>7

\* A part of a text is no longer than the text.
LEMMA LengthOfPart ==
  ASSUME NEW text \in SUBSET Sentences, IsFiniteSet(text), NEW part \in SUBSET text
  PROVE  Length(part) <= Length(text)
<1> DEFINE Bad == {t \in SUBSET text : part \subseteq t /\ ~(Length(part) <= Length(t))}
<1>1. SUFFICES ASSUME Bad # {} PROVE FALSE
  OBVIOUS
<1>2. \A t \in SUBSET text : Length(t) \in Nat /\ IsFiniteSet(t)
  BY FS_Subset, LengthOfAny
<1>3. Bad \in SUBSET SUBSET text
  OBVIOUS
<1>4. PICK t \in Bad : IsFiniteSet(t) /\ \A u \in SUBSET t : u # t => u \notin Bad
  <2> HIDE DEF Bad
  <2>1. QED
    BY ONLY IsFiniteSet(text), <1>1, <1>3, LeastPart
<1>5. PICK s \in t : s \notin part
  <2>1. Length(t) <= Length(t)
    BY <1>2, <1>4
  <2>2. t # part
    BY <1>4, <2>1
  <2>3. QED
    BY <1>4, <2>2
<1>6. Length(part) <= Length(t \ {s})
  BY <1>4, <1>5
<1>7. Length(t) = s.length + Length(t \ {s})
  BY <1>2, LengthOfAny
<1>8. s.length \in Nat
  BY AIAssumption DEF Sentence
<1>9. Length(part) \in Nat /\ Length(t \ {s}) \in Nat
  BY <1>2
<1>10. QED
  BY <1>4, <1>6, <1>7, <1>8, <1>9

-----------------------------------------------------------------------------
(* What is shown *)

\* What the guards let through claims nothing and, unless all of it conflicts,
\* nothing that conflicts with the severity they were given.
LEMMA GuardsHold ==
  ASSUME NEW narration \in Texts, NEW engine
  PROVE  LET guarded == Guarded(narration, engine) IN
         /\ \A s \in UNION ({guarded.explanation} \cup guarded.verify) : ~s.claims
         /\ \/ \A s \in guarded.explanation : ~Conflicts(s, engine)
            \/ \A s \in narration.explanation : Conflicts(s, engine)
  BY DEF Guarded, DropConflictingSeverity, DropStatusClaims

\* The severity the handler read is one the finding had during the request, and
\* what is shown was guarded with it.
ReadInv ==
  /\ phase \in {"asked", "found", "ready", "waiting", "backoff"} => answer = NoAnswer
  /\ phase = "asked" => finding \in rated
  /\ phase \in {"found", "ready", "waiting", "backoff"} => severity \in rated \ {None}
  /\ ShownIsGrounded

LEMMA ReadStep == TypeOK /\ ReadInv /\ [Next]_vars => ReadInv'
<1> SUFFICES ASSUME TypeOK, ReadInv, [Next]_vars PROVE ReadInv'
  OBVIOUS
<1> USE DEF ReadInv, environment, handler, history, sidecar
<1>1. ASSUME Request PROVE ReadInv'
  BY <1>1 DEF Request, ShownIsGrounded, NoAnswer
<1>2. ASSUME GetFinding \/ CallClient \/ BackoffEnds \/ DoRequest PROVE ReadInv'
  <2>1. /\ answer = NoAnswer /\ UNCHANGED <<finding, answer, rated>>
        /\ phase' \in {"found", "ready", "waiting"}
        /\ severity' \in rated \ {None}
    BY <1>2 DEF GetFinding, CallClient, BackoffEnds, DoRequest
  <2>2. QED
    BY <2>1 DEF ShownIsGrounded, NoAnswer
<1>3. ASSUME phase' = "answered", answer' \in {Error, Unavailable} PROVE ReadInv'
  BY <1>3 DEF ShownIsGrounded, Error, Unavailable
<1>4. ASSUME DoRequestCanceled \/ AttemptFails \/ Refused PROVE ReadInv'
  <2>1. CASE phase' = "answered"
    BY <1>3, <1>4, <2>1
       DEF DoRequestCanceled, AttemptFails, Refused, AfterFailure, Answer
  <2>2. CASE phase' # "answered"
    <3>1. /\ answer = NoAnswer /\ UNCHANGED <<finding, answer, rated, severity>>
          /\ phase' = "backoff" /\ severity \in rated \ {None}
      BY <1>4, <2>2 DEF DoRequestCanceled, AttemptFails, Refused, AfterFailure, Answer
    <3>2. QED
      BY <3>1 DEF ShownIsGrounded, NoAnswer
  <2>3. QED
    BY <2>1, <2>2
<1>5. ASSUME NEW narration \in Narrations, Narrates(narration) PROVE ReadInv'
  <2> DEFINE guarded == Guarded(narration, severity)
  <2>1. severity \in rated \ {None} /\ rated' = rated
    BY <1>5 DEF Narrates
  <2>2. phase' = "answered" /\ answer' \in {Available(guarded), Unavailable} /\ said' = narration
    BY <1>5 DEF Narrates, Answer
  <2>3. CASE answer' = Unavailable
    BY <1>3, <2>2, <2>3
  <2>4. CASE answer' = Available(guarded)
    <3>1. narration \in Texts
      BY NarrationType
    <3>2. answer'.shown = guarded
      BY <2>4 DEF Available
    <3>3. ShownIsGrounded'
      BY <2>1, <2>2, <3>1, <3>2, GuardsHold DEF ShownIsGrounded, Conflicts
    <3>4. QED
      BY <2>2, <3>3
  <2>5. QED
    BY <2>2, <2>3, <2>4
<1>6. ASSUME GetFails \/ NotAllowed \/ BackoffCanceled PROVE ReadInv'
  BY <1>3, <1>6 DEF GetFails, NotAllowed, BackoffCanceled, Answer
<1>7. ASSUME GoAway \/ (\E t \in Tiers : SwitchActivation(t)) \/ UNCHANGED vars PROVE ReadInv'
  <2>1. UNCHANGED <<finding, phase, severity, answer, rated, said>>
    BY <1>7 DEF GoAway, SwitchActivation, vars
  <2>2. QED
    BY <2>1 DEF ShownIsGrounded, Conflicts
<1>8. ASSUME NEW s \in Severities, Upsert(s) PROVE ReadInv'
  <2>1. /\ finding' = s /\ rated' = rated \cup {s}
        /\ UNCHANGED <<phase, severity, answer, said>>
    BY <1>8 DEF Upsert
  <2>2. ShownIsGrounded'
    BY <2>1 DEF ShownIsGrounded, Conflicts
  <2>3. QED
    BY <2>1, <2>2
<1>9. QED
  BY <1>1, <1>2, <1>4, <1>5, <1>6, <1>7, <1>8 DEF Next, Program

\* Sentences that state neither a severity nor a change pass the guards.
Plain(text) == {s \in text : s.rates = None /\ ~s.claims}

LEMMA PlainPasses ==
  ASSUME NEW narration, NEW engine
  PROVE  Plain(narration.explanation) \subseteq Guarded(narration, engine).explanation
  BY DEF Plain, Guarded, DropConflictingSeverity, DropStatusClaims, Conflicts

\* They are explanation enough for the guards if they are by themselves.
LEMMA PlainIsEnough ==
  ASSUME NEW narration \in Narrations, NEW engine,
         Length(Plain(narration.explanation)) >= Minimum
  PROVE  IsGrounded(Guarded(narration, engine).explanation)
<1> DEFINE plain == Plain(narration.explanation)
           kept  == Guarded(narration, engine).explanation
<1>1. /\ narration.explanation \in SUBSET Sentences
      /\ IsFiniteSet(narration.explanation)
  BY AIAssumption DEF Narration
<1>2. kept \in SUBSET narration.explanation
  BY DEF Guarded, DropConflictingSeverity, DropStatusClaims
<1>3. kept \in SUBSET Sentences /\ IsFiniteSet(kept)
  BY <1>1, <1>2, FS_Subset
<1>4. plain \in SUBSET kept
  BY PlainPasses
<1> HIDE DEF plain, kept
<1>5. Length(plain) <= Length(kept) /\ Length(plain) \in Nat /\ Length(kept) \in Nat
  <2>1. plain \in SUBSET Sentences /\ IsFiniteSet(plain)
    BY <1>3, <1>4, FS_Subset
  <2>2. QED
    BY <1>3, <1>4, <2>1, LengthOfPart, LengthOfAny
<1>6. Length(kept) >= Minimum
  BY <1>5, AIAssumption DEF plain
<1>7. QED
  BY <1>6 DEF IsGrounded, kept

\* There is a narration only once there is an answer, and then it is shown if
\* there is enough in it.
SaidInv ==
  /\ phase \in {"asked", "found", "ready", "waiting", "backoff"} => said = NoNarration
  /\ GroundedIsShown

LEMMA ShownSpelled ==
  GroundedIsShown <=>
    (phase = "answered" /\ said # NoNarration /\ Length(Plain(said.explanation)) >= Minimum =>
       answer.kind = "available" /\ Plain(said.explanation) \subseteq answer.shown.explanation)
  BY DEF GroundedIsShown, Plain

LEMMA SaidStep == SaidInv /\ [Next]_vars => SaidInv'
<1> SUFFICES ASSUME SaidInv, [Next]_vars PROVE SaidInv'
  OBVIOUS
<1> USE DEF SaidInv, environment, handler, history, sidecar
<1>1. ASSUME said' = NoNarration PROVE SaidInv'
  BY <1>1 DEF GroundedIsShown
<1>2. ASSUME Request PROVE SaidInv'
  BY <1>1, <1>2 DEF Request
<1>3. ASSUME \/ GetFinding \/ GetFails \/ CallClient \/ NotAllowed \/ DoRequest \/ DoRequestCanceled
             \/ AttemptFails \/ Refused \/ BackoffEnds \/ BackoffCanceled
      PROVE  SaidInv'
  <2>1. phase \in {"asked", "found", "ready", "waiting", "backoff"} /\ said' = said
    BY <1>3
       DEF GetFinding, GetFails, CallClient, NotAllowed, DoRequest, DoRequestCanceled,
           AttemptFails, Refused, BackoffEnds, BackoffCanceled
  <2>2. QED
    BY <1>1, <2>1
<1>4. ASSUME NEW narration \in Narrations, Narrates(narration) PROVE SaidInv'
  <2> DEFINE guarded == Guarded(narration, severity)
  <2>1. phase' = "answered" /\ said' = narration
    BY <1>4 DEF Narrates, Answer
  <2>2. answer' = IF IsGrounded(guarded.explanation) THEN Available(guarded) ELSE Unavailable
    BY <1>4 DEF Narrates, Answer
  <2>3. ASSUME Length(Plain(narration.explanation)) >= Minimum
        PROVE  answer'.kind = "available" /\ answer'.shown = guarded
    BY <2>2, <2>3, PlainIsEnough DEF Available
  <2>4. Plain(narration.explanation) \subseteq guarded.explanation
    BY PlainPasses
  <2>5. GroundedIsShown'
    BY <2>1, <2>3, <2>4, ShownSpelled DEF GroundedIsShown, Plain
  <2>6. QED
    BY <2>1, <2>5
<1>5. ASSUME \/ GoAway \/ (\E s \in Severities : Upsert(s))
             \/ (\E t \in Tiers : SwitchActivation(t)) \/ UNCHANGED vars
      PROVE  SaidInv'
  <2>1. UNCHANGED <<phase, answer, said>>
    BY <1>5 DEF GoAway, Upsert, SwitchActivation, vars
  <2>2. QED
    BY <2>1 DEF GroundedIsShown
<1>6. QED
  BY <1>2, <1>3, <1>4, <1>5 DEF Next, Program

\* Nothing is shown that claims a change of the finding or, unless the narration
\* is about nothing else, a severity the engine did not give it meanwhile; and
\* what by itself is explanation enough is never withheld for the rest.
THEOREM NarrationsAreGuarded == Spec => []NarrationGuarded
<1>1. Init => ReadInv
  BY DEF Init, ReadInv, ShownIsGrounded, NoAnswer
<1>2. Init => SaidInv
  BY DEF Init, SaidInv, GroundedIsShown
<1>3. ReadInv /\ SaidInv => NarrationGuarded
  BY DEF ReadInv, SaidInv, NarrationGuarded
<1>4. QED
  BY <1>1, <1>2, <1>3, InitTypes, TypeStep, ReadStep, SaidStep, PTL DEF Spec

-----------------------------------------------------------------------------
(* What the sidecar hears *)

\* One request to the sidecar per attempt, none after a verdict, and none
\* before the license was looked at.
AskInv ==
  /\ phase \in {"asked", "found", "ready", "waiting", "backoff"} => ~verdict
  /\ phase \in {"asked", "found"} => asked = 0 /\ attempt = 0
  /\ phase \in {"ready", "backoff"} => asked <= attempt
  /\ phase = "waiting" => asked <= attempt + 1
  /\ phase \in {"asked", "found"} /\ PaysForKey(tier) => licensed
  /\ phase \in {"ready", "waiting", "backoff"} /\ endpoint = "keyed" => licensed

LEMMA AskStep == TypeOK /\ AskInv /\ [Next]_vars => AskInv'
<1> SUFFICES ASSUME TypeOK, AskInv, [Next]_vars PROVE AskInv'
  OBVIOUS
<1> USE DEF AskInv, environment, handler, history, sidecar
<1>1. attempt \in 0..MaxRetries /\ asked \in Nat /\ MaxRetries \in Nat
  BY AIAssumption DEF TypeOK
<1>2. ASSUME Request PROVE AskInv'
  BY <1>2 DEF Request, PaysForKey
<1>3. ASSUME GetFinding PROVE AskInv'
  BY <1>3 DEF GetFinding, PaysForKey
<1>4. ASSUME CallClient PROVE AskInv'
  BY <1>1, <1>4 DEF CallClient, AIAllowed
<1>5. ASSUME DoRequest PROVE AskInv'
  BY <1>1, <1>5 DEF DoRequest
<1>6. ASSUME phase' = "answered" PROVE AskInv'
  BY <1>6
<1>7. ASSUME DoRequestCanceled \/ AttemptFails \/ Refused PROVE AskInv'
  BY <1>1, <1>6, <1>7 DEF DoRequestCanceled, AttemptFails, Refused, AfterFailure, Answer
<1>8. ASSUME \/ GetFails \/ NotAllowed \/ BackoffCanceled
             \/ \E narration \in Narrations : Narrates(narration)
      PROVE  AskInv'
  BY <1>6, <1>8 DEF GetFails, NotAllowed, BackoffCanceled, Narrates, Answer
<1>9. ASSUME BackoffEnds PROVE AskInv'
  BY <1>1, <1>9 DEF BackoffEnds
<1>10. ASSUME GoAway \/ (\E s \in Severities : Upsert(s)) \/ UNCHANGED vars PROVE AskInv'
  BY <1>10 DEF GoAway, Upsert, vars, PaysForKey
<1>11. ASSUME NEW t \in Tiers, SwitchActivation(t) PROVE AskInv'
  BY <1>11 DEF SwitchActivation, PaysForKey
<1>12. QED
  BY <1>2, <1>3, <1>4, <1>5, <1>7, <1>8, <1>9, <1>10, <1>11 DEF Next, Program

\* The sidecar is asked MaxRetries + 1 times at most, never again after a reply,
\* never for a browser that has gone, and with a key only under a license.
THEOREM SidecarIsSpared == Spec => SidecarSpared
<1>1. Init => AskInv
  BY DEF Init, AskInv
<1>2. TypeOK /\ AskInv /\ [Next]_vars =>
        [asked' > asked => /\ ~verdict /\ asked <= MaxRetries /\ ~gone
                           /\ endpoint = "keyed" => licensed]_vars
  <2> SUFFICES ASSUME TypeOK, AskInv, Next, asked' > asked
               PROVE  /\ ~verdict /\ asked <= MaxRetries /\ ~gone
                      /\ endpoint = "keyed" => licensed
    OBVIOUS
  <2>1. attempt \in 0..MaxRetries /\ asked \in Nat /\ MaxRetries \in Nat
    BY AIAssumption DEF TypeOK
  <2>2. DoRequest
    <3>1. ~Request
      BY <2>1 DEF Request
    <3>2. asked' # asked
      BY <2>1
    <3>3. QED
      BY <3>1, <3>2, Zenon
         DEF Next, Program, GetFinding, GetFails, CallClient, NotAllowed, DoRequestCanceled,
             AttemptFails, Refused, Narrates, BackoffEnds, BackoffCanceled, GoAway, Upsert,
             SwitchActivation, sidecar
  <2>3. QED
    BY <2>1, <2>2 DEF DoRequest, AskInv
<1>3. QED
  BY <1>1, <1>2, InitTypes, TypeStep, AskStep, PTL DEF Spec, SidecarSpared

-----------------------------------------------------------------------------
(* One map or list *)

\* The steps that one map or list offers.
AreSiblings(steps, limit) ==
  /\ IsFiniteSet(steps) /\ steps \subseteq Step
  /\ \A x, y \in steps : x.kind = y.kind
  /\ \A x \in steps : Limit(x) = limit

ChosenOf(steps) == {x \in steps : Chosen(steps, x)}

LEMMA PrecedeCounts ==
  ASSUME NEW steps, NEW limit, AreSiblings(steps, limit), NEW x
  PROVE  /\ IsFiniteSet(Precede(steps, x)) /\ Cardinality(Precede(steps, x)) \in Nat
         /\ IsFiniteSet(ChosenOf(steps)) /\ Cardinality(ChosenOf(steps)) \in Nat
<1>1. IsFiniteSet(Precede(steps, x)) /\ IsFiniteSet(ChosenOf(steps))
  BY FS_Subset DEF Precede, ChosenOf, AreSiblings
<1>2. QED
  BY <1>1, FS_CardinalityType

\* No more are chosen than the limit allows.
LEMMA FewChosen ==
  ASSUME NEW steps, NEW limit \in Nat, AreSiblings(steps, limit)
  PROVE  Cardinality(ChosenOf(steps)) <= limit
<1> DEFINE C       == ChosenOf(steps)
           Room(x) == limit - Cardinality(Precede(steps, x))
           Rooms   == {Room(x) : x \in C}
<1>1. CASE C = {}
  BY <1>1, FS_EmptySet
<1>2. CASE C # {}
  <2>1. \A x \in C : Cardinality(Precede(steps, x)) \in Nat /\ Cardinality(Precede(steps, x)) < limit
    BY PrecedeCounts DEF ChosenOf, Chosen, AreSiblings
  <2>2. Rooms \in SUBSET Nat /\ Rooms # {}
    BY <1>2, <2>1
  <2>3. PICK m \in C : \A x \in C : Room(m) <= Room(x)
    <3>1. \E n \in Rooms : \A k \in Rooms : n <= k
      <4> HIDE DEF Rooms
      <4>1. QED
        BY ONLY <2>2, LeastNumber
    <3>2. QED
      BY <3>1
  <2>4. \A x \in C : x \in steps /\ x \in Step /\ ~IsSecretKey(x)
    BY DEF ChosenOf, Chosen, AreSiblings
  <2>5. ASSUME NEW x \in C, x # m PROVE x \in Precede(steps, m)
    <3>1. x.n # m.n
      BY <2>4, <2>5 DEF AreSiblings, Step
    <3>2. ~(m.n < x.n)
      <4> SUFFICES ASSUME m.n < x.n PROVE FALSE
        OBVIOUS
      <4>1. Precede(steps, m) \subseteq Precede(steps, x) /\ m \in Precede(steps, x)
        BY <2>4 DEF Precede, AreSiblings, Step
      <4>2. m \notin Precede(steps, m)
        BY <2>4 DEF Precede, Step
      <4>3. Cardinality(Precede(steps, m)) # Cardinality(Precede(steps, x))
        BY <4>1, <4>2, PrecedeCounts, FS_Subset
      <4>4. Cardinality(Precede(steps, m)) <= Cardinality(Precede(steps, x))
        BY <4>1, PrecedeCounts, FS_Subset
      <4>5. QED
        BY <2>1, <2>3, <4>3, <4>4
    <3>3. QED
      BY <2>4, <3>1, <3>2 DEF Precede, Step
  <2>6. C \ {m} \in SUBSET Precede(steps, m)
    BY <2>5
  <2>7. Cardinality(C \ {m}) <= Cardinality(Precede(steps, m))
    BY <2>6, PrecedeCounts, FS_Subset
  <2>8. Cardinality(C \ {m}) = Cardinality(C) - 1 /\ Cardinality(C) \in Nat
    BY PrecedeCounts, FS_RemoveElement
  <2>9. QED
    BY <2>1, <2>7, <2>8
<1>3. QED
  BY <1>1, <1>2

\* One that is no secret is only left out of a map or list that is full.
LEMMA FullWithout ==
  ASSUME NEW steps, NEW limit \in Nat, AreSiblings(steps, limit),
         NEW x \in steps, ~IsSecretKey(x), ~Chosen(steps, x)
  PROVE  Cardinality(ChosenOf(steps)) >= limit
<1> DEFINE C == ChosenOf(steps)
           LeftOut == Precede(steps, x) \ C
           Numbers == {y.n : y \in LeftOut}
<1>1. SUFFICES ASSUME Cardinality(C) < limit PROVE FALSE
  BY PrecedeCounts
<1>2. Cardinality(Precede(steps, x)) >= limit
  BY PrecedeCounts DEF Chosen, AreSiblings
<1>3. LeftOut # {}
  <2> SUFFICES ASSUME Precede(steps, x) \subseteq C PROVE FALSE
    OBVIOUS
  <2>1. Cardinality(Precede(steps, x)) <= Cardinality(C)
    BY PrecedeCounts, FS_Subset
  <2>2. QED
    BY <1>1, <1>2, <2>1, PrecedeCounts
<1>4. \A y \in LeftOut : y \in steps /\ y \in Step /\ y.n \in Nat /\ ~IsSecretKey(y) /\ y.n < x.n
  BY DEF Precede, AreSiblings, Step
<1>5. Numbers \in SUBSET Nat /\ Numbers # {}
  BY <1>3, <1>4
<1>6. PICK m \in LeftOut : \A y \in LeftOut : m.n <= y.n
  <2>1. \E n \in Numbers : \A k \in Numbers : n <= k
    <3> HIDE DEF Numbers
    <3>1. QED
      BY ONLY <1>5, LeastNumber
  <2>2. QED
    BY <2>1
<1>7. Precede(steps, m) \subseteq C
  <2>1. \A y \in Precede(steps, m) : y \in Precede(steps, x) /\ ~(m.n <= y.n)
    BY <1>4 DEF Precede, AreSiblings, Step
  <2>2. QED
    BY <1>6, <2>1
<1>8. Cardinality(Precede(steps, m)) <= Cardinality(C)
  BY <1>7, PrecedeCounts, FS_Subset
<1>9. Chosen(steps, m)
  BY <1>1, <1>4, <1>8, PrecedeCounts DEF Chosen, AreSiblings
<1>10. QED
  BY <1>4, <1>9 DEF ChosenOf

-----------------------------------------------------------------------------
(* All of the evidence *)

\* A node has a node for each of its beginnings.
LEMMA PrefixOf ==
  ASSUME NEW p \in Seq(Step), NEW k \in 0..Len(p)
  PROVE  /\ SubSeq(p, 1, k) \in Seq(Step) /\ Len(SubSeq(p, 1, k)) = k
         /\ \A j \in 1..k : SubSeq(p, 1, k)[j] = p[j]
<1>1. \A i \in 1..k : p[i] \in Step
  OBVIOUS
<1>2. QED
  BY <1>1, SubSeqProperties

\* What agrees for k steps agrees for fewer.
LEMMA PrefixOfPrefix ==
  ASSUME NEW p \in Seq(Step), NEW k \in 0..Len(p), NEW j \in 0..k
  PROVE  SubSeq(SubSeq(p, 1, k), 1, j) = SubSeq(p, 1, j)
<1> DEFINE s == SubSeq(p, 1, k)
<1>1. s \in Seq(Step) /\ Len(s) = k /\ \A i \in 1..k : s[i] = p[i]
  BY PrefixOf
<1>2. k \in 0..Len(p) /\ j \in 0..Len(p)
  OBVIOUS
<1> HIDE DEF s
<1>3. SubSeq(s, 1, j) \in Seq(Step) /\ Len(SubSeq(s, 1, j)) = j /\ \A i \in 1..j : SubSeq(s, 1, j)[i] = s[i]
  BY <1>1, PrefixOf
<1>4. SubSeq(p, 1, j) \in Seq(Step) /\ Len(SubSeq(p, 1, j)) = j /\ \A i \in 1..j : SubSeq(p, 1, j)[i] = p[i]
  BY <1>2, PrefixOf
<1>5. \A i \in 1..j : SubSeq(s, 1, j)[i] = SubSeq(p, 1, j)[i]
  BY <1>1, <1>3, <1>4
<1>6. SubSeq(s, 1, j) = SubSeq(p, 1, j)
  BY <1>3, <1>4, <1>5, SeqEqual
<1>7. QED
  BY <1>6 DEF s

LEMMA AgreeEarlier ==
  ASSUME NEW p \in Seq(Step), NEW q \in Seq(Step), NEW k \in 0..Len(p), k <= Len(q),
         SubSeq(p, 1, k) = SubSeq(q, 1, k), NEW j \in 0..k
  PROVE  SubSeq(p, 1, j) = SubSeq(q, 1, j) /\ \A i \in 1..k : p[i] = q[i]
<1>1. k \in 0..Len(q)
  OBVIOUS
<1>2. SubSeq(p, 1, j) = SubSeq(q, 1, j)
  BY <1>1, PrefixOfPrefix
<1>3. QED
  BY <1>1, <1>2, PrefixOf

LEMMA SameSiblings ==
  ASSUME NEW nodes, NEW p, NEW q, NEW i, SubSeq(p, 1, i - 1) = SubSeq(q, 1, i - 1)
  PROVE  Siblings(nodes, p, i) = Siblings(nodes, q, i)
  BY DEF Siblings

LEMMA SiblingsOfEvidence ==
  ASSUME NEW nodes, IsEvidence(nodes), NEW p \in nodes, NEW i \in 1..Len(p)
  PROVE  AreSiblings(Siblings(nodes, p, i), Limit(p[i])) /\ p[i] \in Siblings(nodes, p, i)
<1> DEFINE rivals == {q \in nodes : Len(q) >= i /\ SubSeq(q, 1, i - 1) = SubSeq(p, 1, i - 1)}
           step   == [q \in rivals |-> q[i]]
           S      == Siblings(nodes, p, i)
<1>1. \A q \in rivals : q \in Seq(Step) /\ Len(q) >= i /\ q[i] \in Step /\ q[i].kind = p[i].kind
  <2>1. p \in Seq(Step)
    BY DEF IsEvidence
  <2>2. TAKE q \in rivals
  <2>3. q \in Seq(Step) /\ Len(q) >= i /\ q[i] \in Step
    BY DEF IsEvidence
  <2>4. q[i].kind = p[i].kind
    BY <2>1, <2>3 DEF IsEvidence
  <2>5. QED
    BY <2>3, <2>4
<1>2. S = {q[i] : q \in rivals}
  BY DEF Siblings
<1>3. IsFiniteSet(S)
  <2>1. IsFiniteSet(rivals)
    BY FS_Subset DEF IsEvidence
  <2>2. step \in Surjection(rivals, S)
    BY <1>2 DEF Surjection
  <2> HIDE DEF rivals, step, S
  <2>3. QED
    BY <2>1, <2>2, FS_Surjection
<1>4. p[i] \in S
  <2>1. p \in rivals
    BY DEF IsEvidence
  <2>2. QED
    BY <1>2, <2>1
<1>5. AreSiblings(S, Limit(p[i]))
  <2>1. S \subseteq Step /\ \A x \in S : x.kind = p[i].kind
    BY <1>1, <1>2
  <2>2. QED
    BY <1>3, <2>1 DEF AreSiblings, Limit
<1>6. QED
  BY <1>4, <1>5

LEMMA LimitType == \A step : Limit(step) \in Nat
  BY EvidenceAssumption DEF Limit

\* The siblings of what is sent are chosen among all siblings.
LEMMA SentAreChosen ==
  ASSUME NEW nodes, IsEvidence(nodes), NEW p, NEW i \in Nat \ {0}
  PROVE  Siblings(SanitizeEvidence(nodes), p, i) \subseteq ChosenOf(Siblings(nodes, p, i))
<1> DEFINE S == Siblings(nodes, p, i)
<1>1. SUFFICES ASSUME NEW q \in SanitizeEvidence(nodes), Len(q) >= i,
                      SubSeq(q, 1, i - 1) = SubSeq(p, 1, i - 1)
               PROVE  q[i] \in ChosenOf(S)
  BY DEF Siblings
<1>2. q \in nodes /\ i \in 1..Len(q)
  BY <1>1 DEF SanitizeEvidence, IsEvidence
<1>3. Siblings(nodes, q, i) = S
  BY <1>1, SameSiblings
<1>4. Chosen(S, q[i])
  BY <1>2, <1>3 DEF SanitizeEvidence
<1>5. q[i] \in S
  BY <1>2, <1>3, SiblingsOfEvidence
<1>6. QED
  BY <1>4, <1>5 DEF ChosenOf

LEMMA SanitizedIsSmall ==
  ASSUME NEW nodes, IsEvidence(nodes) PROVE Small(SanitizeEvidence(nodes))
<1> DEFINE sent == SanitizeEvidence(nodes)
<1>1. ASSUME NEW p \in sent, NEW i \in 1..Len(p)
      PROVE  Cardinality(Siblings(sent, p, i)) <= Limit(p[i])
  <2> DEFINE S == Siblings(nodes, p, i)
  <2>1. p \in nodes /\ i \in Nat \ {0}
    BY DEF SanitizeEvidence
  <2>2. AreSiblings(S, Limit(p[i])) /\ Limit(p[i]) \in Nat
    BY <2>1, SiblingsOfEvidence, LimitType
  <2>3. Siblings(sent, p, i) \subseteq ChosenOf(S)
    BY <2>1, SentAreChosen
  <2> HIDE DEF sent, S
  <2>4. Cardinality(ChosenOf(S)) <= Limit(p[i])
    BY <2>2, FewChosen
  <2>5. Cardinality(Siblings(sent, p, i)) <= Cardinality(ChosenOf(S)) /\ IsFiniteSet(Siblings(sent, p, i))
    BY <2>2, <2>3, PrecedeCounts, FS_Subset
  <2>6. Cardinality(Siblings(sent, p, i)) \in Nat /\ Cardinality(ChosenOf(S)) \in Nat
    BY <2>2, <2>5, PrecedeCounts, FS_CardinalityType
  <2>7. QED
    BY <2>2, <2>4, <2>5, <2>6
<1>2. \A p \in sent : Len(p) <= MaxDepth
  BY DEF SanitizeEvidence
<1>3. QED
  BY <1>1, <1>2 DEF Small

\* What is chosen next to a step of a node all whose earlier steps are chosen is
\* sent, if it is not too deep.
LEMMA ChosenAreSent ==
  ASSUME NEW nodes, IsEvidence(nodes), NEW p \in nodes, Len(p) <= MaxDepth, NEW i \in 1..Len(p),
         \A j \in 1..(i - 1) : Chosen(Siblings(nodes, p, j), p[j])
  PROVE  ChosenOf(Siblings(nodes, p, i)) \subseteq Siblings(SanitizeEvidence(nodes), p, i)
<1> DEFINE S == Siblings(nodes, p, i)
<1>1. SUFFICES ASSUME NEW q \in nodes, Len(q) >= i, SubSeq(q, 1, i - 1) = SubSeq(p, 1, i - 1),
                      Chosen(S, q[i])
               PROVE  q[i] \in Siblings(SanitizeEvidence(nodes), p, i)
  BY DEF ChosenOf, Siblings
<1> DEFINE r == SubSeq(q, 1, i)
<1>2. p \in Seq(Step) /\ q \in Seq(Step)
  BY DEF IsEvidence
<1>3. i \in 1..Len(q) /\ i \in 0..Len(q)
  BY <1>1, <1>2
<1>4. r \in nodes
  BY <1>3 DEF IsEvidence
<1>5. Len(r) = i /\ \A j \in 1..i : r[j] = q[j]
  BY <1>2, <1>3, PrefixOf
<1>6. \A j \in 0..i : SubSeq(r, 1, j) = SubSeq(q, 1, j)
  BY <1>2, <1>3, PrefixOfPrefix
<1> HIDE DEF r
<1>7. ASSUME NEW j \in 1..i PROVE Chosen(Siblings(nodes, r, j), r[j])
  <2>1. SubSeq(r, 1, j - 1) = SubSeq(p, 1, j - 1) /\ (j < i => r[j] = p[j])
    <3>1. i - 1 \in 0..Len(q) /\ i - 1 <= Len(p) /\ j - 1 \in 0..(i - 1) /\ j - 1 \in 0..i
      BY <1>2, <1>3
    <3>2. SubSeq(q, 1, j - 1) = SubSeq(p, 1, j - 1) /\ \A k \in 1..(i - 1) : q[k] = p[k]
      BY <1>1, <1>2, <3>1, AgreeEarlier
    <3>3. QED
      BY <1>5, <1>6, <3>1, <3>2
  <2>2. Siblings(nodes, r, j) = Siblings(nodes, p, j)
    BY <2>1, SameSiblings
  <2>3. CASE j < i
    BY <2>1, <2>2, <2>3
  <2>4. CASE j = i
    BY <1>1, <1>5, <2>2, <2>4
  <2>5. QED
    BY <2>3, <2>4
<1>8. r \in SanitizeEvidence(nodes)
  <2>1. Len(r) <= MaxDepth
    BY <1>2, <1>5, EvidenceAssumption
  <2>2. QED
    BY <1>4, <1>5, <1>7, <2>1 DEF SanitizeEvidence
<1>9. SubSeq(r, 1, i - 1) = SubSeq(p, 1, i - 1) /\ Len(r) >= i /\ r[i] = q[i]
  BY <1>1, <1>5, <1>6
<1>10. QED
  BY <1>8, <1>9 DEF Siblings

LEMMA SanitizedIsAllThatFits ==
  ASSUME NEW nodes, IsEvidence(nodes)
  PROVE  NoneWithheldInVain(nodes, SanitizeEvidence(nodes))
<1> DEFINE sent == SanitizeEvidence(nodes)
<1>1. SUFFICES ASSUME NEW p \in nodes \ sent
               PROVE  \E i \in 1..Len(p) :
                        \/ IsSecretKey(p[i]) \/ i > MaxDepth
                        \/ Cardinality(Siblings(sent, p, i)) >= Limit(p[i])
  BY DEF NoneWithheldInVain
<1>2. Len(p) \in Nat /\ MaxDepth \in Nat
  BY EvidenceAssumption DEF IsEvidence
<1>3. CASE Len(p) > MaxDepth
  BY <1>2, <1>3
<1>4. CASE Len(p) <= MaxDepth
  <2> DEFINE LeftOut(i) == ~Chosen(Siblings(nodes, p, i), p[i])
             Points == {i \in 1..Len(p) : LeftOut(i)}
  <2>1. Points \in SUBSET Nat /\ Points # {}
    BY <1>2, <1>4 DEF SanitizeEvidence
  <2>2. PICK i \in Points : \A k \in Points : i <= k
    <3> HIDE DEF Points
    <3>1. QED
      BY ONLY <2>1, LeastNumber
  <2> DEFINE S == Siblings(nodes, p, i)
  <2>3. i \in 1..Len(p) /\ ~Chosen(S, p[i])
    OBVIOUS
  <2>4. \A j \in 1..(i - 1) : Chosen(Siblings(nodes, p, j), p[j])
    BY <1>2, <2>2
  <2>5. AreSiblings(S, Limit(p[i])) /\ Limit(p[i]) \in Nat /\ p[i] \in S
    BY <2>3, SiblingsOfEvidence, LimitType
  <2>6. CASE IsSecretKey(p[i])
    BY <2>3, <2>6
  <2>7. CASE ~IsSecretKey(p[i])
    <3>1. Cardinality(ChosenOf(S)) >= Limit(p[i])
      BY <2>3, <2>5, <2>7, FullWithout
    <3>2. ChosenOf(S) \subseteq Siblings(sent, p, i)
      BY <1>4, <2>3, <2>4, ChosenAreSent
    <3>3. Siblings(sent, p, i) \subseteq ChosenOf(S)
      BY <2>3, SentAreChosen
    <3>4. Siblings(sent, p, i) = ChosenOf(S)
      BY <3>2, <3>3, Zenon
    <3>5. QED
      BY <2>3, <3>1, <3>4
  <2>8. QED
    BY <2>6, <2>7
<1>5. QED
  BY <1>2, <1>3, <1>4

-----------------------------------------------------------------------------
(* What the sidecar learns *)

LEMMA SanitizedIsSecretFree == ASSUME NEW nodes PROVE SecretFree(SanitizeEvidence(nodes))
  BY DEF SecretFree, SanitizeEvidence, Chosen

\* The packet is made of what the handler read, before the first attempt, and
\* no retry touches it.
PacketInv ==
  /\ phase \in {"asked", "found"} => asked = 0
  /\ phase = "found" => recorded \in Evidences /\ evidence = recorded
  /\ phase \in {"ready", "waiting", "backoff"} =>
       recorded \in Evidences /\ evidence = SanitizeEvidence(recorded)
  /\ asked = 0 => received = {}
  /\ asked > 0 => recorded \in Evidences /\ received = SanitizeEvidence(recorded)

LEMMA PacketStep == TypeOK /\ PacketInv /\ [Next]_vars => PacketInv'
<1> SUFFICES ASSUME TypeOK, PacketInv, [Next]_vars PROVE PacketInv'
  OBVIOUS
<1> USE DEF PacketInv, environment, handler, history, sidecar
<1>1. asked \in Nat
  BY DEF TypeOK
<1>2. ASSUME Request PROVE PacketInv'
  BY <1>2 DEF Request
<1>3. ASSUME GetFinding PROVE PacketInv'
  <2>1. /\ asked = 0 /\ asked' = asked /\ received' = received /\ phase' = "found"
        /\ evidence' \in Evidences /\ recorded' = evidence'
    BY <1>3 DEF GetFinding
  <2>2. QED
    BY <2>1
<1>4. ASSUME CallClient PROVE PacketInv'
  BY <1>4 DEF CallClient
<1>5. ASSUME DoRequest PROVE PacketInv'
  BY <1>1, <1>5 DEF DoRequest
<1>6. ASSUME DoRequestCanceled \/ AttemptFails \/ Refused \/ BackoffEnds PROVE PacketInv'
  <2>1. /\ phase \in {"ready", "waiting", "backoff"} /\ phase' \in {"ready", "backoff", "answered"}
        /\ UNCHANGED <<evidence, recorded, asked, received>>
    BY <1>6 DEF DoRequestCanceled, AttemptFails, Refused, BackoffEnds, AfterFailure, Answer
  <2>2. QED
    BY <2>1
<1>7. ASSUME \/ GetFails \/ NotAllowed \/ BackoffCanceled
             \/ \E narration \in Narrations : Narrates(narration)
      PROVE  PacketInv'
  <2>1. phase' = "answered" /\ UNCHANGED <<recorded, asked, received>>
    BY <1>7 DEF GetFails, NotAllowed, BackoffCanceled, Narrates, Answer
  <2>2. QED
    BY <2>1
<1>8. ASSUME \/ GoAway \/ (\E s \in Severities : Upsert(s))
             \/ (\E t \in Tiers : SwitchActivation(t)) \/ UNCHANGED vars
      PROVE  PacketInv'
  <2>1. UNCHANGED <<phase, evidence, recorded, asked, received>>
    BY <1>8 DEF GoAway, Upsert, SwitchActivation, vars
  <2>2. QED
    BY <2>1
<1>9. QED
  BY <1>2, <1>3, <1>4, <1>5, <1>6, <1>7, <1>8 DEF Next, Program

\* An empty packet keeps to everything but completeness, which is about one
\* that was sent.
LEMMA PacketIsMinimised == TypeOK /\ PacketInv => EvidenceMinimised
<1> SUFFICES ASSUME TypeOK, PacketInv PROVE EvidenceMinimised
  OBVIOUS
<1>1. CASE asked = 0
  <2>1. received = {} /\ ~(asked > 0)
    BY <1>1 DEF PacketInv
  <2>2. QED
    BY <2>1 DEF EvidenceMinimised, NothingSecretSent, SecretFree, Small
<1>2. CASE asked > 0
  <2>1. IsEvidence(recorded) /\ received = SanitizeEvidence(recorded)
    BY <1>2, AIAssumption DEF PacketInv
  <2>2. QED
    BY <2>1, SanitizedIsSecretFree, SanitizedIsSmall, SanitizedIsPart, SanitizedIsAllThatFits
       DEF EvidenceMinimised, NothingSecretSent
<1>3. QED
  BY <1>1, <1>2 DEF TypeOK

\* Whatever a scan recorded and however often the request is retried: no evidence
\* below a secret key reaches the sidecar, nor more than the limits allow of any
\* map, list or level, and nothing that is no secret and fits is kept from it.
THEOREM EvidenceIsMinimised == Spec => []EvidenceMinimised
<1>1. Init => PacketInv
  BY DEF Init, PacketInv
<1>2. QED
  BY <1>1, InitTypes, TypeStep, PacketStep, PacketIsMinimised, PTL DEF Spec
=============================================================================
