------------------------------ MODULE Evidence ------------------------------
(***************************************************************************)
(* What of a finding's evidence may leave the machine                      *)
(* (internal/aiclient/evidence.go).  Evidence comes from the store, so it  *)
(* is what JSON decodes to: maps, lists and leaves.  It is the set of its  *)
(* nodes, a node the path to it from the outermost map: keys and list      *)
(* indices.  What leaves hold (texts neutralised and cut) is left out; a   *)
(* node without nodes below it may be a leaf, or an "[omitted: ...]" text  *)
(* in the place of what was deeper.                                        *)
(***************************************************************************)
EXTENDS Naturals, Sequences, FiniteSets

CONSTANTS
  SecretKeys,   \* keys with a marker in them; keys are numbered as they sort
  MaxKeys,      \* maxEvidenceKeys
  MaxList,      \* maxEvidenceList
  MaxDepth      \* maxEvidenceDepth

ASSUME EvidenceAssumption == {MaxKeys, MaxList, MaxDepth} \subseteq Nat

Step == [kind : {"key", "item"}, n : Nat]

Key(n)  == [kind |-> "key", n |-> n]
Item(n) == [kind |-> "item", n |-> n]

\* What lies in something below lies below it, and one map or list holds either
\* keys or items.
IsEvidence(nodes) ==
  /\ IsFiniteSet(nodes) /\ nodes \subseteq Seq(Step)
  /\ \A p \in nodes : \A i \in 1..Len(p) : SubSeq(p, 1, i) \in nodes
  /\ \A p, q \in nodes : \A i \in (1..Len(p)) \cap (1..Len(q)) :
       SubSeq(p, 1, i - 1) = SubSeq(q, 1, i - 1) => p[i].kind = q[i].kind

IsSecretKey(step) == step.kind = "key" /\ step.n \in SecretKeys

Limit(step) == IF step.kind = "key" THEN MaxKeys ELSE MaxList

\* The steps one may take where p takes its i-th: the keys of one map or the
\* indices of one list.
Siblings(nodes, p, i) ==
  {q[i] : q \in {x \in nodes : Len(x) >= i /\ SubSeq(x, 1, i - 1) = SubSeq(p, 1, i - 1)}}

\* (Mutant of Precede: the keys are cut to their number before the secret ones
\* are dropped.)
PrecedeSecretsCounted(steps, step) == {x \in steps : x.n < step.n}

\* Those of the steps that sort before this one and may be sent.
Precede(steps, step) == {x \in steps : ~IsSecretKey(x) /\ x.n < step.n}

\* sanitizeMap and sanitizeValue, at one map or list: secret keys go first,
\* then all that come after the limit.
Chosen(steps, step) ==
  ~IsSecretKey(step) /\ Cardinality(Precede(steps, step)) < Limit(step)

SanitizeEvidence(nodes) ==
  {p \in nodes : Len(p) <= MaxDepth /\ \A i \in 1..Len(p) : Chosen(Siblings(nodes, p, i), p[i])}

-----------------------------------------------------------------------------
(* What it is to do *)

\* No node lies below a secret key, on any level.
SecretFree(nodes) == \A p \in nodes : \A i \in 1..Len(p) : ~IsSecretKey(p[i])

\* The maps, the lists and the nesting keep to their limits.
Small(nodes) ==
  \A p \in nodes : Len(p) <= MaxDepth /\
    \A i \in 1..Len(p) : Cardinality(Siblings(nodes, p, i)) <= Limit(p[i])

\* What was withheld had to be: it is secret, too deep, or in a map or list
\* that is full without it.
NoneWithheldInVain(nodes, sent) ==
  \A p \in nodes \ sent : \E i \in 1..Len(p) :
    \/ IsSecretKey(p[i])
    \/ i > MaxDepth
    \/ Cardinality(Siblings(sent, p, i)) >= Limit(p[i])
=============================================================================
