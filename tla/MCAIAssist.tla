---------------------------- MODULE MCAIAssist ----------------------------
(* A small instance of AIAssist: narrations of up to three sentences out of *)
(* those below, and one thing to verify.                                    *)
EXTENDS AIAssist, TLC

CONSTANTS high, medium, moderate

SomeMeaning == high :> high @@ medium :> medium @@ moderate :> medium

Says(rates, claims, length) == [rates |-> rates, claims |-> claims, length |-> length]

SomeSentences ==
  {Says(None, FALSE, 1), Says(None, FALSE, 2), Says(None, TRUE, 2), Says(high, FALSE, 2),
   Says(moderate, FALSE, 1), Says(high, TRUE, 2)}

SomeNarrations ==
  {[explanation |-> e, verify |-> {v}] :
     e \in {t \in SUBSET SomeSentences : Cardinality(t) \in 1..3},
     v \in {{Says(None, FALSE, 1)}, {Says(None, TRUE, 2), Says(None, FALSE, 2)}, {Says(high, TRUE, 2)}}}

Below(p, nodes) == {p} \cup {p \o q : q \in nodes}

\* Key 2 is secret.  Maps and lists over the limit of two, with secret keys
\* before and after it; secrets inside a list and inside a map; and a nesting
\* that is too deep.
SomeEvidences ==
  LET wide   == {<<Key(1)>>, <<Key(2)>>, <<Key(3)>>, <<Key(4)>>}
      secret == {<<Key(2)>>, <<Key(3)>>}
      list   == {<<Item(1)>>, <<Item(3)>>} \cup Below(<<Item(2)>>, secret)
      deep   == Below(<<Key(1)>>, Below(<<Key(2)>>, secret)) \cup
                Below(<<Key(3)>>, Below(<<Item(1)>>, wide))
  IN
  {{}, Below(<<Key(2)>>, wide) \cup wide, Below(<<Key(1)>>, list), deep}
=============================================================================
