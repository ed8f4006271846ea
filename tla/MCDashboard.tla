---------------------------- MODULE MCDashboard ----------------------------
(* Small instances of Dashboard. *)
EXTENDS Dashboard, TLC

CONSTANTS host, host443, other, third, cHost, cOther, cThird, pro, bad

\* example.com and example.com:443 are one target.
Aliases == host :> cHost @@ host443 :> cHost @@ other :> cOther
Three   == Aliases @@ third :> cThird

Signed == pro :> "pro" @@ bad :> "invalid"

SmallLimits == [tier \in Tiers |-> CASE tier = "free" -> 1 [] tier = "pro" -> 2
                                     [] tier = "team" -> 0]

\* Requests are alike, and so are the two targets that have one name each.
Symmetric ==
  Permutations(Handlers) \cup
  {other :> third @@ third :> other @@ cOther :> cThird @@ cThird :> cOther}
=============================================================================
