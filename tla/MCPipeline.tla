----------------------------- MODULE MCPipeline -----------------------------
(* A small instance of Pipeline: two findings of the one module main runs. *)
EXTENDS Pipeline, TLC

CONSTANTS f1, f2, m1, g1

OneModule == f1 :> m1 @@ f2 :> m1
=============================================================================
