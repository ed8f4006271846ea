----------------------------- MODULE MCReconcile -----------------------------
(* Small instances of Reconcile: one target with one finding or two. *)
EXTENDS Reconcile, TLC

CONSTANTS f1, f2, t1

OneTarget  == f1 :> t1 @@ f2 :> t1
OneFinding == f1 :> t1
=============================================================================
