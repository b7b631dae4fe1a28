---------------------------- MODULE MCReconcile ----------------------------
(***************************************************************************)
(* A tick stands for about 30 s, except that the confirm window and the    *)
(* sweep's interval are cut short; their order is that of the code.        *)
(***************************************************************************)
EXTENDS Reconcile

CONSTANTS c1, c2
=============================================================================
