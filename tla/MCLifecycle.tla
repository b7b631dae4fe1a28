---------------------------- MODULE MCLifecycle ----------------------------
(***************************************************************************)
(* The names of one giver and her two PATs, one of which stops working.    *)
(***************************************************************************)
EXTENDS Lifecycle

CONSTANTS ann, k1, k2
=============================================================================
