------------------------------ MODULE MCServe ------------------------------
(***************************************************************************)
(* A consumer who holds several grants of one giver and one of another.    *)
(***************************************************************************)
EXTENDS Connection

CONSTANTS c1, ann, bob

LastIsBobs == [s \in Sources |-> IF \E t \in Sources : t > s THEN ann ELSE bob]
=============================================================================
