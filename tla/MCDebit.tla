------------------------------ MODULE MCDebit ------------------------------
(***************************************************************************)
(* ann gives; bob's r1 is funded and his calls are debited on it, while he *)
(* passes credit on to cy's r2.                                            *)
(***************************************************************************)
EXTENDS Debit

CONSTANTS ann, bob, cy, r1, r2, c1, c2

MCOwner   == [r \in Requests |-> IF r = r1 THEN bob ELSE cy]
MCNeeded  == [r \in Requests |-> IF r = r1 THEN 2 ELSE 1]
MCQuota   == [u \in Users |-> IF u = ann THEN {2} ELSE {}]
BobCalls  == [c \in Calls |-> bob]
AnnAndBob == [c \in Calls |-> IF c = c1 THEN bob ELSE ann]
=============================================================================
