--------------------------- MODULE MCMarketplace ---------------------------
(***************************************************************************)
(* A team of three: ann gives, bob (r1) and cy (r2) post requests.         *)
(***************************************************************************)
EXTENDS Standings

CONSTANTS ann, bob, cy, r1, r2

MCOwner == [r \in Requests |-> IF r = r1 THEN bob ELSE cy]
TwoEach == [r \in Requests |-> 2]
TwoAndOne == [r \in Requests |-> IF r = r2 THEN 1 ELSE 2]

\* Ann's PAT has a quota, which shrinks and grows; in the second team ann and bob
\* have one.  The others consume.
GiverAndConsumers == [u \in Users |-> IF u = ann THEN {2, 3} ELSE {}]
TwoGivers         == [u \in Users |-> CASE u = ann -> {2} [] u = bob -> {1} [] OTHER -> {}]
=============================================================================
