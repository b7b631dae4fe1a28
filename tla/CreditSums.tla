----------------------------- MODULE CreditSums -----------------------------
(***************************************************************************)
(* Integer arithmetic the ledger is built from.  Every balance of the      *)
(* program is a SQL SUM over the rows of an append-only table, so the      *)
(* modules of this project sum a function over a set of rows.              *)
(*                                                                         *)
(* Total counts the pairs (row, unit of credit).  It is the same number a  *)
(* fold with + gives, in a form whose laws follow from those of            *)
(* Cardinality, so that the proofs can use them.                        *)
(***************************************************************************)
EXTENDS Integers, FiniteSets, Sequences

Least(a, b)    == IF a < b THEN a ELSE b
Greatest(a, b) == IF a < b THEN b ELSE a

\* The units of credit in the rows S, where row s holds f[s] of them.
Units(f, S) == UNION {{s} \X (1 .. f[s]) : s \in S}

\* SELECT SUM(f) over the rows S.  A row with f[s] < 0 adds nothing.
Total(f, S) == Cardinality(Units(f, S))

\* The same with rows that may be overdrawn (a negative balance subtracts).
NetTotal(f, S) == Total(f, S) - Total([s \in S |-> -f[s]], S)

-----------------------------------------------------------------------------
(***************************************************************************)
(* The loop three operations of the engine share:                          *)
(*                                                                         *)
(*     for x, room in lane:                                                *)
(*         take = min(left, room)        # rows with no room are skipped   *)
(*         ...insert a row of `take`...                                    *)
(*         left -= take                                                    *)
(*         if left <= 0: break                                             *)
(*                                                                         *)
(* lane[k] is the (positive) room of the k-th source.  All sources that    *)
(* are drawn are emptied, except that the last one gives what is still     *)
(* due.  Drains is a set of one element: the sequence of takes.            *)
(***************************************************************************)
Due(lane, cap) == Least(cap, Total(lane, DOMAIN lane))

LastDrawn(n, lane, cap) ==
    IF n = 0 THEN Due(lane, cap) = 0
    ELSE /\ Total(lane, 1 .. (n-1)) < Due(lane, cap)
         /\ Due(lane, cap) <= Total(lane, 1 .. n)

Drains(lane, cap) ==
    { [k \in 1 .. n |-> IF k < n THEN lane[k]
                        ELSE Due(lane, cap) - Total(lane, 1 .. (n-1))] :
        n \in {m \in 0 .. Len(lane) : LastDrawn(m, lane, cap)} }

\* The ways to visit each member of C once, respecting `Before` (ORDER BY,
\* sorted()); members that are equal for `Before` come in any order.
Walks(C, Before(_,_)) ==
    { w \in [1 .. Cardinality(C) -> C] :
        \A i, j \in 1 .. Cardinality(C) : i < j => w[i] # w[j] /\ Before(w[i], w[j]) }
=============================================================================
