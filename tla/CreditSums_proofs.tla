-------------------------- MODULE CreditSums_proofs --------------------------
(***************************************************************************)
(* The laws of Total that the ledger's proofs use.                         *)
(***************************************************************************)
EXTENDS CreditSums, FiniteSetTheorems, TLAPS

\* A row holds a natural number of units, and they form a finite set.
LEMMA RowUnits ==
  ASSUME NEW x, NEW n \in Nat
  PROVE  /\ IsFiniteSet({x} \X (1 .. n))
         /\ Cardinality({x} \X (1 .. n)) = n
<1>1. IsFiniteSet({x}) /\ Cardinality({x}) = 1
  BY FS_Singleton
<1>2. IsFiniteSet(1 .. n) /\ Cardinality(1 .. n) = n
  BY FS_Interval
<1>3. /\ IsFiniteSet({x} \X (1 .. n))
      /\ Cardinality({x} \X (1 .. n)) = Cardinality({x}) * Cardinality(1 .. n)
  <2> HIDE <1>2
  <2>1. IsFiniteSet(1 .. n)
    BY <1>2
  <2> QED
    BY <1>1, <2>1, FS_Product, Zenon
<1> QED
  BY <1>1, <1>2, <1>3

\* One more row adds its own units.
LEMMA UnitsOfOneMore ==
  ASSUME NEW f, NEW S, NEW x
  PROVE  Units(f, S \cup {x}) = Units(f, S) \cup ({x} \X (1 .. f[x]))
BY DEF Units

\* Induction on finite sets, for a set of subsets instead of a predicate.  The
\* proof looks at a smallest subset that is not among the good ones.
LEMMA SubsetInduction ==
  ASSUME NEW S, IsFiniteSet(S), NEW Good, {} \in Good,
         \A B \in SUBSET S : \A x \in B : B \ {x} \in Good => B \in Good
  PROVE  S \in Good
<1> DEFINE Bad == {B \in SUBSET S : B \notin Good}
<1>1. SUFFICES ASSUME Bad # {} PROVE FALSE
  OBVIOUS
<1>2. IsWellFoundedOn(StrictSubsetOrdering(S), FiniteSubsetsOf(S))
  BY FS_StrictSubsetOrderingWellFounded
<1>3. Bad \subseteq FiniteSubsetsOf(S)
  BY FS_FiniteSubsetsOfFinite
<1>4. PICK B \in Bad : \A C \in Bad : <<C, B>> \notin StrictSubsetOrdering(S)
  <2> HIDE DEF Bad
  <2> QED BY <1>1, <1>2, <1>3, WFMin
<1>5. PICK x \in B : TRUE
  OBVIOUS
<1>6. <<B \ {x}, B>> \in StrictSubsetOrdering(S)
  BY <1>5 DEF StrictSubsetOrdering
<1>7. B \ {x} \in Good
  BY <1>4, <1>6
<1> QED
  BY <1>5, <1>7

\* Finitely many rows of integers have finitely many units.
LEMMA UnitsFinite ==
  ASSUME NEW S, IsFiniteSet(S), NEW f, \A s \in S : f[s] \in Int
  PROVE  IsFiniteSet(Units(f, S))
<1> DEFINE Good == {B \in SUBSET S : IsFiniteSet(Units(f, B))}
<1>1. {} \in Good
  <2>1. Units(f, {}) = {}
    BY DEF Units
  <2> QED BY <2>1, FS_EmptySet
<1>2. ASSUME NEW B \in SUBSET S, NEW x \in B, B \ {x} \in Good
      PROVE  B \in Good
  <2>1. Units(f, B) = Units(f, B \ {x}) \cup ({x} \X (1 .. f[x]))
    <3>1. (B \ {x}) \cup {x} = B
      OBVIOUS
    <3>2. Units(f, (B \ {x}) \cup {x}) = Units(f, B \ {x}) \cup ({x} \X (1 .. f[x]))
      BY UnitsOfOneMore, Zenon
    <3> QED BY <3>1, <3>2
  <2>2. IsFiniteSet({x} \X (1 .. f[x]))
    <3>1. CASE f[x] \in Nat
      BY <3>1, RowUnits
    <3>2. CASE f[x] \notin Nat
      <4>1. {x} \X (1 .. f[x]) = {}
        BY <3>2
      <4> QED BY <4>1, FS_EmptySet
    <3> QED BY <3>1, <3>2
  <2>3. IsFiniteSet(Units(f, B \ {x}))
    BY <1>2
  <2>4. IsFiniteSet(Units(f, B \ {x}) \cup ({x} \X (1 .. f[x])))
    BY <2>2, <2>3, FS_Union, Zenon
  <2> QED BY <2>1, <2>4
<1> HIDE DEF Good
<1>3. S \in Good
  BY <1>1, <1>2, SubsetInduction
<1> QED
  BY <1>3 DEF Good

\* A sum over finitely many rows is a natural number.
LEMMA TotalType ==
  ASSUME NEW S, IsFiniteSet(S), NEW f, \A s \in S : f[s] \in Int
  PROVE  Total(f, S) \in Nat
BY UnitsFinite, FS_CardinalityType DEF Total

\* A net sum over finitely many rows is an integer.
LEMMA NetTotalType ==
  ASSUME NEW S, IsFiniteSet(S), NEW f, \A s \in S : f[s] \in Int
  PROVE  NetTotal(f, S) \in Int
<1>1. \A s \in S : [t \in S |-> -f[t]][s] \in Int
  OBVIOUS
<1>2. Total([t \in S |-> -f[t]], S) \in Nat
  BY <1>1, TotalType
<1>3. Total(f, S) \in Nat
  BY TotalType
<1> QED
  BY <1>2, <1>3 DEF NetTotal

\* SUM over no rows is 0 (the COALESCE in the store).
LEMMA TotalEmpty ==
  ASSUME NEW f
  PROVE  Total(f, {}) = 0
<1>1. Units(f, {}) = {}
  BY DEF Units
<1> QED
  BY <1>1, FS_EmptySet DEF Total

\* A sum of nothing is 0.
LEMMA TotalZero ==
  ASSUME NEW S, NEW f, \A s \in S : f[s] = 0
  PROVE  Total(f, S) = 0
<1>1. Units(f, S) = {}
  BY DEF Units
<1> QED
  BY <1>1, FS_EmptySet DEF Total

\* A sum depends on its summands only.
LEMMA TotalCong ==
  ASSUME NEW S, NEW f, NEW g, \A s \in S : f[s] = g[s]
  PROVE  Total(f, S) = Total(g, S)
<1>1. Units(f, S) = Units(g, S)
  BY DEF Units
<1> QED
  BY <1>1 DEF Total

\* Inserting a row adds its value to the sum.
LEMMA TotalOneMore ==
  ASSUME NEW S, IsFiniteSet(S), NEW f, NEW x, x \notin S,
         \A s \in S \cup {x} : f[s] \in Nat
  PROVE  Total(f, S \cup {x}) = Total(f, S) + f[x]
<1>1. /\ IsFiniteSet(Units(f, S))
      /\ IsFiniteSet({x} \X (1 .. f[x]))
      /\ Cardinality({x} \X (1 .. f[x])) = f[x]
  <2>1. f[x] \in Nat /\ \A s \in S : f[s] \in Int
    OBVIOUS
  <2> QED BY <2>1, UnitsFinite, RowUnits
<1>2. Units(f, S) \cap ({x} \X (1 .. f[x])) = {}
  BY DEF Units
<1>3. Cardinality(Units(f, S) \cup ({x} \X (1 .. f[x]))) =
        Cardinality(Units(f, S)) + f[x] - Cardinality({})
  BY <1>1, <1>2, FS_Union
<1>4. Cardinality(Units(f, S)) \in Nat
  BY <1>1, FS_CardinalityType
<1> QED
  BY <1>3, <1>4, UnitsOfOneMore, FS_EmptySet DEF Total

\* Leaving a row out subtracts its value.
LEMMA TotalDropOne ==
  ASSUME NEW S, IsFiniteSet(S), NEW x \in S, NEW f, \A s \in S : f[s] \in Nat
  PROVE  Total(f, S) = Total(f, S \ {x}) + f[x]
<1>1. IsFiniteSet(S \ {x}) /\ x \notin S \ {x}
  BY FS_RemoveElement
<1>2. (S \ {x}) \cup {x} = S
  OBVIOUS
<1>3. \A s \in (S \ {x}) \cup {x} : f[s] \in Nat
  OBVIOUS
<1>4. Total(f, (S \ {x}) \cup {x}) = Total(f, S \ {x}) + f[x]
  BY <1>1, <1>3, TotalOneMore, Zenon
<1> QED
  BY <1>2, <1>4

\* The sum over the first n rows, from that over the first n - 1.
LEMMA TotalNext ==
  ASSUME NEW n \in Nat \ {0}, NEW f, \A k \in 1 .. n : f[k] \in Nat
  PROVE  Total(f, 1 .. n) = Total(f, 1 .. (n-1)) + f[n]
<1>1. IsFiniteSet(1 .. n) /\ n \in 1 .. n
  BY FS_Interval
<1>2. Total(f, 1 .. n) = Total(f, (1 .. n) \ {n}) + f[n]
  BY <1>1, TotalDropOne, Zenon
<1>3. (1 .. n) \ {n} = 1 .. (n-1)
  OBVIOUS
<1> QED
  BY <1>2, <1>3

\* The sum over one row is its value.
LEMMA TotalSingle ==
  ASSUME NEW x, NEW f, f[x] \in Nat
  PROVE  Total(f, {x}) = f[x]
<1>1. IsFiniteSet({x})
  BY FS_Singleton
<1>2. Total(f, {x}) = Total(f, {x} \ {x}) + f[x]
  BY <1>1, TotalDropOne, Zenon
<1>3. {x} \ {x} = {}
  OBVIOUS
<1> QED
  BY <1>2, <1>3, TotalEmpty

\* The sum over two disjoint sets of rows is the sum of the two sums.
LEMMA TotalSplit ==
  ASSUME NEW S, IsFiniteSet(S), NEW T, IsFiniteSet(T), S \cap T = {},
         NEW f, \A s \in S \cup T : f[s] \in Nat
  PROVE  Total(f, S \cup T) = Total(f, S) + Total(f, T)
<1>1. IsFiniteSet(Units(f, S)) /\ IsFiniteSet(Units(f, T))
  BY UnitsFinite
<1>2. Units(f, S \cup T) = Units(f, S) \cup Units(f, T)
  BY DEF Units
<1>3. Units(f, S) \cap Units(f, T) = {}
  BY DEF Units
<1>4. /\ Cardinality(Units(f, S)) \in Nat
      /\ Cardinality(Units(f, T)) \in Nat
  BY <1>1, FS_CardinalityType
<1>5. Cardinality(Units(f, S) \cup Units(f, T)) =
        Cardinality(Units(f, S)) + Cardinality(Units(f, T)) - Cardinality({})
  BY <1>1, <1>3, FS_Union
<1>6. Cardinality({}) = 0
  BY FS_EmptySet
<1>7. Total(f, S \cup T) = Cardinality(Units(f, S) \cup Units(f, T))
  BY <1>2, Zenon DEF Total
<1>8. /\ Total(f, S) = Cardinality(Units(f, S))
      /\ Total(f, T) = Cardinality(Units(f, T))
  BY DEF Total
<1> QED
  BY <1>4, <1>5, <1>6, <1>7, <1>8

\* Smaller summands, smaller sum; fewer rows, smaller sum.
LEMMA TotalMono ==
  ASSUME NEW S, IsFiniteSet(S), NEW T \in SUBSET S,
         NEW f, NEW g, \A s \in S : g[s] \in Nat,
         \A s \in T : f[s] \in Nat /\ f[s] <= g[s]
  PROVE  Total(f, T) <= Total(g, S)
<1>1. Units(f, T) \subseteq Units(g, S)
  BY DEF Units
<1>2. IsFiniteSet(Units(g, S))
  BY UnitsFinite
<1> QED
  BY <1>1, <1>2, FS_Subset DEF Total

\* The sum of the sums of two columns.
LEMMA TotalAdd ==
  ASSUME NEW S, IsFiniteSet(S), NEW f, NEW g, NEW h,
         \A s \in S : f[s] \in Nat /\ g[s] \in Nat /\ h[s] = f[s] + g[s]
  PROVE  Total(h, S) = Total(f, S) + Total(g, S)
<1> DEFINE Good == {B \in SUBSET S : Total(h, B) = Total(f, B) + Total(g, B)}
<1>1. {} \in Good
  <2>1. Total(h, {}) = 0 /\ Total(f, {}) = 0 /\ Total(g, {}) = 0
    BY TotalEmpty
  <2> QED BY <2>1
<1>2. ASSUME NEW B \in SUBSET S, NEW x \in B, B \ {x} \in Good
      PROVE  B \in Good
  <2>1. IsFiniteSet(B) /\ IsFiniteSet(B \ {x})
    BY FS_Subset
  <2>2. \A s \in B : f[s] \in Nat /\ g[s] \in Nat /\ h[s] \in Nat /\ h[s] = f[s] + g[s]
    OBVIOUS
  <2>3. /\ Total(f, B) = Total(f, B \ {x}) + f[x]
        /\ Total(g, B) = Total(g, B \ {x}) + g[x]
        /\ Total(h, B) = Total(h, B \ {x}) + h[x]
    BY <2>1, <2>2, TotalDropOne, Zenon
  <2>4. Total(f, B \ {x}) \in Nat /\ Total(g, B \ {x}) \in Nat
    BY <2>1, <2>2, TotalType
  <2>5. Total(h, B \ {x}) = Total(f, B \ {x}) + Total(g, B \ {x})
    BY <1>2
  <2>6. Total(h, B) = Total(f, B) + Total(g, B)
    BY <2>2, <2>3, <2>4, <2>5
  <2> QED BY <2>6
<1> HIDE DEF Good
<1>3. S \in Good
  BY <1>1, <1>2, SubsetInduction
<1> QED
  BY <1>3 DEF Good

\* The rows D of a table that belong to p, by the column owner.
Owned(owner, D, p) == {c \in D : owner[c] = p}

\* GROUP BY: if each row of D belongs to a member of P, and F is the sum over
\* the rows of each member, then F sums up to the sum over D.
GroupedBy(owner, D, P, f, F) ==
    /\ IsFiniteSet(D) /\ IsFiniteSet(P)
    /\ \A c \in D : owner[c] \in P /\ f[c] \in Nat
    /\ \A p \in P : F[p] = Total(f, Owned(owner, D, p))

LEMMA TotalGroups ==
  ASSUME NEW owner, NEW D, NEW P, NEW f, NEW F, GroupedBy(owner, D, P, f, F)
  PROVE  Total(F, P) = Total(f, D)
<1> DEFINE Of(B) == {c \in D : owner[c] \in B}
           Good == {B \in SUBSET P : Total(F, B) = Total(f, Of(B))}
<1>1. /\ IsFiniteSet(D) /\ IsFiniteSet(P)
      /\ \A c \in D : owner[c] \in P /\ f[c] \in Nat
      /\ \A p \in P : F[p] = Total(f, Owned(owner, D, p))
  BY DEF GroupedBy
<1>2. \A C \in SUBSET D : IsFiniteSet(C) /\ Total(f, C) \in Nat
  <2> TAKE C \in SUBSET D
  <2>1. IsFiniteSet(C)
    BY <1>1, FS_Subset
  <2> QED BY <1>1, <2>1, TotalType
<1>3. \A p \in P : Owned(owner, D, p) \in SUBSET D /\ F[p] \in Nat
  BY <1>1, <1>2 DEF Owned
<1>4. {} \in Good
  <2>1. Of({}) = {}
    OBVIOUS
  <2>2. Total(F, {}) = 0 /\ Total(f, {}) = 0
    BY TotalEmpty
  <2> QED BY <2>1, <2>2
<1>5. ASSUME NEW B \in SUBSET P, NEW x \in B, B \ {x} \in Good
      PROVE  B \in Good
  <2> DEFINE R == B \ {x}
             O == Owned(owner, D, x)
  <2>1. Of(B) = Of(R) \cup O /\ Of(R) \cap O = {} /\ Of(R) \in SUBSET D /\ O \in SUBSET D
    BY <1>1 DEF Owned
  <2>2. Total(F, R) = Total(f, Of(R))
    BY <1>5
  <2> HIDE DEF Of, O, R
  <2>3. Total(f, Of(R) \cup O) = Total(f, Of(R)) + Total(f, O)
    <3>1. \A c \in Of(R) \cup O : f[c] \in Nat
      BY <1>1, <2>1
    <3>2. IsFiniteSet(Of(R)) /\ IsFiniteSet(O)
      BY <1>2, <2>1
    <3> QED BY <2>1, <3>1, <3>2, TotalSplit
  <2>4. Total(F, B) = Total(F, R) + F[x]
    <3>1. IsFiniteSet(B) /\ \A p \in B : F[p] \in Nat
      BY <1>1, <1>3, FS_Subset
    <3> QED BY <3>1, TotalDropOne DEF R
  <2>5. F[x] = Total(f, O)
    BY <1>1 DEF O
  <2>6. Total(F, B) = Total(f, Of(B))
    BY <2>1, <2>2, <2>3, <2>4, <2>5
  <2> QED BY <2>6
<1>6. P \in Good
  <2> HIDE DEF Good
  <2> QED BY <1>1, <1>4, <1>5, SubsetInduction
<1>7. Of(P) = D
  BY <1>1
<1> HIDE DEF Of
<1> QED
  BY <1>6, <1>7

\* A sum bounded row by row by the sum of two others.
LEMMA TotalBelow ==
  ASSUME NEW S, IsFiniteSet(S), NEW f, NEW g, NEW h,
         \A s \in S : f[s] \in Nat /\ g[s] \in Nat /\ h[s] \in Nat,
         \A s \in S : h[s] <= f[s] + g[s]
  PROVE  Total(h, S) <= Total(f, S) + Total(g, S)
<1> DEFINE sum == [s \in S |-> f[s] + g[s]]
<1>1. \A s \in S : sum[s] \in Nat /\ sum[s] = f[s] + g[s] /\ h[s] <= sum[s] /\ h[s] \in Nat
  OBVIOUS
<1> HIDE DEF sum
<1>2. Total(sum, S) = Total(f, S) + Total(g, S)
  BY <1>1, TotalAdd
<1>3. Total(h, S) <= Total(sum, S)
  BY <1>1, TotalMono
<1> QED
  BY <1>2, <1>3

\* A bound that holds for the rows of each owner holds for all rows together.
Family(owner, D, P, f, k, a, b) ==
    /\ IsFiniteSet(P) /\ IsFiniteSet(D) /\ \A c \in D : owner[c] \in P
    /\ \A c \in D : f[c] \in Nat /\ k[c] \in Nat
    /\ \A p \in P : a[p] \in Nat /\ b[p] \in Nat
    /\ \A p \in P : Total(f, Owned(owner, D, p)) + b[p] <= a[p] + Total(k, Owned(owner, D, p))

LEMMA TotalFamily ==
  ASSUME NEW owner, NEW D, NEW P, NEW f, NEW k, NEW a, NEW b,
         Family(owner, D, P, f, k, a, b)
  PROVE  Total(f, D) + Total(b, P) <= Total(a, P) + Total(k, D)
<1> DEFINE F == [p \in P |-> Total(f, Owned(owner, D, p))]
           K == [p \in P |-> Total(k, Owned(owner, D, p))]
           sum == [p \in P |-> F[p] + b[p]]
<1>1. /\ IsFiniteSet(P) /\ IsFiniteSet(D)
      /\ \A p \in P : F[p] \in Nat /\ K[p] \in Nat
  <2> SUFFICES ASSUME NEW p \in P PROVE F[p] \in Nat /\ K[p] \in Nat
    BY DEF Family
  <2>1. IsFiniteSet(Owned(owner, D, p))
    BY FS_Subset DEF Owned, Family
  <2>2. \A c \in Owned(owner, D, p) : f[c] \in Nat /\ k[c] \in Nat
    BY DEF Owned, Family
  <2> QED BY <2>1, <2>2, TotalType
<1>2. Total(F, P) = Total(f, D) /\ Total(K, P) = Total(k, D)
  <2>1. GroupedBy(owner, D, P, f, F) /\ GroupedBy(owner, D, P, k, K)
    BY DEF Family, GroupedBy
  <2> QED BY <2>1, TotalGroups
<1>3. \A p \in P : /\ a[p] \in Nat /\ b[p] \in Nat
                   /\ F[p] + b[p] <= a[p] + K[p]
                   /\ sum[p] = F[p] + b[p]
  BY DEF Family
<1> HIDE DEF F, K, sum
<1>4. Total(sum, P) = Total(F, P) + Total(b, P)
  BY <1>1, <1>3, TotalAdd
<1>5. \A p \in P : sum[p] \in Nat /\ sum[p] <= a[p] + K[p]
  BY <1>1, <1>3
<1>6. Total(sum, P) <= Total(a, P) + Total(K, P)
  BY <1>1, <1>3, <1>5, TotalBelow
<1> QED
  BY <1>2, <1>4, <1>6

\* A column of balances, some of them overdrawn: with what was deducted added
\* again, it sums up to what there was.
LEMMA NetTotalAdd ==
  ASSUME NEW S, IsFiniteSet(S), NEW f, NEW g, NEW h,
         \A s \in S : f[s] \in Int /\ g[s] \in Nat /\ h[s] \in Nat /\ f[s] + g[s] = h[s]
  PROVE  NetTotal(f, S) + Total(g, S) = Total(h, S)
<1> DEFINE have == [s \in S |-> IF f[s] > 0 THEN f[s] ELSE 0]
           owe == [s \in S |-> IF f[s] > 0 THEN 0 ELSE -f[s]]
           neg == [s \in S |-> -f[s]]
           sum == [s \in S |-> have[s] + g[s]]
<1>1. \A s \in S : /\ have[s] \in Nat /\ owe[s] \in Nat /\ g[s] \in Nat /\ h[s] \in Nat
                   /\ sum[s] = have[s] + g[s] /\ sum[s] = owe[s] + h[s]
  OBVIOUS
<1>2. Units(f, S) = Units(have, S) /\ Units(neg, S) = Units(owe, S)
  <2>1. \A s \in S : 1 .. f[s] = 1 .. have[s] /\ 1 .. neg[s] = 1 .. owe[s]
    OBVIOUS
  <2> HIDE DEF have, owe, neg
  <2> QED BY <2>1 DEF Units
<1>3. NetTotal(f, S) = Total(have, S) - Total(owe, S)
  BY <1>2 DEF NetTotal, Total
<1> HIDE DEF have, owe, sum
<1>4. Total(sum, S) = Total(have, S) + Total(g, S)
  BY <1>1, TotalAdd
<1>5. Total(sum, S) = Total(owe, S) + Total(h, S)
  BY <1>1, TotalAdd
<1>6. Total(have, S) \in Nat /\ Total(owe, S) \in Nat /\ Total(g, S) \in Nat /\ Total(h, S) \in Nat
  BY <1>1, TotalType
<1> QED
  BY <1>3, <1>4, <1>5, <1>6

\* g is the book f with n more in entry x.
OneMore(S, f, g, x, n) ==
    /\ IsFiniteSet(S) /\ x \in S /\ n \in Nat
    /\ f \in [S -> Nat]
    /\ g = [f EXCEPT ![x] = @ + n]

\* One entry of a book grows by n: so does the sum of the book.
LEMMA TotalGrows ==
  ASSUME NEW S, NEW f, NEW g, NEW x, NEW n, OneMore(S, f, g, x, n)
  PROVE  Total(g, S) = Total(f, S) + n
<1>1. /\ g[x] = f[x] + n /\ f[x] \in Nat /\ n \in Nat
      /\ \A s \in S \ {x} : f[s] \in Nat /\ f[s] = g[s]
  BY DEF OneMore
<1>2. /\ IsFiniteSet(S) /\ x \in S
      /\ \A s \in S : f[s] \in Nat
  BY DEF OneMore
<1>3. \A s \in S : g[s] \in Nat
  BY DEF OneMore
<1>4. Total(f, S) = Total(f, S \ {x}) + f[x]
  BY <1>2, TotalDropOne, Zenon
<1>5. Total(g, S) = Total(g, S \ {x}) + g[x]
  BY <1>2, <1>3, TotalDropOne, Zenon
<1>6. Total(f, S \ {x}) = Total(g, S \ {x})
  BY <1>1, TotalCong
<1>7. Total(f, S \ {x}) \in Nat
  <2>1. IsFiniteSet(S \ {x})
    BY <1>2, FS_RemoveElement
  <2> QED BY <1>1, <2>1, TotalType
<1> QED
  BY <1>1, <1>4, <1>5, <1>6, <1>7

\* One row of a sum is at most the sum.
LEMMA TotalAtLeastOne ==
  ASSUME NEW S, IsFiniteSet(S), NEW f, \A s \in S : f[s] \in Nat, NEW x \in S
  PROVE  f[x] <= Total(f, S)
<1>1. IsFiniteSet(S \ {x})
  BY FS_RemoveElement
<1>2. Total(f, S) = Total(f, S \ {x}) + f[x]
  BY TotalDropOne, Zenon
<1>3. Total(f, S \ {x}) \in Nat
  BY <1>1, TotalType
<1> QED
  BY <1>2, <1>3

\* Induction on the natural numbers, for a set instead of a predicate.
LEMMA NatSetInduction ==
  ASSUME NEW S \in SUBSET Nat, 0 \in S, \A n \in S : n + 1 \in S
  PROVE  S = Nat
<1> DEFINE Rest == Nat \ S
<1>1. SUFFICES ASSUME Rest # {} PROVE FALSE
  OBVIOUS
<1> HIDE DEF Rest
<1>2. Rest \subseteq Nat
  BY DEF Rest
<1>3. PICK n \in Rest : \A m \in Rest : <<m, n>> \notin OpToRel(<, Nat)
  BY <1>1, <1>2, NatLessThanWellFounded, WFMin
<1>4. n \in Nat /\ n # 0
  BY DEF Rest
<1>5. n - 1 \in S
  <2>1. n - 1 \in Nat /\ n - 1 < n
    BY <1>4
  <2>2. <<n - 1, n>> \in OpToRel(<, Nat)
    BY <1>4, <2>1 DEF OpToRel
  <2> QED BY <1>3, <2>1, <2>2 DEF Rest
<1>6. (n - 1) + 1 \in S
  BY <1>5
<1> QED
  BY <1>4, <1>6 DEF Rest

\* The sum over two sequences of rows, one after the other.
LEMMA TotalConcat ==
  ASSUME NEW m \in Nat, NEW n \in Nat, NEW f, NEW g,
         \A k \in 1 .. (m + n) : f[k] \in Nat,
         \A k \in 1 .. n : g[k] = f[m + k]
  PROVE  Total(f, 1 .. (m + n)) = Total(f, 1 .. m) + Total(g, 1 .. n)
<1> DEFINE Holds == {k \in Nat : k <= n =>
                       Total(f, 1 .. (m + k)) = Total(f, 1 .. m) + Total(g, 1 .. k)}
<1>1. 0 \in Holds
  <2>1. 1 .. 0 = {} /\ m + 0 = m
    OBVIOUS
  <2>2. Total(g, 1 .. 0) = 0
    BY <2>1, TotalEmpty
  <2>3. Total(f, 1 .. m) \in Nat
    <3>1. \A k \in 1 .. m : f[k] \in Int
      OBVIOUS
    <3>2. IsFiniteSet(1 .. m)
      BY FS_Interval
    <3> QED BY <3>1, <3>2, TotalType
  <2> QED BY <2>1, <2>2, <2>3
<1>2. \A k \in Holds : k + 1 \in Holds
  <2> SUFFICES ASSUME NEW k \in Holds, k + 1 <= n
               PROVE  Total(f, 1 .. (m + (k + 1))) = Total(f, 1 .. m) + Total(g, 1 .. (k + 1))
    OBVIOUS
  <2>1. k \in Nat /\ Total(f, 1 .. (m + k)) = Total(f, 1 .. m) + Total(g, 1 .. k)
    OBVIOUS
  <2> HIDE DEF Holds
  <2> DEFINE a == m + (k + 1)
             b == k + 1
  <2>2. a \in Nat \ {0} /\ a - 1 = m + k /\ b \in Nat \ {0} /\ b - 1 = k
    BY <2>1
  <2>3. Total(f, 1 .. a) = Total(f, 1 .. (a - 1)) + f[a]
    <3>1. \A i \in 1 .. a : f[i] \in Nat
      BY <2>1
    <3> HIDE DEF a
    <3> QED BY <2>2, <3>1, TotalNext
  <2>4. Total(g, 1 .. b) = Total(g, 1 .. (b - 1)) + g[b]
    <3>1. \A i \in 1 .. b : g[i] \in Nat
      BY <2>1
    <3> HIDE DEF b
    <3> QED BY <2>2, <3>1, TotalNext
  <2>5. f[a] = g[b] /\ f[a] \in Nat
    BY <2>1
  <2>6. Total(f, 1 .. m) \in Nat /\ Total(g, 1 .. k) \in Nat
    <3>1. /\ \A i \in 1 .. m : f[i] \in Int
          /\ \A i \in 1 .. k : g[i] \in Int
      BY <2>1
    <3>2. IsFiniteSet(1 .. m) /\ IsFiniteSet(1 .. k)
      BY <2>1, FS_Interval
    <3> QED BY <3>1, <3>2, TotalType
  <2> HIDE DEF a, b
  <2>7. Total(f, 1 .. a) = Total(f, 1 .. m) + Total(g, 1 .. b)
    BY <2>1, <2>2, <2>3, <2>4, <2>5, <2>6
  <2> QED BY <2>7 DEF a, b
<1>3. Holds = Nat
  <2>1. Holds \in SUBSET Nat
    OBVIOUS
  <2> HIDE DEF Holds
  <2> QED BY <1>1, <1>2, <2>1, NatSetInduction
<1>4. n \in Holds
  BY <1>3
<1> QED
  BY <1>4

\* g is what f holds after its first m rows.
Shifted(f, g, m, n) ==
    /\ m \in Nat /\ n \in Nat
    /\ \A k \in 1 .. (m + n) : f[k] \in Nat
    /\ \A k \in 1 .. n : g[k] = f[m + k]

\* Rows that were renumbered by m add up to the same.
LEMMA TotalShift ==
  ASSUME NEW m, NEW n, NEW f, NEW g, Shifted(f, g, m, n)
  PROVE  Total(f, (m + 1) .. (m + n)) = Total(g, 1 .. n)
<1> USE DEF Shifted
<1>1. Total(f, 1 .. (m + n)) = Total(f, 1 .. m) + Total(g, 1 .. n)
  BY TotalConcat
<1>2. /\ IsFiniteSet(1 .. m) /\ IsFiniteSet((m + 1) .. (m + n)) /\ IsFiniteSet(1 .. n)
      /\ (1 .. m) \cap ((m + 1) .. (m + n)) = {}
      /\ \A k \in (1 .. m) \cup ((m + 1) .. (m + n)) : f[k] \in Nat
  BY FS_Interval
<1>3. Total(f, (1 .. m) \cup ((m + 1) .. (m + n))) =
        Total(f, 1 .. m) + Total(f, (m + 1) .. (m + n))
  BY <1>2, TotalSplit
<1>4. (1 .. m) \cup ((m + 1) .. (m + n)) = 1 .. (m + n)
  OBVIOUS
<1>5. /\ Total(f, 1 .. m) \in Nat
      /\ Total(f, (m + 1) .. (m + n)) \in Nat
      /\ Total(g, 1 .. n) \in Nat
  <2>1. /\ \A k \in 1 .. m : f[k] \in Int
        /\ \A k \in (m + 1) .. (m + n) : f[k] \in Int
        /\ \A k \in 1 .. n : g[k] \in Int
    OBVIOUS
  <2> QED BY <1>2, <2>1, TotalType
<1>6. Total(f, 1 .. (m + n)) = Total(f, 1 .. m) + Total(f, (m + 1) .. (m + n))
  BY <1>3, <1>4, Zenon
<1> DEFINE a == Total(f, 1 .. (m + n))
           b == Total(f, 1 .. m)
           c == Total(f, (m + 1) .. (m + n))
           d == Total(g, 1 .. n)
<1>7. a = b + d /\ a = b + c /\ b \in Nat /\ c \in Nat /\ d \in Nat
  BY <1>1, <1>5, <1>6
<1> HIDE DEF a, b, c, d
<1>8. c = d
  BY <1>7
<1> QED
  BY <1>8 DEF c, d

-----------------------------------------------------------------------------
(***************************************************************************)
(* What a drain loop takes: at most `cap` in all, and from each source at  *)
(* most its room.                                                          *)
(***************************************************************************)
LEMMA DrainsTake ==
  ASSUME NEW lane, NEW L \in Nat, lane \in [1 .. L -> Nat \ {0}], Len(lane) = L,
         NEW cap \in Nat, NEW takes \in Drains(lane, cap)
  PROVE  \E n \in 0 .. L :
           /\ takes \in [1 .. n -> Nat \ {0}]
           /\ \A k \in 1 .. n : takes[k] <= lane[k]
           /\ Total(takes, 1 .. n) = Due(lane, cap)
           /\ Due(lane, cap) \in 0 .. cap
<1> DEFINE due == Due(lane, cap)
           prefix(k) == Total(lane, 1 .. k)
<1>1. DOMAIN lane = 1 .. L
  OBVIOUS
<1>2. due \in 0 .. cap
  <2>1. Total(lane, 1 .. L) \in Nat
    BY TotalType, FS_Interval
  <2> QED BY <1>1, <2>1 DEF Due, Least
<1>3. PICK n \in 0 .. L :
        /\ LastDrawn(n, lane, cap)
        /\ takes = [k \in 1 .. n |-> IF k < n THEN lane[k] ELSE due - prefix(n-1)]
  BY DEF Drains
<1>4. CASE n = 0
  <2>1. due = 0
    BY <1>3, <1>4 DEF LastDrawn
  <2>2. Total(takes, 1 .. 0) = 0
    <3>1. 1 .. 0 = {}
      OBVIOUS
    <3> QED BY <3>1, TotalEmpty
  <2>3. takes \in [1 .. n -> Nat \ {0}]
    BY <1>3, <1>4
  <2> QED BY <1>2, <1>4, <2>1, <2>2, <2>3
<1>5. CASE n # 0
  <2>1. prefix(n-1) < due /\ due <= prefix(n)
    BY <1>3, <1>5 DEF LastDrawn
  <2>2. prefix(n-1) \in Nat
    <3>1. \A k \in 1 .. (n-1) : lane[k] \in Nat
      BY <1>5
    <3>2. IsFiniteSet(1 .. (n-1))
      BY FS_Interval
    <3> QED BY <3>1, <3>2, TotalType
  <2>4. prefix(n) = prefix(n-1) + lane[n]
    <3>1. \A k \in 1 .. n : lane[k] \in Nat
      BY <1>5
    <3> QED BY <1>5, <3>1, TotalNext
  <2> HIDE DEF due, prefix
  <2>5. takes \in [1 .. n -> Nat \ {0}]
    BY <1>2, <1>3, <1>5, <2>1, <2>2
  <2>6. \A k \in 1 .. n : takes[k] <= lane[k]
    BY <1>2, <1>3, <1>5, <2>1, <2>2, <2>4
  <2>7. Total(takes, 1 .. (n-1)) = prefix(n-1)
    <3>1. \A k \in 1 .. (n-1) : takes[k] = lane[k]
      BY <1>3, <1>5
    <3> QED BY <3>1, TotalCong DEF prefix
  <2>8. Total(takes, 1 .. n) = Total(takes, 1 .. (n-1)) + takes[n]
    <3>1. \A k \in 1 .. n : takes[k] \in Nat
      BY <2>5
    <3> QED BY <1>5, <3>1, TotalNext
  <2>9. takes[n] = due - prefix(n-1)
    BY <1>3, <1>5
  <2>10. Total(takes, 1 .. n) = due
    BY <1>2, <2>2, <2>7, <2>8, <2>9
  <2> QED BY <1>2, <2>5, <2>6, <2>10 DEF due
<1> QED
  BY <1>4, <1>5

\* A drain that found less than it was to take has emptied every source.
LEMMA DrainsAll ==
  ASSUME NEW lane, NEW L \in Nat, lane \in [1 .. L -> Nat \ {0}], Len(lane) = L,
         NEW cap \in Nat, NEW takes \in Drains(lane, cap), Due(lane, cap) < cap
  PROVE  takes = lane
<1> DEFINE prefix(k) == Total(lane, 1 .. k)
           due == Due(lane, cap)
<1>1. DOMAIN lane = 1 .. L
  OBVIOUS
<1>2. \A k \in 0 .. L : prefix(k) \in Nat
  <2> TAKE k \in 0 .. L
  <2>1. IsFiniteSet(1 .. k) /\ \A i \in 1 .. k : lane[i] \in Int
    BY FS_Interval
  <2> QED BY <2>1, TotalType
<1>3. due = prefix(L)
  BY <1>1, <1>2 DEF Due, Least
<1>4. \A k \in 1 .. L : prefix(k) = prefix(k-1) + lane[k]
  <2> TAKE k \in 1 .. L
  <2>1. k \in Nat \ {0} /\ \A i \in 1 .. k : lane[i] \in Nat
    OBVIOUS
  <2> QED BY <2>1, TotalNext
<1>5. PICK n \in 0 .. L :
        /\ LastDrawn(n, lane, cap)
        /\ takes = [k \in 1 .. n |-> IF k < n THEN lane[k] ELSE due - prefix(n-1)]
  BY DEF Drains
<1>6. due <= prefix(n)
  <2>1. CASE n = 0
    BY <1>2, <1>5, <2>1 DEF LastDrawn
  <2>2. CASE n # 0
    BY <1>5, <2>2 DEF LastDrawn
  <2> QED BY <2>1, <2>2
<1> HIDE DEF due
<1>7. n = L
  <2> SUFFICES ASSUME n # L PROVE FALSE
    OBVIOUS
  <2>1. n + 1 \in 1 .. L
    OBVIOUS
  <2>2. prefix(n + 1) <= prefix(L)
    <3>1. IsFiniteSet(1 .. L) /\ 1 .. (n + 1) \in SUBSET (1 .. L)
      BY <2>1, FS_Interval
    <3>2. \A k \in 1 .. L : lane[k] \in Nat /\ lane[k] <= lane[k]
      OBVIOUS
    <3> QED BY <3>1, <3>2, TotalMono
  <2>3. prefix(n + 1) = prefix(n) + lane[n + 1] /\ lane[n + 1] \in Nat \ {0}
    <3>1. prefix(n + 1) = prefix((n + 1) - 1) + lane[n + 1]
      BY <1>4, <2>1
    <3>2. (n + 1) - 1 = n
      OBVIOUS
    <3> QED BY <2>1, <3>1, <3>2
  <2> HIDE DEF prefix
  <2> QED BY <1>2, <1>3, <1>6, <2>2, <2>3
<1>8. takes = [k \in 1 .. L |-> takes[k]]
  BY <1>5, <1>7
<1>9. ASSUME NEW k \in 1 .. L PROVE takes[k] = lane[k]
  <2>1. CASE k < L
    BY <1>5, <1>7, <2>1
  <2>2. CASE k = L
    <3>1. takes[L] = prefix(L) - prefix(L-1)
      BY <1>3, <1>5, <1>7, <2>2
    <3>2. prefix(L) = prefix(L-1) + lane[L] /\ prefix(L-1) \in Nat /\ lane[L] \in Nat
      BY <1>2, <1>4, <2>2
    <3> HIDE DEF prefix
    <3> QED BY <2>2, <3>1, <3>2
  <2> QED BY <2>1, <2>2
<1> QED
  BY <1>8, <1>9

\* A walk that meets no member twice meets them all.
LEMMA WalksMeetAll ==
  ASSUME NEW C, IsFiniteSet(C), NEW w \in [1 .. Cardinality(C) -> C],
         \A i, j \in 1 .. Cardinality(C) : i < j => w[i] # w[j]
  PROVE  \A x \in C : \E i \in 1 .. Cardinality(C) : w[i] = x
<1> DEFINE n == Cardinality(C)
<1>1. n \in Nat
  BY FS_CardinalityType
<1>2. IsFiniteSet(1 .. n) /\ Cardinality(1 .. n) = n
  BY <1>1, FS_Interval
<1>3. w \in Injection(1 .. n, C)
  <2> HIDE DEF n
  <2>1. \A i, j \in 1 .. n : w[i] = w[j] => i = j
    BY <1>1 DEF n
  <2> QED BY <2>1 DEF Injection, IsInjective, n
<1>4. w \in Surjection(1 .. n, C)
  BY <1>2, <1>3, FS_Injection
<1> QED
  BY <1>4 DEF Surjection
=============================================================================
