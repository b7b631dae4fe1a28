--------------------------- MODULE Backing_proofs ---------------------------
(***************************************************************************)
(* What backs the credit of the marketplace, for every team, every set of  *)
(* requests and every bound: a pledge covers what is drawn from it, a fill *)
(* stays within its sources, and along a chain nothing is created.  Only   *)
(* what was booked as overshoot is beyond that.                            *)
(***************************************************************************)
EXTENDS Marketplace_proofs

USE UsersAssumption, RequestsAssumption, BoundsAssumption

\* The rows that hang together, under their root.
Root(g) == IF IsRoot(g) THEN g ELSE grants[g].origin

\* A row with a parent is one hop below its root, and has its root's giver.
LEMMA Rooted ==
  ASSUME TypeOK, ChainWellFormed
  PROVE  /\ \A c \in GrantIds : /\ Root(c) \in GrantIds /\ IsRoot(Root(c))
                                /\ grants[Root(c)].donor = grants[c].donor
         /\ \A g \in GrantIds : \A c \in Children(g) :
              c \in GrantIds /\ c # g /\ ~ IsRoot(c) /\ Root(c) = g
         /\ \A p \in ContributionIds : \A c \in Draws(p) : Root(c) = contributions[p].origin
         /\ \A g \in GrantIds : g # 0
<1>1. \A c \in GrantIds : c \in 1 .. Len(grants)
  BY Rows
<1>2. \A c \in GrantIds : ~ IsRoot(c) =>
        /\ grants[c].origin \in GrantIds /\ grants[c].origin # c
        /\ IsRoot(grants[c].origin)
        /\ grants[c].donor = grants[grants[c].origin].donor
  <2> SUFFICES ASSUME NEW c \in GrantIds, ~ IsRoot(c)
               PROVE  /\ grants[c].origin \in GrantIds /\ grants[c].origin # c
                      /\ IsRoot(grants[c].origin)
                      /\ grants[c].donor = grants[grants[c].origin].donor
    OBVIOUS
  <2>1. ChildWellFormed(c)
    BY DEF ChainWellFormed
  <2>2. grants[c].origin \in 1 .. (c - 1) /\ c \in 1 .. Len(grants) /\ Len(grants) \in Nat
        /\ GrantIds = 1 .. Len(grants)
    BY <1>1, <2>1, Rows DEF ChildWellFormed
  <2> QED BY <2>1, <2>2 DEF ChildWellFormed
<1>3. \A g \in GrantIds : g # 0
  BY <1>1, Rows
<1>4. \A g \in GrantIds : \A c \in Children(g) :
        c \in GrantIds /\ c # g /\ ~ IsRoot(c) /\ Root(c) = g
  BY <1>2, <1>3 DEF Children, IsRoot, Root
<1>5. ASSUME NEW p \in ContributionIds, NEW c \in Draws(p)
      PROVE  Root(c) = contributions[p].origin
  <2>1. c \in GrantIds /\ grants[c].contribution = p
    BY DEF Draws
  <2>2. p # 0
    BY ReturnedRows
  <2>3. ~ IsRoot(c) /\ ChildWellFormed(c)
    BY <2>1, <2>2 DEF ChainWellFormed
  <2> QED BY <2>1, <2>2, <2>3 DEF ChildWellFormed, Root
<1> QED
  BY <1>2, <1>3, <1>4, <1>5 DEF Root

-----------------------------------------------------------------------------
(* Sums of which one row, or none, changes. *)

\* Over the rows S, g is f except that row x may have grown by up to n.
Raised(S, f, g, x, n) ==
    /\ IsFiniteSet(S) /\ n \in Nat
    /\ \A s \in S : f[s] \in Nat /\ g[s] \in Nat
    /\ \A s \in S : g[s] <= f[s] + (IF s = x THEN n ELSE 0)

\* If only row x may have grown, by n at most, so has the sum.
LEMMA TotalRaise ==
  ASSUME NEW S, NEW f, NEW g, NEW x, NEW n, Raised(S, f, g, x, n)
  PROVE  Total(g, S) <= Total(f, S) + n
<1> USE DEF Raised
<1>1. CASE x \notin S
  <2>1. \A s \in S : g[s] \in Nat /\ f[s] \in Nat /\ g[s] <= f[s]
    BY <1>1
  <2>2. Total(g, S) <= Total(f, S)
    BY <2>1, TotalMono
  <2>3. Total(g, S) \in Nat /\ Total(f, S) \in Nat
    BY TotalType
  <2> QED BY <2>2, <2>3
<1>2. CASE x \in S
  <2> DEFINE R == S \ {x}
  <2>1. IsFiniteSet(R) /\ R \subseteq S
    BY FS_RemoveElement
  <2>2. Total(f, S) = Total(f, R) + f[x] /\ Total(g, S) = Total(g, R) + g[x]
    BY <1>2, TotalDropOne
  <2>3. \A s \in R : g[s] \in Nat /\ f[s] \in Nat /\ g[s] <= f[s]
    OBVIOUS
  <2> HIDE DEF R
  <2>4. Total(g, R) <= Total(f, R)
    BY <2>1, <2>3, TotalMono
  <2>5. Total(g, R) \in Nat /\ Total(f, R) \in Nat
    BY <2>1, <2>3, TotalType
  <2>6. g[x] \in Nat /\ f[x] \in Nat /\ g[x] <= f[x] + n
    BY <1>2
  <2> QED BY <2>2, <2>4, <2>5, <2>6
<1> QED
  BY <1>1, <1>2

\* Over the rows S, g is f except that row x has grown by n.
RaisedBy(S, f, g, x, n) ==
    /\ IsFiniteSet(S) /\ n \in Nat
    /\ \A s \in S : f[s] \in Nat
    /\ \A s \in S : g[s] = f[s] + (IF s = x THEN n ELSE 0)

\* If row x has grown by n and nothing else changed, the sum has if x is in it.
LEMMA TotalRaised ==
  ASSUME NEW S, NEW f, NEW g, NEW x, NEW n, RaisedBy(S, f, g, x, n)
  PROVE  Total(g, S) = Total(f, S) + (IF x \in S THEN n ELSE 0)
<1> USE DEF RaisedBy
<1>1. CASE x \notin S
  <2>1. Total(g, S) = Total(f, S)
    BY <1>1, TotalCong
  <2>2. Total(f, S) \in Nat
    BY TotalType
  <2> QED BY <1>1, <2>1, <2>2
<1>2. CASE x \in S
  <2> DEFINE R == S \ {x}
  <2>1. IsFiniteSet(R) /\ R \subseteq S
    BY FS_RemoveElement
  <2>2. \A s \in S : g[s] \in Nat
    OBVIOUS
  <2>3. Total(f, S) = Total(f, R) + f[x] /\ Total(g, S) = Total(g, R) + g[x]
    BY <1>2, <2>2, TotalDropOne
  <2>4. \A s \in R : g[s] = f[s]
    OBVIOUS
  <2>5. \A s \in R : f[s] \in Nat
    OBVIOUS
  <2> HIDE DEF R
  <2>6. Total(g, R) = Total(f, R) /\ Total(f, R) \in Nat
    BY <2>1, <2>4, <2>5, TotalCong, TotalType
  <2>7. g[x] = f[x] + n /\ f[x] \in Nat
    BY <1>2
  <2> QED BY <1>2, <2>3, <2>6, <2>7
<1> QED
  BY <1>1, <1>2

-----------------------------------------------------------------------------
(* Burning on a grant *)

\* What record_consumption does to the sums of events: n more on g, of which x
\* are beyond what g held.
Burns(g, n, x) ==
    /\ g \in GrantIds /\ n \in Nat /\ x \in Nat
    /\ \A c \in GrantIds : /\ used'[c] = used[c] + (IF c = g THEN n ELSE 0)
                           /\ over'[c] = over[c] + (IF c = g THEN x ELSE 0)
    /\ \A c \in (1 .. MaxGrants) \ {g} : used'[c] = used[c] /\ over'[c] = over[c]
    /\ n <= Greatest(0, GrantRemaining[g]) + x
    /\ Voided(g) => x = n
    /\ UNCHANGED <<accountVars, requestVars, grants, contributions>>

\* Recording a burn books on the row what it still held, the rest as overshoot.
LEMMA RecordGrantBurns ==
  ASSUME TypeOK, NEW g \in GrantIds, NEW n \in Nat, NEW overshoot, RecordGrant(g, n, overshoot)
  PROVE  \E x \in Nat : Burns(g, n, x)
<1> DEFINE room == Greatest(0, GrantRemaining[g])
           x == Greatest(0, n - room)
<1>1. /\ used' = [used EXCEPT ![g] = @ + n] /\ over' = [over EXCEPT ![g] = @ + x]
      /\ UNCHANGED <<accountVars, requestVars, grants, contributions>>
  BY DEF RecordGrant
<1>2. GrantRemaining[g] \in Int /\ (Voided(g) => GrantRemaining[g] = 0)
  BY BalanceTypes DEF GrantRemaining
<1>3. room \in Nat /\ x \in Nat /\ n <= room + x /\ (Voided(g) => x = n)
  BY <1>2 DEF Greatest
<1> HIDE DEF x
<1>4. /\ used \in [1 .. MaxGrants -> Nat] /\ over \in [1 .. MaxGrants -> Nat]
      /\ \A c \in GrantIds : c \in 1 .. MaxGrants
  BY Rows DEF TypeOK
<1>5. \A c \in GrantIds : /\ used'[c] = used[c] + (IF c = g THEN n ELSE 0)
                          /\ over'[c] = over[c] + (IF c = g THEN x ELSE 0)
  BY <1>1, <1>3, <1>4
<1>6. \A c \in (1 .. MaxGrants) \ {g} : used'[c] = used[c] /\ over'[c] = over[c]
  BY <1>1, <1>4
<1> QED
  BY <1>1, <1>3, <1>5, <1>6 DEF Burns

\* A burn charges the burned leaf, and its root, by no more than the overshoot.
LEMMA BurnCharges ==
  ASSUME TypeOK, ChainWellFormed, NEW g, NEW n, NEW x, Burns(g, n, x)
  PROVE  /\ GrantIds' = GrantIds
         /\ \A c \in GrantIds : LeafCharge'[c] <= LeafCharge[c] + (IF c = g THEN x ELSE 0)
         /\ \A c \in GrantIds : LeafCharge'[c] \in Nat /\ Charge'[c] \in Nat
         /\ \A h \in GrantIds : IsRoot(h) =>
              Charge'[h] <= Charge[h] + (IF h = Root(g) THEN x ELSE 0)
<1>1. /\ grants' = grants /\ cancelled' = cancelled /\ GrantIds' = GrantIds
      /\ g \in GrantIds /\ n \in Nat /\ x \in Nat
  BY DEF Burns, GrantIds, requestVars
<1>2. \A c \in GrantIds : (Voided(c)' <=> Voided(c)) /\ Children(c)' = Children(c)
  BY <1>1 DEF Voided, Children
<1>3. \A c \in GrantIds : used'[c] = used[c] + (IF c = g THEN n ELSE 0)
  BY DEF Burns
<1>4. Voided(g) => x = n
  BY DEF Burns
<1>5. \A c \in GrantIds : used[c] \in Nat /\ grants[c].amount \in Nat
  BY Rows DEF GrantRows
<1>6. ASSUME NEW c \in GrantIds
      PROVE  LeafCharge'[c] <= LeafCharge[c] + (IF c = g THEN x ELSE 0)
  <2>1. LeafCharge[c] = IF Voided(c) THEN Least(grants[c].amount, used[c]) ELSE grants[c].amount
    BY DEF LeafCharge
  <2>2. LeafCharge'[c] = IF Voided(c) THEN Least(grants[c].amount, used'[c]) ELSE grants[c].amount
    BY <1>1, <1>2 DEF LeafCharge
  <2> QED BY <1>1, <1>3, <1>4, <1>5, <2>1, <2>2 DEF Least
<1>8. \A c \in GrantIds : LeafCharge'[c] \in Nat
  <2> TAKE c \in GrantIds
  <2>1. LeafCharge'[c] = IF Voided(c) THEN Least(grants[c].amount, used'[c]) ELSE grants[c].amount
    BY <1>1, <1>2 DEF LeafCharge
  <2> QED BY <1>1, <1>3, <1>5, <2>1 DEF Least
<1>7. ASSUME NEW h \in GrantIds, IsRoot(h)
      PROVE  Charge'[h] <= Charge[h] + (IF h = Root(g) THEN x ELSE 0)
  <2>1. Charge[h] = IF Voided(h) THEN Least(grants[h].amount, used[h] + Moved(h)) ELSE grants[h].amount
    BY DEF Charge
  <2>2. Charge'[h] = IF Voided(h) THEN Least(grants[h].amount, used'[h] + Moved(h)') ELSE grants[h].amount
    BY <1>1, <1>2 DEF Charge
  <2>3. Children(h) \in SUBSET GrantIds /\ IsFiniteSet(Children(h))
    BY Rows, FS_Subset DEF Children
  <2>4. \A c \in Children(h) : LeafCharge[c] \in Nat /\ LeafCharge'[c] \in Nat
    BY <1>8, <2>3, ChargeTypes
  <2>5. /\ Moved(h) = Total(LeafCharge, Children(h)) /\ Moved(h) \in Nat
        /\ Moved(h)' = Total(LeafCharge', Children(h)) /\ Moved(h)' \in Nat
    <3>1. Moved(h) = Total(LeafCharge, Children(h)) /\ Moved(h)' = Total(LeafCharge', Children(h))
      BY <1>2 DEF Moved
    <3> QED BY <2>3, <2>4, <3>1, TotalType
  <2>6. CASE g = h
    <3>1. \A c \in Children(h) : LeafCharge'[c] <= LeafCharge[c]
      BY <1>6, <2>4, <2>6, Rooted DEF Children
    <3>2. Moved(h)' <= Moved(h)
      BY <2>3, <2>4, <2>5, <3>1, TotalMono
    <3>3. Root(g) = h
      BY <1>7, <2>6 DEF Root
    <3> QED BY <1>1, <1>3, <1>4, <1>5, <2>1, <2>2, <2>5, <2>6, <3>2, <3>3 DEF Least
  <2>7. CASE g \in Children(h)
    <3>1. \A c \in Children(h) : LeafCharge'[c] <= LeafCharge[c] + (IF c = g THEN x ELSE 0)
      BY <1>6 DEF Children
    <3>2. Total(LeafCharge', Children(h)) <= Total(LeafCharge, Children(h)) + x
      <4>1. Raised(Children(h), LeafCharge, LeafCharge', g, x)
        BY <1>1, <2>3, <2>4, <3>1 DEF Raised
      <4> QED BY <4>1, TotalRaise
    <3>3. Root(g) = h /\ g # h
      BY <2>7, Rooted
    <3>4. Moved(h)' <= Moved(h) + x
      BY <2>5, <3>2
    <3> QED BY <1>1, <1>3, <1>5, <2>1, <2>2, <2>5, <3>3, <3>4 DEF Least
  <2>8. CASE g # h /\ g \notin Children(h)
    <3>1. \A c \in Children(h) : LeafCharge'[c] <= LeafCharge[c]
      BY <1>6, <2>4, <2>8 DEF Children
    <3>2. Moved(h)' <= Moved(h)
      BY <2>3, <2>4, <2>5, <3>1, TotalMono
    <3>3. Root(g) # h
      BY <1>1, <2>8 DEF Root, Children
    <3> QED BY <1>3, <1>5, <2>1, <2>2, <2>5, <2>8, <3>2, <3>3 DEF Least
  <2> QED BY <2>6, <2>7, <2>8
<1>9. \A c \in GrantIds : Charge'[c] \in Nat
  <2> TAKE c \in GrantIds
  <2>1. Charge'[c] = IF Voided(c) THEN Least(grants[c].amount, used'[c] + Moved(c)') ELSE grants[c].amount
    BY <1>1, <1>2 DEF Charge
  <2>2. Moved(c)' = Total(LeafCharge', Children(c)) /\ Children(c) \in SUBSET GrantIds
    BY <1>2 DEF Moved, Children
  <2>3. Moved(c)' \in Nat
    BY <1>8, <2>2, GrantSum
  <2> QED BY <1>1, <1>3, <1>5, <2>1, <2>3 DEF Least
<1> QED
  BY <1>1, <1>6, <1>7, <1>8, <1>9

-----------------------------------------------------------------------------
(* What a fill draws from. *)

\* If at most one row joined a sum, with n at most, the sum grew by n at most.
LEMMA TotalOneNew ==
  ASSUME NEW S, IsFiniteSet(S), NEW T, S \subseteq T, NEW f, NEW g, NEW n \in Nat,
         \A s \in S : f[s] \in Nat /\ g[s] = f[s],
         \A s \in T \ S : g[s] \in Nat /\ g[s] <= n,
         \A s, t \in T \ S : s = t
  PROVE  Total(g, T) <= Total(f, S) + n /\ Total(g, T) \in Nat
<1>1. Total(g, S) = Total(f, S) /\ Total(f, S) \in Nat
  BY TotalCong, TotalType
<1>2. CASE T = S
  BY <1>1, <1>2
<1>3. CASE T # S
  <2>1. PICK t \in T \ S : TRUE
    BY <1>3
  <2>2. T = S \cup {t} /\ S = T \ {t} /\ t \in T
    BY <2>1
  <2>3. IsFiniteSet(T) /\ \A s \in T : g[s] \in Nat
    BY <2>1, <2>2, FS_AddElement
  <2>4. Total(g, T) = Total(g, S) + g[t]
    BY <2>2, <2>3, TotalDropOne
  <2> QED BY <1>1, <2>1, <2>2, <2>4
<1> QED
  BY <1>2, <1>3

\* The rows after a fill, without their positions.
LEMMA FillRows ==
  ASSUME TypeOK, NEW r \in Requests, NEW new, Fill(r, new)
  PROVE  /\ UNCHANGED <<accountVars, requestVars, contributions, burnVars>>
         /\ GrantIds \subseteq GrantIds' /\ ContributionIds' = ContributionIds
         /\ \A c \in GrantIds : /\ grants'[c] = grants[c]
                                /\ Voided(c)' <=> Voided(c)
                                /\ LeafCharge'[c] = LeafCharge[c]
         /\ \A c \in GrantIds' \ GrantIds :
              /\ NewRow(r, grants'[c]) /\ grants'[c] \in GrantRows
              /\ ~ Voided(c)' /\ LeafCharge'[c] = grants'[c].amount
              /\ Charge'[c] = grants'[c].amount
         /\ \A c, d \in GrantIds' \ GrantIds : c # d => Apart(grants'[c], grants'[d])
<1>1. UNCHANGED <<accountVars, requestVars, contributions, burnVars>>
  BY AfterFill
<1>2. /\ GrantIds = 1 .. Len(grants) /\ Len(grants) \in Nat /\ Len(new) \in Nat
      /\ GrantIds' = 1 .. (Len(grants) + Len(new))
  BY AfterFill, Rows
<1>3. \A c \in GrantIds : c \in GrantIds' /\ grants'[c] = grants[c]
  BY <1>2, AfterFill
<1>4. \A c \in GrantIds : Voided(c)' <=> Voided(c)
  BY <1>1, <1>3 DEF Voided, requestVars
<1>5. \A c \in GrantIds : LeafCharge'[c] = LeafCharge[c]
  BY <1>1, <1>3, <1>4 DEF LeafCharge, burnVars
<1>6. ASSUME NEW c \in GrantIds' \ GrantIds
      PROVE  /\ c - Len(grants) \in 1 .. Len(new) /\ c = Len(grants) + (c - Len(grants))
             /\ grants'[c] = new[c - Len(grants)]
  <2>1. c - Len(grants) \in 1 .. Len(new) /\ c = Len(grants) + (c - Len(grants))
    BY <1>2
  <2>2. grants'[Len(grants) + (c - Len(grants))] = new[c - Len(grants)]
    BY <2>1, AfterFill
  <2> QED BY <2>1, <2>2
<1>7. ASSUME NEW c \in GrantIds' \ GrantIds
      PROVE  /\ NewRow(r, grants'[c]) /\ grants'[c] \in GrantRows
             /\ ~ Voided(c)' /\ LeafCharge'[c] = grants'[c].amount
             /\ Charge'[c] = grants'[c].amount
  <2> DEFINE i == c - Len(grants)
  <2>0. i \in 1 .. Len(new) /\ grants'[c] = new[i]
    BY <1>6
  <2> HIDE DEF i
  <2>1. NewRow(r, grants'[c]) /\ grants'[c] \in GrantRows /\ grants'[c].request = r
    <3>1. \A k \in 1 .. Len(new) : NewRow(r, new[k])
      BY DEF Fill
    <3>2. \A k \in 1 .. Len(new) : new[k].request = r /\ new[k] \in GrantRows
      BY AfterFill
    <3> QED BY <2>0, <3>1, <3>2
  <2>2. r \notin cancelled'
    BY <1>1 DEF Fill, Fundable, requestVars
  <2>3. ~ Voided(c)'
    BY <2>1, <2>2 DEF Voided
  <2> QED BY <2>1, <2>3 DEF LeafCharge, Charge
<1>8. ASSUME NEW c \in GrantIds' \ GrantIds, NEW d \in GrantIds' \ GrantIds, c # d
      PROVE  Apart(grants'[c], grants'[d])
  <2>1. c - Len(grants) # d - Len(grants)
    BY <1>2, <1>8
  <2> QED BY <1>6, <2>1 DEF Fill
<1> QED
  BY <1>1, <1>3, <1>4, <1>5, <1>7, <1>8 DEF ContributionIds

\* Where the credit of a new row comes from, and that there was enough of it.
LEMMA RowSource ==
  ASSUME TypeOK, ChainWellFormed, NEW r \in Requests, NEW x, NewRow(r, x)
  PROVE  /\ x.origin = 0 => x.contribution = 0
         /\ x.origin = 0 => \/ x.source = "pool" /\ x.amount <= PledgeRemaining(x.donor)
                            \/ x.source = "personal" /\ x.amount <= PersonalRemaining(x.donor)
         /\ x.origin # 0 =>
              /\ x.origin \in GrantIds /\ IsRoot(x.origin) /\ ~ Voided(x.origin)
              /\ \/ x.contribution = 0 /\ x.amount <= GrantRemaining[x.origin]
                 \/ /\ x.contribution \in ContributionIds
                    /\ contributions[x.contribution].origin = x.origin
                    /\ x.amount <= Capacity[x.contribution]
<1>1. CASE Personal(r, x)
  BY <1>1 DEF Personal, PersonalGrant
<1>2. CASE Pledged(r, x)
  BY <1>2 DEF Pledged, PledgeDraw, PersonalGrant
<1>3. CASE Drawing(r, x)
  <2>1. PICK p \in ContributionIds, n \in Nat \ {0} :
          n <= Capacity[p] /\ x = ContributionDraw(r, p, n)
    BY <1>3 DEF Drawing
  <2>2. x.origin = contributions[p].origin /\ x.contribution = p /\ x.amount = n
    BY <2>1 DEF ContributionDraw, PledgeDraw, PersonalGrant
  <2>3. contributions[p].origin \in GrantIds /\ IsRoot(contributions[p].origin)
    BY DEF ChainWellFormed, ContributionWellFormed
  <2>4. ~ Voided(contributions[p].origin)
    BY <2>1 DEF Capacity
  <2>5. contributions[p].origin # 0
    BY <2>3, Rows
  <2> QED BY <2>1, <2>2, <2>3, <2>4, <2>5
<1>4. CASE Passing(r, x)
  <2>1. PICK g \in GrantIds, n \in Nat \ {0} :
          IsRoot(g) /\ n <= GrantRemaining[g] /\ x = Transfer(r, g, n)
    BY <1>4 DEF Passing
  <2>2. x.origin = g /\ x.contribution = 0 /\ x.amount = n
    BY <2>1 DEF Transfer, PersonalGrant
  <2>3. ~ Voided(g)
    BY <2>1 DEF GrantRemaining
  <2>4. g # 0
    BY Rows
  <2> QED BY <2>1, <2>2, <2>3, <2>4
<1> QED
  BY <1>1, <1>2, <1>3, <1>4 DEF NewRow

\* A fill leaves what the older root grants charge.
LEMMA FillCharges ==
  ASSUME TypeOK, ChainWellFormed, NEW r \in Requests, NEW new, Fill(r, new)
  PROVE  \A g \in GrantIds : IsRoot(g) => Charge'[g] = Charge[g]
<1> SUFFICES ASSUME NEW g \in GrantIds, IsRoot(g) PROVE Charge'[g] = Charge[g]
  OBVIOUS
<1>1. /\ grants'[g] = grants[g] /\ (Voided(g)' <=> Voided(g)) /\ used' = used
      /\ g \in GrantIds'
  BY FillRows DEF burnVars
<1>2. CASE ~ Voided(g)
  BY <1>1, <1>2 DEF Charge
<1>3. CASE Voided(g)
  <2>1. Children(g)' = Children(g)
    <3>1. \A c \in GrantIds : grants'[c] = grants[c] /\ c \in GrantIds'
      BY FillRows
    <3>2. \A c \in GrantIds' \ GrantIds : grants'[c].origin # g
      <4> TAKE c \in GrantIds' \ GrantIds
      <4>1. NewRow(r, grants'[c])
        BY FillRows
      <4>2. g # 0
        BY Rows
      <4> QED BY <1>3, <4>1, <4>2, RowSource
    <3> QED BY <3>1, <3>2 DEF Children
  <2>2. \A c \in Children(g) : LeafCharge'[c] = LeafCharge[c]
    BY FillRows DEF Children
  <2>3. Moved(g)' = Moved(g)
    BY <2>1, <2>2, TotalCong DEF Moved
  <2> QED BY <1>1, <2>3 DEF Charge
<1> QED
  BY <1>2, <1>3

\* A fill grants at most one row of a giver's own, so what he has granted from
\* a source grows by that row only.
LEMMA FillGrants ==
  ASSUME TypeOK, ChainWellFormed, NEW r \in Requests, NEW new, Fill(r, new),
         NEW u \in Users, NEW source, NEW n \in Nat,
         \A c \in Roots(u, source)' \ GrantIds : grants'[c].amount <= n
  PROVE  GrantedOut(u, source)' <= GrantedOut(u, source) + n /\ GrantedOut(u, source)' \in Nat
<1> DEFINE S == Roots(u, source)
           T == Roots(u, source)'
<1>1. S \subseteq T /\ T \cap GrantIds = S
  BY FillRows DEF Roots, IsRoot
<1>2. \A c \in S : Charge[c] \in Nat /\ Charge'[c] = Charge[c]
  BY ChargeTypes, FillCharges DEF Roots
<1>3. \A c \in T \ S : c \in GrantIds' \ GrantIds
  BY <1>1 DEF Roots
<1>4. \A c \in T \ S : Charge'[c] \in Nat /\ Charge'[c] <= n
  BY <1>3, FillRows DEF GrantRows
<1>5. \A c, d \in T \ S : c = d
  <2>1. \A c \in T : grants'[c].origin = 0 /\ grants'[c].donor = u
    BY DEF Roots, IsRoot
  <2>2. \A c \in T \ S : grants'[c].contribution = 0
    <3> TAKE c \in T \ S
    <3>1. NewRow(r, grants'[c]) /\ grants'[c].origin = 0
      BY <1>3, <2>1, FillRows
    <3> QED BY <3>1, RowSource
  <2> QED BY <1>3, <2>1, <2>2, FillRows DEF Apart
<1>6. IsFiniteSet(S)
  BY Rows, FS_Subset DEF Roots
<1> HIDE DEF S, T
<1>7. Total(Charge', T) <= Total(Charge, S) + n /\ Total(Charge', T) \in Nat
  BY <1>1, <1>2, <1>4, <1>5, <1>6, TotalOneNew
<1> QED
  BY <1>7 DEF GrantedOut, S, T

-----------------------------------------------------------------------------
(* Cancelling a request only gives back. *)

\* No grant charges more once a request is cancelled (cancel_request).
LEMMA CancelCharges ==
  ASSUME TypeOK, NEW r \in Requests, CancelRequest(r)
  PROVE  /\ UNCHANGED <<accountVars, grants, contributions, burnVars>> /\ GrantIds' = GrantIds
         /\ cancelled' = cancelled \cup {r}
         /\ \A c \in GrantIds : LeafCharge'[c] \in Nat /\ LeafCharge'[c] <= LeafCharge[c]
         /\ \A c \in GrantIds : Charge'[c] \in Nat /\ Charge'[c] <= Charge[c]
<1>1. /\ UNCHANGED <<accountVars, grants, contributions, burnVars>> /\ GrantIds' = GrantIds
      /\ cancelled' = cancelled \cup {r}
  BY DEF CancelRequest, GrantIds
<1>2. \A c \in GrantIds : (Voided(c) => Voided(c)') /\ Children(c)' = Children(c)
  BY <1>1 DEF Voided, Children
<1>3. \A c \in GrantIds : used[c] \in Nat /\ used'[c] = used[c] /\ grants[c].amount \in Nat
  BY <1>1, Rows DEF GrantRows, burnVars
<1>4. ASSUME NEW c \in GrantIds
      PROVE  LeafCharge'[c] \in Nat /\ LeafCharge'[c] <= LeafCharge[c]
  <2>1. LeafCharge[c] = IF Voided(c) THEN Least(grants[c].amount, used[c]) ELSE grants[c].amount
    BY DEF LeafCharge
  <2>2. LeafCharge'[c] = IF Voided(c)' THEN Least(grants[c].amount, used[c]) ELSE grants[c].amount
    BY <1>1 DEF LeafCharge, burnVars
  <2> QED BY <1>2, <1>3, <2>1, <2>2 DEF Least
<1>5. ASSUME NEW c \in GrantIds
      PROVE  Charge'[c] \in Nat /\ Charge'[c] <= Charge[c]
  <2>1. Charge[c] = IF Voided(c) THEN Least(grants[c].amount, used[c] + Moved(c)) ELSE grants[c].amount
    BY DEF Charge
  <2>2. Charge'[c] = IF Voided(c)' THEN Least(grants[c].amount, used[c] + Moved(c)') ELSE grants[c].amount
    BY <1>1 DEF Charge, burnVars
  <2>3. /\ Moved(c) = Total(LeafCharge, Children(c))
        /\ Moved(c)' = Total(LeafCharge', Children(c))
        /\ Children(c) \in SUBSET GrantIds
    BY <1>2 DEF Moved, Children
  <2>4. IsFiniteSet(Children(c)) /\ Moved(c)' \in Nat /\ Moved(c) \in Nat
    BY <1>4, <2>3, GrantSum, ChargeTypes
  <2>5. \A d \in Children(c) :
          LeafCharge'[d] \in Nat /\ LeafCharge[d] \in Nat /\ LeafCharge'[d] <= LeafCharge[d]
    BY <1>4, <2>3, ChargeTypes
  <2>6. Moved(c)' <= Moved(c)
    BY <2>3, <2>4, <2>5, TotalMono
  <2> QED BY <1>2, <1>3, <2>1, <2>2, <2>4, <2>6 DEF Least
<1> QED
  BY <1>1, <1>4, <1>5

\* If no root grant charges more, no giver has granted more.
LEMMA GrantedFalls ==
  ASSUME TypeOK, UNCHANGED grants,
         \A c \in GrantIds : IsRoot(c) => Charge'[c] \in Nat /\ Charge'[c] <= Charge[c],
         NEW u, NEW source
  PROVE  GrantedOut(u, source)' <= GrantedOut(u, source) /\ GrantedOut(u, source)' \in Nat
<1> DEFINE S == Roots(u, source)
<1>1. Roots(u, source)' = S /\ IsFiniteSet(S)
  BY Rows, FS_Subset DEF Roots, IsRoot, GrantIds
<1>2. \A c \in S : Charge'[c] \in Nat /\ Charge[c] \in Nat /\ Charge'[c] <= Charge[c]
  BY ChargeTypes DEF Roots
<1> HIDE DEF S
<1>3. Total(Charge', S) <= Total(Charge, S) /\ Total(Charge', S) \in Nat
  BY <1>1, <1>2, TotalMono, TotalType
<1> QED
  BY <1>1, <1>3 DEF GrantedOut, S

-----------------------------------------------------------------------------
(* A pledge covers what is drawn from it. *)

DonorRows(u) == {g \in GrantIds : grants[g].donor = u}
OverOf(u)    == Total(over, DonorRows(u))

\* What was booked as overshoot on a giver's grants is a natural number.
LEMMA OverTypes ==
  ASSUME TypeOK, NEW u
  PROVE  IsFiniteSet(DonorRows(u)) /\ OverOf(u) \in Nat
BY Rows, GrantSum DEF DonorRows, OverOf

\* A giver with a new row of his own has not given more than he had left.
LEMMA FillPersonal ==
  ASSUME TypeOK, ChainWellFormed, NEW r \in Requests, NEW new, Fill(r, new), NEW u \in Users,
         \E c \in Roots(u, "personal")' : c \notin GrantIds
  PROVE  PersonalRemaining(u)' >= 0
<1> DEFINE n == PersonalRemaining(u)
<1>1. \A c \in Roots(u, "personal")' \ GrantIds :
        grants'[c].amount \in Nat \ {0} /\ grants'[c].amount <= n
  <2> TAKE c \in Roots(u, "personal")' \ GrantIds
  <2>1. /\ c \in GrantIds' \ GrantIds /\ grants'[c].origin = 0
        /\ grants'[c].source = "personal" /\ grants'[c].donor = u
    BY DEF Roots, IsRoot
  <2>2. NewRow(r, grants'[c]) /\ grants'[c] \in GrantRows
    BY <2>1, FillRows
  <2>3. grants'[c].amount <= n
    BY <2>1, <2>2, RowSource
  <2> QED BY <2>2, <2>3 DEF GrantRows
<1>2. n \in Nat \ {0}
  <2>1. n \in Int
    BY BalanceTypes
  <2> HIDE DEF n
  <2> QED BY <1>1, <2>1
<1>3. u \in rows /\ n = quota[u] - pledge[u] - selfBurn[u] - GrantedOut(u, "personal")
  BY <1>2 DEF PersonalRemaining
<1> HIDE DEF n
<1>4. /\ GrantedOut(u, "personal")' <= GrantedOut(u, "personal") + n
      /\ GrantedOut(u, "personal")' \in Nat
  BY <1>1, <1>2, FillGrants
<1>5. quota[u] \in Nat /\ pledge[u] \in Nat /\ selfBurn[u] \in Nat
      /\ GrantedOut(u, "personal") \in Nat
  BY BalanceTypes DEF TypeOK
<1>6. PersonalRemaining(u)' = quota[u] - pledge[u] - selfBurn[u] - GrantedOut(u, "personal")'
  BY <1>3, FillRows DEF PersonalRemaining, accountVars
<1> QED
  BY <1>2, <1>3, <1>4, <1>5, <1>6

\* The pledge of a giver with a new pool row covers all his pool rows.
LEMMA FillPledge ==
  ASSUME TypeOK, ChainWellFormed, NEW r \in Requests, NEW new, Fill(r, new), NEW u \in Users,
         \E c \in Roots(u, "pool")' : c \notin GrantIds
  PROVE  PledgeUsed(u)' <= pledge[u] /\ PledgeUsed(u)' \in Nat
<1>1. \A c \in Roots(u, "pool")' \ GrantIds :
        grants'[c].amount \in Nat \ {0} /\ grants'[c].amount <= PledgeRemaining(u)
  <2> TAKE c \in Roots(u, "pool")' \ GrantIds
  <2>1. /\ c \in GrantIds' \ GrantIds /\ grants'[c].origin = 0
        /\ grants'[c].source = "pool" /\ grants'[c].donor = u
    BY DEF Roots, IsRoot
  <2>2. NewRow(r, grants'[c]) /\ grants'[c] \in GrantRows
    BY <2>1, FillRows
  <2>3. grants'[c].amount <= PledgeRemaining(u)
    BY <2>1, <2>2, RowSource
  <2> QED BY <2>2, <2>3 DEF GrantRows
<1>2. PledgeUsed(u) \in Nat /\ PledgeRemaining(u) \in Nat /\ pledge[u] \in Nat
  BY BalanceTypes DEF TypeOK
<1>3. PledgeUsed(u)' <= PledgeUsed(u) + PledgeRemaining(u) /\ PledgeUsed(u)' \in Nat
  BY <1>1, <1>2, FillGrants DEF PledgeUsed
<1>4. PledgeRemaining(u) > 0
  BY <1>1, <1>2
<1>5. PledgeRemaining(u) = pledge[u] - PledgeUsed(u)
  BY <1>2, <1>4 DEF PledgeRemaining, Greatest
<1> QED
  BY <1>2, <1>3, <1>5

\* A grant that is passed on had the credit, and so had a contribution that is
\* drawn; both only once.
LEMMA FillChildren ==
  ASSUME TypeOK, ChainWellFormed, NEW r \in Requests, NEW new, Fill(r, new),
         NEW c \in GrantIds' \ GrantIds, ~ IsRoot(c)',
         NEW o, o = grants'[c].origin, NEW p, p = grants'[c].contribution
  PROVE  /\ o \in GrantIds /\ IsRoot(o) /\ ~ Voided(o)
         /\ p = 0 => /\ Transferred(o)' <= Transferred(o) + GrantRemaining[o]
                     /\ GrantRemaining'[o] >= 0
         /\ p # 0 => /\ p \in ContributionIds
                     /\ Drawn(p)' <= contributions[p].amount
<1>1. NewRow(r, grants'[c]) /\ grants'[c] \in GrantRows /\ o # 0
  BY FillRows DEF IsRoot
<1>2. /\ o \in GrantIds /\ IsRoot(o) /\ ~ Voided(o) /\ o # 0
      /\ \/ p = 0 /\ grants'[c].amount <= GrantRemaining[o]
         \/ p \in ContributionIds /\ grants'[c].amount <= Capacity[p]
  BY <1>1, RowSource
<1>3. \A q \in ContributionIds : q # 0
  BY ReturnedRows
<1>4. \A d \in GrantIds' \ GrantIds :
        /\ LeafCharge'[d] = grants'[d].amount /\ grants'[d].amount \in Nat \ {0}
        /\ NewRow(r, grants'[d])
  BY FillRows DEF GrantRows
<1>5. /\ \A d \in GrantIds : grants'[d] = grants[d] /\ d \in GrantIds'
      /\ \A d \in GrantIds : LeafCharge[d] \in Nat /\ LeafCharge'[d] = LeafCharge[d]
  BY FillRows, ChargeTypes
<1>6. CASE p = 0
  <2> DEFINE S == Transfers(o)
             T == Transfers(o)'
             n == GrantRemaining[o]
  <2>1. S \subseteq T /\ T \cap GrantIds = S /\ S \subseteq GrantIds /\ T \subseteq GrantIds'
    BY <1>5 DEF Transfers, Children
  <2>2. n \in Nat
    BY <1>2, <1>3, <1>4, <1>6, BalanceTypes
  <2>3. \A d \in T \ S : d \in GrantIds' \ GrantIds /\ grants'[d].origin = o
                         /\ grants'[d].contribution = 0
    BY <2>1 DEF Transfers, Children
  <2>4. \A d \in T \ S : LeafCharge'[d] \in Nat /\ LeafCharge'[d] <= n
    <3> TAKE d \in T \ S
    <3>1. grants'[d].amount <= n
      BY <1>2, <1>3, <1>4, <2>3, RowSource
    <3> QED BY <1>4, <2>3, <3>1
  <2>5. \A d, e \in T \ S : d = e
    BY <1>2, <2>3, FillRows DEF Apart
  <2>6. IsFiniteSet(S)
    BY <2>1, Rows, FS_Subset
  <2>7. \A d \in S : LeafCharge[d] \in Nat /\ LeafCharge'[d] = LeafCharge[d]
    BY <1>5, <2>1
  <2> HIDE DEF S, T, n
  <2>8. Total(LeafCharge', T) <= Total(LeafCharge, S) + n /\ Total(LeafCharge', T) \in Nat
    BY <2>1, <2>2, <2>4, <2>5, <2>6, <2>7, TotalOneNew
  <2>9. Transferred(o)' <= Transferred(o) + n /\ Transferred(o)' \in Nat
    BY <2>8 DEF Transferred, S, T
  <2>10. /\ n = grants[o].amount - used[o] - Transferred(o) - Contributed(o)
         /\ GrantRemaining'[o] =
              grants[o].amount - used[o] - Transferred(o)' - Contributed(o)
    <3>1. n = grants[o].amount - used[o] - Transferred(o) - Contributed(o)
      BY <1>2 DEF GrantRemaining, n
    <3>2. /\ o \in GrantIds' /\ grants'[o] = grants[o] /\ ~ Voided(o)' /\ used' = used
          /\ contributions' = contributions /\ ContributionIds' = ContributionIds
      BY <1>2, FillRows DEF burnVars
    <3>3. Contributed(o)' = Contributed(o)
      BY <3>2 DEF Contributed, ReturnedAmount
    <3> QED BY <3>1, <3>2, <3>3 DEF GrantRemaining
  <2>11. grants[o].amount \in Nat /\ used[o] \in Nat /\ Transferred(o) \in Nat
         /\ Contributed(o) \in Nat
    BY <1>2, Rows, ChargeTypes DEF GrantRows
  <2>12. GrantRemaining'[o] >= 0
    BY <2>2, <2>9, <2>10, <2>11
  <2> QED BY <1>2, <1>6, <2>9, <2>12 DEF n
<1>7. CASE p # 0
  <2> DEFINE S == Draws(p)
             T == Draws(p)'
             n == Capacity[p]
  <2>0. p \in ContributionIds
    BY <1>2, <1>7
  <2>1. S \subseteq T /\ T \cap GrantIds = S /\ S \subseteq GrantIds /\ T \subseteq GrantIds'
    BY <1>5 DEF Draws
  <2>2. n \in Nat /\ n > 0
    BY <1>2, <1>4, <1>7, <2>0, BalanceTypes
  <2>3. \A d \in T \ S : d \in GrantIds' \ GrantIds /\ grants'[d].contribution = p
    BY <2>1 DEF Draws
  <2>4. \A d \in T \ S : grants'[d].origin # 0 /\ LeafCharge'[d] \in Nat /\ LeafCharge'[d] <= n
    <3> TAKE d \in T \ S
    <3>1. grants'[d].amount <= n /\ grants'[d].origin # 0
      BY <1>4, <1>7, <2>3, RowSource
    <3> QED BY <1>4, <2>3, <3>1
  <2>5. \A d, e \in T \ S : d = e
    BY <1>7, <2>3, <2>4, FillRows DEF Apart
  <2>6. IsFiniteSet(S)
    BY <2>1, Rows, FS_Subset
  <2>7. \A d \in S : LeafCharge[d] \in Nat /\ LeafCharge'[d] = LeafCharge[d]
    BY <1>5, <2>1
  <2> HIDE DEF S, T, n
  <2>8. Total(LeafCharge', T) <= Total(LeafCharge, S) + n /\ Total(LeafCharge', T) \in Nat
    BY <2>1, <2>2, <2>4, <2>5, <2>6, <2>7, TotalOneNew
  <2>9. Drawn(p)' <= Drawn(p) + n /\ Drawn(p)' \in Nat /\ Drawn(p) \in Nat
    BY <2>0, <2>8, ChargeTypes DEF Drawn, S, T
  <2>10. n = contributions[p].amount - Drawn(p) /\ contributions[p].amount \in Nat
    BY <2>0, <2>2, <2>9, ReturnedRows DEF Capacity, Greatest, ContributionRows, n
  <2> QED BY <1>2, <1>7, <2>0, <2>9, <2>10
<1> QED
  BY <1>6, <1>7

\* A fill never draws a pledge beyond its amount.
LEMMA FillCover ==
  ASSUME TypeOK, ChainWellFormed, PledgeCoversDraws,
         NEW r \in Requests, NEW new, Fill(r, new), NEW u \in Users
  PROVE  PledgeUsed(u)' <= pledge'[u] + OverOf(u)'
<1>1. /\ pledge' = pledge /\ over' = over /\ pledge[u] \in Nat
      /\ \A c \in GrantIds : grants'[c] = grants[c] /\ c \in GrantIds'
  BY FillRows DEF accountVars, burnVars, TypeOK
<1>2. PledgeUsed(u) <= pledge[u] + OverOf(u)
  BY DEF PledgeCoversDraws, OverOf, DonorRows
<1>3. OverOf(u) <= OverOf(u)' /\ OverOf(u) \in Nat /\ OverOf(u)' \in Nat
  <2>1. DonorRows(u) \subseteq DonorRows(u)'
    BY <1>1 DEF DonorRows
  <2>2. GrantIds' = 1 .. (Len(grants) + Len(new)) /\ Len(grants') <= MaxGrants
        /\ Len(grants') = Len(grants) + Len(new) /\ Len(grants) \in Nat /\ Len(new) \in Nat
    BY AfterFill, Rows
  <2>3. IsFiniteSet(DonorRows(u)') /\ \A c \in DonorRows(u)' : over[c] \in Nat
    <3>1. DonorRows(u)' \subseteq 1 .. MaxGrants
      BY <2>2 DEF DonorRows
    <3>2. IsFiniteSet(1 .. MaxGrants)
      BY FS_Interval
    <3> QED BY <3>1, <3>2, FS_Subset DEF TypeOK
  <2>4. Total(over, DonorRows(u)) <= Total(over, DonorRows(u)')
    BY <2>1, <2>3, TotalMono
  <2>5. Total(over, DonorRows(u)') \in Nat
    BY <2>3, TotalType
  <2> QED BY <1>1, <2>4, <2>5, OverTypes DEF OverOf
<1>4. PledgeUsed(u) \in Nat /\ PledgeRemaining(u) \in Nat
  BY BalanceTypes
<1>5. CASE \E c \in Roots(u, "pool")' : c \notin GrantIds
  <2>1. PledgeUsed(u)' <= pledge[u] /\ PledgeUsed(u)' \in Nat
    BY <1>5, FillPledge
  <2> QED BY <1>1, <1>3, <2>1
<1>6. CASE \A c \in Roots(u, "pool")' : c \in GrantIds
  <2>1. PledgeUsed(u)' <= PledgeUsed(u) + 0 /\ PledgeUsed(u)' \in Nat
    BY <1>6, FillGrants DEF PledgeUsed
  <2> QED BY <1>1, <1>2, <1>3, <1>4, <2>1
<1> QED
  BY <1>5, <1>6

\* Burning charges a pledge beyond what it was charged before only by overshoot.
LEMMA BurnCover ==
  ASSUME TypeOK, ChainWellFormed, PledgeCoversDraws,
         NEW g, NEW n, NEW x, Burns(g, n, x), NEW u \in Users
  PROVE  PledgeUsed(u)' <= pledge'[u] + OverOf(u)'
<1> DEFINE S == Roots(u, "pool")
           R == DonorRows(u)
<1>1. /\ grants' = grants /\ GrantIds' = GrantIds /\ pledge' = pledge /\ pledge[u] \in Nat
      /\ g \in GrantIds /\ n \in Nat /\ x \in Nat
      /\ \A c \in GrantIds : over'[c] = over[c] + (IF c = g THEN x ELSE 0)
      /\ \A c \in GrantIds : over[c] \in Nat
  <2>1. /\ grants' = grants /\ pledge' = pledge
        /\ g \in GrantIds /\ n \in Nat /\ x \in Nat
        /\ \A c \in GrantIds : over'[c] = over[c] + (IF c = g THEN x ELSE 0)
    BY DEF Burns, accountVars
  <2>2. GrantIds' = GrantIds
    BY <2>1 DEF GrantIds
  <2>3. pledge[u] \in Nat
    BY DEF TypeOK
  <2>4. \A c \in GrantIds : over[c] \in Nat
    BY Rows
  <2> QED BY <2>1, <2>2, <2>3, <2>4
<1>2. PledgeUsed(u) <= pledge[u] + OverOf(u)
  BY DEF PledgeCoversDraws, OverOf, DonorRows
<1>3. S' = S /\ S \in SUBSET GrantIds /\ IsFiniteSet(S) /\ R' = R /\ R \in SUBSET GrantIds
      /\ IsFiniteSet(R)
  BY <1>1, OverTypes, Rows, FS_Subset DEF Roots, IsRoot, DonorRows
<1>4. OverOf(u)' = OverOf(u) + (IF g \in R THEN x ELSE 0) /\ OverOf(u) \in Nat
  <2>1. OverOf(u)' = Total(over', R) /\ OverOf(u) = Total(over, R) /\ OverOf(u) \in Nat
    BY <1>3, OverTypes DEF OverOf
  <2>2. /\ \A c \in R : over[c] \in Nat
        /\ \A c \in R : over'[c] = over[c] + (IF c = g THEN x ELSE 0)
    BY <1>1, <1>3
  <2> HIDE DEF R
  <2>3. Total(over', R) = Total(over, R) + (IF g \in R THEN x ELSE 0)
    <3>1. RaisedBy(R, over, over', g, x)
      BY <1>1, <1>3, <2>2 DEF RaisedBy
    <3> QED BY <3>1, TotalRaised
  <2> QED BY <2>1, <2>3
<1>5. PledgeUsed(u) = Total(Charge, S) /\ PledgeUsed(u)' = Total(Charge', S)
      /\ PledgeUsed(u) \in Nat /\ PledgeUsed(u)' \in Nat
  <2>1. PledgeUsed(u) = Total(Charge, S) /\ PledgeUsed(u)' = Total(Charge', S)
    BY <1>3 DEF PledgeUsed, GrantedOut
  <2>2. \A c \in S : Charge'[c] \in Nat
    BY <1>3, BurnCharges
  <2>3. Total(Charge', S) \in Nat
    BY <1>3, <2>2, GrantSum
  <2> QED BY <2>1, <2>3, BalanceTypes
<1>6. \A h \in S : /\ Charge[h] \in Nat /\ Charge'[h] \in Nat
                   /\ Charge'[h] <= Charge[h] + (IF h = Root(g) THEN x ELSE 0)
  BY <1>3, BurnCharges, ChargeTypes DEF Roots
<1>7. CASE g \in R
  <2> HIDE DEF S
  <2>1. Raised(S, Charge, Charge', Root(g), x)
    BY <1>1, <1>3, <1>6 DEF Raised
  <2>2. Total(Charge', S) <= Total(Charge, S) + x
    BY <2>1, TotalRaise
  <2> QED BY <1>1, <1>2, <1>4, <1>5, <1>7, <2>2
<1>8. CASE g \notin R
  <2>1. Root(g) \notin S
    BY <1>1, <1>8, Rooted DEF Roots, DonorRows
  <2> HIDE DEF S
  <2>2. \A h \in S : Charge'[h] <= Charge[h]
    <3> TAKE h \in S
    <3>1. h # Root(g)
      BY <2>1
    <3> QED BY <1>6, <3>1
  <2>3. Total(Charge', S) <= Total(Charge, S)
    BY <1>3, <1>6, <2>2, TotalMono
  <2> QED BY <1>1, <1>2, <1>4, <1>5, <1>8, <2>3
<1> QED
  BY <1>7, <1>8

\* PledgeCoversDraws, for any number of givers and fills: cancelled fills are
\* refunded and drawn again, and the pledge itself moves, but a giver is never
\* charged beyond it except by overshoot.
THEOREM PledgesCover == Spec => []PledgeCoversDraws
<1>1. Init => PledgeCoversDraws
  <2> SUFFICES ASSUME Init, NEW u \in Users
               PROVE  PledgeUsed(u) <= pledge[u] + OverOf(u)
    BY DEF PledgeCoversDraws, OverOf, DonorRows
  <2>1. GrantIds = {} /\ pledge[u] = 0
    BY DEF Init, GrantIds
  <2>2. Roots(u, "pool") = {} /\ DonorRows(u) = {}
    BY <2>1 DEF Roots, DonorRows
  <2>3. Total(Charge, {}) = 0 /\ Total(over, {}) = 0
    BY TotalEmpty
  <2>4. PledgeUsed(u) = 0 /\ OverOf(u) = 0
    BY <2>2, <2>3 DEF PledgeUsed, GrantedOut, OverOf
  <2> QED BY <2>1, <2>4
<1>2. TypeOK /\ ChainWellFormed /\ PledgeCoversDraws /\ [Next]_vars => PledgeCoversDraws'
  <2> SUFFICES ASSUME TypeOK, ChainWellFormed, PledgeCoversDraws, [Next]_vars, NEW u \in Users
               PROVE  PledgeUsed(u)' <= pledge'[u] + OverOf(u)'
    BY DEF PledgeCoversDraws, OverOf, DonorRows
  <2>0. /\ PledgeUsed(u) <= pledge[u] + OverOf(u)
        /\ pledge[u] \in Nat /\ OverOf(u) \in Nat /\ PledgeUsed(u) \in Nat
    BY OverTypes, BalanceTypes DEF PledgeCoversDraws, OverOf, DonorRows, TypeOK
  <2>1. CASE \E r \in Requests : \E new : Fill(r, new)
    BY <2>1, FillCover
  <2>2. CASE \E r \in Requests : CancelRequest(r)
    <3> PICK r \in Requests : CancelRequest(r)
      BY <2>2
    <3>1. PledgeUsed(u)' <= PledgeUsed(u) /\ PledgeUsed(u)' \in Nat
      BY CancelCharges, GrantedFalls DEF PledgeUsed
    <3>2. pledge' = pledge /\ OverOf(u)' = OverOf(u)
      BY CancelCharges DEF OverOf, DonorRows, accountVars, burnVars
    <3> QED BY <2>0, <3>1, <3>2
  <2>3. CASE \E g \in GrantIds, n \in 1 .. MaxAmount, overshoot \in BOOLEAN :
               RecordGrant(g, n, overshoot)
    <3> PICK g \in GrantIds, n \in 1 .. MaxAmount, overshoot \in BOOLEAN :
               RecordGrant(g, n, overshoot)
      BY <2>3
    <3>1. PICK x \in Nat : Burns(g, n, x)
      BY RecordGrantBurns
    <3> QED BY <3>1, BurnCover
  <2>4. CASE UNCHANGED <<grants, cancelled, burnVars>> /\ PledgeUsed(u) <= pledge'[u]
             /\ pledge'[u] \in Nat
    <3>1. PledgeUsed(u)' = PledgeUsed(u)
      BY <2>4 DEF PledgeUsed, GrantedOut, Roots, IsRoot, Charge, Moved, Children, LeafCharge,
                  Voided, GrantIds, burnVars
    <3>2. OverOf(u)' = OverOf(u)
      BY <2>4 DEF OverOf, DonorRows, GrantIds, burnVars
    <3> QED BY <2>0, <2>4, <3>1, <3>2
  <2>5. CASE UNCHANGED <<grants, cancelled, burnVars>> /\ pledge'[u] = pledge[u]
    <3>1. PledgeUsed(u)' = PledgeUsed(u)
      BY <2>5 DEF PledgeUsed, GrantedOut, Roots, IsRoot, Charge, Moved, Children, LeafCharge,
                  Voided, GrantIds, burnVars
    <3>2. OverOf(u)' = OverOf(u)
      BY <2>5 DEF OverOf, DonorRows, GrantIds, burnVars
    <3> QED BY <2>0, <2>5, <3>1, <3>2
  <2>6. CASE \E v \in Users : \E p \in 0 .. quota[v] : SetPledge(v, p)
    <3> PICK v \in Users, p \in Nat : SetPledge(v, p)
      BY <2>6
    <3>1. UNCHANGED <<grants, cancelled, burnVars>> /\ pledge' = [pledge EXCEPT ![v] = p]
          /\ PledgeUsed(v) <= p
      BY DEF SetPledge, requestVars
    <3> QED BY <2>4, <2>5, <3>1 DEF TypeOK
  <2>7. CASE \E v \in Users : \E q \in QuotaChoices[v] : SetQuota(v, q)
    <3> PICK v \in Users, q \in Nat : SetQuota(v, q)
      BY <2>7
    <3>1. UNCHANGED <<grants, cancelled, burnVars>>
          /\ pledge' = [pledge EXCEPT ![v] = Least(pledge[v], q)]
          /\ PledgeUsed(v) <= q
      BY DEF SetQuota, requestVars
    <3>2. CASE u = v
      <4>1. pledge'[u] = Least(pledge[u], q) /\ PledgeUsed(u) <= q
        BY <3>1, <3>2 DEF TypeOK
      <4>2. UNCHANGED <<grants, cancelled, burnVars>>
        BY <3>1
      <4>3. CASE pledge[u] <= q
        BY <2>0, <2>5, <4>1, <4>2, <4>3 DEF Least
      <4>4. CASE ~ (pledge[u] <= q)
        BY <2>0, <2>4, <4>1, <4>2, <4>4 DEF Least
      <4> QED BY <4>3, <4>4
    <3>3. CASE u # v
      BY <2>5, <3>1, <3>3 DEF TypeOK
    <3> QED BY <3>2, <3>3
  <2>8. CASE OtherStep /\ UNCHANGED <<cancelled, burnVars, pledge>>
    BY <2>5, <2>8, OtherStepKeepsGrants
  <2>9. CASE OtherStep
    BY <2>2, <2>3, <2>6, <2>7, <2>8, <2>9
       DEF OtherStep, CreateRequest, Expire, ReturnReceivedToPool, SetVerdict, RecordSelf, vars,
           accountVars, requestVars
  <2> QED BY <2>1, <2>9, Steps
<1> QED
  BY <1>1, <1>2, Typing, Chains, PTL DEF Spec

\* FillsWithinSources, for any number of funders, takes and requests.
THEOREM SourcesHold == Spec => FillsWithinSources
<1> DEFINE Within == \A c \in GrantIds' \ GrantIds : SourceHolds(c)'
<1>1. TypeOK /\ ChainWellFormed /\ [Next]_vars => Within
  <2> SUFFICES ASSUME TypeOK, ChainWellFormed, [Next]_vars, NEW c \in GrantIds' \ GrantIds
               PROVE  SourceHolds(c)'
    OBVIOUS
  <2>0. PICK r \in Requests : \E new : Fill(r, new)
    BY Steps, OtherStepKeepsGrants DEF GrantIds
  <2>1. PICK new : Fill(r, new)
    BY <2>0
  <2>2. grants'[c] \in GrantRows /\ c \in GrantIds'
    BY <2>1, FillRows
  <2>3. CASE IsRoot(c)' /\ grants'[c].source = "personal"
    <3>1. PICK u \in Users : u = grants'[c].donor
      BY <2>2 DEF GrantRows
    <3>2. c \in Roots(u, "personal")' /\ c \notin GrantIds
      BY <2>2, <2>3, <3>1 DEF Roots
    <3>3. PersonalRemaining(u)' >= 0
      BY <2>1, <3>2, FillPersonal
    <3> QED BY <2>3, <3>1, <3>3 DEF SourceHolds, PersonalRemaining
  <2>4. CASE IsRoot(c)' /\ grants'[c].source # "personal"
    <3>1. PICK u \in Users : u = grants'[c].donor
      BY <2>2 DEF GrantRows
    <3>2. c \in Roots(u, "pool")' /\ c \notin GrantIds
      BY <2>2, <2>4, <3>1 DEF Roots, GrantRows
    <3>3. PledgeUsed(u)' <= pledge[u]
      BY <2>1, <3>2, FillPledge
    <3>4. pledge' = pledge
      BY <2>1, FillRows DEF accountVars
    <3> QED BY <2>4, <3>1, <3>3, <3>4 DEF SourceHolds, PledgeUsed
  <2>5. CASE ~ IsRoot(c)'
    <3>1. PICK o, p : o = grants'[c].origin /\ p = grants'[c].contribution
      OBVIOUS
    <3>2. /\ p = 0 => GrantRemaining'[o] >= 0
          /\ p # 0 => Drawn(p)' <= contributions[p].amount
      BY <2>1, <2>5, <3>1, FillChildren
    <3>3. contributions' = contributions
      BY <2>1, FillRows
    <3> QED BY <2>5, <3>1, <3>2, <3>3 DEF SourceHolds, Drawn
  <2> QED BY <2>3, <2>4, <2>5
<1>2. [][Next]_vars /\ []TypeOK /\ []ChainWellFormed => [][Within]_vars
  BY <1>1, PTL
<1> QED
  BY <1>2, Typing, Chains, PTL DEF Spec, FillsWithinSources

\* A fill draws on contributions, it never puts anything back into one.
LEMMA FillDrawn ==
  ASSUME TypeOK, NEW r \in Requests, NEW new, Fill(r, new), NEW p \in ContributionIds,
         NEW B \in SUBSET Draws(p)'
  PROVE  /\ Total(LeafCharge', B) \in Nat /\ Total(LeafCharge', B) <= Drawn(p)'
         /\ Draws(p) \in SUBSET Draws(p)' /\ Total(LeafCharge', Draws(p)) = Drawn(p)
         /\ Capacity'[p] = IF Voided(contributions[p].origin)' THEN 0
                           ELSE Greatest(0, contributions[p].amount - Drawn(p)')
<1>1. /\ GrantIds \subseteq GrantIds' /\ contributions' = contributions
      /\ ContributionIds' = ContributionIds
      /\ \A c \in GrantIds : grants'[c] = grants[c] /\ LeafCharge'[c] = LeafCharge[c]
      /\ \A c \in GrantIds' \ GrantIds : /\ grants'[c] \in GrantRows
                                         /\ LeafCharge'[c] = grants'[c].amount
  BY FillRows
<1>2. \A c \in GrantIds' : LeafCharge'[c] \in Nat
  <2>1. \A c \in GrantIds : LeafCharge'[c] \in Nat
    BY <1>1, ChargeTypes
  <2>2. \A c \in GrantIds' \ GrantIds : LeafCharge'[c] \in Nat
    BY <1>1 DEF GrantRows
  <2> QED BY <2>1, <2>2
<1>3. Draws(p) \in SUBSET Draws(p)' /\ Draws(p)' \in SUBSET GrantIds'
  BY <1>1 DEF Draws
<1>4. Total(LeafCharge', Draws(p)) = Total(LeafCharge, Draws(p))
  <2>1. \A c \in Draws(p) : LeafCharge'[c] = LeafCharge[c]
    BY <1>1 DEF Draws
  <2> QED BY <2>1, TotalCong
<1>5. IsFiniteSet(GrantIds')
  <2>1. GrantIds' = 1 .. (Len(grants) + Len(new)) /\ Len(grants) \in Nat /\ Len(new) \in Nat
    BY AfterFill, Rows
  <2> QED BY <2>1, FS_Interval
<1>6. IsFiniteSet(Draws(p)') /\ IsFiniteSet(B) /\ \A c \in Draws(p)' : LeafCharge'[c] \in Nat
  BY <1>2, <1>3, <1>5, FS_Subset
<1>7. Total(LeafCharge', B) \in Nat /\ Total(LeafCharge', B) <= Total(LeafCharge', Draws(p)')
  BY <1>6, TotalMono, TotalType
<1>8. Capacity'[p] = IF Voided(contributions[p].origin)' THEN 0
                     ELSE Greatest(0, contributions[p].amount - Drawn(p)')
  BY <1>1 DEF Capacity
<1> QED
  BY <1>3, <1>4, <1>7, <1>8 DEF Drawn

\* A fill that touches a pledge leaves nothing in any contribution.
LEMMA FillEmpties ==
  ASSUME TypeOK, ChainWellFormed, NEW r \in Requests, NEW new, Fill(r, new),
         ReturnedFirst(r, new),
         \E i \in 1 .. Len(new) : FromPledge(new[i]), NEW p \in ContributionIds
  PROVE  Capacity'[p] = 0
<1>1. /\ Capacity'[p] = IF Voided(contributions[p].origin)' THEN 0
                        ELSE Greatest(0, contributions[p].amount - Drawn(p)')
      /\ Draws(p) \in SUBSET Draws(p)'
      /\ Total(LeafCharge', Draws(p)) = Drawn(p)
      /\ \A B \in SUBSET Draws(p)' :
           Total(LeafCharge', B) \in Nat /\ Total(LeafCharge', B) <= Drawn(p)'
  BY FillDrawn
<1>2. /\ Capacity[p] = IF Voided(contributions[p].origin) THEN 0
                       ELSE Greatest(0, contributions[p].amount - Drawn(p))
      /\ contributions[p].amount \in Nat /\ Drawn(p) \in Nat
  BY ReturnedRows, ChargeTypes DEF Capacity, ContributionRows
<1>3. /\ Drawn(p)' \in Nat /\ Drawn(p) <= Drawn(p)'
      /\ Voided(contributions[p].origin) => Voided(contributions[p].origin)'
  <2>1. Draws(p)' \in SUBSET Draws(p)'
    OBVIOUS
  <2>2. Drawn(p)' = Total(LeafCharge', Draws(p)')
    BY DEF Drawn
  <2>3. Voided(contributions[p].origin) => Voided(contributions[p].origin)'
    BY FillRows DEF ChainWellFormed, ContributionWellFormed
  <2> QED BY <1>1, <2>1, <2>2, <2>3
<1>4. CASE Capacity[p] = 0
  BY <1>1, <1>2, <1>3, <1>4 DEF Greatest
<1>5. CASE Capacity[p] # 0
  <2>1. p \in Undrawn /\ Capacity[p] = contributions[p].amount - Drawn(p) /\ Capacity[p] \in Nat
    BY <1>2, <1>5 DEF Undrawn, Greatest
  <2>2. PICK i \in 1 .. Len(new) : new[i] = ContributionDraw(r, p, Capacity[p])
    BY <2>1 DEF ReturnedFirst, Emptied
  <2> DEFINE c == Len(grants) + i
  <2>3. c \in GrantIds' \ GrantIds /\ grants'[c] = new[i]
    BY AfterFill, Rows
  <2> HIDE DEF c
  <2>4. grants'[c].contribution = p /\ grants'[c].amount = Capacity[p]
    BY <2>2, <2>3 DEF ContributionDraw, PledgeDraw, PersonalGrant
  <2>5. c \in Draws(p)' /\ c \notin Draws(p) /\ LeafCharge'[c] = Capacity[p]
    BY <2>3, <2>4, FillRows DEF Draws
  <2>6. Total(LeafCharge', Draws(p) \cup {c}) = Total(LeafCharge', Draws(p)) + LeafCharge'[c]
    <3>1. IsFiniteSet(Draws(p))
      BY Rows, FS_Subset DEF Draws
    <3>2. \A d \in Draws(p) : LeafCharge'[d] \in Nat
      BY FillRows, ChargeTypes DEF Draws
    <3>3. \A d \in Draws(p) \cup {c} : LeafCharge'[d] \in Nat
      BY <2>1, <2>5, <3>2
    <3> QED BY <2>5, <3>1, <3>3, TotalOneMore
  <2>7. Draws(p) \cup {c} \in SUBSET Draws(p)'
    BY <1>1, <2>5
  <2>8. Drawn(p) + Capacity[p] <= Drawn(p)'
    BY <1>1, <2>5, <2>6, <2>7
  <2> QED BY <1>1, <1>2, <1>3, <2>1, <2>8 DEF Greatest
<1> QED
  BY <1>4, <1>5

\* Returned credit moves on before a pledge is touched (ReturnedCreditFirst), in
\* whatever order the contributions and the pledges are walked.
THEOREM PledgesLast == Spec => ReturnedCreditFirst
<1> DEFINE Touched == \E c \in GrantIds' \ GrantIds : (IsRoot(c) /\ grants[c].source = "pool")'
           Empty == \A p \in ContributionIds : Capacity'[p] = 0
<1>1. TypeOK /\ ChainWellFormed /\ [Next]_vars => (Touched => Empty)
  <2> SUFFICES ASSUME TypeOK, ChainWellFormed, [Next]_vars, Touched PROVE Empty
    OBVIOUS
  <2>1. PICK c \in GrantIds' \ GrantIds : grants'[c].origin = 0 /\ grants'[c].source = "pool"
    BY DEF IsRoot
  <2>2. PICK r \in Requests : \E new : Fill(r, new) /\ ReturnedFirst(r, new)
    BY <2>1, FundingSteps, OtherStepKeepsGrants DEF GrantIds
  <2>3. PICK new : Fill(r, new) /\ ReturnedFirst(r, new)
    BY <2>2
  <2>4. grants'[c].contribution = 0
    <3>1. NewRow(r, grants'[c])
      BY <2>3, FillRows
    <3> QED BY <2>1, <3>1, RowSource
  <2>5. \E i \in 1 .. Len(new) : new[i] = grants'[c]
    <3>1. /\ GrantIds = 1 .. Len(grants) /\ Len(grants) \in Nat /\ Len(new) \in Nat
          /\ GrantIds' = 1 .. (Len(grants) + Len(new))
          /\ \A i \in 1 .. Len(new) : grants'[Len(grants) + i] = new[i]
      BY <2>3, AfterFill, Rows
    <3>2. c - Len(grants) \in 1 .. Len(new) /\ Len(grants) + (c - Len(grants)) = c
      BY <3>1
    <3> QED BY <3>1, <3>2
  <2>6. \E i \in 1 .. Len(new) : FromPledge(new[i])
    BY <2>1, <2>4, <2>5 DEF FromPledge
  <2> QED BY <2>3, <2>6, FillEmpties
<1>2. [][Next]_vars /\ []TypeOK /\ []ChainWellFormed => [][Touched => Empty]_vars
  BY <1>1, PTL
<1> QED
  BY <1>2, Typing, Chains, PTL DEF Spec, ReturnedCreditFirst

\* CancelRefunds: whoever granted to whom, a cancelled request gives everybody
\* at least what he had, and what was burned of it stays charged.
THEOREM Refunds == Spec => CancelRefunds
<1>1. TypeOK /\ [Next]_vars =>
        (cancelled' # cancelled =>
           /\ \A g \in GrantIds :
                /\ Charge'[g] <= Charge[g]
                /\ ~ Voided(g)' => GrantRemaining'[g] >= GrantRemaining[g]
                /\ IsRoot(g) => Charge'[g] >= Least(grants[g].amount, used[g] + Moved(g)')
           /\ \A u \in Users : /\ PersonalRemaining(u)' >= PersonalRemaining(u)
                               /\ PledgeRemaining(u)' >= PledgeRemaining(u))
  <2> DEFINE Kept(g) ==
               /\ Charge'[g] <= Charge[g]
               /\ ~ Voided(g)' => GrantRemaining'[g] >= GrantRemaining[g]
               /\ IsRoot(g) => Charge'[g] >= Least(grants[g].amount, used[g] + Moved(g)')
             Gained(u) == /\ PersonalRemaining(u)' >= PersonalRemaining(u)
                          /\ PledgeRemaining(u)' >= PledgeRemaining(u)
  <2> SUFFICES ASSUME TypeOK, [Next]_vars, cancelled' # cancelled
               PROVE  (\A g \in GrantIds : Kept(g)) /\ (\A u \in Users : Gained(u))
    OBVIOUS
  <2>1. PICK r \in Requests : CancelRequest(r)
    <3>1. CASE \E r \in Requests : \E new : Fill(r, new)
      BY <3>1, AfterFill DEF requestVars
    <3>2. CASE OtherStep
      BY <3>2 DEF OtherStep, CreateRequest, Expire, ReturnReceivedToPool, SetPledge, SetQuota,
                  SetVerdict, RecordGrant, RecordSelf, vars, requestVars
    <3> QED BY <3>1, <3>2, Steps
  <2>2. /\ UNCHANGED <<accountVars, grants, contributions, burnVars>> /\ GrantIds' = GrantIds
        /\ \A c \in GrantIds : LeafCharge'[c] \in Nat /\ LeafCharge'[c] <= LeafCharge[c]
        /\ \A c \in GrantIds : Charge'[c] \in Nat /\ Charge'[c] <= Charge[c]
        /\ \A c \in GrantIds : Voided(c) => Voided(c)'
    BY <2>1, CancelCharges DEF Voided
  <2>3. ASSUME NEW g \in GrantIds PROVE Kept(g)
    <3>1. Charge'[g] = IF Voided(g)' THEN Least(grants[g].amount, used[g] + Moved(g)')
                                     ELSE grants[g].amount
      BY <2>2 DEF Charge, burnVars
    <3>2. Transfers(g)' = Transfers(g) /\ Children(g)' = Children(g)
          /\ Transfers(g) \in SUBSET GrantIds /\ Children(g) \in SUBSET GrantIds
      BY <2>2 DEF Transfers, Children
    <3>3. /\ Moved(g)' = Total(LeafCharge', Children(g))
          /\ Transferred(g)' = Total(LeafCharge', Transfers(g))
          /\ Transferred(g) = Total(LeafCharge, Transfers(g))
          /\ Contributed(g)' = Contributed(g)
      BY <2>2, <3>2 DEF Moved, Transferred, Contributed, ContributionIds, ReturnedAmount
    <3>4. /\ IsFiniteSet(Transfers(g))
          /\ \A c \in Transfers(g) : /\ LeafCharge'[c] \in Nat /\ LeafCharge[c] \in Nat
                                     /\ LeafCharge'[c] <= LeafCharge[c]
          /\ \A c \in Children(g) : LeafCharge'[c] \in Nat
      BY <2>2, <3>2, GrantSum, ChargeTypes
    <3>5. /\ Transferred(g)' <= Transferred(g)
          /\ Transferred(g)' \in Nat /\ Transferred(g) \in Nat /\ Moved(g)' \in Nat
      <4>1. Total(LeafCharge', Transfers(g)) <= Total(LeafCharge, Transfers(g))
        BY <3>4, TotalMono
      <4>2. Total(LeafCharge', Transfers(g)) \in Nat /\ Total(LeafCharge', Children(g)) \in Nat
        BY <3>2, <3>4, GrantSum
      <4> QED BY <3>3, <4>1, <4>2, ChargeTypes
    <3>6. grants[g].amount \in Nat /\ used[g] \in Nat /\ Contributed(g) \in Nat
      BY Rows, ChargeTypes DEF GrantRows
    <3>7. ~ Voided(g)' =>
            /\ GrantRemaining[g] = grants[g].amount - used[g] - Transferred(g) - Contributed(g)
            /\ GrantRemaining'[g] = grants[g].amount - used[g] - Transferred(g)' - Contributed(g)
      BY <2>2, <3>3 DEF GrantRemaining, burnVars
    <3>8. ~ Voided(g)' => GrantRemaining'[g] >= GrantRemaining[g]
      BY <3>5, <3>6, <3>7
    <3>9. Charge'[g] >= Least(grants[g].amount, used[g] + Moved(g)')
      BY <3>1, <3>5, <3>6 DEF Least
    <3> QED BY <2>2, <3>8, <3>9
  <2>4. ASSUME NEW u \in Users PROVE Gained(u)
    <3>1. \A s \in {"personal", "pool"} :
            /\ GrantedOut(u, s)' <= GrantedOut(u, s)
            /\ GrantedOut(u, s)' \in Nat /\ GrantedOut(u, s) \in Nat
      BY <2>2, GrantedFalls, BalanceTypes
    <3>2. quota[u] \in Nat /\ pledge[u] \in Nat /\ selfBurn[u] \in Nat
      BY DEF TypeOK
    <3>3. /\ PersonalRemaining(u) = IF u \in rows
            THEN quota[u] - pledge[u] - selfBurn[u] - GrantedOut(u, "personal") ELSE 0
          /\ PersonalRemaining(u)' = IF u \in rows
            THEN quota[u] - pledge[u] - selfBurn[u] - GrantedOut(u, "personal")' ELSE 0
      BY <2>2 DEF PersonalRemaining, accountVars
    <3>4. PledgeRemaining(u) = Greatest(0, pledge[u] - GrantedOut(u, "pool"))
          /\ PledgeRemaining(u)' = Greatest(0, pledge[u] - GrantedOut(u, "pool")')
      BY <2>2 DEF PledgeRemaining, PledgeUsed, accountVars
    <3>5. PersonalRemaining(u)' >= PersonalRemaining(u)
      BY <3>1, <3>2, <3>3
    <3>6. PledgeRemaining(u)' >= PledgeRemaining(u)
      BY <3>1, <3>2, <3>4 DEF Greatest
    <3> QED BY <3>5, <3>6
  <2> QED BY <2>3, <2>4
<1> QED
  BY <1>1, Typing, PTL DEF Spec, CancelRefunds

-----------------------------------------------------------------------------
(* No credit is created along a chain. *)

\* What a child grant still claims of its funder: what was burned of it, and
\* while its request is live what its recipient can still burn.
Claims ==
    [c \in GrantIds |-> IF Voided(c) THEN used[c] ELSE Greatest(used[c], grants[c].amount)]

Donations(g) == {p \in ContributionIds : contributions[p].origin = g}

Unused == \A c \in 1 .. MaxGrants : c \notin GrantIds => used[c] = 0 /\ over[c] = 0

\* A grant, a contribution and a root each back what hangs off them, but for
\* the overshoot booked there.
GrantBacks(c) == used[c] <= grants[c].amount + over[c]
ContributionBacks(p) ==
    Total(Claims, Draws(p)) <= contributions[p].amount + Total(over, Draws(p))
RootBacks(g) ==
    used[g] + Total(Claims, Transfers(g)) + Contributed(g)
      <= grants[g].amount + over[g] + Total(over, Transfers(g))

BackingInv ==
    /\ Unused
    /\ \A c \in GrantIds : GrantBacks(c)
    /\ \A p \in ContributionIds : ContributionBacks(p)
    /\ \A g \in GrantIds : IsRoot(g) => RootBacks(g)

\* Claims, and their sums over rows, are natural numbers.
LEMMA ClaimTypes ==
  ASSUME TypeOK
  PROVE  /\ \A c \in GrantIds : Claims[c] \in Nat
         /\ \A S \in SUBSET GrantIds :
              /\ IsFiniteSet(S)
              /\ Total(Claims, S) \in Nat /\ Total(over, S) \in Nat
              /\ Total(LeafCharge, S) \in Nat
<1>1. \A c \in GrantIds : Claims[c] \in Nat
  BY Rows DEF Claims, Greatest, GrantRows
<1>2. \A c \in GrantIds : over[c] \in Nat /\ LeafCharge[c] \in Nat
  BY Rows, ChargeTypes
<1> QED
  BY <1>1, <1>2, GrantSum

\* A row claims no more than its funder is charged for it, but for overshoot.
LEMMA ClaimsCharged ==
  ASSUME TypeOK, \A c \in GrantIds : GrantBacks(c)
  PROVE  /\ \A c \in GrantIds : Claims[c] <= LeafCharge[c] + over[c]
         /\ \A S \in SUBSET GrantIds :
              Total(Claims, S) <= Total(LeafCharge, S) + Total(over, S)
<1>1. \A c \in GrantIds : Claims[c] <= LeafCharge[c] + over[c]
  <2> TAKE c \in GrantIds
  <2>1. /\ Claims[c] = IF Voided(c) THEN used[c] ELSE Greatest(used[c], grants[c].amount)
        /\ LeafCharge[c] = IF Voided(c) THEN Least(grants[c].amount, used[c])
                                        ELSE grants[c].amount
    BY DEF Claims, LeafCharge
  <2>2. /\ used[c] \in Nat /\ over[c] \in Nat /\ grants[c].amount \in Nat
        /\ used[c] <= grants[c].amount + over[c]
    BY Rows DEF GrantRows, GrantBacks
  <2> QED BY <2>1, <2>2 DEF Least, Greatest
<1>2. ASSUME NEW S \in SUBSET GrantIds
      PROVE  Total(Claims, S) <= Total(LeafCharge, S) + Total(over, S)
  <2>1. IsFiniteSet(S)
    BY ClaimTypes
  <2>2. \A c \in S : LeafCharge[c] \in Nat /\ over[c] \in Nat /\ Claims[c] \in Nat
    BY Rows, ChargeTypes, ClaimTypes
  <2>3. \A c \in S : Claims[c] <= LeafCharge[c] + over[c]
    BY <1>1
  <2> QED BY <2>1, <2>2, <2>3, TotalBelow
<1> QED
  BY <1>1, <1>2

\* Rows nothing hangs off: no child has children, no new id is referred to.
LEMMA Childless ==
  ASSUME TypeOK, ChainWellFormed
  PROVE  /\ \A c \in GrantIds : ~ IsRoot(c) => Children(c) = {} /\ Donations(c) = {}
         /\ \A p \in Nat \ {0} : p \notin ContributionIds => Draws(p) = {}
<1>1. ASSUME NEW c \in GrantIds, ~ IsRoot(c) PROVE Children(c) = {}
  BY <1>1, Rooted DEF Children, Root, IsRoot, ChainWellFormed, ChildWellFormed
<1>2. ASSUME NEW c \in GrantIds, ~ IsRoot(c) PROVE Donations(c) = {}
  BY <1>2 DEF Donations, ChainWellFormed, ContributionWellFormed
<1>3. ASSUME NEW p \in Nat \ {0}, p \notin ContributionIds PROVE Draws(p) = {}
  BY <1>3 DEF Draws, ChainWellFormed, ChildWellFormed
<1> QED
  BY <1>1, <1>2, <1>3

\* A row that was not burned yet, and what was booked on the others, after a
\* fill.
LEMMA FillBacks ==
  ASSUME TypeOK, ChainWellFormed, BackingInv,
         NEW r \in Requests, NEW new, Fill(r, new)
  PROVE  BackingInv'
<1>1. /\ UNCHANGED <<accountVars, requestVars, contributions, burnVars>>
      /\ GrantIds \subseteq GrantIds' /\ ContributionIds' = ContributionIds
      /\ \A c \in GrantIds : /\ grants'[c] = grants[c]
                             /\ Voided(c)' <=> Voided(c)
                             /\ LeafCharge'[c] = LeafCharge[c]
      /\ \A c \in GrantIds' \ GrantIds :
           /\ grants'[c] \in GrantRows
           /\ ~ Voided(c)' /\ LeafCharge'[c] = grants'[c].amount
  BY FillRows
<1>2. used' = used /\ over' = over /\ contributions' = contributions
  BY <1>1 DEF burnVars
<1>3. \A c \in GrantIds' : c \in 1 .. MaxGrants
  <2>1. GrantIds' = 1 .. Len(grants') /\ Len(grants') \in Nat /\ Len(grants') <= MaxGrants
    BY AfterFill, Rows
  <2> QED BY <2>1
<1>4. \A c \in GrantIds' \ GrantIds : used[c] = 0 /\ over[c] = 0
  BY <1>3 DEF BackingInv, Unused
<1>5. Unused'
  BY <1>1, <1>2 DEF BackingInv, Unused
<1>6. \A c \in GrantIds' : /\ used[c] \in Nat /\ over[c] \in Nat /\ grants'[c].amount \in Nat
                           /\ used[c] <= grants'[c].amount + over[c]
  <2> TAKE c \in GrantIds'
  <2>1. used[c] \in Nat /\ over[c] \in Nat
    BY <1>3 DEF TypeOK
  <2>2. CASE c \in GrantIds
    BY <1>1, <2>1, <2>2, Rows DEF GrantRows, BackingInv, GrantBacks
  <2>3. CASE c \notin GrantIds
    BY <1>1, <1>4, <2>1, <2>3 DEF GrantRows
  <2> QED BY <2>2, <2>3
<1>7. \A c \in GrantIds' : GrantBacks(c)'
  BY <1>2, <1>6 DEF GrantBacks
<1>8. \A c \in GrantIds' : /\ Claims'[c] \in Nat /\ LeafCharge'[c] \in Nat
                           /\ Claims'[c] <= LeafCharge'[c] + over[c]
  <2> TAKE c \in GrantIds'
  <2>1. /\ Claims'[c] = IF Voided(c)' THEN used[c] ELSE Greatest(used[c], grants'[c].amount)
        /\ LeafCharge'[c] = IF Voided(c)' THEN Least(grants'[c].amount, used[c])
                                          ELSE grants'[c].amount
    BY <1>2 DEF Claims, LeafCharge
  <2> QED BY <1>6, <2>1 DEF Least, Greatest
<1>9. ASSUME NEW S \in SUBSET GrantIds'
      PROVE  /\ Total(Claims', S) \in Nat /\ Total(LeafCharge', S) \in Nat
             /\ Total(over, S) \in Nat
             /\ Total(Claims', S) <= Total(LeafCharge', S) + Total(over, S)
  <2>1. IsFiniteSet(1 .. MaxGrants)
    BY FS_Interval
  <2>2. IsFiniteSet(S)
    BY <1>3, <2>1, FS_Subset
  <2>3. \A c \in S : LeafCharge'[c] \in Nat /\ over[c] \in Nat /\ Claims'[c] \in Nat
    BY <1>6, <1>8
  <2>4. \A c \in S : Claims'[c] <= LeafCharge'[c] + over[c]
    BY <1>8
  <2> QED BY <2>2, <2>3, <2>4, TotalBelow, TotalType
<1>10. \A c \in GrantIds : Claims'[c] = Claims[c]
  BY <1>1, <1>2 DEF Claims
<1>11. ASSUME NEW p \in ContributionIds PROVE ContributionBacks(p)'
  <2> SUFFICES Total(Claims', Draws(p)') <= contributions[p].amount + Total(over, Draws(p)')
    BY <1>2 DEF ContributionBacks
  <2>1. Draws(p) \subseteq GrantIds /\ Draws(p)' \in SUBSET GrantIds'
        /\ Draws(p) = Draws(p)' \cap GrantIds
    BY <1>1 DEF Draws
  <2>2. CASE Draws(p)' \subseteq GrantIds
    <3>1. Draws(p)' = Draws(p)
      BY <2>1, <2>2
    <3>2. Total(Claims', Draws(p)) = Total(Claims, Draws(p))
      BY <1>10, <2>1, TotalCong
    <3> QED BY <3>1, <3>2 DEF BackingInv, ContributionBacks
  <2>3. CASE ~ (Draws(p)' \subseteq GrantIds)
    <3>1. PICK c \in GrantIds' \ GrantIds : grants'[c].contribution = p
      BY <2>3 DEF Draws
    <3>2. p # 0
      BY ReturnedRows
    <3>3. ~ IsRoot(c)'
      BY <3>1, <3>2, FillRows, RowSource DEF IsRoot
    <3>4. Drawn(p)' <= contributions[p].amount
      BY <3>1, <3>2, <3>3, FillChildren
    <3>5. Total(LeafCharge', Draws(p)') <= contributions[p].amount
      BY <3>4 DEF Drawn
    <3>6. contributions[p].amount \in Nat
      BY ReturnedRows DEF ContributionRows
    <3> QED BY <1>9, <2>1, <3>5, <3>6
  <2> QED BY <2>2, <2>3
<1>12. ASSUME NEW g \in GrantIds', IsRoot(g)' PROVE RootBacks(g)'
  <2> DEFINE T == Transfers(g)'
             C == Contributed(g)
  <2>0. Contributed(g)' = C
    BY <1>1, <1>2 DEF Contributed, ReturnedAmount
  <2> SUFFICES used[g] + Total(Claims', T) + C
                 <= grants'[g].amount + over[g] + Total(over, T)
    BY <1>2, <2>0 DEF RootBacks
  <2>1. T \in SUBSET GrantIds'
    BY DEF Transfers, Children
  <2>2. g \in GrantIds => Transfers(g) = T \cap GrantIds
    BY <1>1 DEF Transfers, Children
  <2>3. CASE g \notin GrantIds
    <3>1. T = {}
      <4>1. \A c \in GrantIds : grants'[c].origin # g
        <5> TAKE c \in GrantIds
        <5>1. grants'[c] = grants[c] /\ Root(c) \in GrantIds
          BY <1>1, Rooted
        <5>2. g # 0
          BY <1>3
        <5> QED BY <2>3, <5>1, <5>2 DEF IsRoot, Root
      <4>2. \A c \in GrantIds' \ GrantIds : grants'[c].origin # g
        <5>1. g # 0
          BY <1>3
        <5> QED BY <2>3, <5>1, FillRows, RowSource
      <4> QED BY <1>1, <4>1, <4>2 DEF Transfers, Children
    <3>2. C = 0
      <4>1. \A p \in ContributionIds : contributions[p].origin # g
        BY <2>3 DEF ChainWellFormed, ContributionWellFormed
      <4>2. {p \in ContributionIds : contributions[p].origin = g} = {}
        BY <4>1
      <4> QED BY <4>2, TotalEmpty DEF Contributed
    <3>3. Total(Claims', T) = 0 /\ Total(over, T) = 0
      BY <3>1, TotalEmpty
    <3> HIDE DEF C, T
    <3> QED BY <1>4, <1>6, <2>3, <3>2, <3>3
  <2>4. CASE g \in GrantIds /\ T \subseteq GrantIds
    <3>1. T = Transfers(g)
      BY <2>2, <2>4
    <3>2. Total(Claims', Transfers(g)) = Total(Claims, Transfers(g))
      BY <1>10, <2>4, <3>1, TotalCong
    <3>3. RootBacks(g)
      BY <1>1, <1>12, <2>4 DEF BackingInv, IsRoot
    <3> QED BY <1>1, <2>4, <3>1, <3>2, <3>3 DEF RootBacks
  <2>5. CASE g \in GrantIds /\ ~ (T \subseteq GrantIds)
    <3>1. PICK c \in GrantIds' \ GrantIds : grants'[c].origin = g /\ grants'[c].contribution = 0
      BY <2>1, <2>5 DEF Transfers, Children
    <3>2. ~ IsRoot(c)'
      BY <1>3, <2>5, <3>1 DEF IsRoot
    <3>3. GrantRemaining'[g] >= 0 /\ ~ Voided(g)
      BY <3>1, <3>2, FillChildren
    <3>4. GrantRemaining'[g] = grants'[g].amount - used[g] - Total(LeafCharge', T) - C
      BY <1>1, <1>2, <2>0, <2>5, <3>3 DEF GrantRemaining, Transferred
    <3>5. C \in Nat
      BY <2>5, ChargeTypes
    <3> HIDE DEF C, T
    <3>6. /\ used[g] \in Nat /\ over[g] \in Nat /\ grants'[g].amount \in Nat
          /\ Total(Claims', T) \in Nat /\ Total(LeafCharge', T) \in Nat /\ Total(over, T) \in Nat
          /\ Total(Claims', T) <= Total(LeafCharge', T) + Total(over, T)
      BY <1>6, <1>9, <2>1
    <3> QED BY <3>3, <3>4, <3>5, <3>6
  <2> QED BY <2>3, <2>4, <2>5
<1> QED
  BY <1>1, <1>5, <1>7, <1>11, <1>12 DEF BackingInv

\* Returning credit (return_received_to_pool) takes it from grants that hold it.
LEMMA ReturnBacks ==
  ASSUME TypeOK, ChainWellFormed, BackingInv, NEW u \in Users, NEW new, Return(u, new)
  PROVE  BackingInv'
<1>1. /\ UNCHANGED <<accountVars, requestVars, grants, burnVars>> /\ GrantIds' = GrantIds
      /\ contributions' \in Seq(ContributionRows) /\ Len(new) \in Nat
      /\ ContributionIds = 1 .. Len(contributions) /\ Len(contributions) \in Nat
      /\ ContributionIds' = 1 .. (Len(contributions) + Len(new))
      /\ \A p \in ContributionIds : contributions'[p] = contributions[p]
      /\ \A i \in 1 .. Len(new) : contributions'[Len(contributions) + i] = new[i]
  <2>1. UNCHANGED <<accountVars, requestVars, grants, burnVars>>
    BY DEF Return
  <2>2. GrantIds' = GrantIds
    BY <2>1 DEF GrantIds
  <2> QED BY <2>1, <2>2, AfterReturn, ReturnedRows
<1>2. /\ grants' = grants /\ used' = used /\ over' = over /\ cancelled' = cancelled
      /\ ContributionIds \subseteq ContributionIds'
  BY <1>1 DEF burnVars, requestVars
<1>3. Claims' = Claims
  BY <1>1, <1>2 DEF Claims, Voided
<1>4. /\ \A p : Draws(p)' = Draws(p)
      /\ \A g : Transfers(g)' = Transfers(g)
  BY <1>1, <1>2 DEF Draws, Transfers, Children
<1>5. ASSUME NEW p \in ContributionIds' \ ContributionIds
      PROVE  /\ p - Len(contributions) \in 1 .. Len(new)
             /\ contributions'[p] = new[p - Len(contributions)]
             /\ p \in Nat \ {0}
  <2>1. /\ p - Len(contributions) \in 1 .. Len(new)
        /\ p = Len(contributions) + (p - Len(contributions)) /\ p \in Nat \ {0}
    BY <1>1
  <2>2. contributions'[Len(contributions) + (p - Len(contributions))]
          = new[p - Len(contributions)]
    BY <1>1, <2>1
  <2> QED BY <2>1, <2>2
<1>6. \A p \in ContributionIds' : contributions'[p].amount \in Nat \ {0}
  <2> TAKE p \in ContributionIds'
  <2>1. contributions'[p] \in ContributionRows
    BY <1>1 DEF ContributionIds
  <2> QED BY <2>1 DEF ContributionRows
<1>7. ASSUME NEW p \in ContributionIds' PROVE ContributionBacks(p)'
  <2> SUFFICES Total(Claims, Draws(p)) <= contributions'[p].amount + Total(over, Draws(p))
    BY <1>2, <1>3, <1>4 DEF ContributionBacks
  <2>1. CASE p \in ContributionIds
    BY <1>1, <2>1 DEF BackingInv, ContributionBacks
  <2>2. CASE p \notin ContributionIds
    <3>1. Draws(p) = {}
      BY <1>5, <2>2, Childless
    <3>2. Total(Claims, Draws(p)) = 0 /\ Total(over, Draws(p)) = 0
      BY <3>1, TotalEmpty
    <3> QED BY <1>6, <3>2
  <2> QED BY <2>1, <2>2
<1>8. ASSUME NEW g \in GrantIds, IsRoot(g) PROVE RootBacks(g)'
  <2> DEFINE P == Donations(g)
             Q == Donations(g)'
  <2> SUFFICES used[g] + Total(Claims, Transfers(g)) + Contributed(g)'
                 <= grants[g].amount + over[g] + Total(over, Transfers(g))
    BY <1>2, <1>3, <1>4 DEF RootBacks
  <2>1. /\ Contributed(g) = Total(ReturnedAmount, P)
        /\ Contributed(g)' = Total(ReturnedAmount', Q)
        /\ Contributed(g) \in Nat
    BY ChargeTypes DEF Contributed, Donations
  <2>2. P \subseteq Q /\ Q \cap ContributionIds = P /\ P \subseteq ContributionIds
        /\ Q \subseteq ContributionIds' /\ \A p \in Q : contributions'[p].origin = g
    BY <1>1, <1>2 DEF Donations
  <2>3. \A p \in P : ReturnedAmount[p] \in Nat /\ ReturnedAmount'[p] = ReturnedAmount[p]
    BY <1>1, <1>2, <2>2, ReturnedRows DEF ReturnedAmount, ContributionRows
  <2>4. RootBacks(g)
    BY <1>8 DEF BackingInv
  <2>5. CASE P = Q
    <3>1. Total(ReturnedAmount', P) = Total(ReturnedAmount, P)
      BY <2>3, TotalCong
    <3> QED BY <2>1, <2>4, <2>5, <3>1 DEF RootBacks
  <2>6. CASE P # Q
    <3>1. PICK q \in Q \ P : TRUE
      BY <2>2, <2>6
    <3>2. \A p \in Q \ P : p \in ContributionIds' \ ContributionIds
      BY <2>2
    <3>3. \A p \in Q \ P : contributions'[p].amount <= GrantRemaining[g]
      <4> TAKE p \in Q \ P
      <4>1. PICK i \in 1 .. Len(new) : contributions'[p] = new[i]
        BY <1>5, <3>2
      <4>2. new[i].amount <= GrantRemaining[new[i].origin] /\ new[i].origin = g
        BY <2>2, <4>1 DEF Return
      <4> QED BY <4>1, <4>2
    <3>4. \A p, o \in Q \ P : p = o
      <4> SUFFICES ASSUME NEW p \in Q \ P, NEW o \in Q \ P, p # o PROVE FALSE
        OBVIOUS
      <4> DEFINE i == p - Len(contributions)
                 j == o - Len(contributions)
      <4>1. /\ i \in 1 .. Len(new) /\ contributions'[p] = new[i]
            /\ j \in 1 .. Len(new) /\ contributions'[o] = new[j]
        BY <1>5, <3>2
      <4>2. i # j
        BY <1>1, <1>5, <3>2
      <4> HIDE DEF i, j
      <4>3. new[i].origin = g /\ new[j].origin = g
        BY <2>2, <4>1
      <4> QED BY <4>1, <4>2, <4>3 DEF Return
    <3>5. \A p \in Q \ P : /\ ReturnedAmount'[p] = contributions'[p].amount
                           /\ contributions'[p].amount \in Nat \ {0}
      BY <1>6, <2>2 DEF ReturnedAmount
    <3>6. GrantRemaining[g] \in Nat \ {0}
      BY <3>1, <3>3, <3>5, BalanceTypes
    <3>7. IsFiniteSet(P)
      BY <2>2, ReturnedRows, FS_Subset
    <3> HIDE DEF P, Q
    <3>8. Total(ReturnedAmount', Q) <= Total(ReturnedAmount, P) + GrantRemaining[g]
          /\ Total(ReturnedAmount', Q) \in Nat
      <4>1. \A p \in Q \ P : ReturnedAmount'[p] \in Nat /\ ReturnedAmount'[p] <= GrantRemaining[g]
        BY <3>3, <3>5
      <4>2. GrantRemaining[g] \in Nat
        BY <3>6
      <4> QED BY <2>2, <2>3, <3>4, <3>7, <4>1, <4>2, TotalOneNew
    <3>9. GrantRemaining[g] = grants[g].amount - used[g] - Transferred(g) - Contributed(g)
      BY <3>6 DEF GrantRemaining
    <3>10. Transfers(g) \in SUBSET GrantIds /\ \A c \in GrantIds : GrantBacks(c)
      BY DEF Transfers, Children, BackingInv
    <3>11. /\ Total(Claims, Transfers(g)) <= Transferred(g) + Total(over, Transfers(g))
           /\ Total(Claims, Transfers(g)) \in Nat /\ Total(over, Transfers(g)) \in Nat
           /\ Transferred(g) \in Nat
      BY <3>10, ClaimsCharged, ClaimTypes DEF Transferred
    <3>12. grants[g].amount \in Nat /\ used[g] \in Nat /\ over[g] \in Nat
      BY Rows DEF GrantRows
    <3> QED BY <2>1, <3>6, <3>8, <3>9, <3>11, <3>12
  <2> QED BY <2>5, <2>6
<1>9. \A c \in GrantIds : GrantBacks(c)'
  BY <1>2 DEF BackingInv, GrantBacks
<1>10. Unused'
  BY <1>1, <1>2 DEF BackingInv, Unused
<1>11. \A g \in GrantIds : IsRoot(g)' <=> IsRoot(g)
  BY <1>2 DEF IsRoot
<1> QED
  BY <1>1, <1>7, <1>8, <1>9, <1>10, <1>11 DEF BackingInv

\* A cancelled request gives back (cancel_request).
LEMMA CancelBacks ==
  ASSUME TypeOK, BackingInv, NEW r \in Requests, CancelRequest(r)
  PROVE  BackingInv'
<1>1. /\ grants' = grants /\ contributions' = contributions /\ used' = used /\ over' = over
      /\ GrantIds' = GrantIds /\ ContributionIds' = ContributionIds
      /\ \A c \in GrantIds : Voided(c) => Voided(c)'
  BY CancelCharges DEF burnVars, ContributionIds, Voided
<1>2. \A c \in GrantIds : Claims'[c] \in Nat /\ Claims'[c] <= Claims[c]
  <2> TAKE c \in GrantIds
  <2>1. /\ Claims[c] = IF Voided(c) THEN used[c] ELSE Greatest(used[c], grants[c].amount)
        /\ Claims'[c] = IF Voided(c)' THEN used[c] ELSE Greatest(used[c], grants[c].amount)
    BY <1>1 DEF Claims
  <2>2. used[c] \in Nat /\ grants[c].amount \in Nat
    BY Rows DEF GrantRows
  <2> QED BY <1>1, <2>1, <2>2 DEF Greatest
<1>3. \A S \in SUBSET GrantIds :
        /\ Total(Claims', S) <= Total(Claims, S)
        /\ Total(Claims', S) \in Nat /\ Total(Claims, S) \in Nat /\ Total(over, S) \in Nat
  <2> TAKE S \in SUBSET GrantIds
  <2>1. IsFiniteSet(S) /\ Total(Claims, S) \in Nat /\ Total(over, S) \in Nat
    BY ClaimTypes
  <2>2. \A c \in S : Claims'[c] \in Nat /\ Claims[c] \in Nat /\ Claims'[c] <= Claims[c]
    BY <1>2, ClaimTypes
  <2> QED BY <2>1, <2>2, TotalMono, TotalType
<1>4. ASSUME NEW p \in ContributionIds PROVE ContributionBacks(p)'
  <2>1. Draws(p)' = Draws(p) /\ Draws(p) \in SUBSET GrantIds
    BY <1>1 DEF Draws
  <2>2. ContributionBacks(p) /\ contributions[p].amount \in Nat
    BY ReturnedRows DEF BackingInv, ContributionRows
  <2> QED BY <1>1, <1>3, <2>1, <2>2 DEF ContributionBacks
<1>5. ASSUME NEW g \in GrantIds, IsRoot(g) PROVE RootBacks(g)'
  <2>1. Transfers(g)' = Transfers(g) /\ Transfers(g) \in SUBSET GrantIds
    BY <1>1 DEF Transfers, Children
  <2>2. Contributed(g)' = Contributed(g) /\ Contributed(g) \in Nat
    BY <1>1, ChargeTypes DEF Contributed, ReturnedAmount
  <2>3. RootBacks(g) /\ grants[g].amount \in Nat /\ used[g] \in Nat /\ over[g] \in Nat
    BY <1>5, Rows DEF BackingInv, GrantRows
  <2> QED BY <1>1, <1>3, <2>1, <2>2, <2>3 DEF RootBacks
<1>6. /\ Unused' /\ \A c \in GrantIds : GrantBacks(c)'
      /\ \A g \in GrantIds : IsRoot(g)' <=> IsRoot(g)
  BY <1>1 DEF BackingInv, Unused, GrantBacks, IsRoot
<1> QED
  BY <1>1, <1>4, <1>5, <1>6 DEF BackingInv

\* A burn beyond what the grant holds is booked as overshoot on it.
LEMMA BurnBacks ==
  ASSUME TypeOK, ChainWellFormed, BackingInv, NEW g, NEW n, NEW x, Burns(g, n, x)
  PROVE  BackingInv'
<1>1. /\ grants' = grants /\ contributions' = contributions
      /\ GrantIds' = GrantIds /\ ContributionIds' = ContributionIds
      /\ g \in GrantIds /\ n \in Nat /\ x \in Nat
      /\ \A c \in GrantIds : /\ used'[c] = used[c] + (IF c = g THEN n ELSE 0)
                             /\ over'[c] = over[c] + (IF c = g THEN x ELSE 0)
      /\ \A c \in GrantIds : Voided(c)' <=> Voided(c)
      /\ n <= Greatest(0, GrantRemaining[g]) + x
      /\ Voided(g) => x = n
  BY DEF Burns, GrantIds, ContributionIds, requestVars, Voided
<1>2. \A c \in GrantIds : /\ used[c] \in Nat /\ over[c] \in Nat /\ grants[c].amount \in Nat
                          /\ GrantRemaining[c] \in Int
                          /\ Transferred(c) \in Nat /\ Contributed(c) \in Nat
  BY Rows, BalanceTypes, ChargeTypes DEF GrantRows
<1>3. \A c \in GrantIds : ~ Voided(c) =>
        GrantRemaining[c] = grants[c].amount - used[c] - Transferred(c) - Contributed(c)
  BY DEF GrantRemaining
<1>4. \A c \in GrantIds : GrantBacks(c)
  BY DEF BackingInv
<1>5. used'[g] <= grants[g].amount + over'[g]
  <2>1. used[g] <= grants[g].amount + over[g]
    BY <1>1, <1>4 DEF GrantBacks
  <2>2. used'[g] = used[g] + n /\ over'[g] = over[g] + x
    BY <1>1
  <2>3. CASE Voided(g)
    BY <1>1, <1>2, <2>1, <2>2, <2>3
  <2>4. CASE ~ Voided(g)
    BY <1>1, <1>2, <1>3, <2>1, <2>2, <2>4 DEF Greatest
  <2> QED BY <2>3, <2>4
<1>6. \A c \in GrantIds : GrantBacks(c)'
  <2> TAKE c \in GrantIds
  <2>1. CASE c = g
    BY <1>1, <1>5, <2>1 DEF GrantBacks
  <2>2. CASE c # g
    BY <1>1, <1>2, <1>4, <2>2 DEF GrantBacks
  <2> QED BY <2>1, <2>2
<1>7. \A c \in GrantIds : /\ Claims[c] \in Nat /\ Claims'[c] \in Nat
                          /\ Claims'[c] <= Claims[c] + (IF c = g THEN x ELSE 0)
  <2> TAKE c \in GrantIds
  <2>1. /\ Claims[c] = IF Voided(c) THEN used[c] ELSE Greatest(used[c], grants[c].amount)
        /\ Claims'[c] = IF Voided(c) THEN used'[c] ELSE Greatest(used'[c], grants[c].amount)
    BY <1>1 DEF Claims
  <2>2. CASE c # g
    BY <1>1, <1>2, <2>1, <2>2 DEF Greatest
  <2>3. CASE c = g /\ Voided(c)
    BY <1>1, <1>2, <2>1, <2>3
  <2>4. CASE c = g /\ ~ Voided(c)
    <3>1. used'[c] = used[c] + n /\ n <= Greatest(0, grants[c].amount - used[c]) + x
      BY <1>1, <1>2, <1>3, <2>4 DEF Greatest
    <3> QED BY <1>1, <1>2, <2>1, <2>4, <3>1 DEF Greatest
  <2> QED BY <2>2, <2>3, <2>4
<1>8. ASSUME NEW S \in SUBSET GrantIds
      PROVE  /\ Total(Claims', S) <= Total(Claims, S) + (IF g \in S THEN x ELSE 0)
             /\ Total(over', S) = Total(over, S) + (IF g \in S THEN x ELSE 0)
             /\ Total(Claims', S) \in Nat /\ Total(Claims, S) \in Nat /\ Total(over, S) \in Nat
  <2>1. IsFiniteSet(S) /\ Total(Claims, S) \in Nat /\ Total(over, S) \in Nat
    BY ClaimTypes
  <2>2. Total(Claims', S) \in Nat
    BY <1>7, GrantSum
  <2>3. Total(over', S) = Total(over, S) + (IF g \in S THEN x ELSE 0)
    <3>1. \A c \in S : over[c] \in Nat /\ over'[c] = over[c] + (IF c = g THEN x ELSE 0)
      BY <1>1, <1>2
    <3>2. RaisedBy(S, over, over', g, x)
      BY <1>1, <2>1, <3>1 DEF RaisedBy
    <3> QED BY <3>2, TotalRaised
  <2>4. CASE g \in S
    <3>1. Raised(S, Claims, Claims', g, x)
      BY <1>1, <1>7, <2>1 DEF Raised
    <3> QED BY <2>1, <2>2, <2>3, <2>4, <3>1, TotalRaise
  <2>5. CASE g \notin S
    <3>1. \A c \in S : Claims[c] \in Nat /\ Claims'[c] \in Nat /\ Claims'[c] <= Claims[c]
      <4> TAKE c \in S
      <4>1. c # g /\ c \in GrantIds
        BY <2>5
      <4> QED BY <1>7, <4>1
    <3>2. Total(Claims', S) <= Total(Claims, S)
      BY <2>1, <3>1, TotalMono
    <3> QED BY <2>1, <2>2, <2>3, <2>5, <3>2
  <2> QED BY <2>4, <2>5
<1>9. ASSUME NEW p \in ContributionIds PROVE ContributionBacks(p)'
  <2>1. Draws(p)' = Draws(p) /\ Draws(p) \in SUBSET GrantIds
    BY <1>1 DEF Draws
  <2>2. ContributionBacks(p) /\ contributions[p].amount \in Nat
    BY ReturnedRows DEF BackingInv, ContributionRows
  <2>3. Total(Claims', Draws(p)) <= contributions[p].amount + Total(over', Draws(p))
    BY <1>1, <1>8, <2>1, <2>2 DEF ContributionBacks
  <2> QED BY <1>1, <2>1, <2>3 DEF ContributionBacks
<1>10. ASSUME NEW h \in GrantIds, IsRoot(h) PROVE RootBacks(h)'
  <2> DEFINE T == Transfers(h)
             C == Contributed(h)
  <2>1. Transfers(h)' = T /\ T \in SUBSET GrantIds
    BY <1>1 DEF Transfers, Children
  <2>2. Contributed(h)' = C /\ C \in Nat
    BY <1>1, <1>2 DEF Contributed, ReturnedAmount
  <2>3. used[h] + Total(Claims, T) + C <= grants[h].amount + over[h] + Total(over, T)
    BY <1>10 DEF BackingInv, RootBacks
  <2>4. h \notin T
    BY Rooted DEF Transfers
  <2>5. Transferred(h) = Total(LeafCharge, T)
    BY DEF Transferred
  <2> HIDE DEF T, C
  <2>6. /\ Total(Claims', T) <= Total(Claims, T) + (IF g \in T THEN x ELSE 0)
        /\ Total(over', T) = Total(over, T) + (IF g \in T THEN x ELSE 0)
        /\ Total(Claims', T) \in Nat /\ Total(Claims, T) \in Nat /\ Total(over, T) \in Nat
    BY <1>8, <2>1
  <2>7. /\ used'[h] = used[h] + (IF h = g THEN n ELSE 0)
        /\ over'[h] = over[h] + (IF h = g THEN x ELSE 0)
        /\ used[h] \in Nat /\ over[h] \in Nat /\ grants[h].amount \in Nat
    BY <1>1, <1>2
  <2>8. used'[h] + Total(Claims', T) + C <= grants[h].amount + over'[h] + Total(over', T)
    <3>1. CASE h # g
      BY <1>1, <2>2, <2>3, <2>6, <2>7, <3>1
    <3>2. CASE h = g /\ n <= x
      BY <1>1, <2>2, <2>3, <2>4, <2>6, <2>7, <3>2
    <3>3. CASE h = g /\ ~ (n <= x)
      <4>1. ~ Voided(h) /\ n <= GrantRemaining[h] + x
        BY <1>1, <1>2, <3>3 DEF Greatest
      <4>2. GrantRemaining[h] = grants[h].amount - used[h] - Total(LeafCharge, T) - C
        BY <1>3, <2>5, <4>1 DEF C
      <4>3. /\ Total(Claims, T) <= Total(LeafCharge, T) + Total(over, T)
            /\ Total(LeafCharge, T) \in Nat
        BY <1>4, <2>1, ClaimsCharged, ClaimTypes
      <4> QED BY <1>1, <2>2, <2>4, <2>6, <2>7, <3>3, <4>1, <4>2, <4>3
    <3> QED BY <3>1, <3>2, <3>3
  <2> QED BY <1>1, <2>1, <2>2, <2>8 DEF RootBacks
<1>11. Unused'
  <2>2. \A c \in (1 .. MaxGrants) \ {g} : used'[c] = used[c] /\ over'[c] = over[c]
    BY DEF Burns
  <2> QED BY <1>1, <2>2 DEF BackingInv, Unused
<1>12. \A h \in GrantIds : IsRoot(h)' <=> IsRoot(h)
  BY <1>1 DEF IsRoot
<1> QED
  BY <1>1, <1>6, <1>9, <1>10, <1>11, <1>12 DEF BackingInv

\* What backs the credit is kept by every step.
THEOREM BackingKept == Spec => []BackingInv
<1>1. Init => BackingInv
  <2> SUFFICES ASSUME Init PROVE BackingInv
    OBVIOUS
  <2>1. GrantIds = {} /\ ContributionIds = {}
    BY DEF Init, GrantIds, ContributionIds
  <2>2. Unused
    BY DEF Init, Unused
  <2> QED BY <2>1, <2>2 DEF BackingInv
<1>2. TypeOK /\ ChainWellFormed /\ BackingInv /\ [Next]_vars => BackingInv'
  <2> SUFFICES ASSUME TypeOK, ChainWellFormed, BackingInv, [Next]_vars PROVE BackingInv'
    OBVIOUS
  <2>1. CASE \E r \in Requests : \E new : Fill(r, new)
    BY <2>1, FillBacks
  <2>2. CASE \E r \in Requests : CancelRequest(r)
    BY <2>2, CancelBacks
  <2>3. CASE \E g \in GrantIds, n \in 1 .. MaxAmount, overshoot \in BOOLEAN :
               RecordGrant(g, n, overshoot)
    <3> PICK g \in GrantIds, n \in 1 .. MaxAmount, overshoot \in BOOLEAN :
               RecordGrant(g, n, overshoot)
      BY <2>3
    <3>1. PICK x \in Nat : Burns(g, n, x)
      BY RecordGrantBurns
    <3> QED BY <3>1, BurnBacks
  <2>4. CASE \E u \in Users, n \in 1 .. MaxAmount : ReturnReceivedToPool(u, n)
    <3> PICK u \in Users, n \in 1 .. MaxAmount : ReturnReceivedToPool(u, n)
      BY <2>4
    <3> PICK new : Return(u, new)
      BY Returns
    <3> QED BY ReturnBacks
  <2>5. CASE UNCHANGED <<grants, contributions, cancelled, burnVars>>
    BY <2>5 DEF BackingInv, Unused, GrantBacks, ContributionBacks, RootBacks, Claims, Draws,
                Transfers, Children, Contributed, ReturnedAmount, ContributionIds, GrantIds,
                IsRoot, Voided, burnVars
  <2>6. CASE OtherStep
    BY <2>2, <2>3, <2>4, <2>5, <2>6
       DEF OtherStep, CreateRequest, Expire, SetPledge, SetQuota, SetVerdict, RecordSelf,
           vars, requestVars
  <2> QED BY <2>1, <2>6, Steps
<1> QED
  BY <1>1, <1>2, Typing, Chains, PTL DEF Spec

-----------------------------------------------------------------------------
(* What hangs off one root grant *)

\* A contribution covers what was drawn from it and what can still be.
LEMMA CapacityBacked ==
  ASSUME TypeOK, BackingInv, NEW p \in ContributionIds
  PROVE  Total(Claims, Draws(p)) + Capacity[p]
           <= contributions[p].amount + Total(over, Draws(p))
<1>1. Draws(p) \in SUBSET GrantIds /\ \A c \in GrantIds : GrantBacks(c)
  BY DEF Draws, BackingInv
<1>2. /\ Total(Claims, Draws(p)) <= Drawn(p) + Total(over, Draws(p))
      /\ Total(Claims, Draws(p)) \in Nat /\ Drawn(p) \in Nat /\ Total(over, Draws(p)) \in Nat
  BY <1>1, ClaimsCharged, ClaimTypes DEF Drawn
<1>3. /\ Total(Claims, Draws(p)) <= contributions[p].amount + Total(over, Draws(p))
      /\ contributions[p].amount \in Nat
  BY ReturnedRows DEF BackingInv, ContributionBacks, ContributionRows
<1>4. Capacity[p] = 0 \/ Capacity[p] = contributions[p].amount - Drawn(p)
  BY DEF Capacity, Greatest
<1> QED
  BY <1>2, <1>3, <1>4

\* The rows drawn from returned credit of a root are grouped by its contributions.
DrawnFrom == [c \in GrantIds |-> grants[c].contribution]

LEMMA DrawnRows ==
  ASSUME TypeOK, ChainWellFormed, NEW g \in GrantIds, IsRoot(g),
         NEW D, D = Children(g) \ Transfers(g)
  PROVE  /\ D \in SUBSET GrantIds /\ IsFiniteSet(D)
         /\ Donations(g) \in SUBSET ContributionIds /\ IsFiniteSet(Donations(g))
         /\ \A c \in D : DrawnFrom[c] \in Donations(g)
         /\ \A p \in Donations(g) : Owned(DrawnFrom, D, p) = Draws(p)
<1>1. D \in SUBSET GrantIds /\ IsFiniteSet(D)
  BY ClaimTypes DEF Children
<1>2. Donations(g) \in SUBSET ContributionIds /\ IsFiniteSet(Donations(g))
  BY ReturnedRows, FS_Subset DEF Donations
<1>3. \A c \in D : DrawnFrom[c] \in Donations(g) /\ DrawnFrom[c] = grants[c].contribution
  <2> TAKE c \in D
  <2>1. c \in GrantIds /\ grants[c].origin = g /\ grants[c].contribution # 0
    BY DEF Children, Transfers
  <2>2. ~ IsRoot(c)
    BY <2>1, Rooted DEF IsRoot
  <2>3. ChildWellFormed(c)
    BY <2>1, <2>2 DEF ChainWellFormed
  <2> QED BY <2>1, <2>3 DEF ChildWellFormed, Donations, DrawnFrom
<1>4. \A p \in Donations(g) : Owned(DrawnFrom, D, p) = Draws(p)
  <2> TAKE p \in Donations(g)
  <2>1. p \in ContributionIds /\ contributions[p].origin = g
    BY DEF Donations
  <2>2. \A c \in Draws(p) : c \in GrantIds /\ grants[c].origin = g /\ grants[c].contribution # 0
    <3> TAKE c \in Draws(p)
    <3>1. c \in GrantIds /\ grants[c].contribution = p /\ p # 0
      BY <2>1, ReturnedRows DEF Draws
    <3>2. ~ IsRoot(c) /\ ChildWellFormed(c)
      BY <3>1 DEF ChainWellFormed
    <3> QED BY <2>1, <3>1, <3>2 DEF ChildWellFormed
  <2>3. \A c \in Draws(p) : c \in D /\ DrawnFrom[c] = p
    BY <2>2 DEF Draws, Children, Transfers, DrawnFrom
  <2>4. \A c \in Owned(DrawnFrom, D, p) : c \in Draws(p)
    BY <1>1, <1>3 DEF Owned, Draws
  <2> QED BY <2>3, <2>4 DEF Owned
<1> QED
  BY <1>1, <1>2, <1>3, <1>4

\* All contributions of a root together cover all draws of its returned credit.
LEMMA DonationsBacked ==
  ASSUME TypeOK, ChainWellFormed, BackingInv, NEW g \in GrantIds, IsRoot(g),
         NEW D, D = Children(g) \ Transfers(g)
  PROVE  /\ Total(Claims, D) + Total(Capacity, Donations(g)) <= Contributed(g) + Total(over, D)
         /\ Total(Capacity, Donations(g)) \in Nat
<1> DEFINE P == Donations(g)
<1>1. /\ D \in SUBSET GrantIds /\ IsFiniteSet(D)
      /\ P \in SUBSET ContributionIds /\ IsFiniteSet(P)
      /\ \A c \in D : DrawnFrom[c] \in P
      /\ \A p \in P : Owned(DrawnFrom, D, p) = Draws(p)
  BY DrawnRows
<1>2. \A c \in D : Claims[c] \in Nat /\ over[c] \in Nat
  BY <1>1, ClaimTypes, Rows
<1>3. \A p \in P : /\ ReturnedAmount[p] \in Nat /\ Capacity[p] \in Nat
                   /\ ReturnedAmount[p] = contributions[p].amount
  BY <1>1, BalanceTypes, ReturnedRows DEF ReturnedAmount, ContributionRows
<1>4. \A p \in P : Total(Claims, Owned(DrawnFrom, D, p)) + Capacity[p]
                     <= ReturnedAmount[p] + Total(over, Owned(DrawnFrom, D, p))
  BY <1>1, <1>3, CapacityBacked
<1> HIDE DEF P
<1>5. Family(DrawnFrom, D, P, Claims, over, ReturnedAmount, Capacity)
  BY <1>1, <1>2, <1>3, <1>4 DEF Family
<1>6. Total(Claims, D) + Total(Capacity, P) <= Total(ReturnedAmount, P) + Total(over, D)
  BY <1>5, TotalFamily
<1>7. Total(Capacity, P) \in Nat
  BY <1>1, <1>3, TotalType
<1> QED
  BY <1>6, <1>7 DEF Contributed, Donations, P

\* A row below a root holds what was not burned of it, while its request is live.
LEMMA ChildRemaining ==
  ASSUME TypeOK, ChainWellFormed, NEW c \in GrantIds, ~ IsRoot(c)
  PROVE  GrantRemaining[c] = IF Voided(c) THEN 0 ELSE grants[c].amount - used[c]
<1>1. Transfers(c) = {} /\ Donations(c) = {}
  BY Childless DEF Transfers
<1>2. Transferred(c) = 0 /\ Contributed(c) = 0
  <2>1. Total(LeafCharge, {}) = 0 /\ Total(ReturnedAmount, {}) = 0
    BY TotalEmpty
  <2> QED BY <1>1, <2>1 DEF Transferred, Contributed, Donations
<1>3. used[c] \in Nat /\ grants[c].amount \in Nat
  BY Rows DEF GrantRows
<1> QED
  BY <1>2, <1>3 DEF GrantRemaining

\* A sum over the rows of a root, by how they hang off it: the root, the
\* transfers, and the draws of returned credit.
LEMMA TreeSplit ==
  ASSUME TypeOK, ChainWellFormed, NEW g \in GrantIds,
         NEW D, D = Children(g) \ Transfers(g),
         NEW h, \A c \in GrantIds : h[c] \in Nat
  PROVE  /\ Total(h, Transfers(g)) \in Nat /\ Total(h, D) \in Nat
         /\ Total(h, Children(g)) = Total(h, Transfers(g)) + Total(h, D)
         /\ Total(h, Tree(g)) = h[g] + Total(h, Transfers(g)) + Total(h, D)
<1> DEFINE T == Transfers(g)
<1>1. /\ T \in SUBSET GrantIds /\ D \in SUBSET GrantIds /\ T \cap D = {}
      /\ Children(g) = T \cup D /\ Children(g) \in SUBSET GrantIds
      /\ g \notin Children(g)
  BY Rooted DEF Transfers, Children
<1>2. /\ IsFiniteSet(T) /\ IsFiniteSet(D) /\ IsFiniteSet(Children(g))
      /\ Total(h, T) \in Nat /\ Total(h, D) \in Nat
  BY <1>1, GrantSum
<1> HIDE DEF T
<1>3. Total(h, T \cup D) = Total(h, T) + Total(h, D)
  BY <1>1, <1>2, TotalSplit
<1>4. Tree(g) = Children(g) \cup {g}
  BY DEF Tree
<1>5. \A c \in Children(g) \cup {g} : h[c] \in Nat
  BY <1>1
<1>6. Total(h, Children(g) \cup {g}) = Total(h, Children(g)) + h[g]
  BY <1>1, <1>2, <1>5, TotalOneMore
<1>7. Total(h, Children(g)) = Total(h, T) + Total(h, D)
  BY <1>1, <1>3
<1>8. Total(h, Tree(g)) = Total(h, Children(g)) + h[g]
  BY <1>4, <1>6
<1>9. h[g] \in Nat
  OBVIOUS
<1>10. Total(h, Tree(g)) = h[g] + Total(h, T) + Total(h, D)
  BY <1>2, <1>7, <1>8, <1>9
<1> QED
  BY <1>2, <1>7, <1>10 DEF T

\* Everything that can still be burned or drawn along the chains of a root, and
\* all that was, is charged to its donor or booked as overshoot.
LEMMA RootBacked ==
  ASSUME TypeOK, ChainWellFormed, BackingInv, NEW g \in GrantIds, IsRoot(g)
  PROVE  Liability(g) <= Charge[g] + Total(over, Tree(g))
<1> DEFINE T == Transfers(g)
           D == Children(g) \ Transfers(g)
           f == [c \in GrantIds |-> used[c] + Spendable(c)]
           C == Contributed(g)
           free == Total(Capacity, Donations(g))
<1>1. /\ T \in SUBSET GrantIds /\ D \in SUBSET GrantIds /\ T \cap D = {}
      /\ Children(g) = T \cup D /\ Children(g) \in SUBSET GrantIds
      /\ g \notin Children(g)
  BY Rooted DEF Transfers, Children
<1>2. \A c \in GrantIds : /\ used[c] \in Nat /\ over[c] \in Nat /\ grants[c].amount \in Nat
                          /\ GrantRemaining[c] \in Int /\ Claims[c] \in Nat
                          /\ LeafCharge[c] \in Nat
  BY Rows, BalanceTypes, ClaimTypes, ChargeTypes DEF GrantRows
<1>3. \A c \in GrantIds : f[c] = used[c] + Greatest(0, GrantRemaining[c]) /\ f[c] \in Nat
  BY <1>2 DEF Spendable, Greatest
<1>4. \A c \in Children(g) : f[c] = Claims[c]
  <2> TAKE c \in Children(g)
  <2>1. c \in GrantIds /\ ~ IsRoot(c)
    BY Rooted
  <2>3. GrantRemaining[c] = IF Voided(c) THEN 0 ELSE grants[c].amount - used[c]
    BY <2>1, ChildRemaining
  <2>4. Claims[c] = IF Voided(c) THEN used[c] ELSE Greatest(used[c], grants[c].amount)
    BY <2>1 DEF Claims
  <2> HIDE DEF f
  <2> QED BY <1>2, <1>3, <2>1, <2>3, <2>4 DEF Greatest
<1>5. /\ IsFiniteSet(T) /\ IsFiniteSet(D) /\ IsFiniteSet(Children(g))
      /\ Total(Claims, T) \in Nat /\ Total(Claims, D) \in Nat
      /\ Total(over, T) \in Nat /\ Total(over, D) \in Nat
      /\ Total(LeafCharge, T) \in Nat /\ Total(LeafCharge, D) \in Nat
  BY <1>1, ClaimTypes
<1>6. \A h : (\A c \in GrantIds : h[c] \in Nat) =>
        /\ Total(h, Children(g)) = Total(h, T) + Total(h, D)
        /\ Total(h, Tree(g)) = h[g] + Total(h, T) + Total(h, D)
  BY TreeSplit
<1>7. Total(f, T) = Total(Claims, T) /\ Total(f, D) = Total(Claims, D)
  <2> HIDE DEF f
  <2>1. \A c \in T : f[c] = Claims[c]
    BY <1>1, <1>4
  <2>2. \A c \in D : f[c] = Claims[c]
    BY <1>1, <1>4
  <2> HIDE DEF T, D
  <2> QED BY <2>1, <2>2, TotalCong
<1>8. Liability(g) = f[g] + Total(Claims, T) + Total(Claims, D) + free
  <2>1. Liability(g) = Total(f, Tree(g)) + free
    BY DEF Liability, Donations
  <2>2. Total(f, Tree(g)) = f[g] + Total(f, T) + Total(f, D)
    <3> HIDE DEF f, T, D
    <3> QED BY <1>3, <1>6
  <2> QED BY <1>7, <2>1, <2>2
<1>9. /\ Total(over, Tree(g)) = over[g] + Total(over, T) + Total(over, D)
      /\ Moved(g) = Total(LeafCharge, T) + Total(LeafCharge, D)
  <2> HIDE DEF T, D
  <2> QED BY <1>2, <1>6 DEF Moved
<1>10. Total(Claims, D) + free <= C + Total(over, D) /\ free \in Nat
  BY DonationsBacked
<1>11. /\ used[g] + Total(Claims, T) + C <= grants[g].amount + over[g] + Total(over, T)
       /\ Total(Claims, T) <= Total(LeafCharge, T) + Total(over, T)
       /\ Total(Claims, D) <= Total(LeafCharge, D) + Total(over, D)
  <2>1. RootBacks(g) /\ \A c \in GrantIds : GrantBacks(c)
    BY DEF BackingInv
  <2> QED BY <1>1, <2>1, ClaimsCharged DEF RootBacks
<1>12. C \in Nat
  BY ChargeTypes
<1>13. GrantRemaining[g] = IF Voided(g) THEN 0
         ELSE grants[g].amount - used[g] - Total(LeafCharge, T) - C
  BY DEF GrantRemaining, Transferred
<1>14. Charge[g] = IF Voided(g) THEN Least(grants[g].amount, used[g] + Moved(g))
                                ELSE grants[g].amount
  BY DEF Charge
<1>15. Voided(g) => free = 0
  <2> SUFFICES ASSUME Voided(g) PROVE free = 0
    OBVIOUS
  <2>1. \A p \in Donations(g) : Capacity[p] = 0
    BY DEF Donations, Capacity
  <2> QED BY <2>1, TotalZero
<1>16. used[g] \in Nat /\ over[g] \in Nat /\ grants[g].amount \in Nat
       /\ f[g] = used[g] + Greatest(0, GrantRemaining[g])
  BY <1>2, <1>3
<1> HIDE DEF f, T, D, C, free
<1>17. CASE ~ Voided(g)
  <2>1. Charge[g] = grants[g].amount
    BY <1>14, <1>17
  <2>2. CASE GrantRemaining[g] > 0
    <3>1. f[g] = grants[g].amount - Total(LeafCharge, T) - C
      BY <1>5, <1>12, <1>13, <1>16, <1>17, <2>2 DEF Greatest
    <3> QED BY <1>5, <1>8, <1>9, <1>10, <1>11, <1>12, <1>16, <2>1, <3>1
  <2>3. CASE ~ (GrantRemaining[g] > 0)
    <3>1. f[g] = used[g]
      BY <1>2, <1>16, <2>3 DEF Greatest
    <3> QED BY <1>5, <1>8, <1>9, <1>10, <1>11, <1>12, <1>16, <2>1, <3>1
  <2> QED BY <2>2, <2>3
<1>18. CASE Voided(g)
  <2>1. f[g] = used[g] /\ free = 0
    BY <1>13, <1>15, <1>16, <1>18 DEF Greatest
  <2>2. Charge[g] = grants[g].amount \/ Charge[g] = used[g] + Moved(g)
    BY <1>14, <1>18 DEF Least
  <2>3. CASE Charge[g] = grants[g].amount
    BY <1>5, <1>8, <1>9, <1>10, <1>11, <1>12, <1>16, <2>1, <2>3
  <2>4. CASE Charge[g] = used[g] + Moved(g)
    BY <1>5, <1>8, <1>9, <1>10, <1>11, <1>12, <1>16, <2>1, <2>4
  <2> QED BY <2>2, <2>3, <2>4
<1> QED
  BY <1>17, <1>18

\* CreditBacked: in whatever order requests along a chain are funded, burned
\* and cancelled, no credit is created.
THEOREM NoCreditCreated == Spec => []CreditBacked
<1>1. TypeOK /\ ChainWellFormed /\ BackingInv => CreditBacked
  BY RootBacked DEF CreditBacked
<1> QED
  BY <1>1, Typing, Chains, BackingKept, PTL
=============================================================================
