------------------------- MODULE Marketplace_proofs -------------------------
(***************************************************************************)
(* What holds of the marketplace for every team, every set of requests and *)
(* every bound: the tables keep their types, no request is overfunded, and *)
(* the chains of re-donated credit stay one hop deep.                      *)
(***************************************************************************)
EXTENDS Marketplace, CreditSums_proofs

USE UsersAssumption, RequestsAssumption, BoundsAssumption

\* The ids of grants are 1 .. n for a finite n, and each names a well-typed
\* row with a burn on it (the grants table).
LEMMA Rows ==
  ASSUME TypeOK
  PROVE  /\ GrantIds = 1 .. Len(grants)
         /\ Len(grants) \in Nat
         /\ IsFiniteSet(GrantIds)
         /\ \A g \in GrantIds : grants[g] \in GrantRows
         /\ \A g \in GrantIds : g \in 1 .. MaxGrants
         /\ \A g \in GrantIds : used[g] \in Nat /\ over[g] \in Nat
<1>1. GrantIds = 1 .. Len(grants) /\ Len(grants) \in Nat
  BY DEF TypeOK, GrantIds
<1>2. IsFiniteSet(1 .. Len(grants))
  BY <1>1, FS_Interval
<1>3. \A g \in GrantIds : grants[g] \in GrantRows
  BY <1>1 DEF TypeOK
<1>4. \A g \in GrantIds : g \in 1 .. MaxGrants
  BY <1>1 DEF TypeOK
<1>5. \A g \in GrantIds : used[g] \in Nat /\ over[g] \in Nat
  BY <1>4 DEF TypeOK
<1> QED
  BY <1>1, <1>2, <1>3, <1>4, <1>5

\* The same of the pool_contributions table.
LEMMA ReturnedRows ==
  ASSUME TypeOK
  PROVE  /\ ContributionIds = 1 .. Len(contributions)
         /\ Len(contributions) \in Nat
         /\ IsFiniteSet(ContributionIds)
         /\ \A p \in ContributionIds : contributions[p] \in ContributionRows
<1>1. ContributionIds = 1 .. Len(contributions) /\ Len(contributions) \in Nat
  BY DEF TypeOK, ContributionIds
<1>2. IsFiniteSet(1 .. Len(contributions))
  BY <1>1, FS_Interval
<1> QED
  BY <1>1, <1>2 DEF TypeOK

\* A sum over some of the rows of grants is a natural number.
LEMMA GrantSum ==
  ASSUME TypeOK, NEW S \in SUBSET GrantIds, NEW f, \A g \in S : f[g] \in Nat
  PROVE  IsFiniteSet(S) /\ Total(f, S) \in Nat
<1>1. IsFiniteSet(S)
  BY Rows, FS_Subset
<1> QED
  BY <1>1, TotalType

\* Every sum and charge taken over the rows of grants is a natural number.
LEMMA ChargeTypes ==
  ASSUME TypeOK
  PROVE  /\ \A g \in GrantIds : GrantAmount[g] \in Nat
         /\ \A g \in GrantIds : LeafCharge[g] \in Nat
         /\ \A g \in GrantIds : Moved(g) \in Nat /\ Transferred(g) \in Nat
         /\ \A p \in ContributionIds : Drawn(p) \in Nat
         /\ \A g \in GrantIds : Charge[g] \in Nat
         /\ \A g \in GrantIds : Contributed(g) \in Nat
<1>1. \A g \in GrantIds : GrantAmount[g] \in Nat /\ LeafCharge[g] \in Nat
  BY Rows DEF GrantAmount, LeafCharge, Least, GrantRows
<1>2. \A S \in SUBSET GrantIds : Total(LeafCharge, S) \in Nat
  BY <1>1, GrantSum
<1>3. \A g : Children(g) \in SUBSET GrantIds /\ Transfers(g) \in SUBSET GrantIds
  BY DEF Children, Transfers
<1>4. \A p : Draws(p) \in SUBSET GrantIds
  BY DEF Draws
<1>5. \A g \in GrantIds : Moved(g) \in Nat /\ Transferred(g) \in Nat
  BY <1>2, <1>3 DEF Moved, Transferred
<1>6. \A p \in ContributionIds : Drawn(p) \in Nat
  BY <1>2, <1>4 DEF Drawn
<1>7. \A g \in GrantIds : Charge[g] \in Nat
  BY <1>5, Rows DEF Charge, Least, GrantRows
<1>8. \A g \in GrantIds : Contributed(g) \in Nat
  <2> TAKE g \in GrantIds
  <2> DEFINE S == {p \in ContributionIds : contributions[p].origin = g}
  <2>1. IsFiniteSet(S)
    BY ReturnedRows, FS_Subset
  <2>2. \A p \in S : ReturnedAmount[p] \in Nat
    BY ReturnedRows DEF ReturnedAmount, ContributionRows
  <2> QED BY <2>1, <2>2, TotalType DEF Contributed
<1> QED
  BY <1>1, <1>5, <1>6, <1>7, <1>8

\* Balances are whole numbers.  Only what is missing from a request, what is
\* left of a grant and a giver's personal remainder may be negative.
LEMMA BalanceTypes ==
  ASSUME TypeOK
  PROVE  /\ \A r \in Requests : Funded(r) \in Nat /\ Missing(r) \in Int
         /\ \A p \in ContributionIds : Capacity[p] \in Nat
         /\ \A g \in GrantIds : GrantRemaining[g] \in Int
         /\ \A u \in Users, s \in {"personal", "pool"} : GrantedOut(u, s) \in Nat
         /\ \A u \in Users : PledgeUsed(u) \in Nat /\ PledgeRemaining(u) \in Nat
         /\ \A u \in Users : PersonalRemaining(u) \in Int
<1>1. \A r \in Requests : Funded(r) \in Nat /\ Missing(r) \in Int
  <2> TAKE r \in Requests
  <2>1. OnRequest(r) \in SUBSET GrantIds
    BY DEF OnRequest
  <2>2. Funded(r) \in Nat
    BY <2>1, ChargeTypes, GrantSum DEF Funded
  <2> QED BY <2>2 DEF Missing
<1>2. \A p \in ContributionIds : Capacity[p] \in Nat
  BY ReturnedRows, ChargeTypes DEF Capacity, Greatest, ContributionRows
<1>3. \A g \in GrantIds : GrantRemaining[g] \in Int
  BY Rows, ChargeTypes DEF GrantRemaining, GrantRows
<1>4. \A u \in Users, s \in {"personal", "pool"} : GrantedOut(u, s) \in Nat
  <2> TAKE u \in Users, s \in {"personal", "pool"}
  <2>1. Roots(u, s) \in SUBSET GrantIds
    BY DEF Roots
  <2> QED BY <2>1, ChargeTypes, GrantSum DEF GrantedOut
<1>5. \A u \in Users : PledgeUsed(u) \in Nat /\ PledgeRemaining(u) \in Nat
  BY <1>4 DEF PledgeUsed, PledgeRemaining, Greatest, TypeOK
<1>6. \A u \in Users : PersonalRemaining(u) \in Int
  BY <1>4 DEF PersonalRemaining, TypeOK
<1> QED
  BY <1>1, <1>2, <1>3, <1>4, <1>5, <1>6

\* What the pool can hand out is a natural number; what a user can re-donate
\* is an integer, since an overshot grant counts negatively in it.
LEMMA PoolTypes ==
  ASSUME TypeOK
  PROVE  /\ PoolAvailable \in Nat
         /\ \A u \in Users : ReDonatableRemaining(u) \in Int
<1>1. Total([u \in rows \ dead |-> PledgeRemaining(u)], rows \ dead) \in Nat
  <2>1. IsFiniteSet(rows \ dead) /\ rows \ dead \subseteq Users
    BY FS_Subset DEF TypeOK
  <2>2. \A u \in rows \ dead : [v \in rows \ dead |-> PledgeRemaining(v)][u] \in Nat
    BY <2>1, BalanceTypes
  <2> QED BY <2>1, <2>2, TotalType
<1>2. Total(Capacity, ContributionIds) \in Nat
  <2>1. \A p \in ContributionIds : Capacity[p] \in Int
    BY BalanceTypes
  <2> QED BY <2>1, ReturnedRows, TotalType
<1>3. \A u \in Users : ReDonatableRemaining(u) \in Int
  <2> TAKE u \in Users
  <2>1. IsFiniteSet(Received(u)) /\ Received(u) \subseteq GrantIds
    BY Rows, FS_Subset DEF Received
  <2> QED BY <2>1, BalanceTypes, NetTotalType DEF ReDonatableRemaining
<1> QED
  BY <1>1, <1>2, <1>3 DEF PoolAvailable

-----------------------------------------------------------------------------
(* What a fill appends. *)

\* The rows a fill of request r can consist of.
Personal(r, x) == \E u \in Users, n \in Nat \ {0} :
    u # Owner[r] /\ n <= PersonalRemaining(u) /\ x = PersonalGrant(r, u, n)
Pledged(r, x) == \E u \in Users, n \in Nat \ {0} :
    n <= PledgeRemaining(u) /\ x = PledgeDraw(r, u, n)
Drawing(r, x) == \E p \in ContributionIds, n \in Nat \ {0} :
    n <= Capacity[p] /\ x = ContributionDraw(r, p, n)
Passing(r, x) == \E g \in GrantIds, n \in Nat \ {0} :
    /\ IsRoot(g) /\ Recipient(g) # Owner[r] /\ grants[g].donor # Owner[r]
    /\ n <= GrantRemaining[g] /\ x = Transfer(r, g, n)

NewRow(r, x) == Personal(r, x) \/ Pledged(r, x) \/ Drawing(r, x) \/ Passing(r, x)

\* No two rows of a fill touch the same source.
Apart(x, y) ==
    \/ x.origin = 0 /\ y.origin = 0 /\ x.donor # y.donor
    \/ x.contribution # y.contribution
    \/ x.contribution = 0 /\ y.contribution = 0 /\ x.origin # y.origin

Fill(r, new) ==
    /\ Fundable(r)
    /\ new \in Seq(GrantRows)
    /\ AddGrants(new)
    /\ \A i \in 1 .. Len(new) : NewRow(r, new[i])
    /\ \A i, j \in 1 .. Len(new) : i # j => Apart(new[i], new[j])
    /\ Total([i \in 1 .. Len(new) |-> new[i].amount], 1 .. Len(new)) <= Missing(r)

\* A fill that touches a pledge empties what was returned to the pool.
FromPledge(x) == x.origin = 0 /\ x.contribution = 0 /\ x.source = "pool"
Emptied(r, new, p) == \E i \in 1 .. Len(new) : new[i] = ContributionDraw(r, p, Capacity[p])
ReturnedFirst(r, new) ==
    (\E i \in 1 .. Len(new) : FromPledge(new[i])) => \A p \in Undrawn : Emptied(r, new, p)

\* Each kind of funding inserts rows of the declared type, if it takes at
\* least one unit.
LEMMA RowTypes ==
  ASSUME TypeOK, NEW r \in Requests, NEW n \in Nat \ {0}
  PROVE  /\ \A u \in Users : PersonalGrant(r, u, n) \in GrantRows
         /\ \A u \in Users : PledgeDraw(r, u, n) \in GrantRows
         /\ \A p \in ContributionIds : ContributionDraw(r, p, n) \in GrantRows
         /\ \A g \in GrantIds : Transfer(r, g, n) \in GrantRows
<1>1. \A u \in Users : PersonalGrant(r, u, n) \in GrantRows
  BY DEF PersonalGrant, GrantRows
<1>2. \A u \in Users : PledgeDraw(r, u, n) \in GrantRows
  BY <1>1 DEF PledgeDraw, GrantRows
<1>3. \A p \in ContributionIds : ContributionDraw(r, p, n) \in GrantRows
  <2> TAKE p \in ContributionIds
  <2>1. contributions[p].donor \in Users /\ contributions[p].origin \in Nat /\ p \in Nat
    BY ReturnedRows DEF ContributionRows
  <2>2. PledgeDraw(r, contributions[p].donor, n) \in GrantRows
    BY <1>2, <2>1
  <2> QED BY <2>1, <2>2 DEF ContributionDraw, GrantRows
<1>4. \A g \in GrantIds : Transfer(r, g, n) \in GrantRows
  <2> TAKE g \in GrantIds
  <2>1. /\ grants[g].donor \in Users /\ grants[g].source \in {"personal", "pool"}
        /\ g \in Nat /\ Recipient(g) \in Users
    BY Rows DEF GrantRows, Recipient
  <2>2. PersonalGrant(r, grants[g].donor, n) \in GrantRows
    BY <1>1, <2>1
  <2> QED BY <2>1, <2>2 DEF Transfer, GrantRows
<1> QED
  BY <1>1, <1>2, <1>3, <1>4

\* A personal grant (fund_request) is a fill of one row.
LEMMA FundRequestFills ==
  ASSUME TypeOK, NEW r \in Requests, NEW u \in Users, NEW n \in 1 .. MaxAmount,
         FundRequest(r, u, n)
  PROVE  \E new : Fill(r, new) /\ ReturnedFirst(r, new)
<1> DEFINE cap == Least(n, Least(Missing(r), PersonalRemaining(u)))
           x == PersonalGrant(r, u, cap)
<1>1. /\ u # Owner[r] /\ Fundable(r)
      /\ cap > 0
      /\ AddGrants(<< x >>)
  BY DEF FundRequest
<1>2. cap \in Nat \ {0} /\ cap <= Missing(r) /\ cap <= PersonalRemaining(u)
  BY <1>1, BalanceTypes DEF Least
<1> HIDE DEF cap
<1>3. x \in GrantRows /\ x.amount = cap
  BY <1>2, RowTypes DEF PersonalGrant
<1>4. Personal(r, x)
  BY <1>1, <1>2 DEF Personal
<1> HIDE DEF x
<1> DEFINE new == << x >>
           f == [i \in 1 .. Len(new) |-> new[i].amount]
<1>5. new \in Seq(GrantRows) /\ Len(new) = 1 /\ new[1] = x
  BY <1>3
<1>6. Total(f, 1 .. 1) = cap
  <2>1. 1 .. 1 = {1} /\ f[1] = cap
    BY <1>3, <1>5
  <2>2. Total(f, {1}) = f[1]
    BY <1>2, <2>1, TotalSingle
  <2> QED BY <2>1, <2>2
<1>7. AddGrants(new)
  BY <1>1
<1>8. Total(f, 1 .. Len(new)) <= Missing(r)
  BY <1>2, <1>5, <1>6
<1> HIDE DEF new
<1>9. \A i \in 1 .. Len(new) : NewRow(r, new[i])
  BY <1>4, <1>5 DEF NewRow
<1>10. \A i, j \in 1 .. Len(new) : i # j => Apart(new[i], new[j])
  BY <1>5
<1>11. Fill(r, new)
  BY <1>1, <1>5, <1>7, <1>8, <1>9, <1>10 DEF Fill
<1>12. ReturnedFirst(r, new)
  <2>1. x.source = "personal"
    BY DEF x, PersonalGrant
  <2> QED BY <1>5, <2>1 DEF ReturnedFirst, FromPledge
<1> QED
  BY <1>11, <1>12

\* A re-donation (fund_request_from_received) is a fill: the takes of its loop
\* are drawn from distinct grants and do not exceed what is missing.
LEMMA ReceivedFills ==
  ASSUME TypeOK, NEW r \in Requests, NEW u \in Users, NEW n \in 1 .. MaxAmount,
         FundRequestFromReceived(r, u, n)
  PROVE  \E new : Fill(r, new) /\ ReturnedFirst(r, new)
<1> DEFINE cap == Least(n, Least(Missing(r), ReDonatableRemaining(u)))
           eligible == {g \in Received(u) : /\ grants[g].donor # Owner[r]
                                            /\ GrantRemaining[g] > 0}
           lane(gs) == [i \in 1 .. Len(gs) |-> GrantRemaining[gs[i]]]
<1>1. /\ u # Owner[r] /\ Fundable(r) /\ cap > 0
  BY DEF FundRequestFromReceived
<1>2. PICK gs \in Walks(eligible, Older) :
        \E takes \in Drains(lane(gs), cap) :
          AddGrants([i \in 1 .. Len(takes) |-> Transfer(r, gs[i], takes[i])])
  BY DEF FundRequestFromReceived
<1>3. PICK takes \in Drains(lane(gs), cap) :
          AddGrants([i \in 1 .. Len(takes) |-> Transfer(r, gs[i], takes[i])])
  BY <1>2
<1>4. cap \in Nat \ {0} /\ cap <= Missing(r)
  BY <1>1, BalanceTypes, PoolTypes, SMTT(30) DEF Least
<1> DEFINE L == Len(gs)
<1>5. /\ L \in Nat
      /\ gs \in [1 .. L -> eligible]
      /\ \A i, j \in 1 .. L : i # j => gs[i] # gs[j]
  <2>1. IsFiniteSet(eligible)
    BY Rows, FS_Subset DEF Received
  <2>2. Cardinality(eligible) \in Nat
    BY <2>1, FS_CardinalityType
  <2>3. gs \in [1 .. Cardinality(eligible) -> eligible]
    BY <1>2 DEF Walks
  <2> HIDE DEF eligible
  <2>4. L = Cardinality(eligible)
    BY <2>2, <2>3
  <2>5. \A i, j \in 1 .. Cardinality(eligible) : i < j => gs[i] # gs[j]
    BY <1>2 DEF Walks
  <2>6. \A i, j \in 1 .. L : i # j => gs[i] # gs[j]
    BY <2>2, <2>4, <2>5
  <2> QED BY <2>2, <2>3, <2>4, <2>6
<1>6. \A g \in eligible : /\ g \in GrantIds /\ IsRoot(g) /\ Recipient(g) = u
                          /\ grants[g].donor # Owner[r]
                          /\ GrantRemaining[g] \in Nat \ {0}
  BY BalanceTypes, SMTT(30) DEF Received
<1> HIDE DEF cap, eligible, L
<1>7. lane(gs) \in [1 .. L -> Nat \ {0}] /\ Len(lane(gs)) = L
  BY <1>5, <1>6 DEF L
<1>8. PICK m \in 0 .. L :
        /\ takes \in [1 .. m -> Nat \ {0}]
        /\ \A k \in 1 .. m : takes[k] <= lane(gs)[k]
        /\ Total(takes, 1 .. m) = Due(lane(gs), cap)
        /\ Due(lane(gs), cap) \in 0 .. cap
  <2> HIDE DEF lane
  <2> QED BY <1>3, <1>4, <1>5, <1>7, DrainsTake
<1>9. m \in Nat /\ Len(takes) = m
  BY <1>5, <1>8
<1>10. \A i \in 1 .. m : /\ gs[i] \in eligible /\ takes[i] \in Nat \ {0}
                         /\ takes[i] <= GrantRemaining[gs[i]]
  <2> TAKE i \in 1 .. m
  <2>1. i \in 1 .. L
    BY <1>5
  <2>2. lane(gs)[i] = GrantRemaining[gs[i]]
    BY <2>1 DEF L
  <2>3. takes[i] \in Nat \ {0} /\ takes[i] <= lane(gs)[i]
    BY <1>8
  <2> HIDE DEF lane
  <2> QED BY <1>5, <2>1, <2>2, <2>3
<1> DEFINE new == [i \in 1 .. m |-> Transfer(r, gs[i], takes[i])]
<1>11. AddGrants(new)
  BY <1>3, <1>9
<1>12. /\ new \in Seq(GrantRows) /\ Len(new) = m
       /\ \A i \in 1 .. m : new[i] = Transfer(r, gs[i], takes[i])
  <2>1. \A i \in 1 .. m : Transfer(r, gs[i], takes[i]) \in GrantRows
    BY <1>6, <1>10, RowTypes
  <2> QED BY <1>9, <2>1, SMTT(30)
<1> HIDE DEF new, lane
<1>13. \A i \in 1 .. m : /\ new[i].amount = takes[i]
                         /\ new[i].origin = gs[i] /\ new[i].contribution = 0
  BY <1>12, ZenonT(30) DEF Transfer, PersonalGrant
<1>14. \A i \in 1 .. m : NewRow(r, new[i])
  <2> TAKE i \in 1 .. m
  <2>1. Passing(r, new[i])
    BY <1>1, <1>6, <1>10, <1>12 DEF Passing
  <2> QED BY <2>1 DEF NewRow
<1>15. \A i, j \in 1 .. m : i # j => Apart(new[i], new[j])
  BY <1>5, <1>8, <1>13 DEF Apart
<1>16. Total([i \in 1 .. m |-> new[i].amount], 1 .. m) <= Missing(r)
  <2>1. Total([i \in 1 .. m |-> new[i].amount], 1 .. m) = Total(takes, 1 .. m)
    BY <1>13, TotalCong
  <2> QED BY <1>4, <1>8, <2>1, BalanceTypes
<1>17. Fill(r, new)
  BY <1>1, <1>11, <1>12, <1>14, <1>15, <1>16 DEF Fill
<1>18. ReturnedFirst(r, new)
  <2>1. \A i \in 1 .. m : new[i].origin # 0
    <3>1. \A g \in GrantIds : g # 0
      BY Rows
    <3> QED BY <1>6, <1>10, <1>13, <3>1
  <2> QED BY <1>12, <2>1 DEF ReturnedFirst, FromPledge
<1> QED
  BY <1>17, <1>18

\* What a drain loop takes from the sources w, where source x has room[x].
Taken(takes, w, L, C, room, due) ==
    \E m \in Nat :
      /\ m <= L /\ Len(takes) = m
      /\ takes \in [1 .. m -> Nat \ {0}]
      /\ \A i \in 1 .. m : w[i] \in C /\ takes[i] <= room[w[i]]
      /\ Total(takes, 1 .. m) = due

Draining(takes, w, L, C, room, lane, cap) ==
    /\ L \in Nat /\ w \in [1 .. L -> C] /\ cap \in Nat
    /\ \A x \in C : room[x] \in Nat \ {0}
    /\ lane = [i \in 1 .. L |-> room[w[i]]]
    /\ takes \in Drains(lane, cap)

\* A drain loop visits distinct sources, takes from each at most its room, and
\* takes in all what is due.
LEMMA DrainSources ==
  ASSUME NEW C, NEW L, NEW w, NEW room, NEW lane, NEW cap, NEW takes,
         Draining(takes, w, L, C, room, lane, cap)
  PROVE  /\ Taken(takes, w, L, C, room, Due(lane, cap))
         /\ Due(lane, cap) \in 0 .. cap
<1>1. \A i \in 1 .. L : lane[i] = room[w[i]] /\ w[i] \in C
  BY DEF Draining
<1>2. /\ lane \in [1 .. L -> Nat \ {0}] /\ Len(lane) = L
      /\ L \in Nat /\ cap \in Nat /\ takes \in Drains(lane, cap)
  BY DEF Draining
<1>3. PICK m \in 0 .. L :
        /\ takes \in [1 .. m -> Nat \ {0}]
        /\ \A k \in 1 .. m : takes[k] <= lane[k]
        /\ Total(takes, 1 .. m) = Due(lane, cap)
        /\ Due(lane, cap) \in 0 .. cap
  BY <1>2, DrainsTake
<1>4. m \in Nat /\ m <= L /\ Len(takes) = m
  BY <1>3
<1>5. \A i \in 1 .. m : w[i] \in C /\ takes[i] <= room[w[i]]
  <2> TAKE i \in 1 .. m
  <2>1. i \in 1 .. L
    BY <1>2
  <2> QED BY <1>1, <1>3, <2>1
<1> QED
  BY <1>3, <1>4, <1>5 DEF Taken

\* A drain loop that finds less than it was to take empties every source.
LEMMA DrainEmpties ==
  ASSUME NEW C, NEW L, NEW w, NEW room, NEW lane, NEW cap, NEW takes,
         Draining(takes, w, L, C, room, lane, cap), Due(lane, cap) < cap
  PROVE  Len(takes) = L /\ \A i \in 1 .. L : takes[i] = room[w[i]]
<1>1. /\ L \in Nat /\ w \in [1 .. L -> C] /\ cap \in Nat
      /\ \A x \in C : room[x] \in Nat \ {0}
      /\ lane = [i \in 1 .. L |-> room[w[i]]]
      /\ takes \in Drains(lane, cap)
  BY DEF Draining
<1>2. lane \in [1 .. L -> Nat \ {0}] /\ Len(lane) = L
  BY <1>1
<1>3. takes = lane
  BY <1>1, <1>2, DrainsAll
<1> QED
  BY <1>1, <1>2, <1>3

\* The rows of two tables, one appended to the other.
LEMMA Appended ==
  ASSUME NEW T, NEW s \in Seq(T), NEW t \in Seq(T)
  PROVE  /\ s \o t \in Seq(T)
         /\ Len(s \o t) = Len(s) + Len(t)
         /\ \A i \in 1 .. Len(s) : (s \o t)[i] = s[i]
         /\ \A i \in 1 .. Len(t) : (s \o t)[Len(s) + i] = t[i]
OBVIOUS

\* Rows numbered 1 .. m are a table.
LEMMA RowsInOrder ==
  ASSUME NEW T, NEW m \in Nat, NEW s, s = [i \in 1 .. m |-> s[i]],
         \A i \in 1 .. m : s[i] \in T
  PROVE  s \in Seq(T) /\ Len(s) = m
BY SMTT(30)

\* A pool fill (fund_request_from_pool), with its two loops one after the
\* other, is a fill as well.
LEMMA PoolFills ==
  ASSUME TypeOK, NEW r \in Requests, NEW n \in 1 .. MaxAmount,
         FundRequestFromPool(r, n)
  PROVE  \E new : Fill(r, new) /\ ReturnedFirst(r, new)
<1> DEFINE cap == Least(n, Least(Missing(r), PoolAvailable))
           returned(ps) == [i \in 1 .. Len(ps) |-> Capacity[ps[i]]]
           pledged(us)  == [i \in 1 .. Len(us) |-> PledgeRemaining(us[i])]
           A(ps, t) == [i \in 1 .. Len(t) |-> ContributionDraw(r, ps[i], t[i])]
           B(us, t) == [i \in 1 .. Len(t) |-> PledgeDraw(r, us[i], t[i])]
<1>1. Fundable(r) /\ cap > 0
  BY DEF FundRequestFromPool
<1>2. PICK ps \in Walks(Undrawn, Older), us \in Walks(PoolGivers, DeeperFirst) :
        \E t1 \in Drains(returned(ps), cap),
           t2 \in Drains(pledged(us), cap - Due(returned(ps), cap)) :
          AddGrants(A(ps, t1) \o B(us, t2))
  BY DEF FundRequestFromPool
<1>3. PICK t1 \in Drains(returned(ps), cap),
           t2 \in Drains(pledged(us), cap - Due(returned(ps), cap)) :
          AddGrants(A(ps, t1) \o B(us, t2))
  BY <1>2
<1>4. cap \in Nat \ {0} /\ cap <= Missing(r)
  BY <1>1, BalanceTypes, PoolTypes DEF Least
<1>5. /\ ps \in [1 .. Cardinality(Undrawn) -> Undrawn]
      /\ \A i, j \in 1 .. Cardinality(Undrawn) : i < j => ps[i] # ps[j]
      /\ us \in [1 .. Cardinality(PoolGivers) -> PoolGivers]
      /\ \A i, j \in 1 .. Cardinality(PoolGivers) : i < j => us[i] # us[j]
  BY <1>2 DEF Walks
<1>6. /\ IsFiniteSet(Undrawn) /\ Cardinality(Undrawn) \in Nat
      /\ IsFiniteSet(PoolGivers) /\ Cardinality(PoolGivers) \in Nat
  <2>1. IsFiniteSet(Undrawn)
    BY ReturnedRows, FS_Subset DEF Undrawn
  <2>2. IsFiniteSet(PoolGivers)
    BY FS_Subset DEF PoolGivers, TypeOK
  <2> QED BY <2>1, <2>2, FS_CardinalityType
<1>7. /\ \A p \in Undrawn : p \in ContributionIds /\ Capacity[p] \in Nat \ {0}
      /\ \A u \in PoolGivers : u \in Users /\ PledgeRemaining(u) \in Nat \ {0}
  <2>1. \A p \in Undrawn : p \in ContributionIds /\ Capacity[p] \in Nat \ {0}
    BY BalanceTypes DEF Undrawn
  <2>2. \A u \in PoolGivers : u \in Users /\ PledgeRemaining(u) > 0
    BY DEF PoolGivers, TypeOK
  <2>3. \A u \in PoolGivers : PledgeRemaining(u) \in Nat
    BY <2>2, BalanceTypes
  <2> QED BY <2>1, <2>2, <2>3
<1>8. Len(ps) = Cardinality(Undrawn) /\ Len(us) = Cardinality(PoolGivers)
  BY <1>5, <1>6
<1> HIDE DEF cap
<1>9. PICK m1 \in Nat :
        /\ m1 <= Len(ps) /\ Len(t1) = m1
        /\ t1 \in [1 .. m1 -> Nat \ {0}]
        /\ \A i \in 1 .. m1 : ps[i] \in Undrawn /\ t1[i] <= Capacity[ps[i]]
        /\ Total(t1, 1 .. m1) = Due(returned(ps), cap)
        /\ Due(returned(ps), cap) \in 0 .. cap
  <2> DEFINE lane == returned(ps)
  <2>1. lane = [i \in 1 .. Len(ps) |-> Capacity[ps[i]]]
    OBVIOUS
  <2>2. t1 \in Drains(lane, cap)
    BY <1>3
  <2>3. ps \in [1 .. Len(ps) -> Undrawn] /\ Len(ps) \in Nat
    BY <1>5, <1>6, <1>8
  <2>4. \A p \in Undrawn : Capacity[p] \in Nat \ {0}
    BY <1>7
  <2>5. cap \in Nat
    BY <1>4
  <2> HIDE DEF lane
  <2>6. /\ Taken(t1, ps, Len(ps), Undrawn, Capacity, Due(lane, cap))
        /\ Due(lane, cap) \in 0 .. cap
    <3>1. Draining(t1, ps, Len(ps), Undrawn, Capacity, lane, cap)
      BY <2>1, <2>2, <2>3, <2>4, <2>5 DEF Draining
    <3> QED BY <3>1, DrainSources
  <2>7. \E m \in Nat :
          /\ m <= Len(ps) /\ Len(t1) = m
          /\ t1 \in [1 .. m -> Nat \ {0}]
          /\ \A i \in 1 .. m : ps[i] \in Undrawn /\ t1[i] <= Capacity[ps[i]]
          /\ Total(t1, 1 .. m) = Due(lane, cap)
    BY <2>6 DEF Taken
  <2> QED BY <2>6, <2>7 DEF lane
<1> DEFINE left == cap - Due(returned(ps), cap)
<1>10. left \in Nat
  BY <1>4, <1>9
<1>11. PICK m2 \in Nat :
        /\ m2 <= Len(us) /\ Len(t2) = m2
        /\ t2 \in [1 .. m2 -> Nat \ {0}]
        /\ \A i \in 1 .. m2 : us[i] \in PoolGivers /\ t2[i] <= PledgeRemaining(us[i])
        /\ Total(t2, 1 .. m2) \in 0 .. left
  <2> DEFINE lane == pledged(us)
             room == [u \in PoolGivers |-> PledgeRemaining(u)]
  <2>1. us \in [1 .. Len(us) -> PoolGivers] /\ Len(us) \in Nat
    BY <1>5, <1>6, <1>8
  <2>2. lane = [i \in 1 .. Len(us) |-> room[us[i]]]
    BY <2>1
  <2>3. t2 \in Drains(lane, left)
    BY <1>3
  <2>4. \A u \in PoolGivers : room[u] \in Nat \ {0} /\ room[u] = PledgeRemaining(u)
    BY <1>7
  <2> HIDE DEF lane, room, left
  <2>5. /\ Taken(t2, us, Len(us), PoolGivers, room, Due(lane, left))
        /\ Due(lane, left) \in 0 .. left
    <3>1. Draining(t2, us, Len(us), PoolGivers, room, lane, left)
      BY <1>10, <2>1, <2>2, <2>3, <2>4 DEF Draining
    <3> QED BY <3>1, DrainSources
  <2>6. PICK m \in Nat :
          /\ m <= Len(us) /\ Len(t2) = m
          /\ t2 \in [1 .. m -> Nat \ {0}]
          /\ \A i \in 1 .. m : us[i] \in PoolGivers /\ t2[i] <= room[us[i]]
          /\ Total(t2, 1 .. m) = Due(lane, left)
    BY <2>5 DEF Taken
  <2> QED BY <2>4, <2>5, <2>6, ZenonT(30)
<1> DEFINE As == A(ps, t1)
           Bs == B(us, t2)
           new == As \o Bs
<1>12. AddGrants(new)
  BY <1>3
<1>13. /\ As \in Seq(GrantRows) /\ Len(As) = m1
       /\ \A i \in 1 .. m1 : As[i] = ContributionDraw(r, ps[i], t1[i])
  <2>1. \A i \in 1 .. m1 : ContributionDraw(r, ps[i], t1[i]) \in GrantRows
    BY <1>7, <1>9, RowTypes
  <2>2. As = [i \in 1 .. m1 |-> ContributionDraw(r, ps[i], t1[i])]
    BY <1>9
  <2> HIDE DEF As
  <2>3. \A i \in 1 .. m1 : As[i] = ContributionDraw(r, ps[i], t1[i])
    BY <2>2
  <2>4. As = [i \in 1 .. m1 |-> As[i]]
    BY <2>2, <2>3, Zenon
  <2>5. \A i \in 1 .. m1 : As[i] \in GrantRows
    BY <2>1, <2>3
  <2>6. As \in Seq(GrantRows) /\ Len(As) = m1
    BY <2>4, <2>5, RowsInOrder
  <2> QED BY <2>3, <2>6
<1>14. /\ Bs \in Seq(GrantRows) /\ Len(Bs) = m2
       /\ \A i \in 1 .. m2 : Bs[i] = PledgeDraw(r, us[i], t2[i])
  <2>1. \A i \in 1 .. m2 : PledgeDraw(r, us[i], t2[i]) \in GrantRows
    BY <1>7, <1>11, RowTypes
  <2>2. Bs = [i \in 1 .. m2 |-> PledgeDraw(r, us[i], t2[i])]
    BY <1>11
  <2> HIDE DEF Bs
  <2>3. \A i \in 1 .. m2 : Bs[i] = PledgeDraw(r, us[i], t2[i])
    BY <2>2
  <2>4. Bs = [i \in 1 .. m2 |-> Bs[i]]
    BY <2>2, <2>3, Zenon
  <2>5. \A i \in 1 .. m2 : Bs[i] \in GrantRows
    BY <2>1, <2>3
  <2>6. Bs \in Seq(GrantRows) /\ Len(Bs) = m2
    BY <2>4, <2>5, RowsInOrder
  <2> QED BY <2>3, <2>6
<1> HIDE DEF As, Bs, left, returned, pledged
<1>15. /\ new \in Seq(GrantRows) /\ Len(new) = m1 + m2
       /\ \A i \in 1 .. m1 : new[i] = As[i]
       /\ \A i \in 1 .. m2 : new[m1 + i] = Bs[i]
  <2>1. As \in Seq(GrantRows) /\ Bs \in Seq(GrantRows)
    BY <1>13, <1>14
  <2>2. /\ As \o Bs \in Seq(GrantRows)
        /\ Len(As \o Bs) = Len(As) + Len(Bs)
        /\ \A i \in 1 .. Len(As) : (As \o Bs)[i] = As[i]
        /\ \A i \in 1 .. Len(Bs) : (As \o Bs)[Len(As) + i] = Bs[i]
    BY <2>1, Appended
  <2>3. Len(As) = m1 /\ Len(Bs) = m2
    BY <1>13, <1>14
  <2> QED BY <2>2, <2>3, Zenon
<1> HIDE DEF new
<1>16. \A i \in 1 .. Len(new) : i \in 1 .. m1 \/ \E k \in 1 .. m2 : i = m1 + k
  <2> TAKE i \in 1 .. Len(new)
  <2>1. i > m1 => i - m1 \in 1 .. m2 /\ i = m1 + (i - m1)
    BY <1>15
  <2> QED BY <1>15, <2>1
<1>17. \A i \in 1 .. m1 : /\ new[i].contribution = ps[i] /\ new[i].amount = t1[i]
                          /\ Drawing(r, new[i])
  <2> TAKE i \in 1 .. m1
  <2>1. new[i] = ContributionDraw(r, ps[i], t1[i])
    BY <1>13, <1>15
  <2>2. Drawing(r, new[i])
    BY <1>7, <1>9, <2>1 DEF Drawing
  <2> QED BY <2>1, <2>2 DEF ContributionDraw, PledgeDraw, PersonalGrant
<1>18. \A i \in 1 .. m2 : /\ new[m1 + i].contribution = 0 /\ new[m1 + i].origin = 0
                          /\ new[m1 + i].donor = us[i] /\ new[m1 + i].amount = t2[i]
                          /\ Pledged(r, new[m1 + i])
  <2> TAKE i \in 1 .. m2
  <2>1. new[m1 + i] = PledgeDraw(r, us[i], t2[i])
    BY <1>14, <1>15
  <2>2. Pledged(r, new[m1 + i])
    BY <1>7, <1>11, <2>1 DEF Pledged
  <2> QED BY <2>1, <2>2 DEF PledgeDraw, PersonalGrant
<1>19. \A i \in 1 .. Len(new) : NewRow(r, new[i])
  BY <1>16, <1>17, <1>18 DEF NewRow
<1>20. \A i, j \in 1 .. Len(new) : i # j => Apart(new[i], new[j])
  <2> SUFFICES ASSUME NEW i \in 1 .. Len(new), NEW j \in 1 .. Len(new), i # j
               PROVE  Apart(new[i], new[j])
    OBVIOUS
  <2>1. \A k \in 1 .. m1 : ps[k] # 0
    BY <1>7, <1>9, ReturnedRows, SMTT(30)
  <2>2. CASE i \in 1 .. m1 /\ j \in 1 .. m1
    <3>1. ps[i] # ps[j]
      BY <1>5, <1>6, <1>8, <1>9, <2>2
    <3> QED BY <1>17, <2>2, <3>1 DEF Apart
  <2>3. CASE i \in 1 .. m1 /\ j \notin 1 .. m1
    <3>1. PICK k \in 1 .. m2 : j = m1 + k
      BY <1>16, <2>3
    <3>2. new[i].contribution # 0 /\ new[j].contribution = 0
      BY <1>17, <1>18, <2>1, <2>3, <3>1
    <3> QED BY <3>2 DEF Apart
  <2>4. CASE i \notin 1 .. m1 /\ j \in 1 .. m1
    <3>1. PICK k \in 1 .. m2 : i = m1 + k
      BY <1>16, <2>4
    <3>2. new[i].contribution = 0 /\ new[j].contribution # 0
      BY <1>17, <1>18, <2>1, <2>4, <3>1
    <3> QED BY <3>2 DEF Apart
  <2>5. CASE i \notin 1 .. m1 /\ j \notin 1 .. m1
    <3>1. PICK k \in 1 .. m2, l \in 1 .. m2 : i = m1 + k /\ j = m1 + l
      BY <1>16, <2>5
    <3>2. us[k] # us[l]
      BY <1>5, <1>6, <1>8, <1>11, <3>1
    <3> QED BY <1>18, <3>1, <3>2 DEF Apart
  <2> QED BY <2>2, <2>3, <2>4, <2>5
<1> DEFINE f == [i \in 1 .. Len(new) |-> new[i].amount]
<1>21. Total(f, 1 .. Len(new)) = Total(t1, 1 .. m1) + Total(t2, 1 .. m2)
  <2>1. \A k \in 1 .. (m1 + m2) : f[k] \in Nat
    <3> TAKE k \in 1 .. (m1 + m2)
    <3>1. f[k] = new[k].amount
      BY <1>15
    <3>2. CASE k \in 1 .. m1
      BY <1>9, <1>17, <3>1, <3>2
    <3>3. CASE k \notin 1 .. m1
      <4>1. PICK l \in 1 .. m2 : k = m1 + l
        BY <1>15, <1>16, <3>3
      <4> QED BY <1>11, <1>18, <3>1, <4>1
    <3> QED BY <3>2, <3>3
  <2>2. \A k \in 1 .. m1 : f[k] = t1[k]
    BY <1>15, <1>17
  <2>3. \A k \in 1 .. m2 : t2[k] = f[m1 + k]
    BY <1>15, <1>18
  <2> HIDE DEF f
  <2>4. Total(f, 1 .. (m1 + m2)) = Total(f, 1 .. m1) + Total(t2, 1 .. m2)
    BY <2>1, <2>3, TotalConcat, SMTT(30)
  <2>5. Total(f, 1 .. m1) = Total(t1, 1 .. m1)
    BY <2>2, TotalCong
  <2> QED BY <1>15, <2>4, <2>5
<1>22. Total(f, 1 .. Len(new)) <= Missing(r)
  <2> HIDE DEF f
  <2> QED BY <1>4, <1>9, <1>10, <1>11, <1>21, BalanceTypes, SMTT(30) DEF left
<1>23. Fill(r, new)
  BY <1>1, <1>12, <1>15, <1>19, <1>20, <1>22 DEF Fill
<1>24. ReturnedFirst(r, new)
  <2> SUFFICES ASSUME NEW k \in 1 .. Len(new), FromPledge(new[k]), NEW p \in Undrawn
               PROVE  Emptied(r, new, p)
    BY DEF ReturnedFirst
  <2>1. m2 # 0
    <3>1. \A i \in 1 .. m1 : new[i].contribution # 0
      <4>1. \A q \in ContributionIds : q # 0
        BY ReturnedRows
      <4> QED BY <1>7, <1>9, <1>17, <4>1
    <3>2. k \notin 1 .. m1
      BY <3>1 DEF FromPledge
    <3> QED BY <1>16, <3>2
  <2>2. left # 0
    <3>1. IsFiniteSet(1 .. m2) /\ 1 \in 1 .. m2
      BY <1>11, <2>1, FS_Interval
    <3>2. \A i \in 1 .. m2 : t2[i] \in Nat \ {0}
      BY <1>11
    <3>3. t2[1] <= Total(t2, 1 .. m2)
      BY <3>1, <3>2, TotalAtLeastOne
    <3> QED BY <1>10, <1>11, <3>1, <3>2, <3>3
  <2>3. Len(t1) = Len(ps) /\ \A i \in 1 .. Len(ps) : t1[i] = Capacity[ps[i]]
    <3> DEFINE lane == returned(ps)
    <3>1. /\ Len(ps) \in Nat /\ lane \in [1 .. Len(ps) -> Nat \ {0}] /\ Len(lane) = Len(ps)
          /\ lane = [i \in 1 .. Len(ps) |-> Capacity[ps[i]]]
      BY <1>5, <1>6, <1>7, <1>8 DEF returned
    <3>2. Due(lane, cap) < cap
      BY <1>4, <1>9, <1>10, <2>2 DEF left
    <3>3. t1 \in Drains(lane, cap)
      BY <1>3
    <3> HIDE DEF lane
    <3>4. Draining(t1, ps, Len(ps), Undrawn, Capacity, lane, cap)
      BY <1>4, <1>5, <1>7, <1>8, <3>1, <3>3 DEF Draining
    <3> QED BY <3>2, <3>4, DrainEmpties
  <2>4. PICK i \in 1 .. Len(ps) : ps[i] = p
    BY <1>5, <1>6, <1>8, WalksMeetAll
  <2>5. i \in 1 .. m1 /\ new[i] = ContributionDraw(r, p, Capacity[p])
    BY <1>9, <1>13, <1>15, <2>3, <2>4
  <2>6. i \in 1 .. Len(new)
    BY <1>15, <2>5
  <2> QED BY <2>5, <2>6 DEF Emptied
<1> QED
  BY <1>23, <1>24

-----------------------------------------------------------------------------
(* The steps, with the three ways of funding as one. *)

OtherStep ==
    \/ \E r \in Requests : CreateRequest(r) \/ Expire(r) \/ CancelRequest(r)
    \/ \E u \in Users, n \in 1 .. MaxAmount : ReturnReceivedToPool(u, n)
    \/ \E u \in Users : \E p \in 0 .. quota[u] : SetPledge(u, p)
    \/ \E u \in Users : \E q \in QuotaChoices[u] : SetQuota(u, q)
    \/ \E u \in Users, verdict \in {"dead", "valid"} : SetVerdict(u, verdict)
    \/ \E g \in GrantIds, n \in 1 .. MaxAmount, overshoot \in BOOLEAN :
         RecordGrant(g, n, overshoot)
    \/ \E u \in Users, n \in 1 .. MaxAmount : RecordSelf(u, n)
    \/ UNCHANGED vars

\* A step of the marketplace either fills one request, returned credit first,
\* or leaves all grants.
LEMMA FundingSteps ==
  ASSUME TypeOK, [Next]_vars
  PROVE  (\E r \in Requests : \E new : Fill(r, new) /\ ReturnedFirst(r, new)) \/ OtherStep
<1>1. CASE \E r \in Requests, u \in Users, n \in 1 .. MaxAmount : FundRequest(r, u, n)
  BY <1>1, FundRequestFills
<1>2. CASE \E r \in Requests, n \in 1 .. MaxAmount : FundRequestFromPool(r, n)
  BY <1>2, PoolFills
<1>3. CASE \E r \in Requests, u \in Users, n \in 1 .. MaxAmount :
             FundRequestFromReceived(r, u, n)
  BY <1>3, ReceivedFills
<1> QED
  BY <1>1, <1>2, <1>3, Zenon DEF Next, Trade, Consume, OtherStep

\* The same, without the order of the sources.
LEMMA Steps ==
  ASSUME TypeOK, [Next]_vars
  PROVE  (\E r \in Requests : \E new : Fill(r, new)) \/ OtherStep
<1> QED
  BY FundingSteps

\* Only fills touch the grants.
LEMMA OtherStepKeepsGrants ==
  ASSUME OtherStep
  PROVE  UNCHANGED grants
BY DEF OtherStep, CreateRequest, Expire, CancelRequest, ReturnReceivedToPool, SetPledge,
       SetQuota, SetVerdict, RecordGrant, RecordSelf, vars

\* The tables after a fill.
LEMMA AfterFill ==
  ASSUME TypeOK, NEW r \in Requests, NEW new, Fill(r, new)
  PROVE  /\ Len(new) \in Nat
         /\ grants' \in Seq(GrantRows) /\ Len(grants') = Len(grants) + Len(new)
         /\ Len(grants') <= MaxGrants
         /\ GrantIds' = 1 .. (Len(grants) + Len(new))
         /\ \A g \in GrantIds : grants'[g] = grants[g]
         /\ \A i \in 1 .. Len(new) : /\ grants'[Len(grants) + i] = new[i]
                                     /\ new[i].request = r /\ new[i] \in GrantRows
         /\ UNCHANGED <<accountVars, requestVars, contributions, burnVars>>
<1>1. /\ grants' = grants \o new /\ Len(grants) + Len(new) <= MaxGrants
      /\ UNCHANGED <<accountVars, requestVars, contributions, burnVars>>
      /\ new \in Seq(GrantRows)
  BY DEF Fill, AddGrants
<1>2. grants \in Seq(GrantRows) /\ Len(grants) \in Nat /\ Len(new) \in Nat
  BY <1>1 DEF TypeOK
<1>3. /\ grants \o new \in Seq(GrantRows)
      /\ Len(grants \o new) = Len(grants) + Len(new)
      /\ \A i \in 1 .. Len(grants) : (grants \o new)[i] = grants[i]
      /\ \A i \in 1 .. Len(new) : (grants \o new)[Len(grants) + i] = new[i]
  BY <1>1, <1>2, Appended
<1>4. GrantIds' = 1 .. (Len(grants) + Len(new))
  BY <1>1, <1>2, <1>3 DEF GrantIds
<1>5. \A i \in 1 .. Len(new) : new[i].request = r /\ new[i] \in GrantRows
  <2> TAKE i \in 1 .. Len(new)
  <2>1. NewRow(r, new[i]) /\ new[i] \in GrantRows
    BY <1>1 DEF Fill
  <2>2. CASE Personal(r, new[i])
    BY <2>1, <2>2 DEF Personal, PersonalGrant
  <2>3. CASE Pledged(r, new[i])
    BY <2>1, <2>3 DEF Pledged, PledgeDraw, PersonalGrant
  <2>4. CASE Drawing(r, new[i])
    BY <2>1, <2>4 DEF Drawing, ContributionDraw, PledgeDraw, PersonalGrant
  <2>5. CASE Passing(r, new[i])
    BY <2>1, <2>5 DEF Passing, Transfer, PersonalGrant
  <2> QED BY <2>1, <2>2, <2>3, <2>4, <2>5 DEF NewRow
<1> QED
  BY <1>1, <1>2, <1>3, <1>4, <1>5, Rows

\* What a return appends.
Return(u, new) ==
    /\ new \in Seq(ContributionRows)
    /\ contributions' = contributions \o new
    /\ UNCHANGED <<accountVars, requestVars, grants, burnVars>>
    /\ \A i \in 1 .. Len(new) : /\ new[i].origin \in Received(u)
                                /\ new[i].donor = grants[new[i].origin].donor
                                /\ new[i].contributor = u
                                /\ new[i].amount <= GrantRemaining[new[i].origin]
    /\ \A i, j \in 1 .. Len(new) : i # j => new[i].origin # new[j].origin

\* Returning received credit (return_received_to_pool) appends contributions
\* whose origins were received by the contributor and still held the amount,
\* each of them once.
LEMMA Returns ==
  ASSUME TypeOK, NEW u \in Users, NEW n \in 1 .. MaxAmount, ReturnReceivedToPool(u, n)
  PROVE  \E new : Return(u, new)
<1> DEFINE cap == Least(n, ReDonatableRemaining(u))
           eligible == {g \in Received(u) : GrantRemaining[g] > 0}
           lane(gs) == [i \in 1 .. Len(gs) |-> GrantRemaining[gs[i]]]
           row(g, t) == [contributor |-> u, origin |-> g,
                         donor |-> grants[g].donor, amount |-> t]
<1>1. PICK gs \in Walks(eligible, Older) : \E takes \in Drains(lane(gs), cap) :
        contributions' = contributions \o [i \in 1 .. Len(takes) |-> row(gs[i], takes[i])]
  BY DEF ReturnReceivedToPool
<1>2. PICK takes \in Drains(lane(gs), cap) :
        contributions' = contributions \o [i \in 1 .. Len(takes) |-> row(gs[i], takes[i])]
  BY <1>1
<1>3. cap \in Nat
  BY BalanceTypes, PoolTypes DEF Least, ReturnReceivedToPool
<1>4. /\ IsFiniteSet(eligible) /\ Cardinality(eligible) \in Nat
      /\ gs \in [1 .. Cardinality(eligible) -> eligible]
      /\ \A i, j \in 1 .. Cardinality(eligible) : i < j => gs[i] # gs[j]
  <2>1. IsFiniteSet(eligible)
    BY Rows, FS_Subset DEF Received
  <2>2. /\ gs \in [1 .. Cardinality(eligible) -> eligible]
        /\ \A i, j \in 1 .. Cardinality(eligible) : i < j => gs[i] # gs[j]
    BY <1>1 DEF Walks
  <2> QED BY <2>1, <2>2, FS_CardinalityType
<1>5. \A g \in eligible : /\ g \in Received(u) /\ g \in GrantIds
                          /\ GrantRemaining[g] \in Nat \ {0}
  BY BalanceTypes DEF Received
<1> HIDE DEF cap, eligible
<1>6. Len(gs) \in Nat /\ Len(gs) = Cardinality(eligible) /\ gs \in [1 .. Len(gs) -> eligible]
  BY <1>4
<1>7. Draining(takes, gs, Len(gs), eligible, GrantRemaining, lane(gs), cap)
  BY <1>2, <1>3, <1>5, <1>6 DEF Draining
<1>8. Taken(takes, gs, Len(gs), eligible, GrantRemaining, Due(lane(gs), cap))
  <2> HIDE DEF lane
  <2> QED BY <1>7, DrainSources
<1>9. PICK m \in Nat : /\ m <= Len(gs) /\ Len(takes) = m
                       /\ \A i \in 1 .. m : /\ gs[i] \in eligible /\ takes[i] \in Nat \ {0}
                                            /\ takes[i] <= GrantRemaining[gs[i]]
  BY <1>8 DEF Taken
<1>10. \A i \in 1 .. m : row(gs[i], takes[i]) \in ContributionRows
  <2> TAKE i \in 1 .. m
  <2>1. gs[i] \in GrantIds /\ gs[i] \in Nat /\ grants[gs[i]].donor \in Users
    BY <1>5, <1>9, Rows, SMTT(30) DEF GrantRows
  <2> QED BY <1>9, <2>1 DEF ContributionRows
<1> DEFINE new == [i \in 1 .. m |-> row(gs[i], takes[i])]
<1>11. /\ new \in Seq(ContributionRows) /\ contributions' = contributions \o new
       /\ Len(new) = m
  BY <1>2, <1>9, <1>10
<1>12. \A i \in 1 .. m : /\ new[i].origin \in Received(u)
                         /\ new[i].donor = grants[new[i].origin].donor
                         /\ new[i].contributor = u
                         /\ new[i].amount <= GrantRemaining[new[i].origin]
                         /\ new[i].origin = gs[i]
  BY <1>5, <1>9
<1>13. \A i, j \in 1 .. m : i # j => gs[i] # gs[j]
  BY <1>4, <1>6, <1>9
<1>14. UNCHANGED <<accountVars, requestVars, grants, burnVars>>
  BY DEF ReturnReceivedToPool
<1> HIDE DEF new
<1>15. Return(u, new)
  <2>1. \A i, j \in 1 .. m : i # j => new[i].origin # new[j].origin
    BY <1>12, <1>13
  <2> QED BY <1>11, <1>12, <1>14, <2>1 DEF Return
<1> QED
  BY <1>15

\* The contributions after a return.
LEMMA AfterReturn ==
  ASSUME TypeOK, NEW u \in Users, NEW new, Return(u, new)
  PROVE  /\ Len(new) \in Nat
         /\ contributions' \in Seq(ContributionRows)
         /\ ContributionIds' = 1 .. (Len(contributions) + Len(new))
         /\ \A p \in ContributionIds : contributions'[p] = contributions[p]
         /\ \A i \in 1 .. Len(new) : contributions'[Len(contributions) + i] = new[i]
<1>1. new \in Seq(ContributionRows) /\ contributions' = contributions \o new
  BY DEF Return
<1>2. /\ contributions \in Seq(ContributionRows)
      /\ Len(contributions) \in Nat /\ Len(new) \in Nat
  BY <1>1 DEF TypeOK
<1>3. /\ contributions \o new \in Seq(ContributionRows)
      /\ Len(contributions \o new) = Len(contributions) + Len(new)
      /\ \A i \in 1 .. Len(contributions) : (contributions \o new)[i] = contributions[i]
      /\ \A i \in 1 .. Len(new) : (contributions \o new)[Len(contributions) + i] = new[i]
  BY <1>1, <1>2, Appended
<1>4. ContributionIds' = 1 .. (Len(contributions) + Len(new))
  BY <1>1, <1>2, <1>3 DEF ContributionIds
<1> QED
  BY <1>1, <1>2, <1>3, <1>4, ReturnedRows

\* Every step keeps the tables well-typed.
LEMMA TypingStep ==
  ASSUME TypeOK, [Next]_vars
  PROVE  TypeOK'
<1>1. CASE \E r \in Requests : \E new : Fill(r, new)
  BY <1>1, AfterFill DEF TypeOK, accountVars, requestVars, burnVars
<1>2. CASE OtherStep
  <2> USE DEF TypeOK, accountVars, requestVars, burnVars
  <2>1. CASE \E r \in Requests : CreateRequest(r) \/ Expire(r) \/ CancelRequest(r)
    BY <2>1 DEF CreateRequest, Expire, CancelRequest
  <2>2. CASE \E u \in Users, n \in 1 .. MaxAmount : ReturnReceivedToPool(u, n)
    <3> PICK u \in Users, n \in 1 .. MaxAmount : ReturnReceivedToPool(u, n)
      BY <2>2
    <3> PICK new : Return(u, new)
      BY Returns
    <3>1. contributions' \in Seq(ContributionRows)
      BY AfterReturn
    <3> QED BY <3>1 DEF Return
  <2>3. CASE \E u \in Users : \E p \in 0 .. quota[u] : SetPledge(u, p)
    BY <2>3, SMTT(30) DEF SetPledge
  <2>4. CASE \E u \in Users : \E q \in QuotaChoices[u] : SetQuota(u, q)
    BY <2>4, SMTT(30) DEF SetQuota, Least
  <2>5. CASE \E u \in Users, verdict \in {"dead", "valid"} : SetVerdict(u, verdict)
    BY <2>5 DEF SetVerdict
  <2>6. CASE \E g \in GrantIds, n \in 1 .. MaxAmount, overshoot \in BOOLEAN :
               RecordGrant(g, n, overshoot)
    <3> PICK g \in GrantIds, n \in 1 .. MaxAmount, overshoot \in BOOLEAN :
               RecordGrant(g, n, overshoot)
      BY <2>6
    <3> DEFINE x == Greatest(0, n - Greatest(0, GrantRemaining[g]))
    <3>1. x \in Nat /\ over' = [over EXCEPT ![g] = @ + x]
      BY BalanceTypes, SMTT(30) DEF Greatest, RecordGrant
    <3> HIDE DEF x
    <3>2. n \in Nat /\ g \in 1 .. MaxGrants
      BY Rows, SMTT(30)
    <3>3. used' \in [1 .. MaxGrants -> Nat]
      BY <3>2, SMTT(30) DEF RecordGrant
    <3>4. over' \in [1 .. MaxGrants -> Nat]
      BY <3>1, <3>2
    <3> QED BY <3>3, <3>4 DEF RecordGrant
  <2>7. CASE \E u \in Users, n \in 1 .. MaxAmount : RecordSelf(u, n)
    <3> PICK u \in Users, n \in 1 .. MaxAmount : RecordSelf(u, n)
      BY <2>7
    <3>1. n \in Nat
      OBVIOUS
    <3>2. selfBurn' \in [Users -> Nat]
      BY <3>1 DEF RecordSelf
    <3> QED BY <3>2 DEF RecordSelf
  <2>8. CASE UNCHANGED vars
    BY <2>8 DEF vars
  <2> QED BY <1>2, <2>1, <2>2, <2>3, <2>4, <2>5, <2>6, <2>7, <2>8 DEF OtherStep
<1> QED BY <1>1, <1>2, Steps

\* TypeOK: every reachable state has well-typed tables, whatever the team, the
\* requests and the bounds.
THEOREM Typing == Spec => []TypeOK
<1>1. Init => TypeOK
  BY DEF Init, TypeOK
<1>2. TypeOK /\ [Next]_vars => TypeOK'
  BY TypingStep
<1> QED
  BY <1>1, <1>2, PTL DEF Spec

-----------------------------------------------------------------------------
(* No request is overfunded. *)

\* A fill raises what its request is funded by the sum of its rows, and leaves
\* every other request as it was.
LEMMA FundedAfterFill ==
  ASSUME TypeOK, NEW r \in Requests, NEW new, Fill(r, new), NEW q \in Requests
  PROVE  /\ q # r => Funded(q)' = Funded(q)
         /\ q = r => Funded(q)' =
              Funded(q) + Total([i \in 1 .. Len(new) |-> new[i].amount], 1 .. Len(new))
<1> DEFINE n == Len(grants)
           m == Len(new)
           f == GrantAmount'
           amounts == [i \in 1 .. m |-> new[i].amount]
           Added == (n + 1) .. (n + m)
<1>1. /\ n \in Nat /\ m \in Nat
      /\ GrantIds = 1 .. n /\ GrantIds' = 1 .. (n + m)
      /\ \A g \in 1 .. n : grants'[g] = grants[g]
      /\ \A i \in 1 .. m : /\ grants'[n + i] = new[i]
                           /\ new[i].request = r /\ new[i].amount \in Nat
  <2>1. \A i \in 1 .. m : new[i] \in GrantRows
    BY AfterFill
  <2>2. \A i \in 1 .. m : new[i].amount \in Nat
    BY <2>1 DEF GrantRows
  <2>3. n \in Nat /\ GrantIds = 1 .. n
    BY Rows
  <2>4. m \in Nat /\ GrantIds' = 1 .. (n + m)
    BY AfterFill
  <2>5. \A g \in 1 .. n : grants'[g] = grants[g]
    BY <2>3, AfterFill
  <2>6. \A i \in 1 .. m : grants'[n + i] = new[i] /\ new[i].request = r
    BY AfterFill
  <2> QED BY <2>2, <2>3, <2>4, <2>5, <2>6
<1>2. \A k \in Added : k - n \in 1 .. m /\ k = n + (k - n)
  BY <1>1
<1>3. /\ \A g \in 1 .. n : f[g] = GrantAmount[g] /\ f[g] \in Nat
      /\ \A i \in 1 .. m : amounts[i] = f[n + i] /\ f[n + i] \in Nat
      /\ \A k \in 1 .. (n + m) : f[k] \in Nat
  <2>1. \A g \in 1 .. n : f[g] = GrantAmount[g] /\ f[g] \in Nat
    BY <1>1, ChargeTypes DEF GrantAmount
  <2>2. \A i \in 1 .. m : amounts[i] = f[n + i] /\ f[n + i] \in Nat
    BY <1>1 DEF GrantAmount
  <2>3. \A k \in 1 .. (n + m) : k \in 1 .. n \/ k \in Added
    BY <1>1
  <2> QED BY <1>2, <2>1, <2>2, <2>3
<1>4. OnRequest(q) \subseteq 1 .. n /\ IsFiniteSet(OnRequest(q))
  BY <1>1, Rows, FS_Subset DEF OnRequest
<1>5. Funded(q)' = Total(f, OnRequest(q)') /\ Funded(q) = Total(GrantAmount, OnRequest(q))
  BY DEF Funded
<1>6. Total(f, OnRequest(q)) = Total(GrantAmount, OnRequest(q))
  BY <1>3, <1>4, TotalCong
<1>7. CASE q # r
  <2>1. OnRequest(q)' = OnRequest(q)
    <3>1. \A k \in Added : grants'[k].request = r
      <4> TAKE k \in Added
      <4>1. k - n \in 1 .. m /\ k = n + (k - n)
        BY <1>2
      <4>2. grants'[n + (k - n)].request = r
        BY <1>1, <4>1
      <4> QED BY <4>1, <4>2
    <3>2. \A k \in GrantIds' : k \in 1 .. n \/ k \in Added
      BY <1>1
    <3> QED BY <1>1, <1>7, <3>1, <3>2 DEF OnRequest
  <2> QED BY <1>5, <1>6, <1>7, <2>1
<1>8. CASE q = r
  <2>1. OnRequest(q)' = OnRequest(q) \cup Added
    <3>1. \A k \in Added : grants'[k].request = r /\ k \in GrantIds'
      <4> TAKE k \in Added
      <4>1. k - n \in 1 .. m /\ k = n + (k - n)
        BY <1>2
      <4>2. grants'[n + (k - n)].request = r
        BY <1>1, <4>1
      <4> QED BY <1>1, <4>1, <4>2
    <3>2. \A k \in GrantIds' : k \in 1 .. n \/ k \in Added
      BY <1>1
    <3> QED BY <1>1, <1>8, <3>1, <3>2 DEF OnRequest
  <2>2. Total(f, OnRequest(q) \cup Added) = Total(f, OnRequest(q)) + Total(f, Added)
    <3>1. IsFiniteSet(Added)
      BY <1>1, FS_Interval
    <3>2. OnRequest(q) \cap Added = {}
      BY <1>1, <1>4
    <3>3. \A k \in OnRequest(q) \cup Added : f[k] \in Nat
      BY <1>1, <1>3, <1>4
    <3> HIDE DEF Added, f
    <3> QED BY <1>4, <3>1, <3>2, <3>3, TotalSplit
  <2>3. Total(f, Added) = Total(amounts, 1 .. m)
    <3>1. \A k \in 1 .. m : amounts[k] = f[n + k]
      BY <1>3
    <3>2. \A k \in 1 .. (n + m) : f[k] \in Nat
      BY <1>3
    <3>3. n \in Nat /\ m \in Nat
      BY <1>1
    <3> HIDE DEF f, amounts, n, m
    <3>4. Shifted(f, amounts, n, m)
      BY <3>1, <3>2, <3>3 DEF Shifted
    <3> QED BY <3>4, TotalShift
  <2> QED BY <1>5, <1>6, <1>8, <2>1, <2>2, <2>3
<1> QED
  BY <1>7, <1>8

\* NeverOverfunded, for any number of funders and requests.
THEOREM Overfunding == Spec => []NeverOverfunded
<1>1. Init => NeverOverfunded
  <2> SUFFICES ASSUME Init, NEW r \in Requests PROVE Funded(r) <= Needed[r]
    BY DEF NeverOverfunded
  <2>1. OnRequest(r) = {}
    BY DEF Init, OnRequest, GrantIds
  <2> QED BY <2>1, TotalEmpty DEF Funded
<1>2. TypeOK /\ NeverOverfunded /\ [Next]_vars => NeverOverfunded'
  <2> SUFFICES ASSUME TypeOK, NeverOverfunded, [Next]_vars, NEW q \in Requests
               PROVE  Funded(q)' <= Needed[q]
    BY DEF NeverOverfunded
  <2>1. Funded(q) <= Needed[q] /\ Funded(q) \in Nat
    BY BalanceTypes DEF NeverOverfunded
  <2>2. CASE \E r \in Requests : \E new : Fill(r, new)
    <3> PICK r \in Requests : \E new : Fill(r, new)
      BY <2>2
    <3> PICK new : Fill(r, new)
      OBVIOUS
    <3> DEFINE sum == Total([i \in 1 .. Len(new) |-> new[i].amount], 1 .. Len(new))
    <3>1. q # r => Funded(q)' = Funded(q)
      BY FundedAfterFill
    <3>2. q = r => Funded(q)' = Funded(q) + sum
      BY FundedAfterFill
    <3>3. sum <= Missing(r) /\ sum \in Nat
      <4>1. \A i \in 1 .. Len(new) : [j \in 1 .. Len(new) |-> new[j].amount][i] \in Int
        <5>1. \A i \in 1 .. Len(new) : new[i] \in GrantRows
          BY AfterFill
        <5> QED BY <5>1 DEF GrantRows
      <4>2. IsFiniteSet(1 .. Len(new))
        BY AfterFill, FS_Interval
      <4>3. sum \in Nat
        BY <4>1, <4>2, TotalType
      <4> QED BY <4>3 DEF Fill
    <3> HIDE DEF sum
    <3> QED BY <2>1, <3>1, <3>2, <3>3 DEF Missing
  <2>3. CASE OtherStep
    <3>1. UNCHANGED grants
      BY <2>3, OtherStepKeepsGrants
    <3>2. Funded(q)' = Funded(q)
      BY <3>1 DEF Funded, OnRequest, GrantAmount, GrantIds
    <3> QED BY <2>1, <3>2
  <2> QED BY <2>2, <2>3, Steps
<1> QED
  BY <1>1, <1>2, Typing, PTL DEF Spec

-----------------------------------------------------------------------------
(* Chains of re-donated credit are one hop deep. *)

\* A row a fill inserts is a root, or a child of the shape the depth cap asks
\* for.
LEMMA RowShapes ==
  ASSUME TypeOK, ChainWellFormed, NEW r \in Requests, NEW new, Fill(r, new),
         NEW i \in 1 .. Len(new), NEW c, c = Len(grants) + i
  PROVE  IF IsRoot(c)' THEN grants'[c].contribution = 0 ELSE ChildWellFormed(c)'
<1> DEFINE x == new[i]
<1>1. /\ grants'[c] = x /\ x.request = r
      /\ \A g \in GrantIds : grants'[g] = grants[g] /\ g \in 1 .. (c - 1)
      /\ contributions' = contributions /\ ContributionIds' = ContributionIds
  BY AfterFill, Rows, SMTT(30) DEF ContributionIds
<1>2. NewRow(r, x)
  BY DEF Fill
<1>3. CASE Personal(r, x) \/ Pledged(r, x)
  <2>1. x.origin = 0 /\ x.contribution = 0
    <3>1. CASE Personal(r, x)
      BY <3>1 DEF Personal, PersonalGrant
    <3>2. CASE Pledged(r, x)
      BY <3>2 DEF Pledged, PersonalGrant, PledgeDraw
    <3> QED BY <1>3, <3>1, <3>2
  <2> QED BY <1>1, <2>1 DEF IsRoot
<1>4. CASE Drawing(r, x)
  <2>1. PICK p \in ContributionIds, n \in Nat \ {0} : x = ContributionDraw(r, p, n)
    BY <1>4 DEF Drawing
  <2> DEFINE o == contributions[p].origin
  <2>2. /\ x.origin = o /\ x.contribution = p
        /\ x.donor = contributions[p].donor
    BY <2>1 DEF ContributionDraw, PledgeDraw, PersonalGrant
  <2>3. o \in GrantIds /\ grants[o].origin = 0 /\ contributions[p].donor = grants[o].donor
    BY DEF ChainWellFormed, ContributionWellFormed, IsRoot
  <2>4. p # 0 /\ o # 0
    BY <2>3, ReturnedRows, Rows
  <2> QED BY <1>1, <2>2, <2>3, <2>4 DEF ChildWellFormed, IsRoot
<1>5. CASE Passing(r, x)
  <2>1. PICK g \in GrantIds, n \in Nat \ {0} :
          /\ IsRoot(g) /\ Recipient(g) # Owner[r] /\ grants[g].donor # Owner[r]
          /\ x = Transfer(r, g, n)
    BY <1>5 DEF Passing
  <2>2. /\ x.origin = g /\ x.contribution = 0 /\ x.donor = grants[g].donor
        /\ x.source = grants[g].source /\ x.via = Recipient(g)
    BY <2>1 DEF Transfer, PersonalGrant
  <2>3. Recipient(g)' = Recipient(g) /\ Recipient(c)' = Owner[r] /\ IsRoot(g)'
    BY <1>1, <2>1 DEF Recipient, IsRoot
  <2>4. g # 0
    BY Rows
  <2> QED BY <1>1, <2>1, <2>2, <2>3, <2>4 DEF ChildWellFormed, IsRoot
<1> QED
  BY <1>2, <1>3, <1>4, <1>5 DEF NewRow

\* ChainWellFormed: the depth cap, and who is charged along a chain.
THEOREM Chains == Spec => []ChainWellFormed
<1>1. Init => ChainWellFormed
  BY DEF Init, ChainWellFormed, GrantIds, ContributionIds
<1>2. TypeOK /\ ChainWellFormed /\ [Next]_vars => ChainWellFormed'
  <2> SUFFICES ASSUME TypeOK, ChainWellFormed, [Next]_vars PROVE ChainWellFormed'
    OBVIOUS
  <2>1. CASE \E r \in Requests : \E new : Fill(r, new)
    <3> PICK r \in Requests : \E new : Fill(r, new)
      BY <2>1
    <3> PICK new : Fill(r, new)
      OBVIOUS
    <3>1. /\ \A g \in GrantIds : grants'[g] = grants[g] /\ g \in GrantIds' /\ g # 0
          /\ contributions' = contributions /\ ContributionIds' = ContributionIds
      BY AfterFill, Rows DEF ContributionIds
    <3>2. ASSUME NEW c \in GrantIds
          PROVE  IF IsRoot(c)' THEN grants'[c].contribution = 0 ELSE ChildWellFormed(c)'
      <4>1. IF IsRoot(c) THEN grants[c].contribution = 0 ELSE ChildWellFormed(c)
        BY DEF ChainWellFormed
      <4>2. CASE IsRoot(c)
        BY <3>1, <4>1, <4>2 DEF IsRoot
      <4>3. CASE ~ IsRoot(c)
        <5>1. grants[c].origin \in GrantIds
          BY <4>1, <4>3, Rows DEF ChildWellFormed
        <5> QED BY <3>1, <4>1, <4>3, <5>1 DEF ChildWellFormed, IsRoot, Recipient
      <4> QED BY <4>2, <4>3
    <3>3. ASSUME NEW c \in GrantIds' \ GrantIds
          PROVE  IF IsRoot(c)' THEN grants'[c].contribution = 0 ELSE ChildWellFormed(c)'
      <4>1. /\ GrantIds = 1 .. Len(grants) /\ Len(grants) \in Nat
            /\ Len(new) \in Nat /\ GrantIds' = 1 .. (Len(grants) + Len(new))
        BY AfterFill, Rows
      <4>2. c - Len(grants) \in 1 .. Len(new) /\ c = Len(grants) + (c - Len(grants))
        BY <4>1
      <4> QED BY <4>2, RowShapes
    <3>4. \A p \in ContributionIds' : ContributionWellFormed(p)'
      BY <3>1 DEF ChainWellFormed, ContributionWellFormed, IsRoot, Recipient
    <3> QED BY <3>2, <3>3, <3>4 DEF ChainWellFormed
  <2>2. CASE \E u \in Users, n \in 1 .. MaxAmount : ReturnReceivedToPool(u, n)
    <3> PICK u \in Users, n \in 1 .. MaxAmount : ReturnReceivedToPool(u, n)
      BY <2>2
    <3> PICK new : Return(u, new)
      BY Returns
    <3>1. /\ grants' = grants /\ GrantIds' = GrantIds
          /\ \A p \in ContributionIds : /\ contributions'[p] = contributions[p]
                                        /\ p \in ContributionIds'
      <4>1. grants' = grants
        BY DEF Return
      <4>2. \A p \in ContributionIds : contributions'[p] = contributions[p]
        BY AfterReturn
      <4>3. /\ ContributionIds = 1 .. Len(contributions) /\ Len(contributions) \in Nat
            /\ ContributionIds' = 1 .. (Len(contributions) + Len(new)) /\ Len(new) \in Nat
        BY AfterReturn, ReturnedRows
      <4> QED BY <4>1, <4>2, <4>3 DEF GrantIds
    <3>2. \A c \in GrantIds' :
            IF IsRoot(c)' THEN grants'[c].contribution = 0 ELSE ChildWellFormed(c)'
      BY <3>1 DEF ChainWellFormed, ChildWellFormed, IsRoot, Recipient
    <3>3. ASSUME NEW p \in ContributionIds' \ ContributionIds
          PROVE  ContributionWellFormed(p)'
      <4> DEFINE i == p - Len(contributions)
      <4>1. i \in 1 .. Len(new) /\ p = Len(contributions) + i
        BY AfterReturn, ReturnedRows
      <4>2. contributions'[p] = new[i]
        BY <4>1, AfterReturn
      <4>3. /\ new[i].origin \in Received(u) /\ new[i].contributor = u
            /\ new[i].donor = grants[new[i].origin].donor
        BY <4>1 DEF Return
      <4> HIDE DEF i
      <4> QED BY <3>1, <4>2, <4>3 DEF ContributionWellFormed, Received, IsRoot, Recipient
    <3>4. ASSUME NEW p \in ContributionIds
          PROVE  ContributionWellFormed(p)'
      BY <3>1 DEF ChainWellFormed, ContributionWellFormed, IsRoot, Recipient
    <3> QED BY <3>2, <3>3, <3>4 DEF ChainWellFormed
  <2>3. CASE OtherStep /\ UNCHANGED contributions
    BY <2>3, OtherStepKeepsGrants
       DEF ChainWellFormed, ChildWellFormed, ContributionWellFormed, IsRoot, Recipient,
           GrantIds, ContributionIds
  <2>4. CASE OtherStep /\ contributions' # contributions
    BY <2>2, <2>4 DEF OtherStep, CreateRequest, Expire, CancelRequest, SetPledge, SetQuota,
                      SetVerdict, RecordGrant, RecordSelf, vars
  <2> QED BY <2>1, <2>3, <2>4, Steps
<1> QED
  BY <1>1, <1>2, Typing, PTL DEF Spec
=============================================================================
