-------------------------- MODULE Standings_proofs --------------------------
(***************************************************************************)
(* What the team reads about the ledger is right for every team, every set *)
(* of requests and every bound: the pages agree on who gave and who        *)
(* consumed, a giver's bar adds up to his quota, and every credit the      *)
(* givers brought is at one place of the ledger.                           *)
(***************************************************************************)
EXTENDS Standings, Backing_proofs

USE UsersAssumption, RequestsAssumption, BoundsAssumption

-----------------------------------------------------------------------------
(* Who has a row *)

\* Nobody gives without a giver_cycles row: a user who has none has no pledge,
\* burned nothing of his own and is the donor of no grant.  And only
\* re-donated credit was passed on by somebody, and returned credit is drawn
\* as a part of the pool.
RowlessIdle == \A u \in Users \ rows : pledge[u] = 0 /\ selfBurn[u] = 0
DonorsHaveRows == \A g \in GrantIds : grants[g].donor \in rows
RootsDirect == \A g \in GrantIds : IsRoot(g) => grants[g].via = NoUser
DrawsFromPool == \A g \in GrantIds : grants[g].contribution # 0 => grants[g].source = "pool"

RowsInv == RowlessIdle /\ DonorsHaveRows /\ RootsDirect /\ DrawsFromPool

\* Each kind of funding takes its credit from a user with a row.
LEMMA NewRowDonor ==
  ASSUME TypeOK, ChainWellFormed, RowsInv, NEW r \in Requests, NEW x, NewRow(r, x)
  PROVE  /\ x.donor \in rows
         /\ x.origin = 0 => x.via = NoUser
         /\ x.contribution # 0 => x.source = "pool"
<1>1. CASE Personal(r, x)
  <2>1. PICK u \in Users, n \in Nat \ {0} :
               n <= PersonalRemaining(u) /\ x = PersonalGrant(r, u, n)
    BY <1>1 DEF Personal
  <2>2. u \in rows
    BY <2>1 DEF PersonalRemaining
  <2> QED BY <2>1, <2>2 DEF PersonalGrant
<1>2. CASE Pledged(r, x)
  <2>1. PICK u \in Users, n \in Nat \ {0} :
               n <= PledgeRemaining(u) /\ x = PledgeDraw(r, u, n)
    BY <1>2 DEF Pledged
  <2>2. u \in rows
    <3>1. PledgeUsed(u) \in Nat /\ pledge[u] \in Nat
      BY BalanceTypes DEF TypeOK
    <3>2. pledge[u] # 0
      BY <2>1, <3>1 DEF PledgeRemaining, Greatest
    <3> QED BY <3>2 DEF RowsInv, RowlessIdle
  <2> QED BY <2>1, <2>2 DEF PledgeDraw, PersonalGrant
<1>3. CASE Drawing(r, x)
  <2>1. PICK p \in ContributionIds, n \in Nat \ {0} : x = ContributionDraw(r, p, n)
    BY <1>3 DEF Drawing
  <2>2. /\ contributions[p].origin \in GrantIds
        /\ contributions[p].donor = grants[contributions[p].origin].donor
    BY DEF ChainWellFormed, ContributionWellFormed
  <2>3. contributions[p].origin # 0
    BY <2>2, Rows
  <2>4. /\ x.donor = contributions[p].donor /\ x.origin = contributions[p].origin
        /\ x.source = "pool"
    BY <2>1 DEF ContributionDraw, PledgeDraw, PersonalGrant
  <2> QED BY <2>2, <2>3, <2>4 DEF RowsInv, DonorsHaveRows
<1>4. CASE Passing(r, x)
  <2>1. PICK g \in GrantIds, n \in Nat \ {0} : x = Transfer(r, g, n)
    BY <1>4 DEF Passing
  <2>2. x.donor = grants[g].donor /\ x.origin = g /\ x.contribution = 0
    BY <2>1 DEF Transfer, PersonalGrant
  <2> QED BY <2>2, Rows DEF RowsInv, DonorsHaveRows
<1> QED
  BY <1>1, <1>2, <1>3, <1>4 DEF NewRow

\* Users keep their row, and get one before anything is given or burned.
THEOREM RowsKept == Spec => []RowsInv
<1>1. Init => RowsInv
  BY DEF Init, RowsInv, RowlessIdle, DonorsHaveRows, RootsDirect, DrawsFromPool, GrantIds
<1>2. TypeOK /\ ChainWellFormed /\ RowsInv /\ [Next]_vars => RowsInv'
  <2> SUFFICES ASSUME TypeOK, ChainWellFormed, RowsInv, [Next]_vars PROVE RowsInv'
    OBVIOUS
  <2>1. CASE \E r \in Requests : \E new : Fill(r, new)
    <3> PICK r \in Requests : \E new : Fill(r, new)
      BY <2>1
    <3> PICK new : Fill(r, new)
      OBVIOUS
    <3>1. UNCHANGED accountVars
      BY FillRows
    <3>2. ASSUME NEW c \in GrantIds'
          PROVE  /\ grants'[c].donor \in rows
                 /\ grants'[c].origin = 0 => grants'[c].via = NoUser
                 /\ grants'[c].contribution # 0 => grants'[c].source = "pool"
      <4>1. CASE c \in GrantIds
        BY <4>1, FillRows DEF RowsInv, DonorsHaveRows, RootsDirect, DrawsFromPool, IsRoot
      <4>2. CASE c \notin GrantIds
        <5>1. NewRow(r, grants'[c])
          BY <4>2, FillRows
        <5> QED BY <5>1, NewRowDonor
      <4> QED BY <4>1, <4>2
    <3> QED BY <3>1, <3>2
            DEF RowsInv, RowlessIdle, DonorsHaveRows, RootsDirect, DrawsFromPool, IsRoot,
                accountVars
  <2>2. CASE OtherStep
    <3>1. UNCHANGED grants
      BY <2>2, OtherStepKeepsGrants
    <3>2. rows \subseteq rows' /\ RowlessIdle'
      <4>1. CASE \E r \in Requests : CreateRequest(r) \/ Expire(r) \/ CancelRequest(r)
        BY <4>1 DEF CreateRequest, Expire, CancelRequest, accountVars, RowsInv, RowlessIdle
      <4>2. CASE \E u \in Users, n \in 1 .. MaxAmount : ReturnReceivedToPool(u, n)
        BY <4>2 DEF ReturnReceivedToPool, accountVars, RowsInv, RowlessIdle
      <4>3. CASE \E u \in Users : \E p \in 0 .. quota[u] : SetPledge(u, p)
        BY <4>3 DEF SetPledge, RowsInv, RowlessIdle, TypeOK
      <4>4. CASE \E u \in Users : \E q \in QuotaChoices[u] : SetQuota(u, q)
        BY <4>4 DEF SetQuota, RowsInv, RowlessIdle, TypeOK
      <4>5. CASE \E u \in Users, verdict \in {"dead", "valid"} : SetVerdict(u, verdict)
        BY <4>5 DEF SetVerdict, RowsInv, RowlessIdle
      <4>6. CASE \E g \in GrantIds, n \in 1 .. MaxAmount, overshoot \in BOOLEAN :
                   RecordGrant(g, n, overshoot)
        BY <4>6 DEF RecordGrant, accountVars, RowsInv, RowlessIdle
      <4>7. CASE \E u \in Users, n \in 1 .. MaxAmount : RecordSelf(u, n)
        BY <4>7 DEF RecordSelf, RowsInv, RowlessIdle, TypeOK
      <4>8. CASE UNCHANGED vars
        BY <4>8 DEF vars, accountVars, RowsInv, RowlessIdle
      <4> QED BY <2>2, <4>1, <4>2, <4>3, <4>4, <4>5, <4>6, <4>7, <4>8 DEF OtherStep
    <3> QED BY <3>1, <3>2 DEF RowsInv, DonorsHaveRows, RootsDirect, DrawsFromPool, IsRoot, GrantIds
  <2> QED BY <2>1, <2>2, Steps
<1> QED
  BY <1>1, <1>2, Typing, Chains, PTL DEF Spec

\* Whoever burned or was burned from is in one of the two tallies of the
\* dashboard (NobodyVanishes), since whoever gave still has a row.
THEOREM NobodyLost == Spec => []NobodyVanishes
<1>1. TypeOK /\ RowsInv => NobodyVanishes
  <2> SUFFICES ASSUME TypeOK, RowsInv, NEW pats \in {{}, Users}
               PROVE  /\ Consumers \cup Sources \subseteq ActiveGivers(pats) \cup ActiveConsumers
                      /\ ActiveGivers(pats) \cap ActiveConsumers = {}
    BY DEF NobodyVanishes
  <2>1. ASSUME NEW u \in Sources PROVE u \in rows
    <3> SUFFICES ASSUME u \notin rows PROVE FALSE
      OBVIOUS
    <3>1. u \in Users /\ selfBurn[u] + BurnedOn({g \in GrantIds : grants[g].donor = u}) > 0
      BY DEF Sources
    <3>2. {g \in GrantIds : grants[g].donor = u} = {}
      BY DEF RowsInv, DonorsHaveRows
    <3>3. BurnedOn({g \in GrantIds : grants[g].donor = u}) = 0
      BY <3>2, TotalEmpty DEF BurnedOn
    <3>4. selfBurn[u] = 0
      BY <3>1 DEF RowsInv, RowlessIdle
    <3> QED BY <3>1, <3>3, <3>4
  <2> QED BY <2>1 DEF ActiveGivers, ActiveConsumers
<1> QED
  BY <1>1, Typing, RowsKept, PTL

-----------------------------------------------------------------------------
(* The pages agree *)

DonorOf     == [g \in GrantIds |-> grants[g].donor]
RecipientOf == [g \in GrantIds |-> Recipient(g)]

\* Every row has a giver and a recipient among the users.
LEMMA Parties ==
  ASSUME TypeOK
  PROVE  \A g \in GrantIds : DonorOf[g] \in Users /\ RecipientOf[g] \in Users
BY Rows DEF DonorOf, RecipientOf, Recipient, GrantRows

\* What was burned on some of the grants is a natural number, and with what was
\* burned on the others it is all that was.
LEMMA BurnedSplit ==
  ASSUME TypeOK, NEW A \in SUBSET GrantIds
  PROVE  /\ BurnedOn(A) \in Nat
         /\ BurnedOn(A) + BurnedOn(GrantIds \ A) = BurnedOn(GrantIds)
<1>1. IsFiniteSet(A) /\ IsFiniteSet(GrantIds \ A) /\ BurnedOn(A) \in Nat
  BY Rows, GrantSum DEF BurnedOn
<1>2. A \cup (GrantIds \ A) = GrantIds /\ A \cap (GrantIds \ A) = {}
  OBVIOUS
<1>3. \A g \in A \cup (GrantIds \ A) : used[g] \in Nat
  BY Rows
<1>4. Total(used, A \cup (GrantIds \ A)) = Total(used, A) + Total(used, GrantIds \ A)
  BY <1>1, <1>2, <1>3, TotalSplit
<1> QED
  BY <1>1, <1>2, <1>4 DEF BurnedOn

\* What the users gave is what was burned on the gifts, and so is what they
\* took; what they consumed is what was burned in all.
LEMMA BurnedGroups ==
  ASSUME TypeOK, NEW gifts, gifts = {g \in GrantIds : Recipient(g) # grants[g].donor}
  PROVE  /\ Total([u \in Users |-> DonatedLive(u)], Users) = BurnedOn(gifts)
         /\ Total([u \in Users |-> ConsumedFromOthers(u)], Users) = BurnedOn(gifts)
         /\ Total([u \in Users |-> BurnedOn(Routed(u))], Users) = BurnedOn(GrantIds)
<1>1. /\ IsFiniteSet(gifts) /\ IsFiniteSet(GrantIds)
      /\ \A g \in GrantIds : /\ DonorOf[g] \in Users /\ RecipientOf[g] \in Users
                             /\ used[g] \in Nat
  BY Rows, Parties, GrantSum
<1>2. /\ \A u \in Users : Owned(DonorOf, gifts, u) = GiftsOf(u)
      /\ \A u \in Users : Owned(RecipientOf, gifts, u) = GiftsTo(u)
      /\ \A u \in Users : Owned(RecipientOf, GrantIds, u) = Routed(u)
  BY DEF Owned, DonorOf, RecipientOf, GiftsOf, GiftsTo, Routed
<1>3. /\ GroupedBy(DonorOf, gifts, Users, used, [u \in Users |-> DonatedLive(u)])
      /\ GroupedBy(RecipientOf, gifts, Users, used, [u \in Users |-> ConsumedFromOthers(u)])
      /\ GroupedBy(RecipientOf, GrantIds, Users, used, [u \in Users |-> BurnedOn(Routed(u))])
  BY <1>1, <1>2 DEF GroupedBy, DonatedLive, ConsumedFromOthers, BurnedOn
<1> QED
  BY <1>3, TotalGroups DEF BurnedOn

\* What the users consumed, of their own and of what they were granted, adds up
\* to what the cycle used.
LEMMA ConsumedAll ==
  ASSUME TypeOK
  PROVE  Total([u \in Users |-> ConsumedTotal(u)], Users) = UsedTotal
<1> DEFINE granted == [u \in Users |-> BurnedOn(Routed(u))]
           consumed == [u \in Users |-> ConsumedTotal(u)]
<1>1. \A u \in Users : Routed(u) \in SUBSET GrantIds
  BY DEF Routed
<1>2. \A u \in Users : /\ granted[u] \in Nat /\ selfBurn[u] \in Nat
                       /\ consumed[u] = selfBurn[u] + granted[u]
  BY <1>1, BurnedSplit DEF ConsumedTotal, TypeOK
<1>3. Total(granted, Users) = BurnedOn(GrantIds)
  BY BurnedGroups
<1> HIDE DEF granted, consumed
<1>4. Total(consumed, Users) = Total(selfBurn, Users) + Total(granted, Users)
  BY <1>2, TotalAdd
<1>5. Total(selfBurn, Users) \in Nat /\ BurnedOn(GrantIds) \in Nat
  <2>1. GrantIds \in SUBSET GrantIds /\ \A u \in Users : selfBurn[u] \in Int
    BY <1>2
  <2> QED BY <2>1, TotalType, BurnedSplit
<1> QED
  BY <1>3, <1>4, <1>5 DEF UsedTotal, consumed

\* Profile, leaderboard, dashboard and report derive the same numbers
\* (ReportsAgree), for every way the grants were passed around.
THEOREM PagesAgree == Spec => []ReportsAgree
<1>1. TypeOK => ReportsAgree
  <2> SUFFICES ASSUME TypeOK PROVE ReportsAgree
    OBVIOUS
  <2> DEFINE gifts == {g \in GrantIds : Recipient(g) # grants[g].donor}
             own == {g \in GrantIds : Recipient(g) = grants[g].donor}
             donated == [u \in Users |-> DonatedLive(u)]
             consumed == [u \in Users |-> ConsumedTotal(u)]
  <2>1. /\ Total(donated, Users) = BurnedOn(gifts)
        /\ Total([u \in Users |-> ConsumedFromOthers(u)], Users) = BurnedOn(gifts)
    BY BurnedGroups
  <2>2. BurnedOn(gifts) + BurnedOn(own) = BurnedOn(GrantIds)
    <3>1. own = GrantIds \ gifts /\ gifts \in SUBSET GrantIds
      OBVIOUS
    <3> HIDE DEF own, gifts
    <3> QED BY <3>1, BurnedSplit
  <2>3. \A S : BurnedOn({g \in GrantIds : Recipient(g) \in S})
                 + BurnedOn({g \in GrantIds : Recipient(g) \notin S}) = BurnedOn(GrantIds)
    <3> TAKE S
    <3> DEFINE In == {g \in GrantIds : Recipient(g) \in S}
               Out == {g \in GrantIds : Recipient(g) \notin S}
    <3>1. Out = GrantIds \ In /\ In \in SUBSET GrantIds
      OBVIOUS
    <3> HIDE DEF In, Out
    <3>2. BurnedOn(In) + BurnedOn(Out) = BurnedOn(GrantIds)
      BY <3>1, BurnedSplit
    <3> QED BY <3>2 DEF In, Out
  <2>4. Rotated + DonatedToNonPat = BurnedOn(GrantIds)
    BY <2>3 DEF Rotated, DonatedToNonPat
  <2>5. Total(consumed, Users) = UsedTotal
    BY ConsumedAll
  <2>6. ASSUME NEW givers \in {{}, rows}
        PROVE  /\ ToPat(givers) + ToNonPat(givers) = BurnedOn(GrantIds)
               /\ TopPro(givers) \cup TopNoob(givers) \cup (givers \cap dead)
                    = {u \in Users : consumed[u] > 0} \cup (givers \cap dead)
               /\ \A u \in givers : ToOtherGivers(u, givers) <= donated[u]
    <3>1. givers \subseteq Users
      BY DEF TypeOK
    <3>2. ToPat(givers) + ToNonPat(givers) = BurnedOn(GrantIds)
      BY <2>3 DEF ToPat, ToNonPat
    <3>3. TopPro(givers) \cup TopNoob(givers) \cup (givers \cap dead)
            = {u \in Users : consumed[u] > 0} \cup (givers \cap dead)
      BY <3>1 DEF TopPro, TopNoob
    <3>4. ASSUME NEW u \in givers PROVE ToOtherGivers(u, givers) <= donated[u]
      <4> DEFINE part == {g \in GiftsOf(u) : Recipient(g) \in givers}
      <4>1. part \in SUBSET GiftsOf(u) /\ GiftsOf(u) \in SUBSET GrantIds
        BY DEF GiftsOf
      <4>2. IsFiniteSet(GiftsOf(u)) /\ \A g \in GiftsOf(u) : used[g] \in Nat
        BY <4>1, Rows, GrantSum
      <4> HIDE DEF part
      <4>3. Total(used, part) <= Total(used, GiftsOf(u))
        BY <4>1, <4>2, TotalMono
      <4> QED BY <3>1, <4>3 DEF ToOtherGivers, DonatedLive, BurnedOn, part
    <3> QED BY <3>2, <3>3, <3>4
  <2> QED BY <2>1, <2>2, <2>4, <2>5, <2>6 DEF ReportsAgree
<1> QED
  BY <1>1, Typing, PTL

-----------------------------------------------------------------------------
(* What became of the credit a user received *)

OriginOf     == [c \in GrantIds |-> grants[c].origin]
ReturnOrigin == [p \in ContributionIds |-> contributions[p].origin]

\* What was returned out of a grant: what was drawn of it, once the grant's own
\* request is cancelled, and all of it before.
LEMMA ReturnsOf ==
  ASSUME TypeOK, ChainWellFormed, NEW g \in GrantIds
  PROVE  /\ Total(ReturnCharge, Donations(g)) \in Nat
         /\ Total(ReturnCharge, Donations(g))
              = IF Voided(g) THEN DrawnForOrigin(g) ELSE Contributed(g)
<1>1. /\ Donations(g) \in SUBSET ContributionIds /\ IsFiniteSet(Donations(g))
      /\ \A p \in Donations(g) :
           /\ ReturnCharge[p] = IF Voided(g) THEN Drawn(p) ELSE ReturnedAmount[p]
           /\ ReturnCharge[p] \in Nat
  <2>1. Donations(g) \in SUBSET ContributionIds
    BY DEF Donations
  <2>2. \A p \in ContributionIds : Drawn(p) \in Nat /\ ReturnedAmount[p] \in Nat
    BY ChargeTypes, ReturnedRows DEF ReturnedAmount, ContributionRows
  <2>3. \A p \in Donations(g) :
          ReturnCharge[p] = IF Voided(g) THEN Drawn(p) ELSE ReturnedAmount[p]
    BY DEF Donations, ReturnCharge, ReturnedAmount
  <2> QED BY <2>1, <2>2, <2>3, ReturnedRows, FS_Subset
<1>2. Total(ReturnCharge, Donations(g)) \in Nat
  BY <1>1, TotalType
<1>3. CASE ~ Voided(g)
  <2>1. Total(ReturnCharge, Donations(g)) = Total(ReturnedAmount, Donations(g))
    BY <1>1, <1>3, TotalCong
  <2> QED BY <1>2, <1>3, <2>1 DEF Contributed, Donations
<1>4. CASE Voided(g) /\ ~ IsRoot(g)
  <2>1. Donations(g) = {} /\ Children(g) \ Transfers(g) = {}
    BY <1>4, Childless
  <2>2. Total(ReturnCharge, Donations(g)) = 0 /\ DrawnForOrigin(g) = 0
    BY <2>1, TotalEmpty DEF DrawnForOrigin
  <2> QED BY <1>4, <2>2
<1>5. CASE Voided(g) /\ IsRoot(g)
  <2> DEFINE D == Children(g) \ Transfers(g)
  <2>1. /\ D \in SUBSET GrantIds /\ IsFiniteSet(D)
        /\ \A c \in D : DrawnFrom[c] \in Donations(g)
        /\ \A p \in Donations(g) : Owned(DrawnFrom, D, p) = Draws(p)
    BY <1>5, DrawnRows
  <2>2. \A c \in D : LeafCharge[c] \in Nat
    BY <2>1, ChargeTypes
  <2>3. \A p \in Donations(g) : ReturnCharge[p] = Total(LeafCharge, Draws(p))
    BY <1>1, <1>5 DEF Drawn
  <2> HIDE DEF D
  <2>4. GroupedBy(DrawnFrom, D, Donations(g), LeafCharge, ReturnCharge)
    BY <1>1, <2>1, <2>2, <2>3 DEF GroupedBy
  <2>5. Total(ReturnCharge, Donations(g)) = Total(LeafCharge, D)
    BY <2>4, TotalGroups
  <2> QED BY <1>2, <1>5, <2>5 DEF DrawnForOrigin, D
<1> QED
  BY <1>3, <1>4, <1>5

\* What a user passed on he passed on out of the grants he received.
LEMMA PassedOn ==
  ASSUME TypeOK, ChainWellFormed, RowsInv, NEW u \in Users
  PROVE  /\ ReDonatedBy(u) = Total([g \in Routed(u) |-> Transferred(g)], Routed(u))
         /\ ReturnedToPoolBy(u)
              = Total([g \in Routed(u) |-> Total(ReturnCharge, Donations(g))], Routed(u))
<1> DEFINE D == {c \in GrantIds : grants[c].via = u /\ grants[c].contribution = 0}
           P == {p \in ContributionIds : contributions[p].contributor = u}
           S == Routed(u)
           passed == [g \in S |-> Transferred(g)]
           returned == [g \in S |-> Total(ReturnCharge, Donations(g))]
<1>1. /\ IsFiniteSet(D) /\ IsFiniteSet(P) /\ IsFiniteSet(S)
      /\ \A c \in D : LeafCharge[c] \in Nat
  <2>1. D \in SUBSET GrantIds /\ P \in SUBSET ContributionIds /\ S \in SUBSET GrantIds
    BY DEF Routed
  <2> HIDE DEF D, P
  <2> QED BY <2>1, Rows, ReturnedRows, FS_Subset, ChargeTypes
<1>2. \A p \in P : ReturnCharge[p] \in Nat
  <2> TAKE p \in P
  <2>1. Drawn(p) \in Nat /\ contributions[p].amount \in Nat
    BY ChargeTypes, ReturnedRows DEF ContributionRows
  <2> QED BY <2>1 DEF ReturnCharge
<1>3. ASSUME NEW c \in GrantIds, grants[c].contribution = 0, ~ IsRoot(c)
      PROVE  OriginOf[c] \in GrantIds /\ grants[c].via = Recipient(OriginOf[c])
  <2>1. ChildWellFormed(c)
    BY <1>3 DEF ChainWellFormed
  <2>2. c \in 1 .. Len(grants) /\ Len(grants) \in Nat
    BY Rows
  <2> QED BY <1>3, <2>1, <2>2, Rows DEF ChildWellFormed, OriginOf
<1>4. \A c \in D : ~ IsRoot(c)
  BY DEF RowsInv, RootsDirect
<1>5. /\ \A c \in D : OriginOf[c] \in S
      /\ \A g \in S : Owned(OriginOf, D, g) = Transfers(g)
  <2>1. \A c \in D : OriginOf[c] \in S
    BY <1>3, <1>4 DEF Routed
  <2>2. ASSUME NEW g \in S, NEW c \in Transfers(g) PROVE c \in D /\ OriginOf[c] = g
    <3>1. c \in GrantIds /\ ~ IsRoot(c) /\ grants[c].contribution = 0 /\ OriginOf[c] = g
      BY Rooted DEF Transfers, Children, Routed, OriginOf
    <3> QED BY <1>3, <3>1 DEF Routed
  <2>3. ASSUME NEW g \in S, NEW c \in D, OriginOf[c] = g PROVE c \in Transfers(g)
    BY <2>3 DEF Transfers, Children, OriginOf
  <2> QED BY <2>1, <2>2, <2>3 DEF Owned
<1>6. /\ \A p \in P : ReturnOrigin[p] \in S
      /\ \A g \in S : Owned(ReturnOrigin, P, g) = Donations(g)
  <2>1. \A p \in ContributionIds : /\ ReturnOrigin[p] = contributions[p].origin
                                   /\ ReturnOrigin[p] \in GrantIds
                                   /\ contributions[p].contributor = Recipient(ReturnOrigin[p])
    BY DEF ReturnOrigin, ChainWellFormed, ContributionWellFormed
  <2> QED BY <2>1 DEF Owned, Donations, Routed
<1>7. GroupedBy(OriginOf, D, S, LeafCharge, passed)
  BY <1>1, <1>5 DEF GroupedBy, Transferred
<1>8. GroupedBy(ReturnOrigin, P, S, ReturnCharge, returned)
  BY <1>1, <1>2, <1>6 DEF GroupedBy
<1> HIDE DEF D, P, S, passed, returned
<1>9. Total(passed, S) = Total(LeafCharge, D) /\ Total(returned, S) = Total(ReturnCharge, P)
  BY <1>7, <1>8, TotalGroups
<1> QED
  BY <1>9 DEF ReDonatedBy, ReturnedToPoolBy, D, P, S, passed, returned

\* What a user received is what he can still spend, burned, or passed on.
LEMMA ReceivedSpent ==
  ASSUME TypeOK, ChainWellFormed, RowsInv, NEW u \in Users
  PROVE  /\ DonationsReceived(u) = DonationsRemaining(u) + BurnedOn(Routed(u))
                                     + ReDonatedBy(u) + ReturnedToPoolBy(u)
         /\ BurnedOn(Routed(u)) \in Nat /\ DonationsRemaining(u) \in Int
         /\ ReDonatedBy(u) \in Nat /\ ReturnedToPoolBy(u) \in Nat
<1> DEFINE S == Routed(u)
           passed == [g \in S |-> Transferred(g)]
           returned == [g \in S |-> Total(ReturnCharge, Donations(g))]
           burnt == [g \in S |-> used[g] + passed[g]]
           gone == [g \in S |-> burnt[g] + returned[g]]
<1>1. S \in SUBSET GrantIds /\ IsFiniteSet(S) /\ BurnedOn(S) \in Nat
  BY Rows, FS_Subset, BurnedSplit DEF Routed
<1>2. \A g \in S : /\ used[g] \in Nat /\ passed[g] \in Nat /\ returned[g] \in Nat
                   /\ burnt[g] = used[g] + passed[g] /\ burnt[g] \in Nat
                   /\ gone[g] = burnt[g] + returned[g] /\ gone[g] \in Nat
  BY <1>1, Rows, ChargeTypes, ReturnsOf
<1>3. \A g \in S : /\ GrantRemaining[g] \in Int /\ ReceivedAmount[g] \in Nat
                   /\ GrantRemaining[g] + gone[g] = ReceivedAmount[g]
  <2> SUFFICES ASSUME NEW g \in S
               PROVE  /\ GrantRemaining[g] \in Int /\ ReceivedAmount[g] \in Nat
                      /\ GrantRemaining[g] + gone[g] = ReceivedAmount[g]
    OBVIOUS
  <2>1. /\ g \in GrantIds /\ used[g] \in Nat /\ grants[g].amount \in Nat
        /\ Transferred(g) \in Nat /\ Contributed(g) \in Nat /\ GrantRemaining[g] \in Int
    BY <1>1, Rows, ChargeTypes, BalanceTypes DEF GrantRows
  <2>2. /\ returned[g] \in Nat
        /\ returned[g] = IF Voided(g) THEN DrawnForOrigin(g) ELSE Contributed(g)
    BY <2>1, ReturnsOf
  <2>3. gone[g] = used[g] + Transferred(g) + returned[g]
    BY <2>1, <2>2
  <2> HIDE DEF returned, gone, burnt, passed, S
  <2>4. CASE Voided(g)
    BY <2>1, <2>2, <2>3, <2>4 DEF GrantRemaining, ReceivedAmount
  <2>5. CASE ~ Voided(g)
    BY <2>1, <2>2, <2>3, <2>5 DEF GrantRemaining, ReceivedAmount
  <2> QED BY <2>4, <2>5
<1>4. Total(passed, S) = ReDonatedBy(u) /\ Total(returned, S) = ReturnedToPoolBy(u)
  BY PassedOn
<1> HIDE DEF S, passed, returned, burnt, gone
<1>5. /\ Total(burnt, S) = Total(used, S) + Total(passed, S)
      /\ Total(gone, S) = Total(burnt, S) + Total(returned, S)
  BY <1>1, <1>2, TotalAdd
<1>6. NetTotal(GrantRemaining, S) + Total(gone, S) = Total(ReceivedAmount, S)
  BY <1>1, <1>2, <1>3, NetTotalAdd
<1>7. /\ Total(used, S) \in Nat /\ Total(passed, S) \in Nat /\ Total(returned, S) \in Nat
      /\ NetTotal(GrantRemaining, S) \in Int
  BY <1>1, <1>2, <1>3, TotalType, NetTotalType
<1> QED
  BY <1>1, <1>4, <1>5, <1>6, <1>7 DEF DonationsReceived, DonationsRemaining, BurnedOn, S

\* "used by you" on the profile is what was burned on the user's grants, after
\* any re-donations, returns, draws and cancellations (UsedByYou).
THEOREM ProfileRight == Spec => []UsedByYou
<1>1. TypeOK /\ ChainWellFormed /\ RowsInv => UsedByYou
  <2> SUFFICES ASSUME TypeOK, ChainWellFormed, RowsInv, NEW u \in Users
               PROVE  DonationsConsumed(u) = BurnedOn(Routed(u))
    BY DEF UsedByYou
  <2>1. /\ DonationsRemaining(u) \in Int /\ ReDonatedBy(u) \in Nat /\ ReturnedToPoolBy(u) \in Nat
        /\ BurnedOn(Routed(u)) \in Nat
        /\ DonationsReceived(u) = DonationsRemaining(u) + BurnedOn(Routed(u))
                                    + ReDonatedBy(u) + ReturnedToPoolBy(u)
    BY ReceivedSpent
  <2> QED BY <2>1 DEF DonationsConsumed, Greatest
<1> QED
  BY <1>1, Typing, Chains, RowsKept, PTL

-----------------------------------------------------------------------------
(* Where the credit is, while nothing was booked as overshoot *)

\* The credit on a chain: burned, spendable, or returned and not yet drawn.
Balanced(g) ==
    Charge[g] = Total(used, Tree(g)) + Total(GrantRemaining, Tree(g))
                  + Total(Capacity, Donations(g))

\* Without overshoot nothing is overdrawn: a grant was burned within its amount,
\* a contribution covers its draws, and no remaining credit is negative.
LEMMA NothingOverdrawn ==
  ASSUME TypeOK, ChainWellFormed, BackingInv, NothingOvershot
  PROVE  /\ \A c \in GrantIds : used[c] <= grants[c].amount
         /\ \A c \in GrantIds : GrantRemaining[c] \in Nat
         /\ \A p \in ContributionIds : Drawn(p) <= contributions[p].amount
         /\ \A g \in GrantIds : IsRoot(g) =>
              used[g] + Transferred(g) + Contributed(g) <= grants[g].amount
<1>1. \A S \in SUBSET GrantIds : Total(over, S) = 0
  <2> TAKE S \in SUBSET GrantIds
  <2>1. \A c \in S : over[c] = 0
    BY DEF NothingOvershot
  <2> QED BY <2>1, TotalZero
<1>2. \A c \in GrantIds : /\ used[c] \in Nat /\ grants[c].amount \in Nat
                          /\ LeafCharge[c] \in Nat /\ Claims[c] \in Nat
                          /\ used[c] <= grants[c].amount
  <2>1. \A c \in GrantIds : used[c] <= grants[c].amount + over[c] /\ over[c] = 0
    BY DEF BackingInv, GrantBacks, NothingOvershot
  <2>2. \A c \in GrantIds : used[c] \in Nat /\ grants[c].amount \in Nat
    BY Rows DEF GrantRows
  <2>3. \A c \in GrantIds : LeafCharge[c] \in Nat /\ Claims[c] \in Nat
    BY ChargeTypes, ClaimTypes
  <2> QED BY <2>1, <2>2, <2>3
<1>3. \A c \in GrantIds : LeafCharge[c] <= Claims[c]
  BY <1>2 DEF LeafCharge, Claims, Least, Greatest
<1>4. \A S \in SUBSET GrantIds : /\ Total(LeafCharge, S) <= Total(Claims, S)
                                 /\ Total(LeafCharge, S) \in Nat /\ Total(Claims, S) \in Nat
  <2> TAKE S \in SUBSET GrantIds
  <2>1. IsFiniteSet(S) /\ Total(LeafCharge, S) \in Nat /\ Total(Claims, S) \in Nat
    BY ClaimTypes
  <2>2. \A c \in S : LeafCharge[c] \in Nat /\ LeafCharge[c] <= Claims[c] /\ Claims[c] \in Nat
    BY <1>2, <1>3
  <2>3. Total(LeafCharge, S) <= Total(Claims, S)
    BY <2>1, <2>2, TotalMono
  <2> QED BY <2>1, <2>3
<1>5. ASSUME NEW p \in ContributionIds PROVE Drawn(p) <= contributions[p].amount
  <2>1. Draws(p) \in SUBSET GrantIds /\ ContributionBacks(p) /\ contributions[p].amount \in Nat
    BY ReturnedRows DEF Draws, BackingInv, ContributionRows
  <2>2. Total(over, Draws(p)) = 0
    BY <1>1, <2>1
  <2>3. /\ Total(LeafCharge, Draws(p)) <= Total(Claims, Draws(p))
        /\ Total(LeafCharge, Draws(p)) \in Nat /\ Total(Claims, Draws(p)) \in Nat
    BY <1>4, <2>1
  <2> QED BY <2>1, <2>2, <2>3 DEF ContributionBacks, Drawn
<1>6. ASSUME NEW g \in GrantIds, IsRoot(g)
      PROVE  used[g] + Transferred(g) + Contributed(g) <= grants[g].amount
  <2>1. Transfers(g) \in SUBSET GrantIds /\ RootBacks(g) /\ Contributed(g) \in Nat
    BY <1>6, ChargeTypes DEF Transfers, Children, BackingInv
  <2>2. Total(over, Transfers(g)) = 0 /\ over[g] = 0
    BY <1>1, <2>1 DEF NothingOvershot
  <2>3. /\ Total(LeafCharge, Transfers(g)) <= Total(Claims, Transfers(g))
        /\ Total(LeafCharge, Transfers(g)) \in Nat /\ Total(Claims, Transfers(g)) \in Nat
    BY <1>4, <2>1
  <2> QED BY <1>2, <2>1, <2>2, <2>3 DEF RootBacks, Transferred
<1>7. ASSUME NEW c \in GrantIds PROVE GrantRemaining[c] \in Nat
  <2>1. CASE IsRoot(c)
    <3>1. Transferred(c) \in Nat /\ Contributed(c) \in Nat
      BY ChargeTypes
    <3> QED BY <1>2, <1>6, <2>1, <3>1 DEF GrantRemaining
  <2>2. CASE ~ IsRoot(c)
    BY <1>2, <2>2, ChildRemaining
  <2> QED BY <2>1, <2>2
<1> QED
  BY <1>2, <1>5, <1>6, <1>7

\* What was returned out of a live root was drawn or can still be.
LEMMA DonationsBalanced ==
  ASSUME TypeOK, ChainWellFormed, BackingInv, NothingOvershot, NEW g \in GrantIds, IsRoot(g)
  PROVE  /\ Total(Capacity, Donations(g)) \in Nat
         /\ ~ Voided(g) => Contributed(g) = DrawnForOrigin(g) + Total(Capacity, Donations(g))
         /\ Voided(g) => /\ Total(Capacity, Donations(g)) = 0
                         /\ DrawnForOrigin(g) <= Contributed(g)
<1> DEFINE D == Children(g) \ Transfers(g)
           P == Donations(g)
           drawn == [p \in P |-> Drawn(p)]
<1>1. /\ D \in SUBSET GrantIds /\ IsFiniteSet(D)
      /\ P \in SUBSET ContributionIds /\ IsFiniteSet(P)
      /\ \A c \in D : DrawnFrom[c] \in P
      /\ \A p \in P : Owned(DrawnFrom, D, p) = Draws(p)
  BY DrawnRows
<1>2. \A p \in P : /\ drawn[p] \in Nat /\ ReturnedAmount[p] \in Nat /\ Capacity[p] \in Nat
                   /\ drawn[p] <= ReturnedAmount[p]
                   /\ Capacity[p] = IF Voided(g) THEN 0 ELSE ReturnedAmount[p] - drawn[p]
  <2> TAKE p \in P
  <2>1. /\ p \in ContributionIds /\ contributions[p].origin = g
        /\ contributions[p].amount \in Nat
    BY ReturnedRows DEF Donations, ContributionRows
  <2>2. Drawn(p) \in Nat /\ Drawn(p) <= contributions[p].amount
    BY <2>1, ChargeTypes, NothingOverdrawn
  <2>3. Capacity[p] = IF Voided(g) THEN 0 ELSE Greatest(0, contributions[p].amount - Drawn(p))
    BY <2>1 DEF Capacity
  <2>4. drawn[p] = Drawn(p) /\ ReturnedAmount[p] = contributions[p].amount
    BY <2>1 DEF ReturnedAmount
  <2> HIDE DEF drawn, P
  <2> QED BY <2>1, <2>2, <2>3, <2>4 DEF Greatest
<1>3. Total(drawn, P) = DrawnForOrigin(g)
  <2>1. \A c \in D : LeafCharge[c] \in Nat
    BY <1>1, ChargeTypes
  <2>2. GroupedBy(DrawnFrom, D, P, LeafCharge, drawn)
    BY <1>1, <2>1 DEF GroupedBy, Drawn
  <2> HIDE DEF D, P, drawn
  <2>3. Total(drawn, P) = Total(LeafCharge, D)
    BY <2>2, TotalGroups
  <2> QED BY <2>3 DEF DrawnForOrigin, D
<1>4. Contributed(g) = Total(ReturnedAmount, P)
  BY DEF Contributed, Donations
<1> HIDE DEF D, P, drawn
<1>5. Total(Capacity, P) \in Nat /\ Total(drawn, P) \in Nat /\ Total(ReturnedAmount, P) \in Nat
  BY <1>1, <1>2, TotalType
<1>6. CASE ~ Voided(g)
  <2>1. \A p \in P : /\ drawn[p] \in Nat /\ Capacity[p] \in Nat
                     /\ ReturnedAmount[p] = drawn[p] + Capacity[p]
    BY <1>2, <1>6
  <2>2. Total(ReturnedAmount, P) = Total(drawn, P) + Total(Capacity, P)
    BY <1>1, <2>1, TotalAdd
  <2> QED BY <1>3, <1>4, <1>5, <1>6, <2>2 DEF P
<1>7. CASE Voided(g)
  <2>1. \A p \in P : Capacity[p] = 0
    BY <1>2, <1>7
  <2>2. Total(Capacity, P) = 0
    BY <2>1, TotalZero
  <2>3. Total(drawn, P) <= Total(ReturnedAmount, P)
    BY <1>1, <1>2, TotalMono
  <2> QED BY <1>3, <1>4, <1>5, <1>7, <2>2, <2>3 DEF P
<1> QED
  BY <1>6, <1>7

\* What a root charges its donor is on its chain, in one place each.
LEMMA RootBalanced ==
  ASSUME TypeOK, ChainWellFormed, BackingInv, NothingOvershot, NEW g \in GrantIds, IsRoot(g)
  PROVE  Balanced(g)
<1> DEFINE T == Transfers(g)
           D == Children(g) \ Transfers(g)
           free == Total(Capacity, Donations(g))
           R == GrantRemaining
<1>1. /\ T \in SUBSET GrantIds /\ D \in SUBSET GrantIds
      /\ \A c \in T \cup D : ~ IsRoot(c)
  BY Rooted DEF Transfers, Children
<1>2. \A c \in GrantIds : /\ used[c] \in Nat /\ grants[c].amount \in Nat /\ R[c] \in Nat
                          /\ LeafCharge[c] \in Nat /\ used[c] <= grants[c].amount
  BY Rows, ChargeTypes, NothingOverdrawn DEF GrantRows
<1>3. \A c \in T \cup D : LeafCharge[c] = used[c] + R[c]
  <2> TAKE c \in T \cup D
  <2>1. /\ c \in GrantIds
        /\ R[c] = IF Voided(c) THEN 0 ELSE grants[c].amount - used[c]
        /\ LeafCharge[c] = IF Voided(c) THEN Least(grants[c].amount, used[c])
                                        ELSE grants[c].amount
    BY <1>1, ChildRemaining DEF LeafCharge
  <2> HIDE DEF R
  <2> QED BY <1>2, <2>1 DEF Least
<1>4. /\ Total(used, T) \in Nat /\ Total(used, D) \in Nat
      /\ Total(R, T) \in Nat /\ Total(R, D) \in Nat
      /\ Total(used, Tree(g)) = used[g] + Total(used, T) + Total(used, D)
      /\ Total(R, Tree(g)) = R[g] + Total(R, T) + Total(R, D)
      /\ Moved(g) = Total(LeafCharge, T) + Total(LeafCharge, D)
  <2> HIDE DEF R
  <2> QED BY <1>2, TreeSplit DEF Moved
<1>5. /\ Total(LeafCharge, T) = Total(used, T) + Total(R, T)
      /\ Total(LeafCharge, D) = Total(used, D) + Total(R, D)
  <2>1. IsFiniteSet(T) /\ IsFiniteSet(D)
    BY <1>1, ClaimTypes
  <2> HIDE DEF R, T, D
  <2>2. \A c \in T : used[c] \in Nat /\ R[c] \in Nat /\ LeafCharge[c] = used[c] + R[c]
    BY <1>1, <1>2, <1>3
  <2>3. \A c \in D : used[c] \in Nat /\ R[c] \in Nat /\ LeafCharge[c] = used[c] + R[c]
    BY <1>1, <1>2, <1>3
  <2> QED BY <2>1, <2>2, <2>3, TotalAdd
<1>6. /\ free \in Nat
      /\ ~ Voided(g) => Contributed(g) = Total(LeafCharge, D) + free
      /\ Voided(g) => free = 0 /\ Total(LeafCharge, D) <= Contributed(g)
  BY DonationsBalanced DEF DrawnForOrigin
<1>7. /\ used[g] + Total(LeafCharge, T) + Contributed(g) <= grants[g].amount
      /\ Contributed(g) \in Nat
  BY NothingOverdrawn, ChargeTypes DEF Transferred
<1>8. R[g] = IF Voided(g) THEN 0
             ELSE grants[g].amount - used[g] - Total(LeafCharge, T) - Contributed(g)
  BY DEF GrantRemaining, Transferred
<1>9. Charge[g] = IF Voided(g) THEN Least(grants[g].amount, used[g] + Moved(g))
                               ELSE grants[g].amount
  BY DEF Charge
<1>10. used[g] \in Nat /\ grants[g].amount \in Nat
  BY <1>2
<1> HIDE DEF T, D, free, R
<1>11. Charge[g] = Total(used, Tree(g)) + Total(R, Tree(g)) + free
  <2>1. CASE ~ Voided(g)
    BY <1>4, <1>5, <1>6, <1>7, <1>8, <1>9, <1>10, <2>1
  <2>2. CASE Voided(g)
    <3>1. used[g] + Moved(g) <= grants[g].amount
      BY <1>4, <1>5, <1>6, <1>7, <1>10, <2>2
    <3>2. Charge[g] = used[g] + Moved(g)
      BY <1>4, <1>5, <1>9, <1>10, <2>2, <3>1 DEF Least
    <3> QED BY <1>4, <1>5, <1>6, <1>8, <1>10, <2>2, <3>2
  <2> QED BY <2>1, <2>2
<1> QED
  BY <1>11 DEF Balanced, R, free

RootOf   == [c \in GrantIds |-> Root(c)]
AllRoots == {g \in GrantIds : IsRoot(g)}

\* The grants are grouped by their roots, and the contributions as well.
LEMMA Trees ==
  ASSUME TypeOK, ChainWellFormed
  PROVE  /\ IsFiniteSet(AllRoots) /\ AllRoots \in SUBSET GrantIds
         /\ \A c \in GrantIds : RootOf[c] \in AllRoots
         /\ \A g \in AllRoots : Owned(RootOf, GrantIds, g) = Tree(g)
         /\ \A p \in ContributionIds : ReturnOrigin[p] \in AllRoots
         /\ \A g \in AllRoots : Owned(ReturnOrigin, ContributionIds, g) = Donations(g)
<1>1. IsFiniteSet(AllRoots) /\ AllRoots \in SUBSET GrantIds
  BY Rows, FS_Subset DEF AllRoots
<1>2. \A c \in GrantIds : RootOf[c] \in AllRoots /\ RootOf[c] = Root(c)
  BY Rooted DEF RootOf, AllRoots
<1>3. ASSUME NEW g \in AllRoots PROVE Owned(RootOf, GrantIds, g) = Tree(g)
  <2>1. g \in GrantIds /\ Root(g) = g
    BY DEF AllRoots, Root
  <2>2. \A c \in Children(g) : c \in GrantIds /\ Root(c) = g
    BY <2>1, Rooted
  <2>3. \A c \in GrantIds : Root(c) = g => c = g \/ c \in Children(g)
    BY DEF Root, Children
  <2> QED BY <1>2, <2>1, <2>2, <2>3 DEF Owned, Tree
<1>4. \A p \in ContributionIds : ReturnOrigin[p] \in AllRoots
  BY DEF ReturnOrigin, AllRoots, ChainWellFormed, ContributionWellFormed
<1>5. \A g \in AllRoots : Owned(ReturnOrigin, ContributionIds, g) = Donations(g)
  BY DEF Owned, ReturnOrigin, Donations
<1> QED
  BY <1>1, <1>2, <1>3, <1>4, <1>5

\* What was burned from a giver on personal grants and what hangs off them is
\* charged to him as granted out.
LEMMA PersonalBurnedCharged ==
  ASSUME TypeOK, ChainWellFormed, BackingInv, RowsInv, NothingOvershot, NEW u \in Users
  PROVE  PersonalBurned(u) <= GrantedOut(u, "personal") /\ PersonalBurned(u) \in Nat
<1> DEFINE A == {g \in GrantIds : grants[g].donor = u /\ grants[g].source = "personal"}
           P == Roots(u, "personal")
           burnt == [g \in P |-> Total(used, Owned(RootOf, A, g))]
<1>1. /\ A \in SUBSET GrantIds /\ IsFiniteSet(A)
      /\ P \in SUBSET AllRoots /\ IsFiniteSet(P) /\ P \in SUBSET GrantIds
  BY Rows, FS_Subset DEF Roots, AllRoots
<1>2. ASSUME NEW c \in A PROVE RootOf[c] \in P
  <2>1. /\ c \in GrantIds /\ grants[c].donor = u /\ grants[c].source = "personal"
        /\ Root(c) \in GrantIds /\ IsRoot(Root(c)) /\ grants[Root(c)].donor = u
    BY Rooted
  <2>2. grants[Root(c)].source = "personal"
    <3>1. CASE IsRoot(c)
      BY <2>1, <3>1 DEF Root
    <3>2. CASE ~ IsRoot(c)
      <4>1. grants[c].contribution = 0
        BY <2>1 DEF RowsInv, DrawsFromPool
      <4>2. grants[c].source = grants[grants[c].origin].source
        BY <2>1, <3>2, <4>1 DEF ChainWellFormed, ChildWellFormed
      <4> QED BY <2>1, <3>2, <4>2 DEF Root
    <3> QED BY <3>1, <3>2
  <2> QED BY <2>1, <2>2 DEF Roots, RootOf
<1>3. \A c \in GrantIds : used[c] \in Nat
  BY Rows
<1>4. ASSUME NEW g \in P PROVE burnt[g] \in Nat /\ burnt[g] <= Charge[g] /\ Charge[g] \in Nat
  <2>1. g \in GrantIds /\ IsRoot(g) /\ g \in AllRoots
    BY DEF Roots, AllRoots
  <2>2. Owned(RootOf, A, g) \in SUBSET Tree(g) /\ Tree(g) \in SUBSET GrantIds
    <3>1. Owned(RootOf, A, g) \in SUBSET Owned(RootOf, GrantIds, g)
      BY DEF Owned
    <3>2. Owned(RootOf, GrantIds, g) \in SUBSET GrantIds
      BY DEF Owned
    <3> QED BY <2>1, <3>1, <3>2, Trees
  <2>3. IsFiniteSet(Tree(g)) /\ Total(used, Tree(g)) \in Nat
        /\ Total(used, Owned(RootOf, A, g)) \in Nat
    BY <1>3, <2>2, GrantSum
  <2>4. Total(used, Owned(RootOf, A, g)) <= Total(used, Tree(g))
    BY <1>3, <2>2, <2>3, TotalMono
  <2>5. Total(GrantRemaining, Tree(g)) \in Nat /\ Total(Capacity, Donations(g)) \in Nat
    BY <2>1, <2>2, NothingOverdrawn, GrantSum, DonationsBalanced
  <2>6. Charge[g] = Total(used, Tree(g)) + Total(GrantRemaining, Tree(g))
                      + Total(Capacity, Donations(g))
    BY <2>1, RootBalanced DEF Balanced
  <2> QED BY <2>3, <2>4, <2>5, <2>6
<1>5. GroupedBy(RootOf, A, P, used, burnt)
  BY <1>1, <1>2, <1>3 DEF GroupedBy
<1> HIDE DEF A, P, burnt
<1>6. Total(burnt, P) = Total(used, A)
  BY <1>5, TotalGroups
<1>7. Total(burnt, P) <= Total(Charge, P)
  BY <1>1, <1>4, TotalMono
<1>8. Total(used, A) \in Nat
  BY <1>1, BurnedSplit DEF BurnedOn
<1> QED
  BY <1>6, <1>7, <1>8 DEF PersonalBurned, BurnedOn, GrantedOut, A, P

\* Without overshoot a pledge is what was drawn from it and what is left of it.
LEMMA PledgeSplit ==
  ASSUME TypeOK, PledgeCoversDraws, NothingOvershot, NEW u \in Users
  PROVE  PledgeUsed(u) + PledgeRemaining(u) = pledge[u]
<1>1. OverOf(u) = 0
  <2>1. \A g \in DonorRows(u) : over[g] = 0
    BY DEF DonorRows, NothingOvershot
  <2> QED BY <2>1, TotalZero DEF OverOf
<1>2. PledgeUsed(u) <= pledge[u]
  <2>1. PledgeUsed(u) <= pledge[u] + OverOf(u)
    BY DEF PledgeCoversDraws, OverOf, DonorRows
  <2>2. pledge[u] \in Nat
    BY DEF TypeOK
  <2> QED BY <1>1, <2>1, <2>2
<1>3. PledgeUsed(u) \in Nat /\ pledge[u] \in Nat
  BY BalanceTypes DEF TypeOK
<1> QED
  BY <1>2, <1>3 DEF PledgeRemaining, Greatest

\* The pieces of a giver's bar add up to his quota (BarAddsUp).
THEOREM BarRight == Spec => []BarAddsUp
<1>1. TypeOK /\ ChainWellFormed /\ BackingInv /\ RowsInv /\ PledgeCoversDraws => BarAddsUp
  <2> SUFFICES ASSUME TypeOK, ChainWellFormed, BackingInv, RowsInv, PledgeCoversDraws,
                      NothingOvershot, NEW u \in rows, PersonalRemaining(u) >= 0
               PROVE  quota[u] = selfBurn[u] + PledgeUsed(u) + PledgeRemaining(u)
                                   + PersonalBurned(u) + DonatedRemaining(u) + LeftOn(u)
    BY DEF BarAddsUp
  <2>1. u \in Users /\ quota[u] \in Nat /\ pledge[u] \in Nat /\ selfBurn[u] \in Nat
    BY DEF TypeOK
  <2>2. /\ GrantedOut(u, "personal") \in Nat /\ PledgeUsed(u) \in Nat
        /\ PledgeRemaining(u) \in Nat
    BY <2>1, BalanceTypes
  <2>3. PledgeUsed(u) + PledgeRemaining(u) = pledge[u]
    BY <2>1, PledgeSplit
  <2>4. /\ PersonalBurned(u) \in Nat
        /\ DonatedRemaining(u) = GrantedOut(u, "personal") - PersonalBurned(u)
    BY <2>1, <2>2, PersonalBurnedCharged DEF DonatedRemaining, Greatest
  <2>5. LeftOn(u) = quota[u] - selfBurn[u] - pledge[u] - GrantedOut(u, "personal")
    <3>1. quota[u] - pledge[u] - selfBurn[u] - GrantedOut(u, "personal") >= 0
      BY DEF PersonalRemaining
    <3> QED BY <2>1, <2>2, <3>1 DEF LeftOn, Greatest
  <2> QED BY <2>1, <2>2, <2>3, <2>4, <2>5
<1> QED
  BY <1>1, Typing, Chains, BackingKept, RowsKept, PledgesCover, PTL

-----------------------------------------------------------------------------
(* Every credit is at one place. *)

\* What all roots charge was burned, can be spent, or can be drawn.
LEMMA ChargesPlaced ==
  ASSUME TypeOK, ChainWellFormed, BackingInv, NothingOvershot
  PROVE  Total(Charge, AllRoots) = BurnedOn(GrantIds) + NetTotal(GrantRemaining, GrantIds)
                                     + Total(Capacity, ContributionIds)
<1> DEFINE R == GrantRemaining
           burnt == [g \in AllRoots |-> Total(used, Tree(g))]
           held == [g \in AllRoots |-> Total(R, Tree(g))]
           free == [g \in AllRoots |-> Total(Capacity, Donations(g))]
           granted == [g \in AllRoots |-> burnt[g] + held[g]]
           none == [g \in GrantIds |-> 0]
<1>1. \A c \in GrantIds : used[c] \in Nat /\ R[c] \in Nat
  BY Rows, NothingOverdrawn
<1>2. \A p \in ContributionIds : Capacity[p] \in Nat
  BY BalanceTypes
<1>3. IsFiniteSet(GrantIds) /\ IsFiniteSet(ContributionIds)
  BY Rows, ReturnedRows
<1>4. /\ GroupedBy(RootOf, GrantIds, AllRoots, used, burnt)
      /\ GroupedBy(RootOf, GrantIds, AllRoots, R, held)
      /\ GroupedBy(ReturnOrigin, ContributionIds, AllRoots, Capacity, free)
  <2> HIDE DEF R
  <2> QED BY <1>1, <1>2, <1>3, Trees DEF GroupedBy
<1>5. /\ Total(burnt, AllRoots) = Total(used, GrantIds)
      /\ Total(held, AllRoots) = Total(R, GrantIds)
      /\ Total(free, AllRoots) = Total(Capacity, ContributionIds)
  <2> HIDE DEF R, burnt, held, free
  <2> QED BY <1>4, TotalGroups
<1>6. ASSUME NEW g \in AllRoots
      PROVE  /\ burnt[g] \in Nat /\ held[g] \in Nat /\ free[g] \in Nat
             /\ granted[g] = burnt[g] + held[g] /\ granted[g] \in Nat
             /\ Charge[g] = granted[g] + free[g]
  <2>1. g \in GrantIds /\ IsRoot(g)
    BY DEF AllRoots
  <2>2. Tree(g) \in SUBSET GrantIds
    BY <2>1 DEF Tree, Children
  <2>3. Total(used, Tree(g)) \in Nat /\ Total(R, Tree(g)) \in Nat
    <3> HIDE DEF R
    <3> QED BY <1>1, <2>2, GrantSum
  <2>4. Total(Capacity, Donations(g)) \in Nat
    BY <2>1, DonationsBalanced
  <2>5. Charge[g] = Total(used, Tree(g)) + Total(R, Tree(g)) + Total(Capacity, Donations(g))
    BY <2>1, RootBalanced DEF Balanced
  <2> QED BY <2>3, <2>4, <2>5
<1>7. NetTotal(R, GrantIds) = Total(R, GrantIds)
  <2>1. \A c \in GrantIds : /\ R[c] \in Int /\ none[c] \in Nat /\ R[c] \in Nat
                            /\ R[c] + none[c] = R[c] /\ none[c] = 0
    BY <1>1
  <2> HIDE DEF R, none
  <2>2. NetTotal(R, GrantIds) + Total(none, GrantIds) = Total(R, GrantIds)
    BY <1>3, <2>1, NetTotalAdd
  <2>3. Total(none, GrantIds) = 0
    BY <2>1, TotalZero
  <2>4. NetTotal(R, GrantIds) \in Int
    BY <1>3, <2>1, NetTotalType
  <2> QED BY <2>2, <2>3, <2>4
<1> HIDE DEF R, burnt, held, free, granted, none
<1>8. Total(granted, AllRoots) = Total(burnt, AllRoots) + Total(held, AllRoots)
  BY <1>6, Trees, TotalAdd
<1>9. Total(Charge, AllRoots) = Total(granted, AllRoots) + Total(free, AllRoots)
  BY <1>6, Trees, TotalAdd
<1>10. /\ Total(burnt, AllRoots) \in Nat /\ Total(held, AllRoots) \in Nat
       /\ Total(free, AllRoots) \in Nat
  BY <1>6, Trees, TotalType
<1> QED
  BY <1>5, <1>7, <1>8, <1>9, <1>10 DEF BurnedOn, R

Granted(source) == [u \in rows |-> GrantedOut(u, source)]

\* What all roots charge is charged to a user with a row, as personal or pool.
LEMMA ChargesOwed ==
  ASSUME TypeOK, RowsInv
  PROVE  /\ Total(Charge, AllRoots)
              = Total(Granted("personal"), rows) + Total(Granted("pool"), rows)
         /\ \A u \in rows : Granted("personal")[u] \in Nat /\ Granted("pool")[u] \in Nat
<1> DEFINE Of(source) == {g \in AllRoots : grants[g].source = source}
<1>1. IsFiniteSet(rows) /\ rows \subseteq Users
  BY FS_Subset DEF TypeOK
<1>2. \A g \in GrantIds : /\ Charge[g] \in Nat /\ DonorOf[g] \in rows
                          /\ grants[g].source \in {"personal", "pool"}
  BY ChargeTypes, Rows DEF RowsInv, DonorsHaveRows, DonorOf, GrantRows
<1>3. AllRoots \in SUBSET GrantIds
  BY DEF AllRoots
<1>4. ASSUME NEW source
      PROVE  /\ IsFiniteSet(Of(source)) /\ Of(source) \in SUBSET GrantIds
             /\ Total(Granted(source), rows) = Total(Charge, Of(source))
  <2>1. Of(source) \in SUBSET GrantIds /\ IsFiniteSet(Of(source))
    BY <1>3, Rows, FS_Subset
  <2>2. \A u \in rows : Owned(DonorOf, Of(source), u) = Roots(u, source)
    BY DEF Owned, DonorOf, Roots, AllRoots
  <2> HIDE DEF Of
  <2>3. GroupedBy(DonorOf, Of(source), rows, Charge, Granted(source))
    BY <1>1, <1>2, <2>1, <2>2 DEF GroupedBy, Granted, GrantedOut
  <2> QED BY <2>1, <2>3, TotalGroups
<1>5. /\ Of("personal") \cup Of("pool") = AllRoots
      /\ Of("personal") \cap Of("pool") = {}
  BY <1>2, <1>3
<1> HIDE DEF Of
<1>6. Total(Charge, Of("personal") \cup Of("pool"))
        = Total(Charge, Of("personal")) + Total(Charge, Of("pool"))
  <2>1. \A g \in Of("personal") \cup Of("pool") : Charge[g] \in Nat
    BY <1>2, <1>4
  <2> QED BY <1>4, <1>5, <2>1, TotalSplit
<1>7. \A u \in rows : Granted("personal")[u] \in Nat /\ Granted("pool")[u] \in Nat
  BY <1>1, BalanceTypes DEF Granted
<1> QED
  BY <1>4, <1>5, <1>6, <1>7

\* A giver's quota is kept, pledged, burned by himself, or granted out.
LEMMA QuotaPlaced ==
  ASSUME TypeOK, RowsInv, PledgeCoversDraws, NothingOvershot,
         NEW left, left = [u \in rows |-> PledgeRemaining(u)]
  PROVE  /\ BudgetTotal = Retained + Total(left, rows) + Total(selfBurn, Users)
                            + Total(Granted("personal"), rows) + Total(Granted("pool"), rows)
         /\ Retained \in Int /\ Total(left, rows) \in Nat /\ Total(selfBurn, Users) \in Nat
         /\ Total(Granted("personal"), rows) \in Nat /\ Total(Granted("pool"), rows) \in Nat
<1> DEFINE kept == [u \in rows |-> PersonalRemaining(u)]
           g1 == Granted("personal")
           g2 == Granted("pool")
           out == [u \in rows |-> g1[u] + g2[u]]
           self == [u \in rows |-> selfBurn[u] + left[u]]
           gone == [u \in rows |-> out[u] + self[u]]
<1>1. IsFiniteSet(rows) /\ rows \subseteq Users
  BY FS_Subset DEF TypeOK
<1>2. \A u \in rows : /\ g1[u] \in Nat /\ g2[u] \in Nat /\ out[u] \in Nat
                      /\ out[u] = g1[u] + g2[u]
                      /\ selfBurn[u] \in Nat /\ left[u] \in Nat /\ self[u] \in Nat
                      /\ self[u] = selfBurn[u] + left[u]
                      /\ gone[u] \in Nat /\ gone[u] = out[u] + self[u]
  <2> TAKE u \in rows
  <2>1. g1[u] \in Nat /\ g2[u] \in Nat
    BY ChargesOwed
  <2>2. selfBurn[u] \in Nat /\ left[u] \in Nat
    BY <1>1, BalanceTypes DEF TypeOK
  <2> HIDE DEF g1, g2
  <2> QED BY <2>1, <2>2
<1>3. \A u \in rows : /\ kept[u] \in Int /\ quota[u] \in Nat
                      /\ kept[u] + gone[u] = quota[u]
  <2> SUFFICES ASSUME NEW u \in rows
               PROVE  /\ kept[u] \in Int /\ quota[u] \in Nat
                      /\ kept[u] + gone[u] = quota[u]
    OBVIOUS
  <2>1. u \in Users /\ quota[u] \in Nat /\ pledge[u] \in Nat /\ selfBurn[u] \in Nat
    BY <1>1 DEF TypeOK
  <2>2. /\ GrantedOut(u, "personal") \in Nat /\ PledgeUsed(u) \in Nat
        /\ PledgeRemaining(u) \in Nat /\ PersonalRemaining(u) \in Int
        /\ PledgeUsed(u) + PledgeRemaining(u) = pledge[u]
    BY <2>1, BalanceTypes, PledgeSplit
  <2>3. kept[u] = quota[u] - pledge[u] - selfBurn[u] - GrantedOut(u, "personal")
    BY DEF PersonalRemaining
  <2>4. gone[u] = GrantedOut(u, "personal") + PledgeUsed(u) + (selfBurn[u] + PledgeRemaining(u))
    BY DEF Granted, PledgeUsed
  <2> HIDE DEF kept, gone
  <2> QED BY <2>1, <2>2, <2>3, <2>4
<1>4. Total(selfBurn, rows) = Total(selfBurn, Users)
  <2> DEFINE rest == Users \ rows
  <2>1. rows \cup rest = Users /\ rows \cap rest = {} /\ IsFiniteSet(rest)
    BY <1>1, FS_Subset
  <2>2. \A u \in Users : selfBurn[u] \in Nat
    BY DEF TypeOK
  <2>3. \A u \in rest : selfBurn[u] = 0
    BY DEF RowsInv, RowlessIdle
  <2> HIDE DEF rest
  <2>4. Total(selfBurn, rows \cup rest) = Total(selfBurn, rows) + Total(selfBurn, rest)
    BY <1>1, <2>1, <2>2, TotalSplit
  <2>5. Total(selfBurn, rest) = 0
    BY <2>3, TotalZero
  <2>6. Total(selfBurn, rows) \in Nat
    BY <1>1, <1>2, TotalType
  <2>7. Total(selfBurn, rows \cup rest) = Total(selfBurn, Users)
    BY <2>1
  <2> QED BY <2>4, <2>5, <2>6, <2>7
<1> HIDE DEF kept, out, self, gone, g1, g2
<1>5. NetTotal(kept, rows) + Total(gone, rows) = Total(quota, rows)
  BY <1>1, <1>2, <1>3, NetTotalAdd
<1>6. /\ Total(gone, rows) = Total(out, rows) + Total(self, rows)
      /\ Total(out, rows) = Total(g1, rows) + Total(g2, rows)
      /\ Total(self, rows) = Total(selfBurn, rows) + Total(left, rows)
  BY <1>1, <1>2, TotalAdd
<1>7. /\ Total(g1, rows) \in Nat /\ Total(g2, rows) \in Nat
      /\ Total(selfBurn, rows) \in Nat /\ Total(left, rows) \in Nat
      /\ NetTotal(kept, rows) \in Int
  BY <1>1, <1>2, <1>3, TotalType, NetTotalType
<1>8. Retained = NetTotal(kept, rows) /\ BudgetTotal = Total(quota, rows)
  BY DEF Retained, BudgetTotal, kept
<1> QED
  BY <1>4, <1>5, <1>6, <1>7, <1>8 DEF g1, g2

\* What the givers brought and nobody burned is what the report finds when it
\* looks for it place by place (CreditConserved).
THEOREM EveryCreditFound == Spec => []CreditConserved
<1>1. TypeOK /\ ChainWellFormed /\ BackingInv /\ RowsInv /\ PledgeCoversDraws
        => CreditConserved
  <2> SUFFICES ASSUME TypeOK, ChainWellFormed, BackingInv, RowsInv, PledgeCoversDraws,
                      NothingOvershot
               PROVE  BudgetTotal - UsedTotal = LeftOver
    BY DEF CreditConserved
  <2> DEFINE left == [u \in rows |-> PledgeRemaining(u)]
             g1 == Total(Granted("personal"), rows)
             g2 == Total(Granted("pool"), rows)
             pledged == Total(left, rows)
             self == Total(selfBurn, Users)
             spendable == NetTotal(GrantRemaining, GrantIds)
             free == Total(Capacity, ContributionIds)
             burnt == BurnedOn(GrantIds)
  <2>1. /\ BudgetTotal = Retained + pledged + self + g1 + g2
        /\ Retained \in Int /\ pledged \in Nat /\ self \in Nat /\ g1 \in Nat /\ g2 \in Nat
    BY QuotaPlaced
  <2>2. g1 + g2 = burnt + spendable + free
    BY ChargesOwed, ChargesPlaced
  <2>3. burnt \in Nat /\ spendable \in Int /\ free \in Nat
    <3>1. IsFiniteSet(GrantIds) /\ \A g \in GrantIds : GrantRemaining[g] \in Int
      BY Rows, BalanceTypes
    <3>2. IsFiniteSet(ContributionIds) /\ \A p \in ContributionIds : Capacity[p] \in Int
      BY ReturnedRows, BalanceTypes
    <3>3. GrantIds \in SUBSET GrantIds
      OBVIOUS
    <3> QED BY <3>1, <3>2, <3>3, BurnedSplit, TotalType, NetTotalType
  <2>4. UsedTotal = burnt + self /\ LeftOver = Retained + pledged + free + spendable
    BY DEF UsedTotal, LeftOver
  <2> HIDE DEF g1, g2, pledged, self, spendable, free, burnt
  <2> QED BY <2>1, <2>2, <2>3, <2>4
<1> QED
  BY <1>1, Typing, Chains, BackingKept, RowsKept, PledgesCover, PTL

-----------------------------------------------------------------------------
(* The tiers *)

Tiers  == {"aristocrat", "baron", "bourgeois", "commoner", "peasant", "beggar", "newcomer"}
Inputs == [user : Users, donated : Nat, consumed : Nat]
Places == [user : Users, net : Int, tier : Tiers]

OnePerUser(S) == \A d, e \in S : d.user = e.user => d = e

\* w meets each of the n members of S once.
Tours(w, S, n) ==
    /\ n \in Nat /\ w \in [1 .. n -> S]
    /\ \A i, j \in 1 .. n : w[i] = w[j] => i = j
    /\ \A x \in S : \E i \in 1 .. n : w[i] = x

\* w gives each host of S one place, with his net.
Lists(w, S) ==
    /\ w \in Seq(Places)
    /\ \A i \in 1 .. Len(w) : \E e \in S : w[i].user = e.user /\ w[i].net = Net(e)
    /\ \A e \in S : \E i \in 1 .. Len(w) : w[i].user = e.user
    /\ \A i, j \in 1 .. Len(w) : w[i].user = w[j].user => i = j

\* The ways to sort a banded list by net, the highest first.
Turned(b) == Walks({b[i] : i \in 1 .. Len(b)}, HigherRow)

\* Whoever gave more comes first, and not in a lower tier; all are graded from
\* lo to hi.
InOrder(w, lo, hi) ==
    /\ \A i \in 1 .. Len(w) : Grade(w[i].tier) \in lo .. hi
    /\ \A i, j \in 1 .. Len(w) :
         w[i].net > w[j].net => i < j /\ Grade(w[i].tier) <= Grade(w[j].tier)

\* The tiers from the best to the last.
LEMMA Grades ==
  /\ Len(PositiveBands) = 4
  /\ \A k \in 1 .. 4 : PositiveBands[k] \in Tiers /\ Grade(PositiveBands[k]) = k
  /\ Len(NegativeBands) = 2
  /\ \A k \in 1 .. 2 : NegativeBands[k] \in Tiers /\ Grade(NegativeBands[k]) = 7 - k
<1>1. /\ Len(TierOrder) = 7
      /\ TierOrder[1] = "aristocrat" /\ TierOrder[2] = "baron" /\ TierOrder[3] = "bourgeois"
      /\ TierOrder[4] = "commoner" /\ TierOrder[5] = "peasant" /\ TierOrder[6] = "beggar"
      /\ TierOrder[7] = "newcomer"
  BY DEF TierOrder
<1>2. ASSUME NEW k \in 1 .. 7 PROVE Grade(TierOrder[k]) = k
  <2>1. \A i \in 1 .. 7 : TierOrder[i] = TierOrder[k] => i = k
    BY <1>1
  <2>2. Grade(TierOrder[k]) = CHOOSE i \in 1 .. 7 : TierOrder[i] = TierOrder[k]
    BY <1>1 DEF Grade
  <2> QED BY <2>1, <2>2
<1>3. /\ Len(PositiveBands) = 4
      /\ \A k \in 1 .. 4 : PositiveBands[k] \in Tiers /\ PositiveBands[k] = TierOrder[k]
  BY <1>1 DEF PositiveBands, Tiers
<1>4. /\ Len(NegativeBands) = 2
      /\ \A k \in 1 .. 2 : NegativeBands[k] \in Tiers /\ NegativeBands[k] = TierOrder[7 - k]
  BY <1>1 DEF NegativeBands, Tiers
<1> QED
  BY <1>2, <1>3, <1>4

\* A longer prefix is in no smaller part.
LEMMA DivOrder ==
  ASSUME NEW a \in Nat, NEW b \in Nat, a <= b, NEW n \in Nat \ {0}
  PROVE  a \div n \in Nat /\ a \div n <= b \div n
<1> DEFINE x == a \div n
           y == b \div n
<1>1. x \in Nat /\ y \in Nat /\ n * x <= a /\ b < n * y + n
  OBVIOUS
<1> HIDE DEF x, y
<1>2. CASE x > y
  <2>1. n * x >= n * (y + 1)
    BY <1>1, <1>2
  <2>2. n * (y + 1) = n * y + n /\ n * x \in Nat /\ n * y \in Nat
    BY <1>1
  <2> QED BY <1>1, <2>1, <2>2
<1> QED
  BY <1>1, <1>2 DEF x, y

\* The bands of a walk, which are handed out in their order.
BandOf(i, n, k) == ((i - 1) * k) \div n + 1

LEMMA BandsInOrder ==
  ASSUME NEW n \in Nat, NEW k \in {2, 4}
  PROVE  /\ \A i \in 1 .. n : BandOf(i, n, k) \in 1 .. k
         /\ \A i, j \in 1 .. n : i <= j => BandOf(i, n, k) <= BandOf(j, n, k)
<1>1. ASSUME NEW i \in 1 .. n PROVE BandOf(i, n, k) \in 1 .. k
  <2>1. CASE k = 2
    <3>1. (i - 1) * 2 \in Nat /\ (i - 1) * 2 < 2 * n /\ n \in Nat \ {0}
      OBVIOUS
    <3>2. ((i - 1) * 2) \div n \in 0 .. 1
      BY <3>1
    <3> QED BY <2>1, <3>2 DEF BandOf
  <2>2. CASE k = 4
    <3>1. (i - 1) * 4 \in Nat /\ (i - 1) * 4 < 4 * n /\ n \in Nat \ {0}
      OBVIOUS
    <3>2. ((i - 1) * 4) \div n \in 0 .. 3
      BY <3>1
    <3> QED BY <2>2, <3>2 DEF BandOf
  <2> QED BY <2>1, <2>2
<1>2. ASSUME NEW i \in 1 .. n, NEW j \in 1 .. n, i <= j
      PROVE  BandOf(i, n, k) <= BandOf(j, n, k)
  <2> DEFINE a == (i - 1) * k
             b == (j - 1) * k
  <2>1. a \in Nat /\ b \in Nat /\ a <= b /\ n \in Nat \ {0}
    <3>1. CASE k = 2
      BY <1>2, <3>1
    <3>2. CASE k = 4
      BY <1>2, <3>2
    <3> QED BY <3>1, <3>2
  <2> HIDE DEF a, b
  <2>2. a \div n <= b \div n /\ a \div n \in Nat /\ b \div n \in Nat
    BY <2>1, DivOrder
  <2> QED BY <2>2 DEF BandOf, a, b
<1> QED
  BY <1>1, <1>2

\* Splitting the hosts of a walk into bands gives each of them one place.
LEMMA BandedLists ==
  ASSUME NEW S \in SUBSET Inputs, OnePerUser(S), NEW n, NEW w, Tours(w, S, n),
         NEW k \in {2, 4}, NEW bands, Len(bands) = k, \A i \in 1 .. k : bands[i] \in Tiers
  PROVE  \A b : b = Banded(w, bands) =>
           /\ Lists(b, S) /\ Len(b) = n
           /\ \A i \in 1 .. n : b[i].net = Net(w[i]) /\ b[i].tier = bands[BandOf(i, n, k)]
<1> DEFINE b == Banded(w, bands)
<1>1. n \in Nat /\ w \in [1 .. n -> S] /\ Len(w) = n
  BY DEF Tours
<1>2. b = [i \in 1 .. n |-> Rated(w[i], bands[BandOf(i, n, k)])]
  BY <1>1 DEF Banded, BandOf
<1> HIDE DEF b
<1>3. \A i \in 1 .. n : /\ b[i].user = w[i].user /\ b[i].net = Net(w[i])
                        /\ b[i].tier = bands[BandOf(i, n, k)]
                        /\ b[i] \in Places /\ w[i] \in S
  <2> TAKE i \in 1 .. n
  <2>1. b[i] = Rated(w[i], bands[BandOf(i, n, k)])
    BY <1>2
  <2>2. bands[BandOf(i, n, k)] \in Tiers
    BY <1>1, BandsInOrder
  <2>3. w[i] \in S /\ w[i].user \in Users /\ Net(w[i]) \in Int
    BY <1>1 DEF Inputs, Net
  <2> QED BY <2>1, <2>2, <2>3 DEF Rated, Places
<1>4. b \in Seq(Places) /\ Len(b) = n
  <2>1. b = [i \in 1 .. n |-> b[i]]
    BY <1>2
  <2>2. n \in Nat
    BY <1>1
  <2>3. \A i \in 1 .. n : b[i] \in Places
    BY <1>3
  <2> QED BY <2>1, <2>2, <2>3, RowsInOrder
<1>5. \A e \in S : \E i \in 1 .. n : b[i].user = e.user
  BY <1>3 DEF Tours
<1>6. ASSUME NEW i \in 1 .. n, NEW j \in 1 .. n, b[i].user = b[j].user PROVE i = j
  <2>1. w[i] = w[j]
    BY <1>3, <1>6 DEF OnePerUser
  <2> QED BY <2>1 DEF Tours
<1>7. /\ Lists(b, S) /\ Len(b) = n
      /\ \A i \in 1 .. n : b[i].net = Net(w[i]) /\ b[i].tier = bands[BandOf(i, n, k)]
  <2>1. \A i \in 1 .. n : \E e \in S : b[i].user = e.user /\ b[i].net = Net(e)
    BY <1>3
  <2>2. \A i, j \in 1 .. n : b[i].user = b[j].user => i = j
    BY <1>6
  <2>3. Lists(b, S)
    BY <1>4, <1>5, <2>1, <2>2 DEF Lists
  <2> QED BY <1>3, <1>4, <2>3
<1> QED
  BY <1>7 DEF b

\* A walk over a finite set, as the store or sorted() returns it, is a tour.
LEMMA WalkTours ==
  ASSUME NEW S, IsFiniteSet(S), NEW w \in [1 .. Cardinality(S) -> S],
         \A i, j \in 1 .. Cardinality(S) : i < j => w[i] # w[j]
  PROVE  Tours(w, S, Cardinality(S))
<1>1. Cardinality(S) \in Nat
  BY FS_CardinalityType
<1>2. \A x \in S : \E i \in 1 .. Cardinality(S) : w[i] = x
  BY WalksMeetAll
<1>3. \A i, j \in 1 .. Cardinality(S) : w[i] = w[j] => i = j
  BY <1>1
<1> QED
  BY <1>1, <1>2, <1>3 DEF Tours

\* The hosts who gave at least as much as they took are in order, in the upper
\* four tiers.
LEMMA GivingListed ==
  ASSUME NEW S \in SUBSET Inputs, IsFiniteSet(S), OnePerUser(S), NEW giving \in GivingWays(S)
  PROVE  Lists(giving, S) /\ InOrder(giving, 1, 4)
<1> DEFINE n == Cardinality(S)
<1>1. PICK w \in Walks(S, HigherNet) : giving = Banded(w, PositiveBands)
  BY DEF GivingWays
<1>2. /\ w \in [1 .. n -> S]
      /\ \A i, j \in 1 .. n : i < j => w[i] # w[j] /\ Net(w[i]) >= Net(w[j])
  BY <1>1 DEF Walks, HigherNet
<1>3. n \in Nat /\ Tours(w, S, n)
  BY <1>2, WalkTours, FS_CardinalityType
<1> HIDE DEF n
<1>4. /\ Lists(giving, S) /\ Len(giving) = n
      /\ \A i \in 1 .. n : /\ giving[i].net = Net(w[i])
                           /\ giving[i].tier = PositiveBands[BandOf(i, n, 4)]
  <2>1. Len(PositiveBands) = 4 /\ \A k \in 1 .. 4 : PositiveBands[k] \in Tiers
    BY Grades
  <2> QED BY <1>1, <1>3, <2>1, BandedLists
<1>5. /\ \A i \in 1 .. n : BandOf(i, n, 4) \in 1 .. 4
      /\ \A i, j \in 1 .. n : i <= j => BandOf(i, n, 4) <= BandOf(j, n, 4)
  BY <1>3, BandsInOrder
<1>6. \A i \in 1 .. n : Grade(giving[i].tier) = BandOf(i, n, 4)
  BY <1>4, <1>5, Grades
<1>7. \A i \in 1 .. n : Net(w[i]) \in Int
  BY <1>2 DEF Inputs, Net
<1>8. ASSUME NEW i \in 1 .. n, NEW j \in 1 .. n, giving[i].net > giving[j].net
      PROVE  i < j /\ Grade(giving[i].tier) <= Grade(giving[j].tier)
  <2>1. Net(w[i]) > Net(w[j])
    BY <1>4, <1>8
  <2>2. i < j
    BY <1>2, <1>3, <1>7, <2>1
  <2> QED BY <1>5, <1>6, <2>2
<1> QED
  BY <1>4, <1>5, <1>6, <1>8 DEF InOrder

\* Those who took more than they gave are in order, in the lower two.
LEMMA TakingListed ==
  ASSUME NEW S \in SUBSET Inputs, IsFiniteSet(S), OnePerUser(S), NEW taking \in TakingWays(S)
  PROVE  Lists(taking, S) /\ InOrder(taking, 5, 6)
<1> DEFINE n == Cardinality(S)
<1>1. PICK w \in Walks(S, LowerNet) : taking \in Turned(Banded(w, NegativeBands))
  <2>1. TakingWays(S) = UNION {Turned(Banded(w, NegativeBands)) : w \in Walks(S, LowerNet)}
    BY DEF TakingWays, Turned
  <2> QED BY <2>1
<1>2. /\ w \in [1 .. n -> S]
      /\ \A i, j \in 1 .. n : i < j => w[i] # w[j] /\ Net(w[i]) <= Net(w[j])
  BY <1>1 DEF Walks, LowerNet
<1>3. n \in Nat /\ Tours(w, S, n)
  BY <1>2, WalkTours, FS_CardinalityType
<1> HIDE DEF n
<1> DEFINE b == Banded(w, NegativeBands)
           P == {b[i] : i \in 1 .. Len(b)}
           m == Cardinality(P)
<1>4. /\ Lists(b, S) /\ Len(b) = n
      /\ \A i \in 1 .. n : b[i].net = Net(w[i]) /\ b[i].tier = NegativeBands[BandOf(i, n, 2)]
  <2>1. Len(NegativeBands) = 2 /\ \A k \in 1 .. 2 : NegativeBands[k] \in Tiers
    BY Grades
  <2> HIDE DEF b
  <2>2. b = Banded(w, NegativeBands) => /\ Lists(b, S) /\ Len(b) = n
          /\ \A i \in 1 .. n : b[i].net = Net(w[i]) /\ b[i].tier = NegativeBands[BandOf(i, n, 2)]
    BY <1>3, <2>1, BandedLists
  <2> QED BY <2>2 DEF b
<1>5. /\ \A i \in 1 .. n : BandOf(i, n, 2) \in 1 .. 2
      /\ \A i, j \in 1 .. n : i <= j => BandOf(i, n, 2) <= BandOf(j, n, 2)
  BY <1>3, BandsInOrder
<1>6. \A i \in 1 .. n : Grade(b[i].tier) = 7 - BandOf(i, n, 2)
  <2> HIDE DEF b
  <2> QED BY <1>4, <1>5, Grades
<1>7. \A i \in 1 .. n : Net(w[i]) \in Int
  BY <1>2 DEF Inputs, Net
<1>8. /\ taking \in [1 .. m -> P]
      /\ \A i, j \in 1 .. m : i < j => taking[i] # taking[j] /\ taking[i].net >= taking[j].net
  BY <1>1 DEF Turned, Walks, HigherRow
<1> HIDE DEF b
<1>9. IsFiniteSet(P)
  <2>1. b \in Surjection(1 .. n, P)
    <3>1. b \in [1 .. n -> P]
      BY <1>4 DEF Lists
    <3> QED BY <1>4, <3>1 DEF Surjection
  <2> HIDE DEF P
  <2> QED BY <1>3, <2>1, FS_Surjection, FS_Interval
<1>10. m \in Nat /\ Tours(taking, P, m)
  <2> HIDE DEF P
  <2> QED BY <1>8, <1>9, WalkTours, FS_CardinalityType
<1>11. \A x \in P : \E i \in 1 .. n : x = b[i]
  BY <1>4
<1>12. \A i \in 1 .. n : b[i] \in P /\ b[i] \in Places
  BY <1>4 DEF Lists
<1> HIDE DEF P, m
<1>13. taking \in Seq(Places) /\ Len(taking) = m
  <2>1. taking = [i \in 1 .. m |-> taking[i]]
    BY <1>8
  <2>2. m \in Nat /\ \A i \in 1 .. m : taking[i] \in Places
    BY <1>8, <1>10, <1>11, <1>12
  <2> QED BY <2>1, <2>2, RowsInOrder
<1>14. \A i \in 1 .. m : \E a \in 1 .. n : taking[i] = b[a]
  BY <1>8, <1>11
<1>15. Lists(taking, S)
  <2>1. \A i \in 1 .. m : \E e \in S : taking[i].user = e.user /\ taking[i].net = Net(e)
    BY <1>4, <1>14 DEF Lists
  <2>2. ASSUME NEW e \in S PROVE \E i \in 1 .. m : taking[i].user = e.user
    <3>1. PICK a \in 1 .. n : b[a].user = e.user
      BY <1>4 DEF Lists
    <3>2. PICK i \in 1 .. m : taking[i] = b[a]
      BY <1>10, <1>12 DEF Tours
    <3> QED BY <3>1, <3>2
  <2>3. ASSUME NEW i \in 1 .. m, NEW j \in 1 .. m, taking[i].user = taking[j].user
        PROVE  i = j
    <3>1. PICK a \in 1 .. n : taking[i] = b[a]
      BY <1>14
    <3>2. PICK c \in 1 .. n : taking[j] = b[c]
      BY <1>14
    <3>3. a = c
      BY <1>4, <2>3, <3>1, <3>2 DEF Lists
    <3> QED BY <1>10, <3>1, <3>2, <3>3 DEF Tours
  <2> QED BY <1>13, <2>1, <2>2, <2>3 DEF Lists
<1>16. InOrder(taking, 5, 6)
  <2>1. ASSUME NEW i \in 1 .. m PROVE Grade(taking[i].tier) \in 5 .. 6
    <3>1. PICK a \in 1 .. n : taking[i] = b[a]
      BY <1>14
    <3>2. Grade(taking[i].tier) = 7 - BandOf(a, n, 2) /\ BandOf(a, n, 2) \in 1 .. 2
      BY <1>5, <1>6, <3>1
    <3> QED BY <3>2
  <2>2. ASSUME NEW i \in 1 .. m, NEW j \in 1 .. m, taking[i].net > taking[j].net
        PROVE  i < j /\ Grade(taking[i].tier) <= Grade(taking[j].tier)
    <3>1. PICK a \in 1 .. n : taking[i] = b[a]
      BY <1>14
    <3>2. PICK c \in 1 .. n : taking[j] = b[c]
      BY <1>14
    <3>3. Net(w[a]) > Net(w[c]) /\ Net(w[a]) \in Int /\ Net(w[c]) \in Int
      BY <1>4, <1>7, <2>2, <3>1, <3>2
    <3>4. c <= a
      BY <1>2, <3>3
    <3>5. BandOf(c, n, 2) <= BandOf(a, n, 2)
      BY <1>5, <3>4
    <3>6. Grade(taking[i].tier) <= Grade(taking[j].tier)
      BY <1>5, <1>6, <3>1, <3>2, <3>5
    <3>7. ~ (j < i)
      <4>1. taking[i].net = Net(w[a]) /\ taking[j].net = Net(w[c])
        BY <1>4, <3>1, <3>2
      <4>2. j < i => taking[j].net >= taking[i].net
        BY <1>8
      <4> QED BY <3>3, <4>1, <4>2
    <3>8. i # j
      BY <3>1, <3>2, <1>4, <3>3
    <3> QED BY <1>10, <3>6, <3>7, <3>8
  <2> QED BY <1>13, <2>1, <2>2 DEF InOrder
<1> QED
  BY <1>15, <1>16

\* Newcomers are listed once as well.
LEMMA NewListed ==
  ASSUME NEW S \in SUBSET Inputs, IsFiniteSet(S), OnePerUser(S), NEW new \in NewWays(S)
  PROVE  Lists(new, S) /\ \A i \in 1 .. Len(new) : new[i].tier = "newcomer"
<1> DEFINE n == Cardinality(S)
<1>1. PICK w \in Walks(S, AnyOrder) : new = [i \in 1 .. Len(w) |-> Rated(w[i], "newcomer")]
  BY DEF NewWays
<1>2. /\ w \in [1 .. n -> S]
      /\ \A i, j \in 1 .. n : i < j => w[i] # w[j]
  BY <1>1 DEF Walks
<1>3. n \in Nat /\ Tours(w, S, n)
  BY <1>2, WalkTours, FS_CardinalityType
<1> HIDE DEF n
<1>4. new = [i \in 1 .. n |-> Rated(w[i], "newcomer")]
  BY <1>1, <1>2, <1>3
<1>5. \A i \in 1 .. n : /\ new[i].user = w[i].user /\ new[i].net = Net(w[i])
                        /\ new[i].tier = "newcomer" /\ new[i] \in Places /\ w[i] \in S
  <2> TAKE i \in 1 .. n
  <2>1. new[i] = Rated(w[i], "newcomer")
    BY <1>4
  <2>2. w[i] \in S /\ w[i].user \in Users /\ Net(w[i]) \in Int
    BY <1>2 DEF Inputs, Net
  <2> QED BY <2>1, <2>2 DEF Rated, Places, Tiers
<1>6. new \in Seq(Places) /\ Len(new) = n
  <2>1. new = [i \in 1 .. n |-> new[i]]
    BY <1>4
  <2>2. n \in Nat /\ \A i \in 1 .. n : new[i] \in Places
    BY <1>3, <1>5
  <2> QED BY <2>1, <2>2, RowsInOrder
<1>7. ASSUME NEW i \in 1 .. n, NEW j \in 1 .. n, new[i].user = new[j].user PROVE i = j
  <2>1. w[i] = w[j]
    BY <1>5, <1>7 DEF OnePerUser
  <2> QED BY <1>3, <2>1 DEF Tours
<1>8. \A e \in S : \E i \in 1 .. n : new[i].user = e.user
  BY <1>3, <1>5 DEF Tours
<1> QED
  BY <1>5, <1>6, <1>7, <1>8 DEF Lists
\* What the store counted for each working host: one entry for each.
LEMMA HostsEntered ==
  ASSUME TypeOK, NEW givers \in SUBSET Users
  PROVE  /\ TierInputs(givers) \in SUBSET Inputs /\ IsFiniteSet(TierInputs(givers))
         /\ OnePerUser(TierInputs(givers))
         /\ \A u \in givers \ dead : \E e \in TierInputs(givers) : e.user = u
<1> DEFINE hosts == givers \ dead
           entry == [u \in hosts |->
                       [user |-> u, donated |-> DonatedLive(u), consumed |-> ConsumedFromOthers(u)]]
           E == TierInputs(givers)
<1>1. \A u \in hosts : DonatedLive(u) \in Nat /\ ConsumedFromOthers(u) \in Nat
  <2> TAKE u \in hosts
  <2>1. GiftsOf(u) \in SUBSET GrantIds /\ GiftsTo(u) \in SUBSET GrantIds
    BY DEF GiftsOf, GiftsTo
  <2> QED BY <2>1, BurnedSplit DEF DonatedLive, ConsumedFromOthers
<1>2. E = {entry[u] : u \in hosts}
  BY DEF TierInputs
<1>3. \A u \in hosts : entry[u] \in Inputs /\ entry[u].user = u
  BY <1>1 DEF Inputs
<1>4. IsFiniteSet(hosts)
  <2>1. IsFiniteSet(Users)
    BY UsersAssumption
  <2> QED BY <2>1, FS_Subset
<1> HIDE DEF E, hosts
<1>5. entry \in Surjection(hosts, E)
  BY <1>2 DEF Surjection
<1> HIDE DEF entry
<1>6. IsFiniteSet(E)
  BY <1>4, <1>5, FS_Surjection
<1>7. E \in SUBSET Inputs /\ OnePerUser(E) /\ \A u \in hosts : \E e \in E : e.user = u
  BY <1>2, <1>3 DEF OnePerUser
<1> QED
  BY <1>6, <1>7 DEF E, hosts

\* ranked is one list after the other: those above (A), those below (B) and
\* the newcomers (N).
Ranked(ranked, giving, taking, new, A, B, N) ==
    /\ ranked = giving \o taking \o new
    /\ \A d, e \in A \cup B \cup N : d.user = e.user => d = e
    /\ A \cap B = {} /\ A \cap N = {} /\ B \cap N = {}
    /\ \A e \in A : Net(e) \in Int /\ Net(e) >= 0
    /\ \A e \in B : Net(e) \in Int /\ Net(e) < 0
    /\ Lists(giving, A) /\ InOrder(giving, 1, 4)
    /\ Lists(taking, B) /\ InOrder(taking, 5, 6)
    /\ Lists(new, N) /\ \A i \in 1 .. Len(new) : new[i].tier = "newcomer"

LEMMA ListsJoined ==
  ASSUME NEW A, NEW B, NEW N, NEW giving, NEW taking, NEW new, NEW ranked,
         Ranked(ranked, giving, taking, new, A, B, N)
  PROVE  /\ \A e \in A \cup B \cup N : \E i \in DOMAIN ranked : ranked[i].user = e.user
         /\ \A i, j \in DOMAIN ranked :
              /\ ranked[i].user = ranked[j].user => i = j
              /\ ranked[i].tier # "newcomer" /\ ranked[j].tier # "newcomer"
                   /\ ranked[i].net > ranked[j].net
                   => i < j /\ Grade(ranked[i].tier) <= Grade(ranked[j].tier)
<1> DEFINE a == Len(giving)
           b == Len(taking)
           c == Len(new)
<1>1. giving \in Seq(Places) /\ taking \in Seq(Places) /\ new \in Seq(Places)
  BY DEF Ranked, Lists
<1>2. a \in Nat /\ b \in Nat /\ c \in Nat
  BY <1>1
<1> DEFINE working == giving \o taking
<1>3. /\ working \in Seq(Places) /\ Len(working) = a + b
      /\ \A i \in 1 .. a : working[i] = giving[i]
      /\ \A i \in 1 .. b : working[a + i] = taking[i]
  BY <1>1, Appended
<1> HIDE DEF working
<1>4. /\ ranked \in Seq(Places) /\ Len(ranked) = a + b + c
      /\ \A i \in 1 .. a + b : ranked[i] = working[i]
      /\ \A i \in 1 .. c : ranked[a + b + i] = new[i]
  <2>1. ranked = working \o new
    BY DEF Ranked, working
  <2>2. /\ working \o new \in Seq(Places)
        /\ Len(working \o new) = Len(working) + Len(new)
        /\ \A i \in 1 .. Len(working) : (working \o new)[i] = working[i]
        /\ \A i \in 1 .. Len(new) : (working \o new)[Len(working) + i] = new[i]
    <3>1. \A s, t \in Seq(Places) :
            /\ s \o t \in Seq(Places)
            /\ Len(s \o t) = Len(s) + Len(t)
            /\ \A i \in 1 .. Len(s) : (s \o t)[i] = s[i]
            /\ \A i \in 1 .. Len(t) : (s \o t)[Len(s) + i] = t[i]
      BY Appended
    <3> QED BY <1>1, <1>3, <3>1
  <2> QED BY <1>3, <2>1, <2>2
<1>5. DOMAIN ranked = 1 .. a + b + c
  BY <1>4
<1> HIDE DEF a, b, c
<1>6. /\ \A i \in 1 .. a : ranked[i] = giving[i]
      /\ \A i \in 1 .. b : ranked[a + i] = taking[i]
      /\ \A i \in 1 .. c : ranked[a + b + i] = new[i]
  <2>1. \A i \in 1 .. a : i \in 1 .. a + b
    BY <1>2
  <2>2. \A i \in 1 .. b : a + i \in 1 .. a + b
    BY <1>2
  <2> QED BY <1>3, <1>4, <2>1, <2>2
\* The part an index is in.
<1> DEFINE InA(i) == i \in 1 .. a /\ ranked[i] = giving[i]
           InB(i) == i - a \in 1 .. b /\ ranked[i] = taking[i - a]
           InN(i) == i - a - b \in 1 .. c /\ ranked[i] = new[i - a - b]
<1>7. ASSUME NEW i \in 1 .. a + b + c PROVE InA(i) \/ InB(i) \/ InN(i)
  <2>1. CASE i <= a
    BY <1>2, <1>6, <2>1
  <2>2. CASE a < i /\ i <= a + b
    <3>1. i - a \in 1 .. b /\ a + (i - a) = i
      BY <1>2, <2>2
    <3> QED BY <1>6, <3>1
  <2>3. CASE a + b < i
    <3>1. i - a - b \in 1 .. c /\ a + b + (i - a - b) = i
      BY <1>2, <2>3
    <3> QED BY <1>6, <3>1
  <2> QED BY <1>2, <2>1, <2>2, <2>3
<1>8. /\ \A i : InA(i) => /\ \E e \in A : ranked[i].user = e.user /\ ranked[i].net = Net(e)
                          /\ Grade(ranked[i].tier) \in 1 .. 4
      /\ \A i : InB(i) => /\ \E e \in B : ranked[i].user = e.user /\ ranked[i].net = Net(e)
                          /\ Grade(ranked[i].tier) \in 5 .. 6
      /\ \A i : InN(i) => /\ \E e \in N : ranked[i].user = e.user
                          /\ ranked[i].tier = "newcomer"
  <2>1. /\ \A i \in 1 .. a : \E e \in A : giving[i].user = e.user /\ giving[i].net = Net(e)
        /\ \A i \in 1 .. a : Grade(giving[i].tier) \in 1 .. 4
    BY DEF Ranked, Lists, InOrder, a
  <2>2. /\ \A i \in 1 .. b : \E e \in B : taking[i].user = e.user /\ taking[i].net = Net(e)
        /\ \A i \in 1 .. b : Grade(taking[i].tier) \in 5 .. 6
    BY DEF Ranked, Lists, InOrder, b
  <2>3. \A i \in 1 .. c : /\ \E e \in N : new[i].user = e.user
                          /\ new[i].tier = "newcomer"
    BY DEF Ranked, Lists, c
  <2> QED BY <2>1, <2>2, <2>3
<1>9. \A d \in A, e \in B : Net(d) \in Int /\ Net(e) \in Int /\ Net(d) > Net(e)
  <2>1. \A d \in A, e \in B : Net(d) \in Int /\ Net(e) \in Int /\ Net(d) >= 0 /\ Net(e) < 0
    BY DEF Ranked
  <2> QED BY <2>1
<1>10. ASSUME NEW i \in 1 .. a + b + c, NEW j \in 1 .. a + b + c,
              ranked[i].user = ranked[j].user
       PROVE  i = j
  <2>1. /\ InA(i) => InA(j)
        /\ InB(i) => InB(j)
        /\ InN(i) => InN(j)
    <3> HIDE DEF InA, InB, InN
    <3>1. /\ \A d \in A, e \in B : d.user # e.user
          /\ \A d \in A, e \in N : d.user # e.user
          /\ \A d \in B, e \in N : d.user # e.user
      BY DEF Ranked
    <3>2. /\ ~ (InA(i) /\ InB(j)) /\ ~ (InA(i) /\ InN(j)) /\ ~ (InB(i) /\ InN(j))
          /\ ~ (InB(i) /\ InA(j)) /\ ~ (InN(i) /\ InA(j)) /\ ~ (InN(i) /\ InB(j))
      BY <1>8, <1>10, <3>1
    <3> QED BY <1>7, <3>2
  <2>2. CASE InA(i)
    BY <1>10, <2>1, <2>2 DEF Ranked, Lists, a
  <2>3. CASE InB(i)
    <3>1. \A x, y \in 1 .. b : taking[x].user = taking[y].user => x = y
      BY DEF Ranked, Lists, b
    <3>2. i - a = j - a
      BY <1>10, <2>1, <2>3, <3>1
    <3> QED BY <1>2, <3>2
  <2>4. CASE InN(i)
    <3>1. \A x, y \in 1 .. c : new[x].user = new[y].user => x = y
      BY DEF Ranked, Lists, c
    <3>2. i - a - b = j - a - b
      BY <1>10, <2>1, <2>4, <3>1
    <3> QED BY <1>2, <3>2
  <2> QED BY <1>7, <2>2, <2>3, <2>4
<1>11. ASSUME NEW i \in 1 .. a + b + c, NEW j \in 1 .. a + b + c,
              ranked[i].tier # "newcomer", ranked[j].tier # "newcomer",
              ranked[i].net > ranked[j].net
       PROVE  i < j /\ Grade(ranked[i].tier) <= Grade(ranked[j].tier)
  <2>1. /\ InA(i) \/ InB(i)
        /\ InA(j) \/ InB(j)
    BY <1>7, <1>8, <1>11
  <2>2. CASE InA(i) /\ InA(j)
    BY <1>11, <2>2 DEF Ranked, InOrder, a
  <2>3. CASE InA(i) /\ InB(j)
    <3>1. i < j
      BY <1>2, <2>3
    <3>2. Grade(ranked[i].tier) \in 1 .. 4 /\ Grade(ranked[j].tier) \in 5 .. 6
      BY <1>8, <2>3
    <3> QED BY <3>1, <3>2
  <2>4. CASE InB(i) /\ InA(j)
    <3>1. PICK e \in B : ranked[i].net = Net(e)
      BY <1>8, <2>4
    <3>2. PICK d \in A : ranked[j].net = Net(d)
      BY <1>8, <2>4
    <3> QED BY <1>9, <1>11, <3>1, <3>2
  <2>5. CASE InB(i) /\ InB(j)
    <3>1. i - a < j - a /\ Grade(ranked[i].tier) <= Grade(ranked[j].tier)
      BY <1>11, <2>5 DEF Ranked, InOrder, b
    <3> QED BY <1>2, <3>1
  <2> QED BY <2>1, <2>2, <2>3, <2>4, <2>5
<1>12. ASSUME NEW e \in A \cup B \cup N
       PROVE  \E i \in DOMAIN ranked : ranked[i].user = e.user
  <2>1. CASE e \in A
    <3>1. PICK i \in 1 .. a : giving[i].user = e.user
      BY <2>1 DEF Ranked, Lists, a
    <3>2. i \in DOMAIN ranked
      BY <1>2, <1>5
    <3> QED BY <1>6, <3>1, <3>2
  <2>2. CASE e \in B
    <3>1. PICK i \in 1 .. b : taking[i].user = e.user
      BY <2>2 DEF Ranked, Lists, b
    <3>2. a + i \in DOMAIN ranked
      BY <1>2, <1>5
    <3> QED BY <1>6, <3>1, <3>2
  <2>3. CASE e \in N
    <3>1. PICK i \in 1 .. c : new[i].user = e.user
      BY <2>3 DEF Ranked, Lists, c
    <3>2. a + b + i \in DOMAIN ranked
      BY <1>2, <1>5
    <3> QED BY <1>6, <3>1, <3>2
  <2> QED BY <2>1, <2>2, <2>3
<1> QED
  BY <1>5, <1>10, <1>11, <1>12

\* What assign_tiers returns is one list after the other.
LEMMA RankedParts ==
  ASSUME NEW E, NEW ranked \in AssignTiers(E)
  PROVE  \E giving \in GivingWays(Positives(E)), taking \in TakingWays(Negatives(E)),
            new \in NewWays(Newcomers(E)) : ranked = giving \o taking \o new
BY DEF AssignTiers

\* Each working host has one standing, and whoever gave more on balance is
\* before and not below whoever gave less (StandingsInOrder), however the ties
\* are broken and whoever is a giver by now.
THEOREM HostsRanked == Spec => []StandingsInOrder
<1>1. TypeOK => StandingsInOrder
  <2> SUFFICES ASSUME TypeOK, NEW givers \in SUBSET Users, NEW ranked \in Standings(givers)
               PROVE  /\ \A u \in givers \ dead : \E i \in DOMAIN ranked : ranked[i].user = u
                      /\ \A i, j \in DOMAIN ranked :
                           /\ ranked[i].user = ranked[j].user => i = j
                           /\ ranked[i].tier # "newcomer" /\ ranked[j].tier # "newcomer"
                                /\ ranked[i].net > ranked[j].net
                                => i < j /\ Grade(ranked[i].tier) <= Grade(ranked[j].tier)
    BY DEF StandingsInOrder
  <2> DEFINE E == TierInputs(givers)
             A == Positives(E)
             B == Negatives(E)
             N == Newcomers(E)
  <2>1. /\ E \in SUBSET Inputs /\ IsFiniteSet(E) /\ OnePerUser(E)
        /\ \A u \in givers \ dead : \E e \in E : e.user = u
    BY HostsEntered
  <2>2. PICK giving \in GivingWays(A), taking \in TakingWays(B), new \in NewWays(N) :
          ranked = giving \o taking \o new
    <3>1. ranked \in AssignTiers(E)
      BY DEF Standings
    <3> HIDE DEF E
    <3> QED BY <3>1, RankedParts
  <2> HIDE DEF E
  <2>3. /\ A \in SUBSET Inputs /\ B \in SUBSET Inputs /\ N \in SUBSET Inputs
        /\ IsFiniteSet(A) /\ IsFiniteSet(B) /\ IsFiniteSet(N)
        /\ OnePerUser(A) /\ OnePerUser(B) /\ OnePerUser(N)
    <3>1. A \subseteq E /\ B \subseteq E /\ N \subseteq E
      BY DEF Positives, Negatives, Newcomers
    <3> HIDE DEF A, B, N
    <3> QED BY <2>1, <3>1, FS_Subset DEF OnePerUser
  <2>4. A \cap B = {} /\ A \cap N = {} /\ B \cap N = {} /\ A \cup B \cup N = E
    <3>1. \A e \in E : Net(e) \in Int
      BY <2>1 DEF Inputs, Net
    <3> QED BY <3>1 DEF Positives, Negatives, Newcomers
  <2>5. /\ \A e \in A : Net(e) \in Int /\ Net(e) >= 0
        /\ \A e \in B : Net(e) \in Int /\ Net(e) < 0
    BY <2>3 DEF Inputs, Net, Positives, Negatives
  <2> HIDE DEF A, B, N
  <2>6. Lists(giving, A) /\ InOrder(giving, 1, 4)
    BY <2>3, GivingListed
  <2>7. Lists(taking, B) /\ InOrder(taking, 5, 6)
    BY <2>3, TakingListed
  <2>8. Lists(new, N) /\ \A i \in 1 .. Len(new) : new[i].tier = "newcomer"
    BY <2>3, NewListed
  <2>9. \A d, e \in A \cup B \cup N : d.user = e.user => d = e
    BY <2>1, <2>4 DEF OnePerUser
  <2>10. /\ \A e \in A \cup B \cup N : \E i \in DOMAIN ranked : ranked[i].user = e.user
         /\ \A i, j \in DOMAIN ranked :
              /\ ranked[i].user = ranked[j].user => i = j
              /\ ranked[i].tier # "newcomer" /\ ranked[j].tier # "newcomer"
                   /\ ranked[i].net > ranked[j].net
                   => i < j /\ Grade(ranked[i].tier) <= Grade(ranked[j].tier)
    <3>1. Ranked(ranked, giving, taking, new, A, B, N)
      BY <2>2, <2>4, <2>5, <2>6, <2>7, <2>8, <2>9 DEF Ranked
    <3> QED BY <3>1, ListsJoined
  <2> QED BY <2>1, <2>4, <2>10
<1> QED
  BY <1>1, Typing, PTL
=============================================================================
