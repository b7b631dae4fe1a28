----------------------------- MODULE Standings -----------------------------
(***************************************************************************)
(* What the team reads about the ledger: the profile page                  *)
(* (get_profile), the dashboard and the report of a cycle                  *)
(* (ctc/accounting/reports.py), the tracks of the leaderboard and the      *)
(* tiers of the hosts (leaderboard.py, tiers.py).  They write nothing.     *)
(* Each number is a query of its own over the tables of Marketplace, with  *)
(* its own idea of what a cancelled request leaves behind, and the pages   *)
(* subtract them from each other.                                          *)
(*                                                                         *)
(* givers are the users whose role is giver, which need not be those with  *)
(* a row, and pats those who have a PAT.                                   *)
(***************************************************************************)
EXTENDS Marketplace

-----------------------------------------------------------------------------
(* Events.  One on a grant is consumed by the grant's recipient from the   *)
(* donor's PAT; OWN and BYPASS are consumed by a giver from his own.       *)

BurnedOn(S) == Total(used, S)

\* Variant that takes own credit for a gift.
GiftsWithOwn(u)  == {g \in GrantIds : grants[g].donor = u}

GiftsOf(u)       == {g \in GrantIds : grants[g].donor = u /\ Recipient(g) # u}
GiftsTo(u)       == {g \in GrantIds : Recipient(g) = u /\ grants[g].donor # u}
Routed(u)        == {g \in GrantIds : Recipient(g) = u}

DonatedLive(u)        == BurnedOn(GiftsOf(u))
ConsumedFromOthers(u) == BurnedOn(GiftsTo(u))
ConsumedTotal(u)      == selfBurn[u] + BurnedOn(Routed(u))

Consumers == {u \in Users : ConsumedTotal(u) > 0}
Sources   == {u \in Users : selfBurn[u] + BurnedOn({g \in GrantIds : grants[g].donor = u}) > 0}

-----------------------------------------------------------------------------
(* The profile: what became of the credit a user received *)

ReDonatedBy(u) ==
    Total(LeafCharge, {c \in GrantIds : grants[c].via = u /\ grants[c].contribution = 0})

\* A contribution whose origin was cancelled counts with what was drawn.
\* Variant that still counts all of it.
ReturnedInFull == ReturnedAmount
ReturnCharge ==
    [p \in ContributionIds |-> IF Voided(contributions[p].origin) THEN Drawn(p)
                               ELSE contributions[p].amount]
ReturnedToPoolBy(u) ==
    Total(ReturnCharge, {p \in ContributionIds : contributions[p].contributor = u})

DrawnForOrigin(g) == Total(LeafCharge, Children(g) \ Transfers(g))
ReceivedAmount ==
    [g \in GrantIds |-> IF Voided(g) THEN used[g] + Transferred(g) + DrawnForOrigin(g)
                        ELSE grants[g].amount]

DonationsReceived(u)  == Total(ReceivedAmount, Routed(u))
DonationsRemaining(u) == NetTotal(GrantRemaining, Routed(u))
DonationsConsumed(u)  ==
    Greatest(0, DonationsReceived(u) - DonationsRemaining(u) - ReDonatedBy(u) - ReturnedToPoolBy(u))

\* A giver's bar.  E, what GitHub grants him, is taken to be his quota, which
\* follows it.  Variant that counts the fills from his pledge as chipped in.
BurnedFrom(u) == BurnedOn({g \in GrantIds : grants[g].donor = u})
PersonalBurned(u) ==
    BurnedOn({g \in GrantIds : grants[g].donor = u /\ grants[g].source = "personal"})

DonatedRemaining(u) == Greatest(0, GrantedOut(u, "personal") - PersonalBurned(u))
LeftOn(u) == Greatest(0, quota[u] - selfBurn[u] - pledge[u] - GrantedOut(u, "personal"))

-----------------------------------------------------------------------------
(* The dashboard and the report of the cycle *)

Retained == NetTotal([u \in rows |-> PersonalRemaining(u)], rows)
Rotated         == BurnedOn({g \in GrantIds : Recipient(g) \in rows})
DonatedToNonPat == BurnedOn({g \in GrantIds : Recipient(g) \notin rows})

\* Variant that forgets the hosts who only consume.
ActiveHosts(pats)  == (pats \cup {u \in rows : pledge[u] > 0} \cup Sources) \cap rows
ActiveGivers(pats) == (pats \cup {u \in rows : pledge[u] > 0} \cup Sources \cup Consumers) \cap rows
ActiveConsumers    == Consumers \ rows

BudgetTotal == Total(quota, rows)
UsedTotal   == BurnedOn(GrantIds) + Total(selfBurn, Users)
ToPat(givers)    == BurnedOn({g \in GrantIds : Recipient(g) \in givers})
ToNonPat(givers) == BurnedOn({g \in GrantIds : Recipient(g) \notin givers})

\* What a giver gave to other givers, for the rotator of the cycle.
ToOtherGivers(u, givers) == BurnedOn({g \in GiftsOf(u) : Recipient(g) \in givers})

-----------------------------------------------------------------------------
(* Tiers: the hosts with a PAT that is not known to be dead, by what they  *)
(* gave less what they took.  Ties are broken by name, that is in any way. *)

TierOrder == <<"aristocrat", "baron", "bourgeois", "commoner", "peasant", "beggar", "newcomer">>
PositiveBands == <<"aristocrat", "baron", "bourgeois", "commoner">>
NegativeBands == <<"beggar", "peasant">>

TierInputs(givers) ==
    {[user |-> u, donated |-> DonatedLive(u), consumed |-> ConsumedFromOthers(u)] : u \in givers \ dead}

Net(e)      == e.donated - e.consumed
Newcomer(e) == e.donated = 0 /\ e.consumed = 0

HigherNet(d, e) == Net(d) >= Net(e)
LowerNet(d, e)  == Net(d) <= Net(e)
HigherRow(d, e) == d.net >= e.net
AnyOrder(d, e)  == TRUE

Rated(e, tier) == [user |-> e.user, net |-> Net(e), tier |-> tier]

\* The hosts of w are split evenly into the bands, in their order.
Banded(w, bands) ==
    [i \in 1 .. Len(w) |-> Rated(w[i], bands[((i - 1) * Len(bands)) \div Len(w) + 1])]

\* The highest net first; those below zero from the worst, and then turned
\* round.  Variant that sorts by net and forgets the minus sign.
GivingUpwards(S) == {Banded(w, PositiveBands) : w \in Walks(S, LowerNet)}
GivingWays(S) == {Banded(w, PositiveBands) : w \in Walks(S, HigherNet)}
TakingWays(S) ==
    UNION {LET banded == Banded(w, NegativeBands)
           IN  Walks({banded[i] : i \in 1 .. Len(banded)}, HigherRow) : w \in Walks(S, LowerNet)}
NewWays(S)    == {[i \in 1 .. Len(w) |-> Rated(w[i], "newcomer")] : w \in Walks(S, AnyOrder)}

\* Those with any activity, at or above zero and below it, and the others.
Positives(entries) == {e \in entries : ~ Newcomer(e) /\ Net(e) >= 0}
Negatives(entries) == {e \in entries : ~ Newcomer(e) /\ Net(e) < 0}
Newcomers(entries) == {e \in entries : Newcomer(e)}

AssignTiers(entries) ==
    {giving \o taking \o new :
       giving \in GivingWays(Positives(entries)),
       taking \in TakingWays(Negatives(entries)),
       new    \in NewWays(Newcomers(entries))}

Standings(givers) == AssignTiers(TierInputs(givers))

\* The tracks of the leaderboard.
TopPro(givers)  == {u \in givers \ dead : ConsumedTotal(u) > 0}
TopNoob(givers) == {u \in Users \ givers : ConsumedTotal(u) > 0}
Generous        == {u \in Users : DonatedLive(u) > 0}

-----------------------------------------------------------------------------
(* Properties *)

\* "used by you" on the profile is what was burned on the user's grants, after
\* any re-donations, returns, draws and cancellations: the four queries it is
\* computed from take the same view of a cancelled request, and the max(0, ..)
\* around it hides nothing.
UsedByYou == \A u \in Users : DonationsConsumed(u) = BurnedOn(Routed(u))

\* Without overshoot the pieces of a giver's bar (used, pledged and consumed,
\* chipped in and consumed or not, left) add up to his quota, although each is
\* cut off at zero and chains of grants burn his PAT for others.
NothingOvershot == \A g \in GrantIds : over[g] = 0
BarAddsUp ==
    NothingOvershot =>
      \A u \in rows : PersonalRemaining(u) >= 0 =>
        quota[u] = selfBurn[u] + PledgeUsed(u) + PledgeRemaining(u)
                     + PersonalBurned(u) + DonatedRemaining(u) + LeftOn(u)

\* "Unused = budget-used = the sum of each giver's leftover credit at cycle end"
\* (reports.py:233).  Every credit the givers brought is kept, pledged,
\* returned to the pool, held on a grant or burned, and it is at one of these
\* places only.  What was booked as overshoot is in no balance.
LeftOver ==
    Retained + Total([u \in rows |-> PledgeRemaining(u)], rows)
      + Total(Capacity, ContributionIds) + NetTotal(GrantRemaining, GrantIds)
CreditConserved == NothingOvershot => BudgetTotal - UsedTotal = LeftOver

\* Profile, leaderboard, dashboard and report "all derive the same number"
\* (web_routes.py:296-297): what is given is what is taken, and what all users
\* consumed is what the cycle used, whoever is a giver by now.
ReportsAgree ==
    LET donated  == [u \in Users |-> DonatedLive(u)]
        consumed == [u \in Users |-> ConsumedTotal(u)]
        given    == Total(donated, Users)
        ownDraws == BurnedOn({g \in GrantIds : Recipient(g) = grants[g].donor})
        reported == Rotated + DonatedToNonPat
    IN  /\ given = Total([u \in Users |-> ConsumedFromOthers(u)], Users)
        /\ given + ownDraws = reported
        /\ Total(consumed, Users) = UsedTotal
        /\ \A givers \in {{}, rows} :
             /\ ToPat(givers) + ToNonPat(givers) = reported
             /\ TopPro(givers) \cup TopNoob(givers) \cup (givers \cap dead)
                  = {u \in Users : consumed[u] > 0} \cup (givers \cap dead)
             /\ \A u \in givers : ToOtherGivers(u, givers) <= donated[u]

\* Whoever consumed or was consumed from is in one of the two tallies of the
\* dashboard: "they are still a host and must not vanish from both tallies"
\* (reports.py:114-115), also when the row, the role or the PAT is gone.
NobodyVanishes ==
    \A pats \in {{}, Users} :
        /\ Consumers \cup Sources \subseteq ActiveGivers(pats) \cup ActiveConsumers
        /\ ActiveGivers(pats) \cap ActiveConsumers = {}

\* A host who gave more on balance is never listed or banded below one who
\* gave less, and each working host has one standing.
Grade(tier) == CHOOSE i \in 1 .. Len(TierOrder) : TierOrder[i] = tier
StandingsInOrder ==
    \A givers \in SUBSET Users : \A ranked \in Standings(givers) :
        /\ \A u \in givers \ dead : \E i \in DOMAIN ranked : ranked[i].user = u
        /\ \A i, j \in DOMAIN ranked :
             /\ ranked[i].user = ranked[j].user => i = j
             /\ ranked[i].tier # "newcomer" /\ ranked[j].tier # "newcomer"
                  /\ ranked[i].net > ranked[j].net
                  => i < j /\ Grade(ranked[i].tier) <= Grade(ranked[j].tier)
=============================================================================
