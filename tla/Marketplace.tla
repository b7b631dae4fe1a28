---------------------------- MODULE Marketplace ----------------------------
(***************************************************************************)
(* The credit marketplace of ctc/accounting/engine.py over the tables of   *)
(* ctc/store/accounting_store.py, for one cycle: givers pledge a part of   *)
(* their quota to the shared pool, users post requests, and a request is   *)
(* funded by personal grants, from the pool, or with credit its funder     *)
(* received himself.  Received credit can also be returned to the pool.    *)
(*                                                                         *)
(* Nothing in the database is a balance.  Grants, contributions and        *)
(* consumption events are appended, a request is cancelled by a mark, and  *)
(* every balance below is a sum over those rows.  Each action is one       *)
(* BEGIN IMMEDIATE transaction, that is one call of the engine.            *)
(*                                                                         *)
(* A row's position in its table stands for created_at (two rows of one    *)
(* second are ordered as they were inserted); 0 is a null row id.          *)
(***************************************************************************)
EXTENDS CreditSums

CONSTANTS
    Users, NoUser,      \* the members of the team, and the null user
    Requests,           \* the requests that may be posted ...
    Owner, Needed,      \* ... with requester_id and amount_needed
    QuotaChoices,       \* the quotas a user's PAT may be reported to have
    MaxAmount,          \* bound: the amount one call asks for
    MaxGrants,          \* bound: rows of grants
    MaxContributions,   \* bound: rows of pool_contributions
    MaxBurn             \* bound: what is burned in all

ASSUME UsersAssumption ==
    /\ IsFiniteSet(Users)
    /\ NoUser \notin Users
    /\ QuotaChoices \in [Users -> SUBSET Nat]

ASSUME RequestsAssumption ==
    /\ Owner \in [Requests -> Users]
    /\ Needed \in [Requests -> Nat \ {0}]

ASSUME BoundsAssumption ==
    /\ MaxAmount \in Nat
    /\ MaxGrants \in Nat
    /\ MaxContributions \in Nat
    /\ MaxBurn \in Nat

VARIABLES
    rows,           \* users with a giver_cycles row
    quota, pledge,  \* that row's columns
    selfBurn,       \* SUM of OWN and BYPASS events per giver
    dead,           \* users whose stored PAT has a DEAD_VERDICTS verdict
    posted,         \* rows of requests
    expired,        \* requests with now >= expires_at
    cancelled,      \* requests with cancelled_at set
    grants,         \* rows of grants
    contributions,  \* rows of pool_contributions
    used,           \* SUM of GRANT events per grant
    over            \* history: the part of used[g] booked beyond g's remaining

accountVars == <<rows, quota, pledge, selfBurn, dead>>
requestVars == <<posted, expired, cancelled>>
burnVars    == <<used, over>>
vars == <<accountVars, requestVars, grants, contributions, burnVars>>

-----------------------------------------------------------------------------
(* Rows *)

GrantIds        == DOMAIN grants
ContributionIds == DOMAIN contributions

Recipient(g) == Owner[grants[g].request]
IsRoot(g)    == grants[g].origin = 0

Voided(g) == grants[g].request \in cancelled

Roots(u, source) ==
    {g \in GrantIds : grants[g].donor = u /\ grants[g].source = source /\ IsRoot(g)}

Children(g)  == {c \in GrantIds : grants[c].origin = g}
Transfers(g) == {c \in Children(g) : grants[c].contribution = 0}
Draws(p)     == {c \in GrantIds : grants[c].contribution = p}

OnRequest(r) == {g \in GrantIds : grants[g].request = r}

-----------------------------------------------------------------------------
(* Balances *)

GrantAmount == [g \in GrantIds |-> grants[g].amount]
ReturnedAmount == [p \in ContributionIds |-> contributions[p].amount]

Funded(r) == Total(GrantAmount, OnRequest(r))

\* _LEAF_CHARGE: a child charges its funder in full while its request is live,
\* and what was burned of it once the request is cancelled.
LeafCharge ==
    [c \in GrantIds |-> IF Voided(c) THEN Least(grants[c].amount, used[c])
                                     ELSE grants[c].amount]

Transferred(g) == Total(LeafCharge, Transfers(g))
Contributed(g) == Total(ReturnedAmount, {p \in ContributionIds : contributions[p].origin = g})
Moved(g)       == Total(LeafCharge, Children(g))
Drawn(p)       == Total(LeafCharge, Draws(p))

\* What is left in a contribution; nothing once its origin's request is cancelled.
Capacity ==
    [p \in ContributionIds |->
        IF Voided(contributions[p].origin) THEN 0
        ELSE Greatest(0, contributions[p].amount - Drawn(p))]

\* What the recipient can still burn or pass on.  Negative after an overshoot.
GrantRemaining ==
    [g \in GrantIds |->
        IF Voided(g) THEN 0
        ELSE grants[g].amount - used[g] - Transferred(g) - Contributed(g)]

\* Variants of Charge: forgetting what moved on, and the bound by the amount.
ChargeForgettingMoved ==
    [g \in GrantIds |-> IF Voided(g) THEN Least(grants[g].amount, used[g])
                                     ELSE grants[g].amount]
ChargeUnbounded ==
    [g \in GrantIds |-> IF Voided(g) THEN used[g] + Moved(g) ELSE grants[g].amount]

\* What a root grant charges its donor.
Charge ==
    [g \in GrantIds |-> IF Voided(g) THEN Least(grants[g].amount, used[g] + Moved(g))
                                     ELSE grants[g].amount]

GrantedOut(u, source) == Total(Charge, Roots(u, source))

PledgeUsed(u)      == GrantedOut(u, "pool")
PledgeRemaining(u) == Greatest(0, pledge[u] - PledgeUsed(u))

PersonalRemaining(u) ==
    IF u \in rows THEN quota[u] - pledge[u] - selfBurn[u] - GrantedOut(u, "personal")
                  ELSE 0

\* Variant without the depth cap.
ReceivedAtAnyDepth(u) == {g \in GrantIds : Recipient(g) = u}

Received(u) == {g \in GrantIds : Recipient(g) = u /\ IsRoot(g)}

ReDonatableRemaining(u) == NetTotal(GrantRemaining, Received(u))

PoolAvailable ==
    Total([u \in rows \ dead |-> PledgeRemaining(u)], rows \ dead)
      + Total(Capacity, ContributionIds)

-----------------------------------------------------------------------------
(* derive_status: CANCELLED before FULFILLED before EXPIRED. *)

Fulfilled(r) == Funded(r) >= Needed[r]

Fundable(r) ==
    /\ r \in posted \ cancelled
    /\ ~ Fulfilled(r)
    /\ r \notin expired

\* Variant that forgets earlier grants.
NeededInAll(r) == Needed[r]

Missing(r) == Needed[r] - Funded(r)

-----------------------------------------------------------------------------
Init ==
    /\ rows = {}
    /\ quota = [u \in Users |-> 0]
    /\ pledge = [u \in Users |-> 0]
    /\ selfBurn = [u \in Users |-> 0]
    /\ dead = {}
    /\ posted = {} /\ expired = {} /\ cancelled = {}
    /\ grants = << >>
    /\ contributions = << >>
    /\ used = [g \in 1 .. MaxGrants |-> 0]
    /\ over = [g \in 1 .. MaxGrants |-> 0]

-----------------------------------------------------------------------------
(* Requests *)

CreateRequest(r) ==
    /\ r \notin posted
    /\ posted' = posted \cup {r}
    /\ UNCHANGED <<accountVars, expired, cancelled, grants, contributions, burnVars>>

\* The clock passes expires_at.  It makes no difference to a request that is
\* cancelled or fulfilled, and those two states are final.
Expire(r) ==
    /\ r \in posted \ (expired \cup cancelled)
    /\ ~ Fulfilled(r)
    /\ expired' = expired \cup {r}
    /\ UNCHANGED <<accountVars, posted, cancelled, grants, contributions, burnVars>>

\* By its owner.  An expired request can be cancelled, a fulfilled one not.
CancelRequest(r) ==
    /\ r \in posted \ cancelled
    /\ ~ Fulfilled(r)
    /\ cancelled' = cancelled \cup {r}
    /\ UNCHANGED <<accountVars, posted, expired, grants, contributions, burnVars>>

-----------------------------------------------------------------------------
(* Funding *)

PersonalGrant(r, u, n) ==
    [request |-> r, donor |-> u, amount |-> n, source |-> "personal",
     origin |-> 0, via |-> NoUser, contribution |-> 0]

PledgeDraw(r, u, n) == [PersonalGrant(r, u, n) EXCEPT !.source = "pool"]

ContributionDraw(r, p, n) ==
    [PledgeDraw(r, contributions[p].donor, n)
        EXCEPT !.origin = contributions[p].origin, !.contribution = p]

Transfer(r, g, n) ==
    [PersonalGrant(r, grants[g].donor, n)
        EXCEPT !.source = grants[g].source, !.origin = g, !.via = Recipient(g)]

AddGrants(new) ==
    /\ Len(grants) + Len(new) <= MaxGrants
    /\ grants' = grants \o new
    /\ UNCHANGED <<accountVars, requestVars, contributions, burnVars>>

\* Variants without the check of the cap, and without the donor's balance in it.
FundRequestUnchecked(r, donor, amount) ==
    LET cap == Least(amount, Least(Missing(r), PersonalRemaining(donor)))
    IN  /\ donor # Owner[r]
        /\ Fundable(r)
        /\ AddGrants(<< PersonalGrant(r, donor, cap) >>)
FundRequestOnCredit(r, donor, amount) ==
    LET cap == Least(amount, Missing(r))
    IN  /\ donor # Owner[r]
        /\ Fundable(r)
        /\ cap > 0
        /\ AddGrants(<< PersonalGrant(r, donor, cap) >>)

FundRequest(r, donor, amount) ==
    LET cap == Least(amount, Least(Missing(r), PersonalRemaining(donor)))
    IN  /\ donor # Owner[r]
        /\ Fundable(r)
        /\ cap > 0
        /\ AddGrants(<< PersonalGrant(r, donor, cap) >>)

Older(i, j)      == i < j
DeeperFirst(u, v) == PledgeRemaining(u) >= PledgeRemaining(v)

\* Variant that passes over returned credit of a dead PAT.
UndrawnOnLivePats == {p \in ContributionIds : Capacity[p] > 0 /\ contributions[p].donor \notin dead}

Undrawn    == {p \in ContributionIds : Capacity[p] > 0}
PoolGivers == {u \in rows \ dead : PledgeRemaining(u) > 0}

\* By the owner of r.  Contributions drain before the pledges, the oldest
\* contribution and the largest pledge first.
FundRequestFromPool(r, amount) ==
    LET cap == Least(amount, Least(Missing(r), PoolAvailable))
    IN  /\ Fundable(r)
        /\ cap > 0
        /\ \E ps \in Walks(Undrawn, Older), us \in Walks(PoolGivers, DeeperFirst) :
             LET returned == [i \in 1 .. Len(ps) |-> Capacity[ps[i]]]
                 pledged  == [i \in 1 .. Len(us) |-> PledgeRemaining(us[i])]
             IN  \E fromReturned \in Drains(returned, cap),
                    fromPledged \in Drains(pledged, cap - Due(returned, cap)) :
                   AddGrants([i \in 1 .. Len(fromReturned) |->
                                 ContributionDraw(r, ps[i], fromReturned[i])]
                             \o [i \in 1 .. Len(fromPledged) |->
                                    PledgeDraw(r, us[i], fromPledged[i])])

\* actor chips in with what was granted to him, oldest grant first.  Credit
\* that came out of the requester's own PAT is left out.
FundRequestFromReceived(r, actor, amount) ==
    LET cap == Least(amount, Least(Missing(r), ReDonatableRemaining(actor)))
        eligible == {g \in Received(actor) : /\ grants[g].donor # Owner[r]
                                             /\ GrantRemaining[g] > 0}
    IN  /\ actor # Owner[r]
        /\ Fundable(r)
        /\ cap > 0
        /\ eligible # {}
        /\ \E gs \in Walks(eligible, Older) :
             \E takes \in Drains([i \in 1 .. Len(gs) |-> GrantRemaining[gs[i]]], cap) :
               AddGrants([i \in 1 .. Len(takes) |-> Transfer(r, gs[i], takes[i])])

ReturnReceivedToPool(actor, amount) ==
    LET cap == Least(amount, ReDonatableRemaining(actor))
        eligible == {g \in Received(actor) : GrantRemaining[g] > 0}
    IN  /\ cap > 0
        /\ \E gs \in Walks(eligible, Older) :
             \E takes \in Drains([i \in 1 .. Len(gs) |-> GrantRemaining[gs[i]]], cap) :
               /\ Len(contributions) + Len(takes) <= MaxContributions
               /\ contributions' = contributions \o
                    [i \in 1 .. Len(takes) |->
                        [contributor |-> actor, origin |-> gs[i],
                         donor |-> grants[gs[i]].donor, amount |-> takes[i]]]
        /\ UNCHANGED <<accountVars, requestVars, grants, burnVars>>

-----------------------------------------------------------------------------
(* A giver's row.  SetPledge is also retract_pledge, with p = PledgeUsed(u); *)
(* its callers only name users with the role giver, who have a row.          *)

\* Variant without the floor of what is drawn already.
SetPledgeFreely(u, p) ==
    /\ u \in rows
    /\ p <= quota[u]
    /\ pledge' = [pledge EXCEPT ![u] = p]
    /\ UNCHANGED <<rows, quota, selfBurn, dead, requestVars, grants, contributions, burnVars>>

SetPledge(u, p) ==
    /\ u \in rows
    /\ PledgeUsed(u) <= p /\ p <= quota[u]
    /\ pledge' = [pledge EXCEPT ![u] = p]
    /\ UNCHANGED <<rows, quota, selfBurn, dead, requestVars, grants, contributions, burnVars>>

\* Variant that cuts the pledge below what is drawn.
SetQuotaFreely(u, q) ==
    /\ quota' = [quota EXCEPT ![u] = q]
    /\ pledge' = [pledge EXCEPT ![u] = Least(pledge[u], q)]
    /\ rows' = rows \cup {u}
    /\ UNCHANGED <<selfBurn, dead, requestVars, grants, contributions, burnVars>>

SetQuota(u, q) ==
    /\ PledgeUsed(u) <= q
    /\ quota' = [quota EXCEPT ![u] = q]
    /\ pledge' = [pledge EXCEPT ![u] = Least(pledge[u], q)]
    /\ rows' = rows \cup {u}
    /\ UNCHANGED <<selfBurn, dead, requestVars, grants, contributions, burnVars>>

\* The health checker stores a verdict, or a reconnect replaces it.
SetVerdict(u, verdict) ==
    /\ u \in rows
    /\ dead' = IF verdict = "dead" THEN dead \cup {u} ELSE dead \ {u}
    /\ UNCHANGED <<rows, quota, pledge, selfBurn, requestVars, grants, contributions, burnVars>>

-----------------------------------------------------------------------------
(* The sum of all events, which MaxBurn bounds. *)
Burned == Total(used, 1 .. MaxGrants) + Total(selfBurn, Users)

(* record_consumption.  With overshoot it books on a grant whatever was spent *)
(* upstream, also when the request was cancelled in the meantime.            *)

RecordGrant(g, credits, overshoot) ==
    LET room == Greatest(0, GrantRemaining[g])
    IN  /\ overshoot \/ credits <= room
        /\ Burned + credits <= MaxBurn
        /\ used' = [used EXCEPT ![g] = @ + credits]
        /\ over' = [over EXCEPT ![g] = @ + Greatest(0, credits - room)]
        /\ UNCHANGED <<accountVars, requestVars, grants, contributions>>

\* OWN (always booked with overshoot) and BYPASS.
RecordSelf(u, credits) ==
    /\ u \in rows
    /\ Burned + credits <= MaxBurn
    /\ selfBurn' = [selfBurn EXCEPT ![u] = @ + credits]
    /\ UNCHANGED <<rows, quota, pledge, dead, requestVars, grants, contributions, burnVars>>

-----------------------------------------------------------------------------
\* What the control plane does ...
Trade ==
    \/ \E r \in Requests : CreateRequest(r) \/ Expire(r) \/ CancelRequest(r)
    \/ \E r \in Requests, u \in Users, n \in 1 .. MaxAmount : FundRequest(r, u, n)
    \/ \E r \in Requests, n \in 1 .. MaxAmount : FundRequestFromPool(r, n)
    \/ \E r \in Requests, u \in Users, n \in 1 .. MaxAmount : FundRequestFromReceived(r, u, n)
    \/ \E u \in Users, n \in 1 .. MaxAmount : ReturnReceivedToPool(u, n)
    \/ \E u \in Users : \E p \in 0 .. quota[u] : SetPledge(u, p)
    \/ \E u \in Users : \E q \in QuotaChoices[u] : SetQuota(u, q)
    \/ \E u \in Users, verdict \in {"dead", "valid"} : SetVerdict(u, verdict)

\* ... and what is burned through the proxy, or past it.
Consume ==
    \/ \E g \in GrantIds, n \in 1 .. MaxAmount, overshoot \in BOOLEAN :
         RecordGrant(g, n, overshoot)
    \/ \E u \in Users, n \in 1 .. MaxAmount : RecordSelf(u, n)

Next == Trade \/ Consume

Spec == Init /\ [][Next]_vars

-----------------------------------------------------------------------------
(* Properties *)

GrantRows ==
    [request : Requests, donor : Users, amount : Nat \ {0},
     source : {"personal", "pool"}, origin : Nat,
     via : Users \cup {NoUser}, contribution : Nat]
ContributionRows ==
    [contributor : Users, origin : Nat, donor : Users, amount : Nat \ {0}]

\* Every table and column holds what its declaration allows.
TypeOK ==
    /\ rows \subseteq Users
    /\ quota \in [Users -> Nat] /\ pledge \in [Users -> Nat] /\ selfBurn \in [Users -> Nat]
    /\ dead \subseteq Users
    /\ posted \subseteq Requests /\ expired \subseteq Requests /\ cancelled \subseteq Requests
    /\ grants \in Seq(GrantRows) /\ Len(grants) <= MaxGrants
    /\ contributions \in Seq(ContributionRows)
    /\ used \in [1 .. MaxGrants -> Nat]
    /\ over \in [1 .. MaxGrants -> Nat]

\* However many funders race for a request, and in however many takes one call
\* fills it, its grants never add up to more than it asked for.
NeverOverfunded == \A r \in Requests : Funded(r) <= Needed[r]

\* Re-donation is at most one hop deep: a child hangs off a root grant, burns
\* the same donor's PAT, and was passed on by whom the root was granted to;
\* a draw of returned credit hangs off the contribution's own origin.
ChildWellFormed(c) ==
    LET o == grants[c].origin
        p == grants[c].contribution
    IN  /\ o \in 1 .. (c - 1) /\ IsRoot(o)
        /\ grants[c].donor = grants[o].donor
        /\ p = 0 => /\ grants[c].source = grants[o].source
                    /\ grants[c].via = Recipient(o)
                    /\ grants[c].via # Recipient(c)
                    /\ grants[c].donor # Recipient(c)
        /\ p # 0 => /\ p \in ContributionIds
                    /\ contributions[p].origin = o

ContributionWellFormed(p) ==
    LET o == contributions[p].origin
    IN  /\ o \in GrantIds /\ IsRoot(o)
        /\ contributions[p].donor = grants[o].donor
        /\ contributions[p].contributor = Recipient(o)

ChainWellFormed ==
    /\ \A c \in GrantIds : ~ IsRoot(c) => ChildWellFormed(c)
    /\ \A c \in GrantIds : IsRoot(c) => grants[c].contribution = 0
    /\ \A p \in ContributionIds : ContributionWellFormed(p)

\* No credit is created: what was burned out of a root grant, along all the
\* chains that start at it, and what can still be burned or drawn there, is
\* charged to its donor, except for what was booked as overshoot.  This must
\* survive cancelling the root's request, a child's, or a draw's, in any order.
Spendable(g)  == Greatest(0, GrantRemaining[g])
Tree(g)       == {g} \cup Children(g)
Liability(g)  ==
    Total([c \in GrantIds |-> used[c] + Spendable(c)], Tree(g))
      + Total(Capacity, {p \in ContributionIds : contributions[p].origin = g})
CreditBacked ==
    \A g \in GrantIds : IsRoot(g) => Liability(g) <= Charge[g] + Total(over, Tree(g))

\* The pool never promises more of a giver than he pledged: only overshoot on
\* cancelled grants can charge a pledge beyond its amount, although cancelled
\* fills are refunded and drawn again and the pledge itself is lowered.
PledgeCoversDraws ==
    \A u \in Users :
      PledgeUsed(u) <= pledge[u] + Total(over, {g \in GrantIds : grants[g].donor = u})

\* Cancelling a request only gives back: no donor is charged more for it, no
\* balance of a giver falls, no other request's grant loses credit, and what
\* was burned out of the cancelled grants stays charged.
CancelRefunds ==
    [][cancelled' # cancelled =>
        /\ \A g \in GrantIds :
             /\ Charge'[g] <= Charge[g]
             /\ ~ Voided(g)' => GrantRemaining'[g] >= GrantRemaining[g]
             /\ IsRoot(g) => Charge'[g] >= Least(grants[g].amount, used[g] + Moved(g)')
        /\ \A u \in Users : /\ PersonalRemaining(u)' >= PersonalRemaining(u)
                            /\ PledgeRemaining(u)' >= PledgeRemaining(u)]_vars

\* A fill takes from each of its sources no more than that source had: one
\* call makes several takes, and a source is looked at before the others were
\* drawn.
SourceHolds(c) ==
    LET g == grants[c]
    IN  IF IsRoot(c) THEN IF g.source = "personal" THEN PersonalRemaining(g.donor) >= 0
                          ELSE PledgeUsed(g.donor) <= pledge[g.donor]
        ELSE IF g.contribution = 0 THEN GrantRemaining[g.origin] >= 0
        ELSE Drawn(g.contribution) <= contributions[g.contribution].amount
FillsWithinSources ==
    [][\A c \in GrantIds' \ GrantIds : SourceHolds(c)']_vars

\* Returned credit moves on before a pledge is touched: a fill that draws a
\* pledge leaves no contribution with anything in it.
ReturnedCreditFirst ==
    [][(\E c \in GrantIds' \ GrantIds : (IsRoot(c) /\ grants[c].source = "pool")')
         => \A p \in ContributionIds : Capacity'[p] = 0]_vars

\* "no pool fill is ever routed to them", the givers whose PAT is dead
\* (docs/guide/04-credits-and-accounting.md:242-246).
NoPoolFillOnDeadPat ==
    [][\A c \in GrantIds' \ GrantIds :
         grants'[c].source = "pool" /\ grants'[c].via = NoUser
           => grants'[c].donor \notin dead]_vars
=============================================================================
