------------------------------- MODULE Debit -------------------------------
(***************************************************************************)
(* What a call through the proxy costs its consumer: select_source and     *)
(* debit of ctc/routing/attribution.py, racing with the control plane.     *)
(*                                                                         *)
(* A source is selected before the call is forwarded.  When the response   *)
(* has been relayed, its cost is booked on the source, and for a grant     *)
(* also on the consumer's other grants.  Each of these bookings is a       *)
(* transaction of its own, sized by a balance that was read before it.     *)
(* The proxy is one asyncio process and a debit does not await: debits do  *)
(* not overlap, but the control plane acts between any two of their steps, *)
(* and other calls are forwarded while this one waits for its response.    *)
(***************************************************************************)
EXTENDS Marketplace

CONSTANTS
    Calls, NoCall,  \* billable calls
    Caller,         \* their consumers
    Costs           \* the costs a response may report

ASSUME CallsAssumption ==
    /\ IsFiniteSet(Calls)
    /\ Caller \in [Calls -> Users]
    /\ NoCall \notin Calls
    /\ Costs \subseteq 0 .. MaxAmount

VARIABLES
    stage,   \* where each call is
    source,  \* the Source it was forwarded with
    debit,   \* the debit that is running, with the rest of its order
    cost,    \* history: what a call's response reported
    lost     \* history: what of it was never booked

callVars == <<stage, source, debit, cost, lost>>
allVars  == <<vars, callVars>>

-----------------------------------------------------------------------------
Own(u)    == [bucket |-> "own", giver |-> u, grant |-> 0]
Granted(g) == [bucket |-> "grant", giver |-> grants[g].donor, grant |-> g]
NoSource  == [bucket |-> "none", giver |-> NoUser, grant |-> 0]

ActiveGrants(u) == {g \in GrantIds : Recipient(g) = u /\ GrantRemaining[g] > 0}

\* select_source takes the first of them: a giver's own quota, then the grants.
\* The ones before it may be skipped (live quota exhausted, no PAT stored,
\* excluded after a 402 or 401), so any can be the first.
Sources(u) ==
    {Granted(g) : g \in ActiveGrants(u)}
      \cup {Own(v) : v \in {w \in rows : w = u /\ PersonalRemaining(w) > 0}}

\* No debit is running.
Idle == [call |-> NoCall, residual |-> 0, take |-> 0, lane |-> << >>]

InitDebit ==
    /\ Init
    /\ stage = [c \in Calls |-> "new"]
    /\ source = [c \in Calls |-> NoSource]
    /\ debit = Idle
    /\ cost = [c \in Calls |-> 0]
    /\ lost = [c \in Calls |-> 0]

-----------------------------------------------------------------------------
\* select_source, and the call goes upstream.
Forward(c) ==
    /\ debit = Idle
    /\ stage[c] = "new"
    /\ \E s \in Sources(Caller[c]) : source' = [source EXCEPT ![c] = s]
    /\ stage' = [stage EXCEPT ![c] = "forwarded"]
    /\ UNCHANGED <<vars, debit, cost, lost>>

\* The response is relayed and costs nothing, or is no 200.
EndFree(c) ==
    /\ debit = Idle
    /\ stage[c] = "forwarded"
    /\ stage' = [stage EXCEPT ![c] = "done"]
    /\ UNCHANGED <<vars, source, debit, cost, lost>>

\* The grants to spill over: the source, then the consumer's other ones.
BeginDebit(c, n) ==
    /\ debit = Idle
    /\ stage[c] = "forwarded"
    /\ n > 0
    /\ \E others \in Walks(ActiveGrants(Caller[c]) \ {source[c].grant}, Older) :
         debit' = [call |-> c, residual |-> n, take |-> 0,
                   lane |-> IF source[c].bucket = "grant"
                            THEN <<source[c].grant>> \o others ELSE << >>]
    /\ stage' = [stage EXCEPT ![c] = "debiting"]
    /\ cost' = [cost EXCEPT ![c] = n]
    /\ UNCHANGED <<vars, source, lost>>

\* Variant that looks at the same grant again.
NextGrantAgain == debit

NextGrant == [debit EXCEPT !.lane = Tail(@)]

\* grant_remaining, read outside any transaction.
ReadRoom ==
    /\ debit # Idle /\ debit.lane # << >> /\ debit.take = 0
    /\ LET room == GrantRemaining[Head(debit.lane)]
       IN  debit' = IF room <= 0 THEN NextGrant
                    ELSE [debit EXCEPT !.take = Least(room, debit.residual)]
    /\ UNCHANGED <<vars, stage, source, cost, lost>>

\* Variant that forgets `residual -= take`.
LeftAfterOnlyMoving == [debit EXCEPT !.lane = Tail(@), !.take = 0]

LeftAfterTake ==
    [call |-> debit.call, residual |-> debit.residual - debit.take,
     take |-> 0, lane |-> Tail(debit.lane)]

Close(outcome) ==
    /\ debit' = Idle
    /\ stage' = [stage EXCEPT ![debit.call] = outcome]

\* Variant that only looks for an end at the end of the lane.
ProceedAlways == debit' = LeftAfterTake /\ UNCHANGED stage

Proceed ==
    IF LeftAfterTake.residual > 0 THEN debit' = LeftAfterTake /\ UNCHANGED stage
                                  ELSE Close("done")

\* Variants: the take is booked with overshoot, and without any check.
BookTakeOvershooting ==
    /\ debit # Idle /\ debit.take > 0
    /\ RecordGrant(Head(debit.lane), debit.take, TRUE)
    /\ Proceed
    /\ UNCHANGED <<source, cost, lost>>
BookTakeBlindly ==
    /\ debit # Idle /\ debit.take > 0
    /\ used' = [used EXCEPT ![Head(debit.lane)] = @ + debit.take]
    /\ Proceed
    /\ UNCHANGED <<accountVars, requestVars, grants, contributions, over, source, cost, lost>>

BookTake ==
    /\ debit # Idle /\ debit.take > 0
    /\ RecordGrant(Head(debit.lane), debit.take, FALSE)
    /\ Proceed
    /\ UNCHANGED <<source, cost, lost>>

\* record_consumption raises InsufficientCredit: the grant no longer holds the
\* take.  The proxy logs it and the rest of the debit is gone.
RefuseTake ==
    /\ debit # Idle /\ debit.take > 0
    /\ debit.take > GrantRemaining[Head(debit.lane)]
    /\ Close("aborted")
    /\ lost' = [lost EXCEPT ![debit.call] = debit.residual]
    /\ UNCHANGED <<vars, source, cost>>

\* What the grants did not hold is booked on the source, which may overshoot.
BookRest ==
    /\ debit # Idle /\ debit.lane = << >>
    /\ LET s == source[debit.call]
       IN  IF s.bucket = "grant" THEN RecordGrant(s.grant, debit.residual, TRUE)
                                 ELSE RecordSelf(s.giver, debit.residual)
    /\ Close("done")
    /\ UNCHANGED <<source, cost, lost>>

DebitStep == ReadRoom \/ BookTake \/ RefuseTake \/ BookRest

NextDebit ==
    \/ \E c \in Calls : Forward(c) \/ EndFree(c)
    \/ \E c \in Calls, n \in Costs : BeginDebit(c, n)
    \/ DebitStep
    \/ Trade /\ UNCHANGED callVars

\* A debit runs to its end: it is synchronous code.
SpecDebit == InitDebit /\ [][NextDebit]_allVars /\ WF_allVars(DebitStep)

-----------------------------------------------------------------------------
(* Properties *)

Debits == [call : Calls, residual : Nat \ {0}, take : Nat, lane : Seq(1 .. MaxGrants)]
TypeOKDebit ==
    /\ stage \in [Calls -> {"new", "forwarded", "debiting", "done", "aborted"}]
    /\ \A c \in Calls :
         source[c] \in [bucket : {"own", "grant", "none"}, giver : Users \cup {NoUser},
                        grant : 0 .. MaxGrants]
    /\ debit \in Debits \cup {Idle}
    /\ cost \in [Calls -> Nat] /\ lost \in [Calls -> Nat]

\* Taken together with the control plane, the proxy's calls are a behaviour of
\* the marketplace: each booking is one of its transactions, whatever happened
\* since the balances it rests on were read.
ImplementsMarketplace == Spec

\* "no single grant is driven below zero" by a spill: only the residual, after
\* all other grants were tried, is booked beyond what is there, and only on the
\* grant the call was forwarded with.
OnlySourceOvershoots ==
    [][\A g \in GrantIds : over'[g] # over[g] =>
         /\ debit # Idle /\ debit.lane = << >>
         /\ source[debit.call].grant = g]_allVars

\* Each unit a response cost is in the ledger once, or is still to be booked,
\* or was dropped by a debit that was refused.
CostAccounted ==
    Burned + Total(lost, Calls) + debit.residual = Total(cost, Calls)

\* A debit comes to an end although the control plane keeps moving credit.
DebitEnds == debit # Idle ~> debit = Idle

\* "any leftover lands (with overshoot allowed, since the spend already
\* happened upstream) on the original source"
\* (docs/guide/04-credits-and-accounting.md:223-225).
NothingLost == \A c \in Calls : lost[c] = 0
=============================================================================
