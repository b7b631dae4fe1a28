---------------------------- MODULE Debit_proofs ----------------------------
(***************************************************************************)
(* The proxy's debits, together with the control plane, are a behaviour of *)
(* the marketplace, so its theorems hold for the running system; and no    *)
(* part of a cost is booked twice.                                         *)
(***************************************************************************)
EXTENDS Debit, Backing_proofs

USE UsersAssumption, RequestsAssumption, BoundsAssumption, CallsAssumption

\* What is true of a debit between two of its steps.
SourceKnown(c) ==
    /\ source[c].bucket \in {"own", "grant"}
    /\ source[c].bucket = "grant" => source[c].grant \in GrantIds
    /\ source[c].bucket = "own" => source[c].giver \in Users
LaneKnown ==
    /\ debit.lane \in Seq(Nat)
    /\ \A i \in 1 .. Len(debit.lane) : debit.lane[i] \in GrantIds
DebitInv ==
    /\ DOMAIN stage = Calls /\ DOMAIN source = Calls
    /\ \A c \in Calls : stage[c] \in {"forwarded", "debiting"} => SourceKnown(c)
    /\ debit \in [call : Calls \cup {NoCall}, residual : 0 .. MaxAmount,
                  take : 0 .. MaxAmount, lane : Seq(Nat)]
    /\ LaneKnown
    /\ debit.take <= debit.residual
    /\ debit.take > 0 => debit.lane # << >>
    /\ debit # Idle => /\ debit.call \in Calls /\ stage[debit.call] = "debiting"
                       /\ debit.residual > 0
    /\ cost \in [Calls -> Nat] /\ lost \in [Calls -> Nat]
    /\ \A c \in Calls : /\ stage[c] \in {"new", "forwarded"} => cost[c] = 0
                        /\ stage[c] # "aborted" => lost[c] = 0

\* Grants are never removed or changed.
LEMMA GrantsGrow ==
  ASSUME TypeOK, [Next]_vars
  PROVE  /\ GrantIds \subseteq GrantIds'
         /\ \A g \in GrantIds : grants'[g] = grants[g]
<1>1. CASE \E r \in Requests : \E new : Fill(r, new)
  <2> PICK r \in Requests : \E new : Fill(r, new)
    BY <1>1
  <2> PICK new : Fill(r, new)
    OBVIOUS
  <2> QED BY AfterFill, Rows
<1>2. CASE OtherStep
  BY <1>2, OtherStepKeepsGrants DEF GrantIds
<1> QED
  BY <1>1, <1>2, Steps

\* A step that leaves the calls alone keeps what is known of them.
LEMMA TradeKeepsDebits ==
  ASSUME TypeOK, DebitInv, [Next]_vars, UNCHANGED callVars
  PROVE  DebitInv'
<1>1. GrantIds \subseteq GrantIds'
  BY GrantsGrow
<1>2. stage' = stage /\ source' = source /\ debit' = debit /\ cost' = cost /\ lost' = lost
  BY DEF callVars
<1>3. \A c \in Calls : SourceKnown(c) => SourceKnown(c)'
  BY <1>1, <1>2 DEF SourceKnown
<1>4. LaneKnown'
  BY <1>1, <1>2 DEF DebitInv, LaneKnown
<1> QED
  BY <1>2, <1>3, <1>4 DEF DebitInv, Idle

-----------------------------------------------------------------------------
(* The steps of a call. *)

\* A walk over a finite set of numbers visits only its members.
LEMMA WalkRange ==
  ASSUME NEW C \in SUBSET Nat, IsFiniteSet(C), NEW w \in Walks(C, Older)
  PROVE  w \in Seq(Nat) /\ \A i \in 1 .. Len(w) : w[i] \in C
<1>1. Cardinality(C) \in Nat
  BY FS_CardinalityType
<1>2. w \in [1 .. Cardinality(C) -> C]
  BY DEF Walks
<1> HIDE DEF Walks
<1>3. w = [i \in 1 .. Cardinality(C) |-> w[i]] /\ \A i \in 1 .. Cardinality(C) : w[i] \in C
  BY <1>2
<1>4. w \in Seq(Nat) /\ Len(w) = Cardinality(C)
  BY <1>1, <1>3, RowsInOrder
<1> QED
  BY <1>3, <1>4

\* Forward: the selected source is a grant, or a giver's own quota.
LEMMA ForwardKeepsDebits ==
  ASSUME TypeOK, DebitInv, NEW c \in Calls, Forward(c)
  PROVE  DebitInv' /\ UNCHANGED vars
<1>1. PICK s \in Sources(Caller[c]) : source' = [source EXCEPT ![c] = s]
  BY DEF Forward
<1>2. /\ s.bucket \in {"own", "grant"}
      /\ s.bucket = "grant" => s.grant \in GrantIds
      /\ s.bucket = "own" => s.giver \in Users
  BY DEF Sources, ActiveGrants, Granted, Own, TypeOK
<1>3. /\ stage' = [stage EXCEPT ![c] = "forwarded"] /\ debit' = debit
      /\ cost' = cost /\ lost' = lost
      /\ UNCHANGED vars /\ GrantIds' = GrantIds
  BY DEF Forward, GrantIds, vars
<1>4. DOMAIN stage = Calls /\ DOMAIN source = Calls /\ debit = Idle /\ stage[c] = "new"
  BY DEF DebitInv, Forward
<1>5. SourceKnown(c)'
  BY <1>1, <1>2, <1>3, <1>4 DEF SourceKnown
<1>6. \A d \in Calls \ {c} : SourceKnown(d)' <=> SourceKnown(d)
  BY <1>1, <1>3, <1>4 DEF SourceKnown
<1>7. LaneKnown'
  BY <1>3 DEF DebitInv, LaneKnown
<1> QED
  BY <1>1, <1>3, <1>4, <1>5, <1>6, <1>7 DEF DebitInv, Idle

\* EndFree: nothing is debited.
LEMMA EndFreeKeepsDebits ==
  ASSUME TypeOK, DebitInv, NEW c \in Calls, EndFree(c)
  PROVE  DebitInv' /\ UNCHANGED vars
<1>1. /\ stage' = [stage EXCEPT ![c] = "done"] /\ debit' = debit /\ source' = source
      /\ cost' = cost /\ lost' = lost /\ debit = Idle
      /\ UNCHANGED vars /\ GrantIds' = GrantIds
  BY DEF EndFree, GrantIds, vars
<1>2. \A d \in Calls : SourceKnown(d)' <=> SourceKnown(d)
  BY <1>1 DEF SourceKnown
<1>3. LaneKnown'
  BY <1>1 DEF DebitInv, LaneKnown
<1> QED
  BY <1>1, <1>2, <1>3 DEF DebitInv, Idle, EndFree

\* BeginDebit: the order of a debit names grants only.
LEMMA BeginKeepsDebits ==
  ASSUME TypeOK, DebitInv, NEW c \in Calls, NEW n \in Costs, BeginDebit(c, n)
  PROVE  DebitInv' /\ UNCHANGED vars
<1> DEFINE C == ActiveGrants(Caller[c]) \ {source[c].grant}
           order(others) == IF source[c].bucket = "grant"
                            THEN <<source[c].grant>> \o others ELSE << >>
<1>1. PICK others \in Walks(C, Older) :
        debit' = [call |-> c, residual |-> n, take |-> 0, lane |-> order(others)]
  BY DEF BeginDebit
<1> DEFINE lane == order(others)
<1>2. C \subseteq GrantIds /\ IsFiniteSet(C) /\ GrantIds \subseteq Nat
  BY Rows, FS_Subset DEF ActiveGrants
<1>3. others \in Seq(Nat) /\ \A i \in 1 .. Len(others) : others[i] \in GrantIds
  <2> HIDE DEF C
  <2> QED BY <1>1, <1>2, WalkRange
<1>4. /\ stage' = [stage EXCEPT ![c] = "debiting"] /\ source' = source
      /\ cost' = [cost EXCEPT ![c] = n] /\ lost' = lost
      /\ UNCHANGED vars /\ GrantIds' = GrantIds
      /\ stage[c] = "forwarded" /\ n > 0 /\ n \in 0 .. MaxAmount
  BY DEF BeginDebit, GrantIds, vars
<1>5. SourceKnown(c)
  BY <1>4 DEF DebitInv
<1>6. \A d \in Calls : SourceKnown(d)' <=> SourceKnown(d)
  BY <1>4 DEF SourceKnown
<1>7. lane \in Seq(Nat) /\ \A i \in 1 .. Len(lane) : lane[i] \in GrantIds
  <2>1. CASE source[c].bucket = "grant"
    <3>1. lane = <<source[c].grant>> \o others
      BY <2>1
    <3>2. source[c].grant \in GrantIds /\ source[c].grant \in Nat
      BY <1>2, <1>5, <2>1 DEF SourceKnown
    <3> QED BY <1>3, <3>1, <3>2
  <2>2. CASE source[c].bucket # "grant"
    <3>1. lane = << >>
      BY <2>2
    <3> QED BY <3>1
  <2> QED BY <2>1, <2>2
<1>8. debit' = [call |-> c, residual |-> n, take |-> 0, lane |-> lane]
  BY <1>1
<1> HIDE DEF lane
<1>9. LaneKnown'
  BY <1>4, <1>7, <1>8 DEF LaneKnown
<1>10. /\ debit' \in [call : Calls \cup {NoCall}, residual : 0 .. MaxAmount,
                      take : 0 .. MaxAmount, lane : Seq(Nat)]
       /\ debit'.take = 0 /\ debit'.residual = n /\ debit'.call = c
  <2>1. 0 \in 0 .. MaxAmount /\ c \in Calls \cup {NoCall}
    BY <1>4
  <2> QED BY <1>4, <1>7, <1>8, <2>1
<1> QED
  BY <1>4, <1>6, <1>9, <1>10 DEF DebitInv

-----------------------------------------------------------------------------
(* The steps of a debit. *)

\* Consumption leaves the grants as they are.
LEMMA ConsumeKeepsGrants ==
  ASSUME Consume
  PROVE  GrantIds' = GrantIds
BY DEF Consume, RecordGrant, RecordSelf, GrantIds

\* The debit stays well-formed when it drops the head of its lane.
LEMMA TailKnown ==
  ASSUME DebitInv, debit # Idle, debit.lane # << >>
  PROVE  /\ Head(debit.lane) \in GrantIds
         /\ Tail(debit.lane) \in Seq(Nat)
         /\ \A i \in 1 .. Len(Tail(debit.lane)) : Tail(debit.lane)[i] \in GrantIds
<1>1. debit.lane \in Seq(Nat) /\ \A i \in 1 .. Len(debit.lane) : debit.lane[i] \in GrantIds
  BY DEF DebitInv, LaneKnown
<1> QED
  BY <1>1

\* The running debit becomes one of r to be booked, t planned, lane l to go.
MovesTo(r, t, l) ==
    /\ debit # Idle /\ GrantIds' = GrantIds
    /\ UNCHANGED <<grants, stage, source, cost, lost>>
    /\ r \in 1 .. MaxAmount /\ t \in 0 .. MaxAmount /\ l \in Seq(Nat)
    /\ \A i \in 1 .. Len(l) : l[i] \in GrantIds
    /\ t <= r /\ (t > 0 => l # << >>)
    /\ debit' = [call |-> debit.call, residual |-> r, take |-> t, lane |-> l]

\* A step that moves the running debit on keeps DebitInv.
LEMMA MovedOn ==
  ASSUME TypeOK, DebitInv, NEW r, NEW t, NEW l, MovesTo(r, t, l)
  PROVE  DebitInv'
<1> USE DEF MovesTo
<1>1. \A d \in Calls : SourceKnown(d)' <=> SourceKnown(d)
  BY DEF SourceKnown
<1>2. LaneKnown'
  BY DEF LaneKnown
<1>3. debit.call \in Calls /\ r \in 0 .. MaxAmount /\ r > 0
  BY DEF DebitInv
<1> QED
  BY <1>1, <1>2, <1>3 DEF DebitInv

\* The same when the debit is closed.
LEMMA Closed ==
  ASSUME TypeOK, DebitInv, debit # Idle, GrantIds' = GrantIds,
         NEW outcome \in {"done", "aborted"}, Close(outcome),
         UNCHANGED <<source, cost>>,
         \/ outcome = "done" /\ lost' = lost
         \/ outcome = "aborted" /\ lost' = [lost EXCEPT ![debit.call] = debit.residual]
  PROVE  DebitInv'
<1>1. \A d \in Calls : SourceKnown(d)' <=> SourceKnown(d)
  BY DEF SourceKnown
<1>2. debit' = Idle /\ stage' = [stage EXCEPT ![debit.call] = outcome]
  BY DEF Close
<1>3. LaneKnown'
  BY <1>2 DEF LaneKnown, Idle
<1>4. /\ debit.call \in Calls /\ debit.residual \in Nat /\ stage[debit.call] = "debiting"
      /\ DOMAIN stage = Calls /\ lost \in [Calls -> Nat]
  BY DEF DebitInv
<1>5. lost' \in [Calls -> Nat] /\ \A c \in Calls : stage'[c] # "aborted" => lost'[c] = 0
  BY <1>2, <1>4 DEF DebitInv
<1>6. Idle \in [call : Calls \cup {NoCall}, residual : 0 .. MaxAmount,
                take : 0 .. MaxAmount, lane : Seq(Nat)]
  BY DEF Idle
<1>7. /\ DOMAIN stage' = Calls
      /\ \A c \in Calls : stage'[c] = IF c = debit.call THEN outcome ELSE stage[c]
  BY <1>2, <1>4
<1> QED
  BY <1>1, <1>2, <1>3, <1>5, <1>6, <1>7 DEF DebitInv, Idle

\* ReadRoom reads a balance; the take it plans is within the residual.
LEMMA ReadRoomKeepsDebits ==
  ASSUME TypeOK, DebitInv, ReadRoom
  PROVE  DebitInv' /\ UNCHANGED vars
<1> DEFINE room == GrantRemaining[Head(debit.lane)]
<1>1. /\ debit # Idle /\ debit.lane # << >> /\ debit.take = 0
      /\ debit' = IF room <= 0 THEN NextGrant
                  ELSE [debit EXCEPT !.take = Least(room, debit.residual)]
      /\ UNCHANGED <<stage, source, cost, lost>>
      /\ UNCHANGED vars /\ GrantIds' = GrantIds /\ grants' = grants
  BY DEF ReadRoom, GrantIds, vars
<1>2. /\ debit = [call |-> debit.call, residual |-> debit.residual, take |-> debit.take,
                  lane |-> debit.lane]
      /\ debit.residual \in 1 .. MaxAmount /\ debit.lane \in Seq(Nat)
      /\ \A i \in 1 .. Len(debit.lane) : debit.lane[i] \in GrantIds
  BY <1>1 DEF DebitInv, LaneKnown
<1>3. room \in Int
  BY <1>1, TailKnown, BalanceTypes
<1>4. CASE room <= 0
  <2> DEFINE l == Tail(debit.lane)
  <2>1. debit' = [call |-> debit.call, residual |-> debit.residual, take |-> 0, lane |-> l]
    BY <1>1, <1>2, <1>4 DEF NextGrant
  <2>2. l \in Seq(Nat) /\ \A i \in 1 .. Len(l) : l[i] \in GrantIds
    BY <1>1, TailKnown
  <2>3. 0 \in 0 .. MaxAmount /\ 0 <= debit.residual
    BY <1>2
  <2> HIDE DEF l
  <2>4. MovesTo(debit.residual, 0, l)
    BY <1>1, <1>2, <2>1, <2>2, <2>3 DEF MovesTo
  <2> QED BY <1>1, <2>4, MovedOn
<1>5. CASE room > 0
  <2> DEFINE t == Least(room, debit.residual)
  <2>1. debit' = [call |-> debit.call, residual |-> debit.residual, take |-> t,
                  lane |-> debit.lane]
    <3>1. debit' = [debit EXCEPT !.take = t]
      BY <1>1, <1>3, <1>5
    <3> HIDE DEF t
    <3> QED BY <1>2, <3>1
  <2>2. t \in 0 .. MaxAmount /\ t <= debit.residual
    BY <1>2, <1>3, <1>5 DEF Least
  <2> HIDE DEF t
  <2>3. MovesTo(debit.residual, t, debit.lane)
    BY <1>1, <1>2, <2>1, <2>2 DEF MovesTo
  <2> QED BY <1>1, <2>3, MovedOn
<1> QED
  BY <1>3, <1>4, <1>5

\* BookTake is a transaction of the marketplace, for an amount it allows.
LEMMA BookTakeKeepsDebits ==
  ASSUME TypeOK, DebitInv, BookTake
  PROVE  DebitInv' /\ Consume
<1>1. debit # Idle /\ debit.take > 0 /\ debit.lane # << >> /\ debit.take <= debit.residual
  BY DEF BookTake, DebitInv
<1>2. /\ debit = [call |-> debit.call, residual |-> debit.residual, take |-> debit.take,
                  lane |-> debit.lane]
      /\ debit.residual \in 1 .. MaxAmount /\ debit.take \in 1 .. MaxAmount
  BY <1>1 DEF DebitInv
<1>3. Head(debit.lane) \in GrantIds
  BY <1>1, TailKnown
<1>4. Consume
  BY <1>2, <1>3 DEF BookTake, Consume
<1>5. GrantIds' = GrantIds /\ grants' = grants /\ UNCHANGED <<source, cost, lost>>
  BY <1>4, ConsumeKeepsGrants DEF BookTake, RecordGrant
<1> DEFINE left == debit.residual - debit.take
           l == Tail(debit.lane)
<1>6. LeftAfterTake = [call |-> debit.call, residual |-> left, take |-> 0, lane |-> l]
  BY DEF LeftAfterTake
<1>7. CASE LeftAfterTake.residual > 0
  <2>1. debit' = LeftAfterTake /\ UNCHANGED stage
    BY <1>7 DEF BookTake, Proceed
  <2>2. left \in 1 .. MaxAmount
    BY <1>2, <1>6, <1>7
  <2>3. l \in Seq(Nat) /\ \A i \in 1 .. Len(l) : l[i] \in GrantIds
    BY <1>1, TailKnown
  <2>4. 0 \in 0 .. MaxAmount /\ 0 <= left
    BY <2>2
  <2>5. debit' = [call |-> debit.call, residual |-> left, take |-> 0, lane |-> l]
    BY <1>6, <2>1
  <2>6. stage' = stage
    BY <2>1
  <2> HIDE DEF left, l
  <2>7. MovesTo(left, 0, l)
    BY <1>1, <1>5, <2>2, <2>3, <2>4, <2>5, <2>6 DEF MovesTo
  <2> QED BY <1>4, <2>7, MovedOn
<1>8. CASE ~ (LeftAfterTake.residual > 0)
  <2>1. Close("done")
    BY <1>8 DEF BookTake, Proceed
  <2> QED BY <1>1, <1>4, <1>5, <2>1, Closed
<1> QED
  BY <1>7, <1>8

\* RefuseTake drops the rest of the debit and books nothing.
LEMMA RefuseTakeKeepsDebits ==
  ASSUME TypeOK, DebitInv, RefuseTake
  PROVE  DebitInv' /\ UNCHANGED vars
<1>1. /\ debit # Idle /\ Close("aborted") /\ UNCHANGED <<source, cost>>
      /\ lost' = [lost EXCEPT ![debit.call] = debit.residual]
      /\ UNCHANGED vars /\ GrantIds' = GrantIds
  BY DEF RefuseTake, GrantIds, vars
<1> QED
  BY <1>1, Closed

\* BookRest is a transaction of the marketplace on the call's source.
LEMMA BookRestKeepsDebits ==
  ASSUME TypeOK, DebitInv, BookRest
  PROVE  DebitInv' /\ Consume
<1>1. debit # Idle /\ Close("done") /\ UNCHANGED <<source, cost, lost>>
  BY DEF BookRest
<1>2. debit.residual \in 1 .. MaxAmount /\ SourceKnown(debit.call)
  BY <1>1 DEF DebitInv
<1>3. CASE source[debit.call].bucket = "grant"
  <2>1. RecordGrant(source[debit.call].grant, debit.residual, TRUE)
    BY <1>3 DEF BookRest
  <2> QED BY <1>1, <1>2, <1>3, <2>1, ConsumeKeepsGrants, Closed DEF SourceKnown, Consume
<1>4. CASE source[debit.call].bucket # "grant"
  <2>1. RecordSelf(source[debit.call].giver, debit.residual)
    BY <1>4 DEF BookRest
  <2> QED BY <1>1, <1>2, <1>4, <2>1, ConsumeKeepsGrants, Closed DEF SourceKnown, Consume
<1> QED
  BY <1>3, <1>4

-----------------------------------------------------------------------------
(* The calls and the control plane together. *)

\* The strengthened invariant is inductive, and each step is one of the
\* marketplace or leaves its tables alone.
LEMMA DebitNext ==
  ASSUME TypeOK, DebitInv, [NextDebit]_allVars
  PROVE  DebitInv' /\ [Next]_vars
<1>1. ASSUME NEW c \in Calls, Forward(c) PROVE DebitInv' /\ UNCHANGED vars
  BY <1>1, ForwardKeepsDebits
<1>2. ASSUME NEW c \in Calls, EndFree(c) PROVE DebitInv' /\ UNCHANGED vars
  BY <1>2, EndFreeKeepsDebits
<1>3. ASSUME NEW c \in Calls, NEW n \in Costs, BeginDebit(c, n) PROVE DebitInv' /\ UNCHANGED vars
  BY <1>3, BeginKeepsDebits
<1>4. CASE DebitStep
  BY <1>4, ReadRoomKeepsDebits, BookTakeKeepsDebits, RefuseTakeKeepsDebits, BookRestKeepsDebits
     DEF DebitStep, Next
<1>5. CASE Trade /\ UNCHANGED callVars
  <2>1. [Next]_vars /\ UNCHANGED callVars
    BY <1>5 DEF Next
  <2> QED BY <2>1, TradeKeepsDebits
<1>6. CASE UNCHANGED allVars
  <2>1. UNCHANGED vars /\ UNCHANGED callVars
    BY <1>6 DEF allVars
  <2> QED BY <2>1, TradeKeepsDebits
<1> QED
  BY <1>1, <1>2, <1>3, <1>4, <1>5, <1>6, Zenon DEF NextDebit

\* No call is under way at first.
LEMMA DebitStart ==
  ASSUME InitDebit
  PROVE  TypeOK /\ DebitInv
<1>1. TypeOK
  BY DEF InitDebit, Init, TypeOK
<1>2. Idle \in [call : Calls \cup {NoCall}, residual : 0 .. MaxAmount,
                take : 0 .. MaxAmount, lane : Seq(Nat)]
  BY DEF Idle
<1> QED
  BY <1>1, <1>2 DEF InitDebit, DebitInv, LaneKnown, Idle

\* ImplementsMarketplace: whatever the control plane did between the reading
\* of a balance and the booking that rests on it, the running proxy is a
\* behaviour of the marketplace (select_source and debit, attribution.py).
THEOREM Implementation == SpecDebit => ImplementsMarketplace
<1>1. InitDebit => Init /\ TypeOK /\ DebitInv
  BY DebitStart DEF InitDebit
<1>2. TypeOK /\ DebitInv /\ [NextDebit]_allVars => TypeOK' /\ DebitInv' /\ [Next]_vars
  BY DebitNext, TypingStep
<1> QED
  BY <1>1, <1>2, PTL DEF SpecDebit, ImplementsMarketplace, Spec

\* So no request is overfunded in the running system either.
THEOREM RunningNeverOverfunds == SpecDebit => []NeverOverfunded
<1> QED
  BY Implementation, Overfunding, PTL DEF ImplementsMarketplace

\* Nor is credit created, or a pledge charged beyond it but by overshoot, while
\* calls spill over grants that the control plane funds, returns and cancels.
THEOREM RunningIsBacked == SpecDebit => [](CreditBacked /\ PledgeCoversDraws)
<1> QED
  BY Implementation, NoCreditCreated, PledgesCover, PTL DEF ImplementsMarketplace

-----------------------------------------------------------------------------
(* Types *)

\* What a call is forwarded with is a source.
LEMMA SourceTypes ==
  ASSUME TypeOK, NEW c \in Calls, NEW s \in Sources(Caller[c])
  PROVE  s \in [bucket : {"own", "grant", "none"}, giver : Users \cup {NoUser},
                grant : 0 .. MaxGrants]
<1>1. CASE \E g \in ActiveGrants(Caller[c]) : s = Granted(g)
  <2>1. PICK g \in ActiveGrants(Caller[c]) : s = Granted(g)
    BY <1>1
  <2>2. g \in 1 .. MaxGrants /\ grants[g].donor \in Users
    BY Rows DEF ActiveGrants, GrantRows
  <2> QED BY <2>1, <2>2 DEF Granted
<1>2. CASE \E v \in rows : s = Own(v)
  <2>1. 0 \in 0 .. MaxGrants
    OBVIOUS
  <2> QED BY <1>2, <2>1 DEF Own, TypeOK
<1> QED
  BY <1>1, <1>2 DEF Sources

\* A debit that keeps DebitInv is idle, or of a call and over grants there are.
LEMMA DebitTypes ==
  ASSUME TypeOK, DebitInv
  PROVE  debit \in Debits \cup {Idle}
<1>1. /\ debit \in [call : Calls \cup {NoCall}, residual : 0 .. MaxAmount,
                    take : 0 .. MaxAmount, lane : Seq(Nat)]
      /\ debit # Idle => debit.call \in Calls /\ debit.residual > 0
  BY DEF DebitInv
<1>2. debit.lane \in Seq(1 .. MaxGrants)
  <2>1. debit.lane \in Seq(Nat) /\ \A i \in 1 .. Len(debit.lane) : debit.lane[i] \in 1 .. MaxGrants
    BY Rows DEF DebitInv, LaneKnown
  <2>2. debit.lane \in [1 .. Len(debit.lane) -> 1 .. MaxGrants] /\ Len(debit.lane) \in Nat
    <3>1. debit.lane = [i \in 1 .. Len(debit.lane) |-> debit.lane[i]] /\ Len(debit.lane) \in Nat
      BY <2>1
    <3> QED BY <2>1, <3>1
  <2> QED BY <2>2
<1> QED
  BY <1>1, <1>2 DEF Debits

\* Where a call is, and with which source, is all that its steps change.
StagesTyped ==
    /\ stage \in [Calls -> {"new", "forwarded", "debiting", "done", "aborted"}]
    /\ \A c \in Calls :
         source[c] \in [bucket : {"own", "grant", "none"}, giver : Users \cup {NoUser},
                        grant : 0 .. MaxGrants]

LEMMA StagesStep ==
  ASSUME TypeOK, DebitInv, StagesTyped, [NextDebit]_allVars
  PROVE  StagesTyped'
<1>1. ASSUME NEW c \in Calls, Forward(c) PROVE StagesTyped'
  <2>1. PICK s \in Sources(Caller[c]) : source' = [source EXCEPT ![c] = s]
    BY <1>1 DEF Forward
  <2>2. stage' = [stage EXCEPT ![c] = "forwarded"] /\ DOMAIN source = Calls
    BY <1>1 DEF Forward, DebitInv
  <2>3. \A d \in Calls : source'[d] = IF d = c THEN s ELSE source[d]
    BY <2>1, <2>2
  <2> QED BY <2>1, <2>2, <2>3, SourceTypes DEF StagesTyped
<1>2. ASSUME NEW c \in Calls, EndFree(c) PROVE StagesTyped'
  BY <1>2 DEF EndFree, StagesTyped
<1>3. ASSUME NEW c \in Calls, NEW n \in Costs, BeginDebit(c, n) PROVE StagesTyped'
  BY <1>3 DEF BeginDebit, StagesTyped
<1>4. CASE DebitStep
  <2>1. source' = source /\ \/ stage' = stage
                            \/ stage' = [stage EXCEPT ![debit.call] = "done"]
                            \/ stage' = [stage EXCEPT ![debit.call] = "aborted"]
    BY <1>4 DEF DebitStep, ReadRoom, BookTake, RefuseTake, BookRest, Proceed, Close
  <2> QED BY <2>1 DEF StagesTyped
<1>5. CASE (Trade /\ UNCHANGED callVars) \/ UNCHANGED allVars
  BY <1>5 DEF callVars, allVars, StagesTyped
<1> QED
  BY <1>1, <1>2, <1>3, <1>4, <1>5, Zenon DEF NextDebit

\* TypeOKDebit, for any calls and costs: a running debit is of a call, has
\* something left to book, and goes over grants there are.
THEOREM DebitTyping == SpecDebit => []TypeOKDebit
<1>1. InitDebit => TypeOK /\ DebitInv /\ StagesTyped
  <2> SUFFICES ASSUME InitDebit PROVE StagesTyped
    BY DebitStart
  <2> QED BY DEF InitDebit, StagesTyped, NoSource
<1>2. TypeOK /\ DebitInv /\ StagesTyped /\ [NextDebit]_allVars
        => TypeOK' /\ DebitInv' /\ StagesTyped'
  BY DebitNext, TypingStep, StagesStep
<1>3. TypeOK /\ DebitInv /\ StagesTyped => TypeOKDebit
  BY DebitTypes DEF DebitInv, StagesTyped, TypeOKDebit
<1> QED
  BY <1>1, <1>2, <1>3, PTL DEF SpecDebit

-----------------------------------------------------------------------------
(* Each unit of a cost is booked once. *)

\* The control plane burns nothing.
LEMMA TradeBurnsNothing ==
  ASSUME Trade
  PROVE  UNCHANGED <<used, over, selfBurn>>
<1>1. \A r \in Requests, u \in Users, n \in 1 .. MaxAmount :
        FundRequest(r, u, n) \/ FundRequestFromPool(r, n) \/ FundRequestFromReceived(r, u, n)
          => UNCHANGED <<used, over, selfBurn>>
  <2>1. \A new : AddGrants(new) => UNCHANGED <<used, over, selfBurn>>
    BY DEF AddGrants, accountVars, burnVars
  <2> DEFINE Kept == UNCHANGED <<used, over, selfBurn>>
  <2> SUFFICES ASSUME NEW r \in Requests, NEW u \in Users, NEW n \in 1 .. MaxAmount
               PROVE  FundRequest(r, u, n) \/ FundRequestFromPool(r, n)
                        \/ FundRequestFromReceived(r, u, n) => Kept
    OBVIOUS
  <2> HIDE DEF Kept
  <2>2. FundRequest(r, u, n) => Kept
    BY <2>1 DEF FundRequest, Kept
  <2>3. FundRequestFromPool(r, n) => Kept
    BY <2>1, Zenon DEF FundRequestFromPool, Kept
  <2>4. FundRequestFromReceived(r, u, n) => Kept
    BY <2>1, Zenon DEF FundRequestFromReceived, Kept
  <2> QED BY <2>2, <2>3, <2>4
<1>2. ASSUME NEW r \in Requests, CreateRequest(r) \/ Expire(r) \/ CancelRequest(r)
      PROVE  UNCHANGED <<used, over, selfBurn>>
  BY <1>2 DEF CreateRequest, Expire, CancelRequest, accountVars, burnVars
<1>3. ASSUME NEW u \in Users, \/ \E n \in 1 .. MaxAmount : ReturnReceivedToPool(u, n)
                              \/ \E p \in 0 .. quota[u] : SetPledge(u, p)
                              \/ \E q \in QuotaChoices[u] : SetQuota(u, q)
                              \/ \E verdict \in {"dead", "valid"} : SetVerdict(u, verdict)
      PROVE  UNCHANGED <<used, over, selfBurn>>
  BY <1>3 DEF ReturnReceivedToPool, SetPledge, SetQuota, SetVerdict, accountVars, burnVars
<1> QED
  BY <1>1, <1>2, <1>3 DEF Trade

\* What is burned in all is a natural number.
LEMMA BurnedType ==
  ASSUME TypeOK
  PROVE  /\ Burned \in Nat
         /\ Total(used, 1 .. MaxGrants) \in Nat /\ Total(selfBurn, Users) \in Nat
<1>1. IsFiniteSet(1 .. MaxGrants)
  BY FS_Interval
<1>2. Total(used, 1 .. MaxGrants) \in Nat
  BY <1>1, TotalType DEF TypeOK
<1>3. Total(selfBurn, Users) \in Nat
  BY TotalType DEF TypeOK
<1> QED
  BY <1>2, <1>3 DEF Burned

\* One booking (record_consumption) adds exactly its credits to the ledger,
\* on a grant ...
LEMMA GrantBurns ==
  ASSUME TypeOK, NEW g \in GrantIds, NEW n \in Nat, NEW overshoot, RecordGrant(g, n, overshoot)
  PROVE  Burned' = Burned + n
<1>1. IsFiniteSet(1 .. MaxGrants)
  BY FS_Interval
<1>2. g \in 1 .. MaxGrants /\ used \in [1 .. MaxGrants -> Nat]
  BY Rows DEF TypeOK
<1>3. OneMore(1 .. MaxGrants, used, [used EXCEPT ![g] = @ + n], g, n)
  BY <1>1, <1>2 DEF OneMore
<1>4. used' = [used EXCEPT ![g] = @ + n] /\ selfBurn' = selfBurn
  BY DEF RecordGrant, accountVars
<1>5. Total(used', 1 .. MaxGrants) = Total(used, 1 .. MaxGrants) + n
  BY <1>3, <1>4, TotalGrows
<1> QED
  BY <1>4, <1>5, BurnedType DEF Burned

\* ... or on a giver's own quota.
LEMMA SelfBurns ==
  ASSUME TypeOK, NEW u, NEW n \in Nat, RecordSelf(u, n)
  PROVE  Burned' = Burned + n
<1>1. u \in Users /\ selfBurn \in [Users -> Nat]
  BY DEF TypeOK, RecordSelf
<1>2. OneMore(Users, selfBurn, [selfBurn EXCEPT ![u] = @ + n], u, n)
  BY <1>1 DEF OneMore
<1>3. selfBurn' = [selfBurn EXCEPT ![u] = @ + n] /\ used' = used
  BY DEF RecordSelf, burnVars
<1>4. Total(selfBurn', Users) = Total(selfBurn, Users) + n
  BY <1>2, <1>3, TotalGrows
<1> QED
  BY <1>3, <1>4, BurnedType DEF Burned

\* The books of the calls: one more entry for a call that had none.
LEMMA OneMoreEntry ==
  ASSUME NEW f \in [Calls -> Nat], NEW c \in Calls, f[c] = 0, NEW n \in Nat
  PROVE  Total([f EXCEPT ![c] = n], Calls) = Total(f, Calls) + n
<1>1. OneMore(Calls, f, [f EXCEPT ![c] = n], c, n)
  BY DEF OneMore
<1> QED
  BY <1>1, TotalGrows

\* A step books, drops or carries on exactly what it takes off the residual.
LEMMA CostStep ==
  ASSUME TypeOK, DebitInv, CostAccounted, [NextDebit]_allVars
  PROVE  CostAccounted'
<1> DEFINE Lost == Total(lost, Calls)
           Cost == Total(cost, Calls)
<1>1. /\ Burned \in Nat /\ Lost \in Nat /\ Cost \in Nat
      /\ debit.residual \in Nat /\ debit.take \in Nat
      /\ debit.take <= debit.residual
      /\ cost \in [Calls -> Nat] /\ lost \in [Calls -> Nat]
  BY BurnedType, TotalType DEF DebitInv
<1>2. Burned + Lost + debit.residual = Cost
  BY DEF CostAccounted
<1>3. UNCHANGED <<used, selfBurn>> => Burned' = Burned
  BY DEF Burned
<1>4. ASSUME NEW c \in Calls, Forward(c) \/ EndFree(c) PROVE CostAccounted'
  BY <1>3, <1>4 DEF Forward, EndFree, vars, accountVars, burnVars, CostAccounted
<1>5. ASSUME NEW c \in Calls, NEW n \in Costs, BeginDebit(c, n) PROVE CostAccounted'
  <2>1. /\ debit = Idle /\ debit'.residual = n /\ n \in Nat /\ lost' = lost
        /\ cost' = [cost EXCEPT ![c] = n] /\ stage[c] = "forwarded"
        /\ UNCHANGED <<used, selfBurn>>
    <3>1. n \in Nat
      OBVIOUS
    <3> QED BY <1>5, <3>1 DEF BeginDebit, vars, accountVars, burnVars
  <2>2. cost[c] = 0
    BY <2>1 DEF DebitInv
  <2>3. Total(cost', Calls) = Cost + n
    BY <1>1, <2>1, <2>2, OneMoreEntry
  <2> QED BY <1>1, <1>2, <1>3, <2>1, <2>3 DEF CostAccounted, Idle
<1>6. CASE ReadRoom
  <2>1. debit'.residual = debit.residual
    BY <1>6 DEF ReadRoom, NextGrant, DebitInv
  <2>2. lost' = lost /\ cost' = cost /\ UNCHANGED <<used, selfBurn>>
    BY <1>6 DEF ReadRoom, vars, accountVars, burnVars
  <2> QED BY <1>3, <2>1, <2>2 DEF CostAccounted
<1>7. CASE BookTake
  <2>1. Head(debit.lane) \in GrantIds
    BY <1>7, TailKnown DEF BookTake, DebitInv
  <2>2. Burned' = Burned + debit.take
    BY <1>1, <1>7, <2>1, GrantBurns DEF BookTake
  <2>3. debit'.residual = debit.residual - debit.take
    BY <1>1, <1>7 DEF BookTake, Proceed, Close, LeftAfterTake, Idle
  <2>4. lost' = lost /\ cost' = cost
    BY <1>7 DEF BookTake
  <2> QED BY <1>1, <1>2, <2>2, <2>3, <2>4 DEF CostAccounted
<1>8. CASE RefuseTake
  <2>1. /\ debit' = Idle /\ cost' = cost /\ UNCHANGED <<used, selfBurn>>
        /\ lost' = [lost EXCEPT ![debit.call] = debit.residual]
    BY <1>8 DEF RefuseTake, Close, vars, accountVars, burnVars
  <2>2. debit.call \in Calls /\ lost[debit.call] = 0
    BY <1>8 DEF RefuseTake, DebitInv
  <2>3. Total(lost', Calls) = Lost + debit.residual
    BY <1>1, <2>1, <2>2, OneMoreEntry
  <2> QED BY <1>1, <1>2, <1>3, <2>1, <2>3 DEF CostAccounted, Idle
<1>9. CASE BookRest
  <2>1. debit' = Idle /\ lost' = lost /\ cost' = cost
    BY <1>9 DEF BookRest, Close
  <2>2. Burned' = Burned + debit.residual
    <3>1. SourceKnown(debit.call)
      BY <1>9 DEF BookRest, DebitInv
    <3> QED BY <1>1, <1>9, <3>1, GrantBurns, SelfBurns DEF BookRest, SourceKnown
  <2> QED BY <1>1, <1>2, <2>1, <2>2 DEF CostAccounted, Idle
<1>10. CASE Trade /\ UNCHANGED callVars
  BY <1>3, <1>10, TradeBurnsNothing DEF callVars, CostAccounted
<1>11. CASE UNCHANGED allVars
  BY <1>3, <1>11 DEF allVars, callVars, vars, accountVars, burnVars, CostAccounted
<1> QED
  BY <1>4, <1>5, <1>6, <1>7, <1>8, <1>9, <1>10, <1>11, Zenon DEF NextDebit, DebitStep

\* CostAccounted: a debit that spills over several grants, and is raced by the
\* control plane at each step, books no unit twice and forgets none, except
\* the ones it is refused (debit, attribution.py).
THEOREM Accounting == SpecDebit => []CostAccounted
<1>1. InitDebit => TypeOK /\ DebitInv /\ CostAccounted
  <2> SUFFICES ASSUME InitDebit PROVE CostAccounted
    BY DebitStart
  <2>1. \A c \in Calls : cost[c] = 0 /\ lost[c] = 0 /\ cost[c] = lost[c]
    BY DEF InitDebit
  <2>2. Total(cost, Calls) = Total(lost, Calls)
    BY <2>1, TotalCong
  <2>3. Total(lost, Calls) \in Nat
    BY <2>1, TotalType
  <2>4. Burned = 0
    <3>1. \A g \in 1 .. MaxGrants : used[g] = 0
      BY DEF InitDebit, Init
    <3>2. \A u \in Users : selfBurn[u] = 0
      BY DEF InitDebit, Init
    <3>3. Total(used, 1 .. MaxGrants) = 0 /\ Total(selfBurn, Users) = 0
      BY <3>1, <3>2, TotalZero, Zenon
    <3> QED BY <3>3 DEF Burned
  <2> QED BY <2>2, <2>3, <2>4 DEF CostAccounted, InitDebit, Idle
<1>2. TypeOK /\ DebitInv /\ CostAccounted /\ [NextDebit]_allVars
        => TypeOK' /\ DebitInv' /\ CostAccounted'
  BY DebitNext, TypingStep, CostStep
<1> QED
  BY <1>1, <1>2, PTL DEF SpecDebit
-----------------------------------------------------------------------------
(* Spilling over does not overshoot. *)

\* A booking with no overshoot allowed leaves the history of overshoot.
LEMMA NoOvershoot ==
  ASSUME TypeOK, NEW g \in GrantIds, NEW n \in Nat, RecordGrant(g, n, FALSE)
  PROVE  UNCHANGED over
<1> DEFINE room == Greatest(0, GrantRemaining[g])
<1>1. room \in Nat
  BY BalanceTypes DEF Greatest
<1>2. over' = [over EXCEPT ![g] = @ + Greatest(0, n - room)] /\ n <= room
  BY DEF RecordGrant
<1> HIDE DEF room
<1>3. Greatest(0, n - room) = 0
  BY <1>1, <1>2 DEF Greatest
<1>4. over \in [1 .. MaxGrants -> Nat]
  BY DEF TypeOK
<1> QED
  BY <1>2, <1>3, <1>4

\* OnlySourceOvershoots: however the balances moved since they were read, a
\* spill never books more on a grant than it holds; only the residual does, on
\* the grant the call was forwarded with (debit, attribution.py).
THEOREM Overshoot == SpecDebit => OnlySourceOvershoots
<1> DEFINE Change == \A g \in GrantIds : over'[g] # over[g] =>
                       /\ debit # Idle /\ debit.lane = << >>
                       /\ source[debit.call].grant = g
<1>1. InitDebit => TypeOK /\ DebitInv
  BY DebitStart
<1>2. TypeOK /\ DebitInv /\ [NextDebit]_allVars => TypeOK' /\ DebitInv'
  BY DebitNext, TypingStep
<1>3. TypeOK /\ DebitInv /\ [NextDebit]_allVars => [Change]_allVars
  <2> SUFFICES ASSUME TypeOK, DebitInv, [NextDebit]_allVars PROVE Change
    OBVIOUS
  <2>1. CASE BookTake
    <3>1. Head(debit.lane) \in GrantIds /\ debit.take \in Nat
      BY <2>1, TailKnown DEF BookTake, DebitInv
    <3> QED BY <2>1, <3>1, NoOvershoot DEF BookTake
  <2>2. CASE BookRest
    <3>1. debit # Idle /\ debit.lane = << >> /\ over \in [1 .. MaxGrants -> Nat]
      BY <2>2 DEF BookRest, TypeOK
    <3>2. CASE source[debit.call].bucket = "grant"
      <4> DEFINE s == source[debit.call]
      <4>1. RecordGrant(s.grant, debit.residual, TRUE)
        BY <2>2, <3>2 DEF BookRest
      <4>2. PICK x : over' = [over EXCEPT ![s.grant] = x]
        BY <4>1 DEF RecordGrant
      <4>3. \A g \in GrantIds : g # s.grant => over'[g] = over[g]
        BY <3>1, <4>2, Rows
      <4> QED BY <3>1, <4>3
    <3>3. CASE source[debit.call].bucket # "grant"
      BY <2>2, <3>3 DEF BookRest, RecordSelf, burnVars
    <3> QED BY <3>2, <3>3
  <2>3. CASE ~ (BookTake \/ BookRest)
    <3>1. UNCHANGED over
      BY <2>3, TradeBurnsNothing DEF NextDebit, DebitStep, Forward, EndFree, BeginDebit,
         ReadRoom, RefuseTake, allVars, vars, burnVars
    <3> QED BY <3>1
  <2> QED BY <2>1, <2>2, <2>3
<1> QED
  BY <1>1, <1>2, <1>3, PTL DEF SpecDebit, OnlySourceOvershoots
=============================================================================
