-------------------------- MODULE Lifecycle_proofs --------------------------
(***************************************************************************)
(* For any givers, PATs, months and bounds: a pledge is backed by quota,   *)
(* roles match PATs, who leaves stays away, and no cycle comes back.       *)
(***************************************************************************)
EXTENDS Lifecycle, TLAPS

USE MonthAssumption, CreditAssumption, GiverAssumption, NothingAssumption DEF Months, Processes

-----------------------------------------------------------------------------
(* What the records are made of *)

RowsTyped == row \in [Givers -> Rows \cup {Nothing}]

LEMMA RowTyped ==
    ASSUME NEW q \in Nat, NEW p \in Nat PROVE Row(q, p) \in Rows
  BY DEF Row, Rows

LEMMA DrawnTyped ==
    ASSUME RowsTyped, NEW g \in Givers PROVE Drawn(g) \in Nat
  BY DEF Drawn, Rows, RowsTyped

LEMMA SetQuotaTyped ==
    ASSUME RowsTyped, NEW g \in Givers, NEW m, NEW q \in Nat, SetQuota(m, g, q)
    PROVE  RowsTyped'
<1>1. row[g] # Nothing => [row[g] EXCEPT !.quota = q, !.pledge = Least(@, q)] \in Rows
  BY DEF Rows, Least, RowsTyped
<1>2. Row(q, 0) \in Rows
  BY RowTyped
<1> QED
  BY <1>1, <1>2 DEF SetQuota, Put, RowsTyped

LEMMA SetPledgeTyped ==
    ASSUME RowsTyped, NEW g \in Givers, NEW m, NEW p \in Nat, SetPledge(m, g, p)
    PROVE  RowsTyped'
<1>1. row[g] # Nothing => [row[g] EXCEPT !.pledge = p] \in Rows
  BY DEF Rows, RowsTyped
<1>2. Row(0, 0) \in Rows
  BY RowTyped
<1> QED
  BY <1>1, <1>2 DEF SetPledge, Put, RowsTyped

LEMMA OpenTyped ==
    ASSUME NEW now, Open(now) PROVE RowsTyped'
<1>1. \A g \in Givers : Seed(g) \in Rows
  BY RowTyped DEF Seed
<1> QED
  BY <1>1 DEF Open, RowsTyped

LEMMA ConnectRuns ==
    ASSUME task \in Connects \cup Leaves \cup {Nothing},
           NEW at \in {"pat", "health", "giver", "snapshot", "default"}, Runs(at)
    PROVE  /\ task \in Connects /\ task.at = at
           /\ task.giver \in Givers /\ task.cycle \in Months /\ task.pat \in Pats
  BY DEF Runs, Connects, Leaves

LEMMA LeaveRuns ==
    ASSUME task \in Connects \cup Leaves \cup {Nothing},
           NEW at \in {"ensure", "pledge", "quota", "consumer"}, Runs(at)
    PROVE  /\ task \in Leaves /\ task.at = at
           /\ task.giver \in Givers /\ task.cycle \in Months \cup {Nothing}
           /\ at \in {"pledge", "quota"} => task.floor \in Nat
  BY DEF Runs, Connects, Leaves

LEMMA ConnectGoes ==
    ASSUME task \in Connects, NEW at \in {"pat", "health", "giver", "snapshot", "default"}, Goes(at)
    PROVE  task' \in Connects
  BY DEF Goes, Connects

LEMMA FloorRead ==
    ASSUME RowsTyped, task \in Leaves, NEW m \in Months, LeaveFound(m, Drawn(task.giver))
    PROVE  /\ task' \in Leaves /\ task'.giver = task.giver /\ task'.cycle = m
           /\ \/ task'.at = "consumer"
              \/ /\ task'.at = "pledge" /\ row[task.giver] # Nothing
                 /\ task'.floor = row[task.giver].drawn
<1> DEFINE b == row[task.giver].loose + row[task.giver].late > 0
<1>1. task.giver \in Givers
  BY DEF Leaves
<1>2. CASE row[task.giver] = Nothing
  <2>1. task' = [task EXCEPT !.cycle = m, !.at = "consumer"]
    BY <1>2 DEF LeaveFound
  <2> QED
    BY <2>1 DEF Leaves
<1>3. CASE row[task.giver] # Nothing
  <2>1. /\ row[task.giver].drawn \in Nat /\ b \in BOOLEAN
        /\ task' = [task EXCEPT !.cycle = m, !.at = "pledge", !.floor = row[task.giver].drawn, !.over = b]
    BY <1>1, <1>3 DEF LeaveFound, Drawn, RowsTyped, Rows
  <2> HIDE DEF b
  <2> QED
    BY <1>3, <2>1 DEF Leaves
<1> QED
  BY <1>2, <1>3

LEMMA PledgeCut ==
    ASSUME task \in Leaves, task.at = "pledge", Goes("quota")
    PROVE  /\ task' \in Leaves /\ task'.at = "quota"
           /\ task'.giver = task.giver /\ task'.cycle = task.cycle /\ task'.floor = task.floor
  BY DEF Goes, Leaves

LEMMA QuotaCut ==
    ASSUME task \in Leaves,
           task' = [task EXCEPT !.at = "consumer", !.floor = Nothing, !.over = FALSE]
    PROVE  /\ task' \in Leaves /\ task'.at = "consumer"
           /\ task'.giver = task.giver /\ task'.cycle = task.cycle
  BY DEF Leaves

LEMMA FloorWithdrawn ==
    ASSUME sweep \in Sweeps, sweep.at = "retract", NEW n \in Nat,
           sweep' = [sweep EXCEPT !.at = "withdraw", !.floor = n]
    PROVE  sweep' \in Sweeps
  BY DEF Sweeps

LEMMA PatUpdated ==
    ASSUME pat \in [Givers -> StoredPats \cup {Nothing}], NEW g, NEW p, UpdatePat(g, p),
           g \in Givers /\ pat[g] # Nothing => p \in StoredPats
    PROVE  pat' \in [Givers -> StoredPats \cup {Nothing}]
  BY DEF UpdatePat

LEMMA KnownUpdated ==
    ASSUME NEW r \in StoredPats, NEW b \in BOOLEAN PROVE [r EXCEPT !.known = b] \in StoredPats
  BY DEF StoredPats

LEMMA VerdictTyped ==
    ASSUME NEW r \in StoredPats, NEW v \in Verdicts, NEW b \in BOOLEAN
    PROVE  [r EXCEPT !.verdict = v, !.known = b \/ @] \in StoredPats
<1>1. (b \/ r.known) \in BOOLEAN
  BY ZenonT(20)
<1> QED
  BY <1>1 DEF StoredPats

LEMMA GiverChecked ==
    ASSUME sweep \in Sweeps, NextGiver PROVE sweep' \in Sweeps
  BY DEF NextGiver, Sweeps

-----------------------------------------------------------------------------
(* Type correctness *)

\* The tables and the records of what is under way keep their shape, whatever
\* interrupts what.
THEOREM LifecycleTyping == Spec => []TypeOK
<1>1. Init => TypeOK
  <2>1. Init => sweep \in Sweeps
    BY DEF Init, Resting, Sweeps
  <2>2. Init => RowsTyped /\ rolling \in [Processes -> (1 .. month) \cup {Nothing}]
    BY DEF Init, RowsTyped
  <2>3. Init => faults \in 0 .. MaxFaults
    BY DEF Init
  <2>4. Init => role \in [Givers -> {"consumer", "giver"}] /\ torn \subseteq Givers /\ good \subseteq Pats
    BY DEF Init
  <2>5. Init => /\ pat \in [Givers -> StoredPats \cup {Nothing}]
                /\ connect \in [Givers -> Offers \cup {Nothing}]
                /\ visit \in [Givers -> Months \cup {Nothing}] /\ edit \in [Givers -> Months \cup {Nothing}]
                /\ left \in [Givers -> Nat \cup {Nothing}]
    BY DEF Init
  <2>6. Init => /\ month \in Months /\ active \in 0 .. month /\ task \in Connects \cup Leaves \cup {Nothing}
                /\ gate \in Gates \cup {Nothing} /\ tool \in Retractions \cup {Nothing}
    BY DEF Init
  <2> QED
    BY <2>1, <2>2, <2>3, <2>4, <2>5, <2>6 DEF TypeOK, RowsTyped
<1>2. TypeOK /\ [Next]_vars => TypeOK'
  <2> SUFFICES ASSUME TypeOK, [Next]_vars PROVE TypeOK'
    OBVIOUS
  <2> USE DEF TypeOK, cycleVars, giverVars, webVars
  <2>1. ASSUME Tick PROVE TypeOK'
    BY <2>1 DEF Tick
  <2>2. ASSUME NEW p \in Processes, Look(p) PROVE TypeOK'
    BY <2>2 DEF Look
  <2>3. ASSUME NEW p \in Processes, RollOver(p) PROVE TypeOK'
    <3>1. RowsTyped'
      BY <2>3, OpenTyped DEF RollOver, RowsTyped
    <3>2. active' \in 0 .. month'
      BY <2>3 DEF RollOver, Open
    <3> QED
      BY <2>3, <3>1, <3>2 DEF RollOver, RowsTyped
  <2>4. ASSUME NEW k \in Revocable, Revoke(k) PROVE TypeOK'
    BY <2>4 DEF Revoke
  <2>5. ASSUME NEW g \in Givers, NEW k \in Pats, ConnectBegin(g, k) PROVE TypeOK'
    <3>1. [cycle |-> month, pat |-> k] \in Offers
      BY <2>5 DEF Offers, ConnectBegin
    <3> QED
      BY <2>5, <3>1 DEF ConnectBegin
  <2>6. ASSUME NEW g \in Givers, ConnectRefused(g) PROVE TypeOK'
    BY <2>6 DEF ConnectRefused
  <2>7. ASSUME NEW g \in Givers, ConnectAnswered(g) PROVE TypeOK'
    <3>1. RowsTyped'
      BY <2>7, SetQuotaTyped DEF ConnectAnswered, RowsTyped
    <3>2. connect[g] \in Offers => /\ connect[g].cycle \in Months /\ connect[g].pat \in Pats
      BY DEF Offers
    <3>3. task' \in Connects \cup Leaves \cup {Nothing}
      BY <2>7, <3>2 DEF ConnectAnswered, Connects
    <3> QED
      BY <2>7, <3>1, <3>2, <3>3 DEF ConnectAnswered, RowsTyped
  <2>8. ASSUME ConnectPat PROVE TypeOK'
    <3>1. task \in Connects /\ task.giver \in Givers /\ task.pat \in Pats
      BY <2>8, ConnectRuns DEF ConnectPat
    <3>2. task' \in Connects
      BY <2>8, <3>1, ConnectGoes DEF ConnectPat
    <3>3. [id |-> task.pat, verdict |-> "none", known |-> FALSE] \in StoredPats
      BY <2>8, <3>1 DEF StoredPats, Verdicts
    <3>4. pat[task.giver] # Nothing => [pat[task.giver] EXCEPT !.id = task.pat] \in StoredPats
      BY <2>8, <3>1 DEF StoredPats
    <3> QED
      BY <2>8, <3>1, <3>2, <3>3, <3>4 DEF ConnectPat
  <2>9. ASSUME ConnectHealth PROVE TypeOK'
    <3>1. task \in Connects /\ task.giver \in Givers /\ task.pat \in Pats
      BY <2>9, ConnectRuns DEF ConnectHealth
    <3>2. task' \in Connects
      BY <2>9, <3>1, ConnectGoes DEF ConnectHealth
    <3>3. pat[task.giver] # Nothing => [pat[task.giver] EXCEPT !.verdict = "valid"] \in StoredPats
      BY <2>9, <3>1 DEF StoredPats, Verdicts
    <3>4. pat' \in [Givers -> StoredPats \cup {Nothing}]
      BY <2>9, <3>1, <3>3, PatUpdated DEF ConnectHealth
    <3> QED
      BY <2>9, <3>1, <3>2, <3>3, <3>4 DEF ConnectHealth
  <2>10. ASSUME ConnectRole PROVE TypeOK'
    <3>1. task \in Connects /\ task.giver \in Givers /\ task.pat \in Pats
      BY <2>10, ConnectRuns DEF ConnectRole
    <3>2. task' \in Connects
      BY <2>10, <3>1, ConnectGoes DEF ConnectRole
    <3> QED
      BY <2>10, <3>1, <3>2 DEF ConnectRole
  <2>11. ASSUME ConnectSnapshot PROVE TypeOK'
    <3>1. task \in Connects /\ task.giver \in Givers /\ task.pat \in Pats
      BY <2>11, ConnectRuns DEF ConnectSnapshot
    <3>2. task' \in Connects
      BY <2>11, <3>1, ConnectGoes DEF ConnectSnapshot
    <3>3. pat[task.giver] # Nothing => [pat[task.giver] EXCEPT !.known = TRUE] \in StoredPats
      BY <2>11, <3>1, KnownUpdated, TRUE \in BOOLEAN
    <3>4. pat' \in [Givers -> StoredPats \cup {Nothing}]
      BY <2>11, <3>1, <3>3, PatUpdated DEF ConnectSnapshot
    <3> QED
      BY <2>11, <3>1, <3>2, <3>3, <3>4 DEF ConnectSnapshot
  <2>12. ASSUME ConnectPledge PROVE TypeOK'
    <3>0. task.giver \in Givers
      BY <2>12, ConnectRuns DEF ConnectPledge
    <3>1. RowsTyped'
      BY <2>12, <3>0, SetPledgeTyped DEF ConnectPledge, RowsTyped
    <3> QED
      BY <2>12, <3>1 DEF ConnectPledge, RowsTyped
  <2>13. ASSUME NEW g \in Givers, LeaveBegin(g) PROVE TypeOK'
    <3>1. task' \in Leaves
      BY <2>13 DEF LeaveBegin, Leaves
    <3> QED
      BY <2>13, <3>1 DEF LeaveBegin
  <2>14. ASSUME LeaveEnsure PROVE TypeOK'
    <3>1. task \in Leaves
      BY <2>14, LeaveRuns DEF LeaveEnsure
    <3>2. task' \in Leaves
      BY <2>14, <3>1, FloorRead DEF LeaveEnsure, RowsTyped
    <3> QED
      BY <2>14, <3>2 DEF LeaveEnsure
  <2>15. ASSUME LeavePledge PROVE TypeOK'
    <3>1. task \in Leaves /\ task.at = "pledge" /\ task.giver \in Givers /\ task.floor \in Nat
      BY <2>15, LeaveRuns DEF LeavePledge
    <3>2. task' \in Leaves \cup {Nothing}
      BY <2>15, <3>1, PledgeCut DEF LeavePledge, LeaveRefused
    <3>3. RowsTyped'
      BY <2>15, <3>1, SetPledgeTyped DEF LeavePledge, LeaveRefused, RowsTyped
    <3>4. left' \in [Givers -> Nat \cup {Nothing}] /\ torn' \subseteq Givers
      BY <2>15, <3>1 DEF LeavePledge, LeaveRefused
    <3> QED
      BY <2>15, <3>2, <3>3, <3>4 DEF LeavePledge, RowsTyped
  <2>16. ASSUME LeaveQuota PROVE TypeOK'
    <3>1. task \in Leaves /\ task.at = "quota" /\ task.giver \in Givers /\ task.floor \in Nat
      BY <2>16, LeaveRuns DEF LeaveQuota
    <3>2. task' \in Leaves \cup {Nothing}
      BY <2>16, <3>1, QuotaCut DEF LeaveQuota, LeaveRefused
    <3>3. RowsTyped'
      BY <2>16, <3>1, SetQuotaTyped DEF LeaveQuota, LeaveRefused, RowsTyped
    <3>4. left' \in [Givers -> Nat \cup {Nothing}] /\ torn' \subseteq Givers
      BY <2>16, <3>1 DEF LeaveQuota, LeaveRefused
    <3> QED
      BY <2>16, <3>2, <3>3, <3>4 DEF LeaveQuota, RowsTyped
  <2>17. ASSUME LeaveRole PROVE TypeOK'
    <3>1. task.giver \in Givers
      BY <2>17, LeaveRuns DEF LeaveRole
    <3> QED
      BY <2>17, <3>1 DEF LeaveRole
  <2>18. ASSUME NEW g \in Givers, EditBegin(g) PROVE TypeOK'
    BY <2>18 DEF EditBegin
  <2>19. ASSUME NEW g \in Givers, Edit(g) PROVE TypeOK'
    <3>1. RowsTyped'
      BY <2>19, SetPledgeTyped DEF Edit, RowsTyped
    <3> QED
      BY <2>19, <3>1 DEF Edit, RowsTyped
  <2>20. ASSUME NEW g \in Givers, VisitBegin(g) PROVE TypeOK'
    BY <2>20 DEF VisitBegin
  <2>21. ASSUME NEW g \in Givers, Visit(g) PROVE TypeOK'
    <3>1. RowsTyped'
      BY <2>21, SetQuotaTyped DEF Visit, RowsTyped
    <3> QED
      BY <2>21, <3>1 DEF Visit, RowsTyped
  <2>22. ASSUME NEW g \in Givers, Fill(g) PROVE TypeOK'
    <3>1. RowsTyped'
      BY <2>22 DEF Fill, RowsTyped, Rows, Undrawn
    <3> QED
      BY <2>22, <3>1 DEF Fill, RowsTyped
  <2>42. ASSUME NEW g \in Givers, LateDebit(g) PROVE TypeOK'
    <3>1. RowsTyped'
      BY <2>42 DEF LateDebit, RowsTyped, Rows
    <3> QED
      BY <2>42, <3>1 DEF LateDebit, RowsTyped
  <2>23. ASSUME NEW g \in Givers, Refund(g) PROVE TypeOK'
    <3>1. RowsTyped'
      BY <2>23 DEF Refund, RowsTyped, Rows
    <3>2. faults' \in 0 .. MaxFaults
      BY <2>23 DEF Refund
    <3> QED
      BY <2>23, <3>1, <3>2 DEF Refund, RowsTyped
  <2>24. ASSUME SweepBegin PROVE TypeOK'
    <3>1. sweep' \in Sweeps
      BY <2>24 DEF SweepBegin, Sweeps, Resting, NextGiver, StoredPats
    <3> QED
      BY <2>24, <3>1 DEF SweepBegin
  <2>25. ASSUME NEW g \in Givers, CheckBegin(g) PROVE TypeOK'
    <3>1. sweep' \in Sweeps
      BY <2>25 DEF CheckBegin, Sweeps, Resting, NextGiver, StoredPats
    <3> QED
      BY <2>25, <3>1 DEF CheckBegin
  <2>26. ASSUME CheckDone PROVE TypeOK'
    <3>0. sweep.at = "ask" => [sweep EXCEPT !.at = "retract"] \in Sweeps
      BY <2>26 DEF Sweeps
    <3>1. sweep' \in Sweeps
      BY <2>26, <3>0, GiverChecked DEF CheckDone
    <3>3. pat' \in [Givers -> StoredPats \cup {Nothing}]
      BY <2>26, VerdictTyped, PatUpdated DEF CheckDone, Verdicts
    <3> QED
      BY <2>26, <3>1, <3>3 DEF CheckDone
  <2>27. ASSUME CheckFails PROVE TypeOK'
    <3>1. sweep' \in Sweeps
      BY <2>27 DEF CheckFails, Sweeps, Resting, NextGiver, StoredPats
    <3> QED
      BY <2>27, <3>1 DEF CheckFails
  <2>28. ASSUME Retract PROVE TypeOK'
    <3>1. sweep.giver \in Givers
      BY <2>28 DEF Retract, Sweeps
    <3>2. Drawn(sweep.giver) \in Nat
      BY <3>1, DrawnTyped DEF RowsTyped
    <3>3. sweep' \in Sweeps
      BY <2>28, <3>1, <3>2, GiverChecked, FloorWithdrawn DEF Retract
    <3> QED
      BY <2>28, <3>3 DEF Retract
  <2>35. ASSUME Withdraw PROVE TypeOK'
    <3>1. sweep.giver \in Givers /\ sweep.floor \in Nat
      BY <2>35 DEF Withdraw, Sweeps
    <3>2. RowsTyped'
      BY <2>35, <3>1, SetPledgeTyped DEF Withdraw, RowsTyped
    <3>3. sweep' \in Sweeps
      BY <2>35, GiverChecked DEF Withdraw
    <3> QED
      BY <2>35, <3>2, <3>3 DEF Withdraw, RowsTyped
  <2>29. ASSUME NEW S \in SUBSET Givers, SweepSleep(S) PROVE TypeOK'
    <3>1. sweep' \in Sweeps
      BY <2>29 DEF SweepSleep, Sweeps, Resting, NextGiver, StoredPats
    <3> QED
      BY <2>29, <3>1 DEF SweepSleep
  <2>30. ASSUME SweepAgain PROVE TypeOK'
    <3>1. sweep' \in Sweeps
      BY <2>30 DEF SweepAgain, Sweeps, Resting, NextGiver, StoredPats
    <3> QED
      BY <2>30, <3>1 DEF SweepAgain
  <2>31. ASSUME SweepEnd PROVE TypeOK'
    <3>1. sweep' \in Sweeps
      BY <2>31 DEF SweepEnd, Sweeps, Resting, NextGiver, StoredPats
    <3> QED
      BY <2>31, <3>1 DEF SweepEnd
  <2>32. ASSUME NEW g \in Givers, GateBegin(g) PROVE TypeOK'
    <3>1. gate' \in Gates \cup {Nothing}
      BY <2>32 DEF GateBegin, Raise, Gates, Live
    <3> QED
      BY <2>32, <3>1 DEF GateBegin
  <2>33. ASSUME GateAnswered PROVE TypeOK'
    <3>1. gate' \in Gates \cup {Nothing}
      BY <2>33 DEF GateAnswered, Raise, Gates, Live
    <3> QED
      BY <2>33, <3>1 DEF GateAnswered
  <2>34. ASSUME GateRaise PROVE TypeOK'
    <3>0. gate.giver \in Givers
      BY <2>34 DEF GateRaise, Gates
    <3>1. RowsTyped'
      BY <2>34, <3>0, SetQuotaTyped DEF GateRaise, RowsTyped
    <3> QED
      BY <2>34, <3>1 DEF GateRaise, RowsTyped
  <2>36. ASSUME NEW g \in Givers, ToolList(g) PROVE TypeOK'
    <3>1. tool' \in Retractions
      BY <2>36 DEF ToolList, Retractions
    <3> QED
      BY <2>36, <3>1 DEF ToolList
  <2>37. ASSUME ToolAborts PROVE TypeOK'
    BY <2>37 DEF ToolAborts
  <2>38. ASSUME ToolReads PROVE TypeOK'
    <3>1. tool \in Retractions /\ tool.giver \in Givers
      BY <2>38 DEF ToolReads, Retractions
    <3>2. Drawn(tool.giver) \in Nat
      BY <3>1, DrawnTyped DEF RowsTyped
    <3>3. tool' \in Retractions
      BY <2>38, <3>1, <3>2 DEF ToolReads, Retractions
    <3> QED
      BY <2>38, <3>1, <3>2, <3>3 DEF ToolReads
  <2>39. ASSUME ToolRetracts PROVE TypeOK'
    <3>0. tool.giver \in Givers /\ tool.floor \in Nat
      BY <2>39 DEF ToolRetracts, Retractions
    <3>1. RowsTyped'
      BY <2>39, <3>0, SetPledgeTyped DEF ToolRetracts, RowsTyped
    <3> QED
      BY <2>39, <3>1 DEF ToolRetracts, RowsTyped
  <2>40. ASSUME Crash PROVE TypeOK'
    <3>1. sweep' \in Sweeps
      BY <2>40 DEF Crash, Sweeps, Resting
    <3>2. task # Nothing => task.giver \in Givers
      BY DEF Connects, Leaves
    <3> QED
      BY <2>40, <3>1, <3>2 DEF Crash
  <2>41. ASSUME UNCHANGED vars PROVE TypeOK'
    BY <2>41 DEF vars
  <2> HIDE DEF TypeOK
  <2> QED
    BY <2>1, <2>2, <2>3, <2>4, <2>5, <2>6, <2>7, <2>8, <2>9, <2>10, <2>11, <2>12, <2>13, <2>14, <2>15, <2>16, <2>17, <2>18, <2>19, <2>20, <2>21, <2>22, <2>23, <2>24, <2>25, <2>26, <2>27, <2>28, <2>29, <2>30, <2>31, <2>32, <2>33, <2>34, <2>35, <2>36, <2>37, <2>38, <2>39, <2>40, <2>41, <2>42 DEF Next, Connecting, Leaving, Sweeping
<1> QED
  BY <1>1, <1>2, PTL DEF Spec

-----------------------------------------------------------------------------
(* Quota, pledge and what is drawn *)

BackedBy(r) == r.drawn <= r.pledge + r.late /\ r.pledge <= r.quota
RowsBacked == \A g \in Givers : row[g] # Nothing => BackedBy(row[g])

LEMMA SetQuotaBacked ==
    ASSUME RowsTyped, RowsBacked, NEW g \in Givers, NEW m, NEW q \in Nat, SetQuota(m, g, q)
    PROVE  RowsBacked'
<1>1. BackedBy(Row(q, 0))
  BY DEF BackedBy, Row
<1>2. row[g] # Nothing /\ QuotaAllowed(g, q)
        => BackedBy([row[g] EXCEPT !.quota = q, !.pledge = Least(@, q)])
  BY DEF BackedBy, RowsBacked, RowsTyped, Rows, QuotaAllowed, Drawn, Least
<1> QED
  BY <1>1, <1>2 DEF SetQuota, Put, RowsBacked, RowsTyped

LEMMA SetPledgeBacked ==
    ASSUME RowsTyped, RowsBacked, NEW g \in Givers, NEW m, NEW p \in Nat, SetPledge(m, g, p)
    PROVE  RowsBacked'
<1>1. BackedBy(Row(0, 0))
  BY DEF BackedBy, Row
<1>2. row[g] # Nothing /\ PledgeAllowed(g, p) => BackedBy([row[g] EXCEPT !.pledge = p])
  BY DEF BackedBy, RowsBacked, RowsTyped, Rows, PledgeAllowed, Drawn
<1> QED
  BY <1>1, <1>2 DEF SetPledge, Put, RowsBacked, RowsTyped

\* Whatever a task, a sweep or the tool read before it writes, and whenever a
\* call burns cancelled credit: a row's pledge covers what is drawn but for what
\* such calls burned, and its quota covers the pledge.
THEOREM Backing == Spec => []PledgeBacked
<1>1. Init => RowsBacked
  BY DEF Init, RowsBacked
<1>2. TypeOK /\ RowsBacked /\ [Next]_vars => RowsBacked'
  <2> SUFFICES ASSUME TypeOK, RowsBacked, [Next]_vars PROVE RowsBacked'
    OBVIOUS
  <2>0. RowsTyped
    BY DEF TypeOK, RowsTyped
  <2>a. task \in Connects \cup Leaves \cup {Nothing}
    BY DEF TypeOK
  <2>1. ASSUME NEW p \in Processes, RollOver(p) PROVE RowsBacked'
    <3>1. \A g \in Givers : BackedBy(Seed(g))
      BY DEF BackedBy, Seed, Row
    <3> QED
      BY <2>1, <3>1 DEF RollOver, Open, RowsBacked
  <2>2. ASSUME NEW g \in Givers, ConnectAnswered(g) PROVE RowsBacked'
    BY <2>2, <2>0, SetQuotaBacked DEF ConnectAnswered
  <2>3. ASSUME ConnectPledge PROVE RowsBacked'
    <3>1. task.giver \in Givers
      BY <2>3, <2>a, ConnectRuns DEF ConnectPledge
    <3> QED
      BY <2>3, <2>0, <3>1, SetPledgeBacked DEF ConnectPledge, RowsBacked
  <2>4. ASSUME LeavePledge PROVE RowsBacked'
    <3>1. task.giver \in Givers /\ task.floor \in Nat
      BY <2>4, <2>a, LeaveRuns DEF LeavePledge
    <3> QED
      BY <2>4, <2>0, <3>1, SetPledgeBacked DEF LeavePledge, LeaveRefused, RowsBacked
  <2>5. ASSUME LeaveQuota PROVE RowsBacked'
    <3>1. task.giver \in Givers /\ task.floor \in Nat
      BY <2>5, <2>a, LeaveRuns DEF LeaveQuota
    <3> QED
      BY <2>5, <2>0, <3>1, SetQuotaBacked DEF LeaveQuota, LeaveRefused, RowsBacked
  <2>6. ASSUME NEW g \in Givers, Edit(g) PROVE RowsBacked'
    BY <2>6, <2>0, SetPledgeBacked DEF Edit
  <2>7. ASSUME NEW g \in Givers, Visit(g) PROVE RowsBacked'
    BY <2>7, <2>0, SetQuotaBacked DEF Visit, RowsBacked
  <2>8. ASSUME NEW g \in Givers, Fill(g) PROVE RowsBacked'
    BY <2>8, <2>0 DEF Fill, Undrawn, RowsBacked, BackedBy, RowsTyped, Rows
  <2>9. ASSUME NEW g \in Givers, Refund(g) PROVE RowsBacked'
    BY <2>9, <2>0 DEF Refund, RowsBacked, BackedBy, RowsTyped, Rows
  <2>10. ASSUME NEW g \in Givers, LateDebit(g) PROVE RowsBacked'
    BY <2>10, <2>0 DEF LateDebit, RowsBacked, BackedBy, RowsTyped, Rows
  <2>11. ASSUME Withdraw PROVE RowsBacked'
    <3>1. sweep.giver \in Givers /\ sweep.floor \in Nat
      BY <2>11 DEF Withdraw, TypeOK, Sweeps
    <3> QED
      BY <2>11, <2>0, <3>1, SetPledgeBacked DEF Withdraw
  <2>12. ASSUME GateRaise PROVE RowsBacked'
    <3>1. gate.giver \in Givers
      BY <2>12 DEF GateRaise, TypeOK, Gates
    <3> QED
      BY <2>12, <2>0, <3>1, SetQuotaBacked DEF GateRaise
  <2>13. ASSUME ToolRetracts PROVE RowsBacked'
    <3>1. tool.giver \in Givers /\ tool.floor \in Nat
      BY <2>13 DEF ToolRetracts, TypeOK, Retractions
    <3> QED
      BY <2>13, <2>0, <3>1, SetPledgeBacked DEF ToolRetracts
  <2>14. ASSUME
      \/ Tick \/ (\E p \in Processes : Look(p)) \/ (\E k \in Revocable : Revoke(k))
      \/ (\E g \in Givers, k \in Pats : ConnectBegin(g, k))
      \/ (\E g \in Givers : ConnectRefused(g)) \/ ConnectPat \/ ConnectHealth
      \/ ConnectRole \/ ConnectSnapshot \/ (\E g \in Givers : LeaveBegin(g))
      \/ LeaveEnsure \/ LeaveRole \/ (\E g \in Givers : EditBegin(g))
      \/ (\E g \in Givers : VisitBegin(g)) \/ SweepBegin
      \/ (\E g \in Givers : CheckBegin(g)) \/ CheckDone \/ CheckFails \/ Retract
      \/ (\E S \in SUBSET Givers : SweepSleep(S)) \/ SweepAgain \/ SweepEnd
      \/ (\E g \in Givers : GateBegin(g)) \/ GateAnswered
      \/ (\E g \in Givers : ToolList(g)) \/ ToolAborts
      \/ ToolReads \/ Crash \/ UNCHANGED vars
     PROVE RowsBacked'
    BY <2>14
      DEF Tick, Look, Revoke, ConnectBegin, ConnectRefused, ConnectPat, ConnectHealth,
         ConnectRole, ConnectSnapshot, LeaveBegin, LeaveEnsure, LeaveRole, EditBegin,
         VisitBegin, SweepBegin, CheckBegin, CheckDone, CheckFails, Retract, SweepSleep,
         SweepAgain, SweepEnd, GateBegin, GateAnswered, ToolList, ToolAborts, ToolReads,
         Crash, vars, RowsBacked, cycleVars, giverVars
  <2> QED
    BY <2>1, <2>2, <2>3, <2>4, <2>5, <2>6, <2>7, <2>8, <2>9, <2>10, <2>11, <2>12, <2>13, <2>14 DEF Next, Connecting, Leaving, Sweeping
<1>3. RowsBacked => PledgeBacked
  BY DEF RowsBacked, BackedBy, PledgeBacked
<1> QED
  BY <1>1, <1>2, <1>3, LifecycleTyping, PTL DEF Spec

-----------------------------------------------------------------------------
(* What a change of quota or pledge leaves as it is *)

\* The rows that are there stay, and no other one appears.
SameRows == \A g \in Givers : row'[g] = Nothing <=> row[g] = Nothing

\* A row that is there keeps what is drawn.
KeepsDraws(g) ==
    row[g] # Nothing =>
        row'[g] # Nothing /\ row'[g].drawn = row[g].drawn /\ row'[g].late = row[g].late

LEMMA SetQuotaRows ==
    ASSUME RowsTyped, NEW g \in Givers, NEW m, NEW q \in Nat, SetQuota(m, g, q)
    PROVE  /\ m # active \/ row[g] # Nothing => SameRows
           /\ \A h \in Givers : KeepsDraws(h)
           /\ \A h \in Givers : h # g => row'[h] = row[h]
<1> DEFINE r == [row[g] EXCEPT !.quota = q, !.pledge = Least(@, q)]
<1>1. row[g] # Nothing => r \in Rows /\ r.drawn = row[g].drawn /\ r.late = row[g].late
  BY DEF Rows, Least, RowsTyped
<1>2. Row(q, 0) \in Rows
  BY RowTyped
<1> QED
  BY <1>1, <1>2 DEF SetQuota, Put, RowsTyped, SameRows, KeepsDraws

LEMMA SetPledgeRows ==
    ASSUME RowsTyped, NEW g \in Givers, NEW m, NEW p \in Nat, SetPledge(m, g, p)
    PROVE  /\ m # active \/ row[g] # Nothing => SameRows
           /\ \A h \in Givers : KeepsDraws(h)
           /\ \A h \in Givers : h # g => row'[h] = row[h]
<1> DEFINE r == [row[g] EXCEPT !.pledge = p]
<1>1. row[g] # Nothing => r \in Rows /\ r.drawn = row[g].drawn /\ r.late = row[g].late
  BY DEF Rows, RowsTyped
<1>2. Row(0, 0) \in Rows
  BY RowTyped
<1> QED
  BY <1>1, <1>2 DEF SetPledge, Put, RowsTyped, SameRows, KeepsDraws

-----------------------------------------------------------------------------
(* Roles and PATs *)

\* What is drawn by now is what a disconnect read, unless a call burned
\* cancelled credit or a month began.
FloorHolds ==
    task # Nothing /\ task.at \in {"pledge", "quota"} =>
        /\ task.cycle \in Months /\ task.cycle <= active
        /\ task.cycle = active =>
               /\ row[task.giver] # Nothing
               /\ row[task.giver].late = 0 => task.floor = row[task.giver].drawn

LEMMA KeptFloorHolds ==
    ASSUME TypeOK, FloorHolds, UNCHANGED <<task, active>>, \A g \in Givers : KeepsDraws(g)
    PROVE  FloorHolds'
<1>1. task # Nothing => task.giver \in Givers
  BY DEF TypeOK, Connects, Leaves
<1> QED
  BY <1>1 DEF FloorHolds, KeepsDraws

LEMMA FloorHeld == Spec => []FloorHolds
<1>1. Init => FloorHolds
  BY DEF Init, FloorHolds
<1>2. TypeOK /\ FloorHolds /\ [Next]_vars => FloorHolds'
  <2> SUFFICES ASSUME TypeOK, FloorHolds, [Next]_vars PROVE FloorHolds'
    OBVIOUS
  <2>0. RowsTyped
    BY DEF TypeOK, RowsTyped
  <2>a. task \in Connects \cup Leaves \cup {Nothing}
    BY DEF TypeOK
  <2>1. ASSUME NEW p \in Processes, RollOver(p) PROVE FloorHolds'
    <3>1. active \in Nat /\ rolling[p] \in Nat
      BY <2>1 DEF RollOver, TypeOK
    <3> QED
      BY <2>1, <3>1 DEF RollOver, Open, FloorHolds, cycleVars
  <2>2. ASSUME LeaveEnsure PROVE FloorHolds'
    <3>1. task \in Leaves /\ task.at = "ensure" /\ task.giver \in Givers
      BY <2>2, <2>a, LeaveRuns DEF LeaveEnsure
    <3>2. /\ task'.giver = task.giver /\ task'.cycle = month
          /\ \/ task'.at = "consumer"
             \/ row[task.giver] # Nothing /\ task'.floor = row[task.giver].drawn
      BY <2>2, <2>0, <3>1, FloorRead DEF LeaveEnsure, TypeOK
    <3>3. month = active /\ month \in Months
      BY <2>2 DEF LeaveEnsure, Live, TypeOK
    <3> QED
      BY <2>2, <3>2, <3>3 DEF LeaveEnsure, FloorHolds, cycleVars, giverVars
  <2>3. ASSUME LeavePledge PROVE FloorHolds'
    <3>1. task \in Leaves /\ task.at = "pledge" /\ task.giver \in Givers /\ task.floor \in Nat
      BY <2>3, <2>a, LeaveRuns DEF LeavePledge
    <3>2. CASE task' = Nothing
      BY <3>2 DEF FloorHolds
    <3>3. CASE Goes("quota") /\ SetPledge(task.cycle, task.giver, task.floor)
      <4>1. /\ task'.giver = task.giver /\ task'.cycle = task.cycle /\ task'.floor = task.floor
        BY <3>1, <3>3, PledgeCut
      <4>2. KeepsDraws(task.giver)
        BY <2>0, <3>1, <3>3, SetPledgeRows
      <4> QED
        BY <2>3, <3>1, <4>1, <4>2 DEF LeavePledge, FloorHolds, KeepsDraws, cycleVars
    <3> QED
      BY <2>3, <3>2, <3>3 DEF LeavePledge, LeaveRefused
  <2>4. ASSUME LeaveQuota PROVE FloorHolds'
    <3>1. task' = Nothing \/ task'.at = "consumer"
      BY <2>4, <2>a, LeaveRuns, QuotaCut DEF LeaveQuota, LeaveRefused
    <3> QED
      BY <3>1 DEF FloorHolds
  <2>5. ASSUME NEW g \in Givers, LateDebit(g) PROVE FloorHolds'
    <3>1. PICK n \in 1 .. row[g].loose :
              row' = [row EXCEPT ![g].loose = @ - n, ![g].drawn = @ + n, ![g].late = @ + n]
      BY <2>5 DEF LateDebit
    <3>2. row[g] \in Rows /\ row'[g].late = row[g].late + n /\ row'[g] # Nothing
      BY <2>0, <2>5, <3>1 DEF LateDebit, RowsTyped, Rows
    <3>3. row'[g].late # 0
      BY <3>1, <3>2 DEF Rows
    <3>4. \A h \in Givers : h # g => row'[h] = row[h]
      BY <2>0, <3>1 DEF RowsTyped
    <3>5. task # Nothing => task.giver \in Givers
      BY <2>a DEF Connects, Leaves
    <3> QED
      BY <2>5, <3>2, <3>3, <3>4, <3>5 DEF LateDebit, FloorHolds, cycleVars
  <2>6. ASSUME Withdraw PROVE FloorHolds'
    <3>1. sweep.giver \in Givers /\ sweep.floor \in Nat
      BY <2>6 DEF Withdraw, TypeOK, Sweeps
    <3> QED
      BY <2>6, <2>0, <3>1, SetPledgeRows, KeptFloorHolds DEF Withdraw, cycleVars
  <2>7. ASSUME GateRaise PROVE FloorHolds'
    <3>1. gate.giver \in Givers
      BY <2>7 DEF GateRaise, TypeOK, Gates
    <3> QED
      BY <2>7, <2>0, <3>1, SetQuotaRows, KeptFloorHolds DEF GateRaise, cycleVars
  <2>8. ASSUME ToolRetracts PROVE FloorHolds'
    <3>1. tool.giver \in Givers /\ tool.floor \in Nat
      BY <2>8 DEF ToolRetracts, TypeOK, Retractions
    <3> QED
      BY <2>8, <2>0, <3>1, SetPledgeRows, KeptFloorHolds DEF ToolRetracts, cycleVars
  <2>9. ASSUME \/ ConnectPat \/ ConnectHealth \/ ConnectRole \/ ConnectSnapshot \/ ConnectPledge
               \/ (\E g \in Givers : LeaveBegin(g)) \/ (\E g \in Givers : ConnectAnswered(g))
               \/ LeaveRole \/ Crash
        PROVE  FloorHolds'
    <3>1. ASSUME ConnectPat \/ ConnectHealth \/ ConnectRole \/ ConnectSnapshot
          PROVE  task'.at \notin {"pledge", "quota"}
      BY <3>1, <2>a, ConnectRuns DEF ConnectPat, ConnectHealth, ConnectRole, ConnectSnapshot, Goes, Connects
    <3>2. ASSUME (\E g \in Givers : LeaveBegin(g)) \/ (\E g \in Givers : ConnectAnswered(g))
          PROVE  task'.at \notin {"pledge", "quota"}
      BY <3>2 DEF LeaveBegin, ConnectAnswered
    <3>3. ASSUME ConnectPledge \/ LeaveRole \/ Crash PROVE task' = Nothing
      BY <3>3 DEF ConnectPledge, LeaveRole, Crash
    <3> QED
      BY <2>9, <3>1, <3>2, <3>3 DEF FloorHolds
  <2>10. ASSUME
      \/ (\E g \in Givers : Edit(g)) \/ (\E g \in Givers : Visit(g))
      \/ (\E g \in Givers : Fill(g)) \/ (\E g \in Givers : Refund(g))
     PROVE FloorHolds'
    BY <2>10 DEF Edit, Visit, Fill, Refund, Idle, FloorHolds
  <2>11. ASSUME
      \/ Tick \/ (\E p \in Processes : Look(p)) \/ (\E k \in Revocable : Revoke(k))
      \/ (\E g \in Givers, k \in Pats : ConnectBegin(g, k))
      \/ (\E g \in Givers : ConnectRefused(g)) \/ (\E g \in Givers : EditBegin(g))
      \/ (\E g \in Givers : VisitBegin(g)) \/ SweepBegin
      \/ (\E g \in Givers : CheckBegin(g)) \/ CheckDone \/ CheckFails \/ Retract
      \/ (\E S \in SUBSET Givers : SweepSleep(S)) \/ SweepAgain \/ SweepEnd
      \/ (\E g \in Givers : GateBegin(g)) \/ GateAnswered
      \/ (\E g \in Givers : ToolList(g)) \/ ToolAborts
      \/ ToolReads \/ UNCHANGED vars
     PROVE FloorHolds'
    BY <2>11
      DEF Tick, Look, Revoke, ConnectBegin, ConnectRefused, EditBegin,
         VisitBegin, SweepBegin, CheckBegin, CheckDone, CheckFails, Retract, SweepSleep,
         SweepAgain, SweepEnd, GateBegin, GateAnswered, ToolList, ToolAborts, ToolReads,
         vars, FloorHolds, cycleVars, giverVars
  <2> QED
    BY <2>1, <2>2, <2>3, <2>4, <2>5, <2>6, <2>7, <2>8, <2>9, <2>10, <2>11 DEF Next, Connecting, Leaving, Sweeping
<1> QED
  BY <1>1, <1>2, LifecycleTyping, PTL DEF Spec

\* So a disconnect is never refused for anything but what calls in flight burned.
LEMMA RefusedForBurn ==
    ASSUME TypeOK, FloorHolds, PledgeBacked, task \in Leaves, task.at \in {"pledge", "quota"},
           NEW allowed \in {PledgeAllowed(task.giver, task.floor), QuotaAllowed(task.giver, task.floor)},
           LeaveRefused(allowed)
    PROVE  torn' = torn \cup {task.giver}
<1> SUFFICES ASSUME task.cycle = active, row[task.giver].late = 0 PROVE FALSE
  BY DEF LeaveRefused
<1>1. /\ task.giver \in Givers /\ row[task.giver] \in Rows
      /\ row[task.giver] # Nothing /\ task.floor = row[task.giver].drawn
  BY DEF TypeOK, Leaves, FloorHolds
<1>2. row[task.giver].drawn <= row[task.giver].pledge /\ row[task.giver].pledge <= row[task.giver].quota
  BY <1>1 DEF PledgeBacked, Rows
<1>3. PledgeAllowed(task.giver, task.floor) /\ QuotaAllowed(task.giver, task.floor)
  BY <1>1, <1>2 DEF PledgeAllowed, QuotaAllowed, Drawn, Rows
<1> QED
  BY <1>3 DEF LeaveRefused

Settled(g) == role[g] = "giver" <=> pat[g] # Nothing

\* What a task has already written for the giver it is about.
RolesInStep ==
    /\ \A g \in Givers \ torn :
           task = Nothing \/ task.giver # g \/ task.at = "pat" => Settled(g)
    /\ task # Nothing /\ task.at \in {"health", "giver", "snapshot", "default"}
           => pat[task.giver] # Nothing
    /\ task # Nothing /\ task.at \in {"snapshot", "default"} => role[task.giver] = "giver"
    /\ task # Nothing /\ task.at \in {"ensure", "pledge", "quota", "consumer"}
           => pat[task.giver] = Nothing

\* The role a user has is the role the PAT calls for, though it is written in a
\* later transaction, and whoever else writes to giver_pats or to what is drawn in
\* between: the statements before it are refused only because calls in flight
\* burned cancelled credit.
THEOREM Roles == Spec => []RoleMatchesPat
<1>1. Init => RolesInStep
  BY DEF Init, RolesInStep, Settled
<1>2. TypeOK /\ PledgeBacked /\ FloorHolds /\ RolesInStep /\ [Next]_vars => RolesInStep'
  <2> SUFFICES ASSUME TypeOK, PledgeBacked, FloorHolds, RolesInStep, [Next]_vars PROVE RolesInStep'
    OBVIOUS
  <2>a. /\ task \in Connects \cup Leaves \cup {Nothing}
        /\ pat \in [Givers -> StoredPats \cup {Nothing}]
        /\ role \in [Givers -> {"consumer", "giver"}]
    BY DEF TypeOK
  <2>1. ASSUME NEW g \in Givers, ConnectAnswered(g) PROVE RolesInStep'
    BY <2>1, <2>a DEF ConnectAnswered, Idle, RolesInStep, Settled
  <2>2. ASSUME ConnectPat PROVE RolesInStep'
    <3>1. task \in Connects /\ task.at = "pat" /\ task.pat \in Pats /\ task.giver \in Givers
      BY <2>2, <2>a, ConnectRuns DEF ConnectPat
    <3>2. \A g \in Givers : g # task.giver => pat'[g] = pat[g]
      BY <2>2, <2>a, <3>1 DEF ConnectPat
    <3>3. pat'[task.giver] # Nothing
      <4>1. [id |-> task.pat, verdict |-> "none", known |-> FALSE] \in StoredPats
        BY <3>1 DEF StoredPats, Verdicts
      <4>2. pat[task.giver] # Nothing => [pat[task.giver] EXCEPT !.id = task.pat] \in StoredPats
        BY <2>a, <3>1 DEF StoredPats
      <4> QED
        BY <2>2, <2>a, <3>1, <4>1, <4>2 DEF ConnectPat
    <3>4. task' = [task EXCEPT !.at = "health"]
      BY <2>2 DEF ConnectPat, Goes
    <3>5. task' # Nothing /\ task'.at = "health" /\ task'.giver = task.giver
      BY <3>1, <3>4, ConnectGoes DEF Goes, Connects
    <3> QED
      BY <2>2, <3>1, <3>2, <3>3, <3>5 DEF ConnectPat, RolesInStep, Settled
  <2>3. ASSUME ConnectHealth PROVE RolesInStep'
    <3>1. task \in Connects /\ task.at = "health" /\ task.giver \in Givers
      BY <2>3, <2>a, ConnectRuns DEF ConnectHealth
    <3>2. pat[task.giver] # Nothing => [pat[task.giver] EXCEPT !.verdict = "valid"] \in StoredPats
      BY <2>a, <3>1 DEF StoredPats, Verdicts
    <3>3. \A g \in Givers : pat'[g] = Nothing <=> pat[g] = Nothing
      BY <2>3, <2>a, <3>1, <3>2 DEF ConnectHealth, UpdatePat
    <3>4. task' # Nothing /\ task'.at = "giver" /\ task'.giver = task.giver
      BY <2>3, <3>1, ConnectGoes DEF ConnectHealth, Goes, Connects
    <3> QED
      BY <2>3, <3>1, <3>3, <3>4 DEF ConnectHealth, RolesInStep, Settled
  <2>4. ASSUME ConnectRole PROVE RolesInStep'
    <3>1. task \in Connects /\ task.at = "giver" /\ task.giver \in Givers
      BY <2>4, <2>a, ConnectRuns DEF ConnectRole
    <3>2. task' # Nothing /\ task'.at = "snapshot" /\ task'.giver = task.giver
      BY <2>4, <3>1, ConnectGoes DEF ConnectRole, Goes, Connects
    <3> QED
      BY <2>4, <2>a, <3>1, <3>2 DEF ConnectRole, RolesInStep, Settled
  <2>5. ASSUME ConnectSnapshot PROVE RolesInStep'
    <3>1. task \in Connects /\ task.at = "snapshot" /\ task.giver \in Givers
      BY <2>5, <2>a, ConnectRuns DEF ConnectSnapshot
    <3>2. pat[task.giver] # Nothing => [pat[task.giver] EXCEPT !.known = TRUE] \in StoredPats
      BY <2>a, <3>1, KnownUpdated, TRUE \in BOOLEAN
    <3>3. \A g \in Givers : pat'[g] = Nothing <=> pat[g] = Nothing
      BY <2>5, <2>a, <3>1, <3>2 DEF ConnectSnapshot, UpdatePat
    <3>4. task' # Nothing /\ task'.at = "default" /\ task'.giver = task.giver
      BY <2>5, <3>1, ConnectGoes DEF ConnectSnapshot, Goes, Connects
    <3> QED
      BY <2>5, <3>1, <3>3, <3>4 DEF ConnectSnapshot, RolesInStep, Settled
  <2>6. ASSUME ConnectPledge PROVE RolesInStep'
    <3>1. task \in Connects /\ task.at = "default" /\ task.giver \in Givers
      BY <2>6, <2>a, ConnectRuns DEF ConnectPledge
    <3> QED
      BY <2>6, <2>a, <3>1 DEF ConnectPledge, RolesInStep, Settled
  <2>7. ASSUME NEW g \in Givers, LeaveBegin(g) PROVE RolesInStep'
    <3>1. task' \in Leaves /\ task'.at = "ensure" /\ task'.giver = g
      BY <2>7 DEF LeaveBegin, Leaves
    <3> QED
      BY <2>7, <2>a, <3>1 DEF LeaveBegin, Idle, RolesInStep, Settled
  <2>8. ASSUME LeaveEnsure PROVE RolesInStep'
    <3>1. task \in Leaves /\ task.at = "ensure" /\ task.giver \in Givers
      BY <2>8, <2>a, LeaveRuns DEF LeaveEnsure
    <3>2. task' \in Leaves /\ task'.at \in {"pledge", "consumer"} /\ task'.giver = task.giver
      BY <2>8, <3>1, FloorRead DEF LeaveEnsure, TypeOK, RowsTyped
    <3> QED
      BY <2>8, <2>a, <3>1, <3>2 DEF LeaveEnsure, giverVars, RolesInStep, Settled
  <2>9. ASSUME LeavePledge PROVE RolesInStep'
    <3>1. task \in Leaves /\ task.at = "pledge" /\ task.giver \in Givers
      BY <2>9, <2>a, LeaveRuns DEF LeavePledge
    <3>2. CASE Goes("quota") /\ UNCHANGED torn
      <4>1. task' \in Leaves /\ task'.at = "quota" /\ task'.giver = task.giver
        BY <3>1, <3>2, PledgeCut
      <4> QED
        BY <2>9, <2>a, <3>1, <3>2, <4>1 DEF LeavePledge, RolesInStep, Settled
    <3>3. CASE LeaveRefused(PledgeAllowed(task.giver, task.floor))
      <4>1. task' = Nothing /\ torn' = torn \cup {task.giver}
        BY <3>1, <3>3, RefusedForBurn DEF LeaveRefused
      <4> QED
        BY <2>9, <2>a, <3>1, <4>1 DEF LeavePledge, RolesInStep, Settled
    <3> QED
      BY <2>9, <3>2, <3>3 DEF LeavePledge
  <2>10. ASSUME LeaveQuota PROVE RolesInStep'
    <3>1. task \in Leaves /\ task.at = "quota" /\ task.giver \in Givers
      BY <2>10, <2>a, LeaveRuns DEF LeaveQuota
    <3>2. CASE /\ task' = [task EXCEPT !.at = "consumer", !.floor = Nothing, !.over = FALSE]
               /\ UNCHANGED torn
      <4>1. task' \in Leaves /\ task'.at = "consumer" /\ task'.giver = task.giver
        BY <3>1, <3>2, QuotaCut
      <4> QED
        BY <2>10, <2>a, <3>1, <3>2, <4>1 DEF LeaveQuota, RolesInStep, Settled
    <3>3. CASE LeaveRefused(QuotaAllowed(task.giver, task.floor))
      <4>1. task' = Nothing /\ torn' = torn \cup {task.giver}
        BY <3>1, <3>3, RefusedForBurn DEF LeaveRefused
      <4> QED
        BY <2>10, <2>a, <3>1, <4>1 DEF LeaveQuota, RolesInStep, Settled
    <3> QED
      BY <2>10, <3>2, <3>3 DEF LeaveQuota
  <2>11. ASSUME LeaveRole PROVE RolesInStep'
    <3>1. task \in Leaves /\ task.at = "consumer" /\ task.giver \in Givers
      BY <2>11, <2>a, LeaveRuns DEF LeaveRole
    <3> QED
      BY <2>11, <2>a, <3>1 DEF LeaveRole, RolesInStep, Settled
  <2>12. ASSUME CheckDone PROVE RolesInStep'
    <3>1. ASSUME NEW r \in StoredPats, NEW v \in Verdicts, NEW b \in BOOLEAN
          PROVE  [r EXCEPT !.verdict = v, !.known = b \/ @] # Nothing
      BY VerdictTyped
    <3>2. ASSUME NEW g \in Givers PROVE pat'[g] = Nothing <=> pat[g] = Nothing
      BY <2>12, <2>a, <3>1 DEF CheckDone, UpdatePat, Verdicts
    <3>3. task # Nothing => task.giver \in Givers
      BY <2>a DEF Connects, Leaves
    <3> QED
      BY <2>12, <3>2, <3>3 DEF CheckDone, RolesInStep, Settled
  <2>13. ASSUME Crash PROVE RolesInStep'
    <3>1. task # Nothing => task.giver \in Givers
      BY <2>a DEF Connects, Leaves
    <3> QED
      BY <2>13, <3>1 DEF Crash, giverVars, RolesInStep, Settled
  <2>14. ASSUME
      \/ Tick \/ (\E p \in Processes : Look(p)) \/ (\E p \in Processes : RollOver(p))
      \/ (\E k \in Revocable : Revoke(k))
      \/ (\E g \in Givers, k \in Pats : ConnectBegin(g, k))
      \/ (\E g \in Givers : ConnectRefused(g)) \/ (\E g \in Givers : EditBegin(g))
      \/ (\E g \in Givers : Edit(g)) \/ (\E g \in Givers : VisitBegin(g))
      \/ (\E g \in Givers : Visit(g)) \/ (\E g \in Givers : Fill(g))
      \/ (\E g \in Givers : Refund(g)) \/ (\E g \in Givers : LateDebit(g)) \/ SweepBegin
      \/ (\E g \in Givers : CheckBegin(g)) \/ CheckFails \/ Retract \/ Withdraw
      \/ (\E S \in SUBSET Givers : SweepSleep(S)) \/ SweepAgain \/ SweepEnd
      \/ (\E g \in Givers : GateBegin(g)) \/ GateAnswered \/ GateRaise
      \/ (\E g \in Givers : ToolList(g)) \/ ToolAborts
      \/ ToolReads \/ ToolRetracts \/ UNCHANGED vars
     PROVE RolesInStep'
    BY <2>14
      DEF Tick, Look, RollOver, Revoke, ConnectBegin, ConnectRefused, EditBegin, Edit,
         VisitBegin, Visit, Fill, Refund, LateDebit, SweepBegin, CheckBegin, CheckFails, Retract, Withdraw,
         SweepSleep, SweepAgain, SweepEnd, GateBegin, GateAnswered, GateRaise,
         ToolList, ToolAborts, ToolReads, ToolRetracts, vars, RolesInStep, Settled,
         cycleVars, giverVars
  <2> QED
    BY <2>1, <2>2, <2>3, <2>4, <2>5, <2>6, <2>7, <2>8, <2>9, <2>10, <2>11, <2>12, <2>13, <2>14 DEF Next, Connecting, Leaving, Sweeping
<1>3. RolesInStep => RoleMatchesPat
  BY DEF RolesInStep, Settled, RoleMatchesPat
<1> QED
  BY <1>1, <1>2, <1>3, LifecycleTyping, Backing, FloorHeld, PTL DEF Spec

-----------------------------------------------------------------------------
(* Whoever leaves *)

\* What remains of a giver who left: of whatever was under way, nothing can
\* bring a row back into a later month.
Away(g) ==
    /\ left[g] <= active /\ pat[g] = Nothing
    /\ task # Nothing /\ task.giver = g => task.at \in {"ensure", "pledge", "quota", "consumer"}
    /\ task = Nothing \/ task.giver # g => role[g] = "consumer"
    /\ edit[g] # Nothing => edit[g] <= left[g]
    /\ left[g] < active => row[g] = Nothing

\* A writer that goes on the cycle it found finds the row it found there.
Found(m, g) == m \in Months /\ m <= active /\ (m = active => row[g] # Nothing)

GoneForGood ==
    /\ \A g \in Givers : left[g] # Nothing => Away(g)
    /\ \A g \in Givers : edit[g] # Nothing => edit[g] <= active
    /\ gate # Nothing => gate.cycle <= active /\ (gate.at = "raise" => Found(gate.cycle, gate.giver))
    /\ tool # Nothing => Found(tool.cycle, tool.giver)
    /\ task # Nothing /\ task.at \in {"pledge", "quota"} => Found(task.cycle, task.giver)
    /\ sweep.at = "withdraw" => Found(sweep.cycle, sweep.giver)

LEMMA WritersGivers ==
    ASSUME TypeOK
    PROVE  /\ task # Nothing => task.giver \in Givers
           /\ gate # Nothing => gate.giver \in Givers /\ gate.cycle \in Months
           /\ tool # Nothing => tool.giver \in Givers /\ tool.cycle \in Months
           /\ sweep.at = "withdraw" => sweep.giver \in Givers
  BY DEF TypeOK, Connects, Leaves, Gates, Retractions, Sweeps

\* A step that changes quotas, pledges or draws, and nothing else.
LEMMA SameRowsSuffice ==
    ASSUME TypeOK, GoneForGood, SameRows, UNCHANGED <<active, pat, role, task, edit, gate, tool, left>>,
           UNCHANGED sweep \/ sweep'.at # "withdraw"
    PROVE  GoneForGood'
  BY WritersGivers DEF GoneForGood, Away, Found, SameRows

\* A disconnect that is refused is given up.
LEMMA RefusedGone ==
    ASSUME TypeOK, GoneForGood, task \in Leaves, NEW allowed, LeaveRefused(allowed),
           UNCHANGED <<active, pat, role, edit, gate, tool, sweep>>
    PROVE  GoneForGood'
<1>1. task.giver \in Givers /\ left \in [Givers -> Nat \cup {Nothing}]
  BY DEF TypeOK, Leaves
<1>2. task' = Nothing /\ row' = row /\ left' = [left EXCEPT ![task.giver] = Nothing]
  BY DEF LeaveRefused
<1> QED
  BY <1>1, <1>2, WritersGivers DEF GoneForGood, Away, Found

\* Whoever disconnects has no row in the cycle of any later month.
THEOREM ForGood == Spec => []LeavesForGood
<1>1. Init => GoneForGood
  BY DEF Init, Resting, GoneForGood
<1>2. TypeOK /\ GoneForGood /\ [Next]_vars => GoneForGood'
  <2> SUFFICES ASSUME TypeOK, GoneForGood, [Next]_vars PROVE GoneForGood'
    OBVIOUS
  <2>0. RowsTyped
    BY DEF TypeOK, RowsTyped
  <2>a. /\ task \in Connects \cup Leaves \cup {Nothing}
        /\ pat \in [Givers -> StoredPats \cup {Nothing}]
        /\ role \in [Givers -> {"consumer", "giver"}]
        /\ left \in [Givers -> Nat \cup {Nothing}]
        /\ edit \in [Givers -> Months \cup {Nothing}]
        /\ active \in Nat /\ month \in Months
    BY DEF TypeOK
  <2>b. /\ task # Nothing => task.giver \in Givers
        /\ gate # Nothing => gate.giver \in Givers /\ gate.cycle \in Months
        /\ tool # Nothing => tool.giver \in Givers /\ tool.cycle \in Months
        /\ sweep.at = "withdraw" => sweep.giver \in Givers
    BY WritersGivers
  <2>1. ASSUME NEW p \in Processes, RollOver(p) PROVE GoneForGood'
    <3>1. CASE UNCHANGED <<active, row>>
      BY <2>1, <2>b, <3>1 DEF RollOver, cycleVars, webVars, GoneForGood, Away, Found
    <3>2. CASE rolling[p] > active /\ Open(rolling[p])
      <4>1. active' > active /\ active' \in Nat
        BY <2>1, <3>2 DEF Open, TypeOK
      <4>2. \A g \in Givers : pat[g] = Nothing => row'[g] = Nothing
        BY <3>2 DEF Open
      <4>3. ASSUME NEW g \in Givers, left'[g] # Nothing PROVE Away(g)'
        BY <2>1, <2>a, <4>1, <4>2, <4>3 DEF RollOver, cycleVars, webVars, GoneForGood, Away
      <4>4. task # Nothing /\ task.at \in {"pledge", "quota"} => task.cycle \in Months
        BY DEF GoneForGood, Found
      <4> QED
        BY <2>1, <2>a, <2>b, <4>1, <4>3, <4>4 DEF RollOver, cycleVars, webVars, GoneForGood, Found
    <3> QED
      BY <2>1, <3>1, <3>2 DEF RollOver, TypeOK
  <2>2. ASSUME NEW g \in Givers, ConnectAnswered(g) PROVE GoneForGood'
    <3>1. /\ \A h \in Givers : row[h] # Nothing => row'[h] # Nothing
          /\ \A h \in Givers : h # g => row'[h] = row[h]
      BY <2>2, <2>0, SetQuotaRows DEF ConnectAnswered, KeepsDraws
    <3>2. task = Nothing /\ task'.giver = g /\ task'.at = "pat"
      BY <2>2 DEF ConnectAnswered, Idle
    <3>3. \A h \in Givers : left'[h] # Nothing => h # g /\ left'[h] = left[h]
      BY <2>2, <2>a DEF ConnectAnswered
    <3> QED
      BY <2>2, <2>a, <2>b, <3>1, <3>2, <3>3 DEF ConnectAnswered, cycleVars, webVars, GoneForGood, Away, Found
  <2>3. ASSUME ConnectPat PROVE GoneForGood'
    <3>1. task \in Connects /\ task.at = "pat" /\ task.giver \in Givers /\ task.pat \in Pats
      BY <2>3, <2>a, ConnectRuns DEF ConnectPat
    <3>2. left[task.giver] = Nothing
      BY <3>1 DEF GoneForGood, Away
    <3>3. task' # Nothing /\ task'.at = "health" /\ task'.giver = task.giver
      BY <2>3, <3>1, ConnectGoes DEF ConnectPat, Goes, Connects
    <3>4. \A h \in Givers : h # task.giver => pat'[h] = pat[h]
      BY <2>3, <2>a, <3>1 DEF ConnectPat
    <3> QED
      BY <2>3, <2>a, <2>b, <3>1, <3>2, <3>3, <3>4 DEF ConnectPat, cycleVars, webVars, GoneForGood, Away, Found
  <2>4. ASSUME ConnectHealth PROVE GoneForGood'
    <3>1. task \in Connects /\ task.at = "health" /\ task.giver \in Givers /\ task.pat \in Pats
      BY <2>4, <2>a, ConnectRuns DEF ConnectHealth
    <3>2. left[task.giver] = Nothing
      BY <3>1 DEF GoneForGood, Away
    <3>3. task' # Nothing /\ task'.at = "giver" /\ task'.giver = task.giver
      BY <2>4, <3>1, ConnectGoes DEF ConnectHealth, Goes, Connects
    <3>4. \A h \in Givers : h # task.giver => pat'[h] = pat[h]
      BY <2>4, <2>a, <3>1 DEF ConnectHealth, UpdatePat
    <3> QED
      BY <2>4, <2>a, <2>b, <3>1, <3>2, <3>3, <3>4 DEF ConnectHealth, cycleVars, webVars, GoneForGood, Away, Found
  <2>5. ASSUME ConnectRole PROVE GoneForGood'
    <3>1. task \in Connects /\ task.at = "giver" /\ task.giver \in Givers /\ task.pat \in Pats
      BY <2>5, <2>a, ConnectRuns DEF ConnectRole
    <3>2. left[task.giver] = Nothing
      BY <3>1 DEF GoneForGood, Away
    <3>3. task' # Nothing /\ task'.at = "snapshot" /\ task'.giver = task.giver
      BY <2>5, <3>1, ConnectGoes DEF ConnectRole, Goes, Connects
    <3> QED
      BY <2>5, <2>a, <2>b, <3>1, <3>2, <3>3 DEF ConnectRole, cycleVars, webVars, GoneForGood, Away, Found
  <2>6. ASSUME ConnectSnapshot PROVE GoneForGood'
    <3>1. task \in Connects /\ task.at = "snapshot" /\ task.giver \in Givers /\ task.pat \in Pats
      BY <2>6, <2>a, ConnectRuns DEF ConnectSnapshot
    <3>2. left[task.giver] = Nothing
      BY <3>1 DEF GoneForGood, Away
    <3>3. task' # Nothing /\ task'.at = "default" /\ task'.giver = task.giver
      BY <2>6, <3>1, ConnectGoes DEF ConnectSnapshot, Goes, Connects
    <3>4. \A h \in Givers : h # task.giver => pat'[h] = pat[h]
      BY <2>6, <2>a, <3>1 DEF ConnectSnapshot, UpdatePat
    <3> QED
      BY <2>6, <2>a, <2>b, <3>1, <3>2, <3>3, <3>4 DEF ConnectSnapshot, cycleVars, webVars, GoneForGood, Away, Found
  <2>7. ASSUME ConnectPledge PROVE GoneForGood'
    <3>1. task \in Connects /\ task.at = "default" /\ task.giver \in Givers /\ task.pat \in Pats
      BY <2>7, <2>a, ConnectRuns DEF ConnectPledge
    <3>2. left[task.giver] = Nothing
      BY <3>1 DEF GoneForGood, Away
    <3>3. /\ \A h \in Givers : row[h] # Nothing => row'[h] # Nothing
          /\ \A h \in Givers : h # task.giver => row'[h] = row[h]
      BY <2>7, <2>0, <3>1, SetPledgeRows DEF ConnectPledge, KeepsDraws
    <3> QED
      BY <2>7, <2>a, <2>b, <3>1, <3>2, <3>3 DEF ConnectPledge, cycleVars, webVars, GoneForGood, Away, Found
  <2>8. ASSUME NEW g \in Givers, LeaveBegin(g) PROVE GoneForGood'
    <3>1. task' \in Leaves /\ task'.at = "ensure" /\ task'.giver = g
      BY <2>8 DEF LeaveBegin, Leaves
    <3>2. task = Nothing /\ task' # Nothing
      BY <2>8, <3>1 DEF LeaveBegin, Idle
    <3>3. Away(g)'
      BY <2>8, <2>a, <3>1, <3>2 DEF LeaveBegin, cycleVars, webVars, GoneForGood, Away
    <3>4. ASSUME NEW h \in Givers, h # g, left'[h] # Nothing PROVE Away(h)'
      BY <2>8, <2>a, <3>1, <3>2, <3>4 DEF LeaveBegin, cycleVars, webVars, GoneForGood, Away
    <3> QED
      BY <2>8, <2>b, <3>1, <3>3, <3>4 DEF LeaveBegin, cycleVars, webVars, GoneForGood, Found
  <2>9. ASSUME LeaveEnsure PROVE GoneForGood'
    <3>1. task \in Leaves /\ task.at = "ensure" /\ task.giver \in Givers
      BY <2>9, <2>a, LeaveRuns DEF LeaveEnsure
    <3>2. /\ task' \in Leaves /\ task'.giver = task.giver /\ task'.cycle = month
          /\ \/ task'.at = "consumer"
             \/ task'.at = "pledge" /\ row[task.giver] # Nothing
      BY <2>9, <2>0, <2>a, <3>1, FloorRead DEF LeaveEnsure
    <3>4. month = active
      BY <2>9 DEF LeaveEnsure, Live
    <3> QED
      BY <2>9, <2>a, <2>b, <3>1, <3>2, <3>4
         DEF LeaveEnsure, TypeOK, cycleVars, giverVars, webVars, GoneForGood, Away, Found
  <2>10. ASSUME LeavePledge PROVE GoneForGood'
    <3>1. task \in Leaves /\ task.at = "pledge" /\ task.giver \in Givers /\ task.floor \in Nat
      BY <2>10, <2>a, LeaveRuns DEF LeavePledge
    <3>2. CASE LeaveRefused(PledgeAllowed(task.giver, task.floor))
      BY <2>10, <3>1, <3>2, RefusedGone DEF LeavePledge, cycleVars, webVars
    <3>3. CASE /\ Goes("quota") /\ SetPledge(task.cycle, task.giver, task.floor)
               /\ UNCHANGED left
      <4>1. task' \in Leaves /\ task'.at = "quota" /\ task'.giver = task.giver /\ task'.cycle = task.cycle
        BY <3>1, <3>3, PledgeCut
      <4>2. SameRows
        BY <2>0, <3>1, <3>3, SetPledgeRows DEF GoneForGood, Found
      <4> QED
        BY <2>10, <2>a, <2>b, <3>1, <3>3, <4>1, <4>2
           DEF LeavePledge, cycleVars, webVars, GoneForGood, Away, Found, SameRows
    <3> QED
      BY <2>10, <3>2, <3>3 DEF LeavePledge
  <2>11. ASSUME LeaveQuota PROVE GoneForGood'
    <3>1. task \in Leaves /\ task.at = "quota" /\ task.giver \in Givers /\ task.floor \in Nat
      BY <2>11, <2>a, LeaveRuns DEF LeaveQuota
    <3>2. CASE LeaveRefused(QuotaAllowed(task.giver, task.floor))
      BY <2>11, <3>1, <3>2, RefusedGone DEF LeaveQuota, cycleVars, webVars
    <3>3. CASE /\ task' = [task EXCEPT !.at = "consumer", !.floor = Nothing, !.over = FALSE]
               /\ SetQuota(task.cycle, task.giver, task.floor) /\ UNCHANGED left
      <4>1. task' \in Leaves /\ task'.at = "consumer" /\ task'.giver = task.giver
        BY <3>1, <3>3, QuotaCut
      <4>2. SameRows
        BY <2>0, <3>1, <3>3, SetQuotaRows DEF GoneForGood, Found
      <4> QED
        BY <2>11, <2>a, <2>b, <3>1, <3>3, <4>1, <4>2
           DEF LeaveQuota, cycleVars, webVars, GoneForGood, Away, Found, SameRows
    <3> QED
      BY <2>11, <3>2, <3>3 DEF LeaveQuota
  <2>12. ASSUME LeaveRole PROVE GoneForGood'
    <3>1. task \in Leaves /\ task.at = "consumer" /\ task.giver \in Givers
      BY <2>12, <2>a, LeaveRuns DEF LeaveRole
    <3> QED
      BY <2>12, <2>a, <2>b, <3>1 DEF LeaveRole, cycleVars, webVars, GoneForGood, Away, Found
  <2>13. ASSUME NEW g \in Givers, EditBegin(g) PROVE GoneForGood'
    <3>1. left[g] = Nothing /\ edit' = [edit EXCEPT ![g] = active]
      BY <2>13, <2>a DEF EditBegin, Idle, Live, GoneForGood, Away
    <3> QED
      BY <2>13, <2>a, <2>b, <3>1 DEF EditBegin, cycleVars, giverVars, GoneForGood, Away, Found
  <2>14. ASSUME NEW g \in Givers, Edit(g) PROVE GoneForGood'
    <3>1. /\ \A h \in Givers : row[h] # Nothing => row'[h] # Nothing
          /\ \A h \in Givers : h # g => row'[h] = row[h]
          /\ edit[g] # active => SameRows
      BY <2>14, <2>0, SetPledgeRows DEF Edit, KeepsDraws
    <3>2. left[g] # Nothing /\ left[g] < active => edit[g] # active
      BY <2>14, <2>a DEF Edit, GoneForGood, Away
    <3> QED
      BY <2>14, <2>a, <2>b, <3>1, <3>2
         DEF Edit, cycleVars, GoneForGood, Away, Found, SameRows
  <2>15. ASSUME NEW g \in Givers, Visit(g) PROVE GoneForGood'
    <3>1. SameRows
      BY <2>15, <2>0, SetQuotaRows DEF Visit, BelowCeiling, SameRows
    <3> QED
      BY <2>15, <3>1, SameRowsSuffice DEF Visit, cycleVars
  <2>16. ASSUME NEW g \in Givers, Fill(g) PROVE GoneForGood'
    <3>1. SameRows
      BY <2>16, <2>0 DEF Fill, Undrawn, RowsTyped, Rows, SameRows
    <3> QED
      BY <2>16, <3>1, SameRowsSuffice DEF Fill, cycleVars, webVars
  <2>17. ASSUME NEW g \in Givers, Refund(g) PROVE GoneForGood'
    <3>1. SameRows
      BY <2>17, <2>0 DEF Refund, RowsTyped, Rows, SameRows
    <3> QED
      BY <2>17, <3>1, SameRowsSuffice DEF Refund, cycleVars, webVars
  <2>30. ASSUME NEW g \in Givers, LateDebit(g) PROVE GoneForGood'
    <3>1. SameRows
      BY <2>30, <2>0 DEF LateDebit, RowsTyped, Rows, SameRows
    <3> QED
      BY <2>30, <3>1, SameRowsSuffice DEF LateDebit, cycleVars, webVars
  <2>18. ASSUME CheckDone PROVE GoneForGood'
    <3>1. \A h \in Givers : pat[h] = Nothing => pat'[h] = Nothing
      BY <2>18, <2>a DEF CheckDone, UpdatePat
    <3>2. sweep'.at # "withdraw"
      BY <2>18 DEF CheckDone, NextGiver, Sweeps, TypeOK
    <3> QED
      BY <2>18, <2>a, <2>b, <3>1, <3>2 DEF CheckDone, cycleVars, webVars, GoneForGood, Away, Found
  <2>19. ASSUME Withdraw PROVE GoneForGood'
    <3>1. sweep \in Sweeps /\ sweep.giver \in Givers /\ sweep.floor \in Nat
      BY <2>19 DEF Withdraw, TypeOK, Sweeps
    <3>2. SameRows
      BY <2>19, <2>0, <3>1, SetPledgeRows DEF Withdraw, GoneForGood, Found
    <3>3. sweep'.at # "withdraw"
      BY <2>19, <3>1 DEF Withdraw, NextGiver, Sweeps
    <3> QED
      BY <2>19, <3>2, <3>3, SameRowsSuffice DEF Withdraw, cycleVars, webVars
  <2>31. ASSUME Retract PROVE GoneForGood'
    <3>1. sweep \in Sweeps /\ sweep.giver \in Givers
      BY <2>31 DEF Retract, TypeOK, Sweeps
    <3>2. CASE sweep' = [sweep EXCEPT !.at = "withdraw", !.floor = Drawn(sweep.giver)]
                 /\ sweep.cycle = active /\ Undrawn(sweep.giver)
      <4>1. sweep'.cycle = sweep.cycle /\ sweep'.giver = sweep.giver
        BY <3>1, <3>2 DEF Sweeps
      <4>2. sweep.cycle \in Months
        BY <3>1, <3>2 DEF Sweeps, TypeOK
      <4> QED
        BY <2>31, <2>a, <2>b, <3>2, <4>1, <4>2
           DEF Retract, Undrawn, GoneForGood, Away, Found, cycleVars, giverVars, webVars
    <3>3. CASE NextGiver
      <4>1. sweep'.at # "withdraw"
        BY <3>1, <3>3 DEF NextGiver, Sweeps
      <4> QED
        BY <2>31, <4>1, SameRowsSuffice DEF Retract, SameRows, cycleVars, giverVars, webVars
    <3> QED
      BY <2>31, <3>2, <3>3 DEF Retract
  <2>20. ASSUME NEW g \in Givers, GateBegin(g) PROVE GoneForGood'
    <3>1. gate' # Nothing => /\ gate'.cycle = active /\ active \in Months /\ gate'.giver = g
                             /\ gate'.at = "raise" => row[g] # Nothing
      BY <2>20, <2>a DEF GateBegin, Live, Raise, BelowCeiling
    <3> QED
      BY <2>20, <2>a, <2>b, <3>1 DEF GateBegin, cycleVars, giverVars, webVars, GoneForGood, Away, Found
  <2>21. ASSUME GateAnswered PROVE GoneForGood'
    <3>1. gate' # Nothing => /\ gate'.cycle = gate.cycle /\ gate'.giver = gate.giver
                             /\ gate.cycle = active /\ row[gate.giver] # Nothing
      BY <2>21 DEF GateAnswered, Raise, BelowCeiling
    <3> QED
      BY <2>21, <2>a, <2>b, <3>1 DEF GateAnswered, cycleVars, giverVars, webVars, GoneForGood, Away, Found
  <2>22. ASSUME GateRaise PROVE GoneForGood'
    <3>1. SameRows
      BY <2>22, <2>0, <2>b, SetQuotaRows DEF GateRaise, GoneForGood, Found
    <3> QED
      BY <2>22, <2>a, <2>b, <3>1 DEF GateRaise, cycleVars, webVars, GoneForGood, Away, Found, SameRows
  <2>23. ASSUME NEW g \in Givers, ToolList(g) PROVE GoneForGood'
    <3>1. tool'.giver = g /\ tool'.cycle = active /\ active \in Months /\ row[g] # Nothing
      BY <2>23, <2>a DEF ToolList, Live, Undrawn
    <3> QED
      BY <2>23, <2>a, <2>b, <3>1 DEF ToolList, cycleVars, giverVars, webVars, GoneForGood, Away, Found
  <2>24. ASSUME ToolReads PROVE GoneForGood'
    <3>1. tool \in Retractions /\ Drawn(tool.giver) \in Nat
      BY <2>24, <2>0, <2>b, DrawnTyped DEF ToolReads, TypeOK
    <3>2. tool'.giver = tool.giver /\ tool'.cycle = tool.cycle
      BY <2>24, <3>1 DEF ToolReads, Retractions
    <3> QED
      BY <2>24, <2>a, <2>b, <3>2 DEF ToolReads, cycleVars, giverVars, webVars, GoneForGood, Away, Found
  <2>25. ASSUME ToolRetracts PROVE GoneForGood'
    <3>1. tool.floor \in Nat
      BY <2>25 DEF ToolRetracts, TypeOK, Retractions
    <3>2. SameRows
      BY <2>25, <2>0, <2>b, <3>1, SetPledgeRows DEF ToolRetracts, GoneForGood, Found
    <3> QED
      BY <2>25, <2>a, <2>b, <3>2 DEF ToolRetracts, cycleVars, webVars, GoneForGood, Away, Found, SameRows
  <2>26. ASSUME Crash PROVE GoneForGood'
    <3>1. \A h \in Givers : left'[h] # Nothing => left'[h] = left[h] /\ (task # Nothing => task.giver # h)
      BY <2>26, <2>a, <2>b DEF Crash
    <3> QED
      BY <2>26, <2>a, <2>b, <3>1 DEF Crash, Resting, giverVars, GoneForGood, Away, Found
  <2>27. ASSUME
      \/ Tick \/ (\E p \in Processes : Look(p)) \/ (\E k \in Revocable : Revoke(k))
      \/ UNCHANGED vars
     PROVE GoneForGood'
    BY <2>27, <2>b
      DEF Tick, Look, Revoke, vars, GoneForGood, Away, Found, cycleVars, giverVars, webVars
  <2>28. ASSUME
      \/ (\E g \in Givers, k \in Pats : ConnectBegin(g, k))
      \/ (\E g \in Givers : ConnectRefused(g)) \/ (\E g \in Givers : VisitBegin(g))
      \/ ToolAborts
     PROVE GoneForGood'
    BY <2>28, <2>b
      DEF ConnectBegin, ConnectRefused, VisitBegin, ToolAborts, GoneForGood, Away,
         Found, cycleVars, giverVars, webVars
  <2>29. ASSUME
      \/ SweepBegin \/ (\E g \in Givers : CheckBegin(g)) \/ CheckFails
      \/ (\E S \in SUBSET Givers : SweepSleep(S)) \/ SweepAgain \/ SweepEnd
     PROVE GoneForGood'
    <3>1. sweep \in Sweeps
      BY DEF TypeOK
    <3>2. sweep'.at # "withdraw"
      <4>1. SweepBegin => sweep'.at # "withdraw"
        <5>1. ASSUME NEW T PROVE [Resting EXCEPT !.at = "next", !.cycle = month, !.todo = T].at = "next"
          BY DEF Resting
        <5> QED
          BY <5>1 DEF SweepBegin
      <4>5. SweepEnd => sweep'.at # "withdraw"
        BY DEF SweepEnd, Resting
      <4>4. (\E S \in SUBSET Givers : SweepSleep(S)) => sweep'.at # "withdraw"
        BY DEF SweepSleep, Resting
      <4>2. CheckFails \/ SweepAgain => sweep'.at # "withdraw"
        BY <3>1 DEF CheckFails, SweepAgain, NextGiver, Sweeps
      <4>3. (\E g \in Givers : CheckBegin(g)) => sweep'.at # "withdraw"
        BY <3>1 DEF CheckBegin, Sweeps
      <4> QED
        BY <2>29, <4>1, <4>2, <4>3, <4>4, <4>5
    <3> QED
     BY <2>29, <3>2, SameRowsSuffice
      DEF SweepBegin, CheckBegin, CheckFails, SweepSleep, SweepAgain, SweepEnd, SameRows,
         cycleVars, giverVars, webVars
  <2> QED
    BY <2>1, <2>2, <2>3, <2>4, <2>5, <2>6, <2>7, <2>8, <2>9, <2>10, <2>11, <2>12, <2>13, <2>14, <2>15, <2>16, <2>17, <2>18, <2>19, <2>20, <2>21, <2>22, <2>23, <2>24, <2>25, <2>26, <2>27, <2>28, <2>29, <2>30, <2>31 DEF Next, Connecting, Leaving, Sweeping
<1>3. GoneForGood => LeavesForGood
  BY DEF GoneForGood, Away, LeavesForGood
<1> QED
  BY <1>1, <1>2, <1>3, LifecycleTyping, PTL DEF Spec

-----------------------------------------------------------------------------
(* Months *)

\* Whoever finds a month over and however late it rolls over, the active cycle
\* only ever moves on.
THEOREM NoReopening == Spec => ArchivedForGood
<1>1. TypeOK /\ [Next]_vars => [active' >= active]_active
  <2> SUFFICES ASSUME TypeOK, [Next]_vars PROVE active' >= active \/ UNCHANGED active
    OBVIOUS
  <2>1. ASSUME NEW p \in Processes, RollOver(p) PROVE active' >= active \/ UNCHANGED active
    BY <2>1 DEF RollOver, Open, TypeOK
  <2>2. ASSUME
      \/ Tick \/ (\E p \in Processes : Look(p)) \/ (\E k \in Revocable : Revoke(k))
      \/ (\E g \in Givers, k \in Pats : ConnectBegin(g, k))
      \/ (\E g \in Givers : ConnectRefused(g)) \/ (\E g \in Givers : ConnectAnswered(g))
      \/ ConnectPat \/ ConnectHealth \/ ConnectRole \/ ConnectSnapshot \/ ConnectPledge
      \/ (\E g \in Givers : LeaveBegin(g)) \/ LeaveEnsure \/ LeavePledge \/ LeaveQuota
      \/ LeaveRole \/ (\E g \in Givers : EditBegin(g)) \/ (\E g \in Givers : Edit(g))
      \/ (\E g \in Givers : VisitBegin(g)) \/ (\E g \in Givers : Visit(g))
      \/ (\E g \in Givers : Fill(g)) \/ (\E g \in Givers : Refund(g))
      \/ (\E g \in Givers : LateDebit(g)) \/ SweepBegin
      \/ (\E g \in Givers : CheckBegin(g)) \/ CheckDone \/ CheckFails \/ Retract \/ Withdraw
      \/ (\E S \in SUBSET Givers : SweepSleep(S)) \/ SweepAgain \/ SweepEnd
      \/ (\E g \in Givers : GateBegin(g)) \/ GateAnswered \/ GateRaise
      \/ (\E g \in Givers : ToolList(g)) \/ ToolAborts
      \/ ToolReads \/ ToolRetracts \/ Crash \/ UNCHANGED vars
     PROVE active' >= active \/ UNCHANGED active
    BY <2>2
      DEF Tick, Look, Revoke, ConnectBegin, ConnectRefused, ConnectAnswered, ConnectPat,
         ConnectHealth, ConnectRole, ConnectSnapshot, ConnectPledge, LeaveBegin,
         LeaveEnsure, LeavePledge, LeaveQuota, LeaveRole, EditBegin, Edit, VisitBegin,
         Visit, Fill, Refund, LateDebit, SweepBegin, CheckBegin, CheckDone, CheckFails, Retract, Withdraw,
         SweepSleep, SweepAgain, SweepEnd, GateBegin, GateAnswered, GateRaise,
         ToolList, ToolAborts, ToolReads, ToolRetracts, Crash, vars, cycleVars
  <2> QED
    BY <2>1, <2>2 DEF Next, Connecting, Leaving, Sweeping
<1> QED
  BY <1>1, LifecycleTyping, PTL DEF Spec, ArchivedForGood
=============================================================================
