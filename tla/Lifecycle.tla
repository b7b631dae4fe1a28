------------------------------ MODULE Lifecycle ------------------------------
(***************************************************************************)
(* Givers come and go, and months begin: connecting a PAT                  *)
(* (ctc/auth/onboarding.py), disconnecting it (api_server.py), the health  *)
(* sweep that withdraws the pledge of a dead PAT (ctc/auth/pat_health.py), *)
(* the pledge slider, the quota that follows GitHub, and the rollover      *)
(* either process makes on the first access of a month                     *)
(* (ensure_active_cycle of ctc/accounting/engine.py).                      *)
(*                                                                         *)
(* Each statement that writes is a transaction of its own.  The control    *)
(* plane is one asyncio loop: what it does between two awaits only the     *)
(* proxy, the retract_dead_pledges tool and a crash interrupt.             *)
(***************************************************************************)
EXTENDS CreditSums

CONSTANTS
    Givers,          \* users who may connect a PAT
    Pats,            \* the PATs they may connect
    MaxMonth,        \* bound: the last month
    Entitlement,     \* what GitHub grants a PAT each month
    DefaultPledge,   \* default_pledge_pct of it
    Revocable,       \* those of them that stop working one day
    MaxFlight,       \* bound: requests, gates and tools that wait at a time
    MaxFaults,       \* bound: crashes, and cancels while a call may still burn the credit
    Nothing          \* NULL, or a task that does not run

ASSUME MonthAssumption == MaxMonth \in Nat \ {0}
ASSUME CreditAssumption == Entitlement \in Nat /\ DefaultPledge \in 0 .. Entitlement
ASSUME GiverAssumption == IsFiniteSet(Givers) /\ MaxFaults \in Nat

Months     == 1 .. MaxMonth
Processes  == {"proxy", "control"}
Verdicts   == {"none", "valid", "dead"}

\* Of a pledge, `drawn` is what pledge_used counts, and `loose` what a cancel took
\* off it while a call that may still burn it was in flight.
Rows        == [quota : Nat, pledge : Nat, drawn : Nat, loose : Nat,
                late : Nat]  \* history: of `drawn`, what such calls burned
StoredPats  == [id : Pats, verdict : Verdicts, known : BOOLEAN]
Connects    == [giver : Givers, at : {"pat", "health", "giver", "snapshot", "default"},
                cycle : Months, pat : Pats]
Leaves      == {t \in [giver : Givers, at : {"ensure", "pledge", "quota", "consumer"},
                       cycle : Months \cup {Nothing}, floor : Nat \cup {Nothing},
                       over : BOOLEAN] :  \* history: a late debit had hit the row, or might
                    t.at \in {"pledge", "quota"} => t.floor \in Nat}
Offers      == [cycle : Months, pat : Pats]
Sweeps      == {s \in [at : {"rest", "next", "ask", "retract", "withdraw", "sleep"},
                       cycle : Months \cup {Nothing}, phase : {1, 2}, todo : SUBSET Givers,
                       giver : Givers \cup {Nothing}, pat : Pats \cup {Nothing},
                       floor : Nat \cup {Nothing}] :
                    /\ s.at \in {"ask", "retract", "withdraw"} => s.giver \in Givers
                    /\ s.at = "withdraw" => s.floor \in Nat}
Gates       == [giver : Givers, cycle : Months, at : {"ask", "raise"}]
Retractions == [giver : Givers, cycle : Months, floor : Nat \cup {Nothing}]

ASSUME NothingAssumption ==
    Nothing \notin Int \cup Givers \cup Pats \cup Rows \cup StoredPats
                   \cup Connects \cup Leaves \cup Offers \cup Gates \cup Retractions

VARIABLES
    month,                 \* what the clock says
    active,                \* the month of the active cycle, 0 before the first one
    row,                   \* giver_cycles of the active cycle, and pledge_used
    pat,                   \* giver_pats: the PAT, its verdict, whether its entitlement is stored
    role,                  \* users.role
    good,                  \* the PATs that work, at GitHub
    rolling,               \* the month for which a process is about to roll over
    task,                  \* what the control plane runs between two awaits
    connect, visit, edit,  \* requests that wait: a PAT for GitHub, a profile for GitHub, a body
    sweep,                 \* PatHealthChecker.run_once
    gate,                  \* a health gate of the proxy
    tool,                  \* retract_dead_pledges
    left,                  \* history: the month whose cycle was active when the giver left
    faults,                \* counter for the bound
    torn                   \* history: the givers whose connect or disconnect was cut off

cycleVars  == <<month, active, rolling>>
giverVars  == <<row, pat, role>>
webVars    == <<connect, visit, edit>>
vars == <<cycleVars, giverVars, good, task, webVars, sweep, gate, tool, left, faults, torn>>

-----------------------------------------------------------------------------
\* A new giver_cycles row: nothing is drawn.
Row(quota, pledge) == [quota |-> quota, pledge |-> pledge, drawn |-> 0, loose |-> 0, late |-> 0]

Live    == active = month
Drawn(g) == IF row[g] = Nothing THEN 0 ELSE row[g].drawn
Dead(g) == pat[g] # Nothing /\ pat[g].verdict = "dead"

Waiting(f) == Cardinality({g \in Givers : f[g] # Nothing})
Flying == Waiting(connect) + Waiting(visit) + Waiting(edit)
          + Cardinality({t \in {gate, tool} : t # Nothing})
Room == Flying < MaxFlight

\* A statement of the control plane may run.
Idle == task = Nothing /\ rolling["control"] = Nothing /\ sweep.at \notin {"retract", "withdraw"}

Resting == [at |-> "rest", phase |-> 1, cycle |-> Nothing, todo |-> {},
            giver |-> Nothing, pat |-> Nothing, floor |-> Nothing]

Init ==
    /\ month = 1 /\ active = 0
    /\ row = [g \in Givers |-> Nothing]
    /\ pat = [g \in Givers |-> Nothing] /\ role = [g \in Givers |-> "consumer"]
    /\ good = Pats
    /\ rolling = [p \in Processes |-> Nothing]
    /\ task = Nothing
    /\ connect = [g \in Givers |-> Nothing]
    /\ visit = [g \in Givers |-> Nothing] /\ edit = [g \in Givers |-> Nothing]
    /\ sweep = Resting
    /\ gate = Nothing
    /\ tool = Nothing
    /\ left = [g \in Givers |-> Nothing] /\ faults = 0 /\ torn = {}

-----------------------------------------------------------------------------
(* The engine: each is one transaction on the row of giver g in cycle m.   *)
(* Only reports read what is written to an archived cycle.                 *)

Put(m, g, r) == row' = IF m = active THEN [row EXCEPT ![g] = r] ELSE row

\* set_quota: the pledge is cut to the quota.  A quota below what is drawn is
\* refused (InvalidPledge).
QuotaAllowed(g, q) == Drawn(g) <= q
SetQuota(m, g, q) ==
    Put(m, g, IF ~ QuotaAllowed(g, q) THEN row[g]
              ELSE IF row[g] = Nothing THEN Row(q, 0)
              ELSE [row[g] EXCEPT !.quota = q, !.pledge = Least(@, q)])

\* set_pledge.  Variant that trusts the floor its caller has read.
PledgeBelowQuota(g, p) == row[g] # Nothing /\ p <= row[g].quota
PledgeAllowed(g, p) ==
    Drawn(g) <= p /\ p <= (IF row[g] = Nothing THEN 0 ELSE row[g].quota)
SetPledge(m, g, p) ==
    Put(m, g, IF ~ PledgeAllowed(g, p) THEN row[g]
              ELSE IF row[g] = Nothing THEN Row(0, 0) ELSE [row[g] EXCEPT !.pledge = p])

\* retract_pledge has something to withdraw.
Undrawn(g) == row[g] # Nothing /\ row[g].pledge > row[g].drawn

\* sync_quota_ceiling: a reading from GitHub only ever raises the quota.
BelowCeiling(m, g) == m = active /\ row[g] # Nothing /\ row[g].quota < Entitlement

-----------------------------------------------------------------------------
(* Months *)

Tick ==
    /\ month < MaxMonth
    /\ month' = month + 1
    /\ UNCHANGED <<active, rolling, giverVars, good, task, webVars, sweep, gate, tool, left, faults, torn>>

\* ensure_active_cycle, without a lock: the active cycle has ended ...
Look(p) ==
    /\ rolling[p] = Nothing /\ ~ Live
    /\ p = "control" => Idle \/ (task # Nothing /\ task.at = "ensure")
    /\ rolling' = [rolling EXCEPT ![p] = month]
    /\ UNCHANGED <<month, active, giverVars, good, task, webVars, sweep, gate, tool, left, faults, torn>>

\* _open_month_cycle: each PAT whose entitlement is known gets a row, and a
\* pledge unless it is dead.  Variant that carries last month's givers over.
Seed(g) == Row(Entitlement, IF Dead(g) THEN 0 ELSE DefaultPledge)
OpenFromRows(now) ==
    /\ active' = now
    /\ row' = [g \in Givers |-> IF row[g] # Nothing \/ pat[g] # Nothing THEN Seed(g) ELSE Nothing]

Open(now) ==
    /\ active' = now
    /\ row' = [g \in Givers |-> IF pat[g] # Nothing /\ pat[g].known THEN Seed(g) ELSE Nothing]

\* ... and _roll_over, which looks again.  Variant that does not.
RollOverUnchecked(p) ==
    /\ rolling[p] # Nothing
    /\ Open(rolling[p])
    /\ rolling' = [rolling EXCEPT ![p] = Nothing]
    /\ UNCHANGED <<month, pat, role, good, task, webVars, sweep, gate, tool, left, faults, torn>>

RollOver(p) ==
    /\ rolling[p] # Nothing
    /\ IF rolling[p] <= active THEN UNCHANGED <<active, row>>
         ELSE Open(rolling[p])
    /\ rolling' = [rolling EXCEPT ![p] = Nothing]
    /\ UNCHANGED <<month, pat, role, good, task, webVars, sweep, gate, tool, left, faults, torn>>

Revoke(k) ==
    /\ k \in good /\ good' = good \ {k}
    /\ UNCHANGED <<cycleVars, giverVars, task, webVars, sweep, gate, tool, left, faults, torn>>

-----------------------------------------------------------------------------
(* Connecting: api_pat waits for GitHub with the cycle it found at first, *)
(* then validate_and_store_pat writes.                                     *)

\* UPDATE giver_pats ... WHERE user_id = g
UpdatePat(g, p) == pat' = IF pat[g] = Nothing THEN pat ELSE [pat EXCEPT ![g] = p]

ConnectBegin(g, k) ==
    /\ Idle /\ Live /\ connect[g] = Nothing /\ Room
    /\ connect' = [connect EXCEPT ![g] = [cycle |-> month, pat |-> k]]
    /\ UNCHANGED <<cycleVars, giverVars, good, task, visit, edit, sweep, gate, tool, left, faults, torn>>

\* No entitlement (400), or more is drawn than GitHub grants (InvalidPledge: 409).
ConnectRefused(g) ==
    /\ Idle /\ connect[g] # Nothing
    /\ connect' = [connect EXCEPT ![g] = Nothing]
    /\ UNCHANGED <<cycleVars, giverVars, good, task, visit, edit, sweep, gate, tool, left, faults, torn>>

ConnectAnswered(g) ==
    /\ Idle /\ connect[g] # Nothing /\ connect[g].pat \in good
    /\ connect[g].cycle = active => QuotaAllowed(g, Entitlement)
    /\ connect' = [connect EXCEPT ![g] = Nothing]
    /\ left' = [left EXCEPT ![g] = Nothing]
    /\ SetQuota(connect[g].cycle, g, Entitlement)
    /\ task' = [giver |-> g, at |-> "pat", cycle |-> connect[g].cycle, pat |-> connect[g].pat]
    /\ UNCHANGED <<cycleVars, pat, role, good, visit, edit, sweep, gate, tool, faults, torn>>

\* The control plane goes on with its task.
Runs(at)  == task # Nothing /\ task.at = at /\ rolling["control"] = Nothing
Goes(at)  == task' = [task EXCEPT !.at = at]

\* A PAT that replaces another one inherits its verdict and entitlement.
ConnectPat ==
    /\ Runs("pat") /\ Goes("health")
    /\ pat' = [pat EXCEPT ![task.giver] =
                 IF @ = Nothing THEN [id |-> task.pat, verdict |-> "none", known |-> FALSE]
                 ELSE [@ EXCEPT !.id = task.pat]]
    /\ UNCHANGED <<cycleVars, row, role, good, webVars, sweep, gate, tool, left, faults, torn>>

ConnectHealth ==
    /\ Runs("health") /\ Goes("giver")
    /\ UpdatePat(task.giver, [pat[task.giver] EXCEPT !.verdict = "valid"])
    /\ UNCHANGED <<cycleVars, row, role, good, webVars, sweep, gate, tool, left, faults, torn>>

ConnectRole ==
    /\ Runs("giver") /\ Goes("snapshot")
    /\ role' = [role EXCEPT ![task.giver] = "giver"]
    /\ UNCHANGED <<cycleVars, row, pat, good, webVars, sweep, gate, tool, left, faults, torn>>

ConnectSnapshot ==
    /\ Runs("snapshot") /\ Goes("default")
    /\ UpdatePat(task.giver, [pat[task.giver] EXCEPT !.known = TRUE])
    /\ UNCHANGED <<cycleVars, row, role, good, webVars, sweep, gate, tool, left, faults, torn>>

\* Who pledges nothing pledges a part of what is left, unless more was drawn (409).
ConnectPledge ==
    /\ Runs("default") /\ task' = Nothing
    /\ LET g == task.giver
       IN  IF row[g] = Nothing \/ row[g].pledge = 0
             THEN \E p \in 0 .. DefaultPledge : SetPledge(task.cycle, g, p)
             ELSE UNCHANGED row
    /\ torn' = torn \ {task.giver}
    /\ UNCHANGED <<cycleVars, pat, role, good, webVars, sweep, gate, tool, left, faults>>

-----------------------------------------------------------------------------
(* Disconnecting: api_pat_delete does not await *)

LeaveBegin(g) ==
    /\ Idle
    /\ pat' = [pat EXCEPT ![g] = Nothing]
    /\ task' = [giver |-> g, at |-> "ensure", cycle |-> Nothing, floor |-> Nothing, over |-> FALSE]
    /\ left' = [left EXCEPT ![g] = active]
    /\ UNCHANGED <<cycleVars, row, role, good, webVars, sweep, gate, tool, faults, torn>>

\* A row is only changed, never made up.  What is drawn from it is read once.
LeaveFound(m, floor) ==
    task' = IF row[task.giver] = Nothing THEN [task EXCEPT !.cycle = m, !.at = "consumer"]
            ELSE [task EXCEPT !.cycle = m, !.at = "pledge", !.floor = floor,
                              !.over = row[task.giver].loose + row[task.giver].late > 0]

\* Variants that take whatever cycle is active, and that leave out what fills drew.
LeaveOnCurrent ==
    /\ Runs("ensure")
    /\ LeaveFound(active, Drawn(task.giver))
    /\ UNCHANGED <<cycleVars, giverVars, good, webVars, sweep, gate, tool, left, faults, torn>>

LeaveWithoutFills ==
    /\ Runs("ensure") /\ Live
    /\ LeaveFound(month, 0)
    /\ UNCHANGED <<cycleVars, giverVars, good, webVars, sweep, gate, tool, left, faults, torn>>

LeaveEnsure ==
    /\ Runs("ensure") /\ Live
    /\ LeaveFound(month, Drawn(task.giver))
    /\ UNCHANGED <<cycleVars, giverVars, good, webVars, sweep, gate, tool, left, faults, torn>>

\* InvalidPledge is not caught: the rest of the handler does not run.  In an
\* archived cycle, too, only a late debit can have made the floor too low.
LeaveAccepted(allowed) == task.cycle = active => allowed
LeaveRefused(allowed) ==
    /\ IF task.cycle = active THEN ~ allowed ELSE task.over
    /\ task' = Nothing
    /\ left' = [left EXCEPT ![task.giver] = Nothing]
    /\ torn' = IF task.cycle = active /\ row[task.giver].late = 0 THEN torn ELSE torn \cup {task.giver}
    /\ UNCHANGED row

LeavePledge ==
    /\ Runs("pledge")
    /\ LET allowed == PledgeAllowed(task.giver, task.floor)
       IN  \/ /\ LeaveAccepted(allowed) /\ Goes("quota")
              /\ SetPledge(task.cycle, task.giver, task.floor)
              /\ UNCHANGED <<left, torn>>
           \/ LeaveRefused(allowed)
    /\ UNCHANGED <<cycleVars, pat, role, good, webVars, sweep, gate, tool, faults>>

LeaveQuota ==
    /\ Runs("quota")
    /\ LET allowed == QuotaAllowed(task.giver, task.floor)
       IN  \/ /\ LeaveAccepted(allowed)
              /\ task' = [task EXCEPT !.at = "consumer", !.floor = Nothing, !.over = FALSE]
              /\ SetQuota(task.cycle, task.giver, task.floor)
              /\ UNCHANGED <<left, torn>>
           \/ LeaveRefused(allowed)
    /\ UNCHANGED <<cycleVars, pat, role, good, webVars, sweep, gate, tool, faults>>

LeaveRole ==
    /\ Runs("consumer") /\ task' = Nothing
    /\ role' = [role EXCEPT ![task.giver] = "consumer"]
    /\ torn' = torn \ {task.giver}
    /\ UNCHANGED <<cycleVars, row, pat, good, webVars, sweep, gate, tool, left, faults>>

-----------------------------------------------------------------------------
(* Other requests *)

\* patch_settings, or set_pledge of an admin: the role is checked and the
\* cycle found before the body is read.
EditBegin(g) ==
    /\ Idle /\ Live /\ edit[g] = Nothing /\ Room /\ role[g] = "giver"
    /\ edit' = [edit EXCEPT ![g] = month]
    /\ UNCHANGED <<cycleVars, giverVars, good, task, connect, visit, sweep, gate, tool, left, faults, torn>>

Edit(g) ==
    /\ Idle /\ edit[g] # Nothing
    /\ \E p \in 0 .. Entitlement : SetPledge(edit[g], g, p)
    /\ edit' = [edit EXCEPT ![g] = Nothing]
    /\ UNCHANGED <<cycleVars, pat, role, good, task, connect, visit, sweep, gate, tool, left, faults, torn>>

\* get_profile: waits for a live reading, which may be a failure.
VisitBegin(g) ==
    /\ Idle /\ Live /\ visit[g] = Nothing /\ Room
    /\ role[g] = "giver" /\ row[g] # Nothing
    /\ visit' = [visit EXCEPT ![g] = month]
    /\ UNCHANGED <<cycleVars, giverVars, good, task, connect, edit, sweep, gate, tool, left, faults, torn>>

Visit(g) ==
    /\ Idle /\ visit[g] # Nothing
    /\ \/ BelowCeiling(visit[g], g) /\ SetQuota(visit[g], g, Entitlement)
       \/ UNCHANGED row
    /\ visit' = [visit EXCEPT ![g] = Nothing]
    /\ UNCHANGED <<cycleVars, pat, role, good, task, connect, edit, sweep, gate, tool, left, faults, torn>>

\* A request is filled from the pledge ...
Fill(g) ==
    /\ Idle /\ Live /\ Undrawn(g) /\ ~ Dead(g)
    /\ \E n \in 1 .. (row[g].pledge - row[g].drawn) : row' = [row EXCEPT ![g].drawn = @ + n]
    /\ UNCHANGED <<cycleVars, pat, role, good, task, webVars, sweep, gate, tool, left, faults, torn>>

\* ... and cancelled: what was not burned is no longer drawn.  Calls in flight
\* may still burn some of it.
Refund(g) ==
    /\ Idle /\ Live /\ row[g] # Nothing
    /\ \E n \in 1 .. (row[g].drawn - row[g].late) :
         \/ row' = [row EXCEPT ![g].drawn = @ - n] /\ UNCHANGED faults
         \/ /\ faults < MaxFaults /\ faults' = faults + 1
            /\ row' = [row EXCEPT ![g].drawn = @ - n, ![g].loose = @ + n]
    /\ UNCHANGED <<cycleVars, pat, role, good, task, webVars, sweep, gate, tool, left, torn>>

\* The proxy debits a call that was in flight on a cancelled grant: pledge_used
\* goes up again, whoever has read it and whatever the pledge is by now.
LateDebit(g) ==
    /\ row[g] # Nothing
    /\ \E n \in 1 .. row[g].loose :
         row' = [row EXCEPT ![g].loose = @ - n, ![g].drawn = @ + n, ![g].late = @ + n]
    /\ UNCHANGED <<cycleVars, pat, role, good, task, webVars, sweep, gate, tool, left, faults, torn>>

-----------------------------------------------------------------------------
(* The health sweep *)

SweepBegin ==
    /\ Idle /\ Live /\ sweep.at = "rest"
    /\ sweep' = [Resting EXCEPT !.at = "next", !.cycle = month,
                                !.todo = {g \in Givers : pat[g] # Nothing}]
    /\ UNCHANGED <<cycleVars, giverVars, good, task, webVars, gate, tool, left, faults, torn>>

\* check_one: the PAT is read, GitHub is asked ...  Variant that does not ask
\* about a dead PAT again.
CheckAlive(g) ==
    /\ Idle /\ sweep.at = "next" /\ g \in sweep.todo
    /\ sweep' = IF pat[g] = Nothing \/ Dead(g) THEN [sweep EXCEPT !.todo = @ \ {g}]
                ELSE [sweep EXCEPT !.todo = @ \ {g}, !.at = "ask", !.giver = g, !.pat = pat[g].id]
    /\ UNCHANGED <<cycleVars, giverVars, good, task, webVars, gate, tool, left, faults, torn>>

CheckBegin(g) ==
    /\ Idle /\ sweep.at = "next" /\ g \in sweep.todo
    /\ sweep' = IF pat[g] = Nothing THEN [sweep EXCEPT !.todo = @ \ {g}]
                ELSE [sweep EXCEPT !.todo = @ \ {g}, !.at = "ask", !.giver = g, !.pat = pat[g].id]
    /\ UNCHANGED <<cycleVars, giverVars, good, task, webVars, gate, tool, left, faults, torn>>

NextGiver == sweep' = [sweep EXCEPT !.at = "next", !.giver = Nothing, !.pat = Nothing, !.floor = Nothing]

\* ... and the verdict is written to whatever PAT is stored by then.  Variant
\* that acts on a new verdict only.
CheckNews ==
    /\ Idle /\ sweep.at = "ask"
    /\ LET g  == sweep.giver
           ok == sweep.pat \in good
       IN  /\ UpdatePat(g, [pat[g] EXCEPT !.verdict = IF ok THEN "valid" ELSE "dead", !.known = ok \/ @])
           /\ IF ok \/ Dead(g) THEN NextGiver ELSE sweep' = [sweep EXCEPT !.at = "retract"]
    /\ UNCHANGED <<cycleVars, row, role, good, task, webVars, gate, tool, left, faults, torn>>

CheckDone ==
    /\ Idle /\ sweep.at = "ask"
    /\ LET g  == sweep.giver
           ok == sweep.pat \in good
       IN  /\ UpdatePat(g, [pat[g] EXCEPT !.verdict = IF ok THEN "valid" ELSE "dead", !.known = ok \/ @])
           /\ IF ok THEN NextGiver ELSE sweep' = [sweep EXCEPT !.at = "retract"]
    /\ UNCHANGED <<cycleVars, row, role, good, task, webVars, gate, tool, left, faults, torn>>

\* GitHub does not answer: the verdict stays.
CheckFails ==
    /\ Idle /\ sweep.at = "ask" /\ NextGiver
    /\ UNCHANGED <<cycleVars, giverVars, good, task, webVars, gate, tool, left, faults, torn>>

\* A dead PAT: its pledge is withdrawn, in the cycle the sweep began in.  What
\* is drawn is read first ...
Retract ==
    /\ sweep.at = "retract" /\ rolling["control"] = Nothing
    /\ IF sweep.cycle = active /\ Undrawn(sweep.giver)
         THEN sweep' = [sweep EXCEPT !.at = "withdraw", !.floor = Drawn(sweep.giver)]
         ELSE NextGiver
    /\ UNCHANGED <<cycleVars, giverVars, good, task, webVars, gate, tool, left, faults, torn>>

\* ... and may be more by now: the refusal is logged, and the next sweep tries again.
Withdraw ==
    /\ sweep.at = "withdraw" /\ rolling["control"] = Nothing
    /\ SetPledge(sweep.cycle, sweep.giver, sweep.floor)
    /\ NextGiver
    /\ UNCHANGED <<cycleVars, pat, role, good, task, webVars, gate, tool, left, faults, torn>>

\* The givers with a pending drift are checked again after a sleep.
SweepSleep(S) ==
    /\ Idle /\ sweep.at = "next" /\ sweep.todo = {} /\ sweep.phase = 1 /\ S # {}
    /\ \A g \in S : pat[g] # Nothing /\ (sweep.cycle = active => row[g] # Nothing)
    /\ sweep' = [Resting EXCEPT !.at = "sleep", !.phase = 2, !.todo = S]
    /\ UNCHANGED <<cycleVars, giverVars, good, task, webVars, gate, tool, left, faults, torn>>

SweepAgain ==
    /\ Idle /\ Live /\ sweep.at = "sleep"
    /\ sweep' = [sweep EXCEPT !.at = "next", !.cycle = month]
    /\ UNCHANGED <<cycleVars, giverVars, good, task, webVars, gate, tool, left, faults, torn>>

SweepEnd ==
    /\ Idle /\ sweep.at = "next" /\ sweep.todo = {}
    /\ sweep' = Resting
    /\ UNCHANGED <<cycleVars, giverVars, good, task, webVars, gate, tool, left, faults, torn>>

-----------------------------------------------------------------------------
(* The proxy: reconcile_candidate raises the quota to the reading          *)

Raise(g, m) == IF BelowCeiling(m, g) THEN [giver |-> g, cycle |-> m, at |-> "raise"] ELSE Nothing

\* A reading may be in the cache (LiveQuotaCache), even of a PAT that is gone.
GateBegin(g) ==
    /\ Live /\ rolling["proxy"] = Nothing /\ gate = Nothing /\ Room
    /\ \/ gate' = Raise(g, month)
       \/ pat[g] # Nothing /\ gate' = [giver |-> g, cycle |-> month, at |-> "ask"]
    /\ UNCHANGED <<cycleVars, giverVars, good, task, webVars, sweep, tool, left, faults, torn>>

GateAnswered ==
    /\ gate # Nothing /\ gate.at = "ask"
    /\ \/ gate' = Raise(gate.giver, gate.cycle)
       \/ gate' = Nothing
    /\ UNCHANGED <<cycleVars, giverVars, good, task, webVars, sweep, tool, left, faults, torn>>

GateRaise ==
    /\ gate # Nothing /\ gate.at = "raise"
    /\ SetQuota(gate.cycle, gate.giver, Entitlement)
    /\ gate' = Nothing
    /\ UNCHANGED <<cycleVars, pat, role, good, task, webVars, sweep, tool, left, faults, torn>>

-----------------------------------------------------------------------------
(* The tool retract_dead_pledges: lists, waits for a yes, withdraws *)

ToolList(g) ==
    /\ tool = Nothing /\ Live /\ Room
    /\ Dead(g) /\ Undrawn(g)
    /\ tool' = [giver |-> g, cycle |-> month, floor |-> Nothing]
    /\ UNCHANGED <<cycleVars, giverVars, good, task, webVars, sweep, gate, left, faults, torn>>

ToolAborts ==
    /\ tool # Nothing /\ tool.floor = Nothing /\ tool' = Nothing
    /\ UNCHANGED <<cycleVars, giverVars, good, task, webVars, sweep, gate, left, faults, torn>>

ToolReads ==
    /\ tool # Nothing /\ tool.floor = Nothing
    /\ Undrawn(tool.giver)
    /\ tool' = [tool EXCEPT !.floor = Drawn(tool.giver)]
    /\ UNCHANGED <<cycleVars, giverVars, good, task, webVars, sweep, gate, left, faults, torn>>

ToolRetracts ==
    /\ tool # Nothing /\ tool.floor # Nothing /\ tool' = Nothing
    /\ SetPledge(tool.cycle, tool.giver, tool.floor)
    /\ UNCHANGED <<cycleVars, pat, role, good, task, webVars, sweep, gate, left, faults, torn>>

-----------------------------------------------------------------------------
\* The control plane is killed in the middle of its writes.  (At another
\* time it only loses requests that wait and a sweep.)
Crash ==
    /\ faults < MaxFaults /\ (task # Nothing \/ sweep.at \in {"retract", "withdraw"})
    /\ faults' = faults + 1
    /\ IF task = Nothing THEN UNCHANGED <<torn, left>>
       ELSE torn' = torn \cup {task.giver} /\ left' = [left EXCEPT ![task.giver] = Nothing]
    /\ rolling' = [rolling EXCEPT !["control"] = Nothing]
    /\ task' = Nothing /\ sweep' = Resting
    /\ connect' = [g \in Givers |-> Nothing]
    /\ visit' = [g \in Givers |-> Nothing] /\ edit' = [g \in Givers |-> Nothing]
    /\ UNCHANGED <<month, active, giverVars, good, gate, tool>>

Connecting == ConnectPat \/ ConnectHealth \/ ConnectRole \/ ConnectSnapshot \/ ConnectPledge
Leaving == LeaveEnsure \/ LeavePledge \/ LeaveQuota \/ LeaveRole
Sweeping == \/ SweepBegin \/ SweepAgain \/ SweepEnd \/ Retract \/ Withdraw
            \/ \E g \in Givers : CheckBegin(g)

Next ==
    \/ Tick
    \/ \E p \in Processes : Look(p) \/ RollOver(p)
    \/ \E k \in Revocable : Revoke(k)
    \/ \E g \in Givers : (\E k \in Pats : ConnectBegin(g, k)) \/ ConnectRefused(g) \/ ConnectAnswered(g)
    \/ Connecting
    \/ \E g \in Givers : LeaveBegin(g)
    \/ Leaving
    \/ \E g \in Givers : EditBegin(g) \/ Edit(g) \/ VisitBegin(g) \/ Visit(g)
    \/ \E g \in Givers : Fill(g) \/ Refund(g) \/ LateDebit(g)
    \/ Sweeping \/ CheckDone \/ CheckFails
    \/ \E S \in SUBSET Givers : SweepSleep(S)
    \/ \E g \in Givers : GateBegin(g) \/ ToolList(g)
    \/ GateAnswered \/ GateRaise
    \/ ToolAborts \/ ToolReads \/ ToolRetracts
    \/ Crash

\* The sweep runs for ever, and GitHub answers it now and then.
Fairness ==
    /\ WF_vars(Look("control")) /\ WF_vars(RollOver("control"))
    /\ WF_vars(Connecting) /\ WF_vars(Leaving)
    /\ WF_vars(Sweeping) /\ SF_vars(CheckDone)

Spec == Init /\ [][Next]_vars /\ Fairness

-----------------------------------------------------------------------------
(* Properties *)

TypeOK ==
    /\ month \in Months /\ active \in 0 .. month
    /\ rolling \in [Processes -> (1 .. month) \cup {Nothing}]
    /\ row \in [Givers -> Rows \cup {Nothing}]
    /\ pat \in [Givers -> StoredPats \cup {Nothing}]
    /\ role \in [Givers -> {"consumer", "giver"}]
    /\ good \subseteq Pats
    /\ task \in Connects \cup Leaves \cup {Nothing}
    /\ connect \in [Givers -> Offers \cup {Nothing}]
    /\ visit \in [Givers -> Months \cup {Nothing}]
    /\ edit \in [Givers -> Months \cup {Nothing}]
    /\ sweep \in Sweeps
    /\ gate \in Gates \cup {Nothing}
    /\ tool \in Retractions \cup {Nothing}
    /\ left \in [Givers -> Nat \cup {Nothing}]
    /\ torn \subseteq Givers /\ faults \in 0 .. MaxFaults

\* Several transactions of several processes change a row, on what they read
\* before.  What is drawn may exceed the pledge, but only by what calls in flight
\* burned of cancelled credit; the pledge stays within the quota.
PledgeBacked ==
    \A g \in Givers : row[g] # Nothing =>
        row[g].drawn <= row[g].pledge + row[g].late /\ row[g].pledge <= row[g].quota

\* The role is written last, after four other statements and across months: the
\* givers are those who have a PAT.  Two things leave a giver without one: a
\* crash, and a disconnect refused because calls in flight burned cancelled
\* credit.  A refusal for anything else violates this.
RoleMatchesPat ==
    task = Nothing => \A g \in Givers \ torn : role[g] = "giver" <=> pat[g] # Nothing

\* Whoever disconnects has no credit in a later month, whichever process opens
\* it, while or after the disconnect is carried out, and whatever an edit, a
\* quota sync or the tool still had in hand.  (Not who was cut off, see above.)
LeavesForGood ==
    \A g \in Givers :
        left[g] # Nothing /\ left[g] < active => row[g] = Nothing

\* Two processes that find the month over, one of them a month late, never
\* make an archived cycle active again.
ArchivedForGood == [][active' >= active]_active

\* A dead PAT's undrawn pledge does not stay, though the giver may pledge
\* again, fills are refunded and the sweep works with the PAT and the month of
\* a while ago.
DeadPledgeGone == \A g \in Givers : Dead(g) /\ Undrawn(g) ~> ~ (Dead(g) /\ Undrawn(g))

\* A verdict that was meant for the PAT before does not stick to a PAT that
\* works.
Misjudged(g) == Dead(g) /\ pat[g].id \in good
VerdictHeals == \A g \in Givers : Misjudged(g) ~> ~ Misjudged(g)

\* After a disconnect nothing but what was drawn is left: the handler "zeroes
\* its quota **and** pledge, floored at already-consumed pool spend", and "the
\* credit becomes inert" (docs/reference/control-plane-api.md:264-265).
DisconnectSticks ==
    \A g \in Givers :
        faults = 0 /\ task = Nothing /\ Live /\ pat[g] = Nothing /\ row[g] # Nothing
          => row[g].quota <= row[g].pledge
=============================================================================
