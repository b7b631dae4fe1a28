----------------------------- MODULE Reconcile -----------------------------
(***************************************************************************)
(* Booking what a giver burned past the proxy: reconcile_giver of          *)
(* ctc/accounting/engine.py for one giver and one cycle, called by two     *)
(* processes, the live quota cache of each (ctc/metering/live_quota.py),   *)
(* the two-phase sweep of ctc/auth/pat_health.py, and the repair that an   *)
(* operator runs beside them (tools/repair_baseline.py).                   *)
(*                                                                         *)
(* GitHub only tells how much was burned in all.  The ledger knows what    *)
(* was burned through the proxy, after the fact.  What is left over, the   *)
(* drift, is booked as BYPASS once two observations confirm it.            *)
(*                                                                         *)
(* reconcile_giver reads without a lock, decides, and then runs at most    *)
(* one transaction; the others act in between.  Time passes in ticks;      *)
(* every age saturates where it stops to matter.                           *)
(***************************************************************************)
EXTENDS CreditSums

CONSTANTS
    Calls,                    \* proxied calls, of one unit each
    MaxFlight,                \* ticks after which a call is debited at the latest
    Burnt,                    \* what GitHub may show when the cycle starts
    Entitlement,              \* what GitHub lets the giver burn
    MaxOutOfBand, MaxVisits,  \* bounds: burned past the proxy; profile loads, reconnects, repairs
    Ttl, Throttle, ConfirmMin, ConfirmMax, ConfirmDelay, Interval,
    Nothing                   \* NULL: no baseline, no pending drift, no reading

ASSUME TimesAssumption ==
    /\ {Ttl, Throttle, ConfirmMin, ConfirmMax, ConfirmDelay, Interval, MaxFlight} \subseteq Nat
    /\ Throttle < ConfirmMin
    /\ ConfirmMin <= ConfirmDelay /\ ConfirmDelay <= ConfirmMax
    /\ ConfirmMax < Interval

ASSUME BurnAssumption ==
    /\ IsFiniteSet(Calls)
    /\ Burnt \subseteq Nat /\ {Entitlement, MaxOutOfBand, MaxVisits} \subseteq Nat
    /\ Nothing \notin Int

Processes == {"proxy", "control"}
Writers   == Processes \cup {"tool"}

VARIABLES
    github,               \* entitlement - remaining, at GitHub
    started, debited,     \* calls that GitHub counted; that the ledger did
    flightAge,            \* since a call was counted
    bypass,               \* SUM of BYPASS events
    baseline,             \* burn_baseline
    pending, pendingAge,  \* pending_drift, and the age of pending_drift_at
    seenAge,              \* since a process last reconciled, _reconcile_seen
    cache, cacheAge,      \* LiveQuotaCache of each process
    write,                \* the transaction a process is about to run
    sweep, timer,         \* the sweep's phase, and since when
    visits,               \* history: profile loads, reconnects, repairs
    outOfBand,            \* history: burned past the proxy in this cycle
    fresh                 \* GitHub has started its new month

upstreamVars == <<github, outOfBand, fresh>>
callVars     == <<started, debited, flightAge>>
rowVars      == <<bypass, baseline, pending, pendingAge>>
processVars  == <<seenAge, cache, cacheAge, write>>
sweepVars    == <<sweep, timer>>
vars == <<upstreamVars, callVars, rowVars, processVars, sweepVars, visits>>

-----------------------------------------------------------------------------
Flying  == started \ debited
Tracked == Cardinality(debited) + bypass
Base    == IF baseline = Nothing THEN 0 ELSE baseline
Drift(burn) == burn - Base - Tracked

\* The cycle has just been opened: with the baseline carried from the last
\* one, or without one.
Init ==
    /\ github \in Burnt /\ outOfBand = 0 /\ fresh = FALSE
    /\ started = {} /\ debited = {} /\ flightAge = [c \in Calls |-> 0]
    /\ bypass = 0 /\ baseline \in {github, Nothing}
    /\ pending = Nothing /\ pendingAge = 0
    /\ seenAge = [p \in Processes |-> Throttle]
    /\ cache = [p \in Processes |-> Nothing]
    /\ cacheAge = [p \in Processes |-> Ttl]
    /\ write = [p \in Writers |-> Nothing]
    /\ sweep = "rest" /\ timer = 0
    /\ visits = 0

-----------------------------------------------------------------------------
(* Upstream, and the calls through the proxy *)

BurnOutOfBand ==
    /\ outOfBand < MaxOutOfBand
    /\ github < Entitlement
    /\ github' = github + 1 /\ outOfBand' = outOfBand + 1
    /\ UNCHANGED <<fresh, callVars, rowVars, processVars, sweepVars, visits>>

\* GitHub counts a call when it is made, the ledger when it is over.
StartCall(c) ==
    /\ c \notin started
    /\ github < Entitlement
    /\ github' = github + 1
    /\ started' = started \cup {c}
    /\ UNCHANGED <<outOfBand, fresh, debited, flightAge, rowVars, processVars, sweepVars, visits>>

Debit(c) ==
    /\ c \in Flying
    /\ debited' = debited \cup {c}
    /\ UNCHANGED <<upstreamVars, started, flightAge, rowVars, processVars, sweepVars, visits>>

\* GitHub starts its month, some time after CTC did.
Reset ==
    /\ ~ fresh
    /\ fresh' = TRUE /\ github' = 0
    /\ UNCHANGED <<outOfBand, callVars, rowVars, processVars, sweepVars, visits>>

-----------------------------------------------------------------------------
(* reconcile_giver: what it reads and decides without a lock ... *)

Transaction(kind, burn, amount) == [kind |-> kind, burn |-> burn, amount |-> amount]

\* The baseline that explains a reading.  Variant without the lower bound.
AnchorUnbounded(burn) == burn - Tracked
Anchor(burn) == Greatest(0, burn - Tracked)

\* Books at most `amount`; an immediate call sets no limit of its own.
Outcome(burn, immediate) ==
    IF baseline = Nothing /\ ~ immediate
      THEN Transaction("capture", burn, Anchor(burn))
    ELSE IF burn < Base
      THEN Transaction("reanchor", burn, Anchor(burn))
    ELSE IF Drift(burn) <= 0
      THEN IF pending = Nothing THEN Nothing ELSE Transaction("clear", burn, 0)
    ELSE IF immediate
      THEN Transaction("book", burn, burn)
    ELSE IF pending = Nothing \/ pendingAge > ConfirmMax
      THEN Transaction("note", burn, Drift(burn))
    ELSE IF pendingAge < ConfirmMin
      THEN Nothing
      ELSE Transaction("book", burn, Least(pending, Drift(burn)))

Observe(p, burn) ==
    /\ write[p] = Nothing
    /\ IF burn = Nothing \/ seenAge[p] < Throttle
         THEN UNCHANGED <<seenAge, write>>
         ELSE /\ seenAge' = [seenAge EXCEPT ![p] = 0]
              /\ write' = [write EXCEPT ![p] = Outcome(burn, FALSE)]

(* ... and its transaction. *)

Capture(w)  == baseline' = w.amount /\ UNCHANGED <<bypass, pending, pendingAge>>
Reanchor(w) == baseline' = w.amount /\ pending' = Nothing /\ UNCHANGED <<bypass, pendingAge>>

Note(w)     == pending' = w.amount /\ pendingAge' = 0 /\ UNCHANGED <<bypass, baseline>>

\* Variant that forgets the age and keeps the drift.
ClearAge    == pendingAge' = 0 /\ UNCHANGED <<bypass, baseline, pending>>
Clear       == pending' = Nothing /\ UNCHANGED <<bypass, baseline, pendingAge>>

\* Variants that move the baseline instead, and that book the amount decided
\* before the lock.
BookByAnchor(w) == Reanchor(w)

BookDecided(w) ==
    /\ bypass' = bypass + w.amount
    /\ pending' = Nothing
    /\ UNCHANGED <<baseline, pendingAge>>

\* _book_bypass reads the row and the ledger again.
Book(w) ==
    /\ bypass' = bypass + Greatest(0, Least(Drift(w.burn), w.amount))
    /\ pending' = Nothing
    /\ UNCHANGED <<baseline, pendingAge>>

Commit(p) ==
    LET w == write[p]
    IN  /\ w # Nothing /\ w.kind \notin {"connect", "repair"}
        /\ \/ w.kind = "capture" /\ Capture(w)
           \/ w.kind = "reanchor" /\ Reanchor(w)
           \/ w.kind = "clear" /\ Clear
           \/ w.kind = "note" /\ Note(w)
           \/ w.kind = "book" /\ Book(w)
        /\ write' = [write EXCEPT ![p] = Nothing]
        /\ UNCHANGED <<upstreamVars, callVars, seenAge, cache, cacheAge, sweepVars, visits>>

-----------------------------------------------------------------------------
(* Who reconciles *)

\* LiveQuotaCache.get: a cached reading is used for Ttl.
Hit(p)    == cacheAge[p] < Ttl
Cached(p) == IF Hit(p) THEN cache[p] ELSE github
Keep(p, reading, age) ==
    /\ cache' = [cache EXCEPT ![p] = reading]
    /\ cacheAge' = [cacheAge EXCEPT ![p] = age]

\* reconcile_candidate, before a call is routed.
Candidate ==
    /\ Observe("proxy", Cached("proxy"))
    /\ Keep("proxy", Cached("proxy"), IF Hit("proxy") THEN cacheAge["proxy"] ELSE 0)
    /\ UNCHANGED <<upstreamVars, callVars, rowVars, sweepVars, visits>>

\* reconcile_exhausted, after a 402: all that is left is burned, whatever the
\* cache says; then set_exhausted keeps a reading that reconciles nothing.
Exhausted ==
    /\ github >= Entitlement
    /\ write["proxy"] = Nothing
    /\ write' = [write EXCEPT !["proxy"] =
                    IF Cached("proxy") = Nothing THEN Nothing ELSE Outcome(Entitlement, TRUE)]
    /\ Keep("proxy", Nothing, 0)
    /\ UNCHANGED <<upstreamVars, callVars, rowVars, seenAge, sweepVars, visits>>

\* The giver loads his profile, or refreshes it.
Profile(refresh) ==
    /\ visits < MaxVisits
    /\ visits' = visits + 1
    /\ LET hit == Hit("control") /\ ~ refresh
           burn == IF hit THEN cache["control"] ELSE github
       IN  /\ Observe("control", burn)
           /\ Keep("control", burn, IF hit THEN cacheAge["control"] ELSE 0)
    /\ UNCHANGED <<upstreamVars, callVars, rowVars, sweepVars>>

\* validate_and_store_pat: the baseline becomes 0, then all drift is booked.
Connect ==
    /\ visits < MaxVisits
    /\ visits' = visits + 1
    /\ write["control"] = Nothing
    /\ baseline' = 0
    /\ write' = [write EXCEPT !["control"] = Transaction("connect", github, 0)]
    /\ UNCHANGED <<upstreamVars, callVars, bypass, pending, pendingAge, seenAge, cache, cacheAge, sweepVars>>

\* ... by an immediate reconcile with the reading from before.
BookUntracked(p) ==
    LET w == write[p]
    IN  /\ w # Nothing /\ w.kind = "connect"
        /\ write' = [write EXCEPT ![p] = Outcome(w.burn, TRUE)]
        /\ UNCHANGED <<upstreamVars, callVars, rowVars, seenAge, cache, cacheAge, sweepVars, visits>>

BookPreConnect == BookUntracked("control")

\* repair_giver: a reading, live or as the operator typed it, ...
Repair(burn) ==
    /\ visits < MaxVisits
    /\ visits' = visits + 1
    /\ write["tool"] = Nothing
    /\ write' = [write EXCEPT !["tool"] = Transaction("repair", burn, 0)]
    /\ UNCHANGED <<upstreamVars, callVars, rowVars, seenAge, cache, cacheAge, sweepVars>>

\* ... then a baseline of 0, ...
Rebase ==
    LET w == write["tool"]
    IN  /\ w # Nothing /\ w.kind = "repair"
        /\ baseline' = 0 /\ pending' = Nothing
        /\ write' = [write EXCEPT !["tool"] = Transaction("connect", w.burn, 0)]
        /\ UNCHANGED <<upstreamVars, callVars, bypass, pendingAge, seenAge, cache, cacheAge, sweepVars, visits>>

\* ... and, in another transaction, all the drift that leaves.
BookRepaired == BookUntracked("tool")

\* No PAT, no quota, or the operator interrupts it: what was written stays.
RepairFails ==
    /\ write["tool"] # Nothing
    /\ write' = [write EXCEPT !["tool"] = Nothing]
    /\ UNCHANGED <<upstreamVars, callVars, rowVars, seenAge, cache, cacheAge, sweepVars, visits>>

\* run_once: a first observation ...
SweepFirst ==
    /\ sweep = "rest" /\ timer = Interval
    /\ Observe("control", github)
    /\ sweep' = "between" /\ UNCHANGED timer
    /\ UNCHANGED <<upstreamVars, callVars, rowVars, cache, cacheAge, visits>>

\* ... and, if there is a drift to confirm, a sleep ...
SweepPending ==
    /\ sweep = "between" /\ write["control"] = Nothing
    /\ sweep' = IF pending = Nothing THEN "rest" ELSE "sleep"
    /\ timer' = 0
    /\ UNCHANGED <<upstreamVars, callVars, rowVars, processVars, visits>>

\* ... and a second observation.
SweepSecond ==
    /\ sweep = "sleep" /\ timer = ConfirmDelay
    /\ Observe("control", github)
    /\ sweep' = "rest" /\ timer' = 0
    /\ UNCHANGED <<upstreamVars, callVars, rowVars, cache, cacheAge, visits>>

SweepDue == \/ sweep = "rest" /\ timer = Interval
            \/ sweep = "between"
            \/ sweep = "sleep" /\ timer = ConfirmDelay

\* A reconcile takes less than a tick, the sweep wakes up in the tick it is
\* due, and a call is over after MaxFlight ticks.
Tick ==
    /\ \A p \in Writers : write[p] = Nothing
    /\ ~ SweepDue
    /\ \A c \in Flying : flightAge[c] < MaxFlight
    /\ flightAge' = [c \in Calls |-> IF c \in Flying THEN flightAge[c] + 1 ELSE 0]
    /\ pendingAge' = IF pending = Nothing THEN 0 ELSE Least(pendingAge + 1, ConfirmMax + 1)
    /\ seenAge' = [p \in Processes |-> Least(seenAge[p] + 1, Throttle)]
    /\ cacheAge' = [p \in Processes |-> Least(cacheAge[p] + 1, Ttl)]
    /\ timer' = timer + 1
    /\ UNCHANGED <<upstreamVars, started, debited, bypass, baseline, pending, cache, write, sweep, visits>>

-----------------------------------------------------------------------------
Sweep == SweepFirst \/ SweepPending \/ SweepSecond

Next ==
    \/ BurnOutOfBand \/ Reset
    \/ \E c \in Calls : StartCall(c) \/ Debit(c)
    \/ \E p \in Writers : Commit(p)
    \/ Candidate \/ Exhausted
    \/ \E refresh \in BOOLEAN : Profile(refresh)
    \/ Connect \/ BookPreConnect
    \/ \E burn \in 0 .. Entitlement : Repair(burn)
    \/ Rebase \/ BookRepaired \/ RepairFails
    \/ Sweep
    \/ Tick

Fairness ==
    /\ WF_vars(Tick) /\ WF_vars(Sweep) /\ WF_vars(BookPreConnect)
    /\ WF_vars(Rebase \/ BookRepaired \/ RepairFails)
    /\ \A p \in Writers : WF_vars(Commit(p))
    /\ \A c \in Calls : WF_vars(Debit(c))

Spec == Init /\ [][Next]_vars /\ Fairness

-----------------------------------------------------------------------------
(* Properties *)

Transactions ==
    [kind : {"capture", "reanchor", "clear", "note", "book", "connect", "repair"},
     burn : Nat, amount : Nat]

\* Only a positive drift is ever noted, a baseline is never negative, and a
\* sweep never misses the moment it is due.
TypeOK ==
    /\ github \in Nat /\ outOfBand \in Nat /\ bypass \in Nat
    /\ debited \subseteq started /\ started \subseteq Calls
    /\ flightAge \in [Calls -> 0 .. MaxFlight]
    /\ baseline \in Nat \cup {Nothing}
    /\ pending \in (Nat \ {0}) \cup {Nothing}
    /\ pendingAge \in 0 .. (ConfirmMax + 1)
    /\ seenAge \in [Processes -> 0 .. Throttle]
    /\ cache \in [Processes -> Nat \cup {Nothing}] /\ cacheAge \in [Processes -> 0 .. Ttl]
    /\ write \in [Writers -> Transactions \cup {Nothing}]
    /\ sweep \in {"rest", "between", "sleep"} /\ timer \in 0 .. Interval

\* Two processes that confirm the same drift, a repair beside them, or a debit
\* that lands while one of them decides, do not make a booking count anything twice: it never takes
\* the ledger beyond what GitHub had counted when it was observed.
BookedOnce ==
    [][bypass' # bypass =>
         \E p \in Writers : /\ write[p] # Nothing /\ write[p].kind = "book"
                            /\ Base' + Tracked' <= write[p].burn]_vars

\* What GitHub counts beyond a baseline that no writer is about to capture or
\* re-anchor is in the ledger in the end: n units of it, whatever the baseline does
\* afterwards, and without any call or visit, for the sweep alone confirms them.
\* What was burned before the baseline, or is lost when GitHub resets (only then
\* does its count fall), is not promised.
Anchored ==
    /\ baseline # Nothing
    /\ \A p \in Writers : write[p] = Nothing \/ write[p].kind \notin {"capture", "reanchor"}
BurnIsBooked ==
    \A n \in 1 .. Entitlement :
        Anchored /\ github - Base >= n ~> Tracked >= n \/ github < n

\* A noted drift is booked or dropped in the end, "so a transient drift
\* doesn't linger forever" (engine.py:628): the sweep comes back to it.
PendingSettles == pending # Nothing ~> pending = Nothing

\* What is booked as BYPASS was burned past the proxy.  "That gap is the window the in-flight proxied cost needs to land in
\* `tracked`, so by the second read the debounce measures only genuinely
\* out-of-band burn" (docs/reference/metering-contract.md:306-307).
OnlyOutOfBandBooked == bypass <= outOfBand

\* The second observation of a sweep books the drift that the first one noted,
\* if it is still there.  "The two observations are now 95 s apart [...] so the drift confirms"
\* (docs/reference/metering-contract.md:370-371).
SweepConfirms ==
    [][sweep = "sleep" /\ sweep' = "rest"
         => write'["control"] # Nothing \/ Drift(github) <= 0]_vars
=============================================================================
