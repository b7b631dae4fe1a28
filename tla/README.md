# Community Token Credit: TLA+ models and proofs

A team shares GitHub Copilot access: *givers* connect a PAT, pledge a part of
its monthly quota to a pool, and *consumers* draw on it. An intercepting proxy
swaps the caller's token for a giver's PAT and books what each call cost; a
control plane runs the marketplace where credit is requested and granted. Both
processes write one SQLite ledger. The models here are about that ledger and
the protocols around it.

## 1. Inventory

| component | source | state | operations |
|---|---|---|---|
| marketplace and balances | `ctc/accounting/engine.py`, `ctc/store/accounting_store.py`, `ctc/domain/rules.py` | tables `giver_cycles`, `requests`, `grants`, `pool_contributions`, `consumption_events`; every balance is a SUM over them | create/cancel a request, fund it (personal, pool, received credit), return received credit, set pledge and quota, record consumption |
| attribution | `ctc/routing/attribution.py` | session pins (in memory of the proxy) | select a source, debit the realized cost (spills over several grants), pin and look up |
| reconciliation | `engine.reconcile_giver`, `_book_bypass`, `tools/repair_baseline.py` | `burn_baseline`, `pending_drift(_at)` per giver and cycle; a throttle per process | book out-of-band burn as BYPASS after two observations |
| billing cycle | `engine.ensure_active_cycle`, `_roll_over`, `_open_month_cycle` | `cycles.status`, seeded `giver_cycles` | archive the ended month, open and seed the next |
| proxy request loop | `proxy.py` `_serve`, `_relay_response` | per request: source, exclude set, attempts, relay progress | gate, forward, fail over on 402/401, relay, debit, close |
| giver lifecycle | `ctc/auth/onboarding.py`, `ctc/auth/pat_health.py`, `api_server.py` | `giver_pats` (PAT, verdict, snapshot), `users.role` | connect, disconnect, periodic health sweep |
| live quota cache | `ctc/metering/live_quota.py` | TTL cache per process | get, set_exhausted |
| HTTP API, auth, tokens | `api_server.py`, `ctc/api/`, `ctc/auth/`, `ctc/store/auth_store.py` | users, sessions, proxy tokens, rate-limit windows | validate input, call one engine operation |
| database | `ctc/store/db.py` | SQLite in WAL mode | `BEGIN IMMEDIATE` transactions, migrations |
| reports, leaderboard, tiers | `ctc/accounting/{reports,leaderboard,tiers}.py` | none | read-only aggregates |
| wire contract, capture, bridge, sentinels | `ctc/contract.py`, `ctc/metering/`, `ctc/routing/anthropic_bridge.py`, `ctc/sentinel.py`, `ctc/canary.py` | none | parse, rewrite and log HTTP |
| web front end, CLI | `web/`, `cli/` | none of the ledger's | presentation |

**Interaction.** Proxy and control plane never call each other; they share the
database. Each engine operation is one `BEGIN IMMEDIATE` transaction, so
operations are serial, but *sequences* of operations (a debit over several
grants, a health check that stores a verdict and then retracts a pledge, a
disconnect) interleave, and values read outside a transaction may be stale when
used. The proxy also awaits the network between selecting a source and debiting
it.

**What is hard.** Refunds: nothing is un-booked when a request is cancelled, the
balances are re-derived over chains of grants. Fills that make several takes.
Debits that race with the marketplace. Drift detection from a lagging external
counter in two processes. The month boundary, which either process crosses
first. A PAT that is replaced, revoked or disconnected while others still work
with what they read of it. Failover with partial responses, clients that stop
anywhere. Pages that count one ledger with several queries. `PROJECT.json` lists these hazards by line.

## 2. Modules

| module | models |
|---|---|
| `CreditSums` | sums over rows (`Total`), and the loop "take from each source in turn until nothing is due" that three engine operations share (`Drains`) |
| `Marketplace` | the ledger within one cycle: all tables, every balance, every operation that moves credit |
| `Standings` | extends `Marketplace` with what the team reads about it: profile, dashboard, report, leaderboard, tiers |
| `MCMarketplace` | a team of three for TLC |
| `Debit` | extends `Marketplace` with the proxy's calls: source selection and debit as the several transactions they are, racing with the control plane |
| `MCDebit` | a consumer of grants and a giver who call, for TLC |
| `Reconcile` | booking burn past the proxy, for one giver and cycle: two processes, their quota caches, the sweep, the repair tool, GitHub's counter |
| `MCReconcile` | the names of the calls, for TLC |
| `Call` | the abstract call: what the proxy promises a consumer and a giver |
| `Serve` | the proxy's request loop: health gate, routing, failover, session pins, relay, debit, cut-offs; it implements `Call` |
| `Connection` | extends `Serve` with the connections calls come on: CONNECT, TLS, tunnels, heads and bodies; it implements `Serve` |
| `MCServe` | a consumer with several grants of one giver and one of another, for TLC |
| `Lifecycle` | givers and months: connecting and disconnecting a PAT, the health sweep, pledge edits, quota syncs, the rollover, a tool, crashes |
| `MCLifecycle` | a giver and two PATs, for TLC |
| `CreditSums_proofs` | laws of sums, of the drain loop and of walks |
| `Marketplace_proofs` | type correctness, no overfunding, shape of chains |
| `Backing_proofs` | what backs credit: pledges, sources of a fill and their order, refunds, chains |
| `Debit_proofs` | the refinement, accounting of every unit, where overshoot lands |
| `Reconcile_proofs` | type correctness, no double booking |
| `Standings_proofs` | the pages agree, the bar adds up, every credit is found, the hosts are in order |
| `Serve_proofs` | bounded retries, one answer, one debit, the promise of `Call`; of `Connection`, whole requests only, and that it leaves calls alone |
| `Lifecycle_proofs` | backed pledges, roles, leaving for good, no reopening |

### Marketplace

State: `rows`, `quota`, `pledge` are `giver_cycles`; `posted`, `expired`,
`cancelled` are `requests`; `grants` and `contributions` are the two append-only
tables, a row's index being its id and its `created_at` order; `used[g]` and
`selfBurn[u]` are the sums of `consumption_events` the SQL computes (per grant;
OWN plus BYPASS per giver); `dead` is the set of users whose stored verdict is
one of `DEAD_VERDICTS`. `over` is a history variable: what was booked on a grant
beyond its remaining credit (`allow_overshoot=True`). The balances are the SQL
queries: `LeafCharge`, `Charge`, `Capacity`, `GrantRemaining` and so on carry the
cancelled-aware CASE expressions.

Actions are the engine's methods, one transaction each. Guards are their
`raise`s and early returns; a call that raises rolls back and is no step. Where
the code sorts, the model walks the sources in any order the sort allows
(`Walks`), and `Drains` gives the takes of the loop in closed form.
`SetPledge` is also `retract_pledge`; a caller's stale floor is one of the
values `p` ranges over, and the guard rejects it when the code would.

Abstractions: two rows written in the same second are ordered as inserted;
`bucket='pool'` events are legacy that no code path writes any more, so their
sum is 0; one cycle; amounts are small integers.

### Standings

No state of its own: operators over the tables of `Marketplace`, one for each SQL
query or Python fold. `DonationsConsumed` is the profile's "used by you", a
difference of four such sums; `Retained`, `Rotated` and `DonatedToNonPat` are the
report's; `AssignTiers` gives every ranking that the sort allows (ties are broken
by name, that is in any way). `givers`, the users with that role, and `pats` are
arguments, because neither need agree with the rows. The entitlement GitHub
reports, which a giver's bar uses, is taken to be his quota, which follows it.

### Debit

State: `stage`, `source` of each call are locals of `_serve`; `debit` holds the
locals of the one `debit` that runs (asyncio, and it does not await): what is
still due, the take it has just sized, the grants still to visit. `cost` and
`lost` are history. `Forward` is `select_source`, `BeginDebit` the order of
grants, `ReadRoom` the lock-free `grant_remaining`, `BookTake` the clamped
`record_consumption` in its transaction, `RefuseTake` its `InsufficientCredit`
(which `_serve` logs), `BookRest` the residual with overshoot. Between any two
of these steps the control plane does any `Trade` of `Marketplace`.

Abstractions: `active_grants`, two queries in the code, is one snapshot; any
source may be the first one, because live health, a missing PAT and the
excludes of a failover can remove the ones before it; an own source stays own;
a crash of the proxy in the middle of a debit is not modelled. The control plane
books no BYPASS here. `MaxBurn` is at least what all calls can cost, so that a
bound never blocks a booking.

### Reconcile

State: `bypass`, `baseline`, `pending` and `pendingAge` are the row and its
BYPASS events; `seenAge`, `cache`, `cacheAge` and `write` belong to a process:
its throttle, its `LiveQuotaCache` and the transaction it has decided on.
`github` is `entitlement - remaining` as GitHub would answer now; `started` and
`debited` are the calls GitHub has counted and those the ledger has. `sweep` and
`timer` are the place of `PatHealthChecker.run_forever`.

`Observe` is `reconcile_giver` up to the point where it takes the lock: the
throttle, the lock-free read, and the decision `Outcome`. `Commit` is the
transaction. Between the two the other process acts, a call is debited, GitHub
counts. The callers are actions of their own: `Candidate` and `Exhausted` in the
proxy; `Profile`, `Connect`/`BookPreConnect` and the sweep's three steps in the
control plane, whose web handlers and sweep share one engine and so one throttle.
`Repair`, `Rebase`, `BookRepaired` are `repair_giver` of the tool
`repair_baseline`, a third writer: a reading that is live or typed in by the
operator (any number up to the entitlement), the baseline of 0, and then the
immediate reconcile. `RepairFails` stops it at any point; nothing it wrote is
taken back.

Time passes in ticks, and each age saturates where it stops to matter. `Tick`
assumes that a reconcile takes less than a tick (it does not await), that the
sweep wakes up in the tick it is due, and that a call is over after `MaxFlight`
ticks. GitHub's counter does not lag here; what lags are the caches. Failed
fetches of the two processes are left out (`reconcile_giver` is not called then),
as is `sync_quota_ceiling`, which changes the quota only (it is in `Lifecycle`).
The PAT stays valid.

### Call

`progress`, `told` and `bill` say of each client's call whether it is open, has
its status line, and where the bill for what it spent is. `Begin`, `Spend`,
`Tell`, `End`, `Cut` are the only ways on: one status line, one bill for what was
spent or none, and neither is taken back; a call that is open ends. `Serve` maps
its stages to it (`Promise`), and `ImplementsCall` is that every behaviour of the
request loop is one of `Call`.

### Serve

State: `call[c]` holds the locals of `_serve` for the call a client of the
consumer makes now (source, attempts, excludes, the health readings as the set
`dead`, the session token in the header, `RelayState`), and as history how many
status lines the client got, which source the call burned, which one the debit
was handed, and whether the charge is lost. `token` is the giver the client's
session token belongs to, `pin` is `_session_pins`. The rest is environment:
`room` (sources with credit), `stored` (PATs), `dry` and `refused` (what GitHub
knows). Between two awaits of a call the environment does what it likes.

`Ask` is the health gate, `Block` and `Route` what follows it, `FailOver` the
retries on a 402 and a rejected PAT, `Bootstrap`, `Healed` and `HealFails` the
recovery of a session token, `Respond` to `Finish` the relay and the debit.
`Break` is each of the `except` handlers with `_reconcile_partial_relay` and
`_fail_client`; it can come at any await of the forwarding and the relay.

`Forward` is a call that is not billed (every path but the billable ones), `Reject`
one that is turned away with a 401 or 503 before it is routed, and `Renew` a new
session of a client whose connection is closed or idle.

Abstractions: a source is a number, its order that of `select_source`; a
reading finds some of the dry givers out (it may be a minute old, or have
failed); the amount of a charge and the spilling of a debit are in `Debit`;
`reconcile_exhausted` is in `Reconcile`. A 200 counts as burned when the proxy
reads its head: what upstream spent on a call that times out before is unknown
to the proxy. Each client sends a session id. Left out are a 402 that is not
`quota_exceeded`, the `givers_only` mode, and a write that fails in `Block`.

### Connection

State: `conn[c]` is the place of a client's connection in `_dispatch`,
`_blind_tunnel` and the reading half of `_serve`: its stage, whether it is a plain
request, and of the body being read the framing, the size announced and the
parts read; `missing` is what was not there when the request was taken up. A
body is counted in parts: units of data for a Content-Length; for a chunked one
the size line and the data of each chunk, the last size line and the blank line.

`Dial`, `Refuse`, `Connect` and `TunnelUp`/`TunnelFails` are a CONNECT and its
answers (`RESTRICT_CONNECT`, 403, 502), `Handshake` the TLS on the proxy's own
certificate, `ReadHead`, `ReadPart` and `BadRequest` the reading of a request with
its 400, `TakeUp` the moment it enters the loop of `Serve`, `Served` its end.
`HangUp` is the client's; what a timeout of the proxy ends is in the handlers of `Conclude`.
`Around` are the steps of `Serve` that only it takes. `ImplementsServe` says that
behind any connection nothing happens that `Serve` does not show.

Abstractions: the content of heads and bodies; pipelined bytes, which the code
drops; the head's size limit, which closes like a client that goes.

### Lifecycle

State: `row`, `pat`, `role` are `giver_cycles` of the active cycle (with what is
drawn from the pledge), `giver_pats` and `users.role`; `month` is the clock and
`active` the month of the active cycle. `rolling[p]` is the month for which a
process has found the cycle over; `task` is the statement at which the control
plane is between two awaits of a connect or disconnect; `connect`, `visit` and
`edit` are requests that wait for GitHub or a body, with what they read before;
`sweep` is `PatHealthChecker.run_once`, `gate` the health gate of the proxy,
`tool` a run of `retract_dead_pledges`.

What is drawn from a pledge is `row[g].drawn`. Fills raise it and cancels lower it,
in the control plane; but `pledge_used` counts what was burned of a cancelled grant
(`accounting_store.py:287-302`), so a call that is in flight when its grant is
cancelled raises it again when the proxy debits it, at any time and past a pledge
that was cut meanwhile. `Refund` puts the credit such calls may still burn in
`loose`, `LateDebit` moves it back; `late` is the history of it.

Each statement that writes is an action of its own, as each is a transaction of
its own: `ConnectPat`, `ConnectHealth`, `ConnectRole`, `ConnectSnapshot`,
`ConnectPledge` are `validate_and_store_pat` after GitHub's answer;
`LeaveBegin`, `LeaveEnsure`, `LeavePledge`, `LeaveQuota`, `LeaveRole` are
`api_pat_delete`: `LeaveEnsure` reads the floor once, the next two use it, and when
more is drawn by then, `InvalidPledge` is caught nowhere and `LeaveRefused` ends the
handler, with the PAT gone and the role left behind. `Look` and `RollOver` are the two halves of
`ensure_active_cycle`, which either process runs first. `CheckBegin`, `CheckDone`,
`Retract` and `Withdraw` are one giver's check: the PAT, the verdict after an await,
the floor, and the withdrawal to it, whose refusal is logged. `Visit` and `GateRaise` are `sync_quota_ceiling` in the two processes.
The control plane is one asyncio loop, so between two of its own statements only
the proxy, the tool and a crash come; between its awaits everything does.

Abstractions: the marketplace is the three numbers of a row; only the active
cycle's rows are kept (a write to an archived one is no step of them, and a
disconnect that writes to one may be refused there if such a debit had hit the row
or could); every PAT has the same entitlement. The gate may get a cached reading at
any time, also of a PAT that is gone: the code's cache forgets after 60 s, so the
model allows more. `MaxFaults` bounds crashes and cancels under a call in flight.

## 3. Properties and runs

| run | instance | shows |
|---|---|---|
| `market_chain` | one giver (a quota that goes between 3 and 2), two requests of 2, three grants, one contribution, two units burned | `PledgeCoversDraws`, `ChainWellFormed`, `CreditBacked`, `CancelRefunds`, `UsedByYou`, `BarAddsUp`, `CreditConserved` |
| `market_pool` | two givers (quota 2 and 1), requests of 2 and 1, verdicts changing | `TypeOK`, `NeverOverfunded`, `PledgeCoversDraws`, `FillsWithinSources`, `ReturnedCreditFirst`, `ReportsAgree`, `NobodyVanishes`, `StandingsInOrder` |
| `dead_pat_draw` | the first team | **violated** `NoPoolFillOnDeadPat` |
| `debit_race` | two calls of cost 2, three grants, no returned credit | `TypeOKDebit`, `CostAccounted`, `ImplementsMarketplace`, `OnlySourceOvershoots`, `DebitEnds` |
| `debit_lost` | one call of cost 2 by a consumer | **violated** `NothingLost` |
| `reconcile` | one call, one unit past the proxy, one profile load, reconnect or repair, a reset | `TypeOK`, `BookedOnce`, `BurnIsBooked`, `PendingSettles` |
| `reconcile_in_flight` | two calls, nothing past the proxy | **violated** `OnlyOutOfBandBooked` |
| `reconcile_sweep` | no calls, one unit past the proxy, one profile load | **violated** `SweepConfirms` |
| `serve` | one client and its connections, two calls with bodies of up to one unit, two sources of two givers, one of them the consumer; two changes of credit, quotas or PATs | `TypeOKServe`, `AnsweredOnce`, `DebitedOnce`, `WholeBody`, `CallEnds`, `ImplementsCall`, `ReadingEnds`, `ImplementsServe` |
| `serve_untried` | one call, three grants of one giver and one of another | **violated** `BlockedOnlyWhenDry` |
| `lifecycle` | one giver, two PATs of which one is revoked, two months, one request, gate or tool in flight, one crash or one cancel under a call in flight | `TypeOK`, `PledgeBacked`, `RoleMatchesPat`, `LeavesForGood`, `ArchivedForGood`, `DeadPledgeGone`, `VerdictHeals` |
| `disconnect_undone` | the same | **violated** `DisconnectSticks` |

* `NeverOverfunded`: whoever funds, in however many takes, a request never gets
  more than it asked for.
* `ChainWellFormed`: re-donation is one hop deep and the charge stays with the
  donor of the root. The refund SQL follows one hop only, so it depends on this.
* `CreditBacked`: what was burned along a chain plus what can still be burned or
  drawn there is charged to the root's donor, up to booked overshoot, in
  whatever order requests of the chain are cancelled.
* `CancelRefunds`: a cancel charges nobody more, takes no credit from another
  request, and keeps what was burned charged.
* `PledgeCoversDraws`: pool fills never exceed the pledge, though the pledge
  moves and fills are refunded.
* `FillsWithinSources`: none of the takes of one fill overdraws its source.
* `ReturnedCreditFirst`: a pledge is touched only when no returned credit is left.
* `UsedByYou`: the profile's "used by you", a difference of four queries, is what
  was burned on the user's grants, whatever was passed on, returned or cancelled.
* `BarAddsUp`: without overshoot the parts of a giver's bar add up to the quota.
* `CreditConserved`: budget minus used is what is kept, pledged, returned, held or
  drawable, each unit at one place ("Unused" of the cycle report).
* `ReportsAgree`: what is given is what is taken, and profile, leaderboard,
  dashboard and report give the same totals whoever is a giver by now.
* `NobodyVanishes`: whoever consumed or was consumed from is in exactly one of the
  dashboard's two tallies.
* `StandingsInOrder`: who gave more on balance is never listed or banded below one
  who gave less, ties and zeros included.
* `ImplementsMarketplace`: calls and control plane together are a behaviour of
  `Marketplace`; each booking of a debit is one of its transactions with an
  amount it allows, though it was sized by a balance read earlier.
* `CostAccounted`: each unit of a reported cost is booked once, or still to be
  booked, or dropped by a refused take; none is booked on two grants.
* `OnlySourceOvershoots`: only the residual overshoots, and only on the grant
  the call was forwarded with.
* `DebitEnds`: the spill loop ends whatever the control plane does.
* `BookedOnce`: two processes that confirm the same drift, a repair beside them, or
  a debit that lands between the decision and the booking, make nothing count
  twice.
* `BurnIsBooked`: what GitHub counts beyond an anchored baseline is in the ledger in
  the end, though nobody calls and nobody looks; the periodic sweep is enough. It is
  an amount that must get there, whatever the baseline does afterwards, so a
  re-anchor instead of a booking violates it. Not promised is what the metering
  contract gives up (`docs/reference/metering-contract.md:336-341`, `347-354`): burn from before
  the first capture, or while a capture or a re-anchor is in hand, is swallowed by
  the new baseline, and what GitHub resets before it was confirmed is gone. For
  those there is the repair tool.
* `PendingSettles`: a noted drift is booked or dropped in the end.
* `TypeOKServe`: attempts stay within the cap, and no source is tried twice.
* `AnsweredOnce`: the client gets one status line for a call, whether it is
  blocked, relayed, passed on, or cut off before or after the head.
* `DebitedOnce`: failovers, partial relays and a stop of the proxy bill a call at
  most once, and hand the debit the source that was burned, not an earlier one.
* `CallEnds`: no sequence of refusals, heals and changes keeps a call going.
* `ImplementsCall`: failovers, heals and cut-offs are invisible behind one answer
  and one bill, and neither is taken back.
* `WholeBody`: no request is forwarded with less of its body than it announced,
  wherever the client stops.
* `ReadingEnds`: a client that stops sending in the middle of a head, a handshake or a
  body, or a tunnel's host that does not answer, does not keep the proxy reading; its
  own timeouts end that without a step of theirs. It says nothing of a client that
  does not read what is written to him.
* `ImplementsServe`: connecting, stalling and leaving add nothing to what calls do;
  no call is begun before the last is over or abandoned with its connection.
* `PledgeBacked`: what is drawn stays within the pledge, up to what calls in flight
  burned of cancelled credit, and the pledge within the quota, though each writer
  works on what it read before.
* `RoleMatchesPat`: givers are those with a PAT, though role and PAT are written in
  different transactions, unless a crash or such burn cut a connect or disconnect
  off. So the `InvalidPledge` that the comment at `api_server.py:274-277` means to
  avoid has no other cause: a floor that leaves out the fills violates it.
* `LeavesForGood`: whoever disconnects gets no row in a later month, whichever
  process opens it and while the disconnect is still being carried out.
* `ArchivedForGood`: a process that looked a month ago does not reopen a cycle.
* `DeadPledgeGone`: the undrawn pledge of a dead PAT is withdrawn in the end, though
  it may come back by an edit, a refund or a failed retraction.
* `VerdictHeals`: a verdict stored for a PAT that was replaced during the check does
  not stay on the new one.

**Bounds.** Three grants are enough for a root, a re-donated child and a pool
draw of returned credit in one chain; two requests let root and child be
cancelled in both orders; one or two units per take let a take be partial; two
units of burn allow a grant to be burned in part, in full, and beyond. Two
givers are needed for a fill over two pledges, and a quota that can shrink for a
pledge to be cut to it. Burn, grants, contributions and
the amount of one call are bounded by `MaxBurn`, `MaxGrants`, `MaxContributions`
and `MaxAmount`, in guards; the system may stop at the bounds, hence
`CHECK_DEADLOCK FALSE`. The marketplace runs are safety only and assume no
fairness.

A debit of 2 over grants of one unit each visits several, finds rooms gone, and
leaves a residual. Returned credit is left out of its runs: it changes
what a grant holds, which transfers and cancels do already.

The pages are checked on every state of the two marketplace runs: a chain with
every kind of move, and a team with two hosts and a user without a PAT, which has
ties, zeros and both kinds of band.

In the reconcile runs a tick is about 30 s. The code's 60 s cache and throttle
are 2 ticks, the 90 s minimum and 95 s delay 3; the 900 s window and the sweep's
interval are cut to 4 and 5, which keeps their order (`TimesAssumption`): the
next sweep is always too late to confirm. One visit or repair and one call
suffice to interleave with each phase of the sweep; the entitlement of 2 is reached, so that
a 402 happens. A call lasts a tick at most in `reconcile`, two in
`reconcile_in_flight`: it takes two calls to be in flight at both observations.

Two calls of a client let a session call pin what the next one uses; two sources
let a call fail over and then have none left; two changes (of credit, quotas or
PATs, `MaxChanges`) come between any two steps. A body of one unit in two framings
has every place at which a client can stop. Clients share only what the
environment changes anyway, so one is enough, and the proofs are for any number.
Three grants of one giver exceed the attempts that two checked givers allow.

In `lifecycle` givers share no row, so one is enough for what is checked of a row;
what they share, the cycle and the sweep, is run by the two processes. Two PATs
let one replace the other, and only one is revocable so that the other stays
good. Two months have one boundary, and a process may look before it and act
after it. `MaxFlight` of 1 still lets a request wait while the sweep, a task, the
rollover of the proxy and a crash go on around it; the proofs have no such bound.

**Fairness.** `SpecDebit` has weak fairness of the debit's steps: `debit` is
synchronous code of one process, so nothing but a crash stops it. `Reconcile`
has weak fairness of `Tick` (time passes), of the sweep's steps (`run_forever`
catches every exception and loops), of a process's pending transaction and of
`BookPreConnect` and the repair's steps (synchronous code), and of `Debit` (each call ends and is
debited). None of calls, visits, repairs, burn or GitHub's reset.
`Serve` has weak fairness of each call's steps: every await on upstream has a
timeout (`sock_connect=10`, `sock_read` of 120 or 15), which is `Break` or
`HealFails`, and the rest is synchronous code but for `writer.drain()`
(`proxy.py:608`, `634`, `638`), which has no timeout: a client that stops reading
without closing holds its call for as long as he likes. `CallEnds` and the liveness
of `ImplementsCall` therefore hold for clients that read or leave.
`Connection` keeps the two apart. `Conclude` is what the proxy does while it reads or
connects, with its timeouts on heads, bodies, handshakes and dials, and its weak
fairness asks nothing of client or host; `Attend` is the end of a call, and its weak
fairness asks the client to read or to close. `ReadingEnds` needs the first only. A
client that keeps sending is read without end, and a blind tunnel has no timeout and
may stay.
`Lifecycle` has weak fairness of the synchronous statements of the control plane,
of its sweep (which runs for ever and rolls the month over) and strong fairness of
`CheckDone`: GitHub may fail a check again and again, but not for ever. None of
users, the proxy, the tool or the clock. That a month gets its cycle without any
request is little more than this fairness and is no property of its own.

**Disagreements found.** (1) The guide says no pool fill is routed to a giver
with a dead PAT; contributions of returned credit are drawn whatever the
verdict of their donor's PAT. (2) The guide says that what the grants do not hold
lands on the source; when the control plane moves a grant's credit between the
debit's read and its booking, the booking is refused, the exception is logged,
and the rest of the cost is in no bucket (until a reconcile finds it as BYPASS
of the giver). (3) The contract says that the 90 s between two observations let
cost in flight land, so that only out-of-band burn is booked. Two different calls,
one in flight at each observation, confirm each other, and cost of the second is
booked twice. (4) The contract says that the sweep's second observation confirms
the drift. A profile load less than a minute before it sets the throttle the two
share, and the second observation does nothing; a later sweep has to start over.
(5) The reference says that nobody is blocked because one giver ran dry. A
failover excludes a grant, but the attempts are counted by givers: a spent giver
with several grants to the consumer uses them up. (6) The reference says that a
disconnect makes the credit inert. A quota sync of either process that asked
GitHub before it and writes after it restores the quota of a giver without a PAT.

Seen while modelling, without a run: a baseline that one process decided on can
overwrite the zero a reconnect or a repair has just set (`engine.py:603`), so that
the burn it meant to book stays hidden; `BookedOnce` shows that it is never booked
twice. A pool fill may draw the requester's own pledge, which `engine.py:493` calls
an invariant not to. A refund after a disconnect makes the floored pledge available
again without a PAT. The report counts a re-donated fill twice in `fills`
(`reports.py:292`), and the dashboard merges consumers by display name
(`reports.py:169`). A debit that lands on a cancelled grant after `api_pat_delete` has
read its floor makes `set_pledge` or `set_quota` raise, which nobody catches
(`api_server.py:279-280`): the answer is a 500, the PAT is gone and the role stays
`giver` until the next disconnect. The same happens when such debits have already
brought what is drawn above the quota. `RoleMatchesPat` excepts the case.

## 4. Proofs

All theorems hold for every team, every set of requests and every bound; they
assume only the named ASSUMEs of `Marketplace` (users form a finite set, quotas
are natural numbers, requests ask for at least one unit).

* `Typing`: `Spec => []TypeOK`, which includes that every inserted row has a
  positive amount. Every funding action is first shown to be a `Fill`: a
  sequence of new rows, drawn from distinct sources, that adds up to at most
  what is missing (`FundRequestFills`, `ReceivedFills`, `PoolFills`). That rests
  on `DrainsTake`, what a drain loop takes.
* `Overfunding`: `Spec => []NeverOverfunded`. Inductive together with `TypeOK`;
  a fill adds exactly the sum of its rows (`FundedAfterFill`), which rests on
  the laws of `Total` for concatenated sequences.
* `Chains`: `Spec => []ChainWellFormed`, inductive together with `TypeOK`.

* `PledgesCover`, `SourcesHold`, `Refunds`: `Spec => []PledgeCoversDraws`,
  `Spec => FillsWithinSources`, `Spec => CancelRefunds`. `PledgeCoversDraws` is
  inductive together with `TypeOK` and `ChainWellFormed`: a fill takes at most what
  the pledge has left (`FillPledge`), a burn adds to a giver's charge at most what it
  adds to the overshoot of his rows (`BurnCover`), and a cancel only refunds. The
  other two are about single steps from those invariants.
* `NoCreditCreated`: `Spec => []CreditBacked`. That what hangs off a root is covered
  by the root is not inductive, because a row may fund two levels, in several parts,
  of which some are cancelled and some not. `BackingInv` (`BackingKept`) states the
  cover row by row. A row `Claims` of its funder what was burned of it and, while its
  request is live, all that can be; then a grant's burn stays within its amount, the
  rows drawn from a contribution claim no more than it holds, and what a root burned,
  transferred and returned stays within the root, each up to the overshoot booked
  there. Claims and not `LeafCharge`, because a cancel caps the latter at the row's
  amount and would forget its overshoot. `Unused`, that no burn is booked on an id
  before its row is there, is what a newly inserted row needs.

* `PledgesLast`: `Spec => ReturnedCreditFirst`. A drain that finds less than was due
  took all of its lane (`DrainsAll`), and a walk over the contributions meets each of
  them (`WalksMeetAll`); so a pool fill that goes on to the pledges has drawn the whole
  capacity of every contribution (`ReturnedFirst`). That no capacity is left *after*
  the fill needs that the new rows, and no others, count against it (`FillEmpties`).

* `RowsKept`: `Spec => []RowsInv`, what the pages need and no page checks: who has no
  `giver_cycles` row has no pledge, no burn of his own and is nobody's donor; what
  comes straight from a giver is passed on by no one; what is drawn from returned
  credit is a part of the pool. Inductive together with `TypeOK` and
  `ChainWellFormed`. Reports sum over the rows, so without it a donor could be missed.
* `EveryCreditFound`: `Spec => []CreditConserved`. Each giver's quota is what he keeps,
  pledged, burned himself and granted out (`QuotaPlaced`, a sum over the rows). What he
  granted out is charged at the roots of his chains (`ChargesOwed`), and a root's
  charge is what was burned in its tree and what can still be burned there or drawn
  from what was returned (`RootBalanced`, the equality that `BackingInv` gives when
  nothing overshot). Adding up the trees (`ChargesPlaced`) meets each grant and each
  contribution once, because every row hangs off one root (`Trees`).
* `ProfileRight`: `Spec => []UsedByYou`, by the same split made by recipient: what a
  grant is counted to have received is what it has left, was burned, re-donated and
  returned, with a cancelled request seen alike by all four (`ReceivedSpent`).
* `BarRight`: `Spec => []BarAddsUp`. What was burned of a giver's personal grants stays
  within what they are charged (`PersonalBurnedCharged`), so no `max(0, ..)` cuts.
* `PagesAgree`, `NobodyLost`: `Spec => []ReportsAgree`, `Spec => []NobodyVanishes`.
  Grouping the same events by donor, by recipient or by grant gives the same sum
  (`TotalGroups`).
* `HostsRanked`: `Spec => []StandingsInOrder`. The bands `(i - 1) * k \div n` do not
  fall along a list (`BandsInOrder`), so banding keeps the order of the walk; turning
  those below zero round reverses both net and tier (`TakingListed`); the three lists
  are of different users (`ListsJoined`).

* `Implementation`: `SpecDebit => ImplementsMarketplace`. Initial states map to
  initial states and each step to a step or a stutter. A take is only known to be
  positive and at most `MaxAmount`, its grant to exist; that is the invariant
  `DebitInv` (where the running debit is, which grants its lane holds, that grants
  never go away). `RunningNeverOverfunds` and `RunningIsBacked` are corollaries: what is
  proved of the marketplace holds of the running system.
* `DebitTyping`: `SpecDebit => []TypeOKDebit`, from `DebitInv` and a lemma on what a
  step does to a call's stage and source (`StagesStep`).
* `Accounting`: `SpecDebit => []CostAccounted`. Each step either moves units from
  what is due to the burned total, or from what is due to `lost`; the lemmas on
  `Total` say how a sum changes when one row does (`TotalOneMore`, `TotalGrows`).
* `Overshoot`: `SpecDebit => OnlySourceOvershoots`, from `DebitInv` and the guard
  of the clamped booking.
* `ReconcileTyping`: `Spec => []TypeOK` of `Reconcile`. Not inductive alone: a noted
  drift is positive only because the transaction that notes it was decided on a
  positive drift (`NotesDrift`), and the sweep's timer stays below its interval
  only because it does not oversleep (`SleepsInTime`).
* `BookingOnce`: `Spec => BookedOnce`. Only a booking changes the BYPASS sum, and
  `_book_bypass` computes the drift from the row and ledger it locks.

* `ServeTyping`, `OneAnswer`, `OneDebit`: `Spec => []TypeOKServe`,
  `[]AnsweredOnce`, `[]DebitedOnce` of `Serve`. All follow from `ServeInv`, which
  says for each call what its stage implies: before the answer nothing was sent or
  charged (`Pending`), during it the head is out if and only if one status line
  is, and what was burned was burned with the current source (`Relaying`), after it
  the call is settled (`Over`). There is a lemma for what each step does to the
  record of a call; that a retry finds a new source rests on the least element of
  a set of numbers (`LeastExists`).

* `KeepsPromise`: `Spec => CallSteps` of `Serve`, the safety half of
  `ImplementsCall`: every step maps to a step of `Call` or a stutter. `ServeInv`
  gives the stage from which each step starts, and the record of a call determines
  its abstract one.
* `WholeRequests`: `ConnSpec => []WholeBody`, because a request is taken up only when
  its parts are all read, with the parts bounded by what was announced.
* `ConnectionServes`: each step of `Connection` is a step of `Serve` or leaves its
  variables alone, the safety half of `ImplementsServe`; so what is proved of
  `Serve` holds behind every connection.
* `LifecycleTyping`, `Backing`, `Roles`, `ForGood`, `NoReopening`: the safety
  properties of `Lifecycle`. `Backing` rests on each engine call checking in its
  transaction what its caller read before; only a `LateDebit` is not checked, and it
  adds to `late` what it adds to `drawn`. `Roles` and `ForGood` need to know of
  every task what it has written already and what it still will: a leaving giver
  has no PAT, his row in the active cycle is the only one left, and seeding takes
  only givers with a PAT. `Roles` needs besides that a disconnect is refused for
  nothing but late burn: `FloorHolds` says that what is drawn is still what it read,
  unless a late debit came (`FloorHeld`); so without one, drawn is within pledge and
  quota (`PledgeBacked`), and the pledge may be cut to it and the quota to the pledge.

The theorems on `Marketplace` hold for any users, requests and amounts, those on
`Lifecycle` for any givers, PATs, months and number of requests in flight, those
on `Serve` and `Connection` for any clients, sources, givers and bodies, those
on `Debit` and `Reconcile` for any calls and costs, any entitlement, and any
windows in the order `TimesAssumption` gives.

`Total` is defined by the cardinality of a set of units and not by a fold: the
library has theorems about `Cardinality`, and an induction over data is out of
the prover's reach, so its laws (`TotalConcat`, `TotalSplit`, `TotalMono`,
`TotalGrows`) follow from those of finite sets. The laws that go over a set of any
size, that sums of sums are sums (`TotalAdd`, `NetTotalAdd`) and that a sum may be taken
group by group (`TotalGroups`, `TotalFamily`), follow from `SubsetInduction`: a family
of subsets that has the empty one and each of its members' extensions by one element
has the whole set.

Every safety property of every passing run is proved. Only model-checked are the
fairness halves of `ImplementsCall` and `ImplementsServe`, and the
liveness properties `DebitEnds`, `BurnIsBooked`, `PendingSettles`, `CallEnds`,
`ReadingEnds`, `DeadPledgeGone` and `VerdictHeals`, which the prover
cannot reach (ENABLED).

## 5. Plan

Done: `Marketplace`, `Standings`, `Debit`, `Reconcile`, `Call`, `Serve`,
`Connection`, `Lifecycle`, and the proofs above. What is left, in order:

1. Calls and pins that outlive their cycle: a debit then lands in the archived
   cycle, whose report is meant to be final.
2. In `Debit`, the guide's "One giver per request" (`docs/guide/01-the-proxy.md:112`)
   against the spill of a debit over grants of several donors.
3. Which baseline should win when a reconnect or a repair meets a capture.

## 6. Not modelled

Left out because they keep no state the properties are about: HTTP parsing and
header rewriting beyond framing, the bridge's rewriting of bodies, capture,
sentinels and the canary, OAuth and encryption, serialisation, the web front end
and the CLI. Left out though they keep some: the legacy mode with a single PAT
(one source, no ledger), the gap to the next rank, histories by day and the Hall of
Fame of the reports, the
sliding-window rate limit and the cap on proxy tokens (single statements on one
process's state), the schema migrations at start-up. SQLite is trusted to make
`BEGIN IMMEDIATE` transactions atomic and serial.
