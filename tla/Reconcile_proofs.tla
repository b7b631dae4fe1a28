-------------------------- MODULE Reconcile_proofs --------------------------
(***************************************************************************)
(* Reconciling is well-typed and books nothing twice, for any windows that *)
(* are ordered as the program's are, any number of calls, visits,          *)
(* reconnects and repairs, and any amount burned past the proxy.           *)
(***************************************************************************)
EXTENDS Reconcile, FiniteSetTheorems, TLAPS

USE TimesAssumption, BurnAssumption

\* A drift is noted only if there is one, and the sweep does not oversleep.
NotesDrift ==
    \A p \in Writers :
        write[p] # Nothing /\ write[p].kind = "note" => write[p].amount > 0
SleepsInTime == sweep = "sleep" => timer <= ConfirmDelay

ReconcileInv == TypeOK /\ NotesDrift /\ SleepsInTime

\* A transaction the code can decide on.
Sound(w) == /\ w \in Transactions \cup {Nothing}
            /\ w # Nothing /\ w.kind = "note" => w.amount > 0

LEMMA TrackedIsNat == ASSUME TypeOK PROVE Cardinality(debited) \in Nat /\ Tracked \in Nat
<1>1. IsFiniteSet(debited)
  BY FS_Subset DEF TypeOK
<1> QED
  BY <1>1, FS_CardinalityType DEF TypeOK, Tracked

LEMMA BaseIsNat == ASSUME TypeOK PROVE Base \in Nat
  BY DEF TypeOK, Base

\* Every decision of reconcile_giver is one of its five transactions, or none.
LEMMA OutcomeIsSound ==
  ASSUME TypeOK, NEW burn \in Nat, NEW immediate \in BOOLEAN
  PROVE  Sound(Outcome(burn, immediate))
<1>1. Drift(burn) \in Int /\ Anchor(burn) \in Nat
  BY TrackedIsNat, BaseIsNat DEF Drift, Anchor, Greatest
<1>2. pending \in (Nat \ {0}) \cup {Nothing}
  BY DEF TypeOK
<1>3. Sound(Nothing)
  BY DEF Sound
<1>4. \A kind \in {"capture", "reanchor", "clear", "book"}, n \in Nat :
        Sound(Transaction(kind, burn, n))
  BY DEF Sound, Transactions, Transaction
<1>5. Drift(burn) > 0 => Sound(Transaction("note", burn, Drift(burn)))
  BY <1>1 DEF Sound, Transactions, Transaction
<1>6. Drift(burn) > 0 /\ pending # Nothing => Least(pending, Drift(burn)) \in Nat
  BY <1>1, <1>2 DEF Least
<1> HIDE DEF Transaction
<1> QED
  BY <1>1, <1>3, <1>4, <1>5, <1>6 DEF Outcome

\* The transactions keep the types of a row.
LEMMA CommitIsTyped ==
  ASSUME ReconcileInv, NEW p \in Writers, Commit(p)
  PROVE  ReconcileInv'
<1> DEFINE w == write[p]
<1>1. w \in Transactions /\ Sound(w)
  BY DEF Commit, ReconcileInv, TypeOK, NotesDrift, Sound
<1>2. w.amount \in Nat /\ w.burn \in Nat
  BY <1>1 DEF Transactions
<1>3. /\ bypass' \in Nat /\ baseline' \in Nat \cup {Nothing}
      /\ pending' \in (Nat \ {0}) \cup {Nothing} /\ pendingAge' \in 0 .. (ConfirmMax + 1)
  <2> bypass \in Nat /\ baseline \in Nat \cup {Nothing}
      /\ pending \in (Nat \ {0}) \cup {Nothing} /\ pendingAge \in 0 .. (ConfirmMax + 1)
    BY DEF ReconcileInv, TypeOK
  <2>1. CASE w.kind = "capture" /\ Capture(w)
    BY <1>2, <2>1 DEF Capture
  <2>2. CASE w.kind = "reanchor" /\ Reanchor(w)
    BY <1>2, <2>2 DEF Reanchor
  <2>3. CASE Clear
    BY <2>3 DEF Clear
  <2>4. CASE w.kind = "note" /\ Note(w)
    <3> w.amount > 0
      BY <1>1, <2>4 DEF Sound, Commit
    <3> QED BY <1>2, <2>4 DEF Note
  <2>5. CASE Book(w)
    <3>1. Drift(w.burn) \in Int
      BY <1>2, TrackedIsNat, BaseIsNat DEF Drift, ReconcileInv
    <3> QED BY <1>2, <2>5, <3>1 DEF Book, Greatest, Least
  <2> QED
    BY <2>1, <2>2, <2>3, <2>4, <2>5 DEF Commit
<1>4. /\ write' \in [Writers -> Transactions \cup {Nothing}]
      /\ NotesDrift'
  BY DEF Commit, ReconcileInv, TypeOK, NotesDrift
<1> QED
  BY <1>3, <1>4 DEF Commit, ReconcileInv, TypeOK, SleepsInTime, upstreamVars, callVars, sweepVars

\* A sound decision is a sound transaction to run.
LEMMA WriteIsSound ==
  ASSUME ReconcileInv, NEW p \in Writers, NEW w, Sound(w),
         write' = [write EXCEPT ![p] = w]
  PROVE  write' \in [Writers -> Transactions \cup {Nothing}] /\ NotesDrift'
<1>1. write \in [Writers -> Transactions \cup {Nothing}] /\ NotesDrift
  BY DEF ReconcileInv, TypeOK
<1>2. write' \in [Writers -> Transactions \cup {Nothing}]
  BY <1>1 DEF Sound
<1>3. \A q \in Writers : write'[q] = IF q = p THEN w ELSE write[q]
  BY <1>1
<1> QED
  BY <1>1, <1>2, <1>3 DEF Sound, NotesDrift

\* What a process reads and decides, with any reading.
LEMMA ObserveIsSound ==
  ASSUME ReconcileInv, NEW p \in Processes, NEW burn \in Nat \cup {Nothing}, Observe(p, burn)
  PROVE  /\ seenAge' \in [Processes -> 0 .. Throttle]
         /\ write' \in [Writers -> Transactions \cup {Nothing}]
         /\ NotesDrift'
<1>1. CASE UNCHANGED <<seenAge, write>>
  BY <1>1 DEF ReconcileInv, TypeOK, NotesDrift
<1>2. CASE /\ burn # Nothing
           /\ seenAge' = [seenAge EXCEPT ![p] = 0]
           /\ write' = [write EXCEPT ![p] = Outcome(burn, FALSE)]
  <2>1. Sound(Outcome(burn, FALSE))
    BY <1>2, OutcomeIsSound DEF ReconcileInv
  <2>2. seenAge' \in [Processes -> 0 .. Throttle]
    BY <1>2 DEF ReconcileInv, TypeOK
  <2> QED
    BY <1>2, <2>1, <2>2, WriteIsSound DEF Writers
<1> QED
  BY <1>1, <1>2 DEF Observe

\* A cache holds a reading and its age.
LEMMA CachedIsTyped ==
  ASSUME TypeOK, NEW p \in Processes
  PROVE  Cached(p) \in Nat \cup {Nothing}
  BY DEF TypeOK, Cached

LEMMA KeepIsTyped ==
  ASSUME TypeOK, NEW p \in Processes, NEW reading \in Nat \cup {Nothing}, NEW age \in 0 .. Ttl,
         Keep(p, reading, age)
  PROVE  cache' \in [Processes -> Nat \cup {Nothing}] /\ cacheAge' \in [Processes -> 0 .. Ttl]
  BY DEF TypeOK, Keep

\* The booking that follows a baseline of 0.
LEMMA BookUntrackedIsTyped ==
  ASSUME ReconcileInv, NEW p \in Writers, BookUntracked(p)
  PROVE  ReconcileInv'
<1>1. write[p].burn \in Nat
  BY DEF BookUntracked, ReconcileInv, TypeOK, Transactions
<1>2. Sound(Outcome(write[p].burn, TRUE))
  BY <1>1, OutcomeIsSound DEF ReconcileInv
<1>3. write' \in [Writers -> Transactions \cup {Nothing}] /\ NotesDrift'
  BY <1>2, WriteIsSound DEF BookUntracked
<1> QED
  BY <1>3 DEF BookUntracked, ReconcileInv, TypeOK, SleepsInTime,
              upstreamVars, callVars, rowVars, sweepVars

\* Every step keeps the invariant.
LEMMA StepIsTyped ==
  ASSUME ReconcileInv, [Next]_vars
  PROVE  ReconcileInv'
<1> USE DEF upstreamVars, callVars, rowVars, processVars, sweepVars
<1> TypeOK
  BY DEF ReconcileInv
<1>1. CASE UNCHANGED vars
  BY <1>1 DEF vars, ReconcileInv, TypeOK, NotesDrift, SleepsInTime
<1>2. CASE BurnOutOfBand \/ Reset
  BY <1>2 DEF BurnOutOfBand, Reset, ReconcileInv, TypeOK, NotesDrift, SleepsInTime
<1>3. ASSUME NEW c \in Calls, StartCall(c) \/ Debit(c) PROVE ReconcileInv'
  <2>1. CASE StartCall(c)
    BY <2>1 DEF StartCall, ReconcileInv, TypeOK, NotesDrift, SleepsInTime
  <2>2. CASE Debit(c)
    BY <2>2 DEF Debit, Flying, ReconcileInv, TypeOK, NotesDrift, SleepsInTime
  <2> QED BY <1>3, <2>1, <2>2
<1>4. ASSUME NEW p \in Writers, Commit(p) PROVE ReconcileInv'
  BY <1>4, CommitIsTyped
<1>5. CASE Candidate
  <2>1. /\ seenAge' \in [Processes -> 0 .. Throttle]
        /\ write' \in [Writers -> Transactions \cup {Nothing}]
        /\ NotesDrift'
    BY <1>5, ObserveIsSound, CachedIsTyped DEF Candidate, Processes
  <2>2. cache' \in [Processes -> Nat \cup {Nothing}] /\ cacheAge' \in [Processes -> 0 .. Ttl]
    <3>1. (IF Hit("proxy") THEN cacheAge["proxy"] ELSE 0) \in 0 .. Ttl
      BY DEF TypeOK, Processes
    <3> QED BY <1>5, <3>1, KeepIsTyped, CachedIsTyped DEF Candidate, Processes
  <2> QED BY <1>5, <2>1, <2>2 DEF Candidate, ReconcileInv, TypeOK, SleepsInTime
<1>6. CASE Exhausted
  <2>1. Entitlement \in Nat /\ Sound(Outcome(Entitlement, TRUE)) /\ Sound(Nothing)
    BY OutcomeIsSound DEF Sound
  <2>2. write' \in [Writers -> Transactions \cup {Nothing}] /\ NotesDrift'
    <3> HIDE DEF Sound
    <3>1. CASE Cached("proxy") = Nothing
      BY <1>6, <2>1, <3>1, WriteIsSound DEF Exhausted, Processes, Writers
    <3>2. CASE Cached("proxy") # Nothing
      BY <1>6, <2>1, <3>2, WriteIsSound DEF Exhausted, Processes, Writers
    <3> QED BY <3>1, <3>2
  <2>3. cache' \in [Processes -> Nat \cup {Nothing}] /\ cacheAge' \in [Processes -> 0 .. Ttl]
    <3>1. Keep("proxy", Nothing, 0) /\ "proxy" \in Processes /\ 0 \in 0 .. Ttl
      BY <1>6 DEF Exhausted, Processes
    <3> QED BY <3>1, KeepIsTyped
  <2> QED BY <1>6, <2>2, <2>3 DEF Exhausted, ReconcileInv, TypeOK, SleepsInTime
<1>7. ASSUME NEW refresh \in BOOLEAN, Profile(refresh) PROVE ReconcileInv'
  <2> DEFINE hit == Hit("control") /\ ~ refresh
             burn == IF hit THEN cache["control"] ELSE github
  <2>1. burn \in Nat \cup {Nothing} /\ (IF hit THEN cacheAge["control"] ELSE 0) \in 0 .. Ttl
    BY DEF TypeOK, Processes
  <2>2. /\ Observe("control", burn)
        /\ Keep("control", burn, IF hit THEN cacheAge["control"] ELSE 0)
    BY <1>7 DEF Profile
  <2> HIDE DEF hit, burn
  <2>3. /\ seenAge' \in [Processes -> 0 .. Throttle]
        /\ write' \in [Writers -> Transactions \cup {Nothing}]
        /\ NotesDrift'
    BY <2>1, <2>2, ObserveIsSound DEF Processes
  <2>4. cache' \in [Processes -> Nat \cup {Nothing}] /\ cacheAge' \in [Processes -> 0 .. Ttl]
    BY <2>1, <2>2, KeepIsTyped DEF Processes
  <2> QED BY <1>7, <2>3, <2>4 DEF Profile, ReconcileInv, TypeOK, SleepsInTime
<1>8. CASE Connect
  <2>1. Sound(Transaction("connect", github, 0))
    BY DEF Sound, Transaction, Transactions, TypeOK
  <2>2. write' \in [Writers -> Transactions \cup {Nothing}] /\ NotesDrift'
    BY <1>8, <2>1, WriteIsSound DEF Connect, Processes, Writers
  <2> QED BY <1>8, <2>2 DEF Connect, ReconcileInv, TypeOK, SleepsInTime
<1>9. CASE BookPreConnect \/ BookRepaired
  BY <1>9, BookUntrackedIsTyped DEF BookPreConnect, BookRepaired, Writers, Processes
<1>13. ASSUME NEW burn \in 0 .. Entitlement, Repair(burn) PROVE ReconcileInv'
  <2>1. Sound(Transaction("repair", burn, 0))
    BY DEF Sound, Transaction, Transactions
  <2>2. write' \in [Writers -> Transactions \cup {Nothing}] /\ NotesDrift'
    BY <1>13, <2>1, WriteIsSound DEF Repair, Writers
  <2> QED BY <1>13, <2>2 DEF Repair, ReconcileInv, TypeOK, SleepsInTime
<1>14. CASE Rebase
  <2>1. write["tool"].burn \in Nat
    BY <1>14 DEF Rebase, TypeOK, Transactions, Writers
  <2>2. Sound(Transaction("connect", write["tool"].burn, 0))
    BY <2>1 DEF Sound, Transaction, Transactions
  <2>3. write' \in [Writers -> Transactions \cup {Nothing}] /\ NotesDrift'
    BY <1>14, <2>2, WriteIsSound DEF Rebase, Writers
  <2> QED BY <1>14, <2>3 DEF Rebase, ReconcileInv, TypeOK, SleepsInTime
<1>15. CASE RepairFails
  <2>1. write' \in [Writers -> Transactions \cup {Nothing}] /\ NotesDrift'
    <3>1. Sound(Nothing)
      BY DEF Sound
    <3> QED BY <1>15, <3>1, WriteIsSound DEF RepairFails, Writers
  <2> QED BY <1>15, <2>1 DEF RepairFails, ReconcileInv, TypeOK, SleepsInTime
<1>10. CASE SweepFirst \/ SweepSecond
  <2>1. Observe("control", github) /\ github \in Nat \cup {Nothing} /\ "control" \in Processes
    BY <1>10 DEF SweepFirst, SweepSecond, TypeOK, Processes
  <2>2. /\ seenAge' \in [Processes -> 0 .. Throttle]
        /\ write' \in [Writers -> Transactions \cup {Nothing}]
        /\ NotesDrift'
    BY <2>1, ObserveIsSound
  <2> QED BY <1>10, <2>2 DEF SweepFirst, SweepSecond, ReconcileInv, TypeOK, SleepsInTime
<1>11. CASE SweepPending
  BY <1>11 DEF SweepPending, ReconcileInv, TypeOK, NotesDrift, SleepsInTime
<1>12. CASE Tick
  <2>1. flightAge' \in [Calls -> 0 .. MaxFlight]
    BY <1>12 DEF Tick, TypeOK
  <2>2. /\ pendingAge' \in 0 .. (ConfirmMax + 1)
        /\ seenAge' \in [Processes -> 0 .. Throttle]
        /\ cacheAge' \in [Processes -> 0 .. Ttl]
    BY <1>12 DEF Tick, TypeOK, Least
  <2>3. timer' \in 0 .. Interval /\ SleepsInTime'
    BY <1>12 DEF Tick, SweepDue, ReconcileInv, TypeOK, SleepsInTime
  <2> QED BY <1>12, <2>1, <2>2, <2>3 DEF Tick, ReconcileInv, TypeOK, NotesDrift
<1> QED
  BY <1>1, <1>2, <1>3, <1>4, <1>5, <1>6, <1>7, <1>8, <1>9, <1>10, <1>11, <1>12, <1>13, <1>14, <1>15
  DEF Next, Sweep

LEMMA InitIsTyped == Init => ReconcileInv
  BY DEF Init, ReconcileInv, TypeOK, NotesDrift, SleepsInTime

LEMMA ReconcileInductive == Spec => []ReconcileInv
  BY InitIsTyped, StepIsTyped, PTL DEF Spec

\* Whatever the two processes and the repair read and when, the row and the transactions that
\* are about to run on it are well-typed: no baseline is negative, no drift is
\* noted that is not one.
THEOREM ReconcileTyping == Spec => []TypeOK
  BY ReconcileInductive, PTL DEF ReconcileInv

\* A booking counts again what it books: after it, the ledger is at most where
\* GitHub was when the booking process looked, although it decided before the
\* transaction and another process or a debit may have come in between.
LEMMA BookingFits ==
  ASSUME TypeOK, [Next]_vars, bypass' # bypass
  PROVE  \E p \in Writers : /\ write[p] # Nothing /\ write[p].kind = "book"
                            /\ Base' + Tracked' <= write[p].burn
<1> USE DEF upstreamVars, callVars, rowVars, processVars, sweepVars
<1>1. PICK p \in Writers : Commit(p)
  BY DEF Next, vars, BurnOutOfBand, Reset, StartCall, Debit, Candidate, Exhausted, Profile,
         Connect, BookPreConnect, BookUntracked, Repair, Rebase, BookRepaired, RepairFails, Sweep, SweepFirst, SweepPending, SweepSecond, Tick
<1> DEFINE w == write[p]
<1>2. w # Nothing /\ w.kind = "book" /\ Book(w) /\ debited' = debited
  BY <1>1 DEF Commit, Capture, Reanchor, Clear, Note
<1>3. w.burn \in Nat /\ w.amount \in Nat
  BY <1>2 DEF TypeOK, Transactions
<1>4. Drift(w.burn) = w.burn - Base - Tracked /\ Base \in Nat /\ Tracked \in Nat
  BY TrackedIsNat, BaseIsNat DEF Drift
<1>5. Base' = Base /\ Tracked' = Tracked + (bypass' - bypass)
  BY <1>2, TrackedIsNat DEF Book, Base, Tracked, TypeOK
<1>6. bypass' - bypass <= Drift(w.burn)
  BY <1>2, <1>3, <1>4 DEF Book, Greatest, Least, TypeOK
<1>7. Base' + Tracked' <= w.burn
  <2>1. bypass \in Nat /\ bypass' \in Int
    BY <1>2, <1>3, <1>4 DEF Book, Greatest, Least, TypeOK
  <2> HIDE DEF w
  <2> QED BY <1>3, <1>4, <1>5, <1>6, <2>1
<1> QED
  BY <1>2, <1>7

\* No booking takes the ledger beyond what GitHub had counted when it was
\* observed, for any number of calls, visits, reconnects and repairs.
THEOREM BookingOnce == Spec => BookedOnce
<1>1. ReconcileInv /\ [Next]_vars =>
        [bypass' # bypass =>
           \E p \in Writers : /\ write[p] # Nothing /\ write[p].kind = "book"
                              /\ Base' + Tracked' <= write[p].burn]_vars
  BY BookingFits DEF ReconcileInv
<1> QED
  BY <1>1, ReconcileInductive, PTL DEF Spec, BookedOnce
=============================================================================
