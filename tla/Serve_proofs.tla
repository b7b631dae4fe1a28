---------------------------- MODULE Serve_proofs ----------------------------
(***************************************************************************)
(* The proxy answers each call once, charges it at most once and on the    *)
(* source it burned, and does not retry it more often than there are       *)
(* givers, for any clients, sources and givers.  Every request that is     *)
(* taken up is whole, and a connection does to a call only what Serve      *)
(* allows.                                                                 *)
(***************************************************************************)
EXTENDS Connection, FiniteSetTheorems, WellFoundedInduction, TLAPS

USE SourcesAssumption DEF Refusals

Statuses == {"none", "blocked", "200", "error"} \cup Refusals

Calls ==
    [stage : {"idle", "gate", "sent", "heal", "relay", "closed"},
     kind : {"none", "billable", "session", "free", "unknown"},
     checked : SUBSET Givers, dead : SUBSET Givers,
     source : Sources \cup {Nothing}, attempts : Nat, exclude : SUBSET Sources,
     header : Givers \cup {Nothing}, status : Statuses,
     head : BOOLEAN, seen : BOOLEAN, answers : Nat,
     burned : Seq(Sources), paid : Seq(Sources), lost : BOOLEAN]

\* Nothing was sent to the client and nothing charged.
Fresh(r) == /\ r.answers = 0 /\ ~ r.head /\ ~ r.seen /\ r.status = "none"
            /\ r.burned = << >> /\ r.paid = << >> /\ ~ r.lost

\* A call that is under way has not been retried too often, and not through a
\* source it was refused with.
Bounded(r) ==
    /\ r.exclude \subseteq Sources \ {r.source}
    /\ r.kind = "billable" => r.attempts <= Cardinality(r.checked) + 1

\* Before the answer.
Pending(r) ==
    /\ r.stage \in {"gate", "sent", "heal"} => Fresh(r) /\ r.kind # "none"
    /\ r.stage = "gate" => r.exclude = {} /\ r.attempts = 0
    /\ r.stage \in {"sent", "heal"} /\ r.kind = "billable" => r.source \in Sources
    /\ r.stage = "heal" => r.kind = "billable"

\* During the answer: one status line once the head is out, nothing paid yet, and
\* what was burned, was burned with the current source.
Relaying(r) ==
    r.stage = "relay" =>
      /\ r.kind # "none"
      /\ r.answers = IF r.head THEN 1 ELSE 0
      /\ r.paid = << >> /\ ~ r.lost
      /\ r.kind = "billable" => r.source \in Sources
      /\ r.burned = IF r.kind = "billable" /\ r.status = "200"
                    THEN Append(<< >>, r.source) ELSE << >>

\* After it.
Over(r) ==
    r.stage \in {"idle", "closed"} =>
      /\ r.answers <= 1
      /\ r.stage = "idle" /\ r.kind # "none" => r.answers = 1
      /\ Len(r.burned) <= 1
      /\ IF r.lost THEN r.paid = << >> ELSE r.paid = r.burned

CallInv(r) == r \in Calls /\ Bounded(r) /\ Pending(r) /\ Relaying(r) /\ Over(r)

EnvInv ==
    /\ room \subseteq Sources /\ stored \subseteq Givers /\ dry \subseteq Givers /\ refused \subseteq Givers
    /\ token \in [Clients -> Givers \cup {Nothing}]
    /\ pin \in [Clients -> Sources \cup {Nothing}]

ServeInv ==
    /\ EnvInv
    /\ call \in [Clients -> Calls]
    /\ \A c \in Clients : CallInv(call[c])

-----------------------------------------------------------------------------
(* Selection *)

LEMMA LeastExists ==
  ASSUME NEW T, T \subseteq Nat, T # {}
  PROVE  \E s \in T : \A t \in T : s <= t
<1>1. PICK s \in T : \A t \in T : ~ (<<t, s>> \in OpToRel(<, Nat))
  BY NatLessThanWellFounded, WFMin
<1>2. \A t \in T : <<t, s>> \in Nat \X Nat
  BY <1>1
<1>3. \A t \in T : ~ (t < s)
  BY <1>1, <1>2 DEF OpToRel
<1>4. \A t \in T : s <= t
  BY <1>3
<1> QED
  BY <1>1, <1>4

\* A source that is selected is none of the excluded ones.
LEMMA SelectedIsEligible ==
  ASSUME EnvInv, NEW c \in Clients, NEW exclude \in SUBSET Sources
  PROVE  SelectSource(c, exclude) \in (Sources \ exclude) \cup {Nothing}
<1> DEFINE E == Eligible(c, exclude)
<1>1. E \subseteq Sources \ exclude
  BY DEF Eligible, EnvInv
<1>2. E # {} => \E s \in E : \A t \in E : s <= t
  <2> HIDE DEF E
  <2> QED BY <1>1, LeastExists
<1> HIDE DEF E
<1>3. E # {} => (CHOOSE s \in E : \A t \in E : s <= t) \in E
  BY <1>2
<1> QED
  BY <1>1, <1>3 DEF SelectSource, E

LEMMA ChosenIsSource ==
  ASSUME EnvInv, NEW c \in Clients
  PROVE  Chosen(c) \in Sources \cup {Nothing}
<1>1. PinnedSource(c) \in Sources \cup {Nothing}
  BY DEF PinnedSource, EnvInv
<1>2. SelectSource(c, {}) \in Sources \cup {Nothing}
  BY SelectedIsEligible
<1> QED
  BY <1>1, <1>2 DEF Chosen

-----------------------------------------------------------------------------
(* What the steps do to a call *)

LEMMA CheckedAreFinite ==
  ASSUME NEW r \in Calls PROVE Cardinality(r.checked) \in Nat
BY FS_Subset, FS_CardinalityType DEF Calls

LEMMA AppendToNone ==
  ASSUME NEW s \in Sources
  PROVE  Append(<< >>, s) \in Seq(Sources) /\ Len(Append(<< >>, s)) = 1
OBVIOUS

LEMMA NoneIsSeq == << >> \in Seq(Sources) /\ Len(<< >>) = 0
OBVIOUS

LEMMA ShortBurn ==
  ASSUME NEW b, NEW s,
         b = << >> \/ Len(b) <= 1 \/ (s \in Sources /\ b = Append(<< >>, s))
  PROVE  Len(b) <= 1
<1>1. b = << >> => Len(b) <= 1
  BY NoneIsSeq
<1>2. ASSUME s \in Sources, b = Append(<< >>, s)
      PROVE  Len(b) <= 1
  <2>1. Len(b) = 1
    BY <1>2, AppendToNone, Zenon
  <2> QED
    BY <2>1
<1> QED
  BY <1>1, <1>2

LEMMA IdleIsOver == CallInv(Idle)
<1>1. Idle \in Calls
  BY NoneIsSeq DEF Idle, Calls, Statuses
<1>2. Cardinality(Idle.checked) = 0
  BY FS_EmptySet DEF Idle
<1> QED
  BY <1>1, <1>2 DEF CallInv, Bounded, Pending, Relaying, Over, Fresh, Idle

LEMMA AskedIsPending ==
  ASSUME NEW kind \in {"billable", "session"}, NEW header \in Givers \cup {Nothing},
         NEW checked \in SUBSET Givers, NEW dead \in SUBSET Givers
  PROVE  CallInv([Idle EXCEPT !.stage = "gate", !.kind = kind, !.header = header,
                              !.checked = checked, !.dead = dead])
<1> DEFINE r == [Idle EXCEPT !.stage = "gate", !.kind = kind, !.header = header,
                             !.checked = checked, !.dead = dead]
<1>1. r \in Calls
  BY NoneIsSeq DEF Idle, Calls, Statuses
<1>2. Cardinality(r.checked) \in Nat
  BY <1>1, CheckedAreFinite
<1> QED
  BY <1>1, <1>2 DEF CallInv, Bounded, Pending, Relaying, Over, Fresh, Idle

LEMMA RejectedIsOver ==
  CallInv([Idle EXCEPT !.kind = "unknown", !.status = "blocked", !.answers = 1])
<1> DEFINE r == [Idle EXCEPT !.kind = "unknown", !.status = "blocked", !.answers = 1]
<1>1. r \in Calls
  BY NoneIsSeq DEF Idle, Calls, Statuses
<1> QED
  BY <1>1, NoneIsSeq DEF CallInv, Bounded, Pending, Relaying, Over, Fresh, Idle

LEMMA ForwardedIsPending ==
  CallInv([Idle EXCEPT !.stage = "sent", !.kind = "free", !.attempts = 1])
<1> DEFINE r == [Idle EXCEPT !.stage = "sent", !.kind = "free", !.attempts = 1]
<1>1. r \in Calls
  BY NoneIsSeq DEF Idle, Calls, Statuses
<1> QED
  BY <1>1 DEF CallInv, Bounded, Pending, Relaying, Over, Fresh, Idle

LEMMA BlockedIsOver ==
  ASSUME NEW r, CallInv(r), r.stage = "gate"
  PROVE  CallInv([r EXCEPT !.stage = "idle", !.status = "blocked", !.answers = @ + 1])
<1> DEFINE sent == r.answers + 1
           n == [r EXCEPT !.stage = "idle", !.status = "blocked", !.answers = sent]
<1>1. r \in Calls /\ sent \in Nat
  BY DEF CallInv, Calls
<1>2. n \in Calls
  <2> HIDE DEF sent
  <2> QED BY <1>1 DEF Calls, Statuses
<1>3. Bounded(n)
  BY DEF CallInv, Calls, Bounded
<1>4. Pending(n) /\ Relaying(n)
  BY DEF CallInv, Calls, Pending, Relaying
<1>5. Over(n)
  BY NoneIsSeq DEF CallInv, Calls, Pending, Over, Fresh
<1> QED
  BY <1>2, <1>3, <1>4, <1>5 DEF CallInv

LEMMA RoutedIsPending ==
  ASSUME NEW r, CallInv(r), r.stage = "gate",
         NEW s \in Sources \cup {Nothing}, r.kind = "billable" => s # Nothing
  PROVE  CallInv([r EXCEPT !.stage = "sent", !.source = s, !.attempts = 1])
<1> DEFINE n == [r EXCEPT !.stage = "sent", !.source = s, !.attempts = 1]
<1>1. r \in Calls /\ Cardinality(r.checked) \in Nat
  BY CheckedAreFinite DEF CallInv
<1>2. n \in Calls
  BY <1>1 DEF Calls
<1>3. n.exclude = {} /\ n.source = s /\ n.attempts = 1 /\ n.checked = r.checked
  BY <1>1 DEF CallInv, Calls, Pending
<1>4. Bounded(n)
  BY <1>1, <1>3 DEF Bounded
<1>5. Pending(n)
  BY <1>1 DEF CallInv, Calls, Pending, Fresh
<1>6. Relaying(n) /\ Over(n)
  BY <1>1 DEF Calls, Relaying, Over
<1> QED
  BY <1>2, <1>4, <1>5, <1>6 DEF CallInv

\* The answer is passed on without being a 200.
LEMMA PassedOnIsRelayed ==
  ASSUME NEW r, CallInv(r), r.stage \in {"sent", "heal"}, r.kind = "billable",
         NEW status \in Statuses, status # "200"
  PROVE  CallInv([r EXCEPT !.stage = "relay", !.status = status, !.head = TRUE,
                           !.answers = @ + 1])
<1> DEFINE sent == r.answers + 1
           n == [r EXCEPT !.stage = "relay", !.status = status, !.head = TRUE, !.answers = sent]
<1>1. r \in Calls /\ sent \in Nat
  BY DEF CallInv, Calls
<1>2. n \in Calls
  <2> HIDE DEF sent
  <2> QED BY <1>1 DEF Calls
<1>3. Bounded(n)
  BY DEF CallInv, Calls, Bounded
<1>4. Pending(n) /\ Over(n)
  BY DEF CallInv, Calls, Pending, Over
<1>5. Relaying(n)
  BY DEF CallInv, Calls, Pending, Relaying, Fresh
<1> QED
  BY <1>2, <1>3, <1>4, <1>5 DEF CallInv

\* A retry stays within the attempts, and leaves the sources it was refused with.
LEMMA RetriedIsPending ==
  ASSUME NEW r, CallInv(r), r.stage = "sent", r.kind = "billable",
         r.attempts < Cardinality(r.checked) + 1,
         NEW next \in Sources \ (r.exclude \cup {r.source})
  PROVE  CallInv([r EXCEPT !.source = next, !.attempts = @ + 1,
                           !.exclude = @ \cup {r.source}])
<1> DEFINE attempts == r.attempts + 1
           exclude == r.exclude \cup {r.source}
           n == [r EXCEPT !.source = next, !.attempts = attempts,
                          !.exclude = exclude]
<1>1. r \in Calls /\ Cardinality(r.checked) \in Nat
  BY CheckedAreFinite DEF CallInv
<1>2. attempts \in Nat /\ exclude \in SUBSET Sources
  BY <1>1 DEF CallInv, Calls, Pending
<1>3. n \in Calls
  <2> HIDE DEF attempts, exclude
  <2> QED BY <1>1, <1>2 DEF Calls
<1>4. n.exclude = exclude /\ n.source = next /\ n.attempts = attempts /\ n.checked = r.checked
  BY <1>1 DEF Calls
<1>5. attempts <= Cardinality(r.checked) + 1
  BY <1>1 DEF Calls
<1>6. Bounded(n)
  <2> HIDE DEF n
  <2> QED BY <1>2, <1>4, <1>5 DEF Bounded
<1>7. Pending(n)
  BY <1>1 DEF CallInv, Calls, Pending, Fresh
<1>8. Relaying(n) /\ Over(n)
  BY <1>1 DEF Calls, Relaying, Over
<1> QED
  BY <1>3, <1>6, <1>7, <1>8 DEF CallInv

LEMMA HealingIsPending ==
  ASSUME NEW r, CallInv(r), r.stage = "sent", r.kind = "billable"
  PROVE  CallInv([r EXCEPT !.stage = "heal"])
BY DEF CallInv, Calls, Bounded, Pending, Relaying, Over, Fresh

LEMMA HealedIsPending ==
  ASSUME NEW r, CallInv(r), r.stage = "heal", NEW g \in Givers
  PROVE  CallInv([r EXCEPT !.stage = "sent", !.header = g])
BY DEF CallInv, Calls, Bounded, Pending, Relaying, Over, Fresh

LEMMA RespondedIsRelayed ==
  ASSUME NEW r, CallInv(r), r.stage = "sent", NEW status \in Statuses
  PROVE  CallInv([r EXCEPT !.stage = "relay", !.status = status,
                           !.burned = IF status = "200" /\ r.kind = "billable"
                                      THEN Append(@, r.source) ELSE @])
<1> DEFINE burned == IF status = "200" /\ r.kind = "billable"
                     THEN Append(r.burned, r.source) ELSE r.burned
           n == [r EXCEPT !.stage = "relay", !.status = status, !.burned = burned]
<1>1. r \in Calls
  BY DEF CallInv
<1>2. r.burned = << >>
  BY DEF CallInv, Pending, Fresh
<1>3. burned \in Seq(Sources)
  BY <1>2, AppendToNone, NoneIsSeq DEF CallInv, Pending
<1>4. n \in Calls
  <2> HIDE DEF burned
  <2> QED BY <1>1, <1>3 DEF Calls
<1>5. n.burned = burned /\ n.source = r.source /\ n.kind = r.kind /\ n.status = status
  <2> HIDE DEF burned
  <2> QED BY <1>1 DEF Calls
<1>6. Bounded(n)
  <2> HIDE DEF burned
  <2> QED BY <1>1 DEF CallInv, Calls, Bounded
<1>7. Pending(n) /\ Over(n)
  <2> HIDE DEF burned
  <2> QED BY <1>1 DEF Calls, Pending, Over
<1>8. n.burned = IF n.kind = "billable" /\ n.status = "200"
                 THEN Append(<< >>, n.source) ELSE << >>
  <2> HIDE DEF n
  <2> QED BY <1>2, <1>5
<1>9. Relaying(n)
  <2> HIDE DEF burned
  <2> QED BY <1>1, <1>8 DEF CallInv, Calls, Relaying, Pending, Fresh
<1> QED
  BY <1>4, <1>6, <1>7, <1>9 DEF CallInv

LEMMA HeadIsRelayed ==
  ASSUME NEW r, CallInv(r), r.stage = "relay", ~ r.head, NEW seen \in BOOLEAN
  PROVE  CallInv([r EXCEPT !.head = TRUE, !.seen = seen, !.answers = @ + 1])
<1> DEFINE sent == r.answers + 1
           n == [r EXCEPT !.head = TRUE, !.seen = seen, !.answers = sent]
<1>1. r \in Calls /\ sent \in Nat
  BY DEF CallInv, Calls
<1>2. n \in Calls
  <2> HIDE DEF sent
  <2> QED BY <1>1 DEF Calls
<1>3. Bounded(n)
  BY DEF CallInv, Calls, Bounded
<1>4. Pending(n) /\ Over(n)
  BY DEF CallInv, Calls, Pending, Over
<1>5. Relaying(n)
  BY DEF CallInv, Calls, Relaying
<1> QED
  BY <1>2, <1>3, <1>4, <1>5 DEF CallInv

LEMMA ChargeIsRelayed ==
  ASSUME NEW r, CallInv(r), r.stage = "relay"
  PROVE  CallInv([r EXCEPT !.seen = TRUE])
BY DEF CallInv, Calls, Bounded, Pending, Relaying, Over

\* A call at which a debit is made is settled: what it burned is paid, or lost.
Settled(d) == /\ Len(d.burned) <= 1
              /\ IF d.lost THEN d.paid = << >> ELSE d.paid = d.burned

LEMMA DebitedIsSettled ==
  ASSUME NEW r, CallInv(r), r.stage \in {"sent", "relay"}, NEW booked \in BOOLEAN,
         NEW d, d = Debited(r, booked)
  PROVE  /\ d \in Calls /\ Settled(d) /\ Bounded(d)
         /\ d.answers = IF r.head THEN 1 ELSE 0
         /\ d.head = r.head /\ d.kind = r.kind
<1>1. r \in Calls /\ r.paid = << >> /\ ~ r.lost
  BY DEF CallInv, Pending, Relaying, Fresh
<1>2. r.answers = IF r.head THEN 1 ELSE 0
  BY DEF CallInv, Pending, Relaying, Fresh
<1>3. r.burned = << >> \/ (r.source \in Sources /\ r.burned = Append(<< >>, r.source))
  BY DEF CallInv, Pending, Relaying, Fresh
<1>4. Len(r.burned) <= 1
  BY <1>3, ShortBurn
<1>5. CASE r.kind # "billable" \/ r.status # "200"
  <2>1. d = r
    BY <1>5 DEF Debited
  <2>2. r.burned = << >>
    BY <1>5 DEF CallInv, Pending, Relaying, Fresh
  <2> QED
    BY <1>1, <1>2, <1>4, <2>1, <2>2 DEF Settled, CallInv
<1>6. CASE ~ (r.kind # "billable" \/ r.status # "200") /\ r.seen /\ booked
  <2> DEFINE paid == Append(r.paid, r.source)
  <2>1. d = [r EXCEPT !.paid = paid]
    BY <1>6 DEF Debited
  <2>2. r.burned = Append(<< >>, r.source) /\ r.source \in Sources
    BY <1>6 DEF CallInv, Pending, Relaying, Fresh
  <2>3. paid = r.burned /\ paid \in Seq(Sources)
    BY <1>1, <2>2, AppendToNone
  <2> HIDE DEF paid
  <2>4. d \in Calls
    BY <1>1, <2>1, <2>3 DEF Calls
  <2>5. /\ d.paid = paid /\ d.burned = r.burned /\ d.lost = r.lost /\ d.answers = r.answers
        /\ d.head = r.head /\ d.kind = r.kind
    BY <1>1, <2>1 DEF Calls
  <2>6. Bounded(d)
    BY <1>1, <2>1 DEF CallInv, Calls, Bounded
  <2> QED
    BY <1>1, <1>2, <1>4, <2>3, <2>4, <2>5, <2>6 DEF Settled
<1>7. CASE ~ (r.kind # "billable" \/ r.status # "200") /\ ~ (r.seen /\ booked)
  <2>1. d = [r EXCEPT !.lost = TRUE]
    BY <1>7 DEF Debited
  <2>2. d \in Calls
    BY <1>1, <2>1 DEF Calls
  <2>3. /\ d.paid = r.paid /\ d.burned = r.burned /\ d.lost /\ d.answers = r.answers
        /\ d.head = r.head /\ d.kind = r.kind
    BY <1>1, <2>1 DEF Calls
  <2>4. Bounded(d)
    BY <1>1, <2>1 DEF CallInv, Calls, Bounded
  <2> QED
    BY <1>1, <1>2, <1>4, <2>2, <2>3, <2>4 DEF Settled
<1> QED
  BY <1>5, <1>6, <1>7

LEMMA FinishedIsOver ==
  ASSUME NEW r, CallInv(r), r.stage = "relay", r.head, NEW booked \in BOOLEAN
  PROVE  CallInv([Debited(r, booked) EXCEPT !.stage = "idle"])
<1> DEFINE d == Debited(r, booked)
           n == [d EXCEPT !.stage = "idle"]
<1>1. d \in Calls /\ Settled(d) /\ Bounded(d) /\ d.answers = 1
  BY DebitedIsSettled
<1> HIDE DEF d
<1>2. n \in Calls
  BY <1>1 DEF Calls
<1>3. Bounded(n) /\ Pending(n) /\ Relaying(n)
  BY <1>1 DEF Calls, Bounded, Pending, Relaying
<1>4. Over(n)
  BY <1>1 DEF Calls, Over, Settled
<1>5. CallInv(n)
  BY <1>2, <1>3, <1>4 DEF CallInv
<1> QED
  BY <1>5 DEF d

LEMMA BrokenIsOver ==
  ASSUME NEW r, CallInv(r), r.stage \in {"sent", "relay"}, NEW booked \in BOOLEAN
  PROVE  CallInv(FailClient(Debited(r, booked)))
<1> DEFINE d == Debited(r, booked)
           answers == IF d.head THEN d.answers ELSE d.answers + 1
           n == [d EXCEPT !.stage = "closed", !.answers = answers]
<1>1. /\ d \in Calls /\ Settled(d) /\ Bounded(d)
      /\ d.answers = IF d.head THEN 1 ELSE 0
  BY DebitedIsSettled
<1>2. FailClient(d) = n
  BY DEF FailClient
<1> HIDE DEF d
<1>3. answers = 1
  BY <1>1
<1> HIDE DEF answers
<1>4. n \in Calls
  BY <1>1, <1>3 DEF Calls
<1>5. Bounded(n) /\ Pending(n) /\ Relaying(n)
  BY <1>1 DEF Calls, Bounded, Pending, Relaying
<1>6. Over(n)
  BY <1>1, <1>3 DEF Calls, Over, Settled
<1>7. CallInv(n)
  BY <1>4, <1>5, <1>6 DEF CallInv
<1> QED
  BY <1>2, <1>7 DEF d

\* When the proxy stops, a call has paid what it burned, or never will.
LEMMA CrashedIsOver ==
  ASSUME NEW r, CallInv(r)
  PROVE  CallInv([r EXCEPT !.stage = "closed", !.lost = @ \/ r.burned # r.paid])
<1> DEFINE lost == r.lost \/ r.burned # r.paid
           n == [r EXCEPT !.stage = "closed", !.lost = lost]
<1>1. r \in Calls /\ lost \in BOOLEAN
  BY DEF CallInv, Calls
<1>2. r.answers <= 1
  BY DEF CallInv, Calls, Pending, Relaying, Over, Fresh
<1>3. r.burned = << >> \/ (r.source \in Sources /\ r.burned = Append(<< >>, r.source))
      \/ Len(r.burned) <= 1
  BY DEF CallInv, Calls, Pending, Relaying, Over, Fresh
<1>4. Len(r.burned) <= 1
  BY <1>3, ShortBurn
<1>5. IF lost THEN r.paid = << >> ELSE r.paid = r.burned
  BY DEF CallInv, Calls, Pending, Relaying, Over, Fresh
<1> HIDE DEF lost
<1>6. n \in Calls
  BY <1>1 DEF Calls
<1>7. Bounded(n) /\ Pending(n) /\ Relaying(n)
  BY <1>1 DEF CallInv, Calls, Bounded, Pending, Relaying
<1>8. Over(n)
  BY <1>1, <1>2, <1>4, <1>5 DEF Calls, Over
<1>9. CallInv(n)
  BY <1>6, <1>7, <1>8 DEF CallInv
<1> QED
  BY <1>9 DEF lost

-----------------------------------------------------------------------------
(* The steps *)

LEMMA EnvKept ==
  ASSUME EnvInv, UNCHANGED <<giverVars, token, pin>>
  PROVE  EnvInv'
BY DEF EnvInv, giverVars, upstreamVars

LEMMA SetKeeps ==
  ASSUME ServeInv, NEW c \in Clients, NEW r, CallInv(r), Set(c, r), EnvInv'
  PROVE  ServeInv'
<1>1. r \in Calls
  BY DEF CallInv
<1>2. call' \in [Clients -> Calls]
  BY <1>1 DEF ServeInv, Set
<1>3. ASSUME NEW d \in Clients PROVE CallInv(call'[d])
  <2>1. call'[d] = IF d = c THEN r ELSE call[d]
    BY DEF ServeInv, Set
  <2> QED
    BY <2>1 DEF ServeInv
<1> QED
  BY <1>2, <1>3 DEF ServeInv

LEMMA CallsKept ==
  ASSUME ServeInv, UNCHANGED call, EnvInv'
  PROVE  ServeInv'
BY DEF ServeInv

LEMMA AskKeeps ==
  ASSUME ServeInv, NEW c \in Clients, NEW kind \in {"billable", "session"}, Ask(c, kind)
  PROVE  ServeInv'
<1>1. PICK found \in SUBSET (dry \cap Candidates) :
        Set(c, [Idle EXCEPT !.stage = "gate", !.kind = kind, !.header = token[c],
                            !.checked = Candidates, !.dead = found])
  BY DEF Ask
<1>2. Candidates \subseteq Givers
  BY DEF Candidates, ServeInv, EnvInv
<1>3. token[c] \in Givers \cup {Nothing}
  BY DEF ServeInv, EnvInv
<1>4. CallInv([Idle EXCEPT !.stage = "gate", !.kind = kind, !.header = token[c],
                           !.checked = Candidates, !.dead = found])
  <2>1. found \subseteq Givers
    BY <1>2
  <2> HIDE DEF Candidates
  <2> QED BY <1>2, <1>3, <2>1, AskedIsPending
<1>5. EnvInv'
  BY EnvKept DEF Ask, ServeInv
<1> QED
  BY <1>1, <1>4, <1>5, SetKeeps

LEMMA RejectKeeps ==
  ASSUME ServeInv, NEW c \in Clients, Reject(c)
  PROVE  ServeInv'
<1>1. EnvInv'
  BY EnvKept DEF Reject, ServeInv
<1> QED
  BY <1>1, RejectedIsOver, SetKeeps DEF Reject

LEMMA ForwardKeeps ==
  ASSUME ServeInv, NEW c \in Clients, Forward(c)
  PROVE  ServeInv'
<1>1. EnvInv'
  BY EnvKept DEF Forward, ServeInv
<1> QED
  BY <1>1, ForwardedIsPending, SetKeeps DEF Forward

LEMMA BlockKeeps ==
  ASSUME ServeInv, NEW c \in Clients, Block(c)
  PROVE  ServeInv'
<1>1. CallInv([call[c] EXCEPT !.stage = "idle", !.status = "blocked", !.answers = @ + 1])
  BY BlockedIsOver DEF Block, At, ServeInv
<1>2. EnvInv'
  BY EnvKept DEF Block, ServeInv
<1> QED
  BY <1>1, <1>2, SetKeeps DEF Block

LEMMA RouteKeeps ==
  ASSUME ServeInv, NEW c \in Clients, Route(c)
  PROVE  ServeInv'
<1>1. Chosen(c) \in Sources \cup {Nothing}
  BY ChosenIsSource DEF ServeInv
<1>2. CallInv([call[c] EXCEPT !.stage = "sent", !.source = Chosen(c), !.attempts = 1])
  <2> HIDE DEF Chosen
  <2>1. CallInv(call[c]) /\ call[c].stage = "gate" /\ (call[c].kind = "billable" => Chosen(c) # Nothing)
    BY DEF Route, At, Billable, ServeInv
  <2> QED BY <1>1, <2>1, RoutedIsPending
<1>3. EnvInv'
  BY EnvKept DEF Route, ServeInv
<1> QED
  BY <1>2, <1>3, SetKeeps DEF Route

\* The next source for a call that was refused.
LEMMA NextSource ==
  ASSUME ServeInv, NEW c \in Clients, At(c, "sent"), MayRetry(c)
  PROVE  LET next == SelectSource(c, call[c].exclude \cup {call[c].source})
         IN  /\ next = Nothing \/ next \in Sources \ (call[c].exclude \cup {call[c].source})
             /\ next # Nothing => CallInv(Retry(c, next)) /\ Retry(c, next).stage = "sent"
                                  /\ Retry(c, next).kind = "billable"
<1> DEFINE r == call[c]
           exclude == r.exclude \cup {r.source}
           next == SelectSource(c, exclude)
<1>1. CallInv(r) /\ r.stage = "sent" /\ r.kind = "billable"
      /\ r.attempts < Cardinality(r.checked) + 1
  BY DEF ServeInv, At, MayRetry, MaxAttempts, Billable
<1>2. exclude \in SUBSET Sources
  BY <1>1 DEF CallInv, Calls, Pending
<1>3. next \in (Sources \ exclude) \cup {Nothing}
  BY <1>2, SelectedIsEligible DEF ServeInv
<1> HIDE DEF next
<1>4. ASSUME next # Nothing
      PROVE  CallInv(Retry(c, next)) /\ Retry(c, next).stage = "sent"
             /\ Retry(c, next).kind = "billable"
  <2>1. CallInv(Retry(c, next))
    BY <1>1, <1>3, <1>4, RetriedIsPending DEF Retry
  <2>2. r \in Calls
    BY <1>1 DEF CallInv
  <2> QED
    BY <1>1, <2>1, <2>2 DEF Retry, Calls
<1> QED
  BY <1>3, <1>4 DEF next

LEMMA PassOnIsRelayed ==
  ASSUME ServeInv, NEW c \in Clients, At(c, "sent") \/ At(c, "heal"), Billable(c),
         NEW status \in {"401", "402"}
  PROVE  CallInv(PassOn(c, status))
<1>1. CallInv(call[c]) /\ call[c].stage \in {"sent", "heal"} /\ call[c].kind = "billable"
  BY DEF ServeInv, At, Billable
<1>2. status \in Statuses /\ status # "200"
  BY DEF Statuses
<1> QED
  BY <1>1, <1>2, PassedOnIsRelayed DEF PassOn

LEMMA FailOverKeeps ==
  ASSUME ServeInv, NEW c \in Clients, NEW status, FailOver(c, status)
  PROVE  ServeInv'
<1> DEFINE next == SelectSource(c, call[c].exclude \cup {call[c].source})
<1>1. status \in {"401", "402"} /\ At(c, "sent") /\ MayRetry(c) /\ Billable(c)
  BY DEF FailOver, MayRetry
<1>2. CallInv(PassOn(c, status))
  BY <1>1, PassOnIsRelayed
<1>3. next # Nothing => CallInv(Retry(c, next))
  BY <1>1, NextSource
<1>4. Set(c, IF next = Nothing THEN PassOn(c, status) ELSE Retry(c, next))
  BY DEF FailOver
<1>5. EnvInv'
  BY EnvKept DEF FailOver, ServeInv
<1> HIDE DEF next
<1>6. CallInv(IF next = Nothing THEN PassOn(c, status) ELSE Retry(c, next))
  BY <1>2, <1>3
<1> QED
  BY <1>4, <1>5, <1>6, SetKeeps

LEMMA BootstrapKeeps ==
  ASSUME ServeInv, NEW c \in Clients, Bootstrap(c)
  PROVE  ServeInv'
<1> DEFINE next == SelectSource(c, call[c].exclude \cup {call[c].source})
<1>1. At(c, "sent") /\ MayRetry(c) /\ Billable(c)
  BY DEF Bootstrap, MayRetry
<1>2. CallInv(PassOn(c, "401"))
  BY <1>1, PassOnIsRelayed
<1>3. next # Nothing => CallInv([Retry(c, next) EXCEPT !.stage = "heal"])
  BY <1>1, NextSource, HealingIsPending
<1>4. Set(c, IF next = Nothing THEN PassOn(c, "401")
             ELSE [Retry(c, next) EXCEPT !.stage = "heal"])
  BY DEF Bootstrap
<1>5. EnvInv'
  BY EnvKept DEF Bootstrap, ServeInv
<1> HIDE DEF next
<1>6. CallInv(IF next = Nothing THEN PassOn(c, "401")
              ELSE [Retry(c, next) EXCEPT !.stage = "heal"])
  BY <1>2, <1>3
<1> QED
  BY <1>4, <1>5, <1>6, SetKeeps

LEMMA HealedKeeps ==
  ASSUME ServeInv, NEW c \in Clients, Healed(c)
  PROVE  ServeInv'
<1>1. CallInv(call[c]) /\ call[c].stage = "heal" /\ call[c].source \in Sources
  BY DEF ServeInv, Healed, At, CallInv, Pending
<1>2. Giver(c) \in Givers
  BY <1>1 DEF Giver
<1>3. CallInv([call[c] EXCEPT !.stage = "sent", !.header = Giver(c)])
  <2> HIDE DEF Giver
  <2> QED BY <1>1, <1>2, HealedIsPending
<1>4. EnvInv'
  BY <1>1 DEF Healed, ServeInv, EnvInv, giverVars, upstreamVars
<1> QED
  BY <1>3, <1>4, SetKeeps DEF Healed

LEMMA HealFailsKeeps ==
  ASSUME ServeInv, NEW c \in Clients, HealFails(c)
  PROVE  ServeInv'
<1>1. At(c, "heal") /\ Billable(c)
  BY DEF HealFails, ServeInv, CallInv, Pending, At, Billable
<1>2. CallInv(PassOn(c, "401"))
  BY <1>1, PassOnIsRelayed
<1>3. EnvInv'
  BY EnvKept DEF HealFails, ServeInv
<1> QED
  BY <1>2, <1>3, SetKeeps DEF HealFails

LEMMA RespondKeeps ==
  ASSUME ServeInv, NEW c \in Clients,
         NEW status \in Refusals \cup {"200", "error"}, Respond(c, status)
  PROVE  ServeInv'
<1>1. CallInv(call[c]) /\ call[c].stage = "sent" /\ status \in Statuses
  BY DEF ServeInv, Respond, At, Statuses
<1>2. CallInv([call[c] EXCEPT !.stage = "relay", !.status = status,
                              !.burned = IF status = "200" /\ Billable(c)
                                         THEN Append(@, call[c].source) ELSE @])
  BY <1>1, RespondedIsRelayed DEF Billable
<1>3. EnvInv'
  BY EnvKept DEF Respond, ServeInv
<1> QED
  BY <1>2, <1>3, SetKeeps DEF Respond

LEMMA RelayKeeps ==
  ASSUME ServeInv, NEW c \in Clients, SendHead(c) \/ SendCharge(c) \/ SendBuffered(c)
  PROVE  ServeInv'
<1>1. CallInv(call[c]) /\ call[c].stage = "relay"
  BY DEF ServeInv, SendHead, SendCharge, SendBuffered, At
<1>2. EnvInv'
  BY EnvKept DEF SendHead, SendCharge, SendBuffered, ServeInv
<1>3. CASE SendHead(c)
  <2>1. call[c].seen \in BOOLEAN
    BY <1>1 DEF CallInv, Calls
  <2>2. CallInv([call[c] EXCEPT !.head = TRUE, !.seen = call[c].seen, !.answers = @ + 1])
    BY <1>1, <1>3, <2>1, HeadIsRelayed DEF SendHead
  <2>3. [call[c] EXCEPT !.head = TRUE, !.seen = call[c].seen, !.answers = @ + 1]
        = [call[c] EXCEPT !.head = TRUE, !.answers = @ + 1]
    BY <1>1 DEF CallInv, Calls
  <2> QED
    BY <1>2, <1>3, <2>2, <2>3, SetKeeps DEF SendHead
<1>4. CASE SendCharge(c)
  <2>1. CallInv([call[c] EXCEPT !.seen = TRUE])
    BY <1>1, ChargeIsRelayed
  <2> QED
    BY <1>2, <1>4, <2>1, SetKeeps DEF SendCharge
<1>5. CASE SendBuffered(c)
  <2>1. CallInv([call[c] EXCEPT !.head = TRUE, !.seen = TRUE, !.answers = @ + 1])
    BY <1>1, <1>5, HeadIsRelayed DEF SendBuffered
  <2> QED
    BY <1>2, <1>5, <2>1, SetKeeps DEF SendBuffered
<1> QED
  BY <1>3, <1>4, <1>5

LEMMA FinishKeeps ==
  ASSUME ServeInv, NEW c \in Clients, Finish(c)
  PROVE  ServeInv'
<1>1. PICK booked \in BOOLEAN : Set(c, [Debited(call[c], booked) EXCEPT !.stage = "idle"])
  BY DEF Finish
<1>2. CallInv(call[c]) /\ call[c].stage = "relay" /\ call[c].head
  BY DEF ServeInv, Finish, At
<1>3. CallInv([Debited(call[c], booked) EXCEPT !.stage = "idle"])
  BY <1>2, FinishedIsOver
<1>4. call[c].source # Nothing => call[c].source \in Sources /\ Giver(c) \in Givers
  BY <1>2 DEF CallInv, Calls, Giver
<1>5. token' \in [Clients -> Givers \cup {Nothing}] /\ pin' \in [Clients -> Sources \cup {Nothing}]
  <2> HIDE DEF Giver
  <2> QED BY <1>4 DEF Finish, ServeInv, EnvInv
<1>6. EnvInv'
  BY <1>5 DEF Finish, ServeInv, EnvInv, giverVars, upstreamVars
<1> QED
  BY <1>1, <1>3, <1>6, SetKeeps

LEMMA BreakKeeps ==
  ASSUME ServeInv, NEW c \in Clients, Break(c)
  PROVE  ServeInv'
<1>1. PICK booked \in BOOLEAN : Set(c, FailClient(Debited(call[c], booked)))
  BY DEF Break
<1>2. CallInv(call[c]) /\ call[c].stage \in {"sent", "relay"}
  BY DEF ServeInv, Break, At
<1>3. CallInv(FailClient(Debited(call[c], booked)))
  BY <1>2, BrokenIsOver
<1>4. EnvInv'
  BY EnvKept DEF Break, ServeInv
<1> QED
  BY <1>1, <1>3, <1>4, SetKeeps

LEMMA CrashKeeps ==
  ASSUME ServeInv, Crash
  PROVE  ServeInv'
<1> DEFINE stopped(c) == [call[c] EXCEPT !.stage = "closed",
                                         !.lost = @ \/ call[c].burned # call[c].paid]
<1>1. call' = [c \in Clients |-> stopped(c)]
  BY DEF Crash
<1>2. ASSUME NEW c \in Clients PROVE CallInv(stopped(c))
  BY CrashedIsOver DEF ServeInv
<1> HIDE DEF stopped
<1>3. call' \in [Clients -> Calls] /\ \A c \in Clients : CallInv(call'[c])
  BY <1>1, <1>2 DEF CallInv
<1>4. EnvInv'
  BY DEF Crash, ServeInv, EnvInv, giverVars, upstreamVars
<1> QED
  BY <1>3, <1>4 DEF ServeInv

LEMMA EnvironmentKeeps ==
  ASSUME ServeInv,
         \/ Trade
         \/ \E g \in Givers : Disconnect(g) \/ RunDry(g) \/ Revoke(g)
         \/ \E c \in Clients : ExpirePin(c)
  PROVE  ServeInv'
<1>1. UNCHANGED call
  BY DEF Trade, Disconnect, RunDry, Revoke, ExpirePin, giverVars
<1>2. EnvInv'
  BY DEF Trade, Disconnect, RunDry, Revoke, ExpirePin, ServeInv, EnvInv, giverVars, upstreamVars
<1> QED
  BY <1>1, <1>2, CallsKept

LEMMA ServeInvHolds == Spec => []ServeInv
<1>1. Init => ServeInv
  <2> SUFFICES ASSUME Init PROVE ServeInv
    OBVIOUS
  <2>1. EnvInv
    BY DEF Init, EnvInv
  <2>2. Idle \in Calls
    BY IdleIsOver DEF CallInv
  <2> QED
    BY <2>1, <2>2, IdleIsOver DEF Init, ServeInv
<1>2. ServeInv /\ [Next]_vars => ServeInv'
  <2> SUFFICES ASSUME ServeInv, [Next]_vars PROVE ServeInv'
    OBVIOUS
  <2>1. CASE \E c \in Clients, kind \in {"billable", "session"} : Ask(c, kind)
    BY <2>1, AskKeeps
  <2>2. ASSUME NEW c \in Clients, Advance(c) PROVE ServeInv'
    BY <2>2, BlockKeeps, RouteKeeps, FailOverKeeps, BootstrapKeeps, HealedKeeps,
       HealFailsKeeps, RespondKeeps, RelayKeeps, FinishKeeps, BreakKeeps DEF Advance
  <2>3. ASSUME NEW c \in Clients, Renew(c) PROVE ServeInv'
    <3>1. EnvInv'
      BY <2>3, EnvKept DEF Renew, ServeInv
    <3> QED
      BY <2>3, <3>1, IdleIsOver, SetKeeps DEF Renew
  <2>4. CASE Crash
    BY <2>4, CrashKeeps
  <2>5. CASE \/ Trade
             \/ \E g \in Givers : Disconnect(g) \/ RunDry(g) \/ Revoke(g)
             \/ \E c \in Clients : ExpirePin(c)
    BY <2>5, EnvironmentKeeps
  <2>6. CASE UNCHANGED vars
    <3>1. UNCHANGED call /\ EnvInv'
      BY <2>6 DEF vars, ServeInv, EnvInv, giverVars, upstreamVars
    <3> QED
      BY <3>1, CallsKept
  <2>7. ASSUME NEW c \in Clients, Reject(c) \/ Forward(c) PROVE ServeInv'
    BY <2>7, RejectKeeps, ForwardKeeps
  <2> QED
    BY <2>1, <2>2, <2>3, <2>4, <2>5, <2>6, <2>7 DEF Next
<1> QED
  BY <1>1, <1>2, PTL DEF Spec

-----------------------------------------------------------------------------
(* The steps of Call *)

\* What a call looks like from outside.
Open(r)    == Progress(r) = "open"
Unheard(r) == Told(r) = "no" /\ Bill(r) = "none"
Same(r, n) == Told(n) = Told(r) /\ Bill(n) = Bill(r)

\* The steps of Call, of the records the mapping reads.
Steps(r, n) ==
    \/ Open(r) /\ Open(n) /\ Same(r, n)
    \/ Progress(r) = "none" /\ Open(n) /\ Unheard(n)
    \/ Progress(r) = "none" /\ Progress(n) = "none" /\ Told(n) = "yes" /\ Bill(n) = "none"
    \/ Open(r) /\ Open(n) /\ Told(n) = Told(r) /\ Bill(r) = "none" /\ Bill(n) = "due"
    \/ Open(r) /\ Open(n) /\ Told(r) = "no" /\ Told(n) = "yes" /\ Bill(n) = Bill(r)
    \/ /\ Open(r) /\ Progress(n) \in {"none", "cut"}
       /\ Told(n) = "yes" /\ Bill(n) \in Promise!Outcomes(Bill(r))
    \/ ~ Open(r) /\ Progress(n) = "none" /\ Unheard(n)

LEMMA StepOfCall ==
  ASSUME ServeInv, NEW c \in Clients, NEW n, Set(c, n), Steps(call[c], n)
  PROVE  [Promise!Next]_(Promise!vars)
<1> DEFINE r == call[c]
           progress == [d \in Clients |-> Progress(call[d])]
           told == [d \in Clients |-> Told(call[d])]
           bill == [d \in Clients |-> Bill(call[d])]
<1>1. call' = [call EXCEPT ![c] = n] /\ DOMAIN call = Clients
  BY DEF Set, ServeInv
<1>2. \A d \in Clients : call'[d] = IF d = c THEN n ELSE call[d]
  BY <1>1
<1>3. /\ progress' = [progress EXCEPT ![c] = Progress(n)]
      /\ told' = [told EXCEPT ![c] = Told(n)]
      /\ bill' = [bill EXCEPT ![c] = Bill(n)]
  BY <1>2, Zenon
<1>4. progress[c] = Progress(r) /\ told[c] = Told(r) /\ bill[c] = Bill(r)
  OBVIOUS
<1>5. Promise!Set(c, Progress(n), Told(n), Bill(n))
  BY <1>3 DEF Promise!Set
<1>6. CASE Open(r) /\ Open(n) /\ Same(r, n)
  <2>1. /\ progress' = progress /\ told' = told /\ bill' = bill
    <3>1. Progress(n) = Progress(r) /\ Told(n) = Told(r) /\ Bill(n) = Bill(r)
      BY <1>6 DEF Open, Same
    <3> QED
      BY <1>2, <3>1, Zenon
  <2> QED
    BY <2>1 DEF Promise!vars
<1>7. ASSUME ~ (Open(r) /\ Open(n) /\ Same(r, n))
      PROVE  \/ Promise!Begin(c) \/ Promise!TurnAway(c) \/ Promise!Spend(c) \/ Promise!Tell(c)
             \/ Promise!End(c) \/ Promise!Cut(c) \/ Promise!Renew(c)
  <2> HIDE DEF progress, told, bill
  <2> QED
    BY <1>4, <1>5, <1>7
       DEF Steps, Open, Unheard, Promise!Begin, Promise!TurnAway, Promise!Spend, Promise!Tell,
           Promise!End, Promise!Cut, Promise!Renew, progress, told, bill
<1> QED
  BY <1>6, <1>7 DEF Promise!Next

LEMMA PendingIsUnheard ==
  ASSUME NEW r, CallInv(r), r.stage \in {"gate", "sent", "heal"}
  PROVE  Open(r) /\ Unheard(r)
BY DEF CallInv, Pending, Fresh, Open, Unheard, Progress, Told, Bill

LEMMA RelayIsOpen ==
  ASSUME NEW r, CallInv(r), r.stage = "relay"
  PROVE  Open(r) /\ Told(r) = (IF r.head THEN "yes" ELSE "no") /\ Bill(r) \in {"none", "due"}
<1>1. r.head \in BOOLEAN /\ r.answers = (IF r.head THEN 1 ELSE 0) /\ r.paid = << >> /\ ~ r.lost
  BY DEF CallInv, Calls, Relaying
<1> QED
  BY <1>1 DEF Open, Progress, Told, Bill

LEMMA IdleIsUnheard == Progress(Idle) = "none" /\ Unheard(Idle)
BY DEF Idle, Progress, Unheard, Told, Bill

\* Steps that leave what the mapping reads as it is.
LEMMA Stuttering ==
  ASSUME NEW r, NEW n, Open(r), n.stage \in {"gate", "sent", "heal", "relay"},
         n.answers = r.answers, n.burned = r.burned, n.paid = r.paid, n.lost = r.lost
  PROVE  Steps(r, n)
BY DEF Steps, Open, Same, Progress, Told, Bill

\* A debit settles what is due, or it is lost.
LEMMA DebitedOutcome ==
  ASSUME NEW r, CallInv(r), r.stage \in {"sent", "relay"}, NEW booked \in BOOLEAN,
         NEW d, d = Debited(r, booked), NEW n,
         n.burned = d.burned, n.paid = d.paid, n.lost = d.lost
  PROVE  Bill(n) \in Promise!Outcomes(Bill(r))
<1>1. Bill(n) = Bill(d)
  BY DEF Bill
<1>2. CASE r.kind # "billable" \/ r.status # "200"
  <2>1. r.burned = << >> /\ d = r
    BY <1>2 DEF CallInv, Pending, Relaying, Fresh, Debited
  <2>2. Bill(r) # "due"
    BY <2>1 DEF Bill
  <2> QED
    BY <1>1, <2>1, <2>2 DEF Promise!Outcomes
<1>3. CASE ~ (r.kind # "billable" \/ r.status # "200")
  <2>1. /\ r \in Calls /\ r.paid = << >> /\ ~ r.lost
        /\ r.source \in Sources /\ r.burned = Append(<< >>, r.source)
    BY <1>3 DEF CallInv, Pending, Relaying, Fresh
  <2>2. r.burned # << >>
    BY <2>1, AppendToNone
  <2>3. Bill(r) = "due"
    BY <2>1, <2>2 DEF Bill
  <2>4. CASE r.seen /\ booked
    <3>1. d = [r EXCEPT !.paid = Append(r.paid, r.source)]
      BY <1>3, <2>4 DEF Debited
    <3>2. d.paid = r.burned /\ d.burned = r.burned /\ d.lost = r.lost
      BY <2>1, <3>1 DEF Calls
    <3>3. Bill(d) = "settled"
      BY <2>1, <2>2, <3>2 DEF Bill
    <3> QED
      BY <1>1, <2>3, <3>3 DEF Promise!Outcomes
  <2>5. CASE ~ (r.seen /\ booked)
    <3>1. d = [r EXCEPT !.lost = TRUE]
      BY <1>3, <2>5 DEF Debited
    <3>2. d.lost
      BY <2>1, <3>1 DEF Calls
    <3> QED
      BY <1>1, <2>3, <3>2 DEF Promise!Outcomes, Bill
  <2> QED
    BY <2>4, <2>5
<1> QED
  BY <1>2, <1>3

LEMMA SpendSteps ==
  ASSUME NEW r, CallInv(r), r.stage = "sent", NEW status \in Statuses,
         NEW n, n = [r EXCEPT !.stage = "relay", !.status = status,
                              !.burned = IF status = "200" /\ r.kind = "billable"
                                         THEN Append(@, r.source) ELSE @]
  PROVE  Steps(r, n)
<1>1. r \in Calls /\ r.burned = << >> /\ r.paid = << >> /\ ~ r.lost
  BY DEF CallInv, Pending, Fresh
<1>2. Open(r) /\ Bill(r) = "none"
  BY PendingIsUnheard DEF Unheard
<1>3. CASE status = "200" /\ r.kind = "billable"
  <2>1. n.burned = Append(<< >>, r.source) /\ r.source \in Sources
    BY <1>1, <1>3 DEF Calls, CallInv, Pending
  <2>2. n.burned # << >>
    BY <2>1, AppendToNone
  <2>3. n.stage = "relay" /\ n.answers = r.answers /\ n.paid = << >> /\ ~ n.lost
    BY <1>1 DEF Calls
  <2>4. Open(n) /\ Told(n) = Told(r) /\ Bill(n) = "due"
    BY <2>2, <2>3 DEF Open, Progress, Told, Bill
  <2> QED
    BY <1>2, <2>4 DEF Steps
<1>4. CASE ~ (status = "200" /\ r.kind = "billable")
  <2>1. /\ n.stage = "relay" /\ n.answers = r.answers /\ n.burned = r.burned
        /\ n.paid = r.paid /\ n.lost = r.lost
    BY <1>1, <1>4 DEF Calls
  <2> QED
    BY <1>2, <2>1, Stuttering
<1> QED
  BY <1>3, <1>4

LEMMA TellSteps ==
  ASSUME NEW r, CallInv(r), r.stage \in {"sent", "heal", "relay"}, ~ r.head,
         NEW n, n.stage = "relay", n.answers = r.answers + 1,
         n.burned = r.burned, n.paid = r.paid, n.lost = r.lost
  PROVE  Steps(r, n)
<1>1. Open(r) /\ Told(r) = "no" /\ r.answers = 0
  BY DEF CallInv, Calls, Pending, Relaying, Fresh, Open, Progress, Told
<1>2. Open(n) /\ Told(n) = "yes" /\ Bill(n) = Bill(r)
  BY <1>1 DEF Open, Progress, Told, Bill
<1> QED
  BY <1>1, <1>2 DEF Steps

LEMMA FinishSteps ==
  ASSUME NEW r, CallInv(r), r.stage = "relay", r.head, NEW booked \in BOOLEAN,
         NEW n, n = [Debited(r, booked) EXCEPT !.stage = "idle"]
  PROVE  Steps(r, n)
<1> DEFINE d == Debited(r, booked)
<1>1. d \in Calls /\ d.answers = 1
  BY DebitedIsSettled
<1> HIDE DEF d
<1>2. /\ n.stage = "idle" /\ n.answers = 1
      /\ n.burned = d.burned /\ n.paid = d.paid /\ n.lost = d.lost
  BY <1>1 DEF Calls, d
<1>3. Bill(n) \in Promise!Outcomes(Bill(r))
  BY <1>2, DebitedOutcome DEF d
<1>4. Open(r)
  BY RelayIsOpen
<1>5. Progress(n) = "none" /\ Told(n) = "yes"
  BY <1>2 DEF Progress, Told
<1> QED
  BY <1>3, <1>4, <1>5 DEF Steps

LEMMA BreakSteps ==
  ASSUME NEW r, CallInv(r), r.stage \in {"sent", "relay"}, NEW booked \in BOOLEAN,
         NEW n, n = FailClient(Debited(r, booked))
  PROVE  Steps(r, n)
<1> DEFINE d == Debited(r, booked)
           answers == IF d.head THEN d.answers ELSE d.answers + 1
<1>1. d \in Calls /\ d.answers = IF r.head THEN 1 ELSE 0
  BY DebitedIsSettled
<1>2. d.head = r.head /\ d.head \in BOOLEAN
  BY <1>1, DebitedIsSettled DEF Calls
<1>3. n = [d EXCEPT !.stage = "closed", !.answers = answers]
  BY DEF FailClient
<1> HIDE DEF d
<1>4. answers = 1
  BY <1>1, <1>2
<1> HIDE DEF answers
<1>5. /\ n.stage = "closed" /\ n.answers = 1
      /\ n.burned = d.burned /\ n.paid = d.paid /\ n.lost = d.lost
  BY <1>1, <1>3, <1>4 DEF Calls
<1>6. Bill(n) \in Promise!Outcomes(Bill(r))
  BY <1>5, DebitedOutcome DEF d
<1>7. Open(r)
  BY PendingIsUnheard, RelayIsOpen
<1>8. Progress(n) = "cut" /\ Told(n) = "yes"
  BY <1>5 DEF Progress, Told
<1> QED
  BY <1>6, <1>7, <1>8 DEF Steps

LEMMA PassOnSteps ==
  ASSUME NEW c \in Clients, CallInv(call[c]), call[c].stage \in {"sent", "heal"}, NEW status
  PROVE  Steps(call[c], PassOn(c, status))
<1> DEFINE r == call[c]
           n == PassOn(c, status)
<1>1. r \in Calls /\ ~ r.head
  BY DEF CallInv, Pending, Fresh
<1>2. /\ n.stage = "relay" /\ n.answers = r.answers + 1
      /\ n.burned = r.burned /\ n.paid = r.paid /\ n.lost = r.lost
  BY <1>1 DEF PassOn, Calls
<1> HIDE DEF n
<1>3. Steps(r, n)
  BY <1>1, <1>2, TellSteps
<1> QED
  BY <1>3 DEF n

LEMMA RetrySteps ==
  ASSUME NEW c \in Clients, CallInv(call[c]), call[c].stage = "sent", NEW next,
         NEW n, n \in {Retry(c, next), [Retry(c, next) EXCEPT !.stage = "heal"]}
  PROVE  Steps(call[c], n)
<1> DEFINE r == call[c]
<1>1. r \in Calls /\ Open(r)
  BY PendingIsUnheard DEF CallInv
<1>2. /\ n.stage \in {"sent", "heal"} /\ n.answers = r.answers
      /\ n.burned = r.burned /\ n.paid = r.paid /\ n.lost = r.lost
  BY <1>1 DEF Retry, Calls
<1> QED
  BY <1>1, <1>2, Stuttering

LEMMA AdvanceSteps ==
  ASSUME ServeInv, NEW c \in Clients, Advance(c)
  PROVE  [Promise!Next]_(Promise!vars)
<1> DEFINE r == call[c]
           next == SelectSource(c, r.exclude \cup {r.source})
<1>1. CallInv(r) /\ r \in Calls
  BY DEF ServeInv, CallInv
<1>2. SUFFICES ASSUME NEW n, Set(c, n), Steps(r, n)
               PROVE  [Promise!Next]_(Promise!vars)
  <2>1. CASE Block(c)
    <3> DEFINE n == [r EXCEPT !.stage = "idle", !.status = "blocked", !.answers = @ + 1]
    <3>1. r.stage = "gate" /\ Set(c, n)
      BY <2>1 DEF Block, At
    <3>2. Open(r) /\ Bill(r) = "none" /\ r.answers = 0
      BY <1>1, <3>1, PendingIsUnheard DEF Unheard, CallInv, Pending, Fresh
    <3>3. /\ n.stage = "idle" /\ n.answers = 1
          /\ n.burned = r.burned /\ n.paid = r.paid /\ n.lost = r.lost
      BY <1>1, <3>2 DEF Calls
    <3>4. Progress(n) = "none" /\ Told(n) = "yes" /\ Bill(n) = Bill(r)
      BY <3>3 DEF Progress, Told, Bill
    <3>5. Steps(r, n)
      BY <3>2, <3>4 DEF Steps, Promise!Outcomes
    <3> QED
      BY <3>1, <3>5, <1>2
  <2>2. CASE Route(c)
    <3> DEFINE n == [r EXCEPT !.stage = "sent", !.source = Chosen(c), !.attempts = 1]
    <3>1. r.stage = "gate" /\ Set(c, n)
      BY <2>2 DEF Route, At
    <3>2. /\ n.stage = "sent" /\ n.answers = r.answers
          /\ n.burned = r.burned /\ n.paid = r.paid /\ n.lost = r.lost
      BY <1>1 DEF Calls
    <3>3. Steps(r, n)
      <4> HIDE DEF n
      <4> QED BY <1>1, <3>1, <3>2, PendingIsUnheard, Stuttering
    <3> QED
      BY <3>1, <3>3, <1>2
  <2>3. ASSUME NEW status, FailOver(c, status) PROVE [Promise!Next]_(Promise!vars)
    <3>1. r.stage = "sent" /\ Set(c, IF next = Nothing THEN PassOn(c, status) ELSE Retry(c, next))
      BY <2>3 DEF FailOver, At
    <3>2. Steps(r, PassOn(c, status))
      BY <1>1, <3>1, PassOnSteps
    <3>3. Steps(r, Retry(c, next))
      <4> HIDE DEF next
      <4> QED BY <1>1, <3>1, RetrySteps
    <3> QED
      BY <3>1, <3>2, <3>3, <1>2
  <2>4. CASE Bootstrap(c)
    <3>1. /\ r.stage = "sent"
          /\ Set(c, IF next = Nothing THEN PassOn(c, "401")
                    ELSE [Retry(c, next) EXCEPT !.stage = "heal"])
      BY <2>4 DEF Bootstrap, At
    <3>2. Steps(r, PassOn(c, "401"))
      BY <1>1, <3>1, PassOnSteps
    <3>3. Steps(r, [Retry(c, next) EXCEPT !.stage = "heal"])
      <4> HIDE DEF next
      <4> QED BY <1>1, <3>1, RetrySteps
    <3> QED
      BY <3>1, <3>2, <3>3, <1>2
  <2>5. CASE Healed(c)
    <3> DEFINE n == [r EXCEPT !.stage = "sent", !.header = Giver(c)]
    <3>1. r.stage = "heal" /\ Set(c, n)
      BY <2>5 DEF Healed, At
    <3>2. /\ n.stage = "sent" /\ n.answers = r.answers
          /\ n.burned = r.burned /\ n.paid = r.paid /\ n.lost = r.lost
      BY <1>1 DEF Calls
    <3>3. Steps(r, n)
      <4> HIDE DEF n
      <4> QED BY <1>1, <3>1, <3>2, PendingIsUnheard, Stuttering
    <3> QED
      BY <3>1, <3>3, <1>2
  <2>6. CASE HealFails(c)
    <3>1. r.stage = "heal" /\ Set(c, PassOn(c, "401"))
      BY <2>6 DEF HealFails, At
    <3>2. Steps(r, PassOn(c, "401"))
      BY <1>1, <3>1, PassOnSteps
    <3> QED
      BY <3>1, <3>2, <1>2
  <2>7. ASSUME NEW status \in Refusals \cup {"200", "error"}, Respond(c, status)
        PROVE  [Promise!Next]_(Promise!vars)
    <3> DEFINE n == [r EXCEPT !.stage = "relay", !.status = status,
                              !.burned = IF status = "200" /\ r.kind = "billable"
                                         THEN Append(@, r.source) ELSE @]
    <3>1. r.stage = "sent" /\ Set(c, n) /\ status \in Statuses
      BY <2>7 DEF Respond, At, Billable, Statuses
    <3>2. Steps(r, n)
      BY <1>1, <3>1, SpendSteps, Zenon
    <3> QED
      BY <3>1, <3>2, <1>2
  <2>8. CASE SendHead(c)
    <3> DEFINE n == [r EXCEPT !.head = TRUE, !.answers = @ + 1]
    <3>1. r.stage = "relay" /\ ~ r.head /\ Set(c, n)
      BY <2>8 DEF SendHead, At
    <3>2. /\ n.stage = "relay" /\ n.answers = r.answers + 1
          /\ n.burned = r.burned /\ n.paid = r.paid /\ n.lost = r.lost
      BY <1>1, <3>1 DEF Calls
    <3>3. Steps(r, n)
      <4> HIDE DEF n
      <4> QED BY <1>1, <3>1, <3>2, TellSteps
    <3> QED
      BY <3>1, <3>3, <1>2
  <2>9. CASE SendCharge(c)
    <3> DEFINE n == [r EXCEPT !.seen = TRUE]
    <3>1. r.stage = "relay" /\ Set(c, n)
      BY <2>9 DEF SendCharge, At
    <3>2. Steps(r, n)
      BY <1>1, <3>1, RelayIsOpen, Stuttering DEF Calls
    <3> QED
      BY <3>1, <3>2, <1>2
  <2>10. CASE SendBuffered(c)
    <3> DEFINE n == [r EXCEPT !.head = TRUE, !.seen = TRUE, !.answers = @ + 1]
    <3>1. r.stage = "relay" /\ ~ r.head /\ Set(c, n)
      BY <2>10 DEF SendBuffered, At
    <3>2. /\ n.stage = "relay" /\ n.answers = r.answers + 1
          /\ n.burned = r.burned /\ n.paid = r.paid /\ n.lost = r.lost
      BY <1>1, <3>1 DEF Calls
    <3>3. Steps(r, n)
      <4> HIDE DEF n
      <4> QED BY <1>1, <3>1, <3>2, TellSteps
    <3> QED
      BY <3>1, <3>3, <1>2
  <2>11. CASE Finish(c)
    <3>1. PICK booked \in BOOLEAN : Set(c, [Debited(r, booked) EXCEPT !.stage = "idle"])
      BY <2>11 DEF Finish
    <3>2. r.stage = "relay" /\ r.head
      BY <2>11 DEF Finish, At
    <3> QED
      BY <1>1, <3>1, <3>2, FinishSteps, <1>2
  <2>12. CASE Break(c)
    <3>1. PICK booked \in BOOLEAN : Set(c, FailClient(Debited(r, booked)))
      BY <2>12 DEF Break
    <3>2. r.stage \in {"sent", "relay"}
      BY <2>12 DEF Break, At
    <3> QED
      BY <1>1, <3>1, <3>2, BreakSteps, <1>2
  <2> QED
    BY <2>1, <2>2, <2>3, <2>4, <2>5, <2>6, <2>7, <2>8, <2>9, <2>10, <2>11, <2>12 DEF Advance
<1> QED
  BY <1>2, StepOfCall

-----------------------------------------------------------------------------
(* Theorems *)

\* A call is retried at most once for each giver that was asked about, and never
\* through a source it was refused with.
THEOREM ServeTyping == Spec => []TypeOKServe
<1>1. ServeInv => TypeOKServe
  <2> SUFFICES ASSUME ServeInv PROVE TypeOKServe
    OBVIOUS
  <2>1. ASSUME NEW c \in Clients
        PROVE  /\ call[c].stage \in {"idle", "gate", "sent", "heal", "relay", "closed"}
               /\ call[c].kind \in {"none", "billable", "session", "free", "unknown"}
               /\ call[c].source \in Sources \cup {Nothing}
               /\ call[c].exclude \subseteq Sources \ {call[c].source}
               /\ Billable(c) => call[c].attempts <= MaxAttempts(c)
    <3>1. CallInv(call[c])
      BY DEF ServeInv
    <3> QED
      BY <3>1 DEF CallInv, Calls, Bounded, Billable, MaxAttempts
  <2> QED
    BY <2>1 DEF TypeOKServe, ServeInv, EnvInv
<1> QED
  BY <1>1, ServeInvHolds, PTL

\* However a call ends, its client gets one status line, and none is written into
\* a response that has begun.
THEOREM OneAnswer == Spec => []AnsweredOnce
<1>1. ServeInv => AnsweredOnce
  <2> SUFFICES ASSUME ServeInv, NEW c \in Clients
               PROVE  /\ call[c].answers <= 1
                      /\ At(c, "idle") /\ call[c].kind # "none" => call[c].answers = 1
    BY DEF AnsweredOnce
  <2>1. CallInv(call[c])
    BY DEF ServeInv
  <2> QED
    BY <2>1 DEF CallInv, Calls, Pending, Relaying, Over, Fresh, At
<1> QED
  BY <1>1, ServeInvHolds, PTL

\* A call that is over was billed once, on the source it burned, or its charge is
\* known to be lost; no failover makes it billed twice.
THEOREM OneDebit == Spec => []DebitedOnce
<1>1. ServeInv => DebitedOnce
  <2> SUFFICES ASSUME ServeInv, NEW c \in Clients
               PROVE  /\ Len(call[c].burned) <= 1
                      /\ At(c, "idle") \/ At(c, "closed") =>
                           IF call[c].lost THEN call[c].paid = << >>
                           ELSE call[c].paid = call[c].burned
    BY DEF DebitedOnce
  <2>1. CallInv(call[c])
    BY DEF ServeInv
  <2>2. Len(call[c].burned) <= 1
    <3>1. \/ call[c].burned = << >> \/ Len(call[c].burned) <= 1
          \/ call[c].source \in Sources /\ call[c].burned = Append(<< >>, call[c].source)
      BY <2>1 DEF CallInv, Calls, Pending, Relaying, Over, Fresh
    <3> QED
      BY <3>1, ShortBurn
  <2> QED
    BY <2>1, <2>2 DEF CallInv, Over, At
<1> QED
  BY <1>1, ServeInvHolds, PTL

LEMMA CrashSteps ==
  ASSUME ServeInv, Crash
  PROVE  Promise!Stop
<1> DEFINE stopped(c) == [call[c] EXCEPT !.stage = "closed",
                                         !.lost = @ \/ call[c].burned # call[c].paid]
<1>1. call' = [c \in Clients |-> stopped(c)]
  BY DEF Crash
<1>2. ASSUME NEW c \in Clients
      PROVE  /\ Progress(stopped(c)) = "cut"
             /\ Told(stopped(c)) = Told(call[c])
             /\ Bill(stopped(c)) = IF Bill(call[c]) = "due" THEN "lost" ELSE Bill(call[c])
  <2> DEFINE r == call[c]
             lost == r.lost \/ r.burned # r.paid
             n == [r EXCEPT !.stage = "closed", !.lost = lost]
  <2>1. CallInv(r) /\ r \in Calls
    BY DEF ServeInv, CallInv
  <2>2. r.lost \/ r.paid = r.burned \/ r.paid = << >>
    BY <2>1 DEF CallInv, Pending, Relaying, Over, Fresh, Calls
  <2>3. lost \in BOOLEAN
    BY <2>1 DEF Calls
  <2> HIDE DEF lost
  <2>4. /\ n.stage = "closed" /\ n.answers = r.answers /\ n.burned = r.burned
        /\ n.paid = r.paid /\ n.lost = lost
    BY <2>1, <2>3 DEF Calls
  <2>5. Bill(n) = IF Bill(r) = "due" THEN "lost" ELSE Bill(r)
    BY <2>2, <2>4 DEF Bill, lost
  <2>6. Progress(n) = "cut" /\ Told(n) = Told(r)
    BY <2>4 DEF Progress, Told
  <2> QED
    BY <2>5, <2>6 DEF lost
<1> HIDE DEF stopped
<1> QED
  BY <1>1, <1>2, Zenon DEF Promise!Stop

\* What the proxy does is what Call promises: an answer and a debit are given once,
\* and nothing takes them back.
THEOREM KeepsPromise == Spec => CallSteps
<1>1. Init => Promise!Init
  <2> SUFFICES ASSUME Init PROVE Promise!Init
    OBVIOUS
  <2>1. \A c \in Clients : call[c] = Idle
    BY DEF Init
  <2>2. \A c \in Clients : Progress(call[c]) = "none" /\ Told(call[c]) = "no" /\ Bill(call[c]) = "none"
    BY <2>1, IdleIsUnheard DEF Unheard
  <2> QED
    BY <2>2, Zenon DEF Promise!Init
<1>2. ServeInv /\ [Next]_vars => [Promise!Next]_(Promise!vars)
  <2> SUFFICES ASSUME ServeInv, [Next]_vars PROVE [Promise!Next]_(Promise!vars)
    OBVIOUS
  <2>1. ASSUME NEW c \in Clients, Advance(c) PROVE [Promise!Next]_(Promise!vars)
    BY <2>1, AdvanceSteps
  <2>2. ASSUME NEW c \in Clients, NEW n, Set(c, n), Progress(call[c]) = "none",
               Open(n) /\ Unheard(n)
        PROVE  [Promise!Next]_(Promise!vars)
    BY <2>2, StepOfCall DEF Steps
  <2>3. ASSUME NEW c \in Clients, NEW kind \in {"billable", "session"}, Ask(c, kind)
        PROVE  [Promise!Next]_(Promise!vars)
    <3>1. PICK found \in SUBSET (dry \cap Candidates) :
            Set(c, [Idle EXCEPT !.stage = "gate", !.kind = kind, !.header = token[c],
                                !.checked = Candidates, !.dead = found])
      BY <2>3 DEF Ask
    <3> DEFINE n == [Idle EXCEPT !.stage = "gate", !.kind = kind, !.header = token[c],
                                 !.checked = Candidates, !.dead = found]
    <3>2. Open(n) /\ Unheard(n)
      BY DEF Idle, Open, Unheard, Progress, Told, Bill
    <3>3. Progress(call[c]) = "none"
      BY <2>3 DEF Ask, At, Progress
    <3> QED
      BY <3>1, <3>2, <3>3, <2>2
  <2>4. ASSUME NEW c \in Clients, Forward(c)
        PROVE  [Promise!Next]_(Promise!vars)
    <3> DEFINE n == [Idle EXCEPT !.stage = "sent", !.kind = "free", !.attempts = 1]
    <3>1. Set(c, n) /\ Progress(call[c]) = "none"
      BY <2>4 DEF Forward, At, Progress
    <3>2. Open(n) /\ Unheard(n)
      BY DEF Idle, Open, Unheard, Progress, Told, Bill
    <3> QED
      BY <3>1, <3>2, <2>2
  <2>5. ASSUME NEW c \in Clients, Reject(c)
        PROVE  [Promise!Next]_(Promise!vars)
    <3> DEFINE n == [Idle EXCEPT !.kind = "unknown", !.status = "blocked", !.answers = 1]
    <3>1. Set(c, n) /\ Progress(call[c]) = "none"
      BY <2>5 DEF Reject, At, Progress
    <3>2. Progress(n) = "none" /\ Told(n) = "yes" /\ Bill(n) = "none"
      BY DEF Idle, Progress, Told, Bill
    <3> QED
      BY <3>1, <3>2, StepOfCall DEF Steps
  <2>6. ASSUME NEW c \in Clients, Renew(c)
        PROVE  [Promise!Next]_(Promise!vars)
    <3>1. Set(c, Idle) /\ ~ Open(call[c])
      BY <2>6 DEF Renew, At, Open, Progress
    <3> QED
      BY <3>1, IdleIsUnheard, StepOfCall DEF Steps
  <2>7. CASE Crash
    BY <2>7, CrashSteps DEF Promise!Next
  <2>8. CASE UNCHANGED call
    BY <2>8, Zenon DEF Promise!vars
  <2>9. (\/ Trade
         \/ \E g \in Givers : Disconnect(g) \/ RunDry(g) \/ Revoke(g)
         \/ \E c \in Clients : ExpirePin(c)
         \/ UNCHANGED vars) => UNCHANGED call
    BY DEF Trade, Disconnect, RunDry, Revoke, ExpirePin, vars, giverVars
  <2> QED
    BY <2>1, <2>3, <2>4, <2>5, <2>6, <2>7, <2>8, <2>9 DEF Next
<1> QED
  BY <1>1, <1>2, ServeInvHolds, PTL DEF Spec, CallSteps

-----------------------------------------------------------------------------
(* The connections calls come on *)

USE ConnectionAssumption

Lines ==
    [at : {"down", "dispatch", "dial", "tunnel", "tls", "head", "body", "busy"},
     plain : BOOLEAN, framing : {"length", "chunked"}, size : Nat, read : Nat, missing : Int]

\* A connection that is busy has nothing missing from its request.
ConnInv ==
    /\ conn \in [Clients -> Lines]
    /\ WholeBody

LEMMA LineIsLine ==
  ASSUME NEW at \in {"down", "dispatch", "dial", "tunnel", "tls", "head", "body", "busy"},
         NEW plain \in BOOLEAN, NEW missing \in Int
  PROVE  /\ Line(at, plain, missing) \in Lines
         /\ Line(at, plain, missing).at = at
         /\ Line(at, plain, missing).missing = missing
<1>1. 0 \in Nat /\ "length" \in {"length", "chunked"}
  OBVIOUS
<1> QED
  BY <1>1, Zenon DEF Line, Lines

LEMMA MovedIsLine ==
  ASSUME NEW at \in {"down", "dispatch", "dial", "tunnel", "tls", "head"}
  PROVE  Line(at, FALSE, 0) \in Lines /\ Line(at, FALSE, 0).at = at
<1>1. at \in {"down", "dispatch", "dial", "tunnel", "tls", "head", "body", "busy"}
  OBVIOUS
<1>2. 0 \in Nat /\ 0 \in Int /\ "length" \in {"length", "chunked"}
  OBVIOUS
<1> QED
  BY <1>1, <1>2, Zenon DEF Line, Lines

LEMMA HeadIsLine ==
  ASSUME NEW plain \in BOOLEAN, NEW r \in Heads(plain)
  PROVE  r \in Lines /\ r.at = "body"
BY DEF Heads, Lines

\* What Whole accepts is assembled to the last unit, with what goes beyond cut off.
LEMMA WholeIsComplete ==
  ASSUME NEW r \in Lines, Whole(r)
  PROVE  r.size - Assembled(r) = 0
<1>1. r.size \in Nat /\ r.read \in Nat
  BY DEF Lines
<1>2. CASE r.framing = "chunked"
  <2>1. r.read >= 2 * r.size + 1
    BY <1>1, <1>2 DEF Whole, Parts
  <2>2. r.read \div 2 >= r.size
    BY <1>1, <2>1
  <2>3. Assembled(r) = r.size
    BY <1>1, <1>2, <2>2 DEF Assembled
  <2> QED
    BY <1>1, <2>3
<1>3. CASE r.framing # "chunked"
  <2>1. r.read >= r.size
    BY <1>1, <1>3 DEF Whole, Parts
  <2>2. Assembled(r) = r.size
    BY <1>1, <1>3, <2>1 DEF Assembled
  <2> QED
    BY <1>1, <2>2
<1> QED
  BY <1>2, <1>3

LEMMA TurnKeeps ==
  ASSUME ConnInv, NEW c \in Clients, NEW r \in Lines, Turn(c, r),
         r.at = "busy" => r.missing = 0
  PROVE  ConnInv'
<1>1. conn' \in [Clients -> Lines]
  BY DEF ConnInv, Turn
<1>2. \A d \in Clients : conn'[d] = IF d = c THEN r ELSE conn[d]
  BY DEF ConnInv, Turn
<1>3. WholeBody'
  BY <1>2 DEF ConnInv, WholeBody, On
<1> QED
  BY <1>1, <1>3 DEF ConnInv

LEMMA MoveKeeps ==
  ASSUME ConnInv, NEW c \in Clients,
         NEW at \in {"down", "dispatch", "dial", "tunnel", "tls", "head"}, Move(c, at)
  PROVE  ConnInv'
<1>1. Line(at, FALSE, 0) \in Lines /\ Line(at, FALSE, 0).at = at
  BY MovedIsLine
<1>2. Turn(c, Line(at, FALSE, 0))
  BY DEF Move
<1> QED
  BY <1>1, <1>2, TurnKeeps

\* Every request that enters the loop of Serve has the whole of its body, however
\* long the body is, however it is framed and wherever the client stopped.
THEOREM WholeRequests == ConnSpec => []WholeBody
<1>1. ConnInit => ConnInv
  <2> SUFFICES ASSUME ConnInit PROVE ConnInv
    OBVIOUS
  <2>1. conn = [c \in Clients |-> Down] /\ Down \in Lines /\ Down.at = "down"
    BY MovedIsLine DEF ConnInit, Down
  <2>2. conn \in [Clients -> Lines]
    BY <2>1
  <2> QED
    BY <2>1, <2>2 DEF ConnInv, WholeBody, On
<1>2. ConnInv /\ [ConnNext]_connVars => ConnInv'
  <2> SUFFICES ASSUME ConnInv, [ConnNext]_connVars PROVE ConnInv'
    OBVIOUS
  <2>1. ASSUME NEW c \in Clients,
               \/ Dial(c) \/ Refuse(c) \/ (\E host \in Hosts : Connect(c, host))
               \/ TunnelUp(c) \/ TunnelFails(c) \/ TunnelEnds(c)
               \/ Handshake(c) \/ HangUp(c) \/ BadRequest(c) \/ Rejected(c)
        PROVE  ConnInv'
    <3>1. PICK at \in {"down", "dispatch", "dial", "tunnel", "tls", "head"} : Move(c, at)
      BY <2>1 DEF Dial, Refuse, Connect, TunnelUp, TunnelFails, TunnelEnds, Handshake,
                  HangUp, BadRequest, Rejected
    <3> QED
      BY <3>1, MoveKeeps
  <2>2. ASSUME NEW c \in Clients, ReadHead(c) PROVE ConnInv'
    <3>1. PICK r \in Heads(On(c, "dispatch")) : Turn(c, r)
      BY <2>2 DEF ReadHead
    <3>2. r \in Lines /\ r.at = "body"
      <4>1. On(c, "dispatch") \in BOOLEAN
        BY DEF On
      <4> QED
        BY <3>1, <4>1, HeadIsLine
    <3> QED
      BY <3>1, <3>2, TurnKeeps
  <2>3. ASSUME NEW c \in Clients, ReadPart(c) PROVE ConnInv'
    <3>1. conn[c] \in Lines /\ conn[c].at = "body"
      BY <2>3 DEF ReadPart, ConnInv, On
    <3>2. [conn[c] EXCEPT !.read = @ + 1] \in Lines
      BY <3>1 DEF Lines
    <3>3. [conn[c] EXCEPT !.read = @ + 1].at = "body"
      BY <3>1 DEF Lines
    <3> QED
      BY <2>3, <3>2, <3>3, TurnKeeps DEF ReadPart
  <2>4. ASSUME NEW c \in Clients, TakeUp(c) PROVE ConnInv'
    <3> DEFINE missing == conn[c].size - Assembled(conn[c])
               r == Line("busy", conn[c].plain, missing)
    <3>1. conn[c] \in Lines /\ Whole(conn[c]) /\ Turn(c, r)
      BY <2>4 DEF TakeUp, ConnInv
    <3>2. missing = 0
      BY <3>1, WholeIsComplete
    <3> HIDE DEF missing
    <3>3. conn[c].plain \in BOOLEAN
      BY <3>1 DEF Lines
    <3>4. r \in Lines /\ r.missing = 0
      BY <3>2, <3>3, LineIsLine
    <3> QED
      BY <3>1, <3>4, TurnKeeps
  <2>5. ASSUME NEW c \in Clients, Served(c) PROVE ConnInv'
    <3>1. CASE UNCHANGED conn
      BY <3>1 DEF ConnInv, WholeBody, On
    <3>2. CASE Move(c, "down") \/ Move(c, "head")
      BY <3>2, MoveKeeps
    <3> QED
      BY <2>5, <3>1, <3>2 DEF Served
  <2>6. CASE Stop
    <3>1. conn' = [c \in Clients |-> Down] /\ Down \in Lines /\ Down.at = "down"
      BY <2>6, MovedIsLine DEF Stop, Down
    <3>2. conn' \in [Clients -> Lines]
      BY <3>1
    <3> QED
      BY <3>1, <3>2 DEF ConnInv, WholeBody, On
  <2>7. CASE UNCHANGED conn
    BY <2>7 DEF ConnInv, WholeBody, On
  <2> QED
    BY <2>1, <2>2, <2>3, <2>4, <2>5, <2>6, <2>7 DEF ConnNext, Arrive, Conclude, Attend, connVars
<1>3. ConnInv => WholeBody
  BY DEF ConnInv
<1> QED
  BY <1>1, <1>2, <1>3, PTL DEF ConnSpec

\* Each step of a connection is a step of Serve, or leaves its calls alone: what is
\* proved of Serve's steps holds however its clients connect, stall and go.
THEOREM ConnectionServes == ConnSpec => Init /\ [][Next]_vars
<1>1. ConnInit => Init
  BY DEF ConnInit
<1>2. [ConnNext]_connVars => [Next]_vars
  <2> SUFFICES ASSUME [ConnNext]_connVars PROVE [Next]_vars
    OBVIOUS
  <2>1. ASSUME NEW c \in Clients, Arrive(c) PROVE [Next]_vars
    BY <2>1 DEF Arrive, Dial, Connect, Handshake, TunnelUp, TunnelEnds, ReadHead, ReadPart, Next
  <2>2. ASSUME NEW c \in Clients, Conclude(c) \/ Attend(c) PROVE [Next]_vars
    <3>1. CASE TakeUp(c)
      BY <3>1 DEF TakeUp, Next
    <3>2. CASE Served(c)
      BY <3>2 DEF Served, Next
    <3> QED
      BY <2>2, <3>1, <3>2 DEF Conclude, Attend, Refuse, HangUp, TunnelFails, BadRequest, Rejected
  <2>3. CASE Around
    BY <2>3 DEF Around, Next
  <2>4. CASE Stop
    BY <2>4 DEF Stop, Next
  <2>5. CASE UNCHANGED connVars
    BY <2>5 DEF connVars
  <2> QED
    BY <2>1, <2>2, <2>3, <2>4, <2>5 DEF ConnNext
<1> QED
  BY <1>1, <1>2, PTL DEF ConnSpec
=============================================================================
