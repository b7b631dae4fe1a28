------------------------------- MODULE Serve -------------------------------
(***************************************************************************)
(* The request loop of the proxy (_serve and _relay_response of proxy.py): *)
(* the clients of one consumer, each on a connection of its own.           *)
(*                                                                         *)
(* A call passes the health gate, is routed to a source, goes upstream     *)
(* with the PAT of the source's giver, may be refused there and retried    *)
(* through another source, is relayed, and is debited.  Between two awaits *)
(* of a call everything else happens: other calls, the control plane,      *)
(* a giver running dry, a PAT being revoked.                               *)
(*                                                                         *)
(* In auto mode a client first asks /models/session for a session token;   *)
(* upstream ties it to the giver whose PAT asked, so the proxy pins the    *)
(* source for the client's later calls, and heals a token that does not    *)
(* match.  What a debit books is the subject of Debit.                     *)
(***************************************************************************)
EXTENDS Integers, FiniteSets, Sequences

CONSTANTS
    Clients,
    Sources,             \* buckets of the consumer, in the order they are preferred
    Givers, GiverOf,     \* whose PAT a source forwards
    Self,                \* the consumer, if he is a giver himself
    MaxCalls, MaxChanges, \* bounds: calls of a client; changes of credit, PATs and quotas
    Nothing

ASSUME SourcesAssumption ==
    /\ Sources \subseteq Nat /\ IsFiniteSet(Sources)
    /\ IsFiniteSet(Givers) /\ Self \subseteq Givers
    /\ GiverOf \in [Sources -> Givers]
    /\ Nothing \notin Nat /\ Nothing \notin Givers
    /\ MaxCalls \in Nat /\ MaxChanges \in Nat

VARIABLES
    room,     \* sources with credit left in the ledger
    dry,      \* givers whose quota is used up upstream
    refused,  \* givers whose PAT upstream rejects
    stored,   \* givers whose PAT is stored
    call,     \* the locals of _serve of each client's current call
    token,    \* the giver each client's session token belongs to
    pin,      \* _session_pins
    calls, changes  \* counters for the bounds

upstreamVars == <<dry, refused>>
giverVars    == <<room, stored, upstreamVars>>
boundVars    == <<calls, changes>>
vars == <<giverVars, call, token, pin, boundVars>>

-----------------------------------------------------------------------------
\* No call has been read from the connection.
Idle ==
    [stage |-> "idle", kind |-> "none", checked |-> {}, dead |-> {},
     source |-> Nothing, attempts |-> 0, exclude |-> {}, header |-> Nothing,
     status |-> "none", head |-> FALSE, seen |-> FALSE,
     answers |-> 0,                                      \* history: status lines sent
     burned |-> << >>, paid |-> << >>, lost |-> FALSE]   \* history: charged where

Init ==
    /\ room \in SUBSET Sources
    /\ dry = {} /\ refused = {} /\ stored = Givers
    /\ call = [c \in Clients |-> Idle]
    /\ token = [c \in Clients |-> Nothing]
    /\ pin = [c \in Clients |-> Nothing]
    /\ calls = [c \in Clients |-> 0] /\ changes = 0

At(c, stage) == call[c].stage = stage
Billable(c)  == call[c].kind = "billable"
Set(c, r)    == call' = [call EXCEPT ![c] = r]

-----------------------------------------------------------------------------
(* Around the proxy *)

\* Funding, cancelling, other debits: the sources with credit change.
Trade ==
    /\ changes < MaxChanges
    /\ changes' = changes + 1
    /\ room' \in SUBSET Sources
    /\ UNCHANGED <<stored, upstreamVars, call, token, pin, calls>>

Disconnect(g) ==
    /\ changes < MaxChanges
    /\ changes' = changes + 1
    /\ g \in stored /\ stored' = stored \ {g}
    /\ UNCHANGED <<room, upstreamVars, call, token, pin, calls>>

RunDry(g) ==
    /\ changes < MaxChanges
    /\ changes' = changes + 1
    /\ g \notin dry /\ dry' = dry \cup {g}
    /\ UNCHANGED <<room, stored, refused, call, token, pin, calls>>

Revoke(g) ==
    /\ changes < MaxChanges
    /\ changes' = changes + 1
    /\ g \notin refused /\ refused' = refused \cup {g}
    /\ UNCHANGED <<room, stored, dry, call, token, pin, calls>>

ExpirePin(c) ==
    /\ pin[c] # Nothing
    /\ pin' = [pin EXCEPT ![c] = Nothing]
    /\ UNCHANGED <<giverVars, call, token, boundVars>>

-----------------------------------------------------------------------------
(* Routing *)

\* select_source: the first bucket with credit, not excluded, of a giver with
\* a PAT that was not found dead.  (First a variant that excludes nothing.)
EligibleAgain(c, exclude) == {s \in room : GiverOf[s] \in stored \ call[c].dead}

Eligible(c, exclude) == {s \in room \ exclude : GiverOf[s] \in stored \ call[c].dead}
SelectSource(c, exclude) ==
    IF Eligible(c, exclude) = {} THEN Nothing
    ELSE CHOOSE s \in Eligible(c, exclude) : \A t \in Eligible(c, exclude) : s <= t

\* pinned_source, with its own look at the bucket.  The PAT is the pinned one.
PinnedSource(c) ==
    IF pin[c] \in room /\ GiverOf[pin[c]] \notin call[c].dead THEN pin[c] ELSE Nothing

Chosen(c) ==
    IF Billable(c) /\ PinnedSource(c) # Nothing THEN PinnedSource(c) ELSE SelectSource(c, {})

\* candidate_givers
Candidates == Self \cup {GiverOf[s] : s \in room}

\* A call is read.  The health gate asks about each candidate giver; a reading
\* is up to 60 s old, so a dry giver need not be found out.
Ask(c, kind) ==
    /\ At(c, "idle")
    /\ calls[c] < MaxCalls
    /\ calls' = [calls EXCEPT ![c] = @ + 1]
    /\ \E found \in SUBSET (dry \cap Candidates) :
         Set(c, [Idle EXCEPT !.stage = "gate", !.kind = kind, !.header = token[c],
                             !.checked = Candidates, !.dead = found])
    /\ UNCHANGED <<giverVars, token, pin, changes>>

\* A token that nobody holds, no open cycle: CTC's own 401 or 503.
Reject(c) ==
    /\ At(c, "idle")
    /\ calls[c] < MaxCalls
    /\ calls' = [calls EXCEPT ![c] = @ + 1]
    /\ Set(c, [Idle EXCEPT !.kind = "unknown", !.status = "blocked", !.answers = 1])
    /\ UNCHANGED <<giverVars, token, pin, changes>>

\* A call that costs nothing goes upstream once, with the PAT of any giver.
Forward(c) ==
    /\ At(c, "idle")
    /\ calls[c] < MaxCalls
    /\ calls' = [calls EXCEPT ![c] = @ + 1]
    /\ Set(c, [Idle EXCEPT !.stage = "sent", !.kind = "free", !.attempts = 1])
    /\ UNCHANGED <<giverVars, token, pin, changes>>

\* No eligible credit: CTC's own 402, and the connection stays open.
Block(c) ==
    /\ At(c, "gate") /\ Billable(c) /\ Chosen(c) = Nothing
    /\ Set(c, [call[c] EXCEPT !.stage = "idle", !.status = "blocked", !.answers = @ + 1])
    /\ UNCHANGED <<giverVars, token, pin, boundVars>>

\* A call for a session token goes upstream on any PAT if no source is eligible.
Route(c) ==
    /\ At(c, "gate")
    /\ Billable(c) => Chosen(c) # Nothing
    /\ Set(c, [call[c] EXCEPT !.stage = "sent", !.source = Chosen(c), !.attempts = 1])
    /\ UNCHANGED <<giverVars, token, pin, boundVars>>

-----------------------------------------------------------------------------
(* What upstream answers *)

Giver(c) == GiverOf[call[c].source]
Mismatch(c) == call[c].header \notin {Nothing, Giver(c)}

Answer(c) ==
    IF call[c].source = Nothing THEN {"200", "error"}
    ELSE {"error"} \cup (IF Giver(c) \in refused THEN {"401"}
                         ELSE IF Billable(c) /\ Mismatch(c) THEN {"selector"}
                         ELSE IF Billable(c) /\ Giver(c) \in dry THEN {"402"}
                         ELSE {"200"})

MaxAttempts(c) == IF Billable(c) THEN Cardinality(call[c].checked) + 1 ELSE 1
MayRetry(c)    == Billable(c) /\ call[c].attempts < MaxAttempts(c)

\* _write_buffered: the answer was read to look at it, and is passed on whole.
PassOn(c, status) ==
    [call[c] EXCEPT !.stage = "relay", !.status = status, !.head = TRUE, !.answers = @ + 1]

\* Variant that neither excludes the source nor counts the attempt.
RetryForEver(c, next) == [call[c] EXCEPT !.source = next]

Retry(c, next) ==
    [call[c] EXCEPT !.source = next, !.attempts = @ + 1, !.exclude = @ \cup {call[c].source}]

\* The giver is spent, or his PAT is rejected: the next source is tried.
FailOver(c, status) ==
    /\ At(c, "sent") /\ MayRetry(c)
    /\ status \in {"402", "401"} \cap Answer(c)
    /\ LET next == SelectSource(c, call[c].exclude \cup {call[c].source})
       IN  Set(c, IF next = Nothing THEN PassOn(c, status) ELSE Retry(c, next))
    /\ UNCHANGED <<giverVars, token, pin, boundVars>>

\* The token belongs to another giver: a new one is asked for with the PAT of
\* the next source.
Bootstrap(c) ==
    /\ At(c, "sent") /\ MayRetry(c)
    /\ "selector" \in Answer(c)
    /\ LET next == SelectSource(c, call[c].exclude \cup {call[c].source})
       IN  Set(c, IF next = Nothing THEN PassOn(c, "401")
                  ELSE [Retry(c, next) EXCEPT !.stage = "heal"])
    /\ UNCHANGED <<giverVars, token, pin, boundVars>>

\* The client is not told of the new token.
Healed(c) ==
    /\ At(c, "heal") /\ Giver(c) \notin refused
    /\ Set(c, [call[c] EXCEPT !.stage = "sent", !.header = Giver(c)])
    /\ pin' = [pin EXCEPT ![c] = call[c].source]
    /\ UNCHANGED <<giverVars, token, boundVars>>

HealFails(c) ==
    /\ At(c, "heal")
    /\ Set(c, PassOn(c, "401"))
    /\ UNCHANGED <<giverVars, token, pin, boundVars>>

\* Any other answer is relayed, and so is a refusal of the last attempt.  A 200
\* counts as burned when the proxy reads its head.
Respond(c, status) ==
    /\ At(c, "sent")
    /\ status \in Answer(c)
    /\ status \in {"402", "401", "selector"} => ~ MayRetry(c)
    /\ Set(c, [call[c] EXCEPT !.stage = "relay", !.status = status,
                              !.burned = IF status = "200" /\ Billable(c)
                                         THEN Append(@, call[c].source) ELSE @])
    /\ UNCHANGED <<giverVars, token, pin, boundVars>>

-----------------------------------------------------------------------------
(* Relay and debit *)

\* A streamed answer: the head, then the events; the charge is in the last one.
SendHead(c) ==
    /\ At(c, "relay") /\ ~ call[c].head
    /\ Set(c, [call[c] EXCEPT !.head = TRUE, !.answers = @ + 1])
    /\ UNCHANGED <<giverVars, token, pin, boundVars>>

SendCharge(c) ==
    /\ At(c, "relay") /\ call[c].head /\ ~ call[c].seen
    /\ Set(c, [call[c] EXCEPT !.seen = TRUE])
    /\ UNCHANGED <<giverVars, token, pin, boundVars>>

\* A short answer is read first and sent in one write.
SendBuffered(c) ==
    /\ At(c, "relay") /\ ~ call[c].head
    /\ Set(c, [call[c] EXCEPT !.head = TRUE, !.seen = TRUE, !.answers = @ + 1])
    /\ UNCHANGED <<giverVars, token, pin, boundVars>>

\* The debit of a 200: what was seen of its charge is booked on the source.
\* It may be refused, which is logged.
Debited(r, booked) ==
    IF r.kind # "billable" \/ r.status # "200" THEN r
    ELSE IF r.seen /\ booked THEN [r EXCEPT !.paid = Append(@, r.source)]
    ELSE [r EXCEPT !.lost = TRUE]

\* Variant that forgets the debit of a call that ends as it should.
FinishUnbilled(c) ==
    /\ At(c, "relay") /\ call[c].head
    /\ Set(c, [call[c] EXCEPT !.stage = "idle"])
    /\ UNCHANGED <<giverVars, token, pin, boundVars>>

\* After a session call the token is the client's, and the source is pinned.
Finish(c) ==
    /\ At(c, "relay") /\ call[c].head
    /\ \E booked \in BOOLEAN : Set(c, [Debited(call[c], booked) EXCEPT !.stage = "idle"])
    /\ IF call[c].kind = "session" /\ call[c].status = "200"
         THEN IF call[c].source = Nothing
                THEN (\E g \in Givers : token' = [token EXCEPT ![c] = g]) /\ UNCHANGED pin
                ELSE /\ token' = [token EXCEPT ![c] = Giver(c)]
                     /\ pin' = [pin EXCEPT ![c] = call[c].source]
         ELSE UNCHANGED <<token, pin>>
    /\ UNCHANGED <<giverVars, boundVars>>

\* Variant that always writes a status line.
FailClientAlways(r) == [r EXCEPT !.stage = "closed", !.answers = @ + 1]

\* _fail_client: after the head only the connection can be cut.
FailClient(r) ==
    [r EXCEPT !.stage = "closed", !.answers = IF r.head THEN @ ELSE @ + 1]

\* Variant without the debit of what was seen.
BreakFree(c) ==
    /\ At(c, "sent") \/ At(c, "relay")
    /\ Set(c, FailClient(call[c]))
    /\ UNCHANGED <<giverVars, token, pin, boundVars>>

\* A timeout, the client gone or upstream cut off: _reconcile_partial_relay.
Break(c) ==
    /\ At(c, "sent") \/ At(c, "relay")
    /\ \E booked \in BOOLEAN : Set(c, FailClient(Debited(call[c], booked)))
    /\ UNCHANGED <<giverVars, token, pin, boundVars>>

\* The proxy stops.  The pins are gone, and so is what was not yet debited.
Crash ==
    /\ \E c \in Clients : ~ At(c, "closed")
    /\ call' = [c \in Clients |->
                  [call[c] EXCEPT !.stage = "closed",
                                  !.lost = @ \/ call[c].burned # call[c].paid]]
    /\ pin' = [c \in Clients |-> Nothing]
    /\ UNCHANGED <<giverVars, token, boundVars>>

\* A new connection, or the next turn of the loop: the locals are new.
Renew(c) ==
    /\ At(c, "closed") \/ At(c, "idle")
    /\ Set(c, Idle)
    /\ UNCHANGED <<giverVars, token, pin, boundVars>>

-----------------------------------------------------------------------------
Refusals == {"402", "401", "selector"}

\* A step of a call on its way to an answer.
Advance(c) ==
    \/ Block(c) \/ Route(c)
    \/ \E status \in Refusals : FailOver(c, status)
    \/ Bootstrap(c) \/ Healed(c) \/ HealFails(c)
    \/ \E status \in Refusals \cup {"200", "error"} : Respond(c, status)
    \/ SendHead(c) \/ SendCharge(c) \/ SendBuffered(c) \/ Finish(c) \/ Break(c)

Next ==
    \/ \E c \in Clients, kind \in {"billable", "session"} : Ask(c, kind)
    \/ \E c \in Clients : Reject(c) \/ Forward(c) \/ Advance(c) \/ Renew(c) \/ ExpirePin(c)
    \/ Crash
    \/ Trade
    \/ \E g \in Givers : Disconnect(g) \/ RunDry(g) \/ Revoke(g)

Spec == Init /\ [][Next]_vars /\ \A c \in Clients : WF_vars(Advance(c))

-----------------------------------------------------------------------------
(* Properties *)

\* No call is retried more often than there are givers to try, and no source
\* is tried twice for one call.
TypeOKServe ==
    /\ room \subseteq Sources /\ stored \subseteq Givers /\ dry \subseteq Givers /\ refused \subseteq Givers
    /\ token \in [Clients -> Givers \cup {Nothing}]
    /\ pin \in [Clients -> Sources \cup {Nothing}]
    /\ \A c \in Clients :
         /\ call[c].stage \in {"idle", "gate", "sent", "heal", "relay", "closed"}
         /\ call[c].kind \in {"none", "billable", "session", "free", "unknown"}
         /\ call[c].source \in Sources \cup {Nothing}
         /\ call[c].exclude \subseteq Sources \ {call[c].source}
         /\ Billable(c) => call[c].attempts <= MaxAttempts(c)

\* A client gets one status line for each call, however the call ends: none is
\* written into a response that has begun, and no call is left without an
\* answer on a connection that stays open.
AnsweredOnce ==
    \A c \in Clients :
        /\ call[c].answers <= 1
        /\ At(c, "idle") /\ call[c].kind # "none" => call[c].answers = 1

\* "debited exactly once on its eventual 200" (docs/reference/metering-contract.md:
\* 245): when a call is over, what it was billed for is what it burned, and the
\* debit was handed the source it burned it with (from which it may spill over,
\* see Debit), unless its charge was never read, the booking was refused, or the
\* proxy stopped.
DebitedOnce ==
    \A c \in Clients :
        /\ Len(call[c].burned) <= 1
        /\ At(c, "idle") \/ At(c, "closed") =>
             IF call[c].lost THEN call[c].paid = << >> ELSE call[c].paid = call[c].burned

\* A call comes to an end, whatever upstream answers and however the credit
\* moves meanwhile: the retries do not go round in circles.
CallEnds ==
    \A c \in Clients : ~ (At(c, "idle") \/ At(c, "closed")) ~> At(c, "idle") \/ At(c, "closed")

\* What the proxy promises of a call (Call): a status line and a debit are given
\* once and never taken back, and every call comes to an end.
Progress(r) == IF r.stage = "idle" THEN "none" ELSE IF r.stage = "closed" THEN "cut" ELSE "open"
Told(r)     == IF r.answers = 0 THEN "no" ELSE IF r.answers = 1 THEN "yes" ELSE "twice"
Bill(r) ==
    IF r.lost THEN "lost"
    ELSE IF r.paid # << >> THEN IF r.paid = r.burned THEN "settled" ELSE "wrong"
    ELSE IF r.burned = << >> THEN "none" ELSE "due"

Promise == INSTANCE Call WITH progress <- [c \in Clients |-> Progress(call[c])],
                              told <- [c \in Clients |-> Told(call[c])],
                              bill <- [c \in Clients |-> Bill(call[c])]

ImplementsCall == Promise!Spec

\* Its steps, without the promise of an end.
CallSteps == Promise!Init /\ [][Promise!Next]_(Promise!vars)

\* "a consumer is blocked only when no eligible bucket has credit [...], never
\* because one arbitrary giver ran dry" (docs/reference/routing-attribution.md:
\* 121-124): a 402 of a spent giver reaches the client only if every source with
\* credit belongs to a giver who is spent, or whose PAT is rejected.
BlockedOnlyWhenDry ==
    \A c \in Clients :
        call[c].status = "402" /\ call[c].answers = 1 => \A s \in room : GiverOf[s] \in dry \cup refused
=============================================================================
