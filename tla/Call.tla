-------------------------------- MODULE Call --------------------------------
(***************************************************************************)
(* What the proxy promises a consumer and a giver of a call: the consumer  *)
(* gets one answer, the giver's credit is charged at most once and only    *)
(* for what was spent, and neither is taken back.  Serve implements it.    *)
(***************************************************************************)
CONSTANT Clients

VARIABLES
    progress,  \* of each client's current call: "none", "open" or "cut"
    told,      \* whether it has its status line
    bill       \* of what it spent: "none", "due", "settled" or "lost"

vars == <<progress, told, bill>>

Init ==
    /\ progress = [c \in Clients |-> "none"]
    /\ told = [c \in Clients |-> "no"]
    /\ bill = [c \in Clients |-> "none"]

Set(c, p, t, b) ==
    /\ progress' = [progress EXCEPT ![c] = p]
    /\ told' = [told EXCEPT ![c] = t]
    /\ bill' = [bill EXCEPT ![c] = b]

\* What is due is settled, or known to be lost; the rest stays as it is.
Outcomes(b) == IF b = "due" THEN {"settled", "lost"} ELSE {b}

Begin(c) == progress[c] = "none" /\ Set(c, "open", "no", "none")

\* A call that is turned away at once.
TurnAway(c) == progress[c] = "none" /\ Set(c, "none", "yes", "none")

Spend(c) == progress[c] = "open" /\ bill[c] = "none" /\ Set(c, "open", told[c], "due")

Tell(c) == progress[c] = "open" /\ told[c] = "no" /\ Set(c, "open", "yes", bill[c])

End(c) ==
    /\ progress[c] = "open"
    /\ \E b \in Outcomes(bill[c]) : Set(c, "none", "yes", b)

Cut(c) ==
    /\ progress[c] = "open"
    /\ \E b \in Outcomes(bill[c]) : Set(c, "cut", "yes", b)

Renew(c) == progress[c] # "open" /\ Set(c, "none", "no", "none")

\* The proxy stops: calls are cut wherever they are, and no debit follows.
Stop ==
    /\ progress' = [c \in Clients |-> "cut"]
    /\ told' = told
    /\ bill' = [c \in Clients |-> IF bill[c] = "due" THEN "lost" ELSE bill[c]]

Next ==
    \/ \E c \in Clients : \/ Begin(c) \/ TurnAway(c) \/ Spend(c) \/ Tell(c)
                          \/ End(c) \/ Cut(c) \/ Renew(c)
    \/ Stop

Spec == Init /\ [][Next]_vars /\ \A c \in Clients : WF_vars(End(c) \/ Cut(c))
=============================================================================
