----------------------------- MODULE Connection -----------------------------
(***************************************************************************)
(* A client's connection to the proxy (_dispatch, _blind_tunnel, the       *)
(* reading half of _serve), around the calls of Serve.                     *)
(*                                                                         *)
(* The proxy reads a CONNECT and either refuses it, tunnels it blindly, or *)
(* ends its TLS and reads requests from it; a plain request is served      *)
(* once, from the bytes that came in with its head.  A request is taken up *)
(* when its body is complete.  The body is counted in parts: units of data *)
(* for a Content-Length; for a chunked body the size line and the data of  *)
(* each chunk, the last size line and the blank line after the trailers.   *)
(* The client may fall silent or hang up at any part.                      *)
(***************************************************************************)
EXTENDS Serve

CONSTANTS
    MaxBody,           \* bound: units of data in a body
    RESTRICT_CONNECT   \* only hosts of GitHub are connected to

ASSUME ConnectionAssumption == MaxBody \in Nat /\ RESTRICT_CONNECT \in BOOLEAN

VARIABLE conn  \* where each client's connection stands

connVars == <<vars, conn>>

Hosts == {"mitm", "github", "other"}

Line(at, plain, missing) ==
    [at |-> at, plain |-> plain, missing |-> missing,
     framing |-> "length", size |-> 0, read |-> 0]  \* of the body being read

\* No connection.
Down == Line("down", FALSE, 0)

ConnInit == Init /\ conn = [c \in Clients |-> Down]

On(c, at)  == conn[c].at = at
Turn(c, r) == conn' = [conn EXCEPT ![c] = r]
Move(c, at) == Turn(c, Line(at, FALSE, 0))

-----------------------------------------------------------------------------
(* The body *)

Parts(framing, size) == IF framing = "chunked" THEN 2 * size + 2 ELSE size

\* Variant that takes what there is for the body when no more comes.
WholeIfSilent(r) == TRUE

\* A chunked body is complete if the client hangs up after the last size line.
Whole(r) == r.read >= Parts(r.framing, r.size) - (IF r.framing = "chunked" THEN 1 ELSE 0)

\* Bytes that came in with the head and go beyond the Content-Length are cut off.
Assembled(r) ==
    LET units == IF r.framing = "chunked" THEN r.read \div 2 ELSE r.read
    IN  IF units > r.size THEN r.size ELSE units

\* The head of a request, and the parts of its body that come in with it.
Heads(plain) ==
    {r \in [at : {"body"}, plain : {plain}, framing : {"length", "chunked"},
            size : 0 .. MaxBody, read : 0 .. 2 * MaxBody + 2, missing : {0}] :
       IF r.framing = "length" THEN r.read <= r.size + 1
       ELSE r.read <= (IF plain THEN Parts("chunked", r.size) ELSE 0)}

-----------------------------------------------------------------------------
(* Dispatch *)

\* The client connects.
Dial(c) ==
    /\ On(c, "down")
    /\ At(c, "idle") \/ At(c, "closed")
    /\ Renew(c)
    /\ Move(c, "dispatch")

connect_allowed(host) == RESTRICT_CONNECT => host # "other"

\* 403, for a CONNECT and for a plain request.
Refuse(c) ==
    /\ On(c, "dispatch")
    /\ \E host \in Hosts : ~ connect_allowed(host)
    /\ Move(c, "down")
    /\ UNCHANGED vars

\* decide_route: what is neither one of our hosts nor refused is tunnelled.
Connect(c, host) ==
    /\ On(c, "dispatch") /\ connect_allowed(host)
    /\ Move(c, IF host = "mitm" THEN "tls" ELSE "dial")
    /\ UNCHANGED vars

\* The upstream is connected to before the client is told: 200, or 502.
TunnelUp(c) ==
    /\ On(c, "dial")
    /\ Move(c, "tunnel")
    /\ UNCHANGED vars

TunnelFails(c) ==
    /\ On(c, "dial")
    /\ Move(c, "down")
    /\ UNCHANGED vars

TunnelEnds(c) ==
    /\ On(c, "tunnel")
    /\ Move(c, "down")
    /\ UNCHANGED vars

\* start_tls, after the 200.
Handshake(c) ==
    /\ On(c, "tls")
    /\ Move(c, "head")
    /\ UNCHANGED vars

\* Variant that drops the connection wherever it stands.
HangUpAnywhere(c) ==
    /\ ~ On(c, "down")
    /\ Move(c, "down")
    /\ UNCHANGED vars

\* No head in 30 s, one without an end or a request line; a failed handshake.
HangUp(c) ==
    /\ On(c, "dispatch") \/ On(c, "tls") \/ On(c, "head")
    /\ Move(c, "down")
    /\ UNCHANGED vars

-----------------------------------------------------------------------------
(* Requests *)

\* The head of the next request; the one of a plain request is read by _dispatch.
ReadHead(c) ==
    /\ On(c, "head") \/ On(c, "dispatch")
    /\ calls[c] < MaxCalls
    /\ Renew(c)
    /\ \E r \in Heads(On(c, "dispatch")) : Turn(c, r)

\* A part of the body.  (_read_chunked may hold a part of it back for a while.)
ReadPart(c) ==
    /\ On(c, "body") /\ ~ conn[c].plain
    /\ conn[c].read < Parts(conn[c].framing, conn[c].size)
    /\ Turn(c, [conn[c] EXCEPT !.read = @ + 1])
    /\ UNCHANGED vars

\* Variant that waits for the next chunk as long as it takes.
BadLength(c) ==
    /\ On(c, "body") /\ conn[c].framing = "length" /\ ~ Whole(conn[c])
    /\ Move(c, "down")
    /\ UNCHANGED vars

\* RequestBodyError: the client hung up, sent no size line or was silent for
\* 30 s.  400, and the connection is closed.  To a plain request, that is the end
\* of what came in with its head.
BadRequest(c) ==
    /\ On(c, "body") /\ conn[c].read < Parts(conn[c].framing, conn[c].size)
    /\ conn[c].plain => ~ Whole(conn[c])
    /\ Move(c, "down")
    /\ UNCHANGED vars

\* A request with its body enters the loop of Serve.
TakeUp(c) ==
    /\ On(c, "body") /\ Whole(conn[c])
    /\ Reject(c) \/ Forward(c) \/ \E kind \in {"billable", "session"} : Ask(c, kind)
    /\ Turn(c, Line("busy", conn[c].plain, conn[c].size - Assembled(conn[c])))

\* The call goes on.  When it is answered, the next head is read; from a plain
\* connection there is none.
Served(c) ==
    /\ On(c, "busy")
    /\ Advance(c)
    /\ IF call'[c].stage = "idle" THEN Move(c, IF conn[c].plain THEN "down" ELSE "head")
       ELSE IF call'[c].stage = "closed" THEN Move(c, "down")
       ELSE UNCHANGED conn

\* CTC's own answer was enough.
Rejected(c) ==
    /\ On(c, "busy") /\ At(c, "idle")
    /\ Move(c, IF conn[c].plain THEN "down" ELSE "head")
    /\ UNCHANGED vars

Stop ==
    /\ Crash
    /\ conn' = [c \in Clients |-> Down]

-----------------------------------------------------------------------------
\* What comes in from the client, or from the host he is connected to.
Arrive(c) ==
    \/ Dial(c)
    \/ \E host \in Hosts : Connect(c, host)
    \/ Handshake(c) \/ TunnelUp(c) \/ TunnelEnds(c)
    \/ ReadHead(c) \/ ReadPart(c)

\* While the proxy reads or connects, it goes on with what has come in, or a
\* timeout of its own runs out.
Conclude(c) ==
    Refuse(c) \/ HangUp(c) \/ TunnelFails(c) \/ BadRequest(c) \/ TakeUp(c)

\* While it serves, it writes, and writer.drain() has no timeout.
Attend(c) == Served(c) \/ Rejected(c)

Around ==
    \/ \E c \in Clients : ExpirePin(c)
    \/ Trade
    \/ \E g \in Givers : Disconnect(g) \/ RunDry(g) \/ Revoke(g)

ConnNext ==
    \/ \E c \in Clients : Arrive(c) \/ Conclude(c) \/ Attend(c)
    \/ Around /\ UNCHANGED conn
    \/ Stop

\* Of the client, only the fairness of Attend asks something: to read what is
\* written to him, or to close.
ConnSpec ==
    /\ ConnInit /\ [][ConnNext]_connVars
    /\ \A c \in Clients : WF_connVars(Conclude(c)) /\ WF_connVars(Attend(c))

-----------------------------------------------------------------------------
(* Properties *)

\* No request is taken up, and forwarded and charged, with less of its body than
\* its head announced ("Rather than forward a truncated/corrupt body upstream
\* [...], the proxy replies 400 and closes", proxy.py:446-448), wherever in the
\* body the client stops.
WholeBody ==
    \A c \in Clients : On(c, "busy") => conn[c].missing = 0

\* Who stops sending, in a head, in a handshake or in a body of any framing, or
\* asks for a host that does not answer, does not keep the proxy reading: the
\* connection goes down, becomes a tunnel, or its request is served.  That needs no
\* step of the client or the host.  (A response that is not read is another matter:
\* see Attend.)
Reading(c) == \E at \in {"dispatch", "tls", "dial", "head", "body"} : On(c, at)
ReadingEnds == \A c \in Clients : Reading(c) ~> ~ Reading(c)

\* What is shown of Serve holds on every connection: no call is begun before the
\* last one is over, and none is abandoned when its connection goes.
ImplementsServe == Spec
=============================================================================
