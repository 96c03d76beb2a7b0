-------------------------------- MODULE Wire ---------------------------------
(* The networked transport: createWsTransport (core/adapters/transport-ws.ts)*)
(* on the client's side, attachWsTransport (server/ws-transport.ts) and the  *)
(* in-process host behind it (server/host.ts) on the other. A connection has *)
(* one stream of frames in each direction; a frame is what the codec decoded *)
(* of it. The clients are transports of this library, so frames are requests *)
(* and, last, the end of the connection (close frame or socket event).       *)
EXTENDS Naturals, Sequences, FiniteSets

CONSTANTS Clients, Invocations, Owner, Writes, Blocked  \* as in Calls

ASSUME WireAssumption ==
    /\ Owner \in [Invocations -> Clients]
    /\ Writes \subseteq Invocations
    /\ Blocked \subseteq Invocations

VARIABLES
    phase,     \* a transport's socket: "connecting", "open" or "closed"
    asked,     \* the calls made through a transport; a call's id is its place in it
    pending,   \* ids with an entry in the client's `pending`
    sendQueue, \* frames held back until the socket opens
    outcome,   \* the promise a call returned
    heard,     \* the writes a transport's listeners were told of, in order
    up, down,  \* frames under way
    conn,      \* the server's Connection: "none", "live" or "disposed"
    attached,  \* the upgrade handler is installed
    running,   \* requests a host handler works on
    answers,   \* settled requests whose answer dispatch has not sent yet
    done,      \* calls the host carried out
    log,       \* the broadcasts, in order (history)
    since      \* how many of them preceded a connection (history)

clientVars == <<phase, asked, pending, sendQueue, outcome, heard>>
serverVars == <<conn, attached, running, answers, done, log, since>>
wireVars == <<clientVars, up, down, serverVars>>

Bye == [id |-> 0]

Request == [client : Clients, id : 1..Cardinality(Invocations), call : Invocations]
Event(r) == [event |-> r]

WireInit ==
    /\ phase = [c \in Clients |-> "connecting"]
    /\ asked = [c \in Clients |-> <<>>]
    /\ pending = [c \in Clients |-> {}]
    /\ sendQueue = [c \in Clients |-> <<>>]
    /\ outcome = [r \in Invocations |-> "new"]
    /\ heard = [c \in Clients |-> <<>>]
    /\ up = [c \in Clients |-> <<>>]
    /\ down = [c \in Clients |-> <<>>]
    /\ conn = [c \in Clients |-> "none"]
    /\ attached = TRUE
    /\ running = {} /\ answers = {} /\ done = {}
    /\ log = <<>>
    /\ since = [c \in Clients |-> 0]

------------------------------------------------------------------------------
(* The client's half *)

\* request(): sent at once, kept for the open event, or refused once closed.
Ask(r) ==
    LET c == Owner[r]
        frame == [id |-> Len(asked[c]) + 1, call |-> r] IN
    /\ outcome[r] = "new"
    /\ IF phase[c] = "closed"
       THEN /\ outcome' = [outcome EXCEPT ![r] = "lost"]
            /\ UNCHANGED <<asked, pending, sendQueue, up>>
       ELSE /\ outcome' = [outcome EXCEPT ![r] = "waiting"]
            /\ asked' = [asked EXCEPT ![c] = Append(@, r)]
            /\ pending' = [pending EXCEPT ![c] = @ \cup {frame.id}]
            /\ IF phase[c] = "open"
               THEN up' = [up EXCEPT ![c] = Append(@, frame)] /\ UNCHANGED sendQueue
               ELSE sendQueue' = [sendQueue EXCEPT ![c] = Append(@, frame)] /\ UNCHANGED up
    /\ UNCHANGED <<phase, heard, down, serverVars>>

\* The open event: the requests made meanwhile are sent in their order.
Open(c) ==
    /\ phase[c] = "connecting" /\ conn[c] # "none"
    /\ phase' = [phase EXCEPT ![c] = "open"]
    /\ up' = [up EXCEPT ![c] = @ \o sendQueue[c]]
    /\ sendQueue' = [sendQueue EXCEPT ![c] = <<>>]
    /\ UNCHANGED <<asked, pending, outcome, heard, down, serverVars>>

\* Mutant: an answer settles the oldest request, whichever it is the answer of.
OnResponseInOrder(c, frame) ==
    /\ IF pending[c] # {}
       THEN LET oldest == CHOOSE i \in pending[c] : \A j \in pending[c] : i <= j IN
            /\ outcome' = [outcome EXCEPT ![asked[c][oldest]] = frame.answer]
            /\ pending' = [pending EXCEPT ![c] = @ \ {oldest}]
       ELSE UNCHANGED <<outcome, pending>>
    /\ UNCHANGED heard

\* The response of a settled request is dropped.
OnResponse(c, frame) ==
    /\ IF frame.id \in pending[c]
       THEN /\ outcome' = [outcome EXCEPT ![asked[c][frame.id]] = frame.answer]
            /\ pending' = [pending EXCEPT ![c] = @ \ {frame.id}]
       ELSE UNCHANGED <<outcome, pending>>
    /\ UNCHANGED heard

OnEvent(c, frame) ==
    /\ heard' = [heard EXCEPT ![c] = Append(@, frame.event)]
    /\ UNCHANGED <<outcome, pending>>

OnMessage(c) ==
    /\ phase[c] = "open" /\ down[c] # <<>>
    /\ IF "event" \in DOMAIN Head(down[c]) THEN OnEvent(c, Head(down[c]))
       ELSE OnResponse(c, Head(down[c]))
    /\ down' = [down EXCEPT ![c] = Tail(@)]
    /\ UNCHANGED <<phase, asked, sendQueue, up, serverVars>>

\* Mutant: a request that was not sent yet is forgotten with the queue.
FailAllSent(c) ==
    /\ outcome' = [r \in Invocations |->
          IF \E i \in pending[c] : asked[c][i] = r /\ \A k \in DOMAIN sendQueue[c] : sendQueue[c][k].call # r
          THEN "lost" ELSE outcome[r]]
    /\ pending' = [pending EXCEPT ![c] = {}]
    /\ sendQueue' = [sendQueue EXCEPT ![c] = <<>>]

FailAll(c) ==
    /\ outcome' = [r \in Invocations |->
          IF \E i \in pending[c] : asked[c][i] = r THEN "lost" ELSE outcome[r]]
    /\ pending' = [pending EXCEPT ![c] = {}]
    /\ sendQueue' = [sendQueue EXCEPT ![c] = <<>>]

\* close(), the close event or the error event: what is under way to the server
\* may be lost, and what is under way from it is.
Teardown(c) ==
    /\ phase[c] # "closed"
    /\ phase' = [phase EXCEPT ![c] = "closed"]
    /\ FailAll(c)
    /\ \E arriving \in {up[c], <<>>} : up' = [up EXCEPT ![c] = Append(arriving, Bye)]
    /\ down' = [down EXCEPT ![c] = <<>>]
    /\ UNCHANGED <<asked, heard, serverVars>>

\* The socket reports the end the server put to it, or that nobody took it.
Ended(c) == conn[c] = "disposed" \/ (conn[c] = "none" /\ ~attached)

------------------------------------------------------------------------------
(* The server's half *)

\* The upgrade is taken: the connection listens to the host's broadcasts.
Upgrade(c) ==
    /\ attached /\ phase[c] = "connecting" /\ conn[c] = "none"
    /\ conn' = [conn EXCEPT ![c] = "live"]
    /\ since' = [since EXCEPT ![c] = Len(log)]
    /\ UNCHANGED <<clientVars, up, down, attached, running, answers, done, log>>

\* A connection writes only until it is disposed.
SendJson(c, frame) ==
    down' = IF conn[c] = "live" /\ phase[c] # "closed"
            THEN [down EXCEPT ![c] = Append(@, frame)] ELSE down

Dispose(cs) == conn' = [c \in Clients |-> IF c \in cs THEN "disposed" ELSE conn[c]]

\* dispatch(): an operator-only method is refused before the host sees it.
OnData(c) ==
    LET frame == Head(up[c]) IN
    /\ conn[c] = "live" /\ up[c] # <<>>
    /\ up' = [up EXCEPT ![c] = Tail(@)]
    /\ IF frame = Bye THEN Dispose({c}) /\ UNCHANGED <<down, running>>
       ELSE IF frame.call \in Blocked
       THEN SendJson(c, [id |-> frame.id, answer |-> "error"]) /\ UNCHANGED <<conn, running>>
       ELSE /\ running' = running \cup {[client |-> c, id |-> frame.id, call |-> frame.call]}
            /\ UNCHANGED <<conn, down>>
    /\ UNCHANGED <<clientVars, attached, answers, done, log, since>>

\* The connections subscribed to the host's broadcasts.
Listening == {c \in Clients : conn[c] = "live"}

\* Mutant: only the sockets whose clients have seen them open are written to.
BroadcastOpen(r) ==
    /\ down' = [c \in Clients |->
          IF c \in Listening /\ phase[c] = "open" THEN Append(down[c], Event(r)) ELSE down[c]]
    /\ log' = Append(log, r)

\* host.broadcast: a frame to every connection that listens now.
Broadcast(r) ==
    /\ down' = [c \in Clients |->
          IF c \in Listening /\ phase[c] # "closed" THEN Append(down[c], Event(r)) ELSE down[c]]
    /\ log' = Append(log, r)

\* A handler carries its request out, announces a write and responds.
Perform(q) ==
    /\ q \in running /\ running' = running \ {q}
    /\ done' = done \cup {q.call}
    /\ answers' = answers \cup {[request |-> q, answer |-> "ok"]}
    /\ IF q.call \in Writes THEN Broadcast(q.call) ELSE UNCHANGED <<down, log>>
    /\ UNCHANGED <<clientVars, up, conn, attached, since>>

\* A handler refuses or throws.
Throws(q) ==
    /\ q \in running /\ running' = running \ {q}
    /\ answers' = answers \cup {[request |-> q, answer |-> "error"]}
    /\ UNCHANGED <<clientVars, up, down, conn, attached, done, log, since>>

\* dispatch() goes on after host.request settled.
Respond(a) ==
    /\ a \in answers /\ answers' = answers \ {a}
    /\ SendJson(a.request.client, [id |-> a.request.id, answer |-> a.answer])
    /\ UNCHANGED <<clientVars, up, conn, attached, running, done, log, since>>

\* The handle's close(): no more upgrades, and every connection is closed.
CloseAll ==
    /\ attached /\ attached' = FALSE
    /\ Dispose(Listening)
    /\ UNCHANGED <<clientVars, up, down, running, answers, done, log, since>>

------------------------------------------------------------------------------
WireNext ==
    \/ \E r \in Invocations : Ask(r)
    \/ \E c \in Clients : Open(c) \/ OnMessage(c) \/ Teardown(c) \/ Upgrade(c) \/ OnData(c)
    \/ \E q \in running : Perform(q) \/ Throws(q)
    \/ \E a \in answers : Respond(a)
    \/ CloseAll

Carry(c)  == Open(c) \/ OnMessage(c) \/ Upgrade(c) \/ OnData(c)
Handle(r) == \E q \in running : q.call = r /\ (Perform(q) \/ Throws(q))
Reply(r)  == \E a \in answers : a.request.call = r /\ Respond(a)

\* The network delivers, handlers settle, and a socket reports its end.
WireFairness ==
    /\ \A c \in Clients : WF_wireVars(Carry(c)) /\ WF_wireVars(Ended(c) /\ Teardown(c))
    /\ \A r \in Invocations : WF_wireVars(Handle(r)) /\ WF_wireVars(Reply(r))

WireSpec == WireInit /\ [][WireNext]_wireVars /\ WireFairness
------------------------------------------------------------------------------
(* Properties *)

WireTypeOK ==
    /\ phase \in [Clients -> {"connecting", "open", "closed"}]
    /\ conn \in [Clients -> {"none", "live", "disposed"}]
    /\ outcome \in [Invocations -> {"new", "waiting", "ok", "error", "lost"}]
    /\ running \subseteq Request /\ {a.request : a \in answers} \subseteq Request
    /\ \A c \in Clients : pending[c] \subseteq DOMAIN asked[c]
    /\ done \subseteq Invocations \ Blocked /\ attached \in BOOLEAN

Promise == INSTANCE Calls WITH
    over <- {c \in Clients : phase[c] = "closed"},
    heard <- [c \in Clients |-> {heard[c][i] : i \in DOMAIN heard[c]}]

\* Whatever overtakes what, and whenever either side closes, calls over the wire
\* keep the promise of Calls: each settles exactly once with its own answer, an
\* error means nothing was done, a write's caller hears of the write before its
\* answer, an ended connection fails all its waiting calls at once, and no call
\* waits for ever.
ImplementsCalls == Promise!Spec

\* A connected client misses no broadcast, gets none twice and gets them in the
\* order in which the host made them, from the moment its upgrade was taken.
EventsMirrored ==
    \A c \in Clients : phase[c] # "closed" /\ conn[c] = "live" =>
        LET told  == since[c] + Len(heard[c])
            ahead == told + 1..Len(log)
        IN  /\ told <= Len(log) /\ heard[c] = SubSeq(log, since[c] + 1, told)
            /\ \A n \in ahead : \E i \in DOMAIN down[c] : down[c][i] = Event(log[n])
            /\ \A i \in DOMAIN down[c] :
                 "event" \in DOMAIN down[c][i] => \E n \in ahead : down[c][i] = Event(log[n])
            /\ \A n, m \in ahead, i, j \in DOMAIN down[c] :
                 down[c][i] = Event(log[n]) /\ down[c][j] = Event(log[m]) => (n < m <=> i < j)
=============================================================================
