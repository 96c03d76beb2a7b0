------------------------------- MODULE Frames --------------------------------
(* One socket of the WebSocket endpoint, byte by byte: how                   *)
(* server/src/ws-transport.ts cuts what TCP delivers into frames, frames     *)
(* into messages and messages into requests. The client has written `script`;*)
(* its bytes arrive in chunks of any size. A frame has a length and a name   *)
(* for what it says; lengths are small, with the three forms of the header   *)
(* at Medium and Large and the cap of a message at MaxMessage.               *)
EXTENDS Naturals, Sequences, FiniteSets, SequencesExt

CONSTANTS Medium,      \* shortest payload with a 16-bit length (126)
          Large,       \* shortest payload with a 64-bit length (65536)
          MaxMessage,  \* MAX_MESSAGE_BYTES
          Scripts      \* bound: what a client writes

ASSUME FrameAssumption ==
    /\ Medium \in Nat /\ Large \in Nat /\ MaxMessage \in Nat
    /\ Medium <= Large
    /\ Scripts \subseteq Seq([op : STRING, says : STRING, length : Nat,
                             fin : BOOLEAN, masked : BOOLEAN])

VARIABLES script,   \* the frames the client writes, in order
          arrived,  \* how many of their bytes the server received
          peer,     \* the server's Connection
          gone      \* why the socket is over, if not for a frame

frameVars == <<script, arrived, peer, gone>>

\* next: the frame at the head of `buffer`; a message is the frames it came in.
NewPeer == [next |-> 1, buffered |-> 0, fragments |-> <<>>, fragmentBytes |-> 0,
          dispatched |-> <<>>, asked |-> {}, written |-> <<>>, closed |-> FALSE]

FramesInit ==
    /\ script \in Scripts
    /\ arrived = 0
    /\ peer = NewPeer
    /\ gone = "no"

-----------------------------------------------------------------------------
\* What the numbers of a sequence come to.
SumOf(numbers) ==
    LET sum[n \in 0..Len(numbers)] == IF n = 0 THEN 0 ELSE sum[n - 1] + numbers[n]
    IN  sum[Len(numbers)]

-----------------------------------------------------------------------------
(* decodeFrame *)

LengthBytes(f) == IF f.length < Medium THEN 0 ELSE IF f.length < Large THEN 2 ELSE 8
HeaderSize(f)  == 2 + LengthBytes(f)
Consumed(f)    == HeaderSize(f) + 4 + f.length

\* (mutant) The cap is tested once the payload is there.
DecodeBuffering(p) ==
    IF p.next > Len(script) \/ p.buffered < 2 THEN "incomplete"
    ELSE LET f == script[p.next] IN
         IF ~f.masked THEN "error"
         ELSE IF p.buffered < Consumed(f) THEN "incomplete"
         ELSE IF f.length > MaxMessage THEN "error"
         ELSE "ok"

\* What the bytes at the head of the buffer are.
Decode(p) ==
    IF p.next > Len(script) \/ p.buffered < 2 THEN "incomplete"
    ELSE LET f == script[p.next] IN
         IF ~f.masked THEN "error"
         ELSE IF p.buffered < HeaderSize(f) THEN "incomplete"
         ELSE IF f.length > MaxMessage THEN "error"
         ELSE IF p.buffered < Consumed(f) THEN "incomplete"
         ELSE "ok"

-----------------------------------------------------------------------------
(* The Connection *)

Write(p, what) == [p EXCEPT !.written = Append(@, what)]

\* sendJson: nothing is written on a closed connection.
SendReply(p, what) == IF p.closed THEN p ELSE Write(p, what)

EndPeer(p) == [p EXCEPT !.closed = TRUE]

\* fail(), and the echo of a close frame.
Fail(p) == EndPeer(SendReply(p, [op |-> "close"]))

Answer(message, ok) == [op |-> "text", to |-> message, ok |-> ok]

\* What a message is, by the frame it begins with.
DispatchMessage(p, message) ==
    LET says == script[Head(message)].says
        q    == [p EXCEPT !.dispatched = Append(@, message)]
    IN  CASE says \in {"no JSON", "no id"} -> q
          [] says \in {"no method", "operator method"} -> SendReply(q, Answer(message, FALSE))
          [] OTHER -> [q EXCEPT !.asked = @ \cup {message}]

\* (mutant) The fragments of a message stay for the next one.
ReassembleKept(p, f, i) ==
    LET q == [p EXCEPT !.fragments = Append(@, i), !.fragmentBytes = @ + f.length] IN
    IF q.fragmentBytes > MaxMessage THEN Fail(q)
    ELSE IF ~f.fin THEN q
    ELSE DispatchMessage([q EXCEPT !.fragmentBytes = 0], q.fragments)

\* Text and continuation frames make a message; the cap is for the whole of it.
Reassemble(p, f, i) ==
    LET q == [p EXCEPT !.fragments = Append(@, i), !.fragmentBytes = @ + f.length] IN
    IF q.fragmentBytes > MaxMessage THEN Fail(q)
    ELSE IF ~f.fin THEN q
    ELSE DispatchMessage([q EXCEPT !.fragments = <<>>, !.fragmentBytes = 0], q.fragments)

\* A ping is answered even after the connection closed, by a write nobody reads.
HandleFrame(p, f, i) ==
    CASE f.op = "ping" -> Write(p, [op |-> "pong"])
      [] f.op = "pong" -> p
      [] f.op \in {"text", "continuation"} -> Reassemble(p, f, i)
      [] OTHER -> Fail(p)  \* close, binary, and opcodes it does not know

TakeFrame(p) ==
    LET i == p.next IN
    HandleFrame([p EXCEPT !.next = i + 1, !.buffered = @ - Consumed(script[i])], script[i], i)

\* One turn of onData's loop; after an error it changes nothing more.
Turn(p) ==
    CASE Decode(p) = "ok" -> TakeFrame(p)
      [] Decode(p) = "error" -> Fail(p)
      [] OTHER -> p

\* The loop goes on behind a frame that closed the connection, for as many turns as
\* there may be frames.
OnChunk(p, bytes) ==
    LET after[n \in 0..Len(script)] ==
          IF n = 0 THEN [p EXCEPT !.buffered = @ + bytes] ELSE Turn(after[n - 1])
    IN  after[Len(script)]

\* The bytes of the first n frames.
Bytes(n) == SumOf([i \in 1..n |-> Consumed(script[i])])

\* TCP delivers what it likes of what was written.
ChunkArrives(bytes) ==
    /\ ~peer.closed
    /\ arrived + bytes <= Bytes(Len(script))
    /\ arrived' = arrived + bytes
    /\ peer' = OnChunk(peer, bytes)
    /\ UNCHANGED <<script, gone>>

\* host.request settles, either way.
HostAnswers(message, ok) ==
    /\ message \in peer.asked
    /\ peer' = SendReply([peer EXCEPT !.asked = @ \ {message}], Answer(message, ok))
    /\ UNCHANGED <<script, arrived, gone>>

\* WsTransportHandle.close.
ServerCloses ==
    /\ ~peer.closed
    /\ peer' = Fail(peer)
    /\ gone' = "server"
    /\ UNCHANGED <<script, arrived>>

\* The socket's error and close events.
SocketDies ==
    /\ ~peer.closed
    /\ peer' = EndPeer(peer)
    /\ gone' = "socket"
    /\ UNCHANGED <<script, arrived>>

FramesNext ==
    \/ \E bytes \in 1..Bytes(Len(script)) : ChunkArrives(bytes)
    \/ \E message \in peer.asked, ok \in BOOLEAN : HostAnswers(message, ok)
    \/ ServerCloses
    \/ SocketDies

FramesSpec == FramesInit /\ [][FramesNext]_frameVars

-----------------------------------------------------------------------------
(* What the endpoint promises, of the script and not of its buffers *)

Data(i) == script[i].op \in {"text", "continuation"}
EndsMessage(i) == Data(i) /\ script[i].fin

\* The frames of the message that frame i belongs to, up to i.
MessageOf(i) == {j \in 1..i : Data(j) /\ \A k \in j..(i - 1) : ~EndsMessage(k)}
SizeTo(i)    == SumOf([j \in 1..i |-> IF j \in MessageOf(i) THEN script[j].length ELSE 0])

\* A frame the connection does not survive, and the bytes that are enough to tell.
Refused(i) == \/ ~script[i].masked
              \/ script[i].length > MaxMessage
              \/ ~Data(i) /\ script[i].op \notin {"ping", "pong"}
              \/ Data(i) /\ SizeTo(i) > MaxMessage
Telling(i) == Bytes(i - 1) + (IF ~script[i].masked THEN 2
                              ELSE IF script[i].length > MaxMessage
                              THEN HeaderSize(script[i]) ELSE Consumed(script[i]))
SoundTo(i)   == \A j \in 1..i : ~Refused(j)

\* The numbers of a finite set in order: the nth has n - 1 below it.
MemberOf(S)  == CHOOSE x \in S : TRUE
InOrderOf(S) == [n \in 1..Cardinality(S) |->
                   MemberOf({x \in S : Cardinality({y \in S : y < x}) = n - 1})]

\* The messages that end with some frames.
Messages(last) ==
    [n \in 1..Cardinality(last) |-> InOrderOf(MessageOf(InOrderOf(last)[n]))]

\* The messages whose last byte arrived before anything was refused.
Complete == Messages({i \in DOMAIN script : EndsMessage(i) /\ SoundTo(i) /\ Bytes(i) <= arrived})

RefusedArrived == \E i \in DOMAIN script : Refused(i) /\ SoundTo(i - 1) /\ Telling(i) <= arrived

Closes == {n \in DOMAIN peer.written : peer.written[n].op = "close"}
Replies(message) == {n \in DOMAIN peer.written :
                        peer.written[n].op = "text" /\ peer.written[n].to = message}

\* However the bytes were cut into chunks and the messages into frames, the
\* endpoint has taken exactly the messages that arrived whole, each from its own
\* frames and in order (behind a refused frame it may take what came with it);
\* it closes on the first frame it refuses, at the first byte that tells, with
\* one close frame and no answer after it, and answers a message once at most.
FramesWhole ==
    /\ IsPrefix(Complete, peer.dispatched)
    /\ ~RefusedArrived => peer.dispatched = Complete
    /\ peer.closed <=> RefusedArrived \/ gone # "no"
    /\ Cardinality(Closes) = (IF peer.closed /\ gone # "socket" THEN 1 ELSE 0)
    /\ \A n \in Closes, k \in DOMAIN peer.written :
         peer.written[k].op = "text" => k < n
    /\ \A n \in DOMAIN peer.dispatched : Cardinality(Replies(peer.dispatched[n])) <= 1
=============================================================================
