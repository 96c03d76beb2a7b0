----------------------------- MODULE WireProofs -----------------------------
(***************************************************************************)
(* Calls over the wire keep the promise of Calls, and a connected client   *)
(* mirrors the host's broadcasts, for any number of clients and calls.     *)
(*                                                                         *)
(* The argument follows one call, known by its client and id, along its    *)
(* way: queued, handled, answered, settled. A call that is still under way *)
(* to its handler was not carried out and has no answer anywhere, so an    *)
(* answer, wherever it is, says what the host did and will have done.      *)
(*                                                                         *)
(* Frames: the endpoint takes the messages of a client whole, however many *)
(* frames they came in and wherever TCP cut them, for every script, every  *)
(* cap and every form of the length.                                       *)
(***************************************************************************)
EXTENDS Wire, Frames, FiniteSetTheorems, SequenceTheorems, WellFoundedInduction, TLAPS

Frame == [id : Nat \ {0}, call : Invocations]
Handled == [client : Clients, id : Nat \ {0}, call : Invocations]
EventFrame == [event : Writes]
AnswerFrame == [id : Nat \ {0}, answer : {"ok", "error"}]

WireTypes ==
  /\ phase \in [Clients -> {"connecting", "open", "closed"}]
  /\ asked \in [Clients -> Seq(Invocations)]
  /\ pending \in [Clients -> SUBSET (Nat \ {0})]
  /\ sendQueue \in [Clients -> Seq(Frame)]
  /\ outcome \in [Invocations -> {"new", "waiting", "ok", "error", "lost"}]
  /\ heard \in [Clients -> Seq(Writes)]
  /\ up \in [Clients -> Seq(Frame \cup {Bye})]
  /\ down \in [Clients -> Seq(EventFrame \cup AnswerFrame)]
  /\ conn \in [Clients -> {"none", "live", "disposed"}]
  /\ attached \in BOOLEAN
  /\ running \subseteq Handled
  /\ answers \subseteq [request : Handled, answer : {"ok", "error"}]
  /\ done \subseteq Invocations
  /\ log \in Seq(Writes)
  /\ since \in [Clients -> Nat]

\* An id stands for one call of its client, and it has an entry in `pending` as long
\* as the call's promise waits.
AskedOnce ==
  \A c \in Clients :
    /\ \A i \in DOMAIN asked[c] :
         /\ Owner[asked[c][i]] = c /\ outcome[asked[c][i]] # "new"
         /\ i \in pending[c] <=> outcome[asked[c][i]] = "waiting"
    /\ \A i, j \in DOMAIN asked[c] : asked[c][i] = asked[c][j] => i = j
    /\ pending[c] \subseteq DOMAIN asked[c]

\* A call that waits has an id, and a call that was carried out was made.
WaitersKnown ==
  /\ \A r \in Invocations : outcome[r] = "waiting" =>
       \E i \in DOMAIN asked[Owner[r]] : asked[Owner[r]][i] = r
  /\ \A r \in done : outcome[r] # "new"

\* Where the frames of a socket are in each phase of its two ends.
QueuesInTurn ==
  \A c \in Clients :
    /\ phase[c] = "connecting" => up[c] = <<>>
    /\ phase[c] # "connecting" => sendQueue[c] = <<>>
    /\ phase[c] = "closed" => down[c] = <<>> /\ pending[c] = {}
    /\ conn[c] = "none" => down[c] = <<>> /\ heard[c] = <<>>
    /\ \A k \in DOMAIN up[c] : up[c][k].id = 0 => phase[c] = "closed"
    /\ \A k, n \in DOMAIN up[c] : up[c][k].id = up[c][n].id => k = n
    /\ \A k, n \in DOMAIN sendQueue[c] : sendQueue[c][k].id = sendQueue[c][n].id => k = n

IsCall(c, i, r) == i \in DOMAIN asked[c] /\ asked[c][i] = r

\* A frame, a request and an answer name the call their id was given to.
Matched ==
  /\ \A c \in Clients :
       /\ \A k \in DOMAIN up[c] :
            up[c][k].id # 0 => up[c][k] \in Frame /\ IsCall(c, up[c][k].id, up[c][k].call)
       /\ \A k \in DOMAIN sendQueue[c] : IsCall(c, sendQueue[c][k].id, sendQueue[c][k].call)
       /\ \A k \in DOMAIN down[c] : down[c][k] \in AnswerFrame => down[c][k].id \in DOMAIN asked[c]
  /\ \A q \in running : IsCall(q.client, q.id, q.call) /\ conn[q.client] # "none"
  /\ \A a \in answers :
       IsCall(a.request.client, a.request.id, a.request.call) /\ conn[a.request.client] # "none"

Sent(c, i)   == \E k \in DOMAIN up[c] : up[c][k].id = i
Held(c, i)   == \E k \in DOMAIN sendQueue[c] : sendQueue[c][k].id = i
Worked(c, i) == \E q \in running : q.client = c /\ q.id = i
UnderWay(c, i) == Sent(c, i) \/ Held(c, i) \/ Worked(c, i)

\* A call that its handler has yet to finish was not carried out or answered.
Unfinished ==
  \A c \in Clients, i \in Nat \ {0} : UnderWay(c, i) =>
    /\ asked[c][i] \notin done
    /\ outcome[asked[c][i]] \in {"waiting", "lost"}
    /\ ~(Worked(c, i) /\ (Sent(c, i) \/ Held(c, i)))
    /\ ~\E a \in answers : a.request.client = c /\ a.request.id = i
    /\ ~\E k \in DOMAIN down[c] : down[c][k] \in AnswerFrame /\ down[c][k].id = i

\* An answer says what was done; an operator-only call is not done.
AnswersTrue ==
  /\ \A a \in answers : a.answer = "ok" <=> a.request.call \in done
  /\ \A c \in Clients : \A k \in DOMAIN down[c] :
       down[c][k] \in AnswerFrame => (down[c][k].answer = "ok" <=> asked[c][down[c][k].id] \in done)
  /\ \A q \in running : q.call \notin Blocked

Knows(c, r) == (\E i \in DOMAIN heard[c] : heard[c][i] = r) \/ (\E j \in DOMAIN down[c] : down[c][j] = Event(r))

\* The event of a write is on its way to the caller before the answer is.
AnswersFollow ==
  \A a \in answers :
    /\ a.answer = "ok" /\ a.request.call \in Writes
    /\ conn[a.request.client] = "live" /\ phase[a.request.client] # "closed"
    => Knows(a.request.client, a.request.call)

FramesFollow ==
  \A c \in Clients : \A k \in DOMAIN down[c] :
    /\ down[c][k] \in AnswerFrame
    /\ down[c][k].answer = "ok" /\ asked[c][down[c][k].id] \in Writes
    => \/ \E i \in DOMAIN heard[c] : heard[c][i] = asked[c][down[c][k].id]
       \/ \E j \in DOMAIN down[c] : j < k /\ down[c][j] = Event(asked[c][down[c][k].id])

EventFirst == AnswersFollow /\ FramesFollow

\* What is announced was done, and is announced once.
Announced ==
  /\ \A n \in DOMAIN log : log[n] \in done
  /\ \A n, m \in DOMAIN log : log[n] = log[m] => n = m
  /\ \A c \in Clients : \A k \in DOMAIN down[c] : down[c][k] \in EventFrame => down[c][k].event \in done

Told(c) == since[c] + Len(heard[c])

Ahead(c) == Told(c) + 1..Len(log)

\* What a client was told of, and what is on its way to it, is the log since its upgrade.
Mirrors(c) ==
  /\ Told(c) <= Len(log)
  /\ heard[c] = SubSeq(log, since[c] + 1, Told(c))
  /\ \A n \in Ahead(c) : \E i \in DOMAIN down[c] : down[c][i] = Event(log[n])
  /\ \A i \in DOMAIN down[c] : down[c][i] \in EventFrame =>
       \E n \in Ahead(c) : down[c][i] = Event(log[n])
  /\ \A n, m \in Ahead(c), i, j \in DOMAIN down[c] :
       down[c][i] = Event(log[n]) /\ down[c][j] = Event(log[m]) => (n < m <=> i < j)

Mirrored == \A c \in Clients : phase[c] # "closed" /\ conn[c] = "live" => Mirrors(c)

WireInv ==
  /\ WireTypes /\ AskedOnce /\ WaitersKnown /\ QueuesInTurn /\ Matched
  /\ Unfinished /\ AnswersTrue /\ EventFirst /\ Announced /\ Mirrored

-----------------------------------------------------------------------------
LEMMA AppendTo ==
    ASSUME NEW S, NEW s \in Seq(S), NEW x \in S
    PROVE  /\ Append(s, x) \in Seq(S) /\ Len(Append(s, x)) = Len(s) + 1 /\ Len(s) \in Nat
           /\ DOMAIN s = 1..Len(s) /\ DOMAIN Append(s, x) = 1..Len(s) + 1
           /\ \A k \in DOMAIN s : Append(s, x)[k] = s[k]
           /\ Append(s, x)[Len(s) + 1] = x
           /\ \A k \in DOMAIN s : k \in DOMAIN Append(s, x)
           /\ \A k \in DOMAIN Append(s, x) :
                k \in DOMAIN s \/ (k = Len(s) + 1 /\ \A j \in DOMAIN s : j < k)
<1>1. /\ Append(s, x) \in Seq(S) /\ Len(Append(s, x)) = Len(s) + 1 /\ Len(s) \in Nat
      /\ DOMAIN s = 1..Len(s) /\ DOMAIN Append(s, x) = 1..Len(s) + 1
      /\ \A k \in DOMAIN s : Append(s, x)[k] = s[k]
      /\ Append(s, x)[Len(s) + 1] = x
  OBVIOUS
<1>2. QED
  BY <1>1

LEMMA TailOf ==
    ASSUME NEW S, NEW s \in Seq(S), s # <<>>
    PROVE  /\ Head(s) \in S /\ Head(s) = s[1] /\ 1 \in DOMAIN s
           /\ Tail(s) \in Seq(S) /\ Len(s) \in Nat \ {0} /\ Len(Tail(s)) = Len(s) - 1
           /\ DOMAIN s = 1..Len(s) /\ DOMAIN Tail(s) = 1..Len(s) - 1
           /\ \A k \in DOMAIN Tail(s) : k + 1 \in DOMAIN s /\ Tail(s)[k] = s[k + 1]
  OBVIOUS

LEMMA FrameKinds ==
    /\ \A f \in Frame : f.id \in Nat \ {0} /\ f.call \in Invocations
    /\ Bye.id = 0 /\ Bye \notin Frame
    /\ \A f \in Frame \cup {Bye} : (f = Bye <=> f.id = 0) /\ (f.id # 0 => f \in Frame)
  BY DEF Frame, Bye

LEMMA MailKinds ==
    /\ \A f \in AnswerFrame : f.id \in Nat \ {0} /\ f.answer \in {"ok", "error"}
    /\ \A f \in EventFrame : f.event \in Writes
    /\ \A f \in AnswerFrame : f \notin EventFrame /\ "event" \notin DOMAIN f
    /\ \A f \in EventFrame : f \notin AnswerFrame /\ "event" \in DOMAIN f
    /\ \A r \in Writes : Event(r) \in EventFrame /\ Event(r).event = r
    /\ \A f \in EventFrame : f = Event(f.event)
  BY DEF AnswerFrame, EventFrame, Event

LEMMA RequestKinds ==
    /\ \A q \in Handled : q.client \in Clients /\ q.id \in Nat \ {0} /\ q.call \in Invocations
    /\ \A a \in [request : Handled, answer : {"ok", "error"}] :
         a.request \in Handled /\ a.answer \in {"ok", "error"}
    /\ \A p, q \in Handled : p.client = q.client /\ p.id = q.id /\ p.call = q.call => p = q
  BY DEF Handled

LEMMA MirroredMeans == WireTypes => (Mirrored <=> EventsMirrored)
<1> SUFFICES ASSUME WireTypes PROVE Mirrored <=> EventsMirrored
  OBVIOUS
<1>1. \A c \in Clients : \A i \in DOMAIN down[c] :
        down[c][i] \in EventFrame <=> "event" \in DOMAIN down[c][i]
  <2>1. ASSUME NEW c \in Clients, NEW i \in DOMAIN down[c]
        PROVE  down[c][i] \in EventFrame \cup AnswerFrame
    BY DEF WireTypes
  <2>2. QED
    BY <2>1, MailKinds
<1>2. ASSUME NEW c \in Clients
      PROVE  Mirrors(c) <=>
        LET told  == since[c] + Len(heard[c])
            ahead == told + 1..Len(log)
        IN  /\ told <= Len(log) /\ heard[c] = SubSeq(log, since[c] + 1, told)
            /\ \A n \in ahead : \E i \in DOMAIN down[c] : down[c][i] = Event(log[n])
            /\ \A i \in DOMAIN down[c] :
                 "event" \in DOMAIN down[c][i] => \E n \in ahead : down[c][i] = Event(log[n])
            /\ \A n, m \in ahead, i, j \in DOMAIN down[c] :
                 down[c][i] = Event(log[n]) /\ down[c][j] = Event(log[m]) => (n < m <=> i < j)
  BY <1>1 DEF Mirrors, Ahead, Told
<1>3. QED
  BY <1>2, Zenon DEF Mirrored, EventsMirrored

LEMMA WireInitial == WireInit => WireInv
<1> SUFFICES ASSUME WireInit PROVE WireInv
  OBVIOUS
<1>1. WireTypes
  BY DEF WireInit, WireTypes
<1>2. AskedOnce /\ WaitersKnown /\ QueuesInTurn /\ Matched /\ Announced /\ AnswersTrue /\ EventFirst
  BY WireAssumption
     DEF WireInit, AskedOnce, WaitersKnown, QueuesInTurn, Matched, Announced, AnswersTrue, EventFirst, AnswersFollow, FramesFollow
<1>3. Unfinished
  BY DEF WireInit, Unfinished, UnderWay, Sent, Held, Worked
<1>4. Mirrored
  BY DEF WireInit, Mirrored
<1>5. QED
  BY <1>1, <1>2, <1>3, <1>4 DEF WireInv

-----------------------------------------------------------------------------
(***************************************************************************)
(* The steps that move no frame                                            *)
(***************************************************************************)

LEMMA UpgradeInv ==
    ASSUME WireInv, NEW c \in Clients, Upgrade(c)
    PROVE  WireInv'
<1>1. /\ phase[c] = "connecting" /\ conn[c] = "none"
      /\ conn' = [conn EXCEPT ![c] = "live"] /\ since' = [since EXCEPT ![c] = Len(log)]
      /\ UNCHANGED <<phase, asked, pending, sendQueue, outcome, heard, up, down, attached,
                     running, answers, done, log>>
  BY DEF Upgrade, clientVars
<1> USE DEF WireInv
<1>2. WireTypes'
  BY SMTT(30), <1>1 DEF WireTypes
<1>3. \A d \in Clients : d # c => conn'[d] = conn[d] /\ since'[d] = since[d]
  BY <1>1 DEF WireTypes
<1>4. conn'[c] = "live" /\ since'[c] = Len(log) /\ down[c] = <<>> /\ heard[c] = <<>>
  BY <1>1 DEF WireTypes, QueuesInTurn
<1>5. AskedOnce' /\ WaitersKnown' /\ Announced' /\ AnswersTrue'
  BY <1>1 DEF AskedOnce, WaitersKnown, Announced, AnswersTrue
<1>6. QueuesInTurn'
  BY <1>1, <1>3, <1>4 DEF QueuesInTurn
<1>7. Matched'
  BY <1>1, <1>3, <1>4, RequestKinds DEF Matched, IsCall, WireTypes
<1>8. Unfinished'
  BY <1>1 DEF Unfinished, UnderWay, Sent, Held, Worked
<1>9. EventFirst'
  <2>1. \A a \in answers : a.request.client \in Clients /\ a.request.client # c
    BY <1>1, RequestKinds DEF Matched, WireTypes
  <2>2. QED
    BY <1>1, <1>3, <2>1 DEF EventFirst, AnswersFollow, FramesFollow, Knows
<1>10. Mirrored'
  <2>1. Told(c)' = Len(log) /\ Len(log) \in Nat /\ log \in Seq(Writes) /\ Ahead(c)' = {}
    BY <1>1, <1>4 DEF Told, WireTypes, Ahead
  <2>2. Mirrors(c)'
    BY <1>1, <1>4, <2>1 DEF Mirrors
  <2>3. ASSUME NEW d \in Clients, d # c, Mirrors(d)
        PROVE  Mirrors(d)'
    BY <1>1, <1>3, <2>3 DEF Mirrors, Ahead, Told
  <2>4. QED
    BY <1>1, <1>3, <2>2, <2>3 DEF Mirrored
<1>11. QED
  BY <1>2, <1>5, <1>6, <1>7, <1>8, <1>9, <1>10

LEMMA CloseAllInv ==
    ASSUME WireInv, CloseAll
    PROVE  WireInv'
<1>1. /\ attached' = FALSE /\ conn' = [c \in Clients |-> IF c \in Listening THEN "disposed" ELSE conn[c]]
      /\ UNCHANGED <<phase, asked, pending, sendQueue, outcome, heard, up, down,
                     running, answers, done, log, since>>
  BY DEF CloseAll, clientVars, Dispose
<1> USE DEF WireInv
<1>2. /\ \A c \in Clients : conn'[c] # "live" /\ (conn'[c] = "none" <=> conn[c] = "none")
      /\ conn' \in [Clients -> {"none", "live", "disposed"}]
  BY <1>1 DEF WireTypes, Listening
<1>3. WireTypes'
  BY <1>1, <1>2 DEF WireTypes
<1>4. AskedOnce' /\ WaitersKnown' /\ Announced' /\ AnswersTrue'
  BY <1>1 DEF AskedOnce, WaitersKnown, Announced, AnswersTrue
<1>5. QueuesInTurn'
  BY <1>1, <1>2 DEF QueuesInTurn
<1>6. Matched'
  BY <1>1, <1>2, RequestKinds DEF Matched, IsCall, WireTypes
<1>7. Unfinished'
  BY <1>1 DEF Unfinished, UnderWay, Sent, Held, Worked
<1>8. EventFirst'
  BY <1>1, <1>2, RequestKinds DEF EventFirst, AnswersFollow, FramesFollow, WireTypes
<1>9. Mirrored'
  BY <1>1, <1>2 DEF Mirrored
<1>10. QED
  BY <1>3, <1>4, <1>5, <1>6, <1>7, <1>8, <1>9

\* A handler that fails leaves an error, true as long as the call is not done: and it
\* is no longer under way.
LEMMA ThrowsInv ==
    ASSUME WireInv, NEW q \in running, Throws(q)
    PROVE  WireInv'
<1> DEFINE b == [request |-> q, answer |-> "error"]
<1>1. /\ running' = running \ {q} /\ answers' = answers \cup {b}
      /\ UNCHANGED <<phase, asked, pending, sendQueue, outcome, heard, up, down,
                     conn, attached, done, log, since>>
  BY DEF Throws, clientVars
<1> USE DEF WireInv
<1>2. /\ q \in Handled /\ b \in [request : Handled, answer : {"ok", "error"}]
      /\ b.request = q /\ b.answer = "error"
  BY DEF WireTypes
<1>3. /\ q.client \in Clients /\ q.id \in Nat \ {0} /\ IsCall(q.client, q.id, q.call)
      /\ conn[q.client] # "none" /\ Worked(q.client, q.id)
  BY <1>2, RequestKinds DEF Matched, Worked
<1>4. q.call \notin done
  BY <1>3 DEF Unfinished, UnderWay, IsCall
<1> HIDE DEF b
<1>5. WireTypes'
  BY <1>1, <1>2 DEF WireTypes
<1>6. AskedOnce' /\ WaitersKnown' /\ Announced' /\ QueuesInTurn'
  BY <1>1 DEF AskedOnce, WaitersKnown, Announced, QueuesInTurn
<1>7. Matched'
  BY <1>1, <1>2, <1>3 DEF Matched, IsCall
<1>8. AnswersTrue'
  BY <1>1, <1>2, <1>4 DEF AnswersTrue
<1>9. EventFirst'
  BY <1>1, <1>2 DEF EventFirst, AnswersFollow, FramesFollow, Knows
<1>10. Mirrored'
  BY <1>1 DEF Mirrored, Mirrors, Ahead, Told
<1>11. Unfinished'
  <2>1. ASSUME NEW p \in running, p.client = q.client, p.id = q.id
        PROVE  p = q
    <3>1. p.call = q.call
      BY <1>3, <2>1 DEF Matched, IsCall
    <3>2. QED
      BY <1>2, <2>1, <3>1, RequestKinds DEF WireTypes
  <2>2. ASSUME NEW c \in Clients, NEW i \in Nat \ {0}, UnderWay(c, i)'
        PROVE  /\ UnderWay(c, i) /\ (Worked(c, i)' => Worked(c, i))
               /\ ~(c = q.client /\ i = q.id)
    <3>1. UnderWay(c, i) /\ (Worked(c, i)' => Worked(c, i))
      BY <1>1, <2>2 DEF UnderWay, Sent, Held, Worked
    <3>2. c = q.client /\ i = q.id => ~Worked(c, i)'
      BY <1>1, <2>1 DEF Worked
    <3>3. c = q.client /\ i = q.id => ~(Sent(c, i) \/ Held(c, i))
      BY <1>3 DEF Unfinished, UnderWay
    <3>4. QED
      BY <1>1, <2>2, <3>1, <3>2, <3>3 DEF UnderWay, Sent, Held
  <2>3. ASSUME NEW c \in Clients, NEW i \in Nat \ {0}, UnderWay(c, i)'
        PROVE  ~\E a \in answers' : a.request.client = c /\ a.request.id = i
    BY <1>1, <1>2, <2>2, <2>3 DEF Unfinished
  <2>4. ASSUME NEW c \in Clients, NEW i \in Nat \ {0}, UnderWay(c, i)'
        PROVE  /\ asked'[c][i] \notin done'
               /\ outcome'[asked'[c][i]] \in {"waiting", "lost"}
               /\ ~(Worked(c, i)' /\ (Sent(c, i)' \/ Held(c, i)'))
               /\ ~\E k \in DOMAIN down'[c] : down'[c][k] \in AnswerFrame /\ down'[c][k].id = i
    BY <1>1, <2>2, <2>4 DEF Unfinished, Sent, Held
  <2>5. QED
    BY <2>3, <2>4 DEF Unfinished
<1>12. QED
  BY <1>5, <1>6, <1>7, <1>8, <1>9, <1>10, <1>11

-----------------------------------------------------------------------------
(***************************************************************************)
(* Answers go out                                                          *)
(***************************************************************************)

LEMMA AnswerFollows ==
    ASSUME WireTypes, NEW c \in Clients, NEW f \in AnswerFrame, Mirrors(c),
           UNCHANGED <<log, heard, since>>, down'[c] = Append(down[c], f)
    PROVE  Mirrors(c)'
<1>1. /\ down[c] \in Seq(EventFrame \cup AnswerFrame) /\ f \in EventFrame \cup AnswerFrame
      /\ f \notin EventFrame /\ log \in Seq(Writes)
  BY MailKinds DEF WireTypes
<1>2. /\ Len(down[c]) \in Nat /\ DOMAIN down[c] = 1..Len(down[c])
      /\ DOMAIN down'[c] = 1..Len(down[c]) + 1
      /\ \A k \in DOMAIN down[c] : down'[c][k] = down[c][k]
      /\ down'[c][Len(down[c]) + 1] = f
  BY <1>1, AppendTo
<1>3. \A i \in DOMAIN down'[c] : down'[c][i] \in EventFrame => i \in DOMAIN down[c]
  BY <1>1, <1>2
<1>4. since[c] \in Nat /\ Len(heard[c]) \in Nat /\ Len(log) \in Nat
  BY DEF WireTypes
<1>5. \A n \in Ahead(c) : log[n] \in Writes /\ Event(log[n]) \in EventFrame
  BY <1>1, <1>4, MailKinds DEF Told, Ahead
<1>6. Told(c)' = Told(c) /\ Ahead(c)' = Ahead(c)
  BY DEF Told, Ahead
<1>7. Told(c)' <= Len(log') /\ heard'[c] = SubSeq(log', since'[c] + 1, Told(c)')
  BY <1>6 DEF Mirrors
<1>8. \A n \in Ahead(c)' : \E i \in DOMAIN down'[c] : down'[c][i] = Event(log'[n])
  BY <1>2, <1>6 DEF Mirrors
<1>9. \A i \in DOMAIN down'[c] : down'[c][i] \in EventFrame =>
       \E n \in Ahead(c)' : down'[c][i] = Event(log'[n])
  BY <1>2, <1>3, <1>6 DEF Mirrors
<1>10. \A n, m \in Ahead(c)', i, j \in DOMAIN down'[c] :
       down'[c][i] = Event(log'[n]) /\ down'[c][j] = Event(log'[m]) => (n < m <=> i < j)
  <2>1. ASSUME NEW n \in Ahead(c), NEW i \in DOMAIN down'[c], down'[c][i] = Event(log[n])
        PROVE  i \in DOMAIN down[c] /\ down[c][i] = Event(log[n])
    BY <1>2, <1>3, <1>5, <2>1
  <2>2. QED
    BY SMTT(40), <1>6, <2>1 DEF Mirrors
<1>11. QED
  BY <1>7, <1>8, <1>9, <1>10 DEF Mirrors

\* What sending an answer does to the frames under way to a client.
LEMMA SendEffect ==
    ASSUME WireTypes, NEW c \in Clients, NEW f \in AnswerFrame, SendJson(c, f)
    PROVE  /\ down' \in [Clients -> Seq(EventFrame \cup AnswerFrame)]
           /\ \A d \in Clients \ {c} : down'[d] = down[d]
           /\ \/ down'[c] = down[c]
              \/ conn[c] = "live" /\ phase[c] # "closed" /\ down'[c] = Append(down[c], f)
           /\ \A d \in Clients : \A k \in DOMAIN down[d] : k \in DOMAIN down'[d] /\ down'[d][k] = down[d][k]
           /\ \A d \in Clients : \A k \in DOMAIN down'[d] :
                \/ k \in DOMAIN down[d] /\ down'[d][k] = down[d][k]
                \/ /\ d = c /\ down'[d][k] = f /\ conn[c] = "live" /\ phase[c] # "closed"
                   /\ \A j \in DOMAIN down[d] : j < k
<1>1. /\ down \in [Clients -> Seq(EventFrame \cup AnswerFrame)]
      /\ down[c] \in Seq(EventFrame \cup AnswerFrame) /\ f \in EventFrame \cup AnswerFrame
  BY DEF WireTypes
<1>2. CASE down' = down
  BY <1>1, <1>2
<1>3. CASE conn[c] = "live" /\ phase[c] # "closed" /\ down' = [down EXCEPT ![c] = Append(@, f)]
  <2>1. /\ Append(down[c], f) \in Seq(EventFrame \cup AnswerFrame)
        /\ \A k \in DOMAIN down[c] : k \in DOMAIN Append(down[c], f) /\ Append(down[c], f)[k] = down[c][k]
        /\ \A k \in DOMAIN Append(down[c], f) :
             \/ k \in DOMAIN down[c] /\ Append(down[c], f)[k] = down[c][k]
             \/ Append(down[c], f)[k] = f /\ \A j \in DOMAIN down[c] : j < k
    BY <1>1, AppendTo
  <2>2. /\ down' \in [Clients -> Seq(EventFrame \cup AnswerFrame)]
        /\ \A d \in Clients \ {c} : down'[d] = down[d]
        /\ down'[c] = Append(down[c], f)
    BY <1>1, <1>3, <2>1
  <2>3. \A d \in Clients : \A k \in DOMAIN down[d] : k \in DOMAIN down'[d] /\ down'[d][k] = down[d][k]
    BY <2>1, <2>2
  <2>4. \A d \in Clients : \A k \in DOMAIN down'[d] :
                \/ k \in DOMAIN down[d] /\ down'[d][k] = down[d][k]
                \/ /\ d = c /\ down'[d][k] = f /\ conn[c] = "live" /\ phase[c] # "closed"
                   /\ \A j \in DOMAIN down[d] : j < k
    BY <1>3, <2>1, <2>2
  <2>5. QED
    BY <1>3, <2>2, <2>3, <2>4
<1>4. QED
  BY <1>2, <1>3 DEF SendJson

\* An answer that is true and comes after its event leaves the frames under way in order.
LEMMA AnswerSent ==
    ASSUME WireInv, NEW c \in Clients, NEW f \in AnswerFrame, SendJson(c, f),
           UNCHANGED <<asked, done, log, heard, since, phase, conn>>,
           f.id \in DOMAIN asked[c],
           f.answer = "ok" <=> asked[c][f.id] \in done,
           f.answer = "ok" /\ asked[c][f.id] \in Writes /\ conn[c] = "live" /\ phase[c] # "closed"
             => Knows(c, asked[c][f.id])
    PROVE  /\ Mirrored' /\ Announced'
           /\ \A d \in Clients : \A k \in DOMAIN down'[d] : down'[d][k] \in AnswerFrame =>
                /\ down'[d][k].id \in DOMAIN asked[d]
                /\ down'[d][k].answer = "ok" <=> asked[d][down'[d][k].id] \in done
           /\ FramesFollow'
           /\ \A d \in Clients : \A r : Knows(d, r) => Knows(d, r)'
           /\ \A d \in Clients : phase[d] = "closed" \/ conn[d] = "none" => down'[d] = down[d]
<1> USE DEF WireInv
<1>1. /\ \A d \in Clients \ {c} : down'[d] = down[d]
      /\ \/ down'[c] = down[c]
         \/ conn[c] = "live" /\ phase[c] # "closed" /\ down'[c] = Append(down[c], f)
  BY SendEffect
<1>2. /\ \A d \in Clients : \A k \in DOMAIN down[d] : k \in DOMAIN down'[d] /\ down'[d][k] = down[d][k]
      /\ \A d \in Clients : \A k \in DOMAIN down'[d] :
           \/ k \in DOMAIN down[d] /\ down'[d][k] = down[d][k]
           \/ /\ d = c /\ down'[d][k] = f /\ conn[c] = "live" /\ phase[c] # "closed"
              /\ \A j \in DOMAIN down[d] : j < k
  BY SendEffect
<1>3. Mirrored'
  <2>1. ASSUME NEW d \in Clients, Mirrors(d), down'[d] = down[d]
        PROVE  Mirrors(d)'
    BY <2>1 DEF Mirrors, Ahead, Told
  <2>2. ASSUME Mirrors(c), down'[c] = Append(down[c], f)
        PROVE  Mirrors(c)'
    BY <2>2, AnswerFollows
  <2>3. QED
    BY <1>1, <2>1, <2>2 DEF Mirrored
<1>4. Announced'
  BY <1>2, MailKinds DEF Announced
<1>5. \A d \in Clients : \A k \in DOMAIN down'[d] : down'[d][k] \in AnswerFrame =>
        /\ down'[d][k].id \in DOMAIN asked[d]
        /\ down'[d][k].answer = "ok" <=> asked[d][down'[d][k].id] \in done
  BY <1>2 DEF Matched, AnswersTrue
<1>6. \A d \in Clients : \A r : Knows(d, r) => Knows(d, r)'
  BY <1>2 DEF Knows
<1>7. FramesFollow'
  <2>1. SUFFICES
          ASSUME NEW d \in Clients, NEW k \in DOMAIN down'[d], down'[d][k] \in AnswerFrame,
                 down'[d][k].answer = "ok", asked[d][down'[d][k].id] \in Writes
          PROVE  \/ \E i \in DOMAIN heard[d] : heard[d][i] = asked[d][down'[d][k].id]
                 \/ \E j \in DOMAIN down'[d] : j < k /\ down'[d][j] = Event(asked[d][down'[d][k].id])
    BY DEF FramesFollow
  <2>2. CASE k \in DOMAIN down[d] /\ down'[d][k] = down[d][k]
    BY <1>2, <2>1, <2>2 DEF EventFirst, AnswersFollow, FramesFollow
  <2>3. CASE /\ d = c /\ down'[d][k] = f /\ conn[c] = "live" /\ phase[c] # "closed"
             /\ \A j \in DOMAIN down[d] : j < k
    BY <1>2, <2>1, <2>3 DEF Knows
  <2>4. QED
    BY <1>2, <2>2, <2>3
<1>8. \A d \in Clients : phase[d] = "closed" \/ conn[d] = "none" => down'[d] = down[d]
  BY <1>1
<1>9. QED
  BY <1>3, <1>4, <1>5, <1>6, <1>7, <1>8

LEMMA RespondInv ==
    ASSUME WireInv, NEW a \in answers, Respond(a)
    PROVE  WireInv'
<1> DEFINE c == a.request.client
           f == [id |-> a.request.id, answer |-> a.answer]
<1>1. /\ answers' = answers \ {a} /\ SendJson(c, f)
      /\ UNCHANGED <<phase, asked, pending, sendQueue, outcome, heard, up, conn, attached,
                     running, done, log, since>>
  BY DEF Respond, clientVars
<1> USE DEF WireInv
<1>2. a.request \in Handled /\ a.answer \in {"ok", "error"}
  BY RequestKinds DEF WireTypes
<1>3. c \in Clients /\ a.request.id \in Nat \ {0}
  BY <1>2, RequestKinds
<1>4. f \in AnswerFrame /\ f.id = a.request.id /\ f.answer = a.answer
  BY <1>2, <1>3 DEF AnswerFrame
<1>5. f.id \in DOMAIN asked[c] /\ asked[c][f.id] = a.request.call
  BY <1>4 DEF Matched, IsCall
<1>6. f.answer = "ok" <=> asked[c][f.id] \in done
  BY <1>4, <1>5 DEF AnswersTrue
<1>7. f.answer = "ok" /\ asked[c][f.id] \in Writes /\ conn[c] = "live" /\ phase[c] # "closed"
        => Knows(c, asked[c][f.id])
  BY <1>4, <1>5 DEF EventFirst, AnswersFollow
<1>8. ~UnderWay(c, f.id)
  BY <1>3, <1>4 DEF Unfinished
<1> HIDE DEF c, f
<1>9. /\ Mirrored' /\ Announced' /\ FramesFollow'
      /\ \A d \in Clients : \A k \in DOMAIN down'[d] : down'[d][k] \in AnswerFrame =>
           /\ down'[d][k].id \in DOMAIN asked[d]
           /\ down'[d][k].answer = "ok" <=> asked[d][down'[d][k].id] \in done
      /\ \A d \in Clients : \A r : Knows(d, r) => Knows(d, r)'
      /\ \A d \in Clients : phase[d] = "closed" \/ conn[d] = "none" => down'[d] = down[d]
  BY <1>1, <1>3, <1>4, <1>5, <1>6, <1>7, AnswerSent
<1>10. /\ down' \in [Clients -> Seq(EventFrame \cup AnswerFrame)]
       /\ \A d \in Clients : \A k \in DOMAIN down'[d] :
            (k \in DOMAIN down[d] /\ down'[d][k] = down[d][k]) \/ (d = c /\ down'[d][k] = f)
  BY <1>1, <1>3, <1>4, SendEffect
<1>11. WireTypes'
  BY <1>1, <1>10 DEF WireTypes
<1>12. AskedOnce' /\ WaitersKnown'
  BY <1>1 DEF AskedOnce, WaitersKnown
<1>13. QueuesInTurn'
  BY <1>1, <1>9 DEF QueuesInTurn
<1>14. Matched'
  BY <1>1, <1>9 DEF Matched, IsCall
<1>15. AnswersTrue'
  BY <1>1, <1>9 DEF AnswersTrue
<1>16. EventFirst'
  <2>1. \A b \in answers : b.request.client \in Clients
    BY RequestKinds DEF WireTypes
  <2>2. AnswersFollow'
    BY <1>1, <1>9, <2>1 DEF EventFirst, AnswersFollow
  <2>3. QED
    BY <1>9, <2>2 DEF EventFirst
<1>17. Unfinished'
  <2>1. ASSUME NEW d \in Clients, NEW i \in Nat \ {0}
        PROVE  UnderWay(d, i)' = UnderWay(d, i) /\ Sent(d, i)' = Sent(d, i)
               /\ Held(d, i)' = Held(d, i) /\ Worked(d, i)' = Worked(d, i)
    BY <1>1 DEF UnderWay, Sent, Held, Worked
  <2>2. ASSUME NEW d \in Clients, NEW i \in Nat \ {0}, UnderWay(d, i),
               NEW k \in DOMAIN down'[d], down'[d][k] \in AnswerFrame, down'[d][k].id = i
        PROVE  FALSE
    BY <1>8, <1>10, <2>2 DEF Unfinished
  <2>3. ASSUME NEW d \in Clients, NEW i \in Nat \ {0}, UnderWay(d, i)
        PROVE  /\ asked'[d][i] \notin done'
               /\ outcome'[asked'[d][i]] \in {"waiting", "lost"}
               /\ ~(Worked(d, i) /\ (Sent(d, i) \/ Held(d, i)))
               /\ ~\E b \in answers' : b.request.client = d /\ b.request.id = i
    BY <1>1, <2>3 DEF Unfinished
  <2>4. QED
    BY <2>1, <2>2, <2>3 DEF Unfinished
<1>18. QED
  BY <1>9, <1>11, <1>12, <1>13, <1>14, <1>15, <1>16, <1>17

-----------------------------------------------------------------------------
(***************************************************************************)
(* The server reads a frame                                                *)
(***************************************************************************)

\* What is left to read was to be read, and the frame that was read is not among it.
LEMMA ReadEffect ==
    ASSUME WireInv, NEW c \in Clients, up[c] # <<>>, up' = [up EXCEPT ![c] = Tail(@)],
           UNCHANGED <<phase, asked, pending, sendQueue>>
    PROVE  /\ up' \in [Clients -> Seq(Frame \cup {Bye})]
           /\ Head(up[c]) \in Frame \cup {Bye}
           /\ \A d \in Clients : \A k \in DOMAIN up'[d] :
                \E n \in DOMAIN up[d] : up'[d][k] = up[d][n]
           /\ \A d \in Clients : \A k, n \in DOMAIN up'[d] : up'[d][k].id = up'[d][n].id => k = n
           /\ \A d \in Clients : phase[d] = "connecting" => up'[d] = <<>>
           /\ \E k \in DOMAIN up[c] : up[c][k] = Head(up[c])
           /\ \A k \in DOMAIN up'[c] : up'[c][k].id # Head(up[c]).id
           /\ phase[c] # "connecting" /\ sendQueue[c] = <<>>
<1> USE DEF WireInv
<1>1. up \in [Clients -> Seq(Frame \cup {Bye})] /\ up[c] \in Seq(Frame \cup {Bye})
  BY DEF WireTypes
<1>2. /\ Head(up[c]) \in Frame \cup {Bye} /\ Head(up[c]) = up[c][1] /\ 1 \in DOMAIN up[c]
      /\ Tail(up[c]) \in Seq(Frame \cup {Bye}) /\ DOMAIN Tail(up[c]) = 1..Len(up[c]) - 1
      /\ \A k \in DOMAIN Tail(up[c]) : k + 1 \in DOMAIN up[c] /\ Tail(up[c])[k] = up[c][k + 1]
      /\ Len(up[c]) \in Nat \ {0}
  BY <1>1, TailOf
<1>3. /\ up' \in [Clients -> Seq(Frame \cup {Bye})]
      /\ \A d \in Clients \ {c} : up'[d] = up[d]
      /\ up'[c] = Tail(up[c])
  BY <1>1, <1>2
<1>4. /\ phase[c] # "connecting" /\ sendQueue[c] = <<>>
      /\ \A d \in Clients : phase[d] = "connecting" => up'[d] = <<>>
  BY <1>3 DEF QueuesInTurn
<1>5. \A d \in Clients : \A k \in DOMAIN up'[d] : \E n \in DOMAIN up[d] : up'[d][k] = up[d][n]
  BY <1>2, <1>3
<1>6. \A k, n \in DOMAIN up'[c] : up'[c][k].id = up'[c][n].id => k = n
  <2>1. SUFFICES ASSUME NEW k \in DOMAIN up'[c], NEW n \in DOMAIN up'[c], up'[c][k].id = up'[c][n].id
                 PROVE  k = n
    OBVIOUS
  <2>2. k + 1 = n + 1
    BY <1>2, <1>3, <2>1 DEF QueuesInTurn
  <2>3. k \in Nat /\ n \in Nat
    BY <1>2, <1>3
  <2>4. QED
    BY <2>2, <2>3
<1>7. \A d \in Clients \ {c} : \A k, n \in DOMAIN up'[d] : up'[d][k].id = up'[d][n].id => k = n
  BY <1>3 DEF QueuesInTurn
<1>8. \A k \in DOMAIN up'[c] : up'[c][k].id # Head(up[c]).id
  <2>1. SUFFICES ASSUME NEW k \in DOMAIN up'[c], up'[c][k].id = Head(up[c]).id
                 PROVE  FALSE
    OBVIOUS
  <2>2. k + 1 = 1
    BY <1>2, <1>3, <2>1 DEF QueuesInTurn
  <2>3. k \in Nat \ {0}
    BY <1>2, <1>3
  <2>4. QED
    BY <2>2, <2>3
<1>9. QED
  BY <1>2, <1>3, <1>4, <1>5, <1>6, <1>7, <1>8

LEMMA OnDataInv ==
    ASSUME WireInv, NEW c \in Clients, OnData(c)
    PROVE  WireInv'
<1>0. PICK frame : frame = Head(up[c])
  OBVIOUS
<1>1. /\ conn[c] = "live" /\ up[c] # <<>> /\ up' = [up EXCEPT ![c] = Tail(@)]
      /\ UNCHANGED <<phase, asked, pending, sendQueue, outcome, heard, attached,
                     answers, done, log, since>>
  BY DEF OnData, clientVars
<1>2. /\ up' \in [Clients -> Seq(Frame \cup {Bye})]
      /\ frame \in Frame \cup {Bye}
      /\ \A d \in Clients : \A k \in DOMAIN up'[d] : \E n \in DOMAIN up[d] : up'[d][k] = up[d][n]
      /\ \A d \in Clients : \A k, n \in DOMAIN up'[d] : up'[d][k].id = up'[d][n].id => k = n
      /\ \A d \in Clients : phase[d] = "connecting" => up'[d] = <<>>
      /\ \E k \in DOMAIN up[c] : up[c][k] = frame
      /\ \A k \in DOMAIN up'[c] : up'[c][k].id # frame.id
      /\ phase[c] # "connecting" /\ sendQueue[c] = <<>>
  <2>1. up[c] # <<>> /\ up' = [up EXCEPT ![c] = Tail(@)] /\ UNCHANGED <<phase, asked, pending, sendQueue>>
    BY <1>1
  <2>2. QED
    BY ZenonT(60), <1>0, <2>1, ReadEffect
<1> USE DEF WireInv
<1>3. \A d \in Clients, i \in Nat : Sent(d, i)' => Sent(d, i) /\ ~(d = c /\ i = frame.id)
  BY <1>2 DEF Sent
<1>4. \A d \in Clients, i \in Nat : Held(d, i)' = Held(d, i)
  BY <1>1 DEF Held
<1>5. AskedOnce' /\ WaitersKnown'
  BY <1>1 DEF AskedOnce, WaitersKnown
<1>6. \A d \in Clients :
        /\ \A k \in DOMAIN up'[d] : up'[d][k].id # 0 =>
             up'[d][k] \in Frame /\ IsCall(d, up'[d][k].id, up'[d][k].call)
        /\ \A k \in DOMAIN sendQueue'[d] : IsCall(d, sendQueue'[d][k].id, sendQueue'[d][k].call)
  BY <1>1, <1>2 DEF Matched, IsCall
<1>7. \A d \in Clients :
        /\ phase'[d] = "connecting" => up'[d] = <<>>
        /\ phase'[d] # "connecting" => sendQueue'[d] = <<>>
        /\ phase'[d] = "closed" => pending'[d] = {}
        /\ conn[d] = "none" => heard'[d] = <<>>
        /\ \A k \in DOMAIN up'[d] : up'[d][k].id = 0 => phase'[d] = "closed"
        /\ \A k, n \in DOMAIN up'[d] : up'[d][k].id = up'[d][n].id => k = n
        /\ \A k, n \in DOMAIN sendQueue'[d] : sendQueue'[d][k].id = sendQueue'[d][n].id => k = n
  BY <1>1, <1>2 DEF QueuesInTurn
<1>8. CASE frame = Bye
  <2>1. /\ conn' = [d \in Clients |-> IF d \in {c} THEN "disposed" ELSE conn[d]]
        /\ UNCHANGED <<down, running>>
    BY <1>0, <1>8 DEF OnData, Dispose
  <2>2. /\ conn' \in [Clients -> {"none", "live", "disposed"}]
        /\ \A d \in Clients : (conn'[d] = "none" <=> conn[d] = "none") /\ (conn'[d] = "live" => conn[d] = "live")
    BY <1>1, <2>1 DEF WireTypes
  <2>3. WireTypes'
    BY <1>1, <1>2, <2>1, <2>2 DEF WireTypes
  <2>4. QueuesInTurn'
    BY <1>1, <1>7, <2>1, <2>2 DEF QueuesInTurn
  <2>5. Matched'
    <3>1. \A q \in running : q.client \in Clients
      BY RequestKinds DEF WireTypes
    <3>2. \A a \in answers : a.request.client \in Clients
      BY RequestKinds DEF WireTypes
    <3>3. QED
      BY ZenonT(90), <1>1, <1>6, <2>1, <2>2, <3>1, <3>2 DEF Matched, IsCall
  <2>6. Unfinished'
    <3>1. \A d \in Clients, i \in Nat \ {0} : Worked(d, i)' = Worked(d, i)
      BY <2>1 DEF Worked
    <3>2. QED
      BY <1>1, <1>3, <1>4, <2>1, <3>1 DEF Unfinished, UnderWay
  <2>7. AnswersTrue' /\ Announced'
    BY <1>1, <2>1 DEF AnswersTrue, Announced
  <2>8. EventFirst'
    <3>1. \A a \in answers : a.request.client \in Clients
      BY RequestKinds DEF WireTypes
    <3>2. QED
      BY <1>1, <2>1, <2>2, <3>1 DEF EventFirst, AnswersFollow, FramesFollow, Knows
  <2>9. Mirrored'
    BY <1>1, <2>1, <2>2 DEF Mirrored, Mirrors, Ahead, Told
  <2>10. QED
    BY <1>5, <2>3, <2>4, <2>5, <2>6, <2>7, <2>8, <2>9
<1>9. ASSUME frame # Bye
      PROVE  /\ frame \in Frame /\ frame.id \in Nat \ {0} /\ frame.call \in Invocations
             /\ IsCall(c, frame.id, frame.call) /\ Sent(c, frame.id) /\ UnderWay(c, frame.id)
             /\ ~Held(c, frame.id) /\ ~Worked(c, frame.id)
             /\ frame.call \notin done
             /\ ~\E a \in answers : a.request.client = c /\ a.request.id = frame.id
             /\ ~\E k \in DOMAIN down[c] : down[c][k] \in AnswerFrame /\ down[c][k].id = frame.id
  <2>1. frame \in Frame /\ frame.id \in Nat \ {0} /\ frame.call \in Invocations
    BY <1>2, <1>9, FrameKinds
  <2>2. IsCall(c, frame.id, frame.call) /\ Sent(c, frame.id)
    BY <1>2, <2>1 DEF Matched, Sent
  <2>3. UnderWay(c, frame.id)
    BY <2>2 DEF UnderWay
  <2>4. ~Held(c, frame.id)
    BY <1>2 DEF Held
  <2>5. QED
    BY <2>1, <2>2, <2>3, <2>4 DEF Unfinished, IsCall
<1>10. CASE frame # Bye /\ frame.call \in Blocked
  <2> DEFINE f == [id |-> frame.id, answer |-> "error"]
  <2>1. SendJson(c, f) /\ UNCHANGED <<conn, running>>
    BY <1>0, <1>10 DEF OnData
  <2>2. f \in AnswerFrame /\ f.id = frame.id /\ f.answer = "error"
    BY <1>9, <1>10 DEF AnswerFrame
  <2> HIDE DEF f
  <2>3. /\ Mirrored' /\ Announced' /\ FramesFollow'
        /\ \A d \in Clients : \A k \in DOMAIN down'[d] : down'[d][k] \in AnswerFrame =>
             /\ down'[d][k].id \in DOMAIN asked[d]
             /\ down'[d][k].answer = "ok" <=> asked[d][down'[d][k].id] \in done
        /\ \A d \in Clients : \A r : Knows(d, r) => Knows(d, r)'
        /\ \A d \in Clients : phase[d] = "closed" \/ conn[d] = "none" => down'[d] = down[d]
    BY <1>1, <1>9, <1>10, <2>1, <2>2, AnswerSent DEF IsCall
  <2>4. /\ down' \in [Clients -> Seq(EventFrame \cup AnswerFrame)]
        /\ \A d \in Clients : \A k \in DOMAIN down'[d] :
             (k \in DOMAIN down[d] /\ down'[d][k] = down[d][k]) \/ (d = c /\ down'[d][k] = f)
    BY <2>1, <2>2, SendEffect
  <2>5. WireTypes'
    BY <1>1, <1>2, <2>1, <2>4 DEF WireTypes
  <2>6. QueuesInTurn'
    BY <1>1, <1>7, <2>1, <2>3 DEF QueuesInTurn
  <2>7. Matched'
    BY <1>1, <1>6, <2>1, <2>3 DEF Matched, IsCall
  <2>8. AnswersTrue'
    BY <1>1, <2>1, <2>3 DEF AnswersTrue
  <2>9. EventFirst'
    <3>1. \A b \in answers : b.request.client \in Clients
      BY RequestKinds DEF WireTypes
    <3>2. QED
      BY <1>1, <2>1, <2>3, <3>1 DEF EventFirst, AnswersFollow
  <2>10. Unfinished'
    <3>1. \A d \in Clients, i \in Nat \ {0} : Worked(d, i)' = Worked(d, i)
      BY <2>1 DEF Worked
    <3>2. \A d \in Clients, i \in Nat \ {0} : UnderWay(d, i)' => UnderWay(d, i) /\ ~(d = c /\ i = frame.id)
      BY <1>3, <1>4, <1>9, <1>10, <3>1 DEF UnderWay
    <3>3. ASSUME NEW d \in Clients, NEW i \in Nat \ {0}, UnderWay(d, i)',
                 NEW k \in DOMAIN down'[d], down'[d][k] \in AnswerFrame, down'[d][k].id = i
          PROVE  FALSE
      BY <2>2, <2>4, <3>2, <3>3 DEF Unfinished
    <3>4. ASSUME NEW d \in Clients, NEW i \in Nat \ {0}, UnderWay(d, i)'
          PROVE  /\ asked'[d][i] \notin done'
                 /\ outcome'[asked'[d][i]] \in {"waiting", "lost"}
                 /\ ~(Worked(d, i)' /\ (Sent(d, i)' \/ Held(d, i)'))
                 /\ ~\E b \in answers' : b.request.client = d /\ b.request.id = i
      BY <1>1, <1>3, <1>4, <3>1, <3>2, <3>4 DEF Unfinished
    <3>5. QED
      BY <3>3, <3>4 DEF Unfinished
  <2>11. QED
    BY <1>5, <2>3, <2>5, <2>6, <2>7, <2>8, <2>9, <2>10
<1>11. CASE frame # Bye /\ frame.call \notin Blocked
  <2> DEFINE p == [client |-> c, id |-> frame.id, call |-> frame.call]
  <2>1. running' = running \cup {p} /\ UNCHANGED <<conn, down>>
    BY <1>0, <1>11 DEF OnData
  <2>2. p \in Handled /\ p.client = c /\ p.id = frame.id /\ p.call = frame.call
    BY <1>9, <1>11 DEF Handled
  <2> HIDE DEF p
  <2>3. WireTypes'
    BY <1>1, <1>2, <2>1, <2>2 DEF WireTypes
  <2>4. QueuesInTurn'
    BY <1>1, <1>7, <2>1 DEF QueuesInTurn
  <2>5. Matched'
    <3>1. IsCall(p.client, p.id, p.call) /\ conn[p.client] # "none"
      BY <1>1, <1>9, <1>11, <2>2
    <3>2. QED
      BY ZenonT(60), <1>1, <1>6, <2>1, <3>1 DEF Matched, IsCall
  <2>6. AnswersTrue' /\ Announced'
    BY <1>1, <1>11, <2>1, <2>2 DEF AnswersTrue, Announced
  <2>7. EventFirst'
    BY <1>1, <2>1 DEF EventFirst, AnswersFollow, FramesFollow, Knows
  <2>8. Mirrored'
    BY <1>1, <2>1 DEF Mirrored, Mirrors, Ahead, Told
  <2>9. Unfinished'
    <3>1. \A d \in Clients, i \in Nat \ {0} : Worked(d, i)' => Worked(d, i) \/ (d = c /\ i = frame.id)
      BY <2>1, <2>2 DEF Worked
    <3>2. \A d \in Clients, i \in Nat \ {0} : UnderWay(d, i)' => UnderWay(d, i)
      BY <1>3, <1>4, <1>9, <1>11, <3>1 DEF UnderWay
    <3>3. ~Sent(c, frame.id)' /\ ~Held(c, frame.id)'
      BY <1>3, <1>4, <1>9, <1>11
    <3>4. ASSUME NEW d \in Clients, NEW i \in Nat \ {0}, UnderWay(d, i)'
          PROVE  ~(Worked(d, i)' /\ (Sent(d, i)' \/ Held(d, i)'))
      <4>1. CASE d = c /\ i = frame.id
        BY <3>3, <4>1
      <4>2. CASE ~(d = c /\ i = frame.id)
        BY <1>3, <1>4, <3>1, <3>2, <3>4, <4>2 DEF Unfinished
      <4>3. QED
        BY <4>1, <4>2
    <3>5. QED
      BY <1>1, <2>1, <3>2, <3>4 DEF Unfinished
  <2>10. QED
    BY <1>5, <2>3, <2>4, <2>5, <2>6, <2>7, <2>8, <2>9
<1>12. QED
  BY <1>8, <1>10, <1>11

-----------------------------------------------------------------------------
(***************************************************************************)
(* The client makes a call, and sends the calls it held back               *)
(***************************************************************************)

LEMMA UnderWayAsked ==
    ASSUME WireInv, NEW c \in Clients, NEW i \in Nat \ {0}, UnderWay(c, i)
    PROVE  i \in DOMAIN asked[c]
<1>1. CASE Sent(c, i)
  BY <1>1 DEF WireInv, Sent, Matched, IsCall
<1>2. CASE Held(c, i)
  BY <1>2 DEF WireInv, Held, Matched, IsCall
<1>3. CASE Worked(c, i)
  BY <1>3 DEF WireInv, Worked, Matched, IsCall
<1>4. QED
  BY <1>1, <1>2, <1>3 DEF UnderWay

LEMMA AskedCalls ==
    ASSUME WireTypes, NEW c \in Clients
    PROVE  /\ asked[c] \in Seq(Invocations) /\ DOMAIN asked[c] = 1..Len(asked[c]) /\ Len(asked[c]) \in Nat
           /\ \A i \in DOMAIN asked[c] : asked[c][i] \in Invocations /\ i \in Nat \ {0}
<1>1. asked[c] \in Seq(Invocations)
  BY DEF WireTypes
<1>2. QED
  BY <1>1

LEMMA OpenInv ==
    ASSUME WireInv, NEW c \in Clients, Open(c)
    PROVE  WireInv'
<1>1. /\ phase[c] = "connecting" /\ conn[c] # "none"
      /\ phase' = [phase EXCEPT ![c] = "open"]
      /\ up' = [up EXCEPT ![c] = @ \o sendQueue[c]]
      /\ sendQueue' = [sendQueue EXCEPT ![c] = <<>>]
      /\ UNCHANGED <<asked, pending, outcome, heard, down, conn, attached, running,
                     answers, done, log, since>>
  BY DEF Open, serverVars
<1> USE DEF WireInv
<1>2. /\ up[c] = <<>> /\ sendQueue[c] \in Seq(Frame) /\ <<>> \o sendQueue[c] = sendQueue[c]
      /\ sendQueue[c] \in Seq(Frame \cup {Bye})
  BY <1>1 DEF QueuesInTurn, WireTypes
<1>3. /\ \A d \in Clients \ {c} : up'[d] = up[d] /\ sendQueue'[d] = sendQueue[d] /\ phase'[d] = phase[d]
      /\ up'[c] = sendQueue[c] /\ sendQueue'[c] = <<>> /\ phase'[c] = "open"
  BY <1>1, <1>2 DEF WireTypes
<1>4. WireTypes'
  BY SMTT(40), <1>1, <1>2 DEF WireTypes
<1>5. \A k \in DOMAIN sendQueue[c] : sendQueue[c][k] \in Frame /\ sendQueue[c][k].id # 0
  BY <1>2, FrameKinds
<1>6. AskedOnce' /\ WaitersKnown' /\ Announced' /\ AnswersTrue'
  BY <1>1 DEF AskedOnce, WaitersKnown, Announced, AnswersTrue
<1>7. QueuesInTurn'
  <2>1. /\ \A k \in DOMAIN up'[c] : up'[c][k].id # 0
        /\ \A k, n \in DOMAIN up'[c] : up'[c][k].id = up'[c][n].id => k = n
        /\ DOMAIN sendQueue'[c] = {}
    BY <1>3, <1>5 DEF QueuesInTurn
  <2>2. /\ phase'[c] = "open" /\ conn'[c] # "none" /\ sendQueue'[c] = <<>>
        /\ \A k, n \in DOMAIN sendQueue'[c] : sendQueue'[c][k].id = sendQueue'[c][n].id => k = n
    BY <1>1, <1>3, <2>1
  <2>3. ASSUME NEW d \in Clients \ {c}
        PROVE  /\ phase'[d] = "connecting" => up'[d] = <<>>
               /\ phase'[d] # "connecting" => sendQueue'[d] = <<>>
               /\ phase'[d] = "closed" => down'[d] = <<>> /\ pending'[d] = {}
               /\ conn'[d] = "none" => down'[d] = <<>> /\ heard'[d] = <<>>
               /\ \A k \in DOMAIN up'[d] : up'[d][k].id = 0 => phase'[d] = "closed"
               /\ \A k, n \in DOMAIN up'[d] : up'[d][k].id = up'[d][n].id => k = n
               /\ \A k, n \in DOMAIN sendQueue'[d] : sendQueue'[d][k].id = sendQueue'[d][n].id => k = n
    BY <1>1, <1>3 DEF QueuesInTurn
  <2>4. QED
    BY <2>1, <2>2, <2>3 DEF QueuesInTurn
<1>8. Matched'
  <2>1. /\ \A k \in DOMAIN up'[c] : up'[c][k] \in Frame /\ IsCall(c, up'[c][k].id, up'[c][k].call)
        /\ DOMAIN sendQueue'[c] = {}
    BY <1>3, <1>5 DEF Matched
  <2>2. \A d \in Clients :
          /\ \A k \in DOMAIN up'[d] :
               up'[d][k].id # 0 => up'[d][k] \in Frame /\ IsCall(d, up'[d][k].id, up'[d][k].call)
          /\ \A k \in DOMAIN sendQueue'[d] : IsCall(d, sendQueue'[d][k].id, sendQueue'[d][k].call)
    BY <1>3, <2>1 DEF Matched
  <2>3. \A d \in Clients : \A k \in DOMAIN down'[d] :
          down'[d][k] \in AnswerFrame => down'[d][k].id \in DOMAIN asked'[d]
    BY <1>1 DEF Matched
  <2>4. \A q \in running' : IsCall(q.client, q.id, q.call) /\ conn'[q.client] # "none"
    BY <1>1 DEF Matched
  <2>5. \A a \in answers' : /\ IsCall(a.request.client, a.request.id, a.request.call)
                            /\ conn'[a.request.client] # "none"
    BY <1>1 DEF Matched
  <2>6. QED
    BY ZenonT(60), <1>1, <2>2, <2>3, <2>4, <2>5 DEF Matched, IsCall
<1>9. Unfinished'
  <2>1. \A d \in Clients \ {c}, i \in Nat \ {0} : Sent(d, i)' = Sent(d, i) /\ Held(d, i)' = Held(d, i)
    BY <1>3 DEF Sent, Held
  <2>2. \A i \in Nat \ {0} : ~Held(c, i)' /\ (Sent(c, i)' = Held(c, i))
    BY <1>3 DEF Sent, Held
  <2>3. \A d \in Clients, i \in Nat \ {0} : Worked(d, i)' = Worked(d, i)
    BY <1>1 DEF Worked
  <2>4. \A d \in Clients, i \in Nat \ {0} : Sent(d, i)' \/ Held(d, i)' => Sent(d, i) \/ Held(d, i)
    BY <2>1, <2>2
  <2>5. QED
    BY <1>1, <2>3, <2>4 DEF Unfinished, UnderWay
<1>10. EventFirst'
  <2>1. \A a \in answers : a.request.client \in Clients
    BY RequestKinds DEF WireTypes
  <2>2. QED
    BY <1>1, <1>3, <2>1 DEF EventFirst, AnswersFollow, FramesFollow, Knows
<1>11. Mirrored'
  BY <1>1, <1>3 DEF Mirrored, Mirrors, Ahead, Told
<1>12. QED
  BY <1>4, <1>6, <1>7, <1>8, <1>9, <1>10, <1>11

\* A call through a closed transport leaves everything but its promise as it was.
LEMMA AskClosedInv ==
    ASSUME WireInv, NEW r \in Invocations, Ask(r), phase[Owner[r]] = "closed"
    PROVE  WireInv'
<1>1. /\ outcome[r] = "new" /\ outcome' = [outcome EXCEPT ![r] = "lost"]
      /\ UNCHANGED <<phase, asked, pending, sendQueue, up, heard, down, conn, attached, running,
                     answers, done, log, since>>
  BY DEF Ask, serverVars
<1> USE DEF WireInv
<1>2. /\ outcome' \in [Invocations -> {"new", "waiting", "ok", "error", "lost"}]
      /\ \A s \in Invocations : s # r => outcome'[s] = outcome[s]
      /\ outcome'[r] = "lost"
  BY <1>1 DEF WireTypes
<1>3. \A d \in Clients : \A i \in DOMAIN asked[d] : asked[d][i] \in Invocations /\ asked[d][i] # r
  BY <1>1, AskedCalls DEF AskedOnce
<1>4. WireTypes'
  BY <1>1, <1>2 DEF WireTypes
<1>5. AskedOnce'
  BY <1>1, <1>2, <1>3 DEF AskedOnce
<1>6. WaitersKnown'
  <2>1. \A s \in Invocations : outcome'[s] = "waiting" => outcome[s] = "waiting"
    BY <1>2
  <2>2. \A s \in done : outcome'[s] # "new"
    BY <1>2 DEF WaitersKnown, WireTypes
  <2>3. QED
    BY <1>1, <2>1, <2>2 DEF WaitersKnown
<1>7. QueuesInTurn' /\ Announced' /\ AnswersTrue'
  BY <1>1 DEF QueuesInTurn, Announced, AnswersTrue
<1>8. Matched'
  BY <1>1 DEF Matched, IsCall
<1>9. EventFirst'
  BY <1>1 DEF EventFirst, AnswersFollow, FramesFollow, Knows
<1>10. Mirrored'
  BY <1>1 DEF Mirrored, Mirrors, Ahead, Told
<1>11. Unfinished'
  <2>1. \A d \in Clients, i \in Nat \ {0} :
          /\ UnderWay(d, i)' = UnderWay(d, i) /\ Worked(d, i)' = Worked(d, i)
          /\ Sent(d, i)' = Sent(d, i) /\ Held(d, i)' = Held(d, i)
    BY <1>1 DEF UnderWay, Worked, Sent, Held
  <2>2. \A d \in Clients, i \in Nat \ {0} : UnderWay(d, i) => outcome'[asked[d][i]] \in {"waiting", "lost"}
    <3>1. SUFFICES ASSUME NEW d \in Clients, NEW i \in Nat \ {0}, UnderWay(d, i)
                   PROVE  outcome'[asked[d][i]] \in {"waiting", "lost"}
      OBVIOUS
    <3>2. i \in DOMAIN asked[d]
      BY <3>1, UnderWayAsked
    <3>3. QED
      BY <1>2, <1>3, <3>1, <3>2 DEF Unfinished
  <2>3. QED
    BY <1>1, <2>1, <2>2 DEF Unfinished
<1>12. QED
  BY <1>4, <1>5, <1>6, <1>7, <1>8, <1>9, <1>10, <1>11

\* A frame with a new id joins a queue.
LEMMA FrameJoins ==
    ASSUME NEW S, NEW s \in Seq(S), NEW f \in S, \A k \in DOMAIN s : s[k].id # f.id,
           \A k, n \in DOMAIN s : s[k].id = s[n].id => k = n
    PROVE  /\ Append(s, f) \in Seq(S)
           /\ \A k \in DOMAIN Append(s, f) :
                (k \in DOMAIN s /\ Append(s, f)[k] = s[k]) \/ Append(s, f)[k] = f
           /\ \A k, n \in DOMAIN Append(s, f) : Append(s, f)[k].id = Append(s, f)[n].id => k = n
<1>1. /\ Append(s, f) \in Seq(S)
      /\ \A k \in DOMAIN Append(s, f) :
           \/ k \in DOMAIN s /\ Append(s, f)[k] = s[k]
           \/ k = Len(s) + 1 /\ Append(s, f)[k] = f
  BY AppendTo
<1>2. QED
  BY <1>1

LEMMA AskOpenInv ==
    ASSUME WireInv, NEW r \in Invocations, Ask(r), phase[Owner[r]] # "closed"
    PROVE  WireInv'
<1>0. PICK c \in Clients, n \in Nat \ {0} : c = Owner[r] /\ n = Len(asked[c]) + 1
  BY WireAssumption, AskedCalls DEF WireInv
<1> DEFINE frame == [id |-> n, call |-> r]
<1>1. /\ outcome[r] = "new" /\ phase[c] # "closed"
      /\ outcome' = [outcome EXCEPT ![r] = "waiting"]
      /\ asked' = [asked EXCEPT ![c] = Append(@, r)]
      /\ pending' = [pending EXCEPT ![c] = @ \cup {n}]
      /\ \/ phase[c] = "open" /\ up' = [up EXCEPT ![c] = Append(@, frame)] /\ UNCHANGED sendQueue
         \/ phase[c] # "open" /\ sendQueue' = [sendQueue EXCEPT ![c] = Append(@, frame)] /\ UNCHANGED up
      /\ UNCHANGED <<phase, heard, down, conn, attached, running, answers, done, log, since>>
  BY <1>0 DEF Ask, serverVars
<1>2. frame \in Frame /\ frame \in Frame \cup {Bye} /\ frame.id = n /\ frame.call = r
  BY DEF Frame
<1> HIDE DEF frame
<1> USE DEF WireInv
<1>3. /\ Append(asked[c], r) \in Seq(Invocations)
      /\ \A i \in DOMAIN asked[c] : i \in DOMAIN Append(asked[c], r) /\ Append(asked[c], r)[i] = asked[c][i]
      /\ n \in DOMAIN Append(asked[c], r) /\ Append(asked[c], r)[n] = r
      /\ \A i \in DOMAIN Append(asked[c], r) : i \in DOMAIN asked[c] \/ i = n
      /\ n \notin DOMAIN asked[c]
  BY <1>0, AskedCalls, AppendTo
<1>4. /\ asked' \in [Clients -> Seq(Invocations)] /\ asked'[c] = Append(asked[c], r)
      /\ \A d \in Clients \ {c} : asked'[d] = asked[d]
  BY <1>1, <1>3 DEF WireTypes
<1>5. /\ \A d \in Clients : \A i \in DOMAIN asked[d] : i \in DOMAIN asked'[d] /\ asked'[d][i] = asked[d][i]
      /\ n \in DOMAIN asked'[c] /\ asked'[c][n] = r
      /\ \A d \in Clients : \A i \in DOMAIN asked'[d] : i \in DOMAIN asked[d] \/ (d = c /\ i = n)
  BY <1>3, <1>4
<1>6. /\ outcome' \in [Invocations -> {"new", "waiting", "ok", "error", "lost"}]
      /\ \A s \in Invocations : s # r => outcome'[s] = outcome[s]
      /\ outcome'[r] = "waiting"
  BY <1>1 DEF WireTypes
<1>7. \A d \in Clients : \A i \in DOMAIN asked[d] : asked[d][i] \in Invocations /\ asked[d][i] # r
  BY <1>1, AskedCalls DEF AskedOnce
<1>8. r \notin done
  BY <1>1 DEF WaitersKnown
<1>9. /\ pending' \in [Clients -> SUBSET (Nat \ {0})] /\ pending'[c] = pending[c] \cup {n}
      /\ \A d \in Clients \ {c} : pending'[d] = pending[d]
  BY <1>1 DEF WireTypes
<1>10. /\ \A k \in DOMAIN up[c] : up[c][k].id # n
       /\ \A k \in DOMAIN sendQueue[c] : sendQueue[c][k].id # n
  BY <1>3 DEF Matched, IsCall
<1>11. /\ up' \in [Clients -> Seq(Frame \cup {Bye})]
       /\ \A d \in Clients : \A k \in DOMAIN up'[d] :
            (k \in DOMAIN up[d] /\ up'[d][k] = up[d][k]) \/ (d = c /\ up'[d][k] = frame)
       /\ \A d \in Clients : \A k, m \in DOMAIN up'[d] : up'[d][k].id = up'[d][m].id => k = m
       /\ \A d \in Clients : phase[d] = "connecting" => up'[d] = up[d]
  <2>1. up \in [Clients -> Seq(Frame \cup {Bye})] /\ up[c] \in Seq(Frame \cup {Bye})
    BY DEF WireTypes
  <2>2. CASE up' = up
    BY <2>1, <2>2 DEF QueuesInTurn
  <2>3. CASE phase[c] = "open" /\ up' = [up EXCEPT ![c] = Append(@, frame)]
    <3>1. /\ Append(up[c], frame) \in Seq(Frame \cup {Bye})
          /\ \A k \in DOMAIN Append(up[c], frame) :
               \/ k \in DOMAIN up[c] /\ Append(up[c], frame)[k] = up[c][k]
               \/ Append(up[c], frame)[k] = frame
          /\ \A k, m \in DOMAIN Append(up[c], frame) :
               Append(up[c], frame)[k].id = Append(up[c], frame)[m].id => k = m
      BY <1>2, <1>10, <2>1, FrameJoins DEF QueuesInTurn
    <3>2. /\ up' \in [Clients -> Seq(Frame \cup {Bye})] /\ up'[c] = Append(up[c], frame)
          /\ \A d \in Clients \ {c} : up'[d] = up[d]
      BY <2>1, <2>3, <3>1
    <3>3. QED
      BY <2>3, <3>1, <3>2 DEF QueuesInTurn
  <2>4. QED
    BY <1>1, <2>2, <2>3
<1>12. /\ sendQueue' \in [Clients -> Seq(Frame)]
       /\ \A d \in Clients : \A k \in DOMAIN sendQueue'[d] :
            (k \in DOMAIN sendQueue[d] /\ sendQueue'[d][k] = sendQueue[d][k]) \/ (d = c /\ sendQueue'[d][k] = frame)
       /\ \A d \in Clients : \A k, m \in DOMAIN sendQueue'[d] : sendQueue'[d][k].id = sendQueue'[d][m].id => k = m
       /\ \A d \in Clients : phase[d] # "connecting" => sendQueue'[d] = sendQueue[d]
  <2>1. sendQueue \in [Clients -> Seq(Frame)] /\ sendQueue[c] \in Seq(Frame)
    BY DEF WireTypes
  <2>2. CASE sendQueue' = sendQueue
    BY <2>1, <2>2 DEF QueuesInTurn
  <2>3. CASE phase[c] = "connecting" /\ sendQueue' = [sendQueue EXCEPT ![c] = Append(@, frame)]
    <3>1. /\ Append(sendQueue[c], frame) \in Seq(Frame)
          /\ \A k \in DOMAIN Append(sendQueue[c], frame) :
               \/ k \in DOMAIN sendQueue[c] /\ Append(sendQueue[c], frame)[k] = sendQueue[c][k]
               \/ Append(sendQueue[c], frame)[k] = frame
          /\ \A k, m \in DOMAIN Append(sendQueue[c], frame) :
               Append(sendQueue[c], frame)[k].id = Append(sendQueue[c], frame)[m].id => k = m
      BY <1>2, <1>10, <2>1, FrameJoins DEF QueuesInTurn
    <3>2. /\ sendQueue' \in [Clients -> Seq(Frame)] /\ sendQueue'[c] = Append(sendQueue[c], frame)
          /\ \A d \in Clients \ {c} : sendQueue'[d] = sendQueue[d]
      BY <2>1, <2>3, <3>1
    <3>3. QED
      BY <2>3, <3>1, <3>2 DEF QueuesInTurn
  <2>4. phase[c] \in {"connecting", "open", "closed"}
    BY DEF WireTypes
  <2>5. QED
    BY <1>1, <2>2, <2>3, <2>4
<1>13. ~((\E k \in DOMAIN up'[c] : up'[c][k] = frame) /\ (\E k \in DOMAIN sendQueue'[c] : sendQueue'[c][k] = frame))
  BY <1>1, <1>2, <1>10
<1>14. WireTypes'
  BY <1>1, <1>4, <1>6, <1>9, <1>11, <1>12 DEF WireTypes
<1>15. AskedOnce'
  <2>1. ASSUME NEW d \in Clients, NEW i \in DOMAIN asked'[d]
        PROVE  /\ Owner[asked'[d][i]] = d /\ outcome'[asked'[d][i]] # "new"
               /\ i \in pending'[d] <=> outcome'[asked'[d][i]] = "waiting"
    <3>1. CASE d = c /\ i = n
      BY <1>0, <1>5, <1>6, <1>9, <3>1
    <3>2. CASE i \in DOMAIN asked[d] /\ ~(d = c /\ i = n)
      BY <1>5, <1>6, <1>7, <1>9, <3>2 DEF AskedOnce
    <3>3. QED
      BY <1>3, <1>5, <2>1, <3>1, <3>2
  <2>2. ASSUME NEW d \in Clients, NEW i \in DOMAIN asked'[d], NEW j \in DOMAIN asked'[d],
               asked'[d][i] = asked'[d][j]
        PROVE  i = j
    BY <1>5, <1>7, <2>2 DEF AskedOnce
  <2>3. \A d \in Clients : pending'[d] \subseteq DOMAIN asked'[d]
    BY <1>5, <1>9 DEF AskedOnce
  <2>4. QED
    BY <2>1, <2>2, <2>3 DEF AskedOnce
<1>16. WaitersKnown'
  <2>1. ASSUME NEW s \in Invocations, outcome'[s] = "waiting"
        PROVE  \E i \in DOMAIN asked'[Owner[s]] : asked'[Owner[s]][i] = s
    BY <1>0, <1>5, <1>6, <2>1, WireAssumption DEF WaitersKnown
  <2>2. \A s \in done : outcome'[s] # "new"
    BY <1>6 DEF WaitersKnown, WireTypes
  <2>3. QED
    BY <1>1, <2>1, <2>2 DEF WaitersKnown
<1>17. QueuesInTurn'
  <2>1. \A d \in Clients : phase[d] = "closed" => pending'[d] = {}
    BY <1>1, <1>9 DEF QueuesInTurn
  <2>2. \A d \in Clients : \A k \in DOMAIN up'[d] : up'[d][k].id = 0 => phase'[d] = "closed"
    BY <1>1, <1>2, <1>11 DEF QueuesInTurn
  <2>3. \A d \in Clients :
          /\ phase'[d] = "connecting" => up'[d] = <<>>
          /\ phase'[d] # "connecting" => sendQueue'[d] = <<>>
          /\ phase'[d] = "closed" => down'[d] = <<>>
          /\ conn'[d] = "none" => down'[d] = <<>> /\ heard'[d] = <<>>
    BY <1>1, <1>11, <1>12 DEF QueuesInTurn
  <2>4. QED
    BY <1>1, <1>11, <1>12, <2>1, <2>2, <2>3 DEF QueuesInTurn
<1>18. \A d \in Clients : \A i, s : IsCall(d, i, s) => IsCall(d, i, s)'
  BY <1>5 DEF IsCall
<1>19. Matched'
  <2>1. IsCall(c, frame.id, frame.call)'
    BY <1>1, <1>2, <1>5 DEF IsCall
  <2>2. ASSUME NEW d \in Clients, NEW k \in DOMAIN up'[d], up'[d][k].id # 0
        PROVE  up'[d][k] \in Frame /\ up'[d][k].id \in DOMAIN asked'[d]
               /\ asked'[d][up'[d][k].id] = up'[d][k].call
    <3>1. CASE d = c /\ up'[d][k] = frame
      BY <1>2, <1>5, <3>1
    <3>2. CASE k \in DOMAIN up[d] /\ up'[d][k] = up[d][k]
      <4>1. up[d][k] \in Frame /\ IsCall(d, up[d][k].id, up[d][k].call)
        BY <2>2, <3>2 DEF Matched
      <4>2. QED
        BY <1>5, <3>2, <4>1 DEF IsCall
    <3>3. QED
      BY <1>11, <2>2, <3>1, <3>2
  <2>3. ASSUME NEW d \in Clients, NEW k \in DOMAIN sendQueue'[d]
        PROVE  sendQueue'[d][k].id \in DOMAIN asked'[d]
               /\ asked'[d][sendQueue'[d][k].id] = sendQueue'[d][k].call
    <3>1. CASE sendQueue'[d][k] = frame /\ d = c
      BY <1>2, <1>5, <3>1
    <3>2. CASE k \in DOMAIN sendQueue[d] /\ sendQueue'[d][k] = sendQueue[d][k]
      <4>1. IsCall(d, sendQueue[d][k].id, sendQueue[d][k].call)
        BY <3>2 DEF Matched
      <4>2. QED
        BY <1>5, <3>2, <4>1 DEF IsCall
    <3>3. QED
      BY <1>12, <2>3, <3>1, <3>2
  <2>4. \A d \in Clients : \A k \in DOMAIN down'[d] : down'[d][k] \in AnswerFrame => down'[d][k].id \in DOMAIN asked'[d]
    BY <1>1, <1>5 DEF Matched
  <2>5. \A q \in running : q.client \in Clients
    BY RequestKinds DEF WireTypes
  <2>6. \A q \in running' : IsCall(q.client, q.id, q.call)' /\ conn'[q.client] # "none"
    BY <1>1, <1>18, <2>5 DEF Matched
  <2>7. \A a \in answers : a.request.client \in Clients
    BY RequestKinds DEF WireTypes
  <2>8. \A a \in answers' : IsCall(a.request.client, a.request.id, a.request.call)' /\ conn'[a.request.client] # "none"
    BY <1>1, <1>18, <2>7 DEF Matched
  <2>9. QED
    BY <2>2, <2>3, <2>4, <2>6, <2>8 DEF Matched, IsCall
<1>20. AnswersTrue' /\ Announced'
  BY <1>1, <1>5 DEF AnswersTrue, Announced, Matched
<1>21. EventFirst'
  <2>1. AnswersFollow'
    BY <1>1 DEF EventFirst, AnswersFollow, Knows
  <2>2. FramesFollow'
    BY <1>1, <1>5 DEF EventFirst, FramesFollow, Matched
  <2>3. QED
    BY <2>1, <2>2 DEF EventFirst
<1>22. Mirrored'
  BY <1>1 DEF Mirrored, Mirrors, Ahead, Told
<1>23. Unfinished'
  <2>1. \A d \in Clients, i \in Nat \ {0} :
          /\ Sent(d, i)' => Sent(d, i) \/ (d = c /\ i = n /\ \E k \in DOMAIN up'[c] : up'[c][k] = frame)
          /\ Held(d, i)' => Held(d, i) \/ (d = c /\ i = n /\ \E k \in DOMAIN sendQueue'[c] : sendQueue'[c][k] = frame)
          /\ Worked(d, i)' = Worked(d, i)
    BY <1>1, <1>2, <1>11, <1>12 DEF Sent, Held, Worked
  <2>2. ~Worked(c, n) /\ ~\E a \in answers : a.request.client = c /\ a.request.id = n
    BY <1>3, RequestKinds DEF Worked, Matched, IsCall, WireTypes
  <2>3. ~\E k \in DOMAIN down[c] : down[c][k] \in AnswerFrame /\ down[c][k].id = n
    BY <1>3 DEF Matched
  <2>4. ASSUME NEW d \in Clients, NEW i \in Nat \ {0}, UnderWay(d, i)'
        PROVE  /\ asked'[d][i] \notin done'
               /\ outcome'[asked'[d][i]] \in {"waiting", "lost"}
               /\ ~(Worked(d, i)' /\ (Sent(d, i)' \/ Held(d, i)'))
               /\ ~\E a \in answers' : a.request.client = d /\ a.request.id = i
               /\ ~\E k \in DOMAIN down'[d] : down'[d][k] \in AnswerFrame /\ down'[d][k].id = i
    <3>1. CASE d = c /\ i = n
      BY <1>1, <1>5, <1>6, <1>8, <2>1, <2>2, <2>3, <3>1
    <3>2. CASE ~(d = c /\ i = n)
      <4>1. UnderWay(d, i)
        BY <2>1, <2>4, <3>2 DEF UnderWay
      <4>2. i \in DOMAIN asked[d]
        BY <4>1, UnderWayAsked
      <4>3. QED
        BY <1>1, <1>5, <1>6, <1>7, <2>1, <3>2, <4>1, <4>2 DEF Unfinished
    <3>3. QED
      BY <3>1, <3>2
  <2>5. QED
    BY <2>4 DEF Unfinished
<1>24. QED
  BY <1>14, <1>15, <1>16, <1>17, <1>19, <1>20, <1>21, <1>22, <1>23

-----------------------------------------------------------------------------
(***************************************************************************)
(* The socket closes                                                       *)
(***************************************************************************)

LEMMA TeardownInv ==
    ASSUME WireInv, NEW c \in Clients, Teardown(c)
    PROVE  WireInv'
<1>0. PICK arriving \in {up[c], <<>>} : up' = [up EXCEPT ![c] = Append(arriving, Bye)]
  BY DEF Teardown
<1>1. /\ phase[c] # "closed" /\ phase' = [phase EXCEPT ![c] = "closed"]
      /\ outcome' = [r \in Invocations |->
            IF \E i \in pending[c] : asked[c][i] = r THEN "lost" ELSE outcome[r]]
      /\ pending' = [pending EXCEPT ![c] = {}]
      /\ sendQueue' = [sendQueue EXCEPT ![c] = <<>>]
      /\ down' = [down EXCEPT ![c] = <<>>]
      /\ UNCHANGED <<asked, heard, conn, attached, running, answers, done, log, since>>
  BY DEF Teardown, FailAll, serverVars
<1> USE DEF WireInv
<1>2. /\ phase' \in [Clients -> {"connecting", "open", "closed"}]
      /\ pending' \in [Clients -> SUBSET (Nat \ {0})]
      /\ sendQueue' \in [Clients -> Seq(Frame)]
      /\ down' \in [Clients -> Seq(EventFrame \cup AnswerFrame)]
      /\ phase'[c] = "closed" /\ pending'[c] = {} /\ sendQueue'[c] = <<>> /\ down'[c] = <<>>
      /\ \A d \in Clients \ {c} : /\ phase'[d] = phase[d] /\ pending'[d] = pending[d]
                                  /\ sendQueue'[d] = sendQueue[d] /\ down'[d] = down[d]
  BY SMTT(60), <1>1 DEF WireTypes
<1>3. /\ outcome' \in [Invocations -> {"new", "waiting", "ok", "error", "lost"}]
      /\ \A r \in Invocations :
           \/ outcome'[r] = outcome[r] /\ ~\E i \in pending[c] : asked[c][i] = r
           \/ outcome'[r] = "lost" /\ \E i \in pending[c] : asked[c][i] = r
  BY <1>1 DEF WireTypes
<1>4. /\ up' \in [Clients -> Seq(Frame \cup {Bye})]
      /\ \A d \in Clients \ {c} : up'[d] = up[d]
      /\ \A k \in DOMAIN up'[c] : (\E n \in DOMAIN up[c] : up'[c][k] = up[c][n]) \/ up'[c][k] = Bye
      /\ \A k, n \in DOMAIN up'[c] : up'[c][k].id = up'[c][n].id => k = n
  <2>0. up \in [Clients -> Seq(Frame \cup {Bye})] /\ up[c] \in Seq(Frame \cup {Bye})
        /\ <<>> \in Seq(Frame \cup {Bye})
    BY SMTT(40) DEF WireTypes
  <2>1. arriving \in Seq(Frame \cup {Bye}) /\ Bye \in Frame \cup {Bye} /\ Bye.id = 0
    BY <2>0, FrameKinds
  <2>2. /\ \A k \in DOMAIN arriving : arriving[k].id # 0
        /\ \A k, n \in DOMAIN arriving : arriving[k].id = arriving[n].id => k = n
        /\ \A k \in DOMAIN arriving : \E n \in DOMAIN up[c] : arriving[k] = up[c][n]
    BY <1>1 DEF QueuesInTurn
  <2>3. /\ Append(arriving, Bye) \in Seq(Frame \cup {Bye})
        /\ \A k \in DOMAIN Append(arriving, Bye) :
             \/ k \in DOMAIN arriving /\ Append(arriving, Bye)[k] = arriving[k]
             \/ Append(arriving, Bye)[k] = Bye
        /\ \A k, n \in DOMAIN Append(arriving, Bye) :
             Append(arriving, Bye)[k].id = Append(arriving, Bye)[n].id => k = n
    <3>1. \A k \in DOMAIN arriving : arriving[k].id # Bye.id
      BY <2>1, <2>2
    <3>2. \A k, n \in DOMAIN arriving : arriving[k].id = arriving[n].id => k = n
      BY <2>2
    <3>3. QED
      BY <2>1, <3>1, <3>2, FrameJoins
  <2>4. /\ up' \in [Clients -> Seq(Frame \cup {Bye})] /\ up'[c] = Append(arriving, Bye)
        /\ \A d \in Clients \ {c} : up'[d] = up[d]
    BY <1>0, <2>0, <2>3
  <2>5. QED
    BY <2>2, <2>3, <2>4
<1>19. /\ phase'[c] = "closed" /\ pending'[c] = {} /\ sendQueue'[c] = <<>> /\ down'[c] = <<>>
       /\ DOMAIN sendQueue'[c] = {} /\ DOMAIN down'[c] = {}
  BY <1>2
<1>20. \A d \in Clients \ {c} :
         /\ phase'[d] = phase[d] /\ up'[d] = up[d] /\ down'[d] = down[d]
         /\ pending'[d] = pending[d] /\ sendQueue'[d] = sendQueue[d]
  BY <1>2, <1>4
<1>21. \A d \in Clients : \A i \in DOMAIN asked[d] :
        outcome'[asked[d][i]] =
          IF d = c /\ i \in pending[c] THEN "lost" ELSE outcome[asked[d][i]]
  <2>1. SUFFICES ASSUME NEW d \in Clients, NEW i \in DOMAIN asked[d]
                 PROVE  outcome'[asked[d][i]] =
                          IF d = c /\ i \in pending[c] THEN "lost" ELSE outcome[asked[d][i]]
    OBVIOUS
  <2>2. PICK r \in Invocations : r = asked[d][i]
    BY <2>1, AskedCalls
  <2>3. (\E j \in pending[c] : asked[c][j] = r) <=> d = c /\ i \in pending[c]
    <3>1. ASSUME NEW j \in pending[c], asked[c][j] = r
          PROVE  d = c /\ i \in pending[c]
      <4>1. j \in DOMAIN asked[c] /\ Owner[r] = c
        BY <3>1 DEF AskedOnce
      <4>2. d = c
        BY <2>2, <4>1 DEF AskedOnce
      <4>3. QED
        BY <2>2, <3>1, <4>1, <4>2 DEF AskedOnce
    <3>2. QED
      BY <2>2, <3>1
  <2>4. QED
    BY <1>3, <2>2, <2>3
<1>5. WireTypes'
  BY <1>1, <1>2, <1>3, <1>4 DEF WireTypes
<1>6. AskedOnce'
  <2>1. ASSUME NEW d \in Clients, NEW i \in DOMAIN asked[d]
        PROVE  /\ Owner[asked[d][i]] = d /\ outcome'[asked[d][i]] # "new"
               /\ i \in pending'[d] <=> outcome'[asked[d][i]] = "waiting"
    <3>2. CASE d = c
      BY <1>19, <1>21, <3>2 DEF AskedOnce
    <3>3. CASE d # c
      BY <1>20, <1>21, <3>3 DEF AskedOnce
    <3>4. QED
      BY <3>2, <3>3
  <2>2. \A d \in Clients : pending'[d] \subseteq DOMAIN asked[d]
    <3>1. \A d \in Clients : pending'[d] \subseteq pending[d]
      BY <1>19, <1>20
    <3>2. \A d \in Clients : pending[d] \subseteq DOMAIN asked[d]
      BY DEF AskedOnce
    <3>3. QED
      BY <3>1, <3>2, Zenon
  <2>3. \A d \in Clients : \A i, j \in DOMAIN asked[d] : asked[d][i] = asked[d][j] => i = j
    BY DEF AskedOnce
  <2>4. QED
    <3>1. asked' = asked
      BY <1>1
    <3>2. QED
      BY <2>1, <2>2, <2>3, <3>1 DEF AskedOnce
<1>7. WaitersKnown'
  <2>1. \A r \in Invocations : outcome'[r] = "waiting" => outcome[r] = "waiting"
    BY <1>3
  <2>2. \A r \in done : outcome'[r] # "new"
    BY <1>3 DEF WaitersKnown, WireTypes
  <2>3. QED
    BY <1>1, <2>1, <2>2 DEF WaitersKnown
<1>8. QueuesInTurn'
  <2>1. ASSUME NEW d \in Clients \ {c}
        PROVE  /\ phase'[d] = "connecting" => up'[d] = <<>>
               /\ phase'[d] # "connecting" => sendQueue'[d] = <<>>
               /\ phase'[d] = "closed" => down'[d] = <<>> /\ pending'[d] = {}
               /\ conn'[d] = "none" => down'[d] = <<>> /\ heard'[d] = <<>>
               /\ \A k \in DOMAIN up'[d] : up'[d][k].id = 0 => phase'[d] = "closed"
               /\ \A k, n \in DOMAIN up'[d] : up'[d][k].id = up'[d][n].id => k = n
               /\ \A k, n \in DOMAIN sendQueue'[d] : sendQueue'[d][k].id = sendQueue'[d][n].id => k = n
    BY <1>1, <1>20 DEF QueuesInTurn
  <2>2. /\ conn'[c] = "none" => down'[c] = <<>> /\ heard'[c] = <<>>
        /\ \A k, n \in DOMAIN sendQueue'[c] : sendQueue'[c][k].id = sendQueue'[c][n].id => k = n
    BY <1>1, <1>2 DEF QueuesInTurn
  <2>3. QED
    BY <1>2, <1>4, <2>1, <2>2 DEF QueuesInTurn
<1>9. Matched'
  <2>1. ASSUME NEW d \in Clients, NEW k \in DOMAIN up'[d], up'[d][k].id # 0
        PROVE  up'[d][k] \in Frame /\ IsCall(d, up'[d][k].id, up'[d][k].call)
    <3>1. \E n \in DOMAIN up[d] : up'[d][k] = up[d][n]
      BY <1>4, <2>1, FrameKinds
    <3>2. QED
      BY <2>1, <3>1 DEF Matched
  <2>2. ASSUME NEW d \in Clients, NEW k \in DOMAIN sendQueue'[d]
        PROVE  IsCall(d, sendQueue'[d][k].id, sendQueue'[d][k].call)
    BY <1>19, <1>20, <2>2 DEF Matched
  <2>3. \A d \in Clients : \A k \in DOMAIN down'[d] : down'[d][k] \in AnswerFrame => down'[d][k].id \in DOMAIN asked[d]
    BY <1>19, <1>20 DEF Matched
  <2>4. QED
    BY <1>1, <2>1, <2>2, <2>3 DEF Matched, IsCall
<1>10. AnswersTrue' /\ Announced'
  BY <1>1, <1>2 DEF AnswersTrue, Announced
<1>11. EventFirst'
  <2>1. \A a \in answers : a.request.client \in Clients
    BY RequestKinds DEF WireTypes
  <2>2. AnswersFollow'
    BY <1>1, <1>2, <2>1 DEF EventFirst, AnswersFollow, Knows
  <2>3. FramesFollow'
    BY <1>1, <1>2 DEF EventFirst, FramesFollow
  <2>4. QED
    BY <2>2, <2>3 DEF EventFirst
<1>12. Mirrored'
  BY <1>1, <1>2 DEF Mirrored, Mirrors, Ahead, Told
<1>13. Unfinished'
  <2>1. \A d \in Clients, i \in Nat \ {0} :
          /\ Sent(d, i)' => Sent(d, i)
          /\ Held(d, i)' => Held(d, i)
          /\ Worked(d, i)' = Worked(d, i)
    <3>1. ASSUME NEW d \in Clients, NEW i \in Nat \ {0}, Sent(d, i)'
          PROVE  Sent(d, i)
      BY <1>20, <1>4, <3>1, FrameKinds DEF Sent
    <3>2. ASSUME NEW d \in Clients, NEW i \in Nat \ {0}, Held(d, i)'
          PROVE  Held(d, i)
      BY <1>20, <1>19, <3>2 DEF Held
    <3>3. QED
      BY <1>1, <3>1, <3>2 DEF Worked
  <2>2. ASSUME NEW d \in Clients, NEW i \in Nat \ {0}, UnderWay(d, i)'
        PROVE  /\ asked'[d][i] \notin done'
               /\ outcome'[asked'[d][i]] \in {"waiting", "lost"}
               /\ ~(Worked(d, i)' /\ (Sent(d, i)' \/ Held(d, i)'))
               /\ ~\E a \in answers' : a.request.client = d /\ a.request.id = i
               /\ ~\E k \in DOMAIN down'[d] : down'[d][k] \in AnswerFrame /\ down'[d][k].id = i
    <3>1. UnderWay(d, i)
      BY <2>1, <2>2 DEF UnderWay
    <3>2. i \in DOMAIN asked[d]
      BY <3>1, UnderWayAsked
    <3>3. outcome'[asked[d][i]] \in {"waiting", "lost"}
      BY <1>21, <3>1, <3>2 DEF Unfinished
    <3>4. QED
      BY <1>1, <1>2, <1>20, <2>1, <3>1, <3>3 DEF Unfinished
  <2>3. QED
    BY <2>2 DEF Unfinished
<1>14. QED
  BY <1>5, <1>6, <1>7, <1>8, <1>9, <1>10, <1>11, <1>12, <1>13

-----------------------------------------------------------------------------
(***************************************************************************)
(* The client reads a frame                                                *)
(***************************************************************************)

LEMMA HearEffect ==
    ASSUME WireTypes, NEW c \in Clients, down[c] # <<>>, down' = [down EXCEPT ![c] = Tail(@)]
    PROVE  /\ down' \in [Clients -> Seq(EventFrame \cup AnswerFrame)]
           /\ \A d \in Clients \ {c} : down'[d] = down[d]
           /\ Head(down[c]) \in EventFrame \cup AnswerFrame
           /\ 1 \in DOMAIN down[c] /\ down[c][1] = Head(down[c])
           /\ \A k \in DOMAIN down'[c] : /\ k \in Nat \ {0} /\ k + 1 \in DOMAIN down[c]
                                         /\ down'[c][k] = down[c][k + 1]
           /\ \A k \in DOMAIN down[c] :
                \/ k = 1
                \/ k \in Nat \ {0, 1} /\ k - 1 \in DOMAIN down'[c] /\ down'[c][k - 1] = down[c][k]
<1>1. down \in [Clients -> Seq(EventFrame \cup AnswerFrame)] /\ down[c] \in Seq(EventFrame \cup AnswerFrame)
  BY DEF WireTypes
<1>2. /\ Head(down[c]) \in EventFrame \cup AnswerFrame /\ Head(down[c]) = down[c][1] /\ 1 \in DOMAIN down[c]
      /\ Tail(down[c]) \in Seq(EventFrame \cup AnswerFrame) /\ Len(down[c]) \in Nat \ {0}
      /\ DOMAIN down[c] = 1..Len(down[c]) /\ DOMAIN Tail(down[c]) = 1..Len(down[c]) - 1
      /\ \A k \in DOMAIN Tail(down[c]) : k + 1 \in DOMAIN down[c] /\ Tail(down[c])[k] = down[c][k + 1]
  BY <1>1, TailOf
<1>3. /\ down' \in [Clients -> Seq(EventFrame \cup AnswerFrame)]
      /\ \A d \in Clients \ {c} : down'[d] = down[d]
      /\ down'[c] = Tail(down[c])
  BY <1>1, <1>2
<1>4. \A k \in DOMAIN down'[c] : k \in Nat \ {0} /\ k + 1 \in DOMAIN down[c] /\ down'[c][k] = down[c][k + 1]
  BY <1>2, <1>3
<1>5. ASSUME NEW k \in DOMAIN down[c], k # 1
      PROVE  k \in Nat \ {0, 1} /\ k - 1 \in DOMAIN down'[c] /\ down'[c][k - 1] = down[c][k]
  <2>1. k \in Nat \ {0, 1} /\ k - 1 \in DOMAIN Tail(down[c]) /\ (k - 1) + 1 = k
    BY <1>2, <1>5
  <2>2. Tail(down[c])[k - 1] = down[c][(k - 1) + 1]
    BY <1>2, <2>1
  <2>3. QED
    BY <1>3, <2>1, <2>2
<1>6. QED
  BY <1>2, <1>3, <1>4, <1>5

LEMMA SameSeq ==
    ASSUME NEW S, NEW s \in Seq(S), NEW t \in Seq(S), Len(s) = Len(t),
           \A i \in 1..Len(s) : s[i] = t[i]
    PROVE  s = t
  OBVIOUS

LEMMA AheadTyped ==
    ASSUME WireTypes, NEW c \in Clients
    PROVE  /\ Told(c) \in Nat /\ Len(log) \in Nat /\ since[c] \in Nat /\ Len(heard[c]) \in Nat
           /\ log \in Seq(Writes) /\ heard[c] \in Seq(Writes) /\ DOMAIN log = 1..Len(log)
           /\ \A n \in Ahead(c) : n \in DOMAIN log /\ n \in Nat /\ log[n] \in Writes
                                              /\ Event(log[n]) \in EventFrame
<1>1. /\ log \in Seq(Writes) /\ heard[c] \in Seq(Writes) /\ since[c] \in Nat
  BY DEF WireTypes
<1>2. /\ Len(log) \in Nat /\ Len(heard[c]) \in Nat /\ Told(c) \in Nat /\ DOMAIN log = 1..Len(log)
      /\ \A n \in DOMAIN log : log[n] \in Writes
  BY <1>1 DEF Told
<1>3. \A n \in Ahead(c) : n \in DOMAIN log /\ n \in Nat
  BY <1>2 DEF Ahead
<1>4. QED
  BY <1>1, <1>2, <1>3, MailKinds

LEMMA MirrorsAnswerRead ==
    ASSUME WireTypes, NEW c \in Clients, Mirrors(c), down[c] # <<>>,
           Head(down[c]) \notin EventFrame,
           down' = [down EXCEPT ![c] = Tail(@)], UNCHANGED <<log, heard, since>>
    PROVE  Mirrors(c)'
<1>1. /\ 1 \in DOMAIN down[c] /\ down[c][1] = Head(down[c])
      /\ \A k \in DOMAIN down'[c] : k \in Nat \ {0} /\ k + 1 \in DOMAIN down[c] /\ down'[c][k] = down[c][k + 1]
      /\ \A k \in DOMAIN down[c] :
           \/ k = 1
           \/ k \in Nat \ {0, 1} /\ k - 1 \in DOMAIN down'[c] /\ down'[c][k - 1] = down[c][k]
  BY HearEffect
<1>2. Told(c)' = Told(c) /\ Ahead(c)' = Ahead(c)
  BY DEF Told, Ahead
<1>3. ASSUME NEW n \in Ahead(c)
      PROVE  \E i \in DOMAIN down'[c] : down'[c][i] = Event(log[n])
  <2>1. PICK i \in DOMAIN down[c] : down[c][i] = Event(log[n])
    BY DEF Mirrors
  <2>2. Event(log[n]) \in EventFrame
    BY AheadTyped
  <2>3. i # 1
    BY <1>1, <2>1, <2>2
  <2>4. i - 1 \in DOMAIN down'[c] /\ down'[c][i - 1] = down[c][i]
    BY <1>1, <2>1, <2>3
  <2>5. QED
    BY <2>1, <2>4
<1>4. ASSUME NEW i \in DOMAIN down'[c], down'[c][i] \in EventFrame
      PROVE  \E n \in Ahead(c) : down'[c][i] = Event(log[n])
  BY <1>1, <1>4 DEF Mirrors
<1>5. ASSUME NEW n \in Ahead(c), NEW m \in Ahead(c),
             NEW i \in DOMAIN down'[c], NEW j \in DOMAIN down'[c],
             down'[c][i] = Event(log[n]), down'[c][j] = Event(log[m])
      PROVE  n < m <=> i < j
  <2>1. /\ i \in Nat /\ i + 1 \in DOMAIN down[c] /\ down[c][i + 1] = Event(log[n])
        /\ j \in Nat /\ j + 1 \in DOMAIN down[c] /\ down[c][j + 1] = Event(log[m])
    BY <1>1, <1>5
  <2>2. n < m <=> i + 1 < j + 1
    BY <2>1 DEF Mirrors
  <2>3. QED
    BY <2>1, <2>2
<1>6. Told(c)' <= Len(log') /\ heard'[c] = SubSeq(log', since'[c] + 1, Told(c)')
  BY <1>2 DEF Mirrors
<1>7. /\ \A n \in Ahead(c)' : \E i \in DOMAIN down'[c] : down'[c][i] = Event(log'[n])
      /\ \A i \in DOMAIN down'[c] : down'[c][i] \in EventFrame =>
           \E n \in Ahead(c)' : down'[c][i] = Event(log'[n])
  BY <1>2, <1>3, <1>4
<1>8. \A n, m \in Ahead(c)', i, j \in DOMAIN down'[c] :
         down'[c][i] = Event(log'[n]) /\ down'[c][j] = Event(log'[m]) => (n < m <=> i < j)
  BY <1>2, <1>5
<1>9. QED
  BY <1>6, <1>7, <1>8 DEF Mirrors

\* The event that is read is that of the first broadcast the client was not told of.
LEMMA MirrorsEventRead ==
    ASSUME WireTypes, NEW c \in Clients, Mirrors(c), down[c] # <<>>,
           Head(down[c]) \in EventFrame,
           down' = [down EXCEPT ![c] = Tail(@)], UNCHANGED <<log, since>>,
           heard' = [heard EXCEPT ![c] = Append(@, Head(down[c]).event)]
    PROVE  Mirrors(c)'
<1>1. /\ 1 \in DOMAIN down[c] /\ down[c][1] = Head(down[c])
      /\ \A k \in DOMAIN down'[c] : k \in Nat \ {0} /\ k + 1 \in DOMAIN down[c] /\ down'[c][k] = down[c][k + 1]
      /\ \A k \in DOMAIN down[c] :
           \/ k = 1
           \/ k \in Nat \ {0, 1} /\ k - 1 \in DOMAIN down'[c] /\ down'[c][k - 1] = down[c][k]
  BY HearEffect
<1>2. /\ Told(c) \in Nat /\ Len(log) \in Nat /\ since[c] \in Nat /\ Len(heard[c]) \in Nat
      /\ log \in Seq(Writes) /\ heard[c] \in Seq(Writes) /\ DOMAIN log = 1..Len(log)
      /\ \A n \in Ahead(c) : n \in DOMAIN log /\ n \in Nat /\ log[n] \in Writes
  BY AheadTyped
<1>3. PICK m \in Ahead(c) : down[c][1] = Event(log[m])
  BY <1>1 DEF Mirrors
<1>4. m = Told(c) + 1
  <2>1. Told(c) + 1 \in Ahead(c)
    BY <1>2, <1>3 DEF Ahead
  <2>2. PICK i \in DOMAIN down[c] : down[c][i] = Event(log[Told(c) + 1])
    BY <2>1 DEF Mirrors
  <2>3. m < Told(c) + 1 <=> 1 < i
    BY <1>1, <1>3, <2>1, <2>2 DEF Mirrors
  <2>4. Told(c) + 1 < m <=> i < 1
    BY <1>1, <1>3, <2>1, <2>2 DEF Mirrors
  <2>5. i = 1 \/ i \in Nat \ {0, 1}
    BY <1>1, <2>2
  <2>6. QED
    BY <1>2, <1>3, <2>4, <2>5 DEF Ahead
<1>5. Head(down[c]).event = log[m]
  BY <1>1, <1>2, <1>3, MailKinds
<1>6. heard'[c] = Append(heard[c], log[m])
  BY <1>5 DEF WireTypes
<1>7. Told(c)' = Told(c) + 1 /\ Told(c) + 1 <= Len(log)
  BY SMTT(30), <1>2, <1>3, <1>4, <1>6 DEF Told, Ahead
<1>8. heard'[c] = SubSeq(log, since[c] + 1, Told(c) + 1)
  <2>1. PICK a \in Nat, b \in Nat : a = since[c] /\ b = Told(c)
    BY <1>2
  <2>2. /\ heard[c] = SubSeq(log, a + 1, b) /\ b = a + Len(heard[c]) /\ b + 1 <= Len(log) /\ m = b + 1
    BY <1>4, <1>7, <2>1 DEF Mirrors, Ahead, Told
  <2>3. SubSeq(log, a + 1, b + 1) \in Seq(Writes) /\ Len(SubSeq(log, a + 1, b + 1)) = b + 1 - a
        /\ \A i \in 1..b + 1 - a : SubSeq(log, a + 1, b + 1)[i] = log[a + i]
    BY <1>2, <2>2
  <2>4. Append(heard[c], log[m]) \in Seq(Writes) /\ Len(Append(heard[c], log[m])) = b + 1 - a
    BY <1>2, <1>3, <2>2
  <2>5. \A i \in 1..b + 1 - a : Append(heard[c], log[m])[i] = log[a + i]
    <3>1. \A i \in 1..b - a : heard[c][i] = log[a + i]
      BY <1>2, <2>2
    <3>2. ASSUME NEW i \in 1..b + 1 - a
          PROVE  Append(heard[c], log[m])[i] = log[a + i]
      <4>1. CASE i \in 1..b - a
        <5>1. Append(heard[c], log[m])[i] = heard[c][i]
          BY <1>2, <1>3, <2>2, <4>1
        <5>2. QED
          BY <3>1, <4>1, <5>1
      <4>2. CASE i = b - a + 1
        <5>1. Append(heard[c], log[m])[i] = log[m] /\ a + i = m
          BY <1>2, <1>3, <2>2, <4>2
        <5>2. QED
          BY <5>1
      <4>3. QED
        <5>1. i \in 1..b - a \/ i = b - a + 1
          BY <3>2
        <5>2. QED
          BY <4>1, <4>2, <5>1
    <3>3. QED
      BY <3>2
  <2>6. Append(heard[c], log[m]) = SubSeq(log, a + 1, b + 1)
    <3>1. /\ Len(Append(heard[c], log[m])) = Len(SubSeq(log, a + 1, b + 1))
          /\ \A i \in 1..Len(Append(heard[c], log[m])) :
               Append(heard[c], log[m])[i] = SubSeq(log, a + 1, b + 1)[i]
      BY <2>3, <2>4, <2>5
    <3>2. QED
      BY <2>3, <2>4, <3>1, SameSeq
  <2>7. QED
    BY <1>6, <2>1, <2>6
<1>9. Ahead(c)' = Ahead(c) \ {m} /\ \A n \in Ahead(c) \ {m} : m < n
  BY <1>2, <1>4, <1>7 DEF Ahead
<1>10. ASSUME NEW n \in Ahead(c)'
       PROVE  \E i \in DOMAIN down'[c] : down'[c][i] = Event(log[n])
  <2>1. n \in Ahead(c) /\ m < n
    BY <1>9
  <2>2. PICK i \in DOMAIN down[c] : down[c][i] = Event(log[n])
    BY <2>1 DEF Mirrors
  <2>3. 1 < i
    BY <1>1, <1>3, <2>1, <2>2 DEF Mirrors
  <2>4. i - 1 \in DOMAIN down'[c] /\ down'[c][i - 1] = down[c][i]
    BY <1>1, <2>2, <2>3
  <2>5. QED
    BY <2>2, <2>4
<1>11. ASSUME NEW i \in DOMAIN down'[c], down'[c][i] \in EventFrame
       PROVE  \E n \in Ahead(c)' : down'[c][i] = Event(log[n])
  <2>1. i \in Nat \ {0} /\ i + 1 \in DOMAIN down[c] /\ down[c][i + 1] = down'[c][i]
    BY <1>1
  <2>2. PICK n \in Ahead(c) : down[c][i + 1] = Event(log[n])
    BY <1>11, <2>1 DEF Mirrors
  <2>3. m < n <=> 1 < i + 1
    BY <1>1, <1>3, <2>1, <2>2 DEF Mirrors
  <2>4. m < n /\ m \in Nat
    BY <1>2, <2>1, <2>3
  <2>5. n \in Ahead(c)'
    BY <1>9, <2>2, <2>4
  <2>6. QED
    BY <2>1, <2>2, <2>5
<1>12. ASSUME NEW n \in Ahead(c)', NEW k \in Ahead(c)',
             NEW i \in DOMAIN down'[c], NEW j \in DOMAIN down'[c],
             down'[c][i] = Event(log[n]), down'[c][j] = Event(log[k])
      PROVE  n < k <=> i < j
  <2>1. /\ i \in Nat /\ i + 1 \in DOMAIN down[c] /\ down[c][i + 1] = Event(log[n])
        /\ j \in Nat /\ j + 1 \in DOMAIN down[c] /\ down[c][j + 1] = Event(log[k])
    BY <1>1, <1>12
  <2>2. n \in Ahead(c) /\ k \in Ahead(c)
    BY <1>9
  <2>3. n < k <=> i + 1 < j + 1
    BY <2>1, <2>2 DEF Mirrors
  <2>4. QED
    BY <2>1, <2>3
<1>13. Told(c)' <= Len(log') /\ heard'[c] = SubSeq(log', since'[c] + 1, Told(c)')
  BY <1>7, <1>8
<1>14. /\ \A n \in Ahead(c)' : \E i \in DOMAIN down'[c] : down'[c][i] = Event(log'[n])
       /\ \A i \in DOMAIN down'[c] : down'[c][i] \in EventFrame =>
            \E n \in Ahead(c)' : down'[c][i] = Event(log'[n])
  BY <1>10, <1>11
<1>15. \A n, k \in Ahead(c)', i, j \in DOMAIN down'[c] :
         down'[c][i] = Event(log'[n]) /\ down'[c][j] = Event(log'[k]) => (n < k <=> i < j)
  BY <1>12
<1>16. QED
  BY <1>13, <1>14, <1>15 DEF Mirrors

\* An answer that is read settles the promise its id stands for, or nothing.
LEMMA OnResponseInv ==
    ASSUME WireInv, NEW c \in Clients, OnMessage(c), "event" \notin DOMAIN Head(down[c])
    PROVE  WireInv'
<1>0. PICK f : f = Head(down[c])
  OBVIOUS
<1>1. /\ phase[c] = "open" /\ down[c] # <<>> /\ down' = [down EXCEPT ![c] = Tail(@)]
      /\ UNCHANGED <<phase, asked, sendQueue, up, heard, conn, attached, running, answers, done, log, since>>
  BY DEF OnMessage, OnResponse, serverVars
<1>2. \/ /\ f.id \in pending[c]
         /\ outcome' = [outcome EXCEPT ![asked[c][f.id]] = f.answer]
         /\ pending' = [pending EXCEPT ![c] = @ \ {f.id}]
      \/ UNCHANGED <<outcome, pending>>
  BY <1>0 DEF OnMessage, OnResponse
<1> USE DEF WireInv
<1>3. /\ down' \in [Clients -> Seq(EventFrame \cup AnswerFrame)]
      /\ \A d \in Clients \ {c} : down'[d] = down[d]
      /\ f \in EventFrame \cup AnswerFrame
      /\ 1 \in DOMAIN down[c] /\ down[c][1] = f
      /\ \A k \in DOMAIN down'[c] : k \in Nat \ {0} /\ k + 1 \in DOMAIN down[c] /\ down'[c][k] = down[c][k + 1]
      /\ \A k \in DOMAIN down[c] :
           \/ k = 1
           \/ k \in Nat \ {0, 1} /\ k - 1 \in DOMAIN down'[c] /\ down'[c][k - 1] = down[c][k]
  BY <1>0, <1>1, HearEffect
<1>4. f \in AnswerFrame /\ f \notin EventFrame /\ f.id \in Nat \ {0} /\ f.answer \in {"ok", "error"}
  BY <1>0, <1>3, MailKinds
<1>5. ~UnderWay(c, f.id) /\ f.id \in DOMAIN asked[c]
  BY <1>3, <1>4 DEF Unfinished, Matched
<1>6. PICK s \in Invocations : s = asked[c][f.id]
  BY <1>5, AskedCalls
<1>7. /\ outcome' \in [Invocations -> {"new", "waiting", "ok", "error", "lost"}]
      /\ \A r \in Invocations : r # s => outcome'[r] = outcome[r]
      /\ \/ outcome'[s] = outcome[s] /\ pending' = pending
         \/ /\ outcome'[s] \in {"ok", "error"} /\ outcome[s] = "waiting"
            /\ pending' = [pending EXCEPT ![c] = @ \ {f.id}]
  <2>1. outcome \in [Invocations -> {"new", "waiting", "ok", "error", "lost"}]
    BY DEF WireTypes
  <2>2. CASE UNCHANGED <<outcome, pending>>
    BY <2>1, <2>2
  <2>3. CASE /\ f.id \in pending[c]
             /\ outcome' = [outcome EXCEPT ![asked[c][f.id]] = f.answer]
             /\ pending' = [pending EXCEPT ![c] = @ \ {f.id}]
    <3>1. outcome[s] = "waiting"
      BY <1>5, <1>6, <2>3 DEF AskedOnce
    <3>2. outcome' = [outcome EXCEPT ![s] = f.answer]
      BY <1>6, <2>3
    <3>3. QED
      BY <1>4, <2>1, <2>3, <3>1, <3>2
  <2>4. QED
    BY <1>2, <2>2, <2>3
<1>8. /\ pending' \in [Clients -> SUBSET (Nat \ {0})]
      /\ \A d \in Clients \ {c} : pending'[d] = pending[d]
      /\ \A i \in DOMAIN asked[c] \ {f.id} : i \in pending'[c] <=> i \in pending[c]
      /\ \A d \in Clients : pending'[d] \subseteq pending[d]
      /\ outcome'[s] \in {"ok", "error"} /\ outcome[s] = "waiting" => f.id \notin pending'[c]
  <2>1. pending \in [Clients -> SUBSET (Nat \ {0})]
    BY DEF WireTypes
  <2>2. CASE pending' = pending /\ outcome'[s] = outcome[s]
    BY <2>1, <2>2
  <2>3. CASE pending' = [pending EXCEPT ![c] = @ \ {f.id}]
    <3>1. /\ pending' \in [Clients -> SUBSET (Nat \ {0})]
          /\ \A d \in Clients \ {c} : pending'[d] = pending[d]
          /\ pending'[c] = pending[c] \ {f.id}
      BY <2>1, <2>3
    <3>2. \A d \in Clients : pending'[d] \subseteq pending[d]
      BY <3>1
    <3>3. QED
      BY <3>1, <3>2
  <2>4. QED
    BY <1>7, <2>2, <2>3
<1>9. WireTypes'
  BY <1>1, <1>3, <1>7, <1>8 DEF WireTypes
<1>10. AskedOnce'
  <2>1. ASSUME NEW d \in Clients, NEW i \in DOMAIN asked[d], ~(d = c /\ i = f.id)
        PROVE  outcome'[asked[d][i]] = outcome[asked[d][i]] /\ (i \in pending'[d] <=> i \in pending[d])
    <3>1. asked[d][i] \in Invocations /\ asked[d][i] # s
      BY <1>5, <1>6, <2>1, AskedCalls DEF AskedOnce
    <3>2. QED
      BY <1>7, <1>8, <2>1, <3>1
  <2>2. /\ Owner[s] = c /\ outcome'[s] # "new"
        /\ f.id \in pending'[c] <=> outcome'[s] = "waiting"
    BY <1>5, <1>6, <1>7, <1>8 DEF AskedOnce
  <2>3. \A d \in Clients : pending'[d] \subseteq DOMAIN asked[d]
    BY <1>8 DEF AskedOnce
  <2>4. ASSUME NEW d \in Clients, NEW i \in DOMAIN asked[d]
        PROVE  /\ Owner[asked[d][i]] = d /\ outcome'[asked[d][i]] # "new"
               /\ i \in pending'[d] <=> outcome'[asked[d][i]] = "waiting"
    BY <1>6, <2>1, <2>2, <2>4 DEF AskedOnce
  <2>5. QED
    BY <1>1, <2>3, <2>4 DEF AskedOnce
<1>11. WaitersKnown'
  <2>1. \A r \in Invocations : outcome'[r] = "waiting" => outcome[r] = "waiting"
    BY <1>7
  <2>2. \A r \in done : outcome'[r] # "new"
    BY <1>7 DEF WaitersKnown, WireTypes
  <2>3. QED
    BY <1>1, <2>1, <2>2 DEF WaitersKnown
<1>12. \A d \in Clients : down[d] = <<>> => d # c /\ down'[d] = <<>>
  BY <1>1, <1>3
<1>13. QueuesInTurn'
  <2>1. \A d \in Clients : phase[d] = "closed" => down'[d] = <<>> /\ pending'[d] = {}
    BY <1>8, <1>12 DEF QueuesInTurn
  <2>2. \A d \in Clients : conn[d] = "none" => down'[d] = <<>>
    BY <1>12 DEF QueuesInTurn
  <2>3. QED
    BY <1>1, <2>1, <2>2 DEF QueuesInTurn
<1>14. \A d \in Clients : \A k \in DOMAIN down'[d] : \E n \in DOMAIN down[d] : down'[d][k] = down[d][n]
  BY <1>3
<1>15. Matched'
  <2>1. \A d \in Clients : \A k \in DOMAIN down'[d] : down'[d][k] \in AnswerFrame => down'[d][k].id \in DOMAIN asked[d]
    BY <1>14 DEF Matched
  <2>2. QED
    BY <1>1, <2>1 DEF Matched, IsCall
<1>16. AnswersTrue' /\ Announced'
  BY <1>1, <1>14 DEF AnswersTrue, Announced
<1>17. Unfinished'
  <2>1. \A d \in Clients, i \in Nat \ {0} :
          /\ UnderWay(d, i)' = UnderWay(d, i) /\ Worked(d, i)' = Worked(d, i)
          /\ Sent(d, i)' = Sent(d, i) /\ Held(d, i)' = Held(d, i)
    BY <1>1 DEF UnderWay, Worked, Sent, Held
  <2>2. ASSUME NEW d \in Clients, NEW i \in Nat \ {0}, UnderWay(d, i)
        PROVE  outcome'[asked[d][i]] \in {"waiting", "lost"}
    <3>1. i \in DOMAIN asked[d] /\ asked[d][i] \in Invocations
      BY <2>2, UnderWayAsked, AskedCalls
    <3>2. ~(d = c /\ i = f.id)
      BY <1>5, <2>2
    <3>3. asked[d][i] # s
      BY <1>5, <1>6, <3>1, <3>2 DEF AskedOnce
    <3>4. QED
      BY <1>7, <2>2, <3>1, <3>3 DEF Unfinished
  <2>3. ASSUME NEW d \in Clients, NEW i \in Nat \ {0}, UnderWay(d, i)
        PROVE  ~\E k \in DOMAIN down'[d] : down'[d][k] \in AnswerFrame /\ down'[d][k].id = i
    BY <1>14, <2>3 DEF Unfinished
  <2>4. QED
    BY <1>1, <2>1, <2>2, <2>3 DEF Unfinished
<1>18. EventFirst'
  <2>1. \A d \in Clients, r \in Writes : Knows(d, r) => Knows(d, r)'
    <3>1. \A r \in Writes : Event(r) # f
      BY <1>4, MailKinds
    <3>2. ASSUME NEW r \in Writes, Knows(c, r)
          PROVE  Knows(c, r)'
      <4>1. CASE \E i \in DOMAIN heard[c] : heard[c][i] = r
        BY <1>1, <4>1 DEF Knows
      <4>2. CASE \E j \in DOMAIN down[c] : down[c][j] = Event(r)
        <5>1. PICK j \in DOMAIN down[c] : down[c][j] = Event(r)
          BY <4>2
        <5>2. j # 1
          BY <1>3, <3>1, <5>1
        <5>3. j - 1 \in DOMAIN down'[c] /\ down'[c][j - 1] = down[c][j]
          BY <1>3, <5>2
        <5>4. QED
          BY <5>1, <5>3 DEF Knows
      <4>3. QED
        BY <3>2, <4>1, <4>2 DEF Knows
    <3>3. ASSUME NEW d \in Clients \ {c}, NEW r \in Writes, Knows(d, r)
          PROVE  Knows(d, r)'
      BY <1>1, <1>3, <3>3 DEF Knows
    <3>4. QED
      BY <3>2, <3>3
  <2>2. \A a \in answers : a.request.client \in Clients
    BY RequestKinds DEF WireTypes
  <2>3. AnswersFollow'
    BY <1>1, <2>1, <2>2 DEF EventFirst, AnswersFollow
  <2>4. ASSUME NEW k \in DOMAIN down'[c], down'[c][k] \in AnswerFrame, down'[c][k].answer = "ok",
               asked[c][down'[c][k].id] \in Writes
        PROVE  \/ \E i \in DOMAIN heard[c] : heard[c][i] = asked[c][down'[c][k].id]
               \/ \E j \in DOMAIN down'[c] : j < k /\ down'[c][j] = Event(asked[c][down'[c][k].id])
    <3>1. k \in Nat \ {0} /\ k + 1 \in DOMAIN down[c] /\ down'[c][k] = down[c][k + 1]
      BY <1>3, <2>4
    <3>2. CASE \E i \in DOMAIN heard[c] : heard[c][i] = asked[c][down'[c][k].id]
      BY <3>2
    <3>3. CASE \E j \in DOMAIN down[c] : j < k + 1 /\ down[c][j] = Event(asked[c][down[c][k + 1].id])
      <4>1. PICK j \in DOMAIN down[c] : j < k + 1 /\ down[c][j] = Event(asked[c][down[c][k + 1].id])
        BY <3>3
      <4>2. j # 1
        BY <1>3, <1>4, <2>4, <3>1, <4>1, MailKinds
      <4>3. j \in Nat \ {0, 1} /\ j - 1 \in DOMAIN down'[c] /\ down'[c][j - 1] = down[c][j]
        BY <1>3, <4>2
      <4>4. j - 1 < k
        BY <3>1, <4>1, <4>3
      <4>5. QED
        BY <3>1, <4>1, <4>3, <4>4
    <3>4. QED
      BY <2>4, <3>1, <3>2, <3>3 DEF EventFirst, FramesFollow
  <2>5. ASSUME NEW d \in Clients, NEW k \in DOMAIN down'[d], down'[d][k] \in AnswerFrame, down'[d][k].answer = "ok",
               asked[d][down'[d][k].id] \in Writes
        PROVE  \/ \E i \in DOMAIN heard[d] : heard[d][i] = asked[d][down'[d][k].id]
               \/ \E j \in DOMAIN down'[d] : j < k /\ down'[d][j] = Event(asked[d][down'[d][k].id])
    <3>1. CASE d = c
      BY <2>4, <2>5, <3>1
    <3>2. CASE d # c
      <4>1. down'[d] = down[d]
        BY <1>3, <3>2
      <4>2. QED
        BY <2>5, <4>1 DEF EventFirst, FramesFollow
    <3>3. QED
      BY <3>1, <3>2
  <2>6. FramesFollow'
    BY <1>1, <2>5 DEF FramesFollow
  <2>7. QED
    BY <2>3, <2>6 DEF EventFirst
<1>19. Mirrored'
  <2>1. Mirrors(c) => Mirrors(c)'
    BY <1>0, <1>1, <1>4, MirrorsAnswerRead
  <2>2. ASSUME NEW d \in Clients, d # c, Mirrors(d)
        PROVE  Mirrors(d)'
    BY <1>1, <1>3, <2>2 DEF Mirrors, Ahead, Told
  <2>3. QED
    BY <1>1, <2>1, <2>2 DEF Mirrored
<1>20. QED
  BY <1>9, <1>10, <1>11, <1>13, <1>15, <1>16, <1>17, <1>18, <1>19

LEMMA OnEventInv ==
    ASSUME WireInv, NEW c \in Clients, OnMessage(c), "event" \in DOMAIN Head(down[c])
    PROVE  WireInv'
<1>0. PICK f : f = Head(down[c])
  OBVIOUS
<1>1. /\ phase[c] = "open" /\ down[c] # <<>> /\ down' = [down EXCEPT ![c] = Tail(@)]
      /\ heard' = [heard EXCEPT ![c] = Append(@, f.event)]
      /\ UNCHANGED <<phase, asked, pending, sendQueue, outcome, up, conn, attached, running, answers,
                     done, log, since>>
  BY <1>0 DEF OnMessage, OnEvent, serverVars
<1> USE DEF WireInv
<1>3. /\ down' \in [Clients -> Seq(EventFrame \cup AnswerFrame)]
      /\ \A d \in Clients \ {c} : down'[d] = down[d]
      /\ f \in EventFrame \cup AnswerFrame
      /\ 1 \in DOMAIN down[c] /\ down[c][1] = f
      /\ \A k \in DOMAIN down'[c] : k \in Nat \ {0} /\ k + 1 \in DOMAIN down[c] /\ down'[c][k] = down[c][k + 1]
      /\ \A k \in DOMAIN down[c] :
           \/ k = 1
           \/ k \in Nat \ {0, 1} /\ k - 1 \in DOMAIN down'[c] /\ down'[c][k - 1] = down[c][k]
  BY <1>0, <1>1, HearEffect
<1>4. f \in EventFrame /\ f.event \in Writes /\ f = Event(f.event)
  BY <1>0, <1>3, MailKinds
<1>5. /\ heard' \in [Clients -> Seq(Writes)]
      /\ \A d \in Clients \ {c} : heard'[d] = heard[d]
      /\ \A i \in DOMAIN heard[c] : i \in DOMAIN heard'[c] /\ heard'[c][i] = heard[c][i]
      /\ \E i \in DOMAIN heard'[c] : heard'[c][i] = f.event
  <2>1. heard \in [Clients -> Seq(Writes)] /\ heard[c] \in Seq(Writes)
    BY DEF WireTypes
  <2>2. /\ Append(heard[c], f.event) \in Seq(Writes)
        /\ \A i \in DOMAIN heard[c] : i \in DOMAIN Append(heard[c], f.event)
                                      /\ Append(heard[c], f.event)[i] = heard[c][i]
        /\ Len(heard[c]) + 1 \in DOMAIN Append(heard[c], f.event)
        /\ Append(heard[c], f.event)[Len(heard[c]) + 1] = f.event
    BY <1>4, <2>1, AppendTo
  <2>3. heard'[c] = Append(heard[c], f.event)
    BY <1>1, <2>1
  <2>4. heard' \in [Clients -> Seq(Writes)] /\ \A d \in Clients \ {c} : heard'[d] = heard[d]
    BY <1>1, <2>1, <2>2
  <2>5. QED
    BY <2>2, <2>3, <2>4
<1>6. WireTypes'
  BY <1>1, <1>3, <1>5 DEF WireTypes
<1>7. AskedOnce' /\ WaitersKnown'
  BY <1>1 DEF AskedOnce, WaitersKnown
<1>8. \A d \in Clients : down[d] = <<>> => d # c /\ down'[d] = <<>> /\ heard'[d] = heard[d]
  BY <1>1, <1>3, <1>5
<1>9. QueuesInTurn'
  <2>1. \A d \in Clients : phase[d] = "closed" => down'[d] = <<>>
    BY <1>8 DEF QueuesInTurn
  <2>2. \A d \in Clients : conn[d] = "none" => down'[d] = <<>> /\ heard'[d] = <<>>
    BY <1>8 DEF QueuesInTurn
  <2>3. QED
    BY <1>1, <2>1, <2>2 DEF QueuesInTurn
<1>10. \A d \in Clients : \A k \in DOMAIN down'[d] : \E n \in DOMAIN down[d] : down'[d][k] = down[d][n]
  BY <1>3
<1>11. Matched'
  <2>1. \A d \in Clients : \A k \in DOMAIN down'[d] : down'[d][k] \in AnswerFrame => down'[d][k].id \in DOMAIN asked[d]
    BY <1>10 DEF Matched
  <2>2. QED
    BY <1>1, <2>1 DEF Matched, IsCall
<1>12. AnswersTrue' /\ Announced'
  BY <1>1, <1>10 DEF AnswersTrue, Announced
<1>13. Unfinished'
  <2>1. \A d \in Clients, i \in Nat \ {0} :
          /\ UnderWay(d, i)' = UnderWay(d, i) /\ Worked(d, i)' = Worked(d, i)
          /\ Sent(d, i)' = Sent(d, i) /\ Held(d, i)' = Held(d, i)
    BY <1>1 DEF UnderWay, Worked, Sent, Held
  <2>2. ASSUME NEW d \in Clients, NEW i \in Nat \ {0}, UnderWay(d, i)
        PROVE  ~\E k \in DOMAIN down'[d] : down'[d][k] \in AnswerFrame /\ down'[d][k].id = i
    BY <1>10, <2>2 DEF Unfinished
  <2>3. QED
    BY <1>1, <2>1, <2>2 DEF Unfinished
<1>14. \A r : f = Event(r) => \E i \in DOMAIN heard'[c] : heard'[c][i] = r
  BY <1>5 DEF Event
<1>15. EventFirst'
  <2>1. ASSUME NEW d \in Clients, NEW r \in Writes, Knows(d, r)
        PROVE  Knows(d, r)'
    <3>1. CASE d # c
      BY <1>3, <1>5, <2>1, <3>1 DEF Knows
    <3>2. CASE d = c /\ \E i \in DOMAIN heard[c] : heard[c][i] = r
      BY <1>5, <3>2 DEF Knows
    <3>3. CASE d = c /\ \E j \in DOMAIN down[c] : down[c][j] = Event(r)
      <4>1. PICK j \in DOMAIN down[c] : down[c][j] = Event(r)
        BY <3>3
      <4>2. CASE j = 1
        BY <1>3, <1>14, <3>3, <4>1, <4>2 DEF Knows
      <4>3. CASE j # 1
        <5>1. j - 1 \in DOMAIN down'[c] /\ down'[c][j - 1] = down[c][j]
          BY <1>3, <4>3
        <5>2. QED
          BY <3>3, <4>1, <5>1 DEF Knows
      <4>4. QED
        BY <4>2, <4>3
    <3>4. QED
      BY <2>1, <3>1, <3>2, <3>3 DEF Knows
  <2>2. \A a \in answers : a.request.client \in Clients
    BY RequestKinds DEF WireTypes
  <2>3. AnswersFollow'
    BY <1>1, <2>1, <2>2 DEF EventFirst, AnswersFollow
  <2>4. ASSUME NEW k \in DOMAIN down'[c], down'[c][k] \in AnswerFrame, down'[c][k].answer = "ok",
               asked[c][down'[c][k].id] \in Writes
        PROVE  \/ \E i \in DOMAIN heard'[c] : heard'[c][i] = asked[c][down'[c][k].id]
               \/ \E j \in DOMAIN down'[c] : j < k /\ down'[c][j] = Event(asked[c][down'[c][k].id])
    <3>1. k \in Nat \ {0} /\ k + 1 \in DOMAIN down[c] /\ down'[c][k] = down[c][k + 1]
      BY <1>3, <2>4
    <3>2. CASE \E i \in DOMAIN heard[c] : heard[c][i] = asked[c][down'[c][k].id]
      BY <1>5, <3>2
    <3>3. CASE \E j \in DOMAIN down[c] : j < k + 1 /\ down[c][j] = Event(asked[c][down[c][k + 1].id])
      <4>1. PICK j \in DOMAIN down[c] : j < k + 1 /\ down[c][j] = Event(asked[c][down[c][k + 1].id])
        BY <3>3
      <4>2. CASE j = 1
        BY <1>3, <1>14, <3>1, <4>1, <4>2
      <4>3. CASE j # 1
        <5>1. j \in Nat \ {0, 1} /\ j - 1 \in DOMAIN down'[c] /\ down'[c][j - 1] = down[c][j]
          BY <1>3, <4>3
        <5>2. j - 1 < k
          BY <3>1, <4>1, <5>1
        <5>3. QED
          BY <3>1, <4>1, <5>1, <5>2
      <4>4. QED
        BY <4>2, <4>3
    <3>4. QED
      BY <2>4, <3>1, <3>2, <3>3 DEF EventFirst, FramesFollow
  <2>5. ASSUME NEW d \in Clients, NEW k \in DOMAIN down'[d], down'[d][k] \in AnswerFrame, down'[d][k].answer = "ok",
               asked[d][down'[d][k].id] \in Writes
        PROVE  \/ \E i \in DOMAIN heard'[d] : heard'[d][i] = asked[d][down'[d][k].id]
               \/ \E j \in DOMAIN down'[d] : j < k /\ down'[d][j] = Event(asked[d][down'[d][k].id])
    <3>1. CASE d = c
      BY <2>4, <2>5, <3>1
    <3>2. CASE d # c
      <4>1. down'[d] = down[d] /\ heard'[d] = heard[d]
        BY <1>3, <1>5, <3>2
      <4>2. QED
        BY <2>5, <4>1 DEF EventFirst, FramesFollow
    <3>3. QED
      BY <3>1, <3>2
  <2>6. FramesFollow'
    <3> HIDE DEF WireInv
    <3> QED
      BY <1>1, <2>5 DEF FramesFollow
  <2>7. QED
    BY <2>3, <2>6 DEF EventFirst
<1>16. Mirrored'
  <2>1. Mirrors(c) => Mirrors(c)'
    BY <1>0, <1>1, <1>4, MirrorsEventRead
  <2>2. ASSUME NEW d \in Clients, d # c, Mirrors(d)
        PROVE  Mirrors(d)'
    BY <1>1, <1>3, <1>5, <2>2 DEF Mirrors, Ahead, Told
  <2>3. QED
    BY <1>1, <2>1, <2>2 DEF Mirrored
<1>17. QED
  BY <1>6, <1>7, <1>9, <1>11, <1>12, <1>13, <1>15, <1>16

-----------------------------------------------------------------------------
(***************************************************************************)
(* A handler carries a request out                                         *)
(***************************************************************************)

LEMMA MirrorsBroadcast ==
    ASSUME WireTypes, NEW c \in Clients, Mirrors(c), NEW r \in Writes,
           \A n \in DOMAIN log : log[n] # r,
           down'[c] = Append(down[c], Event(r)), log' = Append(log, r), UNCHANGED <<heard, since>>
    PROVE  Mirrors(c)'
<1>1. /\ Told(c) \in Nat /\ Len(log) \in Nat /\ since[c] \in Nat /\ Len(heard[c]) \in Nat
      /\ log \in Seq(Writes) /\ heard[c] \in Seq(Writes) /\ DOMAIN log = 1..Len(log)
      /\ \A n \in Ahead(c) : n \in DOMAIN log /\ n \in Nat /\ log[n] \in Writes /\ Event(log[n]) \in EventFrame
  BY AheadTyped
<1>2. Event(r) \in EventFrame /\ Event(r) \in EventFrame \cup AnswerFrame /\ Event(r).event = r
  BY MailKinds
<1>3. down[c] \in Seq(EventFrame \cup AnswerFrame)
  BY DEF WireTypes
<1>4. PICK e \in Nat \ {0} : e = Len(log) + 1
  BY <1>1
<1>5. PICK d \in Nat \ {0} : d = Len(down[c]) + 1
  BY <1>3
<1>6. /\ Len(log') = e /\ \A n \in DOMAIN log : log'[n] = log[n]
      /\ log'[e] = r
  BY <1>1, <1>4, AppendTo
<1>7. /\ \A k \in DOMAIN down[c] : k \in DOMAIN down'[c] /\ down'[c][k] = down[c][k] /\ k < d /\ k \in Nat
      /\ d \in DOMAIN down'[c] /\ down'[c][d] = Event(r)
      /\ \A k \in DOMAIN down'[c] : k \in DOMAIN down[c] \/ k = d
  <2>1. /\ DOMAIN down[c] = 1..Len(down[c]) /\ DOMAIN down'[c] = 1..Len(down[c]) + 1
        /\ Len(down[c]) \in Nat
        /\ \A k \in DOMAIN down[c] : down'[c][k] = down[c][k]
        /\ down'[c][Len(down[c]) + 1] = Event(r)
    BY <1>2, <1>3, AppendTo
  <2>2. QED
    BY <1>5, <2>1
<1>8. Told(c)' = Told(c) /\ Told(c) < e
  BY <1>1, <1>4 DEF Told, Mirrors
<1>9. /\ Ahead(c)' = Ahead(c) \cup {e} /\ \A n \in Ahead(c) : n < e
  BY <1>1, <1>4, <1>6, <1>8 DEF Ahead
<1>10. heard'[c] = SubSeq(log', since'[c] + 1, Told(c)')
  <2>1. PICK a \in Nat, b \in Nat : a = since[c] /\ b = Told(c)
    BY <1>1
  <2>2. heard[c] = SubSeq(log, a + 1, b) /\ b = a + Len(heard[c]) /\ b <= Len(log)
    BY <1>1, <2>1 DEF Mirrors, Told
  <2>3. log' \in Seq(Writes) /\ Len(log') = Len(log) + 1
    BY <1>1, AppendTo
  <2>4. /\ SubSeq(log', a + 1, b) \in Seq(Writes) /\ Len(SubSeq(log', a + 1, b)) = b - a
        /\ \A i \in 1..b - a : SubSeq(log', a + 1, b)[i] = log'[a + i]
    BY <1>1, <2>2, <2>3
  <2>5. \A i \in 1..b - a : heard[c][i] = log[a + i]
    BY <1>1, <2>2
  <2>6. \A i \in 1..b - a : log'[a + i] = log[a + i]
    BY <1>1, <1>6, <2>2
  <2>7. /\ Len(heard[c]) = Len(SubSeq(log', a + 1, b))
        /\ \A i \in 1..Len(heard[c]) : heard[c][i] = SubSeq(log', a + 1, b)[i]
    BY <1>1, <2>2, <2>4, <2>5, <2>6
  <2>8. heard[c] = SubSeq(log', a + 1, b)
    BY <1>1, <2>4, <2>7, SameSeq
  <2>9. QED
    BY <1>8, <2>1, <2>8
<1>11. ASSUME NEW n \in Ahead(c)', NEW i \in DOMAIN down'[c], down'[c][i] = Event(log'[n])
       PROVE  \/ n \in Ahead(c) /\ i \in DOMAIN down[c] /\ down[c][i] = Event(log[n])
              \/ n = e /\ i = d
  <2>1. CASE n = e
    <3>1. ASSUME i \in DOMAIN down[c] PROVE FALSE
      <4>1. down[c][i] = Event(r) /\ down[c][i] \in EventFrame
        BY <1>2, <1>6, <1>7, <1>11, <2>1, <3>1
      <4>2. PICK m \in Ahead(c) : down[c][i] = Event(log[m])
        BY <3>1, <4>1 DEF Mirrors
      <4>3. log[m] = r
        BY <1>1, <1>2, <4>1, <4>2, MailKinds
      <4>4. QED
        BY <1>1, <4>2, <4>3
    <3>2. QED
      BY <1>7, <2>1, <3>1
  <2>2. CASE n \in Ahead(c)
    <3>1. log'[n] = log[n] /\ log[n] \in Writes /\ log[n] # r
      BY <1>1, <1>6, <2>2
    <3>2. i # d
      BY <1>2, <1>7, <1>11, <3>1, MailKinds
    <3>3. QED
      BY <1>7, <1>11, <2>2, <3>1, <3>2
  <2>3. QED
    BY <1>9, <2>1, <2>2
<1>12. \A n \in Ahead(c)' : \E i \in DOMAIN down'[c] : down'[c][i] = Event(log'[n])
  <2>1. ASSUME NEW n \in Ahead(c)
        PROVE  \E i \in DOMAIN down'[c] : down'[c][i] = Event(log'[n])
    <3>1. PICK i \in DOMAIN down[c] : down[c][i] = Event(log[n])
      BY DEF Mirrors
    <3>2. QED
      BY <1>1, <1>6, <1>7, <3>1
  <2>2. QED
    BY <1>6, <1>7, <1>9, <2>1
<1>13. \A i \in DOMAIN down'[c] : down'[c][i] \in EventFrame =>
         \E n \in Ahead(c)' : down'[c][i] = Event(log'[n])
  <2>1. ASSUME NEW i \in DOMAIN down[c], down[c][i] \in EventFrame
        PROVE  \E n \in Ahead(c) : down[c][i] = Event(log'[n])
    <3>1. PICK n \in Ahead(c) : down[c][i] = Event(log[n])
      BY <2>1 DEF Mirrors
    <3>2. QED
      BY <1>1, <1>6, <3>1
  <2>2. SUFFICES ASSUME NEW i \in DOMAIN down'[c], down'[c][i] \in EventFrame
                 PROVE  \E n \in Ahead(c)' : down'[c][i] = Event(log'[n])
    OBVIOUS
  <2>3. CASE i \in DOMAIN down[c]
    <3>1. down[c][i] = down'[c][i]
      BY <1>7, <2>3
    <3>2. PICK n \in Ahead(c) : down[c][i] = Event(log'[n])
      BY <2>1, <2>2, <2>3, <3>1
    <3>3. QED
      BY <1>9, <3>1, <3>2
  <2>4. CASE i = d
    BY <1>6, <1>7, <1>9, <2>4
  <2>5. QED
    BY <1>7, <2>2, <2>3, <2>4
<1>14. ASSUME NEW n \in Ahead(c)', NEW m \in Ahead(c)', NEW i \in DOMAIN down'[c], NEW j \in DOMAIN down'[c],
              down'[c][i] = Event(log'[n]), down'[c][j] = Event(log'[m])
       PROVE  n < m <=> i < j
  <2>1. /\ \/ n \in Ahead(c) /\ i \in DOMAIN down[c] /\ down[c][i] = Event(log[n])
           \/ n = e /\ i = d
        /\ \/ m \in Ahead(c) /\ j \in DOMAIN down[c] /\ down[c][j] = Event(log[m])
           \/ m = e /\ j = d
    BY <1>11, <1>14
  <2>2. CASE n = e /\ i = d
    BY <1>1, <1>7, <1>9, <2>1, <2>2
  <2>3. CASE m = e /\ j = d
    BY <1>1, <1>7, <1>9, <2>1, <2>3
  <2>4. QED
    BY <2>1, <2>2, <2>3 DEF Mirrors
<1>15. \A n, m \in Ahead(c)', i, j \in DOMAIN down'[c] :
         down'[c][i] = Event(log'[n]) /\ down'[c][j] = Event(log'[m]) => (n < m <=> i < j)
  BY <1>14
<1>16. Told(c)' <= Len(log')
  BY <1>1, <1>6, <1>8
<1>17. QED
  BY <1>10, <1>12, <1>13, <1>15, <1>16 DEF Mirrors

\* What a handler's end does to the frames under way: an event more, or nothing.
LEMMA BroadcastEffect ==
    ASSUME WireTypes, NEW r \in Writes, Broadcast(r)
    PROVE  /\ down' \in [Clients -> Seq(EventFrame \cup AnswerFrame)]
           /\ \A d \in Clients : \/ ~(conn[d] = "live" /\ phase[d] # "closed") /\ down'[d] = down[d]
                                 \/ conn[d] = "live" /\ phase[d] # "closed" /\ down'[d] = Append(down[d], Event(r))
           /\ \A d \in Clients : \A k \in DOMAIN down[d] : k \in DOMAIN down'[d] /\ down'[d][k] = down[d][k]
           /\ \A d \in Clients : \A k \in DOMAIN down'[d] :
                (k \in DOMAIN down[d] /\ down'[d][k] = down[d][k]) \/ down'[d][k] = Event(r)
           /\ \A d \in Clients : conn[d] = "live" /\ phase[d] # "closed"
                => \E k \in DOMAIN down'[d] : down'[d][k] = Event(r)
<1>1. Event(r) \in EventFrame \cup AnswerFrame
  BY MailKinds
<1>2. down' = [d \in Clients |-> IF conn[d] = "live" /\ phase[d] # "closed"
                                 THEN Append(down[d], Event(r)) ELSE down[d]]
  BY DEF Broadcast, Listening
<1>3. ASSUME NEW d \in Clients
      PROVE  /\ down'[d] \in Seq(EventFrame \cup AnswerFrame)
             /\ \/ ~(conn[d] = "live" /\ phase[d] # "closed") /\ down'[d] = down[d]
                \/ conn[d] = "live" /\ phase[d] # "closed" /\ down'[d] = Append(down[d], Event(r))
             /\ \A k \in DOMAIN down[d] : k \in DOMAIN down'[d] /\ down'[d][k] = down[d][k]
             /\ \A k \in DOMAIN down'[d] :
                  (k \in DOMAIN down[d] /\ down'[d][k] = down[d][k]) \/ down'[d][k] = Event(r)
             /\ conn[d] = "live" /\ phase[d] # "closed" => \E k \in DOMAIN down'[d] : down'[d][k] = Event(r)
  <2>1. down[d] \in Seq(EventFrame \cup AnswerFrame)
    BY DEF WireTypes
  <2>2. CASE ~(conn[d] = "live" /\ phase[d] # "closed")
    BY <1>2, <2>1, <2>2
  <2>3. CASE conn[d] = "live" /\ phase[d] # "closed"
    <3>1. down'[d] = Append(down[d], Event(r))
      BY <1>2, <2>3
    <3>2. /\ Append(down[d], Event(r)) \in Seq(EventFrame \cup AnswerFrame)
          /\ \A k \in DOMAIN down[d] :
               k \in DOMAIN Append(down[d], Event(r)) /\ Append(down[d], Event(r))[k] = down[d][k]
          /\ Len(down[d]) + 1 \in DOMAIN Append(down[d], Event(r))
          /\ Append(down[d], Event(r))[Len(down[d]) + 1] = Event(r)
          /\ \A k \in DOMAIN Append(down[d], Event(r)) : k \in DOMAIN down[d] \/ k = Len(down[d]) + 1
      BY <1>1, <2>1, AppendTo
    <3>3. QED
      BY <2>3, <3>1, <3>2
  <2>4. QED
    BY <2>2, <2>3
<1>4. down' \in [Clients -> Seq(EventFrame \cup AnswerFrame)]
  BY <1>2, <1>3
<1>5. QED
  BY <1>3, <1>4

LEMMA PerformInv ==
    ASSUME WireInv, NEW q \in running, Perform(q)
    PROVE  WireInv'
<1> DEFINE b == [request |-> q, answer |-> "ok"]
<1>1. /\ running' = running \ {q} /\ answers' = answers \cup {b} /\ done' = done \cup {q.call}
      /\ \/ q.call \in Writes /\ Broadcast(q.call)
         \/ q.call \notin Writes /\ UNCHANGED <<down, log>>
      /\ UNCHANGED <<phase, asked, pending, sendQueue, outcome, heard, up, conn, attached, since>>
  BY DEF Perform, clientVars
<1> USE DEF WireInv
<1>2. /\ q \in Handled /\ b \in [request : Handled, answer : {"ok", "error"}]
      /\ b.request = q /\ b.answer = "ok"
  BY DEF WireTypes
<1> HIDE DEF b
<1>3. /\ q.client \in Clients /\ q.id \in Nat \ {0} /\ q.call \in Invocations
      /\ IsCall(q.client, q.id, q.call) /\ conn[q.client] # "none" /\ Worked(q.client, q.id)
  BY <1>2, RequestKinds DEF Matched, Worked
<1>4. /\ UnderWay(q.client, q.id)
      /\ q.call \notin done /\ outcome[q.call] \in {"waiting", "lost"} /\ q.call \notin Blocked
  BY <1>3 DEF Unfinished, UnderWay, IsCall, AnswersTrue
<1>5. /\ down' \in [Clients -> Seq(EventFrame \cup AnswerFrame)]
      /\ \A d \in Clients :
           \/ down'[d] = down[d]
           \/ q.call \in Writes /\ conn[d] = "live" /\ phase[d] # "closed"
      /\ \A d \in Clients : \A k \in DOMAIN down[d] : k \in DOMAIN down'[d] /\ down'[d][k] = down[d][k]
      /\ \A d \in Clients : \A k \in DOMAIN down'[d] :
           \/ k \in DOMAIN down[d] /\ down'[d][k] = down[d][k]
           \/ q.call \in Writes /\ down'[d][k] = Event(q.call)
      /\ \A d \in Clients : q.call \in Writes /\ conn[d] = "live" /\ phase[d] # "closed"
           => \E k \in DOMAIN down'[d] : down'[d][k] = Event(q.call)
  <2>1. CASE q.call \in Writes /\ Broadcast(q.call)
    BY <2>1, BroadcastEffect
  <2>2. CASE q.call \notin Writes /\ UNCHANGED <<down, log>>
    BY <2>2 DEF WireTypes
  <2>3. QED
    BY <1>1, <2>1, <2>2
<1>6. /\ log' \in Seq(Writes)
      /\ \/ log' = log
         \/ q.call \in Writes /\ log' = Append(log, q.call)
  <2>1. log \in Seq(Writes)
    BY DEF WireTypes
  <2>2. CASE q.call \in Writes /\ Broadcast(q.call)
    BY <2>1, <2>2, AppendTo DEF Broadcast
  <2>3. CASE q.call \notin Writes /\ UNCHANGED <<down, log>>
    BY <2>1, <2>3
  <2>4. QED
    BY <1>1, <2>2, <2>3
<1>7. \A d \in Clients : \A i \in DOMAIN asked[d] : asked[d][i] = q.call => d = q.client /\ i = q.id
  BY <1>3 DEF AskedOnce, IsCall
<1>8. /\ \A d \in Clients : \A k \in DOMAIN down'[d] : down'[d][k] \in AnswerFrame =>
           k \in DOMAIN down[d] /\ down'[d][k] = down[d][k]
      /\ \A d \in Clients : \A k \in DOMAIN down[d] : down[d][k] \in AnswerFrame =>
           asked[d][down[d][k].id] # q.call
  <2>1. \A d \in Clients : \A k \in DOMAIN down'[d] : down'[d][k] \in AnswerFrame =>
           k \in DOMAIN down[d] /\ down'[d][k] = down[d][k]
    BY <1>5, MailKinds
  <2>2. ASSUME NEW d \in Clients, NEW k \in DOMAIN down[d], down[d][k] \in AnswerFrame,
               asked[d][down[d][k].id] = q.call
        PROVE  FALSE
    <3>1. d = q.client /\ down[d][k].id = q.id
      BY <1>7, <2>2 DEF Matched
    <3>2. QED
      BY <1>3, <1>4, <2>2, <3>1 DEF Unfinished
  <2>3. QED
    BY <2>1, <2>2
<1>9. \A a \in answers : a.request.client \in Clients /\ a.request.call # q.call
  <2>1. ASSUME NEW a \in answers, a.request.call = q.call
        PROVE  FALSE
    <3>1. a.request.client \in Clients
      BY RequestKinds DEF WireTypes
    <3>2. a.request.client = q.client /\ a.request.id = q.id
      BY <1>7, <2>1, <3>1 DEF Matched, IsCall
    <3>3. QED
      BY <1>3, <1>4, <2>1, <3>2 DEF Unfinished
  <2>2. QED
    BY <2>1, RequestKinds DEF WireTypes
<1>10. WireTypes'
  BY ZenonT(60), <1>1, <1>2, <1>3, <1>5, <1>6 DEF WireTypes
<1>11. AskedOnce'
  BY <1>1 DEF AskedOnce
<1>12. WaitersKnown'
  BY <1>1, <1>4 DEF WaitersKnown
<1>13. QueuesInTurn'
  <2>1. \A d \in Clients : phase[d] = "closed" \/ conn[d] = "none" => down'[d] = down[d]
    BY <1>5
  <2>2. QED
    BY <1>1, <2>1 DEF QueuesInTurn
<1>14. Matched'
  <2>1. \A d \in Clients : \A k \in DOMAIN down'[d] : down'[d][k] \in AnswerFrame => down'[d][k].id \in DOMAIN asked[d]
    BY <1>8 DEF Matched
  <2>2. QED
    BY <1>1, <1>2, <1>3, <2>1 DEF Matched, IsCall
<1>15. AnswersTrue'
  <2>1. \A a \in answers' : a.answer = "ok" <=> a.request.call \in done'
    BY <1>1, <1>2, <1>9 DEF AnswersTrue
  <2>2. \A d \in Clients : \A k \in DOMAIN down'[d] :
          down'[d][k] \in AnswerFrame => (down'[d][k].answer = "ok" <=> asked'[d][down'[d][k].id] \in done')
    BY <1>1, <1>8 DEF AnswersTrue
  <2>3. QED
    BY <1>1, <2>1, <2>2 DEF AnswersTrue
<1>16. EventFirst'
  <2>1. ASSUME NEW d \in Clients, NEW r, Knows(d, r)
        PROVE  Knows(d, r)'
    BY <1>1, <1>5, <2>1 DEF Knows
  <2>2. ASSUME q.call \in Writes, conn[q.client] = "live", phase[q.client] # "closed"
        PROVE  Knows(q.client, q.call)'
    BY <1>3, <1>5, <2>2 DEF Knows
  <2>3. AnswersFollow'
    <3>1. ASSUME NEW a \in answers', a.answer = "ok", a.request.call \in Writes,
                 conn[a.request.client] = "live", phase[a.request.client] # "closed"
          PROVE  Knows(a.request.client, a.request.call)'
      <4>1. CASE a = b
        BY <1>2, <2>2, <3>1, <4>1
      <4>2. CASE a \in answers
        BY <1>9, <2>1, <3>1, <4>2 DEF EventFirst, AnswersFollow
      <4>3. QED
        BY <1>1, <4>1, <4>2
    <3>2. QED
      BY <1>1, <3>1 DEF AnswersFollow
  <2>4. ASSUME NEW d \in Clients, NEW k \in DOMAIN down'[d], down'[d][k] \in AnswerFrame,
               down'[d][k].answer = "ok", asked[d][down'[d][k].id] \in Writes
        PROVE  \/ \E i \in DOMAIN heard[d] : heard[d][i] = asked[d][down'[d][k].id]
               \/ \E j \in DOMAIN down'[d] : j < k /\ down'[d][j] = Event(asked[d][down'[d][k].id])
    <3>1. k \in DOMAIN down[d] /\ down'[d][k] = down[d][k]
      BY <1>8, <2>4
    <3>2. QED
      BY <1>5, <2>4, <3>1 DEF EventFirst, FramesFollow
  <2>5. FramesFollow'
    BY <1>1, <2>4 DEF FramesFollow
  <2>6. QED
    BY <2>3, <2>5 DEF EventFirst
<1>17. Announced'
  <2>1. CASE log' = log
    <3>1. \A d \in Clients : \A k \in DOMAIN down'[d] : down'[d][k] \in EventFrame => down'[d][k].event \in done'
      BY <1>1, <1>5, MailKinds DEF Announced
    <3>2. QED
      BY <1>1, <2>1, <3>1 DEF Announced
  <2>2. CASE q.call \in Writes /\ log' = Append(log, q.call)
    <3>1. /\ \A n \in DOMAIN log : log'[n] = log[n] /\ log[n] # q.call
          /\ \A n \in DOMAIN log' : n \in DOMAIN log \/ (n = Len(log) + 1 /\ log'[n] = q.call)
      <4>1. log \in Seq(Writes)
        BY DEF WireTypes
      <4>2. /\ \A n \in DOMAIN log : log'[n] = log[n]
            /\ \A n \in DOMAIN log' : n \in DOMAIN log \/ n = Len(log) + 1
            /\ log'[Len(log) + 1] = q.call
        BY <2>2, <4>1, AppendTo
      <4>3. QED
        BY <1>4, <4>2 DEF Announced
    <3>2. \A n \in DOMAIN log' : log'[n] \in done'
      BY <1>1, <3>1 DEF Announced
    <3>3. \A n, m \in DOMAIN log' : log'[n] = log'[m] => n = m
      BY <3>1 DEF Announced
    <3>4. \A d \in Clients : \A k \in DOMAIN down'[d] : down'[d][k] \in EventFrame => down'[d][k].event \in done'
      BY <1>1, <1>5, MailKinds DEF Announced
    <3>5. QED
      BY <3>2, <3>3, <3>4 DEF Announced
  <2>3. QED
    BY <1>6, <2>1, <2>2
<1>18. Unfinished'
  <2>1. ASSUME NEW p \in running, p.client = q.client, p.id = q.id
        PROVE  p = q
    <3>1. p.call = q.call
      BY <1>3, <2>1 DEF Matched, IsCall
    <3>2. QED
      BY <1>2, <2>1, <3>1, RequestKinds DEF WireTypes
  <2>2. ASSUME NEW d \in Clients, NEW i \in Nat \ {0}, UnderWay(d, i)'
        PROVE  /\ UnderWay(d, i) /\ (Worked(d, i)' => Worked(d, i))
               /\ ~(d = q.client /\ i = q.id)
    <3>1. UnderWay(d, i) /\ (Worked(d, i)' => Worked(d, i))
      BY <1>1, <2>2 DEF UnderWay, Sent, Held, Worked
    <3>2. d = q.client /\ i = q.id => ~Worked(d, i)'
      BY <1>1, <2>1 DEF Worked
    <3>3. d = q.client /\ i = q.id => ~(Sent(d, i) \/ Held(d, i))
      BY <1>3, <1>4 DEF Unfinished
    <3>4. QED
      BY <1>1, <2>2, <3>1, <3>2, <3>3 DEF UnderWay, Sent, Held
  <2>3. ASSUME NEW d \in Clients, NEW i \in Nat \ {0}, UnderWay(d, i)'
        PROVE  ~\E a \in answers' : a.request.client = d /\ a.request.id = i
    BY <1>1, <1>2, <2>2, <2>3 DEF Unfinished
  <2>4. ASSUME NEW d \in Clients, NEW i \in Nat \ {0}, UnderWay(d, i)'
        PROVE  asked'[d][i] \notin done'
    <3>1. i \in DOMAIN asked[d]
      BY <2>2, <2>4, UnderWayAsked
    <3>2. asked[d][i] # q.call
      BY <1>7, <2>2, <2>4, <3>1
    <3>3. QED
      BY <1>1, <2>2, <2>4, <3>2 DEF Unfinished
  <2>5. ASSUME NEW d \in Clients, NEW i \in Nat \ {0}, UnderWay(d, i)'
        PROVE  /\ outcome'[asked'[d][i]] \in {"waiting", "lost"}
               /\ ~(Worked(d, i)' /\ (Sent(d, i)' \/ Held(d, i)'))
               /\ ~\E k \in DOMAIN down'[d] : down'[d][k] \in AnswerFrame /\ down'[d][k].id = i
    <3>1. (Sent(d, i)' => Sent(d, i)) /\ (Held(d, i)' => Held(d, i))
      BY <1>1 DEF Sent, Held
    <3>2. ~\E k \in DOMAIN down'[d] : down'[d][k] \in AnswerFrame /\ down'[d][k].id = i
      BY <1>8, <2>2, <2>5 DEF Unfinished
    <3>3. QED
      BY <1>1, <2>2, <2>5, <3>1, <3>2 DEF Unfinished
  <2>6. QED
    BY <2>3, <2>4, <2>5 DEF Unfinished
<1>19. Mirrored'
  <2>1. CASE q.call \notin Writes /\ UNCHANGED <<down, log>>
    BY <1>1, <2>1 DEF Mirrored, Mirrors, Ahead, Told
  <2>2. CASE q.call \in Writes /\ Broadcast(q.call)
    <3>1. ASSUME NEW d \in Clients, conn[d] = "live", phase[d] # "closed"
          PROVE  Mirrors(d)'
      <4>1. down'[d] = Append(down[d], Event(q.call)) /\ log' = Append(log, q.call)
        BY <2>2, <3>1, BroadcastEffect DEF Broadcast
      <4>2. \A n \in DOMAIN log : log[n] # q.call
        BY <1>4 DEF Announced
      <4>3. Mirrors(d)
        BY <3>1 DEF Mirrored
      <4>4. QED
        BY <1>1, <2>2, <4>1, <4>2, <4>3, MirrorsBroadcast
    <3>2. QED
      BY <1>1, <3>1 DEF Mirrored
  <2>3. QED
    BY <1>1, <2>1, <2>2
<1>20. QED
  BY <1>10, <1>11, <1>12, <1>13, <1>14, <1>15, <1>16, <1>17, <1>18, <1>19

-----------------------------------------------------------------------------
(***************************************************************************)
(* The theorems                                                            *)
(***************************************************************************)

LEMMA WireStep == WireInv /\ [WireNext]_wireVars => WireInv'
<1> SUFFICES ASSUME WireInv, [WireNext]_wireVars PROVE WireInv'
  OBVIOUS
<1>1. CASE \E r \in Invocations : Ask(r)
  BY <1>1, AskClosedInv, AskOpenInv
<1>2. CASE \E c \in Clients : Open(c)
  BY <1>2, OpenInv
<1>3. CASE \E c \in Clients : OnMessage(c)
  BY <1>3, OnEventInv, OnResponseInv
<1>4. CASE \E c \in Clients : Teardown(c)
  BY <1>4, TeardownInv
<1>5. CASE \E c \in Clients : Upgrade(c)
  BY <1>5, UpgradeInv
<1>6. CASE \E c \in Clients : OnData(c)
  BY <1>6, OnDataInv
<1>7. CASE \E q \in running : Perform(q)
  BY <1>7, PerformInv
<1>8. CASE \E q \in running : Throws(q)
  BY <1>8, ThrowsInv
<1>9. CASE \E a \in answers : Respond(a)
  BY <1>9, RespondInv
<1>10. CASE CloseAll
  BY <1>10, CloseAllInv
<1>11. CASE UNCHANGED wireVars
  <2> USE <1>11 DEF wireVars, clientVars, serverVars, WireInv
  <2>1. WireTypes' /\ AskedOnce' /\ WaitersKnown' /\ QueuesInTurn' /\ AnswersTrue' /\ Announced'
    BY DEF WireTypes, AskedOnce, WaitersKnown, QueuesInTurn, AnswersTrue, Announced
  <2>2. Matched'
    BY DEF Matched, IsCall
  <2>3. Unfinished'
    BY DEF Unfinished, UnderWay, Sent, Held, Worked
  <2>4. EventFirst'
    BY DEF EventFirst, AnswersFollow, FramesFollow, Knows
  <2>5. Mirrored'
    BY DEF Mirrored, Mirrors, Ahead, Told
  <2>6. QED
    BY <2>1, <2>2, <2>3, <2>4, <2>5
<1>12. QED
  BY <1>1, <1>2, <1>3, <1>4, <1>5, <1>6, <1>7, <1>8, <1>9, <1>10, <1>11 DEF WireNext

\* A call under way to its handler is in one place and was neither done nor answered,
\* and every answer says what was done (attachWsTransport, createWsTransport).
THEOREM WireInvariant == WireSpec => []WireInv
<1>1. WireInit => WireInv
  BY WireInitial
<1>2. WireInv /\ [WireNext]_wireVars => WireInv'
  BY WireStep
<1>3. QED
  BY <1>1, <1>2, PTL DEF WireSpec

\* A connected client is told of every broadcast since its upgrade, once and in order.
THEOREM EventsMirroredHolds == WireSpec => []EventsMirrored
<1>1. WireInv => EventsMirrored
  BY MirroredMeans DEF WireInv
<1>2. QED
  BY <1>1, WireInvariant, PTL

-----------------------------------------------------------------------------
(***************************************************************************)
(* Each step of the wire is a step of Calls, or none                       *)
(***************************************************************************)


LEMMA PromiseInitial == WireInit => Promise!Init
  BY DEF WireInit, Promise!Init

LEMMA AskKept ==
    ASSUME WireInv, NEW r \in Invocations, Ask(r)
    PROVE  Promise!Ask(r)
<1>1. /\ outcome[r] = "new" /\ Owner[r] \in Clients
      /\ outcome' = [outcome EXCEPT ![r] = IF phase[Owner[r]] = "closed" THEN "lost" ELSE "waiting"]
      /\ UNCHANGED <<phase, heard, done>>
  BY WireAssumption DEF Ask, serverVars
<1>2. QED
  BY <1>1 DEF Promise!Ask

LEMMA TeardownKept ==
    ASSUME WireInv, NEW c \in Clients, Teardown(c)
    PROVE  Promise!Close(c)
<1>1. /\ phase[c] # "closed" /\ phase' = [phase EXCEPT ![c] = "closed"]
      /\ outcome' = [r \in Invocations |->
            IF \E i \in pending[c] : asked[c][i] = r THEN "lost" ELSE outcome[r]]
      /\ UNCHANGED <<heard, done>>
  BY DEF Teardown, FailAll, serverVars
<1>2. ASSUME NEW r \in Invocations
      PROVE  (\E i \in pending[c] : asked[c][i] = r) <=> (Owner[r] = c /\ outcome[r] = "waiting")
  BY DEF WireInv, AskedOnce, WaitersKnown
<1>3. outcome' = [r \in Invocations |->
          IF Owner[r] = c /\ outcome[r] = "waiting" THEN "lost" ELSE outcome[r]]
  BY <1>1, <1>2
<1>4. {d \in Clients : phase'[d] = "closed"} = {d \in Clients : phase[d] = "closed"} \cup {c}
  BY <1>1 DEF WireInv, WireTypes
<1>5. QED
  BY <1>1, <1>3, <1>4 DEF Promise!Close

LEMMA PerformKept ==
    ASSUME WireInv, NEW q \in running, Perform(q)
    PROVE  q.call \in Invocations /\ Promise!Perform(q.call)
<1>1. q \in Handled /\ q.client \in Clients /\ q.id \in Nat \ {0} /\ q.call \in Invocations
  BY RequestKinds DEF WireInv, WireTypes
<1>2. IsCall(q.client, q.id, q.call) /\ UnderWay(q.client, q.id) /\ q.call \notin Blocked
  BY <1>1 DEF WireInv, Matched, UnderWay, Worked, AnswersTrue
<1>3. outcome[q.call] \in {"waiting", "lost"} /\ q.call \notin done
  BY <1>1, <1>2 DEF WireInv, Unfinished, IsCall
<1>4. done' = done \cup {q.call} /\ UNCHANGED <<outcome, phase, heard>>
  BY DEF Perform, clientVars
<1>5. QED
  BY <1>1, <1>2, <1>3, <1>4 DEF Promise!Perform

LEMMA EventKept ==
    ASSUME WireInv, NEW c \in Clients, OnMessage(c), "event" \in DOMAIN Head(down[c])
    PROVE  \E r \in Invocations : Promise!Hear(c, r)
<1>1. /\ phase[c] = "open" /\ down[c] # <<>>
      /\ heard' = [heard EXCEPT ![c] = Append(@, Head(down[c]).event)]
      /\ UNCHANGED <<phase, outcome, done>>
  BY DEF OnMessage, OnEvent, serverVars
<1>2. /\ down[c] \in Seq(EventFrame \cup AnswerFrame) /\ heard \in [Clients -> Seq(Writes)]
      /\ heard[c] \in Seq(Writes)
  BY DEF WireInv, WireTypes
<1>3. /\ Head(down[c]) \in EventFrame \cup AnswerFrame
      /\ Head(down[c]) = down[c][1] /\ 1 \in DOMAIN down[c]
  BY <1>1, <1>2, TailOf
<1>4. Head(down[c]) \in EventFrame /\ Head(down[c]).event \in Writes
  BY <1>3, MailKinds
<1>5. PICK r \in Writes : r = Head(down[c]).event
  BY <1>4
<1>6. r \in done /\ r \in Invocations
  BY <1>3, <1>4, <1>5, WireAssumption DEF WireInv, Announced
<1>7. /\ heard'[c] = Append(heard[c], r)
      /\ \A d \in Clients \ {c} : heard'[d] = heard[d]
  BY <1>1, <1>2, <1>5
<1>8. {heard'[c][i] : i \in DOMAIN heard'[c]} = {heard[c][i] : i \in DOMAIN heard[c]} \cup {r}
  <2>1. /\ \A i \in DOMAIN heard[c] : i \in DOMAIN heard'[c] /\ heard'[c][i] = heard[c][i]
        /\ Len(heard[c]) + 1 \in DOMAIN heard'[c] /\ heard'[c][Len(heard[c]) + 1] = r
        /\ \A i \in DOMAIN heard'[c] : i \in DOMAIN heard[c] \/ i = Len(heard[c]) + 1
    BY <1>2, <1>7, AppendTo
  <2>2. QED
    BY <2>1
<1>9. [d \in Clients |-> {heard'[d][i] : i \in DOMAIN heard'[d]}] =
        [[d \in Clients |-> {heard[d][i] : i \in DOMAIN heard[d]}] EXCEPT ![c] = @ \cup {r}]
  <2>1. \A d \in Clients : {heard'[d][i] : i \in DOMAIN heard'[d]} =
          IF d = c THEN {heard[d][i] : i \in DOMAIN heard[d]} \cup {r} ELSE {heard[d][i] : i \in DOMAIN heard[d]}
    BY <1>7, <1>8
  <2> DEFINE was(d) == {heard[d][i] : i \in DOMAIN heard[d]}
             is(d) == {heard'[d][i] : i \in DOMAIN heard'[d]}
  <2>2. \A d \in Clients : is(d) = IF d = c THEN was(d) \cup {r} ELSE was(d)
    BY <2>1
  <2> HIDE DEF was, is
  <2>3. [d \in Clients |-> is(d)] = [[d \in Clients |-> was(d)] EXCEPT ![c] = @ \cup {r}]
    BY <2>2
  <2>4. QED
    BY <2>3 DEF was, is
<1>10. QED
  BY <1>1, <1>5, <1>6, <1>9 DEF Promise!Hear

LEMMA ResponseKept ==
    ASSUME WireInv, NEW c \in Clients, OnMessage(c), "event" \notin DOMAIN Head(down[c])
    PROVE  (\E r \in Invocations : Promise!Answer(r)) \/ UNCHANGED Promise!vars
<1>1. /\ phase[c] = "open" /\ down[c] # <<>> /\ UNCHANGED <<phase, done, heard>>
      /\ \/ /\ Head(down[c]).id \in pending[c]
            /\ outcome' = [outcome EXCEPT ![asked[c][Head(down[c]).id]] = Head(down[c]).answer]
         \/ UNCHANGED outcome
  BY DEF OnMessage, OnResponse, serverVars
<1>2. CASE UNCHANGED outcome
  BY <1>1, <1>2 DEF Promise!vars
<1>3. CASE /\ Head(down[c]).id \in pending[c]
           /\ outcome' = [outcome EXCEPT ![asked[c][Head(down[c]).id]] = Head(down[c]).answer]
  <2>1. down[c] \in Seq(EventFrame \cup AnswerFrame)
    BY DEF WireInv, WireTypes
  <2>2. PICK f \in EventFrame \cup AnswerFrame : f = Head(down[c]) /\ f = down[c][1] /\ 1 \in DOMAIN down[c]
    BY <1>1, <2>1, TailOf
  <2>3. f \in AnswerFrame /\ f.answer \in {"ok", "error"}
    BY <2>2, MailKinds
  <2>4. f.id \in DOMAIN asked[c]
    BY <2>2, <2>3 DEF WireInv, Matched
  <2>5. PICK r \in Invocations : r = asked[c][f.id]
    BY <2>4, AskedCalls DEF WireInv
  <2>6. /\ outcome[r] = "waiting" /\ Owner[r] = c /\ outcome' = [outcome EXCEPT ![r] = f.answer]
    BY <1>3, <2>2, <2>4, <2>5 DEF WireInv, AskedOnce
  <2>7. f.answer = "ok" <=> r \in done
    BY <2>2, <2>3, <2>5 DEF WireInv, AnswersTrue
  <2>8. f.answer = "ok" /\ r \in Writes => \E i \in DOMAIN heard[c] : heard[c][i] = r
    <3>1. \A j \in DOMAIN down[c] : ~(j < 1)
      BY <2>1
    <3>2. QED
      BY <2>2, <2>3, <2>5, <3>1 DEF WireInv, EventFirst, FramesFollow
  <2>9. f.answer = "ok" => r \in done /\ (r \in Writes => r \in {heard[c][i] : i \in DOMAIN heard[c]})
    BY <2>7, <2>8
  <2>10. Promise!Answer(r)
    <3>1. [d \in Clients |-> {heard[d][i] : i \in DOMAIN heard[d]}][Owner[r]]
            = {heard[c][i] : i \in DOMAIN heard[c]}
      BY <2>6
    <3>2. \/ /\ r \in done
             /\ r \in Writes => r \in [d \in Clients |-> {heard[d][i] : i \in DOMAIN heard[d]}][Owner[r]]
             /\ outcome' = [outcome EXCEPT ![r] = "ok"]
          \/ r \notin done /\ outcome' = [outcome EXCEPT ![r] = "error"]
      BY <2>3, <2>6, <2>7, <2>9, <3>1
    <3>3. UNCHANGED <<phase, done, heard>>
      BY <1>1
    <3>4. QED
      BY <2>6, <3>2, <3>3 DEF Promise!Answer
  <2>11. QED
    BY <2>10
<1>4. QED
  BY <1>1, <1>2, <1>3

LEMMA PromiseStep == WireInv /\ [WireNext]_wireVars => [Promise!Next]_(Promise!vars)
<1> SUFFICES ASSUME WireInv, [WireNext]_wireVars PROVE Promise!Next \/ UNCHANGED Promise!vars
  OBVIOUS
<1>1. CASE \E r \in Invocations : Ask(r)
  BY <1>1, AskKept DEF Promise!Next
<1>2. CASE \E c \in Clients : Teardown(c)
  BY <1>2, TeardownKept DEF Promise!Next
<1>3. CASE \E q \in running : Perform(q)
  BY <1>3, PerformKept DEF Promise!Next
<1>4. CASE \E c \in Clients : OnMessage(c)
  <2>1. PICK c \in Clients : OnMessage(c)
    BY <1>4
  <2>2. CASE "event" \in DOMAIN Head(down[c])
    BY <2>1, <2>2, EventKept DEF Promise!Next
  <2>3. CASE "event" \notin DOMAIN Head(down[c])
    BY <2>1, <2>3, ResponseKept DEF Promise!Next
  <2>4. QED
    BY <2>2, <2>3
<1>5. CASE \E c \in Clients : Open(c)
  <2>1. PICK c \in Clients : Open(c)
    BY <1>5
  <2>2. /\ phase[c] = "connecting" /\ phase' = [phase EXCEPT ![c] = "open"]
        /\ UNCHANGED <<outcome, done, heard>>
    BY <2>1 DEF Open, serverVars
  <2>3. {d \in Clients : phase'[d] = "closed"} = {d \in Clients : phase[d] = "closed"}
    BY <2>2 DEF WireInv, WireTypes
  <2>4. QED
    BY <2>2, <2>3 DEF Promise!vars
<1>6. ASSUME UNCHANGED <<phase, outcome, done, heard>>
      PROVE  UNCHANGED Promise!vars
  BY <1>6 DEF Promise!vars
<1>7. CASE \E c \in Clients : Upgrade(c) \/ OnData(c)
  <2>1. UNCHANGED <<phase, outcome, done, heard>>
    BY <1>7 DEF Upgrade, OnData, clientVars
  <2>2. QED
    BY <1>6, <2>1
<1>8. CASE \/ \E q \in running : Throws(q)
           \/ \E a \in answers : Respond(a)
           \/ CloseAll
           \/ UNCHANGED wireVars
  <2>1. UNCHANGED <<phase, outcome, done, heard>>
    BY <1>8 DEF Throws, Respond, CloseAll, clientVars, wireVars, serverVars
  <2>2. QED
    BY <1>6, <2>1
<1>9. QED
  BY <1>1, <1>2, <1>3, <1>4, <1>5, <1>7, <1>8 DEF WireNext

\* Calls over the wire keep what Calls promises of each step: a call settles once and
\* with its own answer, an error means that nothing was done, a write's caller heard of
\* the write before its answer, and an ended connection fails all its calls at once.
THEOREM ImplementsPromise == WireSpec => Promise!Safety
<1>1. WireInit => Promise!Init
  BY PromiseInitial
<1>2. WireInv /\ [WireNext]_wireVars => [Promise!Next]_(Promise!vars)
  BY PromiseStep
<1>3. QED
  BY <1>1, <1>2, WireInvariant, PTL DEF WireSpec, Promise!Safety

-----------------------------------------------------------------------------
(***************************************************************************)
(* Numbers, and sums of them                                               *)
(***************************************************************************)
\* A nonempty set of numbers has a least one.
LEMMA LeastOf ==
  ASSUME NEW T \in SUBSET Nat, T # {}
  PROVE  \E x \in T : \A y \in T : x <= y
<1> DEFINE R == OpToRel(<, Nat)
<1>1. IsWellFoundedOn(R, Nat)
  BY NatLessThanWellFounded
<1> HIDE DEF R
<1>2. PICK x \in T : \A y \in T : <<y, x>> \notin R
  BY <1>1, WFMin
<1>3. \A y \in T : ~ (y < x)
  BY <1>2 DEF R, OpToRel
<1>4. QED
  BY <1>3

\* What holds of 0 and goes on from each number to the next holds up to N.
LEMMA Upwards ==
  ASSUME NEW N \in Nat, NEW P, 0 \in P, \A n \in 1..N : n - 1 \in P => n \in P
  PROVE  0..N \subseteq P
<1> DEFINE T == (0..N) \ P
<1> SUFFICES ASSUME T # {} PROVE FALSE
  OBVIOUS
<1>1. T \in SUBSET Nat
  OBVIOUS
<1> HIDE DEF T
<1>2. PICK x \in T : \A y \in T : x <= y
  BY <1>1, LeastOf
<1>3. x \in 1..N
  BY <1>2 DEF T
<1>4. x - 1 \in 0..N /\ ~ (x <= x - 1)
  BY <1>3
<1>5. x - 1 \in P
  BY <1>2, <1>4 DEF T
<1>6. QED
  BY <1>2, <1>3, <1>5 DEF T

\* g holds the sums of the first numbers of w.
Sums(g, w, N) ==
  g \in [0..N -> Nat] /\ g[0] = 0 /\ \A n \in 1..N : g[n] = g[n - 1] + w[n]

\* The sums of the first m numbers of w exist, for each m.
LEMMA SumsUpTo ==
  ASSUME NEW N \in Nat, NEW w \in [1..N -> Nat]
  PROVE  \E g : Sums(g, w, N)
<1> DEFINE P == {m \in 0..N : \E g : Sums(g, w, m)}
<1>1. 0 \in P
  <2> DEFINE g == [n \in 0..0 |-> 0]
  <2>1. g \in [0..0 -> Nat] /\ g[0] = 0 /\ 1..0 = {} /\ 0 \in 0..N
    OBVIOUS
  <2> HIDE DEF g
  <2>2. Sums(g, w, 0)
    BY <2>1 DEF Sums
  <2>3. QED
    BY <2>1, <2>2
<1>2. ASSUME NEW m \in 1..N, m - 1 \in P PROVE m \in P
  <2>1. PICK g : Sums(g, w, m - 1)
    BY <1>2
  <2> DEFINE h == [n \in 0..m |-> IF n = m THEN g[m - 1] + w[m] ELSE g[n]]
  <2>2. m - 1 \in 0..(m - 1) /\ m \in 0..N /\ \A n \in 0..m : n # m => n \in 0..(m - 1)
    OBVIOUS
  <2>3. g[m - 1] \in Nat /\ w[m] \in Nat /\ \A n \in 0..(m - 1) : g[n] \in Nat
    BY <2>1, <2>2 DEF Sums
  <2>4. h \in [0..m -> Nat]
    BY <2>2, <2>3
  <2>5. h[0] = 0
    BY <2>1, <2>2 DEF Sums
  <2>6. ASSUME NEW n \in 1..m PROVE h[n] = h[n - 1] + w[n]
    <3>1. n - 1 \in 0..m /\ n - 1 # m /\ h[n - 1] = g[n - 1]
      OBVIOUS
    <3>2. CASE n = m
      BY <3>1, <3>2
    <3>3. CASE n # m
      <4>1. n \in 1..(m - 1) /\ n \in 0..m
        BY <3>3
      <4>2. QED
        BY <2>1, <3>1, <3>3, <4>1 DEF Sums
    <3>4. QED
      BY <3>2, <3>3
  <2> HIDE DEF h
  <2>7. Sums(h, w, m)
    BY <2>4, <2>5, <2>6 DEF Sums
  <2>8. QED
    BY <2>2, <2>7
<1>3. N \in P
  <2> HIDE DEF P
  <2>1. 0..N \subseteq P
    BY <1>1, <1>2, Upwards
  <2>2. QED
    BY <2>1
<1>4. QED
  BY <1>3

\* Numbers that are added up one by one come to the same.
LEMMA SumIs ==
  ASSUME NEW N \in Nat, NEW w \in [1..N -> Nat], NEW g, Sums(g, w, N)
  PROVE  SumOf(w) = g[N]
<1>1. Len(w) = N
  OBVIOUS
<1> DEFINE F == CHOOSE f : f = [n \in 0..N |-> IF n = 0 THEN 0 ELSE f[n - 1] + w[n]]
<1>2. SumOf(w) = F[N]
  BY <1>1 DEF SumOf
<1>3. g = [n \in 0..N |-> IF n = 0 THEN 0 ELSE g[n - 1] + w[n]]
  <2>1. \A n \in 0..N : n # 0 => n \in 1..N
    OBVIOUS
  <2>2. QED
    BY <2>1 DEF Sums
<1>4. F = [n \in 0..N |-> IF n = 0 THEN 0 ELSE F[n - 1] + w[n]]
  BY <1>3
<1> HIDE DEF F
<1> DEFINE P == {n \in 0..N : F[n] = g[n]}
<1>5. 0 \in P
  BY <1>4 DEF Sums
<1>6. ASSUME NEW n \in 1..N, n - 1 \in P PROVE n \in P
  <2>1. n \in 0..N /\ n # 0 /\ F[n] = F[n - 1] + w[n]
    BY <1>4
  <2>2. g[n] = g[n - 1] + w[n]
    BY DEF Sums
  <2>3. QED
    BY <1>6, <2>1, <2>2
<1> HIDE DEF P
<1>7. 0..N \subseteq P
  BY <1>5, <1>6, Upwards
<1>8. F[N] = g[N]
  BY <1>7 DEF P
<1>9. QED
  BY <1>2, <1>8

\* A sum of numbers is a number, and one number more adds to it.
LEMMA SumGrows ==
  ASSUME NEW N \in Nat, NEW w \in [1..(N + 1) -> Nat]
  PROVE  /\ SumOf([n \in 1..N |-> w[n]]) \in Nat
         /\ SumOf(w) = SumOf([n \in 1..N |-> w[n]]) + w[N + 1]
<1>1. PICK v : v = [n \in 1..N |-> w[n]]
  OBVIOUS
<1>2. v \in [1..N -> Nat] /\ \A n \in 1..N : v[n] = w[n]
  BY <1>1
<1>3. PICK g : Sums(g, w, N + 1)
  BY SumsUpTo
<1>4. PICK h : h = [n \in 0..N |-> g[n]]
  OBVIOUS
<1>5. Sums(h, v, N)
  BY <1>2, <1>3, <1>4 DEF Sums
<1>6. SumOf(v) = g[N] /\ g[N] \in Nat
  <2>1. SumOf(v) = h[N]
    BY <1>2, <1>5, SumIs
  <2>2. N \in 0..N /\ N \in 0..(N + 1)
    OBVIOUS
  <2>3. QED
    BY <1>3, <1>4, <2>1, <2>2 DEF Sums
<1>7. SumOf(w) = g[N + 1]
  BY <1>3, SumIs
<1>8. g[N + 1] = g[N] + w[N + 1]
  <2>1. N + 1 \in 1..(N + 1) /\ (N + 1) - 1 = N
    OBVIOUS
  <2>2. QED
    BY <1>3, <2>1 DEF Sums
<1>9. QED
  BY <1>1, <1>6, <1>7, <1>8

\* Nothing adds up to nothing.
LEMMA SumOfZeros ==
  ASSUME NEW N \in Nat, NEW w \in [1..N -> Nat], \A n \in 1..N : w[n] = 0
  PROVE  SumOf(w) = 0
<1>1. PICK g : g = [n \in 0..N |-> 0]
  OBVIOUS
<1>2. Sums(g, w, N)
  BY <1>1 DEF Sums
<1>3. QED
  BY <1>1, <1>2, SumIs

LEMMA SumIsNumber ==
  ASSUME NEW N \in Nat, NEW w \in [1..N -> Nat]
  PROVE  SumOf(w) \in Nat
<1>1. PICK g : Sums(g, w, N)
  BY SumsUpTo
<1>2. SumOf(w) = g[N]
  BY <1>1, SumIs
<1>3. QED
  BY <1>1, <1>2 DEF Sums

-----------------------------------------------------------------------------
(***************************************************************************)
(* Sets of numbers in order                                                *)
(***************************************************************************)
\* The members of S that have n below them.
WithBelow(S, n) == {x \in S : Cardinality({y \in S : y < x}) = n}

LEMMA InOrderIs ==
  ASSUME NEW S
  PROVE  InOrderOf(S) = [n \in 1..Cardinality(S) |-> MemberOf(WithBelow(S, n - 1))]
  BY DEF InOrderOf, WithBelow

\* A number above those of S is the last.
LEMMA LastInOrder ==
  ASSUME NEW S, S \subseteq Nat, IsFiniteSet(S), NEW i \in Nat, \A x \in S : x < i
  PROVE  /\ Cardinality(S) \in Nat /\ Cardinality(S \cup {i}) = Cardinality(S) + 1
         /\ \A n \in 1..Cardinality(S) : InOrderOf(S \cup {i})[n] = InOrderOf(S)[n]
         /\ InOrderOf(S \cup {i})[Cardinality(S) + 1] = i
<1>1. PICK c : c = Cardinality(S)
  OBVIOUS
<1>2. PICK U : U = S \cup {i}
  OBVIOUS
<1>3. c \in Nat /\ Cardinality(U) = c + 1
  <2>1. i \notin S
    OBVIOUS
  <2>2. QED
    BY <1>1, <1>2, <2>1, FS_CardinalityType, FS_AddElement
<1>4. \A x \in S : {y \in U : y < x} = {y \in S : y < x}
  <2>1. \A x \in S : ~ (i < x)
    OBVIOUS
  <2>2. QED
    BY <1>2, <2>1
<1>5. {y \in U : y < i} = S
  <2>1. ~ (i < i)
    OBVIOUS
  <2>2. QED
    BY <1>2, <2>1
<1>6. \A x \in S : Cardinality({y \in S : y < x}) # c
  <2>1. TAKE x \in S
  <2>2. {y \in S : y < x} \subseteq S /\ x \notin {y \in S : y < x}
    OBVIOUS
  <2>3. {y \in S : y < x} # S
    BY <2>2
  <2>4. QED
    BY <1>1, <2>2, <2>3, FS_Subset
<1>7. ASSUME NEW n \in 0..c, n # c PROVE WithBelow(U, n) = WithBelow(S, n)
  <2>1. \A x \in U : x \in WithBelow(U, n) <=> x \in S /\ Cardinality({y \in S : y < x}) = n
    <3>1. TAKE x \in U
    <3>2. CASE x = i
      <4>1. Cardinality({y \in U : y < i}) = c
        BY <1>1, <1>5
      <4>2. i \notin S
        OBVIOUS
      <4>3. QED
        BY <1>7, <3>2, <4>1, <4>2 DEF WithBelow
    <3>3. CASE x # i
      <4>1. x \in S
        BY <1>2, <3>3
      <4>2. {y \in U : y < x} = {y \in S : y < x}
        BY <1>4, <4>1
      <4>3. QED
        BY <4>1, <4>2 DEF WithBelow
    <3>4. QED
      BY <3>2, <3>3
  <2>2. S \subseteq U /\ WithBelow(U, n) \subseteq U
    BY <1>2 DEF WithBelow
  <2>3. QED
    BY <2>1, <2>2 DEF WithBelow
<1>8. WithBelow(U, c) = {i}
  <2>1. i \in WithBelow(U, c)
    BY <1>1, <1>2, <1>5 DEF WithBelow
  <2>2. ASSUME NEW x \in S PROVE x \notin WithBelow(U, c)
    <3>1. Cardinality({y \in U : y < x}) # c
      BY <1>4, <1>6
    <3>2. QED
      BY <3>1 DEF WithBelow
  <2>3. WithBelow(U, c) \subseteq U
    BY DEF WithBelow
  <2>4. QED
    BY <1>2, <2>1, <2>2, <2>3
<1>9. InOrderOf(U) = [n \in 1..(c + 1) |-> MemberOf(WithBelow(U, n - 1))]
  BY <1>3, InOrderIs
<1>10. InOrderOf(S) = [n \in 1..c |-> MemberOf(WithBelow(S, n - 1))]
  BY <1>1, InOrderIs
<1>11. ASSUME NEW n \in 1..c PROVE InOrderOf(U)[n] = InOrderOf(S)[n]
  <2>1. n - 1 \in 0..c /\ n - 1 # c /\ n \in 1..(c + 1)
    BY <1>3
  <2>2. WithBelow(U, n - 1) = WithBelow(S, n - 1)
    BY <1>7, <2>1
  <2>3. QED
    BY <1>9, <1>10, <2>1, <2>2
<1>12. InOrderOf(U)[c + 1] = i
  <2>1. c + 1 \in 1..(c + 1) /\ (c + 1) - 1 = c
    BY <1>3
  <2>2. MemberOf({i}) = i
    BY DEF MemberOf
  <2>3. QED
    BY <1>8, <1>9, <2>1, <2>2
<1>13. QED
  BY <1>1, <1>2, <1>3, <1>11, <1>12

\* As a sequence: it is appended.
LEMMA AppendedInOrder ==
  ASSUME NEW S, S \subseteq Nat, IsFiniteSet(S), NEW i \in Nat, \A x \in S : x < i,
         NEW V, InOrderOf(S) \in Seq(V)
  PROVE  InOrderOf(S \cup {i}) = Append(InOrderOf(S), i)
<1>1. PICK c : c = Cardinality(S)
  OBVIOUS
<1>2. PICK U : U = S \cup {i}
  OBVIOUS
<1>3. PICK s : s = InOrderOf(S)
  OBVIOUS
<1>4. PICK u : u = InOrderOf(U)
  OBVIOUS
<1>5. /\ c \in Nat /\ Cardinality(U) = c + 1
      /\ \A n \in 1..c : u[n] = s[n]
      /\ u[c + 1] = i
  BY <1>1, <1>2, <1>3, <1>4, LastInOrder
<1>6. s = [n \in 1..c |-> s[n]] /\ u = [n \in 1..(c + 1) |-> u[n]]
  BY <1>1, <1>3, <1>4, <1>5, InOrderIs
<1>7. Len(s) = c
  BY <1>3, <1>5, <1>6
<1>8. PICK a : a = Append(s, i)
  OBVIOUS
<1>9. /\ a \in Seq(V \cup {i}) /\ Len(a) = c + 1
      /\ \A n \in 1..c : a[n] = s[n]
      /\ a[c + 1] = i
  <2>1. s \in Seq(V \cup {i})
    BY <1>3
  <2>2. QED
    BY <1>7, <1>8, <2>1, AppendProperties
<1>10. a = [n \in 1..(c + 1) |-> a[n]]
  BY <1>9
<1>11. \A n \in 1..(c + 1) : a[n] = u[n]
  <2>1. \A n \in 1..(c + 1) : n \in 1..c \/ n = c + 1
    BY <1>5
  <2>2. QED
    BY <1>5, <1>9, <2>1
<1>12. a = u
  BY <1>6, <1>10, <1>11
<1>13. QED
  BY <1>2, <1>3, <1>4, <1>8, <1>12

LEMMA NothingInOrder == InOrderOf({}) = <<>>
  BY FS_EmptySet DEF InOrderOf

-----------------------------------------------------------------------------
(***************************************************************************)
(* The frames of a script                                                  *)
(***************************************************************************)
FrameKind == [op : STRING, says : STRING, length : Nat, fin : BOOLEAN, masked : BOOLEAN]

ScriptFits == script \in Seq(FrameKind)

\* A frame has a header, a mask and its payload.
LEMMA FrameIs ==
  ASSUME ScriptFits, NEW i \in 1..Len(script)
  PROVE  /\ script[i] \in FrameKind
         /\ HeaderSize(script[i]) \in Nat /\ HeaderSize(script[i]) >= 2
         /\ Consumed(script[i]) \in Nat
         /\ Consumed(script[i]) = HeaderSize(script[i]) + 4 + script[i].length
<1>1. script[i] \in FrameKind
  BY DEF ScriptFits
<1>2. script[i].length \in Nat
  BY <1>1 DEF FrameKind
<1>3. HeaderSize(script[i]) \in Nat /\ HeaderSize(script[i]) >= 2
  BY <1>2, FrameAssumption DEF HeaderSize, LengthBytes
<1> HIDE DEF HeaderSize
<1>4. QED
  BY <1>1, <1>2, <1>3 DEF Consumed

LEMMA ScriptLen == ASSUME ScriptFits PROVE Len(script) \in Nat /\ DOMAIN script = 1..Len(script)
  BY DEF ScriptFits

LEMMA NoBytes == Bytes(0) = 0
<1>1. SumOf([i \in 1..0 |-> Consumed(script[i])]) = 0
  <2>1. 1..0 = {} /\ 0 \in Nat
    OBVIOUS
  <2>2. [i \in 1..0 |-> Consumed(script[i])] \in [1..0 -> Nat]
    BY <2>1
  <2>3. QED
    BY <2>1, <2>2, SumOfZeros
<1>2. QED
  BY <1>1 DEF Bytes

\* One frame more is its bytes more.
LEMMA BytesNext ==
  ASSUME ScriptFits, NEW n \in 1..Len(script)
  PROVE  Bytes(n - 1) \in Nat /\ Bytes(n) = Bytes(n - 1) + Consumed(script[n])
<1>1. PICK N \in Nat : N = n - 1
  OBVIOUS
<1>2. PICK w : w = [i \in 1..n |-> Consumed(script[i])]
  OBVIOUS
<1>3. n = N + 1 /\ w \in [1..(N + 1) -> Nat]
  <2>1. \A i \in 1..n : i \in 1..Len(script)
    BY ScriptLen
  <2>2. n = N + 1
    BY <1>1
  <2>3. QED
    BY <1>2, <2>1, <2>2, FrameIs
<1>4. [i \in 1..N |-> w[i]] = [i \in 1..N |-> Consumed(script[i])]
  BY <1>2, <1>3
<1>5. SumOf([i \in 1..N |-> w[i]]) \in Nat /\ SumOf(w) = SumOf([i \in 1..N |-> w[i]]) + w[N + 1]
  BY <1>3, SumGrows
<1>6. w[N + 1] = Consumed(script[n])
  BY <1>2, <1>3
<1>7. Bytes(n - 1) = SumOf([i \in 1..N |-> w[i]])
  BY <1>1, <1>4 DEF Bytes
<1>8. Bytes(n) = SumOf(w)
  BY <1>2 DEF Bytes
<1>9. QED
  BY <1>5, <1>6, <1>7, <1>8

\* More frames are no fewer bytes.
LEMMA BytesUp ==
  ASSUME ScriptFits, NEW m \in 0..Len(script)
  PROVE  /\ Bytes(m) \in Nat
         /\ \A n \in m..Len(script) : Bytes(n) \in Nat /\ Bytes(m) <= Bytes(n)
<1>0. Len(script) \in Nat
  BY ScriptLen
<1>1. \A n \in 0..Len(script) : Bytes(n) \in Nat
  <2>1. TAKE n \in 0..Len(script)
  <2>2. CASE n = 0
    BY <2>2, NoBytes
  <2>3. CASE n # 0
    <3>1. n \in 1..Len(script)
      BY <2>3
    <3>2. QED
      BY <3>1, BytesNext, FrameIs
  <2>4. QED
    BY <2>2, <2>3
<1> DEFINE P == {n \in 0..Len(script) : m <= n => Bytes(m) <= Bytes(n)}
<1>2. 0 \in P
  BY <1>0, <1>1
<1>3. ASSUME NEW n \in 1..Len(script), n - 1 \in P PROVE n \in P
  <2>1. n \in 0..Len(script) /\ n - 1 \in 0..Len(script)
    OBVIOUS
  <2>2. /\ Bytes(n - 1) \in Nat /\ Consumed(script[n]) \in Nat
        /\ Bytes(n) = Bytes(n - 1) + Consumed(script[n])
    BY BytesNext, FrameIs
  <2>3. CASE m = n
    BY <1>1, <2>1, <2>3
  <2>4. CASE m # n
    <3>1. m <= n => Bytes(m) <= Bytes(n - 1)
      BY <1>3, <2>4
    <3>2. QED
      BY <1>1, <2>1, <2>2, <3>1
  <2>5. QED
    BY <2>3, <2>4
<1> HIDE DEF P
<1>4. 0..Len(script) \subseteq P
  BY <1>0, <1>2, <1>3, Upwards
<1>5. ASSUME NEW n \in m..Len(script) PROVE Bytes(n) \in Nat /\ Bytes(m) <= Bytes(n)
  <2>1. n \in 0..Len(script) /\ m <= n
    OBVIOUS
  <2>2. n \in P
    BY <1>4, <2>1
  <2>3. QED
    BY <1>1, <2>1, <2>2 DEF P
<1>6. QED
  BY <1>1, <1>5

-----------------------------------------------------------------------------
(***************************************************************************)
(* The message under way behind the first n frames                         *)
(***************************************************************************)
Started(n) == {j \in 1..n : Data(j) /\ \A k \in j..n : ~EndsMessage(k)}
Piece(S, j) == IF j \in S THEN script[j].length ELSE 0
StartedSize(n) == SumOf([j \in 1..n |-> Piece(Started(n), j)])
Ends(n) == {i \in 1..n : EndsMessage(i) /\ SoundTo(i)}

LEMMA StartedNext ==
  ASSUME NEW n \in Nat, n # 0
  PROVE  /\ ~Data(n) => Started(n) = Started(n - 1)
         /\ Data(n) => MessageOf(n) = Started(n - 1) \cup {n}
         /\ EndsMessage(n) => Started(n) = {}
         /\ Data(n) /\ ~EndsMessage(n) => Started(n) = MessageOf(n)
<1>1. /\ \A j : j \in 1..n <=> j \in 1..(n - 1) \/ j = n
      /\ \A j \in 1..(n - 1) : \A k : k \in j..n <=> k \in j..(n - 1) \/ k = n
      /\ \A k : k \in n..n <=> k = n
      /\ n..(n - 1) = {} /\ n \notin 1..(n - 1)
      /\ \A j \in 1..n : n \in j..n
  OBVIOUS
<1>2. EndsMessage(n) => Data(n)
  BY DEF EndsMessage
<1>3. ASSUME ~Data(n) PROVE Started(n) = Started(n - 1)
  BY <1>1, <1>2, <1>3 DEF Started
<1>4. ASSUME Data(n) PROVE MessageOf(n) = Started(n - 1) \cup {n}
  BY <1>1, <1>4 DEF Started, MessageOf
<1>5. ASSUME EndsMessage(n) PROVE Started(n) = {}
  BY <1>1, <1>5 DEF Started
<1>6. ASSUME Data(n), ~EndsMessage(n) PROVE Started(n) = MessageOf(n)
  BY <1>1, <1>6 DEF Started, MessageOf
<1>7. QED
  BY <1>3, <1>4, <1>5, <1>6

\* The lengths of some of the first frames are numbers.
LEMMA PiecesAre ==
  ASSUME ScriptFits, NEW n \in 0..Len(script), NEW S
  PROVE  [j \in 1..n |-> Piece(S, j)] \in [1..n -> Nat]
<1>1. \A j \in 1..n : j \in 1..Len(script)
  BY ScriptLen
<1>2. \A j \in 1..n : script[j].length \in Nat
  BY <1>1, FrameIs DEF FrameKind
<1>3. QED
  BY <1>2 DEF Piece

\* What one frame adds.
LEMMA PiecesNext ==
  ASSUME ScriptFits, NEW n \in 1..Len(script), NEW S, NEW T,
         \A j \in 1..(n - 1) : j \in S <=> j \in T
  PROVE  /\ SumOf([j \in 1..(n - 1) |-> Piece(T, j)]) \in Nat
         /\ SumOf([j \in 1..n |-> Piece(S, j)])
              = SumOf([j \in 1..(n - 1) |-> Piece(T, j)]) + Piece(S, n)
<1>1. PICK N \in Nat : N = n - 1
  OBVIOUS
<1>2. PICK w : w = [j \in 1..n |-> Piece(S, j)]
  OBVIOUS
<1>3. n = N + 1 /\ w \in [1..(N + 1) -> Nat]
  <2>1. n = N + 1 /\ n \in 0..Len(script)
    BY <1>1
  <2>2. QED
    BY <1>2, <2>1, PiecesAre
<1>4. [j \in 1..N |-> w[j]] = [j \in 1..(n - 1) |-> Piece(T, j)]
  <2>1. \A j \in 1..N : w[j] = Piece(S, j)
    BY <1>2, <1>3
  <2>2. \A j \in 1..N : Piece(S, j) = Piece(T, j)
    BY <1>1 DEF Piece
  <2>3. QED
    BY <1>1, <2>1, <2>2
<1>5. SumOf([j \in 1..N |-> w[j]]) \in Nat /\ SumOf(w) = SumOf([j \in 1..N |-> w[j]]) + w[N + 1]
  BY <1>3, SumGrows
<1>6. w[N + 1] = Piece(S, n)
  BY <1>2, <1>3
<1>7. QED
  BY <1>2, <1>4, <1>5, <1>6

LEMMA SizeIs ==
  ASSUME NEW n
  PROVE  SizeTo(n) = SumOf([j \in 1..n |-> Piece(MessageOf(n), j)])
  BY DEF SizeTo, Piece

LEMMA StartedSizeNext ==
  ASSUME ScriptFits, NEW n \in 1..Len(script)
  PROVE  /\ StartedSize(n - 1) \in Nat
         /\ ~Data(n) => StartedSize(n) = StartedSize(n - 1)
         /\ Data(n) => SizeTo(n) = StartedSize(n - 1) + script[n].length
         /\ EndsMessage(n) => StartedSize(n) = 0
         /\ Data(n) /\ ~EndsMessage(n) => StartedSize(n) = SizeTo(n)
<1>1. n \in Nat /\ n # 0 /\ n \in 0..Len(script) /\ n \notin 1..(n - 1)
  OBVIOUS
<1>2. PICK before : before = StartedSize(n - 1)
  OBVIOUS
<1>3. before \in Nat
  <2>1. \A j \in 1..(n - 1) : j \in Started(n - 1) <=> j \in Started(n - 1)
    OBVIOUS
  <2>2. QED
    BY <1>2, <2>1, PiecesNext DEF StartedSize
<1>4. ASSUME ~Data(n) PROVE StartedSize(n) = before
  <2>1. Started(n) = Started(n - 1)
    BY <1>1, <1>4, StartedNext
  <2>2. n \notin Started(n)
    BY <1>4 DEF Started
  <2>3. Piece(Started(n), n) = 0
    BY <2>2 DEF Piece
  <2>4. StartedSize(n) = before + Piece(Started(n), n)
    <3>1. \A j \in 1..(n - 1) : j \in Started(n) <=> j \in Started(n - 1)
      BY <2>1
    <3>2. QED
      BY <1>2, <3>1, PiecesNext DEF StartedSize
  <2>5. QED
    BY <1>3, <2>3, <2>4
<1>5. ASSUME Data(n) PROVE SizeTo(n) = before + script[n].length
  <2>1. MessageOf(n) = Started(n - 1) \cup {n}
    BY <1>1, <1>5, StartedNext
  <2>2. \A j \in 1..(n - 1) : j \in MessageOf(n) <=> j \in Started(n - 1)
    BY <1>1, <2>1
  <2>3. SizeTo(n) = before + Piece(MessageOf(n), n)
    BY <1>2, <2>2, SizeIs, PiecesNext DEF StartedSize
  <2>4. Piece(MessageOf(n), n) = script[n].length
    BY <2>1 DEF Piece
  <2>5. QED
    BY <2>3, <2>4
<1>6. ASSUME EndsMessage(n) PROVE StartedSize(n) = 0
  <2>1. Started(n) = {}
    BY <1>1, <1>6, StartedNext
  <2>2. \A j : Piece(Started(n), j) = 0
    BY <2>1 DEF Piece
  <2>3. PICK w : w = [j \in 1..n |-> Piece(Started(n), j)]
    OBVIOUS
  <2>4. w \in [1..n -> Nat] /\ \A j \in 1..n : w[j] = 0
    BY <2>2, <2>3
  <2>5. SumOf(w) = 0
    BY <1>1, <2>4, SumOfZeros
  <2>6. QED
    BY <2>3, <2>5 DEF StartedSize
<1>7. ASSUME Data(n), ~EndsMessage(n) PROVE StartedSize(n) = SizeTo(n)
  <2>1. Started(n) = MessageOf(n)
    BY <1>1, <1>7, StartedNext
  <2>2. QED
    BY <2>1, SizeIs DEF StartedSize
<1>8. QED
  BY <1>2, <1>3, <1>4, <1>5, <1>6, <1>7

LEMMA SoundNext ==
  ASSUME NEW n \in Nat, n # 0
  PROVE  /\ SoundTo(0)
         /\ SoundTo(n) <=> SoundTo(n - 1) /\ ~Refused(n)
         /\ \A m \in 0..n : SoundTo(n) => SoundTo(m)
<1>1. /\ \A j : j \in 1..n <=> j \in 1..(n - 1) \/ j = n
      /\ 1..0 = {} /\ \A m \in 0..n : \A j \in 1..m : j \in 1..n
  OBVIOUS
<1>2. QED
  BY <1>1 DEF SoundTo

LEMMA EndsNext ==
  ASSUME NEW n \in Nat, n # 0
  PROVE  /\ EndsMessage(n) /\ SoundTo(n) => Ends(n) = Ends(n - 1) \cup {n}
         /\ ~(EndsMessage(n) /\ SoundTo(n)) => Ends(n) = Ends(n - 1)
<1>1. \A j : j \in 1..n <=> j \in 1..(n - 1) \/ j = n
  OBVIOUS
<1>2. QED
  BY <1>1 DEF Ends

\* One more message that ends.
LEMMA MessagesNext ==
  ASSUME NEW E, E \subseteq Nat, IsFiniteSet(E), NEW i \in Nat, \A x \in E : x < i,
         NEW V, Messages(E) \in Seq(V)
  PROVE  Messages(E \cup {i}) = Append(Messages(E), InOrderOf(MessageOf(i)))
<1>1. PICK c : c = Cardinality(E)
  OBVIOUS
<1>2. PICK U : U = E \cup {i}
  OBVIOUS
<1>3. /\ c \in Nat /\ Cardinality(U) = c + 1
      /\ \A n \in 1..c : InOrderOf(U)[n] = InOrderOf(E)[n]
      /\ InOrderOf(U)[c + 1] = i
  BY <1>1, <1>2, LastInOrder
<1>4. PICK s : s = Messages(E)
  OBVIOUS
<1>5. PICK u : u = Messages(U)
  OBVIOUS
<1>6. PICK new : new = InOrderOf(MessageOf(i))
  OBVIOUS
<1>7. s = [n \in 1..c |-> InOrderOf(MessageOf(InOrderOf(E)[n]))]
  BY <1>1, <1>4 DEF Messages
<1>8. u = [n \in 1..(c + 1) |-> InOrderOf(MessageOf(InOrderOf(U)[n]))]
  BY <1>3, <1>5 DEF Messages
<1>9. s = [n \in 1..c |-> s[n]] /\ u = [n \in 1..(c + 1) |-> u[n]]
  BY <1>7, <1>8
<1>10. Len(s) = c
  BY <1>3, <1>4, <1>9
<1>11. \A n \in 1..c : u[n] = s[n]
  <2>1. TAKE n \in 1..c
  <2>2. n \in 1..(c + 1)
    BY <1>3
  <2>3. u[n] = InOrderOf(MessageOf(InOrderOf(U)[n]))
    BY <1>8, <2>2
  <2>4. s[n] = InOrderOf(MessageOf(InOrderOf(E)[n]))
    BY <1>7
  <2>5. QED
    BY <1>3, <2>3, <2>4
<1>12. u[c + 1] = new
  <2>1. c + 1 \in 1..(c + 1)
    BY <1>3
  <2>2. u[c + 1] = InOrderOf(MessageOf(InOrderOf(U)[c + 1]))
    BY <1>8, <2>1
  <2>3. QED
    BY <1>3, <1>6, <2>2
<1>13. PICK a : a = Append(s, new)
  OBVIOUS
<1>14. /\ a \in Seq(V \cup {new}) /\ Len(a) = c + 1
       /\ \A n \in 1..c : a[n] = s[n]
       /\ a[c + 1] = new
  <2>1. s \in Seq(V \cup {new})
    BY <1>4
  <2>2. QED
    BY <1>10, <1>13, <2>1, AppendProperties
<1>15. a = [n \in 1..(c + 1) |-> a[n]]
  BY <1>14
<1>16. \A n \in 1..(c + 1) : a[n] = u[n]
  <2>1. \A n \in 1..(c + 1) : n \in 1..c \/ n = c + 1
    BY <1>3
  <2>2. QED
    BY <1>11, <1>12, <1>14, <2>1
<1>17. a = u
  BY <1>9, <1>15, <1>16
<1>18. QED
  BY <1>2, <1>4, <1>5, <1>6, <1>13, <1>17

LEMMA NoMessages == Messages({}) = <<>> /\ Started(0) = {} /\ StartedSize(0) = 0 /\ Ends(0) = {}
<1>1. Messages({}) = <<>>
  BY FS_EmptySet DEF Messages
<1>2. Started(0) = {} /\ Ends(0) = {}
  BY DEF Started, Ends
<1>3. StartedSize(0) = 0
  <2>1. 1..0 = {} /\ 0 \in Nat
    OBVIOUS
  <2>2. [j \in 1..0 |-> Piece(Started(0), j)] \in [1..0 -> Nat]
    BY <2>1
  <2>3. SumOf([j \in 1..0 |-> Piece(Started(0), j)]) = 0
    BY <2>1, <2>2, SumOfZeros
  <2>4. QED
    BY <2>3 DEF StartedSize
<1>4. QED
  BY <1>1, <1>2, <1>3

-----------------------------------------------------------------------------
(***************************************************************************)
(* What the connection has put together of the first n frames              *)
(***************************************************************************)
\* s is the beginning of t.
Leads(s, t) ==
  /\ s \in Seq(Seq(Nat)) /\ t \in Seq(Seq(Nat)) /\ Len(s) <= Len(t)
  /\ \A k \in 1..Len(s) : s[k] = t[k]

\* Up to the first frame it refuses it has the messages that ended and the frames of
\* the one under way; behind that, nothing of them is lost.
Assembled(n, fragments, bytes, dispatched) ==
  /\ SoundTo(n) => /\ dispatched = Messages(Ends(n))
                   /\ fragments = InOrderOf(Started(n))
                   /\ bytes = StartedSize(n)
  /\ Leads(Messages(Ends(n)), dispatched)

\* What decodeFrame looks at.
Passes(i) == script[i].masked /\ script[i].length <= MaxMessage

LEMMA LeadsOn ==
  ASSUME NEW s, NEW t, Leads(s, t), NEW m \in Seq(Nat)
  PROVE  Leads(s, Append(t, m)) /\ Leads(Append(t, m), Append(t, m))
<1>1. PICK u : u = Append(t, m)
  OBVIOUS
<1>2. /\ u \in Seq(Seq(Nat)) /\ Len(u) = Len(t) + 1 /\ Len(t) \in Nat /\ Len(s) \in Nat
      /\ \A k \in 1..Len(t) : u[k] = t[k]
  <2>1. t \in Seq(Seq(Nat)) /\ s \in Seq(Seq(Nat))
    BY DEF Leads
  <2>2. QED
    BY <1>1, <2>1, AppendProperties, LenProperties
<1>3. Len(s) <= Len(t) /\ \A k \in 1..Len(s) : s[k] = t[k]
  BY DEF Leads
<1>4. \A k \in 1..Len(s) : k \in 1..Len(t)
  BY <1>2, <1>3
<1>5. Len(s) <= Len(u) /\ \A k \in 1..Len(s) : s[k] = u[k]
  BY <1>2, <1>3, <1>4
<1>6. Leads(s, u) /\ Leads(u, u)
  <2>1. s \in Seq(Seq(Nat))
    BY DEF Leads
  <2>2. Leads(s, u)
    BY <1>2, <1>5, <2>1 DEF Leads
  <2>3. Len(u) <= Len(u) /\ \A k \in 1..Len(u) : u[k] = u[k]
    BY <1>2
  <2>4. QED
    BY <1>2, <2>2, <2>3 DEF Leads
<1>7. QED
  BY <1>1, <1>6

LEMMA EndsBelow ==
  ASSUME NEW n \in Nat
  PROVE  /\ Ends(n) \subseteq Nat /\ IsFiniteSet(Ends(n)) /\ \A x \in Ends(n) : x < n + 1
         /\ Started(n) \subseteq Nat /\ IsFiniteSet(Started(n)) /\ \A x \in Started(n) : x < n + 1
<1>1. Ends(n) \subseteq 1..n /\ Started(n) \subseteq 1..n
  BY DEF Ends, Started
<1>2. IsFiniteSet(1..n)
  BY FS_Interval
<1>3. IsFiniteSet(Ends(n)) /\ IsFiniteSet(Started(n))
  BY <1>1, <1>2, FS_Subset
<1>4. QED
  BY <1>1, <1>3

\* Ping, pong, and what the connection does not survive, leave the message alone.
LEMMA AssembledAside ==
  ASSUME ScriptFits, NEW i \in 1..Len(script), Passes(i), ~Data(i),
         NEW f, NEW b, NEW d, Assembled(i - 1, f, b, d)
  PROVE  /\ Assembled(i, f, b, d)
         /\ SoundTo(i) <=> SoundTo(i - 1) /\ script[i].op \in {"ping", "pong"}
<1>1. i \in Nat /\ i # 0
  OBVIOUS
<1>2. Refused(i) <=> script[i].op \notin {"ping", "pong"}
  <2>1. script[i].length \in Nat
    BY FrameIs DEF FrameKind
  <2>2. QED
    BY <2>1, FrameAssumption DEF Refused, Passes
<1>3. SoundTo(i) <=> SoundTo(i - 1) /\ ~Refused(i)
  BY <1>1, SoundNext
<1>4. ~EndsMessage(i)
  BY DEF EndsMessage
<1>5. Ends(i) = Ends(i - 1)
  BY <1>1, <1>4, EndsNext
<1>6. Started(i) = Started(i - 1) /\ StartedSize(i) = StartedSize(i - 1)
  BY <1>1, StartedNext, StartedSizeNext
<1>7. QED
  BY <1>2, <1>3, <1>5, <1>6 DEF Assembled

\* A frame of the message under way is appended to it.
LEMMA AssembledMore ==
  ASSUME ScriptFits, NEW i \in 1..Len(script), Data(i), Passes(i),
         NEW f \in Seq(Nat), NEW b \in Nat, NEW d \in Seq(Seq(Nat)), Assembled(i - 1, f, b, d),
         NEW more, NEW size, more = Append(f, i), size = b + script[i].length
  PROVE  /\ size > MaxMessage => ~SoundTo(i) /\ Assembled(i, more, size, d)
         /\ size <= MaxMessage => (SoundTo(i) <=> SoundTo(i - 1))
         /\ size <= MaxMessage /\ ~script[i].fin => Assembled(i, more, size, d)
         /\ size <= MaxMessage /\ script[i].fin => Assembled(i, <<>>, 0, Append(d, more))
<1>1. i \in Nat /\ i # 0 /\ i - 1 \in Nat /\ (i - 1) + 1 = i
  OBVIOUS
<1>2. script[i].length \in Nat /\ script[i].fin \in BOOLEAN
  BY FrameIs DEF FrameKind
<1>3. more \in Seq(Nat)
  BY <1>1
<1>4. EndsMessage(i) <=> script[i].fin
  BY DEF EndsMessage
<1>5. SoundTo(i) <=> SoundTo(i - 1) /\ ~Refused(i)
  BY <1>1, SoundNext
<1>6. ASSUME SoundTo(i - 1)
      PROVE  /\ SizeTo(i) = size /\ (Refused(i) <=> size > MaxMessage)
             /\ InOrderOf(MessageOf(i)) = more
             /\ d = Messages(Ends(i - 1))
  <2>1. b = StartedSize(i - 1) /\ f = InOrderOf(Started(i - 1)) /\ d = Messages(Ends(i - 1))
    BY <1>6 DEF Assembled
  <2>2. SizeTo(i) = size
    BY <2>1, StartedSizeNext
  <2>3. Refused(i) <=> size > MaxMessage
    <3>1. ~(script[i].length > MaxMessage)
      BY <1>2, FrameAssumption DEF Passes
    <3>2. QED
      BY <2>2, <3>1 DEF Refused, Passes
  <2>4. MessageOf(i) = Started(i - 1) \cup {i}
    BY <1>1, StartedNext
  <2>5. Started(i - 1) \subseteq Nat /\ IsFiniteSet(Started(i - 1)) /\ \A x \in Started(i - 1) : x < i
    BY <1>1, EndsBelow
  <2>6. InOrderOf(MessageOf(i)) = more
    <3>1. PICK S : S = Started(i - 1)
      OBVIOUS
    <3>2. S \subseteq Nat /\ IsFiniteSet(S) /\ (\A x \in S : x < i) /\ InOrderOf(S) \in Seq(Nat)
      BY <2>1, <2>5, <3>1
    <3>3. InOrderOf(S \cup {i}) = Append(InOrderOf(S), i)
      BY <1>1, <3>2, AppendedInOrder
    <3>4. QED
      BY <2>1, <2>4, <3>1, <3>3
  <2>7. QED
    BY <2>1, <2>2, <2>3, <2>6
<1>7. Leads(Messages(Ends(i - 1)), d)
  BY DEF Assembled
<1>8. size \in Nat /\ MaxMessage \in Nat
  BY <1>2, FrameAssumption
<1>9. ASSUME size > MaxMessage PROVE ~SoundTo(i) /\ Assembled(i, more, size, d)
  <2>1. ~SoundTo(i)
    BY <1>5, <1>6, <1>9
  <2>2. Ends(i) = Ends(i - 1)
    BY <1>1, <2>1, EndsNext
  <2>3. QED
    BY <1>7, <2>1, <2>2 DEF Assembled
<1>10. ASSUME size <= MaxMessage PROVE SoundTo(i) <=> SoundTo(i - 1)
  BY <1>5, <1>6, <1>8, <1>10
<1>11. ASSUME size <= MaxMessage, ~script[i].fin PROVE Assembled(i, more, size, d)
  <2>1. Ends(i) = Ends(i - 1)
    BY <1>1, <1>4, <1>11, EndsNext
  <2>2. Started(i) = MessageOf(i) /\ StartedSize(i) = SizeTo(i)
    BY <1>1, <1>4, <1>11, StartedNext, StartedSizeNext
  <2>3. QED
    BY <1>6, <1>7, <1>10, <1>11, <2>1, <2>2 DEF Assembled
<1>12. ASSUME size <= MaxMessage, script[i].fin PROVE Assembled(i, <<>>, 0, Append(d, more))
  <2>1. Leads(Messages(Ends(i - 1)), Append(d, more)) /\ Leads(Append(d, more), Append(d, more))
    BY <1>3, <1>7, LeadsOn
  <2>2. CASE ~SoundTo(i)
    <3>1. Ends(i) = Ends(i - 1)
      BY <1>1, <2>2, EndsNext
    <3>2. QED
      BY <2>1, <2>2, <3>1 DEF Assembled
  <2>3. CASE SoundTo(i)
    <3>1. SoundTo(i - 1)
      BY <1>10, <1>12, <2>3
    <3>2. Started(i) = {} /\ StartedSize(i) = 0 /\ Ends(i) = Ends(i - 1) \cup {i}
      BY <1>1, <1>4, <1>12, <2>3, StartedNext, StartedSizeNext, EndsNext
    <3>3. Messages(Ends(i)) = Append(d, more)
      <4>1. Ends(i - 1) \subseteq Nat /\ IsFiniteSet(Ends(i - 1)) /\ \A x \in Ends(i - 1) : x < i
        BY <1>1, EndsBelow
      <4>2. Messages(Ends(i - 1)) \in Seq(Seq(Nat))
        BY <1>6, <3>1
      <4>3. QED
        <5>1. PICK E : E = Ends(i - 1)
          OBVIOUS
        <5>2. E \subseteq Nat /\ IsFiniteSet(E) /\ (\A x \in E : x < i) /\ Messages(E) \in Seq(Seq(Nat))
          BY <4>1, <4>2, <5>1
        <5>3. Messages(E \cup {i}) = Append(Messages(E), InOrderOf(MessageOf(i)))
          BY <1>1, <5>2, MessagesNext
        <5>4. QED
          BY <1>6, <3>1, <3>2, <5>1, <5>3
    <3>4. QED
      BY <2>1, <3>2, <3>3, NothingInOrder DEF Assembled
  <2>4. QED
    BY <2>2, <2>3
<1>13. QED
  BY <1>9, <1>10, <1>11, <1>12

-----------------------------------------------------------------------------
(***************************************************************************)
(* What the connection writes                                              *)
(***************************************************************************)
Out == [op : {"close", "pong"}] \cup [op : {"text"}, to : Seq(Nat), ok : BOOLEAN]
Peers == [next : Nat, buffered : Nat, fragments : Seq(Nat), fragmentBytes : Nat,
          dispatched : Seq(Seq(Nat)), asked : SUBSET Seq(Nat), written : Seq(Out),
          closed : BOOLEAN]
Is(w, k, op) == k \in DOMAIN w /\ w[k].op = op

\* A message of frames before the nth.
Behind(m, n) == m # <<>> /\ m[Len(m)] < n

\* Whoever was answered is not asked any more, and was answered once.
Spent(p) ==
  /\ \A k \in DOMAIN p.dispatched : Behind(p.dispatched[k], p.next)
  /\ \A m \in p.asked : Behind(m, p.next)
  /\ \A k : Is(p.written, k, "text") =>
       Behind(p.written[k].to, p.next) /\ p.written[k].to \notin p.asked
  /\ \A j, k : Is(p.written, j, "text") /\ Is(p.written, k, "text")
               /\ p.written[j].to = p.written[k].to => j = k

\* One close frame, behind all answers, if the server closes; none if the socket is lost.
Closing(p, why) ==
  /\ \A j, k : Is(p.written, j, "close") /\ Is(p.written, k, "close") => j = k
  /\ \A j, k : Is(p.written, j, "close") /\ Is(p.written, k, "text") => k < j
  /\ (\E k : Is(p.written, k, "close")) <=> p.closed /\ why # "socket"

Sane(p, why) == p \in Peers /\ Spent(p) /\ Closing(p, why)

Alike(p, q) ==
  /\ q.next = p.next /\ q.buffered = p.buffered /\ q.fragments = p.fragments
  /\ q.fragmentBytes = p.fragmentBytes /\ q.dispatched = p.dispatched /\ q.asked = p.asked

\* q has written one frame more, and it comes last.
OneMore(p, q, what, n) ==
  /\ q \in Peers /\ Alike(p, q) /\ q.closed = p.closed
  /\ \A k, op : Is(q.written, k, op) <=> Is(p.written, k, op) \/ (k = n /\ what.op = op)
  /\ \A k : k \in DOMAIN p.written => q.written[k] = p.written[k] /\ k < n
  /\ q.written[n] = what

LEMMA WrittenMore ==
  ASSUME NEW p \in Peers, NEW what \in Out
  PROVE  OneMore(p, Write(p, what), what, Len(p.written) + 1)
<1>1. PICK q : q = Write(p, what)
  OBVIOUS
<1>2. PICK w : w = Append(p.written, what)
  OBVIOUS
<1>3. p.written \in Seq(Out)
  BY DEF Peers
<1>4. PICK n \in Nat : n = Len(p.written)
  BY <1>3
<1>5. /\ w \in Seq(Out) /\ Len(w) = n + 1
      /\ \A k \in 1..n : w[k] = p.written[k]
      /\ w[n + 1] = what
  BY <1>2, <1>3, <1>4, AppendProperties
<1>6. q = [p EXCEPT !.written = w]
  BY <1>1, <1>2 DEF Write
<1>7. q \in Peers /\ Alike(p, q) /\ q.closed = p.closed /\ q.written = w
  BY <1>5, <1>6 DEF Peers, Alike
<1>8. DOMAIN p.written = 1..n /\ DOMAIN w = 1..(n + 1)
  BY <1>3, <1>4, <1>5
<1>9. \A k : k \in 1..(n + 1) <=> k \in 1..n \/ k = n + 1
  BY <1>4
<1>10. \A k \in 1..n : k < n + 1
  BY <1>4
<1>11. \A k, op : Is(w, k, op) <=> Is(p.written, k, op) \/ (k = n + 1 /\ what.op = op)
  <2>1. TAKE k, op
  <2>2. CASE k \in 1..n
    <3>1. k # n + 1 /\ w[k] = p.written[k]
      BY <1>4, <1>5, <2>2
    <3>2. k \in DOMAIN w /\ k \in DOMAIN p.written
      BY <1>8, <1>9, <2>2
    <3>3. w[k].op = op <=> p.written[k].op = op
      BY <3>1
    <3>4. Is(w, k, op) <=> Is(p.written, k, op)
      BY <3>2, <3>3 DEF Is
    <3>5. QED
      BY <3>1, <3>4
  <2>3. CASE k = n + 1
    <3>1. k \notin 1..n
      BY <1>4, <2>3
    <3>2. QED
      BY <1>5, <1>8, <1>9, <2>3, <3>1 DEF Is
  <2>4. CASE k \notin 1..n /\ k # n + 1
    BY <1>8, <1>9, <2>4 DEF Is
  <2>5. QED
    BY <2>2, <2>3, <2>4
<1>12. QED
  BY <1>1, <1>4, <1>5, <1>7, <1>8, <1>10, <1>11 DEF OneMore

\* A pong.
LEMMA PongSane ==
  ASSUME NEW p, NEW why, Sane(p, why)
  PROVE  /\ Sane(Write(p, [op |-> "pong"]), why)
         /\ Alike(p, Write(p, [op |-> "pong"])) /\ Write(p, [op |-> "pong"]).closed = p.closed
<1>1. PICK q : q = Write(p, [op |-> "pong"])
  OBVIOUS
<1>2. p \in Peers /\ [op |-> "pong"] \in Out /\ [op |-> "pong"].op = "pong"
  BY DEF Sane, Out
<1>3. /\ q \in Peers /\ Alike(p, q) /\ q.closed = p.closed
      /\ \A k, op : op \in {"text", "close"} => (Is(q.written, k, op) <=> Is(p.written, k, op))
      /\ \A k : k \in DOMAIN p.written => q.written[k] = p.written[k]
  <2>1. PICK what : what = [op |-> "pong"]
    OBVIOUS
  <2>2. what \in Out /\ what.op # "text" /\ what.op # "close"
    BY <1>2, <2>1
  <2>3. OneMore(p, q, what, Len(p.written) + 1)
    BY <1>1, <1>2, <2>1, <2>2, WrittenMore
  <2>4. QED
    BY <2>2, <2>3 DEF OneMore
<1>4. \A k : Is(p.written, k, "text") => k \in DOMAIN p.written
  BY DEF Is
<1>5. Spent(q)
  <2>1. Spent(p)
    BY DEF Sane
  <2>2. q.next = p.next /\ q.dispatched = p.dispatched /\ q.asked = p.asked
    BY <1>3 DEF Alike
  <2>3. \A k : Is(q.written, k, "text") => Is(p.written, k, "text") /\ q.written[k] = p.written[k]
    BY <1>3, <1>4
  <2>4. QED
    BY <2>1, <2>2, <2>3 DEF Spent
<1>6. Closing(q, why)
  <2>1. Closing(p, why)
    BY DEF Sane
  <2>2. QED
    BY <1>3, <2>1 DEF Closing
<1>7. QED
  BY <1>1, <1>3, <1>5, <1>6 DEF Sane

\* A close frame, written once, and no answer behind it.
LEMMA FailSane ==
  ASSUME NEW p, NEW why, Sane(p, why), why # "socket"
  PROVE  Sane(Fail(p), why) /\ Alike(p, Fail(p)) /\ Fail(p).closed = TRUE
<1>1. p \in Peers /\ [op |-> "close"] \in Out /\ [op |-> "close"].op = "close"
  BY DEF Sane, Out
<1>2. PICK r : r = SendReply(p, [op |-> "close"])
  OBVIOUS
<1>3. PICK q : q = Fail(p)
  OBVIOUS
<1>4. q = [r EXCEPT !.closed = TRUE]
  BY <1>2, <1>3 DEF Fail, EndPeer
<1>5. CASE p.closed
  <2>1. r = p
    BY <1>2, <1>5 DEF SendReply
  <2>2. q \in Peers /\ Alike(p, q) /\ q.closed = TRUE /\ q.written = p.written
    BY <1>1, <1>4, <2>1 DEF Peers, Alike
  <2>3. Spent(q)
    BY <2>2 DEF Sane, Spent, Alike
  <2>4. Closing(q, why)
    BY <1>5, <2>2 DEF Sane, Closing
  <2>5. QED
    BY <1>3, <2>2, <2>3, <2>4 DEF Sane
<1>6. CASE ~p.closed
  <2>1. r = Write(p, [op |-> "close"])
    BY <1>2, <1>6 DEF SendReply
  <2>2. PICK n : n = Len(p.written) + 1
    OBVIOUS
  <2>3. /\ r \in Peers /\ Alike(p, r)
        /\ \A k, op : Is(r.written, k, op) <=> Is(p.written, k, op) \/ (k = n /\ op = "close")
        /\ \A k : k \in DOMAIN p.written => r.written[k] = p.written[k] /\ k < n
    <3>1. PICK what : what = [op |-> "close"]
      OBVIOUS
    <3>2. what \in Out /\ what.op = "close"
      BY <1>1, <3>1
    <3>3. OneMore(p, r, what, n)
      BY <1>1, <2>1, <2>2, <3>1, <3>2, WrittenMore
    <3>4. QED
      BY <3>2, <3>3 DEF OneMore
  <2>4. /\ q \in Peers /\ Alike(p, q) /\ q.closed = TRUE /\ q.written = r.written
    BY <1>4, <2>3 DEF Peers, Alike
  <2>5. \A k : Is(q.written, k, "text") =>
               Is(p.written, k, "text") /\ q.written[k] = p.written[k] /\ k < n
    <3>1. "text" # "close"
      OBVIOUS
    <3>2. QED
      BY <2>3, <2>4, <3>1 DEF Is
  <2>6. Spent(q)
    <3>1. q.next = p.next /\ q.dispatched = p.dispatched /\ q.asked = p.asked
      BY <2>4 DEF Alike
    <3>2. QED
      BY <2>5, <3>1 DEF Spent, Sane
  <2>7. Closing(q, why)
    <3>1. \A k : ~Is(p.written, k, "close")
      BY <1>6 DEF Sane, Closing
    <3>2. \A k : Is(q.written, k, "close") <=> k = n
      BY <2>3, <2>4, <3>1
    <3>3. QED
      BY <2>4, <2>5, <3>2 DEF Closing
  <2>8. QED
    BY <1>3, <2>4, <2>6, <2>7 DEF Sane
<1>7. p.closed \in BOOLEAN
  BY <1>1 DEF Peers
<1>8. QED
  BY <1>5, <1>6

\* An answer to a message that waits for none and has none.
LEMMA ReplySane ==
  ASSUME NEW p, NEW why, Sane(p, why), NEW m \in Seq(Nat), NEW ok \in BOOLEAN,
         Behind(m, p.next), m \notin p.asked,
         \A k : Is(p.written, k, "text") => p.written[k].to # m
  PROVE  /\ Sane(SendReply(p, Answer(m, ok)), why)
         /\ Alike(p, SendReply(p, Answer(m, ok))) /\ SendReply(p, Answer(m, ok)).closed = p.closed
<1>1. p \in Peers /\ p.closed \in BOOLEAN
  BY DEF Sane, Peers
<1>2. PICK a : a = Answer(m, ok)
  OBVIOUS
<1>3. a \in Out /\ a.op = "text" /\ a.to = m
  BY <1>2 DEF Answer, Out
<1>4. PICK q : q = SendReply(p, a)
  OBVIOUS
<1>5. CASE p.closed
  <2>1. q = p
    BY <1>4, <1>5 DEF SendReply
  <2>2. QED
    BY <1>2, <1>4, <2>1 DEF Alike
<1>6. CASE ~p.closed
  <2>1. q = Write(p, a)
    BY <1>4, <1>6 DEF SendReply
  <2>2. PICK n : n = Len(p.written) + 1
    OBVIOUS
  <2>3. /\ q \in Peers /\ Alike(p, q) /\ q.closed = p.closed
        /\ \A k, op : Is(q.written, k, op) <=> Is(p.written, k, op) \/ (k = n /\ op = "text")
        /\ \A k : k \in DOMAIN p.written => q.written[k] = p.written[k] /\ k < n
        /\ q.written[n] = a
    <3>1. OneMore(p, q, a, n)
      BY <1>1, <1>3, <2>1, <2>2, WrittenMore
    <3>2. QED
      BY <1>3, <3>1 DEF OneMore
  <2>4. \A k : Is(q.written, k, "text") <=> Is(p.written, k, "text") \/ k = n
    BY <2>3
  <2>5. \A k : Is(p.written, k, "text") => q.written[k] = p.written[k]
    BY <2>3 DEF Is
  <2>6. \A k : ~Is(q.written, k, "close")
    <3>1. \A k : ~Is(p.written, k, "close")
      BY <1>6 DEF Sane, Closing
    <3>2. "text" # "close"
      OBVIOUS
    <3>3. QED
      BY <2>3, <3>1, <3>2
  <2>7. Closing(q, why)
    BY <1>6, <2>3, <2>6 DEF Closing
  <2>8. Spent(q)
    <3>1. q.next = p.next /\ q.dispatched = p.dispatched /\ q.asked = p.asked
      BY <2>3 DEF Alike
    <3>2. Spent(p)
      BY DEF Sane
    <3>3. \A k : Is(q.written, k, "text") =>
                 Behind(q.written[k].to, q.next) /\ q.written[k].to \notin q.asked
      BY <1>3, <2>3, <2>4, <2>5, <3>1, <3>2 DEF Spent
    <3>4. \A j, k : Is(q.written, j, "text") /\ Is(q.written, k, "text")
                    /\ q.written[j].to = q.written[k].to => j = k
      <4>1. TAKE j, k
      <4>2. HAVE Is(q.written, j, "text") /\ Is(q.written, k, "text")
                 /\ q.written[j].to = q.written[k].to
      <4>3. CASE Is(p.written, j, "text") /\ Is(p.written, k, "text")
        BY <2>5, <3>2, <4>2, <4>3 DEF Spent
      <4>4. CASE j = n /\ Is(p.written, k, "text")
        BY <1>3, <2>3, <2>5, <4>2, <4>4
      <4>5. CASE k = n /\ Is(p.written, j, "text")
        BY <1>3, <2>3, <2>5, <4>2, <4>5
      <4>6. QED
        BY <2>4, <4>2, <4>3, <4>4, <4>5
    <3>5. QED
      BY <3>1, <3>2, <3>3, <3>4 DEF Spent
  <2>9. QED
    BY <1>2, <1>4, <2>3, <2>7, <2>8 DEF Sane
<1>7. QED
  BY <1>1, <1>5, <1>6

-----------------------------------------------------------------------------
\* A message of frames up to the one just taken was never seen.
Fresh(p, m) ==
  /\ m \in Seq(Nat) /\ Behind(m, p.next)
  /\ \A k \in DOMAIN p.dispatched : p.dispatched[k] # m
  /\ m \notin p.asked
  /\ \A k : Is(p.written, k, "text") => p.written[k].to # m

\* It is dispatched: to be asked of the host, to be answered, or to be dropped.
LEMMA DispatchSane ==
  ASSUME NEW p, NEW why, Sane(p, why), NEW m, Fresh(p, m)
  PROVE  LET q == DispatchMessage(p, m)
         IN  /\ Sane(q, why) /\ q.closed = p.closed /\ q.next = p.next
             /\ q.buffered = p.buffered /\ q.fragments = p.fragments
             /\ q.fragmentBytes = p.fragmentBytes /\ q.dispatched = Append(p.dispatched, m)
<1>1. p \in Peers /\ m \in Seq(Nat)
  BY DEF Sane, Fresh
<1>2. PICK d : d = Append(p.dispatched, m)
  OBVIOUS
<1>3. /\ d \in Seq(Seq(Nat))
      /\ \A k \in DOMAIN d : d[k] = m \/ \E l \in DOMAIN p.dispatched : d[k] = p.dispatched[l]
  <2>1. p.dispatched \in Seq(Seq(Nat))
    BY <1>1 DEF Peers
  <2>2. PICK n \in Nat : n = Len(p.dispatched)
    BY <2>1
  <2>3. /\ d \in Seq(Seq(Nat)) /\ Len(d) = n + 1 /\ d[n + 1] = m
        /\ \A k \in 1..n : d[k] = p.dispatched[k]
    BY <1>1, <1>2, <2>1, <2>2, AppendProperties
  <2>4. DOMAIN d = 1..(n + 1) /\ DOMAIN p.dispatched = 1..n
    BY <2>1, <2>2, <2>3
  <2>5. \A k \in 1..(n + 1) : k \in 1..n \/ k = n + 1
    BY <2>2
  <2>6. QED
    BY <2>3, <2>4, <2>5
<1>4. PICK r : r = [p EXCEPT !.dispatched = d]
  OBVIOUS
<1>5. /\ r \in Peers /\ r.closed = p.closed /\ r.next = p.next /\ r.buffered = p.buffered
      /\ r.fragments = p.fragments /\ r.fragmentBytes = p.fragmentBytes
      /\ r.dispatched = d /\ r.asked = p.asked /\ r.written = p.written
  BY <1>1, <1>3, <1>4 DEF Peers
<1>6. Sane(r, why)
  <2>1. \A k \in DOMAIN r.dispatched : Behind(r.dispatched[k], r.next)
    BY <1>3, <1>5 DEF Sane, Spent, Fresh
  <2>2. Spent(r)
    BY <1>5, <2>1 DEF Sane, Spent
  <2>3. Closing(r, why)
    BY <1>5 DEF Sane, Closing
  <2>4. QED
    BY <1>5, <2>2, <2>3 DEF Sane
<1>7. PICK s : s = [r EXCEPT !.asked = r.asked \cup {m}]
  OBVIOUS
<1>8. /\ s \in Peers /\ s.closed = p.closed /\ s.next = p.next /\ s.buffered = p.buffered
      /\ s.fragments = p.fragments /\ s.fragmentBytes = p.fragmentBytes
      /\ s.dispatched = d /\ s.asked = p.asked \cup {m} /\ s.written = p.written
  BY <1>1, <1>5, <1>7 DEF Peers
<1>9. Sane(s, why)
  <2>1. \A k \in DOMAIN s.dispatched : Behind(s.dispatched[k], s.next)
    BY <1>3, <1>8 DEF Sane, Spent, Fresh
  <2>2. \A x \in s.asked : Behind(x, s.next)
    BY <1>8 DEF Sane, Spent, Fresh
  <2>3. \A k : Is(s.written, k, "text") =>
               Behind(s.written[k].to, s.next) /\ s.written[k].to \notin s.asked
    BY <1>8 DEF Sane, Spent, Fresh
  <2>4. Spent(s)
    BY <1>8, <2>1, <2>2, <2>3 DEF Sane, Spent
  <2>5. Closing(s, why)
    BY <1>8 DEF Sane, Closing
  <2>6. QED
    BY <1>8, <2>4, <2>5 DEF Sane
<1>10. PICK t : t = SendReply(r, Answer(m, FALSE))
  OBVIOUS
<1>11. Sane(t, why) /\ Alike(r, t) /\ t.closed = r.closed
  <2>1. /\ Behind(m, r.next) /\ m \notin r.asked
        /\ \A k : Is(r.written, k, "text") => r.written[k].to # m
    BY <1>5 DEF Fresh
  <2>2. QED
    BY <1>1, <1>6, <1>10, <2>1, ReplySane
<1>12. DispatchMessage(p, m) \in {r, s, t}
  <2>1. [p EXCEPT !.dispatched = Append(@, m)] = r
    BY <1>2, <1>4
  <2>2. [r EXCEPT !.asked = @ \cup {m}] = s
    BY <1>7
  <2>3. QED
    BY <1>10, <2>1, <2>2 DEF DispatchMessage
<1>13. QED
  BY <1>2, <1>5, <1>6, <1>8, <1>9, <1>11, <1>12 DEF Alike

-----------------------------------------------------------------------------
(***************************************************************************)
(* A turn of onData's loop                                                 *)
(***************************************************************************)
\* The connection p behind a bytes.
Taken(p, a, why) ==
  /\ Sane(p, why)
  /\ p.next \in 1..(Len(script) + 1) /\ a = Bytes(p.next - 1) + p.buffered
  /\ Assembled(p.next - 1, p.fragments, p.fragmentBytes, p.dispatched)
  /\ ~SoundTo(p.next - 1) => p.closed
  /\ p.closed /\ why = "no" => ~SoundTo(p.next - 1) \/ Decode(p) = "error"

\* The loop has nothing left to do.
Settled(p) == Decode(p) # "ok" /\ (Decode(p) = "error" => p.closed)

\* What decodeFrame says of the head of the buffer.
LEMMA DecodeSays ==
  ASSUME ScriptFits, NEW p \in Peers, p.next \in 1..(Len(script) + 1)
  PROVE  /\ Decode(p) \in {"ok", "error", "incomplete"}
         /\ Decode(p) = "ok" <=> /\ p.next \in 1..Len(script) /\ Passes(p.next)
                                 /\ p.buffered >= Consumed(script[p.next])
         /\ Decode(p) = "error" <=> /\ p.next \in 1..Len(script)
                                    /\ \/ ~script[p.next].masked /\ p.buffered >= 2
                                       \/ /\ script[p.next].masked
                                          /\ script[p.next].length > MaxMessage
                                          /\ p.buffered >= HeaderSize(script[p.next])
<1>1. PICK i : i = p.next
  OBVIOUS
<1>2. p.buffered \in Nat /\ Len(script) \in Nat /\ MaxMessage \in Nat
  BY ScriptLen, FrameAssumption DEF Peers
<1>3. CASE i > Len(script)
  <2>1. Decode(p) = "incomplete" /\ i \notin 1..Len(script)
    BY <1>1, <1>2, <1>3 DEF Decode
  <2>2. QED
    BY <1>1, <2>1
<1>4. CASE i \in 1..Len(script)
  <2>1. PICK f : f = script[i]
    OBVIOUS
  <2>2. PICK h \in Nat : h = HeaderSize(f) /\ h >= 2
    BY <1>4, <2>1, FrameIs
  <2>3. PICK c \in Nat : c = Consumed(f) /\ c >= h
    <3>1. f.length \in Nat
      BY <1>4, <2>1, FrameIs DEF FrameKind
    <3>2. Consumed(f) = h + 4 + f.length
      BY <1>4, <2>1, <2>2, FrameIs
    <3>3. QED
      BY <2>2, <3>1, <3>2
  <2>4. f.length \in Nat /\ f.masked \in BOOLEAN
    BY <1>4, <2>1, FrameIs DEF FrameKind
  <2>5. Decode(p) = IF p.buffered < 2 THEN "incomplete"
                    ELSE IF ~f.masked THEN "error"
                    ELSE IF p.buffered < h THEN "incomplete"
                    ELSE IF f.length > MaxMessage THEN "error"
                    ELSE IF p.buffered < c THEN "incomplete"
                    ELSE "ok"
    <3>1. ~(i > Len(script))
      BY <1>2, <1>4
    <3>2. QED
      BY <1>1, <2>1, <2>2, <2>3, <3>1 DEF Decode
  <2>6. Passes(i) <=> f.masked /\ f.length <= MaxMessage
    BY <2>1 DEF Passes
  <2>7. /\ Decode(p) \in {"ok", "error", "incomplete"}
        /\ Decode(p) = "ok" <=> Passes(i) /\ p.buffered >= c
        /\ Decode(p) = "error" <=> \/ ~f.masked /\ p.buffered >= 2
                                   \/ f.masked /\ f.length > MaxMessage /\ p.buffered >= h
    BY <1>2, <2>2, <2>3, <2>4, <2>5, <2>6
  <2>8. QED
    BY <1>1, <1>4, <2>1, <2>2, <2>3, <2>7
<1>5. i \in 1..Len(script) \/ i > Len(script)
  BY <1>1, <1>2
<1>6. QED
  BY <1>3, <1>4, <1>5

\* Whatever was seen lies behind the frame at the head of the buffer.
LEMMA NextSane ==
  ASSUME NEW p, NEW why, Sane(p, why), NEW left \in Nat
  PROVE  LET q == [p EXCEPT !.next = p.next + 1, !.buffered = left]
         IN  /\ Sane(q, why) /\ q.next = p.next + 1 /\ q.buffered = left /\ q.closed = p.closed
             /\ q.fragments = p.fragments /\ q.fragmentBytes = p.fragmentBytes
             /\ q.dispatched = p.dispatched
             /\ \A f \in Seq(Nat) : Fresh(q, Append(f, p.next))
<1>1. p \in Peers /\ p.next \in Nat /\ p.dispatched \in Seq(Seq(Nat)) /\ p.asked \subseteq Seq(Nat)
  BY DEF Sane, Peers
<1>2. PICK q : q = [p EXCEPT !.next = p.next + 1, !.buffered = left]
  OBVIOUS
<1>3. /\ q \in Peers /\ q.next = p.next + 1 /\ q.buffered = left /\ q.closed = p.closed
      /\ q.fragments = p.fragments /\ q.fragmentBytes = p.fragmentBytes
      /\ q.dispatched = p.dispatched /\ q.asked = p.asked /\ q.written = p.written
  <2>1. PICK n \in Nat : n = p.next + 1
    BY <1>1
  <2>2. q = [p EXCEPT !.next = n, !.buffered = left]
    BY <1>2, <2>1
  <2>3. /\ q \in Peers /\ q.next = n /\ q.buffered = left /\ q.closed = p.closed
        /\ q.fragments = p.fragments /\ q.fragmentBytes = p.fragmentBytes
        /\ q.dispatched = p.dispatched /\ q.asked = p.asked /\ q.written = p.written
    BY <1>1, <2>2 DEF Peers
  <2>4. QED
    BY <2>1, <2>3
<1>4. ASSUME NEW m \in Seq(Nat), Behind(m, p.next) PROVE Behind(m, p.next + 1)
  <2>1. m # <<>> /\ m[Len(m)] < p.next
    BY <1>4 DEF Behind
  <2>2. Len(m) \in DOMAIN m /\ m[Len(m)] \in Nat
    BY <2>1
  <2>3. QED
    BY <1>1, <2>1, <2>2 DEF Behind
<1>5. \A k \in DOMAIN p.dispatched : p.dispatched[k] \in Seq(Nat)
  BY <1>1
<1>6. \A k : Is(p.written, k, "text") => p.written[k].to \in Seq(Nat)
  <2>1. p.written \in Seq(Out)
    BY <1>1 DEF Peers
  <2>2. \A k : Is(p.written, k, "text") => p.written[k] \in Out /\ p.written[k].op = "text"
    BY <2>1 DEF Is
  <2>3. \A x \in Out : x.op = "text" => x.to \in Seq(Nat)
    BY DEF Out
  <2>4. QED
    BY <2>2, <2>3
<1>7. Spent(q)
  <2>1. Spent(p)
    BY DEF Sane
  <2>2. \A k \in DOMAIN q.dispatched : Behind(q.dispatched[k], q.next)
    BY <1>3, <1>4, <1>5, <2>1 DEF Spent
  <2>3. \A m \in q.asked : Behind(m, q.next)
    BY <1>1, <1>3, <1>4, <2>1 DEF Spent
  <2>4. \A k : Is(q.written, k, "text") =>
               Behind(q.written[k].to, q.next) /\ q.written[k].to \notin q.asked
    BY <1>3, <1>4, <1>6, <2>1 DEF Spent
  <2>5. QED
    BY <1>3, <2>1, <2>2, <2>3, <2>4 DEF Spent
<1>8. Closing(q, why)
  BY <1>3 DEF Sane, Closing
<1>9. ASSUME NEW f \in Seq(Nat) PROVE Fresh(q, Append(f, p.next))
  <2>1. PICK m : m = Append(f, p.next)
    OBVIOUS
  <2>2. m \in Seq(Nat) /\ Len(m) = Len(f) + 1 /\ m[Len(m)] = p.next
    BY <1>1, <2>1
  <2>3. m # <<>> /\ Behind(m, q.next)
    <3>1. Len(m) # 0
      BY <2>2
    <3>2. m # <<>>
      BY <3>1
    <3>3. QED
      BY <1>1, <1>3, <2>2, <3>2 DEF Behind
  <2>4. \A x : Behind(x, p.next) => x # m
    <3>1. ~(m[Len(m)] < p.next)
      BY <1>1, <2>2
    <3>2. QED
      BY <3>1 DEF Behind
  <2>5. QED
    BY <1>3, <2>1, <2>2, <2>3, <2>4 DEF Fresh, Sane, Spent
<1>10. QED
  BY <1>2, <1>3, <1>7, <1>8, <1>9 DEF Sane

\* A frame of a message is taken.
LEMMA ReassembleKeeps ==
  ASSUME ScriptFits, NEW i \in 1..Len(script), Data(i), Passes(i), NEW p, Sane(p, "no"),
         p.next = i + 1, \A f \in Seq(Nat) : Fresh(p, Append(f, i)),
         Assembled(i - 1, p.fragments, p.fragmentBytes, p.dispatched),
         p.closed <=> ~SoundTo(i - 1)
  PROVE  LET q == Reassemble(p, script[i], i)
         IN  /\ Sane(q, "no") /\ q.next = i + 1 /\ q.buffered = p.buffered
             /\ Assembled(i, q.fragments, q.fragmentBytes, q.dispatched)
             /\ q.closed <=> ~SoundTo(i)
<1>1. /\ p \in Peers /\ p.fragments \in Seq(Nat) /\ p.fragmentBytes \in Nat
      /\ p.dispatched \in Seq(Seq(Nat)) /\ p.closed \in BOOLEAN
  BY DEF Sane, Peers
<1>2. script[i].length \in Nat /\ script[i].fin \in BOOLEAN /\ MaxMessage \in Nat
  BY FrameIs, FrameAssumption DEF FrameKind
<1>3. PICK more : more = Append(p.fragments, i)
  OBVIOUS
<1>4. PICK size : size = p.fragmentBytes + script[i].length
  OBVIOUS
<1>5. more \in Seq(Nat) /\ size \in Nat /\ Fresh(p, more)
  <2>1. i \in Nat
    OBVIOUS
  <2>2. more \in Seq(Nat)
    BY <1>1, <1>3, <2>1
  <2>3. size \in Nat
    BY <1>1, <1>2, <1>4
  <2>4. Fresh(p, more)
    BY <1>1, <1>3
  <2>5. QED
    BY <2>2, <2>3, <2>4
<1>6. /\ size > MaxMessage => ~SoundTo(i) /\ Assembled(i, more, size, p.dispatched)
      /\ size <= MaxMessage => (SoundTo(i) <=> SoundTo(i - 1))
      /\ size <= MaxMessage /\ ~script[i].fin => Assembled(i, more, size, p.dispatched)
      /\ size <= MaxMessage /\ script[i].fin
           => Assembled(i, <<>>, 0, Append(p.dispatched, more))
  BY <1>1, <1>3, <1>4, AssembledMore
<1>7. PICK r : r = [p EXCEPT !.fragments = more, !.fragmentBytes = size]
  OBVIOUS
<1>8. /\ r \in Peers /\ r.next = p.next /\ r.buffered = p.buffered /\ r.fragments = more
      /\ r.fragmentBytes = size /\ r.dispatched = p.dispatched /\ r.asked = p.asked
      /\ r.written = p.written /\ r.closed = p.closed
  BY <1>1, <1>5, <1>7 DEF Peers
<1>9. Sane(r, "no")
  BY <1>8 DEF Sane, Spent, Closing
<1>10. PICK q : q = Reassemble(p, script[i], i)
  OBVIOUS
<1>11. q = IF size > MaxMessage THEN Fail(r)
           ELSE IF ~script[i].fin THEN r
           ELSE DispatchMessage([r EXCEPT !.fragments = <<>>, !.fragmentBytes = 0], more)
  <2>1. r = [p EXCEPT !.fragments = Append(@, i), !.fragmentBytes = @ + script[i].length]
    BY <1>3, <1>4, <1>7
  <2>2. q = IF r.fragmentBytes > MaxMessage THEN Fail(r)
            ELSE IF ~script[i].fin THEN r
            ELSE DispatchMessage([r EXCEPT !.fragments = <<>>, !.fragmentBytes = 0], r.fragments)
    BY <1>10, <2>1 DEF Reassemble
  <2>3. r.fragmentBytes = size /\ r.fragments = more
    BY <1>8
  <2>4. QED
    BY <2>2, <2>3
<1>12. CASE size > MaxMessage
  <2>1. Sane(q, "no") /\ Alike(r, q) /\ q.closed = TRUE
    BY <1>9, <1>11, <1>12, FailSane
  <2>2. QED
    BY <1>6, <1>8, <1>10, <1>12, <2>1 DEF Alike
<1>13. CASE size <= MaxMessage /\ ~script[i].fin
  <2>1. q = r
    BY <1>2, <1>5, <1>11, <1>13
  <2>2. QED
    BY <1>6, <1>8, <1>9, <1>10, <1>13, <2>1
<1>14. CASE size <= MaxMessage /\ script[i].fin
  <2>1. PICK s : s = [r EXCEPT !.fragments = <<>>, !.fragmentBytes = 0]
    OBVIOUS
  <2>2. /\ s \in Peers /\ s.next = p.next /\ s.buffered = p.buffered /\ s.fragments = <<>>
        /\ s.fragmentBytes = 0 /\ s.dispatched = p.dispatched /\ s.asked = p.asked
        /\ s.written = p.written /\ s.closed = p.closed
    <3>1. <<>> \in Seq(Nat) /\ 0 \in Nat
      OBVIOUS
    <3>2. PICK none, zero : none = <<>> /\ zero = 0
      OBVIOUS
    <3>3. s = [r EXCEPT !.fragments = none, !.fragmentBytes = zero]
      BY <2>1, <3>2
    <3>4. none \in Seq(Nat) /\ zero \in Nat
      BY <3>1, <3>2
    <3>5. /\ s \in Peers /\ s.next = r.next /\ s.buffered = r.buffered /\ s.fragments = none
          /\ s.fragmentBytes = zero /\ s.dispatched = r.dispatched /\ s.asked = r.asked
          /\ s.written = r.written /\ s.closed = r.closed
      BY <1>8, <3>3, <3>4 DEF Peers
    <3>6. QED
      BY <1>8, <3>2, <3>5
  <2>3. Sane(s, "no") /\ Fresh(s, more)
    BY <1>5, <2>2 DEF Sane, Spent, Closing, Fresh
  <2>4. q = DispatchMessage(s, more)
    BY <1>2, <1>5, <1>11, <1>14, <2>1
  <2>5. /\ Sane(q, "no") /\ q.closed = s.closed /\ q.next = s.next /\ q.buffered = s.buffered
        /\ q.fragments = s.fragments /\ q.fragmentBytes = s.fragmentBytes
        /\ q.dispatched = Append(s.dispatched, more)
    BY <2>3, <2>4, DispatchSane
  <2>6. QED
    BY <1>6, <1>10, <1>14, <2>2, <2>5
<1>15. QED
  BY <1>2, <1>5, <1>12, <1>13, <1>14

\* A frame that decodes is consumed and handled.
LEMMA TakeFrameKeeps ==
  ASSUME ScriptFits, NEW a, NEW p, Taken(p, a, "no"), Decode(p) = "ok"
  PROVE  Taken(TakeFrame(p), a, "no") /\ TakeFrame(p).next = p.next + 1
<1>1. PICK i : i = p.next
  OBVIOUS
<1>2. p \in Peers /\ p.buffered \in Nat /\ i \in 1..(Len(script) + 1)
  BY <1>1 DEF Taken, Sane, Peers
<1>3. i \in 1..Len(script) /\ Passes(i) /\ p.buffered >= Consumed(script[i])
  BY <1>1, <1>2, DecodeSays
<1>4. Len(script) \in Nat /\ i - 1 \in Nat /\ (i + 1) - 1 = i /\ i + 1 \in 1..(Len(script) + 1)
  BY <1>3, ScriptLen
<1>5. PICK left \in Nat : left = p.buffered - Consumed(script[i])
  BY <1>2, <1>3, FrameIs
<1>6. a = Bytes(i) + left
  <2>1. a = Bytes(i - 1) + p.buffered
    BY <1>1 DEF Taken
  <2>2. /\ Bytes(i - 1) \in Nat /\ Consumed(script[i]) \in Nat
        /\ Bytes(i) = Bytes(i - 1) + Consumed(script[i])
    BY <1>3, BytesNext, FrameIs
  <2>3. QED
    BY <1>2, <1>5, <2>1, <2>2
<1>7. PICK r : r = [p EXCEPT !.next = i + 1, !.buffered = left]
  OBVIOUS
<1>8. /\ Sane(r, "no") /\ r.next = i + 1 /\ r.buffered = left /\ r.closed = p.closed
      /\ r.fragments = p.fragments /\ r.fragmentBytes = p.fragmentBytes
      /\ r.dispatched = p.dispatched
      /\ \A f \in Seq(Nat) : Fresh(r, Append(f, i))
  <2>1. Sane(p, "no")
    BY DEF Taken
  <2>2. r = [p EXCEPT !.next = p.next + 1, !.buffered = left]
    BY <1>1, <1>7
  <2>3. /\ Sane(r, "no") /\ r.next = p.next + 1 /\ r.buffered = left /\ r.closed = p.closed
        /\ r.fragments = p.fragments /\ r.fragmentBytes = p.fragmentBytes
        /\ r.dispatched = p.dispatched
        /\ \A f \in Seq(Nat) : Fresh(r, Append(f, p.next))
    BY <1>5, <2>1, <2>2, NextSane
  <2>4. QED
    BY <1>1, <2>3
<1>9. Assembled(i - 1, r.fragments, r.fragmentBytes, r.dispatched)
  BY <1>1, <1>8 DEF Taken
<1>10. r.closed <=> ~SoundTo(i - 1)
  <2>1. "ok" # "error"
    OBVIOUS
  <2>2. p.closed <=> ~SoundTo(i - 1)
    BY <1>1, <2>1 DEF Taken
  <2>3. QED
    BY <1>8, <2>2
<1>11. PICK q : q = TakeFrame(p)
  OBVIOUS
<1>12. q = HandleFrame(r, script[i], i)
  BY <1>1, <1>5, <1>7, <1>11 DEF TakeFrame
<1>13. /\ Sane(q, "no") /\ q.next = i + 1 /\ q.buffered = left
       /\ Assembled(i, q.fragments, q.fragmentBytes, q.dispatched)
       /\ q.closed <=> ~SoundTo(i)
  <2>1. CASE Data(i)
    <3>1. q = Reassemble(r, script[i], i)
      <4>1. script[i].op \in {"text", "continuation"}
        BY <2>1 DEF Data
      <4>2. script[i].op # "ping" /\ script[i].op # "pong"
        BY <4>1
      <4>3. QED
        BY <1>12, <4>1, <4>2 DEF HandleFrame
    <3>2. /\ Sane(q, "no") /\ q.next = i + 1 /\ q.buffered = r.buffered
          /\ Assembled(i, q.fragments, q.fragmentBytes, q.dispatched)
          /\ q.closed <=> ~SoundTo(i)
      BY <1>3, <1>8, <1>9, <1>10, <2>1, <3>1, ReassembleKeeps
    <3>3. QED
      BY <1>8, <3>2
  <2>2. CASE ~Data(i)
    <3>1. /\ Assembled(i, r.fragments, r.fragmentBytes, r.dispatched)
          /\ SoundTo(i) <=> SoundTo(i - 1) /\ script[i].op \in {"ping", "pong"}
      BY <1>3, <1>9, <2>2, AssembledAside
    <3>2. script[i].op \notin {"text", "continuation"}
      BY <2>2 DEF Data
    <3>3. CASE script[i].op = "ping"
      <4>1. q = Write(r, [op |-> "pong"])
        BY <1>12, <3>3 DEF HandleFrame
      <4>2. Sane(q, "no") /\ Alike(r, q) /\ q.closed = r.closed
        BY <1>8, <4>1, PongSane
      <4>3. QED
        BY <1>8, <1>10, <3>1, <3>3, <4>2 DEF Alike
    <3>4. CASE script[i].op = "pong"
      <4>1. q = r
        BY <1>12, <3>4 DEF HandleFrame
      <4>2. QED
        BY <1>8, <1>10, <3>1, <3>4, <4>1
    <3>5. CASE script[i].op \notin {"ping", "pong"}
      <4>1. q = Fail(r)
        BY <1>12, <3>2, <3>5 DEF HandleFrame
      <4>2. Sane(q, "no") /\ Alike(r, q) /\ q.closed = TRUE
        BY <1>8, <4>1, FailSane
      <4>3. QED
        BY <1>8, <3>1, <3>5, <4>2 DEF Alike
    <3>6. QED
      BY <3>3, <3>4, <3>5
  <2>3. QED
    BY <2>1, <2>2
<1>14. Taken(q, a, "no")
  BY <1>4, <1>6, <1>13 DEF Taken
<1>15. QED
  BY <1>1, <1>11, <1>13, <1>14

\* What decodeFrame says depends on the head of the buffer only.
LEMMA DecodeAlike ==
  ASSUME NEW p, NEW q, q.next = p.next, q.buffered = p.buffered
  PROVE  Decode(q) = Decode(p)
  BY DEF Decode

\* A turn takes a frame, or there is nothing left to do.
LEMMA TurnKeeps ==
  ASSUME ScriptFits, NEW a, NEW p, Taken(p, a, "no")
  PROVE  /\ Taken(Turn(p), a, "no")
         /\ Settled(Turn(p)) \/ Turn(p).next = p.next + 1
         /\ Settled(p) => Settled(Turn(p))
<1>1. PICK q : q = Turn(p)
  OBVIOUS
<1>2. p \in Peers /\ p.next \in 1..(Len(script) + 1)
  BY DEF Taken, Sane
<1>3. Decode(p) \in {"ok", "error", "incomplete"}
  BY <1>2, DecodeSays
<1>4. CASE Decode(p) = "ok"
  <2>1. q = TakeFrame(p)
    BY <1>1, <1>4 DEF Turn
  <2>2. Taken(q, a, "no") /\ q.next = p.next + 1
    BY <1>4, <2>1, TakeFrameKeeps
  <2>3. ~Settled(p)
    BY <1>4 DEF Settled
  <2>4. QED
    BY <1>1, <2>2, <2>3
<1>5. CASE Decode(p) = "error"
  <2>1. q = Fail(p)
    BY <1>1, <1>5 DEF Turn
  <2>2. Sane(q, "no") /\ Alike(p, q) /\ q.closed = TRUE
    BY <2>1, FailSane DEF Taken
  <2>3. Decode(q) = "error"
    BY <1>5, <2>2, DecodeAlike DEF Alike
  <2>4. Taken(q, a, "no")
    BY <2>2, <2>3 DEF Taken, Alike
  <2>5. Settled(q)
    BY <2>2, <2>3 DEF Settled
  <2>6. QED
    BY <1>1, <2>4, <2>5
<1>6. CASE Decode(p) = "incomplete"
  <2>1. q = p
    BY <1>1, <1>6 DEF Turn
  <2>2. Settled(p)
    BY <1>6 DEF Settled
  <2>3. QED
    BY <1>1, <2>1, <2>2
<1>7. QED
  BY <1>3, <1>4, <1>5, <1>6

\* The turns of a loop, one after the other.
Looped(g, p, N) == g = [n \in 0..N |-> IF n = 0 THEN p ELSE Turn(g[n - 1])]

LEMMA LoopRuns ==
  ASSUME NEW N \in Nat, NEW p
  PROVE  \E g : Looped(g, p, N)
<1> DEFINE P == {m \in 0..N : \E g : Looped(g, p, m)}
<1>1. 0 \in P
  <2>1. PICK g : g = [n \in 0..0 |-> p]
    OBVIOUS
  <2>2. 0 \in 0..N /\ \A n \in 0..0 : n = 0
    OBVIOUS
  <2>3. Looped(g, p, 0)
    BY <2>1, <2>2 DEF Looped
  <2>4. QED
    BY <2>2, <2>3
<1>2. ASSUME NEW m \in 1..N, m - 1 \in P PROVE m \in P
  <2>1. PICK g : Looped(g, p, m - 1)
    BY <1>2
  <2>2. PICK h : h = [n \in 0..m |-> IF n = m THEN Turn(g[m - 1]) ELSE g[n]]
    OBVIOUS
  <2>3. m \in 0..N /\ m # 0 /\ \A n \in 0..m : n # m => n \in 0..(m - 1)
    OBVIOUS
  <2>4. \A n \in 0..m : n # 0 => n - 1 \in 0..m /\ n - 1 # m
    OBVIOUS
  <2>5. \A n \in 0..m : h[n] = IF n = 0 THEN p ELSE Turn(h[n - 1])
    <3>1. TAKE n \in 0..m
    <3>2. CASE n = m
      <4>1. h[n] = Turn(g[m - 1])
        BY <2>2, <3>2
      <4>2. h[m - 1] = g[m - 1]
        BY <2>2, <2>3, <2>4
      <4>3. QED
        BY <2>3, <3>2, <4>1, <4>2
    <3>3. CASE n # m
      <4>1. n \in 0..(m - 1) /\ h[n] = g[n]
        BY <2>2, <2>3, <3>3
      <4>2. g[n] = IF n = 0 THEN p ELSE Turn(g[n - 1])
        BY <2>1, <4>1 DEF Looped
      <4>3. n # 0 => h[n - 1] = g[n - 1]
        BY <2>2, <2>4
      <4>4. QED
        BY <4>1, <4>2, <4>3
    <3>4. QED
      BY <3>2, <3>3
  <2>6. h = [n \in 0..m |-> h[n]]
    BY <2>2
  <2>7. Looped(h, p, m)
    BY <2>5, <2>6 DEF Looped
  <2>8. QED
    BY <2>3, <2>7
<1> HIDE DEF P
<1>3. 0..N \subseteq P
  BY <1>1, <1>2, Upwards
<1>4. N \in P
  BY <1>3
<1>5. QED
  BY <1>4 DEF P

\* A chunk is cut into frames until nothing is left to do.
LEMMA OnChunkKeeps ==
  ASSUME ScriptFits, NEW a, NEW p, NEW bytes, NEW first,
         first = [p EXCEPT !.buffered = p.buffered + bytes], Taken(first, a, "no")
  PROVE  Taken(OnChunk(p, bytes), a, "no") /\ Settled(OnChunk(p, bytes))
<1>1. PICK N \in Nat : N = Len(script)
  BY ScriptLen
<1>2. PICK g : g = CHOOSE f : f = [n \in 0..N |-> IF n = 0 THEN first ELSE Turn(f[n - 1])]
  OBVIOUS
<1>3. Looped(g, first, N)
  <2>1. \E f : f = [n \in 0..N |-> IF n = 0 THEN first ELSE Turn(f[n - 1])]
    <3>1. PICK f : Looped(f, first, N)
      BY LoopRuns
    <3>2. f = [n \in 0..N |-> IF n = 0 THEN first ELSE Turn(f[n - 1])]
      BY <3>1 DEF Looped
    <3>3. QED
      BY <3>2
  <2>2. g = [n \in 0..N |-> IF n = 0 THEN first ELSE Turn(g[n - 1])]
    BY <1>2, <2>1
  <2>3. QED
    BY <2>2 DEF Looped
<1>4. OnChunk(p, bytes) = g[N]
  <2>1. first = [p EXCEPT !.buffered = @ + bytes]
    OBVIOUS
  <2>2. QED
    BY <1>1, <1>2, <2>1 DEF OnChunk
<1>5. /\ g[0] = first /\ \A n \in 1..N : g[n] = Turn(g[n - 1])
  <2>1. 0 \in 0..N /\ \A n \in 1..N : n \in 0..N /\ n # 0
    OBVIOUS
  <2>2. QED
    BY <1>3, <2>1 DEF Looped
<1>6. first.next \in Nat /\ first.next >= 1
  BY DEF Taken
<1> DEFINE Good(n) == Taken(g[n], a, "no") /\ (Settled(g[n]) \/ g[n].next = first.next + n)
           P == {n \in 0..N : Good(n)}
<1>7. 0 \in P
  <2>1. first.next = first.next + 0 /\ 0 \in 0..N
    BY <1>6
  <2>2. g[0].next = first.next + 0
    BY <1>5, <2>1
  <2>3. Good(0)
    BY <1>5, <2>2
  <2> HIDE DEF Good
  <2>4. QED
    BY <2>1, <2>3
<1>8. ASSUME NEW n \in 1..N, n - 1 \in P PROVE n \in P
  <2>1. /\ Taken(g[n - 1], a, "no")
        /\ Settled(g[n - 1]) \/ g[n - 1].next = first.next + (n - 1)
    BY <1>8
  <2>2. PICK q : q = g[n - 1]
    OBVIOUS
  <2>3. g[n] = Turn(q)
    BY <1>5, <2>2
  <2>4. /\ Taken(g[n], a, "no")
        /\ Settled(g[n]) \/ g[n].next = q.next + 1
        /\ Settled(q) => Settled(g[n])
    BY <2>1, <2>2, <2>3, TurnKeeps
  <2>5. q.next = first.next + (n - 1) => q.next + 1 = first.next + n
    BY <1>6
  <2>6. Settled(g[n]) \/ g[n].next = first.next + n
    <3>1. ASSUME Settled(q) PROVE Settled(g[n])
      BY <2>4, <3>1
    <3>2. ASSUME q.next = first.next + (n - 1)
          PROVE  Settled(g[n]) \/ g[n].next = first.next + n
      <4>1. q.next + 1 = first.next + n
        BY <2>5, <3>2
      <4>2. QED
        BY <2>4, <4>1
    <3>3. Settled(q) \/ q.next = first.next + (n - 1)
      BY <2>1, <2>2
    <3>4. QED
      BY <3>1, <3>2, <3>3
  <2>7. Good(n)
    BY <2>4, <2>6
  <2>8. n \in 0..N
    OBVIOUS
  <2> HIDE DEF Good
  <2>9. QED
    BY <2>7, <2>8
<1> HIDE DEF P
<1>9. 0..N \subseteq P
  BY <1>7, <1>8, Upwards
<1>10. Taken(g[N], a, "no") /\ (Settled(g[N]) \/ g[N].next = first.next + N)
  BY <1>9 DEF P
<1>11. ASSUME g[N].next = first.next + N PROVE Settled(g[N])
  <2>1. g[N] \in Peers /\ g[N].next \in 1..(N + 1)
    BY <1>1, <1>10 DEF Taken, Sane
  <2>2. g[N].next = N + 1
    BY <1>6, <1>11, <2>1
  <2>3. g[N].next \notin 1..Len(script)
    BY <1>1, <2>2
  <2>4. Decode(g[N]) # "ok" /\ Decode(g[N]) # "error"
    BY <1>1, <2>1, <2>3, DecodeSays
  <2>5. QED
    BY <2>4 DEF Settled
<1>12. QED
  BY <1>4, <1>10, <1>11

-----------------------------------------------------------------------------
(***************************************************************************)
(* The invariant of a socket                                               *)
(***************************************************************************)
FramesInv ==
  /\ ScriptFits
  /\ Taken(peer, arrived, gone)
  /\ Settled(peer)
  /\ gone \in {"no", "server", "socket"} /\ (gone # "no" => peer.closed)

\* None of it depends on more than what the client has written.
LEMMA SameScript ==
  ASSUME script' = script, NEW p, NEW a, NEW why
  PROVE  /\ ScriptFits' <=> ScriptFits
         /\ Taken(p, a, why)' <=> Taken(p, a, why)
         /\ Settled(p)' <=> Settled(p)
<1>1. ScriptFits' <=> ScriptFits
  BY DEF ScriptFits
<1>2. Taken(p, a, why)' <=> Taken(p, a, why)
  BY DEF Taken, Assembled, SoundTo, Refused, Data, SizeTo, MessageOf, EndsMessage, Messages, Ends,
         Started, StartedSize, Piece, Decode, Bytes, Consumed, HeaderSize, LengthBytes
<1>3. Settled(p)' <=> Settled(p)
  BY DEF Settled, Decode, Consumed, HeaderSize, LengthBytes
<1>4. QED
  BY <1>1, <1>2, <1>3

LEMMA FramesInvNext ==
  ASSUME FramesInv, script' = script, NEW p, NEW a, NEW why,
         p = peer', a = arrived', why = gone',
         Taken(p, a, why), Settled(p), why \in {"no", "server", "socket"}, why # "no" => p.closed
  PROVE  FramesInv'
<1>1. ScriptFits
  BY DEF FramesInv
<1>2. ScriptFits' /\ Taken(p, a, why)' /\ Settled(p)'
  BY <1>1, SameScript
<1>3. QED
  BY <1>2 DEF FramesInv

LEMMA FramesInitInv == FramesInit => FramesInv
<1> SUFFICES ASSUME FramesInit PROVE FramesInv
  OBVIOUS
<1>1. ScriptFits /\ arrived = 0 /\ peer = NewPeer /\ gone = "no"
  BY FrameAssumption DEF FramesInit, ScriptFits, FrameKind
<1>2. Len(script) \in Nat
  BY <1>1, ScriptLen
<1>3. PICK p : p = NewPeer
  OBVIOUS
<1>4. /\ p.next = 1 /\ p.buffered = 0 /\ p.fragments = <<>> /\ p.fragmentBytes = 0
      /\ p.dispatched = <<>> /\ p.asked = {} /\ p.written = <<>> /\ p.closed = FALSE
  BY <1>3 DEF NewPeer
<1>5. p \in Peers
  <2>1. <<>> \in Seq(Nat) /\ <<>> \in Seq(Seq(Nat)) /\ <<>> \in Seq(Out)
    OBVIOUS
  <2>2. QED
    BY <1>3, <2>1 DEF NewPeer, Peers
<1>6. \A k, op : ~Is(p.written, k, op)
  BY <1>4 DEF Is
<1>7. Spent(p)
  BY <1>4, <1>6 DEF Spent
<1>8. Closing(p, "no")
  BY <1>4, <1>6 DEF Closing
<1>9. p.next - 1 = 0 /\ p.next \in 1..(Len(script) + 1)
  BY <1>2, <1>4
<1>10. Assembled(0, p.fragments, p.fragmentBytes, p.dispatched)
  <2>1. <<>> \in Seq(Seq(Nat)) /\ Len(<<>>) = 0
    OBVIOUS
  <2>2. Leads(<<>>, <<>>)
    BY <2>1 DEF Leads
  <2>3. QED
    BY <1>4, <2>2, NoMessages, NothingInOrder DEF Assembled
<1>11. SoundTo(0)
  BY DEF SoundTo
<1>12. 0 = Bytes(0) + p.buffered
  BY <1>4, NoBytes
<1>13. Decode(p) = "incomplete"
  BY <1>4 DEF Decode
<1>14. Taken(p, 0, "no")
  BY <1>4, <1>5, <1>7, <1>8, <1>9, <1>10, <1>11, <1>12 DEF Taken, Sane
<1>15. Settled(p)
  BY <1>13 DEF Settled
<1>16. QED
  BY <1>1, <1>3, <1>14, <1>15 DEF FramesInv

LEMMA ChunkInv ==
  ASSUME FramesInv, NEW bytes \in Nat, ChunkArrives(bytes)
  PROVE  FramesInv'
<1>1. PICK p, a : p = peer /\ a = arrived
  OBVIOUS
<1>2. ScriptFits /\ Taken(p, a, "no") /\ ~p.closed /\ gone = "no"
  BY <1>1 DEF FramesInv, ChunkArrives
<1>3. p \in Peers /\ p.next \in 1..(Len(script) + 1) /\ a = Bytes(p.next - 1) + p.buffered
  BY <1>2 DEF Taken, Sane
<1>4. PICK r : r = [p EXCEPT !.buffered = p.buffered + bytes]
  OBVIOUS
<1>5. PICK left \in Nat : left = p.buffered + bytes
  BY <1>3 DEF Peers
<1>6. /\ r \in Peers /\ r.next = p.next /\ r.buffered = left /\ r.fragments = p.fragments
      /\ r.fragmentBytes = p.fragmentBytes /\ r.dispatched = p.dispatched
      /\ r.asked = p.asked /\ r.written = p.written /\ r.closed = p.closed
  BY <1>3, <1>4, <1>5 DEF Peers
<1>7. Sane(r, "no")
  BY <1>2, <1>6 DEF Taken, Sane, Spent, Closing
<1>8. a + bytes = Bytes(r.next - 1) + r.buffered
  <2>1. p.next - 1 \in 0..Len(script) /\ p.buffered \in Nat
    BY <1>2, <1>3, ScriptLen DEF Peers
  <2>2. Bytes(p.next - 1) \in Nat
    BY <1>2, <2>1, BytesUp
  <2>3. QED
    BY <1>3, <1>5, <1>6, <2>1, <2>2
<1>9. Taken(r, a + bytes, "no")
  BY <1>2, <1>3, <1>6, <1>7, <1>8 DEF Taken
<1>10. PICK q : q = OnChunk(p, bytes)
  OBVIOUS
<1>11. Taken(q, a + bytes, "no") /\ Settled(q)
  BY <1>2, <1>4, <1>9, <1>10, OnChunkKeeps
<1>12. script' = script /\ peer' = q /\ arrived' = a + bytes /\ gone' = "no"
  BY <1>1, <1>2, <1>10 DEF ChunkArrives
<1>13. QED
  BY <1>11, <1>12, FramesInvNext

LEMMA AnswerInv ==
  ASSUME FramesInv, NEW m \in peer.asked, NEW ok \in BOOLEAN, HostAnswers(m, ok)
  PROVE  FramesInv'
<1>1. PICK p : p = peer
  OBVIOUS
<1>2. Taken(p, arrived, gone) /\ Settled(p) /\ m \in p.asked
  BY <1>1 DEF FramesInv
<1>3. p \in Peers /\ Sane(p, gone) /\ m \in Seq(Nat)
  BY <1>2 DEF Taken, Sane, Peers
<1>4. PICK r : r = [p EXCEPT !.asked = p.asked \ {m}]
  OBVIOUS
<1>5. /\ r \in Peers /\ r.next = p.next /\ r.buffered = p.buffered /\ r.fragments = p.fragments
      /\ r.fragmentBytes = p.fragmentBytes /\ r.dispatched = p.dispatched
      /\ r.asked = p.asked \ {m} /\ r.written = p.written /\ r.closed = p.closed
  BY <1>3, <1>4 DEF Peers
<1>6. Sane(r, gone)
  BY <1>3, <1>5 DEF Sane, Spent, Closing
<1>7. PICK q : q = SendReply(r, Answer(m, ok))
  OBVIOUS
<1>8. Sane(q, gone) /\ Alike(r, q) /\ q.closed = r.closed
  <2>1. Behind(m, r.next) /\ m \notin r.asked
    BY <1>2, <1>3, <1>5 DEF Sane, Spent
  <2>2. \A k : Is(r.written, k, "text") => r.written[k].to # m
    BY <1>2, <1>3, <1>5 DEF Sane, Spent
  <2>3. QED
    BY <1>3, <1>6, <1>7, <2>1, <2>2, ReplySane
<1>9. /\ q.next = p.next /\ q.buffered = p.buffered /\ q.fragments = p.fragments
      /\ q.fragmentBytes = p.fragmentBytes /\ q.dispatched = p.dispatched /\ q.closed = p.closed
  BY <1>5, <1>8 DEF Alike
<1>10. Decode(q) = Decode(p)
  BY <1>9, DecodeAlike
<1>11. Taken(q, arrived, gone) /\ Settled(q)
  BY <1>2, <1>8, <1>9, <1>10 DEF Taken, Settled
<1>12. [peer EXCEPT !.asked = @ \ {m}] = r
  BY <1>1, <1>4
<1>13. script' = script /\ peer' = q /\ arrived' = arrived /\ gone' = gone
  BY <1>7, <1>12 DEF HostAnswers
<1>14. gone \in {"no", "server", "socket"} /\ (gone # "no" => q.closed)
  BY <1>1, <1>9 DEF FramesInv
<1>15. PICK a, why : a = arrived /\ why = gone
  OBVIOUS
<1>16. QED
  BY <1>11, <1>13, <1>14, <1>15, FramesInvNext

\* What ends the socket from outside.
LEMMA OverInv ==
  ASSUME FramesInv, ServerCloses \/ SocketDies
  PROVE  FramesInv'
<1>1. PICK p, a : p = peer /\ a = arrived
  OBVIOUS
<1>2. Taken(p, a, "no") /\ Settled(p) /\ ~p.closed /\ gone = "no"
  BY <1>1 DEF FramesInv, ServerCloses, SocketDies
<1>3. p \in Peers /\ Sane(p, "no")
  BY <1>2 DEF Taken, Sane
<1>4. ASSUME NEW q, NEW why, why \in {"server", "socket"}, Sane(q, why), Alike(p, q), q.closed,
             script' = script, peer' = q, arrived' = a, gone' = why
      PROVE  FramesInv'
  <2>1. Decode(q) = Decode(p)
    BY <1>4, DecodeAlike DEF Alike
  <2>2. why # "no" /\ why \in {"no", "server", "socket"}
    BY <1>4
  <2>3. Taken(q, a, why)
    BY <1>2, <1>4, <2>1, <2>2 DEF Taken, Alike
  <2>4. Settled(q)
    BY <1>2, <1>4, <2>1 DEF Settled
  <2>5. QED
    BY <1>4, <2>2, <2>3, <2>4, FramesInvNext
<1>5. CASE ServerCloses
  <2>1. Sane(p, "server")
    BY <1>2, <1>3 DEF Sane, Closing
  <2>2. PICK q : q = Fail(p)
    OBVIOUS
  <2>3. Sane(q, "server") /\ Alike(p, q) /\ q.closed
    BY <2>1, <2>2, FailSane
  <2>4. script' = script /\ peer' = q /\ arrived' = a /\ gone' = "server"
    BY <1>1, <1>5, <2>2 DEF ServerCloses
  <2>5. QED
    BY <1>4, <2>3, <2>4
<1>6. CASE SocketDies
  <2>1. PICK q : q = [p EXCEPT !.closed = TRUE]
    OBVIOUS
  <2>2. /\ q \in Peers /\ Alike(p, q) /\ q.written = p.written /\ q.closed = TRUE
    BY <1>3, <2>1 DEF Peers, Alike
  <2>3. Spent(q)
    BY <1>3, <2>2 DEF Sane, Spent, Alike
  <2>4. Closing(q, "socket")
    BY <1>2, <1>3, <2>2 DEF Sane, Closing
  <2>5. script' = script /\ peer' = q /\ arrived' = a /\ gone' = "socket"
    BY <1>1, <1>6, <2>1 DEF SocketDies, EndPeer
  <2>6. QED
    BY <1>4, <2>2, <2>3, <2>4, <2>5 DEF Sane
<1>7. QED
  BY <1>5, <1>6

LEMMA FramesNextInv == FramesInv /\ [FramesNext]_frameVars => FramesInv'
<1> SUFFICES ASSUME FramesInv, [FramesNext]_frameVars PROVE FramesInv'
  OBVIOUS
<1>1. ASSUME NEW bytes \in 1..Bytes(Len(script)), ChunkArrives(bytes) PROVE FramesInv'
  <2>1. Bytes(Len(script)) \in Nat
    <3>1. ScriptFits /\ Len(script) \in 0..Len(script)
      BY ScriptLen DEF FramesInv
    <3>2. QED
      BY <3>1, BytesUp
  <2>2. bytes \in Nat
    BY <2>1
  <2>3. QED
    BY <1>1, <2>2, ChunkInv
<1>2. ASSUME NEW m \in peer.asked, NEW ok \in BOOLEAN, HostAnswers(m, ok) PROVE FramesInv'
  BY <1>2, AnswerInv
<1>3. CASE ServerCloses \/ SocketDies
  BY <1>3, OverInv
<1>4. CASE UNCHANGED frameVars
  <2>1. script' = script /\ peer' = peer /\ arrived' = arrived /\ gone' = gone
    BY <1>4 DEF frameVars
  <2>2. PICK p, a, why : p = peer /\ a = arrived /\ why = gone
    OBVIOUS
  <2>3. Taken(p, a, why) /\ Settled(p) /\ why \in {"no", "server", "socket"}
        /\ (why # "no" => p.closed)
    BY <2>2 DEF FramesInv
  <2>4. QED
    BY <2>1, <2>2, <2>3, FramesInvNext
<1>5. QED
  BY <1>1, <1>2, <1>3, <1>4 DEF FramesNext

-----------------------------------------------------------------------------
(***************************************************************************)
(* What it comes to                                                        *)
(***************************************************************************)
\* Behind the frame at the head of the buffer, which is sound, nothing has arrived whole.
LEMMA NotArrived ==
  ASSUME FramesInv, NEW i, i = peer.next, i \in 1..Len(script), ~Refused(i),
         NEW k \in i..Len(script)
  PROVE  Bytes(k) \in Nat /\ arrived < Bytes(k)
<1>1. PICK p : p = peer
  OBVIOUS
<1>2. ScriptFits /\ Taken(p, arrived, gone) /\ Settled(p)
  BY <1>1 DEF FramesInv
<1>3. p \in Peers /\ p.next = i /\ p.buffered \in Nat /\ arrived = Bytes(i - 1) + p.buffered
  BY <1>1, <1>2 DEF Taken, Sane, Peers
<1>4. Passes(i)
  <2>1. script[i].length \in Nat /\ script[i].masked \in BOOLEAN /\ MaxMessage \in Nat
    BY <1>2, FrameIs, FrameAssumption DEF FrameKind
  <2>2. QED
    BY <2>1 DEF Refused, Passes
<1>5. i \in 1..(Len(script) + 1)
  BY <1>2, ScriptLen
<1>6. p.buffered < Consumed(script[i])
  <2>1. Decode(p) # "ok"
    BY <1>2 DEF Settled
  <2>2. Decode(p) = "ok" <=> /\ p.next \in 1..Len(script) /\ Passes(p.next)
                              /\ p.buffered >= Consumed(script[p.next])
    BY <1>2, <1>3, <1>5, DecodeSays
  <2>3. ~(p.buffered >= Consumed(script[i]))
    BY <1>3, <1>4, <2>1, <2>2
  <2>4. Consumed(script[i]) \in Nat
    BY <1>2, FrameIs
  <2>5. QED
    BY <1>3, <2>3, <2>4
<1>7. /\ Bytes(i - 1) \in Nat /\ Consumed(script[i]) \in Nat
      /\ Bytes(i) = Bytes(i - 1) + Consumed(script[i])
  BY <1>2, BytesNext, FrameIs
<1>8. Bytes(k) \in Nat /\ Bytes(i) <= Bytes(k)
  <2>1. i \in 0..Len(script)
    OBVIOUS
  <2>2. QED
    BY <1>2, <2>1, BytesUp
<1>9. QED
  BY <1>3, <1>6, <1>7, <1>8

\* The messages of the frames that were taken are those that arrived.
LEMMA CompleteIs ==
  ASSUME FramesInv
  PROVE  Complete = Messages(Ends(peer.next - 1))
<1>1. PICK i : i = peer.next
  OBVIOUS
<1>2. /\ ScriptFits /\ i \in 1..(Len(script) + 1) /\ peer.buffered \in Nat
      /\ arrived = Bytes(i - 1) + peer.buffered
  BY <1>1 DEF FramesInv, Taken, Sane, Peers
<1>3. PICK E : E = {k \in DOMAIN script : EndsMessage(k) /\ SoundTo(k) /\ Bytes(k) <= arrived}
  OBVIOUS
<1>4. Len(script) \in Nat /\ DOMAIN script = 1..Len(script)
  BY <1>2, ScriptLen
<1>5. ASSUME NEW k \in 1..(i - 1) PROVE k \in 1..Len(script) /\ Bytes(k) <= arrived
  <2>1. k \in 0..Len(script) /\ i - 1 \in k..Len(script) /\ k \in 1..Len(script)
    BY <1>2, <1>4
  <2>2. Bytes(k) \in Nat /\ Bytes(i - 1) \in Nat /\ Bytes(k) <= Bytes(i - 1)
    BY <1>2, <2>1, BytesUp
  <2>3. QED
    BY <1>2, <2>1, <2>2
<1>6. ASSUME NEW k \in 1..Len(script), SoundTo(k), Bytes(k) <= arrived PROVE k \in 1..(i - 1)
  <2>1. SUFFICES ASSUME k \notin 1..(i - 1) PROVE FALSE
    OBVIOUS
  <2>2. i \in 1..Len(script) /\ k \in i..Len(script) /\ i \in 1..k
    BY <1>2, <1>4, <2>1
  <2>3. ~Refused(i)
    BY <1>6, <2>2 DEF SoundTo
  <2>4. Bytes(k) \in Nat /\ arrived < Bytes(k)
    BY <1>1, <2>2, <2>3, NotArrived
  <2>5. arrived \in Nat
    <3>1. i - 1 \in 0..Len(script)
      BY <2>2
    <3>2. Bytes(i - 1) \in Nat
      BY <1>2, <3>1, BytesUp
    <3>3. QED
      BY <1>2, <3>2
  <2>6. QED
    BY <1>6, <2>4, <2>5
<1>7. E = Ends(i - 1)
  BY <1>3, <1>4, <1>5, <1>6 DEF Ends
<1>8. QED
  BY <1>1, <1>3, <1>7 DEF Complete

\* Where a frame is told to be refused.
LEMMA TellingIs ==
  ASSUME ScriptFits, NEW j \in 1..Len(script)
  PROVE  /\ Bytes(j - 1) \in Nat /\ Bytes(j) \in Nat
         /\ Telling(j) \in Nat /\ Bytes(j - 1) <= Telling(j) /\ Telling(j) <= Bytes(j)
         /\ ~script[j].masked => Telling(j) = Bytes(j - 1) + 2
         /\ script[j].masked /\ script[j].length > MaxMessage
              => Telling(j) = Bytes(j - 1) + HeaderSize(script[j])
         /\ Passes(j) => Telling(j) = Bytes(j)
<1>1. PICK f : f = script[j]
  OBVIOUS
<1>2. /\ f.length \in Nat /\ f.masked \in BOOLEAN /\ MaxMessage \in Nat
  BY <1>1, FrameIs, FrameAssumption DEF FrameKind
<1>3. PICK h, c : h = HeaderSize(f) /\ c = Consumed(f)
  OBVIOUS
<1>4. h \in Nat /\ h >= 2 /\ c \in Nat /\ c = h + 4 + f.length
  BY <1>1, <1>3, FrameIs
<1>5. PICK b : b = Bytes(j - 1)
  OBVIOUS
<1>6. b \in Nat /\ Bytes(j) = b + c
  BY <1>1, <1>3, <1>5, BytesNext
<1>7. Telling(j) = b + (IF ~f.masked THEN 2 ELSE IF f.length > MaxMessage THEN h ELSE c)
  BY <1>1, <1>3, <1>5 DEF Telling
<1>8. Passes(j) <=> f.masked /\ f.length <= MaxMessage
  BY <1>1 DEF Passes
<1>9. PICK t : t = Telling(j)
  OBVIOUS
<1>10. /\ t \in Nat /\ b <= t /\ t <= b + c /\ b + c \in Nat
       /\ ~f.masked => t = b + 2
       /\ f.masked /\ f.length > MaxMessage => t = b + h
       /\ f.masked /\ f.length <= MaxMessage => t = b + c
  <2>1. CASE ~f.masked
    BY SMTT(40), <1>2, <1>4, <1>6, <1>7, <1>9, <2>1
  <2>2. CASE f.masked /\ f.length > MaxMessage
    BY SMTT(30), <1>2, <1>4, <1>6, <1>7, <1>9, <2>2
  <2>3. CASE f.masked /\ f.length <= MaxMessage
    BY SMTT(30), <1>2, <1>4, <1>6, <1>7, <1>9, <2>3
  <2>4. QED
    BY <1>2, <2>1, <2>2, <2>3
<1>11. QED
  BY <1>1, <1>3, <1>5, <1>6, <1>8, <1>9, <1>10

\* A refused frame has told exactly if the loop met it.
LEMMA RefusedIs ==
  ASSUME FramesInv
  PROVE  RefusedArrived <=> ~SoundTo(peer.next - 1) \/ Decode(peer) = "error"
<1>1. PICK p, i : p = peer /\ i = p.next
  OBVIOUS
<1>2. /\ ScriptFits /\ i \in 1..(Len(script) + 1) /\ p \in Peers /\ p.buffered \in Nat
      /\ arrived = Bytes(i - 1) + p.buffered /\ Settled(p)
  BY <1>1 DEF FramesInv, Taken, Sane, Peers
<1>3. Len(script) \in Nat /\ DOMAIN script = 1..Len(script) /\ i - 1 \in 0..Len(script)
  BY <1>2, ScriptLen
<1>4. Bytes(i - 1) \in Nat /\ arrived \in Nat
  <2>1. Bytes(i - 1) \in Nat
    BY <1>2, <1>3, BytesUp
  <2>2. QED
    BY <1>2, <2>1
<1>5. ASSUME ~SoundTo(i - 1) PROVE RefusedArrived
  <2> DEFINE bad == {j \in 1..(i - 1) : Refused(j)}
  <2>1. bad \in SUBSET Nat /\ bad # {}
    BY <1>3, <1>5 DEF SoundTo
  <2> HIDE DEF bad
  <2>2. PICK j \in bad : \A k \in bad : j <= k
    BY <2>1, LeastOf
  <2>3. j \in 1..(i - 1) /\ Refused(j) /\ j \in DOMAIN script
    BY <1>3, <2>2 DEF bad
  <2>4. SoundTo(j - 1)
    <3>1. ASSUME NEW k \in 1..(j - 1) PROVE ~Refused(k)
      <4>1. k \in 1..(i - 1) /\ ~(j <= k)
        BY <1>3, <2>3
      <4>2. k \notin bad
        BY <2>2, <4>1
      <4>3. QED
        BY <4>1, <4>2 DEF bad
    <3>2. QED
      BY <3>1 DEF SoundTo
  <2>5. Telling(j) <= arrived
    <3>1. j \in 1..Len(script) /\ j \in 0..Len(script) /\ i - 1 \in j..Len(script)
      BY <1>3, <2>3
    <3>2. Telling(j) \in Nat /\ Bytes(j) \in Nat /\ Telling(j) <= Bytes(j)
      BY <1>2, <3>1, TellingIs
    <3>3. Bytes(j) <= Bytes(i - 1)
      BY <1>2, <3>1, BytesUp
    <3>4. QED
      BY <1>2, <1>4, <3>2, <3>3
  <2>6. QED
    BY <2>3, <2>4, <2>5 DEF RefusedArrived
<1>6. ASSUME SoundTo(i - 1), Decode(p) = "error" PROVE RefusedArrived
  <2>1. /\ i \in 1..Len(script)
        /\ \/ ~script[i].masked /\ p.buffered >= 2
           \/ /\ script[i].masked
              /\ script[i].length > MaxMessage
              /\ p.buffered >= HeaderSize(script[i])
    BY <1>1, <1>2, <1>6, DecodeSays
  <2>2. Refused(i)
    BY <2>1 DEF Refused
  <2>3. Telling(i) <= arrived
    <3>1. HeaderSize(script[i]) \in Nat
      BY <1>2, <2>1, FrameIs
    <3>2. /\ ~script[i].masked => Telling(i) = Bytes(i - 1) + 2
          /\ script[i].masked /\ script[i].length > MaxMessage
               => Telling(i) = Bytes(i - 1) + HeaderSize(script[i])
      BY <1>2, <2>1, TellingIs
    <3>3. QED
      BY <1>2, <1>4, <2>1, <3>1, <3>2
  <2>4. QED
    BY <1>3, <1>6, <2>1, <2>2, <2>3 DEF RefusedArrived
<1>7. ASSUME RefusedArrived, SoundTo(i - 1) PROVE Decode(p) = "error"
  <2>1. PICK j \in 1..Len(script) : Refused(j) /\ SoundTo(j - 1) /\ Telling(j) <= arrived
    BY <1>3, <1>7 DEF RefusedArrived
  <2>2. CASE j \in 1..(i - 1)
    BY <1>7, <2>1, <2>2 DEF SoundTo
  <2>3. CASE j = i
    <3>1. ~(Passes(i) /\ p.buffered >= Consumed(script[i]))
      <4>1. Decode(p) # "ok"
        BY <1>2 DEF Settled
      <4>2. QED
        BY <1>1, <1>2, <2>1, <2>3, <4>1, DecodeSays
    <3>2. /\ HeaderSize(script[i]) \in Nat /\ Consumed(script[i]) \in Nat
          /\ script[i].length \in Nat /\ script[i].masked \in BOOLEAN /\ MaxMessage \in Nat
      BY <1>2, <2>1, <2>3, FrameIs, FrameAssumption DEF FrameKind
    <3>3. Bytes(i) = Bytes(i - 1) + Consumed(script[i])
      BY <1>2, <2>1, <2>3, BytesNext
    <3>4. /\ ~script[i].masked => Telling(i) = Bytes(i - 1) + 2
          /\ script[i].masked /\ script[i].length > MaxMessage
               => Telling(i) = Bytes(i - 1) + HeaderSize(script[i])
          /\ Passes(i) => Telling(i) = Bytes(i)
      BY <1>2, <2>1, <2>3, TellingIs
    <3>5. ~Passes(i)
      BY <1>2, <1>4, <2>1, <2>3, <3>1, <3>2, <3>3, <3>4
    <3>6. CASE ~script[i].masked
      <4>1. p.buffered >= 2
        BY <1>2, <1>4, <2>1, <2>3, <3>4, <3>6
      <4>2. QED
        BY <1>1, <1>2, <2>1, <2>3, <3>6, <4>1, DecodeSays
    <3>7. CASE script[i].masked
      <4>1. script[i].length > MaxMessage
        BY <3>2, <3>5, <3>7 DEF Passes
      <4>2. p.buffered >= HeaderSize(script[i])
        BY <1>2, <1>4, <2>1, <2>3, <3>2, <3>4, <3>7, <4>1
      <4>3. QED
        BY <1>1, <1>2, <2>1, <2>3, <3>7, <4>1, <4>2, DecodeSays
    <3>8. QED
      BY <3>6, <3>7
  <2>4. CASE j > i
    <3>1. i \in 1..Len(script) /\ j - 1 \in i..Len(script) /\ i \in 1..(j - 1)
      BY <1>2, <1>3, <2>1, <2>4
    <3>2. ~Refused(i)
      BY <2>1, <3>1 DEF SoundTo
    <3>3. Bytes(j - 1) \in Nat /\ arrived < Bytes(j - 1)
      BY <1>1, <3>1, <3>2, NotArrived
    <3>4. Telling(j) \in Nat /\ Bytes(j - 1) <= Telling(j)
      BY <1>2, <2>1, TellingIs
    <3>5. QED
      BY <1>4, <2>1, <3>3, <3>4
  <2>5. j \in 1..(i - 1) \/ j = i \/ j > i
    BY <1>2, <1>3
  <2>6. QED
    BY <2>2, <2>3, <2>4, <2>5
<1>8. QED
  BY <1>1, <1>5, <1>6, <1>7

\* What leads is a prefix.
LEMMA LeadsPrefix ==
  ASSUME NEW s, NEW t, Leads(s, t)
  PROVE  IsPrefix(s, t)
<1>1. /\ s \in Seq(Seq(Nat)) /\ t \in Seq(Seq(Nat)) /\ Len(s) <= Len(t)
      /\ \A k \in 1..Len(s) : s[k] = t[k]
  BY DEF Leads
<1>2. PICK n \in Nat : n = Len(s)
  BY <1>1
<1>3. SubSeq(s, 1, n) = [k \in 1..n |-> s[k]] /\ SubSeq(t, 1, n) = [k \in 1..n |-> t[k]]
  BY <1>1, <1>2
<1>4. [k \in 1..n |-> s[k]] = [k \in 1..n |-> t[k]]
  BY <1>1, <1>2
<1>5. QED
  BY <1>1, <1>2, <1>3, <1>4 DEF IsPrefix

\* A set without two members has one at most.
LEMMA OneAtMost ==
  ASSUME NEW S, \A x, y \in S : x = y
  PROVE  Cardinality(S) = IF S = {} THEN 0 ELSE 1
<1>1. CASE S = {}
  BY <1>1, FS_EmptySet
<1>2. CASE S # {}
  <2>1. PICK x : x \in S
    BY <1>2
  <2>2. S = {x}
    BY <2>1
  <2>3. QED
    BY <1>2, <2>2, FS_Singleton
<1>3. QED
  BY <1>1, <1>2

LEMMA FramesInvWhole == FramesInv => FramesWhole
<1> SUFFICES ASSUME FramesInv PROVE FramesWhole
  OBVIOUS
<1>1. PICK p : p = peer
  OBVIOUS
<1>2. /\ Taken(p, arrived, gone) /\ Settled(p) /\ gone \in {"no", "server", "socket"}
      /\ gone # "no" => p.closed
  BY <1>1 DEF FramesInv
<1>3. Spent(p) /\ Closing(p, gone) /\ p.closed \in BOOLEAN
  BY <1>2 DEF Taken, Sane, Peers
<1>4. /\ SoundTo(p.next - 1) => p.dispatched = Complete
      /\ Leads(Complete, p.dispatched)
  BY <1>1, <1>2, CompleteIs DEF Taken, Assembled
<1>5. RefusedArrived <=> ~SoundTo(p.next - 1) \/ Decode(p) = "error"
  BY <1>1, RefusedIs
<1>6. p.closed <=> RefusedArrived \/ gone # "no"
  <2>1. p.closed /\ gone = "no" => RefusedArrived
    BY <1>2, <1>5 DEF Taken
  <2>2. RefusedArrived => p.closed
    BY <1>2, <1>5 DEF Taken, Settled
  <2>3. QED
    BY <1>2, <2>1, <2>2
<1>7. Cardinality(Closes) = (IF p.closed /\ gone # "socket" THEN 1 ELSE 0)
  <2>1. \A k : k \in Closes <=> Is(p.written, k, "close")
    BY <1>1 DEF Closes, Is
  <2>2. \A j, k \in Closes : j = k
    BY <1>3, <2>1 DEF Closing
  <2>3. Closes # {} <=> p.closed /\ gone # "socket"
    BY <1>3, <2>1 DEF Closing
  <2>4. QED
    BY <2>2, <2>3, OneAtMost
<1>8. \A n \in Closes, k \in DOMAIN p.written : p.written[k].op = "text" => k < n
  BY <1>1, <1>3 DEF Closing, Closes, Is
<1>9. \A n \in DOMAIN p.dispatched : Cardinality(Replies(p.dispatched[n])) <= 1
  <2>1. TAKE n \in DOMAIN p.dispatched
  <2>2. PICK R : R = Replies(p.dispatched[n])
    OBVIOUS
  <2>3. \A j \in R : Is(p.written, j, "text") /\ p.written[j].to = p.dispatched[n]
    BY <1>1, <2>2 DEF Replies, Is
  <2>4. \A j, k \in R : j = k
    BY <1>3, <2>3 DEF Spent
  <2>5. Cardinality(R) = IF R = {} THEN 0 ELSE 1
    BY <2>4, OneAtMost
  <2>6. QED
    BY <2>2, <2>5
<1>10. IsPrefix(Complete, p.dispatched)
  BY <1>4, LeadsPrefix
<1>11. QED
  BY <1>1, <1>4, <1>5, <1>6, <1>7, <1>8, <1>9, <1>10 DEF FramesWhole

\* However a client's bytes are cut into chunks and its messages into frames, the
\* endpoint takes the messages that arrived whole and in order, refuses at the first
\* byte that tells, and answers each message once at most.
THEOREM FramesStayWhole == FramesSpec => []FramesWhole
<1>1. FramesInit => FramesInv
  BY FramesInitInv
<1>2. FramesInv /\ [FramesNext]_frameVars => FramesInv'
  BY FramesNextInv
<1>3. FramesInv => FramesWhole
  BY FramesInvWhole
<1>4. QED
  BY <1>1, <1>2, <1>3, PTL DEF FramesSpec
=============================================================================
