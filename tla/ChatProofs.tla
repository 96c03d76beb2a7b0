------------------------------ MODULE ChatProofs ------------------------------
(***************************************************************************)
(* Theorems about the turns of a chat session, for any number of turns,    *)
(* attempts, iterations and calls: what readers are told is in order, a    *)
(* turn that has ended starts nothing, every tool call in the saved        *)
(* history is followed by its results, and a widget that mounts at any     *)
(* moment shows a turn that has ended as it ended.                         *)
(***************************************************************************)
EXTENDS ChatTurns, FiniteSetTheorems, SequenceTheorems, WellFoundedInduction, TLAPS

Stages == {"unsent", "priming", "asking", "backoff", "tools", "done"}
Busy == {"asking", "backoff", "tools"}
Mail == [turn : Turns, role : {"user", "assistant", "result"}, calls : Nat]
Progressing == [at : Stages, aborted : BOOLEAN, pass : {1, 2}, iteration : Nat, attempt : Nat,
                calls : Seq(Call), said : BOOLEAN, mutated : BOOLEAN,
                messages : Seq(Mail), built : Seq(Mail)]

ChatTypes ==
    /\ turn \in [Turns -> Progressing]
    /\ endedTurns \subseteq Turns
    /\ stream \in Seq(Event)
    /\ saved \in Seq(Mail)

-----------------------------------------------------------------------------
(***************************************************************************)
(* The stream                                                              *)
(***************************************************************************)
Told(s, e) == \E k \in 1..Len(s) : s[k] = e
StartOf(t) == Ev(t, "turn-start")

\* StreamOrdered, of any sequence of events.
Ordered(s) ==
    \A i, j \in 1..Len(s) : s[i].turn = s[j].turn =>
      /\ IsEnd(s[i]) => j <= i
      /\ s[j].type = "turn-start" => i >= j
      /\ s[i].type \notin {"abort", "turn-end"} => \E k \in 1..i : s[k] = StartOf(s[i].turn)
      /\ s[i].type = "result" => \E k \in 1..i : s[k] = [s[i] EXCEPT !.type = "ready"]

\* What turn t may say next, in one step, if it has not ended.
Fits(s, t, events) ==
    /\ events \in Seq(Event)
    /\ \A i \in 1..Len(s) : s[i].turn = t => ~ IsEnd(s[i])
    /\ \A i \in 1..Len(events) :
         /\ events[i].turn = t
         /\ IsEnd(events[i]) => i = Len(events)
         /\ events[i].type = "turn-start" =>
              i = 1 /\ events[1] = StartOf(t) /\ \A k \in 1..Len(s) : s[k].turn # t
         /\ events[i].type \notin {"abort", "turn-end"} =>
              Told(s, StartOf(t)) \/ events[1] = StartOf(t)
         /\ events[i].type = "result" => Told(s, [events[i] EXCEPT !.type = "ready"])

\* An element of a concatenation is an element of one of its parts.
LEMMA ConcatElements ==
  ASSUME NEW S, NEW s \in Seq(S), NEW e \in Seq(S)
  PROVE  /\ s \o e \in Seq(S) /\ Len(s \o e) = Len(s) + Len(e)
         /\ Len(s) \in Nat /\ Len(e) \in Nat
         /\ \A i \in 1..Len(s) : (s \o e)[i] = s[i]
         /\ \A i \in 1..Len(e) : (s \o e)[Len(s) + i] = e[i]
         /\ \A i \in 1..Len(s \o e) :
              i \in 1..Len(s) \/ \E k \in 1..Len(e) : i = Len(s) + k
  <1>1. /\ s \o e \in Seq(S) /\ Len(s \o e) = Len(s) + Len(e)
        /\ Len(s) \in Nat /\ Len(e) \in Nat
        /\ \A i \in 1..Len(s) : (s \o e)[i] = s[i]
        /\ \A i \in 1..Len(e) : (s \o e)[Len(s) + i] = e[i]
    OBVIOUS
  <1>2. ASSUME NEW i \in 1..Len(s \o e), i \notin 1..Len(s)
        PROVE  i - Len(s) \in 1..Len(e) /\ i = Len(s) + (i - Len(s))
    BY <1>1, <1>2
  <1> QED
    BY <1>1, <1>2

\* What fits keeps the order.
LEMMA OrderedConcat ==
  ASSUME NEW s \in Seq(Event), Ordered(s), NEW t \in Turns, NEW e, Fits(s, t, e)
  PROVE  Ordered(s \o e)
  <1> DEFINE c == s \o e
  <1> DEFINE n == Len(s)
  <1>1. e \in Seq(Event)
    BY DEF Fits
  <1>2. /\ c \in Seq(Event) /\ Len(c) = n + Len(e) /\ n \in Nat /\ Len(e) \in Nat
        /\ \A i \in 1..n : c[i] = s[i]
        /\ \A i \in 1..Len(e) : c[n + i] = e[i]
        /\ \A i \in 1..Len(c) : i \in 1..n \/ \E k \in 1..Len(e) : i = n + k
    BY <1>1, ConcatElements
  <1> HIDE DEF c, n
  <1> SUFFICES ASSUME NEW i \in 1..Len(c), NEW j \in 1..Len(c), c[i].turn = c[j].turn
               PROVE  /\ IsEnd(c[i]) => j <= i
                      /\ c[j].type = "turn-start" => i >= j
                      /\ c[i].type \notin {"abort", "turn-end"} =>
                           \E k \in 1..i : c[k] = StartOf(c[i].turn)
                      /\ c[i].type = "result" =>
                           \E k \in 1..i : c[k] = [c[i] EXCEPT !.type = "ready"]
    BY DEF Ordered, c
  <1>3. CASE i \in 1..n
    <2>1. c[i] = s[i] /\ \A k \in 1..i : k \in 1..n /\ c[k] = s[k]
      BY <1>2, <1>3
    <2>2. /\ s[i].type \notin {"abort", "turn-end"} => \E k \in 1..i : s[k] = StartOf(s[i].turn)
          /\ s[i].type = "result" => \E k \in 1..i : s[k] = [s[i] EXCEPT !.type = "ready"]
      BY <1>3 DEF Ordered, n
    <2>3. /\ c[i].type \notin {"abort", "turn-end"} => \E k \in 1..i : c[k] = StartOf(c[i].turn)
          /\ c[i].type = "result" => \E k \in 1..i : c[k] = [c[i] EXCEPT !.type = "ready"]
      BY <2>1, <2>2
    <2>4. CASE j \in 1..n
      <3>1. c[j] = s[j]
        BY <1>2, <2>4
      <3>2. (IsEnd(s[i]) => j <= i) /\ (s[j].type = "turn-start" => i >= j)
        BY <1>3, <2>1, <2>4, <3>1 DEF Ordered, n
      <3> QED
        BY <2>1, <2>3, <3>1, <3>2
    <2>5. CASE \E k \in 1..Len(e) : j = n + k
      <3> PICK k \in 1..Len(e) : j = n + k
        BY <2>5
      <3>1. c[j] = e[k] /\ s[i].turn = t
        BY <1>2, <2>1 DEF Fits
      <3>2. ~ IsEnd(s[i]) /\ e[k].type # "turn-start"
        BY <1>3, <3>1 DEF Fits, n
      <3> QED
        BY <2>1, <2>3, <3>1, <3>2
    <2> QED
      BY <1>2, <2>4, <2>5
  <1>4. CASE \E k \in 1..Len(e) : i = n + k
    <2> PICK k \in 1..Len(e) : i = n + k
      BY <1>4
    <2>1. c[i] = e[k] /\ e[k].turn = t
      BY <1>2 DEF Fits
    <2>2. IsEnd(c[i]) => j <= i
      <3>1. IsEnd(c[i]) => k = Len(e)
        BY <2>1 DEF Fits
      <3>2. j <= n + Len(e)
        BY <1>2
      <3> QED
        BY <3>1, <3>2
    <2>3. c[j].type = "turn-start" => i >= j
      <3>1. CASE j \in 1..n
        BY <1>2, <3>1
      <3>2. CASE \E l \in 1..Len(e) : j = n + l
        <4> PICK l \in 1..Len(e) : j = n + l
          BY <3>2
        <4>1. c[j] = e[l]
          BY <1>2
        <4>2. c[j].type = "turn-start" => l = 1
          BY <4>1 DEF Fits
        <4> QED
          BY <1>2, <4>2
      <3> QED
        BY <1>2, <3>1, <3>2
    <2>4. ASSUME c[i].type \notin {"abort", "turn-end"}
          PROVE  \E l \in 1..i : c[l] = StartOf(c[i].turn)
      <3>1. Told(s, StartOf(t)) \/ e[1] = StartOf(t)
        BY <2>1, <2>4 DEF Fits
      <3>2. CASE Told(s, StartOf(t))
        <4> PICK l \in 1..n : s[l] = StartOf(t)
          BY <3>2 DEF Told, n
        <4>1. c[l] = StartOf(t) /\ l \in 1..i
          BY <1>2
        <4> QED
          BY <2>1, <4>1
      <3>3. CASE e[1] = StartOf(t)
        <4>1. 1 \in 1..Len(e) /\ n + 1 \in 1..i
          BY <1>2
        <4>2. c[n + 1] = StartOf(t)
          BY <1>2, <3>3, <4>1
        <4> QED
          BY <2>1, <4>1, <4>2
      <3> QED
        BY <3>1, <3>2, <3>3
    <2>5. ASSUME c[i].type = "result"
          PROVE  \E l \in 1..i : c[l] = [c[i] EXCEPT !.type = "ready"]
      <3>1. Told(s, [e[k] EXCEPT !.type = "ready"])
        BY <2>1, <2>5 DEF Fits
      <3> PICK l \in 1..n : s[l] = [e[k] EXCEPT !.type = "ready"]
        BY <3>1 DEF Told, n
      <3>2. c[l] = [c[i] EXCEPT !.type = "ready"] /\ l \in 1..i
        BY <1>2, <2>1
      <3> QED
        BY <3>2
    <2> QED
      BY <2>2, <2>3, <2>4, <2>5
  <1> QED
    BY <1>2, <1>3, <1>4

\* An event of a turn that was told of, or the abort of one, fits.
LEMMA FitsSingle ==
  ASSUME NEW s \in Seq(Event), NEW t \in Turns, NEW x \in Event, x.turn = t,
         \A i \in 1..Len(s) : s[i].turn = t => ~ IsEnd(s[i]),
         \/ x.type = "abort"
         \/ x.type \in {"text", "ready", "result", "error"} /\ Told(s, StartOf(t)),
         x.type = "result" => Told(s, [x EXCEPT !.type = "ready"])
  PROVE  Fits(s, t, <<x>>) /\ \A i \in 1..Len(<<x>>) : ~ IsEnd(<<x>>[i])
  <1>1. <<x>> \in Seq(Event) /\ Len(<<x>>) = 1 /\ \A i \in 1..Len(<<x>>) : <<x>>[i] = x
    OBVIOUS
  <1>2. ~ IsEnd(x) /\ x.type # "turn-start"
    BY DEF IsEnd
  <1> DEFINE e == <<x>>
  <1> HIDE DEF e
  <1>3. e \in Seq(Event) /\ \A i \in 1..Len(e) : e[i] = x
    BY <1>1 DEF e
  <1>4. Fits(s, t, e)
    BY <1>2, <1>3 DEF Fits
  <1> QED
    BY <1>2, <1>3, <1>4 DEF e

\* So does nothing.
LEMMA FitsNone ==
  ASSUME NEW s \in Seq(Event), NEW t \in Turns,
         \A i \in 1..Len(s) : s[i].turn = t => ~ IsEnd(s[i])
  PROVE  Fits(s, t, << >>) /\ \A i \in 1..Len(<< >>) : ~ IsEnd(<< >>[i])
  BY DEF Fits

\* An abort or a turn-end may follow what fits.
LEMMA FitsAppend ==
  ASSUME NEW s \in Seq(Event), NEW t \in Turns, NEW events, Fits(s, t, events),
         \A i \in 1..Len(events) : ~ IsEnd(events[i]),
         NEW x \in Event, x.turn = t, x.type \in {"abort", "turn-end"}
  PROVE  /\ Fits(s, t, Append(events, x))
         /\ x.type = "abort" => \A i \in 1..Len(Append(events, x)) : ~ IsEnd(Append(events, x)[i])
  <1> DEFINE e == Append(events, x)
  <1> DEFINE n == Len(events)
  <1>1. events \in Seq(Event)
    BY DEF Fits
  <1>2. /\ e \in Seq(Event) /\ Len(e) = n + 1 /\ n \in Nat
        /\ \A i \in 1..n : e[i] = events[i]
        /\ e[n + 1] = x
    BY <1>1
  <1> HIDE DEF e, n
  <1>3. \A i \in 1..Len(e) : i \in 1..n \/ i = n + 1
    BY <1>2
  <1>4. ASSUME NEW i \in 1..Len(e)
        PROVE  /\ e[i].turn = t
               /\ IsEnd(e[i]) => i = Len(e)
               /\ e[i].type = "turn-start" =>
                    i = 1 /\ e[1] = StartOf(t) /\ \A k \in 1..Len(s) : s[k].turn # t
               /\ e[i].type \notin {"abort", "turn-end"} =>
                    Told(s, StartOf(t)) \/ e[1] = StartOf(t)
               /\ e[i].type = "result" => Told(s, [e[i] EXCEPT !.type = "ready"])
    <2>1. CASE i \in 1..n
      <3>1. e[i] = events[i] /\ 1 \in 1..n /\ e[1] = events[1] /\ ~ IsEnd(events[i])
        BY <1>2, <2>1 DEF n
      <3>2. /\ events[i].turn = t
            /\ events[i].type = "turn-start" =>
                 i = 1 /\ events[1] = StartOf(t) /\ \A k \in 1..Len(s) : s[k].turn # t
            /\ events[i].type \notin {"abort", "turn-end"} =>
                 Told(s, StartOf(t)) \/ events[1] = StartOf(t)
            /\ events[i].type = "result" => Told(s, [events[i] EXCEPT !.type = "ready"])
        BY <2>1 DEF Fits, n
      <3> QED
        BY <3>1, <3>2
    <2>2. CASE i = n + 1
      BY <1>2, <2>2
    <2> QED
      BY <1>3, <2>1, <2>2
  <1>5. Fits(s, t, e)
    BY <1>2, <1>4 DEF Fits
  <1>6. x.type = "abort" => \A i \in 1..Len(e) : ~ IsEnd(e[i])
    <2> SUFFICES ASSUME x.type = "abort", NEW i \in 1..Len(e)
                 PROVE  ~ IsEnd(e[i])
      OBVIOUS
    <2>1. CASE i \in 1..n
      BY <1>2, <2>1 DEF n
    <2>2. CASE i = n + 1
      BY <1>2, <2>2 DEF IsEnd
    <2> QED
      BY <1>3, <2>1, <2>2
  <1> QED
    BY <1>5, <1>6 DEF e

\* The events.
LEMMA EvFields ==
  ASSUME NEW t \in Turns,
         NEW type \in {"turn-start", "text", "ready", "result", "error", "abort", "turn-end"}
  PROVE  Ev(t, type) \in Event /\ Ev(t, type).turn = t /\ Ev(t, type).type = type
  <1>1. << >> \in Seq(Nat)
    OBVIOUS
  <1> QED
    BY <1>1 DEF Ev, Event

\* The end of a turn names its reason.
LEMMA EndEvFields ==
  ASSUME NEW t \in Turns, NEW reason \in Reasons
  PROVE  EndEv(t, reason) \in Event /\ EndEv(t, reason).turn = t
         /\ EndEv(t, reason).type = "turn-end"
  <1>1. Ev(t, "turn-end") \in Event /\ Ev(t, "turn-end").turn = t
        /\ Ev(t, "turn-end").type = "turn-end"
    BY EvFields
  <1> QED
    BY <1>1 DEF EndEv, Event

\* A call's result is its ready event with another type.
LEMMA CallEvFields ==
  ASSUME NEW t \in Turns, NEW r \in Progressing, NEW i \in Nat, NEW type \in {"ready", "result"}
  PROVE  /\ CallEv(t, r, type, i) \in Event /\ CallEv(t, r, type, i).turn = t
         /\ CallEv(t, r, type, i).type = type
         /\ [CallEv(t, r, type, i) EXCEPT !.type = "ready"] = CallEv(t, r, "ready", i)
  <1>1. \A y \in {"ready", "result"} :
           Ev(t, y) \in Event /\ Ev(t, y).turn = t /\ Ev(t, y).type = y
    BY EvFields
  <1>2. CallId(r, i) \in Seq(Nat)
    BY DEF CallId, Progressing
  <1>3. /\ CallEv(t, r, type, i) \in Event /\ CallEv(t, r, type, i).turn = t
        /\ CallEv(t, r, type, i).type = type
    BY <1>1, <1>2 DEF CallEv, Event
  <1>4. [CallEv(t, r, type, i) EXCEPT !.type = "ready"] = CallEv(t, r, "ready", i)
    <2> PICK c : c = CallId(r, i)
      OBVIOUS
    <2>1. \A y : CallEv(t, r, y, i) = [turn |-> t, type |-> y, id |-> c, reason |-> "none"]
      BY DEF CallEv, Ev
    <2>2. [[turn |-> t, type |-> type, id |-> c, reason |-> "none"] EXCEPT !.type = "ready"]
            = [turn |-> t, type |-> "ready", id |-> c, reason |-> "none"]
      OBVIOUS
    <2> QED
      BY <2>1, <2>2
  <1> QED
    BY <1>3, <1>4

-----------------------------------------------------------------------------
(***************************************************************************)
(* The invariant                                                           *)
(*                                                                         *)
(* A turn that ended for its readers is over or aborted, and an aborted    *)
(* one goes nowhere but to its end. Any other turn has told its start, and *)
(* every call it got ready.                                                *)
(***************************************************************************)
EndsKnown == \A i \in 1..Len(stream) : IsEnd(stream[i]) => stream[i].turn \in endedTurns

Fate(t) ==
    /\ turn[t].at = "unsent" => t \notin endedTurns /\ ~ turn[t].aborted
    /\ turn[t].at = "done" => t \in endedTurns
    /\ t \in endedTurns => turn[t].at = "done" \/ turn[t].aborted

Silent(s, t) == \A i \in 1..Len(s) : s[i].turn # t

Announced(t) ==
    t \notin endedTurns =>
      /\ turn[t].at \in {"unsent", "priming"} => Silent(stream, t)
      /\ turn[t].at \in Busy => Told(stream, StartOf(t))
      /\ turn[t].at \in {"asking", "tools"} =>
           \A i \in 1..Len(turn[t].calls) : Told(stream, CallEv(t, turn[t], "ready", i))

\* WritesInOrder, of any sequence of calls.
Orderly(calls) ==
    \A i, j \in DOMAIN calls :
       i < j /\ calls[i].kind = "write" /\ calls[j].kind = "write" /\ calls[j].state # "ready" =>
         Settled(calls[i])

\* What may start has started, unless the turn is aborted.
NothingWaits(r) ==
    r.at = "tools" /\ ~ r.aborted => \A i \in DOMAIN r.calls : ~ MayStart(r.calls, i)

\* The calls of the first n messages are followed by their results among them.
PairedTo(messages, n) ==
    \A i \in 1..n : messages[i].role = "assistant" =>
       \A k \in 1..messages[i].calls :
          /\ i + k <= n
          /\ messages[i + k].role = "result"
          /\ messages[i + k].turn = messages[i].turn
Paired(messages) == PairedTo(messages, Len(messages))

\* The last message has the calls that run, all others are paired.
AtWork(t, messages, c) ==
    LET n == Len(messages) IN
    /\ n > 0 /\ messages[n] = Says(t, "assistant", c)
    /\ PairedTo(messages, n - 1)

Books(t) ==
    ~ CutCalls =>
      /\ Paired(turn[t].built)
      /\ turn[t].at \in {"asking", "backoff"} => Paired(turn[t].messages)
      /\ turn[t].at = "tools" => AtWork(t, turn[t].messages, Len(turn[t].calls))

TurnInv(t) ==
    Fate(t) /\ Announced(t) /\ Orderly(turn[t].calls) /\ NothingWaits(turn[t]) /\ Books(t)

StreamInv == Ordered(stream) /\ EndsKnown

ChatInv ==
    /\ ChatTypes /\ StreamInv
    /\ ~ CutCalls => Paired(saved)
    /\ \A t \in Turns : TurnInv(t)

-----------------------------------------------------------------------------
(***************************************************************************)
(* What an emission does                                                   *)
(***************************************************************************)
\* The stream has grown by events of turn t, which may have ended it.
Grown(t) ==
    /\ stream' \in Seq(Event)
    /\ \A x : Told(stream, x) => Told(stream', x)
    /\ \A u \in Turns : u # t /\ Silent(stream, u) => Silent(stream', u)
    /\ \A u \in Turns : u # t => (u \in endedTurns' <=> u \in endedTurns)
    /\ endedTurns \subseteq endedTurns' /\ endedTurns' \subseteq Turns

\* A turn that has not ended has no turn-end.
LEMMA NoEndYet ==
  ASSUME ChatInv, NEW t \in Turns, t \notin endedTurns
  PROVE  stream \in Seq(Event) /\ \A i \in 1..Len(stream) : stream[i].turn = t => ~ IsEnd(stream[i])
  BY DEF ChatInv, ChatTypes, StreamInv, EndsKnown

\* What the sink does with events that fit, or with those of a turn that has ended.
LEMMA EmitStep ==
  ASSUME ChatInv, NEW t \in Turns, NEW e, e \in Seq(Event), Emit(t, e),
         t \in endedTurns \/ Fits(stream, t, e)
  PROVE  /\ Grown(t) /\ StreamInv'
         /\ t \notin endedTurns => \A i \in 1..Len(e) : Told(stream', e[i])
         /\ (\A i \in 1..Len(e) : ~ IsEnd(e[i])) => endedTurns' = endedTurns
         /\ e # << >> /\ IsEnd(e[Len(e)]) => t \in endedTurns'
  <1>1. stream \in Seq(Event) /\ endedTurns \subseteq Turns /\ Ordered(stream) /\ EndsKnown
    BY DEF ChatInv, ChatTypes, StreamInv
  <1>2. endedTurns' = IF e # << >> /\ IsEnd(e[Len(e)]) THEN endedTurns \cup {t} ELSE endedTurns
    BY DEF Emit, IsEnd, Last
  <1>3. /\ \A u \in Turns : u # t => (u \in endedTurns' <=> u \in endedTurns)
        /\ endedTurns \subseteq endedTurns' /\ endedTurns' \subseteq Turns
    BY <1>1, <1>2
  <1>4. (\A i \in 1..Len(e) : ~ IsEnd(e[i])) => endedTurns' = endedTurns
    <2>1. e # << >> => Len(e) \in 1..Len(e)
      OBVIOUS
    <2> QED
      BY <1>2, <2>1
  <1>5. CASE t \in endedTurns
    <2>1. stream' = stream
      BY <1>5 DEF Emit
    <2>2. StreamInv'
      BY <1>1, <1>3, <2>1 DEF StreamInv, EndsKnown
    <2> QED
      BY <1>1, <1>2, <1>3, <1>4, <1>5, <2>1, <2>2 DEF Grown
  <1>6. CASE t \notin endedTurns
    <2>1. stream' = stream \o e /\ Fits(stream, t, e)
      BY <1>6 DEF Emit
    <2> DEFINE n == Len(stream)
    <2>2. /\ stream' \in Seq(Event) /\ Len(stream') = n + Len(e)
          /\ n \in Nat /\ Len(e) \in Nat
          /\ \A i \in 1..n : stream'[i] = stream[i]
          /\ \A i \in 1..Len(e) : stream'[n + i] = e[i]
          /\ \A i \in 1..Len(stream') : i \in 1..n \/ \E k \in 1..Len(e) : i = n + k
      BY <1>1, <2>1, ConcatElements
    <2> HIDE DEF n
    <2>3. Ordered(stream')
      BY <1>1, <2>1, OrderedConcat
    <2>4. ASSUME NEW x, Told(stream, x)
          PROVE  Told(stream', x)
      <3> PICK k \in 1..n : stream[k] = x
        BY <2>4 DEF Told, n
      <3>1. k \in 1..Len(stream') /\ stream'[k] = x
        BY <2>2
      <3> QED
        BY <3>1 DEF Told
    <2>5. ASSUME NEW i \in 1..Len(e)
          PROVE  Told(stream', e[i])
      <3>1. n + i \in 1..Len(stream') /\ stream'[n + i] = e[i]
        BY <2>2
      <3> QED
        BY <3>1 DEF Told
    <2>6. ASSUME NEW u \in Turns, u # t, Silent(stream, u)
          PROVE  Silent(stream', u)
      <3> SUFFICES ASSUME NEW i \in 1..Len(stream')
                   PROVE  stream'[i].turn # u
        BY DEF Silent
      <3>1. CASE i \in 1..n
        BY <2>2, <2>6, <3>1 DEF Silent, n
      <3>2. CASE \E k \in 1..Len(e) : i = n + k
        <4> PICK k \in 1..Len(e) : i = n + k
          BY <3>2
        <4>1. stream'[i] = e[k] /\ e[k].turn = t
          BY <2>1, <2>2 DEF Fits
        <4> QED
          BY <2>6, <4>1
      <3> QED
        BY <2>2, <3>1, <3>2
    <2>7. EndsKnown'
      <3> SUFFICES ASSUME NEW i \in 1..Len(stream'), IsEnd(stream'[i])
                   PROVE  stream'[i].turn \in endedTurns'
        BY DEF EndsKnown
      <3>1. CASE i \in 1..n
        BY <1>1, <1>3, <2>2, <3>1 DEF EndsKnown, n
      <3>2. CASE \E k \in 1..Len(e) : i = n + k
        <4> PICK k \in 1..Len(e) : i = n + k
          BY <3>2
        <4>1. stream'[i] = e[k] /\ e[k].turn = t /\ k = Len(e)
          BY <2>1, <2>2 DEF Fits
        <4>2. e # << >>
          BY <2>2
        <4> QED
          BY <1>2, <4>1, <4>2
      <3> QED
        BY <2>2, <3>1, <3>2
    <2> QED
      BY <1>2, <1>3, <1>4, <2>2, <2>3, <2>4, <2>5, <2>6, <2>7 DEF Grown, StreamInv
  <1> QED
    BY <1>5, <1>6

\* Another turn sees nothing of it.
LEMMA OtherTurns ==
  ASSUME ChatInv, NEW t \in Turns, NEW u \in Turns, u # t, turn'[u] = turn[u], Grown(t)
  PROVE  TurnInv(u)'
  <1>1. TurnInv(u)
    BY DEF ChatInv
  <1>2. u \in endedTurns' <=> u \in endedTurns
    BY DEF Grown
  <1>3. Fate(u)'
    BY <1>1, <1>2 DEF TurnInv, Fate
  <1>4. Announced(u)'
    BY <1>1, <1>2 DEF TurnInv, Announced, Grown, CallEv, CallId
  <1>5. Orderly(turn'[u].calls) /\ NothingWaits(turn'[u])
    BY <1>1 DEF TurnInv
  <1>6. Books(u)'
    BY <1>1 DEF TurnInv, Books
  <1> QED
    BY <1>3, <1>4, <1>5, <1>6 DEF TurnInv

\* An invariant step of turn t: what is left to show is about t alone.
LEMMA TurnStep ==
  ASSUME ChatInv, NEW t \in Turns, NEW r \in Progressing,
         turn' = [turn EXCEPT ![t] = r], Grown(t), StreamInv',
         saved' \in Seq(Mail), ~ CutCalls => Paired(saved'),
         TurnInv(t)'
  PROVE  ChatInv'
  <1>1. /\ turn' \in [Turns -> Progressing] /\ turn'[t] = r
        /\ \A u \in Turns \ {t} : turn'[u] = turn[u]
    BY DEF ChatInv, ChatTypes
  <1>2. ChatTypes'
    BY <1>1 DEF ChatTypes, Grown
  <1>3. \A u \in Turns : TurnInv(u)'
    <2> TAKE u \in Turns
    <2>1. CASE u = t
      BY <2>1
    <2>2. CASE u # t
      BY <1>1, <2>2, OtherTurns
    <2> QED
      BY <2>1, <2>2
  <1> QED
    BY <1>2, <1>3 DEF ChatInv

-----------------------------------------------------------------------------
(***************************************************************************)
(* Messages                                                                *)
(***************************************************************************)
\* A message of a turn is a message.
LEMMA SaysFields ==
  ASSUME NEW t \in Turns, NEW role \in {"user", "assistant", "result"}, NEW c \in Nat
  PROVE  /\ Says(t, role, c) \in Mail /\ Says(t, role, c).turn = t
         /\ Says(t, role, c).role = role /\ Says(t, role, c).calls = c
  BY DEF Says, Mail

\* Messages that stay paired: another one that asks for no results follows.
LEMMA PairedAppend ==
  ASSUME NEW m \in Seq(Mail), Paired(m), NEW x \in Mail, x.role # "assistant" \/ x.calls = 0
  PROVE  Append(m, x) \in Seq(Mail) /\ Paired(Append(m, x))
  <1> DEFINE a == Append(m, x)
  <1> DEFINE n == Len(m)
  <1>1. /\ a \in Seq(Mail) /\ Len(a) = n + 1 /\ n \in Nat
        /\ \A i \in 1..n : a[i] = m[i]
        /\ a[n + 1] = x
    OBVIOUS
  <1> HIDE DEF a
  <1>2. ASSUME NEW i \in 1..(n + 1), a[i].role = "assistant", NEW k \in 1..a[i].calls
        PROVE  i + k <= n + 1 /\ a[i + k].role = "result" /\ a[i + k].turn = a[i].turn
    <2>1. CASE i = n + 1
      BY <1>1, <1>2, <2>1
    <2>2. CASE i # n + 1
      <3>1. i \in 1..n /\ a[i] = m[i]
        BY <1>1, <2>2
      <3>2. i + k <= n /\ m[i + k].role = "result" /\ m[i + k].turn = m[i].turn
        BY <1>2, <3>1 DEF Paired, PairedTo
      <3>3. m[i] \in Mail
        BY <3>1
      <3>4. k \in Nat
        BY <1>2
      <3>5. i + k \in 1..n
        BY <1>1, <3>1, <3>2, <3>4, <1>2
      <3> QED
        BY <1>1, <3>1, <3>2, <3>5
    <2> QED
      BY <2>1, <2>2
  <1>3. Paired(a)
    BY <1>1, <1>2 DEF Paired, PairedTo
  <1> QED
    BY <1>1, <1>3 DEF a

\* The message with the calls follows.
LEMMA WorkBegins ==
  ASSUME NEW m \in Seq(Mail), Paired(m), NEW t \in Turns, NEW c \in Nat
  PROVE  AtWork(t, Append(m, Says(t, "assistant", c)), c)
  <1> DEFINE x == Says(t, "assistant", c)
  <1> DEFINE a == Append(m, x)
  <1> DEFINE n == Len(m)
  <1>1. x \in Mail
    BY SaysFields
  <1>2. /\ Len(a) = n + 1 /\ n \in Nat
        /\ \A i \in 1..n : a[i] = m[i]
        /\ a[n + 1] = x
    BY <1>1
  <1> HIDE DEF a, x
  <1>3. PairedTo(a, n)
    <2> SUFFICES ASSUME NEW i \in 1..n, a[i].role = "assistant", NEW k \in 1..a[i].calls
                 PROVE  i + k <= n /\ a[i + k].role = "result" /\ a[i + k].turn = a[i].turn
      BY DEF PairedTo
    <2>1. a[i] = m[i]
      BY <1>2
    <2>2. i + k <= n /\ m[i + k].role = "result" /\ m[i + k].turn = m[i].turn
      BY <2>1 DEF Paired, PairedTo
    <2>3. i + k \in 1..n
      BY <1>2, <2>2
    <2> QED
      BY <1>2, <2>1, <2>2, <2>3
  <1>4. n + 1 > 0 /\ (n + 1) - 1 = n
    BY <1>2
  <1> QED
    BY <1>2, <1>3, <1>4 DEF AtWork, a, x

\* The results of all its calls follow: every call has its result again.
LEMMA WorkEnds ==
  ASSUME NEW m \in Seq(Mail), NEW t \in Turns, NEW c \in Nat, AtWork(t, m, c)
  PROVE  Paired(m \o [i \in 1..c |-> Says(t, "result", 0)])
  <1> DEFINE x == Says(t, "result", 0)
  <1> DEFINE e == [i \in 1..c |-> x]
  <1> DEFINE a == m \o e
  <1> DEFINE n == Len(m)
  <1>1. x \in Mail /\ x.turn = t /\ x.role = "result"
    BY SaysFields
  <1>2. e \in Seq(Mail) /\ Len(e) = c /\ \A i \in 1..c : e[i] = x
    BY <1>1
  <1> HIDE DEF e, x
  <1>3. /\ Len(a) = n + c /\ n \in Nat
        /\ \A i \in 1..n : a[i] = m[i]
        /\ \A i \in 1..c : a[n + i] = e[i]
        /\ \A i \in 1..Len(a) : i \in 1..n \/ \E k \in 1..c : i = n + k
    BY ZenonT(60), <1>2, ConcatElements
  <1> HIDE DEF a
  <1>4. /\ n > 0 /\ m[n] = Says(t, "assistant", c)
        /\ PairedTo(m, n - 1)
    BY DEF AtWork
  <1>5. m[n].calls = c /\ m[n].turn = t /\ m[n].role = "assistant"
    BY <1>4, SaysFields
  <1> HIDE DEF n
  <1>6. ASSUME NEW i \in 1..(n + c), a[i].role = "assistant", NEW k \in 1..a[i].calls
        PROVE  i + k <= n + c /\ a[i + k].role = "result" /\ a[i + k].turn = a[i].turn
    <2>1. CASE i = n
      <3>1. k \in 1..c /\ a[i] = m[n]
        <4>1. n \in 1..n
          BY <1>3, <1>4
        <4>2. a[i] = m[n]
          BY <1>3, <2>1, <4>1
        <4>3. a[i].calls = c
          BY <1>5, <4>2
        <4> QED
          BY <1>6, <4>2, <4>3
      <3>2. a[n + k] = x
        BY <1>2, <1>3, <3>1
      <3> QED
        BY <1>1, <1>3, <1>5, <2>1, <3>1, <3>2
    <2>2. CASE i \in 1..(n - 1)
      <3>1. a[i] = m[i]
        BY <1>3, <2>2
      <3>2. i + k <= n - 1 /\ m[i + k].role = "result" /\ m[i + k].turn = m[i].turn
        BY <1>4, <1>6, <2>2, <3>1 DEF PairedTo
      <3>3. k \in Nat
        BY <1>6
      <3>4. i + k \in 1..n
        BY <1>3, <2>2, <3>2, <3>3
      <3> QED
        BY <1>3, <3>1, <3>2, <3>4
    <2>3. CASE \E l \in 1..c : i = n + l
      BY <1>1, <1>2, <1>3, <1>6, <2>3
    <2> QED
      BY <1>3, <2>1, <2>2, <2>3
  <1>7. Paired(a)
    BY <1>3, <1>6 DEF Paired, PairedTo
  <1> QED
    BY <1>7 DEF a, e, x

-----------------------------------------------------------------------------
(***************************************************************************)
(* A turn's record                                                         *)
(***************************************************************************)
\* The next provider turn of a run begins.
LEMMA AsksFields ==
  ASSUME NEW r \in Progressing
  PROVE  /\ Asks(r) \in Progressing /\ Asks(r).at = "asking" /\ Asks(r).calls = << >>
         /\ Asks(r).aborted = r.aborted /\ Asks(r).messages = r.messages
         /\ Asks(r).built = r.built
  <1>1. << >> \in Seq(Call)
    OBVIOUS
  <1>2. Asks(r) \in Progressing /\ Asks(r).at = "asking" /\ Asks(r).calls = << >>
    BY <1>1 DEF Asks, Progressing, Stages
  <1>3. Asks(r).messages = r.messages /\ Asks(r).built = r.built
    BY DEF Asks, Progressing
  <1>4. Asks(r).aborted = r.aborted
    BY DEF Asks, Progressing
  <1> QED
    BY <1>2, <1>3, <1>4

\* What is left of a turn that is over.
LEMMA EndedFields ==
  ASSUME NEW r \in Progressing
  PROVE  /\ Ended(r) \in Progressing /\ Ended(r).at = "done" /\ Ended(r).calls = << >>
         /\ Ended(r).aborted = r.aborted /\ Ended(r).built = << >>
  <1>1. << >> \in Seq(Call) /\ << >> \in Seq(Mail)
    OBVIOUS
  <1>2. r.aborted \in BOOLEAN
    BY DEF Progressing
  <1>3. Ended(r) \in Progressing
    BY <1>1, <1>2 DEF Ended, Unsent, Progressing, Stages
  <1>4. /\ Ended(r).at = "done" /\ Ended(r).calls = << >> /\ Ended(r).built = << >>
    BY DEF Ended, Unsent
  <1>5. Ended(r).aborted = r.aborted
    BY DEF Ended, Unsent
  <1> QED
    BY <1>3, <1>4, <1>5

\* The review pass begins with one more message.
LEMMA ReviewFields ==
  ASSUME NEW r \in Progressing, NEW x \in Mail
  PROVE  LET q == [r EXCEPT !.pass = 2, !.iteration = 0, !.built = r.messages,
                            !.messages = Append(@, x)]
         IN  /\ q \in Progressing /\ q.aborted = r.aborted
             /\ q.messages = Append(r.messages, x) /\ q.built = r.messages
  <1> DEFINE m == Append(r.messages, x)
  <1> DEFINE q == [r EXCEPT !.pass = 2, !.iteration = 0, !.built = r.messages, !.messages = m]
  <1>1. r.messages \in Seq(Mail) /\ m \in Seq(Mail)
    BY DEF Progressing
  <1> HIDE DEF m
  <1>2. q \in Progressing
    BY <1>1 DEF Progressing
  <1>3. q.messages = m /\ q.built = r.messages
    BY DEF Progressing
  <1>4. q.aborted = r.aborted
    BY DEF Progressing
  <1> QED
    BY <1>2, <1>3, <1>4 DEF m

-----------------------------------------------------------------------------
(***************************************************************************)
(* The steps of a turn                                                     *)
(***************************************************************************)
\* The end of a run, or of its first pass: whatever it says before, its turn-end is last.
LEMMA FinishStep ==
  ASSUME ChatInv, NEW t \in Turns, NEW r \in Progressing, NEW events, NEW reason \in Reasons,
         Finish(t, r, events, reason),
         r.aborted = turn[t].aborted,
         turn[t].at \notin {"unsent", "done"},
         turn[t].at \in Busy \/ r.aborted,
         events \in Seq(Event), \A i \in 1..Len(events) : ~ IsEnd(events[i]),
         t \in endedTurns \/ Fits(stream, t, events),
         ~ CutCalls => Paired(r.built) /\ (reason # "aborted" => Paired(r.messages))
  PROVE  ChatInv'
  <1>1. TurnInv(t) /\ turn \in [Turns -> Progressing] /\ saved \in Seq(Mail)
        /\ (~ CutCalls => Paired(saved))
    BY DEF ChatInv, ChatTypes
  <1>2. CASE Reviews(r, reason) /\ StartReview(t, r, events)
    <2> DEFINE x == Says(t, "user", 0)
    <2> DEFINE q == [r EXCEPT !.pass = 2, !.iteration = 0, !.built = r.messages,
                              !.messages = Append(@, x)]
    <2>1. x \in Mail /\ x.role = "user"
      BY SaysFields
    <2>2. /\ q \in Progressing /\ q.aborted = r.aborted
          /\ q.messages = Append(r.messages, x) /\ q.built = r.messages
      BY <2>1, ReviewFields
    <2>3. turn' = [turn EXCEPT ![t] = Asks(q)] /\ Emit(t, events) /\ saved' = saved
      BY <1>2 DEF StartReview
    <2>4. reason = "end" /\ ~ r.aborted
      BY <1>2 DEF Reviews
    <2> HIDE DEF q, x
    <2>5. /\ Asks(q) \in Progressing /\ Asks(q).at = "asking" /\ Asks(q).calls = << >>
          /\ Asks(q).aborted = q.aborted /\ Asks(q).messages = q.messages
          /\ Asks(q).built = q.built
      BY <2>2, AsksFields
    <2>6. Grown(t) /\ StreamInv' /\ endedTurns' = endedTurns
      BY <2>3, EmitStep
    <2>7. turn'[t] = Asks(q)
      BY <1>1, <2>3
    <2>8. t \notin endedTurns
      BY <1>1, <2>4 DEF TurnInv, Fate
    <2>9. Fate(t)'
      BY <2>5, <2>6, <2>7, <2>8 DEF Fate
    <2>10. Announced(t)'
      <3>1. Told(stream, StartOf(t))
        BY <1>1, <2>4, <2>8 DEF TurnInv, Announced
      <3>2. Told(stream', StartOf(t))
        BY <2>6, <3>1 DEF Grown
      <3>3. Len(turn'[t].calls) = 0
        BY <2>5, <2>7
      <3> QED
        BY <2>5, <2>7, <3>2, <3>3 DEF Announced
    <2>11. Orderly(turn'[t].calls) /\ NothingWaits(turn'[t])
      BY <2>5, <2>7 DEF Orderly, NothingWaits
    <2>12. Books(t)'
      <3>1. ~ CutCalls => Paired(r.messages)
        BY <2>4
      <3>2. r.messages \in Seq(Mail)
        BY DEF Progressing
      <3>3. ~ CutCalls => Paired(Append(r.messages, x))
        BY <2>1, <3>1, <3>2, PairedAppend
      <3> QED
        BY <2>2, <2>5, <2>7, <3>1, <3>3 DEF Books
    <2> QED
      BY <1>1, <2>3, <2>5, <2>6, <2>9, <2>10, <2>11, <2>12, TurnStep DEF TurnInv
  <1>3. CASE /\ ~ Reviews(r, reason)
             /\ turn' = [turn EXCEPT ![t] = Ended(r)]
             /\ Emit(t, Append(events, EndEv(t, reason)))
             /\ saved' = Kept(r, reason)
             /\ UNCHANGED widget
    <2> DEFINE x == EndEv(t, reason)
    <2> DEFINE e == Append(events, x)
    <2>1. x \in Event /\ x.turn = t /\ x.type = "turn-end"
      BY EndEvFields
    <2>2. Emit(t, e)
      BY <1>3
    <2> HIDE DEF x
    <2>3. e \in Seq(Event) /\ e # << >> /\ IsEnd(e[Len(e)])
      BY <2>1 DEF IsEnd
    <2>4. t \in endedTurns \/ Fits(stream, t, e)
      BY <2>1, NoEndYet, FitsAppend
    <2> HIDE DEF e
    <2>5. Grown(t) /\ StreamInv' /\ t \in endedTurns'
      BY <2>2, <2>3, <2>4, EmitStep
    <2>6. /\ Ended(r) \in Progressing /\ Ended(r).at = "done" /\ Ended(r).calls = << >>
          /\ Ended(r).built = << >>
      BY EndedFields
    <2>7. turn'[t] = Ended(r)
      BY <1>1, <1>3
    <2>8. TurnInv(t)'
      <3>1. Fate(t)' /\ Announced(t)'
        BY <2>5, <2>6, <2>7 DEF Fate, Announced
      <3>2. Orderly(turn'[t].calls) /\ NothingWaits(turn'[t])
        BY <2>6, <2>7 DEF Orderly, NothingWaits
      <3>3. Paired(<< >>)
        BY DEF Paired, PairedTo
      <3>4. Books(t)'
        BY <2>6, <2>7, <3>3 DEF Books
      <3> QED
        BY <3>1, <3>2, <3>4 DEF TurnInv
    <2>9. Kept(r, reason) \in Seq(Mail) /\ (~ CutCalls => Paired(Kept(r, reason)))
      <3>1. r.messages \in Seq(Mail) /\ r.built \in Seq(Mail)
        BY DEF Progressing
      <3>2. CASE reason # "aborted"
        BY <3>1, <3>2 DEF Kept
      <3>3. CASE reason = "aborted" /\ r.pass = 2
        BY <3>1, <3>3 DEF Kept
      <3>4. CASE reason = "aborted" /\ r.pass # 2
        BY <1>1, <3>4 DEF Kept
      <3> QED
        BY <3>2, <3>3, <3>4
    <2> QED
      BY <1>3, <2>5, <2>6, <2>8, <2>9, TurnStep
  <1> QED
    BY <1>2, <1>3 DEF Finish

\* A run that its abort ends.
LEMMA AbortFinishStep ==
  ASSUME ChatInv, NEW t \in Turns, turn[t].at \in {"asking", "backoff"}, turn[t].aborted,
         AbortFinish(t, turn[t])
  PROVE  ChatInv'
  <1> DEFINE x == Ev(t, "abort")
  <1>1. TurnInv(t) /\ turn[t] \in Progressing
    BY DEF ChatInv, ChatTypes
  <1>2. x \in Event /\ x.turn = t /\ x.type = "abort"
    BY EvFields
  <1>3. Finish(t, turn[t], <<x>>, "aborted")
    BY DEF AbortFinish
  <1> HIDE DEF x
  <1>4. <<x>> \in Seq(Event) /\ \A i \in 1..Len(<<x>>) : ~ IsEnd(<<x>>[i])
    BY <1>2 DEF IsEnd
  <1>5. t \in endedTurns \/ Fits(stream, t, <<x>>)
    BY <1>2, NoEndYet, FitsSingle
  <1>6. ~ CutCalls => Paired(turn[t].built)
    BY <1>1 DEF TurnInv, Books
  <1> QED
    BY <1>1, <1>3, <1>4, <1>5, <1>6, FinishStep DEF Busy, Reasons

\* The agent begins: its messages are the history and the user's.
LEMMA BeginStep ==
  ASSUME ChatInv, NEW t \in Turns, Begin(t), turn[t].at \in {"unsent", "priming"}
  PROVE  ChatInv'
  <1> DEFINE u == Says(t, "user", 0)
  <1> DEFINE m == Append(saved, u)
  <1> DEFINE r == [turn[t] EXCEPT !.messages = m]
  <1> DEFINE x == StartOf(t)
  <1>1. TurnInv(t) /\ turn[t] \in Progressing /\ turn \in [Turns -> Progressing]
        /\ saved \in Seq(Mail) /\ (~ CutCalls => Paired(saved)) /\ stream \in Seq(Event)
    BY DEF ChatInv, ChatTypes
  <1>2. u \in Mail /\ u.role = "user"
    BY SaysFields
  <1>3. m \in Seq(Mail) /\ (~ CutCalls => Paired(m))
    BY <1>1, <1>2, PairedAppend
  <1>4. x \in Event /\ x.turn = t /\ x.type = "turn-start"
    BY EvFields DEF StartOf
  <1>5. IF r.aborted
        THEN Finish(t, r, <<x, Ev(t, "abort")>>, "aborted")
        ELSE /\ turn' = [turn EXCEPT ![t] = Asks(r)]
             /\ Emit(t, <<x>>)
             /\ UNCHANGED <<saved, widget>>
    BY DEF Begin, StartOf
  <1> HIDE DEF m, u
  <1>6. r \in Progressing /\ r.messages = m /\ r.built = turn[t].built
    BY <1>1, <1>3 DEF Progressing
  <1>7. r.aborted = turn[t].aborted
    BY <1>1 DEF Progressing
  <1> HIDE DEF r
  <1>8. ~ CutCalls => Paired(r.built)
    BY <1>1, <1>6 DEF TurnInv, Books
  <1>9. CASE r.aborted
    <2> DEFINE y == Ev(t, "abort")
    <2>1. y \in Event /\ y.turn = t /\ y.type = "abort"
      BY EvFields
    <2>2. Finish(t, r, <<x, y>>, "aborted")
      BY <1>5, <1>9
    <2> HIDE DEF x, y
    <2>3. <<x, y>> \in Seq(Event) /\ \A i \in 1..Len(<<x, y>>) : ~ IsEnd(<<x, y>>[i])
      BY <1>4, <2>1 DEF IsEnd
    <2>4. turn[t].at = "priming"
      BY <1>1, <1>7, <1>9 DEF TurnInv, Fate
    <2>5. t \in endedTurns \/ Fits(stream, t, <<x, y>>)
      <3> SUFFICES ASSUME t \notin endedTurns
                   PROVE  Fits(stream, t, <<x, y>>)
        OBVIOUS
      <3>1. \A i \in 1..Len(stream) : stream[i].turn # t
        BY <1>1 DEF TurnInv, Announced, Silent
      <3>2. x = StartOf(t)
        BY DEF x
      <3>3. \A i \in 1..Len(<<x, y>>) : (i = 1 /\ <<x, y>>[i] = x) \/ (i = 2 /\ <<x, y>>[i] = y)
        OBVIOUS
      <3>4. Len(<<x, y>>) = 2 /\ <<x, y>>[1] = x
        OBVIOUS
      <3> DEFINE e == <<x, y>>
      <3> HIDE DEF e
      <3>5. /\ e \in Seq(Event) /\ Len(e) = 2 /\ e[1] = x
            /\ \A i \in 1..Len(e) : (i = 1 /\ e[i] = x) \/ (i = 2 /\ e[i] = y)
        BY <2>3, <3>3, <3>4 DEF e
      <3>6. Fits(stream, t, e)
        BY <1>4, <2>1, <3>1, <3>2, <3>5 DEF Fits, IsEnd
      <3> QED
        BY <3>6 DEF e
    <2>6. "aborted" \in Reasons /\ turn[t].at \notin {"unsent", "done"}
      BY <2>4 DEF Reasons
    <2> QED
      BY <1>6, <1>7, <1>8, <1>9, <2>2, <2>3, <2>5, <2>6, FinishStep
  <1>10. CASE ~ r.aborted
    <2>1. turn' = [turn EXCEPT ![t] = Asks(r)] /\ Emit(t, <<x>>) /\ saved' = saved
      BY <1>5, <1>10
    <2>2. t \notin endedTurns /\ \A i \in 1..Len(stream) : stream[i].turn # t
      BY <1>1, <1>7, <1>10 DEF TurnInv, Fate, Announced, Silent
    <2>3. x = StartOf(t)
      OBVIOUS
    <2> HIDE DEF x
    <2> DEFINE e == <<x>>
    <2>4. e \in Seq(Event) /\ Len(e) = 1 /\ \A i \in 1..Len(e) : i = 1 /\ e[i] = x
      BY <1>4
    <2>5. Emit(t, e)
      BY <2>1
    <2> HIDE DEF e
    <2>6. Fits(stream, t, e)
      BY <1>4, <2>2, <2>3, <2>4 DEF Fits, IsEnd
    <2>7. \A i \in 1..Len(e) : ~ IsEnd(e[i])
      BY <1>4, <2>4 DEF IsEnd
    <2>8. Grown(t) /\ StreamInv' /\ endedTurns' = endedTurns /\ Told(stream', e[1])
      BY <2>2, <2>4, <2>5, <2>6, <2>7, EmitStep
    <2>9. Told(stream', StartOf(t))
      BY <2>3, <2>4, <2>8
    <2>10. /\ Asks(r) \in Progressing /\ Asks(r).at = "asking" /\ Asks(r).calls = << >>
           /\ Asks(r).messages = m /\ Asks(r).built = r.built
      BY <1>6, AsksFields
    <2>11. turn'[t] = Asks(r)
      BY <1>1, <2>1
    <2>12. Fate(t)'
      BY <2>2, <2>8, <2>10, <2>11 DEF Fate
    <2>13. Announced(t)'
      <3>1. Len(turn'[t].calls) = 0
        BY <2>10, <2>11
      <3> QED
        BY <2>9, <2>10, <2>11, <3>1 DEF Announced
    <2>14. Orderly(turn'[t].calls) /\ NothingWaits(turn'[t])
      BY <2>10, <2>11 DEF Orderly, NothingWaits
    <2>15. Books(t)'
      BY <1>3, <1>8, <2>10, <2>11 DEF Books
    <2> QED
      BY <1>1, <2>1, <2>8, <2>10, <2>12, <2>13, <2>14, <2>15, TurnStep DEF TurnInv
  <1> QED
    BY <1>9, <1>10


\* A step that tells nothing.
LEMMA QuietStep ==
  ASSUME ChatInv, NEW t \in Turns, UNCHANGED <<endedTurns, stream>>
  PROVE  Grown(t) /\ StreamInv' /\ endedTurns' = endedTurns /\ stream' = stream
  BY DEF ChatInv, ChatTypes, StreamInv, EndsKnown, Grown

\* A turn that streams has not ended, and has told its start.
LEMMA StreamingTurn ==
  ASSUME ChatInv, NEW t \in Turns, turn[t].at \in Busy, ~ turn[t].aborted
  PROVE  t \notin endedTurns /\ Told(stream, StartOf(t))
  BY DEF ChatInv, TurnInv, Fate, Announced, Busy

\* One event of a turn that streams.
LEMMA OneEvent ==
  ASSUME ChatInv, NEW t \in Turns, t \notin endedTurns, Told(stream, StartOf(t)),
         NEW x \in Event, x.turn = t, x.type \in {"text", "ready", "result", "error"},
         x.type = "result" => Told(stream, [x EXCEPT !.type = "ready"])
  PROVE  /\ <<x>> \in Seq(Event) /\ Fits(stream, t, <<x>>)
         /\ \A i \in 1..Len(<<x>>) : ~ IsEnd(<<x>>[i])
         /\ Emit(t, <<x>>) =>
              /\ Grown(t) /\ StreamInv' /\ endedTurns' = endedTurns
              /\ Told(stream', x)
  <1> DEFINE e == <<x>>
  <1>1. e \in Seq(Event) /\ Len(e) = 1 /\ e[1] = x
    OBVIOUS
  <1>2. Fits(stream, t, e) /\ \A i \in 1..Len(e) : ~ IsEnd(e[i])
    BY NoEndYet, FitsSingle
  <1> HIDE DEF e
  <1>3. Emit(t, e) => /\ Grown(t) /\ StreamInv' /\ endedTurns' = endedTurns
                      /\ Told(stream', x)
    <2> SUFFICES ASSUME Emit(t, e)
                 PROVE  /\ Grown(t) /\ StreamInv' /\ endedTurns' = endedTurns
                        /\ Told(stream', x)
      OBVIOUS
    <2>1. Grown(t) /\ StreamInv' /\ endedTurns' = endedTurns
          /\ \A i \in 1..Len(e) : Told(stream', e[i])
      BY <1>1, <1>2, EmitStep
    <2> QED
      BY <1>1, <2>1
  <1> QED
    BY <1>1, <1>2, <1>3 DEF e

\* chat.send: the memory is read first, or the agent begins at once.
LEMMA SendStep ==
  ASSUME ChatInv, NEW t \in Turns, Send(t)
  PROVE  ChatInv'
  <1>1. CASE Memory
    <2> DEFINE r == [turn[t] EXCEPT !.at = "priming"]
    <2>1. TurnInv(t) /\ turn[t] \in Progressing /\ turn \in [Turns -> Progressing]
          /\ saved \in Seq(Mail) /\ (~ CutCalls => Paired(saved)) /\ turn[t].at = "unsent"
      BY DEF ChatInv, ChatTypes, Send
    <2>2. turn' = [turn EXCEPT ![t] = r] /\ UNCHANGED <<endedTurns, stream, saved, widget>>
      BY <1>1 DEF Send
    <2>3. /\ r \in Progressing /\ r.at = "priming" /\ r.calls = turn[t].calls
          /\ r.built = turn[t].built
      BY <2>1 DEF Progressing, Stages
    <2> HIDE DEF r
    <2>4. Grown(t) /\ StreamInv' /\ endedTurns' = endedTurns /\ stream' = stream
      BY <2>2, QuietStep
    <2>5. turn'[t] = r
      BY <2>1, <2>2
    <2>6. Fate(t)' /\ Announced(t)'
      BY <2>1, <2>3, <2>4, <2>5 DEF TurnInv, Fate, Announced, Busy
    <2>7. Orderly(turn'[t].calls) /\ NothingWaits(turn'[t]) /\ Books(t)'
      BY <2>1, <2>3, <2>5 DEF TurnInv, NothingWaits, Books
    <2> QED
      BY <2>1, <2>2, <2>3, <2>4, <2>6, <2>7, TurnStep DEF TurnInv
  <1>2. CASE ~ Memory
    BY <1>2, BeginStep DEF Send
  <1> QED
    BY <1>1, <1>2

\* chat.abort, at any time.
LEMMA AbortStep ==
  ASSUME ChatInv, NEW t \in Turns, Abort(t)
  PROVE  ChatInv'
  <1> DEFINE r == [turn[t] EXCEPT !.aborted = TRUE]
  <1> DEFINE x == Ev(t, "abort")
  <1> DEFINE y == EndEv(t, "aborted")
  <1> DEFINE e == <<x, y>>
  <1>1. TurnInv(t) /\ turn[t] \in Progressing /\ turn \in [Turns -> Progressing]
        /\ saved \in Seq(Mail) /\ (~ CutCalls => Paired(saved)) /\ turn[t].at # "unsent"
        /\ stream \in Seq(Event)
    BY DEF ChatInv, ChatTypes, Abort
  <1>2. turn' = [turn EXCEPT ![t] = r] /\ Emit(t, e) /\ saved' = saved
    BY DEF Abort, AbortEvs
  <1>3. r \in Progressing /\ r.at = turn[t].at
    BY <1>1 DEF Progressing
  <1>4. r.calls = turn[t].calls /\ r.built = turn[t].built /\ r.messages = turn[t].messages
    BY <1>1 DEF Progressing
  <1>5. r.aborted
    BY <1>1 DEF Progressing
  <1>6. x \in Event /\ x.turn = t /\ x.type = "abort" /\ y \in Event /\ y.turn = t
        /\ y.type = "turn-end"
    BY EvFields, EndEvFields DEF Reasons
  <1> HIDE DEF r, x, y
  <1>7. e \in Seq(Event) /\ e # << >> /\ IsEnd(e[Len(e)])
    BY <1>6 DEF IsEnd
  <1>8. t \in endedTurns \/ Fits(stream, t, e)
    <2>1. e = Append(<<x>>, y)
      OBVIOUS
    <2>2. t \notin endedTurns => Fits(stream, t, <<x>>) /\ \A i \in 1..Len(<<x>>) : ~ IsEnd(<<x>>[i])
      BY <1>6, NoEndYet, FitsSingle
    <2>3. t \notin endedTurns => Fits(stream, t, Append(<<x>>, y))
      BY <1>1, <1>6, <2>2, FitsAppend
    <2> QED
      BY <2>1, <2>3
  <1> HIDE DEF e
  <1>9. Grown(t) /\ StreamInv' /\ t \in endedTurns'
    BY <1>2, <1>7, <1>8, EmitStep
  <1>10. turn'[t] = r
    BY <1>1, <1>2
  <1>11. Fate(t)' /\ Announced(t)'
    BY <1>1, <1>3, <1>5, <1>9, <1>10 DEF Fate, Announced
  <1>12. Orderly(turn'[t].calls) /\ NothingWaits(turn'[t])
    BY <1>1, <1>4, <1>5, <1>10 DEF TurnInv, NothingWaits
  <1>13. Books(t)'
    BY <1>1, <1>3, <1>4, <1>10 DEF TurnInv, Books
  <1> QED
    BY <1>1, <1>2, <1>3, <1>9, <1>11, <1>12, <1>13, TurnStep DEF TurnInv

\* A text block.
LEMMA TextStep ==
  ASSUME ChatInv, NEW t \in Turns, Text(t)
  PROVE  ChatInv'
  <1> DEFINE r == [turn[t] EXCEPT !.said = TRUE]
  <1> DEFINE x == Ev(t, "text")
  <1>1. TurnInv(t) /\ turn[t] \in Progressing /\ turn \in [Turns -> Progressing]
        /\ saved \in Seq(Mail) /\ (~ CutCalls => Paired(saved))
    BY DEF ChatInv, ChatTypes
  <1>2. turn[t].at = "asking" /\ ~ turn[t].aborted /\ turn[t].calls = << >>
    BY DEF Text, Streaming
  <1>3. turn' = [turn EXCEPT ![t] = r] /\ Emit(t, <<x>>) /\ saved' = saved
    BY DEF Text
  <1>4. /\ r \in Progressing /\ r.at = "asking" /\ r.calls = << >>
        /\ r.built = turn[t].built /\ r.messages = turn[t].messages
    BY <1>1, <1>2 DEF Progressing
  <1>5. ~ r.aborted
    BY <1>1, <1>2 DEF Progressing
  <1>6. x \in Event /\ x.turn = t /\ x.type = "text"
    BY EvFields
  <1> HIDE DEF r, x
  <1>7. t \notin endedTurns /\ Told(stream, StartOf(t))
    BY <1>2, StreamingTurn DEF Busy
  <1>8. Grown(t) /\ StreamInv' /\ endedTurns' = endedTurns
    BY <1>3, <1>6, <1>7, OneEvent
  <1>9. turn'[t] = r
    BY <1>1, <1>3
  <1>10. Fate(t)'
    BY <1>4, <1>7, <1>8, <1>9 DEF Fate
  <1>11. Announced(t)'
    <2>1. Told(stream', StartOf(t)) /\ Len(turn'[t].calls) = 0
      BY <1>4, <1>7, <1>8, <1>9 DEF Grown
    <2> QED
      BY <1>4, <1>9, <2>1 DEF Announced
  <1>12. Orderly(turn'[t].calls) /\ NothingWaits(turn'[t])
    BY <1>4, <1>9 DEF Orderly, NothingWaits
  <1>13. Books(t)'
    BY <1>1, <1>2, <1>4, <1>9 DEF TurnInv, Books
  <1> QED
    BY <1>1, <1>3, <1>4, <1>8, <1>10, <1>11, <1>12, <1>13, TurnStep DEF TurnInv

\* The provider's turn failed: it backs off, or the run is over.
LEMMA FailStep ==
  ASSUME ChatInv, NEW t \in Turns, NEW retryable \in BOOLEAN, Fail(t, retryable)
  PROVE  ChatInv'
  <1> DEFINE a == [turn[t] EXCEPT !.attempt = @ + 1]
  <1> DEFINE r == [a EXCEPT !.at = "backoff"]
  <1> DEFINE x == Ev(t, "error")
  <1>1. TurnInv(t) /\ turn[t] \in Progressing /\ turn \in [Turns -> Progressing]
        /\ saved \in Seq(Mail) /\ (~ CutCalls => Paired(saved))
    BY DEF ChatInv, ChatTypes
  <1>2. turn[t].at = "asking" /\ ~ turn[t].aborted
    BY DEF Fail, Streaming
  <1>3. \/ turn' = [turn EXCEPT ![t] = r] /\ Emit(t, <<x>>) /\ saved' = saved
        \/ Finish(t, turn[t], <<x>>, "end")
    BY DEF Fail
  <1>4. a \in Progressing /\ a.calls = turn[t].calls
        /\ a.built = turn[t].built /\ a.messages = turn[t].messages
    <2>1. turn[t].attempt + 1 \in Nat
      BY <1>1 DEF Progressing
    <2> PICK n \in Nat : n = turn[t].attempt + 1
      BY <2>1
    <2>2. a = [turn[t] EXCEPT !.attempt = n]
      OBVIOUS
    <2> HIDE DEF a
    <2> QED
      BY <1>1, <2>2 DEF Progressing
  <1> HIDE DEF a
  <1>5. /\ r \in Progressing /\ r.at = "backoff" /\ r.calls = turn[t].calls
        /\ r.built = turn[t].built /\ r.messages = turn[t].messages
    BY <1>4 DEF Progressing, Stages
  <1>6. x \in Event /\ x.turn = t /\ x.type = "error"
    BY EvFields
  <1> HIDE DEF r, x
  <1>7. t \notin endedTurns /\ Told(stream, StartOf(t))
    BY <1>2, StreamingTurn DEF Busy
  <1>8. CASE turn' = [turn EXCEPT ![t] = r] /\ Emit(t, <<x>>) /\ saved' = saved
    <2>1. Grown(t) /\ StreamInv' /\ endedTurns' = endedTurns
      BY <1>6, <1>7, <1>8, OneEvent
    <2>2. turn'[t] = r
      BY <1>1, <1>8
    <2>3. Fate(t)'
      BY <1>5, <1>7, <2>1, <2>2 DEF Fate
    <2>4. Announced(t)'
      <3>1. Told(stream', StartOf(t))
        BY <1>7, <2>1 DEF Grown
      <3> QED
        BY <1>5, <2>2, <3>1 DEF Announced
    <2>5. Orderly(turn'[t].calls) /\ NothingWaits(turn'[t])
      BY <1>1, <1>5, <2>2 DEF TurnInv, NothingWaits
    <2>6. Books(t)'
      BY <1>1, <1>2, <1>5, <2>2 DEF TurnInv, Books
    <2> QED
      BY <1>1, <1>5, <1>8, <2>1, <2>3, <2>4, <2>5, <2>6, TurnStep DEF TurnInv
  <1>9. CASE Finish(t, turn[t], <<x>>, "end")
    <2>1. /\ <<x>> \in Seq(Event) /\ Fits(stream, t, <<x>>)
          /\ \A i \in 1..Len(<<x>>) : ~ IsEnd(<<x>>[i])
      BY <1>6, <1>7, OneEvent
    <2>2. ~ CutCalls => Paired(turn[t].built) /\ Paired(turn[t].messages)
      BY <1>1, <1>2 DEF TurnInv, Books
    <2> QED
      BY <1>1, <1>2, <1>9, <2>1, <2>2, FinishStep DEF Busy, Reasons
  <1> QED
    BY <1>3, <1>8, <1>9

\* The next attempt forgets what the failed one streamed.
LEMMA RetryStep ==
  ASSUME ChatInv, NEW t \in Turns, Retry(t)
  PROVE  ChatInv'
  <1> DEFINE r == [turn[t] EXCEPT !.at = "asking", !.calls = << >>, !.said = FALSE]
  <1>1. TurnInv(t) /\ turn[t] \in Progressing /\ turn \in [Turns -> Progressing]
        /\ saved \in Seq(Mail) /\ (~ CutCalls => Paired(saved))
    BY DEF ChatInv, ChatTypes
  <1>2. turn[t].at = "backoff" /\ ~ turn[t].aborted
    BY DEF Retry
  <1>3. turn' = [turn EXCEPT ![t] = r] /\ UNCHANGED <<endedTurns, stream, saved>>
    BY DEF Retry
  <1>4. << >> \in Seq(Call)
    OBVIOUS
  <1>5. /\ r \in Progressing /\ r.at = "asking" /\ r.calls = << >>
        /\ r.built = turn[t].built /\ r.messages = turn[t].messages
    BY <1>1, <1>4 DEF Progressing, Stages
  <1> HIDE DEF r
  <1>6. t \notin endedTurns /\ Told(stream, StartOf(t))
    BY <1>2, StreamingTurn DEF Busy
  <1>7. Grown(t) /\ StreamInv' /\ endedTurns' = endedTurns
    BY <1>3, QuietStep
  <1>8. turn'[t] = r
    BY <1>1, <1>3
  <1>9. Fate(t)'
    BY <1>5, <1>6, <1>7, <1>8 DEF Fate
  <1>10. Announced(t)'
    <2>1. Told(stream', StartOf(t)) /\ Len(turn'[t].calls) = 0
      BY <1>5, <1>6, <1>7, <1>8 DEF Grown
    <2> QED
      BY <1>5, <1>8, <2>1 DEF Announced
  <1>11. Orderly(turn'[t].calls) /\ NothingWaits(turn'[t])
    BY <1>5, <1>8 DEF Orderly, NothingWaits
  <1>12. Books(t)'
    BY <1>1, <1>2, <1>5, <1>8 DEF TurnInv, Books
  <1> QED
    BY <1>1, <1>3, <1>5, <1>7, <1>9, <1>10, <1>11, <1>12, TurnStep DEF TurnInv


\* A tool call is ready.
LEMMA ReadyStep ==
  ASSUME ChatInv, NEW t \in Turns, NEW kind \in Kinds, Ready(t, kind)
  PROVE  ChatInv'
  <1> DEFINE old == turn[t].calls
  <1> DEFINE c == [kind |-> kind, state |-> "ready"]
  <1> DEFINE n == Len(old) + 1
  <1> DEFINE new == Append(old, c)
  <1>1. TurnInv(t) /\ turn[t] \in Progressing /\ turn \in [Turns -> Progressing]
        /\ saved \in Seq(Mail) /\ (~ CutCalls => Paired(saved))
    BY DEF ChatInv, ChatTypes
  <1>2. turn[t].at = "asking" /\ ~ turn[t].aborted
    BY DEF Ready, Streaming
  <1> PICK b \in BOOLEAN : b = (turn[t].mutated \/ (turn[t].pass = 1 /\ kind = "write"))
    OBVIOUS
  <1> DEFINE r == [turn[t] EXCEPT !.calls = new, !.mutated = b]
  <1> DEFINE x == CallEv(t, turn[t], "ready", n)
  <1>3. turn' = [turn EXCEPT ![t] = r] /\ Emit(t, <<x>>) /\ saved' = saved
    <2>1. turn' = [turn EXCEPT ![t] = [turn[t] EXCEPT !.calls = Append(@, c),
                      !.mutated = @ \/ (turn[t].pass = 1 /\ kind = "write")]]
      BY <1>1 DEF Ready
    <2> QED
      BY <2>1 DEF Ready
  <1>4. c \in Call /\ old \in Seq(Call)
    BY <1>1 DEF Call, CallState, Progressing
  <1>5. /\ new \in Seq(Call) /\ Len(new) = n /\ n \in Nat /\ Len(old) \in Nat
        /\ \A i \in 1..Len(old) : new[i] = old[i]
        /\ new[n] = c
        /\ \A i \in 1..n : i \in 1..Len(old) \/ i = n
    BY <1>4
  <1> HIDE DEF new
  <1>6. /\ r \in Progressing /\ r.at = "asking" /\ r.calls = new
        /\ r.built = turn[t].built /\ r.messages = turn[t].messages
    BY <1>1, <1>2, <1>5 DEF Progressing
  <1>7. r.pass = turn[t].pass /\ r.iteration = turn[t].iteration /\ r.attempt = turn[t].attempt
    BY <1>1 DEF Progressing
  <1>8. \A i : CallEv(t, r, "ready", i) = CallEv(t, turn[t], "ready", i)
    BY <1>7 DEF CallEv, CallId
  <1>9. x \in Event /\ x.turn = t /\ x.type = "ready"
    BY <1>1, <1>5, CallEvFields
  <1>10. x = CallEv(t, turn[t], "ready", n)
    OBVIOUS
  <1> HIDE DEF r, x, n
  <1>11. t \notin endedTurns /\ Told(stream, StartOf(t))
    BY <1>2, StreamingTurn DEF Busy
  <1>12. Grown(t) /\ StreamInv' /\ endedTurns' = endedTurns /\ Told(stream', x)
    BY <1>3, <1>9, <1>11, OneEvent
  <1>13. turn'[t] = r
    BY <1>1, <1>3
  <1>14. Fate(t)'
    BY <1>6, <1>11, <1>12, <1>13 DEF Fate
  <1>15. Announced(t)'
    <2>1. Told(stream', StartOf(t))
      BY <1>11, <1>12 DEF Grown
    <2>2. \A i \in 1..Len(new) : Told(stream', CallEv(t, r, "ready", i))
      <3> TAKE i \in 1..Len(new)
      <3>1. CASE i \in 1..Len(old)
        <4>1. Told(stream, CallEv(t, turn[t], "ready", i))
          BY <1>1, <1>2, <1>11, <3>1 DEF TurnInv, Announced
        <4> QED
          BY <1>8, <1>12, <4>1 DEF Grown
      <3>2. CASE i = n
        BY <1>8, <1>10, <1>12, <3>2
      <3> QED
        BY <1>5, <3>1, <3>2
    <2> QED
      BY <1>6, <1>13, <2>1, <2>2 DEF Announced
  <1>16. Orderly(new)
    <2> SUFFICES ASSUME NEW i \in 1..n, NEW j \in 1..n, i < j, new[i].kind = "write",
                        new[j].kind = "write", new[j].state # "ready"
                 PROVE  Settled(new[i])
      BY <1>5 DEF Orderly
    <2>1. j # n
      BY <1>5
    <2>2. j \in 1..Len(old) /\ i \in 1..Len(old)
      BY <1>5, <2>1
    <2>3. new[i] = old[i] /\ new[j] = old[j] /\ i \in DOMAIN old /\ j \in DOMAIN old
      BY <1>4, <1>5, <2>2
    <2> QED
      BY <1>1, <2>3 DEF TurnInv, Orderly
  <1>17. Orderly(turn'[t].calls) /\ NothingWaits(turn'[t])
    BY <1>6, <1>13, <1>16 DEF NothingWaits
  <1>18. Books(t)'
    BY <1>1, <1>2, <1>6, <1>13 DEF TurnInv, Books
  <1> QED
    BY <1>1, <1>3, <1>6, <1>12, <1>14, <1>15, <1>17, <1>18, TurnStep DEF TurnInv

\* What may start does: nothing is left waiting, and the writes stay in order.
LEMMA StartedFields ==
  ASSUME NEW r \in Progressing, Orderly(r.calls)
  PROVE  /\ Started(r) \in Progressing /\ Started(r).at = r.at
         /\ Started(r).aborted = r.aborted
         /\ Started(r).messages = r.messages /\ Started(r).built = r.built
         /\ Started(r).pass = r.pass /\ Started(r).iteration = r.iteration
         /\ Started(r).attempt = r.attempt
         /\ Len(Started(r).calls) = Len(r.calls)
         /\ Orderly(Started(r).calls) /\ NothingWaits(Started(r))
  <1>1. CASE r.aborted
    <2>1. Started(r) = r
      BY <1>1 DEF Started
    <2> QED
      BY <1>1, <2>1 DEF NothingWaits
  <1>2. CASE ~ r.aborted
    <2> DEFINE old == r.calls
    <2> DEFINE F(i) == IF MayStart(old, i) THEN [old[i] EXCEPT !.state = "running"] ELSE old[i]
    <2> DEFINE new == [i \in DOMAIN old |-> F(i)]
    <2> DEFINE q == [r EXCEPT !.calls = new]
    <2>1. Started(r) = q
      BY <1>2 DEF Started
    <2>2. old \in Seq(Call)
      BY DEF Progressing
    <2>3. ASSUME NEW i \in DOMAIN old
          PROVE  /\ F(i) \in Call /\ F(i).kind = old[i].kind
                 /\ F(i).state = IF MayStart(old, i) THEN "running" ELSE old[i].state
                 /\ old[i].state = "ready" \/ F(i).state = old[i].state
      <3>1. old[i] \in Call
        BY <2>2
      <3>2. [old[i] EXCEPT !.state = "running"] \in Call
            /\ [old[i] EXCEPT !.state = "running"].kind = old[i].kind
            /\ [old[i] EXCEPT !.state = "running"].state = "running"
        BY <3>1 DEF Call, CallState
      <3>3. MayStart(old, i) => old[i].state = "ready"
        BY DEF MayStart
      <3> QED
        BY <3>1, <3>2, <3>3
    <2> HIDE DEF F
    <2>4. new \in Seq(Call) /\ DOMAIN new = DOMAIN old /\ Len(new) = Len(old)
      <3> PICK n \in Nat : n = Len(old) /\ DOMAIN old = 1..n
        BY <2>2
      <3>1. new \in [1..n -> Call]
        BY <2>3
      <3>2. new \in Seq(Call) /\ Len(new) = n
        <4> HIDE DEF new
        <4> QED
          BY <3>1
      <3> QED
        BY <3>2
    <2>5. \A i \in DOMAIN old : new[i] = F(i)
      OBVIOUS
    <2> HIDE DEF new
    <2>6. q \in Progressing /\ q.at = r.at /\ q.messages = r.messages /\ q.built = r.built
          /\ q.calls = new
      BY <2>4 DEF Progressing
    <2>7. q.aborted = r.aborted /\ q.pass = r.pass /\ q.iteration = r.iteration
          /\ q.attempt = r.attempt
      BY DEF Progressing
    <2> HIDE DEF q
    <2>8. Orderly(new)
      <3> SUFFICES ASSUME NEW i \in DOMAIN old, NEW j \in DOMAIN old, i < j,
                          new[i].kind = "write", new[j].kind = "write", new[j].state # "ready"
                   PROVE  Settled(new[i])
        BY <2>4 DEF Orderly
      <3>1. old[i].kind = "write" /\ old[j].kind = "write"
        BY <2>3, <2>5
      <3>2. Settled(old[i])
        <4>1. CASE MayStart(old, j)
          <5>1. i \in 1..(j - 1)
            BY <2>2
          <5> QED
            BY <3>1, <4>1, <5>1 DEF MayStart
        <4>2. CASE ~ MayStart(old, j)
          <5>1. old[j].state # "ready"
            BY <2>3, <2>5, <4>2
          <5> QED
            BY <3>1, <5>1 DEF Orderly
        <4> QED
          BY <4>1, <4>2
      <3> QED
        BY <2>3, <2>5, <3>2 DEF Settled
    <2>9. \A i \in DOMAIN new : ~ MayStart(new, i)
      <3> SUFFICES ASSUME NEW i \in DOMAIN old, MayStart(new, i)
                   PROVE  FALSE
        BY <2>4
      <3>1. old[i].state = "ready" /\ ~ MayStart(old, i)
        BY <2>3, <2>5 DEF MayStart
      <3>2. PICK j \in 1..(i - 1) : old[i].kind # "read" /\ old[j].kind = "write" /\ ~ Settled(old[j])
        BY <3>1 DEF MayStart
      <3>3. j \in DOMAIN old
        BY <2>2, <3>2
      <3>4. new[j].kind = "write" /\ ~ Settled(new[j]) /\ new[i].kind # "read"
        BY <2>3, <2>5, <3>2, <3>3 DEF Settled
      <3> QED
        BY <3>2, <3>4 DEF MayStart
    <2> QED
      BY <2>1, <2>4, <2>6, <2>7, <2>8, <2>9 DEF NothingWaits
  <1> QED
    BY <1>1, <1>2


\* The provider's turn joins the messages, if it said anything.
LEMMA SpokenFields ==
  ASSUME NEW t \in Turns, NEW r \in Progressing
  PROVE  /\ Spoken(t, r) \in Progressing /\ Spoken(t, r).at = r.at
         /\ Spoken(t, r).aborted = r.aborted /\ Spoken(t, r).calls = r.calls
         /\ Spoken(t, r).built = r.built
         /\ Spoken(t, r).pass = r.pass /\ Spoken(t, r).iteration = r.iteration
         /\ Spoken(t, r).attempt = r.attempt
         /\ Spoken(t, r).messages \in Seq(Mail)
         /\ Paired(r.messages) /\ r.calls = << >> => Paired(Spoken(t, r).messages)
         /\ r.calls # << >> =>
              Spoken(t, r).messages = Append(r.messages, Says(t, "assistant", Len(r.calls)))
  <1> DEFINE x == Says(t, "assistant", Len(r.calls))
  <1> DEFINE m == Append(r.messages, x)
  <1> DEFINE q == [r EXCEPT !.messages = m]
  <1>1. Len(r.calls) \in Nat /\ r.messages \in Seq(Mail)
    BY DEF Progressing
  <1>2. x \in Mail /\ x.calls = Len(r.calls)
    BY <1>1, SaysFields
  <1>3. m \in Seq(Mail) /\ (Paired(r.messages) /\ x.calls = 0 => Paired(m))
    BY <1>1, <1>2, PairedAppend
  <1>4. Spoken(t, r) = IF r.said \/ r.calls # << >> THEN q ELSE r
    BY DEF Spoken
  <1>5. r.calls = << >> => x.calls = 0
    BY <1>2
  <1>6. m = Append(r.messages, x)
    OBVIOUS
  <1> HIDE DEF m, x
  <1>7. /\ q \in Progressing /\ q.at = r.at /\ q.calls = r.calls /\ q.built = r.built
        /\ q.messages = m
    BY <1>3 DEF Progressing
  <1>8. q.aborted = r.aborted /\ q.pass = r.pass /\ q.iteration = r.iteration
        /\ q.attempt = r.attempt
    BY DEF Progressing
  <1> HIDE DEF q
  <1>9. CASE r.said \/ r.calls # << >>
    <2>1. Spoken(t, r) = q
      BY <1>4, <1>9
    <2>2. Paired(r.messages) /\ r.calls = << >> => Paired(m)
      BY <1>3, <1>5
    <2>3. r.calls # << >> => m = Append(r.messages, Says(t, "assistant", Len(r.calls)))
      BY <1>6 DEF x
    <2> QED
      BY <1>3, <1>7, <1>8, <2>1, <2>2, <2>3
  <1>10. CASE ~ (r.said \/ r.calls # << >>)
    <2>1. Spoken(t, r) = r
      BY <1>4, <1>10
    <2> QED
      BY <1>1, <1>10, <2>1
  <1> QED
    BY <1>9, <1>10

\* The provider's turn is over: its calls start, or the run ends.
LEMMA StopStep ==
  ASSUME ChatInv, NEW t \in Turns, NEW reason, Stop(t, reason)
  PROVE  ChatInv'
  <1> DEFINE r == Spoken(t, turn[t])
  <1>1. TurnInv(t) /\ turn[t] \in Progressing /\ turn \in [Turns -> Progressing]
        /\ saved \in Seq(Mail) /\ (~ CutCalls => Paired(saved)) /\ stream \in Seq(Event)
    BY DEF ChatInv, ChatTypes
  <1>2. turn[t].at = "asking" /\ ~ turn[t].aborted
    BY DEF Stop, Streaming
  <1>3. /\ r \in Progressing /\ r.at = "asking"
        /\ r.calls = turn[t].calls
        /\ r.built = turn[t].built
        /\ r.pass = turn[t].pass /\ r.iteration = turn[t].iteration
        /\ r.attempt = turn[t].attempt /\ r.messages \in Seq(Mail)
        /\ Paired(turn[t].messages) /\ r.calls = << >> => Paired(r.messages)
        /\ r.calls # << >> =>
             r.messages = Append(turn[t].messages, Says(t, "assistant", Len(r.calls)))
    BY <1>1, <1>2, SpokenFields
  <1>4. r.aborted = turn[t].aborted
    BY <1>1, SpokenFields
  <1>5. /\ reason \in {"tool_use", "end", "length", "refusal"}
        /\ r.calls # << >> => reason = "tool_use" \/ CutCalls
        /\ \/ /\ r.calls # << >>
              /\ turn' = [turn EXCEPT ![t] = Started([r EXCEPT !.at = "tools"])]
              /\ UNCHANGED <<endedTurns, stream, saved>>
           \/ /\ ~ (reason = "tool_use" /\ r.calls # << >>)
              /\ Finish(t, r, << >>, IF reason = "tool_use" THEN "end" ELSE reason)
    BY DEF Stop
  <1> HIDE DEF r
  <1>6. t \notin endedTurns /\ Told(stream, StartOf(t))
    BY <1>2, StreamingTurn DEF Busy
  <1>7. turn[t].messages \in Seq(Mail) /\ Len(r.calls) \in Nat
    BY <1>1, <1>3 DEF Progressing
  <1>8. ~ CutCalls => Paired(turn[t].messages) /\ Paired(turn[t].built)
    BY <1>1, <1>2 DEF TurnInv, Books
  <1>9. CASE /\ r.calls # << >>
             /\ turn' = [turn EXCEPT ![t] = Started([r EXCEPT !.at = "tools"])]
             /\ UNCHANGED <<endedTurns, stream, saved>>
    <2> DEFINE a == [r EXCEPT !.at = "tools"]
    <2>1. /\ a \in Progressing /\ a.at = "tools" /\ a.calls = turn[t].calls
          /\ a.built = turn[t].built /\ a.messages = r.messages
      BY <1>3 DEF Progressing, Stages
    <2>2. a.pass = turn[t].pass /\ a.iteration = turn[t].iteration /\ a.attempt = turn[t].attempt
      BY <1>3 DEF Progressing
    <2>3. a.aborted = turn[t].aborted
      BY <1>3, <1>4 DEF Progressing
    <2> DEFINE q == Started(a)
    <2>4. turn' = [turn EXCEPT ![t] = q]
      BY <1>9
    <2> HIDE DEF a
    <2>5. Orderly(a.calls)
      BY <1>1, <2>1 DEF TurnInv
    <2>6. /\ q \in Progressing /\ q.at = "tools"
          /\ q.messages = r.messages /\ q.built = turn[t].built
          /\ q.pass = turn[t].pass /\ q.iteration = turn[t].iteration
          /\ q.attempt = turn[t].attempt
          /\ Len(q.calls) = Len(turn[t].calls)
          /\ Orderly(q.calls) /\ NothingWaits(q)
      BY <2>1, <2>2, <2>5, StartedFields
    <2> HIDE DEF q
    <2>7. Grown(t) /\ StreamInv' /\ endedTurns' = endedTurns
      BY <1>9, QuietStep
    <2>8. turn'[t] = q
      BY <1>1, <2>4
    <2>9. Fate(t)'
      BY <1>6, <2>6, <2>7, <2>8 DEF Fate
    <2>10. Announced(t)'
      <3>1. Told(stream', StartOf(t))
        BY <1>6, <2>7 DEF Grown
      <3>2. \A i : CallEv(t, q, "ready", i) = CallEv(t, turn[t], "ready", i)
        BY <2>6 DEF CallEv, CallId
      <3>3. \A i \in 1..Len(q.calls) : Told(stream', CallEv(t, q, "ready", i))
        BY <1>1, <1>2, <1>6, <2>6, <2>7, <3>2 DEF TurnInv, Announced, Grown
      <3> QED
        BY <2>6, <2>8, <3>1, <3>3 DEF Announced
    <2>11. Books(t)'
      <3>1. r.messages = Append(turn[t].messages, Says(t, "assistant", Len(r.calls)))
        BY <1>3, <1>9
      <3>2. ~ CutCalls => AtWork(t, r.messages, Len(r.calls))
        BY <1>7, <1>8, <3>1, WorkBegins
      <3> QED
        BY <1>3, <1>8, <2>6, <2>8, <3>2 DEF Books
    <2> QED
      BY <1>1, <1>9, <2>4, <2>6, <2>7, <2>8, <2>9, <2>10, <2>11, TurnStep DEF TurnInv
  <1>10. CASE /\ ~ (reason = "tool_use" /\ r.calls # << >>)
              /\ Finish(t, r, << >>, IF reason = "tool_use" THEN "end" ELSE reason)
    <2> PICK why \in Reasons : why = IF reason = "tool_use" THEN "end" ELSE reason
      BY <1>5 DEF Reasons
    <2>1. Finish(t, r, << >>, why)
      BY <1>10
    <2>2. Fits(stream, t, << >>) /\ \A i \in 1..Len(<< >>) : ~ IsEnd(<< >>[i])
      BY <1>1, <1>6, NoEndYet, FitsNone
    <2>3. << >> \in Seq(Event)
      OBVIOUS
    <2>4. ~ CutCalls => Paired(r.built) /\ Paired(r.messages)
      <3>1. ~ CutCalls => r.calls = << >>
        BY <1>5, <1>10
      <3> QED
        BY <1>3, <1>8, <3>1
    <2> QED
      BY <1>2, <1>3, <1>4, <2>1, <2>2, <2>3, <2>4, FinishStep DEF Busy
  <1> QED
    BY <1>5, <1>9, <1>10

\* When nothing runs and nothing may start, every call is answered: the first one that is
\* not could start.
LEMMA AllSettled ==
  ASSUME NEW r \in Progressing, r.at = "tools", ~ r.aborted, NothingWaits(r),
         \A i \in DOMAIN r.calls : r.calls[i].state # "running"
  PROVE  \A i \in DOMAIN r.calls : Settled(r.calls[i])
  <1> DEFINE U == {i \in DOMAIN r.calls : ~ Settled(r.calls[i])}
  <1>1. r.calls \in Seq(Call)
    BY DEF Progressing
  <1>2. U \in SUBSET Nat
    BY <1>1
  <1> SUFFICES ASSUME U # {}
               PROVE  FALSE
    OBVIOUS
  <1>3. PICK u \in U : \A v \in U : u <= v
    <2> DEFINE R == OpToRel(<, Nat)
    <2>1. IsWellFoundedOn(R, Nat)
      BY NatLessThanWellFounded
    <2>2. \E x \in U : \A y \in U : <<y, x>> \notin R
      <3> HIDE DEF R, U
      <3> QED BY <1>2, <2>1, WFMin
    <2>3. PICK x \in U : \A y \in U : <<y, x>> \notin R
      BY <2>2
    <2>4. \A y \in U : ~ (y < x)
      BY <1>2, <2>3 DEF OpToRel
    <2>5. \A y \in U : y \in Nat
      BY <1>2
    <2> HIDE DEF U
    <2>6. \A y \in U : x <= y
      BY <2>4, <2>5
    <2> QED
      BY <2>3, <2>6
  <1>4. u \in DOMAIN r.calls /\ r.calls[u].state \notin {"running", "answered"}
    BY DEF Settled
  <1>5. r.calls[u] \in Call /\ r.calls[u].state = "ready"
    <2>1. r.calls[u] \in Call
      BY <1>1, <1>4
    <2>2. r.calls[u].state \in CallState
      BY <2>1 DEF Call
    <2> QED
      BY <1>4, <2>1, <2>2 DEF CallState
  <1>6. \A j \in 1..(u - 1) : Settled(r.calls[j])
    <2> TAKE j \in 1..(u - 1)
    <2>1. j \in DOMAIN r.calls /\ ~ (u <= j)
      BY <1>1, <1>2
    <2>2. j \notin U
      BY <1>3, <2>1
    <2> QED
      BY <2>1, <2>2
  <1>7. MayStart(r.calls, u)
    BY <1>5, <1>6 DEF MayStart, Call, Kinds
  <1> QED
    BY <1>7 DEF NothingWaits

\* The results of all calls join the messages.
LEMMA AnsweredFields ==
  ASSUME NEW t \in Turns, NEW r \in Progressing
  PROVE  LET n == [Answered(t, r) EXCEPT !.iteration = @ + 1]
         IN  /\ n \in Progressing /\ n.aborted = r.aborted /\ n.built = r.built
             /\ n.at = r.at
             /\ AtWork(t, r.messages, Len(r.calls)) /\ (\A i \in DOMAIN r.calls : Settled(r.calls[i]))
                  => Paired(n.messages)
  <1> DEFINE D == {i \in DOMAIN r.calls : Settled(r.calls[i])}
  <1> DEFINE e == [i \in 1..Cardinality(D) |-> Says(t, "result", 0)]
  <1> DEFINE m == r.messages \o e
  <1> DEFINE a == [r EXCEPT !.messages = m]
  <1>1. r.messages \in Seq(Mail) /\ r.calls \in Seq(Call)
    BY DEF Progressing
  <1>2. IsFiniteSet(D) /\ Cardinality(D) \in Nat
    <2>1. Len(r.calls) \in Nat /\ DOMAIN r.calls = 1..Len(r.calls)
      BY <1>1
    <2>2. IsFiniteSet(1..Len(r.calls))
      BY <2>1, FS_Interval
    <2>3. IsFiniteSet(D)
      BY <2>1, <2>2, FS_Subset
    <2> QED
      BY <2>3, FS_CardinalityType
  <1>3. Says(t, "result", 0) \in Mail
    BY SaysFields
  <1>4. e \in Seq(Mail)
    <2> PICK c \in Nat : c = Cardinality(D)
      BY <1>2
    <2> HIDE DEF D
    <2> QED
      BY <1>3
  <1>5. m \in Seq(Mail)
    <2> HIDE DEF e
    <2> QED
      BY <1>1, <1>4, ConcatElements
  <1>6. AtWork(t, r.messages, Len(r.calls)) /\ (\A i \in DOMAIN r.calls : Settled(r.calls[i]))
          => Paired(m)
    <2> SUFFICES ASSUME AtWork(t, r.messages, Len(r.calls)),
                        \A i \in DOMAIN r.calls : Settled(r.calls[i])
                 PROVE  Paired(m)
      OBVIOUS
    <2> PICK c \in Nat : c = Len(r.calls) /\ DOMAIN r.calls = 1..c
      BY <1>1
    <2>1. D = 1..c
      OBVIOUS
    <2>2. Cardinality(1..c) = c
      BY FS_Interval
    <2>3. m = r.messages \o [i \in 1..c |-> Says(t, "result", 0)]
      BY <2>1, <2>2
    <2> QED
      BY <1>1, <2>3, WorkEnds
  <1>7. Answered(t, r) = a
    BY DEF Answered
  <1> HIDE DEF m
  <1>8. a \in Progressing /\ a.built = r.built /\ a.messages = m /\ a.at = r.at
        /\ a.iteration = r.iteration
    BY <1>5 DEF Progressing
  <1>9. a.aborted = r.aborted
    BY DEF Progressing
  <1> HIDE DEF a
  <1> PICK k \in Nat : k = a.iteration + 1
    BY <1>8 DEF Progressing
  <1> DEFINE n == [a EXCEPT !.iteration = k]
  <1>10. n = [Answered(t, r) EXCEPT !.iteration = @ + 1]
    BY <1>7
  <1>11. n \in Progressing /\ n.built = a.built /\ n.messages = a.messages /\ n.at = a.at
    BY <1>8 DEF Progressing
  <1>12. n.aborted = a.aborted
    BY <1>8 DEF Progressing
  <1> HIDE DEF n
  <1> QED
    BY <1>6, <1>8, <1>9, <1>10, <1>11, <1>12

-----------------------------------------------------------------------------
\* The abort is seen where the turn waits for its provider.
LEMMA StoppedStep ==
  ASSUME ChatInv, NEW t \in Turns, Stopped(t)
  PROVE  ChatInv'
  BY AbortFinishStep DEF Stopped

\* A call that is answered: its turn's calls stay in order.
LEMMA AnswersOne ==
  ASSUME NEW r \in Progressing, Orderly(r.calls), NEW i \in DOMAIN r.calls,
         r.calls[i].state = "running"
  PROVE  LET b == [r EXCEPT !.calls[i].state = "answered"]
         IN  /\ b \in Progressing /\ b.at = r.at /\ b.aborted = r.aborted
             /\ b.messages = r.messages /\ b.built = r.built /\ b.pass = r.pass
             /\ b.iteration = r.iteration /\ b.attempt = r.attempt
             /\ Len(b.calls) = Len(r.calls) /\ Orderly(b.calls)
  <1> DEFINE old == r.calls
  <1> DEFINE c == [old[i] EXCEPT !.state = "answered"]
  <1> DEFINE new == [old EXCEPT ![i] = c]
  <1> DEFINE b == [r EXCEPT !.calls = new]
  <1>1. b = [r EXCEPT !.calls[i].state = "answered"]
    OBVIOUS
  <1>2. old \in Seq(Call) /\ old[i] \in Call
    BY DEF Progressing
  <1>3. c \in Call /\ c.kind = old[i].kind /\ c.state = "answered"
    BY <1>2 DEF Call, CallState
  <1> HIDE DEF c
  <1>4. /\ new \in Seq(Call) /\ DOMAIN new = DOMAIN old /\ Len(new) = Len(old)
        /\ new[i] = c /\ \A j \in DOMAIN old \ {i} : new[j] = old[j]
    BY <1>2, <1>3
  <1> HIDE DEF new
  <1>5. /\ b \in Progressing /\ b.at = r.at /\ b.messages = r.messages /\ b.built = r.built
        /\ b.calls = new
    BY <1>4 DEF Progressing
  <1>6. b.aborted = r.aborted /\ b.pass = r.pass /\ b.iteration = r.iteration
        /\ b.attempt = r.attempt
    BY DEF Progressing
  <1>7. Orderly(new)
    <2> SUFFICES ASSUME NEW k \in DOMAIN old, NEW j \in DOMAIN old, k < j,
                        new[k].kind = "write", new[j].kind = "write", new[j].state # "ready"
                 PROVE  Settled(new[k])
      BY <1>4 DEF Orderly
    <2>1. old[k].kind = "write" /\ old[j].kind = "write" /\ old[j].state # "ready"
      BY <1>3, <1>4
    <2>2. Settled(old[k])
      BY <2>1 DEF Orderly
    <2> QED
      BY <1>3, <1>4, <2>2 DEF Settled
  <1> HIDE DEF b
  <1> QED
    BY <1>1, <1>4, <1>5, <1>6, <1>7

\* A tool call has its answer: more of them run, or the run goes on or ends.
LEMMA ToolDoneStep ==
  ASSUME ChatInv, NEW t \in Turns, NEW i, ToolDone(t, i)
  PROVE  ChatInv'
  <1> DEFINE b == [turn[t] EXCEPT !.calls[i].state = "answered"]
  <1> DEFINE r == Started(b)
  <1> DEFINE x == CallEv(t, turn[t], "result", i)
  <1>1. TurnInv(t) /\ turn[t] \in Progressing /\ turn \in [Turns -> Progressing]
        /\ saved \in Seq(Mail) /\ (~ CutCalls => Paired(saved))
    BY DEF ChatInv, ChatTypes
  <1>2. /\ turn[t].at = "tools" /\ i \in DOMAIN turn[t].calls
        /\ turn[t].calls[i].state = "running"
        /\ \/ /\ turn' = [turn EXCEPT ![t] = r]
              /\ Emit(t, <<x>>)
              /\ UNCHANGED <<saved, widget>>
           \/ /\ \A j \in DOMAIN r.calls : r.calls[j].state # "running"
              /\ AfterTools(t, r, <<x>>)
    BY DEF ToolDone
  <1>3. i \in 1..Len(turn[t].calls) /\ i \in Nat
    BY <1>1, <1>2 DEF Progressing
  <1>4. /\ b \in Progressing /\ b.at = "tools" /\ b.aborted = turn[t].aborted
        /\ b.messages = turn[t].messages /\ b.built = turn[t].built /\ b.pass = turn[t].pass
        /\ b.iteration = turn[t].iteration /\ b.attempt = turn[t].attempt
        /\ Len(b.calls) = Len(turn[t].calls) /\ Orderly(b.calls)
    BY <1>1, <1>2, AnswersOne DEF TurnInv
  <1> HIDE DEF b
  <1>5. /\ r \in Progressing /\ r.at = "tools" /\ r.aborted = turn[t].aborted
        /\ r.messages = turn[t].messages /\ r.built = turn[t].built /\ r.pass = turn[t].pass
        /\ r.iteration = turn[t].iteration /\ r.attempt = turn[t].attempt
        /\ Len(r.calls) = Len(turn[t].calls) /\ Orderly(r.calls) /\ NothingWaits(r)
    BY <1>4, StartedFields
  <1>6. /\ x \in Event /\ x.turn = t /\ x.type = "result"
        /\ [x EXCEPT !.type = "ready"] = CallEv(t, turn[t], "ready", i)
    BY <1>1, <1>3, CallEvFields
  <1> HIDE DEF r, x
  <1>7. t \notin endedTurns =>
          Told(stream, StartOf(t)) /\ Told(stream, [x EXCEPT !.type = "ready"])
    BY <1>1, <1>2, <1>3, <1>6 DEF TurnInv, Announced, Busy
  <1>8. /\ <<x>> \in Seq(Event)
        /\ t \in endedTurns \/ Fits(stream, t, <<x>>)
        /\ \A k \in 1..Len(<<x>>) : ~ IsEnd(<<x>>[k])
    <2>1. <<x>> \in Seq(Event) /\ \A k \in 1..Len(<<x>>) : ~ IsEnd(<<x>>[k])
      BY <1>6 DEF IsEnd
    <2>2. t \notin endedTurns => Fits(stream, t, <<x>>)
      BY <1>6, <1>7, OneEvent
    <2> QED
      BY <2>1, <2>2
  <1>9. Emit(t, <<x>>) => Grown(t) /\ StreamInv' /\ endedTurns' = endedTurns
    BY <1>8, EmitStep
  <1>10. ~ CutCalls => Paired(r.built) /\ AtWork(t, r.messages, Len(r.calls))
    BY <1>1, <1>2, <1>5 DEF TurnInv, Books
  <1>11. CASE /\ turn' = [turn EXCEPT ![t] = r]
              /\ Emit(t, <<x>>)
              /\ UNCHANGED <<saved, widget>>
    <2>1. Grown(t) /\ StreamInv' /\ endedTurns' = endedTurns
      BY <1>9, <1>11
    <2>2. turn'[t] = r
      BY <1>1, <1>11
    <2>3. Fate(t)'
      BY <1>1, <1>2, <1>5, <2>1, <2>2 DEF TurnInv, Fate
    <2>4. Announced(t)'
      <3>1. \A k : CallEv(t, r, "ready", k) = CallEv(t, turn[t], "ready", k)
        BY <1>5 DEF CallEv, CallId
      <3>2. t \notin endedTurns =>
              /\ Told(stream', StartOf(t))
              /\ \A k \in 1..Len(r.calls) : Told(stream', CallEv(t, r, "ready", k))
        BY <1>1, <1>2, <1>5, <1>7, <2>1, <3>1 DEF TurnInv, Announced, Grown
      <3> QED
        BY <1>5, <2>1, <2>2, <3>2 DEF Announced
    <2>5. Books(t)'
      BY <1>5, <1>10, <2>2 DEF Books
    <2> QED
      BY <1>1, <1>5, <1>11, <2>1, <2>2, <2>3, <2>4, <2>5, TurnStep DEF TurnInv
  <1>12. CASE /\ \A j \in DOMAIN r.calls : r.calls[j].state # "running"
              /\ AfterTools(t, r, <<x>>)
    <2> DEFINE n == [Answered(t, r) EXCEPT !.iteration = @ + 1]
    <2>1. /\ n \in Progressing /\ n.aborted = turn[t].aborted /\ n.built = r.built
          /\ AtWork(t, r.messages, Len(r.calls)) /\ (\A j \in DOMAIN r.calls : Settled(r.calls[j]))
               => Paired(n.messages)
      BY <1>5, AnsweredFields
    <2>2. \/ /\ r.aborted
             /\ Finish(t, n, Append(<<x>>, Ev(t, "abort")), "aborted")
          \/ ~ r.aborted /\ Finish(t, n, <<x>>, "length")
          \/ ~ r.aborted /\ Finish(t, n, <<x>>, "max-iterations")
          \/ /\ ~ r.aborted
             /\ turn' = [turn EXCEPT ![t] = Asks(n)]
             /\ Emit(t, <<x>>)
             /\ saved' = saved
      BY <1>12 DEF AfterTools
    <2> HIDE DEF n
    <2>3. ~ r.aborted => \A j \in DOMAIN r.calls : Settled(r.calls[j])
      BY <1>5, <1>12, AllSettled
    <2>4. ~ CutCalls => Paired(n.built) /\ (~ r.aborted => Paired(n.messages))
      BY <1>10, <2>1, <2>3
    <2>5. turn[t].at \in Busy /\ turn[t].at \notin {"unsent", "done"}
      BY <1>2 DEF Busy
    <2>6. CASE /\ r.aborted
               /\ Finish(t, n, Append(<<x>>, Ev(t, "abort")), "aborted")
      <3> DEFINE y == Ev(t, "abort")
      <3>1. y \in Event /\ y.turn = t /\ y.type = "abort"
        BY EvFields
      <3>2. Finish(t, n, Append(<<x>>, y), "aborted")
        BY <2>6
      <3> HIDE DEF y
      <3>3. /\ Append(<<x>>, y) \in Seq(Event)
            /\ \A k \in 1..Len(Append(<<x>>, y)) : ~ IsEnd(Append(<<x>>, y)[k])
        BY <1>6, <3>1 DEF IsEnd
      <3>4. t \in endedTurns \/ Fits(stream, t, Append(<<x>>, y))
        BY <1>8, <3>1, NoEndYet, FitsAppend
      <3> QED
        BY <2>1, <2>4, <2>5, <3>2, <3>3, <3>4, FinishStep DEF Reasons
    <2>7. CASE ~ r.aborted /\ Finish(t, n, <<x>>, "length")
      BY <1>8, <2>1, <2>4, <2>5, <2>7, FinishStep DEF Reasons
    <2>8. CASE ~ r.aborted /\ Finish(t, n, <<x>>, "max-iterations")
      BY <1>8, <2>1, <2>4, <2>5, <2>8, FinishStep DEF Reasons
    <2>9. CASE /\ ~ r.aborted
               /\ turn' = [turn EXCEPT ![t] = Asks(n)]
               /\ Emit(t, <<x>>)
               /\ saved' = saved
      <3>1. /\ Asks(n) \in Progressing /\ Asks(n).at = "asking" /\ Asks(n).calls = << >>
            /\ Asks(n).messages = n.messages /\ Asks(n).built = n.built
        BY <2>1, AsksFields
      <3>2. turn'[t] = Asks(n)
        BY <1>1, <2>9
      <3>3. Grown(t) /\ StreamInv' /\ endedTurns' = endedTurns
        BY <1>9, <2>9
      <3>4. t \notin endedTurns
        BY <1>1, <1>2, <1>5, <2>9 DEF TurnInv, Fate
      <3>5. Fate(t)'
        BY <3>1, <3>2, <3>3, <3>4 DEF Fate
      <3>6. Announced(t)'
        <4>1. Told(stream', StartOf(t)) /\ Len(turn'[t].calls) = 0
          BY <1>7, <3>1, <3>2, <3>3, <3>4 DEF Grown
        <4> QED
          BY <3>1, <3>2, <4>1 DEF Announced
      <3>7. Orderly(turn'[t].calls) /\ NothingWaits(turn'[t])
        BY <3>1, <3>2 DEF Orderly, NothingWaits
      <3>8. Books(t)'
        BY <2>4, <2>9, <3>1, <3>2 DEF Books
      <3> QED
        BY <1>1, <2>9, <3>1, <3>3, <3>5, <3>6, <3>7, <3>8, TurnStep DEF TurnInv
    <2> QED
      BY <2>2, <2>6, <2>7, <2>8, <2>9
  <1> QED
    BY <1>2, <1>11, <1>12

-----------------------------------------------------------------------------
(***************************************************************************)
(* The theorems                                                            *)
(***************************************************************************)
\* What a turn does next keeps the invariant, whatever it is.
LEMMA TurnKeeps ==
  ASSUME ChatInv, NEW t \in Turns, TurnNext(t)
  PROVE  ChatInv'
  <1>1. CASE Send(t)
    BY <1>1, SendStep
  <1>2. CASE Abort(t)
    BY <1>2, AbortStep
  <1>3. CASE Text(t)
    BY <1>3, TextStep
  <1>4. ASSUME NEW kind \in Kinds, Ready(t, kind)
        PROVE  ChatInv'
    BY <1>4, ReadyStep
  <1>5. CASE Prime(t)
    BY <1>5, BeginStep DEF Prime
  <1>6. CASE Retry(t)
    BY <1>6, RetryStep
  <1>7. CASE Stopped(t)
    BY <1>7, StoppedStep
  <1>8. ASSUME NEW retryable \in BOOLEAN, Fail(t, retryable)
        PROVE  ChatInv'
    BY <1>8, FailStep
  <1>9. ASSUME NEW reason, Stop(t, reason)
        PROVE  ChatInv'
    BY <1>9, StopStep
  <1>10. ASSUME NEW i, ToolDone(t, i)
         PROVE  ChatInv'
    BY <1>10, ToolDoneStep
  <1> QED
    BY <1>1, <1>2, <1>3, <1>4, <1>5, <1>6, <1>7, <1>8, <1>9, <1>10 DEF TurnNext, Advance

\* The widget changes nothing of the turns, and neither does a step of others.
LEMMA OthersKeep ==
  ASSUME ChatInv, UNCHANGED <<turn, endedTurns, stream, saved>>
  PROVE  ChatInv'
  BY DEF ChatInv, ChatTypes, StreamInv, EndsKnown, TurnInv, Fate, Announced, Books

\* A session has no turns yet.
LEMMA ChatInit ==
  ASSUME Init
  PROVE  ChatInv
  <1>1. << >> \in Seq(Call) /\ << >> \in Seq(Mail) /\ << >> \in Seq(Event)
    OBVIOUS
  <1>2. Unsent \in Progressing
    BY <1>1 DEF Unsent, Progressing, Stages
  <1>3. ChatTypes
    BY <1>1, <1>2 DEF Init, ChatTypes
  <1>4. Len(stream) = 0 /\ Paired(saved) /\ Paired(<< >>)
    BY DEF Init, Paired, PairedTo
  <1>5. StreamInv
    BY <1>4 DEF StreamInv, Ordered, EndsKnown
  <1>6. ASSUME NEW t \in Turns
        PROVE  TurnInv(t)
    <2>1. turn[t] = Unsent /\ t \notin endedTurns
      BY DEF Init
    <2>2. /\ Unsent.at = "unsent" /\ Unsent.calls = << >> /\ Unsent.built = << >>
      BY DEF Unsent
    <2>3. ~ Unsent.aborted
      BY DEF Unsent
    <2>4. Fate(t)
      BY <2>1, <2>2, <2>3 DEF Fate
    <2>5. Announced(t)
      BY <1>4, <2>1, <2>2 DEF Announced, Silent, Busy
    <2>6. Orderly(turn[t].calls) /\ NothingWaits(turn[t]) /\ Books(t)
      BY <1>4, <2>1, <2>2 DEF Orderly, NothingWaits, Books
    <2> QED
      BY <2>4, <2>5, <2>6 DEF TurnInv
  <1> QED
    BY <1>3, <1>4, <1>5, <1>6 DEF ChatInv

\* The invariant holds of every behaviour of a session.
THEOREM ChatInvariant == Spec => []ChatInv
  <1>1. Init => ChatInv
    BY ChatInit
  <1>2. ChatInv /\ [Next]_vars => ChatInv'
    <2> SUFFICES ASSUME ChatInv, [Next]_vars
                 PROVE  ChatInv'
      OBVIOUS
    <2>1. ASSUME NEW t \in Turns, TurnNext(t)
          PROVE  ChatInv'
      BY <2>1, TurnKeeps
    <2>2. CASE WidgetNext
      BY <2>2, OthersKeep DEF WidgetNext, Mount, History, Shows
    <2>3. CASE UNCHANGED vars
      BY <2>3, OthersKeep DEF vars
    <2> QED
      BY <2>1, <2>2, <2>3 DEF Next
  <1> QED
    BY <1>1, <1>2, PTL DEF Spec

\* What the readers of a turn are told, and what it does, happens in order: its start
\* before all it says, one turn-end and it is last, a result after its call, and its writes
\* one by one in call order.
THEOREM InOrderHolds == Spec => []InOrder
  <1>1. ChatInv => InOrder
    <2> SUFFICES ASSUME ChatInv
                 PROVE  InOrder
      OBVIOUS
    <2>1. StreamOrdered
      BY DEF ChatInv, StreamInv, Ordered, StreamOrdered, StartOf
    <2>2. WritesInOrder
      BY DEF ChatInv, TurnInv, Orderly, WritesInOrder
    <2> QED
      BY <2>1, <2>2 DEF InOrder
  <1> QED
    BY <1>1, ChatInvariant, PTL

\* Every tool call in the saved history is followed by its results, if a provider that has
\* calls ready stops for no other reason than to have them made.
THEOREM HistoryPairedHolds ==
  ASSUME CutCalls = FALSE
  PROVE  Spec => []HistoryPaired
  <1>1. ChatInv => HistoryPaired
    BY DEF ChatInv, Paired, PairedTo, HistoryPaired
  <1> QED
    BY <1>1, ChatInvariant, PTL

\* A step of another turn, or of the widget, is none of this turn.
LEMMA OthersStartNothing ==
  ASSUME ChatInv, NEW t \in Turns, NEW u \in Turns, TurnNext(u), u # t
  PROVE  turn'[t] = turn[t]
  <1> SUFFICES ASSUME NEW r, turn' = [turn EXCEPT ![u] = r]
               PROVE  turn'[t] = turn[t]
    BY ZenonT(60) DEF TurnNext, Advance, Send, Begin, Prime, Abort, Text, Ready, Fail, Retry, Stopped,
           AbortFinish, Stop, ToolDone, AfterTools, Finish, StartReview
  <1> QED
    BY DEF ChatInv, ChatTypes

\* An aborted turn that is not over starts nothing.
LEMMA AbortedStartsNothing ==
  ASSUME ChatInv, NEW t \in Turns, TurnNext(t), turn[t].aborted, turn[t].at # "unsent"
  PROVE  turn'[t].at = "done" \/ Work(t)' = Work(t)
  <1>1. turn[t] \in Progressing /\ turn \in [Turns -> Progressing]
    BY DEF ChatInv, ChatTypes
  <1>2. ASSUME NEW r \in Progressing, NEW events, Finish(t, r, events, "aborted")
        PROVE  turn'[t].at = "done"
    <2>1. turn' = [turn EXCEPT ![t] = Ended(r)]
      BY <1>2 DEF Finish, Reviews
    <2> QED
      BY <1>1, <2>1, EndedFields
  <1>3. CASE Prime(t)
    <2> DEFINE r == [turn[t] EXCEPT !.messages = Append(saved, Says(t, "user", 0))]
    <2>1. Says(t, "user", 0) \in Mail /\ saved \in Seq(Mail)
      BY SaysFields DEF ChatInv, ChatTypes
    <2>2. Append(saved, Says(t, "user", 0)) \in Seq(Mail)
      BY <2>1
    <2>3. r \in Progressing
      BY <1>1, <2>2 DEF Progressing
    <2>4. r.aborted
      BY <1>1 DEF Progressing
    <2>5. Finish(t, r, <<Ev(t, "turn-start"), Ev(t, "abort")>>, "aborted")
      BY <1>3, <2>4 DEF Prime, Begin
    <2> QED
      BY <1>2, <2>3, <2>5
  <1>4. CASE Stopped(t)
    BY <1>1, <1>2, <1>4 DEF Stopped, AbortFinish
  <1>5. ASSUME NEW i, ToolDone(t, i)
        PROVE  turn'[t].at = "done" \/ Work(t)' = Work(t)
    <2> DEFINE b == [turn[t] EXCEPT !.calls[i].state = "answered"]
    <2> DEFINE x == CallEv(t, turn[t], "result", i)
    <2>1. /\ i \in DOMAIN turn[t].calls /\ turn[t].calls[i].state = "running"
          /\ Orderly(turn[t].calls)
      BY <1>5 DEF ToolDone, ChatInv, TurnInv
    <2>2. b \in Progressing /\ b.aborted = turn[t].aborted
          /\ b.pass = turn[t].pass /\ b.iteration = turn[t].iteration
          /\ b.attempt = turn[t].attempt
      BY <1>1, <2>1, AnswersOne
    <2>3. {j \in DOMAIN b.calls : b.calls[j].state # "ready"}
            = {j \in DOMAIN turn[t].calls : turn[t].calls[j].state # "ready"}
      <3> DEFINE new == [turn[t].calls EXCEPT ![i] = [@ EXCEPT !.state = "answered"]]
      <3>1. b.calls = new /\ DOMAIN new = DOMAIN turn[t].calls
        BY <1>1 DEF Progressing
      <3>2. turn[t].calls[i] \in Call
        BY <1>1, <2>1 DEF Progressing
      <3>3. new[i].state = "answered" /\ \A j \in DOMAIN turn[t].calls \ {i} : new[j] = turn[t].calls[j]
        BY <2>1, <3>2 DEF Call
      <3> HIDE DEF new
      <3> QED
        BY <2>1, <3>1, <3>3
    <2> HIDE DEF b
    <2>4. Started(b) = b
      BY <2>2 DEF Started
    <2>5. \/ turn' = [turn EXCEPT ![t] = b]
          \/ AfterTools(t, b, <<x>>)
      BY <1>5, <2>4 DEF ToolDone, b
    <2>6. CASE turn' = [turn EXCEPT ![t] = b]
      <3>1. turn'[t] = b
        BY <1>1, <2>6
      <3> QED
        BY <2>2, <2>3, <3>1 DEF Work
    <2>7. CASE AfterTools(t, b, <<x>>)
      <3> DEFINE n == [Answered(t, b) EXCEPT !.iteration = @ + 1]
      <3>1. n \in Progressing
        BY <2>2, AnsweredFields
      <3>2. Finish(t, n, Append(<<x>>, Ev(t, "abort")), "aborted")
        BY <2>2, <2>7 DEF AfterTools
      <3> QED
        BY <1>2, <3>1, <3>2
    <2> QED
      BY <2>5, <2>6, <2>7
  <1>6. ~ Send(t) /\ ~ Abort(t) /\ ~ Text(t) /\ ~ Retry(t)
        /\ (\A kind : ~ Ready(t, kind)) /\ (\A retryable : ~ Fail(t, retryable))
        /\ (\A reason : ~ Stop(t, reason))
    BY DEF Send, Abort, Text, Retry, Ready, Fail, Stop, Streaming
  <1> QED
    BY <1>3, <1>4, <1>5, <1>6 DEF TurnNext, Advance

\* A turn that has ended for its readers starts nothing any more: no tool, no attempt and no
\* provider turn, until its agent is done.
THEOREM EndedStartsNothingHolds == Spec => EndedStartsNothing
  <1>1. ChatInv /\ [Next]_vars =>
          [\A t \in endedTurns : turn'[t].at = "done" \/ Work(t)' = Work(t)]_vars
    <2> SUFFICES ASSUME ChatInv, [Next]_vars, NEW t \in endedTurns
                 PROVE  turn'[t].at = "done" \/ Work(t)' = Work(t)
      OBVIOUS
    <2>1. t \in Turns /\ (turn[t].at = "done" \/ turn[t].aborted) /\ turn[t].at # "unsent"
      BY DEF ChatInv, ChatTypes, TurnInv, Fate
    <2>2. CASE turn' = turn
      BY <2>2 DEF Work
    <2>3. ASSUME NEW u \in Turns, TurnNext(u)
          PROVE  turn'[t].at = "done" \/ Work(t)' = Work(t)
      <3>1. CASE u # t
        <4>1. turn'[t] = turn[t]
          BY <2>1, <2>3, <3>1, OthersStartNothing
        <4> QED
          BY <4>1 DEF Work
      <3>2. CASE u = t /\ turn[t].aborted
        BY <2>1, <2>3, <3>2, AbortedStartsNothing
      <3>3. CASE u = t /\ ~ turn[t].aborted
        <4>1. turn[t].at = "done" /\ turn \in [Turns -> Progressing]
          BY <2>1, <3>3 DEF ChatInv, ChatTypes
        <4>2. Abort(t)
          BY <2>3, <3>3, <4>1 DEF TurnNext, Advance, Send, Text, Ready, Prime, Retry, Stopped,
                                  Fail, Stop, ToolDone, Streaming
        <4>3. turn'[t].at = "done"
          BY <2>1, <4>1, <4>2 DEF Abort, Progressing
        <4> QED
          BY <4>3
      <3> QED
        BY <3>1, <3>2, <3>3
    <2>4. CASE WidgetNext
      BY <2>2, <2>4 DEF WidgetNext, Mount, History, Shows
    <2>5. CASE UNCHANGED vars
      BY <2>2, <2>5 DEF vars
    <2> QED
      BY <2>3, <2>4, <2>5 DEF Next
  <1> QED
    BY <1>1, ChatInvariant, PTL DEF Spec, EndedStartsNothing

-----------------------------------------------------------------------------
(***************************************************************************)
(* What the widget is shown: the invariant                                 *)
(*                                                                         *)
(* No result comes before its call got ready: the calls of a turn that is  *)
(* told of are all behind where the turn is.  An abort that is told of      *)
(* goes with the end of its turn, and an ended turn has told its end.  The  *)
(* widget's history and its subscription leave no gap.                     *)
(***************************************************************************)
NoLateReady ==
    \A i, j \in 1..Len(stream) :
       stream[i].type = "result" /\ stream[j].type = "ready"
         /\ stream[i].turn = stream[j].turn /\ stream[i].id = stream[j].id => j < i

AbortsEnd ==
    \A i \in 1..Len(stream) :
       stream[i].type = "abort" => Told(stream, EndEv(stream[i].turn, "aborted"))
EndsSay ==
    \A i \in 1..Len(stream) :
       IsEnd(stream[i]) => \E reason \in Reasons : stream[i] = EndEv(stream[i].turn, reason)
EndsTold == \A t \in endedTurns : \E reason \in Reasons : Told(stream, EndEv(t, reason))

\* A call's id that the turn has come to, or gone past.
Behind(id, r) ==
    /\ Len(id) = 4
    /\ \/ id[1] < r.pass
       \/ id[1] = r.pass /\ id[2] < r.iteration
       \/ id[1] = r.pass /\ id[2] = r.iteration /\ id[3] < r.attempt
       \/ /\ id[1] = r.pass /\ id[2] = r.iteration /\ id[3] = r.attempt
          /\ r.at # "backoff" /\ id[4] <= Len(r.calls)

AllBehind(t, r) ==
    \A i \in 1..Len(stream) :
       stream[i].turn = t /\ stream[i].type = "ready" => Behind(stream[i].id, r)

WidgetInv ==
    /\ widget \in Widget
    /\ widget.since <= Len(stream)
    /\ widget.at \in {"answering", "shown", "failed"} =>
         widget.since <= widget.read /\ widget.read <= Len(stream)

ShowInv ==
    /\ NoLateReady /\ AbortsEnd /\ EndsSay /\ EndsTold
    /\ \A t \in Turns : t \notin endedTurns => AllBehind(t, turn[t])
    /\ WidgetInv

-----------------------------------------------------------------------------
(***************************************************************************)
(* Where a turn is                                                         *)
(***************************************************************************)
\* The turn goes on, in its attempt or past it.
Further(r, q) ==
    \/ q.pass > r.pass
    \/ q.pass = r.pass /\ q.iteration > r.iteration
    \/ q.pass = r.pass /\ q.iteration = r.iteration /\ q.attempt > r.attempt
    \/ /\ q.pass = r.pass /\ q.iteration = r.iteration /\ q.attempt = r.attempt
       /\ q.at # "backoff"
       /\ r.at = "backoff" \/ Len(q.calls) >= Len(r.calls)

\* What is behind a turn stays behind it.
LEMMA BehindFurther ==
  ASSUME NEW r \in Progressing, NEW q \in Progressing, Further(r, q),
         NEW id \in Seq(Nat), Behind(id, r)
  PROVE  Behind(id, q)
  <1>1. /\ r.pass \in Nat /\ r.iteration \in Nat /\ r.attempt \in Nat
        /\ q.pass \in Nat /\ q.iteration \in Nat /\ q.attempt \in Nat
    BY SMTT(40) DEF Progressing
  <1>2. r.calls \in Seq(Call) /\ q.calls \in Seq(Call)
    BY DEF Progressing
  <1>3. Len(r.calls) \in Nat /\ Len(q.calls) \in Nat
    BY <1>2
  <1>4. Len(id) = 4
    BY DEF Behind
  <1>5. id[1] \in Nat /\ id[2] \in Nat /\ id[3] \in Nat /\ id[4] \in Nat
    <2>1. 1 \in 1..Len(id) /\ 2 \in 1..Len(id) /\ 3 \in 1..Len(id) /\ 4 \in 1..Len(id)
      BY <1>4
    <2>2. \A i \in 1..Len(id) : id[i] \in Nat
      OBVIOUS
    <2> QED
      BY <2>1, <2>2
  <1>6. \/ id[1] < q.pass
        \/ id[1] = q.pass /\ id[2] < q.iteration
        \/ id[1] = q.pass /\ id[2] = q.iteration /\ id[3] < q.attempt
        \/ /\ id[1] = q.pass /\ id[2] = q.iteration /\ id[3] = q.attempt
           /\ q.at # "backoff" /\ id[4] <= Len(q.calls)
    <2>1. CASE q.pass > r.pass
      BY SMTT(40), <1>1, <1>5, <2>1 DEF Behind
    <2>2. CASE q.pass = r.pass /\ q.iteration > r.iteration
      BY <1>1, <1>5, <2>2 DEF Behind
    <2>3. CASE q.pass = r.pass /\ q.iteration = r.iteration /\ q.attempt > r.attempt
      BY <1>1, <1>5, <2>3 DEF Behind
    <2>4. CASE /\ q.pass = r.pass /\ q.iteration = r.iteration /\ q.attempt = r.attempt
               /\ q.at # "backoff"
               /\ r.at = "backoff" \/ Len(q.calls) >= Len(r.calls)
      BY <1>1, <1>3, <1>5, <2>4 DEF Behind
    <2> QED
      BY <2>1, <2>2, <2>3, <2>4 DEF Further
  <1> QED
    BY <1>4, <1>6 DEF Behind

\* A turn's next call is not behind it, until it is made.
LEMMA NextCall ==
  ASSUME NEW r \in Progressing
  PROVE  /\ CallId(r, Len(r.calls) + 1) \in Seq(Nat)
         /\ ~ Behind(CallId(r, Len(r.calls) + 1), r)
  <1>1. /\ r.pass \in Nat /\ r.iteration \in Nat /\ r.attempt \in Nat
    BY DEF Progressing
  <1>2. r.calls \in Seq(Call)
    BY DEF Progressing
  <1>3. Len(r.calls) \in Nat
    BY <1>2
  <1> DEFINE id == CallId(r, Len(r.calls) + 1)
  <1>4. /\ id \in Seq(Nat) /\ Len(id) = 4 /\ id[1] = r.pass /\ id[2] = r.iteration
        /\ id[3] = r.attempt /\ id[4] = Len(r.calls) + 1
    BY <1>1, <1>3 DEF CallId
  <1> HIDE DEF id
  <1>5. ~ Behind(id, r)
    BY SMTT(40), <1>1, <1>3, <1>4 DEF Behind
  <1> QED
    BY <1>4, <1>5 DEF id

LEMMA CallMade ==
  ASSUME NEW r \in Progressing, NEW q,
         q.pass = r.pass, q.iteration = r.iteration, q.attempt = r.attempt,
         q.at # "backoff", Len(q.calls) = Len(r.calls) + 1
  PROVE  Behind(CallId(r, Len(r.calls) + 1), q)
  <1>1. /\ r.pass \in Nat /\ r.iteration \in Nat /\ r.attempt \in Nat
    BY DEF Progressing
  <1>2. r.calls \in Seq(Call)
    BY DEF Progressing
  <1>3. Len(r.calls) \in Nat
    BY <1>2
  <1> DEFINE id == CallId(r, Len(r.calls) + 1)
  <1>4. /\ Len(id) = 4 /\ id[1] = r.pass /\ id[2] = r.iteration
        /\ id[3] = r.attempt /\ id[4] = Len(r.calls) + 1
    BY <1>1, <1>3 DEF CallId
  <1> HIDE DEF id
  <1>5. Behind(id, q)
    BY <1>3, <1>4 DEF Behind
  <1> QED
    BY <1>5 DEF id

-----------------------------------------------------------------------------
(***************************************************************************)
(* What a turn tells                                                       *)
(***************************************************************************)
\* What a turn says in a step: it may end, for a reason; an abort goes with that end; and a
\* call is told of alone, under the next id.
Tells(t, e) ==
    /\ e \in Seq(Event)
    /\ \A i \in 1..Len(e) :
         /\ e[i].turn = t
         /\ IsEnd(e[i]) => i = Len(e) /\ \E reason \in Reasons : e[i] = EndEv(t, reason)
         /\ e[i].type = "abort" => e[Len(e)] = EndEv(t, "aborted")
         /\ e[i].type = "ready" => Len(e) = 1 /\ e[i].id = CallId(turn[t], Len(turn[t].calls) + 1)

\* An event under another type is the same in all else.
LEMMA ReadyOf ==
  ASSUME NEW x \in Event
  PROVE  /\ [x EXCEPT !.type = "ready"].type = "ready"
         /\ [x EXCEPT !.type = "ready"].turn = x.turn
         /\ [x EXCEPT !.type = "ready"].id = x.id
  BY DEF Event

\* A sequence that is one followed by another.
Joined(c, s, e) ==
    /\ Len(c) = Len(s) + Len(e) /\ Len(s) \in Nat /\ Len(e) \in Nat
    /\ \A i \in 1..Len(s) : c[i] = s[i]
    /\ \A i \in 1..Len(e) : c[Len(s) + i] = e[i]
    /\ \A i \in 1..Len(c) : i \in 1..Len(s) \/ \E k \in 1..Len(e) : i = Len(s) + k

LEMMA ConcatJoined ==
  ASSUME NEW s \in Seq(Event), NEW e \in Seq(Event)
  PROVE  Joined(s \o e, s, e)
  BY ConcatElements DEF Joined

\* What follows a stream under the next id comes after every result told of.
LEMMA ConcatInTime ==
  ASSUME ChatInv, ShowInv, NEW t \in Turns, t \notin endedTurns, NEW e, Tells(t, e),
         stream' = stream \o e
  PROVE  NoLateReady'
  <1> DEFINE n == Len(stream)
  <1>1. e \in Seq(Event) /\ stream \in Seq(Event) /\ turn[t] \in Progressing
    BY DEF Tells, ChatInv, ChatTypes
  <1>2. Joined(stream \o e, stream, e)
    BY <1>1, ConcatJoined
  <1>3. Joined(stream', stream, e)
    BY <1>2
  <1>4. /\ Len(stream') = n + Len(e) /\ n \in Nat /\ Len(e) \in Nat
        /\ \A i \in 1..n : stream'[i] = stream[i]
        /\ \A i \in 1..Len(e) : stream'[n + i] = e[i]
        /\ \A i \in 1..Len(stream') : i \in 1..n \/ \E k \in 1..Len(e) : i = n + k
    BY <1>3 DEF Joined
  <1> SUFFICES ASSUME NEW i \in 1..Len(stream'), NEW j \in 1..Len(stream'),
                      stream'[i].type = "result", stream'[j].type = "ready",
                      stream'[i].turn = stream'[j].turn, stream'[i].id = stream'[j].id
               PROVE  j < i
    BY DEF NoLateReady
  <1>5. CASE j \in 1..n /\ i \in 1..n
    BY <1>4, <1>5 DEF ShowInv, NoLateReady
  <1>6. CASE j \in 1..n /\ i \notin 1..n
    BY <1>4, <1>6
  <1>7. CASE j \notin 1..n
    <2>1. PICK k \in 1..Len(e) : j = n + k
      BY <1>4, <1>7
    <2>2. stream'[j] = e[k]
      BY <1>4, <2>1
    <2>3. e[k].turn = t /\ Len(e) = 1 /\ e[k].id = CallId(turn[t], Len(turn[t].calls) + 1)
      BY <2>2 DEF Tells
    <2>4. i \in 1..n
      <3> SUFFICES ASSUME i \notin 1..n PROVE FALSE
        OBVIOUS
      <3>1. PICK l \in 1..Len(e) : i = n + l
        BY <1>4
      <3>2. l = 1 /\ k = 1
        BY <2>3
      <3> QED
        BY <2>1, <3>1, <3>2
    <2>5. stream'[i] = stream[i] /\ stream[i] \in Event
      BY <1>1, <1>4, <2>4
    <2>6. PICK l \in 1..i : stream[l] = [stream[i] EXCEPT !.type = "ready"]
      <3>1. Ordered(stream)
        BY DEF ChatInv, StreamInv
      <3>2. stream[i].type = "result"
        BY <2>5
      <3> QED
        BY <2>4, <3>1, <3>2 DEF Ordered
    <2>7. l \in 1..n
      BY <2>4
    <2>8. stream[l].type = "ready" /\ stream[l].turn = t /\ stream[l].id = e[k].id
      BY <2>2, <2>3, <2>5, <2>6, ReadyOf
    <2>9. Behind(stream[l].id, turn[t])
      BY <2>7, <2>8 DEF ShowInv, AllBehind
    <2> QED
      BY <1>1, <2>3, <2>8, <2>9, NextCall
  <1> QED
    BY <1>5, <1>6, <1>7

\* The aborts and ends that a step adds go together.
LEMMA ConcatEnds ==
  ASSUME ChatInv, ShowInv, NEW t \in Turns, NEW e, Tells(t, e), stream' = stream \o e
  PROVE  /\ AbortsEnd' /\ EndsSay'
         /\ \A x : Told(stream, x) => Told(stream', x)
         /\ Len(stream') >= Len(stream)
         /\ e # << >> /\ IsEnd(Last(e)) => \E reason \in Reasons : Told(stream', EndEv(t, reason))
  <1> DEFINE n == Len(stream)
  <1>1. e \in Seq(Event) /\ stream \in Seq(Event)
    BY DEF Tells, ChatInv, ChatTypes
  <1>2. Joined(stream \o e, stream, e)
    BY <1>1, ConcatJoined
  <1>3. Joined(stream', stream, e)
    BY <1>2
  <1>4. /\ Len(stream') = n + Len(e) /\ n \in Nat /\ Len(e) \in Nat
        /\ \A i \in 1..n : stream'[i] = stream[i]
        /\ \A i \in 1..Len(e) : stream'[n + i] = e[i]
        /\ \A i \in 1..Len(stream') : i \in 1..n \/ \E k \in 1..Len(e) : i = n + k
    BY <1>3 DEF Joined
  <1>5. \A i \in 1..Len(e) : n + i \in 1..Len(stream')
    BY <1>4
  <1>6. \A x : Told(stream, x) => Told(stream', x)
    <2>1. \A i \in 1..n : i \in 1..Len(stream')
      BY <1>4
    <2> QED
      BY <1>4, <2>1 DEF Told
  <1>7. \A i \in 1..Len(e) : Told(stream', e[i])
    BY <1>4, <1>5 DEF Told
  <1>8. ASSUME NEW i \in 1..Len(stream'), stream'[i].type = "abort"
        PROVE  Told(stream', EndEv(stream'[i].turn, "aborted"))
    <2>1. CASE i \in 1..n
      BY <1>4, <1>6, <1>8, <2>1 DEF ShowInv, AbortsEnd
    <2>2. CASE \E k \in 1..Len(e) : i = n + k
      <3> PICK k \in 1..Len(e) : i = n + k
        BY <2>2
      <3>1. stream'[i] = e[k]
        BY <1>4
      <3>2. e[k].turn = t /\ e[Len(e)] = EndEv(t, "aborted")
        BY <1>8, <3>1 DEF Tells
      <3>3. Len(e) \in 1..Len(e)
        BY <1>4
      <3> QED
        BY <1>7, <3>1, <3>2, <3>3
    <2> QED
      BY <1>4, <2>1, <2>2
  <1>9. ASSUME NEW i \in 1..Len(stream'), IsEnd(stream'[i])
        PROVE  \E reason \in Reasons : stream'[i] = EndEv(stream'[i].turn, reason)
    <2>1. CASE i \in 1..n
      <3>1. stream'[i] = stream[i] /\ IsEnd(stream[i])
        BY <1>4, <1>9, <2>1
      <3>2. \E reason \in Reasons : stream[i] = EndEv(stream[i].turn, reason)
        BY <2>1, <3>1 DEF ShowInv, EndsSay
      <3> QED
        BY <3>1, <3>2
    <2>2. CASE \E k \in 1..Len(e) : i = n + k
      <3> PICK k \in 1..Len(e) : i = n + k
        BY <2>2
      <3>1. stream'[i] = e[k] /\ IsEnd(e[k])
        BY <1>4, <1>9
      <3>2. e[k].turn = t /\ \E reason \in Reasons : e[k] = EndEv(t, reason)
        BY <3>1 DEF Tells
      <3> QED
        BY <3>1, <3>2
    <2> QED
      BY <1>4, <2>1, <2>2
  <1>10. ASSUME e # << >>, IsEnd(Last(e))
        PROVE  \E reason \in Reasons : Told(stream', EndEv(t, reason))
    <2>1. Len(e) \in 1..Len(e) /\ Last(e) = e[Len(e)]
      BY <1>1, <1>10 DEF Last
    <2>2. PICK reason \in Reasons : e[Len(e)] = EndEv(t, reason)
      BY <1>10, <2>1 DEF Tells
    <2> QED
      BY <1>7, <2>1, <2>2
  <1>11. AbortsEnd' /\ EndsSay'
    BY <1>8, <1>9, Zenon DEF AbortsEnd, EndsSay
  <1>12. Len(stream') >= n
    BY <1>4
  <1> QED
    BY <1>6, <1>10, <1>11, <1>12, Zenon

-----------------------------------------------------------------------------
\* A step of turn t that tells e keeps what the widget relies on, if what it was told of the
\* turn is behind it, or the turn has ended.
LEMMA ShowsOn ==
  ASSUME ChatInv, ShowInv, NEW t \in Turns, NEW e, Tells(t, e), Emit(t, e),
         \A u \in Turns : u # t => turn'[u] = turn[u],
         widget' = widget,
         \/ t \in endedTurns'
         \/ /\ AllBehind(t, turn'[t])
            /\ \A i \in 1..Len(e) : e[i].type = "ready" => Behind(e[i].id, turn'[t])
  PROVE  ShowInv'
  <1>1. e \in Seq(Event) /\ stream \in Seq(Event) /\ endedTurns \subseteq Turns
    BY DEF Tells, ChatInv, ChatTypes
  <1>2. endedTurns' = IF e # << >> /\ IsEnd(Last(e)) THEN endedTurns \cup {t} ELSE endedTurns
    BY DEF Emit, IsEnd
  <1>3. \A u \in Turns : u # t => (u \in endedTurns' <=> u \in endedTurns)
    BY <1>2
  <1>4. WidgetInv /\ NoLateReady /\ AbortsEnd /\ EndsSay /\ EndsTold
        /\ \A u \in Turns : u \notin endedTurns => AllBehind(u, turn[u])
    BY DEF ShowInv
  <1>5. CASE t \in endedTurns
    <2>1. stream' = stream /\ endedTurns' = endedTurns
      BY <1>2, <1>5 DEF Emit
    <2>2. NoLateReady' /\ AbortsEnd' /\ EndsSay' /\ EndsTold'
      BY <1>4, <2>1 DEF NoLateReady, AbortsEnd, EndsSay, EndsTold
    <2>3. \A u \in Turns : u \notin endedTurns' => AllBehind(u, turn[u])' 
      <3> SUFFICES ASSUME NEW u \in Turns, u \notin endedTurns'
                   PROVE  AllBehind(u, turn[u])'
        OBVIOUS
      <3>1. u # t /\ turn'[u] = turn[u] /\ AllBehind(u, turn[u])
        BY <1>4, <1>5, <2>1
      <3> QED
        BY <2>1, <3>1 DEF AllBehind
    <2>4. WidgetInv'
      BY <1>4, <2>1 DEF WidgetInv
    <2> QED
      BY <2>2, <2>3, <2>4 DEF ShowInv
  <1>6. CASE t \notin endedTurns
    <2>1. stream' = stream \o e
      BY <1>6 DEF Emit
    <2>2. NoLateReady'
      BY <1>6, <2>1, ConcatInTime
    <2>3. /\ AbortsEnd' /\ EndsSay'
          /\ \A x : Told(stream, x) => Told(stream', x)
          /\ Len(stream') >= Len(stream)
          /\ e # << >> /\ IsEnd(Last(e)) => \E reason \in Reasons : Told(stream', EndEv(t, reason))
      BY <2>1, ConcatEnds
    <2>4. EndsTold'
      <3> SUFFICES ASSUME NEW u \in endedTurns'
                   PROVE  \E reason \in Reasons : Told(stream', EndEv(u, reason))
        BY DEF EndsTold
      <3>1. CASE u \in endedTurns
        <4>1. PICK reason \in Reasons : Told(stream, EndEv(u, reason))
          BY <1>4, <3>1 DEF EndsTold
        <4> QED
          BY <2>3, <4>1
      <3>2. CASE u \notin endedTurns
        <4>1. u = t /\ e # << >> /\ IsEnd(Last(e))
          BY <1>2, <3>2
        <4> QED
          BY <2>3, <4>1
      <3> QED
        BY <3>1, <3>2
    <2>5. /\ Len(stream') = Len(stream) + Len(e)
          /\ \A i \in 1..Len(stream) : stream'[i] = stream[i]
          /\ \A i \in 1..Len(e) : stream'[Len(stream) + i] = e[i]
          /\ \A i \in 1..Len(stream') :
               i \in 1..Len(stream) \/ \E k \in 1..Len(e) : i = Len(stream) + k
      <3>1. Joined(stream \o e, stream, e)
        BY <1>1, ConcatJoined
      <3>2. Joined(stream', stream, e)
        BY <2>1, <3>1
      <3> QED
        BY <3>2 DEF Joined
    <2>6. ASSUME NEW u \in Turns, u \notin endedTurns'
          PROVE  AllBehind(u, turn[u])'
      <3> SUFFICES ASSUME NEW i \in 1..Len(stream'), stream'[i].turn = u,
                          stream'[i].type = "ready"
                   PROVE  Behind(stream'[i].id, turn'[u])
        BY DEF AllBehind
      <3>1. CASE u # t
        <4>1. turn'[u] = turn[u] /\ AllBehind(u, turn[u])
          BY <1>3, <1>4, <2>6, <3>1
        <4>2. i \in 1..Len(stream)
          <5>1. \A k \in 1..Len(e) : e[k].turn = t
            BY DEF Tells
          <5>2. \A k \in 1..Len(e) : i # Len(stream) + k
            BY <2>5, <3>1, <5>1
          <5> QED
            BY <2>5, <5>2
        <4> QED
          BY <2>5, <4>1, <4>2 DEF AllBehind
      <3>2. CASE u = t
        <4>1. /\ AllBehind(t, turn'[t])
              /\ \A k \in 1..Len(e) : e[k].type = "ready" => Behind(e[k].id, turn'[t])
          BY <2>6, <3>2
        <4>2. CASE i \in 1..Len(stream)
          BY <2>5, <3>2, <4>1, <4>2 DEF AllBehind
        <4>3. CASE \E k \in 1..Len(e) : i = Len(stream) + k
          BY <2>5, <3>2, <4>1, <4>3
        <4> QED
          BY <2>5, <4>2, <4>3
      <3> QED
        BY <3>1, <3>2
    <2>7. WidgetInv'
      <3>1. Len(stream') \in Nat /\ Len(stream) \in Nat
        <4>1. Len(stream) \in Nat /\ Len(e) \in Nat
          BY <1>1
        <4> QED
          BY <2>5, <4>1
      <3>2. widget.since \in Nat /\ widget.read \in Nat
        BY <1>4 DEF WidgetInv, Widget
      <3>3. widget.since <= Len(stream') /\ (widget.read <= Len(stream) => widget.read <= Len(stream'))
        BY <1>4, <2>3, <3>1, <3>2 DEF WidgetInv
      <3> QED
        BY <1>4, <3>3 DEF WidgetInv
    <2> QED
      BY <2>2, <2>3, <2>4, <2>6, <2>7 DEF ShowInv
  <1> QED
    BY <1>5, <1>6

\* Nothing is told.
LEMMA ShowsQuiet ==
  ASSUME ChatInv, ShowInv, NEW t \in Turns, UNCHANGED <<endedTurns, stream, widget>>,
         \A u \in Turns : u # t => turn'[u] = turn[u],
         t \notin endedTurns => AllBehind(t, turn'[t])
  PROVE  ShowInv'
  <1>1. NoLateReady' /\ AbortsEnd' /\ EndsSay' /\ EndsTold'
    BY DEF ShowInv, NoLateReady, AbortsEnd, EndsSay, EndsTold
  <1>2. WidgetInv'
    BY DEF ShowInv, WidgetInv
  <1>3. ASSUME NEW u \in Turns, u \notin endedTurns'
        PROVE  AllBehind(u, turn[u])'
    <2>1. AllBehind(u, turn'[u])
      BY <1>3 DEF ShowInv
    <2> QED
      BY <2>1 DEF AllBehind
  <1> QED
    BY <1>1, <1>2, <1>3 DEF ShowInv

\* What is behind a turn is behind it when it has gone further.
LEMMA AllFurther ==
  ASSUME ChatInv, ShowInv, NEW t \in Turns, t \notin endedTurns, NEW q \in Progressing,
         Further(turn[t], q)
  PROVE  AllBehind(t, q)
  <1>1. turn[t] \in Progressing /\ stream \in Seq(Event) /\ AllBehind(t, turn[t])
    BY DEF ChatInv, ChatTypes, ShowInv
  <1> SUFFICES ASSUME NEW i \in 1..Len(stream), stream[i].turn = t, stream[i].type = "ready"
               PROVE  Behind(stream[i].id, q)
    BY DEF AllBehind
  <1>2. stream[i] \in Event
    BY <1>1
  <1>3. stream[i].id \in Seq(Nat)
    BY <1>2 DEF Event
  <1>4. Behind(stream[i].id, turn[t])
    BY <1>1 DEF AllBehind
  <1> QED
    BY <1>1, <1>3, <1>4, BehindFurther

\* A turn that was not heard of has nothing behind it.
LEMMA AllSilent ==
  ASSUME ChatInv, NEW t \in Turns, t \notin endedTurns, turn[t].at \in {"unsent", "priming"},
         NEW q
  PROVE  AllBehind(t, q)
  BY DEF ChatInv, TurnInv, Announced, Silent, AllBehind

\* One event that is neither an end, nor an abort, nor a call.
LEMMA TellsOne ==
  ASSUME NEW t \in Turns, NEW x \in Event, x.turn = t,
         x.type \in {"turn-start", "text", "result", "error"}
  PROVE  Tells(t, <<x>>) /\ \A i \in 1..Len(<<x>>) : <<x>>[i].type # "ready"
  <1> DEFINE e == <<x>>
  <1>1. e \in Seq(Event) /\ \A i \in 1..Len(e) : e[i] = x
    OBVIOUS
  <1> HIDE DEF e
  <1>2. Tells(t, e) /\ \A i \in 1..Len(e) : e[i].type # "ready"
    BY <1>1 DEF Tells, IsEnd
  <1> QED
    BY <1>2 DEF e

\* Events that lead to an end.
HeadsFor(t, e, reason) ==
    /\ e \in Seq(Event)
    /\ \A i \in 1..Len(e) :
         /\ e[i].turn = t
         /\ e[i].type \in {"turn-start", "text", "result", "error", "abort"}
         /\ e[i].type = "abort" => reason = "aborted"

\* Such events and the end.
LEMMA TellsEnd ==
  ASSUME NEW t \in Turns, NEW reason \in Reasons, NEW events, HeadsFor(t, events, reason)
  PROVE  LET e == Append(events, EndEv(t, reason))
         IN  /\ Tells(t, e) /\ e # << >> /\ IsEnd(Last(e))
             /\ \A i \in 1..Len(e) : e[i].type # "ready"
  <1> DEFINE x == EndEv(t, reason)
  <1> DEFINE e == Append(events, x)
  <1> DEFINE n == Len(events)
  <1>1. x \in Event /\ x.turn = t /\ x.type = "turn-end"
    BY EndEvFields
  <1>2. /\ e \in Seq(Event) /\ Len(e) = n + 1 /\ n \in Nat
        /\ \A i \in 1..n : e[i] = events[i]
        /\ e[n + 1] = x
    BY <1>1 DEF HeadsFor
  <1>3. x = EndEv(t, reason)
    OBVIOUS
  <1>4. e # << >> /\ Last(e) = e[Len(e)]
    BY <1>2 DEF Last
  <1> HIDE DEF e, x
  <1>5. ASSUME NEW i \in 1..Len(e)
        PROVE  /\ e[i].turn = t
               /\ IsEnd(e[i]) => i = Len(e) /\ e[i] = EndEv(t, reason)
               /\ e[i].type = "abort" => e[Len(e)] = EndEv(t, "aborted")
               /\ e[i].type # "ready"
    <2>1. CASE i \in 1..n
      <3>1. e[i] = events[i]
        BY <1>2, <2>1
      <3> QED
        BY <1>2, <1>3, <2>1, <3>1 DEF HeadsFor, IsEnd
    <2>2. CASE i = n + 1
      BY <1>1, <1>2, <1>3, <2>2
    <2> QED
      BY <1>2, <2>1, <2>2
  <1>6. Tells(t, e)
    BY <1>2, <1>5 DEF Tells
  <1>7. IsEnd(Last(e))
    BY <1>1, <1>2, <1>4 DEF IsEnd
  <1> QED
    BY <1>4, <1>5, <1>6, <1>7 DEF e, x

\* Events that lead to an end, without it.
LEMMA TellsOn ==
  ASSUME NEW t \in Turns, NEW events, NEW reason, HeadsFor(t, events, reason), reason # "aborted"
  PROVE  Tells(t, events) /\ \A i \in 1..Len(events) : events[i].type # "ready"
  BY DEF HeadsFor, Tells, IsEnd

-----------------------------------------------------------------------------
(***************************************************************************)
(* The steps of a turn, for the widget                                     *)
(***************************************************************************)
\* The end of a run, or of its first pass.
LEMMA FinishShows ==
  ASSUME ChatInv, ShowInv, NEW t \in Turns, NEW r \in Progressing, NEW events,
         NEW reason \in Reasons, Finish(t, r, events, reason), r.pass = turn[t].pass,
         HeadsFor(t, events, reason)
  PROVE  ShowInv'
  <1>1. turn \in [Turns -> Progressing]
    BY DEF ChatInv, ChatTypes
  <1>2. CASE Reviews(r, reason) /\ StartReview(t, r, events)
    <2> DEFINE x == Says(t, "user", 0)
    <2> DEFINE q == [r EXCEPT !.pass = 2, !.iteration = 0, !.built = r.messages,
                              !.messages = Append(@, x)]
    <2>1. turn' = [turn EXCEPT ![t] = Asks(q)] /\ Emit(t, events) /\ widget' = widget
      BY <1>2 DEF StartReview
    <2>2. x \in Mail
      BY SaysFields
    <2>3. q \in Progressing
      BY <2>2, ReviewFields
    <2>4. q.pass = 2
      BY DEF Progressing
    <2> HIDE DEF q, x
    <2>5. Asks(q) \in Progressing /\ Asks(q).pass = 2
      BY <2>3, <2>4, AsksFields DEF Asks, Progressing
    <2>6. turn'[t] = Asks(q) /\ \A u \in Turns : u # t => turn'[u] = turn[u]
      BY <1>1, <2>1
    <2>7. reason # "aborted" /\ turn[t].pass = 1
      BY <1>2 DEF Reviews
    <2>8. Tells(t, events) /\ \A i \in 1..Len(events) : events[i].type # "ready"
      BY <2>7, TellsOn
    <2>9. t \in endedTurns' \/ AllBehind(t, turn'[t])
      <3>1. Further(turn[t], Asks(q))
        BY <2>5, <2>7 DEF Further
      <3>2. t \notin endedTurns => AllBehind(t, Asks(q))
        BY <2>5, <3>1, AllFurther
      <3>3. t \in endedTurns => t \in endedTurns'
        BY <2>1 DEF Emit
      <3> QED
        BY <2>6, <3>2, <3>3
    <2> QED
      BY <2>1, <2>6, <2>8, <2>9, ShowsOn
  <1>3. CASE /\ turn' = [turn EXCEPT ![t] = Ended(r)]
             /\ Emit(t, Append(events, EndEv(t, reason)))
             /\ UNCHANGED widget
    <2> DEFINE e == Append(events, EndEv(t, reason))
    <2>1. Tells(t, e) /\ e # << >> /\ IsEnd(Last(e))
      BY TellsEnd
    <2>2. Emit(t, e)
      BY <1>3
    <2> HIDE DEF e
    <2>3. t \in endedTurns'
      BY <2>1, <2>2 DEF Emit, IsEnd
    <2>4. \A u \in Turns : u # t => turn'[u] = turn[u]
      BY <1>1, <1>3
    <2> QED
      BY <1>3, <2>1, <2>2, <2>3, <2>4, ShowsOn
  <1> QED
    BY <1>2, <1>3 DEF Finish

\* One event leads anywhere, an abort to an aborted end.
LEMMA LeadsOne ==
  ASSUME NEW t \in Turns, NEW x \in Event, x.turn = t,
         x.type \in {"turn-start", "text", "result", "error", "abort"},
         NEW reason, x.type = "abort" => reason = "aborted"
  PROVE  HeadsFor(t, <<x>>, reason)
  <1> DEFINE e == <<x>>
  <1>1. e \in Seq(Event) /\ \A i \in 1..Len(e) : e[i] = x
    OBVIOUS
  <1> HIDE DEF e
  <1>2. HeadsFor(t, e, reason)
    BY <1>1 DEF HeadsFor
  <1> QED
    BY <1>2 DEF e

\* And so does one more.
LEMMA LeadsTwo ==
  ASSUME NEW t \in Turns, NEW x \in Event, x.turn = t,
         x.type \in {"turn-start", "text", "result", "error"},
         NEW y \in Event, y.turn = t, y.type = "abort"
  PROVE  HeadsFor(t, Append(<<x>>, y), "aborted") /\ <<x, y>> = Append(<<x>>, y)
  <1> DEFINE e == Append(<<x>>, y)
  <1>1. e \in Seq(Event) /\ \A i \in 1..Len(e) : e[i] = x \/ e[i] = y
    OBVIOUS
  <1>2. <<x, y>> = e
    OBVIOUS
  <1> HIDE DEF e
  <1>3. HeadsFor(t, e, "aborted")
    BY <1>1 DEF HeadsFor
  <1> QED
    BY <1>2, <1>3 DEF e

\* One event of a turn that goes on.
LEMMA OneShows ==
  ASSUME ChatInv, ShowInv, NEW t \in Turns, NEW q \in Progressing,
         turn' = [turn EXCEPT ![t] = q], widget' = widget,
         NEW x \in Event, x.turn = t, x.type \in {"turn-start", "text", "result", "error"},
         Emit(t, <<x>>),
         t \in endedTurns \/ AllBehind(t, q)
  PROVE  ShowInv'
  <1>1. turn \in [Turns -> Progressing]
    BY DEF ChatInv, ChatTypes
  <1>2. turn'[t] = q /\ \A u \in Turns : u # t => turn'[u] = turn[u]
    BY <1>1
  <1> DEFINE e == <<x>>
  <1>3. Tells(t, e) /\ \A i \in 1..Len(e) : e[i].type # "ready"
    BY TellsOne
  <1>4. Emit(t, e)
    OBVIOUS
  <1> HIDE DEF e
  <1>5. t \in endedTurns => t \in endedTurns'
    BY <1>4 DEF Emit
  <1> QED
    BY <1>2, <1>3, <1>4, <1>5, ShowsOn

\* The agent begins.
LEMMA BeginShows ==
  ASSUME ChatInv, ShowInv, NEW t \in Turns, Begin(t), turn[t].at \in {"unsent", "priming"}
  PROVE  ShowInv'
  <1> DEFINE u == Says(t, "user", 0)
  <1> DEFINE m == Append(saved, u)
  <1> DEFINE r == [turn[t] EXCEPT !.messages = m]
  <1> DEFINE x == Ev(t, "turn-start")
  <1> DEFINE y == Ev(t, "abort")
  <1>1. turn[t] \in Progressing /\ saved \in Seq(Mail)
    BY DEF ChatInv, ChatTypes
  <1>2. u \in Mail
    BY SaysFields
  <1>3. m \in Seq(Mail)
    BY <1>1, <1>2
  <1>4. /\ x \in Event /\ x.turn = t /\ x.type = "turn-start"
        /\ y \in Event /\ y.turn = t /\ y.type = "abort"
    BY EvFields
  <1>5. \/ Finish(t, r, <<x, y>>, "aborted")
        \/ turn' = [turn EXCEPT ![t] = Asks(r)] /\ Emit(t, <<x>>) /\ widget' = widget
    BY DEF Begin
  <1> HIDE DEF m, u
  <1>6. r \in Progressing /\ r.pass = turn[t].pass
    BY <1>1, <1>3 DEF Progressing
  <1> HIDE DEF r, x, y
  <1>7. CASE Finish(t, r, <<x, y>>, "aborted")
    <2>1. HeadsFor(t, Append(<<x>>, y), "aborted") /\ <<x, y>> = Append(<<x>>, y)
      BY <1>4, LeadsTwo
    <2>2. Finish(t, r, Append(<<x>>, y), "aborted")
      BY <1>7, <2>1
    <2> QED
      BY <1>6, <2>1, <2>2, FinishShows DEF Reasons
  <1>8. CASE turn' = [turn EXCEPT ![t] = Asks(r)] /\ Emit(t, <<x>>) /\ widget' = widget
    <2>1. Asks(r) \in Progressing
      BY <1>6, AsksFields
    <2>2. t \in endedTurns \/ AllBehind(t, Asks(r))
      BY AllSilent
    <2> QED
      BY <1>4, <1>8, <2>1, <2>2, OneShows
  <1> QED
    BY <1>5, <1>7, <1>8

LEMMA SendShows ==
  ASSUME ChatInv, ShowInv, NEW t \in Turns, Send(t)
  PROVE  ShowInv'
  <1>1. CASE Memory
    <2>1. turn[t].at = "unsent" /\ turn \in [Turns -> Progressing]
      BY DEF Send, ChatInv, ChatTypes
    <2>2. /\ turn' = [turn EXCEPT ![t].at = "priming"]
          /\ UNCHANGED <<endedTurns, stream, widget>>
      BY <1>1 DEF Send
    <2>3. \A u \in Turns : u # t => turn'[u] = turn[u]
      BY <2>1, <2>2
    <2>4. t \notin endedTurns => AllBehind(t, turn'[t])
      BY <2>1, AllSilent
    <2> QED
      BY <2>2, <2>3, <2>4, ShowsQuiet
  <1>2. CASE ~ Memory
    BY <1>2, BeginShows DEF Send
  <1> QED
    BY <1>1, <1>2

LEMMA AbortShows ==
  ASSUME ChatInv, ShowInv, NEW t \in Turns, Abort(t)
  PROVE  ShowInv'
  <1> DEFINE x == Ev(t, "abort")
  <1> DEFINE y == EndEv(t, "aborted")
  <1>1. turn \in [Turns -> Progressing]
    BY DEF ChatInv, ChatTypes
  <1>2. turn' = [turn EXCEPT ![t].aborted = TRUE] /\ Emit(t, <<x, y>>) /\ widget' = widget
    BY DEF Abort, AbortEvs
  <1>3. x \in Event /\ x.turn = t /\ x.type = "abort" /\ "aborted" \in Reasons
    BY EvFields DEF Reasons
  <1> DEFINE e == Append(<<x>>, y)
  <1>4. <<x, y>> = e
    OBVIOUS
  <1> HIDE DEF x
  <1>5. HeadsFor(t, <<x>>, "aborted")
    BY <1>3, LeadsOne
  <1>6. Tells(t, e) /\ e # << >> /\ IsEnd(Last(e))
    BY <1>3, <1>5, TellsEnd
  <1> HIDE DEF e, y
  <1>7. Emit(t, e)
    BY <1>2, <1>4
  <1>8. t \in endedTurns'
    BY <1>6, <1>7 DEF Emit, IsEnd
  <1>9. \A u \in Turns : u # t => turn'[u] = turn[u]
    BY <1>1, <1>2
  <1> QED
    BY <1>2, <1>6, <1>7, <1>8, <1>9, ShowsOn

LEMMA TextShows ==
  ASSUME ChatInv, ShowInv, NEW t \in Turns, Text(t)
  PROVE  ShowInv'
  <1> DEFINE q == [turn[t] EXCEPT !.said = TRUE]
  <1> DEFINE x == Ev(t, "text")
  <1>1. turn[t] \in Progressing /\ turn[t].at = "asking"
    BY DEF ChatInv, ChatTypes, Text, Streaming
  <1>2. turn' = [turn EXCEPT ![t] = q] /\ Emit(t, <<x>>) /\ widget' = widget
    BY DEF Text
  <1>3. /\ q \in Progressing /\ q.at = "asking" /\ q.calls = turn[t].calls
        /\ q.pass = turn[t].pass /\ q.iteration = turn[t].iteration
        /\ q.attempt = turn[t].attempt
    BY <1>1 DEF Progressing
  <1>4. x \in Event /\ x.turn = t /\ x.type = "text"
    BY EvFields
  <1> HIDE DEF q, x
  <1>5. Further(turn[t], q)
    <2>1. turn[t].calls \in Seq(Call)
      BY <1>1 DEF Progressing
    <2>2. Len(turn[t].calls) >= Len(turn[t].calls)
      BY <2>1
    <2> QED
      BY <1>3, <2>2 DEF Further
  <1>6. t \in endedTurns \/ AllBehind(t, q)
    BY <1>3, <1>5, AllFurther
  <1> QED
    BY <1>2, <1>3, <1>4, <1>6, OneShows

LEMMA FailShows ==
  ASSUME ChatInv, ShowInv, NEW t \in Turns, NEW retryable \in BOOLEAN, Fail(t, retryable)
  PROVE  ShowInv'
  <1> DEFINE a == [turn[t] EXCEPT !.attempt = @ + 1]
  <1> DEFINE r == [a EXCEPT !.at = "backoff"]
  <1> DEFINE x == Ev(t, "error")
  <1>1. turn[t] \in Progressing
    BY DEF ChatInv, ChatTypes
  <1>2. \/ turn' = [turn EXCEPT ![t] = r] /\ Emit(t, <<x>>) /\ widget' = widget
        \/ Finish(t, turn[t], <<x>>, "end")
    BY DEF Fail
  <1>3. /\ r \in Progressing /\ r.pass = turn[t].pass /\ r.iteration = turn[t].iteration
        /\ r.attempt > turn[t].attempt
    <2>1. turn[t].attempt \in Nat /\ turn[t].attempt + 1 \in Nat
      BY <1>1 DEF Progressing
    <2> PICK n \in Nat : n = turn[t].attempt + 1
      BY <2>1
    <2>2. a = [turn[t] EXCEPT !.attempt = n]
      OBVIOUS
    <2> HIDE DEF a
    <2>3. a \in Progressing /\ a.pass = turn[t].pass /\ a.iteration = turn[t].iteration
          /\ a.attempt = n
      BY <1>1, <2>2 DEF Progressing
    <2>4. r \in Progressing /\ r.pass = a.pass /\ r.iteration = a.iteration
          /\ r.attempt = a.attempt
      BY <2>3 DEF Progressing, Stages
    <2>5. n > turn[t].attempt
      BY <2>1
    <2> QED
      BY <2>3, <2>4, <2>5
  <1>4. x \in Event /\ x.turn = t /\ x.type = "error"
    BY EvFields
  <1> HIDE DEF r, x
  <1>5. CASE turn' = [turn EXCEPT ![t] = r] /\ Emit(t, <<x>>) /\ widget' = widget
    <2>1. t \in endedTurns \/ AllBehind(t, r)
      BY <1>3, AllFurther DEF Further
    <2> QED
      BY <1>3, <1>4, <1>5, <2>1, OneShows
  <1>6. CASE Finish(t, turn[t], <<x>>, "end")
    <2>1. HeadsFor(t, <<x>>, "end")
      BY <1>4, LeadsOne
    <2> QED
      BY <1>1, <1>6, <2>1, FinishShows DEF Reasons
  <1> QED
    BY <1>2, <1>5, <1>6

LEMMA RetryShows ==
  ASSUME ChatInv, ShowInv, NEW t \in Turns, Retry(t)
  PROVE  ShowInv'
  <1> DEFINE r == [turn[t] EXCEPT !.at = "asking", !.calls = << >>, !.said = FALSE]
  <1>1. turn[t] \in Progressing /\ turn \in [Turns -> Progressing] /\ turn[t].at = "backoff"
    BY DEF ChatInv, ChatTypes, Retry
  <1>2. turn' = [turn EXCEPT ![t] = r] /\ UNCHANGED <<endedTurns, stream, widget>>
    BY DEF Retry
  <1>3. << >> \in Seq(Call)
    OBVIOUS
  <1>4. /\ r \in Progressing /\ r.at = "asking" /\ r.pass = turn[t].pass
        /\ r.iteration = turn[t].iteration /\ r.attempt = turn[t].attempt
    BY <1>1, <1>3 DEF Progressing, Stages
  <1> HIDE DEF r
  <1>5. Further(turn[t], r)
    BY <1>1, <1>4 DEF Further
  <1>6. turn'[t] = r /\ \A u \in Turns : u # t => turn'[u] = turn[u]
    BY <1>1, <1>2
  <1>7. t \notin endedTurns => AllBehind(t, turn'[t])
    BY <1>4, <1>5, <1>6, AllFurther
  <1> QED
    BY <1>2, <1>6, <1>7, ShowsQuiet

LEMMA ReadyShows ==
  ASSUME ChatInv, ShowInv, NEW t \in Turns, NEW kind \in Kinds, Ready(t, kind)
  PROVE  ShowInv'
  <1> DEFINE old == turn[t].calls
  <1> DEFINE c == [kind |-> kind, state |-> "ready"]
  <1> DEFINE n == Len(old) + 1
  <1> DEFINE new == Append(old, c)
  <1> PICK b \in BOOLEAN : b = (turn[t].mutated \/ (turn[t].pass = 1 /\ kind = "write"))
    OBVIOUS
  <1> DEFINE q == [turn[t] EXCEPT !.calls = new, !.mutated = b]
  <1> DEFINE x == CallEv(t, turn[t], "ready", n)
  <1>1. turn[t] \in Progressing /\ turn \in [Turns -> Progressing] /\ turn[t].at = "asking"
        /\ ~ turn[t].aborted
    BY DEF ChatInv, ChatTypes, Ready, Streaming
  <1>2. turn' = [turn EXCEPT ![t] = q] /\ Emit(t, <<x>>) /\ widget' = widget
    <2>1. turn' = [turn EXCEPT ![t] = [turn[t] EXCEPT !.calls = Append(@, c),
                      !.mutated = @ \/ (turn[t].pass = 1 /\ kind = "write")]]
      BY <1>1 DEF Ready
    <2> QED
      BY <2>1 DEF Ready
  <1>3. c \in Call /\ old \in Seq(Call)
    BY <1>1 DEF Call, CallState, Progressing
  <1>4. new \in Seq(Call) /\ Len(new) = n /\ n \in Nat /\ Len(old) \in Nat
    BY <1>3
  <1> HIDE DEF new
  <1>5. /\ q \in Progressing /\ q.at = "asking" /\ q.calls = new
        /\ q.pass = turn[t].pass /\ q.iteration = turn[t].iteration
        /\ q.attempt = turn[t].attempt
    BY <1>1, <1>4 DEF Progressing
  <1>6. x \in Event /\ x.turn = t /\ x.type = "ready"
    BY <1>1, <1>4, CallEvFields
  <1>7. x.id = CallId(turn[t], n)
    <2>1. << >> \in Seq(Nat)
      OBVIOUS
    <2>2. Ev(t, "ready").id = << >>
      BY DEF Ev
    <2> QED
      BY DEF CallEv, Ev
  <1>8. n = Len(turn[t].calls) + 1 /\ Len(q.calls) = Len(turn[t].calls) + 1
    BY <1>4, <1>5
  <1>9. t \notin endedTurns
    BY <1>1, StreamingTurn DEF Busy
  <1> HIDE DEF q, x, n
  <1>10. Behind(x.id, q)
    BY <1>1, <1>5, <1>7, <1>8, CallMade
  <1>11. AllBehind(t, q)
    <2>1. Len(q.calls) >= Len(turn[t].calls)
      BY <1>3, <1>8
    <2> QED
      BY <1>5, <1>9, <2>1, AllFurther DEF Further
  <1>12. turn'[t] = q /\ \A u \in Turns : u # t => turn'[u] = turn[u]
    BY <1>1, <1>2
  <1> DEFINE e == <<x>>
  <1>13. e \in Seq(Event) /\ Len(e) = 1 /\ \A i \in 1..Len(e) : e[i] = x
    BY <1>6
  <1>14. Emit(t, e)
    BY <1>2
  <1> HIDE DEF e
  <1>15. Tells(t, e)
    BY <1>6, <1>7, <1>8, <1>13 DEF Tells, IsEnd
  <1> QED
    BY <1>2, <1>10, <1>11, <1>12, <1>13, <1>14, <1>15, ShowsOn

LEMMA StopShows ==
  ASSUME ChatInv, ShowInv, NEW t \in Turns, NEW reason, Stop(t, reason)
  PROVE  ShowInv'
  <1> DEFINE r == Spoken(t, turn[t])
  <1>1. turn[t] \in Progressing /\ turn \in [Turns -> Progressing]
        /\ turn[t].at = "asking" /\ TurnInv(t)
    BY DEF ChatInv, ChatTypes, Stop, Streaming
  <1>2. /\ r \in Progressing /\ r.calls = turn[t].calls
        /\ r.pass = turn[t].pass /\ r.iteration = turn[t].iteration
        /\ r.attempt = turn[t].attempt
    BY <1>1, SpokenFields
  <1>3. /\ reason \in {"tool_use", "end", "length", "refusal"}
        /\ \/ /\ turn' = [turn EXCEPT ![t] = Started([r EXCEPT !.at = "tools"])]
              /\ UNCHANGED <<endedTurns, stream, widget>>
           \/ Finish(t, r, << >>, IF reason = "tool_use" THEN "end" ELSE reason)
    BY DEF Stop
  <1> HIDE DEF r
  <1>4. CASE /\ turn' = [turn EXCEPT ![t] = Started([r EXCEPT !.at = "tools"])]
             /\ UNCHANGED <<endedTurns, stream, widget>>
    <2> DEFINE a == [r EXCEPT !.at = "tools"]
    <2>1. /\ a \in Progressing /\ a.at = "tools" /\ a.calls = turn[t].calls
          /\ a.pass = r.pass /\ a.iteration = r.iteration /\ a.attempt = r.attempt
      BY <1>2 DEF Progressing, Stages
    <2>2. turn' = [turn EXCEPT ![t] = Started(a)]
      BY <1>4
    <2> HIDE DEF a
    <2>3. Orderly(a.calls)
      BY <1>1, <2>1 DEF TurnInv
    <2> DEFINE q == Started(a)
    <2>4. /\ q \in Progressing /\ q.at = "tools" /\ q.pass = a.pass
          /\ q.iteration = a.iteration /\ q.attempt = a.attempt
          /\ Len(q.calls) = Len(a.calls)
      BY <2>1, <2>3, StartedFields
    <2> HIDE DEF q
    <2>5. Further(turn[t], q)
      <3>1. turn[t].calls \in Seq(Call)
        BY <1>1 DEF Progressing
      <3>2. Len(q.calls) >= Len(turn[t].calls)
        BY <2>1, <2>4, <3>1
      <3> QED
        BY <1>2, <2>1, <2>4, <3>2 DEF Further
    <2>6. turn'[t] = q /\ \A u \in Turns : u # t => turn'[u] = turn[u]
      BY <1>1, <2>2 DEF q
    <2>7. t \notin endedTurns => AllBehind(t, turn'[t])
      BY <2>4, <2>5, <2>6, AllFurther
    <2> QED
      BY <1>4, <2>6, <2>7, ShowsQuiet
  <1>5. CASE Finish(t, r, << >>, IF reason = "tool_use" THEN "end" ELSE reason)
    <2> DEFINE why == IF reason = "tool_use" THEN "end" ELSE reason
    <2>1. why \in Reasons
      BY <1>3 DEF Reasons
    <2>2. Finish(t, r, << >>, why)
      BY <1>5
    <2> HIDE DEF why
    <2>3. HeadsFor(t, << >>, why)
      BY DEF HeadsFor
    <2> QED
      BY <1>2, <2>1, <2>2, <2>3, FinishShows
  <1> QED
    BY <1>3, <1>4, <1>5

LEMMA StoppedShows ==
  ASSUME ChatInv, ShowInv, NEW t \in Turns, Stopped(t)
  PROVE  ShowInv'
  <1> DEFINE x == Ev(t, "abort")
  <1>1. x \in Event /\ x.turn = t /\ x.type = "abort" /\ turn[t] \in Progressing
    BY EvFields DEF ChatInv, ChatTypes
  <1>2. Finish(t, turn[t], <<x>>, "aborted")
    BY DEF Stopped, AbortFinish
  <1> HIDE DEF x
  <1>3. HeadsFor(t, <<x>>, "aborted")
    BY <1>1, LeadsOne
  <1> QED
    BY <1>1, <1>2, <1>3, FinishShows DEF Reasons

\* The messages of the answers, and one more iteration.
LEMMA NextIteration ==
  ASSUME NEW t \in Turns, NEW r \in Progressing
  PROVE  LET n == [Answered(t, r) EXCEPT !.iteration = @ + 1]
         IN  n.pass = r.pass /\ n.iteration > r.iteration /\ n.iteration = r.iteration + 1
  <1> DEFINE m == r.messages \o [i \in 1..Cardinality({i \in DOMAIN r.calls : Settled(r.calls[i])})
                                   |-> Says(t, "result", 0)]
  <1>1. r.iteration \in Nat
    BY DEF Progressing
  <1> DEFINE a == [r EXCEPT !.messages = m]
  <1>2. Answered(t, r) = a
    BY DEF Answered
  <1> HIDE DEF m
  <1>3. a.pass = r.pass /\ a.iteration = r.iteration /\ a = [k \in DOMAIN a |-> a[k]]
        /\ "iteration" \in DOMAIN a /\ "pass" \in DOMAIN a
    BY DEF Progressing
  <1> HIDE DEF a
  <1> DEFINE n == [a EXCEPT !.iteration = a.iteration + 1]
  <1>4. n.pass = r.pass /\ n.iteration = r.iteration + 1
    BY <1>3
  <1>5. n = [Answered(t, r) EXCEPT !.iteration = @ + 1]
    BY <1>2
  <1> HIDE DEF n
  <1> QED
    BY <1>1, <1>4, <1>5

LEMMA ToolDoneShows ==
  ASSUME ChatInv, ShowInv, NEW t \in Turns, NEW i, ToolDone(t, i)
  PROVE  ShowInv'
  <1> DEFINE b == [turn[t] EXCEPT !.calls[i].state = "answered"]
  <1> DEFINE r == Started(b)
  <1> DEFINE x == CallEv(t, turn[t], "result", i)
  <1>1. TurnInv(t) /\ turn[t] \in Progressing /\ turn \in [Turns -> Progressing]
    BY DEF ChatInv, ChatTypes
  <1>2. /\ turn[t].at = "tools" /\ i \in DOMAIN turn[t].calls
        /\ turn[t].calls[i].state = "running"
        /\ \/ /\ turn' = [turn EXCEPT ![t] = r]
              /\ Emit(t, <<x>>)
              /\ widget' = widget
           \/ AfterTools(t, r, <<x>>)
    BY DEF ToolDone
  <1>3. turn[t].calls \in Seq(Call)
    BY <1>1 DEF Progressing
  <1>4. i \in Nat
    BY <1>2, <1>3
  <1>5. /\ b \in Progressing /\ b.at = "tools" /\ b.pass = turn[t].pass
        /\ b.iteration = turn[t].iteration /\ b.attempt = turn[t].attempt
        /\ Len(b.calls) = Len(turn[t].calls) /\ Orderly(b.calls)
    BY <1>1, <1>2, AnswersOne DEF TurnInv
  <1> HIDE DEF b
  <1>6. /\ r \in Progressing /\ r.at = "tools" /\ r.pass = turn[t].pass
        /\ r.iteration = turn[t].iteration /\ r.attempt = turn[t].attempt
        /\ Len(r.calls) = Len(turn[t].calls)
    BY <1>5, StartedFields
  <1>7. x \in Event /\ x.turn = t /\ x.type = "result"
    BY <1>1, <1>4, CallEvFields
  <1> HIDE DEF r, x
  <1>8. CASE /\ turn' = [turn EXCEPT ![t] = r]
             /\ Emit(t, <<x>>)
             /\ widget' = widget
    <2>1. Further(turn[t], r)
      <3>1. Len(r.calls) >= Len(turn[t].calls)
        BY <1>3, <1>6
      <3> QED
        BY <1>6, <3>1 DEF Further
    <2>2. t \in endedTurns \/ AllBehind(t, r)
      BY <1>6, <2>1, AllFurther
    <2> QED
      BY <1>6, <1>7, <1>8, <2>2, OneShows
  <1>9. CASE AfterTools(t, r, <<x>>)
    <2> DEFINE n == [Answered(t, r) EXCEPT !.iteration = @ + 1]
    <2> DEFINE y == Ev(t, "abort")
    <2>1. n \in Progressing /\ n.pass = r.pass /\ n.iteration > r.iteration
      BY <1>6, AnsweredFields, NextIteration
    <2>2. \/ Finish(t, n, Append(<<x>>, y), "aborted")
          \/ Finish(t, n, <<x>>, "length")
          \/ Finish(t, n, <<x>>, "max-iterations")
          \/ /\ turn' = [turn EXCEPT ![t] = Asks(n)]
             /\ Emit(t, <<x>>)
             /\ widget' = widget
      BY <1>9 DEF AfterTools
    <2>3. y \in Event /\ y.turn = t /\ y.type = "abort"
      BY EvFields
    <2> HIDE DEF n, y
    <2>4. n.pass = turn[t].pass
      BY <1>6, <2>1
    <2>5. HeadsFor(t, Append(<<x>>, y), "aborted")
      BY <1>7, <2>3, LeadsTwo
    <2>6. HeadsFor(t, <<x>>, "length") /\ HeadsFor(t, <<x>>, "max-iterations")
      BY <1>7, LeadsOne
    <2>7. CASE Finish(t, n, Append(<<x>>, y), "aborted")
      BY <2>1, <2>4, <2>5, <2>7, FinishShows DEF Reasons
    <2>8. CASE Finish(t, n, <<x>>, "length")
      BY <2>1, <2>4, <2>6, <2>8, FinishShows DEF Reasons
    <2>9. CASE Finish(t, n, <<x>>, "max-iterations")
      BY <2>1, <2>4, <2>6, <2>9, FinishShows DEF Reasons
    <2>10. CASE /\ turn' = [turn EXCEPT ![t] = Asks(n)]
                /\ Emit(t, <<x>>)
                /\ widget' = widget
      <3>1. Asks(n) \in Progressing
        BY <2>1, AsksFields
      <3>2. Asks(n).pass = n.pass /\ Asks(n).iteration = n.iteration
        BY <2>1 DEF Asks, Progressing
      <3>3. Further(turn[t], Asks(n))
        BY <1>6, <2>1, <2>4, <3>2 DEF Further
      <3>4. t \in endedTurns \/ AllBehind(t, Asks(n))
        BY <3>1, <3>3, AllFurther
      <3> QED
        BY <1>7, <2>10, <3>1, <3>4, OneShows
    <2> QED
      BY <2>2, <2>7, <2>8, <2>9, <2>10
  <1> QED
    BY <1>2, <1>8, <1>9

-----------------------------------------------------------------------------
\* What a turn does next keeps it.
LEMMA TurnShows ==
  ASSUME ChatInv, ShowInv, NEW t \in Turns, TurnNext(t)
  PROVE  ShowInv'
  <1>1. CASE Send(t)
    BY <1>1, SendShows
  <1>2. CASE Abort(t)
    BY <1>2, AbortShows
  <1>3. CASE Text(t)
    BY <1>3, TextShows
  <1>4. ASSUME NEW kind \in Kinds, Ready(t, kind)
        PROVE  ShowInv'
    BY <1>4, ReadyShows
  <1>5. CASE Prime(t)
    BY <1>5, BeginShows DEF Prime
  <1>6. CASE Retry(t)
    BY <1>6, RetryShows
  <1>7. CASE Stopped(t)
    BY <1>7, StoppedShows
  <1>8. ASSUME NEW retryable \in BOOLEAN, Fail(t, retryable)
        PROVE  ShowInv'
    BY <1>8, FailShows
  <1>9. ASSUME NEW reason, Stop(t, reason)
        PROVE  ShowInv'
    BY <1>9, StopShows
  <1>10. ASSUME NEW i, ToolDone(t, i)
         PROVE  ShowInv'
    BY <1>10, ToolDoneShows
  <1> QED
    BY <1>1, <1>2, <1>3, <1>4, <1>5, <1>6, <1>7, <1>8, <1>9, <1>10 DEF TurnNext, Advance

\* So do the steps of the widget.
LEMMA WidgetShows ==
  ASSUME ChatInv, ShowInv, UNCHANGED <<turn, endedTurns, stream>>,
         widget' = widget \/ Mount \/ History \/ Shows
  PROVE  ShowInv'
  <1>1. /\ NoLateReady' /\ AbortsEnd' /\ EndsSay' /\ EndsTold'
        /\ \A t \in Turns : t \notin endedTurns' => AllBehind(t, turn[t])'
    BY DEF ShowInv, NoLateReady, AbortsEnd, EndsSay, EndsTold, AllBehind
  <1>2. Len(stream) \in Nat
    <2>1. stream \in Seq(Event)
      BY DEF ChatInv, ChatTypes
    <2> QED
      BY <2>1
  <1> PICK n \in Nat : n = Len(stream)
    BY <1>2
  <1>3. n = Len(stream) /\ n = Len(stream')
    OBVIOUS
  <1>4. /\ widget \in Widget /\ widget.since <= n
        /\ widget.at \in {"answering", "shown", "failed"} =>
             widget.since <= widget.read /\ widget.read <= n
    BY <1>3 DEF ShowInv, WidgetInv
  <1>5. /\ widget.at \in {"absent", "asked", "answering", "shown", "failed"}
        /\ widget.since \in Nat /\ widget.read \in Nat
    BY <1>4 DEF Widget
  <1> SUFFICES /\ widget' \in Widget /\ widget'.since <= n
               /\ widget'.at \in {"answering", "shown", "failed"} =>
                    widget'.since <= widget'.read /\ widget'.read <= n
    <2>1. WidgetInv'
      BY <1>3 DEF WidgetInv
    <2> QED
      BY <1>1, <2>1 DEF ShowInv
  <1>6. CASE widget' = widget
    BY <1>6, <1>4
  <1>7. CASE Mount
    <2>1. PICK m \in 0..n : widget' = [at |-> "asked", since |-> m, read |-> 0]
      BY <1>3, <1>7 DEF Mount
    <2> QED
      BY <2>1 DEF Widget
  <1>8. CASE History
    <2>1. widget' = [widget EXCEPT !.at = "answering", !.read = n]
      BY <1>3, <1>8 DEF History
    <2>2. widget' \in Widget /\ widget'.since = widget.since /\ widget'.read = n
      BY <1>4, <2>1 DEF Widget
    <2> QED
      BY <1>4, <1>5, <2>2
  <1>9. CASE Shows
    <2>1. /\ widget.at = "answering"
          /\ \/ widget' = [widget EXCEPT !.at = "shown"]
             \/ widget' = [widget EXCEPT !.at = "failed"]
      BY <1>9 DEF Shows
    <2>2. widget' \in Widget /\ widget'.since = widget.since /\ widget'.read = widget.read
      BY <1>4, <2>1 DEF Widget
    <2> QED
      BY <1>4, <1>5, <2>1, <2>2
  <1> QED
    BY <1>6, <1>7, <1>8, <1>9

LEMMA ShowInit ==
  ASSUME Init
  PROVE  ShowInv
  <1>1. Len(stream) = 0 /\ endedTurns = {}
    BY DEF Init
  <1>2. WidgetInv
    BY <1>1 DEF Init, WidgetInv, Widget
  <1> QED
    BY <1>1, <1>2 DEF ShowInv, NoLateReady, AbortsEnd, EndsSay, EndsTold, AllBehind

THEOREM ShowInvariant == Spec => []ShowInv
  <1>1. Init => ShowInv
    BY ShowInit
  <1>2. ChatInv /\ ShowInv /\ [Next]_vars => ShowInv'
    <2> SUFFICES ASSUME ChatInv, ShowInv, [Next]_vars
                 PROVE  ShowInv'
      OBVIOUS
    <2>1. ASSUME NEW t \in Turns, TurnNext(t)
          PROVE  ShowInv'
      BY <2>1, TurnShows
    <2>2. CASE WidgetNext
      BY <2>2, WidgetShows DEF WidgetNext, Mount, History, Shows
    <2>3. CASE UNCHANGED vars
      BY <2>3, WidgetShows DEF vars
    <2> QED
      BY <2>1, <2>2, <2>3 DEF Next
  <1> QED
    BY <1>1, <1>2, ChatInvariant, PTL DEF Spec

-----------------------------------------------------------------------------
(***************************************************************************)
(* What the widget hears                                                   *)
(***************************************************************************)
\* A part of a sequence.
LEMMA PartOf ==
  ASSUME NEW S, NEW s \in Seq(S), NEW a \in 1..(Len(s) + 1), NEW b \in (a - 1)..Len(s)
  PROVE  /\ SubSeq(s, a, b) \in Seq(S) /\ Len(SubSeq(s, a, b)) = b - a + 1
         /\ \A i \in 1..(b - a + 1) : SubSeq(s, a, b)[i] = s[a + i - 1]
  <1>1. Len(s) \in Nat /\ a \in Nat /\ b \in Int
    OBVIOUS
  <1>2. \A i \in a..b : s[i] \in S
    BY <1>1
  <1>3. /\ SubSeq(s, a, b) \in Seq(S)
        /\ Len(SubSeq(s, a, b)) = IF a <= b THEN b - a + 1 ELSE 0
        /\ \A i \in 1..(b - a + 1) : SubSeq(s, a, b)[i] = s[a + i - 1]
    BY <1>1, <1>2, SubSeqProperties
  <1>4. (IF a <= b THEN b - a + 1 ELSE 0) = b - a + 1
    BY <1>1
  <1> QED
    BY <1>3, <1>4

\* A run of n elements of a sequence.
IsPart(part, s, from, n) ==
    part \in Seq(Event) /\ Len(part) = n /\ \A i \in 1..n : part[i] = s[from + i]

\* Each of its elements is one of the sequence's, and all that follows that one comes after.
HearsOn(heard, s) ==
    /\ heard \in Seq(Event)
    /\ \A i \in 1..Len(heard) : \E p \in 1..Len(s) :
         /\ heard[i] = s[p]
         /\ \A q \in p..Len(s) : \E m \in i..Len(heard) : heard[m] = s[q]

\* A part of a sequence from its middle, and another to its end that leaves no gap between.
LEMMA PartsOn ==
  ASSUME NEW s \in Seq(Event), NEW since \in Nat, NEW read \in Nat, since <= read,
         read <= Len(s), NEW o \in 0..read,
         NEW h, IsPart(h, s, o, read - o), NEW l, IsPart(l, s, since, Len(s) - since)
  PROVE  HearsOn(h \o l, s)
  <1> DEFINE c == h \o l
  <1>1. h \in Seq(Event) /\ l \in Seq(Event)
    BY DEF IsPart
  <1>2. /\ c \in Seq(Event) /\ Len(c) = Len(h) + Len(l)
        /\ \A i \in 1..Len(h) : c[i] = h[i]
        /\ \A i \in 1..Len(l) : c[Len(h) + i] = l[i]
    BY <1>1, ConcatElements
  <1> HIDE DEF c
  <1>3. PICK L \in Nat : L = Len(s)
    OBVIOUS
  <1>4. PICK n \in Nat : n = read - o
    OBVIOUS
  <1>5. /\ Len(c) = n + (L - since)
        /\ \A i \in 1..n : c[i] = s[o + i]
        /\ \A i \in 1..(L - since) : c[n + i] = s[since + i]
    <2>1. Len(h) = n /\ \A i \in 1..n : h[i] = s[o + i]
      BY <1>4 DEF IsPart
    <2>2. Len(l) = L - since /\ \A i \in 1..(L - since) : l[i] = s[since + i]
      BY <1>3 DEF IsPart
    <2> QED
      BY <1>2, <2>1, <2>2
  <1>6. since <= read /\ read <= L /\ o \in Nat /\ n = read - o
    BY <1>3, <1>4
  <1>7. ASSUME NEW i \in 1..Len(c)
        PROVE  \E p \in 1..L : /\ c[i] = s[p]
                               /\ \A q \in p..L : \E m \in i..Len(c) : c[m] = s[q]
    <2>1. i \in Nat /\ i >= 1 /\ i <= n + (L - since)
      BY <1>5, <1>6
    <2>2. ASSUME NEW q \in 1..L, q > since, i <= n + (q - since)
          PROVE  \E m \in i..Len(c) : c[m] = s[q]
      <3> DEFINE k == q - since
      <3>1. k \in 1..(L - since) /\ since + k = q /\ n + k \in i..Len(c)
        BY <1>5, <1>6, <2>1, <2>2
      <3> HIDE DEF k
      <3>2. c[n + k] = s[q]
        BY <1>5, <3>1
      <3> QED
        BY <3>1, <3>2
    <2>3. CASE i <= n
      <3> DEFINE p == o + i
      <3>1. p \in 1..L /\ i \in 1..n
        BY <1>6, <2>1, <2>3
      <3>2. c[i] = s[p]
        BY <1>5, <3>1
      <3>3. ASSUME NEW q \in p..L
            PROVE  \E m \in i..Len(c) : c[m] = s[q]
        <4>1. CASE q <= read
          <5> DEFINE m == q - o
          <5>1. m \in 1..n /\ m \in i..Len(c) /\ o + m = q
            BY <1>5, <1>6, <2>1, <4>1
          <5> HIDE DEF m
          <5>2. c[m] = s[q]
            BY <1>5, <5>1
          <5> QED
            BY <5>1, <5>2
        <4>2. CASE ~ (q <= read)
          <5>1. q \in 1..L /\ q > since /\ i <= n + (q - since)
            BY <1>6, <2>1, <2>3, <3>1, <4>2
          <5> QED
            BY <2>2, <5>1
        <4> QED
          BY <4>1, <4>2
      <3> HIDE DEF p
      <3> QED
        BY <3>1, <3>2, <3>3
    <2>4. CASE ~ (i <= n)
      <3> DEFINE k == i - n
      <3> DEFINE p == since + k
      <3>1. k \in 1..(L - since) /\ n + k = i /\ p \in 1..L /\ p > since
        BY <1>6, <2>1, <2>4
      <3>2. c[i] = s[p]
        <4> HIDE DEF k
        <4> QED
          BY <1>5, <3>1
      <3>3. ASSUME NEW q \in p..L
            PROVE  \E m \in i..Len(c) : c[m] = s[q]
        <4>1. q \in 1..L /\ q > since /\ i <= n + (q - since)
          BY <1>6, <2>1, <3>1
        <4> QED
          BY <2>2, <4>1
      <3> HIDE DEF p
      <3> QED
        BY <3>1, <3>2, <3>3
    <2> QED
      BY <2>3, <2>4
  <1> QED
    BY <1>2, <1>3, <1>7 DEF HearsOn, c

\* Whatever the widget hears, it hears all that follows in the stream: the subscription goes
\* on where the history ends, or before.
LEMMA HeardOn ==
  ASSUME stream \in Seq(Event), WidgetInv, widget.at \in {"shown", "failed"}
  PROVE  HearsOn(Heard, stream)
  <1>1. /\ Len(stream) \in Nat /\ widget.since \in Nat /\ widget.read \in Nat
        /\ widget.since <= widget.read /\ widget.read <= Len(stream) /\ Cap \in Nat \ {0}
    BY ChatAssumption DEF WidgetInv, Widget, ChatAssumption
  <1> PICK since \in Nat, read \in Nat, L \in Nat :
        since = widget.since /\ read = widget.read /\ L = Len(stream)
    BY <1>1
  <1>2. since <= read /\ read <= L
    BY <1>1
  <1> DEFINE oldest == IF read > Cap THEN read - Cap + 1 ELSE 1
  <1> DEFINE h == IF widget.at = "shown" THEN SubSeq(stream, oldest, read) ELSE << >>
  <1> DEFINE l == SubSeq(stream, since + 1, L)
  <1>3. Heard = h \o l
    BY DEF Heard
  <1>4. ASSUME NEW from \in 0..L, NEW to \in from..L
        PROVE  IsPart(SubSeq(stream, from + 1, to), stream, from, to - from)
    <2> DEFINE c == SubSeq(stream, from + 1, to)
    <2>1. PICK a \in 1..(Len(stream) + 1) : a = from + 1 /\ to \in (a - 1)..Len(stream)
      OBVIOUS
    <2>2. /\ SubSeq(stream, a, to) \in Seq(Event) /\ Len(SubSeq(stream, a, to)) = to - a + 1
          /\ \A i \in 1..(to - a + 1) : SubSeq(stream, a, to)[i] = stream[a + i - 1]
      BY <2>1, PartOf
    <2>3. SubSeq(stream, a, to) = c
      BY <2>1
    <2> HIDE DEF c
    <2>4. to - a + 1 = to - from /\ \A i \in Nat : a + i - 1 = from + i
      BY <2>1
    <2>5. /\ c \in Seq(Event) /\ Len(c) = to - a + 1
          /\ \A i \in 1..(to - a + 1) : c[i] = stream[a + i - 1]
      BY <2>2, <2>3
    <2>6. /\ c \in Seq(Event) /\ Len(c) = to - from
          /\ \A i \in 1..(to - from) : c[i] = stream[from + i]
      <3>1. Len(c) = to - from
        BY <2>4, <2>5
      <3>2. ASSUME NEW i \in 1..(to - from)
            PROVE  c[i] = stream[from + i]
        <4>1. i \in Nat /\ i \in 1..(to - a + 1)
          BY <2>4
        <4>2. c[i] = stream[a + i - 1] /\ a + i - 1 = from + i
          BY <2>4, <2>5, <4>1
        <4> QED
          BY <4>2
      <3> QED
        BY <2>5, <3>1, <3>2
    <2>7. IsPart(c, stream, from, to - from)
      BY <2>6 DEF IsPart
    <2> QED
      BY <2>7 DEF c
  <1>5. IsPart(l, stream, since, L - since)
    <2>1. since \in 0..L /\ L \in since..L
      BY <1>2
    <2> QED
      BY <1>4, <2>1
  <1>6. \E o \in 0..read : IsPart(h, stream, o, read - o)
    <2>1. CASE widget.at = "shown"
      <3> DEFINE o == oldest - 1
      <3>1. o \in 0..L /\ read \in o..L /\ o \in 0..read /\ oldest = o + 1
        BY <1>1, <1>2
      <3>2. h = SubSeq(stream, oldest, read)
        BY <2>1
      <3> HIDE DEF o, oldest, h
      <3>3. IsPart(SubSeq(stream, o + 1, read), stream, o, read - o)
        BY <1>4, <3>1
      <3>4. IsPart(h, stream, o, read - o)
        BY <3>1, <3>2, <3>3
      <3> QED
        BY <3>1, <3>4
    <2>2. CASE widget.at # "shown"
      <3>1. h = << >>
        BY <2>2
      <3>2. h \in Seq(Event) /\ Len(h) = 0
        <4> PICK e : e = << >>
          OBVIOUS
        <4>1. e \in Seq(Event) /\ Len(e) = 0
          OBVIOUS
        <4> QED
          BY <3>1, <4>1
      <3> HIDE DEF h
      <3>3. IsPart(h, stream, read, 0)
        BY <3>2 DEF IsPart
      <3>4. read - read = 0 /\ read \in 0..read
        OBVIOUS
      <3> QED
        BY <3>3, <3>4
    <2> QED
      BY <2>1, <2>2
  <1> HIDE DEF h, l
  <1>7. PICK o \in 0..read : IsPart(h, stream, o, read - o)
    BY <1>6
  <1>8. since <= read /\ read <= Len(stream) /\ IsPart(l, stream, since, Len(stream) - since)
    BY <1>2, <1>5
  <1>9. HearsOn(h \o l, stream)
    BY <1>7, <1>8, PartsOn
  <1> QED
    BY <1>3, <1>9

-----------------------------------------------------------------------------
(***************************************************************************)
(* What the widget makes of it                                             *)
(***************************************************************************)
\* A nonempty set of numbers has a least one.
LEMMA LeastNumber ==
    ASSUME NEW T \in SUBSET Nat, T # {}
    PROVE  \E x \in T : \A y \in T : x <= y
<1> DEFINE R == OpToRel(<, Nat)
<1>1. IsWellFoundedOn(R, Nat)
  BY NatLessThanWellFounded
<1> HIDE DEF R
<1>2. PICK x \in T : \A y \in T : <<y, x>> \notin R
  BY <1>1, WFMin
<1>3. \A y \in T : ~ (y < x)
  BY <1>2 DEF R, OpToRel
<1>4. QED
  BY <1>3

\* What holds of 0 and of each number whose predecessor it holds of, holds up to N.
LEMMA UpTo ==
    ASSUME NEW N \in Nat, NEW P, 0 \in P, \A n \in 1..N : n - 1 \in P => n \in P
    PROVE  0..N \subseteq P
<1> DEFINE T == (0..N) \ P
<1> SUFFICES ASSUME T # {} PROVE FALSE
  OBVIOUS
<1>1. T \in SUBSET Nat
  OBVIOUS
<1> HIDE DEF T
<1>2. PICK x \in T : \A y \in T : x <= y
  BY <1>1, LeastNumber
<1>3. x \in 1..N
  BY <1>2 DEF T
<1>4. x - 1 \in 0..N /\ ~ (x <= x - 1)
  BY <1>3
<1>5. x - 1 \in P
  BY <1>2, <1>4 DEF T
<1>6. QED
  BY <1>2, <1>3, <1>5 DEF T

\* What N steps within a set make of a value in it.
Steps(N, S) == [(1..N) \X S -> S]
Follows(g, N, S, base, step) ==
    g \in [0..N -> S] /\ g[0] = base /\ \A n \in 1..N : g[n] = step[<<n, g[n - 1]>>]

\* Steps within a set lead somewhere, from any value in it.
LEMMA StepsLead ==
    ASSUME NEW N \in Nat, NEW S, NEW base \in S, NEW step \in Steps(N, S)
    PROVE  \E g : Follows(g, N, S, base, step)
<1> USE DEF Steps
<1> DEFINE Leads(m, g) == g[0] = base /\ \A n \in 1..m : g[n] = step[<<n, g[n - 1]>>]
           P == {m \in 0..N : \E g \in [0..m -> S] : Leads(m, g)}
<1>1. 0 \in P
  <2> DEFINE g == [n \in 0..0 |-> base]
  <2>1. g \in [0..0 -> S]
    OBVIOUS
  <2>2. g[0] = base
    OBVIOUS
  <2> HIDE DEF g
  <2>3. \A n \in 1..0 : g[n] = step[<<n, g[n - 1]>>]
    OBVIOUS
  <2>4. Leads(0, g)
    BY <2>2, <2>3
  <2> HIDE DEF Leads
  <2>5. 0 \in 0..N
    OBVIOUS
  <2>6. QED
    BY <2>1, <2>4, <2>5
<1>2. ASSUME NEW m \in 1..N, m - 1 \in P PROVE m \in P
  <2>1. PICK g \in [0..(m - 1) -> S] : Leads(m - 1, g)
    BY <1>2
  <2> DEFINE h == [n \in 0..m |-> IF n = m THEN step[<<m, g[m - 1]>>] ELSE g[n]]
  <2>2. m - 1 \in 0..(m - 1) /\ m \in 1..N /\ \A n \in 0..m : n # m => n \in 0..(m - 1)
    OBVIOUS
  <2>3. step[<<m, g[m - 1]>>] \in S
    <3>1. <<m, g[m - 1]>> \in (1..N) \X S
      BY <2>2
    <3>2. QED
      BY <3>1
  <2>4. h \in [0..m -> S]
    BY <2>2, <2>3
  <2>5. h[0] = base
    BY <2>1, <2>2
  <2>6. ASSUME NEW n \in 1..m PROVE h[n] = step[<<n, h[n - 1]>>]
    <3>1. n - 1 \in 0..m /\ n - 1 # m /\ h[n - 1] = g[n - 1]
      OBVIOUS
    <3>2. CASE n = m
      BY <3>1, <3>2
    <3>3. CASE n # m
      <4>1. n \in 1..(m - 1) /\ n \in 0..m
        BY <3>3
      <4>2. QED
        BY <2>1, <3>1, <3>3, <4>1
    <3>4. QED
      BY <3>2, <3>3
  <2>7. Leads(m, h)
    BY <2>5, <2>6
  <2> HIDE DEF h, Leads
  <2>8. QED
    BY <2>4, <2>7
<1>3. N \in P
  <2> HIDE DEF P
  <2>1. 0..N \subseteq P
    BY <1>1, <1>2, UpTo
  <2>2. QED
    BY <2>1
<1>4. QED
  BY <1>3 DEF Follows


\* What is known of a run of steps taken while within a set is a run of steps.
LEMMA StepsStay ==
    ASSUME NEW N \in Nat, NEW S, NEW base \in S, NEW step \in Steps(N, S), NEW g,
           DOMAIN g = 0..N, g = [n \in 0..N |-> g[n]], g[0] = base,
           \A n \in 1..N : g[n - 1] \in S => g[n] = step[<<n, g[n - 1]>>]
    PROVE  Follows(g, N, S, base, step)
<1> DEFINE P == {n \in 0..N : g[n] \in S}
<1>1. 0 \in P
  OBVIOUS
<1>2. ASSUME NEW n \in 1..N, n - 1 \in P PROVE n \in P
  <2>1. <<n, g[n - 1]>> \in (1..N) \X S
    BY <1>2
  <2>2. g[n] \in S
    BY <1>2, <2>1 DEF Steps
  <2>3. QED
    BY <2>2
<1> HIDE DEF P
<1>3. 0..N \subseteq P
  BY <1>1, <1>2, UpTo
<1>4. \A n \in 0..N : g[n] \in S
  BY <1>3 DEF P
<1>5. g \in [0..N -> S]
  BY <1>4
<1>6. \A n \in 1..N : n - 1 \in 0..N
  OBVIOUS
<1>7. QED
  BY <1>4, <1>5, <1>6 DEF Follows


States == {"ready", "answered"}
Statuses == {"streaming", "complete", "aborted"}
Stops == Reasons \cup {"none"}
CallSets == SUBSET (Seq(Nat) \X States)
Screens == [status : Statuses, stop : Stops, calls : CallSets]

\* What one event does to what is shown.
StatusAfter(shown, e) ==
    IF e.type = "abort" THEN "aborted"
    ELSE IF IsEnd(e) /\ shown.stop = "none"
         THEN IF e.reason = "aborted" THEN "aborted" ELSE "complete"
         ELSE shown.status
StopAfter(shown, e) == IF IsEnd(e) /\ shown.stop = "none" THEN e.reason ELSE shown.stop
CallsAfter(shown, e) ==
    IF e.type = "ready" THEN With(shown.calls, e.id, "ready")
    ELSE IF e.type = "result" /\ Knows(shown.calls, e.id) THEN With(shown.calls, e.id, "answered")
    ELSE shown.calls

LEMMA ReducedFields ==
  ASSUME NEW shown \in Screens, NEW e \in Event
  PROVE  /\ Reduced(shown, e) \in Screens
         /\ Reduced(shown, e).status = StatusAfter(shown, e)
         /\ Reduced(shown, e).stop = StopAfter(shown, e)
         /\ Reduced(shown, e).calls = CallsAfter(shown, e)
  <1> DEFINE q == Reduced(shown, e)
  <1>1. shown.calls \in CallSets /\ e.id \in Seq(Nat) /\ e.reason \in Stops
        /\ e.type \in {"turn-start", "text", "ready", "result", "error", "abort", "turn-end"}
    BY DEF Screens, Event, Stops
  <1>2. \A state \in States : With(shown.calls, e.id, state) \in CallSets
    BY <1>1 DEF With, CallSets
  <1>3. PICK a \in CallSets, b \in CallSets :
          a = With(shown.calls, e.id, "ready") /\ b = With(shown.calls, e.id, "answered")
    BY <1>2 DEF States
  <1>4. CASE e.type = "abort"
    <2>1. q = [shown EXCEPT !.status = "aborted"]
      BY <1>4 DEF Reduced
    <2> HIDE DEF q
    <2>2. q \in Screens /\ q.status = "aborted" /\ q.stop = shown.stop /\ q.calls = shown.calls
      BY <2>1 DEF Screens, Statuses
    <2> QED
      BY <1>4, <2>2 DEF StatusAfter, StopAfter, CallsAfter, IsEnd, q
  <1>5. CASE IsEnd(e) /\ shown.stop = "none"
    <2> DEFINE st == IF e.reason = "aborted" THEN "aborted" ELSE "complete"
    <2>1. q = [shown EXCEPT !.stop = e.reason, !.status = st]
      BY <1>5 DEF Reduced, IsEnd
    <2>2. st \in Statuses
      BY DEF Statuses
    <2> HIDE DEF q, st
    <2>3. q \in Screens /\ q.status = st /\ q.stop = e.reason /\ q.calls = shown.calls
      BY <1>1, <2>1, <2>2 DEF Screens
    <2> QED
      BY <1>5, <2>3 DEF StatusAfter, StopAfter, CallsAfter, IsEnd, q, st
  <1>6. CASE e.type = "ready"
    <2>1. q = [shown EXCEPT !.calls = a]
      BY <1>3, <1>6 DEF Reduced
    <2> HIDE DEF q
    <2>2. q \in Screens /\ q.status = shown.status /\ q.stop = shown.stop /\ q.calls = a
      BY <2>1 DEF Screens
    <2> QED
      BY <1>3, <1>6, <2>2 DEF StatusAfter, StopAfter, CallsAfter, IsEnd, q
  <1>7. CASE e.type = "result" /\ Knows(shown.calls, e.id)
    <2>1. q = [shown EXCEPT !.calls = b]
      BY <1>3, <1>7 DEF Reduced
    <2> HIDE DEF q
    <2>2. q \in Screens /\ q.status = shown.status /\ q.stop = shown.stop /\ q.calls = b
      BY <2>1 DEF Screens
    <2> QED
      BY <1>3, <1>7, <2>2 DEF StatusAfter, StopAfter, CallsAfter, IsEnd, q
  <1>8. CASE /\ e.type # "abort" /\ ~ (IsEnd(e) /\ shown.stop = "none") /\ e.type # "ready"
             /\ ~ (e.type = "result" /\ Knows(shown.calls, e.id))
    <2>1. q = shown
      BY <1>8 DEF Reduced, IsEnd
    <2> HIDE DEF q
    <2> QED
      BY <1>8, <2>1 DEF StatusAfter, StopAfter, CallsAfter, q
  <1> QED
    BY <1>4, <1>5, <1>6, <1>7, <1>8

\* A run of events, shown one by one.
Shows1(g, n, t, heard) ==
    g[n] = IF heard[n].turn = t THEN Reduced(g[n - 1], heard[n]) ELSE g[n - 1]
Showing(g, t, heard) ==
    /\ g \in [0..Len(heard) -> Screens] /\ g[0] = Nothing
    /\ \A n \in 1..Len(heard) : Shows1(g, n, t, heard)

LEMMA NothingShown == Nothing \in Screens /\ Nothing.stop = "none" /\ Nothing.calls = {}
  BY DEF Nothing, Screens, Stops, Statuses, CallSets

\* What the widget shows is what comes of showing what it heard, event by event.
LEMMA ShownRuns ==
  ASSUME NEW t \in Turns, Heard \in Seq(Event)
  PROVE  \E g : Showing(g, t, Heard) /\ ShownOf(t) = g[Len(Heard)]
  <1> DEFINE heard == Heard
  <1> DEFINE N == Len(heard)
  <1> DEFINE step == [p \in (1..N) \X Screens |->
                        IF heard[p[1]].turn = t THEN Reduced(p[2], heard[p[1]]) ELSE p[2]]
  <1> DEFINE shown[n \in 0..N] ==
          IF n = 0 THEN Nothing
          ELSE IF heard[n].turn = t THEN Reduced(shown[n - 1], heard[n]) ELSE shown[n - 1]
  <1>1. N \in Nat /\ \A n \in 1..N : heard[n] \in Event
    OBVIOUS
  <1>2. ASSUME NEW n \in 1..N, NEW s \in Screens
        PROVE  Reduced(s, heard[n]) \in Screens
    BY <1>1, <1>2, ReducedFields
  <1>3. step \in Steps(N, Screens)
    BY <1>2 DEF Steps
  <1>4. \A n \in 1..N : \A s \in Screens :
           step[<<n, s>>] = IF heard[n].turn = t THEN Reduced(s, heard[n]) ELSE s
    OBVIOUS
  <1>5. ShownOf(t) = shown[N]
    BY DEF ShownOf
  <1> HIDE DEF step
  <1>6. PICK f : Follows(f, N, Screens, Nothing, step)
    BY <1>1, <1>3, NothingShown, StepsLead
  <1> HIDE DEF heard, N
  <1>7. /\ f \in [0..N -> Screens] /\ f[0] = Nothing
        /\ \A n \in 1..N : f[n] = step[<<n, f[n - 1]>>]
    BY <1>6 DEF Follows
  <1>8. \A n \in 1..N : n - 1 \in 0..N
    BY <1>1
  <1>9. \A n \in 1..N : f[n] = IF heard[n].turn = t THEN Reduced(f[n - 1], heard[n]) ELSE f[n - 1]
    BY <1>4, <1>7, <1>8
  <1>10. f = [n \in 0..N |-> IF n = 0 THEN Nothing
              ELSE IF heard[n].turn = t THEN Reduced(f[n - 1], heard[n]) ELSE f[n - 1]]
    <2>1. \A n \in 0..N : n = 0 \/ n \in 1..N
      BY <1>1
    <2> QED
      BY <1>7, <1>9, <2>1
  <1>11. shown = [n \in 0..N |-> IF n = 0 THEN Nothing
              ELSE IF heard[n].turn = t THEN Reduced(shown[n - 1], heard[n]) ELSE shown[n - 1]]
    BY <1>10, Zenon
  <1> HIDE DEF shown
  <1>12. DOMAIN shown = 0..N /\ shown = [n \in 0..N |-> shown[n]]
    BY <1>11, Zenon
  <1>13. shown[0] = Nothing /\ 0 \in 0..N /\ \A n \in 1..N : n \in 0..N /\ n # 0
    BY <1>1, <1>11
  <1>14. \A n \in 1..N : shown[n] = IF heard[n].turn = t THEN Reduced(shown[n - 1], heard[n])
                                    ELSE shown[n - 1]
    BY <1>11, <1>13
  <1>15. \A n \in 1..N : shown[n - 1] \in Screens => shown[n] = step[<<n, shown[n - 1]>>]
    BY <1>4, <1>14
  <1>16. Follows(shown, N, Screens, Nothing, step)
    BY <1>1, <1>3, <1>12, <1>13, <1>15, NothingShown, StepsStay
  <1>17. shown \in [0..N -> Screens]
    BY <1>16 DEF Follows
  <1>18. Showing(shown, t, heard)
    BY <1>13, <1>14, <1>17 DEF Showing, Shows1, N
  <1> QED
    BY <1>5, <1>18 DEF heard, N

\* What holds at the start of a run of events, and is kept by each, holds at its end.
LEMMA ShowingEnds ==
  ASSUME NEW t \in Turns, NEW heard \in Seq(Event), NEW g, Showing(g, t, heard),
         NEW Good, <<0, Nothing>> \in Good,
         \A n \in 1..Len(heard) : \A s \in Screens :
            <<n - 1, s>> \in Good =>
              /\ heard[n].turn = t => <<n, Reduced(s, heard[n])>> \in Good
              /\ heard[n].turn # t => <<n, s>> \in Good
  PROVE  <<Len(heard), g[Len(heard)]>> \in Good
  <1> DEFINE N == Len(heard)
  <1> DEFINE P == {n \in 0..N : <<n, g[n]>> \in Good}
  <1>1. N \in Nat /\ 0 \in 0..N
    OBVIOUS
  <1>2. 0 \in P
    BY <1>1 DEF Showing
  <1>3. ASSUME NEW n \in 1..N, n - 1 \in P
        PROVE  n \in P
    <2>1. n - 1 \in 0..N /\ n \in 0..N
      OBVIOUS
    <2> PICK s : s = g[n - 1]
      OBVIOUS
    <2>2. s \in Screens
      BY <2>1 DEF Showing
    <2>3. <<n - 1, s>> \in Good
      BY <1>3
    <2>4. g[n] = IF heard[n].turn = t THEN Reduced(s, heard[n]) ELSE s
      BY DEF Showing, Shows1
    <2>5. <<n, g[n]>> \in Good
      BY <2>2, <2>3, <2>4
    <2> QED
      BY <2>1, <2>5
  <1> HIDE DEF P
  <1>4. 0..N \subseteq P
    BY <1>1, <1>2, <1>3, UpTo
  <1>5. N \in P
    BY <1>1, <1>4
  <1> QED
    BY <1>5 DEF P

\* The end that every reader of turn t is told, if one.
Ending(heard, t, reason) ==
    \A i \in 1..Len(heard) : heard[i].turn = t =>
      /\ IsEnd(heard[i]) => heard[i].reason = reason
      /\ heard[i].type = "abort" => reason = "aborted"
Over(s, reason) ==
    s.stop = reason /\ s.status = IF reason = "aborted" THEN "aborted" ELSE "complete"

\* Once the end was heard it is shown.
LEMMA EndShown ==
  ASSUME NEW t \in Turns, NEW heard \in Seq(Event), NEW g, Showing(g, t, heard),
         NEW reason \in Reasons, Ending(heard, t, reason),
         NEW k \in 1..Len(heard), heard[k].turn = t, IsEnd(heard[k])
  PROVE  Over(g[Len(heard)], reason)
  <1> DEFINE Good == {p \in (0..Len(heard)) \X Screens :
                        (p[2].stop = "none" /\ p[1] < k) \/ Over(p[2], reason)}
  <1>1. \A n \in 0..Len(heard) : \A s \in Screens :
           <<n, s>> \in Good <=> (s.stop = "none" /\ n < k) \/ Over(s, reason)
    OBVIOUS
  <1>2. <<0, Nothing>> \in Good
    BY <1>1, NothingShown
  <1>3. ASSUME NEW n \in 1..Len(heard), NEW s \in Screens, <<n - 1, s>> \in Good
        PROVE  /\ heard[n].turn = t => <<n, Reduced(s, heard[n])>> \in Good
               /\ heard[n].turn # t => <<n, s>> \in Good
    <2>1. n - 1 \in 0..Len(heard) /\ n \in 0..Len(heard) /\ heard[n] \in Event
      OBVIOUS
    <2>2. (s.stop = "none" /\ n - 1 < k) \/ Over(s, reason)
      BY <1>1, <1>3, <2>1
    <2> PICK e \in Event : e = heard[n]
      BY <2>1
    <2> PICK q : q = Reduced(s, e)
      OBVIOUS
    <2>3. q \in Screens /\ q.status = StatusAfter(s, e) /\ q.stop = StopAfter(s, e)
      BY ReducedFields
    <2> HIDE DEF Good
    <2>4. ASSUME e.turn = t
          PROVE  (q.stop = "none" /\ n < k) \/ Over(q, reason)
      <3>1. (IsEnd(e) => e.reason = reason) /\ (e.type = "abort" => reason = "aborted")
        BY <2>4 DEF Ending
      <3>2. CASE Over(s, reason)
        <4>1. s.stop # "none"
          BY <3>2 DEF Over, Reasons
        <4> QED
          BY <2>3, <3>1, <3>2, <4>1 DEF Over, StatusAfter, StopAfter
      <3>3. CASE s.stop = "none" /\ n - 1 < k /\ IsEnd(e)
        <4>1. e.type # "abort"
          BY <3>3 DEF IsEnd
        <4> QED
          BY <2>3, <3>1, <3>3, <4>1 DEF Over, StatusAfter, StopAfter
      <3>4. CASE s.stop = "none" /\ n - 1 < k /\ ~ IsEnd(e)
        <4>1. n # k
          BY <3>4
        <4>2. n < k
          BY <3>4, <4>1
        <4> QED
          BY <2>3, <3>4, <4>2 DEF StopAfter
      <3> QED
        BY <2>2, <3>2, <3>3, <3>4
    <2>5. ASSUME e.turn # t
          PROVE  (s.stop = "none" /\ n < k) \/ Over(s, reason)
      <3>1. n # k
        BY <2>5
      <3>2. n - 1 < k => n < k
        BY <3>1
      <3> QED
        BY <2>2, <3>2
    <2> QED
      BY <1>1, <2>1, <2>3, <2>4, <2>5
  <1> DEFINE N == Len(heard)
  <1>4. N \in 0..N /\ ~ (N < k) /\ N \in Nat
    OBVIOUS
  <1> HIDE DEF Good
  <1>5. <<N, g[N]>> \in Good
    BY <1>2, <1>3, ShowingEnds
  <1>6. g[N] \in Screens
    BY <1>4 DEF Showing
  <1> QED
    BY <1>1, <1>4, <1>5, <1>6

\* A call that was ready last the reader heard of it.
Answers(heard, t, id, j) == heard[j].turn = t /\ heard[j].type = "result" /\ heard[j].id = id
Waits(heard, t, id, n) ==
    \E i \in 1..n : /\ heard[i].turn = t /\ heard[i].type = "ready" /\ heard[i].id = id
                    /\ \A j \in (i + 1)..n : ~ Answers(heard, t, id, j)

\* It still waits after an event that does not answer it.
LEMMA StillWaits ==
  ASSUME NEW heard, NEW t, NEW id, NEW n \in Nat \ {0}, Waits(heard, t, id, n - 1),
         ~ Answers(heard, t, id, n)
  PROVE  Waits(heard, t, id, n)
  <1> PICK i \in 1..(n - 1) :
        /\ heard[i].turn = t /\ heard[i].type = "ready" /\ heard[i].id = id
        /\ \A j \in (i + 1)..(n - 1) : ~ Answers(heard, t, id, j)
    BY DEF Waits
  <1>1. i \in 1..n /\ \A j \in (i + 1)..n : j \in (i + 1)..(n - 1) \/ j = n
    OBVIOUS
  <1>2. \A j \in (i + 1)..n : ~ Answers(heard, t, id, j)
    BY <1>1
  <1> QED
    BY <1>1, <1>2 DEF Waits

\* The calls with one of them in another state.
LEMMA WithFields ==
  ASSUME NEW calls, NEW id, NEW x
  PROVE  /\ <<x, "ready">> \in With(calls, id, "answered") => <<x, "ready">> \in calls /\ x # id
         /\ <<x, "ready">> \in With(calls, id, "ready") =>
              x = id \/ (<<x, "ready">> \in calls /\ x # id)
  BY DEF With

\* A call that is shown as pending was ready last the reader heard of it.
LEMMA PendingShown ==
  ASSUME NEW t \in Turns, NEW heard \in Seq(Event), NEW g, Showing(g, t, heard),
         NEW id, <<id, "ready">> \in g[Len(heard)].calls
  PROVE  Waits(heard, t, id, Len(heard))
  <1> DEFINE Good == {p \in (0..Len(heard)) \X Screens :
                        <<id, "ready">> \in p[2].calls => Waits(heard, t, id, p[1])}
  <1>1. \A n \in 0..Len(heard) : \A s \in Screens :
           <<n, s>> \in Good <=> (<<id, "ready">> \in s.calls => Waits(heard, t, id, n))
    OBVIOUS
  <1>2. <<0, Nothing>> \in Good
    BY <1>1, NothingShown
  <1>3. ASSUME NEW n \in 1..Len(heard), NEW s \in Screens, <<n - 1, s>> \in Good
        PROVE  /\ heard[n].turn = t => <<n, Reduced(s, heard[n])>> \in Good
               /\ heard[n].turn # t => <<n, s>> \in Good
    <2>1. n - 1 \in 0..Len(heard) /\ n \in 0..Len(heard) /\ heard[n] \in Event
          /\ n \in Nat \ {0}
      OBVIOUS
    <2>2. <<id, "ready">> \in s.calls => Waits(heard, t, id, n - 1)
      BY <1>1, <1>3, <2>1
    <2> PICK e \in Event : e = heard[n]
      BY <2>1
    <2> PICK q : q = Reduced(s, e)
      OBVIOUS
    <2>3. q \in Screens /\ q.calls = CallsAfter(s, e)
      BY ReducedFields
    <2> HIDE DEF Good
    <2>4. ASSUME e.turn = t, <<id, "ready">> \in q.calls
          PROVE  Waits(heard, t, id, n)
      <3>1. CASE e.type = "ready" /\ e.id = id
        <4>1. n \in 1..n /\ \A j \in (n + 1)..n : FALSE
          BY <2>1
        <4> QED
          BY <2>4, <3>1, <4>1 DEF Waits
      <3>2. CASE e.type = "ready" /\ e.id # id
        <4>1. <<id, "ready">> \in s.calls
          BY <2>3, <2>4, <3>2, WithFields DEF CallsAfter
        <4> QED
          BY <2>1, <2>2, <3>2, <4>1, StillWaits DEF Answers
      <3>3. CASE e.type = "result" /\ Knows(s.calls, e.id)
        <4>1. <<id, "ready">> \in s.calls /\ e.id # id
          <5>1. q.calls = With(s.calls, e.id, "answered")
            BY <2>3, <3>3 DEF CallsAfter
          <5> QED
            BY <2>4, <5>1, WithFields
        <4>2. ~ Answers(heard, t, id, n)
          BY <4>1 DEF Answers
        <4> QED
          BY <2>1, <2>2, <4>1, <4>2, StillWaits
      <3>4. CASE e.type # "ready" /\ ~ (e.type = "result" /\ Knows(s.calls, e.id))
        <4>1. <<id, "ready">> \in s.calls
          BY <2>3, <2>4, <3>4 DEF CallsAfter
        <4>2. Knows(s.calls, id)
          <5>1. <<id, "ready">>[1] = id
            OBVIOUS
          <5> QED
            BY <4>1, <5>1 DEF Knows
        <4>3. ~ Answers(heard, t, id, n)
          BY <3>4, <4>2 DEF Answers
        <4> QED
          BY <2>1, <2>2, <4>1, <4>3, StillWaits
      <3> QED
        BY <3>1, <3>2, <3>3, <3>4
    <2>5. ASSUME e.turn # t, <<id, "ready">> \in s.calls
          PROVE  Waits(heard, t, id, n)
      <3>1. ~ Answers(heard, t, id, n)
        BY <2>5 DEF Answers
      <3> QED
        BY <2>1, <2>2, <2>5, <3>1, StillWaits
    <2> QED
      BY <1>1, <2>1, <2>3, <2>4, <2>5
  <1> DEFINE N == Len(heard)
  <1>4. N \in 0..N /\ N \in Nat
    OBVIOUS
  <1> HIDE DEF Good
  <1>5. <<N, g[N]>> \in Good
    BY <1>2, <1>3, ShowingEnds
  <1>6. g[N] \in Screens
    BY <1>4 DEF Showing
  <1> QED
    BY <1>1, <1>4, <1>5, <1>6

\* The end of a turn that has ended, as everyone is told it.
LEMMA OneEnding ==
  ASSUME ChatInv, ShowInv, NEW t \in endedTurns
  PROVE  \E reason \in Reasons : \E k \in 1..Len(stream) :
            /\ stream[k] = EndEv(t, reason)
            /\ \A i \in 1..Len(stream) : stream[i].turn = t =>
                 /\ i <= k
                 /\ IsEnd(stream[i]) => stream[i].reason = reason
                 /\ stream[i].type = "abort" => reason = "aborted"
  <1>1. t \in Turns /\ stream \in Seq(Event) /\ Ordered(stream)
    BY DEF ChatInv, ChatTypes, StreamInv
  <1>2. PICK reason \in Reasons : Told(stream, EndEv(t, reason))
    BY DEF ShowInv, EndsTold
  <1>3. PICK k \in 1..Len(stream) : stream[k] = EndEv(t, reason)
    BY <1>2 DEF Told
  <1>4. \A why \in Reasons :
           EndEv(t, why).turn = t /\ IsEnd(EndEv(t, why)) /\ EndEv(t, why).reason = why
    <2> SUFFICES ASSUME NEW why \in Reasons
                 PROVE  EndEv(t, why).turn = t /\ IsEnd(EndEv(t, why)) /\ EndEv(t, why).reason = why
      OBVIOUS
    <2>1. EndEv(t, why).turn = t /\ EndEv(t, why).type = "turn-end"
      BY <1>1, EndEvFields
    <2>2. EndEv(t, why).reason = why
      BY DEF EndEv, Ev
    <2> QED
      BY <2>1, <2>2 DEF IsEnd
  <1>5. \A a, b \in 1..Len(stream) :
           stream[a].turn = stream[b].turn /\ IsEnd(stream[a]) => b <= a
    BY <1>1, Zenon DEF Ordered
  <1>6. ASSUME NEW i \in 1..Len(stream), stream[i].turn = t
        PROVE  i <= k
    <2>1. stream[k].turn = stream[i].turn /\ IsEnd(stream[k])
      BY <1>3, <1>4, <1>6
    <2> QED
      BY <2>1, <1>5
  <1>7. ASSUME NEW i \in 1..Len(stream), stream[i].turn = t, IsEnd(stream[i])
        PROVE  stream[i].reason = reason
    <2>1. k <= i
      <3>1. stream[k].turn = stream[i].turn
        BY <1>3, <1>4, <1>7
      <3> QED
        BY <1>7, <1>5, <3>1
    <2>2. i <= k
      BY <1>6, <1>7
    <2>3. i = k
      BY <2>1, <2>2
    <2> QED
      BY <1>3, <1>4, <2>3
  <1>8. ASSUME NEW i \in 1..Len(stream), stream[i].turn = t, stream[i].type = "abort"
        PROVE  reason = "aborted"
    <2>1. Told(stream, EndEv(t, "aborted"))
      BY <1>8 DEF ShowInv, AbortsEnd
    <2>2. PICK j \in 1..Len(stream) : stream[j] = EndEv(t, "aborted")
      BY <2>1 DEF Told
    <2>3. "aborted" \in Reasons
      BY DEF Reasons
    <2>4. stream[j].turn = t /\ IsEnd(stream[j]) /\ stream[j].reason = "aborted"
      BY <1>4, <2>2, <2>3
    <2> QED
      BY <1>7, <2>4
  <1> QED
    BY <1>3, <1>6, <1>7, <1>8

\* A widget that heard anything of a turn that has ended shows of it that it ended, and how,
\* and no call as pending that was answered, whenever it mounted and whatever of the history
\* it was too late for.
THEOREM ShowsTruthHolds == Spec => []ShowsTruth
  <1>1. ChatInv /\ ShowInv => ShowsTruth
    <2> SUFFICES ASSUME ChatInv, ShowInv, widget.at \in {"shown", "failed"},
                        NEW t \in endedTurns, NEW first \in 1..Len(Heard), Heard[first].turn = t
                 PROVE  /\ \E e \in ToSet(stream) :
                             e.turn = t /\ IsEnd(e) /\ e.reason = ShownOf(t).stop
                        /\ ShownOf(t).status = IF ShownOf(t).stop = "aborted" THEN "aborted"
                                               ELSE "complete"
                        /\ \A e \in ToSet(stream) : e.turn = t /\ e.type = "result" =>
                             <<e.id, "ready">> \notin ShownOf(t).calls
      BY DEF ShowsTruth
    <2> DEFINE heard == Heard
    <2>1. t \in Turns /\ stream \in Seq(Event) /\ WidgetInv
      BY DEF ChatInv, ChatTypes, ShowInv
    <2>2. HearsOn(heard, stream)
      BY <2>1, HeardOn
    <2>3. heard \in Seq(Event)
      BY <2>2 DEF HearsOn
    <2>4. PICK g : Showing(g, t, heard) /\ ShownOf(t) = g[Len(heard)]
      BY <2>1, <2>3, ShownRuns
    <2>5. first \in 1..Len(heard) /\ heard[first].turn = t
      OBVIOUS
    <2> HIDE DEF heard
    <2>6. PICK reason \in Reasons, k \in 1..Len(stream) :
            /\ stream[k] = EndEv(t, reason)
            /\ \A i \in 1..Len(stream) : stream[i].turn = t =>
                 /\ i <= k
                 /\ IsEnd(stream[i]) => stream[i].reason = reason
                 /\ stream[i].type = "abort" => reason = "aborted"
      BY OneEnding
    <2>7. stream[k].turn = t /\ IsEnd(stream[k]) /\ stream[k].reason = reason
      <3>1. EndEv(t, reason).turn = t /\ EndEv(t, reason).type = "turn-end"
        BY <2>1, EndEvFields
      <3>2. EndEv(t, reason).reason = reason
        BY DEF EndEv, Ev
      <3> QED
        BY <2>6, <3>1, <3>2 DEF IsEnd
    <2>8. Ending(heard, t, reason)
      <3> SUFFICES ASSUME NEW i \in 1..Len(heard), heard[i].turn = t
                   PROVE  /\ IsEnd(heard[i]) => heard[i].reason = reason
                          /\ heard[i].type = "abort" => reason = "aborted"
        BY DEF Ending
      <3>1. PICK p \in 1..Len(stream) : heard[i] = stream[p]
        BY <2>2 DEF HearsOn
      <3> QED
        BY <2>6, <3>1
    <2>9. \E m \in 1..Len(heard) : heard[m] = stream[k]
      <3>1. PICK p \in 1..Len(stream) :
              /\ heard[first] = stream[p]
              /\ \A q \in p..Len(stream) : \E m \in first..Len(heard) : heard[m] = stream[q]
        BY <2>2, <2>5 DEF HearsOn
      <3>2. p <= k
        BY <2>5, <2>6, <3>1
      <3>3. k \in p..Len(stream)
        BY <3>2
      <3>4. PICK m \in first..Len(heard) : heard[m] = stream[k]
        BY <3>1, <3>3
      <3>5. m \in 1..Len(heard)
        BY <2>5
      <3> QED
        BY <3>4, <3>5
    <2>10. Over(ShownOf(t), reason)
      <3>1. PICK m \in 1..Len(heard) : heard[m] = stream[k]
        BY <2>9
      <3>2. heard[m].turn = t /\ IsEnd(heard[m])
        BY <2>7, <3>1
      <3> QED
        BY <2>1, <2>3, <2>4, <2>8, <3>2, EndShown
    <2>11. stream[k] \in ToSet(stream)
      BY DEF ToSet
    <2>12. ASSUME NEW e \in ToSet(stream), e.turn = t, e.type = "result",
                  <<e.id, "ready">> \in ShownOf(t).calls
           PROVE  FALSE
      <3>1. PICK q \in 1..Len(stream) : stream[q] = e
        <4>1. DOMAIN stream = 1..Len(stream)
          BY <2>1
        <4> QED
          BY <4>1 DEF ToSet
      <3> PICK id : id = e.id
        OBVIOUS
      <3>2. <<id, "ready">> \in g[Len(heard)].calls
        BY <2>4, <2>12
      <3>3. Waits(heard, t, id, Len(heard))
        BY <2>1, <2>3, <2>4, <3>2, PendingShown
      <3>4. PICK i \in 1..Len(heard) :
              /\ heard[i].turn = t /\ heard[i].type = "ready" /\ heard[i].id = id
              /\ \A j \in (i + 1)..Len(heard) : ~ Answers(heard, t, id, j)
        BY <3>3 DEF Waits
      <3>5. PICK p \in 1..Len(stream) :
              /\ heard[i] = stream[p]
              /\ \A r \in p..Len(stream) : \E m \in i..Len(heard) : heard[m] = stream[r]
        BY <2>2 DEF HearsOn
      <3>6. p < q
        BY <2>12, <3>1, <3>4, <3>5 DEF ShowInv, NoLateReady
      <3>7. q \in p..Len(stream)
        BY <3>6
      <3>8. PICK m \in i..Len(heard) : heard[m] = stream[q]
        BY <3>5, <3>7
      <3>9. m # i
        BY <2>12, <3>1, <3>4, <3>8
      <3>10. m \in (i + 1)..Len(heard)
        BY <3>9
      <3>11. Answers(heard, t, id, m)
        BY <2>12, <3>1, <3>8 DEF Answers
      <3> QED
        BY <3>4, <3>10, <3>11
    <2>13. ShownOf(t).stop = reason
      BY <2>10 DEF Over
    <2>14. ShownOf(t).status = IF ShownOf(t).stop = "aborted" THEN "aborted" ELSE "complete"
      BY <2>10 DEF Over
    <2> QED
      BY <2>7, <2>11, <2>12, <2>13, <2>14
  <1> QED
    BY <1>1, ChatInvariant, ShowInvariant, PTL
=============================================================================
