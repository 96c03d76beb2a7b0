------------------------------ MODULE ChatTurns ------------------------------
(***************************************************************************)
(* Agent turns of one chat session: chat.send and chat.abort of the server *)
(* (createChatSessions), the stock agent (createAgentChatAgent) with its    *)
(* saved history and self-review, the loop of provider turns and tool calls *)
(* (runAgentTurn), and a chat widget that mounts in the middle of it.       *)
(*                                                                         *)
(* A step is what runs between two awaits.  Provider, tools, the operator's *)
(* abort and other turns of the session come between any two.  A text block *)
(* is one event, usage is left out, a tool's error is an answer like any,   *)
(* and a message keeps who wrote it and how many tool calls it makes.       *)
(* Events travel to the widget in order, so what it has heard in the end is *)
(* given by when it subscribed and when the server read the history for it. *)
(***************************************************************************)
EXTENDS Naturals, Sequences, FiniteSets, SequencesExt

CONSTANTS Turns,
          Memory,         \* the agent primes a turn from the board (memory: "board")
          SelfReview,     \* selfReview: "once"
          CutCalls,       \* may a provider stop for another reason than tool_use
                          \* when tool calls are ready (max_tokens, refusal)
          MaxAttempts,    \* RetryPolicy.maxAttempts
          MaxIterations,  \* maxToolIterations
          MaxBlocks,      \* bound: texts and tool calls of a turn
          Cap             \* depth of the event ring

ASSUME ChatAssumption ==
  /\ Memory \in BOOLEAN /\ SelfReview \in BOOLEAN /\ CutCalls \in BOOLEAN
  /\ MaxAttempts \in Nat \ {0} /\ MaxIterations \in Nat \ {0}
  /\ MaxBlocks \in Nat /\ Cap \in Nat \ {0}

VARIABLES turn,        \* per turn: where its agent is
          endedTurns,  \* turns whose turn-end was emitted
          stream,      \* every event that passed the sink, in order
          saved,       \* histories: the session's messages
          widget       \* the chat widget: its subscription and its history

vars == <<turn, endedTurns, stream, saved, widget>>

Kinds     == {"read", "write"}
CallState == {"ready", "running", "answered"}
Call      == [kind : Kinds, state : CallState]
Reasons   == {"end", "length", "refusal", "max-iterations", "aborted"}
Message   == [turn : Turns, role : {"user", "assistant", "result"}, calls : 0..MaxBlocks]
Event     == [turn : Turns, type : {"turn-start", "text", "ready", "result", "error",
                                    "abort", "turn-end"},
              id : Seq(Nat), reason : Reasons \cup {"none"}]
Turn      == [at : {"unsent", "priming", "asking", "backoff", "tools", "done"},
              aborted : BOOLEAN, pass : {1, 2}, iteration : 0..(MaxIterations - 1),
              attempt : 0..(MaxAttempts - 1), calls : Seq(Call), said : BOOLEAN,
              mutated : BOOLEAN, messages : Seq(Message), built : Seq(Message)]
Unsent    == [at |-> "unsent", aborted |-> FALSE, pass |-> 1, iteration |-> 0,
              attempt |-> 0, calls |-> << >>, said |-> FALSE, mutated |-> FALSE,
              messages |-> << >>, built |-> << >>]
Widget    == [at : {"absent", "asked", "answering", "shown", "failed"},
              since : Nat, read : Nat]

Init ==
  /\ turn = [t \in Turns |-> Unsent]
  /\ endedTurns = {}
  /\ stream = << >>
  /\ saved = << >>
  /\ widget = [at |-> "absent", since |-> 0, read |-> 0]

(***************************************************************************)
(* The sink (emit)                                                         *)
(***************************************************************************)
Ev(t, type)        == [turn |-> t, type |-> type, id |-> << >>, reason |-> "none"]
EndEv(t, reason)   == [Ev(t, "turn-end") EXCEPT !.reason = reason]
\* The id of the i-th call a provider makes in this attempt.
CallId(r, i)       == <<r.pass, r.iteration, r.attempt, i>>
CallEv(t, r, type, i) == [Ev(t, type) EXCEPT !.id = CallId(r, i)]
AbortEvs(t)        == <<Ev(t, "abort"), EndEv(t, "aborted")>>

\* (mutant) The sink passes everything on.
EmitAll(t, events) ==
  /\ stream' = stream \o events
  /\ endedTurns' = IF events # << >> /\ Last(events).type = "turn-end"
                   THEN endedTurns \cup {t} ELSE endedTurns

\* Events of a turn that has ended are dropped.
Emit(t, events) ==
  /\ stream' = IF t \in endedTurns THEN stream ELSE stream \o events
  /\ endedTurns' = IF events # << >> /\ Last(events).type = "turn-end"
                   THEN endedTurns \cup {t} ELSE endedTurns

(***************************************************************************)
(* The end of a run of runAgentTurn, and what the agent makes of it        *)
(***************************************************************************)
Says(t, role, n) == [turn |-> t, role |-> role, calls |-> n]

Asks(r) == [r EXCEPT !.at = "asking", !.attempt = 0, !.calls = << >>, !.said = FALSE]
Ended(r) == [Unsent EXCEPT !.at = "done", !.aborted = r.aborted]

Reviews(r, reason) ==
  SelfReview /\ r.pass = 1 /\ r.mutated /\ reason = "end" /\ ~r.aborted

\* (mutant) The turn-end of the first run is not held back.
StartReviewEnded(t, r, events) ==
  /\ turn' = [turn EXCEPT ![t] = Asks([r EXCEPT !.pass = 2, !.iteration = 0,
                !.built = r.messages, !.messages = Append(@, Says(t, "user", 0))])]
  /\ Emit(t, Append(events, EndEv(t, "end")))
  /\ UNCHANGED <<saved, widget>>

\* The first run's turn-end is held back, its turn goes on as the review pass.
StartReview(t, r, events) ==
  /\ turn' = [turn EXCEPT ![t] = Asks([r EXCEPT !.pass = 2, !.iteration = 0,
                !.built = r.messages, !.messages = Append(@, Says(t, "user", 0))])]
  /\ Emit(t, events)
  /\ UNCHANGED <<saved, widget>>

\* (mutant) The messages of an aborted turn are saved as well.
KeptAlways(r, reason) == r.messages

\* The history the session goes on with: nothing of an aborted run.
Kept(r, reason) ==
  CASE reason # "aborted" -> r.messages
    [] reason = "aborted" /\ r.pass = 2 -> r.built
    [] OTHER -> saved

\* (mutant) A turn-end that was held back for no review is not released.
FinishHeld(t, r, events, reason) ==
  \/ /\ Reviews(r, reason)
     /\ StartReview(t, r, events)
  \/ /\ ~Reviews(r, reason)
     /\ turn' = [turn EXCEPT ![t] = Ended(r)]
     /\ Emit(t, IF SelfReview /\ r.pass = 1 THEN events
                ELSE Append(events, EndEv(t, reason)))
     /\ saved' = Kept(r, reason)
     /\ UNCHANGED widget

Finish(t, r, events, reason) ==
  \/ /\ Reviews(r, reason)
     /\ StartReview(t, r, events)
  \/ /\ ~Reviews(r, reason)
     /\ turn' = [turn EXCEPT ![t] = Ended(r)]
     /\ Emit(t, Append(events, EndEv(t, reason)))
     /\ saved' = Kept(r, reason)
     /\ UNCHANGED widget

AbortFinish(t, r) == Finish(t, r, <<Ev(t, "abort")>>, "aborted")

(***************************************************************************)
(* chat.send, chat.abort                                                   *)
(***************************************************************************)
\* The agent composes its messages, and runAgentTurn begins.
Begin(t) ==
  LET r == [turn[t] EXCEPT !.messages = Append(saved, Says(t, "user", 0))] IN
  IF r.aborted
  THEN Finish(t, r, <<Ev(t, "turn-start"), Ev(t, "abort")>>, "aborted")
  ELSE /\ turn' = [turn EXCEPT ![t] = Asks(r)]
       /\ Emit(t, <<Ev(t, "turn-start")>>)
       /\ UNCHANGED <<saved, widget>>

\* With no memory to read, the agent runs inside the handler up to its first fetch.
Send(t) ==
  /\ turn[t].at = "unsent"
  /\ IF Memory
     THEN /\ turn' = [turn EXCEPT ![t].at = "priming"]
          /\ UNCHANGED <<endedTurns, stream, saved, widget>>
     ELSE Begin(t)

\* readMemorySnapshot answers, or fails and is ignored.
Prime(t) ==
  /\ turn[t].at = "priming"
  /\ Begin(t)

Abort(t) ==
  /\ turn[t].at # "unsent"
  /\ ~turn[t].aborted
  /\ turn' = [turn EXCEPT ![t].aborted = TRUE]
  /\ Emit(t, AbortEvs(t))
  /\ UNCHANGED <<saved, widget>>

(***************************************************************************)
(* One provider turn (streamOneProviderTurn)                               *)
(***************************************************************************)
Streaming(t) == turn[t].at = "asking" /\ ~turn[t].aborted

OfTurn(events, t) == SelectSeq(events, LAMBDA e : e.turn = t)
Blocks(t) == Len(SelectSeq(OfTurn(stream, t), LAMBDA e : e.type \in {"text", "ready"}))

Text(t) ==
  /\ Streaming(t)
  /\ ~turn[t].said
  /\ turn[t].calls = << >>
  /\ Blocks(t) < MaxBlocks
  /\ turn' = [turn EXCEPT ![t].said = TRUE]
  /\ Emit(t, <<Ev(t, "text")>>)
  /\ UNCHANGED <<saved, widget>>

Ready(t, kind) ==
  LET n == Len(turn[t].calls) + 1 IN
  /\ Streaming(t)
  /\ Blocks(t) < MaxBlocks
  /\ turn' = [turn EXCEPT ![t].calls = Append(@, [kind |-> kind, state |-> "ready"]),
                          ![t].mutated = @ \/ (turn[t].pass = 1 /\ kind = "write")]
  /\ Emit(t, <<CallEv(t, turn[t], "ready", n)>>)
  /\ UNCHANGED <<saved, widget>>

\* An error of the provider or of the connection; retried if it is transient.
Fail(t, retryable) ==
  LET r == [turn[t] EXCEPT !.attempt = @ + 1]
      event == <<Ev(t, "error")>>
  IN  /\ Streaming(t)
      /\ IF retryable /\ r.attempt < MaxAttempts
         THEN /\ turn' = [turn EXCEPT ![t] = [r EXCEPT !.at = "backoff"]]
              /\ Emit(t, event)
              /\ UNCHANGED <<saved, widget>>
         ELSE Finish(t, turn[t], event, "end")

\* The backoff is over; what the failed attempt streamed is forgotten.
Retry(t) ==
  /\ turn[t].at = "backoff"
  /\ ~turn[t].aborted
  /\ turn' = [turn EXCEPT ![t].at = "asking", ![t].calls = << >>, ![t].said = FALSE]
  /\ UNCHANGED <<endedTurns, stream, saved, widget>>

\* The aborted signal ends the fetch, or is seen when the backoff is over.
Stopped(t) ==
  /\ turn[t].at \in {"asking", "backoff"}
  /\ turn[t].aborted
  /\ AbortFinish(t, turn[t])

(***************************************************************************)
(* The tool calls (executeToolCalls)                                       *)
(***************************************************************************)
Settled(c) == c.state = "answered"

\* (mutant) Writes run side by side, as reads do.
MayStartAny(calls, i) == calls[i].state = "ready"

\* Reads start together, a write when the writes before it are settled.
MayStart(calls, i) ==
  /\ calls[i].state = "ready"
  /\ calls[i].kind = "read" \/
     \A j \in 1..(i - 1) : calls[j].kind = "write" => Settled(calls[j])

Started(r) ==
  IF r.aborted THEN r
  ELSE [r EXCEPT !.calls = [i \in DOMAIN @ |->
          IF MayStart(@, i) THEN [@[i] EXCEPT !.state = "running"] ELSE @[i]]]

\* formatAssistantTurn: nothing is added for an empty turn.
Spoken(t, r) ==
  IF r.said \/ r.calls # << >>
  THEN [r EXCEPT !.messages = Append(@, Says(t, "assistant", Len(r.calls)))] ELSE r

\* The provider's turn is over.
Stop(t, reason) ==
  LET r == Spoken(t, turn[t]) IN
  /\ Streaming(t)
  /\ reason \in {"tool_use", "end", "length", "refusal"}
  /\ r.calls # << >> => reason = "tool_use" \/ CutCalls
  /\ IF reason = "tool_use" /\ r.calls # << >>
     THEN /\ turn' = [turn EXCEPT ![t] = Started([r EXCEPT !.at = "tools"])]
          /\ UNCHANGED <<endedTurns, stream, saved, widget>>
     ELSE Finish(t, r, << >>, IF reason = "tool_use" THEN "end" ELSE reason)

\* A result message for every call that has an outcome, in call order.
Answered(t, r) ==
  LET done == {i \in DOMAIN r.calls : Settled(r.calls[i])}
  IN  [r EXCEPT !.messages = @ \o [i \in 1..Cardinality(done) |-> Says(t, "result", 0)]]

\* Another provider turn is allowed.
More(r) == r.iteration < MaxIterations

\* Promise.all resolves: abort, token ceiling, iteration ceiling, next provider turn.
AfterTools(t, r, events) ==
  LET n == [Answered(t, r) EXCEPT !.iteration = @ + 1] IN
  IF r.aborted THEN Finish(t, n, Append(events, Ev(t, "abort")), "aborted")
  ELSE \/ Finish(t, n, events, "length")
       \/ /\ ~More(n)
          /\ Finish(t, n, events, "max-iterations")
       \/ /\ More(n)
          /\ turn' = [turn EXCEPT ![t] = Asks(n)]
          /\ Emit(t, events)
          /\ UNCHANGED <<saved, widget>>

\* tool.execute resolves or rejects; an unknown tool is an error at once.
ToolDone(t, i) ==
  LET r == Started([turn[t] EXCEPT !.calls[i].state = "answered"])
      event == <<CallEv(t, turn[t], "result", i)>>
  IN  /\ turn[t].at = "tools"
      /\ i \in DOMAIN turn[t].calls
      /\ turn[t].calls[i].state = "running"
      /\ IF \E j \in DOMAIN r.calls : r.calls[j].state = "running"
         THEN /\ turn' = [turn EXCEPT ![t] = r]
              /\ Emit(t, event)
              /\ UNCHANGED <<saved, widget>>
         ELSE AfterTools(t, r, event)

(***************************************************************************)
(* The chat widget (ChatController.mount)                                  *)
(***************************************************************************)
\* It asks for the history and subscribes; the last event may be on its way.
Mount ==
  /\ widget.at = "absent"
  /\ \E n \in 0..Len(stream) :
       /\ n + 1 >= Len(stream)
       /\ widget' = [at |-> "asked", since |-> n, read |-> 0]
  /\ UNCHANGED <<turn, endedTurns, stream, saved>>

\* The server reads the ring for it.
History ==
  /\ widget.at = "asked"
  /\ widget' = [widget EXCEPT !.at = "answering", !.read = Len(stream)]
  /\ UNCHANGED <<turn, endedTurns, stream, saved>>

\* (mutant) The subscription starts with the answer.
ShowsLate ==
  /\ widget.at = "answering"
  /\ widget' = [widget EXCEPT !.at = "shown", !.since = Len(stream)]
  /\ UNCHANGED <<turn, endedTurns, stream, saved>>

\* The answer arrives, or the request fails and the transcript starts empty.
Shows ==
  /\ widget.at = "answering"
  /\ \/ widget' = [widget EXCEPT !.at = "shown"]
     \/ widget' = [widget EXCEPT !.at = "failed"]
  /\ UNCHANGED <<turn, endedTurns, stream, saved>>

\* What the widget has heard once everything has arrived: the ring, then the live
\* events since it subscribed, twice if they were in both.
Heard ==
  LET oldest == IF widget.read > Cap THEN widget.read - Cap + 1 ELSE 1
      history == IF widget.at = "shown" THEN SubSeq(stream, oldest, widget.read) ELSE << >>
  IN  history \o SubSeq(stream, widget.since + 1, Len(stream))

(***************************************************************************)
(* What the widget shows of a turn (reduceChatEvents)                      *)
(***************************************************************************)
Shown   == [status : {"streaming", "complete", "aborted"}, stop : Reasons \cup {"none"},
            calls : SUBSET (Seq(Nat) \X {"ready", "answered"})]
Nothing == [status |-> "streaming", stop |-> "none", calls |-> {}]

With(calls, id, state) == {c \in calls : c[1] # id} \cup {<<id, state>>}
Knows(calls, id) == \E c \in calls : c[1] = id

\* One event of the turn; the first turn-end wins, a result needs its call.
Reduced(shown, e) ==
  CASE e.type = "abort" -> [shown EXCEPT !.status = "aborted"]
    [] e.type = "turn-end" /\ shown.stop = "none" ->
         [shown EXCEPT !.stop = e.reason,
                       !.status = IF e.reason = "aborted" THEN "aborted" ELSE "complete"]
    [] e.type = "ready" -> [shown EXCEPT !.calls = With(@, e.id, "ready")]
    [] e.type = "result" /\ Knows(shown.calls, e.id) ->
         [shown EXCEPT !.calls = With(@, e.id, "answered")]
    [] OTHER -> shown

ShownOf(t) ==
  LET heard == Heard
      shown[n \in 0..Len(heard)] ==
        IF n = 0 THEN Nothing
        ELSE IF heard[n].turn = t THEN Reduced(shown[n - 1], heard[n]) ELSE shown[n - 1]
  IN  shown[Len(heard)]

-----------------------------------------------------------------------------
\* What is awaited in a turn ends: the provider, a tool, a backoff, the memory's read.
Advance(t) ==
  \/ Prime(t)
  \/ Retry(t)
  \/ Stopped(t)
  \/ \E retryable \in BOOLEAN : Fail(t, retryable)
  \/ \E reason \in {"tool_use", "end", "length", "refusal"} : Stop(t, reason)
  \/ \E i \in 1..MaxBlocks : ToolDone(t, i)

TurnNext(t) ==
  \/ Send(t)
  \/ Abort(t)
  \/ Text(t)
  \/ \E kind \in Kinds : Ready(t, kind)
  \/ Advance(t)

WidgetNext == Mount \/ History \/ Shows

Next == (\E t \in Turns : TurnNext(t)) \/ WidgetNext

Fairness == \A t \in Turns : WF_vars(Advance(t))

Spec == Init /\ [][Next]_vars /\ Fairness

(***************************************************************************)
(* Properties                                                              *)
(***************************************************************************)
TypeOK ==
  /\ turn \in [Turns -> Turn]
  /\ endedTurns \subseteq Turns
  /\ stream \in Seq(Event)
  /\ saved \in Seq(Message)
  /\ widget \in Widget

IsEnd(e) == e.type = "turn-end"

\* The order of a turn's events (schema/src/chat.ts): turn-start before all that its
\* agent says, one turn-end, and it is last; a result after its call.  An abort that
\* comes while the agent reads the memory ends a turn that never started.
StreamOrdered ==
  \A i, j \in 1..Len(stream) : stream[i].turn = stream[j].turn =>
    /\ IsEnd(stream[i]) => j <= i
    /\ stream[j].type = "turn-start" => i >= j
    /\ stream[i].type \notin {"abort", "turn-end"} =>
         \E k \in 1..i : stream[k] = Ev(stream[i].turn, "turn-start")
    /\ stream[i].type = "result" =>
         \E k \in 1..i : stream[k] = [stream[i] EXCEPT !.type = "ready"]

\* A turn that has ended for its readers starts nothing any more: no tool, no further
\* provider turn.
Work(t) == [calls |-> {i \in DOMAIN turn[t].calls : turn[t].calls[i].state # "ready"},
            asks |-> <<turn[t].pass, turn[t].iteration, turn[t].attempt>>]
EndedStartsNothing ==
  [][\A t \in endedTurns : turn'[t].at = "done" \/ Work(t)' = Work(t)]_vars

\* Two writes of a turn never run at once, and they take effect in call order.
WritesInOrder ==
  \A t \in Turns : \A i, j \in DOMAIN turn[t].calls :
    LET c == turn[t].calls
    IN  i < j /\ c[i].kind = "write" /\ c[j].kind = "write" /\ c[j].state # "ready" =>
          Settled(c[i])

\* What the readers of a turn are told, and what it does, happens in order.
InOrder == StreamOrdered /\ WritesInOrder

\* Every tool call in the saved history is followed by its results (chat-agent.ts:283).
HistoryPaired ==
  \A i \in 1..Len(saved) : saved[i].role = "assistant" =>
    \A k \in 1..saved[i].calls :
      /\ i + k <= Len(saved)
      /\ saved[i + k].role = "result"
      /\ saved[i + k].turn = saved[i].turn

\* A widget that heard everything shows of an ended turn that it ended, and how, and
\* no call as pending that was answered: whenever it mounted.
ShowsTruth ==
  widget.at \in {"shown", "failed"} =>
    \A t \in endedTurns : (\E i \in 1..Len(Heard) : Heard[i].turn = t) =>
      /\ \E e \in ToSet(stream) : e.turn = t /\ IsEnd(e) /\ e.reason = ShownOf(t).stop
      /\ ShownOf(t).status = IF ShownOf(t).stop = "aborted" THEN "aborted" ELSE "complete"
      /\ \A e \in ToSet(stream) : e.turn = t /\ e.type = "result" =>
           <<e.id, "ready">> \notin ShownOf(t).calls

\* Every turn ends, if the provider and the tools answer.
TurnsEnd == \A t \in Turns : turn[t].at # "unsent" ~> (turn[t].at = "done" /\ t \in endedTurns)
=============================================================================
