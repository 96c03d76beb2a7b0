----------------------------- MODULE AgentLimits -----------------------------
(***************************************************************************)
(* What bounds an agent's work in one session: how much of its tools and of *)
(* its history a provider is sent (agent/src/tool-budget.ts, chat-agent.ts),*)
(* how many provider turns a message is worth (runner.ts), and what begins  *)
(* a turn besides a message: the settlement of an action an operator was    *)
(* asked about (action-wake.ts, enabled, wired to chat.send). Sizes are     *)
(* token estimates; events, retries and reviews are in ChatTurns, the gate  *)
(* an action goes through in PendingActions.                                *)
(***************************************************************************)
EXTENDS Integers, Sequences, SequencesExt

CONSTANTS ToolDefs,      \* the names of the tools, in the order of host.tools()
          External,      \* those a connector brings, which may be collapsed
          FullSize, StubSize,  \* estimates of a definition, whole and collapsed
          DefBudget,     \* toolDefTokenBudget
          HistoryBudget, \* tokenCeiling * TRUNCATE_AT
          TokenCeiling, MaxToolIterations,
          ResultSize, ElidedSize,  \* bound: estimates of a tool's result, and elided
          Actions, Slots, MaxSends  \* bounds: parked actions, turns at once, messages

ASSUME LimitsAssumption ==
    /\ External \subseteq Range(ToolDefs)
    /\ FullSize \in [Range(ToolDefs) -> Nat] /\ StubSize \in [Range(ToolDefs) -> Nat]
    /\ ToolDefs \in Seq(Range(ToolDefs)) /\ DefBudget \in Nat
    /\ ResultSize \in [Range(ToolDefs) -> Nat] /\ ElidedSize \in Nat /\ HistoryBudget \in Nat
    /\ MaxToolIterations \in Nat \ {0}

VARIABLES turn,     \* per slot: a turn that runs
          history,  \* histories.get(session): its messages
          recent,   \* recentTools.get(session), the newest first
          whole,    \* history variable: the messages of `history` before any elision
          lastUsed, \* history variable: the external tool used last, as `recent` was saved
          action,   \* per action: what became of it
          chain,    \* settlements whose wake has not ended; the first may be under way
          waking,   \* is it
          woken,    \* history variable: the wakes begun
          decided,  \* history variable: the actions operators settled
          sends

saved == <<history, recent, whole, lastUsed>>
wakes == <<action, chain, waking, woken, decided>>
limitVars == <<turn, saved, wakes, sends>>

NoTool == "none"
Idle == [on |-> FALSE, asked |-> FALSE, messages |-> <<>>, whole |-> <<>>, mru |-> <<>>,
         shipped |-> {}, iteration |-> 0, usage |-> 0, used |-> NoTool]
Say == [kind |-> "say", size |-> 1]
Result(tool) == [kind |-> "result", size |-> ResultSize[tool]]

-----------------------------------------------------------------------------
(* applyToolDefBudget                                                      *)

\* What the definitions come to with the external tools of `full` in full.
Total(full) ==
    LET sum[n \in 0..Len(ToolDefs)] ==
          IF n = 0 THEN 0
          ELSE sum[n - 1] + (IF ToolDefs[n] \in External \ full THEN StubSize[ToolDefs[n]]
                             ELSE FullSize[ToolDefs[n]])
    IN  sum[Len(ToolDefs)]

\* The most recently used first, the others in the order they arrived.
Ranked(mru) == mru \o ToolDefs
Upgradable(mru, n) ==
    Ranked(mru)[n] \in External /\ (n > Len(mru) => Ranked(mru)[n] \notin Range(mru))

\* From the floor, all collapsed, back to full schemas while the total stays within.
Upgraded(mru) ==
    LET full[n \in 0..Len(Ranked(mru))] ==
          IF n = 0 THEN {}
          ELSE LET before == full[n - 1]
                   more == before \cup {Ranked(mru)[n]}
               IN  IF Upgradable(mru, n) /\ Total(more) <= DefBudget THEN more ELSE before
    IN  full[Len(Ranked(mru))]

Shipped(mru) == IF Total(External) <= DefBudget THEN External ELSE Upgraded(mru)

\* Mutant of Touched: the tool just used goes to the other end.
TouchedLast(mru, t) == Append(Remove(mru, t), t)

\* Where a tool is among the recent ones, or the place behind the last.
PlaceOf(mru, t) ==
    CHOOSE i \in 1..(Len(mru) + 1) :
       (i <= Len(mru) => mru[i] = t) /\ \A j \in 1..(i - 1) : mru[j] # t

\* touchTool: to the front, those before its old place move by one.
Touched(mru, t) ==
    LET old == PlaceOf(mru, t)
    IN  [i \in 1..(IF old > Len(mru) THEN old ELSE Len(mru)) |->
           IF i = 1 THEN t ELSE IF i <= old THEN mru[i - 1] ELSE mru[i]]

-----------------------------------------------------------------------------
(* truncateHistory                                                         *)

Elided(message) == [message EXCEPT !.size = ElidedSize]
Estimate(messages) ==
    LET sum[n \in 0..Len(messages)] == IF n = 0 THEN 0 ELSE sum[n - 1] + messages[n].size
    IN  sum[Len(messages)]

\* A result loses its contents while the estimate is too high.
Shed(messages, n) ==
    IF Estimate(messages) > HistoryBudget /\ messages[n].kind = "result"
    THEN [messages EXCEPT ![n] = Elided(@)] ELSE messages

\* Mutant of Truncated: from the newest message on.
TruncatedNewest(messages) ==
    LET shed[n \in 0..Len(messages)] ==
          IF n = 0 THEN messages ELSE Shed(shed[n - 1], Len(messages) + 1 - n)
    IN  shed[Len(messages)]

\* From the oldest message on.
Truncated(messages) ==
    LET shed[n \in 0..Len(messages)] == IF n = 0 THEN messages ELSE Shed(shed[n - 1], n)
    IN  shed[Len(messages)]

-----------------------------------------------------------------------------
(* Turns                                                                   *)

LimitsInit ==
    /\ turn = [s \in Slots |-> Idle]
    /\ history = <<>> /\ recent = <<>> /\ whole = <<>> /\ lastUsed = NoTool
    /\ action = [a \in Actions |-> "none"]
    /\ chain = <<>> /\ waking = FALSE /\ woken = <<>> /\ decided = <<>>
    /\ sends = 0

\* chat.send: the turn works on a copy of the history and of the recent tools.
Begin(s) ==
    /\ ~turn[s].on
    /\ turn' = [turn EXCEPT ![s] =
         [Idle EXCEPT !.on = TRUE, !.messages = Append(Truncated(history), Say),
                      !.whole = Append(whole, Say), !.mru = recent, !.used = lastUsed]]
    /\ UNCHANGED saved

UserSends(s) ==
    /\ sends < MaxSends
    /\ sends' = sends + 1
    /\ Begin(s)
    /\ UNCHANGED wakes

\* One provider turn: the definitions are budgeted anew.
AskProvider(s) ==
    /\ turn[s].on /\ ~turn[s].asked
    /\ turn' = [turn EXCEPT ![s].asked = TRUE, ![s].shipped = Shipped(turn[s].mru)]
    /\ UNCHANGED <<saved, wakes, sends>>

\* Whatever a turn ends with but an abort, its messages become the history.
End(s, t) ==
    /\ turn' = [turn EXCEPT ![s] = Idle]
    /\ history' = Truncated(t.messages) /\ whole' = t.whole
    /\ recent' = t.mru /\ lastUsed' = t.used

Said(t, messages) ==
    [t EXCEPT !.messages = @ \o messages, !.whole = @ \o messages, !.usage = @ + 1]

ProviderStops(s) ==
    /\ turn[s].asked
    /\ End(s, Said(turn[s], <<Say>>))
    /\ UNCHANGED <<wakes, sends>>

\* The provider failed for good, or said nothing.
ProviderFails(s) ==
    /\ turn[s].asked
    /\ End(s, turn[s])
    /\ UNCHANGED <<wakes, sends>>

\* It calls a tool, which may park an action; the ceilings end the turn.
ProviderCalls(s, tool, parked) ==
    LET t == [Said(turn[s], <<Say, Result(tool)>>) EXCEPT
                 !.asked = FALSE, !.shipped = {}, !.iteration = @ + 1,
                 !.mru = Touched(@, tool), !.used = IF tool \in External THEN tool ELSE @]
    IN  /\ turn[s].asked
        /\ IF t.usage > TokenCeiling \/ t.iteration = MaxToolIterations THEN End(s, t)
           ELSE turn' = [turn EXCEPT ![s] = t] /\ UNCHANGED saved
        /\ parked # {} => tool \in External
        /\ \A a \in parked : action[a] = "none"
        /\ action' = [a \in Actions |-> IF a \in parked THEN "pending" ELSE action[a]]
        /\ UNCHANGED <<chain, waking, woken, decided, sends>>

\* The messages of an aborted turn are lost, the tools it used are remembered.
TurnAborted(s) ==
    /\ turn[s].on
    /\ turn' = [turn EXCEPT ![s] = Idle]
    /\ recent' = turn[s].mru /\ lastUsed' = turn[s].used
    /\ UNCHANGED <<history, whole, wakes, sends>>

-----------------------------------------------------------------------------
(* Settlements and wakes                                                   *)

\* Mutant of OnSettled: an expiry wakes the agent, too.
OnSettledAny(a, reason) == chain' = Append(chain, a)

\* onSettled
OnSettled(a, reason) == chain' = IF reason = "expired" THEN chain ELSE Append(chain, a)

\* An operator denied it, or confirmed it and it ran or failed.
OperatorSettles(a) ==
    /\ action[a] = "pending"
    /\ action' = [action EXCEPT ![a] = "decided"]
    /\ decided' = Append(decided, a)
    /\ OnSettled(a, "decided")
    /\ UNCHANGED <<turn, saved, waking, woken, sends>>

ActionExpires(a) ==
    /\ action[a] = "pending"
    /\ action' = [action EXCEPT ![a] = "expired"]
    /\ OnSettled(a, "expired")
    /\ UNCHANGED <<turn, saved, waking, woken, decided, sends>>

\* One wake at a time, and the next when it ended, however it did.
WakeBegins ==
    /\ ~waking /\ chain # <<>>
    /\ waking' = TRUE
    /\ woken' = Append(woken, Head(chain))
    /\ UNCHANGED <<turn, saved, action, chain, decided, sends>>

WakeEnds == waking /\ waking' = FALSE /\ chain' = Tail(chain)

\* chat.send answers when the turn has begun.
WakeSends(s) ==
    /\ WakeEnds
    /\ Begin(s)
    /\ UNCHANGED <<action, woken, decided, sends>>

WakeFails ==
    /\ WakeEnds
    /\ UNCHANGED <<turn, saved, action, woken, decided, sends>>

LimitsNext ==
    \/ \E s \in Slots :
         \/ UserSends(s) \/ AskProvider(s) \/ ProviderStops(s) \/ ProviderFails(s)
         \/ TurnAborted(s) \/ WakeSends(s)
         \/ \E tool \in Range(ToolDefs), parked \in {{}} \cup {{a} : a \in Actions} :
              ProviderCalls(s, tool, parked)
    \/ \E a \in Actions : OperatorSettles(a) \/ ActionExpires(a)
    \/ WakeBegins \/ WakeFails

LimitsSpec == LimitsInit /\ [][LimitsNext]_limitVars

-----------------------------------------------------------------------------
(* Properties                                                              *)

\* No provider turn is sent more definitions than the budget or, where that is more, the
\* floor; and the external tool used last, in this turn or the one whose tools it goes on
\* with, has its full schema whenever that alone fits.
ToolsFit ==
    \A s \in Slots : turn[s].asked =>
        /\ Total(turn[s].shipped) <= DefBudget \/ Total(turn[s].shipped) <= Total({})
        /\ turn[s].used # NoTool /\ Total({turn[s].used}) <= DefBudget =>
             turn[s].used \in turn[s].shipped

IsElided(i) == history[i] = Elided(whole[i]) /\ whole[i].kind = "result"

\* Over all turns the history keeps every word of the dialogue, loses the contents of
\* results from the oldest on, none unless the whole is too long, and enough to fit.
HistoryFits ==
    /\ Len(history) = Len(whole)
    /\ \A i \in DOMAIN history : history[i] = whole[i] \/ IsElided(i)
    /\ \A i, j \in DOMAIN history :
         i < j /\ whole[i].kind = "result" /\ history[j] # whole[j] => IsElided(i)
    /\ \/ Estimate(history) <= HistoryBudget
       \/ \A i \in DOMAIN history : whole[i].kind = "result" => IsElided(i)
    /\ Estimate(whole) <= HistoryBudget => history = whole

\* Each settlement by an operator wakes the agent once, in the order they were settled,
\* and nothing else does: no wake turn's own actions wake it again by expiring.
WakesFollow ==
    woken \o (IF waking THEN Tail(chain) ELSE chain) = decided

\* The agent works no more often and is sent no more than it may (action-wake.ts:7
\* "Budget + safety", tool-budget.ts:46, chat-agent.ts:197).
AgentBounded == ToolsFit /\ HistoryFits /\ WakesFollow
=============================================================================
