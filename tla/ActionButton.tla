----------------------------- MODULE ActionButton -----------------------------
(* The action-button builtin of one widget (lit/renderers/action-button.ts)  *)
(* over the action seam of boardstate-view.ts, against the pending-action    *)
(* engine (server/broker-actions.ts, in full in PendingActions). A           *)
(* controller holds the button's phase; it is looked up by widget id when    *)
(* the parent renders and mounted by lit's ref directive, which calls the    *)
(* old callback with nothing before the new one, and again when the host     *)
(* element leaves the document and comes back.                               *)
EXTENDS Naturals, Sequences

CONSTANTS
    MaxControllers,  \* bound: controllers ever made
    MaxActions,      \* bound: actions ever parked
    MaxCalls,        \* bound: requests ever made
    MaxSwaps,        \* bound: replaced transports, elements that leave and return
    NoController

ASSUME ButtonAssumption ==
    /\ MaxControllers \in Nat /\ MaxActions \in Nat /\ MaxCalls \in Nat /\ MaxSwaps \in Nat
    /\ NoController \notin Nat

VARIABLES
    button,    \* per controller: its phase and the action it is about
    mounted,   \* the controller whose root is set
    hears,     \* per controller: the transport it subscribed to, 0 if to none
    known,     \* controllers.get(widget.id)
    bound,     \* the controller of the ref callback the rendered part holds
    joined,    \* the host element is in the document
    transport, \* the transport of the view, counted up when it is replaced
    requests,  \* requests on their way to the server
    inbox,     \* events and answers on their way to the page
    actions,   \* per parked action: its status, and who confirmed it
    made, clicks, swaps

pageVars == <<button, mounted, hears, known, bound, joined, transport, made, swaps>>
engineVars == <<actions>>
buttonVars == <<pageVars, requests, inbox, engineVars, clicks>>

Controllers == 1..MaxControllers
Others      == 0                   \* another operator, in the place of a controller

Phase(kind, id) == [kind |-> kind, id |-> id]
Fresh == Phase("idle", 0)

ButtonInit ==
    /\ button = [k \in Controllers |-> Fresh] /\ mounted = NoController
    /\ hears = [k \in Controllers |-> 0]
    /\ known = NoController /\ bound = NoController /\ joined = TRUE
    /\ transport = 1
    /\ requests = <<>> /\ inbox = <<>>
    /\ actions = <<>>
    /\ made = 0 /\ clicks = 0 /\ swaps = 0

-----------------------------------------------------------------------------
(* Rendering *)

\* Mutant: a mount renders first and forgets to subscribe.
MountDeaf(k, deaf) ==
    /\ mounted' = k
    /\ button' = [button EXCEPT ![k] = Fresh]
    /\ hears' = [j \in Controllers |-> IF j \in deaf \cup {k} THEN 0 ELSE hears[j]]

\* A fresh mount starts idle and listens on the transport of the day; the
\* callbacks in `deaf` were called with nothing before.
Mount(k, deaf) ==
    /\ mounted' = k
    /\ button' = [button EXCEPT ![k] = Fresh]
    /\ hears' = [j \in Controllers |-> IF j = k THEN transport ELSE IF j \in deaf THEN 0 ELSE hears[j]]

\* The parent renders: the same controller goes on, another one is mounted in
\* its place, and the one it replaces deletes whatever is known by the id.
RenderButton ==
    LET k == IF known # NoController THEN known ELSE made + 1 IN
    /\ joined /\ k \in Controllers
    /\ made' = IF known # NoController THEN made ELSE made + 1
    /\ IF bound = k THEN known' = k /\ UNCHANGED <<button, mounted, hears, bound>>
       ELSE /\ bound' = k
            /\ known' = IF bound = NoController THEN k ELSE NoController
            /\ Mount(k, {bound})
    /\ UNCHANGED <<joined, transport, swaps, requests, inbox, engineVars, clicks>>

Unmount ==
    /\ hears' = [j \in Controllers |-> IF j = bound THEN 0 ELSE hears[j]]
    /\ mounted' = NoController /\ known' = NoController

\* The widget is no longer rendered.
RemoveButton ==
    /\ joined /\ bound # NoController
    /\ Unmount /\ bound' = NoController
    /\ UNCHANGED <<button, joined, transport, made, swaps, requests, inbox, engineVars, clicks>>

\* The host element is taken out of the document ...
LeavePage ==
    /\ joined /\ bound # NoController /\ swaps < MaxSwaps
    /\ swaps' = swaps + 1
    /\ joined' = FALSE /\ Unmount
    /\ UNCHANGED <<button, bound, transport, made, requests, inbox, engineVars, clicks>>

\* ... and put back: the directive calls the callback it holds.
RejoinPage ==
    /\ ~ joined /\ joined' = TRUE
    /\ Mount(bound, {})
    /\ UNCHANGED <<known, bound, transport, made, swaps, requests, inbox, engineVars, clicks>>

\* The view is given another transport: what waits on the old one fails, and a
\* mounted button goes on listening to the old one.
SwapTransport ==
    /\ swaps < MaxSwaps /\ swaps' = swaps + 1
    /\ transport' = transport + 1
    /\ inbox' = <<>> /\ requests' = <<>>
    /\ button' = [k \in Controllers |->
          IF button[k].kind = "running" THEN Phase("error", 0) ELSE button[k]]
    /\ UNCHANGED <<mounted, hears, known, bound, joined, made, engineVars, clicks>>

-----------------------------------------------------------------------------
(* Clicks *)

Send(op, id) ==
    /\ clicks < MaxCalls /\ clicks' = clicks + 1
    /\ requests' = Append(requests, [op |-> op, id |-> id, by |-> mounted])

ClickRun ==
    /\ mounted # NoController /\ button[mounted].kind \notin {"running", "pending"}
    /\ button' = [button EXCEPT ![mounted] = Phase("running", 0)]
    /\ Send("invoke", 0)
    /\ UNCHANGED <<mounted, hears, known, bound, joined, transport, made, swaps, inbox, engineVars>>

ClickConfirm ==
    /\ mounted # NoController /\ button[mounted].kind = "pending"
    /\ button' = [button EXCEPT ![mounted] = Phase("running", 0)]
    /\ Send("confirm", button[mounted].id)
    /\ UNCHANGED <<mounted, hears, known, bound, joined, transport, made, swaps, inbox, engineVars>>

ClickDeny ==
    /\ mounted # NoController /\ button[mounted].kind = "pending"
    /\ Send("deny", button[mounted].id)
    /\ UNCHANGED <<pageVars, inbox, engineVars>>

-----------------------------------------------------------------------------
(* The engine *)

Answered(to, op, ok, id) == [kind |-> "answer", to |-> to, op |-> op, ok |-> ok, id |-> id]
Changed(id, status) == [kind |-> "changed", id |-> id, status |-> status]

SetAction(id, status, by) == actions' = [actions EXCEPT ![id] = [status |-> status, by |-> by]]
Parked(id) == id \in DOMAIN actions /\ actions[id].status = "pending"

\* An invocation runs a read at once, parks a mutation, or is refused.
ServeInvoke(q) ==
    \/ /\ Len(actions) < MaxActions
       /\ actions' = Append(actions, [status |-> "pending", by |-> Others])
       /\ inbox' = Append(inbox, Answered(q.by, "invoke", TRUE, Len(actions) + 1))
    \/ \E ok \in BOOLEAN :
          inbox' = Append(inbox, Answered(q.by, "invoke", ok, 0)) /\ UNCHANGED actions

\* A confirm claims the action, its answer comes when the tool has run.
ServeConfirm(q) ==
    IF Parked(q.id) THEN SetAction(q.id, "claimed", q.by) /\ UNCHANGED inbox
    ELSE inbox' = Append(inbox, Answered(q.by, "confirm", FALSE, q.id)) /\ UNCHANGED actions

ServeDeny(q) ==
    IF Parked(q.id)
    THEN /\ SetAction(q.id, "denied", Others)
         /\ inbox' = inbox \o <<Changed(q.id, "denied"), Answered(q.by, "deny", TRUE, q.id)>>
    ELSE inbox' = Append(inbox, Answered(q.by, "deny", FALSE, q.id)) /\ UNCHANGED actions

ServeRequest ==
    /\ requests # <<>> /\ requests' = Tail(requests)
    /\ LET q == Head(requests) IN
         CASE q.op = "invoke"  -> ServeInvoke(q)
           [] q.op = "confirm" -> ServeConfirm(q)
           [] q.op = "deny"    -> ServeDeny(q)
    /\ UNCHANGED <<pageVars, clicks>>

\* The tool has run, or refused to: settled as confirmed, and the caller told.
RunAction(id) ==
    /\ id \in DOMAIN actions /\ actions[id].status = "claimed"
    /\ \E ok \in BOOLEAN :
         /\ SetAction(id, IF ok THEN "confirmed" ELSE "failed", actions[id].by)
         /\ inbox' = inbox \o <<Changed(id, "confirmed")>>
                \o (IF actions[id].by = Others THEN <<>>
                    ELSE <<Answered(actions[id].by, "confirm", ok, id)>>)
    /\ UNCHANGED <<pageVars, requests, clicks>>

\* Another operator decides, or the window of the action ends.
Elsewhere(id, status) ==
    /\ Parked(id) /\ SetAction(id, status, Others)
    /\ inbox' = IF status = "claimed" THEN inbox ELSE Append(inbox, Changed(id, status))
    /\ UNCHANGED <<pageVars, requests, clicks>>

-----------------------------------------------------------------------------
(* What arrives *)

\* Mutant: whatever action changed, a waiting button takes it for its own.
ConcernsAny(k, m) == button[k].kind = "pending"

Concerns(k, m) == button[k].kind = "pending" /\ button[k].id = m.id

OnActionChange(m) ==
    button' = [k \in Controllers |->
        IF hears[k] = transport /\ Concerns(k, m) THEN Phase(m.status, button[k].id) ELSE button[k]]

\* The continuation of the call, on the controller that made it, mounted or not.
OnAnswer(m) ==
    button' = [button EXCEPT ![m.to] =
        IF ~ m.ok THEN Phase("error", 0)
        ELSE CASE m.op = "invoke" /\ m.id # 0 -> Phase("pending", m.id)
               [] m.op = "deny"               -> Phase("denied", m.id)
               [] OTHER                       -> Phase("result", m.id)]

ReceiveMessage ==
    /\ inbox # <<>> /\ inbox' = Tail(inbox)
    /\ IF Head(inbox).kind = "changed" THEN OnActionChange(Head(inbox)) ELSE OnAnswer(Head(inbox))
    /\ UNCHANGED <<mounted, hears, known, bound, joined, transport, made, swaps, requests,
                   engineVars, clicks>>

ButtonNext ==
    \/ RenderButton \/ RemoveButton \/ LeavePage \/ RejoinPage \/ SwapTransport
    \/ ClickRun \/ ClickConfirm \/ ClickDeny
    \/ ServeRequest \/ ReceiveMessage
    \/ \E id \in 1..MaxActions :
         RunAction(id) \/ \E status \in {"claimed", "denied", "expired"} : Elsewhere(id, status)

ButtonSpec == ButtonInit /\ [][ButtonNext]_buttonVars

ButtonFairness == WF_buttonVars(ReceiveMessage)

ButtonTypeOK ==
    /\ \A k \in Controllers :
         /\ button[k].kind \in {"idle", "running", "pending", "result", "confirmed", "denied",
                                "expired", "error"}
         /\ button[k].id \in 0..Len(actions)
    /\ {mounted, known, bound} \subseteq Controllers \cup {NoController}
    /\ hears \in [Controllers -> 0..transport]

\* What a button says became of an action did become of it, whoever else decided,
\* however often the button was remounted and invoked again.
ButtonTellsTruth ==
    \A k \in Controllers :
        LET p == button[k] IN
        p.id # 0 =>
            /\ p.kind = "denied"    => actions[p.id].status = "denied"
            /\ p.kind = "expired"   => actions[p.id].status = "expired"
            /\ p.kind = "confirmed" => actions[p.id].status \in {"confirmed", "failed"}
            /\ p.kind = "result"    => actions[p.id].status = "confirmed"

\* A mounted button stops waiting once its action was settled, unless the view was
\* given another transport.
ButtonSettles ==
    \A id \in 1..MaxActions :
        [](id \in DOMAIN actions /\ actions[id].status \notin {"pending", "claimed"} =>
            <>(\/ mounted = NoController \/ button[mounted] # Phase("pending", id)
               \/ transport # 1))

\* "Absorbing a fresh `ctx` on every parent re-render": a render of the widget that
\* is on the page leaves what its button shows.
RenderKeepsPhase ==
    [][RenderButton /\ bound # NoController => button'[mounted'] = button[mounted]]_buttonVars
=============================================================================
