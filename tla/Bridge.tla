------------------------------- MODULE Bridge -------------------------------
(***************************************************************************)
(* The parent's side of the custom widgets: an iframe is mounted with a    *)
(* bridge of its own, and every message of the child runs to its end       *)
(* against that bridge while the board may take the iframe away, put       *)
(* another in its place, or show two widgets of one manifest at a time.    *)
(* The prompt and the publish budgets are kept per manifest name at module *)
(* scope, the bus keeps its subscriptions per tab, and the form builtin    *)
(* shares the gate of the prompts under a key of its own.                  *)
(***************************************************************************)
EXTENDS Integers, Sequences, FiniteSets

CONSTANTS
    Frames,        \* the custom widgets of the board, one iframe each
    Forms,         \* the action-form builtins, each the key of its own budget
    Name,          \* the manifest name of each frame's widget
    Manifests,     \* the sets of capabilities a manifest may be approved with
    Tabs, Channels,
    Requests,      \* the messages the children and the forms may still send
    PromptMax,     \* PROMPT_RATE_MAX
    PublishMax,    \* BUS_PUBLISH_RATE_MAX
    Window,        \* both rolling windows, in ticks of the clock
    MaxTime,       \* bound: the clock's last tick
    MaxMounts,     \* bound: how often one frame is mounted
    NoTab,         \* where a frame is that is not on the page
    NoOne          \* who asked a request that is not made yet

ASSUME BridgeAssumption ==
    /\ PromptMax \in Nat \ {0} /\ PublishMax \in Nat \ {0} /\ Window \in Nat \ {0}
    /\ MaxTime \in Nat /\ MaxMounts \in Nat
    /\ NoTab \notin Tabs
    /\ NoOne \notin Frames \cup Forms /\ Frames \cap Forms = {}
    /\ IsFiniteSet(Requests)

Names == {Name[f] : f \in Frames}
Keys == Names \cup Forms
Bridges == [frame : Frames, mount : 1..MaxMounts]
Nobody == [frame |-> NoOne, mount |-> 0]

\* A form asks the gate as itself: it has no bridge that could be disposed.
Form(k) == [frame |-> k, mount |-> 0]

VARIABLES
    granted,   \* per manifest name: the capabilities it was approved with
    now,       \* the clock
    frame,     \* per frame: how often it was mounted, its tab, its channels
    subs,      \* the bus: who gets what is published on a tab's channel
    rate,      \* per key of the gate: the stamps in the window, the lock
    pubs,      \* per manifest name: the stamps of its publishes
    job,       \* per request: who asked, how far it is, what was answered
    heard,     \* per frame: what the present child was told over the bus
    sends,     \* history: when the prompts of each key were sent
    shouts,    \* history: when the messages of each name were brokered
    freed      \* history: how often a dispose freed a key's taken lock

vars == <<granted, now, frame, subs, rate, pubs, job, heard, sends, shouts, freed>>
history == <<sends, shouts, freed>>
bus == <<subs, pubs, heard>>

Idle == [by |-> Nobody, kind |-> "none", at |-> "idle", timer |-> FALSE, told |-> <<>>]

Steps == {"idle", "resolving", "asking", "sending", "over"}
Answers == {"data", "state", "theme", "timeout", "resolve_failed", "binding_denied",
            "capability_denied", "rate_limited", "prompt_declined"}

-----------------------------------------------------------------------------
(* The bridge of a mount, and whether it was disposed.                     *)

Mounted(f) == frame[f].tab # NoTab

Bridge(f) == [frame |-> f, mount |-> frame[f].mount]

Disposed(b) ==
    /\ b.frame \in Frames
    /\ ~ (Mounted(b.frame) /\ frame[b.frame].mount = b.mount)

Key(who) == IF who.frame \in Forms THEN who.frame ELSE Name[who.frame]

\* Mutant of Say: an await that ends after the timeout answers too.
SayAgain(r, at, what) ==
    [job EXCEPT ![r].at = at, ![r].timer = FALSE,
                ![r].told = IF Disposed(job[r].by) THEN @ ELSE Append(@, what)]

\* A handler's answer: what a form is told it is told whatever happened to the
\* page; a bridge that was disposed posts nothing.
Say(r, at, what) ==
    [job EXCEPT ![r].at = at, ![r].timer = FALSE,
                ![r].told = IF @ # <<>> \/ Disposed(job[r].by) THEN @ ELSE Append(@, what)]

\* What a handler answers before anything was awaited.
Refuse(r, who, kind, what) ==
    [job EXCEPT ![r] = [by |-> who, kind |-> kind, at |-> "over", timer |-> FALSE,
                        told |-> <<what>>]]

\* A rolling window keeps a stamp per call: its time, and which it was then.
Recent(stamps) == {s \in stamps : s.at > now - Window}

Stamped(stamps) ==
    stamps \cup {[at |-> now, nth |-> Cardinality({s \in stamps : s.at = now})]}

-----------------------------------------------------------------------------
(* The bus of a tab.                                                       *)

Subscription(t, c, b) == [tab |-> t, channel |-> c, who |-> b]

\* publish: everyone else on the publisher's tab and channel.
Reached(t, c, from) ==
    {s.who : s \in {s \in subs : s.tab = t /\ s.channel = c /\ s.who # from}}

\* Mutant of Without: the teardown forgets the broker.
WithoutNone(b) == subs

\* unsubscribeAll, with what the bridge severed itself before.
Without(b) == {s \in subs : s.who # b}

-----------------------------------------------------------------------------
(* The life of an iframe.                                                  *)

\* Mutant of Mount: the budgets are kept by the bridge, so a new mount has new ones.
MountAfresh(f, t) ==
    /\ ~ Mounted(f) /\ frame[f].mount < MaxMounts
    /\ frame' = [frame EXCEPT ![f] = [mount |-> @.mount + 1, tab |-> t, channels |-> {}]]
    /\ heard' = [heard EXCEPT ![f] = {}]
    /\ rate' = [rate EXCEPT ![Name[f]].stamps = {}]
    /\ pubs' = [pubs EXCEPT ![Name[f]] = {}]
    /\ UNCHANGED <<granted, now, subs, job, history>>

Mount(f, t) ==
    /\ ~ Mounted(f) /\ frame[f].mount < MaxMounts
    /\ frame' = [frame EXCEPT ![f] = [mount |-> @.mount + 1, tab |-> t, channels |-> {}]]
    /\ heard' = [heard EXCEPT ![f] = {}]
    /\ UNCHANGED <<granted, now, subs, rate, pubs, job, history>>

\* Mutant of TimersCleared: the timers of every bridge of the page are cleared.
AllTimersCleared(b) == [r \in Requests |-> [job[r] EXCEPT !.timer = FALSE]]

\* The timers of a disposed bridge are cleared; its awaits go on, unheard.
TimersCleared(b) ==
    [r \in Requests |-> IF job[r].by = b THEN [job[r] EXCEPT !.timer = FALSE] ELSE job[r]]

Detach(f) ==
    /\ Mounted(f)
    /\ frame' = [frame EXCEPT ![f].tab = NoTab, ![f].channels = {}]
    /\ subs' = Without(Bridge(f))
    /\ rate' = [rate EXCEPT ![Name[f]].inFlight = FALSE]
    /\ freed' = [freed EXCEPT ![Name[f]] = IF rate[Name[f]].inFlight THEN @ + 1 ELSE @]
    /\ job' = TimersCleared(Bridge(f))
    /\ UNCHANGED <<granted, now, pubs, heard, sends, shouts>>

-----------------------------------------------------------------------------
(* getData and getTheme: a binding that is not declared in the manifest,   *)
(* or that the allowlists deny, is refused without touching the server.    *)

GetTheme(f, r) ==
    /\ Mounted(f) /\ job[r] = Idle
    /\ job' = Refuse(r, Bridge(f), "theme", "theme")
    /\ UNCHANGED <<granted, now, frame, rate, bus, history>>

GetData(f, r, allowed) ==
    /\ Mounted(f) /\ job[r] = Idle
    /\ job' = IF allowed
              THEN [job EXCEPT ![r] = [Idle EXCEPT !.by = Bridge(f), !.kind = "data",
                                                   !.at = "resolving", !.timer = TRUE]]
              ELSE Refuse(r, Bridge(f), "data", "binding_denied")
    /\ UNCHANGED <<granted, now, frame, rate, bus, history>>

\* getState and setState wait for the server without a timeout of their own.
UseState(f, r) ==
    /\ Mounted(f) /\ job[r] = Idle
    /\ job' = IF "state:persist" \in granted[Name[f]]
              THEN [job EXCEPT ![r] = [Idle EXCEPT !.by = Bridge(f), !.kind = "state",
                                                   !.at = "resolving"]]
              ELSE Refuse(r, Bridge(f), "state", "capability_denied")
    /\ UNCHANGED <<granted, now, frame, rate, bus, history>>

\* The server answers, or fails to; after the timeout nobody listens.
Resolve(r, what) ==
    /\ job[r].at = "resolving"
    /\ what \in {job[r].kind, "resolve_failed"}
    /\ job' = Say(r, "over", what)
    /\ UNCHANGED <<granted, now, frame, rate, bus, history>>

TimeOut(r) ==
    /\ job[r].timer
    /\ job' = Say(r, "resolving", "timeout")
    /\ UNCHANGED <<granted, now, frame, rate, bus, history>>

-----------------------------------------------------------------------------
(* The gate of the prompts: budget, then the operator, then the server.    *)

Limited(k) == rate[k].inFlight \/ Cardinality(Recent(rate[k].stamps)) >= PromptMax

\* The stamps that left the window are dropped at every call.
Gate(r, who) ==
    /\ job[r] = Idle
    /\ rate' = [rate EXCEPT ![Key(who)] = [stamps |-> Recent(@.stamps),
                                           inFlight |-> @.inFlight \/ ~ Limited(Key(who))]]
    /\ job' = IF Limited(Key(who)) THEN Refuse(r, who, "prompt", "rate_limited")
              ELSE [job EXCEPT ![r] = [Idle EXCEPT !.by = who, !.kind = "prompt",
                                                   !.at = "asking"]]
    /\ UNCHANGED <<granted, now, frame, bus, history>>

SendPrompt(f, r) ==
    /\ Mounted(f) /\ "prompt:send" \in granted[Name[f]]
    /\ Gate(r, Bridge(f))

SendPromptDenied(f, r) ==
    /\ Mounted(f) /\ "prompt:send" \notin granted[Name[f]] /\ job[r] = Idle
    /\ job' = Refuse(r, Bridge(f), "prompt", "capability_denied")
    /\ UNCHANGED <<granted, now, frame, rate, bus, history>>

SubmitForm(k, r) == Gate(r, Form(k))

Unlocked(k) == [rate EXCEPT ![k].inFlight = FALSE]

Decline(r) ==
    /\ job[r].at = "asking"
    /\ rate' = Unlocked(Key(job[r].by))
    /\ job' = Say(r, "over", "prompt_declined")
    /\ UNCHANGED <<granted, now, frame, bus, history>>

Confirm(r) ==
    /\ job[r].at = "asking"
    /\ rate' = [rate EXCEPT ![Key(job[r].by)].stamps = Stamped(@)]
    /\ sends' = [sends EXCEPT ![Key(job[r].by)] = Stamped(@)]
    /\ job' = [job EXCEPT ![r].at = "sending"]
    /\ UNCHANGED <<granted, now, frame, bus, shouts, freed>>

\* chat.send answers: a child is told of a failure, never of a success.
Sent(r, ok) ==
    /\ job[r].at = "sending"
    /\ rate' = Unlocked(Key(job[r].by))
    /\ job' = IF ok THEN [job EXCEPT ![r].at = "over"] ELSE Say(r, "over", "resolve_failed")
    /\ UNCHANGED <<granted, now, frame, bus, history>>

-----------------------------------------------------------------------------
(* The bus as a child reaches it.                                          *)

OnBus(f) == Mounted(f) /\ "bus:pubsub" \in granted[Name[f]]

Subscribe(f, c) ==
    /\ OnBus(f) /\ c \notin frame[f].channels
    /\ subs' = subs \cup {Subscription(frame[f].tab, c, Bridge(f))}
    /\ frame' = [frame EXCEPT ![f].channels = @ \cup {c}]
    /\ UNCHANGED <<granted, now, rate, pubs, job, heard, history>>

Unsubscribe(f, c) ==
    /\ Mounted(f) /\ c \in frame[f].channels
    /\ subs' = subs \ {Subscription(frame[f].tab, c, Bridge(f))}
    /\ frame' = [frame EXCEPT ![f].channels = @ \ {c}]
    /\ UNCHANGED <<granted, now, rate, pubs, job, heard, history>>

PublishLimited(n) == Cardinality(Recent(pubs[n])) >= PublishMax

Publish(f, c) ==
    /\ OnBus(f) /\ ~ PublishLimited(Name[f])
    /\ pubs' = [pubs EXCEPT ![Name[f]] = Stamped(Recent(@))]
    /\ shouts' = [shouts EXCEPT ![Name[f]] = Stamped(@)]
    /\ heard' = [g \in Frames |->
                   IF Mounted(g) /\ Bridge(g) \in Reached(frame[f].tab, c, Bridge(f))
                   THEN heard[g] \cup {[tab |-> frame[f].tab, channel |-> c]} ELSE heard[g]]
    /\ UNCHANGED <<granted, now, frame, subs, rate, job, sends, freed>>

PublishRefused(f) ==
    /\ OnBus(f) /\ PublishLimited(Name[f])
    /\ pubs' = [pubs EXCEPT ![Name[f]] = Recent(@)]
    /\ UNCHANGED <<granted, now, frame, subs, rate, job, heard, history>>

-----------------------------------------------------------------------------

Tick ==
    /\ now < MaxTime
    /\ now' = now + 1
    /\ UNCHANGED <<granted, frame, rate, job, bus, history>>

Init ==
    /\ granted \in [Names -> Manifests]
    /\ now = 0
    /\ frame = [f \in Frames |-> [mount |-> 0, tab |-> NoTab, channels |-> {}]]
    /\ subs = {}
    /\ rate = [k \in Keys |-> [stamps |-> {}, inFlight |-> FALSE]]
    /\ pubs = [n \in Names |-> {}]
    /\ job = [r \in Requests |-> Idle]
    /\ heard = [f \in Frames |-> {}]
    /\ sends = [k \in Keys |-> {}]
    /\ shouts = [n \in Names |-> {}]
    /\ freed = [k \in Keys |-> 0]

FrameStep(f) ==
    \/ \E t \in Tabs : Mount(f, t)
    \/ Detach(f)
    \/ \E c \in Channels : Subscribe(f, c) \/ Unsubscribe(f, c) \/ Publish(f, c)
    \/ PublishRefused(f)

Ask(r) ==
    \/ \E f \in Frames : \/ GetTheme(f, r)
                         \/ \E allowed \in BOOLEAN : GetData(f, r, allowed)
                         \/ UseState(f, r)
                         \/ SendPrompt(f, r)
                         \/ SendPromptDenied(f, r)
    \/ \E k \in Forms : SubmitForm(k, r)

Answer(r) ==
    \/ \E what \in {"data", "state", "resolve_failed"} : Resolve(r, what)
    \/ TimeOut(r)
    \/ Decline(r) \/ Confirm(r)
    \/ \E ok \in BOOLEAN : Sent(r, ok)

Next ==
    \/ \E f \in Frames : FrameStep(f)
    \/ \E r \in Requests : Ask(r) \/ Answer(r)
    \/ Tick

Spec == Init /\ [][Next]_vars

\* A timer that was armed fires unless it is cleared; nothing makes the
\* operator answer a dialog, or the server a request.
FairSpec == Spec /\ \A r \in Requests : WF_vars(TimeOut(r))

-----------------------------------------------------------------------------

Stamps == [at : 0..MaxTime, nth : Nat]

TypeOK ==
    /\ granted \in [Names -> Manifests]
    /\ now \in 0..MaxTime
    /\ frame \in [Frames -> [mount : 0..MaxMounts, tab : Tabs \cup {NoTab},
                             channels : SUBSET Channels]]
    /\ subs \subseteq [tab : Tabs, channel : Channels, who : Bridges]
    /\ rate \in [Keys -> [stamps : SUBSET Stamps, inFlight : BOOLEAN]]
    /\ pubs \in [Names -> SUBSET Stamps]
    /\ job \in [Requests -> [by : Bridges \cup {Form(k) : k \in Forms} \cup {Nobody},
                             kind : {"none", "theme", "data", "state", "prompt"}, at : Steps,
                             timer : BOOLEAN, told : Seq(Answers)]]
    /\ heard \in [Frames -> SUBSET [tab : Tabs, channel : Channels]]
    /\ sends \in [Keys -> SUBSET Stamps]
    /\ shouts \in [Names -> SUBSET Stamps]
    /\ freed \in [Keys -> Nat]

-----------------------------------------------------------------------------

\* A request hears at most one answer, whichever of its timer, its await and
\* the teardown of its frame comes first; only a live, unanswered request of
\* the child keeps a timer (handleGetData's settled flag, bridge.dispose).
AnsweredOnce ==
    \A r \in Requests :
        /\ Len(job[r].told) <= 1
        /\ job[r].timer => ~ Disposed(job[r].by) /\ job[r].told = <<>>

\* The bus holds a subscription exactly for every channel a bridge on the page
\* holds, on the tab of that bridge, so that nothing dangles after a teardown
\* and nothing is lost by one; and a child hears what is published on its own
\* tab only, however often its widget was moved to another and back.
NothingDangles ==
    /\ subs = UNION {{Subscription(frame[f].tab, c, Bridge(f)) : c \in frame[f].channels} :
                       f \in {f \in Frames : Mounted(f)}}
    /\ \A f \in Frames : Mounted(f) => \A m \in heard[f] : m.tab = frame[f].tab

Within(stamps, t) == {s \in stamps : t - Window < s.at /\ s.at <= t}

Open(k) == {r \in Requests : job[r].at \in {"asking", "sending"} /\ Key(job[r].by) = k}

\* In no window does a manifest name publish more than its budget, however many
\* frames share the name and however often they are mounted anew. The prompts
\* of a key never leave the budget of a window either and are dispatched one at
\* a time, but for one more of each per dispose that freed the lock while a
\* dispatch was open.
BudgetsHold ==
    /\ \A n \in Names, t \in 0..now : Cardinality(Within(shouts[n], t)) <= PublishMax
    /\ \A k \in Keys :
        /\ \A t \in 0..now : Cardinality(Within(sends[k], t)) <= PromptMax + freed[k]
        /\ Cardinality(Open(k)) <= freed[k] + (IF rate[k].inFlight THEN 1 ELSE 0)

\* What a child may rely on and what it cannot get: one answer and no timer after it;
\* and a frame that left the page leaves nothing behind, and takes nothing with it that
\* its manifest name has used up: neither listeners on the bus nor a fresh budget.
BridgeHonest == AnsweredOnce /\ NothingDangles /\ BudgetsHold

\* What the gate says of itself: ten prompts a minute and one in flight per
\* name, which a remount does not reset (prompt-gate.ts).
BudgetSurvivesRemount ==
    \A k \in Keys :
        /\ \A t \in 0..now : Cardinality(Within(sends[k], t)) <= PromptMax
        /\ Cardinality(Open(k)) <= 1

\* A child that asks for data hears something, unless its frame is taken away:
\* the timeout answers when the server does not.
DataAnswered ==
    \A r \in Requests :
        job[r].kind = "data" /\ job[r].at = "resolving"
            ~> job[r].told # <<>> \/ (job[r].kind = "data" /\ Disposed(job[r].by))
=============================================================================
