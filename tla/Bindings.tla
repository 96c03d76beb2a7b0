------------------------------ MODULE Bindings ------------------------------
(***************************************************************************)
(* What the view knows of the data its widgets are bound to. Every render  *)
(* compares the key of the cache, the version of the document mixed with   *)
(* the count of the poll timer, and drops all results when it changed; it  *)
(* then asks the server for each widget of the shown tab that has neither  *)
(* a result nor a load, and keeps one listener per stream binding. Answers *)
(* come back whenever the server has them.                                 *)
(***************************************************************************)
EXTENDS Integers, Sequences, FiniteSets

CONSTANTS
    Bound,        \* the widgets with a binding
    BoardTabs,
    TabOf,        \* the tab each widget is on
    MaxVersion,   \* bound: how often the document changes
    MaxPolls,     \* bound: how often the poll timer fires
    MaxPushes,    \* bound: how many events a stream delivers
    NoValue       \* no key, no version, no event

ASSUME BindingsAssumption ==
    /\ TabOf \in [Bound -> BoardTabs]
    /\ MaxVersion \in Nat /\ MaxPolls \in Nat /\ MaxPushes \in Nat
    /\ NoValue \notin Nat \cup (Nat \X Nat)

VARIABLES
    workspaceVersion,  \* of the document the view holds
    source,            \* per widget: what its primary binding is bound to
    dataVersion,       \* the count of the poll timer
    shown,             \* the tab on the screen
    online,            \* whether the view has a transport
    stale,             \* whether a render was requested
    bindingVersion,    \* the key of the cache
    bindingResults,    \* what each widget shows, with its origin
    bindingLoads,      \* the widgets that are marked as loading
    flights,           \* the requests without an answer yet
    streamSubs,        \* per widget: the document version of its subscription
    listeners,         \* the listeners the transport holds
    streamValues,      \* per widget: the last event of its subscription
    pushes,            \* the events so far
    straddled,         \* history: widgets being asked for as the key changed
    crossed            \* history: stream widgets that got a request's answer

bindVars == <<workspaceVersion, source, dataVersion, shown, online, stale,
              bindingVersion, bindingResults, bindingLoads, flights,
              streamSubs, listeners, streamValues, pushes, straddled, crossed>>
board == <<workspaceVersion, source, dataVersion, shown, online>>
cache == <<bindingVersion, bindingResults, bindingLoads, flights>>
streams == <<streamSubs, listeners, streamValues, pushes>>
bindHistory == <<straddled, crossed>>

\* A widget shows the answer to a request or an event of its stream.
Nothing == [asked |-> NoValue, event |-> NoValue]
Answered(k) == [Nothing EXCEPT !.asked = k]
Streamed(n) == [Nothing EXCEPT !.event = n]

CacheKey == <<workspaceVersion, dataVersion>>

OnTab == {w \in Bound : TabOf[w] = shown}

-----------------------------------------------------------------------------
(* reconcileStreamSubscriptions.                                           *)

Listener(w, v) == [widget |-> w, made |-> v]

Wanted == IF online THEN {w \in OnTab : source[w] = "stream"} ELSE {}

\* A subscription goes with the document version it was made at.
Dropped == {w \in Bound : streamSubs[w] # NoValue
                            /\ (w \notin Wanted \/ streamSubs[w] # workspaceVersion)}

\* Mutant of Unlistened: only what is no longer wanted is unsubscribed.
UnlistenedUnwanted ==
    listeners \ {Listener(w, streamSubs[w]) : w \in Dropped \ Wanted}

Unlistened == listeners \ {Listener(w, streamSubs[w]) : w \in Dropped}

\* Without a transport every subscription goes and the values stay.
Reconcile ==
    /\ streamSubs' = [w \in Bound |-> IF w \in Wanted THEN workspaceVersion ELSE NoValue]
    /\ listeners' = Unlistened \cup {Listener(w, workspaceVersion) : w \in Wanted}
    /\ streamValues' = [w \in Bound |-> IF online /\ w \in Dropped THEN NoValue
                                        ELSE streamValues[w]]

-----------------------------------------------------------------------------
(* ensureBindings, run by every render.                                    *)

\* Mutant of Kept: the results outlive the key they were asked under.
KeptAlways == bindingResults

Kept == IF bindingVersion = CacheKey THEN bindingResults ELSE [w \in Bound |-> Nothing]

Loading == IF bindingVersion = CacheKey THEN bindingLoads ELSE {}

Missing == {w \in OnTab : Kept[w] = Nothing /\ w \notin Loading}

Asked == {w \in Missing : source[w] # "stream"}

Render ==
    /\ stale
    /\ stale' = FALSE
    /\ bindingVersion' = CacheKey
    /\ Reconcile
    /\ bindingResults' =
         [w \in Bound |->
            IF w \in Missing /\ source[w] = "stream" /\ streamValues'[w] # NoValue
            THEN Streamed(streamValues'[w]) ELSE Kept[w]]
    /\ bindingLoads' = Loading \cup Asked
    /\ flights' = flights \cup {[widget |-> w, key |-> CacheKey] : w \in Asked}
    /\ straddled' = IF bindingVersion = CacheKey THEN straddled
                    ELSE {f.widget : f \in flights}
    /\ UNCHANGED <<board, pushes, crossed>>

\* The answer to a request lands in the cache as it is now, whatever the key
\* it was asked under.
ResultArrives(f) ==
    /\ f \in flights
    /\ flights' = flights \ {f}
    /\ bindingResults' = [bindingResults EXCEPT ![f.widget] = Answered(f.key)]
    /\ bindingLoads' = bindingLoads \ {f.widget}
    /\ stale' = TRUE
    /\ crossed' = IF source[f.widget] = "stream" THEN crossed \cup {f.widget} ELSE crossed
    /\ UNCHANGED <<board, bindingVersion, streams, straddled>>

\* An event of the stream reaches every listener the transport holds.
Push(w) ==
    /\ pushes < MaxPushes
    /\ \E l \in listeners : l.widget = w
    /\ pushes' = pushes + 1
    /\ streamValues' = [streamValues EXCEPT ![w] = pushes + 1]
    /\ bindingResults' = [bindingResults EXCEPT ![w] = Streamed(pushes + 1)]
    /\ stale' = TRUE
    /\ UNCHANGED <<board, bindingVersion, bindingLoads, flights, streamSubs, listeners,
                   bindHistory>>

-----------------------------------------------------------------------------
(* What makes the view render again.                                       *)

EditDocument(w, src) ==
    /\ workspaceVersion < MaxVersion
    /\ workspaceVersion' = workspaceVersion + 1
    /\ source' = [source EXCEPT ![w] = src]
    /\ stale' = TRUE
    /\ UNCHANGED <<dataVersion, shown, online, cache, streams, bindHistory>>

PollTick ==
    /\ online /\ dataVersion < MaxPolls
    /\ dataVersion' = dataVersion + 1
    /\ stale' = TRUE
    /\ UNCHANGED <<workspaceVersion, source, shown, online, cache, streams, bindHistory>>

SelectTab(t) ==
    /\ t # shown
    /\ shown' = t
    /\ stale' = TRUE
    /\ UNCHANGED <<workspaceVersion, source, dataVersion, online, cache, streams, bindHistory>>

Connect(up) ==
    /\ online # up
    /\ online' = up
    /\ stale' = TRUE
    /\ UNCHANGED <<workspaceVersion, source, dataVersion, shown, cache, streams, bindHistory>>

\* The element leaves the page, stopBoardstateView, until it is rendered again.
StopView ==
    /\ listeners # {}
    /\ streamSubs' = [w \in Bound |-> NoValue]
    /\ listeners' = listeners \ {Listener(w, streamSubs[w]) : w \in Bound}
    /\ stale' = TRUE
    /\ UNCHANGED <<board, cache, streamValues, pushes, bindHistory>>

-----------------------------------------------------------------------------

BindInit ==
    /\ workspaceVersion = 0 /\ dataVersion = 0
    /\ source \in [Bound -> {"rpc", "stream"}]
    /\ shown \in BoardTabs /\ online = TRUE /\ stale = TRUE
    /\ bindingVersion = NoValue
    /\ bindingResults = [w \in Bound |-> Nothing]
    /\ bindingLoads = {} /\ flights = {}
    /\ streamSubs = [w \in Bound |-> NoValue]
    /\ listeners = {}
    /\ streamValues = [w \in Bound |-> NoValue]
    /\ pushes = 0
    /\ straddled = {} /\ crossed = {}

BindNext ==
    \/ Render
    \/ \E f \in flights : ResultArrives(f)
    \/ \E w \in Bound : Push(w) \/ \E src \in {"rpc", "stream"} : EditDocument(w, src)
    \/ PollTick
    \/ \E t \in BoardTabs : SelectTab(t)
    \/ \E up \in BOOLEAN : Connect(up)
    \/ StopView

BindSpec == BindInit /\ [][BindNext]_bindVars

-----------------------------------------------------------------------------

CacheKeys == (0..MaxVersion) \X (0..MaxPolls)

BindTypeOK ==
    /\ workspaceVersion \in 0..MaxVersion /\ dataVersion \in 0..MaxPolls
    /\ source \in [Bound -> {"rpc", "stream"}]
    /\ shown \in BoardTabs /\ online \in BOOLEAN /\ stale \in BOOLEAN
    /\ bindingVersion \in CacheKeys \cup {NoValue}
    /\ bindingResults \in [Bound -> [asked : CacheKeys \cup {NoValue},
                                     event : 1..MaxPushes \cup {NoValue}]]
    /\ bindingLoads \subseteq Bound
    /\ flights \subseteq [widget : Bound, key : CacheKeys]
    /\ streamSubs \in [Bound -> 0..MaxVersion \cup {NoValue}]
    /\ listeners \subseteq [widget : Bound, made : 0..MaxVersion]
    /\ streamValues \in [Bound -> 1..MaxPushes \cup {NoValue}]
    /\ pushes \in 0..MaxPushes
    /\ straddled \subseteq Bound /\ crossed \subseteq Bound

Awaited(w) == \E f \in flights : f.widget = w

\* A widget that is marked as loading has a request under way, and so has a
\* bound widget of the rendered tab that shows nothing: none waits for an
\* answer nobody will give. And once its answers are in, it shows what was
\* asked under the present version and poll count, unless a request of its own
\* was under way when the key changed: that answer is taken for a new one.
SettlesFresh ==
    /\ \A w \in bindingLoads : Awaited(w)
    /\ ~ stale =>
         \A w \in OnTab :
           source[w] = "rpc" /\ ~ Awaited(w) =>
              /\ bindingResults[w] # Nothing
              /\ w \notin straddled => bindingResults[w] = Answered(CacheKey)

\* The transport holds the listener of each subscription and no other, so that
\* no change of tab, document or connection leaves one behind that goes on
\* writing into the cache; and a poll tick clears the cache but not what a live
\* stream said last, until the answer to an older request covers it.
StreamsKept ==
    /\ listeners = {Listener(w, streamSubs[w]) : w \in {w \in Bound : streamSubs[w] # NoValue}}
    /\ ~ stale =>
         \A w \in OnTab \ crossed :
           source[w] = "stream" /\ streamValues[w] # NoValue
             => bindingResults[w] = Streamed(streamValues[w])

\* The cache of the bindings is honest: nobody waits in vain, nothing of an
\* older document is shown but what straddled the change, and the streams are
\* the ones of the shown tab (ensureBindings, reconcileStreamSubscriptions).
CacheHonest == SettlesFresh /\ StreamsKept

\* What the cache says of itself: a document change or a poll tick invalidates
\* what was resolved before (boardstate-view.ts, bindings-cache.ts).
ShowsPresentKey ==
    ~ stale =>
        \A w \in OnTab :
            source[w] = "rpc" /\ ~ Awaited(w) => bindingResults[w] = Answered(CacheKey)
=============================================================================
