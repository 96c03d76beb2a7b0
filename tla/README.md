# Boardstate: TLA+ models and proofs

This directory models the parts of Boardstate where order, concurrency and
failure decide whether the program is right: the workspace store and its undo
ring, the operator's grants, the engine that parks and executes tool calls, the
agent's turns, the transport, and what a page holds of answers that come late.
The code under `packages/` is the reference; each definition names the lines it
models in `PROJECT.json` (`map`).

Check a run with `tlc -config X.cfg M` (module and properties of every
configuration are in `PROJECT.json`, `runs`), a proof with `tlapm M.tla`.

## The system

| component | state it keeps | operations | what is hard | what makes it correct |
|---|---|---|---|---|
| Workspace store (`core/src/store.ts`) | `workspace.json`, the `undo/` ring, a promise chain | `read`, `mutate`, `replaceSanitized`, `undo`, history | an external `read` writes back outside the chain; crashes between two file operations; versions reused after undo | exclusive read-modify-write; a bounded stack of replaced documents |
| Approval and grants (`store.ts`, `server/src/rpc.ts`, `lit/src/renderers/approvals.ts`) | two registries in the document; boxes of the queue | approve, revoke, request, replace, TTL sweep | stale replaces, undo of revokes, lapsing leases, rows that change place | no authority an operator did not give |
| Pending actions (`server/src/broker-actions.ts`) | parked actions, waiters, timers (memory only) | invoke, confirm, deny, expire, wait | the gate awaits twice on state others change | one execution under authority that existed; waiters hear the truth |
| Document RPCs (`server/src/rpc.ts`, `tools.ts`) | none | tabs, widgets, exports, imports, widget state | stale slugs and ids, private tabs | the document stays well formed |
| Agent tools (`server/src/broker-agent-tools.ts`) | a cache of granted tools | refresh, execute, search | refreshes that finish out of order | the cache offers what is granted |
| MCP broker (`broker/src/broker.ts`) | a client per connector | connect with backoff, call, close | close and reconnect in flight | one live client, nobody left waiting |
| Chat and runner (`server/src/chat.ts`, `agent/src`) | running turns, saved history, event ring | send, abort, retries, tools, review, wakes | aborts between awaits, cut tool calls, budgets | ordered events, one turn-end, paired history |
| WebSocket transport (`server/src/ws-transport.ts`, `core/src/adapters/transport-ws.ts`) | requests in flight, listeners, bytes | request, event, close | drops with requests in flight; frames in pieces | each call settles once, with its own answer |
| Event bus, stream connectors (`core/src/bus.ts`, `server/src/connector.ts`) | listeners, grant checks in flight | install, tick, read, publish | a check awaited before the broadcast | only approved shapes are served |
| Widget installation (`server/src/install.ts`, `scaffold.ts`, `serve.ts`) | widget directories, registry | install, scaffold, decide, serve | crash between files and entry; two installers | a registered name has its whole code |
| Browser client (`host/src/store.ts`) | the shown document | load, changed event, optimistic change, undo | answers out of order, versions that go back | the page comes back to the server's document |
| Widget host (`host/src/bridge.ts`, `prompt-gate.ts`, `bindings-cache.ts`) | requests, budgets, cache | data, prompt, publish, dispose | disposal against timers and answers | one answer each, budgets hold, cache is honest |
| Presence (`host/src/presence.ts`) | pings seen | announce, record, expire | echoes, two operators on one tab | who is shown is there |
| User interface (`lit/src`) | notes, buttons, queue, gallery, history panel, chat widget | render, mount, remount | lit's ref callbacks, elements reused by place | late answers change only what they are about |

RPC handlers, agent tools, CLI and timers reach the store through `mutate`,
`replaceSanitized`, `undo` and `read`. The engine reads grants from the store's
document and writes re-pends back through `mutate`; `rpc.ts` asks the engine for
the hash of a partial grant. A commit is announced as `boardstate.changed`, on
which clients refetch and agents refresh their tools. The broker is called by
the engine and the agent tools. Settled actions wake the agent through chat.

`PROJECT.json` lists every component, modelled or not, and every hazard at its
line.

## Modules

| module | models | abstraction |
|---|---|---|
| `Workspace`, `Store` | the document's pure functions; `DashboardStore`, one action per storage call | tabs and widgets are one `body`; a snapshot's name is a number ordered as its padded string is (`NameLess`) |
| `UndoStack` | what the store promises: a document and a bounded stack | no files, no lock |
| `PendingActions` | `createBrokerActions` | one connector; a manifest is its version, standing for the hash of any of its tools |
| `BrokerPool`, `GrantedTools` | the broker's clients; the agent's tool cache and searches over them | a tool is its presence and its `readOnly` hint |
| `Board`, `Grid` | tab and widget handlers, validator, visibility, exports, drags; grid geometry | requests carry any slug and id; titles and props left out |
| `Install`, `Streams` | one widget name's directory, entry and route; one connector | two files per bundle; a shape is a name |
| `Calls`, `Wire` | what callers rely on of a transport; sockets, frames, pending tables, teardown | a frame is what the codec decoded |
| `Frames` | the byte stream of one socket cut into frames, messages, requests | lengths are small, the header's three forms kept |
| `ChatTurns` | `chat.send`, `chat.abort`, the runner's loop, tools, retries, review, saved history, a widget that mounts meanwhile | an event is its type and call; a message its author and how many calls it makes |
| `ModelStream`, `AgentLimits` | the provider adapters' parsing; budgets, ceilings, wakes | fragments are numbers; sizes are token estimates |
| `ClientSync` | browser clients against `UndoStack` | a commit is its version and a number; an optimistic change is a layer over a loaded document |
| `Bridge`, `Bindings`, `NotesPad` | frames and their budgets; binding cache and streams; widget state and its editor | contents of messages left out |
| `ActionButton`, `ApprovalCard`, `ChatFace`, `Gallery`, `History`, `Presence` | the parts of the page with state of their own | markup left out |
| `MCBoard`, `MCClients`, `MCDesk`, `MCPage`, `MCPanels`, `MCServer`, `MCClientSync`, `MCApprovals`, `MCPresence`, `MCGrantedTools`, `MCPendingActions`, `MCStore` | constants for TLC and the composition of parts into one run | |
| `StoreProofs`, `RequestProofs`, `AgentProofs`, `PageProofs`, `DeskProofs`, `WireProofs`, `PanelProofs`, `ChatProofs` | theorems | |

Correspondence worth knowing when reading:

* An action is what runs between two awaits, since JavaScript interleaves nothing
  else. `pc`, `at` and `stage` fields name the await somebody is in.
* `Store.queue` is the promise chain: its head runs; `Settle` is both outcomes of
  `next.then(ok, err)`. `ReadStart` and `ReadWrite` are a `read()` from outside
  the chain. `IOFail` lets any storage call throw, `Crash` empties memory.
* `PendingActions.Refuse` is every way a call ends in an error; a confirm is a
  call that carries the `action` it claimed. `decisions`, `authorised`,
  `approved`, `fresh`, `typed`, `told`, `past` are history variables.
* `ClientSync.wire[c]` is one ordered stream of frames; slow handlers hold the
  document they read (`held`). Equality of views is JavaScript identity: a slot
  has one operation at a time and adds its name to the layers.
* `ChatTurns.stream` is everything that passed the server's sink, of all turns;
  `Heard` derives what a widget knows from when it subscribed and when the ring
  was read for it. `Finish` is the end of a run together with what the agent
  makes of it: the review, or the saved history.
* In `ChatFace`, `ActionButton` and `NotesPad` a *controller* or element outlives
  what is on the screen; lit calls the old ref callback with nothing before the
  new one, and both again when the host element moves.

Definitions marked `(mutant)` are plausible bugs. Nothing uses them but
`PROJECT.json` (`mutants`), where each replaces a definition and makes the named
property fail.

## Runs

| run | configuration | what it checks |
|---|---|---|
| server | `MCServer` | `OperatorAuthority`: no document or snapshot has authority no operator gave. `FramesWhole`: requests are dispatched exactly as they arrived whole, up to the first refused byte. `AgentBounded`: definitions, history and turns keep their budgets, each settlement wakes once |
| pending_once | `MCPendingOnce` | `ExecutionGated`, `SettlesOnce`, `ToldTruly`, `WaitersHear` |
| connectors | `MCGrantedTools` | `OneLiveClient`, `NobodyStranded`, `GrantsRespected` |
| board | `MCBoard` | `BoardsSound`, `OptimisticAgrees`, `DropsFit` of the board; `InOrder`, `HistoryPaired`, `ShowsTruth`, `EndedStartsNothing`, `TurnsEnd` of a turn |
| clients | `MCClients` | `NeverBehind`, `Converges` of the shown document; `PresenceTrue` |
| page | `MCPage` | `BridgeHonest`, `DataAnswered`; `EditsKept`, `EditsLand`; `CacheHonest` |
| desk | `MCDesk` | `ImplementsCalls`, `EventsMirrored`; `InstallsWhole`; `ShapeApproved`; `ButtonTellsTruth`, `ButtonSettles`; `ImplementsUndoStack`, `EveryCallSettles` |
| panels | `MCPanels` | `NoLeftovers`, `HistoryTruthful`, `GalleryHonest`, `ModelStreamTrue`, `GrantsOnlyTicked`, `OneConversation` |
| store_race, client_undo, approvals, presence | `MCStoreRace`, `MCClientUndo`, `MCApprovals`, `MCPresence` | one statement of the repository each, which the code violates (below) |

`MCServer`, `MCBoard`, `MCClients`, `MCDesk`, `MCPage` and `MCPanels` hold
several parts in one state. The parts share no variable that one writes and another
reads, so the first step of a behaviour chooses the part (`focus`) and only that
one moves: every behaviour of a part is there, only the products of independent
steps are not. The proofs are about the parts' own specifications.

**Bounds, and why they are enough.** Races are between one operation and one
other: two callers give every overlap of a locked operation with a queued one or
an external read; two confirms of one action every race over it; two frames, pads,
bundles, clients, pages or operators every case of "the other one". What further
clients do to the server is what `OtherCommit` and `OtherUndo` do. A ring of 2
shows filling, trimming and undo past a trim. `StopVersion`, `MaxClock`,
`MaxCommits`, `MaxDrops`, `MaxDrift`, `MaxMounts`, `MaxTries` and the like stop
new events, never an operation in progress; each leaves room for one event more
than its hazard needs (a drift between approval and gate; a lost connection and
its reconnect; a remount after a remount with a send of the first outstanding).
A turn has two attempts, two iterations, two blocks and a ring of three events,
shorter than a turn, so that history and live events overlap or miss each other.
Rolling windows are of one time unit with budgets of one prompt and two
publishes, so budgets fill, are refused and free again. Headers switch form at
lengths 2 and 5 with a cap of 6, so frames of each form are under and over it.
Symmetry is used on interchangeable callers, tools and actions in a run of invariants only
(`MCServer`). Where a proof exists, it is for every value of the bounds.

**Fairness.** All of it is the event loop's (a continuation that is ready runs) and
that of named timers; users, operators, agents, failures and lost connections
have none.

* Store: `WF(Progress(c))`, a started storage call ends.
* Pending actions: `WF(Progress(k))`, the broker puts a hard timeout on a tool
  call; `WF(Expire(a))`, the expiry timer of an action.
* Chat: `WF(Advance(t))`: the provider, a tool, a backoff or the memory's read
  ends, well or badly. Texts and further calls of a provider are free.
* Clients: `WF` of `Announce`, `Forget`, `Read`, `AnswerLate`, `Handle`
  (the server ends what it began) and `Deliver` (frames arrive).
* Transport: `WF(Carry)`, `WF(Handle)`, `WF(Reply)`, and `WF(Teardown)` once the
  socket ended. `ImplementsCalls` includes that every call settles.
* Page: `WF(TimeOut(r))`, `WF(Save)`, `WF(WriteState)`: timers fire, a file is
  written. Button: `WF(ReceiveMessage)`.

## What the checks found

Four statements of documents or comments do not hold, each with a run:

* An external `read()` that sweeps or seeds writes without the lock and can undo
  a commit (`ReadsKeepCommits`; `store.ts:329` against the comment at 531).
* Undo lowers the version, so other clients ignore its broadcast and keep showing
  what was undone (`ReconciledOnUndo`; `host/src/store.ts:193` against SPEC 5).
  `NeverBehind` and `Converges` say what holds instead.
* Boxes of the approval queue belong to a place, not to a row: a granted row can
  show a tool it has as unticked, and saving drops it (`GrantedRowsTicked`;
  `approvals.ts:117` against 110). `GrantsOnlyTicked` holds: nothing is granted
  that was not ticked.
* A page can take another operator's first ping for its own echo, and then shows
  its own operator as a viewer for good (`NeverViewsSelf`; `presence.ts:59`
  against 48-50).

Met while modelling, without a run. The model follows the code in each; where a
property would fail because of one, its definition or the constant named says so.

* Store and grants: snapshot names sort wrongly from version 10000 on
  (`store.ts:568`; the run stays below `PadLimit`). A call past the grant check
  still executes after a revoke (`broker-actions.ts:481` against SPEC 17;
  `ExecutionGated` asks for permission at some instant of the call). A queued
  re-pend demotes a grant re-approved meanwhile (`broker-actions.ts:489`,
  fail-safe). A connector is served under the grant of another shape after an undo
  or while its request is unfinished (`connector.ts:133-136`; the two excuses of
  `ShapeApproved`). A widget named before it is installed, approved, dropped,
  installed and undone twice is served unapproved code (the excuse in
  `InstallsWhole`). A scaffold that fails leaves its directory. After a failed or
  late refresh the granted-tools cache stays stale until the next announcement.
* Clients: with answers out of order an older document replaces a newer one for
  good (`host/src/store.ts:158`; `NeverBehind` is for `SlowReads = FALSE`). With two
  optimistic changes in flight that both fail, the second reverts to the first's
  (`:326`; `NoLeftovers` has one slot). A hidden widget returns after a refetch
  (`queries.ts:95`), `resolveActiveSlug` keeps hidden tabs against its comment
  (`queries.ts:345-347`), and "nearest slot" is the first from the top (`grid.ts:193`).
* Chat: a provider that stops for another reason with calls ready leaves calls
  without results in the saved history (`runner.ts:400-409`; `HistoryPaired` is
  for `CutCalls = FALSE`). Overlapping turns overwrite each other's saved
  history. Calls of a failed attempt shimmer for ever (`chat.ts:88`). After a rejoin the
  controllers' map stays empty, so every later render replaces the controller; a
  late `finally` of an older mount clears a newer send's flag; a failed send
  loses the typed text. An id the OpenAI adapter makes up is not tested against
  ids in use (`openai-compat.ts:153`; excluded by `GivenIds`), an Anthropic call
  without its block's stop is lost, and one with cut arguments runs with `{}`.
  Wakes overlap with the wiring the comment suggests (`action-wake.ts:8`, `:34`)
  and also happen for actions whose agent still waits. A stub larger than its
  definition makes "nothing more can be shed" untrue (`tool-budget.ts:56`).
* Page: the prompt budget is kept by name after a dispose (`bridge.ts:657` against
  `prompt-gate.ts:18-26`). Notes are bound to another widget's state when two tabs
  have notes in one position and the tab changes (`boardstate-view.ts:956-960`).
  An action button's phase is lost on a re-render after a rejoin, and stays
  "pending" after a transport was replaced (`action-button.ts:17-20`, `:102`).
  The gallery hides `state:persist` (`core/gallery.ts:96-103` against
  `boardstate-view.ts:2392-2393`). Saving a granted row widens an agent-scoped
  grant and makes a lease permanent; a data-only row grants everything asked again.
  A stream widget loses its last value at every change of the document. The
  history panel's cache is by version, and versions are used again after an undo;
  `HistoryTruthful` excuses those.
* Presence: a ping lives 30 s and the page polls every 45 s
  (`boardstate-view.ts:1684` against `presence.ts:11`); nothing announces again on reconnect until
  the next tick; nothing in the repository calls `recordPresence`.
* Transport: frames after a refused one in the same chunk are still handled; the
  opcode of a fragmented message is kept and never tested.
* Outside the modelled parts: the MCP Apps board's poll never tells its listeners
  (`board-app-client.ts:82-84`, `:110` against 66-68); a served page does not
  refetch after a reconnect; the review rule `tab-source-named` tests the slug
  and stays after a rename (`review.ts:184-198`).

## Proofs

All theorems hold for every value of the constants, under the named assumptions
of the modules: sentinels differ from values, bounds are numbers, functions have
their types. None restricts what the code may do, but for the hypotheses
named below. What a theorem states was first checked by TLC on a small instance.

**`StoreProofs`.** `TypeCorrect` includes which documents a caller holds at each
step. `LockCorrect`: the queue has no duplicates and its members are exactly the
callers inside or waiting. `AuthorityCorrect` strengthens `OperatorAuthority` to the
documents callers hold, those they loaded and those they are about to write;
decisions only grow, sweeps and reconcile add no authority.
`StackImplemented` is the refinement of `UndoStack`, step by step, under `Seeded`,
`Expiries = {}` and `[]NamesSort` (the snapshot names in the ring stay below
`PadLimit`). `StackInv` says that the files up to the document's version are
numbered without a gap and no more than the ring may hold, that a file above it
holds the document itself, and what the lock holder has read and made room for. A
snapshot is invisible until its commit; an eviction forgets the oldest entry of a full
stack or nothing; the write of an undo pops, or, if a crash or failure left the
restored snapshot in the ring, writes what is there. The hypotheses are needed: a
sweep bumps the version without a snapshot, and names from 10000 on sort wrongly.
`HistoryTellsTruth` has `HistInv`: whatever is in a page's sight (listed, asked
for, cached, on its way) is what was stored under its version, unless that
version was undone and used again; snapshots are numbered in one row up to the
document, so a restore that undoes while its version is still on top
brings back what it showed. That rows count every change once is a bijection
between the changes and the counted things (`DiffIsGroups`, `SummaryAddsUp`).

**`RequestProofs`.** `SingleShotCorrect` adds `Claims` (a call that carries
an action has it claimed, alone, and has not called its tool before). `GateCorrect`
adds `Noted` (what permits a call now is in `authorised`), `Past` (no hash is
from the future, so a manifest that still has the hash read earlier had it then
too) and `Carried`. `ToldCorrect` adds `Ran` (a call at its tool has run its action)
and `Awaits` (who was told something, or waits, awaits an action that was parked): an
answer is written in the step that settles its action, and settled is final.
The board: `BoardInv` says that the stored document and the downloaded file are
valid, and that a gesture holds rectangles of the board. Every draft a handler makes
of a sound document is `Sound`: ids stay unique where a widget is fitted in or moved,
and the tabs an operator is served are an injective part of the tabs. A prediction
equals what is served after the write, since leaving out other people's tabs does not
change the place where either side works (`PredictionsAgree`). A drop fits since its
scan ends: the row below everything is free, and the nearest free one is found
by well-foundedness (`DropsAlwaysFit`).

**`AgentProofs`.** `PoolInv`: a warm client is open, a client that is being
tried belongs to one connect, a connecting promise is a connect to that
connector, users wait for one exactly while they are connecting, and until
`close()` a connector has one connect or one warm client. `GrantInv` adds that
nothing is offered that was not granted, by the document, by none that a refresh
still holds, in the cache or to a call, and that a refresh of the newest commit
holds the newest document. For any number of connectors, though the run has one.
`StreamInv` follows one answer through either adapter: calls are begun one after
another under ids of their own, a call's arguments are the fragments that came for it,
one that is ready has its start before it and nothing after it, and a reason to stop
other than the length is given when no call is in the middle (`StreamToldTruly`).
`LimitsInv` says that what a turn and the saved history hold was fitted: the
last used first, nothing emptied but results from the oldest on; and that the wakes
begun and those to come are, in order, the settlements (`AgentIsBounded`).

**`PageProofs`.** `BindInv`: a loading widget has a request under way, what another
key asked for belongs to a straddled widget, listeners are exactly the
subscriptions, and these are of the document of the cache. `PadInv`: timers are
armed one after the other, and the last thing under way for a widget's state, a
timer or else a save, is the last text typed for it; with nothing under way the
file has it, unless a save was refused. `BridgeInv`: only what waits for data has
a timer, the page's windows remember what happened in them, and an open prompt has
its place in the budget, but for one per lock that a dispose freed.

**`DeskProofs`.** `InstallInv`: one installation at a time is at work in a name's
directory, and whoever may read a file reads one of an installation that registered
the name, or that was on disk when it was named. `StreamInv`: once its request is
committed, and unless it was undone, the grant a running connector reads is of its
own shape, and so is what a tick found there. `ButtonInv`: phases and messages are
true of the actions they are about, and stay so, since what became of an action is
final.

**`WireProofs`.** `WireInv` follows one call by client and id: queued, handled,
answered, settled; a call still under way to its handler was not carried out
and has no answer anywhere. It gives `EventsMirroredHolds`. `ImplementsPromise` is
the refinement of `Calls`' safety part, step by step: each step of the wire is a
step of the promise or a stutter. That calls settle (`Calls`' liveness)
is the run's. `FramesInv` follows the bytes of one socket: those of the
frames taken plus those buffered have arrived; up to the first refused frame, what
was dispatched, the fragments kept and their size are those of the script's
messages that ended and of the one under way; between two chunks nothing is left to
decode; each message seen ended before the head of the buffer, so the next is a new one
and has its one answer (`FramesStayWhole`). That the loop stops within the frames
it has, and that a message's members in order are the frames pushed one by one, are
inductions over a number, by a least counterexample (`LeastOf`).

**`PanelProofs`.** The shown document: `TypeCorrect` has `Layering` (an optimistic
change lies on the view it would go back to). `NeverBehindCorrect`, under
`SlowReads = FALSE`, has `BehindInv`: each document on a wire that is older than
the server's has the announcement of the current version behind it, a shown
older one has it to come, or a request, an answer or an error card; the last
commit to be announced is the current version, however often undo took versions
back. `NoLeftoversHolds` has `LeftoverInv` and `OfflineInv`: an operation is answered
once, what lies on a shown document is the change in flight, and whatever else
was laid there goes, since a document, or news of a version above the one it lies
on, is on its way. Its two assumptions are needed: with two operations in flight,
or with an undo, a layer can stay (the hazards of the client).
`GrantsOnlyTickedHolds`: a decision carries the tools that were ticked when it was
taken, whatever the rows and boxes do (their contents are nowhere used), and
the host gives no other. `PresenceTrueHolds` has `PresenceInv`: a timer is due within
one poll, a record is no later than what the server said, and whoever is on a
screen whose timer runs was seen less than one lifetime and one poll before it is
due. The gallery: `GalleryInv` says that only the open dialog begins requests,
one at a time, that a dialog is never opened twice, and that what it installs or
asks for it had read and checked. The chat widget: `FaceInv` says which controller
has a subscription to give up (`HandlesTrue`), that a send the server took knows the
turn it began, that nothing is told of a turn that has not begun, and that a controller
that mounted once heard the end of every turn it heard the start of, and will have
heard all that was ever said with the history it waits for (`HeardWell`). The turn
a Stop button is about is the least of a set, found by well-foundedness (`NatMin`).

**`ChatProofs`.** `ChatInv` has, of the stream, that it is ordered and that every
turn-end is known to the sink (`Ordered`, `EndsKnown`); of each turn, that one that
ended for its readers is done or aborted (`Fate`), that any other has told its
start and every call it got ready (`Announced`), that its writes are in order
(`Orderly`), that nothing that could run waits (`NothingWaits`), and that its
messages are paired but for the calls it works on (`Books`). `OrderedConcat`
is the heart of `InOrderHolds`: it says which events may follow an ordered stream,
and every emission is shown to fit. `HistoryPairedHolds`, under
`CutCalls = FALSE`, needs `NothingWaits`: when nothing runs and nothing may start,
the first unanswered call could have, so all are answered and their results
complete the pairs (`AllSettled`, `WorkEnds`). An abort in the middle of the
tools leaves them incomplete, and that history is the one that is not saved.
`EndedStartsNothingHolds` is an action property of the same invariant.
`ShowsTruthHolds` has `ShowInv`: no result is told before its call got ready; the
calls told of a running turn are behind the place where the turn is, in its passes,
iterations and attempts; an abort goes with its turn's end, and an ended turn has
told its end; the widget subscribed before its history was read, so nothing lies
between the two.

Only model-checked, and why:

* Liveness (`WaitersHear`, `Converges`, `TurnsEnd`, `DataAnswered`, `EditsLand`,
  `ButtonSettles`, `EveryCallSettles`, the settling part of `ImplementsCalls`):
  the provers have no fairness.
* `ImplementsUndoStack` on boards with TTLs or that start without a file is not
  claimed: there it does not hold, since a sweep and the seeding write no snapshot.

Every other property of the passing runs is also a theorem.

## Plan

Next: the ring of a board with TTLs against a stack whose document may also lose
what expired; the rate windows of tool calls.

Not modelled, and why: JSON validation of single fields, parsing, formatting,
rendering, CLI and HTTP wiring (no protocol of their own); ranking of searches,
prompts' wording and board memory (no state); the rate windows of tool calls
(the same windows as `Bridge`'s); the header checks of the HTTP upgrade and the
path jails of the asset route (preconditions); the examples, the conformance kit
and the registry script.
