------------------------------- MODULE Presence ------------------------------
(***************************************************************************)
(* Who is looking at which tab: the pages of several operators, each with   *)
(* its tab strip, its poll timer and its record of the others' pings        *)
(* (host/src/presence.ts, the view's renderTabStrip and renderBoardstateView)*)
(* and the server's handler of dashboard.presence.ping.                     *)
(*                                                                         *)
(* Nothing in the repository calls recordPresence: the page that embeds the *)
(* view is taken to feed it every boardstate.presence event, and it may or  *)
(* may not render then.  Loads of the document are at once (ClientSync has  *)
(* them in full).  The clock counts units of 15 s.                          *)
(***************************************************************************)
EXTENDS Integers, Sequences, FiniteSets, SequencesExt

CONSTANTS Pages, Operators,
          OperatorOf,    \* who sits at a page
          Slugs,         \* names of tabs
          Boards,        \* the documents that edits lead to: sequences of tabs, in tab order
          NoOperator, NoTab,
          TTL,           \* DASHBOARD_PRESENCE_TTL_MS
          PollInterval,  \* DASHBOARD_POLL_INTERVAL_MS
          MaxClock, MaxMoves  \* bounds

ASSUME PresenceAssumption ==
    /\ OperatorOf \in [Pages -> Operators]
    /\ TTL \in Nat \ {0} /\ PollInterval \in Nat \ {0}
    /\ NoOperator \notin Operators /\ NoTab \notin Slugs

Tab == [slug : Slugs, hidden : BOOLEAN, by : {"user", "agent"}]

ASSUME BoardsAssumption == Boards \subseteq Seq(Tab)

VARIABLES board,   \* the document of the server
          page,    \* per page: what it keeps
          pings,   \* per page: the requests on their way to the server, in order
          viewed,  \* per operator and tab: when the server last said so (history)
          now,
          moves    \* actions of users so far (bound)

presenceVars == <<board, page, pings, viewed, now, moves>>

NoTimer == -1
Never == -1
Entry == [slug : Slugs \cup {NoTab}, at : Nat]
NoEntry == [slug |-> NoTab, at |-> 0]
NoEntries == [o \in Operators |-> NoEntry]

-----------------------------------------------------------------------------
(***************************************************************************)
(* The tab strip                                                           *)
(***************************************************************************)
IsSlug(b, s) == \E i \in DOMAIN b : b[i].slug = s
VisibleTabs(b) == {t \in Range(b) : ~t.hidden}
HiddenTabs(b) == {t \in Range(b) : t.hidden}
FirstVisible(b) ==
    b[CHOOSE i \in DOMAIN b : ~b[i].hidden /\ \A j \in DOMAIN b : j < i => b[j].hidden]

\* (mutant) A tab that is gone stays the active one.
ActiveSlugKept(b, requested) ==
    IF requested # NoTab THEN requested
    ELSE IF VisibleTabs(b) # {} THEN FirstVisible(b).slug
    ELSE IF b # << >> THEN b[1].slug ELSE NoTab

\* resolveActiveSlug: the requested tab if there is one, hidden or not.
ActiveSlug(b, requested) ==
    IF IsSlug(b, requested) THEN requested
    ELSE IF VisibleTabs(b) # {} THEN FirstVisible(b).slug
    ELSE IF b # << >> THEN b[1].slug ELSE NoTab

\* The strip is grouped by who made the tabs if that is more than one.
Groups(b) == {t.by : t \in VisibleTabs(b)}
Grouped(b) == Cardinality(Groups(b)) > 1
Buttons(b, folded) ==
    {t \in VisibleTabs(b) : Grouped(b) => t.by \notin folded}

-----------------------------------------------------------------------------
(***************************************************************************)
(* The record of pings                                                     *)
(***************************************************************************)
Pruned(entries) ==
    [o \in Operators |-> IF entries[o].at + TTL <= now THEN NoEntry ELSE entries[o]]

\* (mutant) Nothing goes stale.
ViewersUnpruned(r, s) == {o \in Operators : r.entries[o].slug = s /\ o # r.self}

\* presenceForTab
Viewers(r, s) == {o \in Operators : Pruned(r.entries)[o].slug = s /\ o # r.self}

\* recordPresence: the first ping of the tab this page announced is taken for its own.
Recorded(r, o, s) ==
    LET own == r.self = NoOperator /\ r.awaiting = s
    IN  [r EXCEPT !.self = IF own THEN o ELSE @,
                  !.awaiting = IF own THEN NoTab ELSE @,
                  !.entries = [Pruned(@) EXCEPT ![o] = [slug |-> s, at |-> now]]]

\* pingPresence
Pinged(r) == IF r.self = NoOperator THEN [r EXCEPT !.awaiting = r.active] ELSE r

\* A page that has loaded the document and is connected, before its first rendering.
NewPage(b) ==
    [doc |-> b, in |-> TRUE, connected |-> TRUE, foreground |-> TRUE, timer |-> NoTimer,
     active |-> ActiveSlug(b, NoTab), announced |-> NoTab, entries |-> NoEntries, self |-> NoOperator,
     awaiting |-> NoTab, folded |-> {}, screen |-> {}, skipped |-> FALSE]

-----------------------------------------------------------------------------
(***************************************************************************)
(* Rendering (renderBoardstateView)                                        *)
(***************************************************************************)
Announces(r) == r.connected /\ r.active # NoTab /\ r.announced # r.active

Screen(r) == UNION {Viewers(r, t.slug) \X {t.slug} : t \in Buttons(r.doc, r.folded)}

\* The timer runs while the page is connected, a new tab in view is announced, and the
\* strip shows who looks at its tabs.
Rendered(r) ==
    LET a == IF Announces(r) THEN Pinged([r EXCEPT !.announced = r.active]) ELSE r
    IN  [a EXCEPT !.timer = CASE ~r.connected -> NoTimer
                              [] r.connected /\ @ = NoTimer -> now + PollInterval
                              [] OTHER -> @,
                  !.entries = Pruned(@),
                  !.screen = Screen(a),
                  !.skipped = FALSE]

Sent(p, r) == IF Announces(r) THEN Append(pings[p], r.active) ELSE pings[p]

\* Page p becomes r and renders.
Renders(p, r) ==
    /\ page' = [page EXCEPT ![p] = Rendered(r)]
    /\ pings' = [pings EXCEPT ![p] = Sent(p, r)]

PresenceInit ==
    /\ board \in Boards
    /\ now = 0
    /\ moves = 0
    /\ page = [p \in Pages |-> NewPage(board)]
    /\ pings = [p \in Pages |-> << >>]
    /\ viewed = [o \in Operators |-> [s \in Slugs |-> Never]]

-----------------------------------------------------------------------------
(***************************************************************************)
(* Users and edits                                                         *)
(***************************************************************************)
Moves == moves < MaxMoves /\ moves' = moves + 1
Elsewhere == UNCHANGED <<board, viewed, now>>

\* A page without its timer renders: the first time, or for any reason after it was put
\* back.
FirstRender(p) ==
    /\ page[p].in /\ page[p].timer = NoTimer /\ page[p].connected
    /\ Renders(p, page[p])
    /\ Elsewhere /\ UNCHANGED moves

\* selectTab, from the strip or from the menu of hidden tabs.
Select(p, s) ==
    /\ Moves
    /\ page[p].in
    /\ s \in {t.slug : t \in Buttons(page[p].doc, page[p].folded) \cup HiddenTabs(page[p].doc)}
    /\ Renders(p, [page[p] EXCEPT !.active = ActiveSlug(page[p].doc, s)])
    /\ Elsewhere

ToggleGroup(p, g) ==
    /\ Moves
    /\ page[p].in
    /\ Grouped(page[p].doc) /\ g \in Groups(page[p].doc)
    /\ Renders(p, [page[p] EXCEPT !.folded =
                    IF g \in @ THEN @ \ {g} ELSE @ \cup {g}])
    /\ Elsewhere

\* The browser's tab goes to the back or to the front; nothing is rendered.
Switch(p) ==
    /\ Moves
    /\ page[p].in
    /\ page' = [page EXCEPT ![p].foreground = ~@]
    /\ UNCHANGED pings /\ Elsewhere

\* The transport is lost with what was on its way, or there again.
Relink(p) ==
    /\ Moves
    /\ page[p].in
    /\ LET r == [page[p] EXCEPT !.connected = ~@]
       IN  /\ page' = [page EXCEPT ![p] = Rendered(r)]
           /\ pings' = [pings EXCEPT ![p] = IF r.connected THEN Sent(p, r) ELSE << >>]
    /\ Elsewhere

\* stopDashboard: the element is taken out of its document; presence is cleared, and
\* what the view remembers of it stays.
TakeOut(p) ==
    /\ Moves
    /\ page[p].in
    /\ page' = [page EXCEPT ![p].in = FALSE, ![p].timer = NoTimer, ![p].self = NoOperator,
                            ![p].awaiting = NoTab, ![p].entries = NoEntries]
    /\ UNCHANGED pings /\ Elsewhere

\* It is put back and, with nothing that asks for it, not rendered at first.
PutBack(p) ==
    /\ ~page[p].in
    /\ page' = [page EXCEPT ![p].in = TRUE, ![p].skipped = TRUE]
    /\ UNCHANGED <<pings, moves>> /\ Elsewhere

\* The document changes, and every page that hears of it loads and renders it.
Hears(r) == r.in /\ r.connected /\ r.timer # NoTimer
Edit(b) ==
    /\ Moves
    /\ b # board
    /\ board' = b
    /\ LET after(r) == [r EXCEPT !.doc = b, !.active = ActiveSlug(b, @)]
       IN  /\ page' = [p \in Pages |-> IF Hears(page[p]) THEN Rendered(after(page[p]))
                                      ELSE page[p]]
           /\ pings' = [p \in Pages |-> IF Hears(page[p]) THEN Sent(p, after(page[p]))
                                       ELSE pings[p]]
    /\ UNCHANGED <<viewed, now>>

-----------------------------------------------------------------------------
(***************************************************************************)
(* Pings and the clock                                                     *)
(***************************************************************************)
\* dashboard.presence.ping: the server tells every page; the embedding page renders then
\* or leaves it to the next occasion.
Answer(p) ==
    /\ pings[p] # << >>
    /\ LET o == OperatorOf[p]  s == Head(pings[p])
       IN  /\ viewed' = [viewed EXCEPT ![o][s] = now]
           /\ \E rendering \in BOOLEAN :
                page' = [q \in Pages |->
                    IF ~(page[q].in /\ page[q].connected) THEN page[q]
                    ELSE IF rendering /\ Hears(page[q]) /\ ~Announces(page[q])
                         THEN Rendered(Recorded(page[q], o, s))
                         ELSE Recorded(page[q], o, s)]
    /\ pings' = [pings EXCEPT ![p] = Tail(@)]
    /\ UNCHANGED <<board, now, moves>>

\* (mutant) A tick refreshes the data and renders nothing.
TickedSilently(r) == [Pinged(r) EXCEPT !.timer = now + PollInterval]

\* One tick of the poll timer, in the foreground: heartbeat and rendering.
Ticked(r) == Rendered([Pinged(r) EXCEPT !.timer = now + PollInterval])

Tick(p) ==
    /\ page[p].timer = now
    /\ IF page[p].foreground
       THEN /\ page' = [page EXCEPT ![p] = Ticked(@)]
            /\ pings' = [pings EXCEPT ![p] =
                 IF page[p].active # NoTab THEN Append(@, page[p].active) ELSE @]
       ELSE /\ page' = [page EXCEPT ![p].timer = now + PollInterval, ![p].skipped = TRUE]
            /\ UNCHANGED pings
    /\ Elsewhere /\ UNCHANGED moves

\* Pings take less than a unit; a timer that is due fires.
Advance15s ==
    /\ now < MaxClock
    /\ \A p \in Pages : pings[p] = << >> /\ page[p].timer # now
    /\ now' = now + 1
    /\ UNCHANGED <<board, page, pings, viewed, moves>>

PresenceNext ==
    \/ Advance15s
    \/ \E b \in Boards : Edit(b)
    \/ \E p \in Pages :
         \/ FirstRender(p) \/ Switch(p) \/ Relink(p) \/ TakeOut(p) \/ PutBack(p)
         \/ Answer(p) \/ Tick(p)
         \/ \E s \in Slugs : Select(p, s)
         \/ \E g \in {"user", "agent"} : ToggleGroup(p, g)

PresenceSpec == PresenceInit /\ [][PresenceNext]_presenceVars

-----------------------------------------------------------------------------
(***************************************************************************)
(* Properties                                                              *)
(***************************************************************************)
\* A page in front of its operator that missed no tick shows nobody at a tab longer than
\* one TTL and one poll after that operator last said so: no broadcast tells that
\* somebody left, only pruning at a rendering does, and only a tick renders.
GhostsFade ==
    \A p \in Pages : Hears(page[p]) /\ ~page[p].skipped =>
        \A v \in page[p].screen :
            /\ viewed[v[1]][v[2]] # Never
            /\ now < viewed[v[1]][v[2]] + TTL + PollInterval

\* Nobody is shown at two tabs at once.
OnePlaceEach ==
    \A p \in Pages : \A u, v \in page[p].screen : u[1] = v[1] => u = v

\* A page that hears of the document's changes has a tab of its document in view, whatever
\* tabs go, and has announced it.
InView ==
    \A p \in Pages : Hears(page[p]) =>
        /\ page[p].doc # << >> => IsSlug(page[p].doc, page[p].active)
        /\ page[p].active # NoTab => page[p].announced = page[p].active

PresenceTrue == GhostsFade /\ OnePlaceEach /\ InView

\* presence.ts:50: the first echo "is remembered as `self` so the operator is never shown
\* as "viewing" their own tab": whoever a page takes itself for, it does not show the one
\* who sits at it among the viewers of the tab in view.
NeverViewsSelf ==
    \A p \in Pages : page[p].self # NoOperator =>
        OperatorOf[p] \notin Viewers(page[p], page[p].active)
=============================================================================
