------------------------------- MODULE History -------------------------------
(* Time travel: the history listing of the store (listHistory and            *)
(* getHistorySnapshot over the undo ring), the panel of the page that shows  *)
(* it (open, entries, cached snapshots, selection, the restore button) and   *)
(* the pure diff of core/history-client.ts. Other clients commit and undo    *)
(* while the panel's requests are on their way.                              *)
EXTENDS Naturals, Sequences, FiniteSets, SequencesExt

CONSTANTS
    Layouts,       \* what a document shows: [tabs, widgets], see TypeOK below
    StartLayouts,  \* those of the commits before the page was opened, oldest first
    RingLimit,     \* snapshots the ring holds (UNDO_LIMIT)
    MaxVersions,   \* bound: the highest workspaceVersion
    MaxSaves,      \* bound: commits of the store
    MaxOpens,      \* bound: how often the panel is opened
    HistoryCalls,  \* the panel's requests in flight at once, numbered
    NoLayout

ASSUME HistoryAssumption ==
    /\ HistoryCalls \subseteq Nat
    /\ \A layout \in Layouts :
         IsFiniteSet(DOMAIN layout.tabs) /\ IsFiniteSet(DOMAIN layout.widgets)
    /\ NoLayout \notin Layouts
    /\ StartLayouts \in Seq(Layouts)
    /\ Len(StartLayouts) \in 1..MaxVersions /\ Len(StartLayouts) - 1 <= RingLimit
    /\ RingLimit \in Nat \ {0} /\ MaxVersions \in Nat \ {0} /\ MaxSaves \in Nat /\ MaxOpens \in Nat

VARIABLES
    current,     \* the store's document: [version, layout]
    undoRing,    \* its snapshots, oldest first
    panel,       \* the panel's open, selected, confirm, restoring, and how often it was opened
    entries,     \* the versions listed, newest first, with their summaries
    cached,      \* the snapshot bodies the page loaded, by version
    request,     \* the panel's requests
    rewound,     \* history: versions that an undo gave free to be used again
    saves,       \* history: commits so far
    listedAt,    \* history: the moment the shown list was read
    restored     \* history: what the last confirmed restore showed and brought back

shelf == <<current, undoRing, saves>>
shelfHistory == <<rewound, restored>>
histVars == <<shelf, panel, entries, cached, request, shelfHistory, listedAt>>

Versions == 1..MaxVersions
None == 0

-----------------------------------------------------------------------------
(* The diff of two layouts. *)

Tabs(layout) == DOMAIN layout.tabs
Widgets(layout) == DOMAIN layout.widgets

Moved(a, b, w) ==
    \/ a.widgets[w].tab # b.widgets[w].tab
    \/ a.widgets[w].rect # b.widgets[w].rect

\* What the diff compares: a board on which only creators differ looks the same.
Looks(layout) ==
    [tabs    |-> [t \in Tabs(layout) |-> layout.tabs[t]],
     widgets |-> [w \in Widgets(layout) |->
                    <<layout.widgets[w].tab, layout.widgets[w].rect, layout.widgets[w].title>>]]

Entry(kind, id, actor) == [kind |-> kind, id |-> id, actor |-> actor]

\* The changes that lead from a to b, each with the creator of what it touches.
\* A widget that moved and was retitled counts twice.
Diff(a, b) ==
    {Entry("tab-added", t, "") : t \in Tabs(b) \ Tabs(a)}
      \cup {Entry("tab-removed", t, "") : t \in Tabs(a) \ Tabs(b)}
      \cup {Entry("tab-retitled", t, "") : t \in {u \in Tabs(a) \cap Tabs(b) : a.tabs[u] # b.tabs[u]}}
      \cup {Entry("widget-added", w, b.widgets[w].by) : w \in Widgets(b) \ Widgets(a)}
      \cup {Entry("widget-removed", w, a.widgets[w].by) : w \in Widgets(a) \ Widgets(b)}
      \cup {Entry("widget-moved", w, b.widgets[w].by) :
              w \in {v \in Widgets(a) \cap Widgets(b) : Moved(a, b, v)}}
      \cup {Entry("widget-retitled", w, b.widgets[w].by) :
              w \in {v \in Widgets(a) \cap Widgets(b) : a.widgets[v].title # b.widgets[v].title}}

Counted(diff, kinds) == Cardinality({e \in diff : e.kind \in kinds})

Summary(diff) ==
    [added       |-> Counted(diff, {"widget-added"}),
     removed     |-> Counted(diff, {"widget-removed"}),
     moved       |-> Counted(diff, {"widget-moved"}),
     retitled    |-> Counted(diff, {"widget-retitled"}),
     tabsChanged |-> Counted(diff, {"tab-added", "tab-removed", "tab-retitled"}),
     total       |-> Cardinality(diff)]

\* The changes as the panel shows them, a group for each creator.
ByActor(diff) == [actor \in {e.actor : e \in diff} |-> {e \in diff : e.actor = actor}]

\* The parts of a row's label: the page writes "Other edit" where none is left.
RowLabel(summary) == {part \in DOMAIN summary \ {"total"} : summary[part] > 0}

\* The version the blame line names as a widget's first, among the loaded
\* bodies: the oldest that has it, when a body still older is loaded.
Containing(loaded, w) ==
    {v \in Versions : loaded[v] # NoLayout /\ w \in Widgets(loaded[v])}

\* Mutant: the newest version that has the widget.
LastSeenVersion(loaded, w) ==
    LET versions == Containing(loaded, w)
    IN  IF versions = {} THEN None ELSE CHOOSE v \in versions : \A u \in versions : u <= v

FirstSeenVersion(loaded, w) ==
    LET versions == Containing(loaded, w)
        earliest == CHOOSE v \in versions : \A u \in versions : v <= u
    IN  IF versions # {} /\ \E u \in Versions : u < earliest /\ loaded[u] # NoLayout
        THEN earliest ELSE None

-----------------------------------------------------------------------------
(* What the store answers. *)

\* The listing is read newest first; every entry but the oldest summarizes what
\* changed since the next older snapshot.
NoSummary == <<>>
Listing ==
    LET newestFirst == Reverse(undoRing)
    IN  [i \in 1..Len(newestFirst) |->
           [version |-> newestFirst[i].version,
            summary |-> IF i = Len(newestFirst) THEN NoSummary
                        ELSE Summary(Diff(newestFirst[i + 1].layout, newestFirst[i].layout))]]

\* A snapshot is found by its own version, or the call fails.
SnapshotOf(version) ==
    LET found == {i \in 1..Len(undoRing) : undoRing[i].version = version}
    IN  IF found = {} THEN NoLayout ELSE undoRing[CHOOSE i \in found : TRUE].layout

-----------------------------------------------------------------------------

\* Two moments are equal only when nothing was committed or undone in between.
Moment == <<current.version, saves>>

Idle == [kind |-> "none"]
NoRestore == [shown |-> NoLayout, got |-> NoLayout, foreseen |-> FALSE, reused |-> FALSE]
Closed == [open |-> FALSE, selected |-> None, confirm |-> FALSE, restoring |-> FALSE, opens |-> 0]

HistInit ==
    /\ LET docs == [i \in DOMAIN StartLayouts |-> [version |-> i, layout |-> StartLayouts[i]]]
       IN  current = Last(docs) /\ undoRing = Front(docs)
    /\ saves = 0
    /\ panel = Closed /\ entries = <<>> /\ cached = [v \in Versions |-> NoLayout]
    /\ request = [c \in HistoryCalls |-> Idle]
    /\ rewound = {} /\ listedAt = Moment /\ restored = NoRestore

\* A commit snapshots the document it replaces; the oldest snapshot goes.
CommitLayout ==
    /\ saves < MaxSaves /\ current.version < MaxVersions
    /\ \E layout \in Layouts \ {current.layout} :
         current' = [version |-> current.version + 1, layout |-> layout]
    /\ undoRing' = LET ring == Append(undoRing, current)
                   IN  IF Len(ring) > RingLimit THEN Tail(ring) ELSE ring
    /\ saves' = saves + 1
    /\ UNCHANGED <<panel, entries, cached, request, shelfHistory, listedAt>>

\* Undo brings the newest snapshot back, its version with it.
UndoNewest ==
    /\ undoRing # <<>>
    /\ current' = Last(undoRing) /\ undoRing' = Front(undoRing)
    /\ rewound' = rewound \cup {v \in Versions : v > Last(undoRing).version}
    /\ UNCHANGED saves

UndoElsewhere ==
    /\ UndoNewest
    /\ UNCHANGED <<panel, entries, cached, request, restored, listedAt>>

-----------------------------------------------------------------------------
(* The panel. *)

Asks(calls, kind, version, shown) ==
    \E c \in HistoryCalls :
       /\ calls[c] = Idle /\ \A d \in HistoryCalls : d < c => calls[d] # Idle
       /\ request' = [calls EXCEPT ![c] = [kind |-> kind, version |-> version, shown |-> shown,
                                           stage |-> "asked"]]

\* A body that is cached is not asked for again.
EnsureSnapshot(calls, version) ==
    IF version = None \/ cached[version] # NoLayout
    THEN request' = calls
    ELSE Asks(calls, "get", version, NoLayout)

OpenHistory ==
    /\ ~ panel.open /\ panel.opens < MaxOpens
    /\ panel' = [panel EXCEPT !.open = TRUE, !.confirm = FALSE, !.opens = @ + 1]
    /\ Asks(request, "list", None, NoLayout)
    /\ UNCHANGED <<shelf, entries, cached, shelfHistory, listedAt>>

\* The cached bodies stay, for the blame line.
CloseHistory ==
    /\ panel.open
    /\ panel' = [panel EXCEPT !.open = FALSE, !.confirm = FALSE]
    /\ UNCHANGED <<shelf, entries, cached, request, shelfHistory, listedAt>>

\* An armed confirmation stays armed for the version selected next.
SelectVersion ==
    /\ panel.open
    /\ \E i \in 1..Len(entries) :
         /\ entries[i].version # panel.selected
         /\ panel' = [panel EXCEPT !.selected = entries[i].version]
         /\ EnsureSnapshot(request, entries[i].version)
    /\ UNCHANGED <<shelf, entries, cached, shelfHistory, listedAt>>

\* Mutant: any version can be restored.
AnySelected == panel.selected # None

\* Restoring is one step of undo: it is offered for the newest entry alone.
NewestSelected ==
    entries # <<>> /\ panel.selected = entries[1].version

RestoreOffered ==
    /\ panel.open /\ panel.selected # None
    /\ cached[panel.selected] # NoLayout
    /\ NewestSelected

\* Below the preview, what happened to the board since the selected version.
DiffShown == ByActor(Diff(cached[panel.selected], current.layout))

ArmRestore ==
    /\ RestoreOffered
    /\ panel' = [panel EXCEPT !.confirm = ~ panel.confirm]
    /\ UNCHANGED <<shelf, entries, cached, request, shelfHistory, listedAt>>

ConfirmRestore ==
    /\ RestoreOffered /\ panel.confirm /\ ~ panel.restoring
    /\ panel' = [panel EXCEPT !.restoring = TRUE]
    /\ Asks(request, "undo", listedAt, cached[panel.selected])
    /\ UNCHANGED <<shelf, entries, cached, shelfHistory, listedAt>>

-----------------------------------------------------------------------------
(* The host serves a request, then the answer arrives: in any order. *)

Served(c, answer) ==
    request' = [request EXCEPT ![c] = [kind |-> @.kind, version |-> @.version, stage |-> "served",
                                       answer |-> answer, at |-> Moment']]

ServeListing(c) ==
    /\ request[c].kind = "list" /\ request[c].stage = "asked"
    /\ UNCHANGED <<shelf, panel, entries, cached, shelfHistory, listedAt>>
    /\ Served(c, Listing)

ServeSnapshot(c) ==
    /\ request[c].kind = "get" /\ request[c].stage = "asked"
    /\ UNCHANGED <<shelf, panel, entries, cached, shelfHistory, listedAt>>
    /\ Served(c, SnapshotOf(request[c].version))

ServeRestore(c) ==
    /\ request[c].kind = "undo" /\ request[c].stage = "asked"
    /\ IF undoRing = <<>> THEN UNCHANGED <<shelf, shelfHistory>>
       ELSE /\ UndoNewest
            /\ restored' = [shown |-> request[c].shown, got |-> Last(undoRing).layout,
                            foreseen |-> request[c].version = Moment,
                            reused |-> Last(undoRing).version \in rewound]
    /\ Served(c, NoLayout)
    /\ UNCHANGED <<panel, entries, cached, listedAt>>

\* The entries of the answer are shown; the newest is selected when nothing was.
ListingArrives(c) ==
    /\ request[c].kind = "list" /\ request[c].stage = "served"
    /\ entries' = request[c].answer /\ listedAt' = request[c].at
    /\ LET selected == IF panel.selected = None /\ entries' # <<>> THEN entries'[1].version
                       ELSE panel.selected
       IN  /\ panel' = [panel EXCEPT !.selected = selected]
           /\ EnsureSnapshot([request EXCEPT ![c] = Idle], selected)
    /\ UNCHANGED <<shelf, cached, shelfHistory>>

\* Mutant: a late body is kept as the one now selected.
SnapshotOfSelected(c) ==
    /\ request[c].kind = "get" /\ request[c].stage = "served"
    /\ cached' = IF request[c].answer = NoLayout THEN cached
                 ELSE [cached EXCEPT ![panel.selected] = request[c].answer]
    /\ request' = [request EXCEPT ![c] = Idle]
    /\ UNCHANGED <<shelf, panel, entries, shelfHistory, listedAt>>

SnapshotArrives(c) ==
    /\ request[c].kind = "get" /\ request[c].stage = "served"
    /\ cached' = IF request[c].answer = NoLayout THEN cached
                 ELSE [cached EXCEPT ![request[c].version] = request[c].answer]
    /\ request' = [request EXCEPT ![c] = Idle]
    /\ UNCHANGED <<shelf, panel, entries, shelfHistory, listedAt>>

\* Restored or refused, the panel closes, also one opened again meanwhile.
RestoreArrives(c) ==
    /\ request[c].kind = "undo" /\ request[c].stage = "served"
    /\ panel' = [panel EXCEPT !.open = FALSE, !.confirm = FALSE, !.restoring = FALSE]
    /\ request' = [request EXCEPT ![c] = Idle]
    /\ UNCHANGED <<shelf, entries, cached, shelfHistory, listedAt>>

HistFails(c) ==
    /\ request[c].kind \in {"list", "get"} /\ request[c].stage = "asked"
    /\ request' = [request EXCEPT ![c] = Idle]
    /\ UNCHANGED <<shelf, panel, entries, cached, shelfHistory, listedAt>>

HistNext ==
    \/ CommitLayout \/ UndoElsewhere
    \/ OpenHistory \/ CloseHistory \/ SelectVersion \/ ArmRestore \/ ConfirmRestore
    \/ \E c \in HistoryCalls :
         \/ ServeListing(c) \/ ServeSnapshot(c) \/ ServeRestore(c)
         \/ ListingArrives(c) \/ SnapshotArrives(c) \/ RestoreArrives(c) \/ HistFails(c)

HistSpec == HistInit /\ [][HistNext]_histVars

-----------------------------------------------------------------------------

HistTypeOK ==
    /\ current \in [version : Versions, layout : Layouts]
    /\ undoRing \in Seq([version : Versions, layout : Layouts]) /\ Len(undoRing) <= RingLimit
    /\ panel \in [open : BOOLEAN, selected : Versions \cup {None}, confirm : BOOLEAN,
                  restoring : BOOLEAN, opens : 0..MaxOpens]
    /\ cached \in [Versions -> Layouts \cup {NoLayout}]
    /\ rewound \subseteq Versions

\* A confirmed restore brings back the document the panel showed, unless the
\* board was changed after the list was read or the version had been used before:
\* the operator confirms one document and undo takes whatever is newest.
RestoresShown ==
    restored.foreseen /\ ~ restored.reused => restored.got = restored.shown

\* The body shown for a version is that version's, however late it was loaded and
\* whatever was committed since; only a version given free by an undo may differ.
CacheTrue ==
    \A i \in 1..Len(undoRing) :
       LET v == undoRing[i].version
       IN  cached[v] \in {NoLayout, undoRing[i].layout} \/ v \in rewound

\* A row's counts add up: between two listed versions the board has as many more
\* widgets as were added less those removed, and a row without changes stands for
\* an edit after which the board looks the same.
RowsAddUp ==
    \A i \in 1..Len(entries) - 1 :
       LET newer == cached[entries[i].version]
           older == cached[entries[i + 1].version]
           row == entries[i].summary
       IN  /\ row.total = row.added + row.removed + row.moved + row.retitled + row.tabsChanged
           /\ (newer # NoLayout /\ older # NoLayout /\ rewound = {}) =>
                /\ Cardinality(Widgets(older)) + row.added = Cardinality(Widgets(newer)) + row.removed
                /\ row.total = Cardinality(Diff(newer, older))
                /\ row.added = Summary(Diff(newer, older)).removed
                /\ RowLabel(row) = {} <=> Looks(newer) = Looks(older)

\* The blame line never names a version as a widget's first when the version before
\* it is loaded and already had the widget.
BlameTrue ==
    \A v \in Versions \ {1} :
       cached[v] # NoLayout /\ cached[v - 1] # NoLayout =>
          \A w \in Widgets(cached[v - 1]) : FirstSeenVersion(cached, w) # v

\* The detail of a loaded version says that nothing changed exactly when the board
\* looks that way again, and puts no change under two creators.
DiffTells ==
    panel.selected # None /\ cached[panel.selected] # NoLayout =>
       LET groups == DiffShown
       IN  /\ DOMAIN groups = {} <=> Looks(cached[panel.selected]) = Looks(current.layout)
           /\ \A actor, other \in DOMAIN groups :
                 actor # other => groups[actor] \cap groups[other] = {}

HistoryTruthful == RestoresShown /\ CacheTrue /\ RowsAddUp /\ BlameTrue /\ DiffTells
=============================================================================
