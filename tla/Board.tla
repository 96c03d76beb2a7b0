------------------------------- MODULE Board --------------------------------
(***************************************************************************)
(* The board: the tabs and widgets of the workspace document, the RPCs and *)
(* agent tools that change them, the validator every write passes, what an *)
(* operator is served of it (core/src/visibility.ts) and what its browser  *)
(* makes of that (core/src/queries.ts, the optimistic updates of           *)
(* host/src/store.ts), exported files, and drag and drop.                  *)
(*                                                                         *)
(* Requests arrive in any order and with any slug and id: that is what a   *)
(* stale view or an agent sends.  A request the code refuses leaves the    *)
(* document alone and is no step.  Titles, kinds, bindings and props are   *)
(* left out; the store's own steps (lock, files, versions, undo, TTL) are  *)
(* Store, the registries' approval gate is Workspace.                      *)
(***************************************************************************)
EXTENDS Grid, Sequences, SequencesExt

CONSTANTS Operators,    \* identities of signed-in operators
          TabNames,     \* the slugs a title gives rise to, in order: base, base-2, ...
          WidgetIds,    \* the ids a widget title gives rise to, in order
          Asked,        \* rectangles a gesture asks for
          Grids,        \* rectangles a request carries (readGrid)
          AgentDocs,    \* documents an agent submits in full
          StartDocs,    \* documents that may be found on disk
          MaxTabs, MaxWidgets, MaxRow, MaxHeight,   \* 32, 24, 499, 20
          MaxWrites     \* bound on the writes of a behaviour

Shared  == "shared"     \* the owner of a tab that is not private
Nobody  == "nobody"     \* a request without an operator identity
Unnamed == "unnamed"    \* no slug or id in a request: one is generated
NoDrag  == [slug |-> Unnamed]
NoFile  == <<>>

VARIABLES doc,          \* [tabs, order]: the stored document
          file,         \* the exported file last downloaded, as a document
          drag,         \* the gesture under way, with the tab as it was rendered
          late,         \* a draft its handler had checked broke the document's structure
          writes        \* number of requests so far
boardVars == <<doc, file, drag, late, writes>>

(***************************************************************************)
(* Documents and their validation                                          *)
(***************************************************************************)
Slugs(d)     == {d.tabs[i].slug : i \in DOMAIN d.tabs}
IdsOf(t)     == {t.widgets[i].id : i \in DOMAIN t.widgets}
Ids(d)       == UNION {IdsOf(d.tabs[i]) : i \in DOMAIN d.tabs}
SlugSeq(d)   == [i \in DOMAIN d.tabs |-> d.tabs[i].slug]
TabOf(d, s)  == CHOOSE i \in DOMAIN d.tabs : d.tabs[i].slug = s
Tab(d, s)    == d.tabs[TabOf(d, s)]
WidgetOf(t, id) == t.widgets[CHOOSE i \in DOMAIN t.widgets : t.widgets[i].id = id]

\* What a request may name: a slug or id that exists, existed, or never will.
Names == ToSet(TabNames)
WIds  == ToSet(WidgetIds)

\* The shape of a document, valid or not.
Documents ==
  LET Widget == [id : WIds, grid : Rects, hidden : BOOLEAN]
      TabShape == [slug : Names, owner : Operators \cup {Shared, Nobody}, widgets : Seq(Widget)]
  IN  [tabs : Seq(TabShape), order : Seq(Names)]

NoRepeat(s)  == \A i, j \in DOMAIN s : s[i] = s[j] => i = j

\* assertUniqueTabs, assertUniqueWidgets and validatePrefs.
Structured(d) ==
  /\ \A i, j \in DOMAIN d.tabs :
       /\ d.tabs[i].slug = d.tabs[j].slug => i = j
       /\ \A k \in DOMAIN d.tabs[i].widgets, l \in DOMAIN d.tabs[j].widgets :
            d.tabs[i].widgets[k].id = d.tabs[j].widgets[l].id => i = j /\ k = l
  /\ NoRepeat(d.order)
  /\ ToSet(d.order) \subseteq Slugs(d)

ValidGrid(g) == InColumns(g) /\ g.y <= MaxRow /\ g.h <= MaxHeight

ValidWidget(w) == ValidGrid(w.grid) /\ w.hidden \in BOOLEAN

ValidTab(t) ==
  /\ t.owner \in Operators \cup {Shared}
  /\ Len(t.widgets) <= MaxWidgets
  /\ \A i \in DOMAIN t.widgets : ValidWidget(t.widgets[i])

Valid(d) ==
  /\ Structured(d)
  /\ Len(d.tabs) <= MaxTabs
  /\ \A i \in DOMAIN d.tabs : ValidTab(d.tabs[i])

\* A document found on disk passes the validator when it is read
\* (DashboardStore.read); an agent's has only the shape of one.
ASSUME BoardAssumption ==
  /\ TabNames \in Seq(Names) /\ WidgetIds \in Seq(WIds) /\ Unnamed \notin Names \cup WIds
  /\ Asked \subseteq Rects /\ Grids \subseteq Rects
  /\ AgentDocs \subseteq Documents
  /\ \A d \in StartDocs : d \in Documents /\ Valid(d)
  /\ MaxTabs \in Nat /\ MaxWidgets \in Nat /\ MaxRow \in Nat /\ MaxHeight \in Nat
  /\ MaxWrites \in Nat

(***************************************************************************)
(* What an operator is served, and an exported file                        *)
(***************************************************************************)
\* The numbers of a finite set, in ascending order.
Ascending(I) ==
  CHOOSE p \in [1 .. Cardinality(I) -> I] : \A j, k \in DOMAIN p : j < k => p[j] < p[k]

\* The members of s at some of its places, in the order of s.
At(s, I) == [k \in 1 .. Cardinality(I) |-> s[Ascending(I)[k]]]

\* The members of s that are in S, and those that are not.
Within(s, S) == At(s, {i \in DOMAIN s : s[i] \in S})
Outside(s, S) == At(s, {i \in DOMAIN s : s[i] \notin S})

\* The tabs of some slugs.
TabsOf(d, slugs) == At(d.tabs, {i \in DOMAIN d.tabs : d.tabs[i].slug \in slugs})

VisibleTo(t, o) == t.owner \in {Shared, o} \ {Nobody}

\* (mutant) The tab order is kept as it is stored.
KeepWholeOrder(d, slugs) ==
  [tabs |-> TabsOf(d, slugs), order |-> d.order]

\* The document of some of the tabs, its order pruned to match.
Keep(d, slugs) == [tabs |-> TabsOf(d, slugs), order |-> Within(d.order, slugs)]

Served(d, o) == Keep(d, {s \in Slugs(d) : VisibleTo(Tab(d, s), o)})

\* A file of the chosen tabs; choosing none exports all.
Exported(d, chosen) == IF chosen = {} THEN d ELSE Keep(d, chosen)

\* (mutant) Only the stored order is shown.
OrderedTabsOnly(d) == Within(d.order, Slugs(d))

\* The slugs of the tab strip: the stored order, then the tabs it omits.
OrderedTabs(d) == Within(d.order, Slugs(d)) \o Outside(SlugSeq(d), ToSet(d.order))

\* What the browser shows of a document: normalizeWidget reads no `hidden'.
ShownDoc(d) ==
  [i \in DOMAIN OrderedTabs(d) |->
     LET t == Tab(d, OrderedTabs(d)[i])
     IN  [slug |-> t.slug,
          widgets |-> [k \in DOMAIN t.widgets |->
                         <<t.widgets[k].id, t.widgets[k].grid>>]]]

(***************************************************************************)
(* The producers: the document a handler makes of the current one          *)
(***************************************************************************)
FirstFree(names, used) == SelectInSeq(names, LAMBDA n : n \notin used)

Name(asked, names, used) ==
  IF asked # Unnamed THEN asked
  ELSE IF FirstFree(names, used) = 0 THEN Unnamed
       ELSE names[FirstFree(names, used)]

WithTab(d, t) == [d EXCEPT !.tabs = Append(@, t), !.order = Append(@, t.slug)]

\* (mutant) The order still names the deleted tab.
WithoutTabOnly(d, s) == [d EXCEPT !.tabs = TabsOf(d, Slugs(d) \ {s})]

WithoutTab(d, s) == [tabs |-> TabsOf(d, Slugs(d) \ {s}), order |-> Outside(d.order, {s})]

Reordered(d, order) == [d EXCEPT !.order = order \o Outside(SlugSeq(d), ToSet(order))]

WithWidgets(d, s, widgets) == [d EXCEPT !.tabs[TabOf(d, s)].widgets = widgets]

Without(widgets, id) == At(widgets, {k \in DOMAIN widgets : widgets[k].id # id})

Patched(widgets, id, New(_)) ==
  [k \in DOMAIN widgets |-> IF widgets[k].id = id THEN New(widgets[k]) ELSE widgets[k]]

Placed(d, s, id, grid) ==
  WithWidgets(d, s, Patched(Tab(d, s).widgets, id,
                            LAMBDA w : [w EXCEPT !.grid = grid]))

\* (mutant) The moved widget takes the first place in its new tab.
MovedToFront(d, id, to) ==
  LET from == CHOOSE s \in Slugs(d) : id \in IdsOf(Tab(d, s))
      w    == WidgetOf(Tab(d, from), id)
      cut  == WithWidgets(d, from, Without(Tab(d, from).widgets, id))
  IN  WithWidgets(cut, to, <<w>> \o Tab(cut, to).widgets)

\* The widget is looked up in every tab, the destination first of all.
MovedTo(d, id, to) ==
  LET from == CHOOSE s \in Slugs(d) : id \in IdsOf(Tab(d, s))
      w    == WidgetOf(Tab(d, from), id)
      cut  == WithWidgets(d, from, Without(Tab(d, from).widgets, id))
  IN  WithWidgets(cut, to, Append(Tab(cut, to).widgets, w))

(***************************************************************************)
(* What the browser shows at once, before the server has answered          *)
(***************************************************************************)
PredictPlaced(v, s, id, grid) ==
  [v EXCEPT !.tabs = [i \in DOMAIN v.tabs |->
     IF v.tabs[i].slug # s THEN v.tabs[i]
     ELSE [v.tabs[i] EXCEPT !.widgets =
             Patched(@, id, LAMBDA w : [w EXCEPT !.grid = grid])]]]

PredictRemoved(v, s, id) ==
  [v EXCEPT !.tabs = [i \in DOMAIN v.tabs |->
     IF v.tabs[i].slug # s THEN v.tabs[i]
     ELSE [v.tabs[i] EXCEPT !.widgets = Without(@, id)]]]

PredictMovedTo(v, s, id, to) ==
  [v EXCEPT !.tabs = [i \in DOMAIN v.tabs |->
     CASE v.tabs[i].slug = s  -> [v.tabs[i] EXCEPT !.widgets = Without(@, id)]
       [] v.tabs[i].slug = to -> [v.tabs[i] EXCEPT !.widgets =
                                    Append(@, WidgetOf(Tab(v, s), id))]
       [] OTHER               -> v.tabs[i]]]

(***************************************************************************)
(* State                                                                   *)
(***************************************************************************)
BoardInit ==
  /\ doc \in StartDocs
  /\ file = NoFile
  /\ drag = NoDrag
  /\ late = FALSE
  /\ writes = 0

\* DashboardStore.mutate: the draft is validated as a whole and kept or thrown away.
Write(draft) ==
  /\ writes < MaxWrites
  /\ doc' = IF Valid(draft) THEN draft ELSE doc
  /\ late' = (late \/ ~ Structured(draft))
  /\ writes' = writes + 1

Quiet == UNCHANGED <<file, drag>>

(***************************************************************************)
(* The requests                                                            *)
(***************************************************************************)
\* A private tab belongs to the operator who asks for it.
TabCreate(o, asked, owner) ==
  LET slug == Name(asked, TabNames, Slugs(doc))
  IN  /\ owner \in {Shared, o}
      /\ slug \notin Slugs(doc) \cup {Unnamed}
      /\ Write(WithTab(doc, [slug |-> slug, owner |-> owner, widgets |-> <<>>]))
      /\ Quiet

\* Making a tab private takes it over, making it shared clears its owner.
TabUpdate(o, s, owner) ==
  /\ owner \in {Shared, o}
  /\ s \in Slugs(doc)
  /\ Write([doc EXCEPT !.tabs[TabOf(doc, s)].owner = owner])
  /\ Quiet

TabDelete(s) ==
  /\ s \in Slugs(doc)
  /\ Write(WithoutTab(doc, s))
  /\ Quiet

TabReorder(order) ==
  /\ NoRepeat(order)
  /\ ToSet(order) \subseteq Slugs(doc)
  /\ Write(Reordered(doc, order))
  /\ Quiet

WidgetAdd(s, asked, grid) ==
  LET id == Name(asked, WidgetIds, Ids(doc))
  IN  /\ s \in Slugs(doc)
      /\ id \notin Ids(doc) \cup {Unnamed}
      /\ Write(WithWidgets(doc, s,
                 Append(Tab(doc, s).widgets, [id |-> id, grid |-> grid, hidden |-> FALSE])))
      /\ Quiet

Has(d, s, id) == s \in Slugs(d) /\ id \in IdsOf(Tab(d, s))

Hidden(d, s, id) ==
  WithWidgets(d, s, Patched(Tab(d, s).widgets, id,
                            LAMBDA w : [w EXCEPT !.hidden = TRUE]))

WidgetHide(s, id) ==
  /\ Has(doc, s, id)
  /\ Write(Hidden(doc, s, id))
  /\ Quiet

WidgetMove(s, id, grid) ==
  /\ Has(doc, s, id)
  /\ Write(Placed(doc, s, id, grid))
  /\ Quiet

WidgetMoveTo(id, to) ==
  /\ to \in Slugs(doc)
  /\ id \in Ids(doc)
  /\ Write(MovedTo(doc, id, to))
  /\ Quiet

Removed(d, s, id) == WithWidgets(d, s, Without(Tab(d, s).widgets, id))

WidgetRemove(s, id) ==
  /\ Has(doc, s, id)
  /\ Write(Removed(doc, s, id))
  /\ Quiet

\* Several widgets of one tab are placed at once.
WidgetSetLayout(s, layout) ==
  /\ s \in Slugs(doc)
  /\ DOMAIN layout \subseteq IdsOf(Tab(doc, s))
  /\ Write(WithWidgets(doc, s,
        [k \in DOMAIN Tab(doc, s).widgets |->
           LET w == Tab(doc, s).widgets[k]
           IN  IF w.id \in DOMAIN layout THEN [w EXCEPT !.grid = layout[w.id]] ELSE w]))
  /\ Quiet

\* An agent's dashboard_workspace_replace; an operator's takes its file.
AgentReplace(d) ==
  /\ Valid(d)
  /\ Write(d)
  /\ Quiet

Export(o, chosen) ==
  /\ file' = Exported(Served(doc, o), chosen)
  /\ UNCHANGED <<doc, drag, late, writes>>

Import ==
  /\ file # NoFile
  /\ Valid(file)
  /\ Write(file)
  /\ Quiet

(***************************************************************************)
(* Drag and drop                                                           *)
(***************************************************************************)
Others(t, id) == {t.widgets[k].grid : k \in {l \in DOMAIN t.widgets : t.widgets[l].id # id}}

\* The callbacks of a rendered widget hold the tab they were rendered with.
Grab(o, s, id) ==
  LET v == Served(doc, o)
  IN  /\ drag = NoDrag
      /\ Has(v, s, id)
      /\ drag' = [slug |-> s, id |-> id, from |-> WidgetOf(Tab(v, s), id).grid,
                  others |-> Others(Tab(v, s), id)]
      /\ UNCHANGED <<doc, file, late, writes>>

\* The pointer is released, or the drag is cancelled.
Release ==
  /\ drag # NoDrag
  /\ drag' = NoDrag
  /\ UNCHANGED <<doc, file, late, writes>>

Drop(asked) ==
  LET to == ResolveDrop(asked, drag.others)
  IN  /\ drag # NoDrag
      /\ to # drag.from
      /\ Has(doc, drag.slug, drag.id)
      /\ Write(Placed(doc, drag.slug, drag.id, to))
      /\ drag' = NoDrag
      /\ UNCHANGED file
-----------------------------------------------------------------------------
TabRequest ==
  \/ \E o \in Operators \cup {Nobody}, asked \in Names \cup {Unnamed} :
       \E owner \in {Shared, o} : TabCreate(o, asked, owner)
  \/ \E o \in Operators \cup {Nobody}, s \in Names :
       \E owner \in {Shared, o} : TabUpdate(o, s, owner)
  \/ \E s \in Names : TabDelete(s)
  \/ \E S \in SUBSET Names : \E order \in SetToSeqs(S) : TabReorder(order)

WidgetRequest ==
  \E s \in Names, id \in WIds :
    \/ \E grid \in Grids : \/ WidgetAdd(s, id, grid)
                           \/ WidgetAdd(s, Unnamed, grid)
                           \/ WidgetMove(s, id, grid)
    \/ WidgetHide(s, id)
    \/ WidgetMoveTo(id, s)
    \/ WidgetRemove(s, id)
    \/ \E S \in SUBSET WIds : \E layout \in [S -> Grids] : WidgetSetLayout(s, layout)

WholeDocument ==
  \/ \E d \in AgentDocs : AgentReplace(d)
  \/ \E o \in Operators : \E chosen \in SUBSET Slugs(Served(doc, o)) : Export(o, chosen)
  \/ Import

Gesture ==
  \/ \E o \in Operators, s \in Names, id \in WIds : Grab(o, s, id)
  \/ Release
  \/ \E asked \in Asked : Drop(asked)

BoardNext == TabRequest \/ WidgetRequest \/ WholeDocument \/ Gesture

BoardSpec == BoardInit /\ [][BoardNext]_boardVars
-----------------------------------------------------------------------------
\* The stored document always passes the validator (validateWorkspaceDoc), and
\* the other variables have their types.
BoardTypeOK ==
  /\ Valid(doc)
  /\ late \in BOOLEAN
  /\ writes \in 0 .. MaxWrites
  /\ drag # NoDrag => /\ drag.id \in WIds
                      /\ drag.others \subseteq {r \in Rects : ValidGrid(r)}

\* A request that passes the checks of its own handler is never thrown away
\* because the document it makes is broken: a slug or a widget id twice, or a
\* tab order that names no tab or one tab twice.  (It may still be refused for
\* a limit: a full board or tab, a rectangle outside the grid, a private tab
\* nobody owns.)  Each handler has to keep the parts of the document in step.
HandlersKeepStructure == ~ late

\* A downloaded file, of all tabs the operator is served or of a choice of
\* them, is itself a valid document: it can be imported again.
ExportsValid == file # NoFile => Valid(file)

\* Neither a handler nor an export ever makes a document that is not one.
StaysWellFormed == HandlersKeepStructure /\ ExportsValid

\* A tab strip shows every tab the operator is served, each once, also when an
\* agent has stored an order that omits some of them.
EveryTabShown ==
  \A o \in Operators :
    LET v == Served(doc, o)
    IN  /\ NoRepeat(OrderedTabs(v))
        /\ ToSet(OrderedTabs(v)) = Slugs(v)

\* Documents stay whole, and whole on the screen.
BoardsSound == StaysWellFormed /\ EveryTabShown

Agrees(o, predicted, stored) ==
  Valid(stored) => ShownDoc(predicted) = ShownDoc(Served(stored, o))

\* What an operator with an up-to-date board is shown at once when it places a
\* widget, removes it or moves it to another tab is what it is served after the
\* write, whatever tabs of others its board leaves out.
OptimisticAgrees ==
  \A o \in Operators : LET v == Served(doc, o) IN
    \A s \in Slugs(v) : \A id \in IdsOf(Tab(v, s)) :
      /\ \A g \in Grids : Agrees(o, PredictPlaced(v, s, id, g), Placed(doc, s, id, g))
      /\ Agrees(o, PredictRemoved(v, s, id), Removed(doc, s, id))
      /\ \A to \in Slugs(v) \ {s} :
           Agrees(o, PredictMovedTo(v, s, id, to), MovedTo(doc, id, to))

\* Whatever a gesture asks for, its widget lands inside the columns and on no
\* other widget of the tab as it was when the gesture began.
DropsFit ==
  drag # NoDrag =>
    \A asked \in Asked : LET to == ResolveDrop(asked, drag.others)
                         IN  InColumns(to) /\ ~ Collides(to, drag.others)

=============================================================================
