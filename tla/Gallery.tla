------------------------------- MODULE Gallery -------------------------------
(* The gallery dialog of the page: an operator browses a registry index,     *)
(* looks at a widget bundle or a board recipe and installs it. Every open    *)
(* dialog is an object of its own that its requests hold on to, so what a    *)
(* closed dialog started goes on and ends beside the next one. The host      *)
(* keeps the installed code, the widgets' registry, the grants and the tabs; *)
(* operators decide on what is registered or requested.                      *)
EXTENDS Naturals, FiniteSets, TLC

CONSTANTS
    Urls,         \* registry indexes
    Bundles,      \* widget bundles
    Recipes,      \* boards with the grants they ask for
    WidgetName,   \* the name in each bundle's manifest
    Unsound,      \* bundles whose manifest or files the host refuses
    Index,        \* what each url lists
    Needs,        \* each recipe's grantsManifest: connector to tools, <<connector, name>>
    Carries,      \* the grants the recipe's own document claims, likewise
    RecipeTab,    \* the first tab of each recipe's document
    RecipeNames,  \* the custom widgets of each recipe's document
    PageTabs, FirstTab,
    MaxDialogs,   \* bound: dialogs opened
    MaxTries,     \* bound: requests of the dialogs
    MaxOutside,   \* bound: what others do, and where the page goes
    Nothing

Names == {WidgetName[b] : b \in Bundles} \cup UNION {RecipeNames[r] : r \in Recipes}
Connectors == UNION {DOMAIN Needs[r] \cup DOMAIN Carries[r] : r \in Recipes}

ASSUME GalleryAssumption ==
    /\ Index \in [Urls -> SUBSET (Bundles \cup Recipes)] /\ Bundles \cap Recipes = {}
    /\ Unsound \subseteq Bundles
    /\ Nothing \notin Urls \cup Bundles \cup Recipes
    /\ RecipeTab \in [Recipes -> PageTabs] /\ FirstTab \in PageTabs
    /\ MaxDialogs \in Nat /\ MaxTries \in Nat /\ MaxOutside \in Nat

VARIABLES
    gallery,    \* the open dialog, 0 when none is
    dialog,     \* the state of each dialog object
    flow,       \* what each dialog has asked for and not finished
    active,     \* the page's active tab
    saved,      \* the registry url the browser remembers
    onTabs,     \* the host's tabs, with the widgets on each
    registry,   \* its registry of widgets
    grants,     \* its grants of connectors
    codeOf,     \* whose code the directory of each name holds
    reviewed,   \* history: the code that was there when a name was approved
    asked,      \* history: the recipe installed last
    ended,      \* history: how each dialog's last installation ended
    tries, outside

hostVars == <<onTabs, registry, grants, codeOf, reviewed, asked>>
galleryVars == <<gallery, dialog, flow, active, saved, hostVars, ended, tries, outside>>

Dialogs == 1..MaxDialogs
Fresh(url) == [url |-> url, mode |-> "widgets", entries |-> Nothing, selected |-> Nothing,
               recipe |-> Nothing, busy |-> FALSE]
NoFlow == [kind |-> "none", of |-> Nothing, stage |-> "done"]
NoGrant == [status |-> "none", tools |-> {}]

GalleryInit ==
    /\ gallery = 0 /\ dialog = [n \in Dialogs |-> Fresh(Nothing)]
    /\ flow = [n \in Dialogs |-> NoFlow]
    /\ active = FirstTab /\ saved = Nothing
    /\ onTabs = FirstTab :> {} /\ registry = [w \in Names |-> "none"]
    /\ grants = [c \in Connectors |-> NoGrant]
    /\ codeOf = [w \in Names |-> Nothing] /\ reviewed = [w \in Names |-> Nothing]
    /\ asked = Nothing /\ ended = [n \in Dialogs |-> "no"] /\ tries = 0 /\ outside = 0

-----------------------------------------------------------------------------
(* What is read from the registry. *)

ParsedWidgets(url) == Index[url] \cap Bundles
ParsedRecipes(url) == Index[url] \cap Recipes

\* Mutant: a tool may be listed under any connector.
AnyTool(c, tool) == TRUE

\* A tool is listed under the connector it belongs to.
ValidTool(c, tool) == tool[1] = c

ValidConnectorGrant(c, tools) == tools # {} /\ \A tool \in tools : ValidTool(c, tool)

\* A recipe is checked as a whole before it is shown; a bundle's manifest and files
\* are the host's to check.
ValidRecipe(r) == \A c \in DOMAIN Needs[r] : ValidConnectorGrant(c, Needs[r][c])

Readable(x) == x \in Recipes => ValidRecipe(x)

-----------------------------------------------------------------------------
(* The dialog, and what it offers. *)

WidgetRows(d) ==
    IF d.mode # "widgets" \/ d.selected # Nothing \/ d.entries = Nothing THEN {}
    ELSE ParsedWidgets(d.entries)

RecipeRows(d) ==
    IF d.mode # "templates" \/ d.recipe # Nothing \/ d.entries = Nothing THEN {}
    ELSE ParsedRecipes(d.entries)

BundleShown(d) == d.mode = "widgets" /\ d.selected # Nothing
RecipeShown(d) == d.mode = "templates" /\ d.recipe # Nothing

Set(n, d) == dialog' = [dialog EXCEPT ![n] = d]

\* A new object, seeded with the remembered url.
OpenGallery ==
    /\ gallery = 0
    /\ \E n \in Dialogs :
         /\ ended[n] = "no" /\ \A o \in Dialogs : o < n => ended[o] # "no"
         /\ gallery' = n /\ Set(n, Fresh(saved)) /\ ended' = [ended EXCEPT ![n] = "open"]
    /\ UNCHANGED <<flow, active, saved, hostVars, tries, outside>>

CloseGallery ==
    /\ gallery # 0 /\ gallery' = 0
    /\ UNCHANGED <<dialog, flow, active, saved, hostVars, ended, tries, outside>>

\* The url is typed and the other list turned to whether the dialog is busy or not.
TypeUrl ==
    /\ gallery # 0
    /\ \E url \in Urls : url # dialog[gallery].url /\ Set(gallery, [dialog[gallery] EXCEPT !.url = url])
    /\ UNCHANGED <<gallery, flow, active, saved, hostVars, ended, tries, outside>>

SetMode ==
    /\ gallery # 0
    /\ \E mode \in {"widgets", "templates"} \ {dialog[gallery].mode} :
         Set(gallery, [dialog[gallery] EXCEPT !.mode = mode, !.selected = Nothing, !.recipe = Nothing])
    /\ UNCHANGED <<gallery, flow, active, saved, hostVars, ended, tries, outside>>

Back ==
    /\ gallery # 0
    /\ LET d == dialog[gallery]
       IN  \/ BundleShown(d) /\ Set(gallery, [d EXCEPT !.selected = Nothing])
           \/ RecipeShown(d) /\ Set(gallery, [d EXCEPT !.recipe = Nothing])
    /\ UNCHANGED <<gallery, flow, active, saved, hostVars, ended, tries, outside>>

\* A button that is disabled while the dialog is busy.
Begin(kind, of, d) ==
    /\ gallery # 0 /\ ~ dialog[gallery].busy /\ tries < MaxTries
    /\ tries' = tries + 1
    /\ Set(gallery, [d EXCEPT !.busy = TRUE])
    /\ flow' = [flow EXCEPT ![gallery] = [kind |-> kind, of |-> of, stage |-> "asked"]]
    /\ UNCHANGED <<gallery, active, saved, hostVars, ended, outside>>

Browse ==
    /\ gallery # 0 /\ dialog[gallery].url # Nothing
    /\ LET d == dialog[gallery]
       IN  Begin("browse", d.url, [d EXCEPT !.selected = Nothing, !.recipe = Nothing])

Preview ==
    /\ gallery # 0
    /\ LET d == dialog[gallery]
       IN  \E x \in WidgetRows(d) \cup RecipeRows(d) : Begin("preview", x, d)

Install ==
    /\ gallery # 0
    /\ LET d == dialog[gallery]
       IN  \/ BundleShown(d) /\ Begin("install", d.selected, d)
           \/ RecipeShown(d) /\ Begin("import", d.recipe, d)

-----------------------------------------------------------------------------
(* How a request of dialog n goes on: the object it holds on to changes,     *)
(* open or not.                                                              *)

Waiting(n, kind, stage) == flow[n].kind = kind /\ flow[n].stage = stage
Done(n) == flow' = [flow EXCEPT ![n] = NoFlow]
Stage(n, stage) == flow' = [flow EXCEPT ![n].stage = stage]

\* A request failed or its answer was lost: the dialog says so and is no longer busy.
FlowFails(n) ==
    /\ flow[n].kind # "none"
    /\ Done(n) /\ Set(n, [dialog[n] EXCEPT !.busy = FALSE])
    /\ UNCHANGED <<gallery, active, saved, hostVars, ended, tries, outside>>

\* Both halves of the index arrived.
IndexArrives(n) ==
    /\ Waiting(n, "browse", "asked")
    /\ Set(n, [dialog[n] EXCEPT !.entries = flow[n].of, !.busy = FALSE])
    /\ saved' = flow[n].of /\ Done(n)
    /\ UNCHANGED <<gallery, active, hostVars, ended, tries, outside>>

PreviewArrives(n) ==
    /\ Waiting(n, "preview", "asked") /\ Readable(flow[n].of)
    /\ Set(n, IF flow[n].of \in Bundles THEN [dialog[n] EXCEPT !.selected = flow[n].of, !.busy = FALSE]
              ELSE [dialog[n] EXCEPT !.recipe = flow[n].of, !.busy = FALSE])
    /\ Done(n)
    /\ UNCHANGED <<gallery, active, saved, hostVars, ended, tries, outside>>

\* Mutant: an installation takes an existing directory over.
TakesAnyName(b) == TRUE

\* What the host checks of the bundle itself.
Sound(b) == b \notin Unsound

\* The host takes a bundle whose name has neither a directory nor an entry.
TakesName(b) == codeOf[WidgetName[b]] = Nothing /\ registry[WidgetName[b]] = "none"

HostInstalls(n) ==
    /\ Waiting(n, "install", "asked")
    /\ LET b == flow[n].of
       IN  /\ Sound(b) /\ TakesName(b)
           /\ codeOf' = [codeOf EXCEPT ![WidgetName[b]] = b]
           /\ registry' = [registry EXCEPT ![WidgetName[b]] =
                             IF @ = "none" THEN "pending" ELSE @]
    /\ Stage(n, "installed")
    /\ UNCHANGED <<gallery, dialog, active, saved, onTabs, grants, reviewed, asked, ended, tries, outside>>

\* The widget goes on the tab that is active by now. A page that knows the tab is gone
\* places nothing; one that does not is refused, like any failure.
HostPlaces(n) ==
    /\ Waiting(n, "install", "installed")
    /\ onTabs' = IF active \in DOMAIN onTabs
                 THEN [onTabs EXCEPT ![active] = @ \cup {WidgetName[flow[n].of]}] ELSE onTabs
    /\ Stage(n, "placed")
    /\ UNCHANGED <<gallery, dialog, active, saved, registry, grants, codeOf, reviewed, asked,
                   ended, tries, outside>>

Granted(tools) == [status |-> "granted", tools |-> tools]
Requested(tools) == [status |-> "requested", tools |-> tools]

\* Mutant: the grants the recipe's document claims are kept.
KeepsClaims(r) ==
    [c \in Connectors |-> IF c \in DOMAIN Needs[r] THEN Requested(Needs[r][c])
                          ELSE IF c \in DOMAIN Carries[r] THEN Granted(Carries[r][c]) ELSE NoGrant]

\* The document's own grants are left out, the manifest's are requested, whatever
\* was granted before.
RecipeGrants(r) ==
    [c \in Connectors |-> IF c \in DOMAIN Needs[r] THEN Requested(Needs[r][c]) ELSE NoGrant]

\* An import replaces the whole document; its custom widgets come in pending.
HostImports(n) ==
    /\ Waiting(n, "import", "asked")
    /\ LET r == flow[n].of
       IN  /\ grants' = RecipeGrants(r)
           /\ registry' = [w \in Names |-> IF w \in RecipeNames[r] THEN "pending" ELSE "none"]
           /\ onTabs' = RecipeTab[r] :> RecipeNames[r]
           /\ asked' = r
    /\ Stage(n, "imported")
    /\ UNCHANGED <<gallery, dialog, active, saved, codeOf, reviewed, ended, tries, outside>>

\* A finished installation closes the gallery: whichever dialog is open by then.
Finish(n) ==
    /\ \/ Waiting(n, "install", "placed") /\ UNCHANGED active
       \/ Waiting(n, "import", "imported") /\ active' = RecipeTab[flow[n].of]
    /\ gallery' = 0 /\ Done(n)
    /\ ended' = [ended EXCEPT ![n] = "installed"]
    /\ UNCHANGED <<dialog, saved, hostVars, tries, outside>>

-----------------------------------------------------------------------------
(* The page and other operators. *)

Elsewise == outside < MaxOutside /\ outside' = outside + 1

Navigate ==
    /\ Elsewise /\ \E t \in DOMAIN onTabs \ {active} : active' = t
    /\ UNCHANGED <<gallery, dialog, flow, saved, hostVars, ended, tries>>

\* Another operator deletes the active tab; the page goes to another when it hears.
TabDeleted ==
    /\ Elsewise /\ active \in DOMAIN onTabs
    /\ onTabs' = [t \in DOMAIN onTabs \ {active} |-> onTabs[t]]
    /\ UNCHANGED <<gallery, dialog, flow, active, saved, registry, grants, codeOf, reviewed, asked,
                   ended, tries>>

ApproveWidget ==
    /\ Elsewise
    /\ \E w \in Names :
         /\ registry[w] = "pending"
         /\ registry' = [registry EXCEPT ![w] = "approved"]
         /\ reviewed' = [reviewed EXCEPT ![w] = codeOf[w]]
    /\ UNCHANGED <<gallery, dialog, flow, active, saved, onTabs, grants, codeOf, asked, ended, tries>>

ApproveGrant ==
    /\ Elsewise
    /\ \E c \in Connectors :
         grants[c].status = "requested" /\ grants' = [grants EXCEPT ![c] = Granted(grants[c].tools)]
    /\ UNCHANGED <<gallery, dialog, flow, active, saved, onTabs, registry, codeOf, reviewed, asked,
                   ended, tries>>

GalleryNext ==
    \/ OpenGallery \/ CloseGallery \/ TypeUrl \/ SetMode \/ Back
    \/ Browse \/ Preview \/ Install
    \/ \E n \in Dialogs : \/ IndexArrives(n) \/ PreviewArrives(n) \/ FlowFails(n)
                          \/ HostInstalls(n) \/ HostPlaces(n) \/ HostImports(n) \/ Finish(n)
    \/ Navigate \/ TabDeleted \/ ApproveWidget \/ ApproveGrant

GallerySpec == GalleryInit /\ [][GalleryNext]_galleryVars

-----------------------------------------------------------------------------

GalleryTypeOK ==
    /\ gallery \in 0..MaxDialogs /\ active \in PageTabs
    /\ registry \in [Names -> {"none", "pending", "approved"}]
    /\ \A c \in Connectors : grants[c].status \in {"none", "requested", "granted"}

\* The dialog is busy exactly while something it asked for is under way, so its
\* buttons neither start two things at once nor stay disabled: whatever is typed,
\* turned to or closed meanwhile, and whatever an older dialog still does.
BusyWhileWorking ==
    gallery # 0 => (dialog[gallery].busy <=> flow[gallery].kind # "none")

\* "a name already on disk is never clobbered by an install, so an install cannot
\* swap an approved widget's code": an approved widget runs the code that was there
\* when an operator approved it, though the name may come and go with imports.
ApprovedCodeStays ==
    \A w \in Names : registry[w] = "approved" => codeOf[w] = reviewed[w]

\* "installing can never grant": after an import only the connectors and tools the
\* recipe's page listed are there to be decided on or were granted since, each tool
\* under the connector that runs it.
AsksWhatItListed ==
    asked # Nothing =>
       \A c \in Connectors :
          grants[c].status # "none" =>
             /\ c \in DOMAIN Needs[asked] /\ grants[c].tools \subseteq Needs[asked][c]
             /\ \A tool \in grants[c].tools : tool[1] = c

GalleryHonest == BusyWhileWorking /\ ApprovedCodeStays /\ AsksWhatItListed
=============================================================================
