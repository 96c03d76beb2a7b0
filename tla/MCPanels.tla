------------------------------ MODULE MCPanels -------------------------------
(* Answers that come late, overtake each other or come in parts, in six      *)
(* places that share no state, one per behaviour: the shown document under   *)
(* slow reads, the history panel while others commit and undo, the gallery   *)
(* with two bundles of one widget name and a recipe that uses that name, the *)
(* agent's reader of a provider's answer with two calls of one tool, the     *)
(* operator queue while agents ask for more, and a chat widget whose page    *)
(* mounts it again.                                                          *)
EXTENDS MCClientSync, History, Gallery, ModelStream, MCApprovals, ChatFace

CONSTANTS t1, t2, w1, w2, u1, u2, b1, b2, r1, r2, nm, k1, k2

VARIABLE focus

Placed(tab, rect, title, by) == [tab |-> tab, rect |-> rect, title |-> title, by |-> by]
Laid(tabs, widgets) == [tabs |-> tabs, widgets |-> widgets]

LayA == Laid(t1 :> "A", w1 :> Placed(t1, 0, "x", "agent"))
LayB == Laid(t1 :> "A", <<>>)
LayC == Laid(t1 :> "B" @@ t2 :> "A",
             w1 :> Placed(t2, 0, "y", "agent") @@ w2 :> Placed(t1, 0, "z", "user"))

MCLayouts == {LayA, LayB, LayC}
MCStart == <<LayA, LayC, LayA>>

\* The layouts committed while the page is open, in this order.
MCEdits == <<LayB, LayC>>

\* The second recipe lists a tool of k2 under k1 and is refused.
MCWidgetName  == [b \in {b1, b2} |-> nm]
MCIndex       == u1 :> {b1, r1} @@ u2 :> {b2, r2}
MCNeeds       == r1 :> (k1 :> {<<k1, "read">>}) @@ r2 :> (k1 :> {<<k2, "write">>})
MCCarries     == r1 :> (k2 :> {<<k2, "write">>}) @@ r2 :> <<>>
MCRecipeTab   == [r \in {r1, r2} |-> t2]
MCRecipeNames == [r \in {r1, r2} |-> {nm}]

MCTool == <<"search", "search">>
MCFragments == <<2, 1>>

MCInit == Init /\ HistInit /\ GalleryInit /\ StreamInit /\ ApprovalInit /\ FaceInit
          /\ focus \in {"document", "history", "gallery", "answer", "approvals", "chat"}
          /\ (focus # "answer" => manner = "blocks")

MCNext ==
    /\ UNCHANGED focus
    /\ \/ focus = "document" /\ Next /\ UNCHANGED <<histVars, galleryVars, streamVars, approvalVars, faceVars>>
       \/ /\ focus = "history" /\ HistNext /\ UNCHANGED <<vars, galleryVars, streamVars, approvalVars, faceVars>>
          /\ saves' # saves => current'.layout = MCEdits[saves']
       \/ focus = "gallery" /\ GalleryNext /\ UNCHANGED <<vars, histVars, streamVars, approvalVars, faceVars>>
       \/ focus = "answer" /\ StreamNext /\ UNCHANGED <<vars, histVars, galleryVars, approvalVars, faceVars>>
       \/ focus = "approvals" /\ ApprovalNext /\ UNCHANGED <<vars, histVars, galleryVars, streamVars, faceVars>>
       \/ focus = "chat" /\ FaceNext /\ UNCHANGED <<vars, histVars, galleryVars, streamVars, approvalVars>>

MCSpec == MCInit /\ [][MCNext]_<<vars, histVars, galleryVars, streamVars, approvalVars,
                                 faceVars, focus>>
=============================================================================
