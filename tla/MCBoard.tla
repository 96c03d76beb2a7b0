------------------------------ MODULE MCBoard -------------------------------
(* Two operators, two tab names, two widget ids on a grid of three columns; *)
(* or, in behaviours of their own, one chat turn with every feature.        *)
EXTENDS Board, ChatTurns

VARIABLE focus

MCTabNames  == <<"a", "b">>
MCWidgetIds == <<"v", "w">>
W(id, grid) == [id |-> id, grid |-> grid, hidden |-> FALSE]
T(slug, owner, widgets) == [slug |-> slug, owner |-> owner, widgets |-> widgets]

MCGrids == {Rect(0, 0, 1, 1), Rect(2, 0, 2, 1)}
MCAsked == {Rect(x, y, w, 1) : x \in {-1, 0, 1}, y \in {0, 1}, w \in {1, 4}}

\* No tab, one tab, or two of which one is private.
MCStartDocs ==
  {[tabs |-> <<>>, order |-> <<>>],
   [tabs |-> <<T("a", Shared, <<W("v", Rect(0, 0, 2, 1))>>)>>, order |-> <<"a">>],
   [tabs |-> <<T("b", "bob", <<W("w", Rect(0, 0, 1, 1)), W("v", Rect(0, 1, 2, 1))>>),
               T("a", Shared, <<>>)>>,
    order |-> <<"b", "a">>]}

\* An agent's document with an order that omits a tab, and an invalid one.
MCAgentDocs ==
  {[tabs  |-> <<T("b", Shared, <<>>), T("a", Shared, <<W("w", Rect(0, 0, 1, 1))>>)>>,
    order |-> <<"a">>],
   [tabs |-> <<T("a", Shared, <<>>)>>, order |-> <<"b">>]}

MCInit == BoardInit /\ Init /\ focus \in {"board", "chat"}
          /\ (focus # "board" => doc.tabs = <<>>)

MCNext ==
    /\ UNCHANGED focus
    /\ \/ focus = "board" /\ BoardNext /\ UNCHANGED vars
       \/ focus = "chat" /\ Next /\ UNCHANGED boardVars

MCSpec ==
    /\ MCInit /\ [][MCNext]_<<boardVars, vars, focus>>
    /\ \A t \in Turns : WF_vars(focus = "chat" /\ Advance(t) /\ UNCHANGED <<boardVars, focus>>)
=============================================================================
