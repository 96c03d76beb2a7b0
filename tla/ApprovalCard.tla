----------------------------- MODULE ApprovalCard ----------------------------
(* The operator queue of a board (builtin:approvals): requested grants,      *)
(* pending widgets and granted grants as rows with boxes for the tools, for  *)
(* "always allow" and for a lease. The page renders the document it has; an  *)
(* operator ticks boxes and decides; the host decides on the document it has *)
(* by then, while agents ask for more and leases lapse. A box or an input    *)
(* belongs to a place in the list, not to a grant: rendering other rows puts *)
(* other names next to it and leaves what the operator did to it.            *)
EXTENDS Naturals, Sequences, FiniteSets, SequencesExt

CONSTANTS
    ConnOrder,    \* the connectors, in the registry's order
    ToolOrder,    \* their tools, in the order grants list them
    CustomOrder,  \* the custom widgets
    FirstAsk,     \* the tools each grant asks for at first
    Limit,        \* rows shown (props.limit)
    All,          \* the decision carries no tools
    MaxTouches, MaxAsks   \* bounds: what the operator does, what agents and leases do

Conns == Range(ConnOrder)
ToolIds == Range(ToolOrder)
Customs == Range(CustomOrder)

ASSUME ApprovalAssumption ==
    /\ FirstAsk \in [Conns -> SUBSET ToolIds] /\ Limit \in Nat
    /\ MaxTouches \in Nat /\ MaxAsks \in Nat

VARIABLES
    registered, \* the host's document: its grants and the status of its widgets
    rendered,   \* the document the page shows
    cells,      \* per row shown: its boxes, one per tool, and whether a lease is typed
    decided,    \* decisions on their way to the host
    clicked,    \* history: the tools that were ticked when each grant was approved last
    touches, asks

approvalVars == <<registered, rendered, cells, decided, clicked, touches, asks>>

Ask(tools) == [status |-> "requested", tools |-> tools, autoConfirm |-> {}, lease |-> FALSE]

-----------------------------------------------------------------------------
(* The rows of a document. *)

Listed(tools) == SelectSeq(ToolOrder, LAMBDA tool : tool \in tools)

\* Only a granted row says which tools are always allowed.
GrantRow(c, grant) ==
    [kind |-> "capability", id |-> c, tools |-> Listed(grant.tools),
     granted |-> grant.status = "granted",
     autoConfirm |-> IF grant.status = "granted" THEN grant.autoConfirm ELSE {}]

WidgetRow(w) ==
    [kind |-> "widget", id |-> w, tools |-> <<>>, granted |-> FALSE, autoConfirm |-> {}]

\* What waits for a decision first; a grant without tools and lease needs no row.
Queue(doc) ==
    LET Grants(Shown(_)) ==
            LET conns == SelectSeq(ConnOrder, LAMBDA c : Shown(doc.grants[c]))
            IN  [i \in DOMAIN conns |-> GrantRow(conns[i], doc.grants[conns[i]])]
        Pending == SelectSeq(CustomOrder, LAMBDA w : doc.widgets[w] = "pending")
    IN  Grants(LAMBDA g : g.status = "requested")
          \o [i \in DOMAIN Pending |-> WidgetRow(Pending[i])]
          \o Grants(LAMBDA g : g.status = "granted" /\ (g.tools # {} \/ g.lease))

Rows == LET all == Queue(rendered)
        IN  SubSeq(all, 1, IF Len(all) < Limit THEN Len(all) ELSE Limit)

-----------------------------------------------------------------------------
(* The boxes. *)

\* A new box is ticked; whether it is always allowed follows the grant. The
\* operator's own hand is `touched`: for which row and tool.
NewBox(row, tool) ==
    [on |-> TRUE, auto |-> tool \in row.autoConfirm, touched |-> <<>>, autoTouched |-> FALSE]

\* An attribute changes a box only until the operator has touched it.
KeptBox(box, row, tool) ==
    [box EXCEPT !.auto = IF box.autoTouched THEN @ ELSE tool \in row.autoConfirm]

Rerendered(rows) ==
    [i \in DOMAIN rows |->
       [boxes |-> [j \in DOMAIN rows[i].tools |->
                     IF i \in DOMAIN cells /\ j \in DOMAIN cells[i].boxes
                     THEN KeptBox(cells[i].boxes[j], rows[i], rows[i].tools[j])
                     ELSE NewBox(rows[i], rows[i].tools[j])],
        ttl |-> i \in DOMAIN cells /\ rows[i].kind = "capability" /\ cells[i].ttl]]

ApprovalInit ==
    /\ registered = [grants |-> [c \in Conns |-> Ask(FirstAsk[c])],
                     widgets |-> [w \in Customs |-> "pending"]]
    /\ rendered = registered
    /\ cells = [i \in DOMAIN Rows |-> [boxes |-> [j \in DOMAIN Rows[i].tools |->
                                                    NewBox(Rows[i], Rows[i].tools[j])],
                                       ttl |-> FALSE]]
    /\ decided = <<>> /\ clicked = [c \in Conns |-> All] /\ touches = 0 /\ asks = 0

\* The page fetched the document and renders it.
Render ==
    /\ rendered # registered
    /\ rendered' = registered /\ cells' = Rerendered(Rows')
    /\ UNCHANGED <<registered, decided, clicked, touches, asks>>

-----------------------------------------------------------------------------
(* The operator. *)

Touch == touches < MaxTouches /\ touches' = touches + 1

TickTool(i, j) ==
    /\ Touch
    /\ cells' = [cells EXCEPT ![i].boxes[j].on = ~ @,
                              ![i].boxes[j].touched = <<Rows[i].id, Rows[i].tools[j], Rows[i].granted>>]
    /\ UNCHANGED <<registered, rendered, decided, clicked, asks>>

TickAlways(i, j) ==
    /\ Touch
    /\ cells' = [cells EXCEPT ![i].boxes[j].auto = ~ @, ![i].boxes[j].autoTouched = TRUE]
    /\ UNCHANGED <<registered, rendered, decided, clicked, asks>>

TypeLease(i) ==
    /\ Touch /\ Rows[i].kind = "capability"
    /\ cells' = [cells EXCEPT ![i].ttl = ~ @]
    /\ UNCHANGED <<registered, rendered, decided, clicked, asks>>

TickedTools(i) == {Rows[i].tools[j] : j \in {k \in DOMAIN Rows[i].tools : cells[i].boxes[k].on}}
AlwaysTicked(i) == {Rows[i].tools[j] : j \in {k \in DOMAIN Rows[i].tools : cells[i].boxes[k].auto}}

\* Mutant: nothing ticked is sent as no choice.
ToolsIfAny(i) == IF TickedTools(i) = {} THEN All ELSE TickedTools(i)

\* A row with tools says which are ticked, also when none is.
ToolsDecided(i) == IF Rows[i].tools = <<>> THEN All ELSE TickedTools(i)

Approve(i) ==
    /\ Touch
    /\ decided' = Append(decided,
         IF Rows[i].kind = "widget" THEN [id |-> Rows[i].id, decision |-> "approved"]
         ELSE [id |-> Rows[i].id, decision |-> "granted", tools |-> ToolsDecided(i),
               autoConfirm |-> AlwaysTicked(i) \cap TickedTools(i), lease |-> cells[i].ttl,
               seen |-> IF Rows[i].tools = <<>> THEN All ELSE TickedTools(i)])
    /\ UNCHANGED <<registered, rendered, cells, clicked, asks>>

Deny(i) ==
    /\ Touch
    /\ decided' = Append(decided,
         [id |-> Rows[i].id, decision |-> IF Rows[i].kind = "widget" THEN "rejected" ELSE "revoked"])
    /\ UNCHANGED <<registered, rendered, cells, clicked, asks>>

-----------------------------------------------------------------------------
(* The host. *)

Revoked(grant) ==
    [status |-> "revoked", tools |-> grant.tools, autoConfirm |-> {}, lease |-> FALSE]

\* Mutant: an approval grants whatever is asked for by then.
GrantsAll(grant, d) == grant.tools

\* Of what is asked for by now, the tools the operator ticked.
GrantedTools(grant, d) == IF d.tools = All THEN grant.tools ELSE grant.tools \cap d.tools

\* What the operator leaves open is cleared; always-allowed tools that are not
\* granted make the host refuse.
HostDecides ==
    /\ decided # <<>> /\ decided' = Tail(decided)
    /\ LET d == Head(decided)
       IN  IF d.decision \in {"approved", "rejected"}
           THEN registered' = [registered EXCEPT !.widgets[d.id] = d.decision] /\ UNCHANGED clicked
           ELSE LET grant == registered.grants[d.id]
                IN  IF d.decision = "revoked"
                    THEN registered' = [registered EXCEPT !.grants[d.id] = Revoked(grant)]
                         /\ UNCHANGED clicked
                    ELSE IF ~ d.autoConfirm \subseteq GrantedTools(grant, d)
                    THEN UNCHANGED <<registered, clicked>>
                    ELSE /\ registered' = [registered EXCEPT !.grants[d.id] =
                              [status |-> "granted", tools |-> GrantedTools(grant, d),
                               autoConfirm |-> d.autoConfirm, lease |-> d.lease]]
                         /\ clicked' = [clicked EXCEPT ![d.id] = d.seen]
    /\ UNCHANGED <<rendered, cells, touches, asks>>

\* An agent asks for more of a connector: the grant is requested anew.
AgentAsks ==
    /\ asks < MaxAsks /\ asks' = asks + 1
    /\ \E c \in Conns, tool \in ToolIds :
         registered' = [registered EXCEPT !.grants[c] = Ask(@.tools \cup {tool})]
    /\ UNCHANGED <<rendered, cells, decided, clicked, touches>>

LeaseLapses ==
    /\ asks < MaxAsks /\ asks' = asks + 1
    /\ \E c \in Conns :
         /\ registered.grants[c].status = "granted" /\ registered.grants[c].lease
         /\ registered' = [registered EXCEPT !.grants[c] = Ask(@.tools)]
    /\ UNCHANGED <<rendered, cells, decided, clicked, touches>>

ApprovalNext ==
    \/ Render \/ HostDecides \/ AgentAsks \/ LeaseLapses
    \/ \E i \in DOMAIN Rows :
         \/ Approve(i) \/ Deny(i) \/ TypeLease(i)
         \/ \E j \in DOMAIN Rows[i].tools : TickTool(i, j) \/ TickAlways(i, j)

ApprovalSpec == ApprovalInit /\ [][ApprovalNext]_approvalVars

-----------------------------------------------------------------------------

ApprovalTypeOK ==
    /\ DOMAIN cells = DOMAIN Rows
    /\ \A i \in DOMAIN cells : DOMAIN cells[i].boxes = DOMAIN Rows[i].tools

\* "unticking all grants nothing, never approve-all", and "a stale tick never leaks
\* through": a grant holds no tool that was not ticked in its row when an operator
\* approved it, whatever an agent asked for between the click and the decision, and
\* whichever row a box belonged to before. (A row without tools grants what it gets.)
GrantsOnlyTicked ==
    \A c \in Conns :
       LET grant == registered.grants[c]
       IN  grant.status = "granted" /\ clicked[c] # All =>
             grant.tools \subseteq clicked[c] /\ grant.autoConfirm \subseteq grant.tools

\* approvals.ts:110 "A granted row's tools are already granted (pre-ticked)": an
\* unticked box of a granted row was unticked by the operator there.
GrantedRowsTicked ==
    \A i \in DOMAIN Rows : Rows[i].granted =>
       \A j \in DOMAIN Rows[i].tools :
          cells[i].boxes[j].on \/ cells[i].boxes[j].touched = <<Rows[i].id, Rows[i].tools[j], TRUE>>
=============================================================================
