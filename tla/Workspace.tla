----------------------------- MODULE Workspace -----------------------------
(***************************************************************************)
(* The workspace document of boardstate and the pure functions that the    *)
(* store and its callers apply to it: the lazy TTL sweep, the approval     *)
(* gate of a full-document replace, and the registry decisions.            *)
(*                                                                         *)
(* Abstractions.  Tabs, widgets and preferences are one opaque `body'.     *)
(* An ephemeral widget is its expiry time, an absent `expiresAt' is Never. *)
(* `tools' stands for the authorised tool ids with their toolsHash; an     *)
(* empty `agents' or `autoConfirm' is the absent key.                      *)
(***************************************************************************)
EXTENDS Naturals

CONSTANTS Bodies,       \* contents of tabs, widgets and prefs
          DefaultBody,  \* the contents of DEFAULT_DASHBOARD_WORKSPACE
          TooLarge,     \* bodies whose document exceeds MAX_WORKSPACE_BYTES
          WidgetNames,  \* custom widget names
          Connectors,   \* connector names
          Tools,        \* connector:tool ids
          Agents,       \* agent actors
          Expiries      \* instants an expiresAt may carry

Never == 0

ASSUME BodiesAssumption == DefaultBody \in Bodies \ TooLarge
ASSUME ExpiriesAssumption == Expiries \subseteq Nat \ {Never}

GrantStatus == {"absent", "requested", "granted", "revoked"}
WidgetStatus == {"absent", "pending", "approved", "rejected"}

Grant == [status      : GrantStatus,
          tools       : SUBSET Tools,
          autoConfirm : SUBSET Tools,
          agents      : SUBSET Agents,
          expiresAt   : Expiries \cup {Never}]

Doc == [workspaceVersion : Nat,
        body             : Bodies,
        ephemerals       : SUBSET Expiries,
        widgets          : [WidgetNames -> WidgetStatus],
        grants           : [Connectors -> Grant]]

NoGrant == [status |-> "absent", tools |-> {}, autoConfirm |-> {},
            agents |-> {}, expiresAt |-> Never]

DefaultDoc == [workspaceVersion |-> 1,
               body             |-> DefaultBody,
               ephemerals       |-> {},
               widgets          |-> [w \in WidgetNames |-> "absent"],
               grants           |-> [n \in Connectors |-> NoGrant]]

(***************************************************************************)
(* TTL sweep                                                               *)
(***************************************************************************)
\* A grant back to `requested', stripped of everything only an operator sets.
RePended(g) == [g EXCEPT !.status = "requested", !.autoConfirm = {},
                         !.agents = {}, !.expiresAt = Never]

Lapsed(g, now) == g.status = "granted" /\ g.expiresAt # Never /\ g.expiresAt <= now

ExpiredWidgets(doc, now) == {e \in doc.ephemerals : e <= now}
LapsedGrants(doc, now)   == {n \in Connectors : Lapsed(doc.grants[n], now)}

SweepEphemeral(doc, now) ==
  IF ExpiredWidgets(doc, now) = {} THEN doc
  ELSE [doc EXCEPT !.ephemerals = @ \ ExpiredWidgets(doc, now),
                   !.workspaceVersion = @ + 1]

SweepGrants(doc, now) ==
  IF LapsedGrants(doc, now) = {} THEN doc
  ELSE [doc EXCEPT !.grants = [n \in Connectors |->
                                 IF n \in LapsedGrants(doc, now)
                                 THEN RePended(doc.grants[n]) ELSE doc.grants[n]],
                   !.workspaceVersion = @ + 1]

Sweep(doc, now) == SweepGrants(SweepEphemeral(doc, now), now)

NeedsSweep(doc, now) ==
  ExpiredWidgets(doc, now) # {} \/ LapsedGrants(doc, now) # {}

(***************************************************************************)
(* Full-document replace                                                   *)
(***************************************************************************)
\* What only an operator may change on a grant that stays granted.
OperatorSurface(g) == <<g.tools, g.autoConfirm, g.agents, g.expiresAt>>

\* (mutant) Only elevation is caught; a grant that stays granted may widen.
ReconcileElevationOnly(incoming, current) ==
  IF incoming.status = "granted" /\ current.status # "granted"
  THEN RePended(incoming) ELSE incoming

ReconcileGrant(incoming, current) ==
  LET selfElevated   == current.status # "granted"
      surfaceMutated == OperatorSurface(incoming) # OperatorSurface(current)
  IN  IF incoming.status = "granted" /\ (selfElevated \/ surfaceMutated)
      THEN RePended(incoming) ELSE incoming

ReconcileWidget(incoming, current) ==
  IF incoming = "approved" /\ current # "approved" THEN "pending" ELSE incoming

Reconcile(incoming, current) ==
  [incoming EXCEPT
     !.widgets = [w \in WidgetNames |->
                    ReconcileWidget(incoming.widgets[w], current.widgets[w])],
     !.grants  = [n \in Connectors |->
                    ReconcileGrant(incoming.grants[n], current.grants[n])]]

(***************************************************************************)
(* The mutations callers pass to DashboardStore.mutate                     *)
(***************************************************************************)
EditOp    == [kind : {"edit"}, body : Bodies, ephemerals : SUBSET Expiries]
ReplaceOp == [kind : {"replace"}, doc : Doc]
WidgetOp  == [kind : {"widget"}, name : WidgetNames,
              decision : {"approved", "rejected"}]
GrantOp   == [kind : {"grant"}, name : Connectors, tools : SUBSET Tools,
              autoConfirm : SUBSET Tools, agents : SUBSET Agents,
              expiresAt : Expiries \cup {Never}]
RevokeOp  == [kind : {"revoke"}, name : Connectors]
RequestOp == [kind : {"request"}, name : Connectors, tools : SUBSET Tools]
MutateOp  == EditOp \cup ReplaceOp \cup WidgetOp \cup GrantOp \cup RevokeOp
               \cup RequestOp

Granted(o, g) == [g EXCEPT !.status = "granted", !.tools = @ \cap o.tools,
                           !.autoConfirm = o.autoConfirm, !.agents = o.agents,
                           !.expiresAt = o.expiresAt]

Revoked(g) == [g EXCEPT !.status = "revoked", !.autoConfirm = {},
                        !.agents = {}, !.expiresAt = Never]

Requested(o, g) == RePended([g EXCEPT !.tools = @ \cup o.tools])

\* The document a producer returns from the current one (version not yet bumped).
Produced(o, doc) ==
  CASE o.kind = "edit"    -> [doc EXCEPT !.body = o.body, !.ephemerals = o.ephemerals]
    [] o.kind = "replace" -> Reconcile(o.doc, doc)
    [] o.kind = "widget"  -> [doc EXCEPT !.widgets[o.name] = o.decision]
    [] o.kind = "grant"   -> [doc EXCEPT !.grants[o.name] = Granted(o, @)]
    [] o.kind = "revoke"  -> [doc EXCEPT !.grants[o.name] = Revoked(@)]
    [] o.kind = "request" -> [doc EXCEPT !.grants[o.name] = Requested(o, @)]

\* The producer does not throw, and its document passes validation and the cap.
Accepted(o, doc) ==
  /\ o.kind \in {"grant", "revoke"} => doc.grants[o.name].status # "absent"
  /\ o.kind = "grant" => o.autoConfirm \subseteq doc.grants[o.name].tools \cap o.tools
  /\ Produced(o, doc).body \notin TooLarge
=============================================================================
