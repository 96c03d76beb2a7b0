------------------------------ MODULE MCStore ------------------------------
(* Small instances of Store for TLC. *)
EXTENDS Store, TLC

CONSTANTS b0, b1, big, w1, n1, t1, t2, a1

Edits    == {[kind |-> "edit", body |-> b, ephemerals |-> {}] : b \in Bodies}
Answers  == {[kind |-> "edit", body |-> DefaultBody, ephemerals |-> {e}] : e \in Expiries}
Approval == {[kind |-> "widget", name |-> w, decision |-> "approved"] : w \in WidgetNames}
Requests == {[kind |-> "request", name |-> n, tools |-> Tools] : n \in Connectors}
Grants   == {[kind |-> "grant", name |-> n, tools |-> {t1}, autoConfirm |-> {},
              agents |-> {}, expiresAt |-> x] : n \in Connectors, x \in Expiries}
Revokes  == {[kind |-> "revoke", name |-> n] : n \in Connectors}
Undo     == {UndoOp}

\* An imported or agent-written document that claims every authority there is.
Claim == [DefaultDoc EXCEPT
  !.widgets = [w \in WidgetNames |-> "approved"],
  !.grants  = [n \in Connectors |->
    [NoGrant EXCEPT !.status = "granted", !.tools = Tools, !.autoConfirm = {t1}]]]
\* The same claim over the tool an operator may have granted, without its lease.
Extend == [Claim EXCEPT !.grants = [n \in Connectors |->
    [NoGrant EXCEPT !.status = "granted", !.tools = {t1}]]]
Replaces == {[kind |-> "replace", doc |-> d] : d \in {Claim, Extend}}

AuthorityOps == Requests \cup Grants \cup Revokes \cup Replaces \cup Approval \cup Undo
RingOps      == Edits \cup Undo
RaceOps      == Edits \cup Answers

Symmetry == Permutations(Callers)
=============================================================================
