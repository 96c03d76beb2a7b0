------------------------------ MODULE MCPresence -----------------------------
(* Two operators, one page each, on boards of two tabs of which one may be   *)
(* hidden, gone or of an agent.                                             *)
EXTENDS Presence, TLC

CONSTANTS p1, p2, ann, bob, main, ops

MCOperatorOf == p1 :> ann @@ p2 :> bob
MCTabRec(slug, hidden, by) == [slug |-> slug, hidden |-> hidden, by |-> by]
MCBoards == {<<MCTabRec(main, FALSE, "user"), MCTabRec(ops, FALSE, "agent")>>,
             <<MCTabRec(main, TRUE, "user"), MCTabRec(ops, FALSE, "user")>>,
             <<MCTabRec(ops, FALSE, "agent")>>}
=============================================================================
