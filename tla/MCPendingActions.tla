-------------------------- MODULE MCPendingActions --------------------------
(* PendingActions with a readOnly tool, a mutating tool and one on           *)
(* auto-confirm, one agent with an identity and one caller without.          *)
EXTENDS PendingActions, TLC

CONSTANTS k1, k2, a1, a2, w1, look, send, post, agent, anon

MCTools == {look, send, post}
MCActors == {agent, anon}

\* All that was requested, for everyone; all for the agent, one tool on auto-confirm.
WholeApproval == [whole |-> TRUE, tools |-> {}, auto |-> {}, scope |-> MCActors]
ScopedApproval == [whole |-> FALSE, tools |-> MCTools, auto |-> {post}, scope |-> {agent}]

OneApproval == {ScopedApproval}
WholeOnly == {WholeApproval}

Symmetry == Permutations({k1, k2}) \cup Permutations({a1, a2})
=============================================================================
