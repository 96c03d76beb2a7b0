------------------------------- MODULE MCDesk --------------------------------
(* Five parts around the host that share no state, one per behaviour: two    *)
(* networked transports, of which one makes two writes and the other calls   *)
(* an operator-only method; two bundles and a scaffold of one widget name;   *)
(* a connector installed with two shapes; an action button; and the store's  *)
(* undo ring on boards that carry no TTL (no sweep ever writes), with        *)
(* failures and crashes.                                                     *)
EXTENDS Wire, Install, Streams, ActionButton, MCStore

CONSTANTS c1, c2, write1, write2, approve

VARIABLE focus

MCClients == {c1, c2}
MCInvocations == {write1, write2, approve}
MCOwner == write1 :> c1 @@ write2 :> c1 @@ approve :> c2

MCInit ==
    /\ WireInit /\ InstallInit /\ StreamsInit /\ ButtonInit /\ Init
    /\ focus \in {"wire", "install", "streams", "button", "store"}

MCNext ==
    /\ UNCHANGED focus
    /\ \/ focus = "wire" /\ WireNext /\ UNCHANGED <<installVars, streamVars, buttonVars, vars>>
       \/ focus = "install" /\ InstallNext /\ UNCHANGED <<wireVars, streamVars, buttonVars, vars>>
       \/ focus = "streams" /\ StreamsNext /\ UNCHANGED <<wireVars, installVars, buttonVars, vars>>
       \/ focus = "button" /\ ButtonNext /\ UNCHANGED <<wireVars, installVars, streamVars, vars>>
       \/ focus = "store" /\ Next /\ UNCHANGED <<wireVars, installVars, streamVars, buttonVars>>

rest == <<installVars, streamVars, buttonVars, vars, focus>>
others == <<wireVars, installVars, streamVars, buttonVars, focus>>

MCSpec ==
    /\ MCInit /\ [][MCNext]_<<wireVars, rest>>
    /\ \A c \in Clients :
         /\ WF_wireVars(focus = "wire" /\ Carry(c) /\ UNCHANGED rest)
         /\ WF_wireVars(focus = "wire" /\ Ended(c) /\ Teardown(c) /\ UNCHANGED rest)
    /\ \A r \in Invocations :
         /\ WF_wireVars(focus = "wire" /\ Handle(r) /\ UNCHANGED rest)
         /\ WF_wireVars(focus = "wire" /\ Reply(r) /\ UNCHANGED rest)
    /\ WF_buttonVars(focus = "button" /\ ReceiveMessage
                     /\ UNCHANGED <<wireVars, installVars, streamVars, vars, focus>>)
    /\ \A c \in Callers : WF_vars(focus = "store" /\ Progress(c) /\ UNCHANGED others)
=============================================================================
