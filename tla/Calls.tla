-------------------------------- MODULE Calls --------------------------------
(* What a networked transport promises to those who call through it          *)
(* (transport-ws.ts over ws-transport.ts, standing in for the in-process     *)
(* host of server/host.ts): a call settles once; an error answer means that  *)
(* nothing was done; a write is answered after its caller heard of it; when  *)
(* the connection ends everything still waiting on it fails together.        *)
EXTENDS FiniteSets

CONSTANTS
    Clients,  \* transports
    Invocations,  \* the calls made, each once
    Owner,    \* the transport a call is made through
    Writes,   \* the calls whose handler broadcasts `boardstate.changed`
    Blocked   \* the calls of OPERATOR_ONLY_METHODS

VARIABLES
    outcome,  \* the promise a call returned: "new", "waiting", "ok", "error" or "lost"
    over,     \* transports that are closed
    done,     \* calls the host carried out
    heard     \* writes a transport's listeners were told of

vars == <<outcome, over, done, heard>>

Init ==
    /\ outcome = [r \in Invocations |-> "new"]
    /\ over = {}
    /\ done = {}
    /\ heard = [c \in Clients |-> {}]

\* A call through an open transport waits, one through a closed transport fails at once.
Ask(r) ==
    /\ outcome[r] = "new"
    /\ outcome' = [outcome EXCEPT ![r] = IF Owner[r] \in over THEN "lost" ELSE "waiting"]
    /\ UNCHANGED <<over, done, heard>>

\* The host carries a call out, its caller may be gone by then.
Perform(r) ==
    /\ outcome[r] \in {"waiting", "lost"} /\ r \notin done \cup Blocked
    /\ done' = done \cup {r}
    /\ UNCHANGED <<outcome, over, heard>>

Hear(c, r) ==
    /\ c \notin over /\ r \in done \cap Writes
    /\ heard' = [heard EXCEPT ![c] = @ \cup {r}]
    /\ UNCHANGED <<outcome, over, done>>

Answer(r) ==
    /\ outcome[r] = "waiting"
    /\ \/ r \in done /\ (r \in Writes => r \in heard[Owner[r]])
          /\ outcome' = [outcome EXCEPT ![r] = "ok"]
       \/ r \notin done /\ outcome' = [outcome EXCEPT ![r] = "error"]
    /\ UNCHANGED <<over, done, heard>>

Close(c) ==
    /\ c \notin over /\ over' = over \cup {c}
    /\ outcome' = [r \in Invocations |->
          IF Owner[r] = c /\ outcome[r] = "waiting" THEN "lost" ELSE outcome[r]]
    /\ UNCHANGED <<done, heard>>

Next ==
    \/ \E r \in Invocations : Ask(r) \/ Perform(r) \/ Answer(r)
    \/ \E c \in Clients : Close(c) \/ \E r \in Invocations : Hear(c, r)

Safety == Init /\ [][Next]_vars

\* Every call settles, and it settled once (Safety has no step from a settled call).
Settles == \A r \in Invocations : outcome[r] = "waiting" ~> outcome[r] # "waiting"

Spec == Safety /\ Settles
=============================================================================
