------------------------------- MODULE Streams -------------------------------
(* A data connector of the host (server/connector.ts): what it serves is its *)
(* shape, its methods and streams. Installing it asks for a grant without    *)
(* waiting for the store; a tick of a stream and a read each look at the     *)
(* registry first and go on later, whatever was decided meanwhile.           *)
EXTENDS Naturals, Sequences

CONSTANTS
    Shapes,       \* the method and stream sets the connector is installed with
    MaxInstalls,  \* bound: installations, each a start of the host
    MaxChanges,   \* bound: decisions and undos
    NoShape

ASSUME StreamsAssumption ==
    NoShape \notin Shapes /\ MaxInstalls \in Nat /\ MaxChanges \in Nat

VARIABLES
    serving,    \* the shape of the running connector
    request,    \* the installation's mutate has not been run yet
    grant,      \* capabilitiesRegistry[name]
    past,       \* the snapshots of the entry undo can restore
    tick,       \* a tick or read under way, with what it found
    sent,       \* history: what was served, and under which grant
    undone,     \* history: an undo took place since the installation
    installs, changes

streamVars == <<serving, request, grant, past, tick, sent, undone, installs, changes>>

NoEntry == [status |-> "none", shape |-> NoShape]
Idle    == [stage |-> "idle", shape |-> NoShape, early |-> FALSE]

StreamsInit ==
    /\ serving = NoShape /\ request = FALSE
    /\ grant = NoEntry /\ past = <<>>
    /\ tick = Idle
    /\ sent = {} /\ undone = FALSE
    /\ installs = 0 /\ changes = 0

CommitGrant(entry) == grant' = entry /\ past' = Append(past, grant)

\* installConnector, on a host that starts: the mutate is on its way, the reads
\* and the intervals are there already. (stop() ends the intervals, not the reads.)
InstallConnector(s) ==
    /\ installs < MaxInstalls /\ installs' = installs + 1
    /\ serving' = s /\ request' = TRUE
    /\ tick' = Idle /\ undone' = FALSE
    /\ UNCHANGED <<grant, past, sent, changes>>

\* Mutant: any grant of the connector is taken for one of its shape.
SameShapeAny == grant # NoEntry

SameShape == grant # NoEntry /\ grant.shape = serving

\* The grant of an unchanged shape keeps its status, another shape is requested.
RequestGrant ==
    /\ request /\ request' = FALSE
    /\ IF SameShape THEN UNCHANGED grant /\ past' = Append(past, grant)
       ELSE CommitGrant([status |-> "requested", shape |-> serving])
    /\ UNCHANGED <<serving, tick, sent, undone, installs, changes>>

\* Nobody waits for that mutate, so nobody handles its failure: the host ends.
RequestFails ==
    /\ request /\ request' = FALSE
    /\ serving' = NoShape /\ tick' = Idle
    /\ UNCHANGED <<grant, past, sent, undone, installs, changes>>

Change == changes < MaxChanges /\ changes' = changes + 1

DecideGrant ==
    /\ Change /\ grant # NoEntry
    /\ \E status \in {"granted", "revoked"} : CommitGrant([grant EXCEPT !.status = status])
    /\ UNCHANGED <<serving, request, tick, sent, undone, installs>>

UndoGrant ==
    /\ Change /\ past # <<>>
    /\ grant' = past[Len(past)] /\ past' = SubSeq(past, 1, Len(past) - 1)
    /\ undone' = TRUE
    /\ UNCHANGED <<serving, request, tick, sent, installs>>

\* A tick, while the intervals run, or a read at any time: isGranted ...
CheckGrant ==
    /\ serving # NoShape /\ tick = Idle
    /\ grant.status = "granted"
    /\ tick' = [stage |-> "granted", shape |-> grant.shape, early |-> request]
    /\ UNCHANGED <<serving, request, grant, past, sent, undone, installs, changes>>

\* ... and then, whatever the grant is by now, the broadcast or the answer.
SendData ==
    /\ tick.stage = "granted"
    /\ sent' = sent \cup {[shape |-> serving, grant |-> tick.shape,
                           excused |-> tick.early \/ undone]}
    /\ tick' = Idle
    /\ UNCHANGED <<serving, request, grant, past, undone, installs, changes>>

StreamsNext ==
    \/ \E s \in Shapes : InstallConnector(s)
    \/ RequestGrant \/ RequestFails \/ DecideGrant \/ UndoGrant
    \/ CheckGrant \/ SendData

StreamsSpec == StreamsInit /\ [][StreamsNext]_streamVars

StreamsTypeOK ==
    /\ serving \in Shapes \cup {NoShape} /\ request \in BOOLEAN
    /\ grant.status \in {"none", "requested", "granted", "revoked"}
    /\ grant.shape \in Shapes \cup {NoShape}
    /\ tick.stage \in {"idle", "granted"} /\ installs <= MaxInstalls /\ changes <= MaxChanges

\* "A connector changing what it reaches must be re-approved": what a connector
\* serves was approved for its shape, except before its own request is committed
\* and after an undo, either of which leaves it with the grant of another shape.
ShapeApproved == \A s \in sent : s.shape = s.grant \/ s.excused

\* The same without the exceptions.
ServesApprovedShape == \A s \in sent : s.shape = s.grant
=============================================================================
