----------------------------- MODULE ClientSync -----------------------------
(***************************************************************************)
(* Browser clients of one board: each shows a document it loaded, changes  *)
(* it optimistically, and refetches when boardstate.changed announces a    *)
(* newer version.  The server is the abstract store (UndoStack), whose     *)
(* undo takes the version back.                                            *)
(*                                                                         *)
(* A connection delivers the server's frames in order; requests are served *)
(* concurrently, in any order.  A shown document is the loaded one (base)  *)
(* under the optimistic changes laid over it: two views are the same       *)
(* JavaScript object exactly when they are equal here, since an operation  *)
(* in flight has its slot to itself.                                       *)
(***************************************************************************)
EXTENDS Naturals, Sequences

CONSTANTS Clients,
          Slots,       \* operations a client may have in flight
          Kinds,       \* the kinds of operation its user starts
          SlowReads,   \* two answers of workspace.get may overtake each other
          Depth,       \* undo snapshots the store keeps
          MaxCommits,  \* bound: mutations the server commits
          MaxDrops,    \* bound: connections lost
          MaxLayers,   \* bound: optimistic changes laid over one loaded document
          NoView,      \* nothing loaded yet
          Nobody       \* an agent or another program

OpKinds == {"edit", "plain", "replace", "undo"}

ASSUME KindsAssumption == Kinds \subseteq OpKinds
ASSUME BoundsAssumption == Depth \in Nat \ {0} /\ MaxCommits \in Nat
                          /\ MaxDrops \in Nat /\ MaxLayers \in Nat
ASSUME SlowAssumption == SlowReads \in BOOLEAN
ASSUME NobodyAssumption == Nobody \notin Clients \X Slots

Doc  == [workspaceVersion : Nat, body : Nat]
View == [base : Doc, layers : Seq(Slots)]

ASSUME NoViewAssumption == NoView \notin View

VARIABLES doc, past,    \* the store
          unannounced,  \* commits whose broadcast and answer are still to come
          commits, drops,
          connected,    \* the transport is up and the listener registered
          shown,        \* state.workspace
          error,        \* state.error: the view shows the error card
          fresh,        \* history: shown was loaded over this connection
          op,           \* operations in flight, by slot
          sent,         \* number of workspace.get requests not yet read
          held,         \* documents read, whose answers are not yet sent
          wire          \* frames on their way to the client

server == <<doc, past, unannounced, commits>>
client == <<connected, shown, error, fresh, op>>
link   == <<sent, held, wire>>
vars   == <<server, client, link, drops>>

Initial == [workspaceVersion |-> 1, body |-> 0]
Store == INSTANCE UndoStack

NoOp == [phase |-> "idle", kind |-> "plain", previous |-> NoView, optimistic |-> NoView]
Op   == [phase      : {"idle", "sent", "served"},
         kind       : OpKinds,
         previous   : View \cup {NoView},
         optimistic : View \cup {NoView}]

Announcement == [version : Nat, by : (Clients \X Slots) \cup {Nobody}]

Frame == [kind : {"changed"}, version : Nat] \cup [kind : {"doc"}, doc : Doc]
           \cup [kind : {"noDoc"}] \cup [kind : {"ok", "failed"}, slot : Slots]

Plain(d) == [base |-> d, layers |-> <<>>]

\* (mutant) The changed copy takes the version its commit is going to have.
LayeredBumped(view, o) == [view EXCEPT !.layers = Append(@, o), !.base.workspaceVersion = @ + 1]

Layered(view, o) == [view EXCEPT !.layers = Append(@, o)]

\* The view subscribes before it loads.
Init ==
  /\ Store!Init
  /\ unannounced = <<>> /\ commits = 0 /\ drops = 0
  /\ connected = [c \in Clients |-> TRUE]
  /\ shown = [c \in Clients |-> NoView]
  /\ error = [c \in Clients |-> FALSE]
  /\ fresh = [c \in Clients |-> FALSE]
  /\ op = [c \in Clients |-> [o \in Slots |-> NoOp]]
  /\ sent = [c \in Clients |-> 1]
  /\ held = [c \in Clients |-> <<>>]
  /\ wire = [c \in Clients |-> <<>>]

(***************************************************************************)
(* The server                                                              *)
(***************************************************************************)
Commit ==
  /\ commits < MaxCommits
  /\ commits' = commits + 1
  /\ doc' = [workspaceVersion |-> doc.workspaceVersion + 1, body |-> commits + 1]
  /\ Store!Commit

\* An agent's tool or another program changes the document.
OtherCommit ==
  /\ Commit
  /\ unannounced' = Append(unannounced, [version |-> doc'.workspaceVersion, by |-> Nobody])
  /\ UNCHANGED <<client, link, drops>>

\* ... or takes the latest change back.
OtherUndo ==
  /\ "undo" \in Kinds /\ Store!Undo
  /\ unannounced' = Append(unannounced, [version |-> doc'.workspaceVersion, by |-> Nobody])
  /\ UNCHANGED <<commits, client, link, drops>>

Forget == Store!Forget /\ UNCHANGED <<unannounced, commits, client, link, drops>>

Serve(c, o) ==
  /\ op[c][o].phase = "sent"
  /\ \/ op[c][o].kind # "undo" /\ Commit
     \/ op[c][o].kind = "undo" /\ Store!Undo /\ UNCHANGED commits
  /\ unannounced' = Append(unannounced, [version |-> doc'.workspaceVersion, by |-> <<c, o>>])
  /\ op' = [op EXCEPT ![c][o].phase = "served"]
  /\ UNCHANGED <<connected, shown, error, fresh, link, drops>>

\* Validation, a conflict, an I/O error or an empty ring.
Reject(c, o) ==
  /\ op[c][o].phase = "sent"
  /\ op' = [op EXCEPT ![c][o].phase = "served"]
  /\ wire' = [wire EXCEPT ![c] = Append(@, [kind |-> "failed", slot |-> o])]
  /\ UNCHANGED <<server, connected, shown, error, fresh, sent, held, drops>>

\* respondWrite: broadcast to everyone connected, then the caller's answer.
Announce ==
  LET a == Head(unannounced)
      changed == <<[kind |-> "changed", version |-> a.version]>>
      ok(c) == IF a.by # Nobody /\ a.by[1] = c
               THEN <<[kind |-> "ok", slot |-> a.by[2]]>> ELSE <<>>
  IN  /\ unannounced # <<>>
      /\ unannounced' = Tail(unannounced)
      /\ wire' = [c \in Clients |->
                    IF connected[c] THEN wire[c] \o changed \o ok(c) ELSE wire[c]]
      /\ UNCHANGED <<doc, past, commits, client, sent, held, drops>>

Read(c) ==
  /\ sent[c] > 0
  /\ sent' = [sent EXCEPT ![c] = @ - 1]
  /\ \/ /\ wire' = [wire EXCEPT ![c] = Append(@, [kind |-> "doc", doc |-> doc])]
        /\ UNCHANGED held
     \/ /\ SlowReads
        /\ held' = [held EXCEPT ![c] = Append(@, doc)]
        /\ UNCHANGED wire
     \/ /\ wire' = [wire EXCEPT ![c] = Append(@, [kind |-> "noDoc"])]
        /\ UNCHANGED held
  /\ UNCHANGED <<server, client, drops>>

\* The answer of a read that took its time.
AnswerLate(c) ==
  /\ \E i \in 1..Len(held[c]) :
       /\ wire' = [wire EXCEPT ![c] = Append(@, [kind |-> "doc", doc |-> held[c][i]])]
       /\ held' = [held EXCEPT ![c] = SubSeq(@, 1, i - 1) \o SubSeq(@, i + 1, Len(@))]
  /\ UNCHANGED <<server, client, sent, drops>>

(***************************************************************************)
(* The client                                                              *)
(***************************************************************************)
\* optimisticMutation and setTabLayout change what is shown at once; approve,
\* import and undo wait for the server.
Start(c, o) ==
  /\ connected[c] /\ op[c][o].phase = "idle"
  /\ \E k \in Kinds :
       \/ /\ k = "edit" /\ shown[c] # NoView /\ Len(shown[c].layers) < MaxLayers
          /\ shown' = [shown EXCEPT ![c] = Layered(@, o)]
          /\ op' = [op EXCEPT ![c][o] = [phase |-> "sent", kind |-> k,
                                         previous |-> shown[c], optimistic |-> shown'[c]]]
       \/ /\ k # "edit"
          /\ op' = [op EXCEPT ![c][o] = [NoOp EXCEPT !.phase = "sent", !.kind = k]]
          /\ UNCHANGED shown
  /\ UNCHANGED <<server, connected, error, fresh, link, drops>>

Arriving(c) == Head(wire[c])
Arrives(c, kind) == wire[c] # <<>> /\ Arriving(c).kind = kind

ShownVersion(c) == IF shown[c] = NoView THEN 0 ELSE shown[c].base.workspaceVersion

\* The boardstate.changed listener.
OnChanged(c) ==
  /\ Arrives(c, "changed")
  /\ wire' = [wire EXCEPT ![c] = Tail(@)]
  /\ sent' = IF Arriving(c).version <= ShownVersion(c) THEN sent
             ELSE [sent EXCEPT ![c] = @ + 1]
  /\ UNCHANGED <<server, client, held, drops>>

\* (mutant) An answer is not shown while a change of one's own is in flight.
OnDocUnlessBusy(c) ==
  /\ Arrives(c, "doc")
  /\ wire' = [wire EXCEPT ![c] = Tail(@)]
  /\ shown' = IF \E o \in Slots : op[c][o].kind = "edit" THEN shown
              ELSE [shown EXCEPT ![c] = Plain(Arriving(c).doc)]
  /\ error' = [error EXCEPT ![c] = FALSE]
  /\ fresh' = [fresh EXCEPT ![c] = TRUE]
  /\ UNCHANGED <<server, connected, op, sent, held, drops>>

\* loadWorkspace: the answer is shown, whatever is shown now.
OnDoc(c) ==
  /\ Arrives(c, "doc")
  /\ wire' = [wire EXCEPT ![c] = Tail(@)]
  /\ shown' = [shown EXCEPT ![c] = Plain(Arriving(c).doc)]
  /\ error' = [error EXCEPT ![c] = FALSE]
  /\ fresh' = [fresh EXCEPT ![c] = TRUE]
  /\ UNCHANGED <<server, connected, op, sent, held, drops>>

OnNoDoc(c) ==
  /\ Arrives(c, "noDoc")
  /\ wire' = [wire EXCEPT ![c] = Tail(@)]
  /\ error' = [error EXCEPT ![c] = TRUE]
  /\ UNCHANGED <<server, connected, shown, fresh, op, sent, held, drops>>

\* undo and import reload; the others leave it to the broadcast.
OnOk(c) ==
  /\ Arrives(c, "ok")
  /\ LET o == Arriving(c).slot
     IN  /\ op' = [op EXCEPT ![c][o] = NoOp]
         /\ sent' = IF op[c][o].kind \in {"replace", "undo"}
                    THEN [sent EXCEPT ![c] = @ + 1] ELSE sent
  /\ wire' = [wire EXCEPT ![c] = Tail(@)]
  /\ UNCHANGED <<server, connected, shown, error, fresh, held, drops>>

\* (mutant) A failed change always goes back to what was there before it.
RevertAlways(c, o) == IF op[c][o].kind = "edit" THEN op[c][o].previous ELSE shown[c]

\* What is shown after o failed: only its very own document is taken back.
Reverted(c, o) == IF shown[c] = op[c][o].optimistic THEN op[c][o].previous ELSE shown[c]

OnFailed(c) ==
  /\ Arrives(c, "failed")
  /\ LET o == Arriving(c).slot
     IN  /\ shown' = [shown EXCEPT ![c] = Reverted(c, o)]
         /\ op' = [op EXCEPT ![c][o] = NoOp]
  /\ wire' = [wire EXCEPT ![c] = Tail(@)]
  /\ UNCHANGED <<server, connected, error, fresh, sent, held, drops>>

Deliver(c) == OnChanged(c) \/ OnDoc(c) \/ OnNoDoc(c) \/ OnOk(c) \/ OnFailed(c)

\* The reload button of the error card.
Reload(c) ==
  /\ connected[c] /\ error[c] /\ sent[c] = 0 /\ held[c] = <<>>
  /\ sent' = [sent EXCEPT ![c] = 1]
  /\ error' = [error EXCEPT ![c] = FALSE]
  /\ UNCHANGED <<server, connected, shown, fresh, op, held, wire, drops>>

Loading(c) == sent[c] > 0 \/ held[c] # <<>> \/ \E i \in 1..Len(wire[c]) : wire[c][i].kind = "doc"

\* The socket closes: every request in flight is rejected.
Drop(c) ==
  /\ connected[c] /\ drops < MaxDrops
  /\ drops' = drops + 1
  /\ connected' = [connected EXCEPT ![c] = FALSE]
  /\ fresh' = [fresh EXCEPT ![c] = FALSE]
  /\ error' = [error EXCEPT ![c] = @ \/ Loading(c)]
  /\ shown' = [shown EXCEPT ![c] =
                 IF \E o \in Slots : Reverted(c, o) # @
                 THEN Reverted(c, CHOOSE o \in Slots : Reverted(c, o) # @) ELSE @]
  /\ op' = [op EXCEPT ![c] = [o \in Slots |-> NoOp]]
  /\ unannounced' = [i \in 1..Len(unannounced) |->
                       [unannounced[i] EXCEPT !.by = IF @ # Nobody /\ @[1] = c
                                                     THEN Nobody ELSE @]]
  /\ sent' = [sent EXCEPT ![c] = 0]
  /\ held' = [held EXCEPT ![c] = <<>>]
  /\ wire' = [wire EXCEPT ![c] = <<>>]
  /\ UNCHANGED <<doc, past, commits>>

\* A new transport: the listener is registered, and what was loaded before is
\* kept without asking again.
Reconnect(c) ==
  /\ ~connected[c]
  /\ connected' = [connected EXCEPT ![c] = TRUE]
  /\ sent' = [sent EXCEPT ![c] = IF shown[c] = NoView /\ ~error[c] THEN 1 ELSE 0]
  /\ UNCHANGED <<server, shown, error, fresh, op, held, wire, drops>>

Handle(c, o) == Serve(c, o) \/ Reject(c, o)

Next ==
  \/ OtherCommit \/ OtherUndo \/ Forget \/ Announce
  \/ \E c \in Clients :
       \/ Read(c) \/ AnswerLate(c) \/ Deliver(c) \/ Reload(c) \/ Drop(c) \/ Reconnect(c)
       \/ \E o \in Slots : Start(c, o) \/ Handle(c, o)

Spec == Init /\ [][Next]_vars

\* The server serves, answers and announces, and the network delivers.  Users,
\* agents and failures are free.
Fairness ==
  /\ WF_vars(Announce) /\ WF_vars(Forget)
  /\ \A c \in Clients :
       /\ WF_vars(Read(c)) /\ WF_vars(AnswerLate(c)) /\ WF_vars(Deliver(c))
       /\ \A o \in Slots : WF_vars(Handle(c, o))

FairSpec == Spec /\ Fairness

(***************************************************************************)
(* Properties                                                              *)
(***************************************************************************)
ServerType == /\ doc \in Doc /\ past \in Seq(Doc)
              /\ unannounced \in Seq(Announcement)
              /\ commits \in Nat

ClientType == /\ connected \in [Clients -> BOOLEAN]
              /\ shown \in [Clients -> View \cup {NoView}]
              /\ error \in [Clients -> BOOLEAN]
              /\ fresh \in [Clients -> BOOLEAN]
              /\ op \in [Clients -> [Slots -> Op]]

LinkType == /\ sent \in [Clients -> Nat]
            /\ held \in [Clients -> Seq(Doc)]
            /\ wire \in [Clients -> Seq(Frame)]

Layering ==
  \A c \in Clients, o \in Slots :
    IF op[c][o].kind = "edit"
    THEN /\ op[c][o].previous \in View
         /\ op[c][o].optimistic = Layered(op[c][o].previous, o)
    ELSE op[c][o].previous = NoView /\ op[c][o].optimistic = NoView

\* Every variable has its type; an optimistic change in flight lies on top of
\* the view it would go back to.
TypeOK == ServerType /\ ClientType /\ LinkType /\ Layering /\ drops \in Nat

\* Nothing is on its way to c, from its requests or from the server's commits.
Quiet(c) == /\ connected[c] /\ unannounced = <<>>
            /\ sent[c] = 0 /\ held[c] = <<>> /\ wire[c] = <<>>

\* A client that heard everything, and shows what it loaded over this connection,
\* shows no version below the server's: whatever was undone, reverted, rejected,
\* lost or reconnected before.  (Answers of workspace.get in order.)
NeverBehind ==
  \A c \in Clients : Quiet(c) /\ fresh[c] /\ ~error[c] =>
    shown[c].base.workspaceVersion >= doc.workspaceVersion

\* Why NeverBehind holds when answers come in order.  Once every commit is
\* announced, whatever is older than the document has the announcement of the
\* current version behind it on the wire, or has already made the client ask.
ChangedAfter(w, i, v) ==
  \E j \in (i + 1)..Len(w) : w[j].kind = "changed" /\ w[j].version = v

Overtaken(w, v) ==
  \A i \in 1..Len(w) :
    w[i].kind = "doc" /\ w[i].doc.workspaceVersion < v => ChangedAfter(w, i, v)

Answered(w) == \E i \in 1..Len(w) : w[i].kind \in {"doc", "noDoc"}

LastAnnounced ==
  unannounced # <<>> => unannounced[Len(unannounced)].version = doc.workspaceVersion

Offline(c) == ~connected[c] => /\ wire[c] = <<>> /\ sent[c] = 0 /\ ~fresh[c]
                               /\ \A o \in Slots : op[c][o] = NoOp

ShownOvertaken(c) ==
  shown[c].base.workspaceVersion < doc.workspaceVersion =>
    error[c] \/ sent[c] > 0 \/ Answered(wire[c]) \/ ChangedAfter(wire[c], 0, doc.workspaceVersion)

CatchesUp(c) ==
  /\ Offline(c)
  /\ held[c] = <<>>
  /\ fresh[c] => shown[c] # NoView
  /\ unannounced = <<>> => Overtaken(wire[c], doc.workspaceVersion)
  /\ unannounced = <<>> /\ fresh[c] => ShownOvertaken(c)

BehindInv == LastAnnounced /\ \A c \in Clients : CatchesUp(c)

\* Every commit counts the version up; only an undo takes it back.
Undone == doc.workspaceVersion # commits + Initial.workspaceVersion

\* SPEC 5: "UIs MAY apply optimistic mutations and MUST reconcile on the
\* broadcast".  A client that heard everything and has nothing in flight shows
\* exactly the server's document, also after an undo.
ReconciledOnUndo ==
  \A c \in Clients :
    Quiet(c) /\ fresh[c] /\ ~error[c] /\ (\A o \in Slots : op[c][o] = NoOp) =>
      shown[c] = Plain(doc)

\* A client with one change at a time never keeps showing a change of its own
\* that failed, or that it should have fetched back from the server: whatever
\* answers overtake each other and whatever connection is lost, as long as
\* nobody undoes.
NoLeftovers ==
  \A c \in Clients :
    Quiet(c) /\ fresh[c] /\ ~error[c] /\ (\A o \in Slots : op[c][o] = NoOp) =>
      shown[c].layers = <<>>

\* Why NoLeftovers holds.  An operation is answered once, and a change that lies
\* on what is shown is the one still in flight, or else a document, or news of a
\* version above the one it lies on, is on its way.
Answers(f, o) == f.kind \in {"ok", "failed"} /\ f.slot = o

AnswerOn(w, o) == \E i \in 1..Len(w) : Answers(w[i], o)
OkOn(w, o) == \E i \in 1..Len(w) : w[i].kind = "ok" /\ w[i].slot = o
OneAnswerOn(w, o) == \A i, j \in 1..Len(w) : Answers(w[i], o) /\ Answers(w[j], o) => i = j
DocsUpTo(w, v) == \A i \in 1..Len(w) : w[i].kind = "doc" => w[i].doc.workspaceVersion <= v
NewsOn(w, v) == \E i \in 1..Len(w) : w[i].kind = "changed" /\ w[i].version > v

OwedTo(u, b) == \E i \in 1..Len(u) : u[i].by = b
OwedOnce(u, b) == \A i, j \in 1..Len(u) : u[i].by = b /\ u[j].by = b => i = j
NewsOwed(u, v) == \E i \in 1..Len(u) : u[i].version > v

AnsweredOnce(c, o) ==
  /\ AnswerOn(wire[c], o) \/ OwedTo(unannounced, <<c, o>>) => op[c][o].phase = "served"
  /\ ~(AnswerOn(wire[c], o) /\ OwedTo(unannounced, <<c, o>>))
  /\ OneAnswerOn(wire[c], o) /\ OwedOnce(unannounced, <<c, o>>)
  /\ op[c][o].phase = "idle" => op[c][o].kind # "edit"
  /\ op[c][o].kind # "undo"

NoneAhead(c) ==
  /\ ShownVersion(c) <= doc.workspaceVersion
  /\ \A i \in 1..Len(held[c]) : held[c][i].workspaceVersion <= doc.workspaceVersion
  /\ DocsUpTo(wire[c], doc.workspaceVersion)

Refetches(c) ==
  \/ sent[c] > 0 \/ held[c] # <<>> \/ Answered(wire[c])
  \/ NewsOn(wire[c], ShownVersion(c)) \/ NewsOwed(unannounced, ShownVersion(c))

InFlight(c, o) == op[c][o].kind = "edit" /\ shown[c] = op[c][o].optimistic

OkAhead(c, o) == OkOn(wire[c], o) \/ OwedTo(unannounced, <<c, o>>)

LayersGo(c) ==
  /\ \A o \in Slots :
       InFlight(c, o) /\ (op[c][o].previous.layers # <<>> \/ OkAhead(c, o)) => Refetches(c)
  /\ (\A o \in Slots : ~InFlight(c, o)) => shown[c].layers = <<>> \/ Refetches(c)

LayersKept(c) ==
  /\ fresh[c] => shown[c] # NoView
  /\ NoneAhead(c)
  /\ \A o \in Slots : AnsweredOnce(c, o)
  /\ fresh[c] /\ ~error[c] => LayersGo(c)

OfflineInv == \A c \in Clients : Offline(c) /\ (~connected[c] => held[c] = <<>>)

LeftoverInv == \A c \in Clients : LayersKept(c)

\* A client that is connected and not showing an error comes back to the server's
\* document, again and again, however its own changes fare, until somebody undoes.
Converges ==
  \A c \in Clients : []<>(Undone \/ ~fresh[c] \/ error[c] \/ shown[c] = Plain(doc))
=============================================================================
