------------------------------ MODULE PanelProofs ------------------------------
(***************************************************************************)
(* Theorems about what a page shows while answers and news come late: the  *)
(* workspace client's document, the gallery's dialogs, the chat widget,    *)
(* the operator queue and who looks at which tab, for every set of clients *)
(* and slots and any number of dialogs, bundles, recipes, mounts, messages,*)
(* turns, rows, pages and operators. The five share no state.              *)
(***************************************************************************)
EXTENDS ClientSync, Gallery, ChatFace, ApprovalCard, Presence, WellFoundedInduction, TLAPS

-----------------------------------------------------------------------------
(***************************************************************************)
(* Frames and views                                                        *)
(***************************************************************************)
\* The frames the server sends are frames.
LEMMA FrameMakers ==
  /\ \A v \in Nat : [kind |-> "changed", version |-> v] \in Frame
  /\ \A d \in Doc : [kind |-> "doc", doc |-> d] \in Frame
  /\ [kind |-> "noDoc"] \in Frame
  /\ \A o \in Slots : /\ [kind |-> "ok", slot |-> o] \in Frame
                      /\ [kind |-> "failed", slot |-> o] \in Frame
  BY DEF Frame

\* A frame carries what its kind says.
LEMMA FrameParts ==
  ASSUME NEW f \in Frame
  PROVE  /\ f.kind = "changed" => f.version \in Nat
         /\ f.kind = "doc" => f.doc \in Doc
         /\ f.kind \in {"ok", "failed"} => f.slot \in Slots
  BY DEF Frame

\* A loaded document is a view; a layer keeps the loaded document below it.
LEMMA ViewMakers ==
  /\ \A d \in Doc : Plain(d) \in View /\ Plain(d).base = d
  /\ \A v \in View, o \in Slots : Layered(v, o) \in View /\ Layered(v, o).base = v.base
  BY DEF Plain, Layered, View

\* The idle slot is an operation without an optimistic change.
LEMMA NoOpType == /\ NoOp \in Op /\ NoOp.kind # "edit"
                  /\ NoOp.previous = NoView /\ NoOp.optimistic = NoView
  BY DEF NoOp, Op, OpKinds

\* Taking back a failed change leaves what is shown, or a view of the same
\* loaded document.
LEMMA RevertedType ==
  ASSUME ClientType, Layering, NEW c \in Clients, NEW o \in Slots
  PROVE  /\ Reverted(c, o) \in View \cup {NoView}
         /\ \/ Reverted(c, o) = shown[c]
            \/ /\ shown[c] \in View /\ Reverted(c, o) \in View
               /\ Reverted(c, o).base = shown[c].base
  <1>1. shown[c] \in View \cup {NoView}
    BY DEF ClientType
  <1>2. CASE op[c][o].kind = "edit" /\ shown[c] = op[c][o].optimistic
    <2>1. op[c][o].previous \in View /\ op[c][o].optimistic = Layered(op[c][o].previous, o)
      BY <1>2 DEF Layering
    <2>2. Reverted(c, o) = op[c][o].previous
      BY <1>2 DEF Reverted
    <2> QED
      BY <1>2, <2>1, <2>2, ViewMakers
  <1>3. CASE op[c][o].kind # "edit" /\ shown[c] = op[c][o].optimistic
    BY <1>1, <1>3 DEF Layering, Reverted
  <1>4. CASE shown[c] # op[c][o].optimistic
    BY <1>1, <1>4 DEF Reverted
  <1> QED
    BY <1>2, <1>3, <1>4

(***************************************************************************)
(* Types                                                                   *)
(***************************************************************************)
\* The frame a client handles next, and the rest of its wire.
LEMMA ArrivingType ==
  ASSUME LinkType, NEW c \in Clients, wire[c] # <<>>
  PROVE  Arriving(c) \in Frame /\ Tail(wire[c]) \in Seq(Frame)
  <1>1. wire[c] \in Seq(Frame)
    BY DEF LinkType
  <1> QED
    BY <1>1 DEF Arriving

\* One more frame on a wire.
LEMMA SendType ==
  ASSUME LinkType, NEW c \in Clients, NEW f \in Frame
  PROVE  [wire EXCEPT ![c] = Append(@, f)] \in [Clients -> Seq(Frame)]
  BY DEF LinkType

\* One more answer held back.
LEMMA HoldType ==
  ASSUME LinkType, NEW c \in Clients, NEW d \in Doc
  PROVE  [held EXCEPT ![c] = Append(@, d)] \in [Clients -> Seq(Doc)]
  BY DEF LinkType

\* A frame alone is a wire.
LEMMA OneFrame ==
  ASSUME NEW f \in Frame
  PROVE  <<f>> \in Seq(Frame)
  OBVIOUS

\* An operation that was served is still the same operation.
LEMMA ServedType ==
  ASSUME NEW r \in Op
  PROVE  LET s == [r EXCEPT !.phase = "served"]
         IN  /\ s \in Op /\ s.kind = r.kind
             /\ s.previous = r.previous /\ s.optimistic = r.optimistic
  BY DEF Op

\* A commit leaves a document, a stack and a count.
LEMMA CommitType ==
  ASSUME ServerType, Commit
  PROVE  doc' \in Doc /\ past' \in Seq(Doc) /\ commits' \in Nat
  BY DEF Commit, Store!Commit, ServerType, Doc

\* So does an undo.
LEMMA UndoType ==
  ASSUME ServerType, Store!Undo
  PROVE  doc' \in Doc /\ past' \in Seq(Doc)
  <1>1. past \in Seq(Doc) /\ past # <<>>
    BY DEF ServerType, Store!Undo
  <1>2. Len(past) \in 1..Len(past)
    BY <1>1
  <1>3. past[Len(past)] \in Doc
    BY <1>1, <1>2
  <1>4. SubSeq(past, 1, Len(past) - 1) \in Seq(Doc)
    BY <1>1
  <1> QED
    BY <1>3, <1>4 DEF Store!Undo

LEMMA InitType == Init => TypeOK
  <1> SUFFICES ASSUME Init PROVE TypeOK
    OBVIOUS
  <1> USE DEF Init, Store!Init
  <1>1. ServerType
    BY DEF ServerType, Doc, Initial
  <1>2. ClientType
    BY NoOpType DEF ClientType
  <1>3. LinkType
    BY DEF LinkType
  <1>4. Layering
    BY NoOpType DEF Layering
  <1> QED
    BY <1>1, <1>2, <1>3, <1>4 DEF TypeOK

\* The server's own steps preserve the types.
LEMMA ServerStepType ==
  ASSUME TypeOK, OtherCommit \/ OtherUndo \/ Forget \/ Announce
  PROVE  TypeOK'
  <1> USE DEF TypeOK
  <1>1. CASE OtherCommit
    <2>1. doc' \in Doc /\ past' \in Seq(Doc) /\ commits' \in Nat
      BY <1>1, CommitType DEF OtherCommit
    <2>2. unannounced' \in Seq(Announcement)
      BY <1>1, <2>1 DEF OtherCommit, ServerType, Doc, Announcement
    <2> QED
      BY <1>1, <2>1, <2>2 DEF OtherCommit, ServerType, ClientType, LinkType, Layering, client, link
  <1>2. CASE OtherUndo
    <2>1. doc' \in Doc /\ past' \in Seq(Doc)
      BY <1>2, UndoType DEF OtherUndo
    <2>2. unannounced' \in Seq(Announcement)
      BY <1>2, <2>1 DEF OtherUndo, ServerType, Doc, Announcement
    <2> QED
      BY <1>2, <2>1, <2>2 DEF OtherUndo, ServerType, ClientType, LinkType, Layering, client, link
  <1>3. CASE Forget
    <2>1. past \in Seq(Doc) /\ Len(past) = Depth /\ past' = Tail(past) /\ doc' = doc
      BY <1>3 DEF Forget, Store!Forget, ServerType
    <2>2. past # <<>>
      BY <2>1, BoundsAssumption
    <2> QED
      BY <1>3, <2>1, <2>2 DEF Forget, ServerType, ClientType, LinkType, Layering, client, link
  <1>4. CASE Announce
    <2> DEFINE a == Head(unannounced)
               changed == <<[kind |-> "changed", version |-> a.version]>>
               ok(c) == IF a.by # Nobody /\ a.by[1] = c
                        THEN <<[kind |-> "ok", slot |-> a.by[2]]>> ELSE <<>>
    <2>1. /\ unannounced # <<>> /\ unannounced' = Tail(unannounced)
          /\ wire' = [c \in Clients |->
                        IF connected[c] THEN wire[c] \o changed \o ok(c) ELSE wire[c]]
          /\ UNCHANGED <<doc, past, commits, client, sent, held, drops>>
      BY <1>4 DEF Announce
    <2>2. a \in Announcement
      BY <2>1 DEF ServerType
    <2>3. changed \in Seq(Frame)
      <3>1. a.version \in Nat
        BY <2>2 DEF Announcement
      <3> QED
        BY <3>1, FrameMakers, OneFrame
    <2>4. ASSUME NEW c \in Clients PROVE ok(c) \in Seq(Frame)
      <3>1. CASE a.by # Nobody
        <4>1. a.by[2] \in Slots
          BY <2>2, <3>1 DEF Announcement
        <4>2. [kind |-> "ok", slot |-> a.by[2]] \in Frame
          BY <4>1, FrameMakers
        <4>3. <<[kind |-> "ok", slot |-> a.by[2]]>> \in Seq(Frame) /\ <<>> \in Seq(Frame)
          BY <4>2, OneFrame
        <4> QED
          BY <4>3
      <3>2. CASE a.by = Nobody
        BY <3>2
      <3> QED
        BY <3>1, <3>2
    <2> HIDE DEF a, changed, ok
    <2>5. wire' \in [Clients -> Seq(Frame)]
      BY <2>1, <2>3, <2>4 DEF LinkType
    <2> QED
      BY <2>1, <2>5 DEF ServerType, ClientType, LinkType, Layering, client
  <1> QED
    BY <1>1, <1>2, <1>3, <1>4

\* Serving and rejecting an operation preserves the types.
LEMMA HandleType ==
  ASSUME TypeOK, NEW c \in Clients, NEW o \in Slots, Handle(c, o)
  PROVE  TypeOK'
  <1> USE DEF TypeOK
  <1>1. op[c][o] \in Op
    BY DEF ClientType
  <1>2. ASSUME op' = [op EXCEPT ![c][o].phase = "served"]
        PROVE  /\ op' \in [Clients -> [Slots -> Op]]
               /\ UNCHANGED shown => Layering'
    <2> DEFINE s == [op[c][o] EXCEPT !.phase = "served"]
    <2>1. /\ s \in Op /\ s.kind = op[c][o].kind
          /\ s.previous = op[c][o].previous /\ s.optimistic = op[c][o].optimistic
      BY <1>1, ServedType
    <2>2. op' = [op EXCEPT ![c] = [@ EXCEPT ![o] = s]]
      BY <1>2 DEF ClientType
    <2> HIDE DEF s
    <2>3. op' \in [Clients -> [Slots -> Op]]
      BY <2>1, <2>2 DEF ClientType
    <2>4. \A d \in Clients, q \in Slots :
            /\ op'[d][q].kind = op[d][q].kind
            /\ op'[d][q].previous = op[d][q].previous
            /\ op'[d][q].optimistic = op[d][q].optimistic
      BY <2>1, <2>2 DEF ClientType
    <2> QED
      BY <2>3, <2>4 DEF Layering
  <1>3. CASE Serve(c, o)
    <2>1. doc' \in Doc /\ past' \in Seq(Doc) /\ commits' \in Nat
      BY <1>3, CommitType, UndoType DEF Serve, ServerType
    <2>2. unannounced' \in Seq(Announcement)
      BY <1>3, <2>1 DEF Serve, ServerType, Doc, Announcement
    <2> QED
      BY <1>2, <1>3, <2>1, <2>2 DEF Serve, ServerType, ClientType, LinkType, link
  <1>4. CASE Reject(c, o)
    <2>1. wire' \in [Clients -> Seq(Frame)]
      BY <1>4, FrameMakers, SendType DEF Reject
    <2> QED
      BY <1>2, <1>4, <2>1 DEF Reject, ServerType, ClientType, LinkType, server
  <1> QED
    BY <1>3, <1>4 DEF Handle

\* Reading and answering preserves the types.
LEMMA ReadType ==
  ASSUME TypeOK, NEW c \in Clients, Read(c) \/ AnswerLate(c)
  PROVE  TypeOK'
  <1> USE DEF TypeOK
  <1>1. CASE Read(c)
    <2>1. doc \in Doc
      BY DEF ServerType
    <2>2. sent' \in [Clients -> Nat]
      BY <1>1 DEF Read, LinkType
    <2>3. held' \in [Clients -> Seq(Doc)] /\ wire' \in [Clients -> Seq(Frame)]
      <3>1. [kind |-> "doc", doc |-> doc] \in Frame /\ [kind |-> "noDoc"] \in Frame
        BY <2>1, FrameMakers
      <3>2. \/ UNCHANGED held
            \/ held' = [held EXCEPT ![c] = Append(@, doc)]
        BY <1>1 DEF Read
      <3>3. held' \in [Clients -> Seq(Doc)]
        <4>1. held \in [Clients -> Seq(Doc)]
          BY DEF LinkType
        <4> QED
          BY ZenonT(60), <2>1, <3>2, <4>1, HoldType
      <3>4. \/ UNCHANGED wire
            \/ \E f \in Frame : wire' = [wire EXCEPT ![c] = Append(@, f)]
        BY <1>1, <3>1 DEF Read
      <3> QED
        <4>1. CASE UNCHANGED wire
          BY <3>3, <4>1 DEF LinkType
        <4>2. ASSUME NEW f \in Frame, wire' = [wire EXCEPT ![c] = Append(@, f)]
              PROVE  wire' \in [Clients -> Seq(Frame)]
          BY <4>2, SendType
        <4> QED
          BY <3>3, <3>4, <4>1, <4>2
    <2> QED
      BY <1>1, <2>2, <2>3 DEF Read, ServerType, ClientType, LinkType, Layering, server, client
  <1>2. CASE AnswerLate(c)
    <2>1. PICK i \in 1..Len(held[c]) :
            /\ wire' = [wire EXCEPT ![c] = Append(@, [kind |-> "doc", doc |-> held[c][i]])]
            /\ held' = [held EXCEPT ![c] = SubSeq(@, 1, i - 1) \o SubSeq(@, i + 1, Len(@))]
      BY <1>2 DEF AnswerLate
    <2>2. held[c] \in Seq(Doc)
      BY DEF LinkType
    <2>3. held[c][i] \in Doc
      BY <2>2
    <2>4. SubSeq(held[c], 1, i - 1) \in Seq(Doc) /\ SubSeq(held[c], i + 1, Len(held[c])) \in Seq(Doc)
      BY <2>2
    <2>5. held' \in [Clients -> Seq(Doc)]
      BY <2>1, <2>4 DEF LinkType
    <2>6. wire' \in [Clients -> Seq(Frame)]
      BY <2>1, <2>3, FrameMakers, SendType
    <2> QED
      BY <1>2, <2>5, <2>6 DEF AnswerLate, ServerType, ClientType, LinkType, Layering, server, client
  <1> QED
    BY <1>1, <1>2

\* A slot filled with an operation that lies on what its client shows, or with
\* one that is no optimistic change, keeps the types and the layering.
LEMMA SlotType ==
  ASSUME ClientType, Layering, NEW c \in Clients, NEW o \in Slots, NEW r \in Op,
         IF r.kind = "edit" THEN r.previous \in View /\ r.optimistic = Layered(r.previous, o)
         ELSE r.previous = NoView /\ r.optimistic = NoView,
         op' = [op EXCEPT ![c][o] = r]
  PROVE  op' \in [Clients -> [Slots -> Op]] /\ Layering'
  <1>1. op' \in [Clients -> [Slots -> Op]]
    BY DEF ClientType
  <1>2. \A d \in Clients, q \in Slots : op'[d][q] = IF d = c /\ q = o THEN r ELSE op[d][q]
    BY DEF ClientType
  <1> QED
    BY <1>1, <1>2 DEF Layering

\* Starting an operation preserves the types.
LEMMA StartType ==
  ASSUME TypeOK, NEW c \in Clients, NEW o \in Slots, Start(c, o)
  PROVE  TypeOK'
  <1> USE DEF TypeOK
  <1>1. PICK k \in Kinds :
          \/ /\ k = "edit" /\ shown[c] # NoView
             /\ shown' = [shown EXCEPT ![c] = Layered(@, o)]
             /\ op' = [op EXCEPT ![c][o] = [phase |-> "sent", kind |-> k,
                                            previous |-> shown[c], optimistic |-> shown'[c]]]
          \/ /\ k # "edit"
             /\ op' = [op EXCEPT ![c][o] = [NoOp EXCEPT !.phase = "sent", !.kind = k]]
             /\ UNCHANGED shown
    BY DEF Start
  <1>2. k \in OpKinds
    BY KindsAssumption
  <1>3. UNCHANGED <<server, connected, error, fresh, link, drops>>
    BY DEF Start
  <1>4. shown' \in [Clients -> View \cup {NoView}] /\ op' \in [Clients -> [Slots -> Op]] /\ Layering'
    <2>1. CASE k = "edit"
      <3>1. shown[c] \in View
        BY <1>1, <2>1 DEF ClientType
      <3>2. Layered(shown[c], o) \in View /\ shown'[c] = Layered(shown[c], o)
        BY <1>1, <2>1, <3>1, ViewMakers DEF ClientType
      <3>3. shown' \in [Clients -> View \cup {NoView}]
        BY <1>1, <2>1, <3>2 DEF ClientType
      <3> DEFINE r == [phase |-> "sent", kind |-> k,
                       previous |-> shown[c], optimistic |-> shown'[c]]
      <3>4. /\ r \in Op /\ r.previous \in View
            /\ r.optimistic = Layered(r.previous, o) /\ r.kind = "edit"
        BY <1>2, <2>1, <3>1, <3>2 DEF Op
      <3>5. op' = [op EXCEPT ![c][o] = r]
        BY <1>1, <2>1
      <3> HIDE DEF r
      <3> QED
        BY <3>3, <3>4, <3>5, SlotType
    <2>2. CASE k # "edit"
      <3> DEFINE r == [NoOp EXCEPT !.phase = "sent", !.kind = k]
      <3>1. r \in Op /\ r.kind # "edit" /\ r.previous = NoView /\ r.optimistic = NoView
        BY <1>2, <2>2 DEF NoOp, Op, OpKinds
      <3>2. op' = [op EXCEPT ![c][o] = r] /\ UNCHANGED shown
        BY <1>1, <2>2
      <3> HIDE DEF r
      <3>3. op' \in [Clients -> [Slots -> Op]] /\ Layering'
        BY <3>1, <3>2, SlotType
      <3> QED
        BY <3>2, <3>3 DEF ClientType
    <2> QED
      BY <2>1, <2>2
  <1> QED
    BY <1>3, <1>4 DEF ServerType, ClientType, LinkType, server, link

\* A delivered frame preserves the types.
LEMMA DeliverType ==
  ASSUME TypeOK, NEW c \in Clients, Deliver(c)
  PROVE  TypeOK'
  <1> USE DEF TypeOK
  <1>1. wire[c] # <<>> /\ wire' = [wire EXCEPT ![c] = Tail(@)]
    BY DEF Deliver, OnChanged, OnDoc, OnNoDoc, OnOk, OnFailed, Arrives
  <1>2. Arriving(c) \in Frame /\ Tail(wire[c]) \in Seq(Frame)
    BY <1>1, ArrivingType
  <1>3. wire' \in [Clients -> Seq(Frame)]
    BY <1>1, <1>2 DEF LinkType
  <1>4. CASE OnChanged(c)
    BY <1>3, <1>4 DEF OnChanged, ServerType, ClientType, LinkType, Layering, server, client
  <1>5. CASE OnDoc(c)
    <2>1. Plain(Arriving(c).doc) \in View
      BY <1>2, <1>5, FrameParts, ViewMakers DEF OnDoc, Arrives
    <2>2. shown' \in [Clients -> View \cup {NoView}]
      BY <1>5, <2>1 DEF OnDoc, ClientType
    <2> QED
      BY <1>3, <1>5, <2>2 DEF OnDoc, ServerType, ClientType, LinkType, Layering, server
  <1>6. CASE OnNoDoc(c)
    BY <1>3, <1>6 DEF OnNoDoc, ServerType, ClientType, LinkType, Layering, server
  <1>7. CASE OnOk(c)
    <2>1. PICK o \in Slots : /\ op' = [op EXCEPT ![c][o] = NoOp]
                             /\ sent' \in [Clients -> Nat]
      <3> DEFINE o == Arriving(c).slot
      <3>1. o \in Slots
        BY <1>2, <1>7, FrameParts DEF OnOk, Arrives
      <3>2. op' = [op EXCEPT ![c][o] = NoOp]
        BY <1>7 DEF OnOk
      <3>3. sent' = sent \/ sent' = [sent EXCEPT ![c] = @ + 1]
        BY <1>7 DEF OnOk
      <3>4. sent' \in [Clients -> Nat]
        <4>1. sent \in [Clients -> Nat] /\ sent[c] + 1 \in Nat
          BY DEF LinkType
        <4>2. [sent EXCEPT ![c] = @ + 1] \in [Clients -> Nat]
          BY <4>1
        <4> QED
          BY <3>3, <4>1, <4>2
      <3> HIDE DEF o
      <3> QED
        BY <3>1, <3>2, <3>4
    <2>2. op' \in [Clients -> [Slots -> Op]] /\ Layering'
      BY <2>1, NoOpType, SlotType
    <2> QED
      BY <1>3, <1>7, <2>1, <2>2 DEF OnOk, ServerType, ClientType, LinkType, server
  <1>8. CASE OnFailed(c)
    <2>1. PICK o \in Slots : /\ op' = [op EXCEPT ![c][o] = NoOp]
                             /\ shown' = [shown EXCEPT ![c] = Reverted(c, o)]
      BY <1>2, <1>8, FrameParts DEF OnFailed, Arrives
    <2>2. op' \in [Clients -> [Slots -> Op]] /\ Layering'
      BY <2>1, NoOpType, SlotType
    <2>3. shown' \in [Clients -> View \cup {NoView}]
      BY <2>1, RevertedType DEF ClientType
    <2> QED
      BY <1>3, <1>8, <2>2, <2>3 DEF OnFailed, ServerType, ClientType, LinkType, server
  <1> QED
    BY <1>4, <1>5, <1>6, <1>7, <1>8 DEF Deliver

\* Losing a connection, building one and reloading preserve the types.
LEMMA ConnectionType ==
  ASSUME TypeOK, NEW c \in Clients, Reload(c) \/ Drop(c) \/ Reconnect(c)
  PROVE  TypeOK'
  <1> USE DEF TypeOK
  <1>1. CASE Reload(c)
    BY <1>1 DEF Reload, ServerType, ClientType, LinkType, Layering, server
  <1>2. CASE Reconnect(c)
    BY <1>2 DEF Reconnect, ServerType, ClientType, LinkType, Layering, server
  <1>3. CASE Drop(c)
    <2>1. shown' \in [Clients -> View \cup {NoView}]
      <3>1. \A o \in Slots : Reverted(c, o) \in View \cup {NoView}
        BY RevertedType
      <3>2. CASE \E o \in Slots : Reverted(c, o) # shown[c]
        <4>1. PICK o \in Slots : shown' = [shown EXCEPT ![c] = Reverted(c, o)]
          BY <1>3, <3>2 DEF Drop
        <4> QED
          BY <3>1, <4>1 DEF ClientType
      <3>3. CASE ~ \E o \in Slots : Reverted(c, o) # shown[c]
        BY <1>3, <3>3 DEF Drop, ClientType
      <3> QED
        BY <3>2, <3>3
    <2>2. op' \in [Clients -> [Slots -> Op]] /\ Layering'
      <3>1. op' = [op EXCEPT ![c] = [o \in Slots |-> NoOp]]
        BY <1>3 DEF Drop
      <3>2. op' \in [Clients -> [Slots -> Op]]
        BY <3>1, NoOpType DEF ClientType
      <3>3. \A d \in Clients, q \in Slots : op'[d][q] = op[d][q] \/ op'[d][q] = NoOp
        BY <3>1, NoOpType DEF ClientType
      <3> QED
        BY <3>2, <3>3, NoOpType DEF Layering
    <2>3. unannounced' \in Seq(Announcement)
      <3>1. unannounced \in Seq(Announcement)
        BY DEF ServerType
      <3>2. \A i \in 1..Len(unannounced) :
              [unannounced[i] EXCEPT !.by = IF @ # Nobody /\ @[1] = c THEN Nobody ELSE @]
                \in Announcement
        <4>1. \A a \in Announcement :
                [a EXCEPT !.by = IF @ # Nobody /\ @[1] = c THEN Nobody ELSE @] \in Announcement
          BY DEF Announcement
        <4> QED
          BY <3>1, <4>1
      <3> QED
        BY <1>3, <3>1, <3>2 DEF Drop
    <2>4. /\ connected' \in [Clients -> BOOLEAN] /\ error' \in [Clients -> BOOLEAN]
          /\ fresh' \in [Clients -> BOOLEAN] /\ LinkType' /\ drops' \in Nat
      BY <1>3 DEF Drop, ClientType, LinkType, Loading
    <2>5. UNCHANGED <<doc, past, commits>>
      BY <1>3 DEF Drop
    <2> QED
      BY <2>1, <2>2, <2>3, <2>4, <2>5 DEF ServerType, ClientType
  <1> QED
    BY <1>1, <1>2, <1>3

\* Every reachable state is well typed, and every optimistic change in flight
\* lies on the view it would go back to.
THEOREM TypeCorrect == Spec => []TypeOK
  <1>1. Init => TypeOK
    BY InitType
  <1>2. TypeOK /\ [Next]_vars => TypeOK'
    <2> SUFFICES ASSUME TypeOK, [Next]_vars PROVE TypeOK'
      OBVIOUS
    <2>1. CASE OtherCommit \/ OtherUndo \/ Forget \/ Announce
      BY <2>1, ServerStepType
    <2>2. ASSUME NEW c \in Clients, Read(c) \/ AnswerLate(c) PROVE TypeOK'
      BY <2>2, ReadType
    <2>3. ASSUME NEW c \in Clients, Deliver(c) PROVE TypeOK'
      BY <2>3, DeliverType
    <2>4. ASSUME NEW c \in Clients, Reload(c) \/ Drop(c) \/ Reconnect(c) PROVE TypeOK'
      BY <2>4, ConnectionType
    <2>5. ASSUME NEW c \in Clients, NEW o \in Slots, Start(c, o) PROVE TypeOK'
      BY <2>5, StartType
    <2>6. ASSUME NEW c \in Clients, NEW o \in Slots, Handle(c, o) PROVE TypeOK'
      BY <2>6, HandleType
    <2>7. CASE UNCHANGED vars
      BY <2>7 DEF vars, server, client, link, TypeOK, ServerType, ClientType, LinkType, Layering
    <2> QED
      BY <2>1, <2>2, <2>3, <2>4, <2>5, <2>6, <2>7 DEF Next
  <1> QED
    BY <1>1, <1>2, PTL DEF Spec

(***************************************************************************)
(* Wires                                                                   *)
(***************************************************************************)
\* One more frame keeps what was announced; a document behind the current
\* version may not be added.
LEMMA AppendWire ==
  ASSUME NEW w \in Seq(Frame), NEW f \in Frame, NEW v \in Nat
  PROVE  LET x == Append(w, f)
         IN  /\ x \in Seq(Frame)
             /\ ChangedAfter(w, 0, v) => ChangedAfter(x, 0, v)
             /\ Answered(w) \/ f.kind \in {"doc", "noDoc"} => Answered(x)
             /\ Overtaken(w, v) /\ (f.kind = "doc" => f.doc.workspaceVersion >= v)
                  => Overtaken(x, v)
  <1> DEFINE x == Append(w, f)
  <1>1. /\ x \in Seq(Frame) /\ Len(x) = Len(w) + 1 /\ Len(w) \in Nat
        /\ \A i \in 1..Len(w) : x[i] = w[i]
        /\ x[Len(w) + 1] = f
    OBVIOUS
  <1> HIDE DEF x
  <1>2. ASSUME NEW i \in Nat, ChangedAfter(w, i, v) PROVE ChangedAfter(x, i, v)
    BY <1>1, <1>2 DEF ChangedAfter
  <1>3. ASSUME Answered(w) \/ f.kind \in {"doc", "noDoc"} PROVE Answered(x)
    BY <1>1, <1>3 DEF Answered
  <1>4. ASSUME Overtaken(w, v), f.kind = "doc" => f.doc.workspaceVersion >= v
        PROVE  Overtaken(x, v)
    <2> SUFFICES ASSUME NEW i \in 1..Len(x), x[i].kind = "doc",
                        x[i].doc.workspaceVersion < v
                 PROVE  ChangedAfter(x, i, v)
      BY DEF Overtaken
    <2>1. x[i] \in Frame
      BY <1>1
    <2>2. x[i].doc \in Doc
      BY <2>1, FrameParts
    <2>3. x[i].doc.workspaceVersion \in Nat
      BY <2>2 DEF Doc
    <2>4. i # Len(w) + 1
      BY <1>1, <1>4, <2>3
    <2>5. i \in 1..Len(w) /\ x[i] = w[i]
      BY <1>1, <2>4
    <2> QED
      BY <1>2, <1>4, <2>5 DEF Overtaken
  <1> QED
    BY <1>1, <1>2, <1>3, <1>4 DEF x

\* The announcement of the current version overtakes all there is.
LEMMA AnnounceWire ==
  ASSUME NEW w \in Seq(Frame), NEW v \in Nat,
         NEW f \in Frame, f.kind = "changed", f.version = v
  PROVE  LET x == Append(w, f)
         IN  x \in Seq(Frame) /\ ChangedAfter(x, 0, v) /\ Overtaken(x, v)
  <1> DEFINE x == Append(w, f)
  <1>1. /\ x \in Seq(Frame) /\ Len(x) = Len(w) + 1 /\ Len(w) \in Nat
        /\ x[Len(w) + 1] = f
    OBVIOUS
  <1> HIDE DEF x
  <1>2. ASSUME NEW i \in 0..Len(w) PROVE ChangedAfter(x, i, v)
    BY <1>1 DEF ChangedAfter
  <1>3. Overtaken(x, v)
    <2> SUFFICES ASSUME NEW i \in 1..Len(x), x[i].kind = "doc"
                 PROVE  ChangedAfter(x, i, v)
      BY DEF Overtaken
    <2>1. i \in 0..Len(w)
      BY <1>1
    <2> QED
      BY <1>2, <2>1
  <1> QED
    BY <1>1, <1>2, <1>3 DEF x

\* What the rest of a wire says once its head is taken.
LEMMA TailWire ==
  ASSUME NEW w \in Seq(Frame), w # <<>>, NEW v \in Nat
  PROVE  LET x == Tail(w) h == Head(w)
         IN  /\ x \in Seq(Frame) /\ h \in Frame
             /\ Overtaken(w, v) => Overtaken(x, v)
             /\ Overtaken(w, v) /\ h.kind = "doc" /\ h.doc.workspaceVersion < v
                  => ChangedAfter(x, 0, v)
             /\ ChangedAfter(w, 0, v) => \/ h.kind = "changed" /\ h.version = v
                                         \/ ChangedAfter(x, 0, v)
             /\ Answered(w) => h.kind \in {"doc", "noDoc"} \/ Answered(x)
  <1> DEFINE x == Tail(w) h == Head(w)
  <1>1. /\ x \in Seq(Frame) /\ h \in Frame /\ h = w[1]
        /\ Len(w) \in Nat \ {0} /\ Len(x) = Len(w) - 1
        /\ \A i \in 1..Len(x) : x[i] = w[i + 1]
    OBVIOUS
  <1>2. \A j \in 2..Len(w) : j - 1 \in 1..Len(x) /\ x[j - 1] = w[j]
    <2> SUFFICES ASSUME NEW j \in 2..Len(w) PROVE j - 1 \in 1..Len(x) /\ x[j - 1] = w[j]
      OBVIOUS
    <2>1. j - 1 \in 1..Len(x) /\ (j - 1) + 1 = j
      BY <1>1
    <2> QED
      BY <1>1, <2>1
  <1> HIDE DEF x, h
  <1>3. ASSUME NEW i \in Nat, ChangedAfter(w, i + 1, v) PROVE ChangedAfter(x, i, v)
    <2>1. PICK j \in (i + 2)..Len(w) : w[j].kind = "changed" /\ w[j].version = v
      BY <1>1, <1>3 DEF ChangedAfter
    <2>2. j \in 2..Len(w) /\ j - 1 \in (i + 1)..Len(x)
      BY <1>1, <2>1
    <2>3. x[j - 1] = w[j]
      BY <1>2, <2>2
    <2> QED
      BY <2>1, <2>2, <2>3 DEF ChangedAfter
  <1>4. ASSUME Overtaken(w, v) PROVE Overtaken(x, v)
    <2> SUFFICES ASSUME NEW i \in 1..Len(x), x[i].kind = "doc",
                        x[i].doc.workspaceVersion < v
                 PROVE  ChangedAfter(x, i, v)
      BY DEF Overtaken
    <2>1. i + 1 \in 1..Len(w) /\ x[i] = w[i + 1]
      BY <1>1
    <2>2. ChangedAfter(w, i + 1, v)
      BY <1>4, <2>1 DEF Overtaken
    <2> QED
      BY <1>3, <2>2
  <1>5. ASSUME Overtaken(w, v), h.kind = "doc", h.doc.workspaceVersion < v
        PROVE  ChangedAfter(x, 0, v)
    <2>1. ChangedAfter(w, 1, v)
      BY <1>1, <1>5 DEF Overtaken
    <2> QED
      BY <1>3, <2>1
  <1>6. ASSUME ChangedAfter(w, 0, v)
        PROVE  (h.kind = "changed" /\ h.version = v) \/ ChangedAfter(x, 0, v)
    <2>1. PICK j \in 1..Len(w) : w[j].kind = "changed" /\ w[j].version = v
      BY <1>6 DEF ChangedAfter
    <2>2. CASE j = 1
      BY <1>1, <2>1, <2>2
    <2>3. CASE j # 1
      BY <1>3, <2>1, <2>3 DEF ChangedAfter
    <2> QED
      BY <2>2, <2>3
  <1>7. ASSUME Answered(w) PROVE h.kind \in {"doc", "noDoc"} \/ Answered(x)
    <2>1. PICK j \in 1..Len(w) : w[j].kind \in {"doc", "noDoc"}
      BY <1>7 DEF Answered
    <2>2. CASE j = 1
      BY <1>1, <2>1, <2>2
    <2>3. CASE j # 1
      <3>1. j \in 2..Len(w)
        BY <2>1, <2>3
      <3> QED
        BY <1>2, <2>1, <3>1 DEF Answered
    <2> QED
      BY <2>2, <2>3
  <1> QED
    BY <1>1, <1>4, <1>5, <1>6, <1>7 DEF x, h

(***************************************************************************)
(* Catching up                                                             *)
(***************************************************************************)
\* A client nothing happened to.
LEMMA Untouched ==
  ASSUME NEW d \in Clients, CatchesUp(d), UNCHANGED doc,
         unannounced' = <<>> => unannounced = <<>>,
         connected'[d] = connected[d], shown'[d] = shown[d], error'[d] = error[d],
         fresh'[d] = fresh[d], op'[d] = op[d], sent'[d] = sent[d],
         held'[d] = held[d], wire'[d] = wire[d]
  PROVE  CatchesUp(d)'
  BY DEF CatchesUp, Offline, Overtaken, ShownOvertaken, Answered, ChangedAfter

\* A commit or an undo: its announcement is now the last one to come.
LEMMA LastOne ==
  ASSUME TypeOK, TypeOK', NEW b \in (Clients \X Slots) \cup {Nobody},
         unannounced' = Append(unannounced, [version |-> doc'.workspaceVersion, by |-> b])
  PROVE  unannounced' # <<>> /\ LastAnnounced'
  <1> DEFINE e == [version |-> doc'.workspaceVersion, by |-> b]
  <1>1. e \in Announcement /\ e.version = doc'.workspaceVersion
    BY DEF TypeOK, ServerType, Doc, Announcement
  <1>2. unannounced \in Seq(Announcement) /\ unannounced' = Append(unannounced, e)
    BY DEF TypeOK, ServerType
  <1> HIDE DEF e
  <1>3. /\ unannounced' # <<>> /\ Len(unannounced') = Len(unannounced) + 1
        /\ unannounced'[Len(unannounced) + 1] = e
    BY <1>1, <1>2
  <1> QED
    BY <1>1, <1>3 DEF LastAnnounced

\* The server's commits and undos preserve the invariant.
LEMMA WriteCatchesUp ==
  ASSUME TypeOK, TypeOK', BehindInv,
         \/ OtherCommit \/ OtherUndo
         \/ \E c \in Clients, o \in Slots : Serve(c, o)
  PROVE  BehindInv'
  <1>1. PICK b \in (Clients \X Slots) \cup {Nobody} :
          unannounced' = Append(unannounced, [version |-> doc'.workspaceVersion, by |-> b])
    BY DEF OtherCommit, OtherUndo, Serve
  <1>2. unannounced' # <<>> /\ LastAnnounced'
    BY <1>1, LastOne
  <1>3. ASSUME NEW d \in Clients PROVE CatchesUp(d)'
    <2>1. UNCHANGED <<connected, shown, fresh, sent, held, wire>>
      BY DEF OtherCommit, OtherUndo, Serve, client, link
    <2>2. ~connected[d] => \A q \in Slots : op'[d][q] = op[d][q]
      <3>1. CASE OtherCommit \/ OtherUndo
        BY <3>1 DEF OtherCommit, OtherUndo, client
      <3>2. CASE \E c \in Clients, o \in Slots : Serve(c, o)
        <4>1. PICK c \in Clients, o \in Slots : Serve(c, o)
          BY <3>2
        <4>2. op[c][o].phase = "sent" /\ op' = [op EXCEPT ![c][o].phase = "served"]
          BY <4>1 DEF Serve
        <4>3. connected[c]
          BY <4>2 DEF BehindInv, CatchesUp, Offline, NoOp
        <4> QED
          BY <4>2, <4>3 DEF TypeOK, ClientType
      <3> QED
        BY <3>1, <3>2
    <2> QED
      BY <1>2, <2>1, <2>2 DEF BehindInv, CatchesUp, Offline
  <1> QED
    BY <1>2, <1>3 DEF BehindInv

\* Announcing the last commit overtakes whatever is still on a wire.
LEMMA AnnounceCatchesUp ==
  ASSUME TypeOK, TypeOK', BehindInv, Announce
  PROVE  BehindInv'
  <1> DEFINE a == Head(unannounced)
             f == [kind |-> "changed", version |-> a.version]
  <1>1. /\ unannounced \in Seq(Announcement) /\ unannounced # <<>>
        /\ unannounced' = Tail(unannounced)
        /\ UNCHANGED <<doc, past, commits, client, sent, held, drops>>
    BY DEF Announce, TypeOK, ServerType
  <1>2. a \in Announcement /\ a.version \in Nat /\ f \in Frame
    <2>1. a \in Announcement
      BY <1>1
    <2>2. a.version \in Nat
      BY <2>1 DEF Announcement
    <2> QED
      BY <2>1, <2>2, FrameMakers
  <1>3. doc.workspaceVersion \in Nat
    BY DEF TypeOK, ServerType, Doc
  <1>4. LastAnnounced'
    <2> SUFFICES ASSUME unannounced' # <<>>
                 PROVE  unannounced'[Len(unannounced')].version = doc.workspaceVersion
      BY <1>1 DEF LastAnnounced
    <2>1. /\ Len(unannounced') = Len(unannounced) - 1 /\ Len(unannounced') > 0
          /\ unannounced'[Len(unannounced')] = unannounced[Len(unannounced)]
      BY <1>1
    <2> QED
      BY <1>1, <2>1 DEF BehindInv, LastAnnounced
  <1>5. ASSUME NEW d \in Clients PROVE CatchesUp(d)'
    <2>1. wire[d] \in Seq(Frame) /\ CatchesUp(d)
      BY DEF TypeOK, LinkType, BehindInv
    <2>2. UNCHANGED <<connected, shown, error, fresh, op, sent, held>>
      BY <1>1 DEF client
    <2>3. ~connected[d] => wire'[d] = wire[d]
      BY DEF Announce
    <2>4. Offline(d)' /\ held'[d] = <<>> /\ (fresh'[d] => shown'[d] # NoView)
      BY <2>1, <2>2, <2>3 DEF CatchesUp, Offline
    <2>5. ASSUME unannounced' = <<>>
          PROVE  /\ Overtaken(wire'[d], doc.workspaceVersion)
                 /\ connected[d] => ChangedAfter(wire'[d], 0, doc.workspaceVersion)
      <3>1. CASE ~connected[d]
        BY <2>1, <2>3, <3>1 DEF CatchesUp, Offline, Overtaken
      <3>2. CASE connected[d]
        <4>1. Len(unannounced) = 1
          <5>1. Len(unannounced') = Len(unannounced) - 1 /\ Len(unannounced) \in Nat
            BY <1>1
          <5>2. Len(unannounced') = 0
            BY <2>5
          <5> QED
            BY <5>1, <5>2
        <4>2. a.version = doc.workspaceVersion
          BY <1>1, <4>1 DEF BehindInv, LastAnnounced
        <4> DEFINE x == Append(wire[d], f)
        <4>3. /\ x \in Seq(Frame) /\ ChangedAfter(x, 0, doc.workspaceVersion)
              /\ Overtaken(x, doc.workspaceVersion)
          BY <1>2, <1>3, <2>1, <4>2, AnnounceWire
        <4>4. \/ wire'[d] = x
              \/ \E o \in Slots : wire'[d] = Append(x, [kind |-> "ok", slot |-> o])
          <5>1. wire'[d] = (wire[d] \o <<f>>) \o
                   IF a.by # Nobody /\ a.by[1] = d
                   THEN <<[kind |-> "ok", slot |-> a.by[2]]>> ELSE <<>>
            BY <3>2 DEF Announce
          <5>2. wire[d] \o <<f>> = x
            BY <1>2, <2>1
          <5>3. CASE a.by # Nobody /\ a.by[1] = d
            <6>1. a.by[2] \in Slots
              BY <1>2, <5>3 DEF Announcement
            <6>2. [kind |-> "ok", slot |-> a.by[2]] \in Frame
              BY <6>1, FrameMakers
            <6> DEFINE g == [kind |-> "ok", slot |-> a.by[2]]
            <6>3. wire'[d] = x \o <<g>>
              BY <5>1, <5>2, <5>3
            <6> HIDE DEF x, g
            <6>4. x \o <<g>> = Append(x, g)
              BY <4>3, <6>2 DEF g
            <6> QED
              BY <6>1, <6>3, <6>4 DEF g
          <5>4. CASE ~(a.by # Nobody /\ a.by[1] = d)
            <6>1. wire'[d] = x \o <<>>
              BY <5>1, <5>2, <5>4
            <6> HIDE DEF x
            <6> QED
              BY <4>3, <6>1
          <5> QED
            BY <5>3, <5>4
        <4> HIDE DEF x
        <4>5. ASSUME NEW o \in Slots, wire'[d] = Append(x, [kind |-> "ok", slot |-> o])
              PROVE  /\ ChangedAfter(wire'[d], 0, doc.workspaceVersion)
                     /\ Overtaken(wire'[d], doc.workspaceVersion)
          <5>1. [kind |-> "ok", slot |-> o] \in Frame
            BY FrameMakers
          <5> QED
            BY <1>3, <4>3, <4>5, <5>1, AppendWire
        <4> QED
          BY <4>3, <4>4, <4>5
      <3> QED
        BY <3>1, <3>2
    <2>6. fresh[d] => connected[d]
      BY <2>1 DEF CatchesUp, Offline
    <2> QED
      BY <1>1, <2>2, <2>4, <2>5, <2>6 DEF CatchesUp, ShownOvertaken
  <1> QED
    BY <1>4, <1>5 DEF BehindInv

\* It is enough to look at the one client a step is about.
LEMMA OneClient ==
  ASSUME TypeOK, BehindInv, NEW c \in Clients, UNCHANGED <<doc, unannounced>>,
         CatchesUp(c)',
         \A d \in Clients \ {c} :
           /\ connected'[d] = connected[d] /\ shown'[d] = shown[d] /\ error'[d] = error[d]
           /\ fresh'[d] = fresh[d] /\ op'[d] = op[d] /\ sent'[d] = sent[d]
           /\ held'[d] = held[d] /\ wire'[d] = wire[d]
  PROVE  BehindInv'
  <1>1. LastAnnounced'
    BY DEF BehindInv, LastAnnounced
  <1>2. ASSUME NEW d \in Clients \ {c} PROVE CatchesUp(d)'
    BY <1>2, Untouched DEF BehindInv
  <1> QED
    BY <1>1, <1>2 DEF BehindInv

\* A read answers with the document as it is now; a refusal adds no document.
LEMMA AnswerCatchesUp ==
  ASSUME TypeOK, TypeOK', BehindInv, SlowReads = FALSE, NEW c \in Clients,
         \/ Read(c) \/ AnswerLate(c)
         \/ \E o \in Slots : Reject(c, o)
  PROVE  BehindInv'
  <1>1. /\ wire[c] \in Seq(Frame) /\ doc \in Doc /\ doc.workspaceVersion \in Nat
        /\ sent[c] \in Nat /\ CatchesUp(c)
    BY DEF TypeOK, LinkType, ServerType, Doc, BehindInv
  <1>2. /\ UNCHANGED <<doc, unannounced, connected, shown, error, fresh, held>>
        /\ connected[c]
        /\ \E f \in Frame : /\ wire' = [wire EXCEPT ![c] = Append(@, f)]
                            /\ f.kind = "doc" => f.doc = doc
                            /\ sent'[c] = sent[c] \/ f.kind \in {"doc", "noDoc"}
    <2>1. CASE Read(c)
      <3>1. sent[c] > 0 /\ connected[c]
        BY <1>1, <2>1 DEF Read, CatchesUp, Offline
      <3>2. [kind |-> "doc", doc |-> doc] \in Frame /\ [kind |-> "noDoc"] \in Frame
        BY <1>1, FrameMakers
      <3> QED
        BY <2>1, <3>1, <3>2 DEF Read, server, client
    <2>2. CASE AnswerLate(c)
      BY <1>1, <2>2 DEF AnswerLate, CatchesUp
    <2>3. ASSUME NEW o \in Slots, Reject(c, o)
          PROVE  <1>2!1 /\ <1>2!2 /\ <1>2!3
      <3>1. connected[c]
        BY <1>1, <2>3 DEF Reject, CatchesUp, Offline, NoOp
      <3>2. [kind |-> "failed", slot |-> o] \in Frame
        BY FrameMakers
      <3> QED
        BY <2>3, <3>1, <3>2 DEF Reject, server
    <2> QED
      BY <2>1, <2>2, <2>3
  <1>3. PICK f \in Frame : /\ wire' = [wire EXCEPT ![c] = Append(@, f)]
                           /\ f.kind = "doc" => f.doc = doc
                           /\ sent'[c] = sent[c] \/ f.kind \in {"doc", "noDoc"}
    BY <1>2
  <1>4. /\ wire'[c] = Append(wire[c], f)
        /\ \A d \in Clients \ {c} : wire'[d] = wire[d]
    <2>1. wire \in [Clients -> Seq(Frame)]
      BY DEF TypeOK, LinkType
    <2>2. wire' = [wire EXCEPT ![c] = Append(@, f)]
      BY <1>3
    <2> QED
      BY <2>1, <2>2
  <1>5. CatchesUp(c)'
    <2>1. Overtaken(wire[c], doc.workspaceVersion) => Overtaken(wire'[c], doc.workspaceVersion)
      <3>1. f.kind = "doc" => f.doc.workspaceVersion >= doc.workspaceVersion
        BY <1>1, <1>3
      <3> QED
        BY <1>1, <1>4, <3>1, AppendWire
    <2>2. /\ ChangedAfter(wire[c], 0, doc.workspaceVersion)
               => ChangedAfter(wire'[c], 0, doc.workspaceVersion)
          /\ Answered(wire[c]) \/ f.kind \in {"doc", "noDoc"} => Answered(wire'[c])
      BY <1>1, <1>4, AppendWire
    <2>3. sent'[c] = sent[c] \/ f.kind \in {"doc", "noDoc"}
      BY <1>3
    <2>4. UNCHANGED <<doc, unannounced, connected, shown, error, fresh, held>> /\ connected[c]
      BY <1>2
    <2>5. ShownOvertaken(c) => ShownOvertaken(c)'
      BY <2>2, <2>3, <2>4 DEF ShownOvertaken
    <2> QED
      BY <1>1, <2>1, <2>4, <2>5 DEF CatchesUp, Offline
  <1>6. \A d \in Clients \ {c} : /\ op'[d] = op[d] /\ sent'[d] = sent[d]
                                 /\ wire'[d] = wire[d]
    <2>1. \A d \in Clients \ {c} : wire'[d] = wire[d]
      BY <1>4
    <2>2. \A d \in Clients \ {c} : op'[d] = op[d] /\ sent'[d] = sent[d]
      BY DEF Read, AnswerLate, Reject, TypeOK, ClientType, LinkType, client
    <2> QED
      BY <2>1, <2>2
  <1> QED
    BY <1>2, <1>5, <1>6, OneClient

\* Starting an operation leaves the loaded document below it.
LEMMA StartCatchesUp ==
  ASSUME TypeOK, TypeOK', BehindInv, NEW c \in Clients, NEW o \in Slots, Start(c, o)
  PROVE  BehindInv'
  <1>1. CatchesUp(c) /\ connected[c]
    BY DEF BehindInv, Start
  <1>2. /\ UNCHANGED <<doc, unannounced, connected, error, fresh, sent, held, wire>>
        /\ \A d \in Clients \ {c} : op'[d] = op[d] /\ shown'[d] = shown[d]
    BY DEF Start, server, link, TypeOK, ClientType
  <1>3. shown[c] # NoView => shown'[c] # NoView /\ shown'[c].base = shown[c].base
    <2>1. CASE UNCHANGED shown
      BY <2>1
    <2>2. CASE shown[c] # NoView /\ shown' = [shown EXCEPT ![c] = Layered(@, o)]
      <3>1. shown[c] \in View /\ shown'[c] = Layered(shown[c], o)
        BY <2>2 DEF TypeOK, ClientType
      <3> QED
        BY <3>1, ViewMakers, NoViewAssumption
    <2> QED
      BY <2>1, <2>2 DEF Start
  <1>4. CatchesUp(c)'
    BY <1>1, <1>2, <1>3 DEF CatchesUp, Offline, ShownOvertaken
  <1> QED
    BY <1>2, <1>4, OneClient

\* A frame the client handles: an announcement makes it ask, a document is shown,
\* and a refusal or a failed read leaves it with what it loaded.
LEMMA DeliverCatchesUp ==
  ASSUME TypeOK, TypeOK', BehindInv, NEW c \in Clients, Deliver(c)
  PROVE  BehindInv'
  <1> DEFINE h == Arriving(c)
             x == Tail(wire[c])
             v == doc.workspaceVersion
  <1>1. /\ wire[c] \in Seq(Frame) /\ wire[c] # <<>> /\ wire' = [wire EXCEPT ![c] = Tail(@)]
        /\ UNCHANGED <<doc, unannounced, connected, held>>
    BY DEF Deliver, OnChanged, OnDoc, OnNoDoc, OnOk, OnFailed, Arrives, server, client,
           TypeOK, LinkType
  <1>2. /\ CatchesUp(c) /\ connected[c] /\ v \in Nat /\ sent[c] \in Nat
        /\ wire'[c] = x
    BY <1>1 DEF BehindInv, CatchesUp, Offline, TypeOK, LinkType, ServerType, Doc
  <1>3. /\ h \in Frame
        /\ Overtaken(wire[c], v) => Overtaken(x, v)
        /\ Overtaken(wire[c], v) /\ h.kind = "doc" /\ h.doc.workspaceVersion < v
             => ChangedAfter(x, 0, v)
        /\ ChangedAfter(wire[c], 0, v) => \/ h.kind = "changed" /\ h.version = v
                                          \/ ChangedAfter(x, 0, v)
        /\ Answered(wire[c]) => h.kind \in {"doc", "noDoc"} \/ Answered(x)
    BY <1>1, <1>2, TailWire DEF Arriving
  <1> HIDE DEF h, x, v
  \* What is left to show of the client itself.
  <1>4. ASSUME fresh'[c] => shown'[c] # NoView,
               unannounced = <<>> /\ fresh'[c] /\ shown'[c].base.workspaceVersion < v =>
                 error'[c] \/ sent'[c] > 0 \/ Answered(x) \/ ChangedAfter(x, 0, v)
        PROVE  CatchesUp(c)'
    BY <1>1, <1>2, <1>3, <1>4 DEF CatchesUp, Offline, ShownOvertaken, v
  <1>5. ASSUME OnChanged(c) PROVE CatchesUp(c)'
    <2>1. h.kind = "changed" /\ UNCHANGED <<shown, error, fresh>>
      BY <1>5 DEF OnChanged, Arrives, client, h
    <2>2. sent'[c] >= sent[c] /\ (h.version > ShownVersion(c) => sent'[c] > 0)
      <3>1. h.version \in Nat /\ sent \in [Clients -> Nat]
        BY <1>3, <2>1, FrameParts DEF TypeOK, LinkType
      <3>2. ShownVersion(c) \in Nat
        BY DEF ShownVersion, TypeOK, ClientType, View, Doc
      <3>3. sent' = IF h.version <= ShownVersion(c) THEN sent ELSE [sent EXCEPT ![c] = @ + 1]
        BY <1>5 DEF OnChanged, h
      <3> QED
        BY <3>1, <3>2, <3>3
    <2>3. fresh[c] => shown[c] # NoView
      BY <1>2 DEF CatchesUp
    <2>4. fresh[c] => ShownVersion(c) = shown[c].base.workspaceVersion
      BY <2>3 DEF ShownVersion
    <2>5. sent'[c] \in Nat
      BY DEF TypeOK, LinkType
    <2>6. ASSUME unannounced = <<>>, fresh'[c], shown'[c].base.workspaceVersion < v
          PROVE  error'[c] \/ sent'[c] > 0 \/ Answered(x) \/ ChangedAfter(x, 0, v)
      <3>1. fresh[c] /\ shown[c].base.workspaceVersion < v
        BY <2>1, <2>6
      <3>2. error[c] \/ sent[c] > 0 \/ Answered(wire[c]) \/ ChangedAfter(wire[c], 0, v)
        BY <1>2, <2>6, <3>1 DEF CatchesUp, ShownOvertaken, v
      <3>3. CASE error[c]
        BY <2>1, <3>3
      <3>4. CASE sent[c] > 0
        BY <1>2, <2>2, <2>5, <3>4
      <3>5. CASE Answered(wire[c])
        BY <1>3, <2>1, <3>5
      <3>6. CASE ChangedAfter(wire[c], 0, v)
        BY <1>3, <2>2, <2>4, <3>1, <3>6
      <3> QED
        BY <3>2, <3>3, <3>4, <3>5, <3>6
    <2> QED
      BY <1>4, <2>1, <2>3, <2>6
  <1>6. ASSUME OnDoc(c) PROVE CatchesUp(c)'
    <2>1. h.kind = "doc" /\ shown'[c] = Plain(h.doc)
      BY <1>6 DEF OnDoc, Arrives, h, TypeOK, ClientType
    <2>2. shown'[c] # NoView /\ shown'[c].base = h.doc
      BY <1>3, <2>1, FrameParts, ViewMakers, NoViewAssumption
    <2>3. unannounced = <<>> => Overtaken(wire[c], v)
      BY <1>2 DEF CatchesUp, v
    <2> QED
      BY <1>3, <1>4, <2>1, <2>2, <2>3
  <1>7. ASSUME OnNoDoc(c) PROVE CatchesUp(c)'
    <2>1. error'[c] /\ UNCHANGED <<shown, fresh>>
      BY <1>7 DEF OnNoDoc, TypeOK, ClientType
    <2>2. fresh[c] => shown[c] # NoView
      BY <1>2 DEF CatchesUp
    <2> QED
      BY <1>4, <2>1, <2>2
  <1>8. ASSUME OnOk(c) PROVE CatchesUp(c)'
    <2>1. h.kind = "ok" /\ UNCHANGED <<shown, error, fresh>>
      BY <1>8 DEF OnOk, Arrives, h
    <2>2. sent[c] > 0 => sent'[c] > 0
      <3>1. sent' = sent \/ sent' = [sent EXCEPT ![c] = @ + 1]
        BY <1>8 DEF OnOk
      <3>2. sent \in [Clients -> Nat]
        BY DEF TypeOK, LinkType
      <3>3. CASE sent' = sent
        BY <3>3
      <3>4. CASE sent' = [sent EXCEPT ![c] = @ + 1]
        BY <3>2, <3>4
      <3> QED
        BY <3>1, <3>3, <3>4
    <2> QED
      BY <1>2, <1>3, <1>4, <2>1, <2>2 DEF CatchesUp, ShownOvertaken, v
  <1>9. ASSUME OnFailed(c) PROVE CatchesUp(c)'
    <2>1. h.kind = "failed" /\ UNCHANGED <<error, fresh, sent>>
      BY <1>9 DEF OnFailed, Arrives, h
    <2>2. shown'[c] = shown[c] \/ (shown'[c] \in View /\ shown'[c].base = shown[c].base)
      <3>1. PICK o \in Slots : shown' = [shown EXCEPT ![c] = Reverted(c, o)]
        <4>1. Arriving(c).slot \in Slots
          BY <1>3, <2>1, FrameParts DEF h
        <4> QED
          BY <1>9, <4>1 DEF OnFailed
      <3>2. shown'[c] = Reverted(c, o)
        BY <3>1 DEF TypeOK, ClientType
      <3> QED
        BY <3>2, RevertedType DEF TypeOK
    <2> QED
      BY <1>2, <1>3, <1>4, <2>1, <2>2, NoViewAssumption DEF CatchesUp, ShownOvertaken, v
  <1>10. CatchesUp(c)'
    BY <1>5, <1>6, <1>7, <1>8, <1>9 DEF Deliver
  <1>11. \A d \in Clients \ {c} :
           /\ shown'[d] = shown[d] /\ error'[d] = error[d] /\ fresh'[d] = fresh[d]
           /\ op'[d] = op[d] /\ sent'[d] = sent[d] /\ wire'[d] = wire[d]
    BY ZenonT(60) DEF Deliver, OnChanged, OnDoc, OnNoDoc, OnOk, OnFailed, TypeOK, ClientType, LinkType,
           client
  <1> QED
    BY <1>1, <1>10, <1>11, OneClient

\* A lost connection leaves nothing that was loaded over it; reloading asks.
LEMMA ConnectionCatchesUp ==
  ASSUME TypeOK, TypeOK', BehindInv, NEW c \in Clients, Reload(c) \/ Drop(c) \/ Reconnect(c)
  PROVE  BehindInv'
  <1>1. CatchesUp(c)
    BY DEF BehindInv
  <1>2. ASSUME Reload(c) PROVE BehindInv'
    <2>1. sent'[c] = 1
      BY <1>2 DEF Reload, TypeOK, LinkType
    <2>2. /\ UNCHANGED <<doc, unannounced, connected, shown, fresh, op, held, wire>>
          /\ connected[c]
          /\ \A d \in Clients \ {c} : sent'[d] = sent[d] /\ error'[d] = error[d]
      BY <1>2 DEF Reload, server, TypeOK, LinkType, ClientType
    <2>3. CatchesUp(c)'
      BY <1>1, <2>1, <2>2 DEF CatchesUp, Offline, ShownOvertaken
    <2> QED
      BY <2>2, <2>3, OneClient
  <1>3. ASSUME Reconnect(c) PROVE BehindInv'
    <2>1. /\ UNCHANGED <<doc, unannounced, shown, error, fresh, op, held, wire>>
          /\ ~connected[c] /\ connected'[c]
          /\ \A d \in Clients \ {c} : sent'[d] = sent[d] /\ connected'[d] = connected[d]
      BY <1>3 DEF Reconnect, server, TypeOK, LinkType, ClientType
    <2>2. wire'[c] = <<>> /\ ~fresh'[c]
      BY <1>1, <2>1 DEF CatchesUp, Offline
    <2>3. CatchesUp(c)'
      BY <1>1, <2>1, <2>2 DEF CatchesUp, Offline, Overtaken
    <2> QED
      BY <2>1, <2>3, OneClient
  <1>4. ASSUME Drop(c) PROVE BehindInv'
    <2>1. /\ ~connected'[c] /\ ~fresh'[c] /\ wire'[c] = <<>>
          /\ sent'[c] = 0 /\ held'[c] = <<>> /\ \A o \in Slots : op'[c][o] = NoOp
      BY <1>4 DEF Drop, TypeOK, ClientType, LinkType
    <2>2. CatchesUp(c)'
      BY <2>1 DEF CatchesUp, Offline, Overtaken
    <2>3. /\ doc' = doc /\ Len(unannounced') = Len(unannounced)
          /\ unannounced' \in Seq(Announcement) /\ unannounced \in Seq(Announcement)
          /\ \A i \in 1..Len(unannounced) : unannounced'[i].version = unannounced[i].version
      <3>1. unannounced \in Seq(Announcement) /\ doc' = doc
        BY <1>4 DEF Drop, TypeOK, ServerType
      <3>2. /\ unannounced' = [i \in 1..Len(unannounced) |->
                [unannounced[i] EXCEPT !.by = IF @ # Nobody /\ @[1] = c THEN Nobody ELSE @]]
            /\ unannounced' \in Seq(Announcement)
        BY <1>4 DEF Drop, TypeOK, ServerType
      <3>3. Len(unannounced') = Len(unannounced)
        BY <3>1, <3>2
      <3>4. ASSUME NEW i \in 1..Len(unannounced)
            PROVE  unannounced'[i].version = unannounced[i].version
        <4>1. unannounced[i] \in Announcement
          BY <3>1
        <4> QED
          BY <3>2, <4>1 DEF Announcement
      <3> QED
        BY <3>1, <3>2, <3>3, <3>4
    <2>4. unannounced' = <<>> <=> unannounced = <<>>
      <3>1. Len(unannounced') = 0 <=> Len(unannounced) = 0
        BY <2>3
      <3> QED
        BY <2>3, <3>1
    <2>5. LastAnnounced'
      <3>1. unannounced # <<>> => Len(unannounced) \in 1..Len(unannounced)
        BY <2>3
      <3> QED
        BY <2>3, <2>4, <3>1 DEF BehindInv, LastAnnounced
    <2>6. ASSUME NEW d \in Clients \ {c} PROVE CatchesUp(d)'
      <3>1. /\ connected'[d] = connected[d] /\ shown'[d] = shown[d] /\ error'[d] = error[d]
            /\ fresh'[d] = fresh[d] /\ op'[d] = op[d] /\ sent'[d] = sent[d]
            /\ held'[d] = held[d] /\ wire'[d] = wire[d]
        BY <1>4 DEF Drop, TypeOK, ClientType, LinkType
      <3> QED
        BY <2>3, <2>4, <3>1, Untouched DEF BehindInv
    <2> QED
      BY <2>2, <2>5, <2>6 DEF BehindInv
  <1> QED
    BY <1>2, <1>3, <1>4

\* Nothing was loaded yet, nothing is to be announced.
LEMMA InitCatchesUp == Init => BehindInv
  BY DEF Init, BehindInv, LastAnnounced, CatchesUp, Offline, Overtaken

\* A client that heard everything shows no version below the server's, if the
\* answers of workspace.get keep their order: for every number of clients, of
\* operations in flight, of commits, undos, failures and lost connections.
THEOREM NeverBehindCorrect == ASSUME SlowReads = FALSE PROVE Spec => []NeverBehind
  <1>1. Init => TypeOK /\ BehindInv
    BY InitType, InitCatchesUp
  <1>2. TypeOK /\ TypeOK' /\ BehindInv /\ [Next]_vars => BehindInv'
    <2> SUFFICES ASSUME TypeOK, TypeOK', BehindInv, [Next]_vars PROVE BehindInv'
      OBVIOUS
    <2>1. CASE OtherCommit \/ OtherUndo
      BY <2>1, WriteCatchesUp
    <2>2. CASE Announce
      BY <2>2, AnnounceCatchesUp
    <2>3. CASE Forget
      <3>1. UNCHANGED <<doc, unannounced, client, link>>
        BY <2>3 DEF Forget, Store!Forget
      <3>2. LastAnnounced'
        BY <3>1 DEF BehindInv, LastAnnounced
      <3>3. ASSUME NEW d \in Clients PROVE CatchesUp(d)'
        BY <3>1, Untouched DEF BehindInv, client, link
      <3> QED
        BY <3>2, <3>3 DEF BehindInv
    <2>4. ASSUME NEW c \in Clients, Read(c) \/ AnswerLate(c) PROVE BehindInv'
      BY <2>4, AnswerCatchesUp
    <2>5. ASSUME NEW c \in Clients, Deliver(c) PROVE BehindInv'
      BY <2>5, DeliverCatchesUp
    <2>6. ASSUME NEW c \in Clients, Reload(c) \/ Drop(c) \/ Reconnect(c) PROVE BehindInv'
      BY <2>6, ConnectionCatchesUp
    <2>7. ASSUME NEW c \in Clients, NEW o \in Slots, Start(c, o) PROVE BehindInv'
      BY <2>7, StartCatchesUp
    <2>8. ASSUME NEW c \in Clients, NEW o \in Slots, Handle(c, o) PROVE BehindInv'
      BY <2>8, WriteCatchesUp, AnswerCatchesUp DEF Handle
    <2>9. CASE UNCHANGED vars
      <3>1. UNCHANGED <<doc, unannounced, client, link>>
        BY <2>9 DEF vars, server
      <3>2. LastAnnounced'
        BY <3>1 DEF BehindInv, LastAnnounced
      <3>3. ASSUME NEW d \in Clients PROVE CatchesUp(d)'
        BY <3>1, Untouched DEF BehindInv, client, link
      <3> QED
        BY <3>2, <3>3 DEF BehindInv
    <2> QED
      BY <2>1, <2>2, <2>3, <2>4, <2>5, <2>6, <2>7, <2>8, <2>9 DEF Next
  <1>3. TypeOK /\ BehindInv => NeverBehind
    <2> SUFFICES ASSUME TypeOK, BehindInv, NEW c \in Clients, Quiet(c), fresh[c], ~error[c]
                 PROVE  shown[c].base.workspaceVersion >= doc.workspaceVersion
      BY DEF NeverBehind
    <2>1. shown[c] \in View /\ ShownOvertaken(c)
      BY DEF BehindInv, CatchesUp, Quiet, TypeOK, ClientType
    <2>2. shown[c].base.workspaceVersion \in Nat /\ doc.workspaceVersion \in Nat
      BY <2>1 DEF View, Doc, TypeOK, ServerType
    <2>3. ~Answered(wire[c]) /\ ~ChangedAfter(wire[c], 0, doc.workspaceVersion)
      BY DEF Quiet, Answered, ChangedAfter
    <2> QED
      BY <2>1, <2>2, <2>3 DEF ShownOvertaken, Quiet
  <1> QED
    BY <1>1, <1>2, <1>3, TypeCorrect, PTL DEF Spec

(***************************************************************************)
(* One change at a time                                                    *)
(***************************************************************************)
\* What one more frame adds to a wire.
LEMMA FrameAdded ==
  ASSUME NEW w \in Seq(Frame), NEW f \in Frame, NEW x, x = Append(w, f)
  PROVE  /\ x \in Seq(Frame)
         /\ Answered(x) <=> Answered(w) \/ f.kind \in {"doc", "noDoc"}
         /\ \A v \in Nat :
              /\ NewsOn(x, v) <=> NewsOn(w, v) \/ (f.kind = "changed" /\ f.version > v)
              /\ DocsUpTo(x, v) <=>
                   DocsUpTo(w, v) /\ (f.kind = "doc" => f.doc.workspaceVersion <= v)
         /\ \A o \in Slots :
              /\ AnswerOn(x, o) <=> AnswerOn(w, o) \/ Answers(f, o)
              /\ OkOn(x, o) <=> OkOn(w, o) \/ (f.kind = "ok" /\ f.slot = o)
              /\ OneAnswerOn(w, o) /\ ~(AnswerOn(w, o) /\ Answers(f, o)) => OneAnswerOn(x, o)
  <1>1. /\ x \in Seq(Frame) /\ Len(x) = Len(w) + 1 /\ Len(w) \in Nat
        /\ \A i \in 1..Len(w) : i \in 1..Len(x) /\ x[i] = w[i]
        /\ x[Len(x)] = f /\ Len(x) \in 1..Len(x)
        /\ \A i \in 1..Len(x) : i \in 1..Len(w) \/ i = Len(x)
    OBVIOUS
  <1>2. Answered(x) <=> Answered(w) \/ f.kind \in {"doc", "noDoc"}
    BY <1>1 DEF Answered
  <1>3. ASSUME NEW v \in Nat
        PROVE  /\ NewsOn(x, v) <=> NewsOn(w, v) \/ (f.kind = "changed" /\ f.version > v)
               /\ DocsUpTo(x, v) <=>
                    DocsUpTo(w, v) /\ (f.kind = "doc" => f.doc.workspaceVersion <= v)
    BY <1>1 DEF NewsOn, DocsUpTo
  <1>4. ASSUME NEW o \in Slots
        PROVE  /\ AnswerOn(x, o) <=> AnswerOn(w, o) \/ Answers(f, o)
               /\ OkOn(x, o) <=> OkOn(w, o) \/ (f.kind = "ok" /\ f.slot = o)
               /\ OneAnswerOn(w, o) /\ ~(AnswerOn(w, o) /\ Answers(f, o)) => OneAnswerOn(x, o)
    <2>1. AnswerOn(x, o) <=> AnswerOn(w, o) \/ Answers(f, o)
      BY <1>1 DEF AnswerOn
    <2>2. OkOn(x, o) <=> OkOn(w, o) \/ (f.kind = "ok" /\ f.slot = o)
      BY <1>1 DEF OkOn
    <2>3. ASSUME OneAnswerOn(w, o), ~(AnswerOn(w, o) /\ Answers(f, o)) PROVE OneAnswerOn(x, o)
      <3> SUFFICES ASSUME NEW i \in 1..Len(x), NEW j \in 1..Len(x),
                          Answers(x[i], o), Answers(x[j], o)
                   PROVE  i = j
        BY DEF OneAnswerOn
      <3> QED
        BY <1>1, <2>3 DEF OneAnswerOn, AnswerOn
    <2> QED
      BY <2>1, <2>2, <2>3
  <1> QED
    BY <1>1, <1>2, <1>3, <1>4

\* What a wire says is what its head says, or the rest of it.
LEMMA FrameTaken ==
  ASSUME NEW w \in Seq(Frame), w # <<>>
  PROVE  LET x == Tail(w) h == Head(w)
         IN  /\ x \in Seq(Frame) /\ h \in Frame
             /\ Answered(w) <=> h.kind \in {"doc", "noDoc"} \/ Answered(x)
             /\ \A v \in Nat :
                  /\ NewsOn(w, v) <=> NewsOn(x, v) \/ (h.kind = "changed" /\ h.version > v)
                  /\ DocsUpTo(w, v) <=>
                       DocsUpTo(x, v) /\ (h.kind = "doc" => h.doc.workspaceVersion <= v)
             /\ \A o \in Slots :
                  /\ AnswerOn(w, o) <=> AnswerOn(x, o) \/ Answers(h, o)
                  /\ OkOn(w, o) <=> OkOn(x, o) \/ (h.kind = "ok" /\ h.slot = o)
                  /\ OneAnswerOn(w, o) =>
                       OneAnswerOn(x, o) /\ ~(AnswerOn(x, o) /\ Answers(h, o))
  <1> DEFINE x == Tail(w) h == Head(w)
  <1>1. /\ x \in Seq(Frame) /\ h \in Frame /\ h = w[1] /\ 1 \in 1..Len(w)
        /\ Len(w) \in Nat \ {0} /\ Len(x) = Len(w) - 1
        /\ \A i \in 1..Len(x) : i + 1 \in 1..Len(w) /\ x[i] = w[i + 1] /\ i + 1 # 1
    OBVIOUS
  <1> HIDE DEF x, h
  <1>2. \A j \in 1..Len(w) : j = 1 \/ (j - 1 \in 1..Len(x) /\ x[j - 1] = w[j])
    <2> SUFFICES ASSUME NEW j \in 1..Len(w), j # 1 PROVE j - 1 \in 1..Len(x) /\ x[j - 1] = w[j]
      OBVIOUS
    <2>1. j - 1 \in 1..Len(x) /\ (j - 1) + 1 = j
      BY <1>1
    <2> QED
      BY <1>1, <2>1
  <1>3. Answered(w) <=> h.kind \in {"doc", "noDoc"} \/ Answered(x)
    BY <1>1, <1>2 DEF Answered
  <1>4. ASSUME NEW v \in Nat
        PROVE  /\ NewsOn(w, v) <=> NewsOn(x, v) \/ (h.kind = "changed" /\ h.version > v)
               /\ DocsUpTo(w, v) <=>
                    DocsUpTo(x, v) /\ (h.kind = "doc" => h.doc.workspaceVersion <= v)
    <2>1. NewsOn(w, v) <=> NewsOn(x, v) \/ (h.kind = "changed" /\ h.version > v)
      <3>1. ASSUME NewsOn(w, v) PROVE NewsOn(x, v) \/ (h.kind = "changed" /\ h.version > v)
        <4>1. PICK j \in 1..Len(w) : w[j].kind = "changed" /\ w[j].version > v
          BY <3>1 DEF NewsOn
        <4> QED
          BY <1>1, <1>2, <4>1 DEF NewsOn
      <3>2. ASSUME NewsOn(x, v) PROVE NewsOn(w, v)
        BY <1>1, <3>2 DEF NewsOn
      <3> QED
        BY <1>1, <3>1, <3>2 DEF NewsOn
    <2>2. DocsUpTo(w, v) <=>
            DocsUpTo(x, v) /\ (h.kind = "doc" => h.doc.workspaceVersion <= v)
      BY <1>1, <1>2 DEF DocsUpTo
    <2> QED
      BY <2>1, <2>2
  <1>5. ASSUME NEW o \in Slots
        PROVE  /\ AnswerOn(w, o) <=> AnswerOn(x, o) \/ Answers(h, o)
               /\ OkOn(w, o) <=> OkOn(x, o) \/ (h.kind = "ok" /\ h.slot = o)
               /\ OneAnswerOn(w, o) => OneAnswerOn(x, o) /\ ~(AnswerOn(x, o) /\ Answers(h, o))
    <2>1. AnswerOn(w, o) <=> AnswerOn(x, o) \/ Answers(h, o)
      BY <1>1, <1>2 DEF AnswerOn
    <2>2. OkOn(w, o) <=> OkOn(x, o) \/ (h.kind = "ok" /\ h.slot = o)
      <3>1. ASSUME OkOn(w, o) PROVE OkOn(x, o) \/ (h.kind = "ok" /\ h.slot = o)
        <4>1. PICK j \in 1..Len(w) : w[j].kind = "ok" /\ w[j].slot = o
          BY <3>1 DEF OkOn
        <4> QED
          BY <1>1, <1>2, <4>1 DEF OkOn
      <3>2. ASSUME OkOn(x, o) PROVE OkOn(w, o)
        BY <1>1, <3>2 DEF OkOn
      <3> QED
        BY <1>1, <3>1, <3>2 DEF OkOn
    <2>3. ASSUME OneAnswerOn(w, o) PROVE OneAnswerOn(x, o)
      <3> SUFFICES ASSUME NEW i \in 1..Len(x), NEW j \in 1..Len(x),
                          Answers(x[i], o), Answers(x[j], o)
                   PROVE  i = j
        BY DEF OneAnswerOn
      <3>1. i + 1 = j + 1
        BY <1>1, <2>3 DEF OneAnswerOn
      <3> QED
        BY <3>1
    <2>4. ASSUME OneAnswerOn(w, o), AnswerOn(x, o), Answers(h, o) PROVE FALSE
      <3>1. PICK i \in 1..Len(x) : Answers(x[i], o)
        BY <2>4 DEF AnswerOn
      <3> QED
        BY <1>1, <2>4, <3>1 DEF OneAnswerOn
    <2> QED
      BY <2>1, <2>2, <2>3, <2>4
  <1> QED
    BY <1>1, <1>3, <1>4, <1>5 DEF x, h

\* What one more commit adds to the announcements to come.
LEMMA OwedAdded ==
  ASSUME NEW u \in Seq(Announcement), NEW a \in Announcement, NEW y, y = Append(u, a)
  PROVE  /\ \A v \in Nat : NewsOwed(y, v) <=> NewsOwed(u, v) \/ a.version > v
         /\ \A b \in Clients \X Slots :
              /\ OwedTo(y, b) <=> OwedTo(u, b) \/ a.by = b
              /\ OwedOnce(u, b) /\ ~(OwedTo(u, b) /\ a.by = b) => OwedOnce(y, b)
  <1>1. /\ Len(y) = Len(u) + 1 /\ Len(u) \in Nat
        /\ \A i \in 1..Len(u) : i \in 1..Len(y) /\ y[i] = u[i]
        /\ y[Len(y)] = a /\ Len(y) \in 1..Len(y)
        /\ \A i \in 1..Len(y) : i \in 1..Len(u) \/ i = Len(y)
    OBVIOUS
  <1>2. ASSUME NEW v \in Nat PROVE NewsOwed(y, v) <=> NewsOwed(u, v) \/ a.version > v
    BY <1>1 DEF NewsOwed
  <1>3. ASSUME NEW b \in Clients \X Slots PROVE OwedTo(y, b) <=> OwedTo(u, b) \/ a.by = b
    BY <1>1 DEF OwedTo
  <1>4. ASSUME NEW b \in Clients \X Slots, OwedOnce(u, b), ~(OwedTo(u, b) /\ a.by = b)
        PROVE  OwedOnce(y, b)
    <2> SUFFICES ASSUME NEW i \in 1..Len(y), NEW j \in 1..Len(y), y[i].by = b, y[j].by = b
                 PROVE  i = j
      BY DEF OwedOnce
    <2> QED
      BY <1>1, <1>4 DEF OwedOnce, OwedTo
  <1> QED
    BY <1>2, <1>3, <1>4

\* What is left to announce once the first commit is announced.
LEMMA OwedTaken ==
  ASSUME NEW u \in Seq(Announcement), u # <<>>, NEW y, y = Tail(u), NEW a, a = Head(u)
  PROVE  /\ a \in Announcement
         /\ \A v \in Nat : NewsOwed(u, v) <=> NewsOwed(y, v) \/ a.version > v
         /\ \A b \in Clients \X Slots :
              /\ OwedTo(u, b) <=> OwedTo(y, b) \/ a.by = b
              /\ OwedOnce(u, b) => OwedOnce(y, b) /\ ~(OwedTo(y, b) /\ a.by = b)
  <1>1. /\ a \in Announcement /\ a = u[1] /\ 1 \in 1..Len(u)
        /\ Len(u) \in Nat \ {0} /\ Len(y) = Len(u) - 1
        /\ \A i \in 1..Len(y) : i + 1 \in 1..Len(u) /\ y[i] = u[i + 1] /\ i + 1 # 1
    OBVIOUS
  <1>2. \A j \in 1..Len(u) : j = 1 \/ (j - 1 \in 1..Len(y) /\ y[j - 1] = u[j])
    <2> SUFFICES ASSUME NEW j \in 1..Len(u), j # 1 PROVE j - 1 \in 1..Len(y) /\ y[j - 1] = u[j]
      OBVIOUS
    <2>1. j - 1 \in 1..Len(y) /\ (j - 1) + 1 = j
      BY <1>1
    <2> QED
      BY <1>1, <2>1
  <1>3. ASSUME NEW v \in Nat PROVE NewsOwed(u, v) <=> NewsOwed(y, v) \/ a.version > v
    <2>1. ASSUME NewsOwed(u, v) PROVE NewsOwed(y, v) \/ a.version > v
      <3>1. PICK j \in 1..Len(u) : u[j].version > v
        BY <2>1 DEF NewsOwed
      <3> QED
        BY <1>1, <1>2, <3>1 DEF NewsOwed
    <2>2. ASSUME NewsOwed(y, v) PROVE NewsOwed(u, v)
      BY <1>1, <2>2 DEF NewsOwed
    <2> QED
      BY <1>1, <2>1, <2>2 DEF NewsOwed
  <1>4. ASSUME NEW b \in Clients \X Slots PROVE OwedTo(u, b) <=> OwedTo(y, b) \/ a.by = b
    <2>1. ASSUME OwedTo(u, b) PROVE OwedTo(y, b) \/ a.by = b
      <3>1. PICK j \in 1..Len(u) : u[j].by = b
        BY <2>1 DEF OwedTo
      <3> QED
        BY <1>1, <1>2, <3>1 DEF OwedTo
    <2>2. ASSUME OwedTo(y, b) PROVE OwedTo(u, b)
      BY <1>1, <2>2 DEF OwedTo
    <2> QED
      BY <1>1, <2>1, <2>2 DEF OwedTo
  <1>5. ASSUME NEW b \in Clients \X Slots, OwedOnce(u, b)
        PROVE  OwedOnce(y, b) /\ ~(OwedTo(y, b) /\ a.by = b)
    <2>1. OwedOnce(y, b)
      <3> SUFFICES ASSUME NEW i \in 1..Len(y), NEW j \in 1..Len(y), y[i].by = b, y[j].by = b
                   PROVE  i = j
        BY DEF OwedOnce
      <3>1. i + 1 = j + 1
        BY <1>1, <1>5 DEF OwedOnce
      <3> QED
        BY <3>1
    <2>2. ASSUME OwedTo(y, b), a.by = b PROVE FALSE
      <3>1. PICK i \in 1..Len(y) : y[i].by = b
        BY <2>2 DEF OwedTo
      <3> QED
        BY <1>1, <1>5, <2>2, <3>1 DEF OwedOnce
    <2> QED
      BY <2>1, <2>2
  <1> QED
    BY <1>1, <1>3, <1>4, <1>5

\* A client has one operation at a time.
OneAtATime == \A o, q \in Slots : o = q

\* What is shown is a version, and so is what the server has.
LEMMA VersionTypes ==
  ASSUME TypeOK, NEW c \in Clients
  PROVE  /\ ShownVersion(c) \in Nat /\ doc.workspaceVersion \in Nat /\ sent[c] \in Nat
         /\ wire[c] \in Seq(Frame) /\ held[c] \in Seq(Doc) /\ unannounced \in Seq(Announcement)
         /\ shown[c] \in View \cup {NoView} /\ op[c] \in [Slots -> Op]
         /\ shown[c] # NoView => ShownVersion(c) = shown[c].base.workspaceVersion
  BY DEF TypeOK, ServerType, ClientType, LinkType, ShownVersion, View, Doc

\* A client a step is not about: what the server still owes it is owed to it.
LEMMA StillKept ==
  ASSUME TypeOK, TypeOK', NEW d \in Clients, LayersKept(d),
         connected'[d] = connected[d], shown'[d] = shown[d], error'[d] = error[d],
         fresh'[d] = fresh[d], op'[d] = op[d], sent'[d] = sent[d],
         held'[d] = held[d], wire'[d] = wire[d],
         doc'.workspaceVersion >= doc.workspaceVersion,
         \A v \in Nat : NewsOwed(unannounced, v) => NewsOwed(unannounced', v),
         \A o \in Slots :
           /\ OwedTo(unannounced', <<d, o>>) <=> OwedTo(unannounced, <<d, o>>)
           /\ OwedOnce(unannounced, <<d, o>>) => OwedOnce(unannounced', <<d, o>>)
  PROVE  LayersKept(d)'
  <1>1. /\ ShownVersion(d) \in Nat /\ doc.workspaceVersion \in Nat
        /\ doc'.workspaceVersion \in Nat /\ held[d] \in Seq(Doc) /\ wire[d] \in Seq(Frame)
    BY VersionTypes DEF TypeOK, ServerType, Doc
  <1>2. ShownVersion(d)' = ShownVersion(d)
    BY DEF ShownVersion
  <1>3. NoneAhead(d)'
    <2>1. ASSUME NEW i \in 1..Len(held[d])
          PROVE  held[d][i].workspaceVersion <= doc'.workspaceVersion
      <3>1. held[d][i] \in Doc
        BY <1>1
      <3>2. held[d][i].workspaceVersion \in Nat
        BY <3>1 DEF Doc
      <3>3. held[d][i].workspaceVersion <= doc.workspaceVersion
        BY DEF LayersKept, NoneAhead
      <3> QED
        BY <1>1, <3>2, <3>3
    <2>2. DocsUpTo(wire[d], doc'.workspaceVersion)
      <3> SUFFICES ASSUME NEW i \in 1..Len(wire[d]), wire[d][i].kind = "doc"
                   PROVE  wire[d][i].doc.workspaceVersion <= doc'.workspaceVersion
        BY DEF DocsUpTo
      <3>1. wire[d][i] \in Frame
        BY <1>1
      <3>2. wire[d][i].doc.workspaceVersion \in Nat
        BY <3>1, FrameParts DEF Doc
      <3>3. wire[d][i].doc.workspaceVersion <= doc.workspaceVersion
        BY DEF LayersKept, NoneAhead, DocsUpTo
      <3> QED
        BY <1>1, <3>2, <3>3
    <2>3. ShownVersion(d) <= doc'.workspaceVersion
      <3>1. ShownVersion(d) <= doc.workspaceVersion
        BY DEF LayersKept, NoneAhead
      <3> QED
        BY <1>1, <3>1
    <2> QED
      BY <1>2, <2>1, <2>2, <2>3 DEF NoneAhead
  <1>4. ASSUME NEW o \in Slots PROVE AnsweredOnce(d, o)'
    <2>1. AnsweredOnce(d, o)
      BY DEF LayersKept
    <2> QED
      BY <2>1 DEF AnsweredOnce
  <1>5. Refetches(d) => Refetches(d)'
    BY <1>1, <1>2 DEF Refetches
  <1>6. LayersGo(d) => LayersGo(d)'
    BY <1>5 DEF LayersGo, InFlight, OkAhead
  <1> QED
    BY <1>3, <1>4, <1>6 DEF LayersKept

\* It is enough to look at the one client a step is about.
LEMMA KeptOfOne ==
  ASSUME TypeOK, TypeOK', LeftoverInv, NEW c \in Clients, UNCHANGED <<doc, unannounced>>,
         LayersKept(c)',
         \A d \in Clients \ {c} :
           /\ connected'[d] = connected[d] /\ shown'[d] = shown[d] /\ error'[d] = error[d]
           /\ fresh'[d] = fresh[d] /\ op'[d] = op[d] /\ sent'[d] = sent[d]
           /\ held'[d] = held[d] /\ wire'[d] = wire[d]
  PROVE  LeftoverInv'
  <1>1. doc.workspaceVersion \in Nat
    BY DEF TypeOK, ServerType, Doc
  <1>2. ASSUME NEW d \in Clients \ {c} PROVE LayersKept(d)'
    BY <1>1, <1>2, StillKept DEF LeftoverInv
  <1> QED
    BY <1>2 DEF LeftoverInv

\* A commit: whoever it answers has news of a version above the one it lies on.
LEMMA CommitKept ==
  ASSUME TypeOK, TypeOK', LeftoverInv, "undo" \notin Kinds, OneAtATime,
         \/ OtherCommit \/ OtherUndo
         \/ \E c \in Clients, o \in Slots : Serve(c, o)
  PROVE  LeftoverInv'
  <1> DEFINE v == doc.workspaceVersion
             Made(b) == /\ unannounced' = Append(unannounced, [version |-> v + 1, by |-> b])
                        /\ doc'.workspaceVersion = v + 1
                        /\ UNCHANGED <<connected, shown, error, fresh, link>>
             Fits(b) == /\ Made(b)
                        /\ \/ b = Nobody /\ op' = op
                           \/ \E c \in Clients, o \in Slots :
                                /\ b = <<c, o>> /\ op[c][o].phase = "sent"
                                /\ op' = [op EXCEPT ![c][o].phase = "served"]
  <1>1. \E b \in (Clients \X Slots) \cup {Nobody} : Fits(b)
    <2>1. Commit => doc'.workspaceVersion = v + 1
      BY DEF Commit
    <2>2. CASE OtherCommit
      <3>1. Fits(Nobody)
        BY <2>1, <2>2 DEF OtherCommit, client
      <3> QED
        BY <3>1
    <2>3. CASE OtherUndo
      BY <2>3 DEF OtherUndo
    <2>4. ASSUME NEW c \in Clients, NEW o \in Slots, Serve(c, o)
          PROVE  Fits(<<c, o>>)
      <3>1. op[c][o].kind # "undo"
        BY DEF LeftoverInv, LayersKept, AnsweredOnce
      <3> QED
        BY <2>1, <2>4, <3>1 DEF Serve
    <2> HIDE DEF Fits
    <2> QED
      BY <2>2, <2>3, <2>4
  <1>2. PICK b \in (Clients \X Slots) \cup {Nobody} : Fits(b)
    BY <1>1
  <1> DEFINE a == [version |-> v + 1, by |-> b]
  <1>3. /\ v \in Nat /\ a \in Announcement /\ a.version = v + 1 /\ a.by = b
        /\ unannounced \in Seq(Announcement) /\ unannounced' = Append(unannounced, a)
    BY <1>2 DEF TypeOK, ServerType, Doc, Announcement
  <1>4. /\ \A w \in Nat : NewsOwed(unannounced', w) <=> NewsOwed(unannounced, w) \/ v + 1 > w
        /\ \A q \in Clients \X Slots :
             /\ OwedTo(unannounced', q) <=> OwedTo(unannounced, q) \/ b = q
             /\ OwedOnce(unannounced, q) /\ ~(OwedTo(unannounced, q) /\ b = q)
                  => OwedOnce(unannounced', q)
    <2> HIDE DEF a, v
    <2>1. /\ \A w \in Nat : NewsOwed(unannounced', w) <=> NewsOwed(unannounced, w) \/ a.version > w
          /\ \A q \in Clients \X Slots :
               /\ OwedTo(unannounced', q) <=> OwedTo(unannounced, q) \/ a.by = q
               /\ OwedOnce(unannounced, q) /\ ~(OwedTo(unannounced, q) /\ a.by = q)
                    => OwedOnce(unannounced', q)
      BY <1>3, OwedAdded
    <2> QED
      BY <1>3, <2>1
  <1>5. /\ doc'.workspaceVersion = v + 1
        /\ connected' = connected /\ shown' = shown /\ error' = error /\ fresh' = fresh
        /\ sent' = sent /\ held' = held /\ wire' = wire
    BY <1>2 DEF link
  <1> HIDE DEF a, Fits, Made, v
  <1>6. ASSUME NEW d \in Clients, \A o \in Slots : b # <<d, o>> PROVE LayersKept(d)'
    <2>1. op'[d] = op[d]
      BY <1>2, <1>6 DEF Fits, TypeOK, ClientType
    <2>2. \A o \in Slots : <<d, o>> \in Clients \X Slots
      OBVIOUS
    <2>3. \A o \in Slots : /\ OwedTo(unannounced', <<d, o>>) <=> OwedTo(unannounced, <<d, o>>)
                           /\ OwedOnce(unannounced, <<d, o>>) => OwedOnce(unannounced', <<d, o>>)
      BY <1>4, <1>6, <2>2
    <2>4. \A w \in Nat : NewsOwed(unannounced, w) => NewsOwed(unannounced', w)
      BY <1>4
    <2>5. doc'.workspaceVersion >= doc.workspaceVersion
      BY <1>3, <1>5 DEF v
    <2>6. LayersKept(d)
      BY DEF LeftoverInv
    <2> QED
      BY <1>5, <2>1, <2>3, <2>4, <2>5, <2>6, StillKept
  <1>7. ASSUME NEW d \in Clients, NEW o \in Slots, b = <<d, o>> PROVE LayersKept(d)'
    <2>1. op[d][o].phase = "sent" /\ op' = [op EXCEPT ![d][o].phase = "served"]
      BY <1>2, <1>7, NobodyAssumption DEF Fits
    <2>2. /\ op'[d][o].phase = "served" /\ op'[d][o].kind = op[d][o].kind
          /\ op'[d][o].previous = op[d][o].previous
          /\ op'[d][o].optimistic = op[d][o].optimistic
      <3>1. op \in [Clients -> [Slots -> Op]] /\ op[d][o] \in Op
        BY DEF TypeOK, ClientType
      <3>2. op'[d][o] = [op[d][o] EXCEPT !.phase = "served"]
        BY <2>1, <3>1
      <3> QED
        BY <3>1, <3>2, ServedType DEF Op
    <2>3. AnsweredOnce(d, o) /\ NoneAhead(d) /\ <<d, o>> \in Clients \X Slots
      BY DEF LeftoverInv, LayersKept
    <2>4. /\ ShownVersion(d)' = ShownVersion(d) /\ ShownVersion(d) \in Nat
          /\ ShownVersion(d) <= v
      BY <1>5, <2>3, VersionTypes DEF ShownVersion, NoneAhead, v
    <2>5. Refetches(d)'
      BY <1>3, <1>4, <2>4 DEF Refetches
    <2>6. AnsweredOnce(d, o)'
      <3>1. ~AnswerOn(wire[d], o) /\ ~OwedTo(unannounced, <<d, o>>)
        BY <2>1, <2>3 DEF AnsweredOnce
      <3>2. OwedTo(unannounced', <<d, o>>) /\ OwedOnce(unannounced', <<d, o>>)
        BY <1>4, <1>7, <2>3, <3>1 DEF AnsweredOnce
      <3>3. /\ ~AnswerOn(wire'[d], o) /\ OneAnswerOn(wire'[d], o)
            /\ op'[d][o].phase = "served" /\ op'[d][o].kind # "undo"
        BY <1>5, <2>2, <2>3, <3>1 DEF AnsweredOnce
      <3> QED
        BY <3>2, <3>3 DEF AnsweredOnce
    <2>7. NoneAhead(d)'
      <3>1. ASSUME NEW i \in 1..Len(held[d]) PROVE held[d][i].workspaceVersion <= v + 1
        <4>1. held[d][i].workspaceVersion \in Nat
          <5>1. held[d] \in Seq(Doc)
            BY VersionTypes
          <5>2. held[d][i] \in Doc
            BY <5>1
          <5> QED
            BY <5>2 DEF Doc
        <4>2. held[d][i].workspaceVersion <= v
          BY <2>3 DEF NoneAhead, v
        <4> QED
          BY <1>3, <4>1, <4>2
      <3>2. DocsUpTo(wire[d], v + 1)
        <4> SUFFICES ASSUME NEW i \in 1..Len(wire[d]), wire[d][i].kind = "doc"
                     PROVE  wire[d][i].doc.workspaceVersion <= v + 1
          BY DEF DocsUpTo
        <4>1. wire[d][i] \in Frame
          BY VersionTypes
        <4>2. wire[d][i].doc.workspaceVersion \in Nat
          BY <4>1, FrameParts DEF Doc
        <4>3. wire[d][i].doc.workspaceVersion <= v
          BY <2>3 DEF NoneAhead, DocsUpTo, v
        <4> QED
          BY <1>3, <4>2, <4>3
      <3>3. ShownVersion(d) <= v + 1
        BY <1>3, <2>4
      <3> QED
        BY <1>5, <2>4, <3>1, <3>2, <3>3 DEF NoneAhead
    <2>8. fresh[d] => shown[d] # NoView
      BY DEF LeftoverInv, LayersKept
    <2> QED
      BY <1>5, <2>5, <2>6, <2>7, <2>8 DEF LayersKept, LayersGo, OneAtATime
  <1> QED
    BY <1>6, <1>7 DEF LeftoverInv

\* An announcement on the wire is news as it was while it was owed, and the
\* caller's answer follows it.
LEMMA AnnounceKept ==
  ASSUME TypeOK, TypeOK', OfflineInv, LeftoverInv, Announce
  PROVE  LeftoverInv'
  <1> SUFFICES ASSUME NEW d \in Clients PROVE LayersKept(d)'
    BY DEF LeftoverInv
  <1> DEFINE a == Head(unannounced)
             f == [kind |-> "changed", version |-> a.version]
  <1>1. /\ unannounced \in Seq(Announcement) /\ unannounced # <<>>
        /\ unannounced' = Tail(unannounced) /\ wire[d] \in Seq(Frame)
        /\ doc' = doc /\ connected' = connected /\ shown' = shown /\ error' = error
        /\ fresh' = fresh /\ op' = op /\ sent' = sent /\ held' = held
    BY DEF Announce, client, TypeOK, ServerType, LinkType
  <1>2. /\ a \in Announcement /\ a.version \in Nat
        /\ a.by \in (Clients \X Slots) \cup {Nobody}
    <2>1. a \in Announcement
      BY <1>1
    <2> QED
      BY <2>1 DEF Announcement
  <1>3. f \in Frame /\ f.kind = "changed" /\ f.version = a.version
    BY <1>2, FrameMakers
  <1>4. /\ wire'[d] = IF connected[d]
                      THEN wire[d] \o <<f>> \o
                             IF a.by # Nobody /\ a.by[1] = d
                             THEN <<[kind |-> "ok", slot |-> a.by[2]]>> ELSE <<>>
                      ELSE wire[d]
    BY DEF Announce
  <1> DEFINE Owed(y) ==
               /\ \A v \in Nat : NewsOwed(unannounced, v) <=> NewsOwed(y, v) \/ a.version > v
               /\ \A b \in Clients \X Slots :
                    /\ OwedTo(unannounced, b) <=> OwedTo(y, b) \/ a.by = b
                    /\ OwedOnce(unannounced, b) => OwedOnce(y, b) /\ ~(OwedTo(y, b) /\ a.by = b)
  <1>5. Owed(unannounced')
    <2> HIDE DEF f
    <2>1. \A y : y = Tail(unannounced) => Owed(y)
      BY <1>1, OwedTaken
    <2> QED
      BY <1>1, <2>1
  <1> HIDE DEF a, f
  <1>6. /\ ShownVersion(d)' = ShownVersion(d) /\ ShownVersion(d) \in Nat
        /\ doc.workspaceVersion \in Nat
    BY <1>1, VersionTypes DEF ShownVersion
  <1>7. \A o \in Slots : <<d, o>> \in Clients \X Slots /\ AnsweredOnce(d, o)
    BY DEF LeftoverInv, LayersKept
  <1>8. /\ fresh[d] => connected[d] /\ shown[d] # NoView
        /\ NoneAhead(d) /\ (fresh[d] /\ ~error[d] => LayersGo(d))
    BY DEF LeftoverInv, LayersKept, OfflineInv, Offline
  <1>9. CASE ~connected[d]
    <2>1. wire'[d] = wire[d] /\ ~fresh[d]
      BY <1>4, <1>8, <1>9
    <2>2. NoneAhead(d)'
      BY <1>1, <1>6, <1>8, <2>1 DEF NoneAhead
    <2>3. ASSUME NEW o \in Slots PROVE AnsweredOnce(d, o)'
      BY <1>1, <1>5, <1>7, <2>1 DEF AnsweredOnce
    <2> QED
      BY <1>1, <2>1, <2>2, <2>3 DEF LayersKept
  <1>10. CASE connected[d]
    <2> DEFINE x == Append(wire[d], f)
    <2>1. /\ x \in Seq(Frame) /\ (Answered(wire[d]) => Answered(x))
          /\ \A v \in Nat : /\ NewsOn(x, v) <=> NewsOn(wire[d], v) \/ a.version > v
                            /\ DocsUpTo(wire[d], v) => DocsUpTo(x, v)
          /\ \A o \in Slots : /\ AnswerOn(x, o) <=> AnswerOn(wire[d], o)
                              /\ OkOn(x, o) <=> OkOn(wire[d], o)
                              /\ OneAnswerOn(wire[d], o) => OneAnswerOn(x, o)
      <3>1. \A o \in Slots : ~Answers(f, o)
        BY <1>3 DEF Answers
      <3> HIDE DEF x
      <3>2. \A z : z = Append(wire[d], f) => z \in Seq(Frame) /\ (Answered(wire[d]) => Answered(z))
                  /\ \A v \in Nat : /\ NewsOn(z, v) <=> NewsOn(wire[d], v) \/ a.version > v
                                    /\ DocsUpTo(wire[d], v) => DocsUpTo(z, v)
                  /\ \A o \in Slots : /\ AnswerOn(z, o) <=> AnswerOn(wire[d], o)
                                      /\ OkOn(z, o) <=> OkOn(wire[d], o)
                                      /\ OneAnswerOn(wire[d], o) => OneAnswerOn(z, o)
        BY <1>1, <1>3, <3>1, FrameAdded
      <3> QED
        BY <3>2 DEF x
    <2>2. CASE \A o \in Slots : a.by # <<d, o>>
      <3>1. wire'[d] = x
        <4>1. ~(a.by # Nobody /\ a.by[1] = d)
          BY <1>2, <2>2
        <4>2. wire'[d] = wire[d] \o <<f>> \o <<>>
          BY <1>4, <1>10, <4>1
        <4>3. wire[d] \o <<f>> = x /\ x \o <<>> = x
          BY <1>1, <1>3, <2>1
        <4> QED
          BY <4>2, <4>3
      <3> HIDE DEF x
      <3>2. Refetches(d) => Refetches(d)'
        BY <1>1, <1>5, <1>6, <2>1, <3>1 DEF Refetches
      <3>3. ASSUME NEW o \in Slots PROVE AnsweredOnce(d, o)'
        BY <1>1, <1>5, <1>7, <2>1, <2>2, <3>1 DEF AnsweredOnce
      <3>4. NoneAhead(d)'
        BY <1>1, <1>6, <1>8, <2>1, <3>1 DEF NoneAhead
      <3>5. LayersGo(d) => LayersGo(d)'
        BY <1>1, <1>5, <1>7, <2>1, <3>1, <3>2 DEF LayersGo, InFlight, OkAhead
      <3> QED
        BY <1>1, <1>8, <3>3, <3>4, <3>5 DEF LayersKept
    <2>3. ASSUME NEW o \in Slots, a.by = <<d, o>> PROVE LayersKept(d)'
      <3> DEFINE g == [kind |-> "ok", slot |-> o]
                 z == Append(x, g)
      <3>1. wire'[d] = z
        <4>1. a.by # Nobody /\ a.by[1] = d /\ a.by[2] = o
          BY <2>3, NobodyAssumption
        <4>2. wire'[d] = wire[d] \o <<f>> \o <<g>>
          BY <1>4, <1>10, <4>1
        <4>3. wire[d] \o <<f>> = x
          BY <1>1, <1>3
        <4>4. g \in Frame
          BY FrameMakers
        <4> HIDE DEF x, g
        <4>5. x \o <<g>> = Append(x, g)
          BY <2>1, <4>4
        <4> QED
          BY <4>2, <4>3, <4>5 DEF z
      <3>2. g \in Frame /\ g.kind = "ok" /\ g.slot = o
        BY FrameMakers
      <3> HIDE DEF x, g, z
      <3>3. \A q \in Slots : Answers(g, q) <=> q = o
        BY <3>2 DEF Answers
      <3>4. z = Append(x, g)
        BY DEF z
      <3>5. /\ z \in Seq(Frame) /\ (Answered(x) => Answered(z))
            /\ \A v \in Nat : (NewsOn(z, v) <=> NewsOn(x, v)) /\ (DocsUpTo(x, v) => DocsUpTo(z, v))
            /\ \A q \in Slots :
                 /\ AnswerOn(z, q) <=> AnswerOn(x, q) \/ q = o
                 /\ OkOn(z, q) <=> OkOn(x, q) \/ q = o
                 /\ OneAnswerOn(x, q) /\ ~(AnswerOn(x, q) /\ q = o) => OneAnswerOn(z, q)
        BY <2>1, <3>2, <3>3, <3>4, FrameAdded
      <3>6. Refetches(d) => Refetches(d)'
        BY <1>1, <1>5, <1>6, <2>1, <3>1, <3>5 DEF Refetches
      <3>7. \A q \in Slots : a.by = <<d, q>> <=> q = o
        BY <2>3
      <3>8. ASSUME NEW q \in Slots PROVE AnsweredOnce(d, q)'
        <4>1. /\ OwedTo(unannounced, <<d, q>>) <=> OwedTo(unannounced', <<d, q>>) \/ q = o
              /\ OwedOnce(unannounced, <<d, q>>) =>
                   OwedOnce(unannounced', <<d, q>>) /\ ~(OwedTo(unannounced', <<d, q>>) /\ q = o)
          BY <1>5, <1>7, <3>7
        <4> QED
          BY <1>1, <1>7, <2>1, <3>1, <3>5, <4>1 DEF AnsweredOnce
      <3>9. NoneAhead(d)'
        BY <1>1, <1>6, <1>8, <2>1, <3>1, <3>5 DEF NoneAhead
      <3>10. ASSUME LayersGo(d) PROVE LayersGo(d)'
        <4>1. ASSUME NEW q \in Slots, OkAhead(d, q)' PROVE OkAhead(d, q)
          <5>1. OwedTo(unannounced, <<d, q>>) <=> OwedTo(unannounced', <<d, q>>) \/ q = o
            BY <1>5, <1>7, <3>7
          <5> QED
            BY <2>1, <3>1, <3>5, <4>1, <5>1 DEF OkAhead
        <4> QED
          BY <1>1, <3>6, <3>10, <4>1 DEF LayersGo, InFlight
      <3> QED
        BY <1>1, <1>8, <3>8, <3>9, <3>10 DEF LayersKept
    <2> QED
      BY <2>2, <2>3
  <1> QED
    BY <1>9, <1>10

\* One more frame that is no announcement and no consent: whoever waited for a
\* document still waits for one, or has it on the wire.
LEMMA FrameKept ==
  ASSUME TypeOK, TypeOK', NEW c \in Clients, LayersKept(c),
         NEW f \in Frame, wire'[c] = Append(wire[c], f),
         doc' = doc, unannounced' = unannounced, connected' = connected, shown' = shown,
         error' = error, fresh' = fresh,
         f.kind \in {"doc", "noDoc", "failed"},
         f.kind = "doc" => f.doc.workspaceVersion <= doc.workspaceVersion,
         f.kind = "failed" => sent'[c] = sent[c] /\ held'[c] = held[c],
         \A i \in 1..Len(held'[c]) : held'[c][i].workspaceVersion <= doc.workspaceVersion,
         \A o \in Slots :
           /\ op'[c][o].kind = op[c][o].kind
           /\ op'[c][o].previous = op[c][o].previous
           /\ op'[c][o].optimistic = op[c][o].optimistic
           /\ \/ op'[c][o].phase = op[c][o].phase /\ ~Answers(f, o)
              \/ op'[c][o].phase = "served" /\ op[c][o].phase = "sent"
  PROVE  LayersKept(c)'
  <1>1. /\ ShownVersion(c)' = ShownVersion(c) /\ ShownVersion(c) \in Nat
        /\ doc.workspaceVersion \in Nat /\ wire[c] \in Seq(Frame)
    BY VersionTypes DEF ShownVersion
  <1>2. /\ Answered(wire'[c]) <=> Answered(wire[c]) \/ f.kind \in {"doc", "noDoc"}
        /\ \A v \in Nat :
             /\ NewsOn(wire'[c], v) <=> NewsOn(wire[c], v)
             /\ DocsUpTo(wire'[c], v) <=>
                  DocsUpTo(wire[c], v) /\ (f.kind = "doc" => f.doc.workspaceVersion <= v)
        /\ \A o \in Slots :
             /\ AnswerOn(wire'[c], o) <=> AnswerOn(wire[c], o) \/ Answers(f, o)
             /\ OkOn(wire'[c], o) <=> OkOn(wire[c], o)
             /\ OneAnswerOn(wire[c], o) /\ ~(AnswerOn(wire[c], o) /\ Answers(f, o))
                  => OneAnswerOn(wire'[c], o)
    <2>1. f.kind # "changed" /\ f.kind # "ok"
      OBVIOUS
    <2> QED
      BY <1>1, <2>1, FrameAdded
  <1>3. Refetches(c) => Refetches(c)'
    BY <1>1, <1>2 DEF Refetches
  <1>4. NoneAhead(c)'
    BY <1>1, <1>2 DEF NoneAhead, LayersKept
  <1>5. ASSUME NEW o \in Slots PROVE AnsweredOnce(c, o)'
    <2>1. AnsweredOnce(c, o)
      BY DEF LayersKept
    <2>2. CASE op'[c][o].phase = op[c][o].phase /\ ~Answers(f, o)
      BY <1>2, <2>1, <2>2 DEF AnsweredOnce
    <2>3. CASE op'[c][o].phase = "served" /\ op[c][o].phase = "sent"
      BY <1>2, <2>1, <2>3 DEF AnsweredOnce
    <2> QED
      BY <2>2, <2>3
  <1>6. LayersGo(c) => LayersGo(c)'
    BY <1>2, <1>3 DEF LayersGo, InFlight, OkAhead
  <1> QED
    BY <1>4, <1>5, <1>6 DEF LayersKept

\* A document more or less among those held back.
LEMMA OneIn ==
  ASSUME NEW s \in Seq(Doc), NEW d \in Doc, NEW t, t = Append(s, d)
  PROVE  /\ t # <<>>
         /\ \A i \in 1..Len(t) : t[i] = d \/ \E m \in 1..Len(s) : t[i] = s[m]
  <1>1. /\ Len(t) = Len(s) + 1 /\ Len(s) \in Nat /\ t[Len(s) + 1] = d
        /\ \A m \in 1..Len(s) : t[m] = s[m]
    OBVIOUS
  <1>2. t # <<>>
    OBVIOUS
  <1>3. ASSUME NEW i \in 1..Len(t) PROVE t[i] = d \/ \E m \in 1..Len(s) : t[i] = s[m]
    <2>1. i \in 1..Len(s) \/ i = Len(s) + 1
      BY <1>1
    <2> QED
      BY <1>1, <2>1
  <1> QED
    BY <1>2, <1>3

LEMMA OneOut ==
  ASSUME NEW s \in Seq(Doc), NEW i \in 1..Len(s),
         NEW t, t = SubSeq(s, 1, i - 1) \o SubSeq(s, i + 1, Len(s)),
         NEW k \in 1..Len(t)
  PROVE  \E m \in 1..Len(s) : t[k] = s[m]
  <1> DEFINE p == SubSeq(s, 1, i - 1)
             r == SubSeq(s, i + 1, Len(s))
  <1>1. p \in Seq(Doc) /\ Len(p) = i - 1
    OBVIOUS
  <1>2. \A m \in 1..(i - 1) : p[m] = s[m]
    BY SMTT(40)
  <1>3. r \in Seq(Doc) /\ Len(r) = Len(s) - i
    OBVIOUS
  <1>4. \A m \in 1..(Len(s) - i) : r[m] = s[m + i]
    OBVIOUS
  <1> HIDE DEF p, r
  <1>5. t = p \o r /\ Len(s) \in Nat
    BY DEF p, r
  <1>6. /\ Len(p \o r) = Len(p) + Len(r)
        /\ \A m \in 1..Len(p) : (p \o r)[m] = p[m]
        /\ \A m \in 1..Len(r) : (p \o r)[Len(p) + m] = r[m]
    BY SMTT(40), <1>1, <1>3
  <1>9. k \in 1..((i - 1) + (Len(s) - i))
    BY <1>1, <1>3, <1>5, <1>6
  <1>7. CASE k <= i - 1
    <2>1. k \in 1..(i - 1) /\ k \in 1..Len(s)
      BY <1>5, <1>7, <1>9
    <2>2. t[k] = p[k]
      BY <1>1, <1>5, <1>6, <2>1
    <2> QED
      BY <1>2, <2>1, <2>2
  <1>8. CASE ~(k <= i - 1)
    <2> DEFINE m == k - (i - 1)
    <2>2. m \in 1..(Len(s) - i) /\ m + i \in 1..Len(s) /\ (i - 1) + m = k
      BY <1>5, <1>8, <1>9
    <2> HIDE DEF m
    <2>1. t[k] = r[m]
      BY <1>1, <1>3, <1>5, <1>6, <2>2
    <2> QED
      BY <1>4, <2>1, <2>2
  <1> QED
    BY <1>7, <1>8

\* A read, an answer that took its time, and a refusal.
LEMMA ReplyKept ==
  ASSUME TypeOK, TypeOK', LeftoverInv, NEW c \in Clients,
         \/ Read(c) \/ AnswerLate(c)
         \/ \E o \in Slots : Reject(c, o)
  PROVE  LeftoverInv'
  <1>1. /\ LayersKept(c) /\ NoneAhead(c) /\ doc \in Doc /\ doc.workspaceVersion \in Nat
        /\ held[c] \in Seq(Doc) /\ wire \in [Clients -> Seq(Frame)]
        /\ held \in [Clients -> Seq(Doc)] /\ sent \in [Clients -> Nat]
    BY DEF LeftoverInv, LayersKept, TypeOK, ServerType, LinkType, Doc
  <1>2. \A i \in 1..Len(held[c]) : held[c][i].workspaceVersion <= doc.workspaceVersion
    BY <1>1 DEF NoneAhead
  <1>3. /\ doc' = doc /\ unannounced' = unannounced /\ connected' = connected
        /\ shown' = shown /\ error' = error /\ fresh' = fresh
        /\ \A d \in Clients \ {c} : /\ op'[d] = op[d] /\ sent'[d] = sent[d]
                                    /\ held'[d] = held[d] /\ wire'[d] = wire[d]
    BY <1>1 DEF Read, AnswerLate, Reject, server, client, TypeOK, ClientType
  <1>4. ASSUME Read(c) PROVE LayersKept(c)'
    <2>1. op' = op
      BY <1>4 DEF Read, client
    <2>2. CASE wire' = [wire EXCEPT ![c] = Append(@, [kind |-> "doc", doc |-> doc])] /\ held' = held
      <3> DEFINE f == [kind |-> "doc", doc |-> doc]
      <3>1. f \in Frame /\ f.kind = "doc" /\ f.doc = doc /\ \A o \in Slots : ~Answers(f, o)
        BY <1>1, FrameMakers DEF Answers
      <3>2. wire'[c] = Append(wire[c], f)
        BY <1>1, <2>2
      <3>3. f.doc.workspaceVersion <= doc.workspaceVersion
        BY <1>1, <3>1
      <3> HIDE DEF f
      <3> QED
        BY <1>1, <1>2, <1>3, <2>1, <2>2, <3>1, <3>2, <3>3, FrameKept
    <2>3. CASE wire' = [wire EXCEPT ![c] = Append(@, [kind |-> "noDoc"])] /\ held' = held
      <3> DEFINE f == [kind |-> "noDoc"]
      <3>1. f \in Frame /\ f.kind = "noDoc" /\ \A o \in Slots : ~Answers(f, o)
        BY FrameMakers DEF Answers
      <3>2. wire'[c] = Append(wire[c], f)
        BY <1>1, <2>3
      <3> HIDE DEF f
      <3> QED
        BY <1>1, <1>2, <1>3, <2>1, <2>3, <3>1, <3>2, FrameKept
    <2>4. CASE held' = [held EXCEPT ![c] = Append(@, doc)] /\ wire' = wire
      <3>1. held'[c] = Append(held[c], doc)
        BY <1>1, <2>4
      <3> DEFINE h == held'[c]
      <3>2. /\ h # <<>>
            /\ \A i \in 1..Len(h) : h[i] = doc \/ \E m \in 1..Len(held[c]) : h[i] = held[c][m]
        <4>1. \A t : t = Append(held[c], doc) =>
                /\ t # <<>>
                /\ \A i \in 1..Len(t) : t[i] = doc \/ \E m \in 1..Len(held[c]) : t[i] = held[c][m]
          BY <1>1, OneIn
        <4> QED
          BY <3>1, <4>1
      <3> HIDE DEF h
      <3>3. ASSUME NEW i \in 1..Len(h) PROVE h[i].workspaceVersion <= doc.workspaceVersion
        <4>1. doc.workspaceVersion <= doc.workspaceVersion
          BY <1>1
        <4> QED
          BY <1>2, <3>2, <4>1
      <3>4. ShownVersion(c)' = ShownVersion(c)
        BY <1>3 DEF ShownVersion
      <3>5. Refetches(c)'
        BY <3>2 DEF Refetches, h
      <3>6. NoneAhead(c)'
        BY <1>1, <1>3, <2>4, <3>3, <3>4 DEF NoneAhead, h
      <3>7. \A o \in Slots : AnsweredOnce(c, o)'
        BY <1>1, <1>3, <2>1, <2>4 DEF LayersKept, AnsweredOnce
      <3> QED
        BY <1>1, <1>3, <3>5, <3>6, <3>7 DEF LayersKept, LayersGo
    <2> QED
      BY <1>4, <2>2, <2>3, <2>4 DEF Read
  <1>5. ASSUME AnswerLate(c) PROVE LayersKept(c)'
    <2>1. PICK i \in 1..Len(held[c]) :
            /\ wire' = [wire EXCEPT ![c] = Append(@, [kind |-> "doc", doc |-> held[c][i]])]
            /\ held' = [held EXCEPT ![c] = SubSeq(@, 1, i - 1) \o SubSeq(@, i + 1, Len(@))]
      BY <1>5 DEF AnswerLate
    <2> DEFINE f == [kind |-> "doc", doc |-> held[c][i]]
    <2>2. /\ held[c][i] \in Doc /\ f \in Frame /\ f.kind = "doc" /\ f.doc = held[c][i]
          /\ \A o \in Slots : ~Answers(f, o)
      BY <1>1, FrameMakers DEF Answers
    <2>3. wire'[c] = Append(wire[c], f)
      BY <1>1, <2>1
    <2>4. held'[c] = SubSeq(held[c], 1, i - 1) \o SubSeq(held[c], i + 1, Len(held[c]))
      BY <1>1, <2>1
    <2>5. ASSUME NEW k \in 1..Len(held'[c])
          PROVE  held'[c][k].workspaceVersion <= doc.workspaceVersion
      <3>1. \E m \in 1..Len(held[c]) : held'[c][k] = held[c][m]
        <4>1. \A t : t = SubSeq(held[c], 1, i - 1) \o SubSeq(held[c], i + 1, Len(held[c])) =>
                \A n \in 1..Len(t) : \E m \in 1..Len(held[c]) : t[n] = held[c][m]
          BY <1>1, OneOut
        <4> QED
          BY <2>4, <4>1
      <3> QED
        BY <1>2, <3>1
    <2>6. op' = op /\ f.doc.workspaceVersion <= doc.workspaceVersion
      BY <1>2, <1>5, <2>2 DEF AnswerLate, client
    <2> HIDE DEF f
    <2> QED
      BY <1>1, <1>3, <2>2, <2>3, <2>5, <2>6, FrameKept
  <1>6. ASSUME NEW o \in Slots, Reject(c, o) PROVE LayersKept(c)'
    <2> DEFINE f == [kind |-> "failed", slot |-> o]
    <2>1. /\ f \in Frame /\ f.kind = "failed" /\ f.slot = o
          /\ \A q \in Slots : Answers(f, q) <=> q = o
      BY FrameMakers DEF Answers
    <2>2. /\ wire' = [wire EXCEPT ![c] = Append(@, f)] /\ sent' = sent /\ held' = held
          /\ op[c][o].phase = "sent" /\ op' = [op EXCEPT ![c][o].phase = "served"]
      BY <1>6 DEF Reject
    <2>3. wire'[c] = Append(wire[c], f)
      BY <1>1, <2>2
    <2>4. ASSUME NEW q \in Slots
          PROVE  /\ op'[c][q].kind = op[c][q].kind
                 /\ op'[c][q].previous = op[c][q].previous
                 /\ op'[c][q].optimistic = op[c][q].optimistic
                 /\ \/ op'[c][q].phase = op[c][q].phase /\ ~Answers(f, q)
                    \/ op'[c][q].phase = "served" /\ op[c][q].phase = "sent"
      <3>1. op \in [Clients -> [Slots -> Op]] /\ op[c][q] \in Op
        BY DEF TypeOK, ClientType
      <3>2. CASE q = o
        <4>1. op'[c][q] = [op[c][q] EXCEPT !.phase = "served"]
          BY <2>2, <3>1, <3>2
        <4> QED
          BY <2>2, <3>1, <3>2, <4>1 DEF Op
      <3>3. CASE q # o
        <4>1. op'[c][q] = op[c][q]
          BY <2>2, <3>1, <3>3
        <4> QED
          BY <2>1, <3>3, <4>1
      <3> QED
        BY <3>2, <3>3
    <2>5. /\ f.kind \in {"doc", "noDoc", "failed"} /\ f.kind # "doc"
          /\ sent'[c] = sent[c] /\ held'[c] = held[c]
      BY <2>1, <2>2
    <2> HIDE DEF f
    <2> QED
      BY <1>1, <1>2, <1>3, <2>1, <2>3, <2>4, <2>5, FrameKept
  <1> QED
    BY <1>3, <1>4, <1>5, <1>6, KeptOfOne

\* Consent is an answer.
LEMMA OkAnswers ==
  ASSUME NEW w, NEW o, OkOn(w, o)
  PROVE  AnswerOn(w, o)
  BY DEF OkOn, AnswerOn, Answers

\* A change is laid on what is shown; what that still waited for it waits for.
LEMMA StartKept ==
  ASSUME TypeOK, TypeOK', LeftoverInv, "undo" \notin Kinds, OneAtATime,
         NEW c \in Clients, NEW o \in Slots, Start(c, o)
  PROVE  LeftoverInv'
  <1>1. /\ LayersKept(c) /\ NoneAhead(c) /\ AnsweredOnce(c, o) /\ op[c][o].phase = "idle"
        /\ shown[c] \in View \cup {NoView} /\ op \in [Clients -> [Slots -> Op]]
        /\ shown \in [Clients -> View \cup {NoView}] /\ \A q \in Slots : q = o
    BY DEF LeftoverInv, LayersKept, Start, TypeOK, ClientType, OneAtATime
  <1>2. /\ doc' = doc /\ unannounced' = unannounced /\ connected' = connected /\ error' = error
        /\ fresh' = fresh /\ sent' = sent /\ held' = held /\ wire' = wire
        /\ \A d \in Clients \ {c} : op'[d] = op[d] /\ shown'[d] = shown[d]
    BY <1>1 DEF Start, server, link
  <1>3. /\ op[c][o].kind # "edit" /\ ~AnswerOn(wire[c], o) /\ ~OwedTo(unannounced, <<c, o>>)
        /\ OneAnswerOn(wire[c], o) /\ OwedOnce(unannounced, <<c, o>>)
    BY <1>1 DEF AnsweredOnce
  <1>4. /\ \A q \in Slots : ~InFlight(c, q)
        /\ ~OkAhead(c, o) /\ ~OkAhead(c, o)'
    BY <1>1, <1>2, <1>3, OkAnswers DEF InFlight, OkAhead
  <1>5. fresh[c] /\ ~error[c] => shown[c].layers = <<>> \/ Refetches(c)
    BY <1>1, <1>4 DEF LayersKept, LayersGo
  <1>6. PICK k \in Kinds :
          \/ /\ k = "edit" /\ shown[c] # NoView
             /\ shown' = [shown EXCEPT ![c] = Layered(@, o)]
             /\ op' = [op EXCEPT ![c][o] = [phase |-> "sent", kind |-> k,
                                            previous |-> shown[c], optimistic |-> shown'[c]]]
          \/ /\ k # "edit"
             /\ op' = [op EXCEPT ![c][o] = [NoOp EXCEPT !.phase = "sent", !.kind = k]]
             /\ UNCHANGED shown
    BY DEF Start
  <1>7. k # "undo"
    BY <1>6
  <1>8. /\ op'[c][o].phase = "sent" /\ op'[c][o].kind = k
        /\ k = "edit" => /\ shown[c] # NoView /\ shown'[c] = Layered(shown[c], o)
                         /\ op'[c][o].previous = shown[c]
                         /\ op'[c][o].optimistic = shown'[c]
        /\ k # "edit" => shown'[c] = shown[c]
    <2>1. CASE k = "edit"
      <3>1. op'[c][o] = [phase |-> "sent", kind |-> k,
                         previous |-> shown[c], optimistic |-> shown'[c]]
        BY <1>1, <1>6, <2>1
      <3>2. shown[c] # NoView /\ shown'[c] = Layered(shown[c], o)
        BY <1>1, <1>6, <2>1
      <3> QED
        BY <2>1, <3>1, <3>2
    <2>2. CASE k # "edit"
      <3>1. op'[c][o] = [NoOp EXCEPT !.phase = "sent", !.kind = k] /\ shown' = shown
        BY <1>1, <1>6, <2>2
      <3> QED
        BY <2>2, <3>1 DEF NoOp
    <2> QED
      BY <2>1, <2>2
  <1>9. /\ ShownVersion(c)' = ShownVersion(c)
        /\ shown[c] # NoView => shown'[c] # NoView
    <2>1. CASE k = "edit"
      BY <1>1, <1>8, <2>1, ViewMakers, NoViewAssumption DEF ShownVersion
    <2>2. CASE k # "edit"
      BY <1>8, <2>2 DEF ShownVersion
    <2> QED
      BY <2>1, <2>2
  <1>10. Refetches(c)' <=> Refetches(c)
    BY <1>2, <1>9 DEF Refetches
  <1>11. NoneAhead(c)'
    BY <1>1, <1>2, <1>9 DEF NoneAhead
  <1>12. AnsweredOnce(c, o)'
    BY <1>2, <1>3, <1>7, <1>8 DEF AnsweredOnce
  <1>13. fresh[c] /\ ~error[c] => LayersGo(c)'
    <2>1. CASE k = "edit"
      <3>1. InFlight(c, o)'
        BY <1>8, <2>1 DEF InFlight
      <3> QED
        BY <1>1, <1>4, <1>5, <1>8, <1>10, <2>1, <3>1 DEF LayersGo
    <2>2. CASE k # "edit"
      <3>1. ~InFlight(c, o)'
        BY <1>8, <2>2 DEF InFlight
      <3> QED
        BY <1>1, <1>5, <1>8, <1>10, <2>2, <3>1 DEF LayersGo
    <2> QED
      BY <2>1, <2>2
  <1>14. LayersKept(c)'
    BY <1>1, <1>2, <1>9, <1>11, <1>12, <1>13 DEF LayersKept
  <1> QED
    BY <1>2, <1>14, KeptOfOne

\* A frame the client handles.
LEMMA DeliverKept ==
  ASSUME TypeOK, TypeOK', LeftoverInv, OneAtATime, NEW c \in Clients, Deliver(c)
  PROVE  LeftoverInv'
  <1> DEFINE h == Arriving(c)
             x == Tail(wire[c])
             v == ShownVersion(c)
  <1>1. /\ wire[c] \in Seq(Frame) /\ wire[c] # <<>> /\ wire'[c] = x
        /\ \A d \in Clients \ {c} : wire'[d] = wire[d]
        /\ doc' = doc /\ unannounced' = unannounced /\ connected' = connected /\ held' = held
    <2>1. wire[c] # <<>> /\ wire' = [wire EXCEPT ![c] = Tail(@)]
      BY DEF Deliver, OnChanged, OnDoc, OnNoDoc, OnOk, OnFailed, Arrives
    <2>2. wire \in [Clients -> Seq(Frame)]
      BY DEF TypeOK, LinkType
    <2> QED
      BY <2>1, <2>2 DEF Deliver, OnChanged, OnDoc, OnNoDoc, OnOk, OnFailed, server, client
  <1>2. /\ LayersKept(c) /\ NoneAhead(c) /\ v \in Nat /\ sent[c] \in Nat
        /\ doc.workspaceVersion \in Nat /\ \A o \in Slots : AnsweredOnce(c, o)
        /\ fresh[c] => shown[c] # NoView
        /\ shown \in [Clients -> View \cup {NoView}] /\ sent \in [Clients -> Nat]
        /\ op \in [Clients -> [Slots -> Op]] /\ error \in [Clients -> BOOLEAN]
        /\ fresh \in [Clients -> BOOLEAN]
    BY VersionTypes DEF LeftoverInv, LayersKept, TypeOK, ClientType, LinkType
  <1>3. /\ x \in Seq(Frame) /\ h \in Frame
        /\ Answered(wire[c]) <=> h.kind \in {"doc", "noDoc"} \/ Answered(x)
        /\ \A u \in Nat :
             /\ NewsOn(wire[c], u) <=> NewsOn(x, u) \/ (h.kind = "changed" /\ h.version > u)
             /\ DocsUpTo(wire[c], u) <=>
                  DocsUpTo(x, u) /\ (h.kind = "doc" => h.doc.workspaceVersion <= u)
        /\ \A o \in Slots :
             /\ AnswerOn(wire[c], o) <=> AnswerOn(x, o) \/ Answers(h, o)
             /\ OkOn(wire[c], o) <=> OkOn(x, o) \/ (h.kind = "ok" /\ h.slot = o)
             /\ OneAnswerOn(wire[c], o) => OneAnswerOn(x, o) /\ ~(AnswerOn(x, o) /\ Answers(h, o))
    BY <1>1, FrameTaken DEF Arriving
  <1>4. h.kind \in {"ok", "failed"} => h.slot \in Slots
    BY <1>3, FrameParts
  <1> HIDE DEF h, x, v
  \* Handling a frame that is no answer leaves the operations as they are.
  <1>5. ASSUME op' = op, h.kind \notin {"ok", "failed"}, NEW o \in Slots PROVE AnsweredOnce(c, o)'
    <2>1. ~Answers(h, o)
      BY <1>5 DEF Answers
    <2> QED
      BY <1>1, <1>2, <1>3, <1>5, <2>1 DEF AnsweredOnce
  <1>6. ASSUME shown'[c] = shown[c]
        PROVE  ShownVersion(c)' = v /\ NoneAhead(c)'
    <2>1. ShownVersion(c)' = v
      BY <1>6 DEF ShownVersion, v
    <2> QED
      BY <1>1, <1>2, <1>3, <2>1 DEF NoneAhead, v
  <1>7. ASSUME OnChanged(c) PROVE LayersKept(c)'
    <2>1. h.kind = "changed" /\ shown' = shown /\ error' = error /\ fresh' = fresh /\ op' = op
      BY <1>7 DEF OnChanged, Arrives, client, h
    <2>2. sent' = IF h.version <= v THEN sent ELSE [sent EXCEPT ![c] = @ + 1]
      BY <1>7 DEF OnChanged, h, v
    <2>3. h.version \in Nat
      BY <1>3, <2>1, FrameParts
    <2>4. (sent[c] > 0 => sent'[c] > 0) /\ (h.version > v => sent'[c] > 0)
      BY <1>2, <2>2, <2>3
    <2>5. ShownVersion(c)' = v /\ NoneAhead(c)'
      BY <1>6, <2>1
    <2>6. Refetches(c) => Refetches(c)'
      BY <1>1, <1>2, <1>3, <2>1, <2>4, <2>5 DEF Refetches, v
    <2>7. LayersGo(c) => LayersGo(c)'
      BY <1>1, <1>3, <2>1, <2>6 DEF LayersGo, InFlight, OkAhead
    <2> QED
      BY <1>1, <1>2, <1>5, <2>1, <2>5, <2>7 DEF LayersKept
  <1>8. ASSUME OnDoc(c) PROVE LayersKept(c)'
    <2>1. /\ h.kind = "doc" /\ op' = op /\ shown'[c] = Plain(h.doc)
      BY <1>2, <1>8 DEF OnDoc, Arrives, h
    <2>2. h.doc \in Doc /\ shown'[c] \in View /\ shown'[c].base = h.doc /\ shown'[c].layers = <<>>
      BY <1>3, <2>1, FrameParts, ViewMakers DEF Plain
    <2>3. shown'[c] # NoView /\ ShownVersion(c)' = h.doc.workspaceVersion
      BY <2>2, NoViewAssumption DEF ShownVersion
    <2>4. NoneAhead(c)'
      BY <1>1, <1>2, <1>3, <2>1, <2>3 DEF NoneAhead
    <2>6. ASSUME NEW o \in Slots PROVE ~InFlight(c, o)'
      <3>1. CASE op[c][o].kind = "edit"
        <4>1. /\ op[c][o].previous \in View
              /\ op[c][o].optimistic.layers = Append(op[c][o].previous.layers, o)
          BY <3>1 DEF TypeOK, Layering, Layered, View
        <4>2. op[c][o].optimistic.layers # <<>>
          BY <4>1 DEF View
        <4> QED
          BY <2>1, <2>2, <4>2 DEF InFlight
      <3>2. CASE op[c][o].kind # "edit"
        BY <2>1, <3>2 DEF InFlight
      <3> QED
        BY <3>1, <3>2
    <2> QED
      BY <1>1, <1>5, <2>1, <2>2, <2>3, <2>4, <2>6 DEF LayersKept, LayersGo
  <1>9. ASSUME OnNoDoc(c) PROVE LayersKept(c)'
    <2>1. h.kind = "noDoc" /\ op' = op /\ shown' = shown /\ fresh' = fresh /\ error'[c]
      BY <1>2, <1>9 DEF OnNoDoc, Arrives, h
    <2> QED
      BY <1>1, <1>2, <1>5, <1>6, <2>1 DEF LayersKept
  \* An answer ends its operation.
  <1>10. ASSUME NEW o \in Slots, Answers(h, o), op' = [op EXCEPT ![c][o] = NoOp]
         PROVE  /\ \A q \in Slots : AnsweredOnce(c, q)' /\ ~InFlight(c, q)'
                /\ \A q \in Slots : q = o
    <2>1. \A q \in Slots : q = o
      BY DEF OneAtATime
    <2>2. op'[c][o] = NoOp
      BY <1>2, <1>10
    <2>3. AnswerOn(wire[c], o) /\ ~AnswerOn(x, o) /\ OneAnswerOn(x, o)
      BY <1>2, <1>3, <1>10 DEF AnsweredOnce
    <2>4. ~OwedTo(unannounced, <<c, o>>) /\ OwedOnce(unannounced, <<c, o>>)
      BY <1>2, <2>3 DEF AnsweredOnce
    <2>5. AnsweredOnce(c, o)'
      BY <1>1, <2>2, <2>3, <2>4 DEF AnsweredOnce, NoOp
    <2> QED
      BY <2>1, <2>2, <2>5 DEF InFlight, NoOp
  <1>11. ASSUME OnOk(c) PROVE LayersKept(c)'
    <2>1. /\ h.kind = "ok" /\ h.slot \in Slots /\ Answers(h, h.slot)
          /\ shown' = shown /\ fresh' = fresh /\ error' = error
          /\ op' = [op EXCEPT ![c][h.slot] = NoOp]
      BY <1>4, <1>11 DEF OnOk, Arrives, h, Answers
    <2>2. sent[c] > 0 => sent'[c] > 0
      <3>1. sent' = sent \/ sent' = [sent EXCEPT ![c] = @ + 1]
        BY <1>11 DEF OnOk
      <3>2. CASE sent' = sent
        BY <3>2
      <3>3. CASE sent' = [sent EXCEPT ![c] = @ + 1]
        BY <1>2, <3>3
      <3> QED
        BY <3>1, <3>2, <3>3
    <2>3. ShownVersion(c)' = v /\ NoneAhead(c)'
      BY <1>6, <2>1
    <2>4. Refetches(c) => Refetches(c)'
      BY <1>1, <1>2, <1>3, <2>1, <2>2, <2>3 DEF Refetches, v
    <2>5. OkAhead(c, h.slot)
      BY <1>3, <2>1 DEF OkAhead
    <2>6. /\ \A q \in Slots : AnsweredOnce(c, q)' /\ ~InFlight(c, q)'
          /\ \A q \in Slots : q = h.slot
      BY <1>10, <2>1
    <2>7. LayersGo(c) => shown[c].layers = <<>> \/ Refetches(c)
      BY <2>1, <2>5, <2>6 DEF LayersGo
    <2> QED
      BY <1>1, <1>2, <2>1, <2>3, <2>4, <2>6, <2>7 DEF LayersKept, LayersGo
  <1>12. ASSUME OnFailed(c) PROVE LayersKept(c)'
    <2> DEFINE o == h.slot
    <2>1. /\ h.kind = "failed" /\ o \in Slots /\ Answers(h, o)
          /\ shown'[c] = Reverted(c, o) /\ fresh' = fresh /\ error' = error /\ sent' = sent
          /\ op' = [op EXCEPT ![c][o] = NoOp]
      BY <1>2, <1>4, <1>12 DEF OnFailed, Arrives, h, Answers
    <2> HIDE DEF o
    <2>2. \/ shown'[c] = shown[c]
          \/ /\ shown[c] \in View /\ shown'[c] \in View /\ shown'[c].base = shown[c].base
      BY <2>1, RevertedType DEF TypeOK
    <2>3. ShownVersion(c)' = v /\ (shown[c] # NoView => shown'[c] # NoView)
      BY <2>2, NoViewAssumption DEF ShownVersion, v
    <2>4. NoneAhead(c)'
      BY <1>1, <1>2, <1>3, <2>3 DEF NoneAhead, v
    <2>5. Refetches(c) => Refetches(c)'
      BY <1>1, <1>2, <1>3, <2>1, <2>3 DEF Refetches, v
    <2>6. /\ \A q \in Slots : AnsweredOnce(c, q)' /\ ~InFlight(c, q)'
          /\ \A q \in Slots : q = o
      BY <1>10, <2>1
    <2>7. ASSUME LayersGo(c), fresh[c] PROVE shown'[c].layers = <<>> \/ Refetches(c)
      <3>1. CASE InFlight(c, o)
        <4>1. shown'[c] = op[c][o].previous
          BY <2>1, <3>1 DEF Reverted, InFlight
        <4> QED
          BY <2>1, <2>7, <3>1, <4>1 DEF LayersGo
      <3>2. CASE ~InFlight(c, o)
        <4>1. shown'[c] = shown[c]
          <5>1. CASE op[c][o].kind = "edit"
            BY <2>1, <3>2, <5>1 DEF Reverted, InFlight
          <5>2. CASE op[c][o].kind # "edit"
            <6>1. op[c][o].previous = op[c][o].optimistic
              BY <2>1, <5>2 DEF TypeOK, Layering
            <6> QED
              BY <2>1, <6>1 DEF Reverted
          <5> QED
            BY <5>1, <5>2
        <4> QED
          BY <2>6, <2>7, <3>2, <4>1 DEF LayersGo
      <3> QED
        BY <3>1, <3>2
    <2> QED
      BY <1>1, <1>2, <2>1, <2>3, <2>4, <2>5, <2>6, <2>7 DEF LayersKept, LayersGo
  <1>13. LayersKept(c)'
    BY <1>7, <1>8, <1>9, <1>11, <1>12 DEF Deliver
  <1>14. \A d \in Clients \ {c} :
           /\ shown'[d] = shown[d] /\ error'[d] = error[d] /\ fresh'[d] = fresh[d]
           /\ op'[d] = op[d] /\ sent'[d] = sent[d]
    BY <1>2 DEF Deliver, OnChanged, OnDoc, OnNoDoc, OnOk, OnFailed, client
  <1> QED
    BY <1>1, <1>13, <1>14, KeptOfOne

\* A lost connection takes what was loaded over it and every answer owed; a
\* reload asks.
LEMMA ConnectionKept ==
  ASSUME TypeOK, TypeOK', OfflineInv, LeftoverInv, NEW c \in Clients,
         Reload(c) \/ Drop(c) \/ Reconnect(c)
  PROVE  LeftoverInv'
  <1>1. /\ LayersKept(c) /\ NoneAhead(c) /\ doc.workspaceVersion \in Nat
        /\ sent \in [Clients -> Nat] /\ error \in [Clients -> BOOLEAN]
        /\ unannounced \in Seq(Announcement)
    BY VersionTypes DEF LeftoverInv, LayersKept, TypeOK, ClientType, LinkType
  <1>2. ASSUME Reload(c) PROVE LeftoverInv'
    <2>1. /\ doc' = doc /\ unannounced' = unannounced /\ connected' = connected
          /\ shown' = shown /\ fresh' = fresh /\ op' = op /\ held' = held /\ wire' = wire
          /\ sent'[c] = 1
          /\ \A d \in Clients \ {c} : sent'[d] = sent[d] /\ error'[d] = error[d]
      BY <1>1, <1>2 DEF Reload, server
    <2>2. ShownVersion(c)' = ShownVersion(c) /\ Refetches(c)'
      BY <2>1 DEF ShownVersion, Refetches
    <2>3. LayersKept(c)'
      BY <1>1, <2>1, <2>2 DEF LayersKept, LayersGo, NoneAhead, AnsweredOnce
    <2> QED
      BY <2>1, <2>3, KeptOfOne
  <1>3. ASSUME Reconnect(c) PROVE LeftoverInv'
    <2>1. /\ doc' = doc /\ unannounced' = unannounced /\ error' = error
          /\ shown' = shown /\ fresh' = fresh /\ op' = op /\ held' = held /\ wire' = wire
          /\ ~fresh[c]
          /\ \A d \in Clients \ {c} : sent'[d] = sent[d] /\ connected'[d] = connected[d]
      BY <1>1, <1>3 DEF Reconnect, server, OfflineInv, Offline
    <2>2. ShownVersion(c)' = ShownVersion(c)
      BY <2>1 DEF ShownVersion
    <2>3. LayersKept(c)'
      BY <1>1, <2>1, <2>2 DEF LayersKept, NoneAhead, AnsweredOnce
    <2> QED
      BY <2>1, <2>3, KeptOfOne
  <1>4. ASSUME Drop(c) PROVE LeftoverInv'
    <2> DEFINE u == unannounced
               y == unannounced'
    <2>1. /\ doc' = doc /\ ~fresh'[c] /\ wire'[c] = <<>> /\ held'[c] = <<>>
          /\ \A o \in Slots : op'[c][o] = NoOp
          /\ shown'[c] = IF \E o \in Slots : Reverted(c, o) # shown[c]
                         THEN Reverted(c, CHOOSE o \in Slots : Reverted(c, o) # shown[c])
                         ELSE shown[c]
      BY <1>4 DEF Drop, TypeOK, ClientType, LinkType
    <2>2. /\ Len(y) = Len(u) /\ Len(u) \in Nat
          /\ \A i \in 1..Len(u) :
               /\ y[i].version = u[i].version
               /\ y[i].by = IF u[i].by # Nobody /\ u[i].by[1] = c THEN Nobody ELSE u[i].by
      <3>1. y = [i \in 1..Len(u) |->
                  [u[i] EXCEPT !.by = IF @ # Nobody /\ @[1] = c THEN Nobody ELSE @]]
        BY <1>4 DEF Drop
      <3>2. y \in Seq(Announcement) /\ Len(u) \in Nat
        BY <1>1 DEF TypeOK, ServerType
      <3>3. Len(y) = Len(u)
        BY <3>1, <3>2
      <3>4. ASSUME NEW i \in 1..Len(u)
            PROVE  /\ y[i].version = u[i].version
                   /\ y[i].by = IF u[i].by # Nobody /\ u[i].by[1] = c THEN Nobody ELSE u[i].by
        <4>1. u[i] \in Announcement
          BY <1>1
        <4> HIDE DEF u
        <4> QED
          BY <3>1, <4>1 DEF Announcement
      <3> QED
        BY <3>2, <3>3, <3>4
    <2> HIDE DEF u, y
    <2>3. \A v \in Nat : NewsOwed(u, v) => NewsOwed(y, v)
      BY <2>2 DEF NewsOwed
    <2>4. ASSUME NEW d \in Clients \ {c}, NEW o \in Slots
          PROVE  /\ OwedTo(y, <<d, o>>) <=> OwedTo(u, <<d, o>>)
                 /\ OwedOnce(u, <<d, o>>) => OwedOnce(y, <<d, o>>)
      <3>1. \A i \in 1..Len(u) : y[i].by = <<d, o>> <=> u[i].by = <<d, o>>
        <4>1. <<d, o>> # Nobody /\ <<d, o>>[1] # c
          BY NobodyAssumption
        <4> QED
          BY <2>2, <4>1
      <3> QED
        BY <2>2, <3>1 DEF OwedTo, OwedOnce
    <2>5. ASSUME NEW o \in Slots PROVE ~OwedTo(y, <<c, o>>)
      <3> SUFFICES ASSUME NEW i \in 1..Len(u), y[i].by = <<c, o>> PROVE FALSE
        BY <2>2 DEF OwedTo
      <3>1. <<c, o>> # Nobody /\ <<c, o>>[1] = c
        BY NobodyAssumption
      <3> QED
        BY <2>2, <3>1
    <2>6. ShownVersion(c)' = ShownVersion(c)
      <3>1. \/ shown'[c] = shown[c]
            \/ shown[c] \in View /\ shown'[c] \in View /\ shown'[c].base = shown[c].base
        BY <2>1, RevertedType DEF TypeOK
      <3> QED
        BY <3>1, NoViewAssumption DEF ShownVersion
    <2>7. LayersKept(c)'
      <3>1. NoneAhead(c)'
        BY <1>1, <2>1, <2>6 DEF NoneAhead, DocsUpTo
      <3>2. ASSUME NEW o \in Slots PROVE AnsweredOnce(c, o)'
        <4>1. ~OwedTo(unannounced', <<c, o>>)
          BY <2>5 DEF y
        <4>2. OwedOnce(unannounced', <<c, o>>)
          BY <4>1 DEF OwedOnce, OwedTo
        <4> QED
          BY <2>1, <4>1, <4>2 DEF AnsweredOnce, AnswerOn, OneAnswerOn, NoOp
      <3> QED
        BY <2>1, <3>1, <3>2 DEF LayersKept
    <2>8. ASSUME NEW d \in Clients \ {c} PROVE LayersKept(d)'
      <3>1. /\ connected'[d] = connected[d] /\ shown'[d] = shown[d] /\ error'[d] = error[d]
            /\ fresh'[d] = fresh[d] /\ op'[d] = op[d] /\ sent'[d] = sent[d]
            /\ held'[d] = held[d] /\ wire'[d] = wire[d]
        BY <1>4 DEF Drop, TypeOK, ClientType, LinkType
      <3>2. LayersKept(d) /\ doc'.workspaceVersion >= doc.workspaceVersion
        BY <1>1, <2>1 DEF LeftoverInv
      <3> QED
        BY <2>3, <2>4, <3>1, <3>2, StillKept DEF u, y
    <2> QED
      BY <2>7, <2>8 DEF LeftoverInv
  <1> QED
    BY <1>2, <1>3, <1>4

\* A client without a connection has nothing under way.
LEMMA OfflineStep ==
  ASSUME TypeOK, TypeOK', OfflineInv, [Next]_vars
  PROVE  OfflineInv'
  <1> DEFINE Cut(d) == Offline(d) /\ (~connected[d] => held[d] = <<>>)
  <1>1. /\ connected \in [Clients -> BOOLEAN] /\ fresh \in [Clients -> BOOLEAN]
        /\ op \in [Clients -> [Slots -> Op]] /\ sent \in [Clients -> Nat]
        /\ held \in [Clients -> Seq(Doc)] /\ wire \in [Clients -> Seq(Frame)]
    BY DEF TypeOK, ClientType, LinkType
  <1>2. \A d \in Clients : Cut(d)
    BY DEF OfflineInv
  <1>3. ASSUME UNCHANGED <<connected, fresh, sent, held, wire, op>> PROVE OfflineInv'
    BY <1>3 DEF OfflineInv, Offline
  <1>4. CASE OtherCommit \/ OtherUndo \/ Forget \/ UNCHANGED vars
    BY <1>3, <1>4 DEF OtherCommit, OtherUndo, Forget, vars, server, client, link
  <1>5. CASE Announce
    <2>1. /\ UNCHANGED <<connected, fresh, sent, held, op>>
          /\ \A d \in Clients : ~connected[d] => wire'[d] = wire[d]
      BY <1>5 DEF Announce, client
    <2> QED
      BY <1>2, <2>1 DEF OfflineInv, Offline
  \* Whatever one client's step changes, it does while connected.
  <1>6. ASSUME NEW c \in Clients, connected'[c],
               \A d \in Clients \ {c} :
                 /\ connected'[d] = connected[d] /\ fresh'[d] = fresh[d] /\ op'[d] = op[d]
                 /\ sent'[d] = sent[d] /\ held'[d] = held[d] /\ wire'[d] = wire[d]
        PROVE  OfflineInv'
    BY <1>2, <1>6 DEF OfflineInv, Offline
  <1>7. ASSUME NEW c \in Clients, Read(c) \/ AnswerLate(c) \/ Deliver(c) \/ Reload(c)
        PROVE  OfflineInv'
    <2>1. connected[c] /\ connected' = connected
      <3>1. CASE Read(c)
        BY <1>1, <1>2, <3>1 DEF Read, client, Offline
      <3>2. CASE AnswerLate(c)
        <4>1. held[c] # <<>>
          BY <3>2 DEF AnswerLate
        <4> QED
          BY <1>2, <3>2, <4>1 DEF AnswerLate, client
      <3>3. CASE Deliver(c)
        BY <1>2, <3>3 DEF Deliver, OnChanged, OnDoc, OnNoDoc, OnOk, OnFailed, Arrives, client,
                          Offline
      <3>4. CASE Reload(c)
        BY <3>4 DEF Reload
      <3> QED
        BY <1>7, <3>1, <3>2, <3>3, <3>4
    <2>2. \A d \in Clients \ {c} :
            /\ fresh'[d] = fresh[d] /\ op'[d] = op[d]
            /\ sent'[d] = sent[d] /\ held'[d] = held[d] /\ wire'[d] = wire[d]
      <3>1. CASE Read(c) \/ AnswerLate(c) \/ Reload(c)
        BY <1>1, <3>1 DEF Read, AnswerLate, Reload, client
      <3>2. CASE Deliver(c)
        BY <1>1, <3>2 DEF Deliver, OnChanged, OnDoc, OnNoDoc, OnOk, OnFailed, client
      <3> QED
        BY <1>7, <3>1, <3>2
    <2> QED
      BY <1>6, <2>1, <2>2
  <1>8. ASSUME NEW c \in Clients, Reconnect(c) PROVE OfflineInv'
    <2>1. connected'[c] /\ UNCHANGED <<fresh, op, held, wire>>
      BY <1>1, <1>8 DEF Reconnect
    <2>2. \A d \in Clients \ {c} : sent'[d] = sent[d] /\ connected'[d] = connected[d]
      BY <1>1, <1>8 DEF Reconnect
    <2> QED
      BY <1>6, <2>1, <2>2
  <1>9. ASSUME NEW c \in Clients, Drop(c) PROVE OfflineInv'
    <2>1. /\ wire'[c] = <<>> /\ sent'[c] = 0 /\ ~fresh'[c] /\ held'[c] = <<>>
          /\ \A o \in Slots : op'[c][o] = NoOp
      BY <1>1, <1>9 DEF Drop
    <2>2. \A d \in Clients \ {c} :
            /\ connected'[d] = connected[d] /\ fresh'[d] = fresh[d] /\ op'[d] = op[d]
            /\ sent'[d] = sent[d] /\ held'[d] = held[d] /\ wire'[d] = wire[d]
      BY <1>1, <1>9 DEF Drop
    <2> QED
      BY <1>2, <2>1, <2>2 DEF OfflineInv, Offline
  <1>10. ASSUME NEW c \in Clients, NEW o \in Slots, Start(c, o) \/ Handle(c, o) PROVE OfflineInv'
    <2>1. connected[c] /\ connected' = connected
      <3>1. CASE Start(c, o)
        BY <3>1 DEF Start
      <3>2. CASE Handle(c, o)
        BY <1>2, <3>2 DEF Handle, Serve, Reject, Offline, NoOp
      <3> QED
        BY <1>10, <3>1, <3>2
    <2>2. \A d \in Clients \ {c} :
            /\ fresh'[d] = fresh[d] /\ op'[d] = op[d]
            /\ sent'[d] = sent[d] /\ held'[d] = held[d] /\ wire'[d] = wire[d]
      <3>1. CASE Start(c, o)
        BY <1>1, <3>1 DEF Start, link
      <3>2. CASE Handle(c, o)
        BY <1>1, <3>2 DEF Handle, Serve, Reject, link
      <3> QED
        BY <1>10, <3>1, <3>2
    <2> QED
      BY <1>6, <2>1, <2>2
  <1> QED
    BY <1>4, <1>5, <1>7, <1>8, <1>9, <1>10 DEF Next

\* A client with one change at a time keeps showing no change of its own that
\* failed or that it should have fetched back, as long as nobody undoes: for every
\* number of clients, commits, failures, overtaken answers and lost connections.
THEOREM NoLeftoversHolds ==
  ASSUME OneAtATime, "undo" \notin Kinds
  PROVE  Spec => []NoLeftovers
  <1>1. Init => TypeOK /\ OfflineInv /\ LeftoverInv
    <2> SUFFICES ASSUME Init PROVE OfflineInv /\ LeftoverInv
      BY InitType
    <2>1. OfflineInv
      BY DEF Init, OfflineInv, Offline
    <2>2. LeftoverInv
      <3> SUFFICES ASSUME NEW c \in Clients PROVE LayersKept(c)
        BY DEF LeftoverInv
      <3>1. /\ doc.workspaceVersion = 1 /\ unannounced = <<>> /\ shown[c] = NoView
            /\ ~fresh[c] /\ held[c] = <<>> /\ wire[c] = <<>>
            /\ \A o \in Slots : op[c][o] = NoOp
        BY DEF Init, Store!Init, Initial
      <3>2. NoneAhead(c)
        BY <3>1 DEF NoneAhead, ShownVersion, DocsUpTo
      <3>3. \A o \in Slots : AnsweredOnce(c, o)
        BY <3>1 DEF AnsweredOnce, AnswerOn, OneAnswerOn, OwedTo, OwedOnce, NoOp
      <3> QED
        BY <3>1, <3>2, <3>3 DEF LayersKept
    <2> QED
      BY <2>1, <2>2
  <1>2. TypeOK /\ TypeOK' /\ OfflineInv /\ LeftoverInv /\ [Next]_vars => OfflineInv' /\ LeftoverInv'
    <2> SUFFICES ASSUME TypeOK, TypeOK', OfflineInv, LeftoverInv, [Next]_vars PROVE LeftoverInv'
      BY OfflineStep
    <2>1. CASE OtherCommit \/ OtherUndo
      BY <2>1, CommitKept
    <2>2. CASE Announce
      BY <2>2, AnnounceKept
    <2>3. CASE Forget \/ UNCHANGED vars
      <3>1. UNCHANGED <<doc, unannounced, client, link>>
        BY <2>3 DEF Forget, Store!Forget, vars, server
      <3>2. doc.workspaceVersion \in Nat
        BY DEF TypeOK, ServerType, Doc
      <3> QED
        BY <3>1, <3>2, StillKept DEF LeftoverInv, client, link
    <2>4. ASSUME NEW c \in Clients, Read(c) \/ AnswerLate(c) PROVE LeftoverInv'
      BY <2>4, ReplyKept
    <2>5. ASSUME NEW c \in Clients, Deliver(c) PROVE LeftoverInv'
      BY <2>5, DeliverKept
    <2>6. ASSUME NEW c \in Clients, Reload(c) \/ Drop(c) \/ Reconnect(c) PROVE LeftoverInv'
      BY <2>6, ConnectionKept
    <2>7. ASSUME NEW c \in Clients, NEW o \in Slots, Start(c, o) PROVE LeftoverInv'
      BY <2>7, StartKept
    <2>8. ASSUME NEW c \in Clients, NEW o \in Slots, Handle(c, o) PROVE LeftoverInv'
      BY <2>8, CommitKept, ReplyKept DEF Handle
    <2> QED
      BY <2>1, <2>2, <2>3, <2>4, <2>5, <2>6, <2>7, <2>8 DEF Next
  <1>3. LeftoverInv => NoLeftovers
    <2> SUFFICES ASSUME LeftoverInv, NEW c \in Clients, Quiet(c), fresh[c], ~error[c],
                        \A o \in Slots : op[c][o] = NoOp
                 PROVE  shown[c].layers = <<>>
      BY DEF NoLeftovers
    <2>1. LayersGo(c)
      BY DEF LeftoverInv, LayersKept
    <2>2. ~Refetches(c)
      BY DEF Quiet, Refetches, Answered, NewsOn, NewsOwed
    <2>3. \A o \in Slots : ~InFlight(c, o)
      BY DEF InFlight, NoOp
    <2> QED
      BY <2>1, <2>2, <2>3 DEF LayersGo
  <1> QED
    BY <1>1, <1>2, <1>3, TypeCorrect, PTL DEF Spec

-----------------------------------------------------------------------------
(***************************************************************************)
(* The gallery                                                             *)
(*                                                                         *)
(* Only the dialog that is open begins requests, one at a time, and a      *)
(* dialog is never opened twice: whatever a closed dialog still does is    *)
(* its own. What it installs was read, and read as a whole, before.        *)
(***************************************************************************)
Dialog == [url : Urls \cup {Nothing}, mode : {"widgets", "templates"},
           entries : Urls \cup {Nothing}, selected : Bundles \cup {Nothing},
           recipe : Recipes \cup {Nothing}, busy : BOOLEAN]

Flow == [kind : {"none", "browse", "preview", "install", "import"},
         of : Urls \cup Bundles \cup Recipes \cup {Nothing},
         stage : {"done", "asked", "installed", "placed", "imported"}]

GalleryTypes ==
    /\ gallery \in {0} \cup Dialogs
    /\ dialog \in [Dialogs -> Dialog] /\ flow \in [Dialogs -> Flow]
    /\ ended \in [Dialogs -> {"no", "open", "installed"}]
    /\ saved \in Urls \cup {Nothing}
    /\ registry \in [Names -> {"none", "pending", "approved"}]
    /\ codeOf \in [Names -> Bundles \cup {Nothing}]
    /\ reviewed \in [Names -> Bundles \cup {Nothing}]
    /\ asked \in Recipes \cup {Nothing}

\* What is under way is of the kind it says.
FlowsFit ==
    \A n \in Dialogs :
        /\ flow[n].kind = "browse" => flow[n].of \in Urls
        /\ flow[n].kind = "preview" => flow[n].of \in Bundles \cup Recipes
        /\ flow[n].kind = "install" => flow[n].of \in Bundles
        /\ flow[n].kind = "import" => flow[n].of \in Recipes /\ ValidRecipe(flow[n].of)

\* A dialog works after it was opened and before it installed something; until then
\* it is busy while it works, open or closed.
WorksWhileOpen ==
    /\ gallery # 0 => ended[gallery] = "open"
    /\ \A n \in Dialogs :
         /\ flow[n].kind # "none" => ended[n] = "open"
         /\ ended[n] = "open" => (dialog[n].busy <=> flow[n].kind # "none")

\* A recipe is on display only if it was checked as a whole.
ShownValid == \A n \in Dialogs : dialog[n].recipe # Nothing => ValidRecipe(dialog[n].recipe)

GalleryInv ==
    /\ GalleryTypes /\ FlowsFit /\ WorksWhileOpen /\ ShownValid
    /\ ApprovedCodeStays /\ AsksWhatItListed

\* What the page writes into a dialog is a dialog.
LEMMA DialogTyped ==
  ASSUME NEW d \in Dialog, NEW u \in Urls
  PROVE  \E e \in Dialog : /\ e = [d EXCEPT !.url = u]
                           /\ e.recipe = d.recipe /\ e.busy = d.busy
  <1> DEFINE e == [d EXCEPT !.url = u]
  <1>1. e \in Dialog /\ e.recipe = d.recipe /\ e.busy = d.busy
    BY DEF Dialog
  <1> QED
    BY <1>1

\* Turned to the other list, or back to the list it is.
LEMMA DialogTurned ==
  ASSUME NEW d \in Dialog, NEW m \in {"widgets", "templates"}
  PROVE  \E e \in Dialog : /\ e = [d EXCEPT !.mode = m, !.selected = Nothing, !.recipe = Nothing]
                           /\ e.recipe = Nothing /\ e.busy = d.busy
  <1> DEFINE e == [d EXCEPT !.mode = m, !.selected = Nothing, !.recipe = Nothing]
  <1>1. e \in Dialog /\ e.recipe = Nothing /\ e.busy = d.busy
    BY DEF Dialog
  <1> QED
    BY <1>1

\* Back from a detail to its list.
LEMMA DialogBack ==
  ASSUME NEW d \in Dialog
  PROVE  /\ \E e \in Dialog : /\ e = [d EXCEPT !.selected = Nothing]
                              /\ e.recipe = d.recipe /\ e.busy = d.busy
         /\ \E e \in Dialog : /\ e = [d EXCEPT !.recipe = Nothing]
                              /\ e.recipe = Nothing /\ e.busy = d.busy
         /\ \E e \in Dialog : /\ e = [d EXCEPT !.selected = Nothing, !.recipe = Nothing]
                              /\ e.recipe = Nothing /\ e.busy = d.busy
  <1> DEFINE e1 == [d EXCEPT !.selected = Nothing]
             e2 == [d EXCEPT !.recipe = Nothing]
             e3 == [d EXCEPT !.selected = Nothing, !.recipe = Nothing]
  <1>1. e1 \in Dialog /\ e1.recipe = d.recipe /\ e1.busy = d.busy
    BY DEF Dialog
  <1>2. e2 \in Dialog /\ e2.recipe = Nothing /\ e2.busy = d.busy
    BY DEF Dialog
  <1>3. e3 \in Dialog /\ e3.recipe = Nothing /\ e3.busy = d.busy
    BY DEF Dialog
  <1> QED
    BY <1>1, <1>2, <1>3

\* A request of it begins or is over.
LEMMA DialogBusy ==
  ASSUME NEW d \in Dialog
  PROVE  /\ \E e \in Dialog : e = [d EXCEPT !.busy = TRUE] /\ e.recipe = d.recipe /\ e.busy
         /\ \E e \in Dialog : e = [d EXCEPT !.busy = FALSE] /\ e.recipe = d.recipe /\ ~ e.busy
  <1> DEFINE e1 == [d EXCEPT !.busy = TRUE]
             e2 == [d EXCEPT !.busy = FALSE]
  <1>1. e1 \in Dialog /\ e1.recipe = d.recipe /\ e1.busy
    BY DEF Dialog
  <1>2. e2 \in Dialog /\ e2.recipe = d.recipe /\ ~ e2.busy
    BY DEF Dialog
  <1> QED
    BY <1>1, <1>2

\* What an answer shows in it.
LEMMA DialogShows ==
  ASSUME NEW d \in Dialog
  PROVE  /\ \A u \in Urls : \E e \in Dialog :
              e = [d EXCEPT !.entries = u, !.busy = FALSE] /\ e.recipe = d.recipe /\ ~ e.busy
         /\ \A b \in Bundles : \E e \in Dialog :
              e = [d EXCEPT !.selected = b, !.busy = FALSE] /\ e.recipe = d.recipe /\ ~ e.busy
         /\ \A r \in Recipes : \E e \in Dialog :
              e = [d EXCEPT !.recipe = r, !.busy = FALSE] /\ e.recipe = r /\ ~ e.busy
  <1> DEFINE e1(u) == [d EXCEPT !.entries = u, !.busy = FALSE]
             e2(b) == [d EXCEPT !.selected = b, !.busy = FALSE]
             e3(r) == [d EXCEPT !.recipe = r, !.busy = FALSE]
  <1>1. \A u \in Urls : e1(u) \in Dialog /\ e1(u).recipe = d.recipe /\ ~ e1(u).busy
    BY DEF Dialog
  <1>2. \A b \in Bundles : e2(b) \in Dialog /\ e2(b).recipe = d.recipe /\ ~ e2(b).busy
    BY DEF Dialog
  <1>3. \A r \in Recipes : e3(r) \in Dialog /\ e3(r).recipe = r /\ ~ e3(r).busy
    BY DEF Dialog
  <1>4. \A u \in Urls : \E e \in Dialog :
          e = e1(u) /\ e.recipe = d.recipe /\ ~ e.busy
    BY <1>1
  <1>5. \A b \in Bundles : \E e \in Dialog :
          e = e2(b) /\ e.recipe = d.recipe /\ ~ e.busy
    BY <1>2
  <1>6. \A r \in Recipes : \E e \in Dialog : e = e3(r) /\ e.recipe = r /\ ~ e.busy
    BY <1>3
  <1> QED
    BY <1>4, <1>5, <1>6

\* Writing one dialog leaves the others alone.
LEMMA DialogSet ==
  ASSUME GalleryTypes, NEW n \in Dialogs, NEW d \in Dialog, Set(n, d)
  PROVE  /\ dialog' \in [Dialogs -> Dialog] /\ dialog'[n] = d
         /\ \A o \in Dialogs : o # n => dialog'[o] = dialog[o]
  BY DEF GalleryTypes, Set

\* A request that is over, or goes on to its next stage, is of the kind it was.
LEMMA FlowSet ==
  ASSUME GalleryTypes, NEW n \in Dialogs
  PROVE  /\ Done(n) => /\ flow' \in [Dialogs -> Flow] /\ flow'[n].kind = "none"
                       /\ \A o \in Dialogs : o # n => flow'[o] = flow[o]
         /\ \A s \in {"installed", "placed", "imported"} : Stage(n, s) =>
              /\ flow' \in [Dialogs -> Flow]
              /\ flow'[n].kind = flow[n].kind /\ flow'[n].of = flow[n].of
              /\ \A o \in Dialogs : o # n => flow'[o] = flow[o]
  <1>1. NoFlow \in Flow /\ NoFlow.kind = "none"
    BY DEF NoFlow, Flow
  <1>2. Done(n) => /\ flow' \in [Dialogs -> Flow] /\ flow'[n].kind = "none"
                   /\ \A o \in Dialogs : o # n => flow'[o] = flow[o]
    BY <1>1 DEF Done, GalleryTypes
  <1>3. ASSUME NEW s \in {"installed", "placed", "imported"}, Stage(n, s)
        PROVE  /\ flow' \in [Dialogs -> Flow]
               /\ flow'[n].kind = flow[n].kind /\ flow'[n].of = flow[n].of
               /\ \A o \in Dialogs : o # n => flow'[o] = flow[o]
    <2>1. flow[n] \in Flow
      BY DEF GalleryTypes
    <2> DEFINE f == [flow[n] EXCEPT !.stage = s]
    <2>2. f \in Flow /\ f.kind = flow[n].kind /\ f.of = flow[n].of
      BY <2>1 DEF Flow
    <2>3. flow' = [flow EXCEPT ![n] = f]
      BY <1>3 DEF Stage
    <2> HIDE DEF f
    <2> QED
      BY <2>2, <2>3 DEF GalleryTypes
  <1> QED
    BY <1>2, <1>3

\* Steps that leave the host's registry and grants alone.
LEMMA HostFrame ==
  ASSUME GalleryTypes, UNCHANGED <<registry, codeOf, reviewed, grants, asked>>
  PROVE  /\ ApprovedCodeStays => ApprovedCodeStays'
         /\ AsksWhatItListed => AsksWhatItListed'
  BY DEF ApprovedCodeStays, AsksWhatItListed

\* The page's own steps: one dialog is redrawn, opened or closed.
LEMMA DialogSteps ==
  ASSUME GalleryInv, OpenGallery \/ CloseGallery \/ TypeUrl \/ SetMode \/ Back
  PROVE  GalleryInv'
  <1>1. UNCHANGED <<flow, saved, hostVars>>
    BY DEF OpenGallery, CloseGallery, TypeUrl, SetMode, Back
  <1>2. ApprovedCodeStays' /\ AsksWhatItListed'
    BY <1>1, HostFrame DEF GalleryInv, hostVars
  <1>3. FlowsFit'
    BY <1>1 DEF GalleryInv, FlowsFit
  <1>4. CASE OpenGallery
    <2>1. PICK n \in Dialogs : /\ ended[n] = "no"
                               /\ gallery' = n /\ Set(n, Fresh(saved))
                               /\ ended' = [ended EXCEPT ![n] = "open"]
      BY <1>4 DEF OpenGallery
    <2>2. Fresh(saved) \in Dialog /\ Fresh(saved).recipe = Nothing /\ ~ Fresh(saved).busy
      BY DEF Fresh, Dialog, GalleryInv, GalleryTypes
    <2>3. /\ dialog' \in [Dialogs -> Dialog] /\ dialog'[n] = Fresh(saved)
          /\ \A o \in Dialogs : o # n => dialog'[o] = dialog[o]
      BY <2>1, <2>2, DialogSet DEF GalleryInv
    <2>4. /\ ended' \in [Dialogs -> {"no", "open", "installed"}] /\ ended'[n] = "open"
          /\ \A o \in Dialogs : o # n => ended'[o] = ended[o]
      BY <2>1 DEF GalleryInv, GalleryTypes
    <2>5. GalleryTypes'
      BY <1>1, <2>1, <2>3, <2>4 DEF GalleryInv, GalleryTypes, hostVars
    <2>6. flow[n].kind = "none"
      BY <2>1 DEF GalleryInv, WorksWhileOpen
    <2>7. WorksWhileOpen'
      BY <1>1, <2>1, <2>2, <2>3, <2>4, <2>6 DEF GalleryInv, WorksWhileOpen
    <2>8. ShownValid'
      BY <2>2, <2>3 DEF GalleryInv, ShownValid
    <2> QED
      BY <1>2, <1>3, <2>5, <2>7, <2>8 DEF GalleryInv
  <1>5. CASE CloseGallery
    <2>1. gallery' = 0 /\ UNCHANGED <<dialog, ended>>
      BY <1>5 DEF CloseGallery
    <2>2. GalleryTypes'
      BY <1>1, <2>1 DEF GalleryInv, GalleryTypes, hostVars
    <2> QED
      BY <1>1, <1>2, <1>3, <2>1, <2>2 DEF GalleryInv, WorksWhileOpen, ShownValid
  <1>6. CASE TypeUrl \/ SetMode \/ Back
    <2>1. /\ gallery \in Dialogs /\ UNCHANGED <<gallery, ended>>
      BY <1>6 DEF TypeUrl, SetMode, Back, GalleryInv, GalleryTypes
    <2> DEFINE d == dialog[gallery]
    <2>2. d \in Dialog
      BY <2>1 DEF GalleryInv, GalleryTypes
    <2>3. \E e \in Dialog : /\ Set(gallery, e) /\ e.busy = d.busy
                            /\ e.recipe \in {d.recipe, Nothing}
      <3>1. CASE TypeUrl
        <4>1. PICK u \in Urls : Set(gallery, [d EXCEPT !.url = u])
          BY <3>1 DEF TypeUrl
        <4>2. PICK e \in Dialog : /\ e = [d EXCEPT !.url = u]
                                  /\ e.recipe = d.recipe /\ e.busy = d.busy
          BY <2>2, DialogTyped
        <4> QED
          BY <4>1, <4>2
      <3>2. CASE SetMode
        <4>1. PICK m \in {"widgets", "templates"} :
                Set(gallery, [d EXCEPT !.mode = m, !.selected = Nothing, !.recipe = Nothing])
          BY <3>2 DEF SetMode
        <4>2. PICK e \in Dialog :
                /\ e = [d EXCEPT !.mode = m, !.selected = Nothing, !.recipe = Nothing]
                /\ e.recipe = Nothing /\ e.busy = d.busy
          BY <2>2, DialogTurned
        <4> QED
          BY <4>1, <4>2
      <3>3. CASE Back
        <4>1. \/ Set(gallery, [d EXCEPT !.selected = Nothing])
              \/ Set(gallery, [d EXCEPT !.recipe = Nothing])
          BY <3>3 DEF Back
        <4>2. PICK e \in Dialog : /\ e = [d EXCEPT !.selected = Nothing]
                                  /\ e.recipe = d.recipe /\ e.busy = d.busy
          BY <2>2, DialogBack
        <4>3. PICK f \in Dialog : /\ f = [d EXCEPT !.recipe = Nothing]
                                  /\ f.recipe = Nothing /\ f.busy = d.busy
          BY <2>2, DialogBack
        <4> QED
          BY <4>1, <4>2, <4>3
      <3> QED
        BY <1>6, <3>1, <3>2, <3>3
    <2>4. PICK e \in Dialog : /\ Set(gallery, e) /\ e.busy = d.busy
                              /\ e.recipe \in {d.recipe, Nothing}
      BY <2>3
    <2>5. /\ dialog' \in [Dialogs -> Dialog] /\ dialog'[gallery] = e
          /\ \A o \in Dialogs : o # gallery => dialog'[o] = dialog[o]
      BY <2>1, <2>4, DialogSet DEF GalleryInv
    <2>6. GalleryTypes'
      BY <1>1, <2>1, <2>5 DEF GalleryInv, GalleryTypes, hostVars
    <2>7. WorksWhileOpen'
      BY <1>1, <2>1, <2>4, <2>5 DEF GalleryInv, WorksWhileOpen
    <2>8. ShownValid'
      BY <2>4, <2>5, <2>1 DEF GalleryInv, ShownValid
    <2> QED
      BY <1>2, <1>3, <2>6, <2>7, <2>8 DEF GalleryInv
  <1> QED
    BY <1>4, <1>5, <1>6

\* A button of the open dialog begins a request: the dialog was not busy, so nothing of
\* it was under way.
LEMMA BeginSteps ==
  ASSUME GalleryInv, Browse \/ Preview \/ Install
  PROVE  GalleryInv'
  <1> DEFINE d == dialog[gallery]
  <1>1. /\ gallery \in Dialogs /\ d \in Dialog
    BY DEF Browse, Preview, Install, GalleryInv, GalleryTypes
  <1>2. \E k \in {"browse", "preview", "install", "import"},
           x \in Urls \cup Bundles \cup Recipes, e \in Dialog :
          /\ Begin(k, x, e) /\ e.recipe \in {d.recipe, Nothing}
          /\ k = "browse" => x \in Urls
          /\ k = "preview" => x \in Bundles \cup Recipes
          /\ k = "install" => x \in Bundles
          /\ k = "import" => x \in Recipes /\ ValidRecipe(x)
    <2>1. CASE Browse
      <3>1. d.url \in Urls
        BY <1>1, <2>1 DEF Browse, Dialog
      <3>2. PICK x \in Urls, e \in Dialog : /\ x = d.url
                               /\ e = [d EXCEPT !.selected = Nothing, !.recipe = Nothing]
                               /\ e.recipe = Nothing
        BY <1>1, <3>1, DialogBack
      <3>3. Begin("browse", x, e)
        BY <2>1, <3>2 DEF Browse, Begin, Set
      <3> QED
        BY <3>2, <3>3
    <2>2. CASE Preview
      <3>1. PICK x \in WidgetRows(d) \cup RecipeRows(d) : Begin("preview", x, d)
        BY <2>2 DEF Preview
      <3>2. x \in Bundles \cup Recipes
        BY <3>1 DEF WidgetRows, RecipeRows, ParsedWidgets, ParsedRecipes
      <3>3. PICK e \in Dialog : e = d
        BY <1>1
      <3>4. Begin("preview", x, e)
        BY <3>1, <3>3
      <3> QED
        BY <3>2, <3>3, <3>4
    <2>3. CASE Install
      <3>1. PICK e \in Dialog : e = d
        BY <1>1
      <3>2. CASE BundleShown(d) /\ Begin("install", d.selected, d)
        <4>1. PICK x \in Bundles : x = d.selected
          BY <1>1, <3>2 DEF BundleShown, Dialog
        <4> QED
          BY <3>1, <3>2, <4>1
      <3>3. CASE RecipeShown(d) /\ Begin("import", d.recipe, d)
        <4>1. PICK x \in Recipes : x = d.recipe /\ ValidRecipe(x)
          BY <1>1, <3>3 DEF RecipeShown, Dialog, GalleryInv, ShownValid
        <4> QED
          BY <3>1, <3>3, <4>1
      <3> QED
        BY <2>3, <3>2, <3>3 DEF Install
    <2> QED
      BY <2>1, <2>2, <2>3
  <1>3. PICK k \in {"browse", "preview", "install", "import"},
             x \in Urls \cup Bundles \cup Recipes, e \in Dialog :
          /\ Begin(k, x, e) /\ e.recipe \in {d.recipe, Nothing}
          /\ k = "browse" => x \in Urls
          /\ k = "preview" => x \in Bundles \cup Recipes
          /\ k = "install" => x \in Bundles
          /\ k = "import" => x \in Recipes /\ ValidRecipe(x)
    BY <1>2
  <1>4. /\ ~ d.busy /\ Set(gallery, [e EXCEPT !.busy = TRUE])
        /\ flow' = [flow EXCEPT ![gallery] = [kind |-> k, of |-> x, stage |-> "asked"]]
        /\ UNCHANGED <<gallery, saved, hostVars, ended>>
    BY <1>3 DEF Begin
  <1>5. PICK b \in Dialog : b = [e EXCEPT !.busy = TRUE] /\ b.recipe = e.recipe /\ b.busy
    BY DialogBusy
  <1>6. /\ dialog' \in [Dialogs -> Dialog] /\ dialog'[gallery] = b
        /\ \A o \in Dialogs : o # gallery => dialog'[o] = dialog[o]
    BY <1>1, <1>4, <1>5, DialogSet DEF GalleryInv
  <1>7. PICK f \in Flow : f = [kind |-> k, of |-> x, stage |-> "asked"]
    BY DEF Flow
  <1>8. /\ flow' \in [Dialogs -> Flow] /\ flow'[gallery] = f
        /\ \A o \in Dialogs : o # gallery => flow'[o] = flow[o]
    BY <1>1, <1>4, <1>7 DEF GalleryInv, GalleryTypes
  <1>9. GalleryTypes'
    BY <1>4, <1>6, <1>8 DEF GalleryInv, GalleryTypes, hostVars
  <1>10. FlowsFit'
    <2>1. ASSUME NEW n \in Dialogs
          PROVE  /\ flow'[n].kind = "browse" => flow'[n].of \in Urls
                 /\ flow'[n].kind = "preview" => flow'[n].of \in Bundles \cup Recipes
                 /\ flow'[n].kind = "install" => flow'[n].of \in Bundles
                 /\ flow'[n].kind = "import" =>
                      flow'[n].of \in Recipes /\ ValidRecipe(flow'[n].of)
      <3>1. CASE n = gallery
        <4>1. flow'[n].kind = k /\ flow'[n].of = x
          BY <1>7, <1>8, <3>1
        <4> QED
          BY <1>3, <4>1
      <3>2. CASE n # gallery
        BY <1>8, <3>2 DEF GalleryInv, FlowsFit
      <3> QED
        BY <3>1, <3>2
    <2> QED
      BY <2>1 DEF FlowsFit
  <1>11. WorksWhileOpen'
    <2>0. f.kind = k /\ k # "none"
      BY <1>7
    <2>1. f.kind # "none" /\ ended[gallery] = "open"
      BY <1>1, <2>0 DEF GalleryInv, WorksWhileOpen, Dialogs
    <2>2. ASSUME NEW n \in Dialogs
          PROVE  /\ flow'[n].kind # "none" => ended[n] = "open"
                 /\ ended[n] = "open" => (dialog'[n].busy <=> flow'[n].kind # "none")
      BY <1>1, <1>5, <1>6, <1>8, <2>1 DEF GalleryInv, WorksWhileOpen
    <2> QED
      BY <1>1, <1>4, <2>1, <2>2 DEF WorksWhileOpen
  <1>12. ShownValid'
    BY <1>1, <1>3, <1>5, <1>6 DEF GalleryInv, ShownValid
  <1>13. ApprovedCodeStays' /\ AsksWhatItListed'
    BY <1>4, HostFrame DEF GalleryInv, hostVars
  <1> QED
    BY <1>9, <1>10, <1>11, <1>12, <1>13 DEF GalleryInv

\* An answer, or a failure, ends what its dialog asked for and frees it.
LEMMA AnswerSteps ==
  ASSUME GalleryInv, NEW n \in Dialogs,
         FlowFails(n) \/ IndexArrives(n) \/ PreviewArrives(n)
  PROVE  GalleryInv'
  <1>1. /\ Done(n) /\ UNCHANGED <<gallery, hostVars, ended>>
        /\ flow[n].kind # "none"
    BY DEF FlowFails, IndexArrives, PreviewArrives, Waiting
  <1> DEFINE d == dialog[n]
  <1>2. d \in Dialog
    BY DEF GalleryInv, GalleryTypes
  <1>3. /\ saved' \in Urls \cup {Nothing}
        /\ \E e \in Dialog : /\ Set(n, e) /\ ~ e.busy
                             /\ e.recipe = d.recipe \/ ValidRecipe(e.recipe)
    <2>1. CASE FlowFails(n)
      <3>1. PICK e \in Dialog : e = [d EXCEPT !.busy = FALSE] /\ e.recipe = d.recipe /\ ~ e.busy
        BY <1>2, DialogBusy
      <3>2. Set(n, e) /\ saved' = saved
        BY <2>1, <3>1 DEF FlowFails
      <3> QED
        BY <3>1, <3>2 DEF GalleryInv, GalleryTypes
    <2>2. CASE IndexArrives(n)
      <3>1. PICK u \in Urls : u = flow[n].of
        BY <2>2 DEF IndexArrives, Waiting, GalleryInv, FlowsFit
      <3>2. PICK e \in Dialog : /\ e = [d EXCEPT !.entries = u, !.busy = FALSE]
                                /\ e.recipe = d.recipe /\ ~ e.busy
        BY <1>2, DialogShows
      <3>3. Set(n, e) /\ saved' = u
        BY <2>2, <3>1, <3>2 DEF IndexArrives
      <3> QED
        BY <3>2, <3>3
    <2>3. CASE PreviewArrives(n)
      <3>1. PICK x \in Bundles \cup Recipes : x = flow[n].of
        BY <2>3 DEF PreviewArrives, Waiting, GalleryInv, FlowsFit
      <3>2. saved' = saved /\ (x \in Recipes => ValidRecipe(x))
        BY <2>3, <3>1 DEF PreviewArrives, Readable
      <3>3. CASE x \in Bundles
        <4>1. PICK e \in Dialog : /\ e = [d EXCEPT !.selected = x, !.busy = FALSE]
                                  /\ e.recipe = d.recipe /\ ~ e.busy
          BY <1>2, <3>3, DialogShows
        <4>2. Set(n, e)
          BY <2>3, <3>1, <3>3, <4>1 DEF PreviewArrives
        <4> QED
          BY <3>2, <4>1, <4>2 DEF GalleryInv, GalleryTypes
      <3>4. CASE x \notin Bundles
        <4>1. PICK e \in Dialog : /\ e = [d EXCEPT !.recipe = x, !.busy = FALSE]
                                  /\ e.recipe = x /\ ~ e.busy
          BY <1>2, <3>1, <3>4, DialogShows
        <4>2. Set(n, e)
          BY <2>3, <3>1, <3>4, <4>1 DEF PreviewArrives
        <4> QED
          BY <3>1, <3>2, <3>4, <4>1, <4>2 DEF GalleryInv, GalleryTypes
      <3> QED
        BY <3>3, <3>4
    <2> QED
      BY <2>1, <2>2, <2>3
  <1>4. PICK e \in Dialog : /\ Set(n, e) /\ ~ e.busy
                            /\ e.recipe = d.recipe \/ ValidRecipe(e.recipe)
    BY <1>3
  <1>5. /\ dialog' \in [Dialogs -> Dialog] /\ dialog'[n] = e
        /\ \A o \in Dialogs : o # n => dialog'[o] = dialog[o]
    BY <1>4, DialogSet DEF GalleryInv
  <1>6. /\ flow' \in [Dialogs -> Flow] /\ flow'[n].kind = "none"
        /\ \A o \in Dialogs : o # n => flow'[o] = flow[o]
    BY <1>1, FlowSet DEF GalleryInv
  <1>7. GalleryTypes'
    BY <1>1, <1>3, <1>5, <1>6 DEF GalleryInv, GalleryTypes, hostVars
  <1>8. FlowsFit'
    BY <1>6 DEF GalleryInv, FlowsFit
  <1>9. WorksWhileOpen'
    BY <1>1, <1>4, <1>5, <1>6 DEF GalleryInv, WorksWhileOpen
  <1>10. ShownValid'
    BY <1>4, <1>5 DEF GalleryInv, ShownValid
  <1>11. ApprovedCodeStays' /\ AsksWhatItListed'
    BY <1>1, HostFrame DEF GalleryInv, hostVars
  <1> QED
    BY <1>7, <1>8, <1>9, <1>10, <1>11 DEF GalleryInv

\* The next stage of what a dialog does keeps the dialog's part of the invariant.
LEMMA StageFrame ==
  ASSUME GalleryInv, NEW n \in Dialogs, NEW s \in {"installed", "placed", "imported"},
         Stage(n, s), UNCHANGED <<gallery, dialog, saved, ended>>
  PROVE  /\ flow' \in [Dialogs -> Flow]
         /\ FlowsFit' /\ WorksWhileOpen' /\ ShownValid'
  <1>1. /\ flow' \in [Dialogs -> Flow]
        /\ flow'[n].kind = flow[n].kind /\ flow'[n].of = flow[n].of
        /\ \A o \in Dialogs : o # n => flow'[o] = flow[o]
    BY FlowSet DEF GalleryInv
  <1>2. \A o \in Dialogs : flow'[o].kind = flow[o].kind /\ flow'[o].of = flow[o].of
    BY <1>1
  <1>3. FlowsFit'
    BY <1>2 DEF GalleryInv, FlowsFit
  <1>4. WorksWhileOpen'
    BY <1>2 DEF GalleryInv, WorksWhileOpen
  <1> QED
    BY <1>1, <1>3, <1>4 DEF GalleryInv, ShownValid

\* The host installs under a name that nobody approved.
LEMMA InstallStep ==
  ASSUME GalleryInv, NEW n \in Dialogs, HostInstalls(n)
  PROVE  GalleryInv'
  <1> DEFINE b == flow[n].of
             w == WidgetName[b]
  <1>1. /\ Stage(n, "installed") /\ UNCHANGED <<gallery, dialog, saved, ended, grants, asked, reviewed>>
        /\ b \in Bundles
    BY DEF HostInstalls, Waiting, GalleryInv, FlowsFit
  <1>2. w \in Names
    BY <1>1 DEF Names
  <1>3. /\ registry[w] = "none"
        /\ codeOf' = [codeOf EXCEPT ![w] = b]
        /\ registry' = [registry EXCEPT ![w] = IF @ = "none" THEN "pending" ELSE @]
    BY DEF HostInstalls, TakesName
  <1>4. /\ registry' \in [Names -> {"none", "pending", "approved"}] /\ registry'[w] = "pending"
        /\ codeOf' \in [Names -> Bundles \cup {Nothing}]
        /\ \A v \in Names : v # w => registry'[v] = registry[v] /\ codeOf'[v] = codeOf[v]
    <2> HIDE DEF w, b
    <2> QED
      BY <1>1, <1>2, <1>3 DEF GalleryInv, GalleryTypes
  <1>5. flow' \in [Dialogs -> Flow] /\ FlowsFit' /\ WorksWhileOpen' /\ ShownValid'
    BY <1>1, StageFrame
  <1>6. GalleryTypes'
    BY <1>1, <1>4, <1>5 DEF GalleryInv, GalleryTypes
  <1>7. ApprovedCodeStays'
    <2> HIDE DEF w
    <2> QED
      BY <1>1, <1>2, <1>4 DEF GalleryInv, ApprovedCodeStays
  <1>8. AsksWhatItListed'
    BY <1>1 DEF GalleryInv, AsksWhatItListed
  <1> QED
    BY <1>5, <1>6, <1>7, <1>8 DEF GalleryInv

\* The widget is placed, or the tab is gone.
LEMMA PlaceStep ==
  ASSUME GalleryInv, NEW n \in Dialogs, HostPlaces(n)
  PROVE  GalleryInv'
  <1>1. /\ Stage(n, "placed")
        /\ UNCHANGED <<gallery, dialog, saved, ended, registry, grants, codeOf, reviewed, asked>>
    BY DEF HostPlaces
  <1>2. flow' \in [Dialogs -> Flow] /\ FlowsFit' /\ WorksWhileOpen' /\ ShownValid'
    BY <1>1, StageFrame
  <1>3. GalleryTypes'
    BY <1>1, <1>2 DEF GalleryInv, GalleryTypes
  <1>4. ApprovedCodeStays' /\ AsksWhatItListed'
    BY <1>1, HostFrame DEF GalleryInv
  <1> QED
    BY <1>2, <1>3, <1>4 DEF GalleryInv

\* An import asks for what its recipe listed, each tool under its connector, approves
\* no widget and keeps no grant.
LEMMA ImportStep ==
  ASSUME GalleryInv, NEW n \in Dialogs, HostImports(n)
  PROVE  GalleryInv'
  <1>1. PICK r \in Recipes : r = flow[n].of /\ ValidRecipe(r)
    BY DEF HostImports, Waiting, GalleryInv, FlowsFit
  <1>2. /\ Stage(n, "imported")
        /\ UNCHANGED <<gallery, dialog, saved, ended, codeOf, reviewed>>
        /\ grants' = RecipeGrants(r) /\ asked' = r
        /\ registry' = [w \in Names |-> IF w \in RecipeNames[r] THEN "pending" ELSE "none"]
    BY <1>1 DEF HostImports
  <1>3. flow' \in [Dialogs -> Flow] /\ FlowsFit' /\ WorksWhileOpen' /\ ShownValid'
    BY <1>2, StageFrame
  <1>4. GalleryTypes'
    BY <1>2, <1>3 DEF GalleryInv, GalleryTypes
  <1>5. ApprovedCodeStays'
    BY <1>2 DEF ApprovedCodeStays
  <1>6. AsksWhatItListed'
    <2>1. ASSUME NEW c \in Connectors, grants'[c].status # "none"
          PROVE  /\ c \in DOMAIN Needs[r] /\ grants'[c].tools = Needs[r][c]
                 /\ \A tool \in grants'[c].tools : tool[1] = c
      <3>1. c \in DOMAIN Needs[r] /\ grants'[c] = Requested(Needs[r][c])
        BY <1>2, <2>1 DEF RecipeGrants, NoGrant
      <3>2. ValidConnectorGrant(c, Needs[r][c])
        BY <1>1, <3>1 DEF ValidRecipe
      <3> QED
        BY <3>1, <3>2 DEF Requested, ValidConnectorGrant, ValidTool
    <2> QED
      BY <1>2, <2>1 DEF AsksWhatItListed
  <1> QED
    BY <1>3, <1>4, <1>5, <1>6 DEF GalleryInv

\* A finished installation closes the gallery and ends its dialog.
LEMMA FinishStep ==
  ASSUME GalleryInv, NEW n \in Dialogs, Finish(n)
  PROVE  GalleryInv'
  <1>1. /\ Done(n) /\ gallery' = 0 /\ ended' = [ended EXCEPT ![n] = "installed"]
        /\ UNCHANGED <<dialog, saved, hostVars>>
    BY DEF Finish
  <1>2. /\ flow' \in [Dialogs -> Flow] /\ flow'[n].kind = "none"
        /\ \A o \in Dialogs : o # n => flow'[o] = flow[o]
    BY <1>1, FlowSet DEF GalleryInv
  <1>3. /\ ended' \in [Dialogs -> {"no", "open", "installed"}] /\ ended'[n] = "installed"
        /\ \A o \in Dialogs : o # n => ended'[o] = ended[o]
    BY <1>1 DEF GalleryInv, GalleryTypes
  <1>4. GalleryTypes'
    BY <1>1, <1>2, <1>3 DEF GalleryInv, GalleryTypes, hostVars
  <1>5. FlowsFit'
    BY <1>2 DEF GalleryInv, FlowsFit
  <1>6. WorksWhileOpen'
    BY <1>1, <1>2, <1>3 DEF GalleryInv, WorksWhileOpen
  <1>7. ShownValid'
    BY <1>1 DEF GalleryInv, ShownValid
  <1>8. ApprovedCodeStays' /\ AsksWhatItListed'
    BY <1>1, HostFrame DEF GalleryInv, hostVars
  <1> QED
    BY <1>4, <1>5, <1>6, <1>7, <1>8 DEF GalleryInv

\* What other operators do, and where the page goes.
LEMMA OutsideSteps ==
  ASSUME GalleryInv, Navigate \/ TabDeleted \/ ApproveWidget \/ ApproveGrant
  PROVE  GalleryInv'
  <1>1. UNCHANGED <<gallery, dialog, flow, saved, ended, codeOf, asked>>
    BY DEF Navigate, TabDeleted, ApproveWidget, ApproveGrant, hostVars
  <1>2. FlowsFit' /\ WorksWhileOpen' /\ ShownValid'
    BY <1>1 DEF GalleryInv, FlowsFit, WorksWhileOpen, ShownValid
  <1>3. CASE Navigate \/ TabDeleted
    <2>1. UNCHANGED <<registry, grants, reviewed>>
      BY <1>3 DEF Navigate, TabDeleted, hostVars
    <2>2. ApprovedCodeStays' /\ AsksWhatItListed'
      BY <1>1, <2>1, HostFrame DEF GalleryInv
    <2>3. GalleryTypes'
      BY <1>1, <2>1 DEF GalleryInv, GalleryTypes
    <2> QED
      BY <1>2, <2>2, <2>3 DEF GalleryInv
  <1>4. CASE ApproveWidget
    <2>1. PICK w \in Names : /\ registry' = [registry EXCEPT ![w] = "approved"]
                             /\ reviewed' = [reviewed EXCEPT ![w] = codeOf[w]]
      BY <1>4 DEF ApproveWidget
    <2>2. /\ registry' \in [Names -> {"none", "pending", "approved"}]
          /\ reviewed' \in [Names -> Bundles \cup {Nothing}] /\ reviewed'[w] = codeOf[w]
          /\ \A v \in Names : v # w => registry'[v] = registry[v] /\ reviewed'[v] = reviewed[v]
      BY <2>1 DEF GalleryInv, GalleryTypes
    <2>3. GalleryTypes'
      BY <1>1, <2>2 DEF GalleryInv, GalleryTypes
    <2>4. ApprovedCodeStays'
      BY <1>1, <2>2 DEF GalleryInv, ApprovedCodeStays
    <2>5. AsksWhatItListed'
      BY <1>1, <1>4 DEF ApproveWidget, GalleryInv, AsksWhatItListed
    <2> QED
      BY <1>2, <2>3, <2>4, <2>5 DEF GalleryInv
  <1>5. CASE ApproveGrant
    <2>1. UNCHANGED <<registry, reviewed>>
      BY <1>5 DEF ApproveGrant
    <2>2. PICK c \in Connectors : /\ grants[c].status = "requested"
                                  /\ grants' = [grants EXCEPT ![c] = Granted(grants[c].tools)]
      BY <1>5 DEF ApproveGrant
    <2>3. \A k \in Connectors : \/ grants'[k] = grants[k]
                                \/ /\ k = c /\ grants[k].status # "none"
                                   /\ grants'[k].tools = grants[k].tools
      BY <2>2 DEF Granted
    <2>4. AsksWhatItListed'
      BY <1>1, <2>3 DEF GalleryInv, AsksWhatItListed
    <2>5. GalleryTypes' /\ ApprovedCodeStays'
      BY <1>1, <2>1 DEF GalleryInv, GalleryTypes, ApprovedCodeStays
    <2> QED
      BY <1>2, <2>4, <2>5 DEF GalleryInv
  <1> QED
    BY <1>3, <1>4, <1>5

\* The invariant of the gallery holds in every state the page can be in.
THEOREM GalleryInvariant == GallerySpec => []GalleryInv
  <1>1. GalleryInit => GalleryInv
    <2> SUFFICES ASSUME GalleryInit PROVE GalleryInv
      OBVIOUS
    <2>1. Fresh(Nothing) \in Dialog /\ ~ Fresh(Nothing).busy /\ Fresh(Nothing).recipe = Nothing
      BY DEF Fresh, Dialog
    <2>2. NoFlow \in Flow /\ NoFlow.kind = "none"
      BY DEF NoFlow, Flow
    <2>3. GalleryTypes
      BY <2>1, <2>2 DEF GalleryInit, GalleryTypes
    <2>4. FlowsFit /\ WorksWhileOpen /\ ShownValid
      BY <2>1, <2>2 DEF GalleryInit, FlowsFit, WorksWhileOpen, ShownValid
    <2>5. ApprovedCodeStays /\ AsksWhatItListed
      BY DEF GalleryInit, ApprovedCodeStays, AsksWhatItListed
    <2> QED
      BY <2>3, <2>4, <2>5 DEF GalleryInv
  <1>2. GalleryInv /\ [GalleryNext]_galleryVars => GalleryInv'
    <2> SUFFICES ASSUME GalleryInv, [GalleryNext]_galleryVars PROVE GalleryInv'
      OBVIOUS
    <2>1. CASE OpenGallery \/ CloseGallery \/ TypeUrl \/ SetMode \/ Back
      BY <2>1, DialogSteps
    <2>2. CASE Browse \/ Preview \/ Install
      BY <2>2, BeginSteps
    <2>3. ASSUME NEW n \in Dialogs, FlowFails(n) \/ IndexArrives(n) \/ PreviewArrives(n)
          PROVE  GalleryInv'
      BY <2>3, AnswerSteps
    <2>4. ASSUME NEW n \in Dialogs,
                 HostInstalls(n) \/ HostPlaces(n) \/ HostImports(n) \/ Finish(n)
          PROVE  GalleryInv'
      BY <2>4, InstallStep, PlaceStep, ImportStep, FinishStep
    <2>5. CASE Navigate \/ TabDeleted \/ ApproveWidget \/ ApproveGrant
      BY <2>5, OutsideSteps
    <2>6. CASE UNCHANGED galleryVars
      <3>1. UNCHANGED <<gallery, dialog, flow, saved, ended, registry, codeOf, reviewed, grants,
                        asked>>
        BY <2>6 DEF galleryVars, hostVars
      <3>2. ApprovedCodeStays' /\ AsksWhatItListed'
        BY <3>1, HostFrame DEF GalleryInv
      <3> QED
        BY <3>1, <3>2 DEF GalleryInv, GalleryTypes, FlowsFit, WorksWhileOpen, ShownValid
    <2> QED
      BY <2>1, <2>2, <2>3, <2>4, <2>5, <2>6 DEF GalleryNext
  <1> QED
    BY <1>1, <1>2, PTL DEF GallerySpec

\* The gallery is honest: the open dialog is busy exactly while it works, an approved
\* widget runs the code that was approved, and an import asks for what it listed.
THEOREM GalleryHonestHolds == GallerySpec => []GalleryHonest
  <1>1. GalleryInv => GalleryHonest
    BY DEF GalleryInv, GalleryTypes, WorksWhileOpen, GalleryHonest, BusyWhileWorking
  <1> QED
    BY <1>1, GalleryInvariant, PTL

-----------------------------------------------------------------------------
(***************************************************************************)
(* The chat widget                                                         *)
(*                                                                         *)
(* Every controller that was ever made listens or does not, and answers of *)
(* older mounts still come to it. What a controller that mounted once has  *)
(* heard leaves out no end that came after a start it heard: its one read  *)
(* of the history, whenever the server took it, adds all that was said     *)
(* before it mounted, or nothing.                                          *)
(***************************************************************************)
\* A nonempty set of numbers has a least one.
LEMMA NatMin ==
  ASSUME NEW T \in SUBSET Nat, T # {}
  PROVE  \E x \in T : \A y \in T : x <= y
  <1> DEFINE R == OpToRel(<, Nat)
  <1>1. IsWellFoundedOn(R, Nat)
    BY NatLessThanWellFounded
  <1>2. \E x \in T : \A y \in T : <<y, x>> \notin R
    <2> HIDE DEF R
    <2> QED BY <1>1, WFMin
  <1>3. PICK x \in T : \A y \in T : <<y, x>> \notin R
    BY <1>2
  <1>4. \A y \in T : ~ (y < x)
    BY <1>3 DEF OpToRel
  <1> QED BY <1>4

\* What Max chooses from a nonempty set of numbers up to a bound is its greatest.
LEMMA NatMax ==
  ASSUME NEW N \in Nat, NEW T \in SUBSET (0..N), T # {}
  PROVE  Max(T) \in T /\ \A y \in T : y <= Max(T)
  <1> DEFINE S == {N - t : t \in T}
  <1>1. S \in SUBSET Nat /\ S # {}
    <2>1. \A t \in T : N - t \in Nat
      OBVIOUS
    <2>2. PICK u \in T : TRUE
      OBVIOUS
    <2>3. N - u \in S
      OBVIOUS
    <2> QED
      BY <2>1, <2>3
  <1>2. PICK m \in S : \A y \in S : m <= y
    <2> HIDE DEF S
    <2> QED BY <1>1, NatMin
  <1>3. PICK t \in T : m = N - t
    OBVIOUS
  <1>4. \A y \in T : t >= y
    <2> TAKE y \in T
    <2>1. y \in 0..N /\ t \in 0..N
      OBVIOUS
    <2>2. N - y \in S
      OBVIOUS
    <2>3. N - t <= N - y
      BY <1>2, <1>3, <2>2
    <2> HIDE DEF S
    <2> QED
      BY <2>1, <2>3
  <1>5. \E x \in T : \A y \in T : x >= y
    BY <1>4
  <1>6. Max(T) \in T /\ \A y \in T : Max(T) >= y
    <2>1. Max(T) = CHOOSE x \in T : \A y \in T : x >= y
      BY DEF Max
    <2> QED
      BY ONLY <1>5, <2>1
  <1>7. \A y \in T : Max(T) \in 0..N /\ y \in 0..N
    BY <1>6
  <1> HIDE DEF S
  <1> QED BY <1>6, <1>7

MountedController ==
    [root : BOOLEAN, mounts : Nat, heard : SUBSET Event, listening : Nat,
     handle : BOOLEAN, bubbles : [Turns -> Messages \cup {Silence}],
     pending : Messages \cup {Silence}, sending : BOOLEAN]
Send1 == [by : Nat, text : Messages, turn : {NoOne} \cup Turns]
Read1 == [by : Nat, since : SUBSET Event]
FaceState == [in : BOOLEAN, shown : BOOLEAN, bound : Nat]

FaceTypes ==
    /\ face \in FaceState /\ inMap \in Nat
    /\ controller \in Seq(MountedController)
    /\ sends \subseteq Send1 /\ reads \subseteq Read1
    /\ begunBy \in Seq(Messages) /\ Len(begunBy) <= MaxTurns
    /\ told \subseteq Event /\ typed \in 0..MaxSends

\* The container's callback and the map name controllers that were made.
BoundKnown ==
    /\ ~ face.in => face.shown
    /\ face.shown => face.bound \in DOMAIN controller /\ controller[face.bound].mounts >= 1
    /\ ~ face.shown => face.bound = NoOne
    /\ inMap \in {NoOne, face.bound}
    /\ ~ face.in => inMap = NoOne
    /\ \A s \in sends : s.by \in DOMAIN controller
    /\ \A r \in reads : r.by \in DOMAIN controller

\* A controller has a subscription to give up exactly if it is the mounted one.
HandlesTrue ==
    \A c \in DOMAIN controller :
        /\ controller[c].handle <=> Facing /\ c = face.bound
        /\ controller[c].listening = IF controller[c].handle THEN 1 ELSE 0

\* A send the server took knows the turn it began.
SendsTrue ==
    \A s \in sends : s.turn # NoOne => s.turn \in DOMAIN begunBy /\ begunBy[s.turn] = s.text

\* Nothing is told of a turn that has not begun.
ToldBegun == \A e \in told : e.turn \in DOMAIN begunBy

Heeded(heard, said) ==
    \A t \in Turns : [turn |-> t, type |-> "start"] \in heard /\ EndOf(t) \in said => EndOf(t) \in heard

\* What the controllers heard was said; the mounted one, if it never mounted before,
\* heard the end of every turn it heard the start of, and with the history it waits for
\* all that was ever said.
HeardWell ==
    /\ \A c \in DOMAIN controller : controller[c].heard \subseteq told
    /\ \A r \in reads : r.since \subseteq told
    /\ Facing /\ Mine.mounts = 1 =>
         /\ Heeded(Mine.heard, told)
         /\ \A r \in reads : r.by = face.bound => told \subseteq Mine.heard \cup r.since

FaceInv ==
    /\ FaceTypes /\ BoundKnown /\ HandlesTrue /\ SendsTrue /\ ToldBegun /\ HeardWell
    /\ BubblesTrue

\* Giving up the subscription, if there is one, leaves none.
LEMMA UnsubscribedFields ==
  ASSUME NEW k \in MountedController, k.listening = IF k.handle THEN 1 ELSE 0
  PROVE  /\ Unsubscribed(k) \in MountedController
         /\ Unsubscribed(k).handle = FALSE /\ Unsubscribed(k).listening = 0
         /\ Unsubscribed(k).heard = k.heard /\ Unsubscribed(k).mounts = k.mounts
         /\ Unsubscribed(k).bubbles = k.bubbles
  <1>1. (IF k.handle THEN k.listening - 1 ELSE k.listening) = 0
    OBVIOUS
  <1>2. Unsubscribed(k) = [k EXCEPT !.listening = 0, !.handle = FALSE]
    BY <1>1 DEF Unsubscribed, MountedController
  <1> DEFINE u == [k EXCEPT !.listening = 0, !.handle = FALSE]
  <1>3. u \in MountedController
    BY DEF MountedController
  <1>4. u.listening = 0 /\ u.heard = k.heard /\ u.mounts = k.mounts /\ u.bubbles = k.bubbles
    BY DEF MountedController
  <1>5. u.handle = FALSE
    BY DEF MountedController
  <1> QED
    BY <1>2, <1>3, <1>4, <1>5

\* Destroying a controller takes back its one subscription, if it has one.
LEMMA DestroyedFields ==
  ASSUME NEW k \in MountedController, k.listening = IF k.handle THEN 1 ELSE 0
  PROVE  /\ Destroyed(k) \in MountedController
         /\ Destroyed(k).handle = FALSE /\ Destroyed(k).listening = 0
         /\ Destroyed(k).heard = k.heard /\ Destroyed(k).mounts = k.mounts
         /\ Destroyed(k).bubbles = k.bubbles
  <1> DEFINE u == Unsubscribed(k)
  <1>1. /\ u \in MountedController /\ u.handle = FALSE /\ u.listening = 0
        /\ u.heard = k.heard /\ u.mounts = k.mounts /\ u.bubbles = k.bubbles
    BY UnsubscribedFields
  <1>2. Destroyed(k) = [u EXCEPT !.root = FALSE]
    BY DEF Destroyed
  <1> HIDE DEF u
  <1> QED
    BY <1>1, <1>2 DEF MountedController

\* Mounting starts over: one subscription, nothing heard, no bubble.
LEMMA MountedFields ==
  ASSUME NEW k \in MountedController, k.listening = IF k.handle THEN 1 ELSE 0
  PROVE  /\ Mounted(k) \in MountedController
         /\ Mounted(k).handle = TRUE /\ Mounted(k).listening = 1
         /\ Mounted(k).heard = {} /\ Mounted(k).mounts = k.mounts + 1
         /\ Mounted(k).bubbles = NoBubbles
  <1> DEFINE u == Unsubscribed(k)
  <1>1. u \in MountedController /\ u.listening = 0 /\ u.mounts = k.mounts
    BY UnsubscribedFields
  <1>2. Mounted(k) = [u EXCEPT !.root = TRUE, !.mounts = @ + 1, !.heard = {},
            !.bubbles = NoBubbles, !.pending = Silence, !.sending = FALSE,
            !.listening = @ + 1, !.handle = TRUE]
    BY DEF Mounted
  <1>3. NoBubbles \in [Turns -> Messages \cup {Silence}]
    BY DEF NoBubbles
  <1> HIDE DEF u
  <1>4. k.mounts + 1 \in Nat /\ u.mounts + 1 = k.mounts + 1
    BY <1>1 DEF MountedController
  <1> DEFINE m == k.mounts + 1
  <1> HIDE DEF m
  <1> DEFINE v == [u EXCEPT !.root = TRUE, !.mounts = m, !.heard = {}, !.bubbles = NoBubbles]
  <1>5. v \in MountedController
    BY <1>1, <1>3, <1>4 DEF MountedController, m
  <1>6. v.mounts = m /\ v.heard = {} /\ v.bubbles = NoBubbles /\ v.listening = 0
    BY <1>1 DEF MountedController
  <1> DEFINE w == [v EXCEPT !.pending = Silence, !.sending = FALSE, !.listening = 1,
                            !.handle = TRUE]
  <1>7. Mounted(k) = w
    BY <1>1, <1>2, <1>4, <1>6 DEF MountedController, m
  <1> HIDE DEF v
  <1>8. w \in MountedController
    <2>1. [v EXCEPT !.pending = Silence, !.sending = FALSE] \in MountedController
      BY <1>5 DEF MountedController
    <2>2. \A x \in MountedController : [x EXCEPT !.listening = 1, !.handle = TRUE] \in MountedController
      BY DEF MountedController
    <2> QED
      BY <2>1, <2>2
  <1>9. w.listening = 1 /\ w.heard = {} /\ w.mounts = m /\ w.bubbles = NoBubbles
    BY <1>5, <1>6 DEF MountedController
  <1>10. w.handle = TRUE
    BY <1>5 DEF MountedController
  <1> HIDE DEF w
  <1> QED
    BY <1>7, <1>8, <1>9, <1>10 DEF m

\* A controller that was just made has never mounted.
LEMMA NewControllerFields ==
  /\ NewController \in MountedController
  /\ NewController.listening = (IF NewController.handle THEN 1 ELSE 0)
  /\ NewController.mounts = 0
  BY DEF NewController, MountedController, NoBubbles

\* What a controller hears, and whether it listens, is the same.
SameEars(j, k) ==
    j.handle = k.handle /\ j.listening = k.listening /\ j.heard = k.heard /\ j.mounts = k.mounts

\* Sending, and the two answers to it, change what a controller shows only.
LEMMA SendFields ==
  ASSUME NEW k \in MountedController, NEW n \in Messages
  PROVE  /\ [k EXCEPT !.pending = n, !.sending = TRUE] \in MountedController
         /\ SameEars([k EXCEPT !.pending = n, !.sending = TRUE], k)
         /\ [k EXCEPT !.pending = n, !.sending = TRUE].bubbles = k.bubbles
         /\ Rejected(k) \in MountedController
         /\ SameEars(Rejected(k), k)
         /\ Rejected(k).bubbles = k.bubbles
  <1>1. /\ [k EXCEPT !.pending = n, !.sending = TRUE] \in MountedController
        /\ SameEars([k EXCEPT !.pending = n, !.sending = TRUE], k)
        /\ [k EXCEPT !.pending = n, !.sending = TRUE].bubbles = k.bubbles
    BY DEF MountedController, SameEars
  <1>2. /\ Rejected(k) \in MountedController
        /\ SameEars(Rejected(k), k)
        /\ Rejected(k).bubbles = k.bubbles
    BY DEF MountedController, SameEars, Rejected
  <1> QED
    BY <1>1, <1>2

\* The resolved send sets the bubble of its turn.
LEMMA ResolvedFields ==
  ASSUME NEW k \in MountedController, NEW s, s.turn \in Turns, s.text \in Messages
  PROVE  /\ Resolved(k, s) \in MountedController
         /\ SameEars(Resolved(k, s), k)
         /\ Resolved(k, s).bubbles = [k.bubbles EXCEPT ![s.turn] = s.text]
  <1> DEFINE b == [k.bubbles EXCEPT ![s.turn] = s.text]
  <1>1. b \in [Turns -> Messages \cup {Silence}]
    BY DEF MountedController
  <1>2. Resolved(k, s) = [k EXCEPT !.bubbles = b, !.pending = Silence, !.sending = FALSE]
    BY DEF Resolved, MountedController
  <1> HIDE DEF b
  <1>3. /\ Resolved(k, s) \in MountedController
        /\ SameEars(Resolved(k, s), k)
        /\ Resolved(k, s).bubbles = b
    BY <1>1, <1>2 DEF MountedController, SameEars
  <1> QED
    BY <1>3 DEF b

\* Replacing one element of a sequence.
LEMMA SeqUpdate ==
  ASSUME NEW S, NEW s \in Seq(S), NEW i \in DOMAIN s, NEW x \in S
  PROVE  /\ [s EXCEPT ![i] = x] \in Seq(S)
         /\ DOMAIN [s EXCEPT ![i] = x] = DOMAIN s
         /\ [s EXCEPT ![i] = x][i] = x
         /\ \A j \in DOMAIN s \ {i} : [s EXCEPT ![i] = x][j] = s[j]
  OBVIOUS

\* A function on the first numbers is a sequence.
LEMMA SeqOfFunction ==
  ASSUME NEW S, NEW n \in Nat, NEW f \in [1..n -> S]
  PROVE  f \in Seq(S)
  OBVIOUS

\* Appending to a sequence.
LEMMA SeqAppend ==
  ASSUME NEW S, NEW s \in Seq(S), NEW x \in S
  PROVE  /\ Append(s, x) \in Seq(S)
         /\ DOMAIN Append(s, x) = DOMAIN s \cup {Len(s) + 1}
         /\ Append(s, x)[Len(s) + 1] = x
         /\ \A j \in DOMAIN s : Append(s, x)[j] = s[j] /\ j # Len(s) + 1
  OBVIOUS

\* The invariant survives a step that leaves every controller's ears, the page and what
\* was said alone, if the sends and the bubbles are as they should be.
LEMMA SameEarsStep ==
  ASSUME FaceInv,
         UNCHANGED <<face, inMap, reads, begunBy, told>>,
         DOMAIN controller' = DOMAIN controller,
         \A c \in DOMAIN controller : SameEars(controller'[c], controller[c]),
         \A s \in sends' : s.by \in DOMAIN controller
  PROVE  BoundKnown' /\ HandlesTrue' /\ ToldBegun' /\ HeardWell'
  <1>1. BoundKnown'
    <2>1. face.shown => controller'[face.bound].mounts >= 1
      BY DEF FaceInv, BoundKnown, SameEars
    <2> QED
      BY <2>1 DEF FaceInv, BoundKnown
  <1>2. HandlesTrue'
    BY DEF FaceInv, HandlesTrue, Facing, SameEars
  <1>3. ToldBegun'
    BY DEF FaceInv, ToldBegun
  <1>4. HeardWell'
    <2>1. \A c \in DOMAIN controller' : controller'[c].heard \subseteq told'
      BY DEF FaceInv, HeardWell, SameEars
    <2>2. \A r \in reads' : r.since \subseteq told'
      BY DEF FaceInv, HeardWell
    <2>3. CASE face.shown
      <3>1. SameEars(Mine', Mine)
        BY <2>3 DEF FaceInv, BoundKnown, Mine
      <3>2. Mine'.heard = Mine.heard /\ Mine'.mounts = Mine.mounts
        BY <3>1 DEF SameEars
      <3> QED
        BY <2>1, <2>2, <3>2 DEF FaceInv, HeardWell, Facing, Heeded
    <2>4. CASE ~ face.shown
      BY <2>1, <2>2, <2>4 DEF HeardWell, Facing
    <2> QED
      BY <2>3, <2>4
  <1> QED
    BY <1>1, <1>2, <1>3, <1>4

\* A send is on its way: it has begun nothing.
LEMMA FaceSend ==
  ASSUME FaceInv, Send
  PROVE  FaceInv'
  <1> PICK b \in DOMAIN controller : b = face.bound
    BY DEF Send, Facing, FaceInv, BoundKnown
  <1> PICK n \in Messages : n = typed' /\ n = typed + 1
    BY FaceAssumption DEF Send, FaceInv, FaceTypes, Messages
  <1> DEFINE k == controller[b]
  <1> DEFINE j == [k EXCEPT !.pending = n, !.sending = TRUE]
  <1>1. k \in MountedController
    BY DEF FaceInv, FaceTypes
  <1>2. controller' = [controller EXCEPT ![b] = j]
    BY DEF Send
  <1>3. sends' = sends \cup {[by |-> b, text |-> n, turn |-> NoOne]}
    BY DEF Send
  <1>4. UNCHANGED <<face, inMap, reads, begunBy, told, proposed>>
    BY DEF Send
  <1>5. j \in MountedController /\ SameEars(j, k) /\ j.bubbles = k.bubbles
    BY <1>1, SendFields
  <1> HIDE DEF j
  <1>6. /\ controller' \in Seq(MountedController) /\ DOMAIN controller' = DOMAIN controller
        /\ controller'[b] = j
        /\ \A c \in DOMAIN controller \ {b} : controller'[c] = controller[c]
    BY <1>2, <1>5, SeqUpdate DEF FaceInv, FaceTypes
  <1>7. \A c \in DOMAIN controller : /\ SameEars(controller'[c], controller[c])
                                     /\ controller'[c].bubbles = controller[c].bubbles
    BY <1>5, <1>6 DEF SameEars
  <1>8. \A s \in sends' : s.by \in DOMAIN controller
    BY <1>3 DEF FaceInv, BoundKnown
  <1>9. FaceTypes'
    <2>1. sends' \subseteq Send1
      BY <1>3 DEF FaceInv, FaceTypes, Send1
    <2>2. typed' \in 0..MaxSends
      BY DEF Messages
    <2> QED
      BY <1>4, <1>6, <2>1, <2>2 DEF FaceInv, FaceTypes
  <1>10. SendsTrue'
    BY <1>3, <1>4 DEF FaceInv, SendsTrue
  <1>11. BubblesTrue'
    BY <1>4, <1>6, <1>7 DEF FaceInv, BubblesTrue
  <1>12. BoundKnown' /\ HandlesTrue' /\ ToldBegun' /\ HeardWell'
    BY <1>4, <1>6, <1>7, <1>8, SameEarsStep
  <1> QED
    BY <1>9, <1>10, <1>11, <1>12 DEF FaceInv

\* The answer to a send puts its text above the turn that it began.
LEMMA FaceSendAnswered ==
  ASSUME FaceInv, NEW s \in sends, SendAnswered(s)
  PROVE  FaceInv'
  <1> PICK b \in DOMAIN controller : b = s.by
    BY DEF FaceInv, BoundKnown
  <1> DEFINE k == controller[b]
  <1>1. k \in MountedController
    BY DEF FaceInv, FaceTypes
  <1>2. controller' = [controller EXCEPT ![b] = Resolved(k, s)]
    BY DEF SendAnswered
  <1>3. sends' = sends \ {s}
    BY DEF SendAnswered
  <1>4. UNCHANGED <<face, inMap, reads, begunBy, told, proposed, typed>>
    BY DEF SendAnswered
  <1>5. s.turn \in Turns /\ s.text \in Messages /\ s.turn \in DOMAIN begunBy
        /\ begunBy[s.turn] = s.text
    BY DEF SendAnswered, FaceInv, FaceTypes, SendsTrue, Send1
  <1>6. /\ Resolved(k, s) \in MountedController /\ SameEars(Resolved(k, s), k)
        /\ Resolved(k, s).bubbles = [k.bubbles EXCEPT ![s.turn] = s.text]
    BY <1>1, <1>5, ResolvedFields
  <1>7. /\ controller' \in Seq(MountedController) /\ DOMAIN controller' = DOMAIN controller
        /\ controller'[b] = Resolved(k, s)
        /\ \A c \in DOMAIN controller \ {b} : controller'[c] = controller[c]
    BY <1>2, <1>6, SeqUpdate DEF FaceInv, FaceTypes
  <1>8. \A c \in DOMAIN controller : SameEars(controller'[c], controller[c])
    BY <1>6, <1>7 DEF SameEars
  <1>9. FaceTypes'
    BY <1>3, <1>4, <1>7 DEF FaceInv, FaceTypes
  <1>10. SendsTrue'
    BY <1>3, <1>4 DEF FaceInv, SendsTrue
  <1>11. BubblesTrue'
    <2> SUFFICES ASSUME NEW c \in DOMAIN controller, NEW t \in Turns
                 PROVE  controller'[c].bubbles[t] \in {Silence} \cup
                          (IF t \in DOMAIN begunBy THEN {begunBy[t]} ELSE {})
      BY <1>4, <1>7 DEF BubblesTrue
    <2>1. CASE c = b /\ t = s.turn
      <3>1. k.bubbles \in [Turns -> Messages \cup {Silence}]
        BY <1>1 DEF MountedController
      <3> QED
        BY <1>5, <1>6, <1>7, <2>1, <3>1
    <2>2. CASE c = b /\ t # s.turn
      <3>1. k.bubbles \in [Turns -> Messages \cup {Silence}]
        BY <1>1 DEF MountedController
      <3>2. controller'[c].bubbles[t] = k.bubbles[t]
        BY <1>6, <1>7, <2>2, <3>1
      <3> QED
        BY <2>2, <3>2 DEF FaceInv, BubblesTrue
    <2>3. CASE c # b
      BY <1>7, <2>3 DEF FaceInv, BubblesTrue
    <2> QED
      BY <2>1, <2>2, <2>3
  <1>12. \A q \in sends' : q.by \in DOMAIN controller
    BY <1>3 DEF FaceInv, BoundKnown
  <1>13. BoundKnown' /\ HandlesTrue' /\ ToldBegun' /\ HeardWell'
    BY <1>4, <1>7, <1>8, <1>12, SameEarsStep
  <1> QED
    BY <1>9, <1>10, <1>11, <1>13 DEF FaceInv

\* A send that fails takes its pending bubble away.
LEMMA FaceSendFails ==
  ASSUME FaceInv, NEW s \in sends, SendFails(s)
  PROVE  FaceInv'
  <1> PICK b \in DOMAIN controller : b = s.by
    BY DEF FaceInv, BoundKnown
  <1> DEFINE k == controller[b]
  <1>1. k \in MountedController
    BY DEF FaceInv, FaceTypes
  <1>2. controller' = [controller EXCEPT ![b] = Rejected(k)]
    BY DEF SendFails
  <1>3. sends' = sends \ {s}
    BY DEF SendFails
  <1>4. UNCHANGED <<face, inMap, reads, begunBy, told, proposed, typed>>
    BY DEF SendFails
  <1>5. s.text \in Messages
    BY DEF FaceInv, FaceTypes, Send1
  <1>6. /\ Rejected(k) \in MountedController /\ SameEars(Rejected(k), k)
        /\ Rejected(k).bubbles = k.bubbles
    BY <1>1, <1>5, SendFields
  <1>7. /\ controller' \in Seq(MountedController) /\ DOMAIN controller' = DOMAIN controller
        /\ controller'[b] = Rejected(k)
        /\ \A c \in DOMAIN controller \ {b} : controller'[c] = controller[c]
    BY <1>2, <1>6, SeqUpdate DEF FaceInv, FaceTypes
  <1>8. \A c \in DOMAIN controller : /\ SameEars(controller'[c], controller[c])
                                     /\ controller'[c].bubbles = controller[c].bubbles
    BY <1>6, <1>7 DEF SameEars
  <1>9. FaceTypes'
    BY <1>3, <1>4, <1>7 DEF FaceInv, FaceTypes
  <1>10. SendsTrue'
    BY <1>3, <1>4 DEF FaceInv, SendsTrue
  <1>11. BubblesTrue'
    BY <1>4, <1>7, <1>8 DEF FaceInv, BubblesTrue
  <1>12. \A q \in sends' : q.by \in DOMAIN controller
    BY <1>3 DEF FaceInv, BoundKnown
  <1>13. BoundKnown' /\ HandlesTrue' /\ ToldBegun' /\ HeardWell'
    BY <1>4, <1>7, <1>8, <1>12, SameEarsStep
  <1> QED
    BY <1>9, <1>10, <1>11, <1>13 DEF FaceInv


\* The document's proposed widgets are no part of the conversation.
LEMMA FaceProposal ==
  ASSUME FaceInv,
         UNCHANGED <<face, inMap, controller, sends, reads, begunBy, told, typed>>
  PROVE  FaceInv'
  BY DEF FaceInv, FaceTypes, BoundKnown, HandlesTrue, SendsTrue, ToldBegun, HeardWell,
         BubblesTrue, Facing, Mine, Heeded

\* An answer to a read of the history: a controller that mounted once has then heard all.
LEMMA FaceHistory ==
  ASSUME FaceInv, NEW r \in reads, HistoryAnswered(r)
  PROVE  FaceInv'
  <1> PICK b \in DOMAIN controller : b = r.by
    BY DEF FaceInv, BoundKnown
  <1>1. reads' = reads \ {r}
    BY DEF HistoryAnswered
  <1>2. UNCHANGED <<face, inMap, sends, begunBy, told, proposed, typed>>
    BY DEF HistoryAnswered
  <1>3. CASE UNCHANGED controller
    <2>1. HeardWell'
      BY <1>1, <1>2, <1>3 DEF FaceInv, HeardWell, Facing, Mine, Heeded
    <2> QED
      BY <1>1, <1>2, <1>3, <2>1
      DEF FaceInv, FaceTypes, BoundKnown, HandlesTrue, SendsTrue, ToldBegun, BubblesTrue, Facing
  <1>4. CASE \E log \in {r.since, told} :
                controller' = [controller EXCEPT ![r.by].heard = @ \cup log]
    <2> PICK log \in {r.since, told} :
                controller' = [controller EXCEPT ![b].heard = @ \cup log]
      BY <1>4
    <2> DEFINE k == controller[b]
    <2> DEFINE j == [k EXCEPT !.heard = @ \cup log]
    <2>1. log \subseteq told /\ log \subseteq Event
      BY DEF FaceInv, FaceTypes, HeardWell
    <2>2. k \in MountedController
      BY DEF FaceInv, FaceTypes
    <2>3. j \in MountedController /\ j.heard = k.heard \cup log
      BY <2>1, <2>2 DEF MountedController
    <2>4. /\ j.handle = k.handle /\ j.listening = k.listening /\ j.mounts = k.mounts
          /\ j.bubbles = k.bubbles
      BY <2>2 DEF MountedController
    <2>5. controller' = [controller EXCEPT ![b] = j]
      OBVIOUS
    <2> HIDE DEF j
    <2>6. /\ controller' \in Seq(MountedController) /\ DOMAIN controller' = DOMAIN controller
          /\ controller'[b] = j
          /\ \A c \in DOMAIN controller \ {b} : controller'[c] = controller[c]
      BY <2>3, <2>5, SeqUpdate DEF FaceInv, FaceTypes
    <2>7. FaceTypes' /\ SendsTrue' /\ ToldBegun'
      BY <1>1, <1>2, <2>6 DEF FaceInv, FaceTypes, SendsTrue, ToldBegun
    <2>8. BubblesTrue'
      BY <1>2, <2>4, <2>6 DEF FaceInv, BubblesTrue
    <2>9. HandlesTrue'
      BY <1>2, <2>4, <2>6 DEF FaceInv, HandlesTrue, Facing
    <2>10. BoundKnown'
      <3>1. face.shown => controller'[face.bound].mounts >= 1
        BY <2>4, <2>6 DEF FaceInv, BoundKnown
      <3> QED
        BY <1>1, <1>2, <2>6, <3>1 DEF FaceInv, BoundKnown
    <2>11. HeardWell'
      <3>1. \A c \in DOMAIN controller' : controller'[c].heard \subseteq told'
        BY <1>2, <2>1, <2>3, <2>6 DEF FaceInv, HeardWell
      <3>2. \A q \in reads' : q.since \subseteq told'
        BY <1>1, <1>2 DEF FaceInv, HeardWell
      <3>3. ASSUME Facing, Mine'.mounts = 1
            PROVE  Heeded(Mine'.heard, told)
        <4>1. CASE face.bound = b
          <5>1. Mine' = j /\ Mine = k
            BY <1>2, <2>6, <4>1 DEF Mine
          <5>2. Mine.mounts = 1
            BY <2>4, <3>3, <5>1
          <5>3. told \subseteq k.heard \cup r.since
            BY <3>3, <4>1, <5>1, <5>2 DEF FaceInv, HeardWell
          <5>4. told \subseteq j.heard
            BY <2>3, <5>3
          <5> QED
            BY <5>1, <5>4 DEF Heeded
        <4>2. CASE face.bound # b
          <5>1. Mine' = Mine
            BY <1>2, <2>6, <3>3, <4>2 DEF Mine, Facing, FaceInv, BoundKnown
          <5> QED
            BY <3>3, <5>1 DEF FaceInv, HeardWell
        <4> QED
          BY <4>1, <4>2
      <3>4. ASSUME Facing, Mine'.mounts = 1, NEW q \in reads', q.by = face.bound
            PROVE  told \subseteq Mine'.heard \cup q.since
        <4>1. Mine.heard \subseteq Mine'.heard /\ Mine'.mounts = Mine.mounts
          BY <1>2, <2>3, <2>4, <2>6, <3>4 DEF Mine, Facing, FaceInv, BoundKnown
        <4> QED
          BY <1>1, <3>4, <4>1 DEF FaceInv, HeardWell
      <3>5. (Facing <=> Facing') /\ face'.bound = face.bound
        BY <1>2 DEF Facing
      <3> QED
        BY <1>2, <3>1, <3>2, <3>3, <3>4, <3>5 DEF HeardWell
    <2> QED
      BY <2>7, <2>8, <2>9, <2>10, <2>11 DEF FaceInv
  <1> QED
    BY <1>3, <1>4 DEF HistoryAnswered

\* An event that the server emits reaches the controller on the page.
LEMMA SpreadStep ==
  ASSUME FaceInv, NEW event \in Event, Spread(event),
         UNCHANGED <<face, inMap, reads>>,
         event.turn \in DOMAIN begunBy',
         DOMAIN begunBy \subseteq DOMAIN begunBy',
         event.type = "start" => EndOf(event.turn) \notin told
  PROVE  /\ controller' \in Seq(MountedController) /\ DOMAIN controller' = DOMAIN controller
         /\ told' \subseteq Event
         /\ \A c \in DOMAIN controller : controller'[c].bubbles = controller[c].bubbles
         /\ HandlesTrue' /\ ToldBegun' /\ HeardWell'
         /\ face.shown => controller'[face.bound].mounts >= 1
  <1>1. told' = told \cup {event}
    BY DEF Spread
  <1>2. DOMAIN controller' = DOMAIN controller
    BY DEF Spread
  <1>3. ASSUME NEW c \in DOMAIN controller
        PROVE  /\ controller'[c] \in MountedController
               /\ controller'[c].bubbles = controller[c].bubbles
               /\ controller'[c].handle = controller[c].handle
               /\ controller'[c].listening = controller[c].listening
               /\ controller'[c].mounts = controller[c].mounts
               /\ controller'[c].heard = IF controller[c].listening = 0 THEN controller[c].heard
                                         ELSE controller[c].heard \cup {event}
    <2> DEFINE k == controller[c]
    <2> DEFINE j == [k EXCEPT !.heard = @ \cup {event}]
    <2>1. k \in MountedController
      BY DEF FaceInv, FaceTypes
    <2>2. j \in MountedController /\ j.heard = k.heard \cup {event}
      BY <2>1 DEF MountedController
    <2>3. /\ j.handle = k.handle /\ j.listening = k.listening /\ j.mounts = k.mounts
          /\ j.bubbles = k.bubbles
      BY <2>1 DEF MountedController
    <2>4. controller'[c] = IF k.listening = 0 THEN k ELSE j
      BY DEF Spread
    <2> HIDE DEF j
    <2> QED
      BY <2>1, <2>2, <2>3, <2>4
  <1>4. controller' \in Seq(MountedController)
    <2>1. controller \in Seq(MountedController)
      BY DEF FaceInv, FaceTypes
    <2> DEFINE F(c) == IF controller[c].listening = 0 THEN controller[c]
                       ELSE [controller[c] EXCEPT !.heard = @ \cup {event}]
    <2>4. controller' = [c \in DOMAIN controller |-> F(c)]
      BY DEF Spread
    <2> HIDE DEF F
    <2>5. controller' = [c \in DOMAIN controller |-> controller'[c]]
      BY <2>4
    <2>6. DOMAIN controller = 1..Len(controller)
      BY <2>1
    <2>2. controller' = [c \in 1..Len(controller) |-> controller'[c]]
      BY <2>5, <2>6
    <2>3. \A c \in 1..Len(controller) : controller'[c] \in MountedController
      BY <1>3, <2>6
    <2> PICK n \in Nat : n = Len(controller)
      BY <2>1
    <2>7. controller' \in [1..n -> MountedController]
      BY <2>2, <2>3
    <2> QED
      BY <2>7, SeqOfFunction
  <1>5. HandlesTrue'
    <2> SUFFICES ASSUME NEW c \in DOMAIN controller
                 PROVE  /\ controller'[c].handle <=> Facing /\ c = face.bound
                        /\ controller'[c].listening = IF controller'[c].handle THEN 1 ELSE 0
      BY <1>2 DEF HandlesTrue, Facing
    <2>1. /\ controller[c].handle <=> Facing /\ c = face.bound
          /\ controller[c].listening = IF controller[c].handle THEN 1 ELSE 0
      BY DEF FaceInv, HandlesTrue
    <2>2. /\ controller'[c].handle = controller[c].handle
          /\ controller'[c].listening = controller[c].listening
      BY <1>3
    <2> QED
      BY <2>1, <2>2
  <1>6. ToldBegun'
    BY <1>1 DEF FaceInv, ToldBegun
  <1>7. ASSUME Facing
        PROVE  Mine'.heard = Mine.heard \cup {event} /\ Mine'.mounts = Mine.mounts
    <2>1. face.bound \in DOMAIN controller /\ controller[face.bound].listening = 1
      BY <1>7 DEF Facing, FaceInv, BoundKnown, HandlesTrue
    <2> PICK b \in DOMAIN controller : b = face.bound
      BY <2>1
    <2>2. Mine = controller[b] /\ Mine' = controller'[b]
      BY DEF Mine
    <2>3. controller[b].listening # 0
      BY <2>1
    <2> QED
      BY <1>3, <2>2, <2>3
  <1>8. HeardWell'
    <2>1. \A c \in DOMAIN controller' : controller'[c].heard \subseteq told'
      BY <1>1, <1>2, <1>3 DEF FaceInv, HeardWell
    <2>2. \A r \in reads' : r.since \subseteq told'
      BY <1>1 DEF FaceInv, HeardWell
    <2>3. ASSUME Facing, Mine'.mounts = 1
          PROVE  Heeded(Mine'.heard, told')
      <3> SUFFICES ASSUME NEW t \in Turns, [turn |-> t, type |-> "start"] \in Mine'.heard,
                          EndOf(t) \in told'
                   PROVE  EndOf(t) \in Mine'.heard
        BY DEF Heeded
      <3>1. Heeded(Mine.heard, told) /\ Mine.heard \subseteq told
        BY <1>7, <2>3 DEF FaceInv, HeardWell, Mine, Facing, BoundKnown
      <3>2. CASE EndOf(t) = event
        BY <1>7, <2>3, <3>2
      <3>3. CASE EndOf(t) # event /\ event = [turn |-> t, type |-> "start"]
        BY <1>1, <3>3
      <3>4. CASE EndOf(t) # event /\ event # [turn |-> t, type |-> "start"]
        BY <1>1, <1>7, <2>3, <3>1, <3>4 DEF Heeded
      <3> QED
        BY <3>2, <3>3, <3>4
    <2>4. ASSUME Facing, Mine'.mounts = 1, NEW r \in reads, r.by = face.bound
          PROVE  told' \subseteq Mine'.heard \cup r.since
      BY <1>1, <1>7, <2>4 DEF FaceInv, HeardWell
    <2>5. (Facing <=> Facing') /\ face'.bound = face.bound /\ reads' = reads
      BY DEF Facing
    <2> QED
      BY <2>1, <2>2, <2>3, <2>4, <2>5 DEF HeardWell
  <1>9. face.shown => controller'[face.bound].mounts >= 1
    BY <1>3 DEF FaceInv, BoundKnown
  <1> QED
    BY <1>1, <1>2, <1>3, <1>4, <1>5, <1>6, <1>8, <1>9 DEF FaceInv, FaceTypes

\* A turn ends, stopped or by itself.
LEMMA FaceEnds ==
  ASSUME FaceInv, NEW t \in DOMAIN begunBy, Ends(t),
         UNCHANGED <<face, inMap, sends, reads, begunBy, proposed, typed>>
  PROVE  FaceInv'
  <1>1. t \in Turns
    BY FaceAssumption DEF FaceInv, FaceTypes, Turns
  <1> DEFINE e == EndOf(t)
  <1>2. e \in Event /\ e.turn = t /\ e.type = "end"
    BY <1>1 DEF EndOf, Event
  <1>3. Spread(e)
    BY DEF Ends
  <1> HIDE DEF e
  <1>4. /\ controller' \in Seq(MountedController) /\ DOMAIN controller' = DOMAIN controller
        /\ told' \subseteq Event
        /\ \A c \in DOMAIN controller : controller'[c].bubbles = controller[c].bubbles
        /\ HandlesTrue' /\ ToldBegun' /\ HeardWell'
        /\ face.shown => controller'[face.bound].mounts >= 1
    BY <1>2, <1>3, SpreadStep
  <1>5. FaceTypes' /\ SendsTrue'
    BY <1>4 DEF FaceInv, FaceTypes, SendsTrue
  <1>6. BubblesTrue'
    BY <1>4 DEF FaceInv, BubblesTrue
  <1>7. BoundKnown'
    BY <1>4 DEF FaceInv, BoundKnown
  <1> QED
    BY <1>4, <1>5, <1>6, <1>7 DEF FaceInv

\* The Stop button shows for a turn that the controller heard of, so it has begun.
LEMMA LiveTurnBegun ==
  ASSUME FaceInv, Facing, LiveTurn(Mine) # NoOne
  PROVE  /\ LiveTurn(Mine) \in DOMAIN begunBy
         /\ LiveTurn(Mine) \in Turns
         /\ [turn |-> LiveTurn(Mine), type |-> "start"] \in Mine.heard
         /\ EndOf(LiveTurn(Mine)) \notin Mine.heard
  <1> PICK k \in MountedController : k = Mine
    BY DEF FaceInv, FaceTypes, BoundKnown, Facing, Mine
  <1>1. k.heard \subseteq told /\ told \subseteq Event
    BY DEF FaceInv, FaceTypes, BoundKnown, Facing, Mine, HeardWell
  <1> DEFINE T == Streaming(k) \cup {NoOne}
  <1>2. T \in SUBSET (0..MaxTurns) /\ T # {}
    BY <1>1, FaceAssumption DEF Streaming, NoOne, Event, Turns
  <1>3. MaxTurns \in Nat
    BY FaceAssumption
  <1>4. LiveTurn(k) \in T
    <2>1. LiveTurn(k) = Max(T)
      BY DEF LiveTurn
    <2> HIDE DEF T
    <2> QED
      BY <1>2, <1>3, <2>1, NatMax
  <1>5. LiveTurn(k) \in Streaming(k)
    BY <1>4
  <1> PICK t : t = LiveTurn(k)
    OBVIOUS
  <1>6. PICK e \in k.heard : e.turn = t
    BY <1>5 DEF Streaming
  <1>7. \A d \in k.heard : d.turn = t => d.type # "end"
    BY <1>5 DEF Streaming
  <1>8. e \in Event /\ e.type = "start" /\ t \in Turns /\ t \in DOMAIN begunBy
    BY <1>1, <1>6, <1>7 DEF Event, FaceInv, ToldBegun
  <1>9. e = [turn |-> t, type |-> "start"]
    BY <1>6, <1>8 DEF Event
  <1>10. EndOf(t) \notin k.heard
    BY <1>7 DEF EndOf
  <1> QED
    BY <1>6, <1>8, <1>9, <1>10

\* The server takes a message: a turn begins, and its start is told.
LEMMA FaceBegins ==
  ASSUME FaceInv, NEW s \in sends, Begins(s)
  PROVE  FaceInv'
  <1> DEFINE n == Len(begunBy) + 1
  <1> DEFINE q == [s EXCEPT !.turn = n]
  <1>1. begunBy \in Seq(Messages) /\ s \in Send1 /\ s.text \in Messages
    BY DEF FaceInv, FaceTypes, Send1
  <1>2. n \in Turns /\ n \notin DOMAIN begunBy
    BY <1>1, FaceAssumption DEF Begins, Turns
  <1>3. /\ begunBy' \in Seq(Messages) /\ DOMAIN begunBy' = DOMAIN begunBy \cup {n}
        /\ begunBy'[n] = s.text /\ Len(begunBy') = n /\ n <= MaxTurns
        /\ \A t \in DOMAIN begunBy : begunBy'[t] = begunBy[t]
    BY <1>1, FaceAssumption DEF Begins
  <1>4. q \in Send1 /\ q.by = s.by /\ q.text = s.text /\ q.turn = n
    BY <1>1, <1>2 DEF Send1
  <1>5. sends' = (sends \ {s}) \cup {q}
    BY DEF Begins
  <1>6. UNCHANGED <<face, inMap, reads, proposed, typed>>
    BY DEF Begins
  <1> DEFINE e == [turn |-> n, type |-> "start"]
  <1>7. e \in Event /\ e.turn = n /\ e.type = "start"
    BY <1>2 DEF Event
  <1>8. Spread(e)
    BY DEF Begins
  <1>9. EndOf(n) \notin told
    BY <1>2 DEF FaceInv, ToldBegun, EndOf
  <1> HIDE DEF n, q, e
  <1>10. /\ controller' \in Seq(MountedController) /\ DOMAIN controller' = DOMAIN controller
         /\ told' \subseteq Event
         /\ \A c \in DOMAIN controller : controller'[c].bubbles = controller[c].bubbles
         /\ HandlesTrue' /\ ToldBegun' /\ HeardWell'
         /\ face.shown => controller'[face.bound].mounts >= 1
    BY <1>3, <1>6, <1>7, <1>8, <1>9, SpreadStep
  <1>11. FaceTypes'
    <2>1. sends' \subseteq Send1
      BY <1>4, <1>5 DEF FaceInv, FaceTypes
    <2> QED
      BY <1>3, <1>6, <1>10, <2>1 DEF FaceInv, FaceTypes
  <1>12. SendsTrue'
    BY <1>3, <1>4, <1>5 DEF FaceInv, SendsTrue
  <1>13. BubblesTrue'
    <2> SUFFICES ASSUME NEW c \in DOMAIN controller, NEW t \in Turns
                 PROVE  controller'[c].bubbles[t] \in {Silence} \cup
                          (IF t \in DOMAIN begunBy' THEN {begunBy'[t]} ELSE {})
      BY <1>10 DEF BubblesTrue
    <2>1. controller[c].bubbles[t] \in {Silence} \cup
              (IF t \in DOMAIN begunBy THEN {begunBy[t]} ELSE {})
      BY DEF FaceInv, BubblesTrue
    <2> QED
      BY <1>3, <1>10, <2>1
  <1>14. BoundKnown'
    <2>1. \A d \in sends' : d.by \in DOMAIN controller
      BY <1>4, <1>5 DEF FaceInv, BoundKnown
    <2> QED
      BY <1>6, <1>10, <2>1 DEF FaceInv, BoundKnown
  <1> QED
    BY <1>10, <1>11, <1>12, <1>13, <1>14 DEF FaceInv


\* A controller that is not the mounted one has nothing to give up.
LEMMA NotMounted ==
  ASSUME FaceInv, NEW c \in DOMAIN controller, ~ Facing \/ c # face.bound
  PROVE  controller[c].handle = FALSE /\ controller[c].listening = 0
  <1> PICK k \in MountedController : k = controller[c]
    BY DEF FaceInv, FaceTypes
  <1>1. k.handle \in BOOLEAN
    BY DEF MountedController
  <1>2. /\ k.handle <=> Facing /\ c = face.bound
        /\ k.listening = IF k.handle THEN 1 ELSE 0
    BY DEF FaceInv, HandlesTrue
  <1>3. k.handle = FALSE
    BY <1>1, <1>2
  <1>4. k.listening = 0
    BY <1>2, <1>3
  <1> QED
    BY <1>3, <1>4

\* The widget leaves the tab, or the page leaves the document: nobody listens.
LEMMA FaceDestroy ==
  ASSUME FaceInv, Hide \/ Leave
  PROVE  FaceInv'
  <1> PICK b \in DOMAIN controller : b = face.bound
    BY DEF Hide, Leave, FaceInv, BoundKnown
  <1> DEFINE k == controller[b]
  <1>1. /\ k \in MountedController /\ k.listening = IF k.handle THEN 1 ELSE 0
        /\ k.mounts >= 1
    BY DEF FaceInv, FaceTypes, HandlesTrue, BoundKnown, Hide, Leave
  <1>2. controller' = [controller EXCEPT ![b] = Destroyed(k)]
    BY DEF Hide, Leave, Taken
  <1>3. UNCHANGED <<sends, reads, begunBy, told, proposed, typed>> /\ inMap' = NoOne
    BY DEF Hide, Leave
  <1>4. /\ face' \in FaceState /\ ~ Facing'
        /\ \/ ~ face'.shown /\ face'.bound = NoOne /\ face'.in
           \/ ~ face'.in /\ face'.shown /\ face'.bound = b
    <2>1. CASE Hide
      BY <2>1 DEF Hide, Facing, FaceState, FaceInv, FaceTypes, NoOne
    <2>2. CASE Leave
      BY <2>2 DEF Leave, Facing, FaceState, FaceInv, FaceTypes
    <2> QED
      BY <2>1, <2>2
  <1>5. /\ Destroyed(k) \in MountedController
        /\ Destroyed(k).handle = FALSE /\ Destroyed(k).listening = 0
        /\ Destroyed(k).heard = k.heard /\ Destroyed(k).mounts = k.mounts
        /\ Destroyed(k).bubbles = k.bubbles
    BY <1>1, DestroyedFields
  <1> HIDE DEF k
  <1>6. /\ controller' \in Seq(MountedController) /\ DOMAIN controller' = DOMAIN controller
        /\ controller'[b] = Destroyed(k)
        /\ \A c \in DOMAIN controller \ {b} : controller'[c] = controller[c]
    BY <1>2, <1>5, SeqUpdate DEF FaceInv, FaceTypes
  <1>7. FaceTypes' /\ SendsTrue' /\ ToldBegun'
    BY <1>3, <1>4, <1>6 DEF FaceInv, FaceTypes, SendsTrue, ToldBegun, NoOne
  <1>8. BubblesTrue'
    BY <1>3, <1>5, <1>6 DEF FaceInv, BubblesTrue, k
  <1>9. HandlesTrue'
    <2> SUFFICES ASSUME NEW c \in DOMAIN controller
                 PROVE  controller'[c].handle = FALSE /\ controller'[c].listening = 0
      BY <1>4, <1>6 DEF HandlesTrue
    <2>1. CASE c = b
      BY <1>5, <1>6, <2>1
    <2>2. CASE c # b
      BY <1>6, <2>2, NotMounted
    <2> QED
      BY <2>1, <2>2
  <1>10. BoundKnown'
    <2>1. face'.shown => face'.bound \in DOMAIN controller' /\ controller'[face'.bound].mounts >= 1
      BY <1>1, <1>4, <1>5, <1>6
    <2> QED
      BY <1>3, <1>4, <1>6, <2>1 DEF FaceInv, BoundKnown
  <1>11. HeardWell'
    <2>1. \A c \in DOMAIN controller' : controller'[c].heard \subseteq told'
      BY <1>3, <1>5, <1>6 DEF FaceInv, HeardWell, k
    <2> QED
      BY <1>3, <1>4, <2>1 DEF FaceInv, HeardWell
  <1> QED
    BY <1>7, <1>8, <1>9, <1>10, <1>11 DEF FaceInv

\* What a controller has read, or will, when it mounts is what was said so far.
LEMMA ReadFields ==
  ASSUME FaceInv, NEW c \in Nat
  PROVE  /\ HistoryRequest(c) \in Read1
         /\ HistoryRequest(c).by = c /\ HistoryRequest(c).since = told
  BY DEF HistoryRequest, Read1, FaceInv, FaceTypes

\* A controller comes back with its element: it mounts once more.
LEMMA FaceRejoin ==
  ASSUME FaceInv, Rejoin
  PROVE  FaceInv'
  <1> PICK b \in DOMAIN controller : b = face.bound
    BY DEF Rejoin, FaceInv, BoundKnown
  <1> DEFINE k == controller[b]
  <1>1. /\ k \in MountedController /\ k.listening = IF k.handle THEN 1 ELSE 0
        /\ k.mounts >= 1 /\ b \in Nat
    BY DEF FaceInv, FaceTypes, HandlesTrue, BoundKnown, Rejoin
  <1>2. controller' = [controller EXCEPT ![b] = Mounted(k)]
    BY DEF Rejoin
  <1>3. UNCHANGED <<inMap, sends, begunBy, told, proposed, typed>>
    BY DEF Rejoin
  <1>4. reads' = reads \cup {HistoryRequest(b)}
    BY DEF Rejoin, Mount
  <1>5. /\ face' \in FaceState /\ Facing' /\ face'.bound = b
        /\ face'.shown /\ face'.in
    BY DEF Rejoin, Facing, FaceState, FaceInv, FaceTypes, BoundKnown
  <1>6. /\ Mounted(k) \in MountedController
        /\ Mounted(k).handle = TRUE /\ Mounted(k).listening = 1
        /\ Mounted(k).heard = {} /\ Mounted(k).mounts = k.mounts + 1
        /\ Mounted(k).bubbles = NoBubbles
    BY <1>1, MountedFields
  <1>7. k.mounts + 1 > 1
    BY <1>1 DEF MountedController
  <1>8. /\ HistoryRequest(b) \in Read1
        /\ HistoryRequest(b).by = b /\ HistoryRequest(b).since = told
    BY <1>1, ReadFields
  <1> HIDE DEF k
  <1>9. /\ controller' \in Seq(MountedController) /\ DOMAIN controller' = DOMAIN controller
        /\ controller'[b] = Mounted(k)
        /\ \A c \in DOMAIN controller \ {b} : controller'[c] = controller[c]
    BY <1>2, <1>6, SeqUpdate DEF FaceInv, FaceTypes
  <1>10. FaceTypes' /\ SendsTrue' /\ ToldBegun'
    <2>1. reads' \subseteq Read1
      BY <1>4, <1>8 DEF FaceInv, FaceTypes
    <2> QED
      BY <1>3, <1>5, <1>9, <2>1 DEF FaceInv, FaceTypes, SendsTrue, ToldBegun
  <1>11. BubblesTrue'
    BY <1>3, <1>6, <1>9 DEF FaceInv, BubblesTrue, NoBubbles
  <1>12. HandlesTrue'
    <2> SUFFICES ASSUME NEW c \in DOMAIN controller
                 PROVE  /\ controller'[c].handle = (c = b)
                        /\ controller'[c].listening = IF c = b THEN 1 ELSE 0
      BY <1>5, <1>9 DEF HandlesTrue
    <2>1. CASE c = b
      BY <1>6, <1>9, <2>1
    <2>2. CASE c # b
      BY <1>9, <2>2, NotMounted
    <2> QED
      BY <2>1, <2>2
  <1>13. BoundKnown'
    <2>1. face'.shown => face'.bound \in DOMAIN controller' /\ controller'[face'.bound].mounts >= 1
      BY <1>5, <1>6, <1>7, <1>9 DEF MountedController
    <2>2. \A r \in reads' : r.by \in DOMAIN controller'
      BY <1>4, <1>8, <1>9 DEF FaceInv, BoundKnown
    <2>3. inMap' = NoOne
      BY <1>3 DEF Rejoin, FaceInv, BoundKnown
    <2> QED
      BY <1>3, <1>5, <1>9, <2>1, <2>2, <2>3 DEF FaceInv, BoundKnown
  <1>14. HeardWell'
    <2>1. \A c \in DOMAIN controller' : controller'[c].heard \subseteq told'
      BY <1>3, <1>6, <1>9 DEF FaceInv, HeardWell
    <2>2. \A r \in reads' : r.since \subseteq told'
      BY <1>3, <1>4, <1>8 DEF FaceInv, HeardWell
    <2>3. Mine'.mounts # 1
      BY <1>1, <1>5, <1>6, <1>7, <1>9 DEF Mine, MountedController
    <2> QED
      BY <2>1, <2>2, <2>3 DEF HeardWell
  <1> QED
    BY <1>10, <1>11, <1>12, <1>13, <1>14 DEF FaceInv

\* A rendering that makes a controller mounts it, whatever became of the others: it has
\* heard nothing, no read of the history is its own but the one it begins, and that one
\* has all that was said so far.
LEMMA FreshStep ==
  ASSUME FaceInv, NEW n \in Nat, n \notin DOMAIN controller,
         DOMAIN controller' = DOMAIN controller \cup {n},
         controller' \in Seq(MountedController),
         controller'[n] = Mounted(NewController),
         \A c \in DOMAIN controller :
            /\ controller'[c].handle = FALSE /\ controller'[c].listening = 0
            /\ controller'[c].heard = controller[c].heard
            /\ controller'[c].bubbles = controller[c].bubbles,
         face' \in FaceState, face'.in, face'.shown, face'.bound = n,
         inMap' \in {NoOne, n},
         reads' = reads \cup {HistoryRequest(n)},
         UNCHANGED <<sends, begunBy, told, typed>>
  PROVE  FaceInv'
  <1>1. /\ Mounted(NewController) \in MountedController
        /\ Mounted(NewController).handle = TRUE /\ Mounted(NewController).listening = 1
        /\ Mounted(NewController).heard = {} /\ Mounted(NewController).mounts = 1
        /\ Mounted(NewController).bubbles = NoBubbles
    <2>1. Mounted(NewController).mounts = NewController.mounts + 1
      BY NewControllerFields, MountedFields
    <2>2. Mounted(NewController).mounts = 1
      BY <2>1, NewControllerFields
    <2> QED
      BY <2>2, NewControllerFields, MountedFields
  <1>2. /\ HistoryRequest(n) \in Read1
        /\ HistoryRequest(n).by = n /\ HistoryRequest(n).since = told
    BY ReadFields
  <1>3. FaceTypes'
    <2>1. reads' \subseteq Read1
      BY <1>2 DEF FaceInv, FaceTypes
    <2>2. inMap' \in Nat
      BY DEF NoOne
    <2> QED
      BY <2>1, <2>2 DEF FaceInv, FaceTypes
  <1>4. SendsTrue' /\ ToldBegun'
    BY DEF FaceInv, SendsTrue, ToldBegun
  <1>5. BubblesTrue'
    BY <1>1 DEF FaceInv, BubblesTrue, NoBubbles
  <1>6. HandlesTrue'
    <2> SUFFICES ASSUME NEW c \in DOMAIN controller'
                 PROVE  /\ controller'[c].handle = (c = n)
                        /\ controller'[c].listening = IF c = n THEN 1 ELSE 0
      BY DEF HandlesTrue, Facing
    <2> QED
      BY <1>1
  <1>7. BoundKnown'
    <2>1. \A r \in reads' : r.by \in DOMAIN controller'
      BY <1>2 DEF FaceInv, BoundKnown
    <2>2. \A s \in sends' : s.by \in DOMAIN controller'
      BY DEF FaceInv, BoundKnown
    <2>3. controller'[face'.bound].mounts >= 1
      BY <1>1
    <2> QED
      BY <2>1, <2>2, <2>3 DEF BoundKnown
  <1>8. HeardWell'
    <2>1. \A c \in DOMAIN controller' : controller'[c].heard \subseteq told'
      BY <1>1 DEF FaceInv, HeardWell
    <2>2. \A r \in reads' : r.since \subseteq told'
      BY <1>2 DEF FaceInv, HeardWell
    <2>3. Heeded(Mine'.heard, told')
      BY <1>1 DEF Heeded, Mine
    <2>4. \A r \in reads' : r.by = n => told' \subseteq r.since
      BY <1>2 DEF FaceInv, BoundKnown
    <2> QED
      BY <2>1, <2>2, <2>3, <2>4 DEF HeardWell
  <1> QED
    BY <1>3, <1>4, <1>5, <1>6, <1>7, <1>8 DEF FaceInv

\* The widget comes onto the tab: the map is empty, so it gets a controller of its own.
LEMMA FaceShow ==
  ASSUME FaceInv, Show
  PROVE  FaceInv'
  <1> DEFINE n == Len(controller) + 1
  <1>1. controller \in Seq(MountedController) /\ n \in Nat /\ n \notin DOMAIN controller
    BY DEF FaceInv, FaceTypes
  <1>2. inMap = NoOne /\ ~ Facing
    BY DEF Show, FaceInv, BoundKnown, Facing
  <1>3. Chosen = n /\ WithChosen = Append(controller, NewController)
    BY <1>2 DEF Chosen, WithChosen
  <1>4. /\ face' = [face EXCEPT !.shown = TRUE, !.bound = n]
        /\ inMap' = n
        /\ controller' = [Append(controller, NewController) EXCEPT ![n] = Mounted(@)]
        /\ reads' = reads \cup {HistoryRequest(n)}
        /\ UNCHANGED <<sends, begunBy, told, typed>>
    BY <1>3 DEF Show, Mount
  <1>5. face' \in FaceState /\ face'.in /\ face'.shown /\ face'.bound = n
    BY <1>1, <1>4 DEF Show, FaceState, FaceInv, FaceTypes
  <1> DEFINE a == Append(controller, NewController)
  <1>6. /\ a \in Seq(MountedController) /\ DOMAIN a = DOMAIN controller \cup {n}
        /\ a[n] = NewController
        /\ \A c \in DOMAIN controller : a[c] = controller[c] /\ c # n
    BY <1>1, NewControllerFields, SeqAppend
  <1>7. Mounted(NewController) \in MountedController
    BY NewControllerFields, MountedFields
  <1> HIDE DEF n, a
  <1>8. controller' = [a EXCEPT ![n] = Mounted(NewController)]
    BY <1>4, <1>6 DEF a
  <1>9. /\ controller' \in Seq(MountedController) /\ DOMAIN controller' = DOMAIN a
        /\ controller'[n] = Mounted(NewController)
        /\ \A c \in DOMAIN a \ {n} : controller'[c] = a[c]
    BY <1>6, <1>7, <1>8, SeqUpdate
  <1>10. ASSUME NEW c \in DOMAIN controller
         PROVE  /\ controller'[c].handle = FALSE /\ controller'[c].listening = 0
                /\ controller'[c].heard = controller[c].heard
                /\ controller'[c].bubbles = controller[c].bubbles
    <2>1. controller'[c] = controller[c]
      BY <1>6, <1>9
    <2> QED
      BY <1>2, <2>1, NotMounted
  <1> QED
    BY <1>1, <1>4, <1>5, <1>6, <1>9, <1>10, FreshStep

\* Another rendering finds the map empty: the bound controller is destroyed, and a new one
\* mounts in its place.
LEMMA FaceReplace ==
  ASSUME FaceInv, Replace
  PROVE  FaceInv'
  <1> DEFINE n == Len(controller) + 1
  <1>1. controller \in Seq(MountedController) /\ n \in Nat /\ n \notin DOMAIN controller
    BY DEF FaceInv, FaceTypes
  <1> PICK b \in DOMAIN controller : b = face.bound
    BY DEF Replace, FaceInv, BoundKnown
  <1>2. inMap = NoOne
    BY DEF Replace, FaceInv, BoundKnown
  <1>3. Chosen = n /\ WithChosen = Append(controller, NewController)
    BY <1>2 DEF Chosen, WithChosen
  <1>4. /\ face' = [face EXCEPT !.bound = n]
        /\ inMap' = NoOne
        /\ controller' = [Append(controller, NewController) EXCEPT ![b] = Destroyed(@),
                                                                   ![n] = Mounted(@)]
        /\ reads' = reads \cup {HistoryRequest(n)}
        /\ UNCHANGED <<sends, begunBy, told, typed>>
    BY <1>3 DEF Replace, Mount
  <1>5. face' \in FaceState /\ face'.in /\ face'.shown /\ face'.bound = n
    BY <1>1, <1>4 DEF Replace, FaceState, FaceInv, FaceTypes
  <1> DEFINE k == controller[b]
  <1> DEFINE a == Append(controller, NewController)
  <1>6. /\ a \in Seq(MountedController) /\ DOMAIN a = DOMAIN controller \cup {n}
        /\ a[n] = NewController
        /\ \A c \in DOMAIN controller : a[c] = controller[c] /\ c # n
    BY <1>1, NewControllerFields, SeqAppend
  <1>7. Mounted(NewController) \in MountedController
    BY NewControllerFields, MountedFields
  <1>8. k \in MountedController /\ k.listening = IF k.handle THEN 1 ELSE 0
    BY DEF FaceInv, FaceTypes, HandlesTrue
  <1>9. /\ Destroyed(k) \in MountedController
        /\ Destroyed(k).handle = FALSE /\ Destroyed(k).listening = 0
        /\ Destroyed(k).heard = k.heard /\ Destroyed(k).bubbles = k.bubbles
    BY <1>8, DestroyedFields
  <1> HIDE DEF n, a
  <1> DEFINE d == [a EXCEPT ![b] = Destroyed(k)]
  <1>10. /\ d \in Seq(MountedController) /\ DOMAIN d = DOMAIN a
         /\ d[b] = Destroyed(k)
         /\ \A c \in DOMAIN a \ {b} : d[c] = a[c]
    BY <1>6, <1>9, SeqUpdate
  <1>11. controller' = [d EXCEPT ![n] = Mounted(NewController)]
    BY <1>4, <1>6, <1>10 DEF a
  <1> HIDE DEF d, k
  <1>12. /\ controller' \in Seq(MountedController) /\ DOMAIN controller' = DOMAIN d
         /\ controller'[n] = Mounted(NewController)
         /\ \A c \in DOMAIN d \ {n} : controller'[c] = d[c]
    BY <1>6, <1>7, <1>10, <1>11, SeqUpdate
  <1>13. ASSUME NEW c \in DOMAIN controller
         PROVE  /\ controller'[c].handle = FALSE /\ controller'[c].listening = 0
                /\ controller'[c].heard = controller[c].heard
                /\ controller'[c].bubbles = controller[c].bubbles
    <2>1. CASE c = b
      BY <1>6, <1>9, <1>10, <1>12, <2>1 DEF k
    <2>2. CASE c # b
      <3>1. controller'[c] = controller[c]
        BY <1>6, <1>10, <1>12, <2>2
      <3> QED
        BY <2>2, <3>1, NotMounted
    <2> QED
      BY <2>1, <2>2
  <1> QED
    BY <1>1, <1>4, <1>5, <1>6, <1>10, <1>12, <1>13, FreshStep

\* The invariant of the chat widget.
THEOREM FaceInvariant == FaceSpec => []FaceInv
  <1>1. FaceInit => FaceInv
    BY FaceAssumption
    DEF FaceInit, FaceInv, FaceTypes, FaceState, BoundKnown, HandlesTrue, SendsTrue, ToldBegun,
        HeardWell, BubblesTrue, Facing, NoOne
  <1>2. FaceInv /\ [FaceNext]_faceVars => FaceInv'
    <2> SUFFICES ASSUME FaceInv, [FaceNext]_faceVars
                 PROVE  FaceInv'
      OBVIOUS
    <2>1. CASE Show
      BY <2>1, FaceShow
    <2>2. CASE Replace
      BY <2>2, FaceReplace
    <2>3. CASE Hide \/ Leave
      BY <2>3, FaceDestroy
    <2>4. CASE Rejoin
      BY <2>4, FaceRejoin
    <2>5. CASE Send
      BY <2>5, FaceSend
    <2>6. CASE Stop
      <3>1. LiveTurn(Mine) \in DOMAIN begunBy
        BY <2>6, LiveTurnBegun DEF Stop
      <3> QED
        BY <2>6, <3>1, FaceEnds DEF Stop
    <2>7. CASE \E n \in Requests : Decide(n) \/ Propose(n)
      BY <2>7, FaceProposal DEF Decide, Propose
    <2>8. ASSUME NEW s \in sends, Begins(s)
          PROVE  FaceInv'
      BY <2>8, FaceBegins
    <2>9. ASSUME NEW s \in sends, SendAnswered(s)
          PROVE  FaceInv'
      BY <2>9, FaceSendAnswered
    <2>10. ASSUME NEW s \in sends, SendFails(s)
           PROVE  FaceInv'
      BY <2>10, FaceSendFails
    <2>11. ASSUME NEW r \in reads, HistoryAnswered(r)
           PROVE  FaceInv'
      BY <2>11, FaceHistory
    <2>12. ASSUME NEW t \in Turns, Finishes(t)
           PROVE  FaceInv'
      BY <2>12, FaceEnds DEF Finishes
    <2>13. CASE UNCHANGED faceVars
      BY <2>13, FaceProposal DEF faceVars
    <2> QED
      BY <2>1, <2>2, <2>3, <2>4, <2>5, <2>6, <2>7, <2>8, <2>9, <2>10, <2>11, <2>12, <2>13
      DEF FaceNext
  <1> QED
    BY <1>1, <1>2, PTL DEF FaceSpec

\* Exactly the controller on the page listens; what stands above a turn as the user's
\* message began it; a controller that mounted once has no Stop button for an ended turn
\* (mount, destroy, send and the render pass, chat.ts): for any number of controllers,
\* mounts, messages and turns.
THEOREM OneConversationHolds == FaceSpec => []OneConversation
  <1>1. FaceInv => OneConversation
    <2> SUFFICES ASSUME FaceInv
                 PROVE  OneConversation
      OBVIOUS
    <2>1. ListensOnce
      BY DEF FaceInv, HandlesTrue, ListensOnce
    <2>2. BubblesTrue
      BY DEF FaceInv
    <2>3. StopsRunning
      <3> SUFFICES ASSUME Facing, Mine.mounts = 1, LiveTurn(Mine) # NoOne
                   PROVE  EndOf(LiveTurn(Mine)) \notin told
        BY DEF StopsRunning
      <3>1. /\ LiveTurn(Mine) \in Turns
            /\ [turn |-> LiveTurn(Mine), type |-> "start"] \in Mine.heard
            /\ EndOf(LiveTurn(Mine)) \notin Mine.heard
        BY LiveTurnBegun
      <3>2. Heeded(Mine.heard, told)
        BY DEF FaceInv, HeardWell
      <3> QED
        BY <3>1, <3>2 DEF Heeded
    <2> QED
      BY <2>1, <2>2, <2>3 DEF OneConversation
  <1> QED
    BY <1>1, FaceInvariant, PTL

-----------------------------------------------------------------------------
(***************************************************************************)
(* The operator queue                                                      *)
(*                                                                         *)
(* Whatever the rows and boxes of the page are, a decision carries the     *)
(* tools that were ticked when it was taken, and the host gives no other.  *)
(***************************************************************************)
\* The fields of a grant and of the host's document.
IsGrant(g) == g = [status |-> g.status, tools |-> g.tools, autoConfirm |-> g.autoConfirm,
                   lease |-> g.lease]

GrantsFormed ==
  /\ registered = [grants |-> registered.grants, widgets |-> registered.widgets]
  /\ registered.grants = [c \in Conns |-> registered.grants[c]]
  /\ \A c \in Conns : IsGrant(registered.grants[c])
  /\ clicked = [c \in Conns |-> clicked[c]]

\* A decision is about a widget, or takes a grant back, or gives the tools that were
\* ticked in its row.
IsDecision(d) ==
  \/ d.decision \in {"approved", "rejected", "revoked"}
  \/ d.decision = "granted" /\ d.tools = d.seen

DecisionsTicked == \E S : decided \in Seq(S) /\ \A d \in S : IsDecision(d)

ApprovalInv == GrantsFormed /\ DecisionsTicked /\ GrantsOnlyTicked

\* One more decision.
LEMMA DecisionAdded ==
  ASSUME DecisionsTicked, NEW e, IsDecision(e), decided' = Append(decided, e)
  PROVE  DecisionsTicked'
<1>1. PICK S : decided \in Seq(S) /\ \A d \in S : IsDecision(d)
  BY DEF DecisionsTicked
<1>2. decided' \in Seq(S \cup {e})
  <2>1. decided \in Seq(S \cup {e})
    BY <1>1
  <2> QED
    BY <2>1
<1>3. \A d \in S \cup {e} : IsDecision(d)
  BY <1>1
<1> QED
  BY <1>2, <1>3 DEF DecisionsTicked

\* What the next decision is, and what is left.
LEMMA DecisionTaken ==
  ASSUME DecisionsTicked, decided # << >>, decided' = Tail(decided)
  PROVE  IsDecision(Head(decided)) /\ DecisionsTicked'
<1>1. PICK S : decided \in Seq(S) /\ \A d \in S : IsDecision(d)
  BY DEF DecisionsTicked
<1>2. Head(decided) \in S /\ decided' \in Seq(S)
  BY <1>1
<1> QED
  BY <1>1, <1>2 DEF DecisionsTicked

\* A decision leaves a grant as it was, or takes it back, or gives of what is asked for
\* by now the tools that were ticked.
LEMMA HostDecidesInv ==
  ASSUME ApprovalInv, HostDecides
  PROVE  ApprovalInv'
<1> DEFINE d == Head(decided)  grant == registered.grants[d.id]
           given == [status |-> "granted", tools |-> GrantedTools(grant, d),
                     autoConfirm |-> d.autoConfirm, lease |-> d.lease]
<1>1. IsDecision(d) /\ DecisionsTicked'
  BY DecisionTaken DEF HostDecides, ApprovalInv
<1>2. CASE d.decision \in {"approved", "rejected"}
  <2>1. registered' = [registered EXCEPT !.widgets[d.id] = d.decision] /\ clicked' = clicked
    BY <1>2 DEF HostDecides
  <2>2. registered'.grants = registered.grants /\ GrantsFormed'
    BY <2>1 DEF ApprovalInv, GrantsFormed, IsGrant
  <2> QED
    BY <1>1, <2>1, <2>2 DEF ApprovalInv, GrantsOnlyTicked
<1>3. CASE d.decision = "revoked"
  <2>1. registered' = [registered EXCEPT !.grants[d.id] = Revoked(grant)] /\ clicked' = clicked
    BY <1>3 DEF HostDecides
  <2>2. /\ registered' = [grants |-> [c \in Conns |-> IF c = d.id THEN Revoked(grant)
                                                      ELSE registered.grants[c]],
                          widgets |-> registered.widgets]
    BY <2>1 DEF ApprovalInv, GrantsFormed
  <2>3. d.id \in Conns => IsGrant(Revoked(grant)) /\ Revoked(grant).status = "revoked"
    BY DEF IsGrant, Revoked
  <2>4. GrantsFormed'
    BY <2>1, <2>2, <2>3 DEF ApprovalInv, GrantsFormed
  <2> QED
    BY <1>1, <2>1, <2>2, <2>3, <2>4 DEF ApprovalInv, GrantsOnlyTicked
<1>4. CASE d.decision = "granted" /\ ~ d.autoConfirm \subseteq GrantedTools(grant, d)
  BY <1>1, <1>4 DEF HostDecides, ApprovalInv, GrantsFormed, GrantsOnlyTicked, IsGrant
<1>5. CASE d.decision = "granted" /\ d.autoConfirm \subseteq GrantedTools(grant, d)
  <2>1. /\ registered' = [registered EXCEPT !.grants[d.id] = given]
        /\ clicked' = [clicked EXCEPT ![d.id] = d.seen]
    BY <1>5 DEF HostDecides
  <2>2. /\ registered' = [grants |-> [c \in Conns |-> IF c = d.id THEN given
                                                      ELSE registered.grants[c]],
                          widgets |-> registered.widgets]
        /\ clicked' = [c \in Conns |-> IF c = d.id THEN d.seen ELSE clicked[c]]
    BY <2>1 DEF ApprovalInv, GrantsFormed
  <2>3. IsGrant(given) /\ d.tools = d.seen
    BY <1>1, <1>5 DEF IsGrant, IsDecision
  <2>4. GrantsFormed'
    BY <2>2, <2>3 DEF ApprovalInv, GrantsFormed
  <2>5. d.seen # All => given.tools \subseteq d.seen /\ given.autoConfirm \subseteq given.tools
    BY <1>5, <2>3 DEF GrantedTools
  <2> HIDE DEF given
  <2> QED
    BY <1>1, <2>2, <2>4, <2>5 DEF ApprovalInv, GrantsOnlyTicked
<1> QED
  BY <1>1, <1>2, <1>3, <1>4, <1>5 DEF IsDecision

\* What is asked for anew is not granted.
LEMMA AskedAnew ==
  ASSUME ApprovalInv, NEW c \in Conns, NEW tools,
         registered' = [registered EXCEPT !.grants[c] = Ask(tools)],
         UNCHANGED <<decided, clicked>>
  PROVE  ApprovalInv'
<1>1. registered' = [grants |-> [b \in Conns |-> IF b = c THEN Ask(tools)
                                                 ELSE registered.grants[b]],
                     widgets |-> registered.widgets]
  BY DEF ApprovalInv, GrantsFormed
<1>2. IsGrant(Ask(tools)) /\ Ask(tools).status = "requested"
  BY DEF IsGrant, Ask
<1>3. GrantsFormed'
  BY <1>1, <1>2 DEF ApprovalInv, GrantsFormed
<1> QED
  BY <1>1, <1>2, <1>3 DEF ApprovalInv, DecisionsTicked, GrantsOnlyTicked

LEMMA ApprovalInitial == ApprovalInit => ApprovalInv
<1> SUFFICES ASSUME ApprovalInit PROVE ApprovalInv
  OBVIOUS
<1>1. \A c \in Conns : /\ registered.grants[c] = Ask(FirstAsk[c])
                       /\ IsGrant(Ask(FirstAsk[c])) /\ Ask(FirstAsk[c]).status = "requested"
  BY DEF ApprovalInit, IsGrant, Ask
<1>2. GrantsFormed
  BY <1>1 DEF ApprovalInit, GrantsFormed
<1>3. decided \in Seq({}) /\ \A d \in {} : IsDecision(d)
  BY DEF ApprovalInit
<1> QED
  BY <1>1, <1>2, <1>3 DEF ApprovalInv, GrantsOnlyTicked, DecisionsTicked

LEMMA ApprovalStep == ApprovalInv /\ [ApprovalNext]_approvalVars => ApprovalInv'
<1> SUFFICES ASSUME ApprovalInv, [ApprovalNext]_approvalVars PROVE ApprovalInv'
  OBVIOUS
<1> USE DEF ApprovalInv
<1>1. ASSUME UNCHANGED <<registered, decided, clicked>>
      PROVE  ApprovalInv'
  BY <1>1 DEF GrantsFormed, DecisionsTicked, GrantsOnlyTicked
<1>2. ASSUME NEW e, IsDecision(e), decided' = Append(decided, e), UNCHANGED <<registered, clicked>>
      PROVE  ApprovalInv'
  BY <1>2, DecisionAdded DEF GrantsFormed, GrantsOnlyTicked
<1>3. CASE UNCHANGED approvalVars
  BY <1>1, <1>3 DEF approvalVars
<1>4. CASE Render
  BY <1>1, <1>4 DEF Render
<1>5. CASE HostDecides
  BY <1>5, HostDecidesInv
<1>6. CASE AgentAsks
  <2>1. PICK c \in Conns, tool \in ToolIds :
             registered' = [registered EXCEPT !.grants[c] = Ask(@.tools \cup {tool})]
    BY <1>6 DEF AgentAsks
  <2> QED
    BY <1>6, <2>1, AskedAnew DEF AgentAsks
<1>7. CASE LeaseLapses
  <2>1. PICK c \in Conns : registered' = [registered EXCEPT !.grants[c] = Ask(@.tools)]
    BY <1>7 DEF LeaseLapses
  <2> QED
    BY <1>7, <2>1, AskedAnew DEF LeaseLapses
<1>8. ASSUME NEW i \in DOMAIN Rows, Approve(i)
      PROVE  ApprovalInv'
  <2> DEFINE granted == [id |-> Rows[i].id, decision |-> "granted", tools |-> ToolsDecided(i),
               autoConfirm |-> AlwaysTicked(i) \cap TickedTools(i), lease |-> cells[i].ttl,
               seen |-> IF Rows[i].tools = <<>> THEN All ELSE TickedTools(i)]
             approved == [id |-> Rows[i].id, decision |-> "approved"]
  <2>1. IsDecision(granted) /\ IsDecision(approved)
    BY DEF IsDecision, ToolsDecided
  <2>2. decided' = Append(decided, IF Rows[i].kind = "widget" THEN approved ELSE granted)
    BY <1>8 DEF Approve
  <2> HIDE DEF granted, approved
  <2> QED
    BY <1>2, <1>8, <2>1, <2>2 DEF Approve
<1>9. ASSUME NEW i \in DOMAIN Rows, Deny(i)
      PROVE  ApprovalInv'
  <2> DEFINE e == [id |-> Rows[i].id,
                   decision |-> IF Rows[i].kind = "widget" THEN "rejected" ELSE "revoked"]
  <2>1. IsDecision(e)
    BY DEF IsDecision
  <2>2. decided' = Append(decided, e)
    BY <1>9 DEF Deny
  <2> HIDE DEF e
  <2> QED
    BY <1>2, <1>9, <2>1, <2>2 DEF Deny
<1>10. ASSUME NEW i \in DOMAIN Rows, TypeLease(i)
       PROVE  ApprovalInv'
  BY <1>1, <1>10 DEF TypeLease
<1>11. ASSUME NEW i \in DOMAIN Rows, NEW j \in DOMAIN Rows[i].tools,
              TickTool(i, j) \/ TickAlways(i, j)
       PROVE  ApprovalInv'
  BY <1>1, <1>11 DEF TickTool, TickAlways
<1> QED
  BY <1>3, <1>4, <1>5, <1>6, <1>7, <1>8, <1>9, <1>10, <1>11 DEF ApprovalNext

\* "unticking all grants nothing, never approve-all" and "a stale tick never leaks
\* through": whatever rows, boxes, requests, leases and decisions come and go, and in
\* whichever order, a grant holds no tool that its approval did not tick.
THEOREM GrantsOnlyTickedHolds == ApprovalSpec => []GrantsOnlyTicked
<1>1. ApprovalInv => GrantsOnlyTicked
  BY DEF ApprovalInv
<1> QED
  BY <1>1, ApprovalInitial, ApprovalStep, PTL DEF ApprovalSpec

-----------------------------------------------------------------------------
(***************************************************************************)
(* Presence                                                                *)
(*                                                                         *)
(* What is shown was recorded less than one lifetime before it was         *)
(* rendered, and the timer is due at most one poll after that: until then  *)
(* nobody on the screen is older than one lifetime and one poll.           *)
(***************************************************************************)
\* What a page keeps.
PageState ==
  [doc : Boards, in : BOOLEAN, connected : BOOLEAN, foreground : BOOLEAN, timer : Int,
   active : Slugs \cup {NoTab}, announced : Slugs \cup {NoTab}, entries : [Operators -> Entry],
   self : Operators \cup {NoOperator}, awaiting : Slugs \cup {NoTab},
   folded : SUBSET {"user", "agent"}, screen : SUBSET (Operators \X Slugs), skipped : BOOLEAN]

PresenceTypeOK ==
  /\ board \in Boards /\ now \in Nat
  /\ page \in [Pages -> PageState]
  /\ pings \in [Pages -> Seq(Slugs)]
  /\ viewed \in [Operators -> [Slugs -> Int]]

\* A timer that runs is of a page that is shown and connected, and due within a poll.
TimerSound(r) ==
  r.timer # NoTimer => r.in /\ r.connected /\ now <= r.timer /\ r.timer <= now + PollInterval

\* What a page recorded of an operator is no later than the last the server said.
RecordSound(r, w) ==
  \A o \in Operators : r.entries[o].slug # NoTab =>
    /\ w[o][r.entries[o].slug] # Never
    /\ r.entries[o].at <= w[o][r.entries[o].slug]
    /\ w[o][r.entries[o].slug] <= now

\* What is shown lasts until the next tick, if that is not skipped.
ScreenSound(r, w) ==
  r.timer # NoTimer /\ ~ r.skipped =>
    \A v \in r.screen : /\ w[v[1]][v[2]] # Never
                        /\ r.timer < w[v[1]][v[2]] + TTL + PollInterval

\* One place each, on the strip of a document with a tab in view.
ViewSound(r) ==
  /\ \A u, v \in r.screen : u[1] = v[1] => u = v
  /\ r.doc # << >> => IsSlug(r.doc, r.active)
  /\ r.timer # NoTimer /\ r.active # NoTab => r.announced = r.active

PageSound(r, w) == TimerSound(r) /\ RecordSound(r, w) /\ ScreenSound(r, w) /\ ViewSound(r)

PresenceInv == PresenceTypeOK /\ \A p \in Pages : PageSound(page[p], viewed)

\* The tab of a document that is in view is a tab of it, whatever was asked for.
LEMMA ActiveShown ==
  ASSUME NEW b \in Boards, NEW s
  PROVE  /\ b # << >> => IsSlug(b, ActiveSlug(b, s))
         /\ s \in Slugs \cup {NoTab} => ActiveSlug(b, s) \in Slugs \cup {NoTab}
<1>1. b \in Seq(Tab) /\ DOMAIN b = 1..Len(b) /\ Len(b) \in Nat /\ \A i \in DOMAIN b : b[i] \in Tab
  BY BoardsAssumption
<1>2. \A i \in DOMAIN b : b[i].slug \in Slugs
  BY <1>1 DEF Tab
<1>3. CASE IsSlug(b, s)
  BY <1>2, <1>3 DEF ActiveSlug, IsSlug
<1>4. CASE ~ IsSlug(b, s) /\ VisibleTabs(b) # {}
  <2> DEFINE visible == {i \in DOMAIN b : ~b[i].hidden}
  <2>1. visible \in SUBSET Nat /\ visible # {}
    BY <1>1, <1>4 DEF VisibleTabs, Range
  <2>2. PICK i \in visible : \A j \in visible : i <= j
    BY <2>1, NatMin
  <2>3. i \in DOMAIN b /\ ~b[i].hidden /\ \A j \in DOMAIN b : j < i => b[j].hidden
    BY <1>1, <2>2
  <2>4. \E k \in DOMAIN b : FirstVisible(b) = b[k]
    BY <2>3 DEF FirstVisible
  <2> QED
    BY <1>2, <1>4, <2>4 DEF ActiveSlug, IsSlug
<1>5. CASE ~ IsSlug(b, s) /\ VisibleTabs(b) = {}
  <2>1. b # << >> => 1 \in DOMAIN b
    BY <1>1
  <2> QED
    BY <1>2, <1>5, <2>1 DEF ActiveSlug, IsSlug
<1> QED
  BY <1>3, <1>4, <1>5

\* What pruning leaves is not stale.
LEMMA PrunedFresh ==
  ASSUME PresenceTypeOK, NEW entries \in [Operators -> Entry]
  PROVE  /\ Pruned(entries) \in [Operators -> Entry]
         /\ \A o \in Operators : Pruned(entries)[o].slug # NoTab =>
              Pruned(entries)[o] = entries[o] /\ now < entries[o].at + TTL
  BY PresenceAssumption DEF Pruned, NoEntry, Entry, PresenceTypeOK

\* Whom a rendering shows said so within one TTL, and nowhere else since.
LEMMA ScreenFresh ==
  ASSUME PresenceTypeOK, NEW r \in PageState
  PROVE  /\ Screen(r) \subseteq Operators \X Slugs
         /\ \A v \in Screen(r) : /\ v[1] \in Operators /\ v[2] \in Slugs
                                 /\ r.entries[v[1]].slug = v[2]
                                 /\ now < r.entries[v[1]].at + TTL
<1>1. \A t \in Buttons(r.doc, r.folded) : t.slug \in Slugs
  <2>1. r.doc \in Seq(Tab)
    BY BoardsAssumption DEF PageState
  <2>2. \A i \in DOMAIN r.doc : r.doc[i] \in Tab
    BY <2>1
  <2> QED
    BY <2>2 DEF Buttons, VisibleTabs, Range, Tab
<1>2. ASSUME NEW v \in Screen(r)
      PROVE  /\ v \in Operators \X Slugs /\ v[1] \in Operators /\ v[2] \in Slugs
             /\ r.entries[v[1]].slug = v[2] /\ now < r.entries[v[1]].at + TTL
  <2>1. PICK t \in Buttons(r.doc, r.folded) : v \in Viewers(r, t.slug) \X {t.slug}
    BY DEF Screen
  <2>2. PICK o \in Viewers(r, t.slug) : v = <<o, t.slug>>
    BY <2>1
  <2>3. o \in Operators /\ Pruned(r.entries)[o].slug = t.slug /\ t.slug \in Slugs
    BY <1>1, <2>2 DEF Viewers
  <2>4. r.entries \in [Operators -> Entry] /\ t.slug # NoTab
    BY <2>3, PresenceAssumption DEF PageState
  <2> QED
    BY <2>2, <2>3, <2>4, PrunedFresh
<1> QED
  BY <1>2

\* What a rendering makes of a page.
LEMMA RenderedParts ==
  ASSUME NEW r \in PageState, now \in Nat
  PROVE  /\ Rendered(r).doc = r.doc /\ Rendered(r).in = r.in
         /\ Rendered(r).connected = r.connected /\ Rendered(r).foreground = r.foreground
         /\ Rendered(r).active = r.active /\ Rendered(r).self = r.self
         /\ Rendered(r).folded = r.folded
         /\ Rendered(r).announced = IF Announces(r) THEN r.active ELSE r.announced
         /\ Rendered(r).awaiting \in {r.active, r.awaiting}
         /\ Rendered(r).timer = IF ~r.connected THEN NoTimer
                                ELSE IF r.timer = NoTimer THEN now + PollInterval ELSE r.timer
         /\ Rendered(r).entries = Pruned(r.entries)
         /\ Rendered(r).screen = Screen(r)
         /\ Rendered(r).skipped = FALSE
         /\ Rendered(r) = [r EXCEPT !.timer = Rendered(r).timer, !.announced = Rendered(r).announced,
              !.entries = Rendered(r).entries, !.awaiting = Rendered(r).awaiting,
              !.screen = Rendered(r).screen, !.skipped = FALSE]
<1> DEFINE a == IF Announces(r) THEN Pinged([r EXCEPT !.announced = r.active]) ELSE r
<1>1. /\ a \in PageState
      /\ a.doc = r.doc /\ a.in = r.in /\ a.connected = r.connected
      /\ a.foreground = r.foreground /\ a.active = r.active /\ a.self = r.self
      /\ a.folded = r.folded /\ a.timer = r.timer /\ a.entries = r.entries
      /\ a.announced = IF Announces(r) THEN r.active ELSE r.announced
      /\ a.awaiting \in {r.active, r.awaiting}
  BY ZenonT(60) DEF PageState, Pinged
<1>4. a = [r EXCEPT !.announced = a.announced, !.awaiting = a.awaiting]
  BY DEF PageState, Pinged
<1>2. Screen(a) = Screen(r)
  BY <1>1 DEF Screen, Viewers
<1> HIDE DEF a
<1>3. Rendered(r) = [a EXCEPT !.timer = CASE ~r.connected -> NoTimer
                              [] r.connected /\ @ = NoTimer -> now + PollInterval
                              [] OTHER -> @,
                  !.entries = Pruned(@),
                  !.screen = Screen(a),
                  !.skipped = FALSE]
  BY DEF Rendered, a
<1>5. Rendered(r) = [a EXCEPT !.timer = Rendered(r).timer, !.entries = Rendered(r).entries,
                              !.screen = Rendered(r).screen, !.skipped = FALSE]
  BY <1>1, <1>3 DEF PageState
<1>6. /\ Rendered(r).announced = a.announced /\ Rendered(r).awaiting = a.awaiting
      /\ Rendered(r).skipped = FALSE
  BY <1>1, <1>3 DEF PageState
<1>7. Rendered(r) = [r EXCEPT !.timer = Rendered(r).timer, !.announced = Rendered(r).announced,
              !.entries = Rendered(r).entries, !.awaiting = Rendered(r).awaiting,
              !.screen = Rendered(r).screen, !.skipped = FALSE]
  BY <1>4, <1>5, <1>6 DEF PageState
<1>8. /\ Rendered(r).doc = r.doc /\ Rendered(r).in = r.in
      /\ Rendered(r).connected = r.connected /\ Rendered(r).foreground = r.foreground
      /\ Rendered(r).active = r.active /\ Rendered(r).self = r.self
      /\ Rendered(r).folded = r.folded
  BY <1>7 DEF PageState
<1>9. /\ Rendered(r).timer = IF ~r.connected THEN NoTimer
                                ELSE IF r.timer = NoTimer THEN now + PollInterval ELSE r.timer
      /\ Rendered(r).entries = Pruned(r.entries)
      /\ Rendered(r).screen = Screen(r)
  BY <1>1, <1>2, <1>3 DEF PageState
<1> QED
  BY <1>1, <1>6, <1>7, <1>8, <1>9
\* A page that renders is sound.
LEMMA RenderedSound ==
  ASSUME PresenceTypeOK, NEW r \in PageState, NEW w \in [Operators -> [Slugs -> Int]],
         r.in, RecordSound(r, w), r.doc # << >> => IsSlug(r.doc, r.active),
         r.timer # NoTimer => now <= r.timer /\ r.timer <= now + PollInterval
  PROVE  Rendered(r) \in PageState /\ PageSound(Rendered(r), w)
<1> DEFINE q == Rendered(r)
<1>1. /\ now \in Nat /\ TTL \in Nat \ {0} /\ PollInterval \in Nat \ {0} /\ NoTab \notin Slugs
      /\ r.timer \in Int /\ r.connected \in BOOLEAN /\ NoTimer = -1
      /\ r.announced \in Slugs \cup {NoTab} /\ r.active \in Slugs \cup {NoTab}
      /\ r.awaiting \in Slugs \cup {NoTab}
  BY PresenceAssumption DEF PresenceTypeOK, PageState, NoTimer
<1>2. /\ q.doc = r.doc /\ q.in = r.in /\ q.connected = r.connected /\ q.active = r.active
      /\ q.announced = IF Announces(r) THEN r.active ELSE r.announced
      /\ q.timer = IF ~r.connected THEN NoTimer
                   ELSE IF r.timer = NoTimer THEN now + PollInterval ELSE r.timer
      /\ q.entries = Pruned(r.entries) /\ q.screen = Screen(r) /\ q.skipped = FALSE
  BY <1>1, RenderedParts
<1>3. Rendered(r) \in PageState
  <2>1. q.timer \in Int /\ q.announced \in Slugs \cup {NoTab}
    BY <1>1, <1>2
  <2>5. q.awaiting \in Slugs \cup {NoTab}
    <3>1. q.awaiting \in {r.active, r.awaiting}
      BY <1>1, RenderedParts
    <3> HIDE DEF q
    <3> QED
      BY <1>1, <3>1
  <2>2. q.entries \in [Operators -> Entry] /\ q.screen \in SUBSET (Operators \X Slugs)
    BY ZenonT(60), <1>2, PrunedFresh, ScreenFresh DEF PageState
  <2>3. q = [r EXCEPT !.timer = q.timer, !.announced = q.announced,
              !.entries = q.entries, !.awaiting = q.awaiting,
              !.screen = q.screen, !.skipped = FALSE]
    BY <1>1, RenderedParts
  <2> HIDE DEF q
  <2>4. q \in PageState
    BY ZenonT(60), <2>1, <2>2, <2>3, <2>5 DEF PageState
  <2> QED
    BY <2>4 DEF q
<1> HIDE DEF q
<1>4. TimerSound(q)
  <2>1. q.timer = NoTimer \/ (q.connected /\ now <= q.timer /\ q.timer <= now + PollInterval)
    <3>1. CASE ~ r.connected
      BY <1>2, <3>1
    <3>2. CASE r.connected /\ r.timer = NoTimer
      <4>1. q.timer = now + PollInterval /\ q.connected
        BY <1>2, <3>2
      <4>2. now <= now + PollInterval /\ now + PollInterval <= now + PollInterval
        BY <1>1
      <4> QED
        BY <4>1, <4>2
    <3>3. CASE r.connected /\ r.timer # NoTimer
      BY <1>2, <3>3
    <3> QED
      BY <3>1, <3>2, <3>3
  <2> QED
    <3>1. q.in
      <4>1. r.in = TRUE
        BY DEF PageState
      <4> QED
        BY <1>2, <4>1
    <3> QED
      BY <2>1, <3>1 DEF TimerSound
<1>5. RecordSound(q, w)
  <2>1. r.entries \in [Operators -> Entry]
    BY DEF PageState
  <2>2. \A o \in Operators : q.entries[o].slug # NoTab => q.entries[o] = r.entries[o]
    BY <1>2, <2>1, PrunedFresh
  <2> QED
    BY <2>2 DEF RecordSound
<1>6. ScreenSound(q, w)
  <2> SUFFICES ASSUME q.timer # NoTimer, NEW v \in q.screen
               PROVE  w[v[1]][v[2]] # Never /\ q.timer < w[v[1]][v[2]] + TTL + PollInterval
    BY DEF ScreenSound
  <2>1. /\ v[1] \in Operators /\ v[2] \in Slugs /\ r.entries[v[1]].slug = v[2]
        /\ now < r.entries[v[1]].at + TTL
    BY <1>2, ScreenFresh
  <2>2. w[v[1]][v[2]] # Never /\ r.entries[v[1]].at <= w[v[1]][v[2]]
    BY <1>1, <2>1 DEF RecordSound
  <2>3. q.timer <= now + PollInterval /\ q.timer \in Int
    BY <1>1, <1>2 DEF PageState
  <2>4. w[v[1]][v[2]] \in Int /\ r.entries[v[1]].at \in Nat
    BY <2>1 DEF PageState, Entry
  <2> DEFINE said == w[v[1]][v[2]]  at == r.entries[v[1]].at  due == q.timer
  <2>5. /\ said # Never /\ at <= said /\ now < at + TTL /\ due <= now + PollInterval
        /\ said \in Int /\ at \in Nat /\ due \in Int
    BY <2>1, <2>2, <2>3, <2>4
  <2> HIDE DEF said, at, due
  <2>6. due < said + TTL + PollInterval
    BY <1>1, <2>5
  <2> QED
    BY <2>5, <2>6 DEF said, due
<1>7. ViewSound(q)
  <2>1. \A u, v \in q.screen : u[1] = v[1] => u = v
    <3>1. \A u \in q.screen : u \in Operators \X Slugs /\ r.entries[u[1]].slug = u[2]
      BY <1>2, ScreenFresh
    <3> QED
      BY <3>1
  <2> QED
    BY <1>2, <2>1 DEF ViewSound, Announces
<1> QED
  BY <1>3, <1>4, <1>5, <1>6, <1>7 DEF PageSound, q

\* Soundness speaks of the page, the clock and what was viewed.
LEMMA SoundKept ==
  ASSUME NEW r, NEW w, now' = now, PageSound(r, w)
  PROVE  PageSound(r, w)'
  BY DEF PageSound, TimerSound, RecordSound, ScreenSound, ViewSound, IsSlug

\* What a page asks when it renders.
LEMMA SentType ==
  ASSUME PresenceTypeOK, NEW p \in Pages, NEW r \in PageState
  PROVE  Sent(p, r) \in Seq(Slugs)
<1>1. pings[p] \in Seq(Slugs)
  BY DEF PresenceTypeOK
<1>2. Announces(r) => r.active \in Slugs
  BY DEF Announces, PageState
<1> QED
  BY <1>1, <1>2 DEF Sent

\* One page changes.
LEMMA OnePage ==
  ASSUME PresenceInv, NEW p \in Pages, NEW r \in PageState, PageSound(r, viewed),
         page' = [page EXCEPT ![p] = r], UNCHANGED <<board, viewed, now>>,
         pings' \in [Pages -> Seq(Slugs)]
  PROVE  PresenceInv'
<1>1. PresenceTypeOK'
  BY DEF PresenceInv, PresenceTypeOK
<1>2. ASSUME NEW q \in Pages
      PROVE  PageSound(page[q], viewed)'
  <2>1. PageSound(page'[q], viewed)
    BY DEF PresenceInv, PresenceTypeOK
  <2> QED
    BY <2>1 DEF PageSound, TimerSound, RecordSound, ScreenSound, ViewSound, IsSlug
<1> QED
  BY <1>1, <1>2 DEF PresenceInv

\* One page changes and renders.
LEMMA OneRenders ==
  ASSUME PresenceInv, NEW p \in Pages, NEW r \in PageState,
         r.in, RecordSound(r, viewed), r.doc # << >> => IsSlug(r.doc, r.active),
         r.timer # NoTimer => now <= r.timer /\ r.timer <= now + PollInterval,
         page' = [page EXCEPT ![p] = Rendered(r)], UNCHANGED <<board, viewed, now>>,
         pings' \in [Pages -> Seq(Slugs)]
  PROVE  PresenceInv'
<1>1. Rendered(r) \in PageState /\ PageSound(Rendered(r), viewed)
  BY RenderedSound DEF PresenceInv, PresenceTypeOK
<1> QED
  BY <1>1, OnePage

\* A ping is recorded, and the server has said it.
LEMMA RecordedSound ==
  ASSUME PresenceTypeOK, NEW r \in PageState, PageSound(r, viewed),
         NEW o \in Operators, NEW s \in Slugs,
         NEW w, w = [viewed EXCEPT ![o][s] = now]
  PROVE  /\ w \in [Operators -> [Slugs -> Int]]
         /\ PageSound(r, w)
         /\ Recorded(r, o, s) \in PageState
         /\ PageSound(Recorded(r, o, s), w)
<1> DEFINE q == Recorded(r, o, s)
<1>1. /\ now \in Nat /\ TTL \in Nat \ {0} /\ PollInterval \in Nat \ {0} /\ NoTab \notin Slugs
      /\ viewed \in [Operators -> [Slugs -> Int]] /\ Never = -1
      /\ r.entries \in [Operators -> Entry] /\ r.timer \in Int
  BY PresenceAssumption DEF PresenceTypeOK, PageState, Never
<1>2. w \in [Operators -> [Slugs -> Int]]
  BY <1>1
<1>3. \A a \in Operators, t \in Slugs :
         w[a][t] = IF a = o /\ t = s THEN now ELSE viewed[a][t]
  BY <1>1
<1>4. ScreenSound(r, w)
  <2> SUFFICES ASSUME r.timer # NoTimer, ~ r.skipped, NEW v \in r.screen
               PROVE  w[v[1]][v[2]] # Never /\ r.timer < w[v[1]][v[2]] + TTL + PollInterval
    BY DEF ScreenSound
  <2>1. v[1] \in Operators /\ v[2] \in Slugs
    BY DEF PageState
  <2>2. viewed[v[1]][v[2]] # Never /\ r.timer < viewed[v[1]][v[2]] + TTL + PollInterval
    BY DEF PageSound, ScreenSound
  <2>3. r.timer <= now + PollInterval
    BY DEF PageSound, TimerSound
  <2>4. CASE v[1] = o /\ v[2] = s
    <3> DEFINE due == r.timer  since == w[v[1]][v[2]]
    <3>1. since = now /\ due \in Int /\ due <= now + PollInterval
      BY <1>1, <1>3, <2>1, <2>3, <2>4
    <3> HIDE DEF due, since
    <3>2. since # Never /\ due < since + TTL + PollInterval
      BY <1>1, <3>1
    <3> QED
      BY <3>2 DEF due, since
  <2>5. CASE ~ (v[1] = o /\ v[2] = s)
    BY <1>3, <2>1, <2>2, <2>5
  <2> QED
    BY <2>4, <2>5
<1>5. RecordSound(r, w)
  <2> SUFFICES ASSUME NEW a \in Operators, r.entries[a].slug # NoTab
               PROVE  /\ w[a][r.entries[a].slug] # Never
                      /\ r.entries[a].at <= w[a][r.entries[a].slug]
                      /\ w[a][r.entries[a].slug] <= now
    BY DEF RecordSound
  <2>1. r.entries[a].slug \in Slugs /\ r.entries[a].at \in Nat
    BY <1>1 DEF Entry
  <2>2. /\ viewed[a][r.entries[a].slug] # Never
        /\ r.entries[a].at <= viewed[a][r.entries[a].slug]
        /\ viewed[a][r.entries[a].slug] <= now
    BY DEF PageSound, RecordSound
  <2>3. viewed[a][r.entries[a].slug] \in Int
    BY <1>1, <2>1
  <2>4. CASE a = o /\ r.entries[a].slug = s
    <3>1. w[a][r.entries[a].slug] = now
      BY <1>3, <2>1, <2>4
    <3>2. r.entries[a].at <= now
      BY <1>1, <2>1, <2>2, <2>3
    <3> QED
      BY <1>1, <3>1, <3>2
  <2>5. CASE ~ (a = o /\ r.entries[a].slug = s)
    BY <1>3, <2>1, <2>2, <2>5
  <2> QED
    BY <2>4, <2>5
<1>6. PageSound(r, w)
  BY <1>4, <1>5 DEF PageSound
<1> DEFINE said == [slug |-> s, at |-> now]
<1>7. /\ said \in Entry /\ said.slug = s /\ said.at = now
      /\ Pruned(r.entries) \in [Operators -> Entry]
  BY <1>1, PrunedFresh DEF Entry
<1> HIDE DEF said
<1>8. q \in PageState
  BY <1>7 DEF Recorded, PageState, said
<1>9. q.entries = [Pruned(r.entries) EXCEPT ![o] = said]
  BY DEF Recorded, PageState, said
<1>10. /\ q.timer = r.timer /\ q.in = r.in /\ q.connected = r.connected
       /\ q.skipped = r.skipped /\ q.screen = r.screen /\ q.doc = r.doc
       /\ q.active = r.active /\ q.announced = r.announced
  BY DEF Recorded, PageState
<1> HIDE DEF q
<1>11. RecordSound(q, w)
  <2> SUFFICES ASSUME NEW a \in Operators, q.entries[a].slug # NoTab
               PROVE  /\ w[a][q.entries[a].slug] # Never
                      /\ q.entries[a].at <= w[a][q.entries[a].slug]
                      /\ w[a][q.entries[a].slug] <= now
    BY DEF RecordSound
  <2>1. CASE a = o
    <3>1. q.entries[a] = said
      BY <1>7, <1>9, <2>1
    <3> QED
      BY <1>1, <1>3, <1>7, <2>1, <3>1
  <2>2. CASE a # o
    <3>1. q.entries[a] = Pruned(r.entries)[a]
      BY <1>7, <1>9, <2>2
    <3>2. q.entries[a] = r.entries[a]
      BY <1>1, <3>1, PrunedFresh
    <3> QED
      BY <1>5, <3>2 DEF RecordSound
  <2> QED
    BY <2>1, <2>2
<1>12. TimerSound(q) /\ ScreenSound(q, w) /\ ViewSound(q)
  BY <1>6, <1>10 DEF PageSound, TimerSound, ScreenSound, ViewSound
<1> QED
  BY <1>2, <1>6, <1>8, <1>11, <1>12 DEF PageSound, q

LEMMA PresenceInitial == PresenceInit => PresenceInv
<1> SUFFICES ASSUME PresenceInit PROVE PresenceInv
  OBVIOUS
<1>1. board \in Boards /\ now = 0 /\ \A p \in Pages : page[p] = NewPage(board)
  BY DEF PresenceInit
<1>2. /\ ActiveSlug(board, NoTab) \in Slugs \cup {NoTab}
      /\ board # << >> => IsSlug(board, ActiveSlug(board, NoTab))
  BY <1>1, ActiveShown
<1>3. NoEntry \in Entry /\ NoEntry.slug = NoTab /\ NoEntries \in [Operators -> Entry]
  BY DEF NoEntry, Entry, NoEntries
<1>4. NewPage(board) \in PageState
  BY <1>1, <1>2, <1>3 DEF NewPage, PageState, NoTimer
<1>5. PresenceTypeOK
  BY <1>1, <1>4 DEF PresenceInit, PresenceTypeOK, Never
<1>6. PageSound(NewPage(board), viewed)
  <2>1. \A o \in Operators : NewPage(board).entries[o].slug = NoTab
    BY <1>3 DEF NewPage, NoEntries
  <2> QED
    BY <1>2, <2>1 DEF PageSound, TimerSound, RecordSound, ScreenSound, ViewSound, NewPage
<1> QED
  BY <1>1, <1>5, <1>6 DEF PresenceInv

\* What is true of every page.
LEMMA OfPage ==
  ASSUME PresenceInv, NEW p \in Pages
  PROVE  /\ page[p] \in PageState /\ pings[p] \in Seq(Slugs)
         /\ RecordSound(page[p], viewed) /\ TimerSound(page[p])
         /\ ScreenSound(page[p], viewed) /\ ViewSound(page[p])
         /\ page[p].doc \in Boards /\ page[p].active \in Slugs \cup {NoTab}
         /\ page[p].timer \in Int
         /\ page[p].timer # NoTimer =>
              page[p].in /\ page[p].connected /\ now <= page[p].timer
              /\ page[p].timer <= now + PollInterval
         /\ page[p].doc # << >> => IsSlug(page[p].doc, page[p].active)
  BY DEF PresenceInv, PresenceTypeOK, PageSound, PageState, ViewSound, TimerSound

LEMMA FirstRenderInv ==
  ASSUME PresenceInv, NEW p \in Pages, FirstRender(p)
  PROVE  PresenceInv'
<1>1. Sent(p, page[p]) \in Seq(Slugs)
  BY OfPage, SentType DEF PresenceInv
<1> QED
  BY <1>1, OfPage, OneRenders DEF FirstRender, Renders, Elsewhere, PresenceInv, PresenceTypeOK

LEMMA SelectInv ==
  ASSUME PresenceInv, NEW p \in Pages, NEW s \in Slugs, Select(p, s)
  PROVE  PresenceInv'
<1> DEFINE r == [page[p] EXCEPT !.active = ActiveSlug(page[p].doc, s)]
<1>1. /\ ActiveSlug(page[p].doc, s) \in Slugs \cup {NoTab}
      /\ page[p].doc # << >> => IsSlug(page[p].doc, ActiveSlug(page[p].doc, s))
  BY OfPage, ActiveShown
<1>2. /\ r \in PageState /\ r.entries = page[p].entries /\ r.doc = page[p].doc
      /\ r.in = page[p].in /\ r.timer = page[p].timer
      /\ r.active = ActiveSlug(page[p].doc, s)
  BY <1>1, OfPage DEF PageState
<1>3. Renders(p, r) /\ page[p].in /\ UNCHANGED <<board, viewed, now>>
  BY DEF Select, Elsewhere
<1> HIDE DEF r
<1>4. RecordSound(r, viewed)
  BY <1>2, OfPage DEF RecordSound
<1>5. Sent(p, r) \in Seq(Slugs)
  BY <1>2, SentType DEF PresenceInv
<1>6. r.timer # NoTimer => now <= r.timer /\ r.timer <= now + PollInterval
  BY <1>2, OfPage
<1>7. r.in /\ (r.doc # << >> => IsSlug(r.doc, r.active))
  BY <1>1, <1>2, <1>3
<1>8. /\ page' = [page EXCEPT ![p] = Rendered(r)]
      /\ pings' \in [Pages -> Seq(Slugs)]
  BY <1>3, <1>5 DEF Renders, PresenceInv, PresenceTypeOK
<1> QED
  BY <1>2, <1>3, <1>4, <1>6, <1>7, <1>8, OneRenders

LEMMA ToggleGroupInv ==
  ASSUME PresenceInv, NEW p \in Pages, NEW g \in {"user", "agent"}, ToggleGroup(p, g)
  PROVE  PresenceInv'
<1> DEFINE folded == IF g \in page[p].folded THEN page[p].folded \ {g}
                     ELSE page[p].folded \cup {g}
           r == [page[p] EXCEPT !.folded = folded]
<1>1. folded \in SUBSET {"user", "agent"}
  BY OfPage DEF PageState
<1>2. Renders(p, r) /\ page[p].in /\ UNCHANGED <<board, viewed, now>>
  BY OfPage DEF ToggleGroup, Elsewhere, PageState
<1> HIDE DEF folded
<1>3. /\ r \in PageState /\ r.entries = page[p].entries /\ r.doc = page[p].doc
      /\ r.in = page[p].in /\ r.timer = page[p].timer /\ r.active = page[p].active
  BY <1>1, OfPage DEF PageState
<1> HIDE DEF r
<1>4. RecordSound(r, viewed)
  BY <1>3, OfPage DEF RecordSound
<1>5. Sent(p, r) \in Seq(Slugs)
  BY <1>3, SentType DEF PresenceInv
<1>6. r.timer # NoTimer => now <= r.timer /\ r.timer <= now + PollInterval
  BY <1>3, OfPage
<1>7. r.in /\ (r.doc # << >> => IsSlug(r.doc, r.active))
  BY <1>2, <1>3, OfPage
<1>8. /\ page' = [page EXCEPT ![p] = Rendered(r)]
      /\ pings' \in [Pages -> Seq(Slugs)]
  BY <1>2, <1>5 DEF Renders, PresenceInv, PresenceTypeOK
<1> QED
  BY <1>2, <1>3, <1>4, <1>6, <1>7, <1>8, OneRenders

LEMMA SwitchInv ==
  ASSUME PresenceInv, NEW p \in Pages, Switch(p)
  PROVE  PresenceInv'
<1> DEFINE r == [page[p] EXCEPT !.foreground = ~ page[p].foreground]
<1>1. page' = [page EXCEPT ![p] = r] /\ UNCHANGED <<board, viewed, now, pings>>
  BY OfPage DEF Switch, Elsewhere, PresenceInv, PresenceTypeOK, PageState
<1>2. /\ r \in PageState /\ r.entries = page[p].entries /\ r.doc = page[p].doc
      /\ r.in = page[p].in /\ r.timer = page[p].timer /\ r.active = page[p].active
      /\ r.screen = page[p].screen /\ r.skipped = page[p].skipped
      /\ r.connected = page[p].connected /\ r.announced = page[p].announced
  BY ZenonT(60), OfPage DEF PageState
<1> HIDE DEF r
<1>3. PageSound(r, viewed)
  BY ZenonT(60), <1>2, OfPage DEF PageSound, RecordSound, TimerSound, ScreenSound, ViewSound
<1> QED
  BY <1>1, <1>2, <1>3, OnePage DEF PresenceInv, PresenceTypeOK

LEMMA RelinkInv ==
  ASSUME PresenceInv, NEW p \in Pages, Relink(p)
  PROVE  PresenceInv'
<1> DEFINE r == [page[p] EXCEPT !.connected = ~ page[p].connected]
<1>1. /\ r \in PageState /\ r.entries = page[p].entries /\ r.doc = page[p].doc
      /\ r.in = page[p].in /\ r.timer = page[p].timer /\ r.active = page[p].active
  BY ZenonT(60), OfPage DEF PageState
<1>2. /\ page' = [page EXCEPT ![p] = Rendered(r)]
      /\ pings' = [pings EXCEPT ![p] = IF r.connected THEN Sent(p, r) ELSE << >>]
      /\ page[p].in /\ UNCHANGED <<board, viewed, now>>
  BY DEF Relink, Elsewhere
<1> HIDE DEF r
<1>3. RecordSound(r, viewed)
  BY <1>1, OfPage DEF RecordSound
<1>4. Sent(p, r) \in Seq(Slugs) /\ << >> \in Seq(Slugs)
  BY <1>1, SentType DEF PresenceInv
<1>5. pings' \in [Pages -> Seq(Slugs)]
  BY <1>2, <1>4 DEF PresenceInv, PresenceTypeOK
<1>6. r.timer # NoTimer => now <= r.timer /\ r.timer <= now + PollInterval
  BY <1>1, OfPage
<1>7. r.in /\ (r.doc # << >> => IsSlug(r.doc, r.active))
  BY <1>1, <1>2, OfPage
<1> QED
  BY <1>1, <1>2, <1>3, <1>5, <1>6, <1>7, OneRenders

LEMMA TakeOutInv ==
  ASSUME PresenceInv, NEW p \in Pages, TakeOut(p)
  PROVE  PresenceInv'
<1> DEFINE r == [page[p] EXCEPT !.in = FALSE, !.timer = NoTimer, !.self = NoOperator,
                               !.awaiting = NoTab, !.entries = NoEntries]
<1>1. page' = [page EXCEPT ![p] = r] /\ UNCHANGED <<board, viewed, now, pings>>
  BY OfPage DEF TakeOut, Elsewhere, PresenceInv, PresenceTypeOK, PageState
<1>2. NoEntries \in [Operators -> Entry] /\ \A o \in Operators : NoEntries[o].slug = NoTab
  BY DEF NoEntries, NoEntry, Entry
<1>3. /\ r \in PageState /\ r.entries = NoEntries /\ r.doc = page[p].doc
      /\ r.timer = NoTimer /\ r.active = page[p].active /\ r.screen = page[p].screen
  <2>1. NoTimer \in Int /\ page[p] \in PageState
    BY OfPage DEF NoTimer
  <2>2. /\ r.entries = NoEntries /\ r.doc = page[p].doc /\ r.timer = NoTimer
        /\ r.active = page[p].active /\ r.screen = page[p].screen
    BY <2>1 DEF PageState
  <2>3. r \in PageState
    BY <1>2, <2>1 DEF PageState
  <2> QED
    BY <2>2, <2>3
<1> HIDE DEF r
<1>4. PageSound(r, viewed)
  BY <1>2, <1>3, OfPage DEF PageSound, RecordSound, TimerSound, ScreenSound, ViewSound
<1> QED
  BY <1>1, <1>3, <1>4, OnePage DEF PresenceInv, PresenceTypeOK

LEMMA PutBackInv ==
  ASSUME PresenceInv, NEW p \in Pages, PutBack(p)
  PROVE  PresenceInv'
<1> DEFINE r == [page[p] EXCEPT !.in = TRUE, !.skipped = TRUE]
<1>1. page' = [page EXCEPT ![p] = r] /\ UNCHANGED <<board, viewed, now, pings>>
  BY OfPage DEF PutBack, Elsewhere, PresenceInv, PresenceTypeOK, PageState
<1>2. /\ r \in PageState /\ r.entries = page[p].entries /\ r.doc = page[p].doc
      /\ r.timer = page[p].timer /\ r.active = page[p].active /\ r.screen = page[p].screen
  BY ZenonT(60), OfPage DEF PageState
<1>3. page[p].timer = NoTimer
  BY OfPage DEF PutBack
<1> HIDE DEF r
<1>4. PageSound(r, viewed)
  BY <1>2, <1>3, OfPage DEF PageSound, RecordSound, TimerSound, ScreenSound, ViewSound
<1> QED
  BY <1>1, <1>2, <1>4, OnePage DEF PresenceInv, PresenceTypeOK

LEMMA EditInv ==
  ASSUME PresenceInv, NEW b \in Boards, Edit(b)
  PROVE  PresenceInv'
<1> DEFINE after(r) == [r EXCEPT !.doc = b, !.active = ActiveSlug(b, r.active)]
<1>1. ASSUME NEW p \in Pages, Hears(page[p])
      PROVE  /\ page'[p] = Rendered(after(page[p])) /\ page'[p] \in PageState
             /\ PageSound(page'[p], viewed)
             /\ Sent(p, after(page[p])) \in Seq(Slugs)
  <2> DEFINE r == after(page[p])
  <2>1. /\ ActiveSlug(b, page[p].active) \in Slugs \cup {NoTab}
        /\ b # << >> => IsSlug(b, ActiveSlug(b, page[p].active))
    BY OfPage, ActiveShown
  <2>2. /\ r \in PageState /\ r.entries = page[p].entries /\ r.doc = b
        /\ r.in = page[p].in /\ r.timer = page[p].timer
        /\ r.active = ActiveSlug(b, page[p].active)
    BY ZenonT(60), <2>1, OfPage DEF PageState
  <2>3. page'[p] = Rendered(r)
    BY <1>1, OfPage DEF Edit, PageState
  <2> HIDE DEF r
  <2>4. RecordSound(r, viewed)
    BY <2>2, OfPage DEF RecordSound
  <2>5. r.timer # NoTimer => now <= r.timer /\ r.timer <= now + PollInterval
    BY <2>2, OfPage
  <2>6. r.in /\ (r.doc # << >> => IsSlug(r.doc, r.active))
    BY <1>1, <2>1, <2>2 DEF Hears
  <2>7. viewed \in [Operators -> [Slugs -> Int]] /\ PresenceTypeOK
    BY DEF PresenceInv, PresenceTypeOK
  <2>8. Rendered(r) \in PageState /\ PageSound(Rendered(r), viewed) /\ Sent(p, r) \in Seq(Slugs)
    BY <2>2, <2>4, <2>5, <2>6, <2>7, RenderedSound, SentType
  <2> QED
    BY <2>3, <2>8 DEF r
<1>2. ASSUME NEW p \in Pages, ~ Hears(page[p])
      PROVE  page'[p] = page[p]
  BY <1>2 DEF Edit
<1>3. ASSUME NEW p \in Pages
      PROVE  page'[p] \in PageState /\ PageSound(page'[p], viewed)
  BY <1>1, <1>2, <1>3 DEF PresenceInv, PresenceTypeOK
<1>4. page' \in [Pages -> PageState]
  <2>1. DOMAIN page' = Pages /\ page' = [p \in Pages |-> page'[p]]
    BY DEF Edit
  <2> QED
    BY <1>3, <2>1
<1>5. pings' \in [Pages -> Seq(Slugs)]
  <2>1. pings' = [p \in Pages |-> IF Hears(page[p]) THEN Sent(p, after(page[p])) ELSE pings[p]]
    BY OfPage DEF Edit, PageState
  <2> QED
    BY <1>1, <2>1 DEF PresenceInv, PresenceTypeOK
<1>6. PresenceTypeOK'
  BY <1>4, <1>5 DEF Edit, PresenceInv, PresenceTypeOK
<1>7. ASSUME NEW p \in Pages
      PROVE  PageSound(page[p], viewed)'
  BY ZenonT(60), <1>3, <1>7 DEF Edit, PageSound, TimerSound, RecordSound, ScreenSound, ViewSound, IsSlug
<1> QED
  BY <1>6, <1>7 DEF PresenceInv

LEMMA AnswerInv ==
  ASSUME PresenceInv, NEW p \in Pages, Answer(p)
  PROVE  PresenceInv'
<1> DEFINE o == OperatorOf[p]  s == Head(pings[p])  w == [viewed EXCEPT ![o][s] = now]
<1>1. o \in Operators /\ s \in Slugs /\ Tail(pings[p]) \in Seq(Slugs)
  BY OfPage, PresenceAssumption DEF Answer
<1>2. viewed' = w /\ UNCHANGED <<board, now>> /\ pings' = [pings EXCEPT ![p] = Tail(@)]
  BY DEF Answer
<1>3. PICK rendering \in BOOLEAN :
         page' = [q \in Pages |->
                    IF ~(page[q].in /\ page[q].connected) THEN page[q]
                    ELSE IF rendering /\ Hears(page[q]) /\ ~Announces(page[q])
                         THEN Rendered(Recorded(page[q], o, s))
                         ELSE Recorded(page[q], o, s)]
  BY DEF Answer
<1> HIDE DEF o, s
<1>4. ASSUME NEW q \in Pages
      PROVE  page'[q] \in PageState /\ PageSound(page'[q], w)
  <2> DEFINE r == Recorded(page[q], o, s)
  <2>1. /\ w \in [Operators -> [Slugs -> Int]] /\ PageSound(page[q], w)
        /\ r \in PageState /\ PageSound(r, w)
    BY <1>1, OfPage, RecordedSound DEF PresenceInv
  <2>2. CASE ~(page[q].in /\ page[q].connected)
    BY <1>3, <2>1, <2>2, OfPage
  <2>3. CASE (page[q].in /\ page[q].connected) /\ rendering /\ Hears(page[q]) /\ ~Announces(page[q])
    <3>1. page'[q] = Rendered(r)
      BY <1>3, <2>3
    <3>2. r.in
      BY <2>3, OfPage DEF Recorded, PageState
    <3> HIDE DEF r, w
    <3>3. /\ RecordSound(r, w) /\ (r.doc # << >> => IsSlug(r.doc, r.active))
          /\ r.timer # NoTimer => now <= r.timer /\ r.timer <= now + PollInterval
      BY <2>1 DEF PageSound, ViewSound, TimerSound
    <3>4. Rendered(r) \in PageState /\ PageSound(Rendered(r), w)
      BY <2>1, <3>2, <3>3, RenderedSound DEF PresenceInv
    <3> QED
      BY <3>1, <3>4
  <2>4. CASE (page[q].in /\ page[q].connected) /\ ~ (rendering /\ Hears(page[q]) /\ ~Announces(page[q]))
    BY <1>3, <2>1, <2>4
  <2> QED
    BY <2>2, <2>3, <2>4
<1>5. page' \in [Pages -> PageState]
  <2>1. page' = [q \in Pages |-> page'[q]]
    BY <1>3
  <2> QED
    BY <1>4, <2>1
<1>6. w \in [Operators -> [Slugs -> Int]]
  BY <1>1 DEF PresenceInv, PresenceTypeOK
<1> HIDE DEF w
<1>7. PresenceTypeOK'
  BY <1>1, <1>2, <1>5, <1>6 DEF PresenceInv, PresenceTypeOK
<1>8. ASSUME NEW q \in Pages
      PROVE  PageSound(page[q], viewed)'
  BY <1>2, <1>4, <1>8 DEF PageSound, TimerSound, RecordSound, ScreenSound, ViewSound, IsSlug
<1> QED
  BY <1>7, <1>8 DEF PresenceInv

LEMMA TickInv ==
  ASSUME PresenceInv, NEW p \in Pages, Tick(p)
  PROVE  PresenceInv'
<1>1. /\ now \in Nat /\ PollInterval \in Nat \ {0} /\ TTL \in Nat \ {0}
      /\ page[p].timer = now /\ page[p].timer # NoTimer
      /\ page[p].in /\ page[p].connected /\ UNCHANGED <<board, viewed, now>>
  BY OfPage, PresenceAssumption DEF PresenceInv, PresenceTypeOK, Tick, Elsewhere, NoTimer
<1>2. CASE page[p].foreground
  <2> DEFINE r == [Pinged(page[p]) EXCEPT !.timer = now + PollInterval]
  <2>1. /\ r \in PageState /\ r.entries = page[p].entries /\ r.doc = page[p].doc
        /\ r.in = page[p].in /\ r.timer = now + PollInterval /\ r.active = page[p].active
    <3> DEFINE q == Pinged(page[p])  due == now + PollInterval
    <3>1. /\ q \in PageState /\ q.entries = page[p].entries /\ q.doc = page[p].doc
          /\ q.in = page[p].in /\ q.active = page[p].active
      BY OfPage DEF PageState, Pinged
    <3>2. due \in Int
      BY <1>1
    <3> HIDE DEF q, due
    <3>3. LET x == [q EXCEPT !.timer = due]
          IN  /\ x \in PageState /\ x.entries = q.entries /\ x.doc = q.doc
              /\ x.in = q.in /\ x.timer = due /\ x.active = q.active
      BY <3>1, <3>2 DEF PageState
    <3> QED
      BY <3>1, <3>3 DEF q, due
  <2>2. page' = [page EXCEPT ![p] = Rendered(r)]
    BY <1>2 DEF Tick, Ticked
  <2>3. pings' \in [Pages -> Seq(Slugs)]
    <3>1. pings' = [pings EXCEPT ![p] =
                      IF page[p].active # NoTab THEN Append(@, page[p].active) ELSE @]
      BY <1>2 DEF Tick
    <3>2. page[p].active # NoTab => Append(pings[p], page[p].active) \in Seq(Slugs)
      BY OfPage
    <3> QED
      BY <3>1, <3>2 DEF PresenceInv, PresenceTypeOK
  <2> HIDE DEF r
  <2>4. RecordSound(r, viewed)
    BY <2>1, OfPage DEF RecordSound
  <2>5. now <= r.timer /\ r.timer <= now + PollInterval
    BY <1>1, <2>1
  <2>6. r.in /\ (r.doc # << >> => IsSlug(r.doc, r.active))
    BY <1>1, <2>1, OfPage
  <2> QED
    BY <1>1, <2>1, <2>2, <2>3, <2>4, <2>5, <2>6, OneRenders
<1>3. CASE ~ page[p].foreground
  <2> DEFINE r == [page[p] EXCEPT !.timer = now + PollInterval, !.skipped = TRUE]
  <2>1. page' = [page EXCEPT ![p] = r] /\ pings' = pings
    BY <1>3, OfPage DEF Tick, PresenceInv, PresenceTypeOK, PageState
  <2>2. /\ r \in PageState /\ r.entries = page[p].entries /\ r.doc = page[p].doc
        /\ r.in = page[p].in /\ r.timer = now + PollInterval /\ r.active = page[p].active
        /\ r.screen = page[p].screen /\ r.skipped = TRUE
        /\ r.connected = page[p].connected /\ r.announced = page[p].announced
    <3> DEFINE q == page[p]  due == now + PollInterval
    <3>1. q \in PageState /\ due \in Int
      BY <1>1, OfPage
    <3> HIDE DEF q, due
    <3>2. LET x == [q EXCEPT !.timer = due, !.skipped = TRUE]
          IN  /\ x \in PageState /\ x.entries = q.entries /\ x.doc = q.doc
              /\ x.in = q.in /\ x.timer = due /\ x.active = q.active
              /\ x.screen = q.screen /\ x.skipped = TRUE
              /\ x.connected = q.connected /\ x.announced = q.announced
      BY <3>1 DEF PageState
    <3> QED
      BY <3>2 DEF q, due
  <2> HIDE DEF r
  <2>3. TimerSound(r) /\ ScreenSound(r, viewed)
    BY <1>1, <2>2 DEF TimerSound, ScreenSound
  <2>4. RecordSound(r, viewed) /\ ViewSound(r)
    BY <1>1, <2>2, OfPage DEF RecordSound, ViewSound
  <2> QED
    BY <1>1, <2>1, <2>2, <2>3, <2>4, OnePage DEF PageSound, PresenceInv, PresenceTypeOK
<1> QED
  BY <1>2, <1>3

LEMMA AdvanceInv ==
  ASSUME PresenceInv, Advance15s
  PROVE  PresenceInv'
<1>1. /\ now' = now + 1 /\ now \in Nat /\ PollInterval \in Nat \ {0}
      /\ UNCHANGED <<board, page, pings, viewed>>
  BY PresenceAssumption DEF Advance15s, PresenceInv, PresenceTypeOK
<1>2. PresenceTypeOK'
  BY <1>1 DEF PresenceInv, PresenceTypeOK
<1>3. ASSUME NEW p \in Pages
      PROVE  PageSound(page[p], viewed)'
  <2>1. page[p].timer \in Int /\ page[p].timer # now
    BY <1>3, OfPage DEF Advance15s
  <2>2. TimerSound(page[p])'
    BY <1>1, <1>3, <2>1, OfPage DEF TimerSound
  <2>3. RecordSound(page[p], viewed)'
    <3> SUFFICES ASSUME NEW o \in Operators, page[p].entries[o].slug # NoTab
                 PROVE  /\ viewed[o][page[p].entries[o].slug] # Never
                        /\ page[p].entries[o].at <= viewed[o][page[p].entries[o].slug]
                        /\ viewed[o][page[p].entries[o].slug] <= now + 1
      BY <1>1 DEF RecordSound
    <3>1. page[p].entries[o].slug \in Slugs
      BY <1>3, OfPage DEF PageState, Entry
    <3>2. viewed[o][page[p].entries[o].slug] \in Int
      BY <3>1 DEF PresenceInv, PresenceTypeOK
    <3>3. /\ viewed[o][page[p].entries[o].slug] # Never
          /\ page[p].entries[o].at <= viewed[o][page[p].entries[o].slug]
          /\ viewed[o][page[p].entries[o].slug] <= now
      BY <1>3, OfPage DEF RecordSound
    <3> QED
      BY <1>1, <3>2, <3>3
  <2>4. ScreenSound(page[p], viewed)' /\ ViewSound(page[p])'
    BY <1>1, <1>3, OfPage DEF ScreenSound, ViewSound, IsSlug
  <2> QED
    BY <2>2, <2>3, <2>4 DEF PageSound
<1> QED
  BY <1>2, <1>3 DEF PresenceInv

LEMMA PresenceStep == PresenceInv /\ [PresenceNext]_presenceVars => PresenceInv'
<1> SUFFICES ASSUME PresenceInv, [PresenceNext]_presenceVars PROVE PresenceInv'
  OBVIOUS
<1>1. CASE UNCHANGED presenceVars
  BY <1>1 DEF presenceVars, PresenceInv, PresenceTypeOK, PageSound, TimerSound, RecordSound,
              ScreenSound, ViewSound, IsSlug
<1>2. CASE Advance15s
  BY <1>2, AdvanceInv
<1>3. ASSUME NEW b \in Boards, Edit(b) PROVE PresenceInv'
  BY <1>3, EditInv
<1>4. ASSUME NEW p \in Pages, FirstRender(p) \/ Switch(p) \/ Relink(p) \/ TakeOut(p)
             \/ PutBack(p) \/ Answer(p) \/ Tick(p)
      PROVE  PresenceInv'
  BY <1>4, FirstRenderInv, SwitchInv, RelinkInv, TakeOutInv, PutBackInv, AnswerInv, TickInv
<1>5. ASSUME NEW p \in Pages, NEW s \in Slugs, Select(p, s) PROVE PresenceInv'
  BY <1>5, SelectInv
<1>6. ASSUME NEW p \in Pages, NEW g \in {"user", "agent"}, ToggleGroup(p, g) PROVE PresenceInv'
  BY <1>6, ToggleGroupInv
<1> QED
  BY <1>1, <1>2, <1>3, <1>4, <1>5, <1>6 DEF PresenceNext

\* For any pages, operators, boards and lengths of polls and lifetimes: a page that missed
\* no tick shows nobody at a tab longer than one lifetime and one poll after the server
\* last said so, nobody at two tabs, and has a tab of its document in view and announced.
THEOREM PresenceTrueHolds == PresenceSpec => []PresenceTrue
<1>1. PresenceInv => PresenceTrue
  <2> SUFFICES ASSUME PresenceInv PROVE PresenceTrue
    OBVIOUS
  <2>1. now \in Nat /\ PollInterval \in Nat /\ TTL \in Nat
    BY PresenceAssumption DEF PresenceInv, PresenceTypeOK
  <2>2. GhostsFade
    <3> SUFFICES ASSUME NEW p \in Pages, Hears(page[p]), ~ page[p].skipped,
                        NEW v \in page[p].screen
                 PROVE  /\ viewed[v[1]][v[2]] # Never
                        /\ now < viewed[v[1]][v[2]] + TTL + PollInterval
      BY DEF GhostsFade
    <3>1. /\ viewed[v[1]][v[2]] # Never
          /\ page[p].timer < viewed[v[1]][v[2]] + TTL + PollInterval
          /\ now <= page[p].timer /\ page[p].timer \in Int
      BY OfPage DEF Hears, ScreenSound
    <3>2. v[1] \in Operators /\ v[2] \in Slugs
      BY OfPage DEF PageState
    <3>3. viewed[v[1]][v[2]] \in Int
      BY <3>2 DEF PresenceInv, PresenceTypeOK
    <3> QED
      BY <2>1, <3>1, <3>3
  <2>3. OnePlaceEach
    BY OfPage DEF OnePlaceEach, ViewSound
  <2>4. InView
    BY OfPage DEF InView, ViewSound, Hears
  <2> QED
    BY <2>2, <2>3, <2>4 DEF PresenceTrue
<1> QED
  BY <1>1, PresenceInitial, PresenceStep, PTL DEF PresenceSpec
==============================================================================
