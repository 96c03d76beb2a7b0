---------------------------- MODULE StoreProofs ----------------------------
(***************************************************************************)
(* Proofs about Store, for every set of callers, connectors, widgets,      *)
(* tools and agents, every ring size, every order of the snapshot names    *)
(* (but the last, that the files are an undo stack, while the names sort   *)
(* like numbers); and about History, for every set of documents and bound. *)
(***************************************************************************)
EXTENDS Store, History, FiniteSetTheorems, WellFoundedInduction, TLAPS

(***************************************************************************)
(* The document functions stay within Doc                                  *)
(***************************************************************************)
LEMMA DefaultDocType == DefaultDoc \in Doc
  BY BodiesAssumption DEF DefaultDoc, Doc, NoGrant, Grant, GrantStatus, WidgetStatus

\* A re-pended grant is a grant with status requested.
LEMMA RePendedType ==
  ASSUME NEW g \in Grant
  PROVE  RePended(g) \in Grant /\ RePended(g).status = "requested"
  BY DEF RePended, Grant, GrantStatus

\* Sweeping expired widgets returns a document with the same registries.
LEMMA SweepEphemeralType ==
  ASSUME NEW d \in Doc, NEW now \in Nat
  PROVE  /\ SweepEphemeral(d, now) \in Doc
         /\ SweepEphemeral(d, now).grants = d.grants
         /\ SweepEphemeral(d, now).widgets = d.widgets
  <1> DEFINE kept == d.ephemerals \ ExpiredWidgets(d, now)
  <1>1. kept \in SUBSET Expiries /\ d.workspaceVersion + 1 \in Nat
    BY DEF Doc
  <1>2. \/ SweepEphemeral(d, now) = d
        \/ SweepEphemeral(d, now) = [d EXCEPT !.ephemerals = kept,
                                              !.workspaceVersion = d.workspaceVersion + 1]
    BY DEF SweepEphemeral, Doc
  <1> HIDE DEF kept
  <1> QED
    BY <1>1, <1>2 DEF Doc

\* Sweeping lapsed grants returns a document that changes no grant but to requested.
LEMMA SweepGrantsType ==
  ASSUME NEW d \in Doc, NEW now \in Nat
  PROVE  /\ SweepGrants(d, now) \in Doc
         /\ SweepGrants(d, now).widgets = d.widgets
         /\ \A n \in Connectors :
              \/ SweepGrants(d, now).grants[n] = d.grants[n]
              \/ SweepGrants(d, now).grants[n].status = "requested"
  <1>1. CASE LapsedGrants(d, now) = {}
    BY <1>1 DEF SweepGrants
  <1>2. CASE LapsedGrants(d, now) # {}
    <2> DEFINE swept == [n \in Connectors |-> IF n \in LapsedGrants(d, now)
                                              THEN RePended(d.grants[n]) ELSE d.grants[n]]
    <2>1. \A n \in Connectors : d.grants[n] \in Grant
      BY DEF Doc
    <2>2. swept \in [Connectors -> Grant]
      BY <2>1, RePendedType
    <2>3. SweepGrants(d, now) = [d EXCEPT !.grants = swept,
                                          !.workspaceVersion = d.workspaceVersion + 1]
      BY <1>2 DEF SweepGrants, Doc
    <2>4. \A n \in Connectors : swept[n] = d.grants[n] \/ swept[n].status = "requested"
      BY <2>1, RePendedType
    <2>5. d.workspaceVersion + 1 \in Nat
      BY DEF Doc
    <2> HIDE DEF swept
    <2>6. SweepGrants(d, now) \in Doc
      BY <2>2, <2>3, <2>5 DEF Doc
    <2>7. SweepGrants(d, now).grants = swept /\ SweepGrants(d, now).widgets = d.widgets
      BY <2>3 DEF Doc
    <2> QED
      BY <2>4, <2>6, <2>7
  <1> QED
    BY <1>1, <1>2

\* The TTL sweep returns a document, and never gives authority.
LEMMA SweepType ==
  ASSUME NEW d \in Doc, NEW now \in Nat
  PROVE  /\ Sweep(d, now) \in Doc
         /\ Sweep(d, now).widgets = d.widgets
         /\ \A n \in Connectors :
              \/ Sweep(d, now).grants[n] = d.grants[n]
              \/ Sweep(d, now).grants[n].status = "requested"
  BY SweepEphemeralType, SweepGrantsType DEF Sweep

\* What a replace leaves granted was granted already, with the same surface.
LEMMA ReconcileGrantType ==
  ASSUME NEW g \in Grant, NEW h \in Grant
  PROVE  /\ ReconcileGrant(g, h) \in Grant
         /\ ReconcileGrant(g, h).status = "granted" =>
              /\ h.status = "granted"
              /\ OperatorSurface(ReconcileGrant(g, h)) = OperatorSurface(h)
  BY RePendedType DEF ReconcileGrant

\* A reconciled replace is a document, and authorises nothing the current one does not.
LEMMA ReconcileType ==
  ASSUME NEW d \in Doc, NEW e \in Doc
  PROVE  /\ Reconcile(d, e) \in Doc
         /\ \A n \in Connectors : Reconcile(d, e).grants[n].status = "granted" =>
              /\ e.grants[n].status = "granted"
              /\ OperatorSurface(Reconcile(d, e).grants[n]) = OperatorSurface(e.grants[n])
         /\ \A w \in WidgetNames : Reconcile(d, e).widgets[w] = "approved" =>
              e.widgets[w] = "approved"
  <1> DEFINE ws == [w \in WidgetNames |-> ReconcileWidget(d.widgets[w], e.widgets[w])]
             gs == [n \in Connectors |-> ReconcileGrant(d.grants[n], e.grants[n])]
  <1>1. /\ \A n \in Connectors : d.grants[n] \in Grant /\ e.grants[n] \in Grant
        /\ \A w \in WidgetNames : d.widgets[w] \in WidgetStatus
    BY DEF Doc
  <1>2. gs \in [Connectors -> Grant]
    BY <1>1, ReconcileGrantType
  <1>3. ws \in [WidgetNames -> WidgetStatus]
    BY <1>1 DEF ReconcileWidget, WidgetStatus
  <1>4. Reconcile(d, e) = [d EXCEPT !.widgets = ws, !.grants = gs]
    BY DEF Reconcile
  <1>5. \A n \in Connectors : gs[n].status = "granted" =>
          e.grants[n].status = "granted" /\ OperatorSurface(gs[n]) = OperatorSurface(e.grants[n])
    BY <1>1, ReconcileGrantType
  <1>6. \A w \in WidgetNames : ws[w] = "approved" => e.widgets[w] = "approved"
    BY DEF ReconcileWidget
  <1> HIDE DEF ws, gs
  <1> QED
    BY <1>2, <1>3, <1>4, <1>5, <1>6 DEF Doc

\* Approve, revoke and tool_search turn a grant into a grant.
LEMMA DecisionType ==
  ASSUME NEW g \in Grant
  PROVE  /\ \A o \in GrantOp : Granted(o, g) \in Grant
         /\ Revoked(g) \in Grant /\ Revoked(g).status = "revoked"
         /\ \A o \in RequestOp : Requested(o, g) \in Grant /\ Requested(o, g).status = "requested"
  <1>1. \A o \in GrantOp : Granted(o, g) \in Grant
    <2> TAKE o \in GrantOp
    <2>1. /\ g.tools \cap o.tools \in SUBSET Tools
          /\ o.autoConfirm \in SUBSET Tools
          /\ o.agents \in SUBSET Agents
          /\ o.expiresAt \in Expiries \cup {Never}
      BY DEF GrantOp, Grant
    <2>2. Granted(o, g) = [g EXCEPT !.status = "granted", !.tools = g.tools \cap o.tools,
             !.autoConfirm = o.autoConfirm, !.agents = o.agents, !.expiresAt = o.expiresAt]
      BY DEF Granted, Grant
    <2> QED
      BY <2>1, <2>2 DEF Grant, GrantStatus
  <1>2. Revoked(g) \in Grant /\ Revoked(g).status = "revoked"
    BY DEF Revoked, Grant, GrantStatus
  <1>3. \A o \in RequestOp : Requested(o, g) \in Grant /\ Requested(o, g).status = "requested"
    <2> TAKE o \in RequestOp
    <2>1. [g EXCEPT !.tools = g.tools \cup o.tools] \in Grant
      BY DEF RequestOp, Grant
    <2>2. Requested(o, g) = RePended([g EXCEPT !.tools = g.tools \cup o.tools])
      BY DEF Requested, Grant
    <2> QED
      BY <2>1, <2>2, RePendedType
  <1> QED
    BY <1>1, <1>2, <1>3

\* A document with one grant replaced is a document with that grant and the rest.
LEMMA GrantEditType ==
  ASSUME NEW d \in Doc, NEW n \in Connectors, NEW g \in Grant
  PROVE  /\ [d EXCEPT !.grants[n] = g] \in Doc
         /\ [d EXCEPT !.grants[n] = g].widgets = d.widgets
         /\ [d EXCEPT !.grants[n] = g].grants = [d.grants EXCEPT ![n] = g]
  BY DEF Doc

\* Every operation produces a document from a document.
LEMMA ProducedType ==
  ASSUME NEW o \in MutateOp, NEW d \in Doc
  PROVE  Produced(o, d) \in Doc
  <1>1. CASE o \in EditOp
    <2>1. Produced(o, d) = [d EXCEPT !.body = o.body, !.ephemerals = o.ephemerals]
      BY <1>1 DEF Produced, EditOp
    <2> QED
      BY <1>1, <2>1 DEF EditOp, Doc
  <1>2. CASE o \in ReplaceOp
    BY <1>2, ReconcileType DEF Produced, ReplaceOp
  <1>3. CASE o \in WidgetOp
    <2>1. Produced(o, d) = [d EXCEPT !.widgets[o.name] = o.decision]
      BY <1>3 DEF Produced, WidgetOp
    <2> QED
      BY <1>3, <2>1 DEF WidgetOp, WidgetStatus, Doc
  <1>4. CASE o \in GrantOp
    <2>1. Granted(o, d.grants[o.name]) \in Grant
      <3>1. d.grants[o.name] \in Grant
        BY <1>4 DEF GrantOp, Doc
      <3> QED
        BY <1>4, <3>1, DecisionType
    <2>2. Produced(o, d) = [d EXCEPT !.grants[o.name] = Granted(o, d.grants[o.name])]
      BY <1>4 DEF Produced, GrantOp, Doc
    <2> QED
      BY <1>4, <2>1, <2>2, GrantEditType DEF GrantOp
  <1>5. CASE o \in RevokeOp
    <2>1. Revoked(d.grants[o.name]) \in Grant
      <3>1. d.grants[o.name] \in Grant
        BY <1>5 DEF RevokeOp, Doc
      <3> QED
        BY <1>5, <3>1, DecisionType
    <2>2. Produced(o, d) = [d EXCEPT !.grants[o.name] = Revoked(d.grants[o.name])]
      BY <1>5 DEF Produced, RevokeOp, Doc
    <2> QED
      BY <1>5, <2>1, <2>2, GrantEditType DEF RevokeOp
  <1>6. CASE o \in RequestOp
    <2>1. Requested(o, d.grants[o.name]) \in Grant
      <3>1. d.grants[o.name] \in Grant
        BY <1>6 DEF RequestOp, Doc
      <3> QED
        BY <1>6, <3>1, DecisionType
    <2>2. Produced(o, d) = [d EXCEPT !.grants[o.name] = Requested(o, d.grants[o.name])]
      BY <1>6 DEF Produced, RequestOp, Doc
    <2> QED
      BY <1>6, <2>1, <2>2, GrantEditType DEF RequestOp
  <1> QED
    BY <1>1, <1>2, <1>3, <1>4, <1>5, <1>6 DEF MutateOp

(***************************************************************************)
(* Type correctness                                                        *)
(***************************************************************************)
\* The part of TypeOK about the callers.
CallersOK ==
  /\ queue \in Seq(Callers)
  /\ pc \in [Callers -> PC]
  /\ op \in [Callers -> Ops \cup {NoOp}]
  /\ cur \in [Callers -> Doc \cup {NoDoc}]
  /\ nxt \in [Callers -> Doc \cup {NoDoc}]
  /\ \A c \in Callers :
       /\ pc[c] = "queued" => op[c] \in Ops
       /\ pc[c] \in MutatePC => op[c] \in Ops /\ op[c] \in MutateOp /\ cur[c] \in Doc
       /\ pc[c] \in WritePC => nxt[c] \in Doc

FilesOK ==
  /\ disk \in Doc \cup {NoDoc}
  /\ ring \subseteq Snapshots
  /\ clock \in Nat

\* TypeOK is about the callers and about the files.
LEMMA TypeParts == TypeOK <=> CallersOK /\ FilesOK
  BY DEF TypeOK, CallersOK, FilesOK

\* read() returns a document, seeded or swept, never a missing file.
LEMMA LoadedType ==
  ASSUME FilesOK
  PROVE  Loaded \in Doc
  BY DefaultDocType, SweepType DEF Loaded, FilesOK

\* A settled caller is idle and holds no document.
LEMMA SettleType ==
  ASSUME CallersOK, NEW c \in Callers, Settle(c)
  PROVE  CallersOK'
  <1>1. queue' \in Seq(Callers)
    BY DEF CallersOK, Settle, HoldsLock
  <1>2. "idle" \notin MutatePC /\ "idle" \notin WritePC /\ "idle" \in PC
    BY DEF MutatePC, WritePC, PC
  <1> QED
    BY <1>1, <1>2 DEF CallersOK, Settle

\* A caller that steps to a new place with a new operation and documents.
LEMMA StepType ==
  ASSUME CallersOK, NEW c \in Callers, NEW p \in PC,
         NEW o \in Ops \cup {NoOp}, NEW d \in Doc \cup {NoDoc}, NEW e \in Doc \cup {NoDoc},
         p = "queued" => o \in Ops,
         p \in MutatePC => o \in Ops /\ o \in MutateOp /\ d \in Doc,
         p \in WritePC => e \in Doc,
         queue' \in Seq(Callers),
         pc' = [pc EXCEPT ![c] = p],
         op' = [op EXCEPT ![c] = o],
         cur' = [cur EXCEPT ![c] = d],
         nxt' = [nxt EXCEPT ![c] = e]
  PROVE  CallersOK'
  BY DEF CallersOK

\* Every variable keeps its type and every caller has the documents it needs.
THEOREM TypeCorrect == Spec => []TypeOK
  <1>1. Init => TypeOK
    BY DefaultDocType DEF Init, TypeOK, PC, MutatePC, WritePC
  <1>2. TypeOK /\ [Next]_vars => TypeOK'
    <2> SUFFICES ASSUME CallersOK, FilesOK, [Next]_vars
                 PROVE  CallersOK' /\ FilesOK'
      BY TypeParts DEF TypeOK, CallersOK, FilesOK
    <2> USE DEF storage, memory
    <2> DEFINE Same(c) == /\ op[c] \in Ops \cup {NoOp}
                          /\ cur[c] \in Doc \cup {NoDoc}
                          /\ nxt[c] \in Doc \cup {NoDoc}
                          /\ op = [op EXCEPT ![c] = op[c]]
                          /\ cur = [cur EXCEPT ![c] = cur[c]]
                          /\ nxt = [nxt EXCEPT ![c] = nxt[c]]
    <2>0. \A c \in Callers : Same(c)
      BY DEF CallersOK
    <2> HIDE DEF Same
    <2>1. ASSUME NEW c \in Callers, Call(c)
          PROVE  CallersOK' /\ FilesOK'
      <3>1. queue' \in Seq(Callers)
        BY <2>1 DEF Call, CallersOK
      <3>2. PICK o \in Ops : op' = [op EXCEPT ![c] = o]
        BY <2>1 DEF Call
      <3>3. /\ pc' = [pc EXCEPT ![c] = "queued"]
            /\ cur' = [cur EXCEPT ![c] = cur[c]] /\ cur[c] \in Doc \cup {NoDoc}
            /\ nxt' = [nxt EXCEPT ![c] = nxt[c]] /\ nxt[c] \in Doc \cup {NoDoc}
        BY <2>0, <2>1 DEF Call, Same
      <3>4. "queued" \in PC /\ "queued" \notin MutatePC /\ "queued" \notin WritePC
        BY DEF PC, MutatePC, WritePC
      <3>5. CallersOK'
        BY <3>1, <3>2, <3>3, <3>4, StepType
      <3> QED
        BY <2>1, <3>5 DEF Call, FilesOK
    <2>2. ASSUME NEW c \in Callers, ReadStart(c)
          PROVE  CallersOK' /\ FilesOK'
      <3>1. Loaded \in Doc /\ queue' \in Seq(Callers)
        BY <2>2, LoadedType DEF ReadStart, CallersOK
      <3>2. CallersOK'
        BY ZenonT(60), <2>0, <2>2, <3>1, StepType DEF ReadStart, Same, PC, MutatePC, WritePC
      <3> QED
        BY <2>2, <3>2 DEF ReadStart, FilesOK
    <2>3. ASSUME NEW c \in Callers, ReadWrite(c)
          PROVE  CallersOK' /\ FilesOK'
      BY <2>3, SettleType DEF ReadWrite, FilesOK, CallersOK, WritePC
    <2>4. ASSUME NEW c \in Callers, Load(c)
          PROVE  CallersOK' /\ FilesOK'
      <3>1. op[c] \in Ops /\ op[c] \in MutateOp
        BY <2>4, OpsAssumption DEF Load, CallersOK, UndoOp
      <3>2. CallersOK'
        BY ZenonT(60), <2>0, <2>4, <3>1, LoadedType, StepType
           DEF Load, Same, PC, MutatePC, WritePC, CallersOK
      <3> QED
        BY <2>4, <3>2 DEF Load, FilesOK
    <2>5. ASSUME NEW c \in Callers, SweepWrite(c)
          PROVE  CallersOK' /\ FilesOK'
      <3>1. op[c] \in Ops /\ op[c] \in MutateOp /\ cur[c] \in Doc
        BY <2>5 DEF SweepWrite, CallersOK, MutatePC
      <3>2. CallersOK'
        BY <2>0, <2>5, <3>1, StepType
           DEF SweepWrite, Same, PC, MutatePC, WritePC, CallersOK
      <3> QED
        BY <2>5, <3>1, <3>2 DEF SweepWrite, FilesOK
    <2>6. ASSUME NEW c \in Callers, Produce(c)
          PROVE  CallersOK' /\ FilesOK'
      <3>1. op[c] \in Ops /\ op[c] \in MutateOp /\ cur[c] \in Doc
        BY <2>6 DEF Produce, CallersOK, MutatePC
      <3>2. Candidate(c) \in Doc
        BY <3>1, ProducedType DEF Candidate, Doc
      <3>3. CallersOK'
        BY <2>0, <2>6, <3>1, <3>2, StepType
           DEF Produce, Same, PC, MutatePC, WritePC, CallersOK
      <3> QED
        BY <2>6, <3>3 DEF Produce, FilesOK
    <2>7. ASSUME NEW c \in Callers, Reject(c)
          PROVE  CallersOK' /\ FilesOK'
      BY <2>7, SettleType DEF Reject, FilesOK
    <2>8. ASSUME NEW c \in Callers, Snapshot(c)
          PROVE  CallersOK' /\ FilesOK'
      <3>1. /\ op[c] \in Ops /\ op[c] \in MutateOp /\ cur[c] \in Doc
            /\ nxt[c] \in Doc /\ nxt[c].workspaceVersion \in Nat
        BY <2>8 DEF Snapshot, CallersOK, MutatePC, WritePC, Doc
      <3>2. CallersOK'
        BY <2>0, <2>8, <3>1, StepType
           DEF Snapshot, Same, PC, MutatePC, WritePC, CallersOK
      <3>3. ring' \subseteq Snapshots
        BY <2>8, <3>1 DEF Snapshot, FilesOK, Snapshots
      <3> QED
        BY <2>8, <3>2, <3>3 DEF Snapshot, FilesOK
    <2>9. ASSUME NEW c \in Callers, Evict(c)
          PROVE  CallersOK' /\ FilesOK'
      <3>1. op[c] \in Ops /\ op[c] \in MutateOp /\ cur[c] \in Doc /\ nxt[c] \in Doc
        BY <2>9 DEF Evict, CallersOK, MutatePC, WritePC
      <3>2. CallersOK'
        BY <2>0, <2>9, <3>1, StepType
           DEF Evict, Same, PC, MutatePC, WritePC, CallersOK
      <3> QED
        BY <2>9, <3>2 DEF Evict, FilesOK
    <2>10. ASSUME NEW c \in Callers, Commit(c)
           PROVE  CallersOK' /\ FilesOK'
      BY <2>10, SettleType DEF Commit, FilesOK, CallersOK, WritePC
    <2>11. ASSUME NEW c \in Callers, UndoEmpty(c) \/ UndoRm(c) \/ IOFail(c)
           PROVE  CallersOK' /\ FilesOK'
      BY <2>11, SettleType DEF UndoEmpty, UndoRm, IOFail, FilesOK
    <2>12. ASSUME NEW c \in Callers, UndoLoad(c)
           PROVE  CallersOK' /\ FilesOK'
      <3>1. PICK s \in ring : nxt' = [nxt EXCEPT ![c] = s.doc]
        BY <2>12 DEF UndoLoad
      <3>2. s.doc \in Doc
        BY <3>1 DEF FilesOK, Snapshots
      <3>3. CallersOK'
        BY ZenonT(60), <2>0, <2>12, <3>1, <3>2, StepType
           DEF UndoLoad, Same, PC, MutatePC, WritePC, CallersOK
      <3> QED
        BY <2>12, <3>3 DEF UndoLoad, FilesOK
    <2>13. ASSUME NEW c \in Callers, UndoWrite(c)
           PROVE  CallersOK' /\ FilesOK'
      <3>1. nxt[c] \in Doc
        BY <2>13 DEF UndoWrite, CallersOK, WritePC
      <3>2. CallersOK'
        BY <2>0, <2>13, <3>1, StepType
           DEF UndoWrite, Same, PC, MutatePC, WritePC, CallersOK
      <3> QED
        BY <2>13, <3>1, <3>2 DEF UndoWrite, FilesOK
    <2>14. ASSUME Crash
           PROVE  CallersOK' /\ FilesOK'
      BY <2>14 DEF Crash, CallersOK, FilesOK, PC, MutatePC, WritePC
    <2>15. ASSUME Tick
           PROVE  CallersOK' /\ FilesOK'
      BY <2>15 DEF Tick, CallersOK, FilesOK
    <2>16. CASE UNCHANGED vars
      BY <2>16 DEF vars, CallersOK, FilesOK
    <2> QED
      BY <2>1, <2>2, <2>3, <2>4, <2>5, <2>6, <2>7, <2>8, <2>9, <2>10, <2>11, <2>12,
         <2>13, <2>14, <2>15, <2>16 DEF Next, Progress
  <1> QED
    BY <1>1, <1>2, PTL DEF Spec

(***************************************************************************)
(* The approval gate                                                       *)
(***************************************************************************)
AuthorisedBy(doc, D) ==
  /\ \A n \in Connectors : doc.grants[n].status = "granted" =>
       <<n, OperatorSurface(doc.grants[n])>> \in D
  /\ \A w \in WidgetNames : doc.widgets[w] = "approved" => <<w>> \in D

\* The seed carries no authority, whatever has been decided.
LEMMA DefaultAuthorised == \A D : AuthorisedBy(DefaultDoc, D)
  BY DEF AuthorisedBy, DefaultDoc, NoGrant

\* A sweep gives no authority.
LEMMA SweepAuthorised ==
  ASSUME NEW d \in Doc, NEW now \in Nat, NEW D, AuthorisedBy(d, D)
  PROVE  AuthorisedBy(Sweep(d, now), D)
  BY SweepType DEF AuthorisedBy

\* A producer gives no authority but what its own operator decision adds.
LEMMA ProducedAuthorised ==
  ASSUME NEW o \in MutateOp, NEW d \in Doc, NEW D, AuthorisedBy(d, D)
  PROVE  AuthorisedBy(Produced(o, d), D \cup Decided(o, Produced(o, d)))
  <1> SUFFICES ASSUME NEW e, e = Produced(o, d)
               PROVE  AuthorisedBy(e, D \cup Decided(o, e))
    OBVIOUS
  <1>1. CASE o \in EditOp
    <2>1. e = [d EXCEPT !.body = o.body, !.ephemerals = o.ephemerals]
      BY <1>1 DEF Produced, EditOp
    <2>2. e.grants = d.grants /\ e.widgets = d.widgets
      BY <2>1 DEF Doc
    <2> QED
      BY <2>2 DEF AuthorisedBy
  <1>2. CASE o \in ReplaceOp
    <2>1. e = Reconcile(o.doc, d) /\ o.doc \in Doc
      BY <1>2 DEF Produced, ReplaceOp
    <2> QED
      BY <2>1, ReconcileType DEF AuthorisedBy
  <1>3. CASE o \in WidgetOp
    <2>1. e = [d EXCEPT !.widgets[o.name] = o.decision]
      BY <1>3 DEF Produced, WidgetOp
    <2>2. /\ e.grants = d.grants
          /\ e.widgets = [d.widgets EXCEPT ![o.name] = o.decision]
          /\ d.widgets \in [WidgetNames -> WidgetStatus]
      BY <1>3, <2>1 DEF Doc, WidgetOp
    <2>3. o.decision = "approved" => <<o.name>> \in Decided(o, e)
      BY <1>3 DEF Decided, WidgetOp
    <2> QED
      BY <2>2, <2>3 DEF AuthorisedBy
  <1>4. ASSUME NEW g \in Grant, o.name \in Connectors,
               e = [d EXCEPT !.grants[o.name] = g],
               g.status = "granted" =>
                 <<o.name, OperatorSurface(g)>> \in D \cup Decided(o, e)
        PROVE  AuthorisedBy(e, D \cup Decided(o, e))
    <2>1. /\ e.widgets = d.widgets
          /\ e.grants = [d.grants EXCEPT ![o.name] = g]
          /\ d.grants \in [Connectors -> Grant]
      BY <1>4, GrantEditType DEF Doc
    <2> QED
      BY <1>4, <2>1 DEF AuthorisedBy
  <1>5. CASE o \in GrantOp
    <2> DEFINE g == Granted(o, d.grants[o.name])
    <2>1. o.name \in Connectors /\ d.grants[o.name] \in Grant
      BY <1>5 DEF GrantOp, Doc
    <2>2. g \in Grant
      BY <1>5, <2>1, DecisionType
    <2>3. e = [d EXCEPT !.grants[o.name] = g]
      BY <1>5 DEF Produced, GrantOp, Doc
    <2>4. e.grants[o.name] = g
      BY <2>1, <2>2, <2>3, GrantEditType DEF Doc
    <2>5. Decided(o, e) = {<<o.name, OperatorSurface(e.grants[o.name])>>}
      BY <1>5 DEF Decided, GrantOp
    <2> HIDE DEF g
    <2> QED
      BY <1>4, <2>1, <2>2, <2>3, <2>4, <2>5
  <1>6. CASE o \in RevokeOp
    <2> DEFINE g == Revoked(d.grants[o.name])
    <2>1. o.name \in Connectors /\ d.grants[o.name] \in Grant
      BY <1>6 DEF RevokeOp, Doc
    <2>2. g \in Grant /\ g.status # "granted"
      BY <2>1, DecisionType
    <2>3. e = [d EXCEPT !.grants[o.name] = g]
      BY <1>6 DEF Produced, RevokeOp, Doc
    <2> HIDE DEF g
    <2> QED
      BY <1>4, <2>1, <2>2, <2>3
  <1>7. CASE o \in RequestOp
    <2> DEFINE g == Requested(o, d.grants[o.name])
    <2>1. o.name \in Connectors /\ d.grants[o.name] \in Grant
      BY <1>7 DEF RequestOp, Doc
    <2>2. g \in Grant /\ g.status # "granted"
      BY <1>7, <2>1, DecisionType
    <2>3. e = [d EXCEPT !.grants[o.name] = g]
      BY <1>7 DEF Produced, RequestOp, Doc
    <2> HIDE DEF g
    <2> QED
      BY <1>4, <2>1, <2>2, <2>3
  <1> QED
    BY <1>1, <1>2, <1>3, <1>5, <1>6, <1>7 DEF MutateOp

\* Also every document a caller holds on its way to storage is authorised.
AuthorityInv ==
  /\ disk # NoDoc => AuthorisedBy(disk, decisions)
  /\ \A s \in ring : AuthorisedBy(s.doc, decisions)
  /\ \A c \in Callers : /\ cur[c] # NoDoc => AuthorisedBy(cur[c], decisions)
                        /\ nxt[c] # NoDoc => AuthorisedBy(nxt[c], decisions)

\* What read() returns carries no more authority than what is on disk.
LEMMA LoadedAuthorised ==
  ASSUME FilesOK, AuthorityInv
  PROVE  AuthorisedBy(Loaded, decisions)
  BY DefaultAuthorised, SweepAuthorised DEF Loaded, FilesOK, AuthorityInv

\* No persisted document or undo snapshot, whatever the interleaving of
\* replaces, decisions, undos, stale sweeps, I/O errors and crashes, grants or
\* approves anything an operator did not decide.
THEOREM AuthorityCorrect == Spec => []OperatorAuthority
  <1>1. Init => AuthorityInv
    BY DefaultAuthorised DEF Init, AuthorityInv
  <1>2. TypeOK /\ AuthorityInv /\ [Next]_vars => AuthorityInv'
    <2> SUFFICES ASSUME CallersOK, FilesOK, AuthorityInv, [Next]_vars
                 PROVE  AuthorityInv'
      BY TypeParts
    <2> USE DEF storage, memory
    <2>1. ASSUME NEW c \in Callers, Call(c) \/ Evict(c) \/ UndoRm(c) \/ Reject(c)
                                      \/ UndoEmpty(c) \/ IOFail(c)
          PROVE  AuthorityInv'
      BY <2>1 DEF Call, Evict, UndoRm, Reject, UndoEmpty, IOFail, Settle,
                  AuthorityInv, CallersOK
    <2>2. ASSUME NEW c \in Callers, ReadStart(c) \/ Load(c)
          PROVE  AuthorityInv'
      BY <2>2, LoadedAuthorised DEF ReadStart, Load, AuthorityInv, CallersOK
    <2>3. ASSUME NEW c \in Callers, ReadWrite(c) \/ Commit(c) \/ UndoWrite(c)
          PROVE  AuthorityInv'
      <3>1. nxt[c] # NoDoc
        BY <2>3, NoDocAssumption DEF ReadWrite, Commit, UndoWrite, CallersOK, WritePC
      <3> QED
        BY <2>3, <3>1 DEF ReadWrite, Commit, UndoWrite, Settle, AuthorityInv, CallersOK
    <2>4. ASSUME NEW c \in Callers, SweepWrite(c) \/ Snapshot(c)
          PROVE  AuthorityInv'
      <3>1. cur[c] # NoDoc
        BY <2>4, NoDocAssumption DEF SweepWrite, Snapshot, CallersOK, MutatePC
      <3> QED
        BY <2>4, <3>1 DEF SweepWrite, Snapshot, AuthorityInv, CallersOK
    <2>5. ASSUME NEW c \in Callers, Produce(c)
          PROVE  AuthorityInv'
      <3>1. op[c] \in MutateOp /\ cur[c] \in Doc /\ cur[c] # NoDoc
        BY <2>5, NoDocAssumption DEF Produce, CallersOK, MutatePC
      <3> DEFINE e == Produced(op[c], cur[c])
      <3>2. AuthorisedBy(e, decisions \cup Decided(op[c], e))
        BY <3>1, ProducedAuthorised DEF AuthorityInv
      <3>3. Candidate(c).grants = e.grants /\ Candidate(c).widgets = e.widgets
        BY <3>1, ProducedType DEF Candidate, Doc
      <3>4. Decided(op[c], Candidate(c)) = Decided(op[c], e)
        BY <3>3 DEF Decided
      <3>5. AuthorisedBy(Candidate(c), decisions')
        BY <2>5, <3>2, <3>3, <3>4 DEF Produce, AuthorisedBy
      <3>6. decisions \subseteq decisions'
        BY <2>5 DEF Produce
      <3>7. \A d : AuthorisedBy(d, decisions) => AuthorisedBy(d, decisions')
        BY <3>6 DEF AuthorisedBy
      <3>8. /\ disk' = disk /\ ring' = ring /\ cur' = cur
            /\ nxt' = [nxt EXCEPT ![c] = Candidate(c)]
        BY <2>5 DEF Produce
      <3> QED
        BY <3>5, <3>7, <3>8 DEF AuthorityInv, CallersOK
    <2>6. ASSUME NEW c \in Callers, UndoLoad(c)
          PROVE  AuthorityInv'
      <3>1. PICK s \in ring : nxt' = [nxt EXCEPT ![c] = s.doc]
        BY <2>6 DEF UndoLoad
      <3> QED
        BY <2>6, <3>1 DEF UndoLoad, AuthorityInv, CallersOK
    <2>7. CASE Crash
      BY <2>7 DEF Crash, AuthorityInv
    <2>8. CASE Tick
      BY <2>8 DEF Tick, AuthorityInv
    <2>9. CASE UNCHANGED vars
      BY <2>9 DEF vars, AuthorityInv
    <2> QED
      BY <2>1, <2>2, <2>3, <2>4, <2>5, <2>6, <2>7, <2>8, <2>9 DEF Next, Progress
  <1>3. AuthorityInv => OperatorAuthority
    BY DEF AuthorityInv, OperatorAuthority, Authorised, AuthorisedBy
  <1> QED
    BY <1>1, <1>2, <1>3, TypeCorrect, PTL DEF Spec

(***************************************************************************)
(* The promise chain                                                       *)
(***************************************************************************)
InQueue(c) == \E i \in 1..Len(queue) : queue[i] = c

\* Settling takes the caller off the chain, or leaves the chain to the others.
LEMMA SettleLock ==
  ASSUME queue \in Seq(Callers), pc \in [Callers -> PC], LockOK,
         NEW c \in Callers, Settle(c), pc[c] = "readWrite" \/ HoldsLock(c)
  PROVE  LockOK'
  <1>1. pc' = [pc EXCEPT ![c] = "idle"]
    BY DEF Settle
  <1>2. CASE pc[c] = "readWrite"
    <2>1. ~HoldsLock(c)
      BY <1>2 DEF LockOK, HoldsLock
    <2>2. queue' = queue
      BY <2>1 DEF Settle
    <2> QED
      BY <1>1, <1>2, <2>2 DEF LockOK, HoldsLock, LockedPC
  <1>3. CASE HoldsLock(c)
    <2>1. queue # <<>> /\ queue[1] = c /\ queue' = Tail(queue)
      BY <1>3 DEF Settle, HoldsLock
    <2>2. /\ Len(queue') = Len(queue) - 1 /\ Len(queue) \in Nat /\ Len(queue) >= 1
          /\ \A i \in 1..Len(queue') : queue'[i] = queue[i + 1]
      BY <2>1
    <2>3. \A i, j \in 1..Len(queue') : queue'[i] = queue'[j] => i = j
      <3> TAKE i, j \in 1..Len(queue')
      <3>1. i + 1 \in 1..Len(queue) /\ j + 1 \in 1..Len(queue)
        BY <2>2
      <3>2. queue[i + 1] = queue[j + 1] => i + 1 = j + 1
        BY <3>1 DEF LockOK
      <3> QED
        BY <2>2, <3>2
    <2>4. \A b \in Callers : (\E i \in 1..Len(queue') : queue'[i] = b)
                              <=> b # c /\ InQueue(b)
      <3> TAKE b \in Callers
      <3>1. ASSUME NEW i \in 1..Len(queue'), queue'[i] = b
            PROVE  b # c /\ InQueue(b)
        <4>1. i + 1 \in 1..Len(queue) /\ queue[i + 1] = b
          BY <2>2, <3>1
        <4>2. 1 \in 1..Len(queue) /\ queue[1] = c /\ i + 1 # 1
          BY <2>1, <2>2
        <4> QED
          BY <4>1, <4>2 DEF LockOK, InQueue
      <3>2. ASSUME b # c, NEW i \in 1..Len(queue), queue[i] = b
            PROVE  \E k \in 1..Len(queue') : queue'[k] = b
        <4>1. i # 1
          BY <2>1, <3>2
        <4>2. i - 1 \in 1..Len(queue') /\ queue'[i - 1] = queue[(i - 1) + 1]
          BY <2>2, <4>1
        <4> QED
          BY <3>2, <4>2
      <3> QED
        BY <3>1, <3>2 DEF InQueue
    <2>5. \A b \in Callers : b # c => pc'[b] = pc[b] /\ pc[b] \notin LockedPC
      BY <1>1, <1>3 DEF LockOK, HoldsLock
    <2>6. pc'[c] = "idle" /\ "idle" \notin LockedPC
      BY <1>1 DEF LockedPC
    <2> QED
      BY <2>3, <2>4, <2>5, <2>6 DEF LockOK, InQueue
  <1> QED
    BY <1>2, <1>3

\* The head of the chain moves on inside its operation.
LEMMA InsideLock ==
  ASSUME pc \in [Callers -> PC], LockOK, NEW c \in Callers,
         HoldsLock(c), pc[c] \notin {"idle", "readWrite"},
         NEW p \in LockedPC, pc' = [pc EXCEPT ![c] = p], queue' = queue
  PROVE  LockOK'
  BY DEF LockOK, HoldsLock, LockedPC

\* At any time the callers in an operation are the queue, each once, and only
\* its head has started: two read-modify-write cycles never overlap, whichever
\* operations are rejected, fail on I/O or are lost in a crash.
THEOREM LockCorrect == Spec => []LockOK
  <1>1. Init => LockOK
    BY DEF Init, LockOK, LockedPC
  <1>2. TypeOK /\ LockOK /\ [Next]_vars => LockOK'
    <2> SUFFICES ASSUME CallersOK, LockOK, [Next]_vars
                 PROVE  LockOK'
      BY TypeParts
    <2> USE DEF storage, memory
    <2>0. queue \in Seq(Callers) /\ pc \in [Callers -> PC]
      BY DEF CallersOK
    <2>1. ASSUME NEW c \in Callers, Call(c)
          PROVE  LockOK'
      <3>1. /\ pc[c] = "idle" /\ pc' = [pc EXCEPT ![c] = "queued"]
            /\ queue' = Append(queue, c)
        BY <2>1 DEF Call
      <3>2. ~InQueue(c)
        BY <3>1 DEF LockOK, InQueue
      <3>3. /\ Len(queue) \in Nat /\ Len(queue') = Len(queue) + 1
            /\ queue'[Len(queue) + 1] = c
            /\ \A i \in 1..Len(queue) : queue'[i] = queue[i]
        BY <2>0, <3>1
      <3>4. \A i, j \in 1..Len(queue') : queue'[i] = queue'[j] => i = j
        BY <3>2, <3>3 DEF LockOK, InQueue
      <3>5. \A b \in Callers : (\E i \in 1..Len(queue') : queue'[i] = b)
                                <=> b = c \/ InQueue(b)
        BY <3>3 DEF InQueue
      <3>6. \A b \in Callers : HoldsLock(b) => HoldsLock(b)'
        BY <2>0, <3>1 DEF HoldsLock
      <3> QED
        BY <2>0, <3>1, <3>4, <3>5, <3>6 DEF LockOK, InQueue, LockedPC
    <2>2. ASSUME NEW c \in Callers, ReadStart(c)
          PROVE  LockOK'
      BY <2>0, <2>2 DEF ReadStart, LockOK, HoldsLock, LockedPC
    <2>3. ASSUME NEW c \in Callers,
                 ReadWrite(c) \/ Reject(c) \/ Commit(c) \/ UndoEmpty(c) \/ UndoRm(c) \/ IOFail(c)
          PROVE  LockOK'
      <3>1. Settle(c)
        BY <2>3 DEF ReadWrite, Reject, Commit, UndoEmpty, UndoRm, IOFail
      <3>2. pc[c] = "readWrite" \/ HoldsLock(c)
        BY <2>0, <2>3 DEF ReadWrite, Reject, Commit, UndoEmpty, UndoRm, IOFail,
                          LockOK, LockedPC
      <3> QED
        BY <2>0, <3>1, <3>2, SettleLock
    <2>4. ASSUME NEW c \in Callers, Load(c) \/ UndoLoad(c)
          PROVE  LockOK'
      <3>1. /\ HoldsLock(c) /\ pc[c] \notin {"idle", "readWrite"} /\ queue' = queue
            /\ \E p \in LockedPC : pc' = [pc EXCEPT ![c] = p]
        BY <2>4 DEF Load, UndoLoad, LockedPC, PC
      <3> QED
        BY <2>0, <3>1, InsideLock
    <2>5. ASSUME NEW c \in Callers,
                 SweepWrite(c) \/ Produce(c) \/ Snapshot(c) \/ Evict(c) \/ UndoWrite(c)
          PROVE  LockOK'
      <3>1. /\ pc[c] \in LockedPC /\ queue' = queue
            /\ \E p \in LockedPC : pc' = [pc EXCEPT ![c] = p]
        BY <2>5 DEF SweepWrite, Produce, Snapshot, Evict, UndoWrite, LockedPC, PC
      <3>2. HoldsLock(c) /\ pc[c] \notin {"idle", "readWrite"}
        BY <3>1 DEF LockOK, LockedPC
      <3> QED
        BY <2>0, <3>1, <3>2, InsideLock
    <2>6. CASE Crash
      BY <2>6 DEF Crash, LockOK, LockedPC
    <2>7. CASE Tick
      BY <2>7 DEF Tick, LockOK, HoldsLock
    <2>8. CASE UNCHANGED vars
      BY <2>8 DEF vars, LockOK, HoldsLock
    <2> QED
      BY <2>1, <2>2, <2>3, <2>4, <2>5, <2>6, <2>7, <2>8 DEF Next, Progress
  <1> QED
    BY <1>1, <1>2, TypeCorrect, PTL DEF Spec

-----------------------------------------------------------------------------
(***************************************************************************)
(* The history panel: what the diff counts                                 *)
(***************************************************************************)

\* A change of one kind to each of some things.
Group(kind, things, actor) == {Entry(kind, x, actor[x]) : x \in things}

NewTabs(a, b) == Tabs(b) \ Tabs(a)
RenamedTabs(a, b) == {u \in Tabs(a) \cap Tabs(b) : a.tabs[u] # b.tabs[u]}
NewWidgets(a, b) == Widgets(b) \ Widgets(a)
MovedWidgets(a, b) == {v \in Widgets(a) \cap Widgets(b) : Moved(a, b, v)}
RetitledWidgets(a, b) ==
    {v \in Widgets(a) \cap Widgets(b) : a.widgets[v].title # b.widgets[v].title}

Size(s) == Cardinality(s)
IsLayout(l) == IsFiniteSet(Tabs(l)) /\ IsFiniteSet(Widgets(l))

\* A group has as many changes as things.
LEMMA GroupSize ==
    ASSUME NEW kind, NEW things, NEW actor, IsFiniteSet(things)
    PROVE  /\ IsFiniteSet(Group(kind, things, actor))
           /\ Size(Group(kind, things, actor)) = Size(things)
           /\ Size(things) \in Nat
<1> DEFINE G == Group(kind, things, actor)
           f == [x \in things |-> Entry(kind, x, actor[x])]
<1>1. f \in [things -> G]
  BY DEF Group
<1>2. \A x, y \in things : f[x] = f[y] => x = y
  BY DEF Entry
<1>3. \A g \in G : \E x \in things : f[x] = g
  BY DEF Group
<1> HIDE DEF f, G
<1>4. f \in Bijection(things, G)
  BY <1>1, <1>2, <1>3 DEF Bijection, Injection, Surjection, IsInjective
<1>5. ExistsBijection(things, G)
  BY <1>4 DEF ExistsBijection
<1>6. IsFiniteSet(G) /\ Cardinality(G) = Cardinality(things)
  BY <1>5, FS_Bijection
<1>7. Cardinality(things) \in Nat
  BY FS_CardinalityType
<1> QED
  BY <1>6, <1>7 DEF Size, G

\* Two finite sets without a common member count together.
LEMMA DisjointSize ==
    ASSUME NEW S, NEW T, IsFiniteSet(S), IsFiniteSet(T), S \cap T = {}
    PROVE  /\ IsFiniteSet(S \cup T)
           /\ Size(S \cup T) = Size(S) + Size(T)
           /\ Size(S \cup T) \in Nat
<1>1. Cardinality(S \cap T) = 0
  BY FS_EmptySet
<1>2. /\ IsFiniteSet(S \cup T)
      /\ Cardinality(S \cup T) = Cardinality(S) + Cardinality(T) - Cardinality(S \cap T)
  BY FS_Union
<1>3. Cardinality(S) \in Nat /\ Cardinality(T) \in Nat /\ Cardinality(S \cup T) \in Nat
  BY <1>2, FS_CardinalityType
<1> QED
  BY <1>1, <1>2, <1>3 DEF Size

\* What changed between two documents is a finite number of things.
LEMMA ChangedThings ==
    ASSUME NEW a, NEW b, IsLayout(a), IsLayout(b)
    PROVE  /\ IsFiniteSet(NewTabs(a, b)) /\ IsFiniteSet(RenamedTabs(a, b))
           /\ IsFiniteSet(NewWidgets(a, b)) /\ IsFiniteSet(MovedWidgets(a, b))
           /\ IsFiniteSet(RetitledWidgets(a, b))
           /\ Size(NewTabs(a, b)) \in Nat /\ Size(RenamedTabs(a, b)) \in Nat
           /\ Size(NewWidgets(a, b)) \in Nat /\ Size(MovedWidgets(a, b)) \in Nat
           /\ Size(RetitledWidgets(a, b)) \in Nat
<1>1. /\ NewTabs(a, b) \subseteq Tabs(b) /\ RenamedTabs(a, b) \subseteq Tabs(b)
      /\ NewWidgets(a, b) \subseteq Widgets(b) /\ MovedWidgets(a, b) \subseteq Widgets(b)
      /\ RetitledWidgets(a, b) \subseteq Widgets(b)
  BY DEF NewTabs, RenamedTabs, NewWidgets, MovedWidgets, RetitledWidgets
<1>2. IsFiniteSet(Tabs(b)) /\ IsFiniteSet(Widgets(b))
  BY DEF IsLayout
<1>3. /\ IsFiniteSet(NewTabs(a, b)) /\ IsFiniteSet(RenamedTabs(a, b))
      /\ IsFiniteSet(NewWidgets(a, b)) /\ IsFiniteSet(MovedWidgets(a, b))
      /\ IsFiniteSet(RetitledWidgets(a, b))
  BY <1>1, <1>2, FS_Subset
<1> QED
  BY <1>3, FS_CardinalityType DEF Size

\* The diff is a group of changes for each kind.
LEMMA DiffIsGroups ==
    ASSUME NEW a, NEW b
    PROVE  \E n, m, f, g, h, r :
             Diff(a, b) =
               Group("tab-added", NewTabs(a, b), n)
                 \cup Group("tab-removed", NewTabs(b, a), m)
                 \cup Group("tab-retitled", RenamedTabs(a, b), r)
                 \cup Group("widget-added", NewWidgets(a, b), f)
                 \cup Group("widget-removed", NewWidgets(b, a), g)
                 \cup Group("widget-moved", MovedWidgets(a, b), f)
                 \cup Group("widget-retitled", RetitledWidgets(a, b), f)
<1> DEFINE n == [t \in Tabs(a) \cup Tabs(b) |-> ""]
           f == [w \in Widgets(b) |-> b.widgets[w].by]
           g == [w \in Widgets(a) |-> a.widgets[w].by]
<1>1. {Entry("tab-added", t, "") : t \in Tabs(b) \ Tabs(a)} = Group("tab-added", NewTabs(a, b), n)
  BY DEF Group, NewTabs
<1>2. {Entry("tab-removed", t, "") : t \in Tabs(a) \ Tabs(b)} = Group("tab-removed", NewTabs(b, a), n)
  BY DEF Group, NewTabs
<1>3. {Entry("tab-retitled", t, "") : t \in {u \in Tabs(a) \cap Tabs(b) : a.tabs[u] # b.tabs[u]}}
        = Group("tab-retitled", RenamedTabs(a, b), n)
  BY DEF Group, RenamedTabs
<1>4. {Entry("widget-added", w, b.widgets[w].by) : w \in Widgets(b) \ Widgets(a)}
        = Group("widget-added", NewWidgets(a, b), f)
  BY DEF Group, NewWidgets
<1>5. {Entry("widget-removed", w, a.widgets[w].by) : w \in Widgets(a) \ Widgets(b)}
        = Group("widget-removed", NewWidgets(b, a), g)
  BY DEF Group, NewWidgets
<1>6. {Entry("widget-moved", w, b.widgets[w].by) :
         w \in {v \in Widgets(a) \cap Widgets(b) : Moved(a, b, v)}}
        = Group("widget-moved", MovedWidgets(a, b), f)
  BY DEF Group, MovedWidgets
<1>7. {Entry("widget-retitled", w, b.widgets[w].by) :
         w \in {v \in Widgets(a) \cap Widgets(b) : a.widgets[v].title # b.widgets[v].title}}
        = Group("widget-retitled", RetitledWidgets(a, b), f)
  BY DEF Group, RetitledWidgets
<1> HIDE DEF n, f, g
<1>8. Diff(a, b) =
               Group("tab-added", NewTabs(a, b), n)
                 \cup Group("tab-removed", NewTabs(b, a), n)
                 \cup Group("tab-retitled", RenamedTabs(a, b), n)
                 \cup Group("widget-added", NewWidgets(a, b), f)
                 \cup Group("widget-removed", NewWidgets(b, a), g)
                 \cup Group("widget-moved", MovedWidgets(a, b), f)
                 \cup Group("widget-retitled", RetitledWidgets(a, b), f)
  BY <1>1, <1>2, <1>3, <1>4, <1>5, <1>6, <1>7, Zenon DEF Diff
<1> QED
  BY <1>8

\* All of a set of changes are of one kind.
OfKind(changes, kind) == \A e \in changes : e.kind = kind

LEMMA GroupKind ==
    ASSUME NEW kind, NEW things, NEW actor
    PROVE  OfKind(Group(kind, things, actor), kind)
  BY DEF OfKind, Group, Entry

\* Changes of two kinds have none in common.
LEMMA KindsApart ==
    ASSUME NEW S, NEW T, NEW k, NEW l, OfKind(S, k), OfKind(T, l), k # l
    PROVE  S \cap T = {}
  BY DEF OfKind

\* What a union of seven groups counts, by kind and in all.
CountsOf(D, ta, tr, tt, wa, wr, wm, wt) ==
    /\ Counted(D, {"widget-added"}) = Size(wa)
    /\ Counted(D, {"widget-removed"}) = Size(wr)
    /\ Counted(D, {"widget-moved"}) = Size(wm)
    /\ Counted(D, {"widget-retitled"}) = Size(wt)
    /\ Counted(D, {"tab-added", "tab-removed", "tab-retitled"}) = Size(ta) + Size(tr) + Size(tt)
    /\ Cardinality(D) = Size(ta) + Size(tr) + Size(tt) + Size(wa) + Size(wr) + Size(wm) + Size(wt)

\* Groups of different kinds count for themselves, and together for all.
LEMMA SevenKinds ==
    ASSUME NEW ta, NEW tr, NEW tt, NEW wa, NEW wr, NEW wm, NEW wt,
           IsFiniteSet(ta), IsFiniteSet(tr), IsFiniteSet(tt), IsFiniteSet(wa), IsFiniteSet(wr),
           IsFiniteSet(wm), IsFiniteSet(wt),
           OfKind(ta, "tab-added"), OfKind(tr, "tab-removed"), OfKind(tt, "tab-retitled"),
           OfKind(wa, "widget-added"), OfKind(wr, "widget-removed"), OfKind(wm, "widget-moved"),
           OfKind(wt, "widget-retitled"),
           NEW D, D = ta \cup tr \cup tt \cup wa \cup wr \cup wm \cup wt
    PROVE  CountsOf(D, ta, tr, tt, wa, wr, wm, wt)
<1>1. {e \in D : e.kind \in {"widget-added"}} = wa
  BY DEF OfKind
<1>2. {e \in D : e.kind \in {"widget-removed"}} = wr
  BY DEF OfKind
<1>3. {e \in D : e.kind \in {"widget-moved"}} = wm
  BY DEF OfKind
<1>4. {e \in D : e.kind \in {"widget-retitled"}} = wt
  BY DEF OfKind
<1>5. {e \in D : e.kind \in {"tab-added", "tab-removed", "tab-retitled"}} = (ta \cup tr) \cup tt
  BY DEF OfKind
<1>6. /\ ta \cap tr = {} /\ (ta \cup tr) \cap tt = {} /\ ((ta \cup tr) \cup tt) \cap wa = {}
      /\ (((ta \cup tr) \cup tt) \cup wa) \cap wr = {}
      /\ ((((ta \cup tr) \cup tt) \cup wa) \cup wr) \cap wm = {}
      /\ (((((ta \cup tr) \cup tt) \cup wa) \cup wr) \cup wm) \cap wt = {}
  BY DEF OfKind
<1>7. IsFiniteSet(ta \cup tr) /\ Size(ta \cup tr) = Size(ta) + Size(tr)
  BY <1>6, DisjointSize
<1>8. /\ IsFiniteSet((ta \cup tr) \cup tt)
      /\ Size((ta \cup tr) \cup tt) = Size(ta \cup tr) + Size(tt)
  BY <1>6, <1>7, DisjointSize
<1>9. /\ IsFiniteSet(((ta \cup tr) \cup tt) \cup wa)
      /\ Size(((ta \cup tr) \cup tt) \cup wa) = Size((ta \cup tr) \cup tt) + Size(wa)
  BY <1>6, <1>8, DisjointSize
<1>10. /\ IsFiniteSet((((ta \cup tr) \cup tt) \cup wa) \cup wr)
       /\ Size((((ta \cup tr) \cup tt) \cup wa) \cup wr) = Size(((ta \cup tr) \cup tt) \cup wa) + Size(wr)
  BY <1>6, <1>9, DisjointSize
<1>11. /\ IsFiniteSet(((((ta \cup tr) \cup tt) \cup wa) \cup wr) \cup wm)
       /\ Size(((((ta \cup tr) \cup tt) \cup wa) \cup wr) \cup wm)
            = Size((((ta \cup tr) \cup tt) \cup wa) \cup wr) + Size(wm)
  BY <1>6, <1>10, DisjointSize
<1>12. Size((((((ta \cup tr) \cup tt) \cup wa) \cup wr) \cup wm) \cup wt)
            = Size(((((ta \cup tr) \cup tt) \cup wa) \cup wr) \cup wm) + Size(wt)
  BY <1>6, <1>11, DisjointSize
<1>13. Size(D) = Size(ta) + Size(tr) + Size(tt) + Size(wa) + Size(wr) + Size(wm) + Size(wt)
  BY <1>7, <1>8, <1>9, <1>10, <1>11, <1>12
<1>14. /\ Counted(D, {"widget-added"}) = Size(wa)
       /\ Counted(D, {"widget-removed"}) = Size(wr)
       /\ Counted(D, {"widget-moved"}) = Size(wm)
       /\ Counted(D, {"widget-retitled"}) = Size(wt)
  BY <1>1, <1>2, <1>3, <1>4, Zenon DEF Counted, Size
<1>15. Counted(D, {"tab-added", "tab-removed", "tab-retitled"}) = Size((ta \cup tr) \cup tt)
  BY <1>5, Zenon DEF Counted, Size
<1>16. Cardinality(D) = Size(D)
  BY DEF Size
<1>17. Counted(D, {"tab-added", "tab-removed", "tab-retitled"}) = Size(ta) + Size(tr) + Size(tt)
  BY <1>7, <1>8, <1>15
<1> QED
  BY <1>13, <1>14, <1>16, <1>17 DEF CountsOf

\* How many changes of each kind lead from one document to another.
LEMMA DiffCounts ==
    ASSUME NEW a, NEW b, IsLayout(a), IsLayout(b)
    PROVE  /\ Counted(Diff(a, b), {"widget-added"}) = Size(NewWidgets(a, b))
           /\ Counted(Diff(a, b), {"widget-removed"}) = Size(NewWidgets(b, a))
           /\ Counted(Diff(a, b), {"widget-moved"}) = Size(MovedWidgets(a, b))
           /\ Counted(Diff(a, b), {"widget-retitled"}) = Size(RetitledWidgets(a, b))
           /\ Counted(Diff(a, b), {"tab-added", "tab-removed", "tab-retitled"})
                = Size(NewTabs(a, b)) + Size(NewTabs(b, a)) + Size(RenamedTabs(a, b))
           /\ Cardinality(Diff(a, b))
                = Size(NewTabs(a, b)) + Size(NewTabs(b, a)) + Size(RenamedTabs(a, b))
                    + Size(NewWidgets(a, b)) + Size(NewWidgets(b, a))
                    + Size(MovedWidgets(a, b)) + Size(RetitledWidgets(a, b))
<1>1. PICK n, m, f, g, h, r :
             Diff(a, b) =
               Group("tab-added", NewTabs(a, b), n)
                 \cup Group("tab-removed", NewTabs(b, a), m)
                 \cup Group("tab-retitled", RenamedTabs(a, b), r)
                 \cup Group("widget-added", NewWidgets(a, b), f)
                 \cup Group("widget-removed", NewWidgets(b, a), g)
                 \cup Group("widget-moved", MovedWidgets(a, b), f)
                 \cup Group("widget-retitled", RetitledWidgets(a, b), f)
  BY DiffIsGroups
<1>2. /\ IsFiniteSet(NewTabs(a, b)) /\ IsFiniteSet(NewTabs(b, a)) /\ IsFiniteSet(RenamedTabs(a, b))
      /\ IsFiniteSet(NewWidgets(a, b)) /\ IsFiniteSet(NewWidgets(b, a))
      /\ IsFiniteSet(MovedWidgets(a, b)) /\ IsFiniteSet(RetitledWidgets(a, b))
  BY ChangedThings
<1> DEFINE ta == Group("tab-added", NewTabs(a, b), n)
           tr == Group("tab-removed", NewTabs(b, a), m)
           tt == Group("tab-retitled", RenamedTabs(a, b), r)
           wa == Group("widget-added", NewWidgets(a, b), f)
           wr == Group("widget-removed", NewWidgets(b, a), g)
           wm == Group("widget-moved", MovedWidgets(a, b), f)
           wt == Group("widget-retitled", RetitledWidgets(a, b), f)
           D == Diff(a, b)
<1>3. /\ IsFiniteSet(ta) /\ IsFiniteSet(tr) /\ IsFiniteSet(tt) /\ IsFiniteSet(wa)
      /\ IsFiniteSet(wr) /\ IsFiniteSet(wm) /\ IsFiniteSet(wt)
  BY <1>2, GroupSize
<1>4. /\ Size(ta) = Size(NewTabs(a, b)) /\ Size(tr) = Size(NewTabs(b, a))
      /\ Size(tt) = Size(RenamedTabs(a, b)) /\ Size(wa) = Size(NewWidgets(a, b))
      /\ Size(wr) = Size(NewWidgets(b, a)) /\ Size(wm) = Size(MovedWidgets(a, b))
      /\ Size(wt) = Size(RetitledWidgets(a, b))
  BY <1>2, GroupSize
<1>5. /\ OfKind(ta, "tab-added") /\ OfKind(tr, "tab-removed") /\ OfKind(tt, "tab-retitled")
      /\ OfKind(wa, "widget-added") /\ OfKind(wr, "widget-removed") /\ OfKind(wm, "widget-moved")
      /\ OfKind(wt, "widget-retitled")
  BY GroupKind
<1>6. D = ta \cup tr \cup tt \cup wa \cup wr \cup wm \cup wt
  BY <1>1
<1> HIDE DEF ta, tr, tt, wa, wr, wm, wt, D
<1>7. CountsOf(D, ta, tr, tt, wa, wr, wm, wt)
  BY <1>3, <1>5, <1>6, SevenKinds
<1>8. D = Diff(a, b)
  BY DEF D
<1> QED
  BY <1>4, <1>7, <1>8 DEF CountsOf

\* A summary holds the numbers of changed things.
LEMMA SummaryCounts ==
    ASSUME NEW a, NEW b, IsLayout(a), IsLayout(b)
    PROVE  /\ Summary(Diff(a, b)).added = Size(NewWidgets(a, b))
           /\ Summary(Diff(a, b)).removed = Size(NewWidgets(b, a))
           /\ Summary(Diff(a, b)).moved = Size(MovedWidgets(a, b))
           /\ Summary(Diff(a, b)).retitled = Size(RetitledWidgets(a, b))
           /\ Summary(Diff(a, b)).tabsChanged
                = Size(NewTabs(a, b)) + Size(NewTabs(b, a)) + Size(RenamedTabs(a, b))
           /\ Summary(Diff(a, b)).total = Cardinality(Diff(a, b))
<1> DEFINE D == Diff(a, b)
<1>1. /\ Summary(D).added = Counted(D, {"widget-added"})
      /\ Summary(D).removed = Counted(D, {"widget-removed"})
      /\ Summary(D).moved = Counted(D, {"widget-moved"})
      /\ Summary(D).retitled = Counted(D, {"widget-retitled"})
      /\ Summary(D).tabsChanged = Counted(D, {"tab-added", "tab-removed", "tab-retitled"})
      /\ Summary(D).total = Cardinality(D)
  BY DEF Summary
<1> QED
  BY <1>1, DiffCounts

\* What counts each way is the same where the way does not matter.
LEMMA BothWays ==
    ASSUME NEW a, NEW b
    PROVE  /\ MovedWidgets(a, b) = MovedWidgets(b, a)
           /\ RetitledWidgets(a, b) = RetitledWidgets(b, a)
           /\ RenamedTabs(a, b) = RenamedTabs(b, a)
  BY DEF MovedWidgets, Moved, RetitledWidgets, RenamedTabs

\* Nothing changed.
Unchanging(a, b) ==
    /\ NewTabs(a, b) = {} /\ NewTabs(b, a) = {} /\ RenamedTabs(a, b) = {}
    /\ NewWidgets(a, b) = {} /\ NewWidgets(b, a) = {}
    /\ MovedWidgets(a, b) = {} /\ RetitledWidgets(a, b) = {}

\* Two documents look the same when nothing changed, and then only.
LEMMA LooksSame ==
    ASSUME NEW a, NEW b
    PROVE  Unchanging(a, b) <=> Looks(a) = Looks(b)
<1> DEFINE T(l) == [t \in Tabs(l) |-> l.tabs[t]]
           W(l) == [w \in Widgets(l) |->
                      <<l.widgets[w].tab, l.widgets[w].rect, l.widgets[w].title>>]
<1>1. Looks(a) = Looks(b) <=> T(a) = T(b) /\ W(a) = W(b)
  BY DEF Looks
<1>2. DOMAIN T(a) = Tabs(a) /\ DOMAIN T(b) = Tabs(b) /\ DOMAIN W(a) = Widgets(a) /\ DOMAIN W(b) = Widgets(b)
  OBVIOUS
<1>3. ASSUME Unchanging(a, b) PROVE T(a) = T(b) /\ W(a) = W(b)
  <2>1. Tabs(a) = Tabs(b) /\ Widgets(a) = Widgets(b)
    BY <1>3 DEF Unchanging, NewTabs, NewWidgets
  <2>2. \A t \in Tabs(a) : a.tabs[t] = b.tabs[t]
    BY <1>3, <2>1 DEF Unchanging, RenamedTabs
  <2>3. \A w \in Widgets(a) : /\ a.widgets[w].tab = b.widgets[w].tab
                             /\ a.widgets[w].rect = b.widgets[w].rect
                             /\ a.widgets[w].title = b.widgets[w].title
    BY <1>3, <2>1 DEF Unchanging, MovedWidgets, Moved, RetitledWidgets
  <2> QED BY <2>1, <2>2, <2>3
<1>4. ASSUME T(a) = T(b), W(a) = W(b) PROVE Unchanging(a, b)
  <2>1. Tabs(a) = Tabs(b) /\ Widgets(a) = Widgets(b)
    BY <1>2, <1>4
  <2>2. \A t \in Tabs(a) : a.tabs[t] = b.tabs[t]
    <3> TAKE t \in Tabs(a)
    <3>1. T(a)[t] = a.tabs[t] /\ T(b)[t] = b.tabs[t]
      BY <2>1
    <3> QED BY <1>4, <3>1
  <2>3. \A w \in Widgets(a) : /\ a.widgets[w].tab = b.widgets[w].tab
                             /\ a.widgets[w].rect = b.widgets[w].rect
                             /\ a.widgets[w].title = b.widgets[w].title
    <3> TAKE w \in Widgets(a)
    <3>1. /\ W(a)[w] = <<a.widgets[w].tab, a.widgets[w].rect, a.widgets[w].title>>
          /\ W(b)[w] = <<b.widgets[w].tab, b.widgets[w].rect, b.widgets[w].title>>
      BY <2>1
    <3> QED BY <1>4, <3>1
  <2> QED BY <2>1, <2>2, <2>3 DEF Unchanging, NewTabs, NewWidgets, RenamedTabs,
                MovedWidgets, Moved, RetitledWidgets
<1> QED
  BY <1>1, <1>3, <1>4

\* A finite set has nothing in it when it counts zero.
LEMMA NoneCounted ==
    ASSUME NEW a, NEW b, IsLayout(a), IsLayout(b)
    PROVE  Unchanging(a, b) <=>
             /\ Size(NewTabs(a, b)) = 0 /\ Size(NewTabs(b, a)) = 0 /\ Size(RenamedTabs(a, b)) = 0
             /\ Size(NewWidgets(a, b)) = 0 /\ Size(NewWidgets(b, a)) = 0
             /\ Size(MovedWidgets(a, b)) = 0 /\ Size(RetitledWidgets(a, b)) = 0
<1>1. /\ IsFiniteSet(NewTabs(a, b)) /\ IsFiniteSet(NewTabs(b, a)) /\ IsFiniteSet(RenamedTabs(a, b))
      /\ IsFiniteSet(NewWidgets(a, b)) /\ IsFiniteSet(NewWidgets(b, a))
      /\ IsFiniteSet(MovedWidgets(a, b)) /\ IsFiniteSet(RetitledWidgets(a, b))
  BY ChangedThings
<1>2. \A s : IsFiniteSet(s) => (Size(s) = 0 <=> s = {})
  BY FS_EmptySet DEF Size
<1> QED
  BY <1>1, <1>2 DEF Unchanging

\* What a row says of the two versions it stands between.
RowTrue(row, older, newer) ==
    /\ Cardinality(Widgets(older)) + row.added = Cardinality(Widgets(newer)) + row.removed
    /\ row.total = Cardinality(Diff(newer, older))
    /\ row.added = Summary(Diff(newer, older)).removed
    /\ RowLabel(row) = {} <=> Looks(newer) = Looks(older)

RowSum(row) == row.total = row.added + row.removed + row.moved + row.retitled + row.tabsChanged

LEMMA SummaryAddsUp ==
    ASSUME NEW a, NEW b, IsLayout(a), IsLayout(b)
    PROVE  RowSum(Summary(Diff(a, b)))
<1>1. /\ Size(NewTabs(a, b)) \in Nat /\ Size(RenamedTabs(a, b)) \in Nat
      /\ Size(NewWidgets(a, b)) \in Nat /\ Size(MovedWidgets(a, b)) \in Nat
      /\ Size(RetitledWidgets(a, b)) \in Nat
      /\ Size(NewTabs(b, a)) \in Nat /\ Size(NewWidgets(b, a)) \in Nat
  BY ChangedThings
<1>2. Cardinality(Diff(a, b))
                = Size(NewTabs(a, b)) + Size(NewTabs(b, a)) + Size(RenamedTabs(a, b))
                    + Size(NewWidgets(a, b)) + Size(NewWidgets(b, a))
                    + Size(MovedWidgets(a, b)) + Size(RetitledWidgets(a, b))
  BY DiffCounts
<1> QED
  BY <1>1, <1>2, SummaryCounts DEF RowSum

LEMMA SummaryTrue ==
    ASSUME NEW a, NEW b, IsLayout(a), IsLayout(b)
    PROVE  RowTrue(Summary(Diff(a, b)), a, b)
<1> DEFINE row == Summary(Diff(a, b))
<1>1. /\ Size(NewTabs(a, b)) \in Nat /\ Size(RenamedTabs(a, b)) \in Nat
      /\ Size(NewWidgets(a, b)) \in Nat /\ Size(MovedWidgets(a, b)) \in Nat
      /\ Size(RetitledWidgets(a, b)) \in Nat
      /\ Size(NewTabs(b, a)) \in Nat /\ Size(NewWidgets(b, a)) \in Nat
  BY ChangedThings
<1>2. /\ row.added = Size(NewWidgets(a, b)) /\ row.removed = Size(NewWidgets(b, a))
      /\ row.moved = Size(MovedWidgets(a, b)) /\ row.retitled = Size(RetitledWidgets(a, b))
      /\ row.tabsChanged = Size(NewTabs(a, b)) + Size(NewTabs(b, a)) + Size(RenamedTabs(a, b))
      /\ row.total = Cardinality(Diff(a, b))
  BY SummaryCounts
<1>3. DOMAIN row = {"added", "removed", "moved", "retitled", "tabsChanged", "total"}
  BY DEF Summary
<1> HIDE DEF row
<1>4. Cardinality(Widgets(a)) + row.added = Cardinality(Widgets(b)) + row.removed
  <2> DEFINE A == Widgets(a)
             B == Widgets(b)
  <2>1. IsFiniteSet(A) /\ IsFiniteSet(B)
    BY DEF IsLayout
  <2>2. Cardinality(A \ B) = Cardinality(A) - Cardinality(A \cap B)
    BY <2>1, FS_Difference
  <2>3. Cardinality(B \ A) = Cardinality(B) - Cardinality(B \cap A)
    BY <2>1, FS_Difference
  <2>4. IsFiniteSet(A \cap B)
    BY <2>1, FS_Intersection
  <2>5. Cardinality(A) \in Nat /\ Cardinality(B) \in Nat /\ Cardinality(A \cap B) \in Nat
    BY <2>1, <2>4, FS_CardinalityType
  <2>6. A \cap B = B \cap A
    OBVIOUS
  <2>7. row.added = Cardinality(B \ A) /\ row.removed = Cardinality(A \ B)
    BY <1>2 DEF Size, NewWidgets
  <2> HIDE DEF A, B
  <2>8. Cardinality(A) + row.added = Cardinality(B) + row.removed
    <3> DEFINE x == Cardinality(A)
               y == Cardinality(B)
               z == Cardinality(A \cap B)
    <3>1. x \in Nat /\ y \in Nat /\ z \in Nat
      BY <2>5
    <3>2. row.added = y - z /\ row.removed = x - z
      BY <2>2, <2>3, <2>6, <2>7
    <3> HIDE DEF x, y, z
    <3>3. x + row.added = y + row.removed
      BY <3>1, <3>2
    <3> QED BY <3>3 DEF x, y
  <2> QED BY <2>8 DEF A, B
<1>5. row.total = Cardinality(Diff(b, a))
  <2>1. /\ Cardinality(Diff(a, b))
                = Size(NewTabs(a, b)) + Size(NewTabs(b, a)) + Size(RenamedTabs(a, b))
                    + Size(NewWidgets(a, b)) + Size(NewWidgets(b, a))
                    + Size(MovedWidgets(a, b)) + Size(RetitledWidgets(a, b))
        /\ Cardinality(Diff(b, a))
                = Size(NewTabs(b, a)) + Size(NewTabs(a, b)) + Size(RenamedTabs(b, a))
                    + Size(NewWidgets(b, a)) + Size(NewWidgets(a, b))
                    + Size(MovedWidgets(b, a)) + Size(RetitledWidgets(b, a))
    BY DiffCounts
  <2>2. Cardinality(Diff(a, b)) = Cardinality(Diff(b, a))
    BY <1>1, <2>1, BothWays
  <2> QED BY <1>2, <2>2
<1>6. row.added = Summary(Diff(b, a)).removed
  BY <1>2, SummaryCounts
<1>7. RowLabel(row) = {} <=> Looks(b) = Looks(a)
  <2>1. RowLabel(row) = {} <=>
          ~ (row.added > 0) /\ ~ (row.removed > 0) /\ ~ (row.moved > 0) /\ ~ (row.retitled > 0)
            /\ ~ (row.tabsChanged > 0)
    BY <1>3 DEF RowLabel
  <2>2. RowLabel(row) = {} <=>
             /\ Size(NewTabs(a, b)) = 0 /\ Size(NewTabs(b, a)) = 0 /\ Size(RenamedTabs(a, b)) = 0
             /\ Size(NewWidgets(a, b)) = 0 /\ Size(NewWidgets(b, a)) = 0
             /\ Size(MovedWidgets(a, b)) = 0 /\ Size(RetitledWidgets(a, b)) = 0
    BY <1>1, <1>2, <2>1
  <2> QED BY <2>2, NoneCounted, LooksSame
<1> QED
  BY <1>4, <1>5, <1>6, <1>7 DEF RowTrue, row

\* A nonempty set of versions has an oldest one.
LEMMA OldestVersion ==
    ASSUME NEW T \in SUBSET Nat, T # {}
    PROVE  \E x \in T : \A y \in T : x <= y
<1> DEFINE R == OpToRel(<, Nat)
<1>1. IsWellFoundedOn(R, Nat)
  BY NatLessThanWellFounded
<1> HIDE DEF R
<1>2. PICK x \in T : \A y \in T : <<y, x>> \notin R
  BY <1>1, WFMin
<1>3. \A y \in T : ~ (y < x)
  BY <1>2 DEF R, OpToRel
<1>4. QED
  BY <1>3

\* The blame line passes over a version whose predecessor has the widget.
LEMMA BlameOldest ==
    ASSUME NEW loaded, NEW v \in Versions \ {1}, NEW w,
           loaded[v - 1] # NoLayout, w \in Widgets(loaded[v - 1])
    PROVE  FirstSeenVersion(loaded, w) # v
<1> DEFINE held == Containing(loaded, w)
           earliest == CHOOSE x \in held : \A u \in held : x <= u
<1>1. MaxVersions \in Nat
  BY HistoryAssumption
<1>2. v - 1 \in Versions /\ v \in Nat /\ v # 0 /\ v - 1 < v
  BY <1>1 DEF Versions
<1>3. v - 1 \in held
  BY <1>2 DEF Containing
<1>4. held \in SUBSET Nat
  BY <1>1 DEF Containing, Versions
<1>5. \E x \in held : \A u \in held : x <= u
  BY <1>3, <1>4, OldestVersion
<1> HIDE DEF held
<1>6. earliest \in held /\ \A u \in held : earliest <= u
  BY <1>5
<1>7. FirstSeenVersion(loaded, w) \in {earliest, None}
  BY DEF FirstSeenVersion, held
<1> HIDE DEF earliest
<1>8. earliest <= v - 1 /\ earliest \in Nat
  BY <1>3, <1>4, <1>6
<1>9. earliest # v
  BY <1>2, <1>8
<1> QED
  BY <1>2, <1>7, <1>9 DEF None

\* A group is empty when nothing changed that way.
LEMMA NoGroup ==
    ASSUME NEW kind, NEW things, NEW actor
    PROVE  Group(kind, things, actor) = {} <=> things = {}
  BY DEF Group

\* The changes shown are none exactly when the documents look the same.
LEMMA NothingShown ==
    ASSUME NEW a, NEW b
    PROVE  DOMAIN ByActor(Diff(a, b)) = {} <=> Looks(a) = Looks(b)
<1>1. DOMAIN ByActor(Diff(a, b)) = {} <=> Diff(a, b) = {}
  BY DEF ByActor
<1>2. PICK n, m, f, g, h, r :
             Diff(a, b) =
               Group("tab-added", NewTabs(a, b), n)
                 \cup Group("tab-removed", NewTabs(b, a), m)
                 \cup Group("tab-retitled", RenamedTabs(a, b), r)
                 \cup Group("widget-added", NewWidgets(a, b), f)
                 \cup Group("widget-removed", NewWidgets(b, a), g)
                 \cup Group("widget-moved", MovedWidgets(a, b), f)
                 \cup Group("widget-retitled", RetitledWidgets(a, b), f)
  BY DiffIsGroups
<1>3. Diff(a, b) = {} <=>
        /\ Group("tab-added", NewTabs(a, b), n) = {}
        /\ Group("tab-removed", NewTabs(b, a), m) = {}
        /\ Group("tab-retitled", RenamedTabs(a, b), r) = {}
        /\ Group("widget-added", NewWidgets(a, b), f) = {}
        /\ Group("widget-removed", NewWidgets(b, a), g) = {}
        /\ Group("widget-moved", MovedWidgets(a, b), f) = {}
        /\ Group("widget-retitled", RetitledWidgets(a, b), f) = {}
  BY <1>2
<1>4. Diff(a, b) = {} <=> Unchanging(a, b)
  BY <1>3, NoGroup DEF Unchanging
<1> QED
  BY <1>1, <1>4, LooksSame

\* No change is shown under two creators.
LEMMA OneCreator ==
    ASSUME NEW d, NEW actor \in DOMAIN ByActor(d), NEW other \in DOMAIN ByActor(d), actor # other
    PROVE  ByActor(d)[actor] \cap ByActor(d)[other] = {}
<1>1. DOMAIN ByActor(d) = {e.actor : e \in d}
  BY DEF ByActor
<1>2. /\ ByActor(d)[actor] = {e \in d : e.actor = actor}
      /\ ByActor(d)[other] = {e \in d : e.actor = other}
  BY <1>1 DEF ByActor
<1> QED
  BY <1>2

\* The detail of a version tells.
LEMMA DiffTellsAlways == DiffTells
<1> DEFINE d == Diff(cached[panel.selected], current.layout)
<1>1. DOMAIN DiffShown = {} <=> Looks(cached[panel.selected]) = Looks(current.layout)
  BY NothingShown DEF DiffShown
<1>2. \A actor, other \in DOMAIN DiffShown :
             actor # other => DiffShown[actor] \cap DiffShown[other] = {}
  BY OneCreator DEF DiffShown
<1> QED
  BY <1>1, <1>2 DEF DiffTells

LEMMA BlameTrueAlways == BlameTrue
<1> SUFFICES ASSUME NEW v \in Versions \ {1}, cached[v] # NoLayout, cached[v - 1] # NoLayout,
                    NEW w \in Widgets(cached[v - 1])
             PROVE  FirstSeenVersion(cached, w) # v
  BY DEF BlameTrue
<1> QED
  BY BlameOldest

-----------------------------------------------------------------------------
(***************************************************************************)
(* The invariant of the history panel                                      *)
(*                                                                         *)
(* A map L from versions to documents says what each version was, for the  *)
(* versions no undo has given free. Every document in sight, in the store, *)
(* on the page or on the way between them, is the one of its version.      *)
(***************************************************************************)

Docs == [version : Versions, layout : Layouts]
Moments == Nat \X Nat

\* A document seen at version v: n is the store's version, R the rewound ones.
Sighted(L, n, R, v, l) ==
    /\ v \in Versions /\ l \in Layouts
    /\ v \notin R => l = L[v] /\ v <= n

\* Rows of a listing: their versions were, and each sums up one change.
RowsSighted(L, n, R, e) ==
    /\ Len(e) \in Nat /\ (e # <<>> => Len(e) # 0)
    /\ \A i \in 1..Len(e) : e[i].version \in Versions /\ (R = {} => e[i].version <= n)
    /\ \A i \in 1..Len(e) - 1 :
         \E a, b \in Layouts :
            /\ e[i].summary = Summary(Diff(a, b))
            /\ R = {} => a = L[e[i + 1].version] /\ b = L[e[i].version]

\* Something was committed or undone since the moment m.
Past(m, n, s) == s > m[2] \/ (s = m[2] /\ n < m[1])

\* Rows read at the moment m: the first is the newest snapshot, as long as it lasts.
AtTop(e, m, n, s, snaps) ==
    /\ m \in Moments
    /\ \/ Past(m, n, s)
       \/ m = <<n, s>> /\ (e # <<>> => snaps # <<>> /\ e[1].version = snaps[Len(snaps)].version)

\* An undo that was confirmed for the document l at the moment m.
Undoable(l, m, n, s, snaps, R) ==
    /\ m \in Moments
    /\ \/ Past(m, n, s)
       \/ /\ m = <<n, s>> /\ snaps # <<>>
          /\ snaps[Len(snaps)].version \notin R => l = snaps[Len(snaps)].layout

ShelfInv(L, doc, snaps, s, R) ==
    /\ L \in [Versions -> Layouts]
    /\ doc \in Docs /\ snaps \in Seq(Docs) /\ s \in Nat /\ R \subseteq Versions
    /\ \A i \in 1..Len(snaps) : snaps[i].version + Len(snaps) + 1 = doc.version + i
    /\ Sighted(L, doc.version, R, doc.version, doc.layout)
    /\ \A i \in 1..Len(snaps) : Sighted(L, doc.version, R, snaps[i].version, snaps[i].layout)

RequestInv(r, L, doc, snaps, s, R) ==
    /\ r.kind = "get" => r.version \in Versions
    /\ (r.kind = "get" /\ r.stage = "served" /\ r.answer # NoLayout) =>
         Sighted(L, doc.version, R, r.version, r.answer)
    /\ (r.kind = "list" /\ r.stage = "served") =>
         RowsSighted(L, doc.version, R, r.answer) /\ AtTop(r.answer, r.at, doc.version, s, snaps)
    /\ (r.kind = "undo" /\ r.stage = "asked") =>
         Undoable(r.shown, r.version, doc.version, s, snaps, R)

CacheInv(ca, L, doc, R) ==
    /\ ca \in [Versions -> Layouts \cup {NoLayout}]
    /\ \A v \in Versions : ca[v] # NoLayout => Sighted(L, doc.version, R, v, ca[v])

RowsInv(e, m, L, doc, snaps, s, R) ==
    RowsSighted(L, doc.version, R, e) /\ AtTop(e, m, doc.version, s, snaps)

PanelInv(p) == "selected" \in DOMAIN p /\ p.selected \in Versions \cup {None}

HistFits(L) ==
    /\ ShelfInv(L, current, undoRing, saves, rewound)
    /\ DOMAIN request = HistoryCalls
    /\ \A c \in HistoryCalls : RequestInv(request[c], L, current, undoRing, saves, rewound)
    /\ CacheInv(cached, L, current, rewound)
    /\ RowsInv(entries, listedAt, L, current, undoRing, saves, rewound)
    /\ PanelInv(panel)

\* What a shelf step has to carry over: what was seen stays what was seen, and
\* every moment up to now is past.
Carried(L, doc, s, R, K, doc2, s2, R2) ==
    /\ \A v, l : Sighted(L, doc.version, R, v, l) => Sighted(K, doc2.version, R2, v, l)
    /\ \A e : RowsSighted(L, doc.version, R, e) => RowsSighted(K, doc2.version, R2, e)
    /\ \A m \in Moments : Past(m, doc.version, s) \/ m = <<doc.version, s>> => Past(m, doc2.version, s2)

LEMMA RequestCarried ==
    ASSUME NEW L, NEW K, NEW doc, NEW doc2, NEW snaps, NEW snaps2, NEW s, NEW s2, NEW R, NEW R2,
           Carried(L, doc, s, R, K, doc2, s2, R2),
           NEW r, RequestInv(r, L, doc, snaps, s, R)
    PROVE  RequestInv(r, K, doc2, snaps2, s2, R2)
<1>1. (r.kind = "list" /\ r.stage = "served") => AtTop(r.answer, r.at, doc2.version, s2, snaps2)
  BY DEF RequestInv, AtTop, Carried
<1>2. (r.kind = "undo" /\ r.stage = "asked") => Undoable(r.shown, r.version, doc2.version, s2, snaps2, R2)
  BY DEF RequestInv, Undoable, Carried
<1> QED
  BY <1>1, <1>2 DEF RequestInv, Carried

LEMMA CacheCarried ==
    ASSUME NEW L, NEW K, NEW doc, NEW doc2, NEW s, NEW s2, NEW R, NEW R2,
           Carried(L, doc, s, R, K, doc2, s2, R2),
           NEW ca, CacheInv(ca, L, doc, R)
    PROVE  CacheInv(ca, K, doc2, R2)
  BY DEF CacheInv, Carried

LEMMA RowsCarried ==
    ASSUME NEW L, NEW K, NEW doc, NEW doc2, NEW snaps, NEW snaps2, NEW s, NEW s2, NEW R, NEW R2,
           Carried(L, doc, s, R, K, doc2, s2, R2),
           NEW e, NEW m, RowsInv(e, m, L, doc, snaps, s, R)
    PROVE  RowsInv(e, m, K, doc2, snaps2, s2, R2)
  BY DEF RowsInv, AtTop, Carried

\* The snapshots' versions are lower than the document's.
LEMMA RingBelow ==
    ASSUME NEW L, NEW doc, NEW snaps, NEW s, NEW R, ShelfInv(L, doc, snaps, s, R)
    PROVE  /\ doc.version \in Nat /\ Len(snaps) \in Nat
           /\ \A i \in 1..Len(snaps) : snaps[i] \in Docs /\ snaps[i].version \in Nat
                                     /\ snaps[i].version < doc.version
<1>1. MaxVersions \in Nat
  BY HistoryAssumption
<1>2. \A d \in Docs : d.version \in Nat
  BY <1>1 DEF Docs, Versions
<1>3. doc \in Docs /\ snaps \in Seq(Docs) /\ Len(snaps) \in Nat
  BY DEF ShelfInv
<1>4. \A i \in 1..Len(snaps) : snaps[i] \in Docs
  BY <1>3
<1>5. \A i \in 1..Len(snaps) : snaps[i].version + Len(snaps) + 1 = doc.version + i
  BY DEF ShelfInv
<1>6. ASSUME NEW i \in 1..Len(snaps) PROVE snaps[i].version < doc.version
  <2>1. snaps[i].version + Len(snaps) + 1 = doc.version + i
    BY <1>5
  <2>2. snaps[i].version \in Nat /\ doc.version \in Nat /\ Len(snaps) \in Nat /\ i <= Len(snaps) /\ i \in Nat
    BY <1>2, <1>3, <1>4
  <2> QED BY <2>1, <2>2
<1> QED
  BY <1>2, <1>3, <1>4, <1>6

\* A commit gives a version that was never seen, or that an undo gave free.
LEMMA CommitCarries ==
    ASSUME NEW L, NEW doc, NEW snaps, NEW s, NEW R, ShelfInv(L, doc, snaps, s, R),
           NEW l \in Layouts, doc.version < MaxVersions,
           NEW K, K = [L EXCEPT ![doc.version + 1] = l],
           NEW doc2, doc2 = [version |-> doc.version + 1, layout |-> l]
    PROVE  Carried(L, doc, s, R, K, doc2, s + 1, R)
<1>1. MaxVersions \in Nat
  BY HistoryAssumption
<1>2. /\ doc.version \in Nat /\ doc2.version = doc.version + 1 /\ doc2.version \in Versions
      /\ s \in Nat
  BY <1>1 DEF ShelfInv, Docs, Versions
<1>3. \A v \in Versions : v \in Nat
  BY <1>1 DEF Versions
<1>4. \A v \in Versions : v <= doc.version => K[v] = L[v]
  BY <1>2, <1>3 DEF ShelfInv
<1>5. ASSUME NEW v, NEW x, Sighted(L, doc.version, R, v, x)
      PROVE  Sighted(K, doc2.version, R, v, x)
  BY <1>2, <1>3, <1>4, <1>5 DEF Sighted
<1>6. ASSUME NEW e, RowsSighted(L, doc.version, R, e)
      PROVE  RowsSighted(K, doc2.version, R, e)
  <2>1. \A i \in 1..Len(e) : e[i].version \in Versions /\ (R = {} => e[i].version <= doc.version)
    BY <1>6 DEF RowsSighted
  <2>2. \A i \in 1..Len(e) : e[i].version \in Versions /\ (R = {} => e[i].version <= doc2.version)
    BY <1>2, <1>3, <2>1
  <2>3. ASSUME NEW i \in 1..Len(e) - 1
        PROVE  \E a, b \in Layouts :
                  /\ e[i].summary = Summary(Diff(a, b))
                  /\ R = {} => a = K[e[i + 1].version] /\ b = K[e[i].version]
    <3>1. i \in 1..Len(e) /\ i + 1 \in 1..Len(e)
      BY <1>6, <2>3 DEF RowsSighted
    <3>2. R = {} => K[e[i].version] = L[e[i].version] /\ K[e[i + 1].version] = L[e[i + 1].version]
      BY <1>4, <2>1, <3>1
    <3>3. PICK a, b \in Layouts :
                  /\ e[i].summary = Summary(Diff(a, b))
                  /\ R = {} => a = L[e[i + 1].version] /\ b = L[e[i].version]
      BY <1>6, <2>3 DEF RowsSighted
    <3> QED BY <3>2, <3>3
  <2> QED BY <1>6, <2>2, <2>3 DEF RowsSighted
<1>7. \A m \in Moments : Past(m, doc.version, s) \/ m = <<doc.version, s>> => Past(m, doc2.version, s + 1)
  BY <1>2 DEF Past, Moments
<1> QED
  BY <1>5, <1>6, <1>7 DEF Carried

\* Undo gives all versions above the one it goes back to free.
LEMMA UndoCarries ==
    ASSUME NEW L, NEW doc, NEW snaps, NEW s, NEW R, ShelfInv(L, doc, snaps, s, R), snaps # <<>>,
           NEW doc2, doc2 = snaps[Len(snaps)],
           NEW R2, R2 = R \cup {v \in Versions : v > doc2.version}
    PROVE  Carried(L, doc, s, R, L, doc2, s, R2)
<1>1. MaxVersions \in Nat
  BY HistoryAssumption
<1>2. Len(snaps) \in 1..Len(snaps)
  BY DEF ShelfInv
<1>3. /\ doc.version \in Nat /\ doc2.version \in Nat /\ doc2.version < doc.version /\ s \in Nat
      /\ doc.version \in Versions
  BY <1>2, RingBelow DEF ShelfInv, Docs
<1>4. \A v \in Versions : v \in Nat
  BY <1>1 DEF Versions
<1>5. ASSUME NEW v, NEW x, Sighted(L, doc.version, R, v, x)
      PROVE  Sighted(L, doc2.version, R2, v, x)
  BY <1>3, <1>4, <1>5 DEF Sighted
<1>6. R2 # {}
  BY <1>3
<1>7. ASSUME NEW e, RowsSighted(L, doc.version, R, e)
      PROVE  RowsSighted(L, doc2.version, R2, e)
  <2>1. \A i \in 1..Len(e) - 1 :
         \E a, b \in Layouts :
            /\ e[i].summary = Summary(Diff(a, b))
            /\ R2 = {} => a = L[e[i + 1].version] /\ b = L[e[i].version]
    BY <1>6, <1>7 DEF RowsSighted
  <2> QED BY <1>6, <1>7, <2>1 DEF RowsSighted
<1>8. \A m \in Moments : Past(m, doc.version, s) \/ m = <<doc.version, s>> => Past(m, doc2.version, s)
  BY <1>3 DEF Past, Moments
<1> QED
  BY <1>5, <1>7, <1>8 DEF Carried

\* The ring after a commit, before the oldest snapshot goes.
LEMMA GrownRing ==
    ASSUME NEW snaps \in Seq(Docs), NEW doc \in Docs
    PROVE  /\ Append(snaps, doc) \in Seq(Docs)
           /\ Len(Append(snaps, doc)) = Len(snaps) + 1
           /\ \A i \in 1..Len(snaps) : Append(snaps, doc)[i] = snaps[i]
           /\ Append(snaps, doc)[Len(snaps) + 1] = doc
  OBVIOUS

\* The snapshots are numbered in one row up to the document.
Numbered(snaps, n) == \A i \in 1..Len(snaps) : snaps[i].version + Len(snaps) + 1 = n + i

LEMMA CommitNumbers ==
    ASSUME NEW snaps \in Seq(Docs), NEW doc \in Docs, Numbered(snaps, doc.version),
           NEW grown, grown = Append(snaps, doc)
    PROVE  /\ Numbered(grown, doc.version + 1)
           /\ Numbered(Tail(grown), doc.version + 1)
<1>1. /\ grown \in Seq(Docs) /\ Len(grown) = Len(snaps) + 1 /\ Len(snaps) \in Nat
      /\ \A i \in 1..Len(snaps) : grown[i] = snaps[i]
      /\ grown[Len(snaps) + 1] = doc
  BY GrownRing
<1>2. doc.version \in Nat /\ \A d \in Docs : d.version \in Nat
  BY HistoryAssumption DEF Docs, Versions
<1>3. Numbered(grown, doc.version + 1)
  <2> SUFFICES ASSUME NEW i \in 1..Len(grown)
               PROVE  grown[i].version + Len(grown) + 1 = doc.version + 1 + i
    BY DEF Numbered
  <2>1. CASE i = Len(snaps) + 1
    BY <1>1, <1>2, <2>1
  <2>2. CASE i \in 1..Len(snaps)
    <3>1. grown[i] = snaps[i] /\ snaps[i] \in Docs /\ snaps[i].version \in Nat
      BY <1>1, <1>2, <2>2
    <3>2. snaps[i].version + Len(snaps) + 1 = doc.version + i
      BY <2>2 DEF Numbered
    <3>3. Len(snaps) \in Nat /\ i \in Nat /\ doc.version \in Nat
      BY <1>1, <1>2
    <3>4. snaps[i].version + (Len(snaps) + 1) + 1 = doc.version + 1 + i
      <4> DEFINE x == snaps[i].version
                 n == Len(snaps)
                 d == doc.version
      <4>1. x \in Nat /\ n \in Nat /\ d \in Nat /\ i \in Nat /\ x + n + 1 = d + i
        BY <3>1, <3>2, <3>3
      <4> HIDE DEF x, n, d
      <4>2. x + (n + 1) + 1 = d + 1 + i
        BY <4>1
      <4> QED BY <4>2 DEF x, n, d
    <3> QED BY <1>1, <3>1, <3>4
  <2> QED BY <1>1, <2>1, <2>2
<1>4. Numbered(Tail(grown), doc.version + 1)
  <2>1. grown # <<>> /\ Len(Tail(grown)) = Len(grown) - 1
    BY <1>1
  <2> SUFFICES ASSUME NEW i \in 1..Len(Tail(grown))
               PROVE  Tail(grown)[i].version + Len(Tail(grown)) + 1 = doc.version + 1 + i
    BY DEF Numbered
  <2>2. i + 1 \in 1..Len(grown) /\ Tail(grown)[i] = grown[i + 1]
    BY <1>1, <2>1
  <2>3. grown[i + 1].version + Len(grown) + 1 = doc.version + 1 + (i + 1)
    BY <1>3, <2>2 DEF Numbered
  <2>4. grown[i + 1] \in Docs /\ grown[i + 1].version \in Nat
    BY <1>1, <1>2, <2>2
  <2>5. Len(Tail(grown)) \in Nat /\ i \in Nat /\ doc.version + 1 \in Nat /\ Len(grown) = Len(Tail(grown)) + 1
      /\ i + 1 \in Nat /\ Len(grown) \in Nat
    BY <1>1, <1>2, <2>1
  <2>6. grown[i + 1].version + Len(Tail(grown)) + 1 = doc.version + 1 + i
    <3> DEFINE x == grown[i + 1].version
               n == Len(grown)
               k == Len(Tail(grown))
               d == doc.version
    <3>1. x \in Nat /\ n \in Nat /\ d \in Nat /\ i \in Nat /\ k \in Nat /\ n = k + 1
          /\ x + n + 1 = d + 1 + (i + 1)
      BY <1>2, <2>3, <2>4, <2>5
    <3> HIDE DEF x, n, k, d
    <3>2. x + k + 1 = d + 1 + i
      BY <3>1
    <3> QED BY <3>2 DEF x, k, d
  <2> QED BY <2>2, <2>6
<1> QED
  BY <1>3, <1>4

LEMMA ShelfCommit ==
    ASSUME NEW L, NEW doc, NEW snaps, NEW s, NEW R, ShelfInv(L, doc, snaps, s, R),
           NEW l \in Layouts, doc.version < MaxVersions,
           NEW K, K = [L EXCEPT ![doc.version + 1] = l],
           NEW doc2, doc2 = [version |-> doc.version + 1, layout |-> l],
           NEW grown, grown = Append(snaps, doc),
           NEW snaps2, snaps2 \in {grown, Tail(grown)}
    PROVE  ShelfInv(K, doc2, snaps2, s + 1, R)
<1>1. Carried(L, doc, s, R, K, doc2, s + 1, R)
  BY CommitCarries
<1>2. /\ L \in [Versions -> Layouts] /\ doc \in Docs /\ snaps \in Seq(Docs) /\ s \in Nat
      /\ R \subseteq Versions /\ Numbered(snaps, doc.version)
  BY DEF ShelfInv, Numbered
<1>3. /\ Numbered(grown, doc.version + 1) /\ Numbered(Tail(grown), doc.version + 1)
  BY <1>2, CommitNumbers
<1>4. MaxVersions \in Nat
  BY HistoryAssumption
<1>5. doc.version + 1 \in Versions /\ doc2 \in Docs /\ doc2.version = doc.version + 1 /\ doc2.layout = l
  BY <1>2, <1>4 DEF Docs, Versions
<1>6. K \in [Versions -> Layouts] /\ K[doc.version + 1] = l
  BY <1>2, <1>5
<1>7. /\ grown \in Seq(Docs) /\ Len(grown) = Len(snaps) + 1 /\ Len(snaps) \in Nat
      /\ \A i \in 1..Len(snaps) : grown[i] = snaps[i]
      /\ grown[Len(snaps) + 1] = doc
  BY <1>2, GrownRing
<1>8. grown # <<>> /\ Tail(grown) \in Seq(Docs) /\ Len(Tail(grown)) = Len(grown) - 1
  BY <1>7
<1>9. Sighted(K, doc2.version, R, doc2.version, doc2.layout)
  <2>1. doc2.version \in Nat
    BY <1>4, <1>5 DEF Versions
  <2> QED BY <1>5, <1>6, <2>1 DEF Sighted
<1>10. ASSUME NEW i \in 1..Len(grown)
       PROVE  Sighted(K, doc2.version, R, grown[i].version, grown[i].layout)
  <2>1. Sighted(L, doc.version, R, grown[i].version, grown[i].layout)
    <3>1. CASE i = Len(snaps) + 1
      BY <1>7, <3>1 DEF ShelfInv
    <3>2. CASE i \in 1..Len(snaps)
      <4>1. Sighted(L, doc.version, R, snaps[i].version, snaps[i].layout)
        BY <3>2 DEF ShelfInv
      <4> QED BY <1>7, <3>2, <4>1
    <3> QED BY <1>7, <3>1, <3>2
  <2> QED BY <1>1, <2>1 DEF Carried
<1>11. ASSUME NEW i \in 1..Len(Tail(grown))
       PROVE  Sighted(K, doc2.version, R, Tail(grown)[i].version, Tail(grown)[i].layout)
  <2>1. i + 1 \in 1..Len(grown) /\ Tail(grown)[i] = grown[i + 1]
    <3>1. grown \in Seq(Docs) /\ grown # <<>>
      BY <1>7, <1>8
    <3> QED BY <3>1
  <2>2. Sighted(K, doc2.version, R, grown[i + 1].version, grown[i + 1].layout)
    BY <1>10, <2>1
  <2> QED BY <2>1, <2>2
<1>12. s + 1 \in Nat
  BY <1>2
<1>13. CASE snaps2 = grown
  BY <1>2, <1>3, <1>5, <1>6, <1>7, <1>9, <1>10, <1>12, <1>13 DEF ShelfInv, Numbered
<1>14. CASE snaps2 = Tail(grown)
  BY <1>2, <1>3, <1>5, <1>6, <1>8, <1>9, <1>11, <1>12, <1>14 DEF ShelfInv, Numbered
<1> QED
  BY <1>13, <1>14

LEMMA ShelfUndo ==
    ASSUME NEW L, NEW doc, NEW snaps, NEW s, NEW R, ShelfInv(L, doc, snaps, s, R), snaps # <<>>,
           NEW doc2, doc2 = snaps[Len(snaps)],
           NEW snaps2, snaps2 \in Seq(Docs), Len(snaps2) = Len(snaps) - 1,
           \A i \in 1..Len(snaps2) : snaps2[i] = snaps[i],
           NEW R2, R2 = R \cup {v \in Versions : v > doc2.version}
    PROVE  ShelfInv(L, doc2, snaps2, s, R2)
<1>1. Carried(L, doc, s, R, L, doc2, s, R2)
  BY UndoCarries
<1>2. /\ L \in [Versions -> Layouts] /\ doc \in Docs /\ snaps \in Seq(Docs) /\ s \in Nat
      /\ R \subseteq Versions /\ Numbered(snaps, doc.version)
  BY DEF ShelfInv, Numbered
<1>3. Len(snaps) \in Nat /\ Len(snaps) \in 1..Len(snaps) /\ 1..Len(snaps2) \subseteq 1..Len(snaps)
  BY <1>2
<1>4. doc2 \in Docs /\ R2 \subseteq Versions
  BY <1>2, <1>3
<1>5. \A d \in Docs : d.version \in Nat
  BY HistoryAssumption DEF Docs, Versions
<1>6. doc2.version + Len(snaps) + 1 = doc.version + Len(snaps)
  <2>1. \A i \in 1..Len(snaps) : snaps[i].version + Len(snaps) + 1 = doc.version + i
    BY <1>2 DEF Numbered
  <2> QED BY <1>3, <2>1
<1>7. doc2.version + 1 = doc.version
  <2>1. doc2.version \in Nat /\ doc.version \in Nat /\ Len(snaps) \in Nat
    BY <1>2, <1>3, <1>4, <1>5
  <2> DEFINE n == Len(snaps)
             d == doc.version
             e == doc2.version
  <2>2. n \in Nat /\ d \in Nat /\ e \in Nat /\ e + n + 1 = d + n
    BY <1>6, <2>1
  <2> HIDE DEF n, d, e
  <2>3. e + 1 = d
    BY <2>2
  <2> QED BY <2>3 DEF d, e
<1>8. Numbered(snaps2, doc2.version)
  <2> SUFFICES ASSUME NEW i \in 1..Len(snaps2)
               PROVE  snaps2[i].version + Len(snaps2) + 1 = doc2.version + i
    BY DEF Numbered
  <2>1. i \in 1..Len(snaps) /\ snaps2[i] = snaps[i]
    BY <1>3
  <2>2. snaps[i].version + Len(snaps) + 1 = doc.version + i
    BY <1>2, <2>1 DEF Numbered
  <2>3. snaps[i].version \in Nat
    BY <1>2, <1>5, <2>1
  <2>4. /\ Len(snaps) \in Nat /\ i \in Nat /\ doc.version \in Nat /\ doc2.version \in Nat
        /\ Len(snaps2) \in Nat /\ Len(snaps) = Len(snaps2) + 1
    BY <1>2, <1>3, <1>4, <1>5
  <2>5. snaps[i].version + Len(snaps2) + 1 = doc2.version + i
    <3> DEFINE x == snaps[i].version
               n == Len(snaps)
               k == Len(snaps2)
               d == doc.version
               e == doc2.version
    <3>1. x \in Nat /\ n \in Nat /\ d \in Nat /\ e \in Nat /\ i \in Nat /\ k \in Nat /\ n = k + 1
          /\ e + 1 = d /\ x + n + 1 = d + i
      BY <1>7, <2>2, <2>3, <2>4
    <3> HIDE DEF x, n, k, d, e
    <3>2. x + k + 1 = e + i
      BY <3>1
    <3> QED BY <3>2 DEF x, k, e
  <2> QED BY <2>1, <2>5
<1>9. \A i \in 1..Len(snaps) : Sighted(L, doc2.version, R2, snaps[i].version, snaps[i].layout)
  BY <1>1 DEF ShelfInv, Carried
<1>10. Sighted(L, doc2.version, R2, doc2.version, doc2.layout)
  BY <1>3, <1>9
<1>11. \A i \in 1..Len(snaps2) : Sighted(L, doc2.version, R2, snaps2[i].version, snaps2[i].layout)
  BY <1>3, <1>9
<1> QED
  BY <1>2, <1>4, <1>8, <1>10, <1>11 DEF ShelfInv, Numbered

\* The ring without its newest snapshot.
LEMMA FrontOf ==
    ASSUME NEW snaps \in Seq(Docs), snaps # <<>>
    PROVE  /\ Front(snaps) \in Seq(Docs) /\ Len(Front(snaps)) = Len(snaps) - 1
           /\ \A i \in 1..Len(Front(snaps)) : Front(snaps)[i] = snaps[i]
           /\ Last(snaps) = snaps[Len(snaps)]
<1>1. Len(snaps) \in Nat \ {0} /\ Len(snaps) - 1 \in Nat
  OBVIOUS
<1>2. \A i \in 1..Len(snaps) - 1 : snaps[i] \in Docs
  OBVIOUS
<1>3. Front(snaps) = [i \in 1..Len(snaps) - 1 |-> snaps[i]]
  BY <1>1 DEF Front
<1>4. Last(snaps) = snaps[Len(snaps)]
  BY DEF Last
<1> QED
  BY <1>1, <1>2, <1>3, <1>4

-----------------------------------------------------------------------------
\* The store answers for a version with what that version was.
LEMMA SnapshotSeen ==
    ASSUME NEW L, ShelfInv(L, current, undoRing, saves, rewound),
           NEW v, SnapshotOf(v) # NoLayout
    PROVE  Sighted(L, current.version, rewound, v, SnapshotOf(v))
<1> DEFINE found == {i \in 1..Len(undoRing) : undoRing[i].version = v}
           one == CHOOSE i \in found : TRUE
<1>1. found # {} /\ SnapshotOf(v) = undoRing[one].layout
  BY DEF SnapshotOf
<1>2. one \in found
  BY <1>1
<1> HIDE DEF one
<1>3. one \in 1..Len(undoRing) /\ undoRing[one].version = v
  BY <1>2
<1>4. Sighted(L, current.version, rewound, undoRing[one].version, undoRing[one].layout)
  BY <1>3 DEF ShelfInv
<1> QED
  BY <1>1, <1>3, <1>4

\* A row of the listing, for the ringhot that stands k-th from the end.
RowOf(snaps, i) ==
    [version |-> snaps[Len(snaps) - i + 1].version,
     summary |-> IF i = Len(snaps) THEN NoSummary
                 ELSE Summary(Diff(snaps[Len(snaps) - i].layout, snaps[Len(snaps) - i + 1].layout))]

LEMMA RowFields ==
    ASSUME NEW snaps, NEW i
    PROVE  /\ RowOf(snaps, i).version = snaps[Len(snaps) - i + 1].version
           /\ i # Len(snaps) => RowOf(snaps, i).summary
                = Summary(Diff(snaps[Len(snaps) - i].layout, snaps[Len(snaps) - i + 1].layout))
  BY DEF RowOf

LEMMA ListingRows ==
    ASSUME undoRing \in Seq(Docs)
    PROVE  /\ Listing = [i \in 1..Len(undoRing) |-> RowOf(undoRing, i)]
           /\ Len(Listing) = Len(undoRing)
<1> DEFINE n == Len(undoRing)
           newest == Reverse(undoRing)
<1>1. n \in Nat
  OBVIOUS
<1>2. newest = [i \in 1..n |-> undoRing[(n - i) + 1]]
  BY DEF Reverse
<1>3. Len(newest) = n
  BY <1>1, <1>2
<1>4. ASSUME NEW i \in 1..n
      PROVE  [version |-> newest[i].version,
              summary |-> IF i = Len(newest) THEN NoSummary
                          ELSE Summary(Diff(newest[i + 1].layout, newest[i].layout))] = RowOf(undoRing, i)
  <2>1. newest[i] = undoRing[(n - i) + 1]
    BY <1>2
  <2>2. CASE i = n
    BY <1>3, <2>1, <2>2 DEF RowOf
  <2>3. CASE i # n
    <3>1. i + 1 \in 1..n /\ (n - (i + 1)) + 1 = n - i
      BY <1>1, <2>3
    <3>2. newest[i + 1] = undoRing[n - i]
      BY <1>2, <3>1
    <3> QED BY <1>3, <2>1, <2>3, <3>2 DEF RowOf
  <2> QED BY <2>2, <2>3
<1>5. Listing = [i \in 1..Len(newest) |->
             [version |-> newest[i].version,
              summary |-> IF i = Len(newest) THEN NoSummary
                          ELSE Summary(Diff(newest[i + 1].layout, newest[i].layout))]]
  BY Zenon DEF Listing
<1> HIDE DEF newest
<1>6. Listing = [i \in 1..n |-> RowOf(undoRing, i)]
  BY <1>3, <1>4, <1>5
<1>7. Len(Listing) = n
  BY <1>1, <1>6
<1> QED
  BY <1>6, <1>7

LEMMA ListingSeen ==
    ASSUME NEW L, ShelfInv(L, current, undoRing, saves, rewound)
    PROVE  RowsInv(Listing, Moment, L, current, undoRing, saves, rewound)
<1> DEFINE n == Len(undoRing)
<1>1. undoRing \in Seq(Docs) /\ n \in Nat
  BY DEF ShelfInv
<1>2. /\ Listing = [i \in 1..n |-> RowOf(undoRing, i)]
      /\ Len(Listing) = n
  BY <1>1, ListingRows
<1>3. \A i \in 1..n : Listing[i].version = undoRing[n - i + 1].version /\ n - i + 1 \in 1..n
  <2> TAKE i \in 1..n
  <2>1. Listing[i] = RowOf(undoRing, i)
    BY <1>2
  <2>2. Listing[i].version = undoRing[n - i + 1].version
    BY <2>1, RowFields, Zenon DEF n
  <2>3. n - i + 1 \in 1..n
    BY <1>1
  <2> QED BY <2>2, <2>3
<1>4. ASSUME NEW i \in 1..n - 1
      PROVE  /\ Listing[i].summary
                  = Summary(Diff(undoRing[n - i].layout, undoRing[n - i + 1].layout))
             /\ Listing[i + 1].version = undoRing[n - i].version
             /\ Listing[i].version = undoRing[n - i + 1].version
             /\ n - i \in 1..n /\ n - i + 1 \in 1..n
  <2>1. i \in 1..n /\ i # n /\ i + 1 \in 1..n /\ n - (i + 1) + 1 = n - i
    BY <1>1
  <2>2. Listing[i] = RowOf(undoRing, i) /\ Listing[i + 1] = RowOf(undoRing, i + 1)
    <3> HIDE DEF n
    <3> QED BY <1>2, <2>1
  <2>3. Listing[i + 1].version = undoRing[n - i].version
    <3>1. RowOf(undoRing, i + 1).version = undoRing[n - (i + 1) + 1].version
      BY RowFields, Zenon DEF n
    <3> HIDE DEF n
    <3> QED BY <2>1, <2>2, <3>1
  <2>4. Listing[i].summary = Summary(Diff(undoRing[n - i].layout, undoRing[n - i + 1].layout))
    <3>1. i # n => RowOf(undoRing, i).summary
                     = Summary(Diff(undoRing[n - i].layout, undoRing[n - i + 1].layout))
      BY RowFields, Zenon DEF n
    <3> QED BY <2>1, <2>2, <3>1, Zenon
  <2>5. n - i \in 1..n /\ n - i + 1 \in 1..n
    BY <1>1
  <2> QED BY <1>3, <2>1, <2>3, <2>4, <2>5
<1>5. \A i \in 1..n : Sighted(L, current.version, rewound, undoRing[i].version, undoRing[i].layout)
  BY DEF ShelfInv
<1> HIDE DEF n
<1>6. \A i \in 1..n : /\ undoRing[i].version \in Versions /\ undoRing[i].layout \in Layouts
                      /\ rewound = {} => /\ undoRing[i].layout = L[undoRing[i].version]
                                         /\ undoRing[i].version <= current.version
  BY <1>5 DEF Sighted
<1>7. Listing # <<>> => n # 0
  BY <1>1, <1>2
<1>8. \A i \in 1..n : Listing[i].version \in Versions
                      /\ (rewound = {} => Listing[i].version <= current.version)
  BY <1>3, <1>6
<1>9. ASSUME NEW i \in 1..n - 1
      PROVE  \E a, b \in Layouts :
               /\ Listing[i].summary = Summary(Diff(a, b))
               /\ rewound = {} => a = L[Listing[i + 1].version] /\ b = L[Listing[i].version]
  BY <1>4, <1>6
<1>10. RowsSighted(L, current.version, rewound, Listing)
  BY <1>1, <1>2, <1>7, <1>8, <1>9 DEF RowsSighted
<1>11. Moment = <<current.version, saves>> /\ Moment \in Moments
  BY RingBelow DEF Moment, Moments, ShelfInv
<1>12. Listing # <<>> => undoRing # <<>> /\ Listing[1].version = undoRing[n].version
  <2>1. n # 0 => 1 \in 1..n /\ n - 1 + 1 = n /\ undoRing # <<>>
    BY <1>1 DEF n
  <2> QED BY <1>3, <1>7, <2>1
<1> QED
  BY <1>10, <1>11, <1>12 DEF RowsInv, AtTop, n

\* A call that asks changes one request, to one that asks.
LEMMA AskedOne ==
    ASSUME NEW calls, DOMAIN calls = HistoryCalls, NEW kind, NEW version, NEW shown,
           Asks(calls, kind, version, shown)
    PROVE  /\ DOMAIN request' = HistoryCalls
           /\ \A d \in HistoryCalls :
                \/ request'[d] = calls[d]
                \/ request'[d] = [kind |-> kind, version |-> version, shown |-> shown, stage |-> "asked"]
  BY DEF Asks

LEMMA EnsuredOne ==
    ASSUME NEW calls, DOMAIN calls = HistoryCalls, NEW version, EnsureSnapshot(calls, version)
    PROVE  /\ DOMAIN request' = HistoryCalls
           /\ \A d \in HistoryCalls :
                \/ request'[d] = calls[d]
                \/ /\ version # None
                   /\ request'[d] = [kind |-> "get", version |-> version, shown |-> NoLayout, stage |-> "asked"]
  BY AskedOne DEF EnsureSnapshot

\* Requests that say nothing of the store yet.
LEMMA FreshRequest ==
    ASSUME NEW L, NEW doc, NEW snaps, NEW s, NEW R
    PROVE  /\ RequestInv(Idle, L, doc, snaps, s, R)
           /\ RequestInv([kind |-> "list", version |-> None, shown |-> NoLayout, stage |-> "asked"],
                         L, doc, snaps, s, R)
           /\ \A v \in Versions :
                RequestInv([kind |-> "get", version |-> v, shown |-> NoLayout, stage |-> "asked"],
                           L, doc, snaps, s, R)
  BY DEF RequestInv, Idle

\* A step of the page or of a call that leaves the store alone.
LEMMA PageStep ==
    ASSUME NEW L, HistFits(L), UNCHANGED <<current, undoRing, saves, rewound>>,
           DOMAIN request' = HistoryCalls,
           \A c \in HistoryCalls : RequestInv(request'[c], L, current, undoRing, saves, rewound),
           CacheInv(cached', L, current, rewound),
           RowsInv(entries', listedAt', L, current, undoRing, saves, rewound),
           PanelInv(panel')
    PROVE  HistFits(L)'
<1>1. current' = current /\ undoRing' = undoRing /\ saves' = saves /\ rewound' = rewound
  OBVIOUS
<1>2. ShelfInv(L, current', undoRing', saves', rewound')
  BY <1>1 DEF HistFits
<1>3. \A c \in HistoryCalls : RequestInv(request'[c], L, current', undoRing', saves', rewound')
  BY <1>1
<1>4. CacheInv(cached', L, current', rewound')
  BY <1>1
<1>5. RowsInv(entries', listedAt', L, current', undoRing', saves', rewound')
  BY <1>1
<1> QED
  BY <1>2, <1>3, <1>4, <1>5 DEF HistFits

\* What the invariant says of an unprimed state, for the steps below.
LEMMA Fitting ==
    ASSUME NEW L, HistFits(L)
    PROVE  /\ ShelfInv(L, current, undoRing, saves, rewound)
           /\ DOMAIN request = HistoryCalls
           /\ \A c \in HistoryCalls : RequestInv(request[c], L, current, undoRing, saves, rewound)
           /\ CacheInv(cached, L, current, rewound)
           /\ RowsInv(entries, listedAt, L, current, undoRing, saves, rewound)
           /\ PanelInv(panel)
  BY DEF HistFits

\* A step that changes the store and leaves the page and its calls alone.
LEMMA ShelfStep ==
    ASSUME NEW L, HistFits(L), NEW K,
           ShelfInv(K, current', undoRing', saves', rewound'),
           Carried(L, current, saves, rewound, K, current', saves', rewound'),
           UNCHANGED <<panel, entries, cached, request, listedAt>>
    PROVE  HistFits(K)'
<1>1. panel' = panel /\ entries' = entries /\ cached' = cached /\ request' = request /\ listedAt' = listedAt
  OBVIOUS
<1>2. \A c \in HistoryCalls : RequestInv(request[c], K, current', undoRing', saves', rewound')
  BY Fitting, RequestCarried
<1>3. CacheInv(cached, K, current', rewound')
  BY Fitting, CacheCarried
<1>4. RowsInv(entries, listedAt, K, current', undoRing', saves', rewound')
  BY Fitting, RowsCarried
<1>5. DOMAIN request = HistoryCalls /\ PanelInv(panel)
  BY Fitting
<1> QED
  BY <1>1, <1>2, <1>3, <1>4, <1>5 DEF HistFits

LEMMA CommitKeepsHistory ==
    ASSUME NEW L, HistFits(L), CommitLayout
    PROVE  \E K : HistFits(K)'
<1>1. PICK l \in Layouts : current' = [version |-> current.version + 1, layout |-> l]
  BY DEF CommitLayout
<1>2. PICK K : K = [L EXCEPT ![current.version + 1] = l]
  OBVIOUS
<1> DEFINE grown == Append(undoRing, current)
<1>3. ShelfInv(L, current, undoRing, saves, rewound)
  BY Fitting
<1>4. current.version < MaxVersions
  BY DEF CommitLayout
<1>5. saves' = saves + 1 /\ rewound' = rewound
  BY DEF CommitLayout, shelfHistory
<1>6. undoRing' \in {grown, Tail(grown)}
  BY DEF CommitLayout
<1> HIDE DEF grown
<1>7. ShelfInv(K, current', undoRing', saves + 1, rewound)
  BY <1>1, <1>2, <1>3, <1>4, <1>6, ShelfCommit DEF grown
<1>8. Carried(L, current, saves, rewound, K, current', saves + 1, rewound)
  BY <1>1, <1>2, <1>3, <1>4, CommitCarries
<1>9. UNCHANGED <<panel, entries, cached, request, listedAt>>
  BY DEF CommitLayout
<1>10. /\ ShelfInv(K, current', undoRing', saves', rewound')
       /\ Carried(L, current, saves, rewound, K, current', saves', rewound')
  BY <1>5, <1>7, <1>8, Zenon
<1>11. HistFits(K)'
  BY <1>9, <1>10, ShelfStep
<1> QED
  BY <1>11

LEMMA UndoShelf ==
    ASSUME NEW L, ShelfInv(L, current, undoRing, saves, rewound), UndoNewest
    PROVE  /\ ShelfInv(L, current', undoRing', saves', rewound')
           /\ Carried(L, current, saves, rewound, L, current', saves', rewound')
<1>1. undoRing \in Seq(Docs) /\ undoRing # <<>>
  BY DEF ShelfInv, UndoNewest
<1>2. /\ current' = undoRing[Len(undoRing)] /\ undoRing' = Front(undoRing) /\ saves' = saves
      /\ rewound' = rewound \cup {v \in Versions : v > current'.version}
  BY <1>1, FrontOf DEF UndoNewest
<1>3. /\ undoRing' \in Seq(Docs) /\ Len(undoRing') = Len(undoRing) - 1
      /\ \A i \in 1..Len(undoRing') : undoRing'[i] = undoRing[i]
  BY <1>1, <1>2, FrontOf
<1>4. ShelfInv(L, current', undoRing', saves, rewound')
  BY <1>1, <1>2, <1>3, ShelfUndo
<1>5. Carried(L, current, saves, rewound, L, current', saves, rewound')
  BY <1>1, <1>2, UndoCarries
<1> QED
  BY <1>2, <1>4, <1>5

LEMMA UndoKeepsHistory ==
    ASSUME NEW L, HistFits(L), UndoElsewhere
    PROVE  HistFits(L)'
<1>1. ShelfInv(L, current, undoRing, saves, rewound)
  BY Fitting
<1>2. UNCHANGED <<panel, entries, cached, request, listedAt>> /\ UndoNewest
  BY DEF UndoElsewhere
<1> QED
  BY <1>1, <1>2, UndoShelf, ShelfStep

LEMMA OpenKeepsHistory ==
    ASSUME NEW L, HistFits(L), OpenHistory
    PROVE  HistFits(L)'
<1>1. UNCHANGED <<current, undoRing, saves, rewound, entries, cached, listedAt>>
  BY DEF OpenHistory, shelf, shelfHistory
<1>2. Asks(request, "list", None, NoLayout)
  BY DEF OpenHistory
<1>3. /\ DOMAIN request' = HistoryCalls
      /\ \A c \in HistoryCalls :
           \/ request'[c] = request[c]
           \/ request'[c] = [kind |-> "list", version |-> None, shown |-> NoLayout, stage |-> "asked"]
  BY <1>2, Fitting, AskedOne
<1>4. \A c \in HistoryCalls : RequestInv(request'[c], L, current, undoRing, saves, rewound)
  BY <1>3, Fitting, FreshRequest
<1>5. PanelInv(panel')
  BY Fitting DEF OpenHistory, PanelInv
<1>6. CacheInv(cached', L, current, rewound) /\ RowsInv(entries', listedAt', L, current, undoRing, saves, rewound)
  BY <1>1, Fitting
<1> QED
  BY <1>1, <1>3, <1>4, <1>5, <1>6, PageStep

LEMMA CloseKeepsHistory ==
    ASSUME NEW L, HistFits(L), CloseHistory \/ ArmRestore
    PROVE  HistFits(L)'
<1>1. UNCHANGED <<current, undoRing, saves, rewound, entries, cached, listedAt, request>>
  BY DEF CloseHistory, ArmRestore, shelf, shelfHistory
<1>2. PanelInv(panel')
  BY Fitting DEF CloseHistory, ArmRestore, PanelInv
<1>3. CacheInv(cached', L, current, rewound) /\ RowsInv(entries', listedAt', L, current, undoRing, saves, rewound)
  BY <1>1, Fitting
<1>4. /\ DOMAIN request' = HistoryCalls
      /\ \A c \in HistoryCalls : RequestInv(request'[c], L, current, undoRing, saves, rewound)
  BY <1>1, Fitting
<1> QED
  BY <1>1, <1>2, <1>3, <1>4, PageStep

\* Ensuring a body of a version asks nothing but for that version.
LEMMA EnsuredFits ==
    ASSUME NEW L, NEW calls, DOMAIN calls = HistoryCalls, NEW version \in Versions \cup {None},
           EnsureSnapshot(calls, version),
           \A c \in HistoryCalls : RequestInv(calls[c], L, current, undoRing, saves, rewound)
    PROVE  /\ DOMAIN request' = HistoryCalls
           /\ \A c \in HistoryCalls : RequestInv(request'[c], L, current, undoRing, saves, rewound)
<1>1. /\ DOMAIN request' = HistoryCalls
      /\ \A d \in HistoryCalls :
                \/ request'[d] = calls[d]
                \/ /\ version # None
                   /\ request'[d] = [kind |-> "get", version |-> version, shown |-> NoLayout, stage |-> "asked"]
  BY EnsuredOne
<1>2. version # None => version \in Versions
  OBVIOUS
<1> QED
  BY <1>1, <1>2, FreshRequest

LEMMA SelectKeepsHistory ==
    ASSUME NEW L, HistFits(L), SelectVersion
    PROVE  HistFits(L)'
<1>1. UNCHANGED <<current, undoRing, saves, rewound, entries, cached, listedAt>>
  BY DEF SelectVersion, shelf, shelfHistory
<1>2. PICK i \in 1..Len(entries) :
         /\ panel' = [panel EXCEPT !.selected = entries[i].version]
         /\ EnsureSnapshot(request, entries[i].version)
  BY DEF SelectVersion
<1>3. entries[i].version \in Versions
  BY Fitting DEF RowsInv, RowsSighted
<1>4. /\ DOMAIN request' = HistoryCalls
      /\ \A c \in HistoryCalls : RequestInv(request'[c], L, current, undoRing, saves, rewound)
  BY <1>2, <1>3, Fitting, EnsuredFits
<1>5. PanelInv(panel')
  BY <1>2, <1>3, Fitting DEF PanelInv
<1>6. CacheInv(cached', L, current, rewound) /\ RowsInv(entries', listedAt', L, current, undoRing, saves, rewound)
  BY <1>1, Fitting
<1> QED
  BY <1>1, <1>4, <1>5, <1>6, PageStep

\* The newest version's shown body is the newest snapshot, when nothing happened since.
LEMMA ShownIsNewest ==
    ASSUME NEW L, HistFits(L), RestoreOffered
    PROVE  Undoable(cached[panel.selected], listedAt, current.version, saves, undoRing, rewound)
<1> DEFINE v == panel.selected
           n == Len(undoRing)
<1>1. /\ v # None /\ cached[v] # NoLayout /\ entries # <<>> /\ v = entries[1].version
  BY DEF RestoreOffered, NewestSelected
<1>2. v \in Versions
  BY <1>1, Fitting DEF PanelInv
<1>3. Sighted(L, current.version, rewound, v, cached[v])
  BY <1>1, <1>2, Fitting DEF CacheInv
<1>4. AtTop(entries, listedAt, current.version, saves, undoRing)
  BY Fitting DEF RowsInv
<1>5. undoRing # <<>> => n \in 1..n
  BY Fitting DEF ShelfInv
<1>6. undoRing # <<>> => Sighted(L, current.version, rewound, undoRing[n].version, undoRing[n].layout)
  BY <1>5, Fitting DEF ShelfInv
<1> QED
  BY <1>1, <1>3, <1>4, <1>6 DEF AtTop, Undoable, Sighted

LEMMA ConfirmKeepsHistory ==
    ASSUME NEW L, HistFits(L), ConfirmRestore
    PROVE  HistFits(L)'
<1>1. UNCHANGED <<current, undoRing, saves, rewound, entries, cached, listedAt>>
  BY DEF ConfirmRestore, shelf, shelfHistory
<1>2. Asks(request, "undo", listedAt, cached[panel.selected]) /\ RestoreOffered
  BY DEF ConfirmRestore
<1>3. /\ DOMAIN request' = HistoryCalls
      /\ \A c \in HistoryCalls :
           \/ request'[c] = request[c]
           \/ request'[c] = [kind |-> "undo", version |-> listedAt, shown |-> cached[panel.selected],
                             stage |-> "asked"]
  BY <1>2, Fitting, AskedOne
<1>4. RequestInv([kind |-> "undo", version |-> listedAt, shown |-> cached[panel.selected], stage |-> "asked"],
                 L, current, undoRing, saves, rewound)
  BY <1>2, ShownIsNewest DEF RequestInv
<1>5. \A c \in HistoryCalls : RequestInv(request'[c], L, current, undoRing, saves, rewound)
  BY <1>3, <1>4, Fitting
<1>6. PanelInv(panel')
  BY Fitting DEF ConfirmRestore, PanelInv
<1>7. CacheInv(cached', L, current, rewound) /\ RowsInv(entries', listedAt', L, current, undoRing, saves, rewound)
  BY <1>1, Fitting
<1> QED
  BY <1>1, <1>3, <1>5, <1>6, <1>7, PageStep

\* The request a host has served.
ServedOne(r, answer, at) ==
    [kind |-> r.kind, version |-> r.version, stage |-> "served", answer |-> answer, at |-> at]

LEMMA ServedRequests ==
    ASSUME DOMAIN request = HistoryCalls, NEW c \in HistoryCalls, NEW answer, Served(c, answer)
    PROVE  /\ DOMAIN request' = HistoryCalls
           /\ request'[c] = ServedOne(request[c], answer, Moment')
           /\ \A d \in HistoryCalls \ {c} : request'[d] = request[d]
  BY DEF Served, ServedOne

LEMMA ServeListKeeps ==
    ASSUME NEW L, HistFits(L), NEW c \in HistoryCalls, ServeListing(c)
    PROVE  HistFits(L)'
<1>1. /\ UNCHANGED <<current, undoRing, saves, rewound, entries, cached, listedAt, panel>>
      /\ request[c].kind = "list"
  BY DEF ServeListing, shelf, shelfHistory
<1>2. Moment' = Moment
  BY <1>1 DEF Moment
<1>3. /\ DOMAIN request' = HistoryCalls
      /\ request'[c] = ServedOne(request[c], Listing, Moment)
      /\ \A d \in HistoryCalls \ {c} : request'[d] = request[d]
  BY <1>2, Fitting, ServedRequests DEF ServeListing
<1>4. RowsInv(Listing, Moment, L, current, undoRing, saves, rewound)
  BY Fitting, ListingSeen
<1>5. RequestInv(request'[c], L, current, undoRing, saves, rewound)
  BY <1>1, <1>3, <1>4 DEF RequestInv, RowsInv, ServedOne
<1>6. \A d \in HistoryCalls : RequestInv(request'[d], L, current, undoRing, saves, rewound)
  BY <1>3, <1>5, Fitting
<1>7. /\ CacheInv(cached', L, current, rewound) /\ PanelInv(panel')
      /\ RowsInv(entries', listedAt', L, current, undoRing, saves, rewound)
  BY <1>1, Fitting
<1> QED
  BY <1>1, <1>3, <1>6, <1>7, PageStep

LEMMA ServeSnapshotKeeps ==
    ASSUME NEW L, HistFits(L), NEW c \in HistoryCalls, ServeSnapshot(c)
    PROVE  HistFits(L)'
<1>1. /\ UNCHANGED <<current, undoRing, saves, rewound, entries, cached, listedAt, panel>>
      /\ request[c].kind = "get"
  BY DEF ServeSnapshot, shelf, shelfHistory
<1> DEFINE answer == SnapshotOf(request[c].version)
<1>2. Moment' = Moment
  BY <1>1 DEF Moment
<1>3. /\ DOMAIN request' = HistoryCalls
      /\ request'[c] = ServedOne(request[c], answer, Moment)
      /\ \A d \in HistoryCalls \ {c} : request'[d] = request[d]
  BY <1>2, Fitting, ServedRequests DEF ServeSnapshot
<1>4. answer # NoLayout => Sighted(L, current.version, rewound, request[c].version, answer)
  BY Fitting, SnapshotSeen
<1>5. request[c].version \in Versions
  BY <1>1, Fitting DEF RequestInv
<1> HIDE DEF answer
<1>6. RequestInv(request'[c], L, current, undoRing, saves, rewound)
  BY <1>1, <1>3, <1>4, <1>5 DEF RequestInv, ServedOne
<1>7. \A d \in HistoryCalls : RequestInv(request'[d], L, current, undoRing, saves, rewound)
  BY <1>3, <1>6, Fitting
<1>8. /\ CacheInv(cached', L, current, rewound) /\ PanelInv(panel')
      /\ RowsInv(entries', listedAt', L, current, undoRing, saves, rewound)
  BY <1>1, Fitting
<1> QED
  BY <1>1, <1>3, <1>7, <1>8, PageStep

\* A served undo says nothing more of the store.
LEMMA ServedUndo ==
    ASSUME NEW r, r.kind = "undo", NEW at, NEW L, NEW doc, NEW snaps, NEW s, NEW R
    PROVE  RequestInv(ServedOne(r, NoLayout, at), L, doc, snaps, s, R)
  BY DEF RequestInv, ServedOne

LEMMA ServeRestoreKeeps ==
    ASSUME NEW L, HistFits(L), NEW c \in HistoryCalls, ServeRestore(c)
    PROVE  HistFits(L)'
<1>1. UNCHANGED <<entries, cached, listedAt, panel>> /\ request[c].kind = "undo"
  BY DEF ServeRestore
<1>2. /\ DOMAIN request' = HistoryCalls
      /\ request'[c] = ServedOne(request[c], NoLayout, Moment')
      /\ \A d \in HistoryCalls \ {c} : request'[d] = request[d]
  BY Fitting, ServedRequests DEF ServeRestore
<1>3. CASE undoRing = <<>>
  <2>1. UNCHANGED <<current, undoRing, saves, rewound>>
    BY <1>3 DEF ServeRestore, shelf, shelfHistory
  <2>2. RequestInv(request'[c], L, current, undoRing, saves, rewound)
    BY <1>1, <1>2, ServedUndo
  <2>3. \A d \in HistoryCalls : RequestInv(request'[d], L, current, undoRing, saves, rewound)
    BY <1>2, <2>2, Fitting
  <2>4. /\ CacheInv(cached', L, current, rewound) /\ PanelInv(panel')
        /\ RowsInv(entries', listedAt', L, current, undoRing, saves, rewound)
    BY <1>1, Fitting
  <2> QED
    BY <1>2, <2>1, <2>3, <2>4, PageStep
<1>4. CASE undoRing # <<>>
  <2>1. UndoNewest
    BY <1>4 DEF ServeRestore
  <2>2. /\ ShelfInv(L, current', undoRing', saves', rewound')
        /\ Carried(L, current, saves, rewound, L, current', saves', rewound')
    BY <2>1, Fitting, UndoShelf
  <2>3. RequestInv(request'[c], L, current', undoRing', saves', rewound')
    BY <1>1, <1>2, ServedUndo
  <2>4. \A d \in HistoryCalls : RequestInv(request[d], L, current', undoRing', saves', rewound')
    BY <2>2, Fitting, RequestCarried
  <2>5. \A d \in HistoryCalls : RequestInv(request'[d], L, current', undoRing', saves', rewound')
    BY <1>2, <2>3, <2>4
  <2>6. CacheInv(cached, L, current', rewound')
    BY <2>2, Fitting, CacheCarried
  <2>7. RowsInv(entries, listedAt, L, current', undoRing', saves', rewound')
    BY <2>2, Fitting, RowsCarried
  <2>8. PanelInv(panel)
    BY Fitting
  <2> QED
    BY <1>1, <1>2, <2>2, <2>5, <2>6, <2>7, <2>8 DEF HistFits
<1> QED
  BY <1>3, <1>4

\* A call that is over leaves its place free.
LEMMA FreedRequests ==
    ASSUME NEW L, HistFits(L), NEW c \in HistoryCalls, NEW freed, freed = [request EXCEPT ![c] = Idle]
    PROVE  /\ DOMAIN freed = HistoryCalls
           /\ \A d \in HistoryCalls : RequestInv(freed[d], L, current, undoRing, saves, rewound)
<1>1. DOMAIN request = HistoryCalls /\ DOMAIN freed = HistoryCalls
  BY Fitting
<1>2. freed[c] = Idle /\ \A d \in HistoryCalls \ {c} : freed[d] = request[d]
  BY <1>1
<1> QED
  BY <1>1, <1>2, Fitting, FreshRequest

LEMMA ListArrivesKeeps ==
    ASSUME NEW L, HistFits(L), NEW c \in HistoryCalls, ListingArrives(c)
    PROVE  HistFits(L)'
<1>1. /\ UNCHANGED <<current, undoRing, saves, rewound, cached>>
      /\ request[c].kind = "list" /\ request[c].stage = "served"
      /\ entries' = request[c].answer /\ listedAt' = request[c].at
  BY DEF ListingArrives, shelf, shelfHistory
<1>2. RowsInv(entries', listedAt', L, current, undoRing, saves, rewound)
  BY <1>1, Fitting DEF RequestInv, RowsInv
<1> DEFINE selected == IF panel.selected = None /\ entries' # <<>> THEN entries'[1].version
                       ELSE panel.selected
           freed == [request EXCEPT ![c] = Idle]
<1>3. /\ panel' = [panel EXCEPT !.selected = selected]
      /\ EnsureSnapshot(freed, selected)
  BY DEF ListingArrives
<1>4. selected \in Versions \cup {None}
  <2>1. CASE panel.selected = None /\ entries' # <<>>
    <3>1. 1 \in 1..Len(entries')
      BY <1>2, <2>1 DEF RowsInv, RowsSighted
    <3>2. entries'[1].version \in Versions
      BY <1>2, <3>1 DEF RowsInv, RowsSighted
    <3> QED BY <2>1, <3>2
  <2>2. CASE ~ (panel.selected = None /\ entries' # <<>>)
    BY <2>2, Fitting DEF PanelInv
  <2> QED BY <2>1, <2>2
<1>5. /\ DOMAIN freed = HistoryCalls
      /\ \A d \in HistoryCalls : RequestInv(freed[d], L, current, undoRing, saves, rewound)
  BY FreedRequests
<1> HIDE DEF selected, freed
<1>6. /\ DOMAIN request' = HistoryCalls
      /\ \A d \in HistoryCalls : RequestInv(request'[d], L, current, undoRing, saves, rewound)
  BY <1>3, <1>4, <1>5, EnsuredFits
<1>7. PanelInv(panel')
  BY <1>3, <1>4, Fitting DEF PanelInv
<1>8. CacheInv(cached', L, current, rewound)
  BY <1>1, Fitting
<1> QED
  BY <1>1, <1>2, <1>6, <1>7, <1>8, PageStep

LEMMA SnapshotArrivesKeeps ==
    ASSUME NEW L, HistFits(L), NEW c \in HistoryCalls, SnapshotArrives(c)
    PROVE  HistFits(L)'
<1>1. /\ UNCHANGED <<current, undoRing, saves, rewound, entries, listedAt, panel>>
      /\ request[c].kind = "get" /\ request[c].stage = "served"
      /\ request' = [request EXCEPT ![c] = Idle]
  BY DEF SnapshotArrives, shelf, shelfHistory
<1>2. /\ DOMAIN request' = HistoryCalls
      /\ \A d \in HistoryCalls : RequestInv(request'[d], L, current, undoRing, saves, rewound)
  BY <1>1, FreedRequests
<1> DEFINE v == request[c].version
           x == request[c].answer
<1>3. x # NoLayout => Sighted(L, current.version, rewound, v, x)
  BY <1>1, Fitting DEF RequestInv
<1>4. CacheInv(cached, L, current, rewound)
  BY Fitting
<1>5. cached' = IF x = NoLayout THEN cached ELSE [cached EXCEPT ![v] = x]
  BY DEF SnapshotArrives
<1> HIDE DEF v, x
<1>6. CacheInv(cached', L, current, rewound)
  <2>1. CASE x = NoLayout
    BY <1>4, <1>5, <2>1
  <2>2. CASE x # NoLayout
    <3>1. v \in Versions /\ x \in Layouts /\ Sighted(L, current.version, rewound, v, x)
      BY <1>3, <2>2 DEF Sighted
    <3>2. cached \in [Versions -> Layouts \cup {NoLayout}] /\ cached' = [cached EXCEPT ![v] = x]
      BY <1>4, <1>5, <2>2 DEF CacheInv
    <3>3. cached' \in [Versions -> Layouts \cup {NoLayout}]
      BY <3>1, <3>2
    <3>4. cached'[v] = x /\ \A u \in Versions \ {v} : cached'[u] = cached[u]
      BY <3>1, <3>2
    <3> QED BY <1>4, <3>1, <3>3, <3>4 DEF CacheInv
  <2> QED BY <2>1, <2>2
<1>7. PanelInv(panel') /\ RowsInv(entries', listedAt', L, current, undoRing, saves, rewound)
  BY <1>1, Fitting
<1> QED
  BY <1>1, <1>2, <1>6, <1>7, PageStep

LEMMA EndsKeep ==
    ASSUME NEW L, HistFits(L), NEW c \in HistoryCalls, RestoreArrives(c) \/ HistFails(c)
    PROVE  HistFits(L)'
<1>1. /\ UNCHANGED <<current, undoRing, saves, rewound, entries, cached, listedAt>>
      /\ request' = [request EXCEPT ![c] = Idle]
  BY DEF RestoreArrives, HistFails, shelf, shelfHistory
<1>2. /\ DOMAIN request' = HistoryCalls
      /\ \A d \in HistoryCalls : RequestInv(request'[d], L, current, undoRing, saves, rewound)
  BY <1>1, FreedRequests
<1>3. PanelInv(panel')
  BY Fitting DEF RestoreArrives, HistFails, PanelInv
<1>4. CacheInv(cached', L, current, rewound) /\ RowsInv(entries', listedAt', L, current, undoRing, saves, rewound)
  BY <1>1, Fitting
<1> QED
  BY <1>1, <1>2, <1>3, <1>4, PageStep

HistInv == (\E L : HistFits(L)) /\ RestoresShown

LEMMA HistStart == HistInit => HistInv
<1> SUFFICES ASSUME HistInit PROVE HistInv
  OBVIOUS
<1> DEFINE n == Len(StartLayouts)
           docs == [i \in DOMAIN StartLayouts |-> [version |-> i, layout |-> StartLayouts[i]]]
<1>1. /\ StartLayouts \in Seq(Layouts) /\ n \in 1..MaxVersions /\ NoLayout \notin Layouts
      /\ MaxVersions \in Nat
  BY HistoryAssumption
<1>2. DOMAIN StartLayouts = 1..n /\ n \in Nat \ {0} /\ n \in 1..n /\ n - 1 \in Nat
  BY <1>1
<1>3. \A i \in 1..n : /\ docs[i] = [version |-> i, layout |-> StartLayouts[i]]
                      /\ docs[i].version = i /\ docs[i].layout = StartLayouts[i]
                      /\ i \in Versions /\ StartLayouts[i] \in Layouts /\ docs[i] \in Docs
  BY <1>1, <1>2 DEF Versions, Docs
<1>4. docs \in Seq(Docs) /\ Len(docs) = n /\ docs # <<>>
  BY <1>2, <1>3
<1>5. PICK L : L = [v \in Versions |-> IF v \in 1..n THEN StartLayouts[v] ELSE StartLayouts[1]]
  OBVIOUS
<1>6. L \in [Versions -> Layouts] /\ \A v \in 1..n : L[v] = StartLayouts[v]
  <2>1. \A v \in Versions : (IF v \in 1..n THEN StartLayouts[v] ELSE StartLayouts[1]) \in Layouts
    <3>1. 1 \in 1..n
      BY <1>2
    <3> QED BY <1>3, <3>1
  <2> QED BY <1>3, <1>5, <2>1
<1>7. current = Last(docs) /\ undoRing = Front(docs)
  BY DEF HistInit
<1>8. /\ current = docs[n] /\ undoRing \in Seq(Docs) /\ Len(undoRing) = n - 1
      /\ \A i \in 1..n - 1 : undoRing[i] = docs[i]
  <2>1. Len(docs) = n /\ docs \in Seq(Docs) /\ docs # <<>>
    BY <1>4
  <2> HIDE DEF docs, n
  <2>2. /\ Front(docs) \in Seq(Docs) /\ Len(Front(docs)) = Len(docs) - 1
        /\ \A i \in 1..Len(Front(docs)) : Front(docs)[i] = docs[i]
        /\ Last(docs) = docs[Len(docs)]
    BY <2>1, FrontOf
  <2> QED BY <1>7, <2>1, <2>2
<1>9. /\ saves = 0 /\ panel = Closed /\ entries = <<>> /\ cached = [v \in Versions |-> NoLayout]
      /\ request = [c \in HistoryCalls |-> Idle] /\ rewound = {} /\ listedAt = Moment /\ restored = NoRestore
  BY DEF HistInit
<1> HIDE DEF docs, n
<1>10. \A i \in 1..n : i \in Nat /\ i <= n
  BY <1>2
<1>11. current \in Docs /\ current.version = n /\ current.layout = StartLayouts[n]
  BY <1>2, <1>3, <1>8
<1>12. \A i \in 1..n : Sighted(L, n, rewound, i, StartLayouts[i])
  BY <1>3, <1>6, <1>10 DEF Sighted
<1>13. ASSUME NEW i \in 1..Len(undoRing)
       PROVE  /\ undoRing[i].version + Len(undoRing) + 1 = n + i
              /\ Sighted(L, n, rewound, undoRing[i].version, undoRing[i].layout)
  <2>1. i \in 1..n - 1 /\ i \in 1..n /\ i \in Nat /\ Len(undoRing) = n - 1 /\ n \in Nat
    BY <1>2, <1>8
  <2>2. undoRing[i] = docs[i]
    BY <1>8, <2>1
  <2>3. undoRing[i].version = i /\ undoRing[i].layout = StartLayouts[i]
    BY <1>3, <2>1, <2>2
  <2>4. i + (n - 1) + 1 = n + i
    BY <2>1
  <2> QED BY <1>12, <2>1, <2>3, <2>4
<1>14. Sighted(L, current.version, rewound, current.version, current.layout)
  BY <1>2, <1>11, <1>12
<1>15. ShelfInv(L, current, undoRing, saves, rewound)
  BY <1>6, <1>8, <1>9, <1>11, <1>13, <1>14 DEF ShelfInv
<1>16. /\ DOMAIN request = HistoryCalls
       /\ \A c \in HistoryCalls : RequestInv(request[c], L, current, undoRing, saves, rewound)
  BY <1>9, FreshRequest
<1>17. CacheInv(cached, L, current, rewound)
  BY <1>9 DEF CacheInv
<1>18. RowsSighted(L, current.version, rewound, entries)
  BY <1>9 DEF RowsSighted
<1>19. listedAt = <<current.version, saves>> /\ listedAt \in Moments
  BY <1>2, <1>9, <1>11 DEF Moment, Moments
<1>20. AtTop(entries, listedAt, current.version, saves, undoRing)
  BY <1>9, <1>19 DEF AtTop
<1>21. PanelInv(panel)
  BY <1>9 DEF PanelInv, Closed, None
<1>22. HistFits(L)
  BY <1>15, <1>16, <1>17, <1>18, <1>20, <1>21 DEF HistFits, RowsInv
<1>23. RestoresShown
  BY <1>9 DEF RestoresShown, NoRestore
<1> QED
  BY <1>22, <1>23 DEF HistInv

\* The one step that restores brings back what was shown, when it was foreseen.
LEMMA RestoreKeepsShown ==
    ASSUME NEW L, HistFits(L), NEW c \in HistoryCalls, ServeRestore(c), RestoresShown
    PROVE  RestoresShown'
<1>1. CASE undoRing = <<>>
  <2>1. restored' = restored
    BY <1>1 DEF ServeRestore, shelfHistory
  <2> QED BY <2>1 DEF RestoresShown
<1>2. CASE undoRing # <<>>
  <2> DEFINE m == request[c].version
             last == Last(undoRing)
  <2>1. restored' = [shown |-> request[c].shown, got |-> last.layout,
                     foreseen |-> m = Moment, reused |-> last.version \in rewound]
    BY <1>2 DEF ServeRestore
  <2>2. Undoable(request[c].shown, m, current.version, saves, undoRing, rewound)
    BY Fitting DEF ServeRestore, RequestInv
  <2>3. undoRing \in Seq(Docs) /\ saves \in Nat /\ ShelfInv(L, current, undoRing, saves, rewound)
    BY Fitting DEF ShelfInv
  <2>4. last = undoRing[Len(undoRing)] /\ current.version \in Nat
    BY <1>2, <2>3, FrontOf, RingBelow
  <2> HIDE DEF m, last
  <2>5. ASSUME m = Moment, last.version \notin rewound
        PROVE  last.layout = request[c].shown
    <3>1. m[1] = current.version /\ m[2] = saves
      BY <2>5 DEF Moment
    <3>2. ~ Past(m, current.version, saves)
      BY <2>3, <2>4, <3>1 DEF Past
    <3> QED BY <2>2, <2>4, <2>5, <3>2 DEF Undoable
  <2>6. (m = Moment) /\ ~ (last.version \in rewound) => last.layout = request[c].shown
    BY <2>5
  <2>7. /\ restored'.foreseen = (m = Moment) /\ restored'.reused = (last.version \in rewound)
        /\ restored'.got = last.layout /\ restored'.shown = request[c].shown
    BY <2>1, Zenon
  <2>8. restored'.foreseen /\ ~ restored'.reused => restored'.got = restored'.shown
    BY <2>6, <2>7, Zenon
  <2> QED BY <2>8, Zenon DEF RestoresShown
<1> QED
  BY <1>1, <1>2

LEMMA ShownUnchanged ==
    ASSUME RestoresShown, restored' = restored
    PROVE  RestoresShown'
  BY DEF RestoresShown

LEMMA HistStep == HistInv /\ [HistNext]_histVars => HistInv'
<1> SUFFICES ASSUME HistInv, [HistNext]_histVars PROVE HistInv'
  OBVIOUS
<1>1. PICK L : HistFits(L)
  BY DEF HistInv
<1>2. RestoresShown
  BY DEF HistInv
<1>3. ASSUME HistNext PROVE HistInv'
  <2>1. CASE CommitLayout
    <3>1. \E K : HistFits(K)'
      BY <1>1, <2>1, CommitKeepsHistory
    <3>2. restored' = restored
      BY <2>1 DEF CommitLayout, shelfHistory
    <3> QED BY <1>2, <3>1, <3>2, ShownUnchanged DEF HistInv
  <2>2. CASE UndoElsewhere \/ OpenHistory \/ CloseHistory \/ SelectVersion \/ ArmRestore \/ ConfirmRestore
    <3>1. HistFits(L)'
      BY <1>1, <2>2, UndoKeepsHistory, OpenKeepsHistory, CloseKeepsHistory, SelectKeepsHistory, ConfirmKeepsHistory
    <3>2. restored' = restored
      BY <2>2 DEF UndoElsewhere, OpenHistory, CloseHistory, SelectVersion, ArmRestore, ConfirmRestore, shelfHistory
    <3> QED BY <1>2, <3>1, <3>2, ShownUnchanged DEF HistInv
  <2>3. ASSUME NEW c \in HistoryCalls, ServeRestore(c) PROVE HistInv'
    <3>1. HistFits(L)'
      BY <1>1, <2>3, ServeRestoreKeeps
    <3>2. RestoresShown'
      BY <1>1, <1>2, <2>3, RestoreKeepsShown
    <3> QED BY <3>1, <3>2 DEF HistInv
  <2>4. ASSUME NEW c \in HistoryCalls,
               ServeListing(c) \/ ServeSnapshot(c) \/ ListingArrives(c) \/ SnapshotArrives(c)
                 \/ RestoreArrives(c) \/ HistFails(c)
        PROVE  HistInv'
    <3>1. HistFits(L)'
      BY <1>1, <2>4, ServeListKeeps, ServeSnapshotKeeps, ListArrivesKeeps, SnapshotArrivesKeeps, EndsKeep
    <3>2. restored' = restored
      BY <2>4 DEF ServeListing, ServeSnapshot, ListingArrives, SnapshotArrives, RestoreArrives, HistFails,
                  shelfHistory
    <3> QED BY <1>2, <3>1, <3>2, ShownUnchanged DEF HistInv
  <2> QED BY <1>3, <2>1, <2>2, <2>3, <2>4 DEF HistNext
<1>4. ASSUME UNCHANGED histVars PROVE HistInv'
  <2>1. /\ UNCHANGED <<current, undoRing, saves, rewound, panel, entries, cached, request, listedAt>>
        /\ restored' = restored
    BY <1>4 DEF histVars, shelf, shelfHistory
  <2>2. /\ ShelfInv(L, current, undoRing, saves, rewound) /\ CacheInv(cached', L, current, rewound)
        /\ RowsInv(entries', listedAt', L, current, undoRing, saves, rewound) /\ PanelInv(panel')
        /\ DOMAIN request' = HistoryCalls
        /\ \A c \in HistoryCalls : RequestInv(request'[c], L, current, undoRing, saves, rewound)
    BY <1>1, <2>1, Fitting
  <2>3. HistFits(L)'
    BY <1>1, <2>1, <2>2, PageStep
  <2> QED BY <1>2, <2>1, <2>3, ShownUnchanged DEF HistInv
<1> QED
  BY <1>3, <1>4

\* Every document in sight is a document.
LEMMA LayoutFinite ==
    ASSUME NEW l \in Layouts
    PROVE  IsLayout(l)
  BY HistoryAssumption DEF IsLayout, Tabs, Widgets

LEMMA RowsSay == ASSUME NEW L, HistFits(L) PROVE RowsAddUp
<1> SUFFICES ASSUME NEW i \in 1..Len(entries) - 1
             PROVE  LET newer == cached[entries[i].version]
                        older == cached[entries[i + 1].version]
                        row == entries[i].summary
                    IN  /\ row.total = row.added + row.removed + row.moved + row.retitled + row.tabsChanged
                        /\ (newer # NoLayout /\ older # NoLayout /\ rewound = {}) =>
                             /\ Cardinality(Widgets(older)) + row.added = Cardinality(Widgets(newer)) + row.removed
                             /\ row.total = Cardinality(Diff(newer, older))
                             /\ row.added = Summary(Diff(newer, older)).removed
                             /\ RowLabel(row) = {} <=> Looks(newer) = Looks(older)
  BY DEF RowsAddUp
<1> DEFINE u == entries[i].version
           v == entries[i + 1].version
           row == entries[i].summary
           newer == cached[u]
           older == cached[v]
<1>1. RowsSighted(L, current.version, rewound, entries)
  BY Fitting DEF RowsInv
<1>2. PICK a, b \in Layouts :
         /\ row = Summary(Diff(a, b))
         /\ rewound = {} => a = L[v] /\ b = L[u]
  BY <1>1 DEF RowsSighted
<1>3. row = Summary(Diff(a, b))
  BY <1>2, Zenon
<1>4. rewound = {} => a = L[v] /\ b = L[u]
  BY <1>2, Zenon
<1>5. i \in 1..Len(entries) /\ i + 1 \in 1..Len(entries)
  BY <1>1 DEF RowsSighted
<1>6. u \in Versions /\ v \in Versions
  BY <1>1, <1>5 DEF RowsSighted
<1> HIDE DEF u, v, row
<1>7. ASSUME newer # NoLayout, older # NoLayout, rewound = {}
      PROVE  newer = L[u] /\ older = L[v]
  <2>1. Sighted(L, current.version, rewound, u, newer) /\ Sighted(L, current.version, rewound, v, older)
    BY <1>6, <1>7, Fitting DEF CacheInv
  <2> QED BY <1>7, <2>1 DEF Sighted
<1> HIDE DEF newer, older
<1>8. RowSum(row)
  <2>1. RowSum(Summary(Diff(a, b)))
    BY LayoutFinite, SummaryAddsUp, Zenon
  <2>2. row = Summary(Diff(a, b))
    BY <1>3, Zenon
  <2> QED BY <2>1, <2>2, Zenon
<1>9. ASSUME newer # NoLayout, older # NoLayout, rewound = {}
      PROVE  RowTrue(row, older, newer)
  <2>1. older = a /\ newer = b
    <3>1. a = L[v] /\ b = L[u]
      BY <1>4, <1>9, Zenon
    <3> QED BY <1>7, <1>9, <3>1, Zenon
  <2>2. RowTrue(Summary(Diff(a, b)), a, b)
    BY LayoutFinite, SummaryTrue, Zenon
  <2>3. row = Summary(Diff(a, b))
    BY <1>3, Zenon
  <2> QED BY <2>1, <2>2, <2>3, Zenon
<1>10. row.total = row.added + row.removed + row.moved + row.retitled + row.tabsChanged
  BY <1>8 DEF RowSum
<1>11. (newer # NoLayout /\ older # NoLayout /\ rewound = {}) =>
        /\ Cardinality(Widgets(older)) + row.added = Cardinality(Widgets(newer)) + row.removed
        /\ row.total = Cardinality(Diff(newer, older))
        /\ row.added = Summary(Diff(newer, older)).removed
        /\ RowLabel(row) = {} <=> Looks(newer) = Looks(older)
  BY <1>9 DEF RowTrue
<1> QED
  BY <1>10, <1>11, Zenon DEF newer, older, row, u, v

LEMMA CacheSays == ASSUME NEW L, HistFits(L) PROVE CacheTrue
<1> SUFFICES ASSUME NEW i \in 1..Len(undoRing), undoRing[i].version \notin rewound,
                    cached[undoRing[i].version] # NoLayout
             PROVE  cached[undoRing[i].version] = undoRing[i].layout
  BY DEF CacheTrue
<1>1. Sighted(L, current.version, rewound, undoRing[i].version, undoRing[i].layout)
  BY Fitting DEF ShelfInv
<1>2. Sighted(L, current.version, rewound, undoRing[i].version, cached[undoRing[i].version])
  BY <1>1, Fitting DEF CacheInv, Sighted
<1> QED
  BY <1>1, <1>2 DEF Sighted

-----------------------------------------------------------------------------
\* The history panel's invariant holds in every state.
THEOREM HistoryInvariant == HistSpec => []HistInv
<1>1. HistInit => HistInv
  BY HistStart
<1>2. HistInv /\ [HistNext]_histVars => HistInv'
  BY HistStep
<1> QED
  BY <1>1, <1>2, PTL DEF HistSpec

\* What the history panel shows is true (renderHistoryPanel, renderHistoryDiff,
\* listHistory and getHistorySnapshot): a restore that nothing overtook brings back
\* the document shown, a loaded body is its version's, rows add up, the blame line
\* names no version whose predecessor has the widget, and the detail tells whether
\* the board looks that way still.
THEOREM HistoryTellsTruth == HistSpec => []HistoryTruthful
<1>1. HistInv => HistoryTruthful
  BY RowsSay, CacheSays, BlameTrueAlways, DiffTellsAlways DEF HistInv, HistoryTruthful
<1> QED
  BY <1>1, HistoryInvariant, PTL

-----------------------------------------------------------------------------
(***************************************************************************)
(* The undo ring as a stack                                                *)
(***************************************************************************)
\* One snapshot for each number from b + 1 to v.
Filed(S, b, v) ==
  /\ S \subseteq Snapshots
  /\ \A s, t \in S : s.file = t.file => s = t
  /\ \A s \in S : s.file \in (b + 1)..v
  /\ \A n \in (b + 1)..v : \E s \in S : s.file = n

LEMMA FiledCount ==
  ASSUME NEW S, NEW b \in Nat, NEW v \in Nat, b <= v, Filed(S, b, v)
  PROVE  IsFiniteSet(S) /\ Cardinality(S) = v - b
<1>1. PICK f : f = [n \in (b + 1)..v |-> CHOOSE s \in S : s.file = n]
  OBVIOUS
<1>2. \A n \in (b + 1)..v : f[n] \in S /\ f[n].file = n
  BY <1>1 DEF Filed
<1>3. \A s \in S : s.file \in (b + 1)..v /\ f[s.file] = s
  BY <1>2 DEF Filed
<1>4. f \in Bijection((b + 1)..v, S)
  <2>1. f \in [(b + 1)..v -> S]
    BY <1>1, <1>2
  <2>2. \A m, n \in (b + 1)..v : f[m] = f[n] => m = n
    BY <1>2
  <2>3. \A s \in S : \E n \in (b + 1)..v : f[n] = s
    BY <1>3
  <2> QED
    BY <2>1, <2>2, <2>3 DEF Bijection, Injection, Surjection, IsInjective
<1>5. ExistsBijection((b + 1)..v, S)
  BY <1>4 DEF ExistsBijection
<1>6. IsFiniteSet((b + 1)..v) /\ Cardinality((b + 1)..v) = v - b
  <2>1. b + 1 \in Int /\ v \in Int /\ (b + 1 > v => v - b = 0) /\ (v - (b + 1)) + 1 = v - b
    OBVIOUS
  <2>2. Cardinality((b + 1)..v) = IF b + 1 > v THEN 0 ELSE (v - (b + 1)) + 1
    BY <2>1, FS_Interval
  <2> QED
    BY <2>1, <2>2, FS_Interval
<1> QED
  BY <1>5, <1>6, FS_Bijection

LEMMA FiledPart ==
  ASSUME NEW S, NEW b \in Nat, NEW v \in Nat, Filed(S, b, v), NEW n \in Nat, b <= n, n <= v
  PROVE  /\ Filed(UpTo(S, n), b, n)
         /\ Filed({s \in S : n < s.file}, n, v)
  BY DEF Filed, UpTo, Snapshots

\* By age, the snapshot with number f is the (f - b)th.
LEMMA FiledByAge ==
  ASSUME NEW S, NEW b \in Nat, NEW v \in Nat, b <= v, Filed(S, b, v)
  PROVE  /\ ByAge(S) \in Seq(Doc) /\ Len(ByAge(S)) = v - b
         /\ \A s \in S : s.file - b \in 1..(v - b) /\ ByAge(S)[s.file - b] = s.doc
<1>1. Cardinality(S) = v - b /\ v - b \in Nat
  BY FiledCount
<1>2. \A s \in S : s.file \in (b + 1)..v /\ s.doc \in Doc /\ s.file \in Nat
  BY DEF Filed, Snapshots
<1>3. ASSUME NEW s \in S
      PROVE  Cardinality(UpTo(S, s.file)) = s.file - b
  <2>1. s.file \in Nat /\ b <= s.file /\ s.file <= v
    BY <1>2
  <2>2. Filed(UpTo(S, s.file), b, s.file)
    BY <2>1, FiledPart
  <2> QED
    BY <2>1, <2>2, FiledCount
<1>4. ASSUME NEW s \in S
      PROVE  (CHOOSE t \in S : Cardinality(UpTo(S, t.file)) = s.file - b) = s
  <2>1. \A t \in S : Cardinality(UpTo(S, t.file)) = s.file - b => t = s
    <3> TAKE t \in S
    <3>1. Cardinality(UpTo(S, t.file)) = t.file - b
      BY <1>3
    <3>2. t.file - b = s.file - b => t.file = s.file
      BY <1>2
    <3> QED BY <3>1, <3>2 DEF Filed
  <2> QED BY <1>3, <2>1
<1>5. \A s \in S : s.file - b \in 1..(v - b)
  BY <1>2
<1>6. ByAge(S) = [i \in 1..(v - b) |-> (CHOOSE s \in S : Cardinality(UpTo(S, s.file)) = i).doc]
  BY <1>1 DEF ByAge
<1>7. \A s \in S : ByAge(S)[s.file - b] = s.doc
  BY <1>4, <1>5, <1>6
<1>8. \A i \in 1..(v - b) : \E s \in S : s.file - b = i
  <2> TAKE i \in 1..(v - b)
  <2>1. b + i \in (b + 1)..v
    OBVIOUS
  <2>2. PICK s \in S : s.file = b + i
    BY <2>1 DEF Filed
  <2> QED BY <2>2
<1>9. \A i \in 1..(v - b) : ByAge(S)[i] \in Doc
  BY <1>2, <1>7, <1>8
<1>10. PICK past : past = ByAge(S)
  OBVIOUS
<1>11. past \in [1..(v - b) -> Doc]
  BY <1>6, <1>9, <1>10
<1>12. past \in Seq(Doc) /\ Len(past) = v - b
  BY <1>1, <1>11
<1> QED
  BY <1>5, <1>7, <1>10, <1>12

LEMMA FiledIs ==
  ASSUME NEW S, NEW b \in Nat, NEW v \in Nat, b <= v, Filed(S, b, v),
         NEW seq \in Seq(Doc), Len(seq) = v - b,
         \A s \in S : seq[s.file - b] = s.doc
  PROVE  ByAge(S) = seq
<1>1. PICK past : past = ByAge(S)
  OBVIOUS
<1>2. past \in Seq(Doc) /\ Len(past) = v - b /\ \A s \in S : past[s.file - b] = s.doc
  BY <1>1, FiledByAge
<1>3. \A i \in 1..(v - b) : \E s \in S : s.file - b = i
  <2> TAKE i \in 1..(v - b)
  <2>1. b + i \in (b + 1)..v
    OBVIOUS
  <2>2. PICK s \in S : s.file = b + i
    BY <2>1 DEF Filed
  <2> QED BY <2>2
<1>4. \A i \in 1..(v - b) : past[i] = seq[i]
  BY <1>2, <1>3
<1> QED
  BY <1>1, <1>2, <1>4

\* The next snapshot is pushed.
LEMMA FiledPush ==
  ASSUME NEW S, NEW b \in Nat, NEW v \in Nat, b <= v, Filed(S, b, v), NEW d \in Doc,
         NEW T, T = S \cup {[file |-> v + 1, doc |-> d]}
  PROVE  Filed(T, b, v + 1) /\ ByAge(T) = Append(ByAge(S), d)
<1>1. Filed(T, b, v + 1)
  <2>1. PICK new : new = [file |-> v + 1, doc |-> d]
    OBVIOUS
  <2>2. new \in Snapshots /\ new.file = v + 1 /\ T = S \cup {new}
    BY <2>1 DEF Snapshots
  <2>3. \A s \in S : s.file \in (b + 1)..v /\ s.file # v + 1
    BY DEF Filed
  <2>4. T \subseteq Snapshots /\ \A s, t \in T : s.file = t.file => s = t
    BY <2>2, <2>3 DEF Filed
  <2>5. \A s \in T : s.file \in (b + 1)..(v + 1)
    BY <2>2, <2>3
  <2>6. \A n \in (b + 1)..(v + 1) : \E s \in T : s.file = n
    <3> TAKE n \in (b + 1)..(v + 1)
    <3>1. CASE n = v + 1
      BY <2>2, <3>1
    <3>2. CASE n \in (b + 1)..v
      BY <2>2, <3>2 DEF Filed
    <3> QED BY <3>1, <3>2
  <2> QED BY <2>4, <2>5, <2>6 DEF Filed
<1>2. PICK past : past = ByAge(S)
  OBVIOUS
<1>3. past \in Seq(Doc) /\ Len(past) = v - b
      /\ \A s \in S : s.file - b \in 1..(v - b) /\ past[s.file - b] = s.doc
  BY <1>2, FiledByAge
<1>4. PICK seq : seq = Append(past, d)
  OBVIOUS
<1>5. seq \in Seq(Doc) /\ Len(seq) = (v + 1) - b
  BY <1>3, <1>4
<1>6. \A s \in T : seq[s.file - b] = s.doc
  <2>1. \A s \in S : seq[s.file - b] = s.doc
    BY <1>3, <1>4
  <2>2. seq[(v + 1) - b] = d
    BY <1>3, <1>4
  <2> QED BY <2>1, <2>2
<1>7. ByAge(T) = seq
  BY <1>1, <1>5, <1>6, FiledIs
<1> QED
  BY <1>1, <1>2, <1>4, <1>7

\* The oldest snapshot is forgotten.
LEMMA FiledForget ==
  ASSUME NEW S, NEW b \in Nat, NEW v \in Nat, b < v, Filed(S, b, v)
  PROVE  ByAge({s \in S : b + 1 < s.file}) = Tail(ByAge(S))
<1>1. PICK T : T = {s \in S : b + 1 < s.file}
  OBVIOUS
<1>2. b + 1 \in Nat /\ b <= b + 1 /\ b + 1 <= v /\ b <= v
  OBVIOUS
<1>3. Filed(T, b + 1, v)
  BY <1>1, <1>2, FiledPart
<1>4. PICK past : past = ByAge(S)
  OBVIOUS
<1>5. past \in Seq(Doc) /\ Len(past) = v - b
      /\ \A s \in S : s.file - b \in 1..(v - b) /\ past[s.file - b] = s.doc
  BY <1>2, <1>4, FiledByAge
<1>6. past # <<>>
  BY <1>5
<1>7. PICK seq : seq = Tail(past)
  OBVIOUS
<1>8. seq \in Seq(Doc) /\ Len(seq) = v - (b + 1)
      /\ \A i \in 1..(v - (b + 1)) : seq[i] = past[i + 1]
  BY <1>5, <1>6, <1>7
<1>9. \A s \in T : seq[s.file - (b + 1)] = s.doc
  <2> TAKE s \in T
  <2>1. s \in S /\ s.file \in (b + 2)..v
    BY <1>1, <1>3 DEF Filed
  <2>2. s.file - (b + 1) \in 1..(v - (b + 1)) /\ (s.file - (b + 1)) + 1 = s.file - b
    BY <2>1
  <2> QED BY <1>5, <1>8, <2>1, <2>2
<1>10. ByAge(T) = seq
  BY <1>2, <1>3, <1>8, <1>9, FiledIs
<1> QED
  BY <1>1, <1>4, <1>7, <1>10

\* The newest snapshot is popped.
LEMMA FiledPop ==
  ASSUME NEW S, NEW b \in Nat, NEW v \in Nat, b < v, Filed(S, b, v),
         NEW s \in S, s.file = v
  PROVE  /\ ByAge(S) # <<>> /\ ByAge(S)[Len(ByAge(S))] = s.doc
         /\ ByAge(UpTo(S, v - 1)) = SubSeq(ByAge(S), 1, Len(ByAge(S)) - 1)
<1>1. PICK past : past = ByAge(S)
  OBVIOUS
<1>2. past \in Seq(Doc) /\ Len(past) = v - b
      /\ \A t \in S : t.file - b \in 1..(v - b) /\ past[t.file - b] = t.doc
  BY <1>1, FiledByAge
<1>3. past # <<>> /\ past[Len(past)] = s.doc
  BY <1>2
<1>4. PICK T : T = UpTo(S, v - 1)
  OBVIOUS
<1>5. v - 1 \in Nat /\ b <= v - 1 /\ v - 1 <= v
  OBVIOUS
<1>6. Filed(T, b, v - 1)
  BY <1>4, <1>5, FiledPart
<1>7. PICK seq : seq = SubSeq(past, 1, Len(past) - 1)
  OBVIOUS
<1>8. seq \in Seq(Doc) /\ Len(seq) = (v - 1) - b
      /\ \A i \in 1..((v - 1) - b) : seq[i] = past[i]
  BY <1>2, <1>7
<1>9. \A t \in T : seq[t.file - b] = t.doc
  <2> TAKE t \in T
  <2>1. t \in S /\ t.file \in (b + 1)..(v - 1)
    BY <1>4, <1>6 DEF Filed, UpTo
  <2>2. t.file - b \in 1..((v - 1) - b)
    BY <2>1
  <2> QED BY <1>2, <1>8, <2>1, <2>2
<1>10. ByAge(T) = seq
  BY <1>5, <1>6, <1>8, <1>9, FiledIs
<1> QED
  BY <1>1, <1>3, <1>4, <1>7, <1>10

\* The ring R under the document d: every snapshot has the document that was
\* there before its number, one above d is d itself, and those up to d are
\* numbered without a gap, no more than the ring may hold.
RingSound(R, d) ==
  /\ R \subseteq Snapshots
  /\ \A s \in R : s.file <= d.workspaceVersion + 1 /\ s.doc.workspaceVersion + 1 = s.file
  /\ \A s \in R : s.file = d.workspaceVersion + 1 => s.doc = d
  /\ \E b \in Nat : /\ b <= d.workspaceVersion
                    /\ d.workspaceVersion <= b + UndoRingSize
                    /\ Filed(UpTo(R, d.workspaceVersion), b, d.workspaceVersion)

\* What a caller at p with the documents d and e has, of a ring R under k.
AtWork(p, d, e, R, k) ==
  /\ p \notin {"readWrite", "sweep"}
  /\ p \in {"produce", "snapshot", "evict", "commit"} => d = k
  /\ p \in {"snapshot", "evict", "commit"} => e.workspaceVersion = k.workspaceVersion + 1
  /\ p \in {"evict", "commit"} => [file |-> k.workspaceVersion + 1, doc |-> k] \in R
  /\ p = "commit" => \A s \in R : k.workspaceVersion + 1 < s.file + UndoRingSize
  /\ p = "undoWrite" => \E s \in R : s.doc = e /\ \A t \in R : t.file <= s.file
  /\ p = "undoRm" => \E s \in R : s.file = k.workspaceVersion + 1

StackInv ==
  /\ disk \in Doc
  /\ RingSound(ring, disk)
  /\ \A c \in Callers : AtWork(pc[c], cur[c], nxt[c], ring, disk)

\* The names of the snapshots sort like their numbers.
NamesSort == \A s \in ring : s.file < PadLimit

LEMMA NewestIs ==
  ASSUME NamesSort, ring \subseteq Snapshots
  PROVE  /\ \A s \in ring : NewerThan(s) = {t \in ring : s.file < t.file}
         /\ \A s \in ring : Newest(s) <=> \A t \in ring : t.file <= s.file
<1>1. \A s, t \in ring : s.file \in Nat /\ (NameLess(s.file, t.file) <=> s.file < t.file)
  BY DEF NamesSort, NameLess, Snapshots
<1>2. \A s \in ring : NewerThan(s) = {t \in ring : s.file < t.file}
  BY <1>1 DEF NewerThan
<1>3. \A s \in ring : Newest(s) <=> \A t \in ring : ~ s.file < t.file
  BY <1>2 DEF Newest
<1> QED
  BY <1>1, <1>2, <1>3

\* The whole ring, with the snapshot above the document, is in one row too.
LEMMA RingFiled ==
  ASSUME NEW d \in Doc, NEW R, RingSound(R, d), NEW b \in Nat, b <= d.workspaceVersion,
         Filed(UpTo(R, d.workspaceVersion), b, d.workspaceVersion),
         NEW new \in R, new.file = d.workspaceVersion + 1
  PROVE  /\ Filed(R, b, d.workspaceVersion + 1)
         /\ new = [file |-> d.workspaceVersion + 1, doc |-> d]
<1>1. PICK v \in Nat : v = d.workspaceVersion
  BY DEF Doc
<1>2. \A s \in R : s \in Snapshots /\ s.file \in Nat /\ s.file <= v + 1
                   /\ (s.file = v + 1 => s.doc = d)
  BY <1>1 DEF RingSound, Snapshots
<1>3. \A s \in R : s.file = v + 1 => s = [file |-> v + 1, doc |-> d]
  BY <1>2 DEF Snapshots
<1>4. Filed(UpTo(R, v), b, v)
  BY <1>1
<1>5. \A s \in R : s \in UpTo(R, v) \/ s.file = v + 1
  BY <1>2 DEF UpTo
<1>6. \A s \in UpTo(R, v) : s \in R /\ s.file \in (b + 1)..v
  BY <1>4 DEF Filed, UpTo
<1>7. \A s, t \in R : s.file = t.file => s = t
  <2> TAKE s, t \in R
  <2>1. CASE s.file = v + 1
    BY <1>3, <2>1
  <2>2. CASE s.file # v + 1 /\ s.file = t.file
    BY <1>4, <1>5, <2>2 DEF Filed
  <2> QED BY <2>1, <2>2
<1>8. b <= v
  BY <1>1
<1>9. \A s \in R : s.file \in (b + 1)..(v + 1)
  BY <1>2, <1>5, <1>6, <1>8
<1>10. \A n \in (b + 1)..(v + 1) : \E s \in R : s.file = n
  <2> TAKE n \in (b + 1)..(v + 1)
  <2>1. CASE n = v + 1
    BY <1>1, <2>1
  <2>2. CASE n \in (b + 1)..v
    BY <1>4, <1>6, <2>2 DEF Filed
  <2> QED BY <2>1, <2>2
<1>11. Filed(R, b, v + 1)
  BY <1>2, <1>7, <1>9, <1>10 DEF Filed
<1> QED
  BY <1>1, <1>3, <1>11

\* The lock holder's snapshot replaces a leftover of its number.
LEMMA RingSnapshot ==
  ASSUME NEW d \in Doc, NEW R, RingSound(R, d),
         NEW new, new = [file |-> d.workspaceVersion + 1, doc |-> d],
         NEW T, T = {s \in R : s.file # d.workspaceVersion + 1} \cup {new}
  PROVE  RingSound(T, d) /\ UpTo(T, d.workspaceVersion) = UpTo(R, d.workspaceVersion)
<1>1. PICK v \in Nat : v = d.workspaceVersion
  BY DEF Doc
<1>2. new \in Snapshots /\ new.file = v + 1 /\ new.doc = d
  BY <1>1 DEF Snapshots
<1>3. UpTo(T, v) = UpTo(R, v)
  <2>1. \A s \in T : s.file <= v => s \in R
    BY <1>1, <1>2
  <2>2. \A s \in R : s.file <= v => s \in T
    BY <1>1
  <2> QED BY <1>2, <2>1, <2>2 DEF UpTo
<1>4. \A s \in T : (s \in R /\ s.file # v + 1) \/ s = new
  BY <1>1
<1>5. T \subseteq Snapshots
  BY <1>2, <1>4 DEF RingSound
<1>6. \A s \in T : s.file <= v + 1 /\ s.doc.workspaceVersion + 1 = s.file
  BY <1>1, <1>2, <1>4 DEF RingSound
<1>7. \A s \in T : s.file = v + 1 => s.doc = d
  BY <1>2, <1>4
<1>8. \E b \in Nat : b <= v /\ v <= b + UndoRingSize /\ Filed(UpTo(T, v), b, v)
  BY <1>1, <1>3 DEF RingSound
<1> QED
  BY <1>1, <1>3, <1>5, <1>6, <1>7, <1>8 DEF RingSound

\* Eviction forgets the oldest snapshot of a full stack, and makes room.
LEMMA RingEvict ==
  ASSUME NamesSort, NEW d \in Doc, RingSound(ring, d),
         [file |-> d.workspaceVersion + 1, doc |-> d] \in ring,
         NEW T, T = {s \in ring : Cardinality(NewerThan(s)) < UndoRingSize}
  PROVE  /\ RingSound(T, d)
         /\ [file |-> d.workspaceVersion + 1, doc |-> d] \in T
         /\ \A s \in T : d.workspaceVersion + 1 < s.file + UndoRingSize
         /\ \/ UpTo(T, d.workspaceVersion) = UpTo(ring, d.workspaceVersion)
            \/ /\ Len(ByAge(UpTo(ring, d.workspaceVersion))) = UndoRingSize
               /\ ByAge(UpTo(T, d.workspaceVersion)) = Tail(ByAge(UpTo(ring, d.workspaceVersion)))
<1>1. PICK v \in Nat : v = d.workspaceVersion
  BY DEF Doc
<1>2. PICK new \in ring : new = [file |-> v + 1, doc |-> d]
  BY <1>1
<1>3. PICK b \in Nat : b <= v /\ v <= b + UndoRingSize /\ Filed(UpTo(ring, v), b, v)
  BY <1>1 DEF RingSound
<1>4. Filed(ring, b, v + 1)
  BY <1>1, <1>2, <1>3, RingFiled
<1>5. ring \subseteq Snapshots /\ \A s \in ring : s.file \in Nat /\ s.file \in (b + 1)..(v + 1)
  BY <1>4 DEF Filed, Snapshots
<1>6. ASSUME NEW s \in ring
      PROVE  Cardinality(NewerThan(s)) = (v + 1) - s.file
  <2>1. NewerThan(s) = {t \in ring : s.file < t.file}
    BY <1>5, NewestIs
  <2>2. s.file \in Nat /\ b <= s.file /\ s.file <= v + 1 /\ v + 1 \in Nat
    BY <1>5
  <2>3. Filed({t \in ring : s.file < t.file}, s.file, v + 1)
    BY <1>4, <2>2, FiledPart
  <2> QED
    BY <2>1, <2>2, <2>3, FiledCount
<1>7. UndoRingSize \in Nat /\ UndoRingSize >= 1
  BY RingAssumption
<1>8. T = {s \in ring : v + 1 < s.file + UndoRingSize}
  <2>1. \A s \in ring : (v + 1) - s.file < UndoRingSize <=> v + 1 < s.file + UndoRingSize
    BY <1>5, <1>7
  <2> QED
    BY <1>6, <2>1
<1>9. new \in T /\ T \subseteq ring
  BY <1>2, <1>7, <1>8
<1>10. CASE v < b + UndoRingSize
  <2>1. T = ring
    BY <1>5, <1>7, <1>8, <1>10
  <2> QED
    BY <1>1, <1>2, <1>8, <2>1
<1>11. CASE v = b + UndoRingSize
  <2>1. T = {s \in ring : b + 1 < s.file}
    BY <1>5, <1>7, <1>8, <1>11
  <2>2. b < v /\ b + 1 \in Nat /\ b + 1 <= v
    BY <1>7, <1>11
  <2>3. UpTo(T, v) = {s \in UpTo(ring, v) : b + 1 < s.file}
    BY <2>1 DEF UpTo
  <2>4. Filed(UpTo(T, v), b + 1, v)
    BY <1>3, <2>2, <2>3, FiledPart
  <2>5. ByAge(UpTo(T, v)) = Tail(ByAge(UpTo(ring, v)))
    BY <1>3, <2>2, <2>3, FiledForget
  <2>6. Len(ByAge(UpTo(ring, v))) = v - b
    BY <1>3, FiledByAge
  <2>7. v - b = UndoRingSize /\ v <= (b + 1) + UndoRingSize
    BY <1>7, <1>11
  <2>8. RingSound(T, d)
    <3>1. /\ T \subseteq Snapshots
          /\ \A s \in T : s.file <= v + 1 /\ s.doc.workspaceVersion + 1 = s.file
          /\ \A s \in T : s.file = v + 1 => s.doc = d
      BY <1>1, <1>9 DEF RingSound
    <3> QED
      BY <1>1, <2>2, <2>4, <2>7, <3>1 DEF RingSound
  <2> QED
    BY <1>1, <1>2, <1>8, <1>9, <2>5, <2>6, <2>7, <2>8
<1> QED
  BY <1>3, <1>7, <1>10, <1>11

\* A commit puts its snapshot on the stack.
LEMMA RingCommit ==
  ASSUME NEW d \in Doc, NEW R, RingSound(R, d),
         [file |-> d.workspaceVersion + 1, doc |-> d] \in R,
         \A s \in R : d.workspaceVersion + 1 < s.file + UndoRingSize,
         NEW e \in Doc, e.workspaceVersion = d.workspaceVersion + 1
  PROVE  /\ RingSound(R, e)
         /\ Len(ByAge(UpTo(R, d.workspaceVersion))) < UndoRingSize
         /\ ByAge(UpTo(R, e.workspaceVersion)) = Append(ByAge(UpTo(R, d.workspaceVersion)), d)
<1>1. PICK v \in Nat : v = d.workspaceVersion
  BY DEF Doc
<1>2. PICK new \in R : new = [file |-> v + 1, doc |-> d]
  BY <1>1
<1>3. PICK b \in Nat : b <= v /\ v <= b + UndoRingSize /\ Filed(UpTo(R, v), b, v)
  BY <1>1 DEF RingSound
<1>4. Filed(R, b, v + 1)
  BY <1>1, <1>2, <1>3, RingFiled
<1>5. UndoRingSize \in Nat /\ UndoRingSize >= 1
  BY RingAssumption
<1>6. \A s \in R : s.file \in (b + 1)..(v + 1) /\ s.file \in Nat /\ v + 1 < s.file + UndoRingSize
  BY <1>1, <1>4 DEF Filed
<1>7. v < b + UndoRingSize
  <2>1. b + 1 \in (b + 1)..(v + 1)
    BY <1>3
  <2>2. PICK s \in R : s.file = b + 1
    BY <1>4, <2>1 DEF Filed
  <2>3. v + 1 < (b + 1) + UndoRingSize
    BY <1>6, <2>2
  <2> QED BY <1>5, <2>3
<1>8. UpTo(R, v + 1) = R
  BY <1>6 DEF UpTo
<1>9. R = UpTo(R, v) \cup {new}
  <2>1. \A s \in R : s \in UpTo(R, v) \/ s.file = v + 1
    BY <1>6 DEF UpTo
  <2>2. \A s \in R : s.file = new.file => s = new
    BY <1>4 DEF Filed
  <2>3. new.file = v + 1
    BY <1>2
  <2> QED BY <2>1, <2>2, <2>3 DEF UpTo
<1>10. ByAge(R) = Append(ByAge(UpTo(R, v)), d)
  BY <1>2, <1>3, <1>9, FiledPush
<1>11. Len(ByAge(UpTo(R, v))) < UndoRingSize
  <2>1. Len(ByAge(UpTo(R, v))) = v - b
    BY <1>3, FiledByAge
  <2> QED BY <1>5, <1>7, <2>1
<1>12. RingSound(R, e)
  <2>1. R \subseteq Snapshots /\ \A s \in R : s.doc.workspaceVersion + 1 = s.file
    BY DEF RingSound
  <2>2. \A s \in R : s.file <= (v + 1) + 1 /\ s.file # (v + 1) + 1
    BY <1>6
  <2>3. b <= v + 1 /\ v + 1 <= b + UndoRingSize /\ Filed(UpTo(R, v + 1), b, v + 1)
    BY <1>3, <1>4, <1>5, <1>7, <1>8
  <2> QED BY <1>1, <2>1, <2>2, <2>3 DEF RingSound
<1> QED
  BY <1>1, <1>8, <1>10, <1>11, <1>12

\* An undo writes the document of the newest snapshot: the latest one on the
\* stack is popped, or a leftover gives the document there is.
LEMMA RingUndo ==
  ASSUME NEW d \in Doc, NEW R, RingSound(R, d),
         NEW s \in R, \A t \in R : t.file <= s.file
  PROVE  /\ s.doc \in Doc
         /\ RingSound(R, s.doc)
         /\ s.file = s.doc.workspaceVersion + 1
         /\ \/ s.doc = d
            \/ /\ ByAge(UpTo(R, d.workspaceVersion)) # <<>>
               /\ s.doc = ByAge(UpTo(R, d.workspaceVersion))[Len(ByAge(UpTo(R, d.workspaceVersion)))]
               /\ ByAge(UpTo(R, s.doc.workspaceVersion))
                    = SubSeq(ByAge(UpTo(R, d.workspaceVersion)), 1,
                             Len(ByAge(UpTo(R, d.workspaceVersion))) - 1)
<1>1. PICK v \in Nat : v = d.workspaceVersion
  BY DEF Doc
<1>2. PICK e \in Doc : e = s.doc
  BY DEF RingSound, Snapshots
<1>3. PICK m \in Nat : m = e.workspaceVersion
  BY DEF Doc
<1>4. s.file = m + 1 /\ s.file \in Nat /\ s.file <= v + 1
  BY <1>1, <1>2, <1>3 DEF RingSound, Snapshots
<1>5. CASE s.file = v + 1
  <2>1. e = d
    BY <1>1, <1>2, <1>5 DEF RingSound
  <2> QED BY <1>2, <1>3, <1>4, <2>1
<1>6. CASE s.file <= v
  <2>1. PICK b \in Nat : b <= v /\ v <= b + UndoRingSize /\ Filed(UpTo(R, v), b, v)
    BY <1>1 DEF RingSound
  <2>2. \A t \in R : t \in Snapshots /\ t.file \in Nat /\ t.file <= v
    BY <1>4, <1>6 DEF RingSound, Snapshots
  <2>3. UpTo(R, v) = R
    BY <2>2 DEF UpTo
  <2>4. Filed(R, b, v)
    BY <2>1, <2>3
  <2>5. s.file \in (b + 1)..v
    BY <2>4 DEF Filed
  <2>6. b < v /\ v \in (b + 1)..v
    BY <2>5
  <2>7. PICK t \in R : t.file = v
    BY <2>4, <2>6 DEF Filed
  <2>8. s.file = v
    BY <1>4, <1>6, <2>7
  <2>9. v - 1 = m
    BY <1>4, <2>8
  <2>10. /\ ByAge(R) # <<>> /\ ByAge(R)[Len(ByAge(R))] = e
         /\ ByAge(UpTo(R, m)) = SubSeq(ByAge(R), 1, Len(ByAge(R)) - 1)
    BY <1>2, <2>4, <2>6, <2>8, <2>9, FiledPop
  <2>11. RingSound(R, e)
    <3>1. R \subseteq Snapshots /\ \A u \in R : u.doc.workspaceVersion + 1 = u.file
      BY DEF RingSound
    <3>2. \A u \in R : u.file <= m + 1 /\ (u.file = m + 1 => u.doc = e)
      BY <1>2, <1>4, <2>4, <2>8 DEF Filed
    <3>3. b <= m /\ m <= v /\ m <= b + UndoRingSize
      <4>1. UndoRingSize \in Nat
        BY RingAssumption
      <4> QED BY <2>1, <2>6, <2>9, <4>1
    <3>4. Filed(UpTo(R, m), b, m)
      BY <2>4, <3>3, FiledPart
    <3> QED BY <1>3, <3>1, <3>2, <3>3, <3>4 DEF RingSound
  <2> QED
    BY <1>1, <1>2, <1>3, <1>4, <2>3, <2>10, <2>11
<1> QED
  BY <1>4, <1>5, <1>6

\* The restored snapshot is removed: it was above the document already.
LEMMA RingRm ==
  ASSUME NamesSort, NEW d \in Doc, RingSound(ring, d),
         NEW s \in ring, s.file = d.workspaceVersion + 1,
         NEW T, T = {t \in ring : ~Newest(t)}
  PROVE  RingSound(T, d) /\ UpTo(T, d.workspaceVersion) = UpTo(ring, d.workspaceVersion)
<1>1. PICK v \in Nat : v = d.workspaceVersion
  BY DEF Doc
<1>2. ring \subseteq Snapshots /\ \A t \in ring : t.file \in Nat /\ t.file <= v + 1
  BY <1>1 DEF RingSound, Snapshots
<1>3. \A t \in ring : Newest(t) <=> t.file = v + 1
  <2> TAKE t \in ring
  <2>1. Newest(t) <=> \A u \in ring : u.file <= t.file
    BY <1>2, NewestIs
  <2> QED BY <1>1, <1>2, <2>1
<1>4. UpTo(T, v) = UpTo(ring, v)
  BY <1>2, <1>3 DEF UpTo
<1> QED
  BY <1>1, <1>2, <1>4 DEF RingSound

\* Without TTLs no read has anything to write back.
LEMMA NothingSwept ==
  ASSUME Expiries = {}, disk \in Doc
  PROVE  Loaded = disk /\ MustWrite = FALSE
<1>1. disk # NoDoc
  BY NoDocAssumption
<1>2. disk.ephemerals = {} /\ ExpiredWidgets(disk, clock) = {}
  BY DEF Doc, ExpiredWidgets
<1>3. \A n \in Connectors : disk.grants[n].expiresAt = Never
  BY DEF Doc, Grant
<1>4. LapsedGrants(disk, clock) = {}
  BY <1>3 DEF LapsedGrants, Lapsed
<1>5. SweepEphemeral(disk, clock) = disk
  BY <1>2 DEF SweepEphemeral
<1>6. Sweep(disk, clock) = disk
  BY <1>4, <1>5 DEF Sweep, SweepGrants
<1> QED
  BY <1>1, <1>2, <1>4, <1>6 DEF Loaded, MustWrite, NeedsSweep

LEMMA AtRest ==
  \A d, e, R, k : AtWork("idle", d, e, R, k) /\ AtWork("queued", d, e, R, k)
  BY DEF AtWork

LEMMA CandidateVersion ==
  ASSUME NEW c \in Callers, TypeOK, pc[c] \in MutatePC
  PROVE  /\ cur[c] \in Doc /\ Candidate(c) \in Doc
         /\ Candidate(c).workspaceVersion = cur[c].workspaceVersion + 1
<1>1. op[c] \in MutateOp /\ cur[c] \in Doc
  BY DEF TypeOK
<1>2. PICK p \in Doc : p = Produced(op[c], cur[c])
  BY <1>1, ProducedType
<1>3. cur[c].workspaceVersion + 1 \in Nat
  BY <1>1 DEF Doc
<1>4. Candidate(c) = [p EXCEPT !.workspaceVersion = cur[c].workspaceVersion + 1]
  BY <1>2 DEF Candidate
<1> QED
  BY <1>1, <1>3, <1>4 DEF Doc

\* While one caller is inside, the others rest.
LEMMA OthersRest ==
  ASSUME TypeOK, LockOK, StackInv, NEW c \in Callers, HoldsLock(c), NEW b \in Callers, b # c
  PROVE  pc[b] \in {"idle", "queued"}
<1>1. pc[b] \notin LockedPC
  BY DEF LockOK, HoldsLock
<1>2. pc[b] \in PC /\ pc[b] # "readWrite"
  BY DEF TypeOK, StackInv, AtWork
<1> QED
  BY <1>1, <1>2 DEF LockedPC

\* A step of the lock holder, seen from the callers.
LEMMA HolderMoves ==
  ASSUME TypeOK, LockOK, StackInv, NEW c \in Callers, HoldsLock(c),
         NEW p, pc' = [pc EXCEPT ![c] = p],
         AtWork(p, cur'[c], nxt'[c], ring', disk')
  PROVE  \A b \in Callers : AtWork(pc'[b], cur'[b], nxt'[b], ring', disk')
<1>1. pc \in [Callers -> PC]
  BY DEF TypeOK
<1>2. \A b \in Callers : b # c => pc'[b] \in {"idle", "queued"}
  BY <1>1, OthersRest
<1>3. pc'[c] = p
  BY <1>1
<1> QED
  BY <1>2, <1>3, AtRest

\* Where a stack step is invisible: the document and what is on the stack stay.
Unseen == disk' = disk /\ Replaced' = Replaced

LEMMA FilesUntouched ==
  ASSUME UNCHANGED <<disk, ring>>
  PROVE  Unseen
  BY DEF Unseen, Replaced, UpTo, ByAge

StackGoal == StackInv' /\ (Unseen \/ Stack!Next)

\* A caller that does not touch the files.
LEMMA QuietStep ==
  ASSUME StackInv, UNCHANGED <<disk, ring>>,
         \A b \in Callers : AtWork(pc'[b], cur'[b], nxt'[b], ring, disk)
  PROVE  StackGoal
<1>1. StackInv'
  BY DEF StackInv, RingSound, AtWork, Filed, UpTo
<1> QED
  BY <1>1, FilesUntouched DEF StackGoal

LEMMA RestStep ==
  ASSUME TypeOK, StackInv, UNCHANGED <<disk, ring>>, NEW c \in Callers,
         NEW p \in {"idle", "queued"}, pc' = [pc EXCEPT ![c] = p],
         \A b \in Callers : b # c => cur'[b] = cur[b] /\ nxt'[b] = nxt[b]
  PROVE  StackGoal
<1>1. pc \in [Callers -> PC]
  BY DEF TypeOK
<1>2. \A b \in Callers : AtWork(pc'[b], cur'[b], nxt'[b], ring, disk)
  <2> TAKE b \in Callers
  <2>1. CASE b = c
    BY <1>1, <2>1, AtRest
  <2>2. CASE b # c
    <3>1. pc'[b] = pc[b] /\ cur'[b] = cur[b] /\ nxt'[b] = nxt[b]
      BY <1>1, <2>2
    <3> QED BY <3>1 DEF StackInv
  <2> QED BY <2>1, <2>2
<1> QED
  BY <1>2, QuietStep

LEMMA SettleRest ==
  ASSUME TypeOK, StackInv, UNCHANGED <<disk, ring>>, NEW c \in Callers, Settle(c)
  PROVE  StackGoal
<1>1. pc' = [pc EXCEPT ![c] = "idle"] /\ \A b \in Callers : b # c => cur'[b] = cur[b] /\ nxt'[b] = nxt[b]
  BY DEF Settle, TypeOK
<1> QED
  BY <1>1, RestStep

\* The places a caller may go to while the files stay.
LEMMA HolderQuiet ==
  ASSUME TypeOK, LockOK, StackInv, UNCHANGED <<disk, ring>>, NEW c \in Callers, HoldsLock(c),
         NEW p, pc' = [pc EXCEPT ![c] = p], AtWork(p, cur'[c], nxt'[c], ring, disk)
  PROVE  StackGoal
<1>1. AtWork(p, cur'[c], nxt'[c], ring', disk')
  BY DEF AtWork
<1>2. \A b \in Callers : AtWork(pc'[b], cur'[b], nxt'[b], ring', disk')
  BY <1>1, HolderMoves
<1>3. \A b \in Callers : AtWork(pc'[b], cur'[b], nxt'[b], ring, disk)
  BY <1>2 DEF AtWork
<1> QED
  BY <1>3, QuietStep

LEMMA StackLoad ==
  ASSUME Expiries = {}, TypeOK, LockOK, StackInv, NEW c \in Callers, Load(c)
  PROVE  StackGoal
<1>1. HoldsLock(c) /\ UNCHANGED <<disk, ring>> /\ cur' = [cur EXCEPT ![c] = Loaded]
      /\ pc' = [pc EXCEPT ![c] = IF MustWrite THEN "sweep" ELSE "produce"] /\ nxt' = nxt
  BY DEF Load, storage
<1>2. Loaded = disk /\ MustWrite = FALSE
  BY NothingSwept DEF StackInv
<1>3. pc' = [pc EXCEPT ![c] = "produce"] /\ cur'[c] = disk
  BY <1>1, <1>2 DEF TypeOK
<1>4. AtWork("produce", cur'[c], nxt'[c], ring, disk)
  BY <1>3 DEF AtWork
<1> QED
  BY <1>1, <1>3, <1>4, HolderQuiet

LEMMA StackProduce ==
  ASSUME TypeOK, LockOK, StackInv, NEW c \in Callers, Produce(c)
  PROVE  StackGoal
<1>1. /\ pc[c] = "produce" /\ UNCHANGED <<disk, ring>> /\ cur' = cur
      /\ nxt' = [nxt EXCEPT ![c] = Candidate(c)] /\ pc' = [pc EXCEPT ![c] = "snapshot"]
  BY DEF Produce, storage
<1>2. HoldsLock(c) /\ pc[c] \in MutatePC
  BY <1>1 DEF LockOK, LockedPC, PC, MutatePC
<1>3. cur[c] = disk
  BY <1>1 DEF StackInv, AtWork
<1>4. nxt'[c].workspaceVersion = disk.workspaceVersion + 1
  BY <1>1, <1>2, <1>3, CandidateVersion DEF TypeOK
<1>5. AtWork("snapshot", cur'[c], nxt'[c], ring, disk)
  BY <1>1, <1>3, <1>4 DEF AtWork
<1> QED
  BY <1>1, <1>2, <1>5, HolderQuiet

LEMMA StackUndoLoad ==
  ASSUME NamesSort, TypeOK, LockOK, StackInv, NEW c \in Callers, UndoLoad(c)
  PROVE  StackGoal
<1>1. /\ HoldsLock(c) /\ UNCHANGED <<disk, ring>> /\ pc' = [pc EXCEPT ![c] = "undoWrite"]
  BY DEF UndoLoad, storage
<1>2. PICK s \in ring : Newest(s) /\ nxt' = [nxt EXCEPT ![c] = s.doc]
  BY DEF UndoLoad
<1>3. \A t \in ring : t.file <= s.file
  BY <1>2, NewestIs DEF TypeOK
<1>4. nxt'[c] = s.doc
  BY <1>2 DEF TypeOK
<1>5. AtWork("undoWrite", cur'[c], nxt'[c], ring, disk)
  BY <1>3, <1>4 DEF AtWork
<1> QED
  BY <1>1, <1>5, HolderQuiet

\* The files of the lock holder's step.
LEMMA HolderWrites ==
  ASSUME TypeOK, LockOK, StackInv, NEW c \in Callers, HoldsLock(c),
         NEW p, pc' = [pc EXCEPT ![c] = p],
         disk' \in Doc, RingSound(ring', disk'),
         AtWork(p, cur'[c], nxt'[c], ring', disk')
  PROVE  StackInv'
<1>1. \A b \in Callers : AtWork(pc'[b], cur'[b], nxt'[b], ring', disk')
  BY HolderMoves
<1>2. RingSound(ring, disk)'
  BY DEF RingSound, Filed, UpTo
<1>3. \A b \in Callers : AtWork(pc[b], cur[b], nxt[b], ring, disk)'
  BY <1>1 DEF AtWork
<1> QED
  BY <1>2, <1>3 DEF StackInv

\* What is replaced, after a step.
LEMMA ReplacedNext ==
  ASSUME NEW T, ring' = T, NEW n, disk'.workspaceVersion = n
  PROVE  Replaced' = ByAge(UpTo(T, n))
  BY DEF Replaced, ByAge, UpTo

LEMMA StackSnapshot ==
  ASSUME TypeOK, LockOK, StackInv, NEW c \in Callers, Snapshot(c)
  PROVE  StackGoal
<1>1. /\ pc[c] = "snapshot" /\ disk' = disk /\ cur' = cur /\ nxt' = nxt
      /\ pc' = [pc EXCEPT ![c] = "evict"]
      /\ ring' = {s \in ring : s.file # nxt[c].workspaceVersion}
                   \cup {[file |-> nxt[c].workspaceVersion, doc |-> cur[c]]}
  BY DEF Snapshot
<1>2. HoldsLock(c)
  BY <1>1 DEF LockOK, LockedPC, PC
<1>3. cur[c] = disk /\ nxt[c].workspaceVersion = disk.workspaceVersion + 1
  BY <1>1 DEF StackInv, AtWork
<1>4. disk \in Doc /\ RingSound(ring, disk)
  BY DEF StackInv
<1>5. RingSound(ring', disk) /\ UpTo(ring', disk.workspaceVersion) = UpTo(ring, disk.workspaceVersion)
  <2>1. ring' = {s \in ring : s.file # disk.workspaceVersion + 1}
                  \cup {[file |-> disk.workspaceVersion + 1, doc |-> disk]}
    BY <1>1, <1>3
  <2> QED
    BY <1>4, <2>1, RingSnapshot
<1>6. Unseen
  BY <1>1, <1>5, ReplacedNext DEF Unseen, Replaced
<1>7. AtWork("evict", cur'[c], nxt'[c], ring', disk')
  BY <1>1, <1>3 DEF AtWork
<1>8. StackInv'
  BY <1>1, <1>2, <1>4, <1>5, <1>7, HolderWrites
<1> QED
  BY <1>6, <1>8 DEF StackGoal

LEMMA StackEvict ==
  ASSUME NamesSort, TypeOK, LockOK, StackInv, NEW c \in Callers, Evict(c)
  PROVE  StackGoal
<1>1. /\ pc[c] = "evict" /\ disk' = disk /\ cur' = cur /\ nxt' = nxt
      /\ pc' = [pc EXCEPT ![c] = "commit"]
      /\ ring' = {s \in ring : Cardinality(NewerThan(s)) < UndoRingSize}
  BY DEF Evict
<1>2. HoldsLock(c)
  BY <1>1 DEF LockOK, LockedPC, PC
<1>3. /\ cur[c] = disk /\ nxt[c].workspaceVersion = disk.workspaceVersion + 1
      /\ [file |-> disk.workspaceVersion + 1, doc |-> disk] \in ring
  BY <1>1 DEF StackInv, AtWork
<1>4. disk \in Doc /\ RingSound(ring, disk)
  BY DEF StackInv
<1>5. /\ RingSound(ring', disk)
      /\ [file |-> disk.workspaceVersion + 1, doc |-> disk] \in ring'
      /\ \A s \in ring' : disk.workspaceVersion + 1 < s.file + UndoRingSize
      /\ \/ UpTo(ring', disk.workspaceVersion) = UpTo(ring, disk.workspaceVersion)
         \/ /\ Len(ByAge(UpTo(ring, disk.workspaceVersion))) = UndoRingSize
            /\ ByAge(UpTo(ring', disk.workspaceVersion))
                 = Tail(ByAge(UpTo(ring, disk.workspaceVersion)))
  BY <1>1, <1>3, <1>4, RingEvict
<1>6. Replaced' = ByAge(UpTo(ring', disk.workspaceVersion))
  BY <1>1, ReplacedNext
<1>7. Unseen \/ Stack!Forget
  BY <1>1, <1>5, <1>6 DEF Unseen, Replaced, Stack!Forget
<1>8. AtWork("commit", cur'[c], nxt'[c], ring', disk')
  BY <1>1, <1>3, <1>5 DEF AtWork
<1>9. StackInv'
  BY <1>1, <1>2, <1>4, <1>5, <1>8, HolderWrites
<1> QED
  BY <1>7, <1>9 DEF StackGoal, Stack!Next

LEMMA StackCommit ==
  ASSUME TypeOK, LockOK, StackInv, NEW c \in Callers, Commit(c)
  PROVE  StackGoal
<1>1. /\ pc[c] = "commit" /\ disk' = nxt[c] /\ ring' = ring
      /\ pc' = [pc EXCEPT ![c] = "idle"]
  BY DEF Commit, Settle
<1>2. HoldsLock(c)
  BY <1>1 DEF LockOK, LockedPC, PC
<1>3. /\ cur[c] = disk /\ nxt[c].workspaceVersion = disk.workspaceVersion + 1
      /\ [file |-> disk.workspaceVersion + 1, doc |-> disk] \in ring
      /\ \A s \in ring : disk.workspaceVersion + 1 < s.file + UndoRingSize
  BY <1>1 DEF StackInv, AtWork
<1>4. disk \in Doc /\ RingSound(ring, disk) /\ nxt[c] \in Doc
  BY <1>1 DEF StackInv, TypeOK, WritePC
<1>5. /\ RingSound(ring, nxt[c])
      /\ Len(ByAge(UpTo(ring, disk.workspaceVersion))) < UndoRingSize
      /\ ByAge(UpTo(ring, nxt[c].workspaceVersion))
           = Append(ByAge(UpTo(ring, disk.workspaceVersion)), disk)
  BY <1>3, <1>4, RingCommit
<1>6. Replaced' = ByAge(UpTo(ring, nxt[c].workspaceVersion))
  BY <1>1, ReplacedNext
<1>7. Stack!Commit
  BY <1>1, <1>3, <1>5, <1>6 DEF Replaced, Stack!Commit
<1>8. AtWork("idle", cur'[c], nxt'[c], ring', disk')
  BY AtRest
<1>9. StackInv'
  BY <1>1, <1>2, <1>4, <1>5, <1>8, HolderWrites
<1> QED
  BY <1>7, <1>9 DEF StackGoal, Stack!Next

LEMMA StackUndoWrite ==
  ASSUME TypeOK, LockOK, StackInv, NEW c \in Callers, UndoWrite(c)
  PROVE  StackGoal
<1>1. /\ pc[c] = "undoWrite" /\ disk' = nxt[c] /\ ring' = ring
      /\ pc' = [pc EXCEPT ![c] = "undoRm"]
  BY DEF UndoWrite
<1>2. HoldsLock(c)
  BY <1>1 DEF LockOK, LockedPC, PC
<1>3. PICK s \in ring : s.doc = nxt[c] /\ \A t \in ring : t.file <= s.file
  BY <1>1 DEF StackInv, AtWork
<1>4. disk \in Doc /\ RingSound(ring, disk)
  BY DEF StackInv
<1>5. /\ nxt[c] \in Doc /\ RingSound(ring, nxt[c])
      /\ s.file = nxt[c].workspaceVersion + 1
      /\ \/ nxt[c] = disk
         \/ /\ ByAge(UpTo(ring, disk.workspaceVersion)) # <<>>
            /\ nxt[c] = ByAge(UpTo(ring, disk.workspaceVersion))
                          [Len(ByAge(UpTo(ring, disk.workspaceVersion)))]
            /\ ByAge(UpTo(ring, nxt[c].workspaceVersion))
                 = SubSeq(ByAge(UpTo(ring, disk.workspaceVersion)), 1,
                          Len(ByAge(UpTo(ring, disk.workspaceVersion))) - 1)
  BY <1>3, <1>4, RingUndo
<1>6. Replaced' = ByAge(UpTo(ring, nxt[c].workspaceVersion))
  BY <1>1, ReplacedNext
<1>7. Unseen \/ Stack!Undo
  <2>1. CASE nxt[c] = disk
    BY <1>1, <1>6, <2>1 DEF Unseen, Replaced
  <2>2. CASE nxt[c] # disk
    BY <1>1, <1>5, <1>6, <2>2 DEF Replaced, Stack!Undo
  <2> QED BY <2>1, <2>2
<1>8. AtWork("undoRm", cur'[c], nxt'[c], ring', disk')
  BY <1>1, <1>5 DEF AtWork
<1>9. StackInv'
  BY <1>1, <1>2, <1>5, <1>8, HolderWrites
<1> QED
  BY <1>7, <1>9 DEF StackGoal, Stack!Next

LEMMA StackUndoRm ==
  ASSUME NamesSort, TypeOK, LockOK, StackInv, NEW c \in Callers, UndoRm(c)
  PROVE  StackGoal
<1>1. /\ pc[c] = "undoRm" /\ disk' = disk /\ ring' = {s \in ring : ~Newest(s)}
      /\ pc' = [pc EXCEPT ![c] = "idle"]
  BY DEF UndoRm, Settle
<1>2. HoldsLock(c)
  BY <1>1 DEF LockOK, LockedPC, PC
<1>3. PICK s \in ring : s.file = disk.workspaceVersion + 1
  BY <1>1 DEF StackInv, AtWork
<1>4. disk \in Doc /\ RingSound(ring, disk)
  BY DEF StackInv
<1>5. RingSound(ring', disk) /\ UpTo(ring', disk.workspaceVersion) = UpTo(ring, disk.workspaceVersion)
  BY <1>1, <1>3, <1>4, RingRm
<1>6. Unseen
  BY <1>1, <1>5, ReplacedNext DEF Unseen, Replaced
<1>7. AtWork("idle", cur'[c], nxt'[c], ring', disk')
  BY AtRest
<1>8. StackInv'
  BY <1>1, <1>2, <1>4, <1>5, <1>7, HolderWrites
<1> QED
  BY <1>6, <1>8 DEF StackGoal

LEMMA StackStep ==
  ASSUME Expiries = {}, NamesSort, TypeOK, LockOK, StackInv, [Next]_vars
  PROVE  StackGoal
<1>1. ASSUME NEW c \in Callers, Call(c)
      PROVE  StackGoal
  <2>1. UNCHANGED <<disk, ring>> /\ pc' = [pc EXCEPT ![c] = "queued"] /\ cur' = cur /\ nxt' = nxt
    BY <1>1 DEF Call, storage
  <2> QED BY <2>1, RestStep
<1>2. ASSUME NEW c \in Callers, ReadStart(c) \/ ReadWrite(c) \/ SweepWrite(c)
      PROVE  StackGoal
  <2>1. MustWrite = FALSE
    BY NothingSwept DEF StackInv
  <2>2. pc[c] \notin {"readWrite", "sweep"}
    BY DEF StackInv, AtWork
  <2> QED BY <1>2, <2>1, <2>2 DEF ReadStart, ReadWrite, SweepWrite
<1>3. ASSUME NEW c \in Callers, Reject(c) \/ UndoEmpty(c) \/ IOFail(c)
      PROVE  StackGoal
  <2>1. Settle(c) /\ UNCHANGED <<disk, ring>>
    BY <1>3 DEF Reject, UndoEmpty, IOFail, storage
  <2> QED BY <2>1, SettleRest
<1>4. ASSUME NEW c \in Callers,
             Load(c) \/ Produce(c) \/ Snapshot(c) \/ Evict(c) \/ Commit(c)
      PROVE  StackGoal
  BY <1>4, StackLoad, StackProduce, StackSnapshot, StackEvict, StackCommit
<1>5. ASSUME NEW c \in Callers, UndoLoad(c) \/ UndoWrite(c) \/ UndoRm(c)
      PROVE  StackGoal
  BY <1>5, StackUndoLoad, StackUndoWrite, StackUndoRm
<1>6. CASE Crash
  <2>1. UNCHANGED <<disk, ring>> /\ \A b \in Callers : pc'[b] = "idle"
    BY <1>6 DEF Crash, storage
  <2>2. \A b \in Callers : AtWork(pc'[b], cur'[b], nxt'[b], ring, disk)
    BY <2>1, AtRest
  <2> QED BY <2>1, <2>2, QuietStep
<1>7. CASE Tick \/ UNCHANGED vars
  <2>1. UNCHANGED <<disk, ring, pc, cur, nxt>>
    BY <1>7 DEF Tick, vars, storage, memory
  <2>2. \A b \in Callers : AtWork(pc'[b], cur'[b], nxt'[b], ring, disk)
    BY <2>1 DEF StackInv
  <2> QED BY <2>1, <2>2, QuietStep
<1> QED
  BY <1>1, <1>2, <1>3, <1>4, <1>5, <1>6, <1>7 DEF Next, Progress

LEMMA StackInitial ==
  ASSUME Seeded, Init
  PROVE  StackInv /\ Stack!Init
<1>1. disk = DefaultDoc /\ disk \in Doc /\ ring = {} /\ disk.workspaceVersion = 1
  BY DefaultDocType DEF Init, DefaultDoc
<1>2. UpTo(ring, 1) = {} /\ Filed({}, 1, 1)
  BY <1>1 DEF UpTo, Filed
<1>3. ByAge({}) = <<>>
  <2>1. <<>> \in Seq(Doc) /\ Len(<<>>) = 1 - 1 /\ 1 \in Nat /\ 1 <= 1
    OBVIOUS
  <2>2. \A s \in {} : <<>>[s.file - 1] = s.doc
    OBVIOUS
  <2> QED
    BY <1>2, <2>1, <2>2, FiledIs
<1>4. RingSound(ring, disk)
  BY <1>1, <1>2, RingAssumption DEF RingSound
<1>5. \A c \in Callers : AtWork(pc[c], cur[c], nxt[c], ring, disk)
  BY AtRest DEF Init
<1> QED
  BY <1>1, <1>2, <1>3, <1>4, <1>5 DEF StackInv, Stack!Init, Replaced

\* On a board without TTLs that exists from the start, and as long as the names
\* of its snapshots sort like their numbers, the two files are a document and a
\* bounded stack of the documents that commits replaced, whatever callers
\* overlap, and whatever storage call fails or is cut by a crash.
THEOREM StackImplemented ==
  ASSUME Seeded, Expiries = {}
  PROVE  Spec /\ []NamesSort => ImplementsUndoStack
<1>1. Init => StackInv /\ Stack!Init
  BY StackInitial
<1>2. TypeOK /\ LockOK /\ NamesSort /\ StackInv /\ [Next]_vars => StackInv'
  BY StackStep DEF StackGoal
<1>3. TypeOK /\ LockOK /\ NamesSort /\ StackInv /\ [Next]_vars => [Stack!Next]_(Stack!vars)
  BY StackStep DEF StackGoal, Unseen, Stack!vars
<1> QED
  BY <1>1, <1>2, <1>3, TypeCorrect, LockCorrect, PTL DEF Spec, ImplementsUndoStack, Stack!Spec
=============================================================================
