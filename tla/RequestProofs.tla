---------------------------- MODULE RequestProofs ----------------------------
(***************************************************************************)
(* Proofs about what is requested of the server.                           *)
(*   PendingActions: for every set of calls, actions, waiters, tools and   *)
(*   actors, every set of approvals and every number of drifts.            *)
(*   Board: for every set of operators, every list of tab names and widget *)
(*   ids, every document found on disk or written by an agent, every       *)
(*   rectangle asked for, and all limits.                                  *)
(***************************************************************************)
EXTENDS PendingActions, Board, FiniteSetTheorems, SequenceTheorems, WellFoundedInduction,
        TLAPS

(***************************************************************************)
(* Types                                                                   *)
(***************************************************************************)
\* The constant records have their types.
LEMMA ConstantTypes ==
  /\ \A h \in Nat : Requested(h) \in Grant
  /\ NoRequest \in Request
  /\ NoCall \in Call
  <1>1. \A h \in Nat : Requested(h) \in Grant
    BY DEF Requested, Grant
  <1> QED
    BY <1>1, ToolsAssumption DEF NoRequest, Request, NoCall, Call, PC

\* A re-pended or revoked grant is a grant, and is not granted.
LEMMA RePendedType ==
  ASSUME NEW g \in Grant
  PROVE  /\ RePended(g) \in Grant /\ RePended(g).status = "requested"
         /\ RePended(g).hash = g.hash
         /\ [RePended(g) EXCEPT !.status = "revoked"] \in Grant
         /\ [RePended(g) EXCEPT !.status = "revoked"].status = "revoked"
         /\ [RePended(g) EXCEPT !.status = "revoked"].hash = g.hash
  BY DEF RePended, Grant

\* What a grant permits is a set of modes.
LEMMA PermitsType ==
  ASSUME NEW g, NEW m, NEW t, NEW who
  PROVE  Permits(g, m, t, who) \subseteq {"call", "auto"}
  BY DEF Permits

\* Become keeps the types, for any grant and manifest.
LEMMA BecomeType ==
  ASSUME TypeOK, NEW g \in Grant, NEW m \in Nat, Become(g, m)
  PROVE  grant' \in Grant /\ live' \in Nat /\ authorised' \in [Calls -> SUBSET {"call", "auto"}]
  BY PermitsType DEF Become, TypeOK

\* Settling keeps the types.
LEMMA SettleType ==
  ASSUME TypeOK, NEW a \in Actions, NEW how \in Settled, NEW told \in Outcome,
         Settle(a, how, told)
  PROVE  /\ status' \in [Actions -> Status] /\ audited' \in [Actions -> Nat]
         /\ outcome' \in [Waiters -> Outcome]
         /\ request' = request /\ awaited' = awaited
  BY DEF Settle, TypeOK, Status

\* Starting and finishing a call keep the types.
LEMMA CallType ==
  ASSUME TypeOK, NEW k \in Calls
  PROVE  /\ \A c \in Call : Start(k, c) =>
              /\ call' \in [Calls -> Call]
              /\ authorised' \in [Calls -> SUBSET {"call", "auto"}]
         /\ Finish(k) =>
              /\ call' \in [Calls -> Call]
              /\ authorised' \in [Calls -> SUBSET {"call", "auto"}]
         /\ \A p \in PC : [call[k] EXCEPT !.pc = p] \in Call
         /\ \A p \in PC, g \in Grant : [call[k] EXCEPT !.pc = p, !.seen = g] \in Call
  <1>1. call[k] \in Call
    BY DEF TypeOK
  <1>2. ASSUME NEW c \in Call, Start(k, c)
        PROVE  /\ call' \in [Calls -> Call]
               /\ authorised' \in [Calls -> SUBSET {"call", "auto"}]
    <2>1. Permits(grant, live, c.tool, c.actor) \in SUBSET {"call", "auto"}
      BY PermitsType
    <2> QED
      BY <1>2, <2>1 DEF Start, TypeOK
  <1>3. ASSUME Finish(k)
        PROVE  /\ call' \in [Calls -> Call]
               /\ authorised' \in [Calls -> SUBSET {"call", "auto"}]
    BY <1>3, ConstantTypes DEF Finish, TypeOK
  <1>4. /\ \A p \in PC : [call[k] EXCEPT !.pc = p] \in Call
        /\ \A p \in PC, g \in Grant : [call[k] EXCEPT !.pc = p, !.seen = g] \in Call
    BY <1>1 DEF Call
  <1> QED
    BY <1>2, <1>3, <1>4

\* The end of a call settles its action or leaves the actions alone.
LEMMA EndType ==
  ASSUME TypeOK, NEW k \in Calls, NEW told \in Outcome,
         IF call[k].action = NoAction THEN UNCHANGED <<status, request, audited, waiters>>
         ELSE Settle(call[k].action, "confirmed", told)
  PROVE  /\ status' \in [Actions -> Status] /\ audited' \in [Actions -> Nat]
         /\ request' \in [Actions -> Request]
         /\ awaited' \in [Waiters -> Actions \cup {NoAction}]
         /\ outcome' \in [Waiters -> Outcome]
  <1>1. call[k].action \in Actions \cup {NoAction}
    BY DEF TypeOK, Call
  <1>2. CASE call[k].action = NoAction
    BY <1>2 DEF TypeOK, waiters
  <1>3. CASE call[k].action # NoAction
    BY <1>1, <1>3, SettleType DEF TypeOK, Settled
  <1> QED
    BY <1>2, <1>3

\* Type correctness: every reachable state satisfies TypeOK.
THEOREM TypeCorrect == Spec => []TypeOK
  <1>1. Init => TypeOK
    <2> SUFFICES ASSUME Init PROVE TypeOK
      OBVIOUS
    <2> QED
      BY ConstantTypes DEF Init, TypeOK, Status, Outcome
  <1>2. TypeOK /\ [Next]_vars => TypeOK'
    <2> SUFFICES ASSUME TypeOK, [Next]_vars PROVE TypeOK'
      OBVIOUS
    <2>1. CASE GrantNext
      <3>1. ASSUME NEW p \in Approvals, Approve(p) PROVE TypeOK'
        <4> DEFINE tools == IF p.whole THEN grant.tools ELSE grant.tools \cap p.tools
                   g == [status |-> "granted", tools |-> tools, auto |-> p.auto,
                         scope |-> p.scope, hash |-> ApprovedHash(p)]
        <4>1. p \in Approval
          BY ApprovalsAssumption
        <4>2. tools \in SUBSET Tools /\ ApprovedHash(p) \in Nat
          BY <4>1 DEF TypeOK, Grant, ApprovedHash
        <4>3. g \in Grant
          BY <4>1, <4>2 DEF Approval, Grant
        <4>4. Become(g, live) /\ UNCHANGED <<cached, actions, call, waiters>>
          BY <3>1 DEF Approve
        <4> QED
          BY <4>3, <4>4, BecomeType DEF TypeOK, actions, waiters
      <3>2. CASE Revoke
        BY <3>2, RePendedType, BecomeType DEF Revoke, TypeOK, actions, waiters
      <3>3. CASE Lapse
        BY <3>3, RePendedType, BecomeType DEF Lapse, TypeOK, actions, waiters
      <3>4. CASE Drift
        BY <3>4, BecomeType DEF Drift, TypeOK, actions, waiters
      <3>5. CASE Discover
        BY <3>5 DEF Discover, TypeOK, actions, waiters
      <3>6. ASSUME NEW m \in 0..live, RefreshGrants(m) PROVE TypeOK'
        BY <3>6, ConstantTypes, BecomeType DEF RefreshGrants, TypeOK, actions, waiters
      <3>7. ASSUME NEW m \in 0..live, NEW t \in Tools, RequestTool(t, m) PROVE TypeOK'
        <4>1. [Requested(m) EXCEPT !.tools = grant.tools \cup {t}] \in Grant
          BY ConstantTypes DEF TypeOK, Grant
        <4> QED
          BY <3>7, <4>1, BecomeType DEF RequestTool, TypeOK, actions, waiters
      <3> QED
        BY <2>1, <3>1, <3>2, <3>3, <3>4, <3>5, <3>6, <3>7 DEF GrantNext
    <2>2. ASSUME NEW k \in Calls, NEW verb \in {"read", "invoke"}, NEW t \in Tools,
                 NEW who \in Actors, Invoke(k, verb, t, who)
          PROVE  TypeOK'
      <3>1. [NoCall EXCEPT !.pc = "read", !.verb = verb, !.tool = t, !.actor = who] \in Call
        BY ConstantTypes DEF Call, PC
      <3> QED
        BY <2>2, <3>1, CallType DEF Invoke, TypeOK, actions, waiters
    <2>3. ASSUME NEW k \in Calls, NEW a \in Actions, Confirm(k, a) PROVE TypeOK'
      <3>1. request[a] \in Request
        BY DEF TypeOK
      <3>2. [NoCall EXCEPT !.pc = "read", !.verb = "confirm", !.action = a,
                           !.tool = request[a].tool, !.actor = request[a].actor] \in Call
        BY <3>1, ConstantTypes DEF Call, PC, Request
      <3>3. status' \in [Actions -> Status]
        BY <2>3 DEF Confirm, TypeOK, Status
      <3> QED
        BY <2>3, <3>2, <3>3, CallType DEF Confirm, TypeOK, waiters
    <2>4. ASSUME NEW k \in Calls, Progress(k) \/ Fails(k) PROVE TypeOK'
      <3>1. CASE GateRead(k)
        BY <3>1, CallType DEF GateRead, TypeOK, actions, waiters, PC
      <3>2. CASE GateRefuses(k) \/ Fails(k) \/ ReadRefused(k)
        <4>1. Refuse(k) /\ (cached' = cached \/ cached' = live)
          BY <3>2 DEF GateRefuses, Fails, ReadRefused, Admitted
        <4> QED
          BY <4>1, CallType, EndType DEF Refuse, TypeOK, Outcome
      <3>3. CASE GateDrifted(k)
        BY <3>3, CallType DEF GateDrifted, TypeOK, actions, waiters, PC
      <3>4. CASE GateRepends(k)
        BY <3>4, CallType, EndType, RePendedType DEF GateRepends, TypeOK, Outcome
      <3>5. CASE Execute(k)
        <4>1. executed' \in [Actions -> Nat]
          BY <3>5 DEF Execute, TypeOK
        <4> QED
          BY <3>5, <4>1, CallType DEF Execute, Admitted, TypeOK, waiters, PC
      <3>6. CASE Returns(k)
        BY <3>6, CallType, EndType DEF Returns, TypeOK, Outcome
      <3>7. ASSUME NEW a \in Actions, Park(k, a) PROVE TypeOK'
        <4>1. [tool |-> call[k].tool, actor |-> call[k].actor] \in Request
          BY DEF TypeOK, Call, Request
        <4> QED
          BY <3>7, <4>1, CallType DEF Park, Admitted, TypeOK, waiters, Status
      <3> QED
        BY <2>4, <3>1, <3>2, <3>3, <3>4, <3>5, <3>6, <3>7 DEF Progress
    <2>5. ASSUME NEW a \in Actions, Deny(a) \/ Expire(a) PROVE TypeOK'
      BY <2>5, SettleType DEF Deny, Expire, TypeOK, Settled, Outcome
    <2>6. ASSUME NEW w \in Waiters, WaitTimeout(w) PROVE TypeOK'
      BY <2>6 DEF WaitTimeout, TypeOK, Outcome, actions
    <2>7. ASSUME NEW w \in Waiters, NEW a \in Actions, Wait(w, a) PROVE TypeOK'
      BY <2>7 DEF Wait, TypeOK, Outcome, actions
    <2>8. CASE Restart
      BY <2>8, ConstantTypes DEF Restart, TypeOK, Status, Outcome
    <2>9. CASE UNCHANGED vars
      BY <2>9 DEF vars, TypeOK, actions, waiters
    <2> QED
      BY <2>1, <2>2, <2>3, <2>4, <2>5, <2>6, <2>7, <2>8, <2>9
         DEF Next, CallNext, ActionNext
  <1> QED
    BY <1>1, <1>2, PTL DEF Spec

(***************************************************************************)
(* Single shot                                                             *)
(***************************************************************************)
\* The strengthening: a claimed action is in the hands of one call, and its
\* tool was not called while that call is still at the gate.
Claims ==
  /\ \A k \in Calls : call[k].action # NoAction =>
       /\ status[call[k].action] = "claimed"
       /\ call[k].pc # "idle"
       /\ call[k].pc # "calling" => executed[call[k].action] = 0
  /\ \A j, k \in Calls :
       call[j].action = call[k].action /\ call[j].action # NoAction => j = k

SingleShot == AtMostOnce /\ AuditedOnce /\ Claims

\* Steps that leave actions, and the claims of calls, as they are.
LEMMA SingleShotFrame ==
  ASSUME TypeOK, SingleShot, UNCHANGED <<status, executed, audited>>,
         \A k \in Calls : /\ call'[k].action = call[k].action
                          /\ call[k].action # NoAction =>
                               /\ call'[k].pc # "idle"
                               /\ call[k].pc # "calling" \/ call'[k].pc = "calling"
  PROVE  SingleShot'
  BY DEF SingleShot, AtMostOnce, AuditedOnce, Claims

\* The end of a call, whatever its waiters are told, settles the action it
\* claimed, the one action no other call holds.
LEMMA SingleShotEnd ==
  ASSUME TypeOK, SingleShot, NEW k \in Calls, NEW told, Finish(k), executed' = executed,
         IF call[k].action = NoAction THEN UNCHANGED <<status, request, audited, waiters>>
         ELSE Settle(call[k].action, "confirmed", told)
  PROVE  SingleShot'
  <1>1. /\ call'[k].action = NoAction
        /\ \A j \in Calls : j # k => call'[j] = call[j]
    BY DEF Finish, NoCall, TypeOK
  <1>2. CASE call[k].action = NoAction
    BY <1>1, <1>2 DEF SingleShot, AtMostOnce, AuditedOnce, Claims
  <1>3. CASE call[k].action # NoAction
    <2> DEFINE a == call[k].action
    <2>1. a \in Actions /\ status[a] = "claimed"
      BY <1>3 DEF TypeOK, Call, SingleShot, Claims
    <2>2. /\ status'[a] = "confirmed" /\ audited'[a] = audited[a] + 1
          /\ \A b \in Actions : b # a => status'[b] = status[b] /\ audited'[b] = audited[b]
      BY <1>3, <2>1 DEF Settle, TypeOK
    <2>3. audited[a] = 0
      BY <2>1 DEF SingleShot, AuditedOnce, Settled
    <2>4. AuditedOnce'
      BY <2>2, <2>3 DEF SingleShot, AuditedOnce, Settled
    <2>5. AtMostOnce'
      BY <2>2 DEF SingleShot, AtMostOnce
    <2>6. \A j \in Calls : j # k /\ call[j].action # NoAction =>
            call[j].action \in Actions /\ call[j].action # a
      BY <1>3 DEF TypeOK, Call, SingleShot, Claims
    <2>7. Claims'
      BY <1>1, <2>2, <2>6 DEF SingleShot, Claims
    <2> QED
      BY <2>4, <2>5, <2>7 DEF SingleShot
  <1> QED
    BY <1>2, <1>3

\* The strengthened invariant holds: it is preserved by every step.
THEOREM SingleShotInvariant == Spec => []SingleShot
  <1>1. Init => SingleShot
    BY DEF Init, SingleShot, AtMostOnce, AuditedOnce, Claims, NoCall, Settled
  <1>2. TypeOK /\ SingleShot /\ [Next]_vars => SingleShot'
    <2> SUFFICES ASSUME TypeOK, SingleShot, [Next]_vars PROVE SingleShot'
      OBVIOUS
    <2>1. CASE GrantNext
      <3>1. UNCHANGED <<status, executed, audited, call>>
        BY <2>1 DEF GrantNext, Approve, Revoke, Lapse, Drift, Discover, RefreshGrants,
                    RequestTool, actions
      <3> QED
        BY <3>1, SingleShotFrame DEF SingleShot, Claims
    <2>2. ASSUME NEW k \in Calls, NEW verb \in {"read", "invoke"}, NEW t \in Tools,
                 NEW who \in Actors, Invoke(k, verb, t, who)
          PROVE  SingleShot'
      <3>1. call[k].action = NoAction
        BY <2>2 DEF Invoke, Start, SingleShot, Claims
      <3>2. call'[k].action = NoAction /\ \A j \in Calls : j # k => call'[j] = call[j]
        BY <2>2 DEF Invoke, Start, NoCall, TypeOK
      <3> QED
        BY <2>2, <3>1, <3>2, SingleShotFrame DEF Invoke, actions, SingleShot, Claims
    <2>3. ASSUME NEW k \in Calls, NEW a \in Actions, Confirm(k, a) PROVE SingleShot'
      <3>1. /\ status[a] = "pending" /\ executed[a] = 0 /\ audited[a] = 0
        BY <2>3 DEF Confirm, SingleShot, AtMostOnce, AuditedOnce, Settled
      <3>2. /\ status'[a] = "claimed"
            /\ \A b \in Actions : b # a => status'[b] = status[b]
            /\ UNCHANGED <<executed, audited>>
        BY <2>3 DEF Confirm, TypeOK
      <3>3. /\ call'[k].action = a /\ call'[k].pc = "read"
            /\ \A j \in Calls : j # k => call'[j] = call[j]
        BY <2>3 DEF Confirm, Start, NoCall, TypeOK
      <3>4. \A j \in Calls : call[j].action # a
        BY <3>1, NoneAssumption DEF SingleShot, Claims
      <3>5. \A j \in Calls : call[j].action # NoAction => call[j].action \in Actions
        BY DEF TypeOK, Call
      <3> QED
        BY <3>1, <3>2, <3>3, <3>4, <3>5
           DEF SingleShot, AtMostOnce, AuditedOnce, Claims, Settled
    <2>4. ASSUME NEW k \in Calls, Progress(k) \/ Fails(k) PROVE SingleShot'
      <3>1. CASE GateRead(k) \/ GateDrifted(k)
        <4>1. /\ UNCHANGED <<status, executed, audited>>
              /\ call[k].pc \in {"read", "list"}
              /\ call'[k].action = call[k].action /\ call'[k].pc \in {"list", "repend"}
              /\ \A j \in Calls : j # k => call'[j] = call[j]
          BY <3>1 DEF GateRead, GateDrifted, actions, TypeOK, Call
        <4> QED
          BY <4>1, SingleShotFrame DEF SingleShot, Claims
      <3>2. CASE GateRefuses(k) \/ Fails(k) \/ ReadRefused(k)
        BY <3>2, SingleShotEnd DEF GateRefuses, Fails, ReadRefused, Refuse
      <3>3. CASE GateRepends(k)
        BY <3>3, SingleShotEnd DEF GateRepends
      <3>4. CASE Execute(k)
        <4>1. /\ call[k].pc = "list" /\ UNCHANGED <<status, audited>>
              /\ call'[k].action = call[k].action /\ call'[k].pc = "calling"
              /\ \A j \in Calls : j # k => call'[j] = call[j]
          BY <3>4 DEF Execute, Admitted, TypeOK, Call
        <4>2. \A b \in Actions : /\ b # call[k].action => executed'[b] = executed[b]
                                 /\ b = call[k].action => executed'[b] = executed[b] + 1
          BY <3>4 DEF Execute, TypeOK
        <4>3. \A j \in Calls : call[j].action # NoAction => call[j].action \in Actions
          BY DEF TypeOK, Call
        <4>4. call[k].action # NoAction => /\ executed[call[k].action] = 0
                                           /\ status[call[k].action] = "claimed"
          BY <4>1 DEF SingleShot, Claims
        <4>5. NoAction \notin Actions
          BY NoneAssumption
        <4>6. AtMostOnce' /\ AuditedOnce'
          BY <4>1, <4>2, <4>4, <4>5 DEF SingleShot, AtMostOnce, AuditedOnce
        <4>7. Claims'
          BY <4>1, <4>2, <4>3, <4>4 DEF SingleShot, Claims
        <4> QED
          BY <4>6, <4>7 DEF SingleShot
      <3>5. CASE Returns(k)
        BY <3>5, SingleShotEnd DEF Returns
      <3>6. ASSUME NEW a \in Actions, Park(k, a) PROVE SingleShot'
        <4>1. /\ status[a] = "none" /\ status'[a] = "pending"
              /\ \A b \in Actions : b # a => status'[b] = status[b]
              /\ UNCHANGED <<executed, audited>>
          BY <3>6 DEF Park, TypeOK
        <4>2. /\ call'[k].action = NoAction
              /\ \A j \in Calls : j # k => call'[j] = call[j]
          BY <3>6 DEF Park, Finish, NoCall, TypeOK
        <4>3. \A j \in Calls : call[j].action # NoAction =>
                call[j].action \in Actions /\ call[j].action # a
          BY <4>1 DEF TypeOK, Call, SingleShot, Claims
        <4> QED
          BY <4>1, <4>2, <4>3 DEF SingleShot, AtMostOnce, AuditedOnce, Claims, Settled
      <3> QED
        BY <2>4, <3>1, <3>2, <3>3, <3>4, <3>5, <3>6 DEF Progress
    <2>5. ASSUME NEW a \in Actions, Deny(a) \/ Expire(a) PROVE SingleShot'
      <3>1. /\ status[a] = "pending" /\ status'[a] \in {"denied", "expired"}
            /\ audited'[a] = audited[a] + 1
            /\ \A b \in Actions : b # a => status'[b] = status[b] /\ audited'[b] = audited[b]
            /\ UNCHANGED <<executed, call>>
        BY <2>5 DEF Deny, Expire, Settle, TypeOK
      <3>2. \A j \in Calls : call[j].action # NoAction =>
              call[j].action \in Actions /\ call[j].action # a
        BY <3>1 DEF TypeOK, Call, SingleShot, Claims
      <3> QED
        BY <3>1, <3>2 DEF SingleShot, AtMostOnce, AuditedOnce, Claims, Settled
    <2>6. ASSUME NEW w \in Waiters,
                 WaitTimeout(w) \/ \E a \in Actions : Wait(w, a)
          PROVE  SingleShot'
      BY <2>6 DEF WaitTimeout, Wait, actions, SingleShot, AtMostOnce, AuditedOnce, Claims
    <2>7. CASE Restart
      <3>1. \A a \in Actions : /\ status'[a] \in Settled <=> status[a] \in Settled
                               /\ status'[a] \in {"none", "denied", "expired"} =>
                                    status[a] = status'[a]
                               /\ status'[a] # "pending"
        BY <2>7 DEF Restart, Settled, TypeOK
      <3>2. \A k \in Calls : call'[k].action = NoAction
        BY <2>7 DEF Restart, NoCall
      <3> QED
        BY <2>7, <3>1, <3>2 DEF Restart, SingleShot, AtMostOnce, AuditedOnce, Claims
    <2>8. CASE UNCHANGED vars
      BY <2>8 DEF vars, actions, SingleShot, AtMostOnce, AuditedOnce, Claims
    <2> QED
      BY <2>1, <2>2, <2>3, <2>4, <2>5, <2>6, <2>7, <2>8 DEF Next, CallNext, ActionNext
  <1> QED
    BY <1>1, <1>2, TypeCorrect, PTL DEF Spec

\* The terminal states of a parked action are single-shot: its tool runs at
\* most once, and it settles once.
THEOREM SingleShotCorrect == Spec => []SettlesOnce
  <1>1. SingleShot => SettlesOnce
    BY DEF SingleShot, SettlesOnce
  <1> QED
    BY <1>1, SingleShotInvariant, PTL

(***************************************************************************)
(* The gate                                                                *)
(***************************************************************************)
\* What permits a call now has been noted for it.
Noted ==
  \A k \in Calls : call[k].pc # "idle" =>
    Permits(grant, live, call[k].tool, call[k].actor) \subseteq authorised[k]

\* No hash is from the future, so a hash that matches the manifest matched it
\* already when the grant that pins it was read.
Past ==
  /\ grant.hash <= live
  /\ cached # NoManifest => cached <= live
  /\ \A k \in Calls : call[k].pc = "list" => call[k].seen.hash <= live

\* A call that listed the tools carries a grant that allows it and, if the
\* manifest still matches, has permitted it.
Carried ==
  \A k \in Calls : call[k].pc = "list" =>
    /\ Allows(call[k].seen, call[k].tool, call[k].actor)
    /\ Permits(call[k].seen, live, call[k].tool, call[k].actor) \subseteq authorised[k]

GateInv == Noted /\ Past /\ Carried /\ ExecutionGated

\* A change of the grant or of the manifest, to hashes that are not from the
\* future, keeps the invariant: the noted permissions grow with it.
LEMMA BecomeGated ==
  ASSUME TypeOK, GateInv, NEW g \in Grant, NEW m \in Nat, Become(g, m),
         g.hash <= m, m = live \/ m = live + 1, UNCHANGED <<cached, call>>
  PROVE  GateInv'
  <1>1. \A k \in Calls : /\ authorised[k] \subseteq authorised'[k]
                         /\ call[k].pc # "idle" =>
                              Permits(g, m, call[k].tool, call[k].actor) \subseteq authorised'[k]
    BY DEF Become, TypeOK
  <1>2. grant' = g /\ live' = m /\ live \in Nat
    BY DEF Become, TypeOK
  <1>3. Noted'
    BY <1>1, <1>2 DEF Noted
  <1>4. \A k \in Calls : call[k].pc = "list" => call[k].seen.hash \in Nat
    BY DEF TypeOK, Call, Grant
  <1>5. Past'
    BY <1>2, <1>4 DEF GateInv, Past, TypeOK
  <1>6. ASSUME NEW k \in Calls, call[k].pc = "list"
        PROVE  Permits(call[k].seen, m, call[k].tool, call[k].actor) \subseteq authorised'[k]
    <2>1. CASE m = live
      BY <1>1, <1>6, <2>1 DEF GateInv, Carried
    <2>2. CASE m = live + 1
      <3>1. call[k].seen.hash # m
        BY <1>2, <1>4, <1>6, <2>2 DEF GateInv, Past
      <3> QED
        BY <3>1 DEF Permits
    <2> QED
      BY <2>1, <2>2
  <1>7. Carried'
    BY <1>2, <1>6 DEF GateInv, Carried
  <1>8. ExecutionGated'
    BY <1>1 DEF GateInv, ExecutionGated
  <1> QED
    BY <1>3, <1>5, <1>7, <1>8 DEF GateInv

\* A call that starts or ends leaves the others as they were.
LEMMA CallGated ==
  ASSUME TypeOK, GateInv, NEW k \in Calls, UNCHANGED <<grant, live>>,
         cached' \in {cached, live, NoManifest},
         Finish(k) \/ \E c \in Call : Start(k, c) /\ c.pc = "read"
  PROVE  GateInv'
  <1>1. \A j \in Calls : j # k => call'[j] = call[j] /\ authorised'[j] = authorised[j]
    BY DEF Finish, Start, TypeOK
  <1>2. \/ call'[k].pc = "idle"
        \/ /\ call'[k].pc = "read"
           /\ authorised'[k] = Permits(grant, live, call'[k].tool, call'[k].actor)
    BY DEF Finish, Start, NoCall, TypeOK
  <1>3. Noted' /\ Carried' /\ ExecutionGated'
    BY <1>1, <1>2 DEF GateInv, Noted, Carried, ExecutionGated
  <1>4. Past'
    BY <1>1, <1>2 DEF GateInv, Past, TypeOK
  <1> QED
    BY <1>3, <1>4 DEF GateInv

\* The AND-gate: what executes was, at one instant of the call, granted to its
\* actor under the shape then served, and confirmed or auto-confirmed.
THEOREM GateCorrect == Spec => []ExecutionGated
  <1>1. Init => GateInv
    BY DEF Init, GateInv, Noted, Past, Carried, ExecutionGated, NoCall, Requested
  <1>2. TypeOK /\ GateInv /\ [Next]_vars => GateInv'
    <2> SUFFICES ASSUME TypeOK, GateInv, [Next]_vars PROVE GateInv'
      OBVIOUS
    <2>0. /\ grant \in Grant /\ grant.hash \in Nat /\ live \in Nat
          /\ grant.hash <= live /\ live <= live
      BY DEF TypeOK, Grant, GateInv, Past
    <2>1. CASE GrantNext
      <3>1. ASSUME NEW p \in Approvals, Approve(p) PROVE GateInv'
        <4> DEFINE tools == IF p.whole THEN grant.tools ELSE grant.tools \cap p.tools
                   g == [status |-> "granted", tools |-> tools, auto |-> p.auto,
                         scope |-> p.scope, hash |-> ApprovedHash(p)]
        <4>1. p \in Approval
          BY ApprovalsAssumption
        <4>2. tools \in SUBSET Tools /\ ApprovedHash(p) \in Nat /\ ApprovedHash(p) <= live
          BY <2>0, <4>1 DEF TypeOK, Grant, ApprovedHash, GateInv, Past
        <4>3. g \in Grant /\ g.hash <= live
          BY <4>1, <4>2 DEF Approval, Grant
        <4>4. Become(g, live) /\ UNCHANGED <<cached, call>>
          BY <3>1 DEF Approve
        <4> QED
          BY <2>0, <4>3, <4>4, BecomeGated
      <3>2. CASE Revoke
        BY <2>0, <3>2, RePendedType, BecomeGated DEF Revoke
      <3>3. CASE Lapse
        BY <2>0, <3>3, RePendedType, BecomeGated DEF Lapse
      <3>4. CASE Drift
        <4>1. live + 1 \in Nat /\ grant.hash <= live + 1
          BY <2>0
        <4> QED
          BY <2>0, <3>4, <4>1, BecomeGated DEF Drift
      <3>5. CASE Discover
        BY <2>0, <3>5 DEF Discover, GateInv, Noted, Past, Carried, ExecutionGated
      <3>6. ASSUME NEW m \in 0..live, RefreshGrants(m) PROVE GateInv'
        <4>1. m \in Nat /\ Requested(m) \in Grant /\ Requested(m).hash <= live
          BY <2>0, ConstantTypes DEF Requested
        <4> QED
          BY <2>0, <3>6, <4>1, BecomeGated DEF RefreshGrants
      <3>7. ASSUME NEW m \in 0..live, NEW t \in Tools, RequestTool(t, m) PROVE GateInv'
        <4> DEFINE g == [Requested(m) EXCEPT !.tools = grant.tools \cup {t}]
        <4>1. g \in Grant /\ g.hash <= live
          BY <2>0, ConstantTypes DEF Requested, Grant
        <4>2. Become(g, live) /\ UNCHANGED <<cached, call>>
          BY <3>7 DEF RequestTool
        <4> QED
          BY <2>0, <4>1, <4>2, BecomeGated
      <3> QED
        BY <2>1, <3>1, <3>2, <3>3, <3>4, <3>5, <3>6, <3>7 DEF GrantNext
    <2>2. ASSUME NEW k \in Calls, NEW verb \in {"read", "invoke"}, NEW t \in Tools,
                 NEW who \in Actors, Invoke(k, verb, t, who)
          PROVE  GateInv'
      <3> DEFINE c == [NoCall EXCEPT !.pc = "read", !.verb = verb, !.tool = t, !.actor = who]
      <3>1. c \in Call /\ c.pc = "read"
        BY ConstantTypes DEF Call, PC
      <3>2. Start(k, c) /\ UNCHANGED <<grant, live, cached>>
        BY <2>2 DEF Invoke
      <3> QED
        BY <3>1, <3>2, CallGated
    <2>3. ASSUME NEW k \in Calls, NEW a \in Actions, Confirm(k, a) PROVE GateInv'
      <3> DEFINE c == [NoCall EXCEPT !.pc = "read", !.verb = "confirm", !.action = a,
                                     !.tool = request[a].tool, !.actor = request[a].actor]
      <3>1. c \in Call /\ c.pc = "read"
        BY ConstantTypes DEF Call, PC, TypeOK, Request
      <3>2. Start(k, c) /\ UNCHANGED <<grant, live, cached>>
        BY <2>3 DEF Confirm
      <3> QED
        BY <3>1, <3>2, CallGated
    <2>4. ASSUME NEW k \in Calls, Progress(k) \/ Fails(k) PROVE GateInv'
      <3>1. CASE GateRead(k)
        <4>1. /\ UNCHANGED <<grant, live, cached, authorised>>
              /\ call[k].pc = "read" /\ Allows(grant, call[k].tool, call[k].actor)
              /\ call'[k].pc = "list" /\ call'[k].seen = grant
              /\ call'[k].tool = call[k].tool /\ call'[k].actor = call[k].actor
              /\ \A j \in Calls : j # k => call'[j] = call[j]
          BY <3>1 DEF GateRead, TypeOK, Call
        <4>2. Noted'
          BY <4>1 DEF GateInv, Noted
        <4>3. Past'
          BY <4>1 DEF GateInv, Past
        <4>4. Carried'
          BY <4>1 DEF GateInv, Noted, Carried
        <4>5. ExecutionGated'
          BY <4>1 DEF GateInv, ExecutionGated
        <4> QED
          BY <4>2, <4>3, <4>4, <4>5 DEF GateInv
      <3>2. CASE GateRefuses(k) \/ Fails(k) \/ ReadRefused(k) \/ Returns(k) \/ \E a \in Actions : Park(k, a)
        BY <3>2, CallGated DEF GateRefuses, Fails, ReadRefused, Refuse, Admitted, Returns, Park
      <3>3. CASE GateDrifted(k)
        <4>1. /\ UNCHANGED <<grant, live, authorised>> /\ cached' = live
              /\ call'[k].pc = "repend" /\ call[k].pc = "list"
              /\ call'[k].tool = call[k].tool /\ call'[k].actor = call[k].actor
              /\ \A j \in Calls : j # k => call'[j] = call[j]
          BY <3>3 DEF GateDrifted, TypeOK, Call
        <4> QED
          BY <2>0, <4>1 DEF GateInv, Noted, Past, Carried, ExecutionGated
      <3>4. CASE GateRepends(k)
        <4>1. \A m, t, who : Permits(RePended(grant), m, t, who) = {}
          BY <2>0, RePendedType DEF Permits, Allows
        <4>2. grant' = grant \/ grant' = RePended(grant)
          BY <3>4 DEF GateRepends
        <4>3. /\ grant'.hash = grant.hash
              /\ \A t, who : Permits(grant', live, t, who) \subseteq Permits(grant, live, t, who)
          BY <2>0, <4>1, <4>2, RePendedType
        <4>4. /\ UNCHANGED <<live, cached>> /\ call'[k].pc = "idle"
              /\ \A j \in Calls : j # k => call'[j] = call[j] /\ authorised'[j] = authorised[j]
          BY <3>4 DEF GateRepends, Finish, NoCall, TypeOK
        <4>5. Noted'
          BY <4>3, <4>4 DEF GateInv, Noted
        <4>6. Past' /\ Carried' /\ ExecutionGated'
          BY <4>3, <4>4 DEF GateInv, Past, Carried, ExecutionGated
        <4> QED
          BY <4>5, <4>6 DEF GateInv
      <3>5. CASE Execute(k)
        <4>1. /\ UNCHANGED <<grant, live, authorised>> /\ cached' = live
              /\ call[k].pc = "list" /\ call[k].seen.hash = live
              /\ call'[k] = [call[k] EXCEPT !.pc = "calling"]
              /\ \A j \in Calls : j # k => call'[j] = call[j]
          BY <3>5 DEF Execute, Admitted, TypeOK
        <4>2. /\ call'[k].pc = "calling" /\ call'[k].verb = call[k].verb
              /\ call'[k].tool = call[k].tool /\ call'[k].actor = call[k].actor
          BY <4>1 DEF TypeOK, Call
        <4>3. /\ "call" \in authorised[k]
              /\ call[k].tool \in call[k].seen.auto => "auto" \in authorised[k]
          BY <4>1 DEF GateInv, Carried, Permits
        <4>4. ExecutionGated'
          BY <3>5, <4>1, <4>2, <4>3 DEF Execute, Runs, GateInv, ExecutionGated
        <4>5. Noted' /\ Past' /\ Carried'
          BY <2>0, <4>1, <4>2 DEF GateInv, Noted, Past, Carried
        <4> QED
          BY <4>4, <4>5 DEF GateInv
      <3> QED
        BY <2>4, <3>1, <3>2, <3>3, <3>4, <3>5 DEF Progress
    <2>5. ASSUME NEW a \in Actions, Deny(a) \/ Expire(a) PROVE GateInv'
      BY <2>5 DEF Deny, Expire, GateInv, Noted, Past, Carried, ExecutionGated
    <2>6. ASSUME NEW w \in Waiters, WaitTimeout(w) \/ \E a \in Actions : Wait(w, a)
          PROVE  GateInv'
      BY <2>6 DEF WaitTimeout, Wait, GateInv, Noted, Past, Carried, ExecutionGated
    <2>7. CASE Restart
      BY <2>7 DEF Restart, NoCall, GateInv, Noted, Past, Carried, ExecutionGated
    <2>8. CASE UNCHANGED vars
      BY <2>8 DEF vars, GateInv, Noted, Past, Carried, ExecutionGated
    <2> QED
      BY <2>1, <2>2, <2>3, <2>4, <2>5, <2>6, <2>7, <2>8 DEF Next, CallNext, ActionNext
  <1>3. GateInv => ExecutionGated
    BY DEF GateInv
  <1> QED
    BY <1>1, <1>2, <1>3, TypeCorrect, PTL DEF Spec

(***************************************************************************)
(* What waiting agents are told                                            *)
(***************************************************************************)
\* The tool of a claimed action was called when its call waits for the answer.
Ran ==
  \A k \in Calls :
    call[k].pc = "calling" /\ call[k].action # NoAction => executed[call[k].action] = 1

\* Whoever was told something, or waits, awaits an action that was parked.
Awaits == \A w \in Waiters : outcome[w] # "none" => awaited[w] \in Actions

ToldInv == Ran /\ Awaits /\ ToldTruly

\* Steps that tell nobody anything, settle nothing, and call the tools of claimed
\* actions only.
LEMMA ToldFrame ==
  ASSUME TypeOK, Awaits, ToldTruly, UNCHANGED waiters,
         \A a \in Actions :
           /\ \/ status'[a] = status[a] \/ status[a] = "none"
              \/ status[a] = "pending" /\ status'[a] = "claimed"
           /\ executed'[a] = executed[a] \/ status[a] = "claimed"
  PROVE  Awaits' /\ ToldTruly'
  <1>1. awaited' = awaited /\ outcome' = outcome
    BY DEF waiters
  <1>2. Awaits'
    BY <1>1 DEF Awaits
  <1>3. ASSUME NEW w \in Waiters
        PROVE  /\ outcome[w] = "waiting" => status'[awaited[w]] \in {"pending", "claimed"}
               /\ outcome[w] = "result" =>
                    status'[awaited[w]] = "confirmed" /\ executed'[awaited[w]] = 1
               /\ outcome[w] = "error" => status'[awaited[w]] = "confirmed"
               /\ outcome[w] \in {"denied", "expired"} =>
                    status'[awaited[w]] = outcome[w] /\ executed'[awaited[w]] = 0
    <2>1. outcome[w] # "none" => awaited[w] \in Actions
      BY DEF Awaits
    <2> QED
      BY <2>1 DEF ToldTruly
  <1> QED
    BY <1>1, <1>2, <1>3 DEF ToldTruly

\* Settling an open action tells its waiters the truth if what they are told is true,
\* and changes nothing that others were told.
LEMMA ToldSettle ==
  ASSUME TypeOK, Awaits, ToldTruly, NEW a \in Actions, NEW how \in Settled,
         NEW told \in {"result", "error", "denied", "expired"},
         Settle(a, how, told), executed' = executed, status[a] \in {"pending", "claimed"},
         told = "result" => how = "confirmed" /\ executed[a] = 1,
         told = "error" => how = "confirmed",
         told \in {"denied", "expired"} => how = told /\ executed[a] = 0
  PROVE  Awaits' /\ ToldTruly'
  <1>1. /\ awaited' = awaited
        /\ \A w \in Waiters : outcome'[w] = IF outcome[w] = "waiting" /\ awaited[w] = a
                                            THEN told ELSE outcome[w]
    BY DEF Settle
  <1>2. status'[a] = how /\ \A b \in Actions : b # a => status'[b] = status[b]
    BY DEF Settle, TypeOK
  <1>3. Awaits'
    BY <1>1 DEF Awaits
  <1>4. ASSUME NEW w \in Waiters
        PROVE  /\ outcome'[w] = "waiting" => status'[awaited[w]] \in {"pending", "claimed"}
               /\ outcome'[w] = "result" =>
                    status'[awaited[w]] = "confirmed" /\ executed[awaited[w]] = 1
               /\ outcome'[w] = "error" => status'[awaited[w]] = "confirmed"
               /\ outcome'[w] \in {"denied", "expired"} =>
                    status'[awaited[w]] = outcome'[w] /\ executed[awaited[w]] = 0
    <2>1. CASE outcome[w] = "waiting" /\ awaited[w] = a
      BY <1>1, <1>2, <2>1
    <2>2. CASE outcome[w] = "none"
      BY <1>1, <2>2
    <2>3. CASE outcome[w] # "none" /\ awaited[w] # a
      <3>1. awaited[w] \in Actions
        BY <2>3 DEF Awaits
      <3> QED
        BY <1>1, <1>2, <2>3, <3>1 DEF ToldTruly
    <2>4. CASE outcome[w] # "waiting" /\ outcome[w] # "none" /\ awaited[w] = a
      BY <1>1, <2>4 DEF ToldTruly
    <2> QED
      BY <2>1, <2>2, <2>3, <2>4
  <1> QED
    BY <1>1, <1>3, <1>4 DEF ToldTruly

\* The end of a call at the gate tells of an error, the answer of a tool of a result.
LEMMA ToldEnd ==
  ASSUME TypeOK, SingleShot, ToldInv, NEW k \in Calls, NEW told \in {"result", "error"},
         Finish(k), executed' = executed, told = "result" => call[k].pc = "calling",
         IF call[k].action = NoAction THEN UNCHANGED <<status, request, audited, waiters>>
         ELSE Settle(call[k].action, "confirmed", told)
  PROVE  ToldInv'
  <1>1. /\ call'[k].action = NoAction
        /\ \A j \in Calls : j # k => call'[j] = call[j]
    BY DEF Finish, NoCall, TypeOK
  <1>2. Ran'
    BY <1>1 DEF ToldInv, Ran
  <1>3. Awaits' /\ ToldTruly'
    <2>1. CASE call[k].action = NoAction
      BY <2>1, ToldFrame DEF ToldInv
    <2>2. CASE call[k].action # NoAction
      <3>1. call[k].action \in Actions /\ status[call[k].action] = "claimed"
        BY <2>2 DEF TypeOK, Call, SingleShot, Claims
      <3>2. told = "result" => executed[call[k].action] = 1
        BY <2>2 DEF ToldInv, Ran
      <3>3. "confirmed" \in Settled
        BY DEF Settled
      <3>4. Settle(call[k].action, "confirmed", told)
        BY <2>2
      <3> HIDE DEF Settled
      <3> QED
        BY <3>1, <3>2, <3>3, <3>4, ToldSettle DEF ToldInv
    <2> QED
      BY <2>1, <2>2
  <1> QED
    BY <1>2, <1>3 DEF ToldInv

\* What an agent that blocked on an action is told is true, and stays so: a result
\* means that its tool ran once, a denial or an expiry that it never did.
THEOREM ToldCorrect == Spec => []ToldTruly
  <1>1. Init => SingleShot /\ ToldInv
    BY DEF Init, SingleShot, AtMostOnce, AuditedOnce, Claims, NoCall, Settled, ToldInv, Ran,
           Awaits, ToldTruly
  <1>2. TypeOK /\ SingleShot /\ ToldInv /\ [Next]_vars => ToldInv'
    <2> SUFFICES ASSUME TypeOK, SingleShot, ToldInv, [Next]_vars PROVE ToldInv'
      OBVIOUS
    <2>1. CASE GrantNext
      <3>1. UNCHANGED <<status, executed, call, waiters>>
        BY <2>1 DEF GrantNext, Approve, Revoke, Lapse, Drift, Discover, RefreshGrants,
                    RequestTool, actions
      <3> QED
        BY <3>1, ToldFrame DEF ToldInv, Ran
    <2>2. ASSUME NEW k \in Calls, NEW verb \in {"read", "invoke"}, NEW t \in Tools,
                 NEW who \in Actors, Invoke(k, verb, t, who)
          PROVE  ToldInv'
      <3>1. call'[k].action = NoAction /\ \A j \in Calls : j # k => call'[j] = call[j]
        BY <2>2 DEF Invoke, Start, NoCall, TypeOK
      <3>2. UNCHANGED <<status, executed, waiters>>
        BY <2>2 DEF Invoke, actions
      <3> QED
        BY <3>1, <3>2, ToldFrame DEF ToldInv, Ran
    <2>3. ASSUME NEW k \in Calls, NEW a \in Actions, Confirm(k, a) PROVE ToldInv'
      <3>1. /\ status[a] = "pending" /\ status'[a] = "claimed"
            /\ \A b \in Actions : b # a => status'[b] = status[b]
            /\ UNCHANGED <<executed, waiters>>
        BY <2>3 DEF Confirm, TypeOK
      <3>2. call'[k].pc = "read" /\ \A j \in Calls : j # k => call'[j] = call[j]
        BY <2>3 DEF Confirm, Start, NoCall, TypeOK
      <3> QED
        BY <3>1, <3>2, ToldFrame DEF ToldInv, Ran
    <2>4. ASSUME NEW k \in Calls, Progress(k) \/ Fails(k) PROVE ToldInv'
      <3>1. CASE GateRead(k) \/ GateDrifted(k)
        <4>1. /\ UNCHANGED <<status, executed, waiters>>
              /\ call'[k].pc \in {"list", "repend"}
              /\ \A j \in Calls : j # k => call'[j] = call[j]
          BY <3>1 DEF GateRead, GateDrifted, actions, TypeOK, Call
        <4> QED
          BY <4>1, ToldFrame DEF ToldInv, Ran
      <3>2. CASE GateRefuses(k) \/ Fails(k) \/ ReadRefused(k)
        BY <3>2, ToldEnd DEF GateRefuses, Fails, ReadRefused, Refuse
      <3>3. CASE GateRepends(k)
        BY <3>3, ToldEnd DEF GateRepends
      <3>4. CASE Execute(k)
        <4>1. /\ call[k].pc = "list" /\ UNCHANGED <<status, waiters>>
              /\ call'[k].action = call[k].action
              /\ \A j \in Calls : j # k => call'[j] = call[j]
          BY <3>4 DEF Execute, Admitted, TypeOK, Call
        <4>2. \A b \in Actions : /\ b # call[k].action => executed'[b] = executed[b]
                                 /\ b = call[k].action => executed'[b] = executed[b] + 1
          BY <3>4 DEF Execute, TypeOK
        <4>3. \A j \in Calls : call[j].action # NoAction =>
                /\ call[j].action \in Actions /\ status[call[j].action] = "claimed"
                /\ call[j].action = call[k].action => j = k
          BY DEF TypeOK, Call, SingleShot, Claims
        <4>4. call[k].action # NoAction => executed[call[k].action] = 0
          BY <4>1 DEF SingleShot, Claims
        <4>5. Ran'
          BY <4>1, <4>2, <4>3, <4>4 DEF ToldInv, Ran
        <4>6. \A b \in Actions : executed'[b] = executed[b] \/ status[b] = "claimed"
          BY <4>2, <4>3, NoneAssumption
        <4> QED
          BY <4>1, <4>5, <4>6, ToldFrame DEF ToldInv
      <3>5. CASE Returns(k)
        BY <3>5, ToldEnd DEF Returns
      <3>6. ASSUME NEW a \in Actions, Park(k, a) PROVE ToldInv'
        <4>1. /\ status[a] = "none"
              /\ \A b \in Actions : b # a => status'[b] = status[b]
              /\ UNCHANGED <<executed, waiters>>
          BY <3>6 DEF Park, TypeOK
        <4>2. call'[k].action = NoAction /\ \A j \in Calls : j # k => call'[j] = call[j]
          BY <3>6 DEF Park, Finish, NoCall, TypeOK
        <4> QED
          BY <4>1, <4>2, ToldFrame DEF ToldInv, Ran
      <3> QED
        BY <2>4, <3>1, <3>2, <3>3, <3>4, <3>5, <3>6 DEF Progress
    <2>5. ASSUME NEW a \in Actions, Deny(a) \/ Expire(a) PROVE ToldInv'
      <3>1. status[a] = "pending" /\ UNCHANGED <<executed, call>>
        BY <2>5 DEF Deny, Expire
      <3>2. executed[a] = 0
        BY <3>1 DEF SingleShot, AtMostOnce
      <3>3. \/ Settle(a, "denied", "denied")
            \/ Settle(a, "expired", "expired")
        BY <2>5 DEF Deny, Expire
      <3>4. {"denied", "expired"} \subseteq Settled
        BY DEF Settled
      <3>5. Awaits' /\ ToldTruly'
        BY <3>1, <3>2, <3>3, <3>4, ToldSettle DEF ToldInv
      <3> QED
        BY <3>1, <3>5 DEF ToldInv, Ran
    <2>6. ASSUME NEW w \in Waiters, WaitTimeout(w) PROVE ToldInv'
      <3>1. /\ UNCHANGED <<status, executed, call, awaited>>
            /\ outcome[w] = "waiting" /\ outcome'[w] = "timeout"
            /\ \A v \in Waiters : v # w => outcome'[v] = outcome[v]
        BY <2>6 DEF WaitTimeout, actions, TypeOK
      <3> QED
        BY <3>1 DEF ToldInv, Ran, Awaits, ToldTruly
    <2>7. ASSUME NEW w \in Waiters, NEW a \in Actions, Wait(w, a) PROVE ToldInv'
      <3>1. /\ UNCHANGED <<status, executed, call>>
            /\ outcome'[w] = IF status[a] = "pending" THEN "waiting" ELSE "refused"
            /\ awaited'[w] = a
            /\ \A v \in Waiters : v # w => outcome'[v] = outcome[v] /\ awaited'[v] = awaited[v]
        BY <2>7 DEF Wait, actions, TypeOK
      <3> QED
        BY <3>1 DEF ToldInv, Ran, Awaits, ToldTruly
    <2>8. CASE Restart
      <3>1. /\ UNCHANGED <<executed, awaited>>
            /\ \A w \in Waiters : outcome'[w] = IF outcome[w] = "waiting" THEN "lost" ELSE outcome[w]
            /\ \A a \in Actions : status[a] \notin {"pending", "claimed"} => status'[a] = status[a]
            /\ \A k \in Calls : call'[k].action = NoAction
        BY <2>8 DEF Restart, NoCall
      <3> QED
        BY <3>1 DEF ToldInv, Ran, Awaits, ToldTruly
    <2>9. CASE UNCHANGED vars
      BY <2>9, ToldFrame DEF vars, actions, ToldInv, Ran
    <2> QED
      BY <2>1, <2>2, <2>3, <2>4, <2>5, <2>6, <2>7, <2>8, <2>9 DEF Next, CallNext, ActionNext
  <1>3. ToldInv => ToldTruly
    BY DEF ToldInv
  <1> QED
    BY <1>1, <1>2, <1>3, TypeCorrect, SingleShotInvariant, PTL DEF Spec
-----------------------------------------------------------------------------
\* A nonempty set of numbers has a least one.
LEMMA LeastExists ==
  ASSUME NEW S, S \subseteq Nat, S # {}
  PROVE  \E n \in S : \A m \in S : n <= m
  <1> DEFINE Less == OpToRel(<, Nat)
  <1>1. IsWellFoundedOn(Less, Nat)
    BY NatLessThanWellFounded
  <1> HIDE DEF Less
  <1>2. PICK x \in S : \A y \in S : <<y, x>> \notin Less
    BY <1>1, WFMin
  <1>3. \A y \in S : ~ (y < x)
    BY <1>2 DEF Less, OpToRel
  <1> QED
    BY <1>3

(***************************************************************************)
(* The places of a sequence                                                *)
(***************************************************************************)
Rises(p) == \A j, k \in DOMAIN p : j < k => p[j] < p[k]

\* Some numbers up to n, none of whose enumerations is in ascending order.
Unsorted(n) == {I \in SUBSET (1 .. n) : ~ \E p \in [1 .. Cardinality(I) -> I] : Rises(p)}

\* A set of places is finite.
LEMMA PlacesFinite ==
  ASSUME NEW n \in Nat, NEW I, I \subseteq 1 .. n
  PROVE  IsFiniteSet(I) /\ Cardinality(I) \in Nat
  <1>1. IsFiniteSet(1 .. n)
    BY FS_Interval
  <1>2. IsFiniteSet(I)
    BY <1>1, FS_Subset
  <1> QED
    BY <1>2, FS_CardinalityType

\* A greatest number comes last.
LEMMA SortedWithLast ==
  ASSUME NEW n \in Nat, Unsorted(n) = {}
  PROVE  Unsorted(n + 1) = {}
  <1>1. SUFFICES ASSUME NEW I, I \subseteq 1 .. n + 1
                 PROVE  \E p \in [1 .. Cardinality(I) -> I] : Rises(p)
    BY <1>1 DEF Unsorted
  <1>2. CASE n + 1 \notin I
    <2>1. I \subseteq 1 .. n
      BY <1>1, <1>2
    <2> QED
      BY <2>1 DEF Unsorted
  <1>3. CASE n + 1 \in I
    <2> DEFINE J == I \ {n + 1}
    <2>1. J \subseteq 1 .. n
      BY <1>1
    <2>2. PICK c \in Nat : c = Cardinality(J)
      BY <2>1, PlacesFinite
    <2>3. PICK p \in [1 .. c -> J] : Rises(p)
      BY <2>1, <2>2 DEF Unsorted
    <2>4. Cardinality(I) = c + 1
      <3>1. IsFiniteSet(J) /\ n + 1 \notin J
        BY <2>1, PlacesFinite
      <3>2. Cardinality(J \cup {n + 1}) = Cardinality(J) + 1
        BY <3>1, FS_AddElement
      <3>3. I = J \cup {n + 1}
        BY <1>3
      <3> QED
        BY <2>2, <3>2, <3>3
    <2> DEFINE q == [k \in 1 .. c + 1 |-> IF k = c + 1 THEN n + 1 ELSE p[k]]
    <2>5. \A k \in 1 .. c + 1 : k # c + 1 => k \in 1 .. c
      BY <2>2
    <2>6. q \in [1 .. c + 1 -> I]
      BY <1>3, <2>3, <2>5
    <2>7. Rises(q)
      <3>1. SUFFICES ASSUME NEW j \in 1 .. c + 1, NEW k \in 1 .. c + 1, j < k
                     PROVE  q[j] < q[k]
        BY DEF Rises
      <3>2. j \in 1 .. c
        BY <2>2, <3>1
      <3>3. p[j] \in 1 .. n
        BY <2>1, <2>3, <3>2
      <3>4. j # c + 1
        BY <2>2, <3>2
      <3>5. CASE k = c + 1
        BY <3>3, <3>4, <3>5
      <3>6. CASE k # c + 1
        <4>1. k \in 1 .. c
          BY <2>5, <3>6
        <4>2. p[j] < p[k]
          BY <2>3, <3>1, <3>2, <4>1 DEF Rises
        <4> QED
          BY <3>4, <3>6, <4>2
      <3> QED
        BY <3>5, <3>6
    <2> HIDE DEF q
    <2> QED
      BY <2>4, <2>6, <2>7
  <1> QED
    BY <1>2, <1>3

\* Every set of places has an ascending enumeration.
LEMMA AllSorted ==
  ASSUME NEW n \in Nat
  PROVE  Unsorted(n) = {}
  <1>1. SUFFICES ASSUME Unsorted(n) # {} PROVE FALSE
    OBVIOUS
  <1> DEFINE bad == {m \in Nat : Unsorted(m) # {}}
  <1>2. PICK m \in bad : \A l \in bad : m <= l
    <2>1. bad \subseteq Nat /\ bad # {}
      BY <1>1
    <2> HIDE DEF bad
    <2> QED
      BY <2>1, LeastExists
  <1>3. m \in Nat /\ Unsorted(m) # {}
    BY <1>2
  <1>4. m # 0
    <2>1. 1 .. 0 = {}
      OBVIOUS
    <2>2. Cardinality({}) = 0
      BY FS_EmptySet
    <2>3. \A p \in [{} -> {}] : Rises(p)
      BY DEF Rises
    <2>4. \E p \in [{} -> {}] : TRUE
      <3>1. [k \in {} |-> k] \in [{} -> {}]
        OBVIOUS
      <3> QED
        BY <3>1
    <2>5. \A I \in SUBSET (1 .. 0) : I = {} /\ 1 .. Cardinality(I) = {}
      BY <2>1, <2>2
    <2>6. Unsorted(0) = {}
      BY <2>3, <2>4, <2>5 DEF Unsorted
    <2> QED
      BY <1>3, <2>6
  <1>5. m - 1 \in Nat /\ (m - 1) + 1 = m
    BY <1>3, <1>4
  <1>6. Unsorted(m - 1) = {}
    <2>1. ~ (m <= m - 1)
      BY <1>3
    <2> QED
      BY <1>2, <1>5, <2>1
  <1> QED
    BY <1>3, <1>5, <1>6, SortedWithLast

\* The places are enumerated in ascending order, each once.
LEMMA AscendingPlaces ==
  ASSUME NEW n \in Nat, NEW I, I \subseteq 1 .. n
  PROVE  /\ Cardinality(I) \in Nat /\ Cardinality(I) <= n
         /\ Ascending(I) \in [1 .. Cardinality(I) -> I]
         /\ \A j, k \in 1 .. Cardinality(I) : Ascending(I)[j] = Ascending(I)[k] => j = k
         /\ \A i \in I : \E k \in 1 .. Cardinality(I) : Ascending(I)[k] = i
  <1>1. PICK c \in Nat : c = Cardinality(I)
    BY PlacesFinite
  <1>2. IsFiniteSet(I) /\ IsFiniteSet(1 .. c) /\ Cardinality(1 .. c) = c
    <2>1. IsFiniteSet(I)
      BY PlacesFinite
    <2>2. 1 \in Int /\ c \in Int
      BY <1>1
    <2>3. IsFiniteSet(1 .. c) /\ Cardinality(1 .. c) = IF 1 > c THEN 0 ELSE c - 1 + 1
      BY <2>2, FS_Interval
    <2> QED
      BY <1>1, <2>1, <2>3
  <1>3. c <= n
    <2>1. IsFiniteSet(1 .. n) /\ Cardinality(1 .. n) = n
      BY FS_Interval
    <2> QED
      BY <1>1, <2>1, FS_Subset
  <1>4. \E p \in [1 .. c -> I] : Rises(p)
    BY <1>1, AllSorted DEF Unsorted
  <1>5. Ascending(I) = CHOOSE p \in [1 .. c -> I] : Rises(p)
    BY <1>1 DEF Ascending, Rises
  <1>6. PICK p : p = Ascending(I)
    OBVIOUS
  <1>7. p \in [1 .. c -> I] /\ Rises(p)
    BY <1>4, <1>5, <1>6
  <1>8. \A j, k \in 1 .. c : p[j] = p[k] => j = k
    <2>1. SUFFICES ASSUME NEW j \in 1 .. c, NEW k \in 1 .. c, p[j] = p[k], j < k
                   PROVE  FALSE
      <3>1. \A j, k \in 1 .. c : j < k \/ k < j \/ j = k
        OBVIOUS
      <3> QED
        BY <2>1, <3>1
    <2>2. p[j] < p[k] /\ p[j] \in 1 .. n
      BY <1>7, <2>1 DEF Rises
    <2> QED
      BY <2>1, <2>2
  <1>9. p \in Injection(1 .. c, I)
    BY <1>7, <1>8 DEF Injection, IsInjective
  <1>10. p \in Surjection(1 .. c, I)
    BY <1>1, <1>2, <1>9, FS_Injection
  <1>11. \A i \in I : \E k \in 1 .. c : p[k] = i
    BY <1>10 DEF Surjection
  <1> QED
    BY <1>1, <1>3, <1>6, <1>7, <1>8, <1>11

\* The members of a sequence at some of its places.
LEMMA AtPlaces ==
  ASSUME NEW S, NEW s \in Seq(S), NEW I, I \subseteq DOMAIN s
  PROVE  /\ At(s, I) \in Seq(S) /\ Len(At(s, I)) <= Len(s)
         /\ \A k \in DOMAIN At(s, I) : Ascending(I)[k] \in I /\ At(s, I)[k] = s[Ascending(I)[k]]
         /\ \A j, k \in DOMAIN At(s, I) : Ascending(I)[j] = Ascending(I)[k] => j = k
         /\ \A i \in I : \E k \in DOMAIN At(s, I) : Ascending(I)[k] = i
  <1>1. Len(s) \in Nat /\ DOMAIN s = 1 .. Len(s)
    OBVIOUS
  <1>2. PICK c : c = Cardinality(I)
    OBVIOUS
  <1>3. PICK p : p = Ascending(I)
    OBVIOUS
  <1>4. /\ c \in Nat /\ c <= Len(s)
        /\ p \in [1 .. c -> I]
        /\ \A j, k \in 1 .. c : p[j] = p[k] => j = k
        /\ \A i \in I : \E k \in 1 .. c : p[k] = i
    BY <1>1, <1>2, <1>3, AscendingPlaces
  <1>5. At(s, I) = [k \in 1 .. c |-> s[p[k]]]
    BY <1>2, <1>3 DEF At
  <1>6. \A k \in 1 .. c : p[k] \in I /\ s[p[k]] \in S
    <2>1. TAKE k \in 1 .. c
    <2>2. p[k] \in I
      BY <1>4
    <2>3. p[k] \in 1 .. Len(s)
      BY <1>1, <2>2
    <2> QED
      BY <2>2, <2>3, ElementOfSeq
  <1>7. [k \in 1 .. c |-> s[p[k]]] \in Seq(S)
    BY <1>4, <1>6, IsASeq
  <1>8. DOMAIN At(s, I) = 1 .. c /\ Len(At(s, I)) = c
    BY <1>4, <1>5, <1>7
  <1> QED
    BY SMTT(40), <1>3, <1>4, <1>5, <1>6, <1>7, <1>8

(***************************************************************************)
(* Documents                                                               *)
(***************************************************************************)
BoardWidgets == [id : WIds, grid : Rects, hidden : BOOLEAN]

BoardTabs == [slug : Names, owner : Operators \cup {Shared, Nobody}, widgets : Seq(BoardWidgets)]

\* No slug and no widget id twice.
Unique(tabs) ==
  \A i, j \in DOMAIN tabs :
    /\ tabs[i].slug = tabs[j].slug => i = j
    /\ \A k \in DOMAIN tabs[i].widgets, l \in DOMAIN tabs[j].widgets :
         tabs[i].widgets[k].id = tabs[j].widgets[l].id => i = j /\ k = l

\* The shape of a document, by its parts.
LEMMA DocumentShape ==
  Documents = [tabs : Seq(BoardTabs), order : Seq(Names)]
  BY DEF Documents, BoardTabs, BoardWidgets

\* A well-formed document has no repetition and orders its own tabs.
LEMMA StructuredParts ==
  ASSUME NEW d
  PROVE  Structured(d) <=> /\ Unique(d.tabs)
                           /\ NoRepeat(d.order) /\ ToSet(d.order) \subseteq Slugs(d)
  BY DEF Structured, Unique

\* The tab of a slug.
LEMMA TabFound ==
  ASSUME NEW d, NEW s \in Slugs(d)
  PROVE  TabOf(d, s) \in DOMAIN d.tabs /\ Tab(d, s) = d.tabs[TabOf(d, s)] /\ Tab(d, s).slug = s
  BY DEF Slugs, TabOf, Tab

\* A tab is found by its slug.
LEMMA TabFoundAt ==
  ASSUME NEW d, Unique(d.tabs), NEW i \in DOMAIN d.tabs
  PROVE  /\ d.tabs[i].slug \in Slugs(d)
         /\ TabOf(d, d.tabs[i].slug) = i /\ Tab(d, d.tabs[i].slug) = d.tabs[i]
  BY DEF Slugs, TabOf, Tab, Unique

\* Some of the tabs, each once, are as free of repetitions as all.
LEMMA PartUnique ==
  ASSUME NEW all, Unique(all), NEW part, NEW p,
         \A k \in DOMAIN part : p[k] \in DOMAIN all /\ part[k] = all[p[k]],
         \A j, k \in DOMAIN part : p[j] = p[k] => j = k
  PROVE  Unique(part)
  BY DEF Unique

\* Some of the members, each once, repeat nothing.
LEMMA PartNoRepeat ==
  ASSUME NEW all, NoRepeat(all), NEW part, NEW p,
         \A k \in DOMAIN part : p[k] \in DOMAIN all /\ part[k] = all[p[k]],
         \A j, k \in DOMAIN part : p[j] = p[k] => j = k
  PROVE  NoRepeat(part)
  BY DEF NoRepeat

\* The members of a sequence within a set.
LEMMA WithinProperties ==
  ASSUME NEW S, NEW s \in Seq(S), NEW T
  PROVE  /\ Within(s, T) \in Seq(S) /\ Outside(s, T) \in Seq(S)
         /\ NoRepeat(s) => NoRepeat(Within(s, T)) /\ NoRepeat(Outside(s, T))
         /\ ToSet(Within(s, T)) = ToSet(s) \cap T
         /\ ToSet(Outside(s, T)) = ToSet(s) \ T
  <1> DEFINE In == {i \in DOMAIN s : s[i] \in T}
             Out == {i \in DOMAIN s : s[i] \notin T}
  <1>1. Within(s, T) = At(s, In) /\ Outside(s, T) = At(s, Out)
    BY DEF Within, Outside
  <1>2. In \subseteq DOMAIN s /\ Out \subseteq DOMAIN s
    OBVIOUS
  <1>3. PICK p, q : p = Ascending(In) /\ q = Ascending(Out)
    OBVIOUS
  <1>4. PICK u, v : u = Within(s, T) /\ v = Outside(s, T)
    OBVIOUS
  <1>5. /\ u \in Seq(S)
        /\ \A k \in DOMAIN u : p[k] \in In /\ u[k] = s[p[k]]
        /\ \A j, k \in DOMAIN u : p[j] = p[k] => j = k
        /\ \A i \in In : \E k \in DOMAIN u : p[k] = i
    <2> HIDE DEF In
    <2>1. In \subseteq DOMAIN s /\ u = At(s, In)
      BY <1>1, <1>2, <1>4
    <2> QED
      BY <1>3, <2>1, AtPlaces
  <1>6. /\ v \in Seq(S)
        /\ \A k \in DOMAIN v : q[k] \in Out /\ v[k] = s[q[k]]
        /\ \A j, k \in DOMAIN v : q[j] = q[k] => j = k
        /\ \A i \in Out : \E k \in DOMAIN v : q[k] = i
    <2> HIDE DEF Out
    <2>1. Out \subseteq DOMAIN s /\ v = At(s, Out)
      BY <1>1, <1>2, <1>4
    <2> QED
      BY <1>3, <2>1, AtPlaces
  <1>7. NoRepeat(s) => NoRepeat(u) /\ NoRepeat(v)
    <2>1. ASSUME NoRepeat(s) PROVE NoRepeat(u)
      BY <1>5, <2>1 DEF NoRepeat
    <2>2. ASSUME NoRepeat(s) PROVE NoRepeat(v)
      BY <1>6, <2>2 DEF NoRepeat
    <2> QED
      BY <2>1, <2>2
  <1>8. ToSet(u) = ToSet(s) \cap T
    <2>1. ASSUME NEW x \in ToSet(u) PROVE x \in ToSet(s) \cap T
      BY <1>5, <2>1 DEF ToSet
    <2>2. ASSUME NEW x \in ToSet(s), x \in T PROVE x \in ToSet(u)
      <3>1. PICK i \in DOMAIN s : x = s[i]
        BY DEF ToSet
      <3>2. i \in In
        BY <2>2, <3>1
      <3>3. PICK k \in DOMAIN u : p[k] = i
        BY <1>5, <3>2
      <3> QED
        BY <1>5, <3>1, <3>3 DEF ToSet
    <2> QED
      BY <2>1, <2>2
  <1>9. ToSet(v) = ToSet(s) \ T
    <2>1. ASSUME NEW x \in ToSet(v) PROVE x \in ToSet(s) \ T
      BY <1>6, <2>1 DEF ToSet
    <2>2. ASSUME NEW x \in ToSet(s), x \notin T PROVE x \in ToSet(v)
      <3>1. PICK i \in DOMAIN s : x = s[i]
        BY DEF ToSet
      <3>2. i \in Out
        BY <2>2, <3>1
      <3>3. PICK k \in DOMAIN v : q[k] = i
        BY <1>6, <3>2
      <3> QED
        BY <1>6, <3>1, <3>3 DEF ToSet
    <2> QED
      BY <2>1, <2>2
  <1> QED
    BY <1>4, <1>5, <1>6, <1>7, <1>8, <1>9

\* Two sequences without repetitions and without a common member.
LEMMA JoinedNoRepeat ==
  ASSUME NEW S, NEW s \in Seq(S), NEW t \in Seq(S), NoRepeat(s), NoRepeat(t),
         ToSet(s) \cap ToSet(t) = {}
  PROVE  /\ s \o t \in Seq(S) /\ NoRepeat(s \o t)
         /\ ToSet(s \o t) = ToSet(s) \cup ToSet(t)
  <1>1. PICK u : u = s \o t
    OBVIOUS
  <1>2. PICK m, n : m = Len(s) /\ n = Len(t)
    OBVIOUS
  <1>3. m \in Nat /\ n \in Nat /\ DOMAIN s = 1 .. m /\ DOMAIN t = 1 .. n
    BY <1>2
  <1>4. /\ u \in Seq(S) /\ Len(u) = m + n
        /\ \A i \in 1 .. m + n : u[i] = IF i <= m THEN s[i] ELSE t[i - m]
    BY <1>1, <1>2, ConcatProperties
  <1>5. DOMAIN u = 1 .. m + n
    BY <1>4
  <1>6. \A i \in DOMAIN u : \/ i \in DOMAIN s /\ u[i] = s[i] /\ i <= m
                            \/ i - m \in DOMAIN t /\ u[i] = t[i - m] /\ i > m
    <2>1. TAKE i \in DOMAIN u
    <2>2. i \in 1 .. m + n
      BY <1>5
    <2>3. CASE i <= m
      <3>1. i \in 1 .. m
        BY <1>3, <2>2, <2>3
      <3> QED
        BY <1>3, <1>4, <2>2, <2>3, <3>1
    <2>4. CASE ~ (i <= m)
      <3>1. i - m \in 1 .. n /\ i > m
        BY <1>3, <2>2, <2>4
      <3> QED
        BY <1>3, <1>4, <2>2, <2>4, <3>1
    <2> QED
      BY <2>3, <2>4
  <1>7. \A i \in DOMAIN s : i \in DOMAIN u /\ u[i] = s[i]
    <2>1. TAKE i \in DOMAIN s
    <2>2. i \in 1 .. m + n /\ i <= m
      BY <1>3
    <2> QED
      BY <1>4, <1>5, <2>2
  <1>8. \A i \in DOMAIN t : i + m \in DOMAIN u /\ u[i + m] = t[i]
    <2>1. TAKE i \in DOMAIN t
    <2>2. i + m \in 1 .. m + n /\ ~ (i + m <= m) /\ (i + m) - m = i
      BY <1>3
    <2> QED
      BY <1>4, <1>5, <2>2
  <1>9. ToSet(u) = ToSet(s) \cup ToSet(t)
    <2>1. ASSUME NEW x \in ToSet(u) PROVE x \in ToSet(s) \cup ToSet(t)
      BY <1>6, <2>1 DEF ToSet
    <2>2. ASSUME NEW x \in ToSet(s) PROVE x \in ToSet(u)
      BY <1>7, <2>2 DEF ToSet
    <2>3. ASSUME NEW x \in ToSet(t) PROVE x \in ToSet(u)
      BY <1>8, <2>3 DEF ToSet
    <2> QED
      BY <2>1, <2>2, <2>3
  <1>10. NoRepeat(u)
    <2>1. SUFFICES ASSUME NEW i \in DOMAIN u, NEW j \in DOMAIN u, u[i] = u[j]
                   PROVE  i = j
      BY DEF NoRepeat
    <2>2. i \in Int /\ j \in Int
      BY <1>5
    <2>3. CASE i <= m /\ j <= m
      <3>1. i \in DOMAIN s /\ j \in DOMAIN s /\ s[i] = s[j]
        BY <1>3, <1>6, <2>1, <2>2, <2>3
      <3> QED
        BY <3>1 DEF NoRepeat
    <2>4. CASE i > m /\ j > m
      <3>1. i - m \in DOMAIN t /\ j - m \in DOMAIN t /\ t[i - m] = t[j - m]
        BY <1>3, <1>6, <2>1, <2>2, <2>4
      <3>2. i - m = j - m
        BY <3>1 DEF NoRepeat
      <3> QED
        BY <1>3, <2>2, <3>2
    <2>5. CASE i <= m /\ j > m
      <3>1. i \in DOMAIN s /\ j - m \in DOMAIN t /\ s[i] = t[j - m]
        BY <1>3, <1>6, <2>1, <2>2, <2>5
      <3> QED
        BY <3>1 DEF ToSet
    <2>6. CASE i > m /\ j <= m
      <3>1. j \in DOMAIN s /\ i - m \in DOMAIN t /\ s[j] = t[i - m]
        BY <1>3, <1>6, <2>1, <2>2, <2>6
      <3> QED
        BY <3>1 DEF ToSet
    <2> QED
      BY <1>3, <2>2, <2>3, <2>4, <2>5, <2>6
  <1> QED
    BY <1>1, <1>4, <1>9, <1>10

\* The places of the tabs of some slugs.
Kept(d, slugs) == {i \in DOMAIN d.tabs : d.tabs[i].slug \in slugs}

\* A document of some of the tabs.
LEMMA KeepParts ==
  ASSUME NEW d \in Documents, NEW slugs
  PROVE  LET v == Keep(d, slugs)
             p == Ascending(Kept(d, slugs))
         IN  /\ v \in Documents /\ Len(v.tabs) <= Len(d.tabs)
             /\ v.order = Within(d.order, slugs)
             /\ \A k \in DOMAIN v.tabs : /\ p[k] \in DOMAIN d.tabs /\ d.tabs[p[k]].slug \in slugs
                                         /\ v.tabs[k] = d.tabs[p[k]]
             /\ \A j, k \in DOMAIN v.tabs : p[j] = p[k] => j = k
             /\ \A i \in DOMAIN d.tabs : d.tabs[i].slug \in slugs => \E k \in DOMAIN v.tabs : p[k] = i
  <1>1. d.tabs \in Seq(BoardTabs) /\ d.order \in Seq(Names)
    BY DocumentShape
  <1>2. PICK I : I = Kept(d, slugs)
    OBVIOUS
  <1>3. PICK v, p : v = Keep(d, slugs) /\ p = Ascending(I)
    OBVIOUS
  <1>4. I \subseteq DOMAIN d.tabs /\ \A i \in DOMAIN d.tabs : i \in I <=> d.tabs[i].slug \in slugs
    BY <1>2 DEF Kept
  <1>5. v = [tabs |-> At(d.tabs, I), order |-> Within(d.order, slugs)]
    BY <1>2, <1>3 DEF Keep, TabsOf, Kept
  <1>6. PICK t : t = At(d.tabs, I)
    OBVIOUS
  <1>7. /\ t \in Seq(BoardTabs) /\ Len(t) <= Len(d.tabs)
        /\ \A k \in DOMAIN t : p[k] \in I /\ t[k] = d.tabs[p[k]]
        /\ \A j, k \in DOMAIN t : p[j] = p[k] => j = k
        /\ \A i \in I : \E k \in DOMAIN t : p[k] = i
    BY <1>1, <1>3, <1>4, <1>6, AtPlaces
  <1>8. Within(d.order, slugs) \in Seq(Names)
    BY <1>1, WithinProperties
  <1>9. v.tabs = t /\ v.order = Within(d.order, slugs)
    BY <1>5, <1>6
  <1>10. v \in Documents
    BY <1>5, <1>6, <1>7, <1>8, DocumentShape
  <1> QED
    BY <1>2, <1>3, <1>4, <1>7, <1>9, <1>10

\* It is as well-formed as the whole, and has the tabs asked for.
LEMMA KeepSound ==
  ASSUME NEW d \in Documents, Structured(d), NEW slugs
  PROVE  /\ Keep(d, slugs) \in Documents /\ Structured(Keep(d, slugs))
         /\ Slugs(Keep(d, slugs)) = Slugs(d) \cap slugs
         /\ Valid(d) => Valid(Keep(d, slugs))
         /\ \A s \in Slugs(d) \cap slugs : Tab(Keep(d, slugs), s) = Tab(d, s)
  <1>1. PICK v, p : v = Keep(d, slugs) /\ p = Ascending(Kept(d, slugs))
    OBVIOUS
  <1>2. /\ v \in Documents /\ Len(v.tabs) <= Len(d.tabs)
        /\ v.order = Within(d.order, slugs)
        /\ \A k \in DOMAIN v.tabs : /\ p[k] \in DOMAIN d.tabs /\ d.tabs[p[k]].slug \in slugs
                                    /\ v.tabs[k] = d.tabs[p[k]]
        /\ \A j, k \in DOMAIN v.tabs : p[j] = p[k] => j = k
        /\ \A i \in DOMAIN d.tabs : d.tabs[i].slug \in slugs => \E k \in DOMAIN v.tabs : p[k] = i
    BY <1>1, KeepParts
  <1>3. Unique(d.tabs) /\ NoRepeat(d.order) /\ ToSet(d.order) \subseteq Slugs(d)
    BY StructuredParts
  <1>4. Unique(v.tabs)
    <2>1. PICK all, part : all = d.tabs /\ part = v.tabs
      OBVIOUS
    <2>2. /\ Unique(all)
          /\ \A k \in DOMAIN part : p[k] \in DOMAIN all /\ part[k] = all[p[k]]
          /\ \A j, k \in DOMAIN part : p[j] = p[k] => j = k
      BY <1>2, <1>3, <2>1
    <2>3. Unique(part)
      BY <2>2, PartUnique
    <2> QED
      BY <2>1, <2>3
  <1>5. Slugs(v) = Slugs(d) \cap slugs
    <2>1. ASSUME NEW x \in Slugs(v) PROVE x \in Slugs(d) \cap slugs
      BY <1>2, <2>1 DEF Slugs
    <2>2. ASSUME NEW x \in Slugs(d) \cap slugs PROVE x \in Slugs(v)
      <3>1. PICK i \in DOMAIN d.tabs : d.tabs[i].slug = x
        BY <2>2 DEF Slugs
      <3>2. PICK k \in DOMAIN v.tabs : p[k] = i
        BY <1>2, <2>2, <3>1
      <3> QED
        BY <1>2, <3>1, <3>2 DEF Slugs
    <2> QED
      BY <2>1, <2>2
  <1>6. d.order \in Seq(Names)
    BY DocumentShape
  <1>7. NoRepeat(v.order) /\ ToSet(v.order) = ToSet(d.order) \cap slugs
    BY <1>2, <1>3, <1>6, WithinProperties
  <1>8. Structured(v)
    BY <1>3, <1>4, <1>5, <1>7, StructuredParts
  <1>9. ASSUME Valid(d) PROVE Valid(v)
    <2>1. Len(d.tabs) <= MaxTabs /\ \A i \in DOMAIN d.tabs : ValidTab(d.tabs[i])
      BY <1>9 DEF Valid
    <2>2. Len(v.tabs) \in Nat /\ Len(d.tabs) \in Nat /\ MaxTabs \in Nat
      BY <1>2, DocumentShape, BoardAssumption
    <2>3. Len(v.tabs) <= MaxTabs
      BY <1>2, <2>1, <2>2
    <2>4. \A k \in DOMAIN v.tabs : ValidTab(v.tabs[k])
      BY <1>2, <2>1
    <2> QED
      BY <1>8, <2>3, <2>4 DEF Valid
  <1>10. ASSUME NEW s \in Slugs(d) \cap slugs PROVE Tab(v, s) = Tab(d, s)
    <2>1. PICK i \in DOMAIN v.tabs : v.tabs[i].slug = s
      BY <1>5, <1>10 DEF Slugs
    <2>2. Tab(v, s) = v.tabs[i]
      BY <1>4, <2>1, TabFoundAt
    <2>3. p[i] \in DOMAIN d.tabs /\ v.tabs[i] = d.tabs[p[i]]
      BY <1>2, <2>1
    <2>4. Tab(d, s) = d.tabs[p[i]]
      BY <1>3, <2>1, <2>3, TabFoundAt
    <2> QED
      BY <2>2, <2>3, <2>4
  <1> QED
    BY <1>1, <1>2, <1>5, <1>8, <1>9, <1>10

\* What an operator is served.
LEMMA ServedSound ==
  ASSUME NEW d \in Documents, Structured(d), NEW o
  PROVE  /\ Served(d, o) \in Documents /\ Structured(Served(d, o))
         /\ Slugs(Served(d, o)) = {s \in Slugs(d) : VisibleTo(Tab(d, s), o)}
         /\ Valid(d) => Valid(Served(d, o))
         /\ \A s \in Slugs(Served(d, o)) : s \in Slugs(d) /\ Tab(Served(d, o), s) = Tab(d, s)
  <1> DEFINE slugs == {s \in Slugs(d) : VisibleTo(Tab(d, s), o)}
  <1>1. Served(d, o) = Keep(d, slugs)
    BY DEF Served
  <1>2. slugs = Slugs(d) \cap slugs
    OBVIOUS
  <1> HIDE DEF slugs
  <1>3. /\ Keep(d, slugs) \in Documents /\ Structured(Keep(d, slugs))
        /\ Slugs(Keep(d, slugs)) = slugs
        /\ Valid(d) => Valid(Keep(d, slugs))
        /\ \A s \in slugs : s \in Slugs(d) /\ Tab(Keep(d, slugs), s) = Tab(d, s)
    BY <1>2, KeepSound
  <1> QED
    BY <1>1, <1>3 DEF slugs

\* The deleted tab is the one that is not kept.
LEMMA WithoutTabKeeps ==
  ASSUME NEW d \in Documents, Structured(d), NEW s
  PROVE  WithoutTab(d, s) = Keep(d, Slugs(d) \ {s})
  <1>1. ToSet(d.order) \subseteq Slugs(d)
    BY StructuredParts
  <1>2. \A i \in DOMAIN d.order : d.order[i] \in Slugs(d)
    BY <1>1 DEF ToSet
  <1>3. {i \in DOMAIN d.order : d.order[i] \notin {s}}
        = {i \in DOMAIN d.order : d.order[i] \in Slugs(d) \ {s}}
    BY <1>2
  <1>4. Outside(d.order, {s}) = Within(d.order, Slugs(d) \ {s})
    BY <1>3 DEF Outside, Within
  <1> QED
    BY <1>4 DEF WithoutTab, Keep

\* The slugs of a document, one after the other.
LEMMA SlugSeqProperties ==
  ASSUME NEW d \in Documents, Unique(d.tabs)
  PROVE  SlugSeq(d) \in Seq(Names) /\ NoRepeat(SlugSeq(d)) /\ ToSet(SlugSeq(d)) = Slugs(d)
  <1>1. d.tabs \in Seq(BoardTabs)
    BY DocumentShape
  <1>2. PICK n : n = Len(d.tabs)
    OBVIOUS
  <1>3. n \in Nat /\ DOMAIN d.tabs = 1 .. n /\ \A i \in 1 .. n : d.tabs[i].slug \in Names
    <2>1. n \in Nat /\ DOMAIN d.tabs = 1 .. n
      BY <1>1, <1>2, LenProperties
    <2>2. \A i \in 1 .. n : d.tabs[i] \in BoardTabs
      BY <1>1, <1>2, ElementOfSeq
    <2> QED
      BY <2>1, <2>2 DEF BoardTabs
  <1>4. SlugSeq(d) = [i \in 1 .. n |-> d.tabs[i].slug]
    BY <1>3 DEF SlugSeq
  <1>5. SlugSeq(d) \in Seq(Names)
    BY <1>3, <1>4, IsASeq
  <1>6. NoRepeat(SlugSeq(d))
    BY <1>3, <1>4 DEF NoRepeat, Unique
  <1>7. ToSet(SlugSeq(d)) = Slugs(d)
    BY <1>3, <1>4 DEF ToSet, Slugs
  <1> QED
    BY <1>5, <1>6, <1>7

\* A tab strip shows every tab of a well-formed document, each once.
LEMMA StripShowsAll ==
  ASSUME NEW d \in Documents, Structured(d)
  PROVE  NoRepeat(OrderedTabs(d)) /\ ToSet(OrderedTabs(d)) = Slugs(d)
  <1>1. Unique(d.tabs) /\ NoRepeat(d.order) /\ ToSet(d.order) \subseteq Slugs(d)
    BY StructuredParts
  <1>2. d.order \in Seq(Names)
    BY DocumentShape
  <1>3. PICK a, b : a = Within(d.order, Slugs(d)) /\ b = Outside(SlugSeq(d), ToSet(d.order))
    OBVIOUS
  <1>4. a \in Seq(Names) /\ NoRepeat(a) /\ ToSet(a) = ToSet(d.order)
    <2>1. a \in Seq(Names) /\ NoRepeat(a) /\ ToSet(a) = ToSet(d.order) \cap Slugs(d)
      BY <1>1, <1>2, <1>3, WithinProperties
    <2> QED
      BY <1>1, <2>1
  <1>5. SlugSeq(d) \in Seq(Names) /\ NoRepeat(SlugSeq(d)) /\ ToSet(SlugSeq(d)) = Slugs(d)
    BY <1>1, SlugSeqProperties
  <1>6. b \in Seq(Names) /\ NoRepeat(b) /\ ToSet(b) = Slugs(d) \ ToSet(d.order)
    BY <1>3, <1>5, WithinProperties
  <1>7. ToSet(a) \cap ToSet(b) = {}
    BY <1>4, <1>6
  <1>8. NoRepeat(a \o b) /\ ToSet(a \o b) = ToSet(a) \cup ToSet(b)
    BY <1>4, <1>6, <1>7, JoinedNoRepeat
  <1>9. OrderedTabs(d) = a \o b
    BY <1>3 DEF OrderedTabs
  <1> QED
    BY <1>1, <1>4, <1>6, <1>8, <1>9

\* A document in every respect but the limits.
Sound(d) == d \in Documents /\ Structured(d)

\* Widgets a tab may be given: each id once, and no id of another tab.
Fitting(d, s, widgets) ==
  /\ widgets \in Seq(BoardWidgets)
  /\ \A k, l \in DOMAIN widgets : widgets[k].id = widgets[l].id => k = l
  /\ \A k \in DOMAIN widgets : \/ widgets[k].id \in IdsOf(Tab(d, s))
                               \/ widgets[k].id \notin Ids(d)

\* A tab of a document has the shape of one, and its ids are the document's.
LEMMA TabShape ==
  ASSUME NEW d \in Documents, NEW i \in DOMAIN d.tabs
  PROVE  /\ d.tabs[i] \in BoardTabs /\ d.tabs[i].slug \in Names
         /\ d.tabs[i].widgets \in Seq(BoardWidgets)
         /\ d.tabs[i].slug \in Slugs(d)
         /\ IdsOf(d.tabs[i]) \subseteq Ids(d)
  <1>1. d.tabs \in Seq(BoardTabs)
    BY DocumentShape
  <1>2. d.tabs[i] \in BoardTabs
    BY <1>1
  <1>3. IdsOf(d.tabs[i]) \subseteq Ids(d)
    BY DEF Ids
  <1> QED
    BY <1>2, <1>3 DEF BoardTabs, Slugs

\* e is d with other widgets in its n-th tab.
Edited(d, n, widgets, e) ==
  /\ e.order = d.order /\ DOMAIN e.tabs = DOMAIN d.tabs
  /\ \A i \in DOMAIN d.tabs : /\ e.tabs[i].slug = d.tabs[i].slug
                              /\ e.tabs[i].owner = d.tabs[i].owner
                              /\ i # n => e.tabs[i] = d.tabs[i]
  /\ e.tabs[n] = [d.tabs[n] EXCEPT !.widgets = widgets]
  /\ e.tabs[n].widgets = widgets
  /\ widgets \in Seq(BoardWidgets) => e \in Documents
  /\ Slugs(e) = Slugs(d)

\* Giving a tab other widgets changes nothing else.
LEMMA EditParts ==
  ASSUME NEW d \in Documents, NEW s \in Slugs(d), NEW widgets
  PROVE  /\ TabOf(d, s) \in DOMAIN d.tabs /\ d.tabs[TabOf(d, s)].slug = s
         /\ Edited(d, TabOf(d, s), widgets, WithWidgets(d, s, widgets))
  <1>1. PICK n, e : n = TabOf(d, s) /\ e = WithWidgets(d, s, widgets)
    OBVIOUS
  <1>2. n \in DOMAIN d.tabs /\ d.tabs[n].slug = s
    BY <1>1, TabFound
  <1>3. d \in [tabs : Seq(BoardTabs), order : Seq(Names)] /\ d.tabs \in Seq(BoardTabs)
    BY DocumentShape
  <1>4. PICK t : t = [d.tabs[n] EXCEPT !.widgets = widgets]
    OBVIOUS
  <1>5. e = [d EXCEPT !.tabs = [d.tabs EXCEPT ![n] = t]]
    BY <1>1, <1>4 DEF WithWidgets
  <1>6. e.order = d.order /\ e.tabs = [d.tabs EXCEPT ![n] = t]
    BY <1>3, <1>5
  <1>7. d.tabs[n] \in BoardTabs
    BY <1>2, <1>3
  <1>8. t.slug = d.tabs[n].slug /\ t.owner = d.tabs[n].owner /\ t.widgets = widgets
        /\ (widgets \in Seq(BoardWidgets) => t \in BoardTabs)
    BY <1>4, <1>7 DEF BoardTabs
  <1>9. DOMAIN e.tabs = DOMAIN d.tabs /\ e.tabs[n] = t
        /\ \A i \in DOMAIN d.tabs : i # n => e.tabs[i] = d.tabs[i]
    BY <1>2, <1>3, <1>6
  <1>10. \A i \in DOMAIN d.tabs : e.tabs[i].slug = d.tabs[i].slug /\ e.tabs[i].owner = d.tabs[i].owner
    BY <1>8, <1>9
  <1>11. ASSUME widgets \in Seq(BoardWidgets) PROVE e \in Documents
    <2>1. t \in BoardTabs
      BY <1>8, <1>11
    <2>2. [d.tabs EXCEPT ![n] = t] \in Seq(BoardTabs)
      BY <1>2, <1>3, <2>1
    <2> QED
      BY <1>3, <1>5, <2>2, DocumentShape
  <1>12. Slugs(e) = Slugs(d)
    BY <1>9, <1>10 DEF Slugs
  <1> QED
    BY <1>1, <1>2, <1>4, <1>6, <1>8, <1>9, <1>10, <1>11, <1>12 DEF Edited

\* A tab given fitting widgets keeps the document sound.
LEMMA EditSound ==
  ASSUME NEW d, Sound(d), NEW s \in Slugs(d), NEW widgets, Fitting(d, s, widgets)
  PROVE  Sound(WithWidgets(d, s, widgets)) /\ Slugs(WithWidgets(d, s, widgets)) = Slugs(d)
  <1>1. PICK n, e : n = TabOf(d, s) /\ e = WithWidgets(d, s, widgets)
    OBVIOUS
  <1>2. d \in Documents /\ Unique(d.tabs) /\ NoRepeat(d.order) /\ ToSet(d.order) \subseteq Slugs(d)
    BY StructuredParts DEF Sound
  <1>3. widgets \in Seq(BoardWidgets)
    BY DEF Fitting
  <1>4. /\ n \in DOMAIN d.tabs /\ d.tabs[n].slug = s
        /\ e.order = d.order /\ DOMAIN e.tabs = DOMAIN d.tabs
        /\ \A i \in DOMAIN d.tabs : /\ e.tabs[i].slug = d.tabs[i].slug
                                    /\ i # n => e.tabs[i] = d.tabs[i]
        /\ e.tabs[n].widgets = widgets
        /\ e \in Documents
        /\ Slugs(e) = Slugs(d)
    <2>1. n \in DOMAIN d.tabs /\ d.tabs[n].slug = s /\ Edited(d, n, widgets, e)
      BY <1>1, <1>2, EditParts
    <2> QED
      BY <1>3, <2>1 DEF Edited
  <1>5. Tab(d, s) = d.tabs[n]
    BY <1>1 DEF Tab
  <1>6. ASSUME NEW i \in DOMAIN d.tabs, NEW j \in DOMAIN d.tabs,
               NEW k \in DOMAIN e.tabs[i].widgets, NEW l \in DOMAIN e.tabs[j].widgets,
               e.tabs[i].widgets[k].id = e.tabs[j].widgets[l].id
        PROVE  i = j /\ k = l
    <2>1. CASE i = n /\ j = n
      BY <1>4, <1>6, <2>1 DEF Fitting
    <2>2. CASE i # n /\ j # n
      BY <1>2, <1>4, <1>6, <2>2 DEF Unique
    <2>3. ASSUME NEW x \in DOMAIN d.tabs, x # n, NEW a \in DOMAIN widgets,
                 NEW b \in DOMAIN d.tabs[x].widgets, d.tabs[x].widgets[b].id = widgets[a].id
          PROVE  FALSE
      <3>1. d.tabs[x].widgets[b].id \in IdsOf(d.tabs[x])
        BY DEF IdsOf
      <3>2. d.tabs[x].widgets[b].id \in Ids(d)
        BY <3>1 DEF Ids
      <3>3. widgets[a].id \in IdsOf(d.tabs[n])
        BY <1>5, <2>3, <3>2 DEF Fitting
      <3>4. PICK c \in DOMAIN d.tabs[n].widgets : d.tabs[n].widgets[c].id = widgets[a].id
        BY <3>3 DEF IdsOf
      <3> QED
        BY <1>2, <1>4, <2>3, <3>4 DEF Unique
    <2>4. CASE i = n /\ j # n
      BY <1>4, <1>6, <2>3, <2>4
    <2>5. CASE i # n /\ j = n
      BY <1>4, <1>6, <2>3, <2>5
    <2> QED
      BY <2>1, <2>2, <2>4, <2>5
  <1>7. Unique(e.tabs)
    <2>1. \A i, j \in DOMAIN e.tabs : e.tabs[i].slug = e.tabs[j].slug => i = j
      BY <1>2, <1>4 DEF Unique
    <2> QED
      BY <1>4, <1>6, <2>1 DEF Unique
  <1>8. Structured(e)
    BY <1>2, <1>4, <1>7, StructuredParts
  <1> QED
    BY <1>1, <1>4, <1>8 DEF Sound

\* The widgets of a tab, changed in place.
LEMMA SameIdsFit ==
  ASSUME NEW d, Sound(d), NEW s \in Slugs(d), NEW widgets \in Seq(BoardWidgets),
         DOMAIN widgets = DOMAIN Tab(d, s).widgets,
         \A k \in DOMAIN widgets : widgets[k].id = Tab(d, s).widgets[k].id
  PROVE  Fitting(d, s, widgets)
  <1>1. Unique(d.tabs)
    BY StructuredParts DEF Sound
  <1>2. PICK n : n \in DOMAIN d.tabs /\ Tab(d, s) = d.tabs[n]
    BY TabFound
  <1>3. \A k, l \in DOMAIN widgets : widgets[k].id = widgets[l].id => k = l
    BY <1>1, <1>2 DEF Unique
  <1>4. \A k \in DOMAIN widgets : widgets[k].id \in IdsOf(Tab(d, s))
    BY DEF IdsOf
  <1> QED
    BY <1>3, <1>4 DEF Fitting

\* The widgets of a tab are such widgets.
LEMMA TabWidgets ==
  ASSUME NEW d, Sound(d), NEW s \in Slugs(d)
  PROVE  /\ Tab(d, s).widgets \in Seq(BoardWidgets)
         /\ IdsOf(Tab(d, s)) \subseteq Ids(d)
         /\ \A k, l \in DOMAIN Tab(d, s).widgets :
              Tab(d, s).widgets[k].id = Tab(d, s).widgets[l].id => k = l
  <1>1. d \in Documents /\ Unique(d.tabs)
    BY StructuredParts DEF Sound
  <1>2. PICK n : n \in DOMAIN d.tabs /\ Tab(d, s) = d.tabs[n]
    BY TabFound
  <1>3. d.tabs[n].widgets \in Seq(BoardWidgets) /\ IdsOf(d.tabs[n]) \subseteq Ids(d)
    BY <1>1, <1>2, TabShape
  <1>4. \A k, l \in DOMAIN d.tabs[n].widgets : d.tabs[n].widgets[k].id = d.tabs[n].widgets[l].id => k = l
    BY <1>1, <1>2 DEF Unique
  <1> QED
    BY <1>2, <1>3, <1>4

\* A sequence changed place by place.
LEMMA PlacewiseSeq ==
  ASSUME NEW s \in Seq(BoardWidgets), NEW t,
         DOMAIN t = DOMAIN s, t = [k \in DOMAIN s |-> t[k]],
         \A k \in DOMAIN s : t[k] \in BoardWidgets
  PROVE  t \in Seq(BoardWidgets)
  <1>1. Len(s) \in Nat /\ DOMAIN s = 1 .. Len(s)
    OBVIOUS
  <1>2. \A k \in 1 .. Len(s) : t[k] \in BoardWidgets
    BY <1>1
  <1>3. [k \in 1 .. Len(s) |-> t[k]] \in Seq(BoardWidgets)
    BY <1>1, <1>2, IsASeq
  <1> QED
    BY <1>1, <1>3

\* A widget is placed.
LEMMA PlacedSound ==
  ASSUME NEW d, Sound(d), NEW s \in Slugs(d), NEW id, NEW grid \in Rects
  PROVE  Sound(Placed(d, s, id, grid))
  <1>1. PICK old : old = Tab(d, s).widgets
    OBVIOUS
  <1>2. PICK new : new = [k \in DOMAIN old |-> IF old[k].id = id THEN [old[k] EXCEPT !.grid = grid]
                                               ELSE old[k]]
    OBVIOUS
  <1>3. Placed(d, s, id, grid) = WithWidgets(d, s, new)
    BY <1>1, <1>2 DEF Placed, Patched
  <1>4. old \in Seq(BoardWidgets)
    BY <1>1, TabWidgets
  <1>5. \A k \in DOMAIN old : old[k] \in BoardWidgets
    BY <1>4
  <1>6. DOMAIN new = DOMAIN old
        /\ \A k \in DOMAIN old : new[k] \in BoardWidgets /\ new[k].id = old[k].id
    BY <1>2, <1>5 DEF BoardWidgets
  <1>7. new \in Seq(BoardWidgets)
    BY <1>2, <1>4, <1>6, PlacewiseSeq
  <1>8. Fitting(d, s, new)
    BY <1>1, <1>6, <1>7, SameIdsFit
  <1> QED
    BY <1>3, <1>8, EditSound

\* A widget is hidden.
LEMMA HiddenSound ==
  ASSUME NEW d, Sound(d), NEW s \in Slugs(d), NEW id
  PROVE  Sound(Hidden(d, s, id))
  <1>1. PICK old : old = Tab(d, s).widgets
    OBVIOUS
  <1>2. PICK new : new = [k \in DOMAIN old |-> IF old[k].id = id THEN [old[k] EXCEPT !.hidden = TRUE]
                                               ELSE old[k]]
    OBVIOUS
  <1>3. Hidden(d, s, id) = WithWidgets(d, s, new)
    BY <1>1, <1>2 DEF Hidden, Patched
  <1>4. old \in Seq(BoardWidgets)
    BY <1>1, TabWidgets
  <1>5. \A k \in DOMAIN old : old[k] \in BoardWidgets
    BY <1>4
  <1>6. DOMAIN new = DOMAIN old
        /\ \A k \in DOMAIN old : new[k] \in BoardWidgets /\ new[k].id = old[k].id
    BY <1>2, <1>5 DEF BoardWidgets
  <1>7. new \in Seq(BoardWidgets)
    BY <1>2, <1>4, <1>6, PlacewiseSeq
  <1>8. Fitting(d, s, new)
    BY <1>1, <1>6, <1>7, SameIdsFit
  <1> QED
    BY <1>3, <1>8, EditSound

\* Several widgets are placed at once.
LEMMA LayoutSound ==
  ASSUME NEW d, Sound(d), NEW s \in Slugs(d), NEW layout,
         \A id \in DOMAIN layout : layout[id] \in Rects
  PROVE  Sound(WithWidgets(d, s,
           [k \in DOMAIN Tab(d, s).widgets |->
              LET w == Tab(d, s).widgets[k]
              IN  IF w.id \in DOMAIN layout THEN [w EXCEPT !.grid = layout[w.id]] ELSE w]))
  <1>1. PICK old : old = Tab(d, s).widgets
    OBVIOUS
  <1>2. PICK new : new = [k \in DOMAIN old |->
                            IF old[k].id \in DOMAIN layout
                            THEN [old[k] EXCEPT !.grid = layout[old[k].id]] ELSE old[k]]
    OBVIOUS
  <1>3. old \in Seq(BoardWidgets)
    BY <1>1, TabWidgets
  <1>4. \A k \in DOMAIN old : old[k] \in BoardWidgets
    BY <1>3
  <1>5. DOMAIN new = DOMAIN old
        /\ \A k \in DOMAIN old : new[k] \in BoardWidgets /\ new[k].id = old[k].id
    BY <1>2, <1>4 DEF BoardWidgets
  <1>6. new \in Seq(BoardWidgets)
    BY <1>2, <1>3, <1>5, PlacewiseSeq
  <1>7. Fitting(d, s, new)
    BY <1>1, <1>5, <1>6, SameIdsFit
  <1>8. Sound(WithWidgets(d, s, new))
    BY <1>7, EditSound
  <1> QED
    BY <1>1, <1>2, <1>8

\* The ids of a list of widgets, each once.
UniqueIds(widgets) == \A k, l \in DOMAIN widgets : widgets[k].id = widgets[l].id => k = l

IdsIn(widgets) == {widgets[k].id : k \in DOMAIN widgets}

\* Without a widget, the others stay.
LEMMA WithoutProperties ==
  ASSUME NEW widgets \in Seq(BoardWidgets), NEW id
  PROVE  /\ Without(widgets, id) \in Seq(BoardWidgets)
         /\ IdsIn(Without(widgets, id)) = IdsIn(widgets) \ {id}
         /\ UniqueIds(widgets) => UniqueIds(Without(widgets, id))
  <1> DEFINE I == {k \in DOMAIN widgets : widgets[k].id # id}
  <1>1. PICK u, p : u = Without(widgets, id) /\ p = Ascending(I)
    OBVIOUS
  <1>2. u = At(widgets, I) /\ I \subseteq DOMAIN widgets
    BY <1>1 DEF Without
  <1>3. /\ u \in Seq(BoardWidgets)
        /\ \A k \in DOMAIN u : p[k] \in I /\ u[k] = widgets[p[k]]
        /\ \A j, k \in DOMAIN u : p[j] = p[k] => j = k
        /\ \A i \in I : \E k \in DOMAIN u : p[k] = i
    <2> HIDE DEF I
    <2> QED
      BY <1>1, <1>2, AtPlaces
  <1>4. IdsIn(u) = IdsIn(widgets) \ {id}
    <2>1. \A k \in DOMAIN u : \E i \in DOMAIN widgets : u[k].id = widgets[i].id /\ widgets[i].id # id
      BY <1>3
    <2>2. \A i \in DOMAIN widgets : widgets[i].id # id => \E k \in DOMAIN u : u[k].id = widgets[i].id
      BY <1>3
    <2> QED
      BY <2>1, <2>2 DEF IdsIn
  <1>5. ASSUME UniqueIds(widgets) PROVE UniqueIds(u)
    BY <1>3, <1>5 DEF UniqueIds
  <1> QED
    BY <1>1, <1>3, <1>4, <1>5

\* A tab's ids, two ways.
LEMMA TabIds ==
  ASSUME NEW d, Sound(d), NEW s \in Slugs(d)
  PROVE  /\ Tab(d, s).widgets \in Seq(BoardWidgets)
         /\ IdsIn(Tab(d, s).widgets) = IdsOf(Tab(d, s)) /\ IdsOf(Tab(d, s)) \subseteq Ids(d)
         /\ UniqueIds(Tab(d, s).widgets)
  BY TabWidgets DEF IdsIn, IdsOf, UniqueIds

\* Widgets fit when their ids do.
LEMMA IdsFit ==
  ASSUME NEW d, NEW s, NEW widgets \in Seq(BoardWidgets), UniqueIds(widgets),
         \A x \in IdsIn(widgets) : x \in IdsOf(Tab(d, s)) \/ x \notin Ids(d)
  PROVE  Fitting(d, s, widgets)
  BY DEF Fitting, IdsIn, UniqueIds

\* A widget is removed.
LEMMA RemovedSound ==
  ASSUME NEW d, Sound(d), NEW s \in Slugs(d), NEW id
  PROVE  Sound(Removed(d, s, id)) /\ Slugs(Removed(d, s, id)) = Slugs(d)
  <1>1. PICK new : new = Without(Tab(d, s).widgets, id)
    OBVIOUS
  <1>2. new \in Seq(BoardWidgets) /\ IdsIn(new) = IdsOf(Tab(d, s)) \ {id} /\ UniqueIds(new)
    <2>1. PICK old : old = Tab(d, s).widgets
      OBVIOUS
    <2>2. old \in Seq(BoardWidgets) /\ IdsIn(old) = IdsOf(Tab(d, s)) /\ UniqueIds(old)
      BY <2>1, TabIds
    <2>3. Without(old, id) \in Seq(BoardWidgets) /\ IdsIn(Without(old, id)) = IdsIn(old) \ {id}
          /\ UniqueIds(Without(old, id))
      BY <2>2, WithoutProperties
    <2> QED
      BY <1>1, <2>1, <2>2, <2>3
  <1>3. Fitting(d, s, new)
    BY <1>2, IdsFit
  <1>4. Removed(d, s, id) = WithWidgets(d, s, new)
    BY <1>1 DEF Removed
  <1> QED
    BY <1>3, <1>4, EditSound

\* A widget follows the others.
LEMMA AppendedIds ==
  ASSUME NEW widgets \in Seq(BoardWidgets), UniqueIds(widgets), NEW w \in BoardWidgets,
         w.id \notin IdsIn(widgets)
  PROVE  /\ Append(widgets, w) \in Seq(BoardWidgets) /\ UniqueIds(Append(widgets, w))
         /\ IdsIn(Append(widgets, w)) = IdsIn(widgets) \cup {w.id}
  <1>1. PICK n : n = Len(widgets)
    OBVIOUS
  <1>2. PICK u : u = Append(widgets, w)
    OBVIOUS
  <1>3. n \in Nat /\ DOMAIN widgets = 1 .. n
    BY <1>1, LenProperties
  <1>4. /\ u \in Seq(BoardWidgets) /\ Len(u) = n + 1
        /\ \A i \in 1 .. n : u[i] = widgets[i]
        /\ u[n + 1] = w
    BY <1>1, <1>2, AppendProperties
  <1>5. DOMAIN u = 1 .. n + 1
    BY <1>4, LenProperties
  <1>6. \A i \in DOMAIN u : (i \in DOMAIN widgets /\ u[i] = widgets[i]) \/ (i = n + 1 /\ u[i] = w)
    <2>1. \A i \in 1 .. n + 1 : i \in 1 .. n \/ i = n + 1
      BY <1>3
    <2> QED
      BY <1>3, <1>4, <1>5, <2>1
  <1>7. \A i \in DOMAIN widgets : i \in DOMAIN u /\ u[i] = widgets[i]
    <2>1. \A i \in 1 .. n : i \in 1 .. n + 1
      BY <1>3
    <2> QED
      BY <1>3, <1>4, <1>5, <2>1
  <1>8. n + 1 \in DOMAIN u /\ u[n + 1] = w
    BY <1>3, <1>4, <1>5
  <1>9. UniqueIds(u)
    BY <1>6 DEF UniqueIds, IdsIn
  <1>10. IdsIn(u) = IdsIn(widgets) \cup {w.id}
    <2>1. ASSUME NEW x \in IdsIn(u) PROVE x \in IdsIn(widgets) \cup {w.id}
      BY <1>6, <2>1 DEF IdsIn
    <2>2. ASSUME NEW x \in IdsIn(widgets) PROVE x \in IdsIn(u)
      BY <1>7, <2>2 DEF IdsIn
    <2>3. w.id \in IdsIn(u)
      BY <1>8 DEF IdsIn
    <2> QED
      BY <2>1, <2>2, <2>3
  <1> QED
    BY <1>2, <1>4, <1>9, <1>10

\* A new widget is added to a tab.
LEMMA AddedSound ==
  ASSUME NEW d, Sound(d), NEW s \in Slugs(d), NEW w \in BoardWidgets, w.id \notin Ids(d)
  PROVE  Sound(WithWidgets(d, s, Append(Tab(d, s).widgets, w)))
  <1>1. PICK old, new : old = Tab(d, s).widgets /\ new = Append(old, w)
    OBVIOUS
  <1>2. old \in Seq(BoardWidgets) /\ IdsIn(old) = IdsOf(Tab(d, s)) /\ UniqueIds(old)
        /\ IdsOf(Tab(d, s)) \subseteq Ids(d)
    BY <1>1, TabIds
  <1>3. new \in Seq(BoardWidgets) /\ UniqueIds(new) /\ IdsIn(new) = IdsIn(old) \cup {w.id}
    BY <1>1, <1>2, AppendedIds
  <1>4. \A x \in IdsIn(new) : x \in IdsOf(Tab(d, s)) \/ x \notin Ids(d)
    BY <1>2, <1>3
  <1>5. Fitting(d, s, new)
    BY <1>3, <1>4, IdsFit
  <1> QED
    BY <1>1, <1>5, EditSound

\* The ids of a document whose n-th tab has other widgets.
LEMMA EditedIds ==
  ASSUME NEW d, Sound(d), NEW s \in Slugs(d), NEW widgets, NEW x \in Ids(WithWidgets(d, s, widgets))
  PROVE  x \in IdsIn(widgets) \/ (x \in Ids(d) /\ x \notin IdsOf(Tab(d, s)))
  <1>1. PICK n, e : n = TabOf(d, s) /\ e = WithWidgets(d, s, widgets)
    OBVIOUS
  <1>2. d \in Documents /\ Unique(d.tabs)
    BY StructuredParts DEF Sound
  <1>3. n \in DOMAIN d.tabs /\ Edited(d, n, widgets, e)
    BY <1>1, <1>2, EditParts
  <1>4. PICK i \in DOMAIN e.tabs : x \in IdsOf(e.tabs[i])
    BY <1>1 DEF Ids
  <1>5. i \in DOMAIN d.tabs /\ e.tabs[n].widgets = widgets /\ (i # n => e.tabs[i] = d.tabs[i])
    BY <1>3, <1>4 DEF Edited
  <1>6. CASE i = n
    BY <1>4, <1>5, <1>6 DEF IdsOf, IdsIn
  <1>7. CASE i # n
    <2>1. x \in IdsOf(d.tabs[i]) /\ x \in Ids(d)
      BY <1>4, <1>5, <1>7 DEF Ids
    <2>2. x \notin IdsOf(d.tabs[n])
      BY <1>2, <1>3, <1>5, <1>7, <2>1 DEF Unique, IdsOf
    <2> QED
      BY <1>1, <2>1, <2>2 DEF Tab
  <1> QED
    BY <1>6, <1>7

\* A widget of a tab.
LEMMA WidgetFound ==
  ASSUME NEW t, NEW id \in IdsOf(t), t.widgets \in Seq(BoardWidgets)
  PROVE  WidgetOf(t, id) \in BoardWidgets /\ WidgetOf(t, id).id = id
  <1>1. \E i \in DOMAIN t.widgets : t.widgets[i].id = id
    BY DEF IdsOf
  <1>2. \A i \in DOMAIN t.widgets : t.widgets[i] \in BoardWidgets
    OBVIOUS
  <1> QED
    BY <1>1, <1>2 DEF WidgetOf

\* A widget is moved to the end of a tab.
LEMMA MovedToSound ==
  ASSUME NEW d, Sound(d), NEW to \in Slugs(d), NEW id \in Ids(d)
  PROVE  Sound(MovedTo(d, id, to))
  <1>1. PICK from : from = CHOOSE s \in Slugs(d) : id \in IdsOf(Tab(d, s))
    OBVIOUS
  <1>2. from \in Slugs(d) /\ id \in IdsOf(Tab(d, from))
    <2>1. d \in Documents /\ Unique(d.tabs)
      BY StructuredParts DEF Sound
    <2>2. PICK i \in DOMAIN d.tabs : id \in IdsOf(d.tabs[i])
      BY DEF Ids
    <2>3. d.tabs[i].slug \in Slugs(d) /\ Tab(d, d.tabs[i].slug) = d.tabs[i]
      BY <2>1, TabFoundAt
    <2>4. \E s \in Slugs(d) : id \in IdsOf(Tab(d, s))
      BY <2>2, <2>3
    <2> QED
      BY <1>1, <2>4
  <1>3. PICK w, cut : w = WidgetOf(Tab(d, from), id) /\ cut = Removed(d, from, id)
    OBVIOUS
  <1>4. w \in BoardWidgets /\ w.id = id
    BY <1>2, <1>3, TabIds, WidgetFound
  <1>5. Sound(cut) /\ Slugs(cut) = Slugs(d)
    BY <1>2, <1>3, RemovedSound
  <1>6. id \notin Ids(cut)
    <2>1. PICK new : new = Without(Tab(d, from).widgets, id)
      OBVIOUS
    <2>2. id \notin IdsIn(new)
      <3>1. PICK old : old = Tab(d, from).widgets
        OBVIOUS
      <3>2. old \in Seq(BoardWidgets)
        BY <1>2, <3>1, TabIds
      <3>3. IdsIn(Without(old, id)) = IdsIn(old) \ {id}
        BY <3>2, WithoutProperties
      <3> QED
        BY <2>1, <3>1, <3>3
    <2>3. cut = WithWidgets(d, from, new)
      BY <1>3, <2>1 DEF Removed
    <2> QED
      BY <1>2, <2>2, <2>3, EditedIds
  <1>7. Sound(WithWidgets(cut, to, Append(Tab(cut, to).widgets, w)))
    BY <1>4, <1>5, <1>6, AddedSound
  <1>8. MovedTo(d, id, to) = WithWidgets(cut, to, Append(Tab(cut, to).widgets, w))
    BY <1>1, <1>3 DEF MovedTo, Removed
  <1> QED
    BY <1>7, <1>8

\* A name that is chosen for a request is one of the names.
LEMMA NameTyped ==
  ASSUME NEW S, NEW names \in Seq(S), NEW asked \in S \cup {Unnamed}, NEW used,
         Name(asked, names, used) # Unnamed
  PROVE  Name(asked, names, used) \in S
  <1>1. CASE asked # Unnamed
    BY <1>1 DEF Name
  <1>2. CASE asked = Unnamed
    <2>1. FirstFree(names, used) # 0 /\ Name(asked, names, used) = names[FirstFree(names, used)]
      BY <1>2 DEF Name
    <2> DEFINE free == {i \in 1 .. Len(names) : names[i] \notin used}
    <2>2. FirstFree(names, used) = IF free # {} THEN Min(free) ELSE 0
      BY DEF FirstFree, SelectInSeq
    <2>3. free # {} /\ FirstFree(names, used) = Min(free)
      BY <2>1, <2>2
    <2>4. free \subseteq Nat /\ free \subseteq 1 .. Len(names)
      OBVIOUS
    <2>5. Min(free) \in free
      <3> HIDE DEF free
      <3>1. \E n \in free : \A m \in free : n <= m
        BY <2>3, <2>4, LeastExists
      <3> QED
        BY <3>1 DEF Min
    <2>6. FirstFree(names, used) \in 1 .. Len(names)
      BY <2>3, <2>4, <2>5
    <2> QED
      BY <2>1, <2>6
  <1> QED
    BY <1>1, <1>2

\* A new tab comes last.
LEMMA WithTabSound ==
  ASSUME NEW d, Sound(d), NEW t \in BoardTabs, t.slug \notin Slugs(d), t.widgets = <<>>
  PROVE  Sound(WithTab(d, t))
  <1>1. /\ d \in Documents /\ d \in [tabs : Seq(BoardTabs), order : Seq(Names)]
        /\ Unique(d.tabs) /\ NoRepeat(d.order) /\ ToSet(d.order) \subseteq Slugs(d)
    BY DocumentShape, StructuredParts DEF Sound
  <1>2. PICK e : e = WithTab(d, t)
    OBVIOUS
  <1>3. e = [d EXCEPT !.tabs = Append(d.tabs, t), !.order = Append(d.order, t.slug)]
    BY <1>2 DEF WithTab
  <1>4. PICK u, o : u = Append(d.tabs, t) /\ o = Append(d.order, t.slug)
    OBVIOUS
  <1>5. e.tabs = u /\ e.order = o
    BY <1>1, <1>3, <1>4
  <1>6. t.slug \in Names
    BY DEF BoardTabs
  <1>7. PICK m, n : m = Len(d.tabs) /\ n = Len(d.order)
    OBVIOUS
  <1>8. m \in Nat /\ n \in Nat /\ DOMAIN d.tabs = 1 .. m /\ DOMAIN d.order = 1 .. n
    <2>1. d.tabs \in Seq(BoardTabs) /\ d.order \in Seq(Names)
      BY <1>1
    <2> QED
      BY <1>7, <2>1, LenProperties
  <1>9. u \in Seq(BoardTabs) /\ Len(u) = m + 1 /\ u[m + 1] = t /\ \A i \in 1 .. m : u[i] = d.tabs[i]
    BY <1>1, <1>4, <1>7, AppendProperties
  <1>10. o \in Seq(Names) /\ Len(o) = n + 1 /\ o[n + 1] = t.slug /\ \A i \in 1 .. n : o[i] = d.order[i]
    BY <1>1, <1>4, <1>6, <1>7, AppendProperties
  <1>11. DOMAIN u = 1 .. m + 1 /\ DOMAIN o = 1 .. n + 1
    BY <1>9, <1>10, LenProperties
  <1>12. \A i \in DOMAIN u : (i \in DOMAIN d.tabs /\ u[i] = d.tabs[i]) \/ (i = m + 1 /\ u[i] = t)
    <2>1. \A i \in 1 .. m + 1 : i \in 1 .. m \/ i = m + 1
      BY <1>8
    <2> QED
      BY <1>8, <1>9, <1>11, <2>1
  <1>13. \A i \in DOMAIN o : (i \in DOMAIN d.order /\ o[i] = d.order[i]) \/ (i = n + 1 /\ o[i] = t.slug)
    <2>1. \A i \in 1 .. n + 1 : i \in 1 .. n \/ i = n + 1
      BY <1>8
    <2> QED
      BY <1>8, <1>10, <1>11, <2>1
  <1>14. DOMAIN t.widgets = {}
    OBVIOUS
  <1>15. Unique(u)
    <2>1. \A i \in DOMAIN d.tabs : d.tabs[i].slug # t.slug
      BY DEF Slugs
    <2> QED
      BY <1>1, <1>12, <1>14, <2>1 DEF Unique
  <1>16. Slugs(d) \subseteq Slugs(e) /\ t.slug \in Slugs(e)
    <2>1. \A i \in DOMAIN d.tabs : i \in DOMAIN u /\ u[i] = d.tabs[i]
      <3>1. \A i \in 1 .. m : i \in 1 .. m + 1
        BY <1>8
      <3> QED
        BY <1>8, <1>9, <1>11, <3>1
    <2>2. m + 1 \in DOMAIN u /\ u[m + 1] = t
      BY <1>8, <1>9, <1>11
    <2> QED
      BY <1>5, <2>1, <2>2 DEF Slugs
  <1>17. NoRepeat(o) /\ ToSet(o) \subseteq Slugs(e)
    <2>1. \A i \in DOMAIN d.order : d.order[i] \in Slugs(d)
      BY <1>1 DEF ToSet
    <2>2. NoRepeat(o)
      BY <1>1, <1>13, <2>1 DEF NoRepeat
    <2>3. ToSet(o) \subseteq Slugs(e)
      BY <1>13, <1>16, <2>1 DEF ToSet
    <2> QED
      BY <2>2, <2>3
  <1>18. Structured(e)
    BY <1>5, <1>15, <1>17, StructuredParts
  <1>19. e \in Documents
    BY <1>1, <1>3, <1>4, <1>9, <1>10, DocumentShape
  <1> QED
    BY <1>2, <1>18, <1>19 DEF Sound

\* A tab gets another owner.
LEMMA OwnedSound ==
  ASSUME NEW d, Sound(d), NEW s \in Slugs(d), NEW owner \in Operators \cup {Shared, Nobody}
  PROVE  Sound([d EXCEPT !.tabs[TabOf(d, s)].owner = owner])
  <1>1. /\ d \in [tabs : Seq(BoardTabs), order : Seq(Names)] /\ d.tabs \in Seq(BoardTabs)
        /\ Unique(d.tabs) /\ NoRepeat(d.order) /\ ToSet(d.order) \subseteq Slugs(d)
    BY DocumentShape, StructuredParts DEF Sound
  <1>2. PICK n : n = TabOf(d, s)
    OBVIOUS
  <1>3. n \in DOMAIN d.tabs /\ d.tabs[n] \in BoardTabs
    BY <1>1, <1>2, TabFound
  <1>4. PICK t : t = [d.tabs[n] EXCEPT !.owner = owner]
    OBVIOUS
  <1>5. t \in BoardTabs /\ t.slug = d.tabs[n].slug /\ t.widgets = d.tabs[n].widgets
    BY <1>3, <1>4 DEF BoardTabs
  <1>6. PICK e : e = [d EXCEPT !.tabs = [d.tabs EXCEPT ![n] = t]]
    OBVIOUS
  <1>7. e.tabs = [d.tabs EXCEPT ![n] = t] /\ e.order = d.order
    BY <1>1, <1>6
  <1>8. DOMAIN e.tabs = DOMAIN d.tabs /\ \A i \in DOMAIN d.tabs :
          e.tabs[i].slug = d.tabs[i].slug /\ e.tabs[i].widgets = d.tabs[i].widgets
    BY <1>1, <1>3, <1>5, <1>7
  <1>9. Unique(e.tabs) /\ Slugs(e) = Slugs(d)
    BY SMTT(40), <1>1, <1>8 DEF Unique, Slugs
  <1>10. [d.tabs EXCEPT ![n] = t] \in Seq(BoardTabs)
    BY <1>1, <1>3, <1>5
  <1>11. e \in Documents
    BY <1>1, <1>6, <1>10, DocumentShape
  <1>12. Structured(e)
    BY <1>1, <1>7, <1>9, StructuredParts
  <1>13. e = [d EXCEPT !.tabs[TabOf(d, s)].owner = owner]
    BY <1>2, <1>4, <1>6
  <1> QED
    BY <1>11, <1>12, <1>13 DEF Sound

\* The tabs are given an order; those it omits follow.
LEMMA ReorderedSound ==
  ASSUME NEW d, Sound(d), NEW order \in Seq(Names), NoRepeat(order), ToSet(order) \subseteq Slugs(d)
  PROVE  Sound(Reordered(d, order))
  <1>1. /\ d \in Documents /\ d \in [tabs : Seq(BoardTabs), order : Seq(Names)]
        /\ Unique(d.tabs)
    BY DocumentShape, StructuredParts DEF Sound
  <1>2. PICK rest : rest = Outside(SlugSeq(d), ToSet(order))
    OBVIOUS
  <1>3. SlugSeq(d) \in Seq(Names) /\ NoRepeat(SlugSeq(d)) /\ ToSet(SlugSeq(d)) = Slugs(d)
    BY <1>1, SlugSeqProperties
  <1>4. rest \in Seq(Names) /\ NoRepeat(rest) /\ ToSet(rest) = Slugs(d) \ ToSet(order)
    BY <1>2, <1>3, WithinProperties
  <1>5. ToSet(order) \cap ToSet(rest) = {}
    BY <1>4
  <1>6. order \o rest \in Seq(Names) /\ NoRepeat(order \o rest)
        /\ ToSet(order \o rest) = ToSet(order) \cup ToSet(rest)
    BY <1>4, <1>5, JoinedNoRepeat
  <1>7. PICK e : e = [d EXCEPT !.order = order \o rest]
    OBVIOUS
  <1>8. e \in Documents /\ e.tabs = d.tabs /\ e.order = order \o rest
    BY <1>1, <1>6, <1>7, DocumentShape
  <1>9. Slugs(e) = Slugs(d)
    BY <1>8 DEF Slugs
  <1>10. Structured(e)
    BY <1>1, <1>4, <1>6, <1>8, <1>9, StructuredParts
  <1>11. e = Reordered(d, order)
    BY <1>2, <1>7 DEF Reordered
  <1> QED
    BY <1>8, <1>10, <1>11 DEF Sound

(***************************************************************************)
(* What is shown at once                                                   *)
(***************************************************************************)
\* The slugs an operator is served, and the places of their tabs.
Seen(d, o) == {s \in Slugs(d) : VisibleTo(Tab(d, s), o)}

Place(d, o) == Ascending(Kept(d, Seen(d, o)))

\* Two documents that differ in nothing but the widgets of their tabs.
Alike(d, e) ==
  /\ DOMAIN e.tabs = DOMAIN d.tabs /\ e.order = d.order
  /\ \A i \in DOMAIN d.tabs : e.tabs[i].slug = d.tabs[i].slug /\ e.tabs[i].owner = d.tabs[i].owner

\* Slugs find the same tabs in them.
LEMMA AlikeTabs ==
  ASSUME NEW d, Unique(d.tabs), NEW e, Alike(d, e)
  PROVE  /\ Slugs(e) = Slugs(d)
         /\ \A s \in Slugs(d) : /\ TabOf(e, s) = TabOf(d, s) /\ TabOf(d, s) \in DOMAIN d.tabs
                                /\ Tab(e, s) = e.tabs[TabOf(d, s)] /\ Tab(d, s) = d.tabs[TabOf(d, s)]
                                /\ d.tabs[TabOf(d, s)].slug = s
  <1>1. Slugs(e) = Slugs(d)
    BY DEF Alike, Slugs
  <1>2. ASSUME NEW s \in Slugs(d)
        PROVE  /\ TabOf(e, s) = TabOf(d, s) /\ TabOf(d, s) \in DOMAIN d.tabs
               /\ Tab(e, s) = e.tabs[TabOf(d, s)] /\ Tab(d, s) = d.tabs[TabOf(d, s)]
               /\ d.tabs[TabOf(d, s)].slug = s
    <2>1. TabOf(d, s) \in DOMAIN d.tabs /\ d.tabs[TabOf(d, s)].slug = s
      BY <1>2, TabFound
    <2>2. TabOf(e, s) \in DOMAIN e.tabs /\ e.tabs[TabOf(e, s)].slug = s
      BY <1>1, <1>2, TabFound
    <2>3. d.tabs[TabOf(e, s)].slug = s /\ TabOf(e, s) \in DOMAIN d.tabs
      BY <2>2 DEF Alike
    <2>4. TabOf(e, s) = TabOf(d, s)
      BY <2>1, <2>3 DEF Unique
    <2> QED
      BY <2>1, <2>4 DEF Tab
  <1> QED
    BY <1>1, <1>2

\* The tabs served are those of the document at the places.
LEMMA ServedPlaces ==
  ASSUME NEW d \in Documents, NEW o
  PROVE  \A k \in DOMAIN Served(d, o).tabs :
           /\ Place(d, o)[k] \in DOMAIN d.tabs
           /\ Served(d, o).tabs[k] = d.tabs[Place(d, o)[k]]
  <1>1. Served(d, o) = Keep(d, Seen(d, o))
    BY DEF Served, Seen
  <1>2. PICK slugs : slugs = Seen(d, o)
    OBVIOUS
  <1>3. PICK v, p : v = Keep(d, slugs) /\ p = Ascending(Kept(d, slugs))
    OBVIOUS
  <1>4. \A k \in DOMAIN v.tabs : p[k] \in DOMAIN d.tabs /\ v.tabs[k] = d.tabs[p[k]]
    BY <1>3, KeepParts
  <1> QED
    BY <1>1, <1>2, <1>3, <1>4 DEF Place

\* Of two documents alike the same tabs are served, in the same places.
LEMMA ServedAlike ==
  ASSUME NEW d \in Documents, Unique(d.tabs), NEW e, Alike(d, e), NEW o
  PROVE  Served(e, o) = [tabs  |-> [k \in DOMAIN Served(d, o).tabs |-> e.tabs[Place(d, o)[k]]],
                         order |-> Served(d, o).order]
  <1>1. Seen(e, o) = Seen(d, o)
    <2>1. \A s \in Slugs(d) : Tab(e, s).owner = Tab(d, s).owner
      BY AlikeTabs DEF Alike
    <2> QED
      BY <2>1, AlikeTabs DEF Seen, VisibleTo
  <1>2. PICK slugs : slugs = Seen(d, o)
    OBVIOUS
  <1>3. Kept(e, slugs) = Kept(d, slugs)
    BY DEF Kept, Alike
  <1>4. PICK I : I = Kept(d, slugs)
    OBVIOUS
  <1>5. Served(e, o) = [tabs |-> At(e.tabs, I), order |-> Within(d.order, slugs)]
    BY <1>1, <1>2, <1>3, <1>4 DEF Served, Seen, Keep, TabsOf, Kept, Alike
  <1>6. Served(d, o) = [tabs |-> At(d.tabs, I), order |-> Within(d.order, slugs)]
    BY <1>2, <1>4 DEF Served, Seen, Keep, TabsOf, Kept
  <1>7. Served(d, o).tabs = At(d.tabs, I) /\ Served(d, o).order = Within(d.order, slugs)
    BY <1>6
  <1>8. DOMAIN At(d.tabs, I) = 1 .. Cardinality(I)
    BY DEF At
  <1>9. At(e.tabs, I) = [k \in 1 .. Cardinality(I) |-> e.tabs[Place(d, o)[k]]]
    BY <1>2, <1>4 DEF At, Place
  <1> QED
    BY <1>5, <1>7, <1>8, <1>9

\* A prediction that shows the right tab in every place is what is served.
LEMMA PredictionRight ==
  ASSUME NEW d \in Documents, Unique(d.tabs), NEW e, Alike(d, e), NEW o, NEW q,
         DOMAIN q = DOMAIN Served(d, o).tabs, q = [k \in DOMAIN q |-> q[k]],
         \A k \in DOMAIN q : q[k] = e.tabs[Place(d, o)[k]]
  PROVE  [Served(d, o) EXCEPT !.tabs = q] = Served(e, o)
  <1>1. Served(d, o) = [tabs |-> Served(d, o).tabs, order |-> Served(d, o).order]
    BY DEF Served, Keep
  <1>2. PICK v : v = Served(d, o)
    OBVIOUS
  <1>3. [v EXCEPT !.tabs = q] = [tabs |-> q, order |-> v.order]
    <2>1. PICK t, r : v = [tabs |-> t, order |-> r]
      BY <1>1, <1>2
    <2> QED
      BY <2>1
  <1>4. q = [k \in DOMAIN v.tabs |-> e.tabs[Place(d, o)[k]]]
    BY <1>2
  <1>5. Served(e, o) = [tabs |-> q, order |-> v.order]
    BY <1>2, <1>4, ServedAlike
  <1> QED
    BY <1>2, <1>3, <1>5

\* The tabs q are those of v, but for the widgets of one.
Predicts(v, s, widgets, q) ==
  /\ DOMAIN q = DOMAIN v.tabs /\ q = [k \in DOMAIN q |-> q[k]]
  /\ \A k \in DOMAIN v.tabs :
       /\ v.tabs[k].slug # s => q[k] = v.tabs[k]
       /\ v.tabs[k].slug = s => q[k] = [v.tabs[k] EXCEPT !.widgets = widgets]

\* One tab's widgets are changed.
LEMMA PredictEdit ==
  ASSUME NEW d, Sound(d), NEW o, NEW s \in Slugs(Served(d, o)), NEW q, NEW widgets,
         Predicts(Served(d, o), s, widgets, q)
  PROVE  [Served(d, o) EXCEPT !.tabs = q] = Served(WithWidgets(d, s, widgets), o)
  <1>1. d \in Documents /\ Structured(d) /\ Unique(d.tabs)
    BY StructuredParts DEF Sound
  <1>2. s \in Slugs(d)
    BY <1>1, ServedSound
  <1>3. PICK n, e : n = TabOf(d, s) /\ e = WithWidgets(d, s, widgets)
    OBVIOUS
  <1>4. n \in DOMAIN d.tabs /\ d.tabs[n].slug = s /\ Edited(d, n, widgets, e)
    BY <1>1, <1>2, <1>3, EditParts
  <1>5. Alike(d, e)
    BY <1>4 DEF Alike, Edited
  <1>6. DOMAIN q = DOMAIN Served(d, o).tabs /\ q = [k \in DOMAIN q |-> q[k]]
    BY DEF Predicts
  <1>7. ASSUME NEW k \in DOMAIN q PROVE q[k] = e.tabs[Place(d, o)[k]]
    <2>1. PICK i : i = Place(d, o)[k]
      OBVIOUS
    <2>2. PICK t : t = Served(d, o).tabs[k]
      OBVIOUS
    <2>3. i \in DOMAIN d.tabs /\ t = d.tabs[i]
      BY <1>1, <1>6, <1>7, <2>1, <2>2, ServedPlaces
    <2>4. (t.slug # s => q[k] = t) /\ (t.slug = s => q[k] = [t EXCEPT !.widgets = widgets])
      BY <1>6, <1>7, <2>2 DEF Predicts
    <2>5. t.slug = s <=> i = n
      BY <1>1, <1>4, <2>3 DEF Unique
    <2>6. CASE i = n
      BY <1>4, <2>1, <2>3, <2>4, <2>5, <2>6 DEF Edited
    <2>7. CASE i # n
      BY <1>4, <2>1, <2>3, <2>4, <2>5, <2>7 DEF Edited
    <2> QED
      BY <2>6, <2>7
  <1>8. [Served(d, o) EXCEPT !.tabs = q] = Served(e, o)
    BY <1>1, <1>5, <1>6, <1>7, PredictionRight
  <1> QED
    BY <1>3, <1>8

\* A widget placed.
LEMMA PlacedPredicted ==
  ASSUME NEW d, Sound(d), NEW o, NEW s \in Slugs(Served(d, o)), NEW id, NEW grid
  PROVE  PredictPlaced(Served(d, o), s, id, grid) = Served(Placed(d, s, id, grid), o)
  <1>1. d \in Documents /\ Structured(d)
    BY DEF Sound
  <1>2. PICK v : v = Served(d, o)
    OBVIOUS
  <1>3. s \in Slugs(d) /\ Tab(v, s) = Tab(d, s) /\ Unique(v.tabs)
    BY <1>1, <1>2, ServedSound, StructuredParts
  <1>4. PICK old : old = Tab(d, s).widgets
    OBVIOUS
  <1>5. PICK new : new = [k \in DOMAIN old |-> IF old[k].id = id THEN [old[k] EXCEPT !.grid = grid]
                                               ELSE old[k]]
    OBVIOUS
  <1>6. Placed(d, s, id, grid) = WithWidgets(d, s, new)
    BY <1>4, <1>5 DEF Placed, Patched
  <1>7. PICK q : q = [i \in DOMAIN v.tabs |->
                        IF v.tabs[i].slug # s THEN v.tabs[i]
                        ELSE [v.tabs[i] EXCEPT !.widgets =
                          [k \in DOMAIN v.tabs[i].widgets |->
                             IF v.tabs[i].widgets[k].id = id
                             THEN [v.tabs[i].widgets[k] EXCEPT !.grid = grid]
                             ELSE v.tabs[i].widgets[k]]]]
    OBVIOUS
  <1>8. PredictPlaced(v, s, id, grid) = [v EXCEPT !.tabs = q]
    BY <1>7 DEF PredictPlaced, Patched
  <1>9. \A i \in DOMAIN v.tabs : v.tabs[i].slug = s => v.tabs[i].widgets = old
    BY <1>3, <1>4, TabFoundAt
  <1>10. DOMAIN q = DOMAIN v.tabs /\ q = [k \in DOMAIN q |-> q[k]]
    BY <1>7
  <1>11. ASSUME NEW i \in DOMAIN v.tabs, v.tabs[i].slug = s
         PROVE  q[i] = [v.tabs[i] EXCEPT !.widgets = new]
    <2>1. PICK t : t = v.tabs[i]
      OBVIOUS
    <2>2. q[i] = [t EXCEPT !.widgets = [k \in DOMAIN t.widgets |->
                                          IF t.widgets[k].id = id
                                          THEN [t.widgets[k] EXCEPT !.grid = grid]
                                          ELSE t.widgets[k]]]
      BY <1>7, <1>11, <2>1
    <2>3. t.widgets = old
      BY <1>9, <1>11, <2>1
    <2>4. q[i] = [t EXCEPT !.widgets = new]
      BY <1>5, <2>2, <2>3
    <2> QED
      BY <2>1, <2>4
  <1>12. \A i \in DOMAIN v.tabs : v.tabs[i].slug # s => q[i] = v.tabs[i]
    BY <1>7
  <1>13. [v EXCEPT !.tabs = q] = Served(WithWidgets(d, s, new), o)
    <2>1. Predicts(v, s, new, q)
      BY <1>10, <1>11, <1>12 DEF Predicts
    <2> QED
      BY <1>2, <2>1, PredictEdit
  <1> QED
    BY <1>2, <1>6, <1>8, <1>13

\* A widget removed.
LEMMA RemovedPredicted ==
  ASSUME NEW d, Sound(d), NEW o, NEW s \in Slugs(Served(d, o)), NEW id
  PROVE  PredictRemoved(Served(d, o), s, id) = Served(Removed(d, s, id), o)
  <1>1. d \in Documents /\ Structured(d)
    BY DEF Sound
  <1>2. PICK v : v = Served(d, o)
    OBVIOUS
  <1>3. s \in Slugs(d) /\ Tab(v, s) = Tab(d, s) /\ Unique(v.tabs)
    BY <1>1, <1>2, ServedSound, StructuredParts
  <1>4. PICK old, new : old = Tab(d, s).widgets /\ new = Without(old, id)
    OBVIOUS
  <1>5. Removed(d, s, id) = WithWidgets(d, s, new)
    BY <1>4 DEF Removed
  <1>6. PICK q : q = [i \in DOMAIN v.tabs |->
                        IF v.tabs[i].slug # s THEN v.tabs[i]
                        ELSE [v.tabs[i] EXCEPT !.widgets = Without(v.tabs[i].widgets, id)]]
    OBVIOUS
  <1>7. PredictRemoved(v, s, id) = [v EXCEPT !.tabs = q]
    BY <1>6 DEF PredictRemoved
  <1>8. \A i \in DOMAIN v.tabs : v.tabs[i].slug = s => v.tabs[i].widgets = old
    BY <1>3, <1>4, TabFoundAt
  <1>9. DOMAIN q = DOMAIN v.tabs /\ q = [k \in DOMAIN q |-> q[k]]
    BY <1>6
  <1>10. ASSUME NEW i \in DOMAIN v.tabs, v.tabs[i].slug = s
         PROVE  q[i] = [v.tabs[i] EXCEPT !.widgets = new]
    <2>1. q[i] = [v.tabs[i] EXCEPT !.widgets = Without(v.tabs[i].widgets, id)]
      BY <1>6, <1>10
    <2> QED
      BY <1>4, <1>8, <1>10, <2>1
  <1>11. \A i \in DOMAIN v.tabs : v.tabs[i].slug # s => q[i] = v.tabs[i]
    BY <1>6
  <1>12. [v EXCEPT !.tabs = q] = Served(WithWidgets(d, s, new), o)
    <2>1. Predicts(v, s, new, q)
      BY <1>9, <1>10, <1>11 DEF Predicts
    <2> QED
      BY <1>2, <2>1, PredictEdit
  <1> QED
    BY <1>2, <1>5, <1>7, <1>12

\* A widget moved to another tab.
LEMMA MovedPredicted ==
  ASSUME NEW d, Sound(d), NEW o, NEW s \in Slugs(Served(d, o)),
         NEW id \in IdsOf(Tab(Served(d, o), s)), NEW to \in Slugs(Served(d, o)) \ {s}
  PROVE  PredictMovedTo(Served(d, o), s, id, to) = Served(MovedTo(d, id, to), o)
  <1>1. d \in Documents /\ Structured(d) /\ Unique(d.tabs)
    BY StructuredParts DEF Sound
  <1>2. PICK v : v = Served(d, o)
    OBVIOUS
  <1>3. /\ s \in Slugs(d) /\ to \in Slugs(d) /\ to # s
        /\ Tab(v, s) = Tab(d, s) /\ Tab(v, to) = Tab(d, to) /\ Unique(v.tabs)
    BY <1>1, <1>2, ServedSound, StructuredParts
  <1>4. PICK m, n : m = TabOf(d, s) /\ n = TabOf(d, to)
    OBVIOUS
  <1>5. /\ m \in DOMAIN d.tabs /\ d.tabs[m].slug = s /\ Tab(d, s) = d.tabs[m]
        /\ n \in DOMAIN d.tabs /\ d.tabs[n].slug = to /\ Tab(d, to) = d.tabs[n]
    BY <1>3, <1>4, TabFound
  <1>6. id \in IdsOf(Tab(d, s))
    BY <1>2, <1>3
  <1>7. (CHOOSE x \in Slugs(d) : id \in IdsOf(Tab(d, x))) = s
    <2>1. \A x \in Slugs(d) : id \in IdsOf(Tab(d, x)) => x = s
      <3>1. SUFFICES ASSUME NEW x \in Slugs(d), id \in IdsOf(Tab(d, x)) PROVE x = s
        OBVIOUS
      <3>2. PICK i : i \in DOMAIN d.tabs /\ Tab(d, x) = d.tabs[i] /\ Tab(d, x).slug = x
        BY TabFound
      <3>3. i = m
        BY <1>1, <1>5, <1>6, <3>1, <3>2 DEF Unique, IdsOf
      <3> QED
        BY <1>5, <3>2, <3>3
    <2> QED
      BY <1>3, <1>6, <2>1
  <1>8. PICK w, a : w = WidgetOf(d.tabs[m], id) /\ a = Without(d.tabs[m].widgets, id)
    OBVIOUS
  <1>9. PICK cut : cut = WithWidgets(d, s, a)
    OBVIOUS
  <1>10. Sound(cut) /\ Slugs(cut) = Slugs(d)
    <2>1. cut = Removed(d, s, id)
      BY <1>5, <1>8, <1>9 DEF Removed
    <2> QED
      BY <1>3, <2>1, RemovedSound
  <1>11. Edited(d, m, a, cut) /\ Alike(d, cut)
    <2>1. Edited(d, m, a, cut)
      BY <1>1, <1>3, <1>4, <1>9, EditParts
    <2> QED
      BY <2>1 DEF Edited, Alike
  <1>12. n # m
    BY <1>3, <1>5
  <1>13. TabOf(cut, to) = n /\ Tab(cut, to) = cut.tabs[n]
    BY <1>1, <1>3, <1>4, <1>11, AlikeTabs
  <1>14. cut.tabs[n] = d.tabs[n]
    BY <1>5, <1>11, <1>12 DEF Edited
  <1>15. PICK b, e : b = Append(d.tabs[n].widgets, w) /\ e = WithWidgets(cut, to, b)
    OBVIOUS
  <1>16. MovedTo(d, id, to) = e
    BY <1>5, <1>7, <1>8, <1>9, <1>13, <1>14, <1>15 DEF MovedTo
  <1>17. Edited(cut, n, b, e)
    BY <1>3, <1>10, <1>13, <1>15, EditParts DEF Sound
  <1>18. DOMAIN cut.tabs = DOMAIN d.tabs
    BY <1>11 DEF Alike
  <1>19. Alike(d, e)
    BY <1>11, <1>17, <1>18 DEF Alike, Edited
  <1>20. /\ e.tabs[m] = [d.tabs[m] EXCEPT !.widgets = a]
         /\ e.tabs[n] = [d.tabs[n] EXCEPT !.widgets = b]
         /\ \A i \in DOMAIN d.tabs : i # m /\ i # n => e.tabs[i] = d.tabs[i]
    <2>1. e.tabs[m] = cut.tabs[m] /\ cut.tabs[m] = [d.tabs[m] EXCEPT !.widgets = a]
      BY <1>5, <1>11, <1>12, <1>17, <1>18 DEF Edited
    <2>2. e.tabs[n] = [cut.tabs[n] EXCEPT !.widgets = b]
      BY <1>17 DEF Edited
    <2>3. \A i \in DOMAIN d.tabs : i # m /\ i # n => e.tabs[i] = cut.tabs[i] /\ cut.tabs[i] = d.tabs[i]
      BY <1>11, <1>17, <1>18 DEF Edited
    <2> QED
      BY <1>14, <2>1, <2>2, <2>3
  <1>21. PICK q : q = [i \in DOMAIN v.tabs |->
     CASE v.tabs[i].slug = s  -> [v.tabs[i] EXCEPT !.widgets = Without(v.tabs[i].widgets, id)]
       [] v.tabs[i].slug = to -> [v.tabs[i] EXCEPT !.widgets = Append(v.tabs[i].widgets, w)]
       [] OTHER               -> v.tabs[i]]
    OBVIOUS
  <1>22. PredictMovedTo(v, s, id, to) = [v EXCEPT !.tabs = q]
    BY <1>3, <1>5, <1>8, <1>21 DEF PredictMovedTo
  <1>23. DOMAIN q = DOMAIN v.tabs /\ q = [k \in DOMAIN q |-> q[k]]
    BY <1>21
  <1>24. ASSUME NEW k \in DOMAIN q PROVE q[k] = e.tabs[Place(d, o)[k]]
    <2>1. PICK i, t : i = Place(d, o)[k] /\ t = v.tabs[k]
      OBVIOUS
    <2>2. i \in DOMAIN d.tabs /\ t = d.tabs[i]
      BY <1>1, <1>2, <1>23, <1>24, <2>1, ServedPlaces
    <2>3. q[k] = CASE t.slug = s  -> [t EXCEPT !.widgets = Without(t.widgets, id)]
                   [] t.slug = to -> [t EXCEPT !.widgets = Append(t.widgets, w)]
                   [] OTHER       -> t
      BY <1>21, <1>23, <1>24, <2>1
    <2>4. (t.slug = s <=> i = m) /\ (t.slug = to <=> i = n)
      BY <1>1, <1>5, <2>2 DEF Unique
    <2>5. CASE i = m
      <3>1. q[k] = [t EXCEPT !.widgets = Without(t.widgets, id)]
        BY <1>3, <2>3, <2>4, <2>5
      <3> QED
        BY <1>8, <1>20, <2>1, <2>2, <2>5, <3>1
    <2>6. CASE i = n
      <3>1. q[k] = [t EXCEPT !.widgets = Append(t.widgets, w)]
        BY <1>3, <2>3, <2>4, <2>6
      <3> QED
        BY ZenonT(60), <1>15, <1>20, <2>1, <2>2, <2>6, <3>1
    <2>7. CASE i # m /\ i # n
      <3>1. q[k] = t
        BY <2>3, <2>4, <2>7
      <3> QED
        BY <1>20, <2>1, <2>2, <2>7, <3>1
    <2> QED
      BY <2>5, <2>6, <2>7
  <1>25. [v EXCEPT !.tabs = q] = Served(e, o)
    BY <1>1, <1>2, <1>19, <1>23, <1>24, PredictionRight
  <1> QED
    BY <1>2, <1>16, <1>22, <1>25

(***************************************************************************)
(* Drops                                                                   *)
(***************************************************************************)
\* A nonempty set of numbers below some number has a greatest one.
LEMMA GreatestExists ==
  ASSUME NEW S, S \subseteq Nat, S # {}, NEW b \in Nat, \A n \in S : n <= b
  PROVE  Max(S) \in S /\ \A n \in S : Max(S) >= n
  <1> DEFINE gaps == {b - n : n \in S}
  <1>1. gaps \subseteq Nat /\ gaps # {}
    OBVIOUS
  <1>2. PICK g \in gaps : \A h \in gaps : g <= h
    <2> HIDE DEF gaps
    <2> QED
      BY <1>1, LeastExists
  <1>3. PICK n \in S : g = b - n
    BY <1>2
  <1>4. \A m \in S : n >= m
    <2>1. TAKE m \in S
    <2>2. b - m \in gaps
      OBVIOUS
    <2>3. b - n <= b - m
      BY <1>2, <1>3, <2>2
    <2> QED
      BY <2>3
  <1>5. \E x \in S : \A y \in S : x >= y
    BY <1>4
  <1> QED
    BY <1>5 DEF Max

\* The rectangles of a board's widgets.
Placements == {r \in Rects : ValidGrid(r)}

\* What is asked for is clamped into the columns.
LEMMA ClampedFits ==
  ASSUME NEW asked \in Rects
  PROVE  InColumns(ClampRect(asked))
  <1>1. /\ asked.x \in Int /\ asked.y \in Int /\ asked.w \in Int /\ asked.h \in Int
        /\ Columns \in Nat \ {0}
    BY ColumnsAssumption DEF Rects
  <1> DEFINE width == Clamp(asked.w, 1, Columns)
  <1>2. width \in 1 .. Columns
    BY <1>1 DEF Clamp
  <1>3. Clamp(asked.x, 0, Columns - width) \in 0 .. Columns - width
    <2> HIDE DEF width
    <2> QED
      BY <1>1, <1>2 DEF Clamp
  <1>4. AtLeast(asked.y, 0) \in Nat /\ AtLeast(asked.h, 1) \in Nat \ {0}
    BY <1>1 DEF AtLeast
  <1>5. ClampRect(asked) = [x |-> Clamp(asked.x, 0, Columns - width), y |-> AtLeast(asked.y, 0),
                            w |-> width, h |-> AtLeast(asked.h, 1)]
    BY DEF ClampRect, Rect
  <1> HIDE DEF width
  <1> QED
    BY <1>1, <1>2, <1>3, <1>4, <1>5 DEF InColumns

\* The last row scanned lies below the request and everything placed.
LEMMA LastRowBelow ==
  ASSUME NEW r, InColumns(r), NEW others, others \subseteq Placements
  PROVE  /\ LastRow(r, others) \in Nat /\ LastRow(r, others) >= r.y
         /\ \A o \in others : LastRow(r, others) >= o.y + o.h
  <1>1. r.y \in Nat /\ r.h \in Nat \ {0}
    BY DEF InColumns
  <1>2. \A o \in others : o.y \in Nat /\ o.h \in Nat /\ o.y <= MaxRow /\ o.h <= MaxHeight
    BY DEF Placements, ValidGrid, InColumns
  <1>3. MaxRow \in Nat /\ MaxHeight \in Nat
    BY BoardAssumption
  <1> DEFINE ends == {0} \cup {o.y + o.h : o \in others}
  <1>4. ends \subseteq Nat /\ ends # {} /\ \A n \in ends : n <= MaxRow + MaxHeight
    BY <1>2, <1>3
  <1>5. \A o \in others : o.y + o.h \in ends
    OBVIOUS
  <1>6. LastRow(r, others) = AtLeast(Max(ends), r.y) + r.h
    BY DEF LastRow
  <1> HIDE DEF ends
  <1>7. Max(ends) \in ends /\ \A n \in ends : Max(ends) >= n
    <2>1. MaxRow + MaxHeight \in Nat
      BY <1>3
    <2> QED
      BY <1>4, <2>1, GreatestExists
  <1> DEFINE bottom == Max(ends)
  <1>8. bottom \in Nat /\ \A o \in others : bottom >= o.y + o.h
    BY <1>4, <1>5, <1>7
  <1> HIDE DEF bottom
  <1>9. AtLeast(bottom, r.y) \in Nat /\ AtLeast(bottom, r.y) >= bottom
        /\ AtLeast(bottom, r.y) >= r.y
    BY <1>1, <1>8 DEF AtLeast
  <1> DEFINE start == AtLeast(bottom, r.y)
  <1>10. LastRow(r, others) = start + r.h
    BY <1>6 DEF bottom
  <1>11. start \in Nat /\ start >= bottom /\ start >= r.y
    BY <1>9
  <1> HIDE DEF start
  <1>12. \A o \in others : o.y + o.h \in Int
    BY <1>2
  <1> QED
    BY <1>1, <1>8, <1>10, <1>11, <1>12

\* There is always a free slot by the last row.
LEMMA LastRowFree ==
  ASSUME NEW r, InColumns(r), NEW others, others \subseteq Placements
  PROVE  Slots(r, others, LastRow(r, others)) # {}
  <1> DEFINE last == LastRow(r, others)
             slot == Rect(0, last, r.w, r.h)
  <1>1. last \in Nat /\ \A o \in others : last >= o.y + o.h
    BY LastRowBelow
  <1>2. r.w \in Nat /\ Columns - r.w \in Nat
    BY ColumnsAssumption DEF InColumns
  <1>3. slot.y = last
    BY DEF Rect
  <1> HIDE DEF last
  <1>4. \A o \in others : ~ RectsOverlap(slot, o)
    <2>1. TAKE o \in others
    <2>2. o.y + o.h \in Int
      BY DEF Placements, ValidGrid, InColumns
    <2>3. ~ (slot.y < o.y + o.h)
      BY <1>1, <1>3, <2>2
    <2> QED
      BY <2>3 DEF RectsOverlap
  <1>5. ~ Collides(slot, others)
    BY <1>4 DEF Collides
  <1>6. 0 \in 0 .. Columns - r.w /\ last \in 0 .. last
    BY <1>1, <1>2
  <1>7. slot \in Slots(r, others, last)
    BY <1>5, <1>6 DEF Slots
  <1> QED
    BY <1>7 DEF last

\* The scan stops at a row by which a slot was found.
LEMMA ScanFinds ==
  ASSUME NEW r, InColumns(r), NEW others, others \subseteq Placements
  PROVE  StopRow(r, others) \in Nat /\ Slots(r, others, StopRow(r, others)) # {}
  <1> DEFINE last == LastRow(r, others)
             Stops(row) == row < last => Slots(r, others, row) # {}
             rows == {row \in r.y .. last : Stops(row)}
  <1>1. r.y \in Nat /\ last \in Nat /\ last >= r.y
    BY LastRowBelow DEF InColumns
  <1>2. rows \subseteq Nat /\ rows # {}
    <2>1. last \in rows
      <3> HIDE DEF last
      <3> QED
        BY <1>1
    <2> QED
      BY <1>1, <2>1
  <1>3. PICK row \in rows : \A m \in rows : row <= m
    <2> HIDE DEF rows
    <2> QED
      BY <1>2, LeastExists
  <1>4. \A y \in r.y .. row - 1 : Slots(r, others, y) = {}
    <2>1. TAKE y \in r.y .. row - 1
    <2>2. y \notin rows /\ y \in r.y .. last
      BY <1>1, <1>3
    <2> QED
      BY <2>2
  <1>5. row \in r.y .. last /\ (row < last => Slots(r, others, row) # {})
    BY <1>3
  <1>6. \E n \in r.y .. last :
          /\ n < last => Slots(r, others, n) # {}
          /\ \A y \in r.y .. n - 1 : Slots(r, others, y) = {}
    BY <1>4, <1>5
  <1>7. /\ StopRow(r, others) \in r.y .. last
        /\ StopRow(r, others) < last => Slots(r, others, StopRow(r, others)) # {}
    BY <1>6 DEF StopRow
  <1> DEFINE stop == StopRow(r, others)
  <1>8. stop \in Nat /\ (stop < last \/ stop = last)
    <2> HIDE DEF last, stop
    <2>1. stop \in r.y .. last
      BY <1>7 DEF last, stop
    <2> QED
      BY <1>1, <2>1
  <1>9. Slots(r, others, last) # {}
    BY LastRowFree
  <1> QED
    BY <1>7, <1>8, <1>9

\* Of some rectangles one is preferred to all.
LEMMA BestExists ==
  ASSUME NEW r, InColumns(r), NEW found, found # {},
         \A s \in found : s.x \in Nat /\ s.y \in Nat
  PROVE  \E s \in found : \A t \in found : Before(r, s, t)
  <1>1. r.x \in Nat /\ r.y \in Nat
    BY DEF InColumns
  <1>2. \A s \in found : Distance(s, r) \in Nat
    <2>1. TAKE s \in found
    <2>2. s.x \in Nat /\ s.y \in Nat
      OBVIOUS
    <2> QED
      BY <1>1, <2>2 DEF Distance
  <1> DEFINE gaps == {Distance(s, r) : s \in found}
  <1>3. PICK gap \in gaps : \A n \in gaps : gap <= n
    <2>1. gaps \subseteq Nat /\ gaps # {}
      BY <1>2
    <2> HIDE DEF gaps
    <2> QED
      BY <2>1, LeastExists
  <1> DEFINE near == {s \in found : Distance(s, r) = gap}
             heights == {s.y : s \in near}
  <1>4. PICK top \in heights : \A n \in heights : top <= n
    <2>1. heights \subseteq Nat /\ heights # {}
      BY <1>3
    <2> HIDE DEF heights
    <2> QED
      BY <2>1, LeastExists
  <1> DEFINE high == {s \in near : s.y = top}
             lefts == {s.x : s \in high}
  <1>5. PICK left \in lefts : \A n \in lefts : left <= n
    <2>1. lefts \subseteq Nat /\ lefts # {}
      BY <1>4
    <2> HIDE DEF lefts
    <2> QED
      BY <2>1, LeastExists
  <1>6. PICK s \in high : s.x = left
    BY <1>5
  <1>7. s \in found /\ Distance(s, r) = gap /\ s.y = top
    BY <1>6
  <1>8. \A t \in found : Before(r, s, t)
    <2>1. TAKE t \in found
    <2>2. Distance(t, r) \in Nat /\ gap \in Nat /\ t.x \in Nat /\ t.y \in Nat
          /\ s.x \in Nat /\ s.y \in Nat
      BY <1>2, <1>7
    <2>3. gap <= Distance(t, r)
      BY <1>3
    <2>4. CASE gap < Distance(t, r)
      BY <1>7, <2>4 DEF Before
    <2>5. CASE gap = Distance(t, r)
      <3>1. t \in near
        BY <2>5
      <3>2. top <= t.y
        BY <1>4, <3>1
      <3>3. CASE top < t.y
        BY <1>7, <2>5, <3>3 DEF Before
      <3>4. CASE top = t.y
        <4>1. t \in high
          BY <3>1, <3>4
        <4>2. s.x <= t.x
          BY <1>5, <1>6, <4>1
        <4> QED
          BY <1>7, <2>5, <3>4, <4>2 DEF Before
      <3> QED
        BY <1>7, <2>2, <3>2, <3>3, <3>4
    <2> QED
      BY <2>2, <2>3, <2>4, <2>5
  <1> QED
    BY <1>7, <1>8

\* A free slot fits.
LEMMA SlotsFit ==
  ASSUME NEW r, InColumns(r), NEW others, NEW row \in Nat, NEW s \in Slots(r, others, row)
  PROVE  s.x \in Nat /\ s.y \in Nat /\ InColumns(s) /\ ~ Collides(s, others)
  <1>1. PICK x \in 0 .. Columns - r.w, y \in 0 .. row : s = Rect(x, y, r.w, r.h)
    BY DEF Slots
  <1>2. ~ Collides(s, others)
    BY DEF Slots
  <1>3. r.w \in Nat \ {0} /\ r.h \in Nat \ {0} /\ Columns \in Nat
    BY ColumnsAssumption DEF InColumns
  <1>4. x \in Nat /\ y \in Nat /\ x + r.w <= Columns
    BY <1>1, <1>3
  <1>5. s = [x |-> x, y |-> y, w |-> r.w, h |-> r.h]
    BY <1>1 DEF Rect
  <1> QED
    BY <1>2, <1>3, <1>4, <1>5 DEF InColumns

\* A drop lands inside the columns and on no other widget.
LEMMA DropLands ==
  ASSUME NEW asked \in Rects, NEW others, others \subseteq Placements
  PROVE  /\ InColumns(ResolveDrop(asked, others))
         /\ ~ Collides(ResolveDrop(asked, others), others)
  <1> DEFINE r == ClampRect(asked)
             found == Slots(r, others, StopRow(r, others))
  <1>1. InColumns(r)
    BY ClampedFits
  <1>2. CASE ~ Collides(r, others)
    BY <1>1, <1>2 DEF ResolveDrop
  <1>3. CASE Collides(r, others)
    <2>1. ResolveDrop(asked, others) = NearestFreeSlot(r, others)
      BY <1>3 DEF ResolveDrop
    <2> HIDE DEF r
    <2>2. found # {} /\ StopRow(r, others) \in Nat
      BY <1>1, ScanFinds
    <2>3. \A s \in found : s.x \in Nat /\ s.y \in Nat /\ InColumns(s) /\ ~ Collides(s, others)
      BY <1>1, <2>2, SlotsFit
    <2>4. NearestFreeSlot(r, others) = CHOOSE s \in found : \A t \in found : Before(r, s, t)
      BY DEF NearestFreeSlot
    <2> HIDE DEF found
    <2>5. \E s \in found : \A t \in found : Before(r, s, t)
      BY <1>1, <2>2, <2>3, BestExists
    <2>6. NearestFreeSlot(r, others) \in found
      BY <2>4, <2>5
    <2> QED
      BY <2>1, <2>3, <2>6
  <1> QED
    BY <1>2, <1>3

(***************************************************************************)
(* The invariant                                                           *)
(***************************************************************************)
\* The stored document and the downloaded file are valid, no handler has made a
\* draft that is not, and a gesture holds rectangles of the board.
BoardInv ==
  /\ doc \in Documents /\ Valid(doc)
  /\ late = FALSE /\ writes \in 0 .. MaxWrites
  /\ file # NoFile => file \in Documents /\ Valid(file)
  /\ drag # NoDrag => drag.id \in WIds /\ drag.others \subseteq Placements

\* A draft of a handler is kept or thrown away.
LEMMA WriteKeepsInv ==
  ASSUME NEW draft, Sound(draft), BoardInv, Write(draft)
  PROVE  doc' \in Documents /\ Valid(doc') /\ late' = FALSE /\ writes' \in 0 .. MaxWrites
  <1>1. MaxWrites \in Nat
    BY BoardAssumption
  <1>2. doc' \in Documents /\ Valid(doc')
    BY DEF Sound, BoardInv, Write
  <1>3. late' = FALSE
    BY DEF Sound, BoardInv, Write
  <1>4. writes' \in 0 .. MaxWrites
    BY <1>1 DEF BoardInv, Write
  <1> QED
    BY <1>2, <1>3, <1>4

\* A request that touches neither file nor gesture keeps the invariant.
LEMMA QuietWrite ==
  ASSUME NEW draft, Sound(draft), BoardInv, Write(draft), Quiet
  PROVE  BoardInv'
  <1>1. doc' \in Documents /\ Valid(doc') /\ late' = FALSE /\ writes' \in 0 .. MaxWrites
    BY WriteKeepsInv
  <1>2. file' = file /\ drag' = drag
    BY DEF Quiet
  <1> QED
    BY <1>1, <1>2 DEF BoardInv

\* The stored document is sound.
LEMMA DocSound ==
  ASSUME BoardInv
  PROVE  Sound(doc)
  BY DEF BoardInv, Sound, Valid

\* The tab requests.
LEMMA TabRequestKeepsInv ==
  ASSUME BoardInv, TabRequest
  PROVE  BoardInv'
  <1>1. Sound(doc)
    BY DocSound
  <1>2. ASSUME NEW o \in Operators \cup {Nobody}, NEW asked \in Names \cup {Unnamed},
               NEW owner \in {Shared, o}, TabCreate(o, asked, owner)
        PROVE  BoardInv'
    <2>1. PICK slug : slug = Name(asked, TabNames, Slugs(doc))
      OBVIOUS
    <2>2. PICK t : t = [slug |-> slug, owner |-> owner, widgets |-> <<>>]
      OBVIOUS
    <2>3. slug \notin Slugs(doc) /\ slug # Unnamed /\ Write(WithTab(doc, t)) /\ Quiet
      BY <1>2, <2>1, <2>2 DEF TabCreate
    <2>4. slug \in Names
      <3>1. TabNames \in Seq(Names)
        BY BoardAssumption
      <3> QED
        BY <2>1, <2>3, <3>1, NameTyped
    <2>5. <<>> \in Seq(BoardWidgets)
      OBVIOUS
    <2>6. t \in BoardTabs /\ t.slug \notin Slugs(doc) /\ t.widgets = <<>>
      BY <1>2, <2>2, <2>3, <2>4, <2>5 DEF BoardTabs
    <2>7. Sound(WithTab(doc, t))
      BY <1>1, <2>6, WithTabSound
    <2> QED
      BY <2>3, <2>7, QuietWrite
  <1>3. ASSUME NEW o \in Operators \cup {Nobody}, NEW s \in Names,
               NEW owner \in {Shared, o}, TabUpdate(o, s, owner)
        PROVE  BoardInv'
    <2>1. /\ s \in Slugs(doc) /\ owner \in Operators \cup {Shared, Nobody}
          /\ Write([doc EXCEPT !.tabs[TabOf(doc, s)].owner = owner]) /\ Quiet
      BY <1>3 DEF TabUpdate
    <2>2. Sound([doc EXCEPT !.tabs[TabOf(doc, s)].owner = owner])
      BY <1>1, <2>1, OwnedSound
    <2> QED
      BY <2>1, <2>2, QuietWrite
  <1>4. ASSUME NEW s \in Names, TabDelete(s) PROVE BoardInv'
    <2>1. Write(WithoutTab(doc, s)) /\ Quiet
      BY <1>4 DEF TabDelete
    <2>2. WithoutTab(doc, s) = Keep(doc, Slugs(doc) \ {s})
      BY <1>1, WithoutTabKeeps DEF Sound
    <2>3. Sound(WithoutTab(doc, s))
      BY <1>1, <2>2, KeepSound DEF Sound
    <2> QED
      BY <2>1, <2>3, QuietWrite
  <1>5. ASSUME NEW S \in SUBSET Names, NEW order \in SetToSeqs(S), TabReorder(order)
        PROVE  BoardInv'
    <2>1. NoRepeat(order) /\ ToSet(order) \subseteq Slugs(doc) /\ Write(Reordered(doc, order)) /\ Quiet
      BY <1>5 DEF TabReorder
    <2>2. order \in Seq(Names)
      <3>1. Cardinality(S) \in Nat
        <4>1. TabNames \in Seq(Names)
          BY BoardAssumption
        <4>2. PICK n : n = Len(TabNames)
          OBVIOUS
        <4>3. n \in Nat /\ DOMAIN TabNames = 1 .. n
          BY <4>1, <4>2, LenProperties
        <4>4. IsFiniteSet(1 .. n)
          BY <4>3, FS_Interval
        <4>5. PICK f : f = [i \in 1 .. n |-> TabNames[i]]
          OBVIOUS
        <4>6. f \in Surjection(1 .. n, Names)
          BY <4>3, <4>5 DEF Surjection, Names, ToSet
        <4>7. IsFiniteSet(Names)
          BY <4>4, <4>6, FS_Surjection
        <4> QED
          BY <4>7, FS_Subset, FS_CardinalityType
      <3>2. order \in [1 .. Cardinality(S) -> S]
        BY DEF SetToSeqs
      <3> QED
        BY <3>1, <3>2
    <2>3. Sound(Reordered(doc, order))
      BY <1>1, <2>1, <2>2, ReorderedSound
    <2> QED
      BY <2>1, <2>3, QuietWrite
  <1> QED
    BY <1>2, <1>3, <1>4, <1>5 DEF TabRequest

\* The widget requests.
LEMMA WidgetRequestKeepsInv ==
  ASSUME BoardInv, WidgetRequest
  PROVE  BoardInv'
  <1>1. Sound(doc)
    BY DocSound
  <1>2. Grids \subseteq Rects
    BY BoardAssumption
  <1>3. ASSUME NEW s \in Names, NEW asked \in WIds \cup {Unnamed}, NEW grid \in Grids,
               WidgetAdd(s, asked, grid)
        PROVE  BoardInv'
    <2>1. PICK id : id = Name(asked, WidgetIds, Ids(doc))
      OBVIOUS
    <2>2. PICK w : w = [id |-> id, grid |-> grid, hidden |-> FALSE]
      OBVIOUS
    <2>3. /\ s \in Slugs(doc) /\ id \notin Ids(doc) /\ id # Unnamed
          /\ Write(WithWidgets(doc, s, Append(Tab(doc, s).widgets, w))) /\ Quiet
      BY <1>3, <2>1, <2>2 DEF WidgetAdd
    <2>4. id \in WIds
      <3>1. WidgetIds \in Seq(WIds)
        BY BoardAssumption
      <3> QED
        BY <2>1, <2>3, <3>1, NameTyped
    <2>5. w \in BoardWidgets /\ w.id \notin Ids(doc)
      BY <1>2, <2>2, <2>3, <2>4 DEF BoardWidgets
    <2>6. Sound(WithWidgets(doc, s, Append(Tab(doc, s).widgets, w)))
      BY <1>1, <2>3, <2>5, AddedSound
    <2> QED
      BY <2>3, <2>6, QuietWrite
  <1>4. ASSUME NEW s \in Names, NEW id \in WIds, NEW grid \in Grids, WidgetMove(s, id, grid)
        PROVE  BoardInv'
    <2>1. s \in Slugs(doc) /\ Write(Placed(doc, s, id, grid)) /\ Quiet
      BY <1>4 DEF WidgetMove, Has
    <2>2. Sound(Placed(doc, s, id, grid))
      BY <1>1, <1>2, <2>1, PlacedSound
    <2> QED
      BY <2>1, <2>2, QuietWrite
  <1>5. ASSUME NEW s \in Names, NEW id \in WIds, WidgetHide(s, id) PROVE BoardInv'
    <2>1. s \in Slugs(doc) /\ Write(Hidden(doc, s, id)) /\ Quiet
      BY <1>5 DEF WidgetHide, Has
    <2>2. Sound(Hidden(doc, s, id))
      BY <1>1, <2>1, HiddenSound
    <2> QED
      BY <2>1, <2>2, QuietWrite
  <1>6. ASSUME NEW s \in Names, NEW id \in WIds, WidgetMoveTo(id, s) PROVE BoardInv'
    <2>1. s \in Slugs(doc) /\ id \in Ids(doc) /\ Write(MovedTo(doc, id, s)) /\ Quiet
      BY <1>6 DEF WidgetMoveTo
    <2>2. Sound(MovedTo(doc, id, s))
      BY <1>1, <2>1, MovedToSound
    <2> QED
      BY <2>1, <2>2, QuietWrite
  <1>7. ASSUME NEW s \in Names, NEW id \in WIds, WidgetRemove(s, id) PROVE BoardInv'
    <2>1. s \in Slugs(doc) /\ Write(Removed(doc, s, id)) /\ Quiet
      BY <1>7 DEF WidgetRemove, Has
    <2>2. Sound(Removed(doc, s, id))
      BY <1>1, <2>1, RemovedSound
    <2> QED
      BY <2>1, <2>2, QuietWrite
  <1>8. ASSUME NEW s \in Names, NEW S \in SUBSET WIds, NEW layout \in [S -> Grids],
               WidgetSetLayout(s, layout)
        PROVE  BoardInv'
    <2>1. PICK draft : draft = WithWidgets(doc, s,
            [k \in DOMAIN Tab(doc, s).widgets |->
               LET w == Tab(doc, s).widgets[k]
               IN  IF w.id \in DOMAIN layout THEN [w EXCEPT !.grid = layout[w.id]] ELSE w])
      OBVIOUS
    <2>2. s \in Slugs(doc) /\ Write(draft) /\ Quiet
      BY <1>8, <2>1 DEF WidgetSetLayout
    <2>3. \A id \in DOMAIN layout : layout[id] \in Rects
      BY <1>2
    <2>4. Sound(draft)
      BY <1>1, <2>1, <2>2, <2>3, LayoutSound
    <2> QED
      BY <2>2, <2>4, QuietWrite
  <1> QED
    BY <1>3, <1>4, <1>5, <1>6, <1>7, <1>8 DEF WidgetRequest

\* Whole documents.
LEMMA WholeDocumentKeepsInv ==
  ASSUME BoardInv, WholeDocument
  PROVE  BoardInv'
  <1>1. ASSUME NEW d \in AgentDocs, AgentReplace(d) PROVE BoardInv'
    <2>1. Valid(d) /\ Write(d) /\ Quiet
      BY <1>1 DEF AgentReplace
    <2>2. Sound(d)
      BY <2>1, BoardAssumption DEF Sound, Valid
    <2> QED
      BY <2>1, <2>2, QuietWrite
  <1>2. ASSUME NEW o \in Operators, NEW chosen, Export(o, chosen) PROVE BoardInv'
    <2>1. Sound(doc) /\ Valid(doc)
      BY DocSound DEF BoardInv
    <2>2. PICK v : v = Served(doc, o)
      OBVIOUS
    <2>3. v \in Documents /\ Structured(v) /\ Valid(v)
      BY <2>1, <2>2, ServedSound DEF Sound
    <2>4. Keep(v, chosen) \in Documents /\ Valid(Keep(v, chosen))
      BY <2>3, KeepSound
    <2>5. Exported(v, chosen) \in Documents /\ Valid(Exported(v, chosen))
      BY <2>3, <2>4 DEF Exported
    <2>6. file' = Exported(v, chosen) /\ UNCHANGED <<doc, drag, late, writes>>
      BY <1>2, <2>2 DEF Export
    <2> QED
      BY <2>5, <2>6 DEF BoardInv
  <1>3. ASSUME Import PROVE BoardInv'
    <2>1. file # NoFile /\ Valid(file) /\ Write(file) /\ Quiet
      BY <1>3 DEF Import
    <2>2. Sound(file)
      BY <2>1 DEF BoardInv, Sound, Valid
    <2> QED
      BY <2>1, <2>2, QuietWrite
  <1> QED
    BY <1>1, <1>2, <1>3 DEF WholeDocument

\* Gestures.
LEMMA GestureKeepsInv ==
  ASSUME BoardInv, Gesture
  PROVE  BoardInv'
  <1>1. Sound(doc)
    BY DocSound
  <1>2. ASSUME NEW o \in Operators, NEW s \in Names, NEW id \in WIds, Grab(o, s, id) PROVE BoardInv'
    <2>1. PICK v : v = Served(doc, o)
      OBVIOUS
    <2>2. v \in Documents /\ Valid(v)
      BY <1>1, <2>1, ServedSound DEF BoardInv, Sound
    <2>3. s \in Slugs(v)
      BY <1>2, <2>1 DEF Grab, Has
    <2>4. PICK n \in DOMAIN v.tabs : Tab(v, s) = v.tabs[n]
      BY <2>3, TabFound
    <2>5. \A k \in DOMAIN v.tabs[n].widgets : v.tabs[n].widgets[k].grid \in Placements
      <3>1. TAKE k \in DOMAIN v.tabs[n].widgets
      <3>2. v.tabs[n].widgets \in Seq(BoardWidgets)
        BY <2>2, TabShape
      <3>3. v.tabs[n].widgets[k] \in BoardWidgets
        BY <3>2
      <3>4. ValidTab(v.tabs[n])
        BY <2>2 DEF Valid
      <3>5. ValidGrid(v.tabs[n].widgets[k].grid)
        BY <3>4 DEF ValidTab, ValidWidget
      <3> QED
        BY <3>3, <3>5 DEF BoardWidgets, Placements
    <2>6. Others(v.tabs[n], id) \subseteq Placements
      BY <2>5 DEF Others
    <2>7. drag'.id = id /\ drag'.others = Others(v.tabs[n], id) /\ UNCHANGED <<doc, file, late, writes>>
      BY <1>2, <2>1, <2>4 DEF Grab
    <2> QED
      BY <2>6, <2>7 DEF BoardInv
  <1>3. ASSUME Release PROVE BoardInv'
    BY <1>3 DEF Release, BoardInv
  <1>4. ASSUME NEW asked \in Asked, Drop(asked) PROVE BoardInv'
    <2>1. PICK to : to = ResolveDrop(asked, drag.others)
      OBVIOUS
    <2>2. /\ drag # NoDrag /\ drag.slug \in Slugs(doc)
          /\ Write(Placed(doc, drag.slug, drag.id, to)) /\ drag' = NoDrag /\ file' = file
      BY <1>4, <2>1 DEF Drop, Has
    <2>3. asked \in Rects
      BY BoardAssumption
    <2>4. InColumns(to)
      BY <2>1, <2>2, <2>3, DropLands DEF BoardInv
    <2>5. to \in Rects
      BY <2>4 DEF InColumns, Rects
    <2>6. Sound(Placed(doc, drag.slug, drag.id, to))
      BY <1>1, <2>2, <2>5, PlacedSound
    <2>7. doc' \in Documents /\ Valid(doc') /\ late' = FALSE /\ writes' \in 0 .. MaxWrites
      BY <2>2, <2>6, WriteKeepsInv
    <2> QED
      BY <2>2, <2>7 DEF BoardInv
  <1> QED
    BY <1>2, <1>3, <1>4 DEF Gesture

\* Stored documents and downloaded files stay valid, whatever is requested.
THEOREM BoardInvariant == BoardSpec => []BoardInv
  <1>1. BoardInit => BoardInv
    BY BoardAssumption DEF BoardInit, BoardInv
  <1>2. BoardInv /\ [BoardNext]_boardVars => BoardInv'
    <2>1. SUFFICES ASSUME BoardInv, [BoardNext]_boardVars PROVE BoardInv'
      OBVIOUS
    <2>2. CASE UNCHANGED boardVars
      BY <2>1, <2>2 DEF boardVars, BoardInv
    <2> QED
      BY <2>1, <2>2, TabRequestKeepsInv, WidgetRequestKeepsInv, WholeDocumentKeepsInv, GestureKeepsInv
      DEF BoardNext
  <1> QED
    BY <1>1, <1>2, PTL DEF BoardSpec

\* The document is valid and the other variables have their types.
THEOREM BoardTypes == BoardSpec => []BoardTypeOK
  <1>1. BoardInv => BoardTypeOK
    BY DEF BoardInv, BoardTypeOK, Placements
  <1> QED
    BY <1>1, BoardInvariant, PTL

\* A request that passes its handler's checks never makes a broken document, a
\* downloaded file can be imported again, and a tab strip shows every tab its
\* operator is served, each once (rpc.ts, tools.ts, visibility.ts, queries.ts).
THEOREM BoardStaysSound == BoardSpec => []BoardsSound
  <1>1. BoardInv => BoardsSound
    <2>1. SUFFICES ASSUME BoardInv PROVE BoardsSound
      OBVIOUS
    <2>2. StaysWellFormed
      BY <2>1 DEF BoardInv, StaysWellFormed, HandlersKeepStructure, ExportsValid
    <2>3. ASSUME NEW o \in Operators
          PROVE  /\ NoRepeat(OrderedTabs(Served(doc, o)))
                 /\ ToSet(OrderedTabs(Served(doc, o))) = Slugs(Served(doc, o))
      <3>1. Served(doc, o) \in Documents /\ Structured(Served(doc, o))
        BY <2>1, DocSound, ServedSound DEF Sound
      <3> QED
        BY <3>1, StripShowsAll
    <2>4. EveryTabShown
      BY <2>3 DEF EveryTabShown
    <2> QED
      BY <2>2, <2>4 DEF BoardsSound
  <1> QED
    BY <1>1, BoardInvariant, PTL

\* What an operator's browser shows at once when it places, removes or moves a
\* widget is what the operator is served after the write (host/src/store.ts).
THEOREM PredictionsAgree == BoardSpec => []OptimisticAgrees
  <1>1. BoardInv => OptimisticAgrees
    <2>1. SUFFICES ASSUME BoardInv, NEW o \in Operators, NEW s \in Slugs(Served(doc, o)),
                          NEW id \in IdsOf(Tab(Served(doc, o), s))
                   PROVE  /\ \A g \in Grids : Agrees(o, PredictPlaced(Served(doc, o), s, id, g),
                                                     Placed(doc, s, id, g))
                          /\ Agrees(o, PredictRemoved(Served(doc, o), s, id), Removed(doc, s, id))
                          /\ \A to \in Slugs(Served(doc, o)) \ {s} :
                               Agrees(o, PredictMovedTo(Served(doc, o), s, id, to), MovedTo(doc, id, to))
      BY DEF OptimisticAgrees
    <2>2. Sound(doc)
      BY <2>1, DocSound
    <2>3. \A p, e : p = Served(e, o) => Agrees(o, p, e)
      BY DEF Agrees
    <2>4. \A g \in Grids : Agrees(o, PredictPlaced(Served(doc, o), s, id, g), Placed(doc, s, id, g))
      BY <2>2, <2>3, PlacedPredicted
    <2>5. Agrees(o, PredictRemoved(Served(doc, o), s, id), Removed(doc, s, id))
      BY <2>2, <2>3, RemovedPredicted
    <2>6. \A to \in Slugs(Served(doc, o)) \ {s} :
            Agrees(o, PredictMovedTo(Served(doc, o), s, id, to), MovedTo(doc, id, to))
      BY <2>2, <2>3, MovedPredicted
    <2> QED
      BY <2>4, <2>5, <2>6
  <1> QED
    BY <1>1, BoardInvariant, PTL

\* A gesture's widget lands inside the columns and on no other widget of the tab
\* as it was when the gesture began (grid.ts).
THEOREM DropsAlwaysFit == BoardSpec => []DropsFit
  <1>1. BoardInv => DropsFit
    <2>1. SUFFICES ASSUME BoardInv, drag # NoDrag, NEW asked \in Asked
                   PROVE  /\ InColumns(ResolveDrop(asked, drag.others))
                          /\ ~ Collides(ResolveDrop(asked, drag.others), drag.others)
      BY DEF DropsFit
    <2>2. asked \in Rects /\ drag.others \subseteq Placements
      BY <2>1, BoardAssumption DEF BoardInv
    <2> QED
      BY <2>2, DropLands
  <1> QED
    BY <1>1, BoardInvariant, PTL
=============================================================================
