--------------------------- MODULE PendingActions ---------------------------
(***************************************************************************)
(* The pending-action engine of the server (createBrokerActions): every    *)
(* call of an external tool passes a gate over the operator's grant, a     *)
(* mutating call is parked until an operator confirms it, and a confirmed  *)
(* action passes the gate again and executes once.                         *)
(*                                                                         *)
(* The gate awaits twice (store.read, then listTools), so grants change,   *)
(* manifests drift, timers fire and other calls run between its steps.     *)
(* Actions, waiters and the manifest cache live in memory and are lost by  *)
(* a restart; the grant is in the workspace document, read and written     *)
(* here in one step each (module Store models how).                        *)
(*                                                                         *)
(* One configured connector.  A manifest is its version number, which      *)
(* stands for the hash of any of its tools: a drift changes them all and   *)
(* never brings an old shape back.  A grant with no agents scope has every *)
(* actor in scope, Anonymous included, the caller without a bound identity.*)
(***************************************************************************)
EXTENDS Naturals

CONSTANTS Calls,     \* concurrent read, invoke and confirm requests
          Actions,   \* ids an action may be parked under
          Waiters,   \* agent tool calls blocked in confirmAndExecute
          Tools,     \* the connector's tools
          ReadOnly,  \* those that declare readOnly
          Actors,    \* agents with a server-bound identity, and Anonymous
          Anonymous,
          Approvals, \* what the operator may approve
          MaxDrift,  \* bound: how often the manifest changes
          NoAction, NoTool, NoManifest

Grant == [status : {"requested", "granted", "revoked"}, tools : SUBSET Tools,
          auto : SUBSET Tools, scope : SUBSET Actors, hash : Nat]

\* A whole approval has no tools parameter: it grants all that was requested.
Approval == [whole : BOOLEAN, tools : SUBSET Tools, auto : SUBSET Tools,
             scope : SUBSET Actors]

ASSUME ToolsAssumption == ReadOnly \subseteq Tools /\ Anonymous \in Actors
ASSUME NoneAssumption == /\ NoAction \notin Actions
                         /\ NoTool \notin Tools
                         /\ NoManifest \notin Nat
ASSUME ApprovalsAssumption == Approvals \subseteq Approval /\ MaxDrift \in Nat

VARIABLES grant,    \* the connector's entry in capabilitiesRegistry
          live,     \* the manifest the connector serves now
          cached,   \* cachedManifest: the last one the engine listed
          status,   \* per action: where it is in its lifecycle
          request,  \* per action: what was parked, for whom
          executed, \* per action: how often its tool was called
          audited,  \* per action: settled audit entries
          call,     \* per call: what was asked and the await it is in
          awaited,  \* per waiter: the action it awaits
          outcome,  \* per waiter: how its wait ended
          authorised  \* history, per call: what grant and manifest together
                      \* permitted at some instant since it began

actions == <<status, request, executed, audited>>
waiters == <<awaited, outcome>>
vars    == <<grant, live, cached, actions, call, waiters, authorised>>

Settled == {"confirmed", "denied", "expired"}
Status  == {"none", "pending", "claimed", "lost"} \cup Settled
PC      == {"idle", "read", "list", "repend", "calling"}
Outcome == {"none", "waiting", "result", "error", "denied", "expired",
            "timeout", "refused", "lost"}
Request == [tool : Tools \cup {NoTool}, actor : Actors]
Call    == [pc : PC, verb : {"read", "invoke", "confirm"},
            tool : Tools \cup {NoTool}, actor : Actors,
            action : Actions \cup {NoAction}, seen : Grant]

Requested(hash) == [status |-> "requested", tools |-> Tools, auto |-> {},
                    scope |-> Actors, hash |-> hash]
NoRequest == [tool |-> NoTool, actor |-> Anonymous]
NoCall == [pc |-> "idle", verb |-> "read", tool |-> NoTool, actor |-> Anonymous,
           action |-> NoAction, seen |-> Requested(0)]

\* The gate's verdict on a grant: granted, the tool listed, the actor in scope.
Allows(g, t, who) == g.status = "granted" /\ t \in g.tools /\ who \in g.scope

\* What grant g permits while the connector serves manifest m.
Permits(g, m, t, who) ==
  IF ~Allows(g, t, who) \/ g.hash # m THEN {}
  ELSE IF t \in g.auto THEN {"call", "auto"} ELSE {"call"}

RePended(g) == [g EXCEPT !.status = "requested", !.auto = {}, !.scope = Actors]

Init ==
  /\ grant = Requested(0)
  /\ live = 0
  /\ cached = NoManifest
  /\ status = [a \in Actions |-> "none"]
  /\ request = [a \in Actions |-> NoRequest]
  /\ executed = [a \in Actions |-> 0]
  /\ audited = [a \in Actions |-> 0]
  /\ call = [k \in Calls |-> NoCall]
  /\ awaited = [w \in Waiters |-> NoAction]
  /\ outcome = [w \in Waiters |-> "none"]
  /\ authorised = [k \in Calls |-> {}]

(***************************************************************************)
(* The grant and the manifest                                              *)
(***************************************************************************)
Become(g, m) ==
  /\ grant' = g
  /\ live' = m
  /\ authorised' = [k \in Calls |-> authorised[k] \cup
       IF call[k].pc = "idle" THEN {}
       ELSE Permits(g, m, call[k].tool, call[k].actor)]

\* The hash an approval pins: the requested one for the whole set, one over the
\* cached manifest (capabilityToolsHash) for a subset.
ApprovedHash(p) == IF p.whole \/ cached = NoManifest THEN grant.hash ELSE cached

\* dashboard.capability.approve, decision "granted"
Approve(p) ==
  LET tools == IF p.whole THEN grant.tools ELSE grant.tools \cap p.tools
  IN  /\ p.auto \subseteq tools
      /\ Become([status |-> "granted", tools |-> tools, auto |-> p.auto,
                 scope |-> p.scope, hash |-> ApprovedHash(p)], live)
      /\ UNCHANGED <<cached, actions, call, waiters>>

\* dashboard.capability.approve, decision "revoked"
Revoke ==
  /\ Become([RePended(grant) EXCEPT !.status = "revoked"], live)
  /\ UNCHANGED <<cached, actions, call, waiters>>

\* The lease lapses: the store's sweep re-pends the grant.
Lapse ==
  /\ grant.status = "granted"
  /\ Become(RePended(grant), live)
  /\ UNCHANGED <<cached, actions, call, waiters>>

\* The connector changes the shape of its tools.
Drift ==
  /\ live < MaxDrift
  /\ Become(grant, live + 1)
  /\ UNCHANGED <<cached, actions, call, waiters>>

\* refreshGrants and tool_search list the tools first and queue their mutation
\* after it: the manifest m they write may be an old one by then.
Discover ==
  /\ cached' = live
  /\ UNCHANGED <<grant, live, actions, call, waiters, authorised>>

RefreshGrants(m) ==
  /\ grant.status # "granted" /\ <<grant.hash, grant.tools>> # <<m, Tools>>
  /\ Become(Requested(m), live)
  /\ UNCHANGED <<cached, actions, call, waiters>>

\* tool_search asks for one tool more; the whole grant is requested again.
RequestTool(t, m) ==
  /\ t \notin grant.tools
  /\ Become([Requested(m) EXCEPT !.tools = grant.tools \cup {t}], live)
  /\ UNCHANGED <<cached, actions, call, waiters>>

(***************************************************************************)
(* Calls                                                                   *)
(***************************************************************************)
Start(k, c) ==
  /\ call[k].pc = "idle"
  /\ call' = [call EXCEPT ![k] = c]
  /\ authorised' = [authorised EXCEPT ![k] = Permits(grant, live, c.tool, c.actor)]

Finish(k) ==
  /\ call' = [call EXCEPT ![k] = NoCall]
  /\ authorised' = [authorised EXCEPT ![k] = {}]

\* settle, then the action's waiters are resolved or rejected.
Settle(a, how, told) ==
  /\ status' = [status EXCEPT ![a] = how]
  /\ audited' = [audited EXCEPT ![a] = @ + 1]
  /\ outcome' = [w \in Waiters |->
       IF outcome[w] = "waiting" /\ awaited[w] = a THEN told ELSE outcome[w]]
  /\ UNCHANGED <<request, awaited>>

\* The call ends in an error; a claimed action is settled all the same.
Refuse(k) ==
  /\ Finish(k)
  /\ IF call[k].action = NoAction THEN UNCHANGED <<status, request, audited, waiters>>
     ELSE Settle(call[k].action, "confirmed", "error")
  /\ UNCHANGED <<grant, live, executed>>

\* dashboard.connector.read and dashboard.action.invoke
Invoke(k, verb, t, who) ==
  /\ Start(k, [NoCall EXCEPT !.pc = "read", !.verb = verb, !.tool = t, !.actor = who])
  /\ UNCHANGED <<grant, live, cached, actions, waiters>>

\* (mutant) The action stays pending while the gate runs.
ConfirmUnclaimed(k, a) ==
  /\ status[a] = "pending"
  /\ Start(k, [NoCall EXCEPT !.pc = "read", !.verb = "confirm", !.action = a,
                             !.tool = request[a].tool, !.actor = request[a].actor])
  /\ UNCHANGED <<grant, live, cached, actions, waiters>>

\* dashboard.action.confirm: the claim and the cleared timer come before the
\* first await; the gate runs again for the agent that parked the action.
Confirm(k, a) ==
  /\ status[a] = "pending"
  /\ status' = [status EXCEPT ![a] = "claimed"]
  /\ Start(k, [NoCall EXCEPT !.pc = "read", !.verb = "confirm", !.action = a,
                             !.tool = request[a].tool, !.actor = request[a].actor])
  /\ UNCHANGED <<grant, live, cached, request, executed, audited, waiters>>

\* The gate, first await (store.read): the grant is read once, here.
GateRead(k) ==
  /\ call[k].pc = "read"
  /\ Allows(grant, call[k].tool, call[k].actor)
  /\ call' = [call EXCEPT ![k].pc = "list", ![k].seen = grant]
  /\ UNCHANGED <<grant, live, cached, actions, waiters, authorised>>

GateRefuses(k) ==
  /\ call[k].pc = "read"
  /\ ~Allows(grant, call[k].tool, call[k].actor)
  /\ Refuse(k)
  /\ UNCHANGED cached

\* Second await (listTools): the manifest no longer has the hash of the grant.
GateDrifted(k) ==
  /\ call[k].pc = "list" /\ call[k].seen.hash # live
  /\ cached' = live
  /\ call' = [call EXCEPT ![k].pc = "repend"]
  /\ UNCHANGED <<grant, live, actions, waiters, authorised>>

\* The queued mutation tests the status alone, and the call is refused.
GateRepends(k) ==
  /\ call[k].pc = "repend"
  /\ Finish(k)
  /\ grant' = IF grant.status = "granted" THEN RePended(grant) ELSE grant
  /\ IF call[k].action = NoAction THEN UNCHANGED <<status, request, audited, waiters>>
     ELSE Settle(call[k].action, "confirmed", "error")
  /\ UNCHANGED <<live, cached, executed>>

\* (mutant) The gate forgets the manifest hash.
AdmittedUnpinned(k) == call[k].pc = "list" /\ cached' = live

Admitted(k) == call[k].pc = "list" /\ call[k].seen.hash = live /\ cached' = live

\* A mutating tool runs for a confirmed action or under autoConfirm only.
Runs(c) ==
  \/ c.verb = "confirm"
  \/ c.tool \in ReadOnly
  \/ c.verb = "invoke" /\ c.tool \in c.seen.auto

Execute(k) ==
  /\ Admitted(k) /\ Runs(call[k])
  /\ call' = [call EXCEPT ![k].pc = "calling"]
  /\ executed' = [a \in Actions |-> executed[a] + IF call[k].action = a THEN 1 ELSE 0]
  /\ UNCHANGED <<grant, live, status, request, audited, waiters, authorised>>

\* connector.read never parks.
ReadRefused(k) ==
  /\ Admitted(k) /\ ~Runs(call[k]) /\ call[k].verb = "read"
  /\ Refuse(k)

\* action.invoke parks the mutation under a fresh id and answers with the id.
Park(k, a) ==
  /\ Admitted(k) /\ ~Runs(call[k]) /\ call[k].verb = "invoke"
  /\ status[a] = "none"
  /\ status' = [status EXCEPT ![a] = "pending"]
  /\ request' = [request EXCEPT ![a] = [tool |-> call[k].tool, actor |-> call[k].actor]]
  /\ Finish(k)
  /\ UNCHANGED <<grant, live, executed, audited, waiters>>

\* The tool answers.
Returns(k) ==
  /\ call[k].pc = "calling"
  /\ Finish(k)
  /\ IF call[k].action = NoAction THEN UNCHANGED <<status, request, audited, waiters>>
     ELSE Settle(call[k].action, "confirmed", "result")
  /\ UNCHANGED <<grant, live, cached, executed>>

\* store.read, listTools, the re-pend's mutate or the tool call throws.
Fails(k) ==
  /\ call[k].pc # "idle"
  /\ Refuse(k)
  /\ UNCHANGED cached

(***************************************************************************)
(* Denial, expiry, and the agents that wait                                *)
(***************************************************************************)
Deny(a) ==
  /\ status[a] = "pending"
  /\ Settle(a, "denied", "denied")
  /\ UNCHANGED <<grant, live, cached, executed, call, authorised>>

\* (mutant) The timer survives the claim.
ExpireClaimed(a) ==
  /\ status[a] \in {"pending", "claimed"}
  /\ Settle(a, "expired", "expired")
  /\ UNCHANGED <<grant, live, cached, executed, call, authorised>>

\* (mutant) Expiry settles the action and leaves its waiters be.
ExpireSilently(a) ==
  /\ status[a] = "pending"
  /\ status' = [status EXCEPT ![a] = "expired"]
  /\ audited' = [audited EXCEPT ![a] = @ + 1]
  /\ UNCHANGED <<grant, live, cached, request, executed, call, waiters, authorised>>

Expire(a) ==
  /\ status[a] = "pending"
  /\ Settle(a, "expired", "expired")
  /\ UNCHANGED <<grant, live, cached, executed, call, authorised>>

\* (mutant) The status is not looked at.
WaitUnchecked(w, a) ==
  /\ outcome[w] = "none" /\ status[a] # "none"
  /\ outcome' = [outcome EXCEPT ![w] = "waiting"]
  /\ awaited' = [awaited EXCEPT ![w] = a]
  /\ UNCHANGED <<grant, live, cached, actions, call, authorised>>

\* confirmAndExecute: an agent that comes too late is refused.
Wait(w, a) ==
  /\ outcome[w] = "none" /\ status[a] # "none"
  /\ outcome' = [outcome EXCEPT ![w] = IF status[a] = "pending" THEN "waiting" ELSE "refused"]
  /\ awaited' = [awaited EXCEPT ![w] = a]
  /\ UNCHANGED <<grant, live, cached, actions, call, authorised>>

\* The agent's own timeout drops its waiter; the action lives on.
WaitTimeout(w) ==
  /\ outcome[w] = "waiting"
  /\ outcome' = [outcome EXCEPT ![w] = "timeout"]
  /\ UNCHANGED <<grant, live, cached, actions, call, awaited, authorised>>

\* The process restarts: what was in memory is gone.
Restart ==
  /\ cached' = NoManifest
  /\ status' = [a \in Actions |-> IF status[a] \in {"pending", "claimed"} THEN "lost" ELSE status[a]]
  /\ call' = [k \in Calls |-> NoCall]
  /\ authorised' = [k \in Calls |-> {}]
  /\ outcome' = [w \in Waiters |-> IF outcome[w] = "waiting" THEN "lost" ELSE outcome[w]]
  /\ UNCHANGED <<grant, live, request, executed, audited, awaited>>

GrantNext ==
  \/ \E p \in Approvals : Approve(p)
  \/ Revoke \/ Lapse \/ Drift \/ Discover
  \/ \E m \in 0..live : RefreshGrants(m) \/ \E t \in Tools : RequestTool(t, m)

\* What the engine does for a call, without anybody asking.
Progress(k) ==
  \/ GateRead(k) \/ GateRefuses(k) \/ GateDrifted(k) \/ GateRepends(k)
  \/ Execute(k) \/ ReadRefused(k) \/ Returns(k)
  \/ \E a \in Actions : Park(k, a)

CallNext ==
  \E k \in Calls :
    \/ \E verb \in {"read", "invoke"}, t \in Tools, who \in Actors : Invoke(k, verb, t, who)
    \/ \E a \in Actions : Confirm(k, a)
    \/ Progress(k)
    \/ Fails(k)

ActionNext ==
  \/ \E a \in Actions : Deny(a) \/ Expire(a)
  \/ \E w \in Waiters : WaitTimeout(w) \/ \E a \in Actions : Wait(w, a)

Next == GrantNext \/ CallNext \/ ActionNext \/ Restart

Spec == Init /\ [][Next]_vars

\* A store read, a listing and a tool call end (the broker puts a timeout on the
\* call), and the expiry timer of an unclaimed action fires.
Fairness == /\ \A k \in Calls : WF_vars(Progress(k))
            /\ \A a \in Actions : WF_vars(Expire(a))
FairSpec == Spec /\ Fairness

(***************************************************************************)
(* Properties                                                              *)
(***************************************************************************)
\* Every variable has its type; in particular a grant always pins a real hash.
TypeOK ==
  /\ grant \in Grant
  /\ live \in Nat
  /\ cached \in Nat \cup {NoManifest}
  /\ status \in [Actions -> Status]
  /\ request \in [Actions -> Request]
  /\ executed \in [Actions -> Nat]
  /\ audited \in [Actions -> Nat]
  /\ call \in [Calls -> Call]
  /\ awaited \in [Waiters -> Actions \cup {NoAction}]
  /\ outcome \in [Waiters -> Outcome]
  /\ authorised \in [Calls -> SUBSET {"call", "auto"}]

\* SPEC 18: the terminal states are single-shot.  A parked action's tool is
\* called at most once, and never before its confirm or after a deny or expiry,
\* whatever confirms, denials, timers, failures and restarts coincide.
AtMostOnce ==
  \A a \in Actions :
    /\ executed[a] <= 1
    /\ status[a] \in {"none", "pending", "denied", "expired"} => executed[a] = 0

\* An action is audited (and its settlement delivered) once when it settles,
\* and never otherwise: claim, expiry, denial and failure do not both settle it.
AuditedOnce ==
  \A a \in Actions : audited[a] = IF status[a] \in Settled THEN 1 ELSE 0

\* A parked action runs at most once and settles once, whatever settles it.
SettlesOnce == AtMostOnce /\ AuditedOnce

\* What a blocked agent is told is true for good: a result means its action ran,
\* a refusal or an expiry that it did not and never will.
ToldTruly ==
  \A w \in Waiters :
    /\ outcome[w] = "waiting" => status[awaited[w]] \in {"pending", "claimed"}
    /\ outcome[w] = "result" => status[awaited[w]] = "confirmed" /\ executed[awaited[w]] = 1
    /\ outcome[w] = "error" => status[awaited[w]] = "confirmed"
    /\ outcome[w] \in {"denied", "expired"} =>
         status[awaited[w]] = outcome[w] /\ executed[awaited[w]] = 0

\* SPEC 17 and 18, the AND-gate: at some one instant since a call, or the
\* confirm of its action, began, the tool was granted to its actor under the
\* shape the connector then served; and a mutating tool runs under an operator's
\* confirm or an autoConfirm of that instant, never for connector.read.
ExecutionGated ==
  \A k \in Calls : call[k].pc = "calling" =>
    /\ "call" \in authorised[k]
    /\ \/ call[k].verb = "confirm"
       \/ call[k].tool \in ReadOnly
       \/ call[k].verb = "invoke" /\ "auto" \in authorised[k]

\* An agent blocked on an action hears of it: no path through confirm, deny,
\* expiry, failure or restart leaves a waiter behind.
WaitersHear == \A w \in Waiters : outcome[w] = "waiting" ~> outcome[w] # "waiting"
=============================================================================
