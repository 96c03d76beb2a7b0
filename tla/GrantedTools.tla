---------------------------- MODULE GrantedTools ----------------------------
(***************************************************************************)
(* The adapter that offers granted external tools to an agent              *)
(* (createBrokerAgentTools, installBrokerAgentTools) and tool search, over  *)
(* the broker's pool of clients.  A commit that changes the grant is        *)
(* announced as boardstate.changed; every announcement starts a refresh,    *)
(* which reads the document and lists the tools side by side and then       *)
(* replaces the cache.  Refreshes overlap, fail and finish in any order.    *)
(*                                                                         *)
(* One connector has a grant.  Only direct calls of read-only tools are     *)
(* here; a mutating call is module PendingActions'.                         *)
(***************************************************************************)
EXTENDS BrokerPool

CONSTANTS Refreshes,   \* users that list for a refresh
          MaxCommits   \* bound: commits of the grant

\* The other users list for tool_search, or call a tool for the agent.
Agents == Users \ Refreshes

ASSUME UsersAssumption == Refreshes \subseteq Users /\ MaxCommits \in Nat

VARIABLES grant,     \* the connector's entry in capabilitiesRegistry
          commits,   \* history: commits so far, the name of the newest document
          approved,  \* history: tools the operator granted to the bound agent
          refresh,   \* per refresh: the document it read, and its start
          wanted,    \* per tool_search: the tools it requests
          calling,   \* per direct call: the tool
          cache,     \* the tools offered to the agent's next turn
          source     \* history: which commit started the refresh that wrote cache

vars == <<pool, grant, commits, approved, refresh, wanted, calling, cache, source>>

\* scoped: the grant lists agents, and the bound one is not among them.
Grant     == [status : {"requested", "granted", "revoked"}, tools : SUBSET Tools,
              scoped : BOOLEAN]
Ungranted == [status |-> "requested", tools |-> Tools, scoped |-> FALSE]
Refresh   == [doc : Grant \cup {None}, failed : BOOLEAN, since : Nat \cup {None}]
NoRefresh == [doc |-> None, failed |-> FALSE, since |-> None]

Init ==
  /\ PoolInit
  /\ grant = Ungranted
  /\ commits = 0
  /\ approved = {}
  /\ refresh = [r \in Refreshes |-> NoRefresh]
  /\ wanted = [a \in Agents |-> {}]
  /\ calling = [a \in Agents |-> None]
  /\ cache = {}
  /\ source = 0

(***************************************************************************)
(* The grant changes, and the listener of boardstate.changed refreshes     *)
(***************************************************************************)
StartRefresh(r) ==
  /\ refresh[r] = NoRefresh
  /\ BeginList(r)
  /\ refresh' = [refresh EXCEPT ![r] = [NoRefresh EXCEPT !.since = commits']]

Commit(g) ==
  /\ commits < MaxCommits
  /\ commits' = commits + 1
  /\ grant' = g
  /\ approved' = IF g.status = "granted" /\ ~g.scoped
                 THEN approved \cup g.tools ELSE approved
  /\ \E r \in Refreshes : StartRefresh(r)
  /\ UNCHANGED <<calling, cache, source>>

\* dashboard.capability.approve
Approve(tools, scoped) ==
  /\ Commit([status |-> "granted", tools |-> grant.tools \cap tools, scoped |-> scoped])
  /\ UNCHANGED wanted

Revoke ==
  /\ Commit([grant EXCEPT !.status = "revoked", !.scoped = FALSE])
  /\ UNCHANGED wanted

\* The host asks for a refresh (ready, ConnectorWorkspaceHandle.refresh).
HostRefresh ==
  /\ commits' = commits
  /\ \E r \in Refreshes : StartRefresh(r)
  /\ UNCHANGED <<grant, approved, wanted, calling, cache, source>>

(***************************************************************************)
(* refresh                                                                 *)
(***************************************************************************)
\* store.read() answers, or rejects.
ReadDoc(r) ==
  /\ refresh[r].since # None
  /\ refresh[r].doc = None
  /\ ~refresh[r].failed
  /\ \/ refresh' = [refresh EXCEPT ![r].doc = grant]
     \/ refresh' = [refresh EXCEPT ![r].failed = TRUE]
  /\ UNCHANGED <<pool, grant, commits, approved, wanted, calling, cache, source>>

\* (mutant) Whatever the grant's status is, its tools are offered.
AssembledUngranted(g, entries) ==
  IF g.scoped THEN {} ELSE {e \in entries : e.tool \in g.tools}

\* The tools a document and a manifest give the bound agent.
Assembled(g, entries) ==
  IF g.status # "granted" \/ g.scoped THEN {}
  ELSE {e \in entries : e.tool \in g.tools}

\* (mutant) New tools are added to the cache, none is taken out.
FinishAdds(r) ==
  /\ user[r].at = "answered"
  /\ refresh[r].doc # None
  /\ cache' = cache \cup Assembled(refresh[r].doc, user[r].found)
  /\ source' = refresh[r].since
  /\ user' = [user EXCEPT ![r] = NoUser]
  /\ refresh' = [refresh EXCEPT ![r] = NoRefresh]
  /\ UNCHANGED <<warm, connecting, run, client, served, closed, grant, commits,
                 approved, wanted, calling>>

Finish(r) ==
  /\ user[r].at = "answered"
  /\ refresh[r].doc # None
  /\ cache' = Assembled(refresh[r].doc, user[r].found)
  /\ source' = refresh[r].since
  /\ user' = [user EXCEPT ![r] = NoUser]
  /\ refresh' = [refresh EXCEPT ![r] = NoRefresh]
  /\ UNCHANGED <<warm, connecting, run, client, served, closed, grant, commits,
                 approved, wanted, calling>>

\* A refresh that failed leaves the cache as it was; the error is swallowed.
Abandon(r) ==
  /\ Ended(r)
  /\ user[r].at = "failed" \/ refresh[r].failed
  /\ user' = [user EXCEPT ![r] = NoUser]
  /\ refresh' = [refresh EXCEPT ![r] = NoRefresh]
  /\ UNCHANGED <<warm, connecting, run, client, served, closed, grant, commits,
                 approved, wanted, calling, cache, source>>

(***************************************************************************)
(* tool_search                                                             *)
(***************************************************************************)
Search(a, tools) ==
  /\ BeginList(a)
  /\ wanted' = [wanted EXCEPT ![a] = tools]
  /\ UNCHANGED <<grant, commits, approved, refresh, calling, cache, source>>

Known(a) == {e.tool : e \in user[a].found} \cap wanted[a]

\* Tools the grant lacks are added to it, and the whole grant is re-pended.
Request(a) ==
  /\ wanted[a] # {}
  /\ user[a].at = "answered"
  /\ ~(Known(a) \subseteq grant.tools)
  /\ Commit([status |-> "requested", tools |-> grant.tools \cup Known(a),
             scoped |-> FALSE])
  /\ wanted' = [wanted EXCEPT ![a] = {}]

\* Nothing new to ask for, or the listing failed.
SearchEnds(a) ==
  /\ calling[a] = None
  /\ Ended(a)
  /\ user[a].at = "answered" => Known(a) \subseteq grant.tools
  /\ user' = [user EXCEPT ![a] = NoUser]
  /\ wanted' = [wanted EXCEPT ![a] = {}]
  /\ UNCHANGED <<warm, connecting, run, client, served, closed, grant, commits,
                 approved, refresh, calling, cache, source>>

(***************************************************************************)
(* The agent executes a tool of its turn that was offered as read-only     *)
(***************************************************************************)
CallTool(a, e) ==
  /\ e \in cache
  /\ e.readOnly
  /\ BeginCall(a, e.tool)
  /\ calling' = [calling EXCEPT ![a] = e.tool]
  /\ UNCHANGED <<grant, commits, approved, refresh, wanted, cache, source>>

\* frameResult or frameError.
CallEnds(a) ==
  /\ calling[a] # None
  /\ Ended(a)
  /\ user' = [user EXCEPT ![a] = NoUser]
  /\ calling' = [calling EXCEPT ![a] = None]
  /\ UNCHANGED <<warm, connecting, run, client, served, closed, grant, commits,
                 approved, refresh, wanted, cache, source>>

PoolStep ==
  /\ \/ \E x \in Connects : Settle(x)
     \/ \E u \in Users : Reply(u)
     \/ \E c \in Clients : Drop(c)
     \/ Close
  /\ UNCHANGED <<grant, commits, approved, refresh, wanted, calling, cache, source>>

GrantStep ==
  \/ \E tools \in SUBSET Tools, scoped \in BOOLEAN : Approve(tools, scoped)
  \/ Revoke
  \/ HostRefresh

RefreshStep == \E r \in Refreshes : ReadDoc(r) \/ Finish(r) \/ Abandon(r)

AgentStep ==
  \E a \in Agents : \/ \E tools \in SUBSET Tools \ {{}} : Search(a, tools)
                    \/ Request(a)
                    \/ \E e \in cache : CallTool(a, e)

EndStep == \E a \in Agents : SearchEnds(a) \/ CallEnds(a)

\* The host closes the broker when it stops: nothing is begun after that.
Begins == GrantStep \/ AgentStep

Next ==
  \/ PoolStep
  \/ ~closed /\ Begins
  \/ RefreshStep
  \/ EndStep

Spec == Init /\ [][Next]_vars

(***************************************************************************)
(* Properties                                                              *)
(***************************************************************************)
TypeOK ==
  /\ PoolTypeOK
  /\ grant \in Grant
  /\ commits \in 0..MaxCommits
  /\ approved \subseteq Tools
  /\ refresh \in [Refreshes -> Refresh]
  /\ wanted \in [Agents -> SUBSET Tools]
  /\ calling \in [Agents -> Tools \cup {None}]
  /\ cache \subseteq Entry
  /\ source \in 0..MaxCommits

\* What an agent executes without asking is a tool the operator granted to it: no
\* request of its own, no listing and no order of refreshes can offer another.
DirectCallsGranted == \A a \in Agents : calling[a] # None => calling[a] \in approved

\* If the refresh of the newest commit wrote the cache, and none wrote after it,
\* the cache offers only what the current grant grants to the bound agent.
NewestRefreshRules ==
  source = commits => \A e \in cache : /\ e.tool \in grant.tools
                                       /\ grant.status = "granted"
                                       /\ ~grant.scoped

\* What agents may call directly is what the operator decided, last of all.
GrantsRespected == DirectCallsGranted /\ NewestRefreshRules
=============================================================================
