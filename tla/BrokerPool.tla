----------------------------- MODULE BrokerPool -----------------------------
(***************************************************************************)
(* The MCP broker (McpBroker): one warm client per configured connector,   *)
(* connected on first use, shared by everybody who asks meanwhile, dropped *)
(* when its transport ends and connected again on the next use.            *)
(*                                                                         *)
(* A connect is the promise of connectWithBackoff; it works through its    *)
(* tries (attempts times the transports of an attempt) with a new client   *)
(* each.  client.connect settles in the step that runs its continuations:  *)
(* a transport announces its end in a task of its own, never between them. *)
(* A user is whoever awaits listTools or callTool.  Tools are told apart   *)
(* by presence and by the readOnly hint, all that the broker's users read. *)
(***************************************************************************)
EXTENDS Naturals, Sequences, SequencesExt

CONSTANTS Order,         \* the configured connectors, in config order
          Users,         \* requests in progress
          Connects,      \* connects in progress
          Clients,       \* MCP client objects
          Tools,
          Home,          \* per tool, the connector that serves it
          ProviderName,  \* per tool, its sanitized name
          Shapes,        \* how a server may list a tool
          Unbuildable,   \* connectors whose environment misses a variable
          Tries,
          None

Connectors == ToSet(Order)

\* Without a configured connector there is nothing to list or to call.
ASSUME PoolAssumption ==
  /\ Order \in Seq(Connectors) \ {<< >>}
  /\ Tries \in Nat \ {0}
  /\ Home \in [Tools -> Connectors]
  /\ Unbuildable \subseteq Connectors
  /\ Shapes \subseteq {"absent", "read", "write"}
  /\ None \notin Connectors \cup Users \cup Connects \cup Clients

VARIABLES warm,        \* per connector: runtime.client
          connecting,  \* per connector: runtime.connecting
          run,         \* per connect: whose it is, the tries begun, the client
          client,      \* per client: is its transport up
          user,        \* per user: the request it awaits
          served,      \* what the servers list
          closed       \* history: close() was called

pool == <<warm, connecting, run, client, user, served, closed>>

Run     == [of : Connectors \cup {None}, tries : 0..Tries, client : Clients \cup {None}]
NoRun   == [of |-> None, tries |-> 0, client |-> None]
Entry   == [tool : Tools, readOnly : BOOLEAN]
User    == [kind : {"list", "call"},
            at : {"idle", "connecting", "asking", "answered", "failed"},
            todo : Seq(Connectors), connect : Connects \cup {None},
            client : Clients \cup {None}, found : SUBSET Entry]
NoUser  == [kind |-> "list", at |-> "idle", todo |-> << >>, connect |-> None, client |-> None,
            found |-> {}]

PoolInit ==
  /\ warm = [k \in Connectors |-> None]
  /\ connecting = [k \in Connectors |-> None]
  /\ run = [x \in Connects |-> NoRun]
  /\ client = [c \in Clients |-> "down"]
  /\ user = [u \in Users |-> NoUser]
  /\ served \in [Tools -> Shapes]
  /\ closed = FALSE

\* A client object nobody holds stands for the next one to be created.
Unused(c) ==
  /\ client[c] = "down"
  /\ \A x \in Connects : run[x].client # c
  /\ \A u \in Users : user[u].client # c

(***************************************************************************)
(* ensureConnected                                                         *)
(***************************************************************************)
AwaitWarm(u, r) ==
  /\ warm[Head(r.todo)] # None
  /\ user' = [user EXCEPT ![u] = [r EXCEPT !.at = "asking", !.client = warm[Head(r.todo)]]]
  /\ UNCHANGED <<connecting, run, client>>

AwaitShared(u, r) ==
  /\ user' = [user EXCEPT ![u] =
                [r EXCEPT !.at = "connecting", !.connect = connecting[Head(r.todo)]]]
  /\ UNCHANGED <<connecting, run, client>>

\* The first client is created and starts to connect before the first await.
Connect(u, r) ==
  LET k == Head(r.todo) IN
  \E x \in Connects :
    /\ run[x] = NoRun
    /\ connecting' = [connecting EXCEPT ![k] = x]
    /\ user' = [user EXCEPT ![u] = [r EXCEPT !.at = "connecting", !.connect = x]]
    /\ IF k \in Unbuildable
       THEN /\ run' = [run EXCEPT ![x] = [of |-> k, tries |-> 1, client |-> None]]
            /\ UNCHANGED client
       ELSE \E c \in Clients :
              /\ Unused(c)
              /\ run' = [run EXCEPT ![x] = [of |-> k, tries |-> 1, client |-> c]]
              /\ client' = [client EXCEPT ![c] = "opening"]

\* (mutant) A connect in flight is not shared.
EnsureAlone(u, r) ==
  \/ AwaitWarm(u, r)
  \/ warm[Head(r.todo)] = None /\ Connect(u, r)

\* User u goes on with request r, whose next connector is Head(r.todo).
Ensure(u, r) ==
  \/ AwaitWarm(u, r)
  \/ /\ warm[Head(r.todo)] = None
     /\ connecting[Head(r.todo)] # None
     /\ AwaitShared(u, r)
  \/ /\ warm[Head(r.todo)] = None
     /\ connecting[Head(r.todo)] = None
     /\ Connect(u, r)

(***************************************************************************)
(* connectWithBackoff                                                      *)
(***************************************************************************)
\* client.connect resolves, and the continuation of ensureConnected runs.
Opened(x) ==
  LET k == run[x].of
      c == run[x].client
  IN  /\ c # None
      /\ client' = [client EXCEPT ![c] = "open"]
      /\ warm' = [warm EXCEPT ![k] = c]
      /\ connecting' = [connecting EXCEPT ![k] = None]
      /\ run' = [run EXCEPT ![x] = NoRun]
      /\ user' = [u \in Users |->
           IF user[u].connect # x THEN user[u]
           ELSE [user[u] EXCEPT !.at = "asking", !.connect = None, !.client = c]]
      /\ UNCHANGED <<served, closed>>

\* client.connect rejects; the client is closed and the backoff begins.
TryFails(x) ==
  /\ run[x].client # None
  /\ client' = [client EXCEPT ![run[x].client] = "down"]
  /\ run' = [run EXCEPT ![x].client = None]
  /\ UNCHANGED <<warm, connecting, user, served, closed>>

TryAgain(x) ==
  /\ run[x].of # None
  /\ run[x].of \notin Unbuildable
  /\ run[x].client = None
  /\ run[x].tries < Tries
  /\ \E c \in Clients :
       /\ Unused(c)
       /\ run' = [run EXCEPT ![x].tries = @ + 1, ![x].client = c]
       /\ client' = [client EXCEPT ![c] = "opening"]
  /\ UNCHANGED <<warm, connecting, user, served, closed>>

\* (mutant) A connect that gives up rejects its first user only.
GivesUpOnOne(x) ==
  /\ run[x].of # None
  /\ run[x].client = None
  /\ run[x].tries = Tries \/ run[x].of \in Unbuildable
  /\ connecting' = [connecting EXCEPT ![run[x].of] = None]
  /\ run' = [run EXCEPT ![x] = NoRun]
  /\ \E u \in Users : /\ user[u].connect = x
                     /\ user' = [user EXCEPT ![u].at = "failed", ![u].connect = None]
  /\ UNCHANGED <<warm, client, served, closed>>

\* Out of tries, or transportFactory threw: BrokerConnectError for all who wait.
GivesUp(x) ==
  /\ run[x].of # None
  /\ run[x].client = None
  /\ run[x].tries = Tries \/ run[x].of \in Unbuildable
  /\ connecting' = [connecting EXCEPT ![run[x].of] = None]
  /\ run' = [run EXCEPT ![x] = NoRun]
  /\ user' = [u \in Users |->
       IF user[u].connect # x THEN user[u]
       ELSE [user[u] EXCEPT !.at = "failed", !.connect = None]]
  /\ UNCHANGED <<warm, client, served, closed>>

\* (mutant) onclose is not wired: the dead client stays warm.
DropKept(c) ==
  /\ client[c] = "open"
  /\ client' = [client EXCEPT ![c] = "down"]
  /\ UNCHANGED <<warm, connecting, run, user, served, closed>>

\* The transport of a connected client ends (onclose).
Drop(c) ==
  /\ client[c] = "open"
  /\ client' = [client EXCEPT ![c] = "down"]
  /\ warm' = [k \in Connectors |-> IF warm[k] = c THEN None ELSE warm[k]]
  /\ UNCHANGED <<connecting, run, user, served, closed>>

(***************************************************************************)
(* listTools and callTool                                                  *)
(***************************************************************************)
\* buildProviderNameMap throws on two tools with one sanitized name.
Collides(entries) ==
  \E e, f \in entries : e.tool # f.tool /\ ProviderName[e.tool] = ProviderName[f.tool]

Listed(k) == {[tool |-> t, readOnly |-> served[t] = "read"] :
                t \in {h \in Tools : Home[h] = k /\ served[h] # "absent"}}

BeginList(u) ==
  /\ user[u] = NoUser
  /\ Ensure(u, [NoUser EXCEPT !.todo = Order])
  /\ UNCHANGED <<warm, served, closed>>

BeginCall(u, t) ==
  /\ user[u] = NoUser
  /\ Ensure(u, [NoUser EXCEPT !.kind = "call", !.todo = <<Home[t]>>])
  /\ UNCHANGED <<warm, served, closed>>

\* The server answers; a listing goes on with the next connector in order.
Answer(u) ==
  LET found == IF user[u].kind = "call" THEN {}
               ELSE user[u].found \cup Listed(Head(user[u].todo))
      rest  == Tail(user[u].todo)
  IN  /\ user[u].at = "asking"
      /\ client[user[u].client] = "open"
      /\ IF rest # << >>
         THEN Ensure(u, [NoUser EXCEPT !.todo = rest, !.found = found])
         ELSE /\ user' = [user EXCEPT ![u] = [NoUser EXCEPT !.found = found,
                            !.at = IF Collides(found) THEN "failed" ELSE "answered"]]
              /\ UNCHANGED <<connecting, run, client>>
      /\ UNCHANGED <<warm, served, closed>>

\* A timeout, an isError result, or a client that is gone: the request rejects
\* and the client stays as it is.
Errs(u) ==
  /\ user[u].at = "asking"
  /\ user' = [user EXCEPT ![u] = [NoUser EXCEPT !.at = "failed"]]
  /\ UNCHANGED <<warm, connecting, run, client, served, closed>>

Ended(u) == user[u].at \in {"answered", "failed"}

\* McpBroker.close: a connect in flight goes on.
Close ==
  /\ ~closed
  /\ client' = [c \in Clients |-> IF \E k \in Connectors : warm[k] = c
                                  THEN "down" ELSE client[c]]
  /\ warm' = [k \in Connectors |-> None]
  /\ connecting' = [k \in Connectors |-> None]
  /\ closed' = TRUE
  /\ UNCHANGED <<run, user, served>>

Settle(x) == Opened(x) \/ TryFails(x) \/ TryAgain(x) \/ GivesUp(x)

Reply(u) == Answer(u) \/ Errs(u)

(***************************************************************************)
(* Properties                                                              *)
(***************************************************************************)
PoolTypeOK ==
  /\ warm \in [Connectors -> Clients \cup {None}]
  /\ connecting \in [Connectors -> Connects \cup {None}]
  /\ run \in [Connects -> Run]
  /\ client \in [Clients -> {"down", "opening", "open"}]
  /\ user \in [Users -> User]
  /\ served \in [Tools -> Shapes]
  /\ closed \in BOOLEAN

\* A warm client is always connected: a request that finds one never talks to a
\* transport that ended before.
WarmIsOpen == \A k \in Connectors : warm[k] # None => client[warm[k]] = "open"

\* Whatever overlaps, a connector has one client: the warm one, or the one its
\* only connect tries.  Until close() is called: a connect in flight survives it.
OneClient ==
  ~closed => \A c \in Clients : client[c] # "down" =>
    \E k \in Connectors :
      \/ warm[k] = c /\ connecting[k] = None
      \/ warm[k] = None /\ connecting[k] # None /\ run[connecting[k]].client = c

\* Both: what a user finds for its connector is the connector's only client, and it
\* is connected.
OneLiveClient == WarmIsOpen /\ OneClient

\* Whoever waits for a connect waits for one in progress, to the connector it
\* needs: no user is left behind by a failure, a retry or close().
NobodyStranded ==
  \A u \in Users : user[u].at = "connecting" =>
    run[user[u].connect].of = Head(user[u].todo)
=============================================================================
