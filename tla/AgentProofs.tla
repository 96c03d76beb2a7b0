----------------------------- MODULE AgentProofs -----------------------------
(***************************************************************************)
(* Theorems about what an agent works with.  BrokerPool and GrantedTools: a *)
(* connector's client is one and alive, nobody waits for a connect that is  *)
(* not under way, and an agent calls without asking only what the operator  *)
(* granted it.  ModelStream: whatever order a model's fragments come in,    *)
(* the calls the agent makes are the model's.  AgentLimits: no turn is sent *)
(* more tools or history than fit, and each settlement wakes it once.       *)
(***************************************************************************)
EXTENDS GrantedTools, ModelStream, AgentLimits, WellFoundedInduction, TLAPS

-----------------------------------------------------------------------------
(***************************************************************************)
(* The pool                                                                *)
(***************************************************************************)
\* A client that a connect is trying is its own and not connected yet.
TriesApart ==
  \A x \in Connects : run[x].client # None =>
    /\ run[x].of # None
    /\ client[run[x].client] = "opening"
    /\ \A y \in Connects : run[y].client = run[x].client => y = x

\* connecting[k] is a connect to k.
ConnectingRuns ==
  \A k \in Connectors : connecting[k] # None => run[connecting[k]].of = k

\* A user waits for a connect exactly while it is "connecting", and somebody's turn is next.
Waiting ==
  \A u \in Users : /\ user[u].at = "connecting" <=> user[u].connect # None
                   /\ user[u].at \in {"connecting", "asking"} => user[u].todo # << >>

\* Until close() every connect is the one its connector shares, and the connector has no
\* warm client meanwhile.
OneConnect ==
  ~closed =>
    /\ \A x \in Connects : run[x].of # None => connecting[run[x].of] = x
    /\ \A k \in Connectors : connecting[k] # None => warm[k] = None

PoolInv ==
  /\ PoolTypeOK
  /\ WarmIsOpen
  /\ TriesApart
  /\ ConnectingRuns
  /\ Waiting
  /\ NobodyStranded
  /\ OneConnect
  /\ OneClient

LEMMA ConnectorsOrdered ==
    ASSUME NEW r \in User, r.todo # << >>
    PROVE  Head(r.todo) \in Connectors /\ Head(r.todo) # None
  BY PoolAssumption DEF User

\* A connect that is nobody's has no client and no tries, and nobody waits for it.
LEMMA FreeConnect ==
    ASSUME PoolInv, NEW x \in Connects, run[x] = NoRun
    PROVE  /\ \A k \in Connectors : connecting[k] # x
           /\ \A u \in Users : user[u].connect # x
<1>1. run[x].of = None
  BY DEF NoRun
<1>2. ASSUME NEW k \in Connectors PROVE connecting[k] # x
  BY <1>1, PoolAssumption DEF PoolInv, ConnectingRuns
<1>3. ASSUME NEW u \in Users, user[u].connect = x PROVE FALSE
  <2>1. x # None
    BY PoolAssumption
  <2>2. user[u].at = "connecting" /\ user[u].todo # << >>
    BY <1>3, <2>1 DEF PoolInv, Waiting
  <2>3. run[x].of = Head(user[u].todo)
    BY <1>3, <2>2 DEF PoolInv, NobodyStranded
  <2>4. user[u] \in User
    BY DEF PoolInv, PoolTypeOK
  <2>5. QED
    BY <1>1, <2>2, <2>3, <2>4, ConnectorsOrdered
<1>4. QED
  BY <1>2, <1>3

\* ensureConnected, for a user that waits for nothing yet.
LEMMA EnsureKeeps ==
    ASSUME PoolInv, UNCHANGED <<warm, served, closed>>,
           NEW u \in Users, user[u].connect = None,
           NEW r \in User, r.todo # << >>, r.connect = None,
           Ensure(u, r)
    PROVE  PoolInv'
<1> DEFINE k == Head(r.todo)
<1>k. k \in Connectors /\ k # None
  BY ConnectorsOrdered
<1>1. CASE AwaitWarm(u, r)
  <2>1. /\ warm[k] # None /\ warm[k] \in Clients
        /\ user' = [user EXCEPT ![u] = [r EXCEPT !.at = "asking", !.client = warm[k]]]
        /\ UNCHANGED <<connecting, run, client>>
    BY <1>1, <1>k DEF AwaitWarm, PoolInv, PoolTypeOK
  <2>2. [r EXCEPT !.at = "asking", !.client = warm[k]] \in User
    BY <2>1 DEF User
  <2>3. PoolTypeOK'
    BY <2>1, <2>2 DEF PoolInv, PoolTypeOK
  <2>4. Waiting'
    BY <2>1 DEF PoolInv, Waiting, PoolTypeOK, User
  <2>5. NobodyStranded'
    BY <2>1 DEF PoolInv, NobodyStranded, PoolTypeOK, User
  <2>6. QED
    BY <2>1, <2>3, <2>4, <2>5 DEF PoolInv, WarmIsOpen, TriesApart, ConnectingRuns, OneConnect, OneClient
<1>2. CASE connecting[k] # None /\ AwaitShared(u, r)
  <2>1. /\ connecting[k] \in Connects
        /\ user' = [user EXCEPT ![u] = [r EXCEPT !.at = "connecting", !.connect = connecting[k]]]
        /\ UNCHANGED <<connecting, run, client>>
    BY <1>2, <1>k DEF AwaitShared, PoolInv, PoolTypeOK
  <2>2. [r EXCEPT !.at = "connecting", !.connect = connecting[k]] \in User
    BY <2>1 DEF User
  <2>3. PoolTypeOK'
    BY <2>1, <2>2 DEF PoolInv, PoolTypeOK
  <2>4. Waiting'
    BY <2>1, <1>2 DEF PoolInv, Waiting, PoolTypeOK, User
  <2>5. NobodyStranded'
    BY <2>1, <1>2, <1>k DEF PoolInv, NobodyStranded, PoolTypeOK, User, ConnectingRuns
  <2>6. QED
    BY <2>1, <2>3, <2>4, <2>5 DEF PoolInv, WarmIsOpen, TriesApart, ConnectingRuns, OneConnect, OneClient
<1>3. CASE warm[k] = None /\ connecting[k] = None /\ Connect(u, r)
  <2>1. PICK x \in Connects :
          /\ run[x] = NoRun
          /\ connecting' = [connecting EXCEPT ![k] = x]
          /\ user' = [user EXCEPT ![u] = [r EXCEPT !.at = "connecting", !.connect = x]]
          /\ IF k \in Unbuildable
             THEN /\ run' = [run EXCEPT ![x] = [of |-> k, tries |-> 1, client |-> None]]
                  /\ UNCHANGED client
             ELSE \E c \in Clients :
                    /\ Unused(c)
                    /\ run' = [run EXCEPT ![x] = [of |-> k, tries |-> 1, client |-> c]]
                    /\ client' = [client EXCEPT ![c] = "opening"]
    BY <1>3 DEF Connect
  <2>2. PICK c \in Clients \cup {None} :
          /\ run' = [run EXCEPT ![x] = [of |-> k, tries |-> 1, client |-> c]]
          /\ c = None => UNCHANGED client
          /\ c # None => Unused(c) /\ client' = [client EXCEPT ![c] = "opening"]
    BY <2>1, PoolAssumption
  <2>x. x # None /\ run[x].of = None /\ run[x].client = None
    BY <2>1, PoolAssumption DEF NoRun
  <2>f. /\ \A l \in Connectors : connecting[l] # x
        /\ \A v \in Users : user[v].connect # x
    BY <2>1, FreeConnect
  <2>r. [of |-> k, tries |-> 1, client |-> c] \in Run
    BY <1>k, PoolAssumption DEF Run
  <2>o. \A y \in Connects \ {x} : run'[y] = run[y]
    BY <2>2 DEF PoolInv, PoolTypeOK
  <2>n. run'[x] = [of |-> k, tries |-> 1, client |-> c]
    BY <2>2 DEF PoolInv, PoolTypeOK
  <2>3. [r EXCEPT !.at = "connecting", !.connect = x] \in User
    BY DEF User
  <2>4. PoolTypeOK'
    BY <2>1, <2>2, <2>r, <2>3 DEF PoolInv, PoolTypeOK
  <2>5. WarmIsOpen'
    BY <2>2, <1>k DEF PoolInv, PoolTypeOK, WarmIsOpen, Unused
  <2>6. TriesApart'
    <3>1. \A y \in Connects : run[y].client = c /\ c # None => FALSE
      BY <2>2 DEF Unused
    <3>2. run'[x].client = c /\ run'[x].of # None
      BY <2>n, <1>k
    <3>3. c # None => client'[c] = "opening" /\ \A d \in Clients \ {c} : client'[d] = client[d]
      BY <2>2 DEF PoolInv, PoolTypeOK
    <3>4. \A y \in Connects : run[y].client \in Clients \cup {None}
      BY DEF PoolInv, PoolTypeOK, Run
    <3>5. c = None => client' = client
      BY <2>2
    <3>6. QED
      BY <2>x, <2>o, <3>1, <3>2, <3>3, <3>4, <3>5, PoolAssumption DEF PoolInv, TriesApart
  <2>7. ConnectingRuns'
    BY <2>1, <2>f, <2>o, <2>n DEF PoolInv, PoolTypeOK, ConnectingRuns
  <2>8. Waiting'
    BY <2>1, <2>x DEF PoolInv, PoolTypeOK, Waiting, User
  <2>9. NobodyStranded'
    <3>1. ASSUME NEW v \in Users \ {u}, user[v].at = "connecting"
          PROVE  user'[v] = user[v] /\ run'[user[v].connect] = run[user[v].connect]
      BY <3>1, <2>1, <2>f, <2>o DEF PoolInv, PoolTypeOK, Waiting, User
    <3>2. user'[u].connect = x /\ user'[u].todo = r.todo
      BY <2>1 DEF PoolInv, PoolTypeOK, User
    <3>3. run'[user'[u].connect].of = Head(user'[u].todo)
      BY <3>2, <2>n
    <3>4. QED
      BY <3>1, <3>3, <2>1 DEF PoolInv, PoolTypeOK, NobodyStranded
  <2>10. OneConnect'
    <3> SUFFICES ASSUME ~closed
                 PROVE  /\ \A y \in Connects : run'[y].of # None => connecting'[run'[y].of] = y
                        /\ \A l \in Connectors : connecting'[l] # None => warm[l] = None
      BY DEF OneConnect
    <3>1. ASSUME NEW y \in Connects, run'[y].of # None
          PROVE  connecting'[run'[y].of] = y
      <4>1. CASE y = x
        BY <4>1, <2>1, <2>n, <1>k DEF PoolInv, PoolTypeOK
      <4>2. CASE y # x
        <5>1. run'[y] = run[y] /\ run[y].of \in Connectors /\ connecting[run[y].of] = y
          BY <4>2, <3>1, <2>o DEF PoolInv, PoolTypeOK, OneConnect, Run
        <5>2. run[y].of # k
          BY <5>1, <1>3, PoolAssumption
        <5>3. QED
          BY <5>1, <5>2, <2>1 DEF PoolInv, PoolTypeOK
      <4>3. QED
        BY <4>1, <4>2
    <3>2. ASSUME NEW l \in Connectors, connecting'[l] # None
          PROVE  warm[l] = None
      BY <3>2, <1>3, <1>k, <2>1 DEF PoolInv, PoolTypeOK, OneConnect
    <3>3. QED
      BY <3>1, <3>2
  <2>11. OneClient'
    <3> SUFFICES ASSUME ~closed, NEW d \in Clients, client'[d] # "down"
                 PROVE  \E l \in Connectors :
                          \/ warm[l] = d /\ connecting'[l] = None
                          \/ warm[l] = None /\ connecting'[l] # None /\ run'[connecting'[l]].client = d
      BY DEF OneClient
    <3>1. CASE d = c
      BY <3>1, <1>3, <1>k, <2>1, <2>n, <2>x DEF PoolInv, PoolTypeOK
    <3>2. CASE d # c
      <4>1. client[d] # "down"
        BY <3>2, <2>2 DEF PoolInv, PoolTypeOK
      <4>2. PICK l \in Connectors :
              \/ warm[l] = d /\ connecting[l] = None
              \/ warm[l] = None /\ connecting[l] # None /\ run[connecting[l]].client = d
        BY <4>1 DEF PoolInv, OneClient
      <4>3. l # k
        BY <4>2, <1>3, PoolAssumption
      <4>4. connecting'[l] = connecting[l] /\ connecting[l] # x
        BY <4>3, <2>1, <2>f DEF PoolInv, PoolTypeOK
      <4>5. QED
        BY <4>2, <4>4, <2>o DEF PoolInv, PoolTypeOK
    <3>3. QED
      BY <3>1, <3>2
  <2>12. QED
    BY <2>4, <2>5, <2>6, <2>7, <2>8, <2>9, <2>10, <2>11 DEF PoolInv
<1>4. QED
  BY <1>1, <1>2, <1>3 DEF Ensure

\* A connect that ends, with a client or without, sends everybody who waits for it on.
LEMMA OpenedKeeps ==
    ASSUME PoolInv, NEW x \in Connects, Opened(x)
    PROVE  PoolInv'
<1> DEFINE k == run[x].of
           c == run[x].client
<1>1. /\ c \in Clients /\ c # None
      /\ client' = [client EXCEPT ![c] = "open"]
      /\ warm' = [warm EXCEPT ![k] = c]
      /\ connecting' = [connecting EXCEPT ![k] = None]
      /\ run' = [run EXCEPT ![x] = NoRun]
      /\ user' = [u \in Users |->
           IF user[u].connect # x THEN user[u]
           ELSE [user[u] EXCEPT !.at = "asking", !.connect = None, !.client = c]]
      /\ UNCHANGED <<served, closed>>
  BY DEF Opened, PoolInv, PoolTypeOK, Run
<1>2. /\ k \in Connectors /\ k # None
      /\ client[c] = "opening"
      /\ \A y \in Connects : run[y].client = c => y = x
  BY <1>1, PoolAssumption DEF PoolInv, TriesApart, PoolTypeOK, Run
<1>3. /\ NoRun \in Run /\ NoRun.of = None /\ NoRun.client = None
  BY PoolAssumption DEF NoRun, Run
<1>4. \A y \in Connects : run'[y] = IF y = x THEN NoRun ELSE run[y]
  BY <1>1 DEF PoolInv, PoolTypeOK
<1>5. x # None /\ k # None
  BY <1>2, PoolAssumption
<1>6. PoolTypeOK'
  <2>1. ASSUME NEW u \in Users
        PROVE  /\ user[u] \in User
               /\ [user[u] EXCEPT !.at = "asking", !.connect = None, !.client = c] \in User
    BY ZenonT(60), <1>1 DEF PoolInv, PoolTypeOK, User
  <2>2. QED
    BY <1>1, <1>2, <1>3, <2>1 DEF PoolInv, PoolTypeOK
<1>7. WarmIsOpen'
  BY <1>1, <1>2 DEF PoolInv, PoolTypeOK, WarmIsOpen
<1>8. TriesApart'
  <2>1. \A y \in Connects : run[y].client \in Clients \cup {None}
    BY DEF PoolInv, PoolTypeOK, Run
  <2>2. \A d \in Clients \ {c} : client'[d] = client[d]
    BY <1>1 DEF PoolInv, PoolTypeOK
  <2>3. QED
    BY <1>2, <1>3, <1>4, <2>1, <2>2 DEF PoolInv, TriesApart
<1>9. ConnectingRuns'
  BY <1>1, <1>2, <1>4, <1>5 DEF PoolInv, PoolTypeOK, ConnectingRuns
<1>10. Waiting'
  BY <1>1, <1>5 DEF PoolInv, PoolTypeOK, Waiting, User
<1>11. NobodyStranded'
  <2>1. ASSUME NEW u \in Users, user'[u].at = "connecting"
        PROVE  run'[user'[u].connect].of = Head(user'[u].todo)
    <3>1. user[u].connect # x
      BY <1>1, <2>1 DEF PoolInv, PoolTypeOK, User
    <3>2. user'[u] = user[u]
      BY <1>1, <3>1
    <3>3. user[u].connect \in Connects
      BY <3>2, <2>1 DEF PoolInv, PoolTypeOK, Waiting, User
    <3>4. QED
      BY <3>1, <3>2, <3>3, <2>1, <1>4 DEF PoolInv, NobodyStranded
  <2>2. QED
    BY <2>1 DEF NobodyStranded
<1>12. OneConnect'
  <2> SUFFICES ASSUME ~closed
               PROVE  /\ \A y \in Connects : run'[y].of # None => connecting'[run'[y].of] = y
                      /\ \A l \in Connectors : connecting'[l] # None => warm'[l] = None
    BY <1>1 DEF OneConnect
  <2>1. connecting[k] = x
    BY <1>2 DEF PoolInv, OneConnect
  <2>2. ASSUME NEW y \in Connects, run'[y].of # None
        PROVE  connecting'[run'[y].of] = y
    <3>1. y # x /\ run'[y] = run[y]
      BY <2>2, <1>3, <1>4
    <3>2. connecting[run[y].of] = y /\ run[y].of \in Connectors
      BY <3>1, <2>2 DEF PoolInv, OneConnect, PoolTypeOK, Run
    <3>3. run[y].of # k
      BY <3>1, <3>2, <2>1
    <3>4. QED
      BY <3>1, <3>2, <3>3, <1>1 DEF PoolInv, PoolTypeOK
  <2>3. ASSUME NEW l \in Connectors, connecting'[l] # None
        PROVE  warm'[l] = None
    BY <2>3, <1>1, <1>2 DEF PoolInv, PoolTypeOK, OneConnect
  <2>4. QED
    BY <2>2, <2>3
<1>13. OneClient'
  <2> SUFFICES ASSUME ~closed, NEW d \in Clients, client'[d] # "down"
               PROVE  \E l \in Connectors :
                        \/ warm'[l] = d /\ connecting'[l] = None
                        \/ warm'[l] = None /\ connecting'[l] # None /\ run'[connecting'[l]].client = d
    BY <1>1 DEF OneClient
  <2>1. connecting[k] = x /\ warm[k] = None
    BY <1>2, <1>5 DEF PoolInv, OneConnect
  <2>2. CASE d = c
    BY <2>2, <1>1, <1>2 DEF PoolInv, PoolTypeOK
  <2>3. CASE d # c
    <3>1. PICK l \in Connectors :
            \/ warm[l] = d /\ connecting[l] = None
            \/ warm[l] = None /\ connecting[l] # None /\ run[connecting[l]].client = d
      BY <2>3, <1>1 DEF PoolInv, PoolTypeOK, OneClient
    <3>2. l # k
      BY <3>1, <2>1, <2>3, <1>5
    <3>3. warm'[l] = warm[l] /\ connecting'[l] = connecting[l]
      BY <3>2, <1>1 DEF PoolInv, PoolTypeOK
    <3>4. connecting[l] # None => connecting[l] # x /\ connecting[l] \in Connects
      BY <3>2 DEF PoolInv, PoolTypeOK, ConnectingRuns
    <3>5. QED
      BY <3>1, <3>3, <3>4, <1>4
  <2>4. QED
    BY <2>2, <2>3
<1>14. QED
  BY <1>6, <1>7, <1>8, <1>9, <1>10, <1>11, <1>12, <1>13 DEF PoolInv

LEMMA GivesUpKeeps ==
    ASSUME PoolInv, NEW x \in Connects, GivesUp(x)
    PROVE  PoolInv'
<1> DEFINE k == run[x].of
<1>1. /\ k # None /\ run[x].client = None
      /\ connecting' = [connecting EXCEPT ![k] = None]
      /\ run' = [run EXCEPT ![x] = NoRun]
      /\ user' = [u \in Users |->
           IF user[u].connect # x THEN user[u]
           ELSE [user[u] EXCEPT !.at = "failed", !.connect = None]]
      /\ UNCHANGED <<warm, client, served, closed>>
  BY DEF GivesUp
<1>2. k \in Connectors
  BY <1>1 DEF PoolInv, PoolTypeOK, Run
<1>3. /\ NoRun \in Run /\ NoRun.of = None /\ NoRun.client = None
  BY PoolAssumption DEF NoRun, Run
<1>4. \A y \in Connects : run'[y] = IF y = x THEN NoRun ELSE run[y]
  BY <1>1 DEF PoolInv, PoolTypeOK
<1>5. x # None
  BY PoolAssumption
<1>6. PoolTypeOK'
  <2>1. ASSUME NEW u \in Users
        PROVE  /\ user[u] \in User
               /\ [user[u] EXCEPT !.at = "failed", !.connect = None] \in User
    <3>1. user[u] \in User
      BY DEF PoolInv, PoolTypeOK
    <3>2. QED
      BY <3>1 DEF User
  <2>2. QED
    BY <1>1, <1>2, <1>3, <2>1 DEF PoolInv, PoolTypeOK
<1>7. WarmIsOpen'
  <2>1. warm' = warm /\ client' = client
    BY <1>1
  <2>2. QED
    BY <2>1 DEF PoolInv, WarmIsOpen
<1>8. TriesApart'
  <2>1. client' = client
    BY <1>1
  <2>2. QED
    BY <2>1, <1>3, <1>4 DEF PoolInv, TriesApart
<1>9. ConnectingRuns'
  BY <1>1, <1>2, <1>4, <1>5 DEF PoolInv, PoolTypeOK, ConnectingRuns
<1>10. Waiting'
  BY <1>1, <1>5 DEF PoolInv, PoolTypeOK, Waiting, User
<1>11. NobodyStranded'
  <2>1. ASSUME NEW u \in Users, user'[u].at = "connecting"
        PROVE  run'[user'[u].connect].of = Head(user'[u].todo)
    <3>1. user[u].connect # x
      BY <1>1, <2>1 DEF PoolInv, PoolTypeOK, User
    <3>2. user'[u] = user[u]
      BY <1>1, <3>1
    <3>3. user[u].connect \in Connects
      BY <3>2, <2>1 DEF PoolInv, PoolTypeOK, Waiting, User
    <3>4. QED
      BY <3>1, <3>2, <3>3, <2>1, <1>4 DEF PoolInv, NobodyStranded
  <2>2. QED
    BY <2>1 DEF NobodyStranded
<1>12. OneConnect'
  <2> SUFFICES ASSUME ~closed
               PROVE  /\ \A y \in Connects : run'[y].of # None => connecting'[run'[y].of] = y
                      /\ \A l \in Connectors : connecting'[l] # None => warm[l] = None
    BY <1>1 DEF OneConnect
  <2>1. connecting[k] = x
    BY <1>1 DEF PoolInv, OneConnect
  <2>2. ASSUME NEW y \in Connects, run'[y].of # None
        PROVE  connecting'[run'[y].of] = y
    <3>1. y # x /\ run'[y] = run[y]
      BY <2>2, <1>3, <1>4
    <3>2. connecting[run[y].of] = y /\ run[y].of \in Connectors
      BY <3>1, <2>2 DEF PoolInv, OneConnect, PoolTypeOK, Run
    <3>3. run[y].of # k
      BY <3>1, <3>2, <2>1
    <3>4. QED
      BY <3>1, <3>2, <3>3, <1>1 DEF PoolInv, PoolTypeOK
  <2>3. ASSUME NEW l \in Connectors, connecting'[l] # None
        PROVE  warm[l] = None
    BY <2>3, <1>1, <1>2 DEF PoolInv, PoolTypeOK, OneConnect
  <2>4. QED
    BY <2>2, <2>3
<1>13. OneClient'
  <2> SUFFICES ASSUME ~closed, NEW d \in Clients, client[d] # "down"
               PROVE  \E l \in Connectors :
                        \/ warm[l] = d /\ connecting'[l] = None
                        \/ warm[l] = None /\ connecting'[l] # None /\ run'[connecting'[l]].client = d
    BY <1>1 DEF OneClient
  <2>1. PICK l \in Connectors :
          \/ warm[l] = d /\ connecting[l] = None
          \/ warm[l] = None /\ connecting[l] # None /\ run[connecting[l]].client = d
    BY DEF PoolInv, OneClient
  <2>2. connecting[l] # None => connecting[l] # x /\ connecting[l] \in Connects /\ l # k
    BY <2>1, <1>1, PoolAssumption DEF PoolInv, PoolTypeOK, OneConnect
  <2>3. QED
    BY <2>1, <2>2, <1>1, <1>4 DEF PoolInv, PoolTypeOK
  
<1>14. QED
  BY <1>6, <1>7, <1>8, <1>9, <1>10, <1>11, <1>12, <1>13 DEF PoolInv

LEMMA TryFailsKeeps ==
    ASSUME PoolInv, NEW x \in Connects, TryFails(x)
    PROVE  PoolInv'
<1> DEFINE c == run[x].client
<1>1. /\ c \in Clients /\ c # None
      /\ client' = [client EXCEPT ![c] = "down"]
      /\ run' = [run EXCEPT ![x].client = None]
  BY DEF TryFails, PoolInv, PoolTypeOK, Run
<1>u. /\ warm' = warm /\ connecting' = connecting /\ user' = user
      /\ served' = served /\ closed' = closed
  BY DEF TryFails
<1>2. \A y \in Connects : /\ run'[y].of = run[y].of
                          /\ run'[y].client = IF y = x THEN None ELSE run[y].client
  BY <1>1 DEF PoolInv, PoolTypeOK, Run
<1>3. /\ client[c] = "opening"
      /\ \A y \in Connects : run[y].client = c => y = x
  BY <1>1 DEF PoolInv, TriesApart
<1>4. \A d \in Clients : client'[d] = IF d = c THEN "down" ELSE client[d]
  BY <1>1 DEF PoolInv, PoolTypeOK
<1>5. PoolTypeOK'
  BY <1>1, <1>u DEF PoolInv, PoolTypeOK, Run
<1>6. WarmIsOpen'
  BY <1>u, <1>3, <1>4 DEF PoolInv, PoolTypeOK, WarmIsOpen
<1>7. TriesApart'
  <2>1. \A y \in Connects : run[y].client \in Clients \cup {None}
    BY DEF PoolInv, PoolTypeOK, Run
  <2>2. QED
    BY <1>2, <1>3, <1>4, <2>1 DEF PoolInv, TriesApart
<1>8. ConnectingRuns'
  BY <1>u, <1>2 DEF PoolInv, PoolTypeOK, ConnectingRuns
<1>9. Waiting'
  BY <1>u DEF PoolInv, Waiting
<1>10. NobodyStranded'
  <2>1. \A u \in Users : user[u].at = "connecting" => user[u].connect \in Connects
    BY DEF PoolInv, PoolTypeOK, Waiting, User
  <2>2. QED
    BY <1>u, <1>2, <2>1 DEF PoolInv, NobodyStranded
<1>11. OneConnect'
  BY <1>u, <1>2 DEF PoolInv, OneConnect
<1>12. OneClient'
  <2> SUFFICES ASSUME ~closed, NEW d \in Clients, client'[d] # "down"
               PROVE  \E l \in Connectors :
                        \/ warm[l] = d /\ connecting[l] = None
                        \/ warm[l] = None /\ connecting[l] # None /\ run'[connecting[l]].client = d
    BY <1>u DEF OneClient
  <2>1. d # c /\ client[d] # "down"
    BY <1>4
  <2>2. PICK l \in Connectors :
          \/ warm[l] = d /\ connecting[l] = None
          \/ warm[l] = None /\ connecting[l] # None /\ run[connecting[l]].client = d
    BY <2>1 DEF PoolInv, OneClient
  <2>3. connecting[l] # None => connecting[l] \in Connects
    BY DEF PoolInv, PoolTypeOK
  <2>4. QED
    BY <2>1, <2>2, <2>3, <1>2
<1>13. QED
  BY <1>5, <1>6, <1>7, <1>8, <1>9, <1>10, <1>11, <1>12 DEF PoolInv

LEMMA TryAgainKeeps ==
    ASSUME PoolInv, NEW x \in Connects, TryAgain(x)
    PROVE  PoolInv'
<1>1. PICK c \in Clients :
        /\ Unused(c)
        /\ run' = [run EXCEPT ![x].tries = @ + 1, ![x].client = c]
        /\ client' = [client EXCEPT ![c] = "opening"]
  BY DEF TryAgain
<1>u. /\ warm' = warm /\ connecting' = connecting /\ user' = user
      /\ served' = served /\ closed' = closed
  BY DEF TryAgain
<1>2. /\ run[x] \in Run /\ run[x].of # None /\ run[x].client = None
      /\ run[x].tries < Tries /\ c # None
  BY PoolAssumption DEF TryAgain, PoolInv, PoolTypeOK
<1>r. run' = [run EXCEPT ![x] = [run[x] EXCEPT !.tries = run[x].tries + 1, !.client = c]]
  BY <1>1 DEF PoolInv, PoolTypeOK
<1>3. \A y \in Connects : /\ run'[y].of = run[y].of
                          /\ run'[y].client = IF y = x THEN c ELSE run[y].client
  BY <1>r DEF PoolInv, PoolTypeOK, Run
<1>4. \A d \in Clients : client'[d] = IF d = c THEN "opening" ELSE client[d]
  BY <1>1 DEF PoolInv, PoolTypeOK
<1>5. client[c] = "down" /\ \A y \in Connects : run[y].client # c
  BY <1>1 DEF Unused
<1>6. PoolTypeOK'
  <2>1. [run[x] EXCEPT !.tries = run[x].tries + 1, !.client = c] \in Run
    <3>1. run[x].tries + 1 \in 0..Tries
      BY <1>2, PoolAssumption DEF Run
    <3>2. QED
      BY <1>2, <3>1 DEF Run
  <2>2. QED
    BY <1>r, <1>1, <1>u, <2>1 DEF PoolInv, PoolTypeOK
<1>7. WarmIsOpen'
  BY <1>u, <1>4, <1>5 DEF PoolInv, PoolTypeOK, WarmIsOpen
<1>8. TriesApart'
  <2>1. \A y \in Connects : run[y].client \in Clients \cup {None}
    BY DEF PoolInv, PoolTypeOK, Run
  <2>2. QED
    BY <1>2, <1>3, <1>4, <1>5, <2>1 DEF PoolInv, TriesApart
<1>9. ConnectingRuns'
  BY <1>u, <1>3 DEF PoolInv, PoolTypeOK, ConnectingRuns
<1>10. Waiting'
  BY <1>u DEF PoolInv, Waiting
<1>11. NobodyStranded'
  <2>1. \A u \in Users : user[u].at = "connecting" => user[u].connect \in Connects
    BY DEF PoolInv, PoolTypeOK, Waiting, User
  <2>2. QED
    BY <1>u, <1>3, <2>1 DEF PoolInv, NobodyStranded
<1>12. OneConnect'
  BY <1>u, <1>3 DEF PoolInv, OneConnect
<1>13. OneClient'
  <2> SUFFICES ASSUME ~closed, NEW d \in Clients, client'[d] # "down"
               PROVE  \E l \in Connectors :
                        \/ warm[l] = d /\ connecting[l] = None
                        \/ warm[l] = None /\ connecting[l] # None /\ run'[connecting[l]].client = d
    BY <1>u DEF OneClient
  <2>1. CASE d = c
    <3>1. /\ run[x].of \in Connectors /\ connecting[run[x].of] = x
          /\ warm[run[x].of] = None
      BY <1>2, PoolAssumption DEF PoolInv, OneConnect, Run
    <3>2. QED
      BY <2>1, <3>1, <1>3, PoolAssumption
  <2>2. CASE d # c
    <3>1. PICK l \in Connectors :
            \/ warm[l] = d /\ connecting[l] = None
            \/ warm[l] = None /\ connecting[l] # None /\ run[connecting[l]].client = d
      BY <2>2, <1>4 DEF PoolInv, OneClient
    <3>2. connecting[l] # None => connecting[l] \in Connects
      BY DEF PoolInv, PoolTypeOK
    <3>3. run[x].client # d
      BY <1>2, PoolAssumption
    <3>4. QED
      BY <3>1, <3>2, <3>3, <1>3
  <2>3. QED
    BY <2>1, <2>2
<1>14. QED
  BY <1>6, <1>7, <1>8, <1>9, <1>10, <1>11, <1>12, <1>13 DEF PoolInv

LEMMA DropKeeps ==
    ASSUME PoolInv, NEW c \in Clients, Drop(c)
    PROVE  PoolInv'
<1>u. /\ connecting' = connecting /\ user' = user /\ run' = run
      /\ served' = served /\ closed' = closed
  BY DEF Drop
<1>1. /\ client[c] = "open"
      /\ \A d \in Clients : client'[d] = IF d = c THEN "down" ELSE client[d]
      /\ \A k \in Connectors : warm'[k] = IF warm[k] = c THEN None ELSE warm[k]
  BY DEF Drop, PoolInv, PoolTypeOK
<1>2. PoolTypeOK'
  BY <1>u DEF Drop, PoolInv, PoolTypeOK
<1>3. WarmIsOpen'
  BY <1>1 DEF PoolInv, PoolTypeOK, WarmIsOpen
<1>4. TriesApart'
  <2>1. \A y \in Connects : run[y].client \in Clients \cup {None}
    BY DEF PoolInv, PoolTypeOK, Run
  <2>2. QED
    BY <1>u, <1>1, <2>1 DEF PoolInv, TriesApart
<1>5. OneConnect'
  BY <1>u, <1>1 DEF PoolInv, OneConnect
<1>6. OneClient'
  BY <1>u, <1>1 DEF PoolInv, OneClient
<1>7. ConnectingRuns' /\ Waiting' /\ NobodyStranded'
  BY <1>u DEF PoolInv, ConnectingRuns, Waiting, NobodyStranded
<1>8. QED
  BY <1>2, <1>3, <1>4, <1>5, <1>6, <1>7 DEF PoolInv

LEMMA CloseKeeps ==
    ASSUME PoolInv, Close
    PROVE  PoolInv'
<1>u. user' = user /\ run' = run /\ served' = served /\ closed' = TRUE
  BY DEF Close
<1>1. PoolTypeOK'
  BY <1>u DEF Close, PoolInv, PoolTypeOK
<1>2. TriesApart'
  <2>1. \A y \in Connects : run[y].client \in Clients \cup {None}
    BY DEF PoolInv, PoolTypeOK, Run
  <2>2. \A d \in Clients : client[d] = "opening" => client'[d] = "opening"
    <3>1. ASSUME NEW d \in Clients, client[d] = "opening", NEW k \in Connectors
          PROVE  warm[k] # d
      BY <3>1, PoolAssumption DEF PoolInv, WarmIsOpen
    <3>2. QED
      BY <3>1 DEF Close
  <2>3. QED
    BY <1>u, <2>1, <2>2 DEF PoolInv, TriesApart
<1>3. WarmIsOpen' /\ ConnectingRuns'
  BY DEF Close, WarmIsOpen, ConnectingRuns
<1>4. Waiting' /\ NobodyStranded'
  BY <1>u DEF PoolInv, Waiting, NobodyStranded
<1>5. OneConnect' /\ OneClient'
  BY <1>u DEF OneConnect, OneClient
<1>6. QED
  BY <1>1, <1>2, <1>3, <1>4, <1>5 DEF PoolInv

\* A request ends or is taken back: its user waits for nothing any more.
LEMMA UserMovesOn ==
    ASSUME PoolInv, UNCHANGED <<warm, connecting, run, client, served, closed>>,
           NEW u \in Users, NEW r \in User,
           r.at \in {"idle", "answered", "failed"}, r.connect = None,
           user' = [user EXCEPT ![u] = r]
    PROVE  PoolInv'
<1>1. PoolTypeOK'
  BY DEF PoolInv, PoolTypeOK
<1>2. Waiting'
  BY DEF PoolInv, PoolTypeOK, Waiting
<1>3. NobodyStranded'
  BY DEF PoolInv, PoolTypeOK, NobodyStranded
<1>4. WarmIsOpen' /\ TriesApart' /\ ConnectingRuns' /\ OneConnect' /\ OneClient'
  BY DEF PoolInv, WarmIsOpen, TriesApart, ConnectingRuns, OneConnect, OneClient
<1>5. QED
  BY <1>1, <1>2, <1>3, <1>4 DEF PoolInv

LEMMA NoUserIsUser == NoUser \in User /\ NoUser.connect = None /\ NoUser.at = "idle"
  BY DEF NoUser, User

LEMMA BeginKeeps ==
    ASSUME PoolInv, NEW u \in Users, BeginList(u) \/ \E t \in Tools : BeginCall(u, t)
    PROVE  PoolInv'
<1>1. CASE BeginList(u)
  <2>1. [NoUser EXCEPT !.todo = Order] \in User
    BY PoolAssumption DEF NoUser, User
  <2>2. QED
    BY <1>1, <2>1, PoolAssumption, EnsureKeeps DEF BeginList, NoUser
<1>2. ASSUME NEW t \in Tools, BeginCall(u, t) PROVE PoolInv'
  <2> DEFINE r == [NoUser EXCEPT !.kind = "call", !.todo = <<Home[t]>>]
  <2>1. <<Home[t]>> \in Seq(Connectors) /\ <<Home[t]>> # << >>
    BY PoolAssumption
  <2>2. r \in User /\ r.todo # << >> /\ r.connect = None
    BY <2>1 DEF NoUser, User
  <2>3. Ensure(u, r) /\ UNCHANGED <<warm, served, closed>> /\ user[u].connect = None
    BY <1>2, NoUserIsUser DEF BeginCall
  <2>4. QED
    BY <2>2, <2>3, EnsureKeeps
<1>3. QED
  BY <1>1, <1>2

LEMMA ReplyKeeps ==
    ASSUME PoolInv, NEW u \in Users, Reply(u)
    PROVE  PoolInv'
<1>1. user[u] \in User
  BY DEF PoolInv, PoolTypeOK
<1>2. user[u].at = "asking" /\ user[u].connect = None /\ user[u].todo # << >>
  BY DEF Reply, Answer, Errs, PoolInv, Waiting
<1>3. CASE Errs(u)
  <2>1. [NoUser EXCEPT !.at = "failed"] \in User
    BY NoUserIsUser DEF User
  <2>2. QED
    BY <1>3, <2>1, NoUserIsUser, UserMovesOn DEF Errs, NoUser
<1>4. CASE Answer(u)
  <2> DEFINE found == IF user[u].kind = "call" THEN {}
                      ELSE user[u].found \cup Listed(Head(user[u].todo))
             rest  == Tail(user[u].todo)
             ended == [NoUser EXCEPT !.found = found,
                         !.at = IF Collides(found) THEN "failed" ELSE "answered"]
             next  == [NoUser EXCEPT !.todo = rest, !.found = found]
  <2>1. found \in SUBSET Entry
    <3>1. Listed(Head(user[u].todo)) \subseteq Entry
      <4>1. ASSUME NEW t \in Tools, NEW b \in BOOLEAN PROVE [tool |-> t, readOnly |-> b] \in Entry
        BY DEF Entry
      <4>2. ASSUME NEW t \in Tools PROVE (served[t] = "read") \in BOOLEAN
        OBVIOUS
      <4>3. ASSUME NEW t \in Tools PROVE [tool |-> t, readOnly |-> served[t] = "read"] \in Entry
        BY <4>1, <4>2, Zenon
      <4>4. QED
        BY <4>3, Zenon DEF Listed
    <3>2. QED
      BY <1>1, <3>1 DEF User
  <2>2. rest \in Seq(Connectors)
    BY <1>1, <1>2 DEF User
  <2>3. CASE rest # << >>
    <3>1. next \in User /\ next.todo # << >> /\ next.connect = None
      BY <2>1, <2>2, <2>3, NoUserIsUser DEF User, NoUser
    <3>2. Ensure(u, next) /\ UNCHANGED <<warm, served, closed>>
      BY <1>4, <2>3 DEF Answer
    <3>3. QED
      BY <1>2, <3>1, <3>2, EnsureKeeps
  <2>4. CASE rest = << >>
    <3>1. ended \in User /\ ended.at \in {"answered", "failed"} /\ ended.connect = None
      BY <2>1, NoUserIsUser DEF User, NoUser
    <3>2. /\ user' = [user EXCEPT ![u] = ended]
          /\ UNCHANGED <<warm, connecting, run, client, served, closed>>
      BY <1>4, <2>4 DEF Answer
    <3>3. QED
      BY <3>1, <3>2, UserMovesOn
  <2>5. QED
    BY <2>3, <2>4
<1>5. QED
  BY <1>3, <1>4 DEF Reply

LEMMA SettleKeeps ==
    ASSUME PoolInv, NEW x \in Connects, Settle(x)
    PROVE  PoolInv'
  BY OpenedKeeps, TryFailsKeeps, TryAgainKeeps, GivesUpKeeps DEF Settle

LEMMA PoolInitInv == PoolInit => PoolInv
<1> SUFFICES ASSUME PoolInit PROVE PoolInv
  OBVIOUS
<1>1. NoRun \in Run /\ NoRun.of = None /\ NoRun.client = None
  BY PoolAssumption DEF NoRun, Run
<1>2. PoolTypeOK
  BY <1>1, NoUserIsUser DEF PoolInit, PoolTypeOK
<1>3. WarmIsOpen /\ TriesApart /\ ConnectingRuns /\ OneConnect
  BY <1>1 DEF PoolInit, WarmIsOpen, TriesApart, ConnectingRuns, OneConnect
<1>4. Waiting /\ NobodyStranded
  BY NoUserIsUser DEF PoolInit, Waiting, NobodyStranded
<1>5. OneClient
  BY DEF PoolInit, OneClient
<1>6. QED
  BY <1>2, <1>3, <1>4, <1>5 DEF PoolInv

-----------------------------------------------------------------------------
(***************************************************************************)
(* The grants                                                              *)
(***************************************************************************)
\* What a document g gives the bound agent.
Offers(g) == IF g.status = "granted" /\ ~g.scoped THEN g.tools ELSE {}

\* Nothing is offered that the operator did not grant: not by the document, by none that
\* a refresh still holds, not in the cache and not to a call under way.
OffersApproved ==
  /\ Offers(grant) \subseteq approved
  /\ \A r \in Refreshes : refresh[r].doc # None => Offers(refresh[r].doc) \subseteq approved
  /\ \A e \in cache : e.tool \in approved

\* A refresh of the newest commit holds the newest document.
RefreshesCurrent ==
  /\ source <= commits
  /\ \A r \in Refreshes :
       /\ refresh[r].since # None => refresh[r].since \in 0..commits
       /\ refresh[r].doc # None => refresh[r].since # None
       /\ refresh[r].doc # None /\ refresh[r].since = commits => refresh[r].doc = grant

GrantInv ==
  /\ TypeOK
  /\ PoolInv
  /\ OffersApproved
  /\ RefreshesCurrent
  /\ DirectCallsGranted
  /\ NewestRefreshRules

LEMMA NoRefreshIsRefresh ==
    NoRefresh \in Refresh /\ NoRefresh.doc = None /\ NoRefresh.since = None
  BY DEF NoRefresh, Refresh

LEMMA GrantInit == Init => GrantInv
<1> SUFFICES ASSUME Init PROVE GrantInv
  OBVIOUS
<1>1. PoolInv
  BY PoolInitInv DEF Init
<1>2. Ungranted \in Grant /\ Ungranted.status = "requested"
  BY DEF Ungranted, Grant
<1>3. TypeOK
  BY <1>1, <1>2, NoRefreshIsRefresh, UsersAssumption DEF Init, TypeOK, PoolInv
<1>4. OffersApproved /\ RefreshesCurrent
  BY <1>2, NoRefreshIsRefresh DEF Init, OffersApproved, RefreshesCurrent, Offers
<1>5. DirectCallsGranted /\ NewestRefreshRules
  BY DEF Init, DirectCallsGranted, NewestRefreshRules
<1>6. QED
  BY <1>1, <1>3, <1>4, <1>5 DEF GrantInv

\* A commit of the grant, whoever made it.
LEMMA CommitKeeps ==
    ASSUME GrantInv, NEW g \in Grant, Commit(g),
           wanted' \in [Agents -> SUBSET Tools]
    PROVE  GrantInv'
<1>1. /\ commits' = commits + 1 /\ commits' \in 1..MaxCommits
      /\ grant' = g
      /\ approved' = IF g.status = "granted" /\ ~g.scoped THEN approved \cup g.tools ELSE approved
      /\ calling' = calling /\ cache' = cache /\ source' = source
  BY UsersAssumption DEF Commit, GrantInv, TypeOK
<1>2. PICK r \in Refreshes : StartRefresh(r)
  BY DEF Commit
<1>3. PoolInv'
  BY <1>2, BeginKeeps, UsersAssumption DEF StartRefresh, GrantInv
<1>4. refresh' = [refresh EXCEPT ![r] = [NoRefresh EXCEPT !.since = commits']]
  BY <1>2 DEF StartRefresh
<1>5. /\ [NoRefresh EXCEPT !.since = commits'] \in Refresh
      /\ [NoRefresh EXCEPT !.since = commits'].doc = None
      /\ [NoRefresh EXCEPT !.since = commits'].since = commits'
  <2>1. commits' \in Nat
    BY <1>1, UsersAssumption
  <2>2. QED
    BY <2>1, NoRefreshIsRefresh DEF Refresh, NoRefresh
<1>6. TypeOK'
  BY <1>1, <1>3, <1>4, <1>5 DEF GrantInv, TypeOK, PoolInv, Grant
<1>7. approved \subseteq approved'
  BY <1>1
<1>8. OffersApproved'
  <2>1. Offers(grant') \subseteq approved'
    BY <1>1 DEF Offers
  <2>2. ASSUME NEW q \in Refreshes, refresh'[q].doc # None
        PROVE  Offers(refresh'[q].doc) \subseteq approved'
    <3>1. q # r /\ refresh'[q] = refresh[q]
      BY <2>2, <1>4, <1>5 DEF GrantInv, TypeOK
    <3>2. QED
      BY <2>2, <3>1, <1>7 DEF GrantInv, OffersApproved
  <2>3. QED
    BY <2>1, <2>2, <1>1, <1>7 DEF GrantInv, OffersApproved
<1>9. RefreshesCurrent'
  <2>1. commits \in Nat /\ source' <= commits'
    BY <1>1 DEF GrantInv, TypeOK, RefreshesCurrent
  <2>2. ASSUME NEW q \in Refreshes
        PROVE  /\ refresh'[q].since # None => refresh'[q].since \in 0..commits'
               /\ refresh'[q].doc # None => refresh'[q].since # None
               /\ refresh'[q].doc # None /\ refresh'[q].since = commits' => refresh'[q].doc = grant'
    <3>1. CASE q = r
      BY <3>1, <1>1, <1>4, <1>5 DEF GrantInv, TypeOK
    <3>2. CASE q # r
      <4>1. refresh'[q] = refresh[q]
        BY <3>2, <1>4 DEF GrantInv, TypeOK
      <4>2. refresh[q].since # None => refresh[q].since \in 0..commits
        BY DEF GrantInv, RefreshesCurrent
      <4>3. refresh[q].doc # None => refresh[q].since # None
        BY DEF GrantInv, RefreshesCurrent
      <4>4. QED
        BY <4>1, <4>2, <4>3, <1>1, <2>1
    <3>3. QED
      BY <3>1, <3>2
  <2>3. QED
    BY <2>1, <2>2 DEF RefreshesCurrent
<1>10. DirectCallsGranted'
  BY <1>1, <1>7 DEF GrantInv, DirectCallsGranted
<1>11. NewestRefreshRules'
  <2>1. source' # commits'
    BY <1>1 DEF GrantInv, TypeOK, RefreshesCurrent
  <2>2. QED
    BY <2>1 DEF NewestRefreshRules
<1>12. QED
  BY <1>3, <1>6, <1>8, <1>9, <1>10, <1>11 DEF GrantInv

\* Steps that leave the grant, the refreshes and the cache alone.
Apart == UNCHANGED <<grant, commits, approved, refresh, cache, source>>

LEMMA ApartKeeps ==
    ASSUME GrantInv, Apart, PoolInv',
           wanted' \in [Agents -> SUBSET Tools], calling' \in [Agents -> Tools \cup {None}],
           \A a \in Agents : calling'[a] # None => calling'[a] \in approved
    PROVE  GrantInv'
<1>1. /\ grant' = grant /\ commits' = commits /\ approved' = approved
      /\ refresh' = refresh /\ cache' = cache /\ source' = source
  BY DEF Apart
<1>2. TypeOK'
  BY <1>1 DEF GrantInv, TypeOK, PoolInv
<1>3. OffersApproved' /\ RefreshesCurrent' /\ NewestRefreshRules'
  BY <1>1 DEF GrantInv, OffersApproved, RefreshesCurrent, NewestRefreshRules
<1>4. DirectCallsGranted'
  BY <1>1 DEF DirectCallsGranted
<1>5. QED
  BY <1>2, <1>3, <1>4 DEF GrantInv

LEMMA HostRefreshKeeps ==
    ASSUME GrantInv, HostRefresh
    PROVE  GrantInv'
<1>1. /\ commits' = commits /\ grant' = grant /\ approved' = approved
      /\ calling' = calling /\ cache' = cache /\ source' = source /\ wanted' = wanted
  BY DEF HostRefresh
<1>2. PICK r \in Refreshes : StartRefresh(r)
  BY DEF HostRefresh
<1>3. PoolInv'
  BY <1>2, BeginKeeps, UsersAssumption DEF StartRefresh, GrantInv
<1>4. refresh' = [refresh EXCEPT ![r] = [NoRefresh EXCEPT !.since = commits]]
  BY <1>1, <1>2 DEF StartRefresh
<1>5. commits \in Nat
  BY UsersAssumption DEF GrantInv, TypeOK
<1>6. /\ [NoRefresh EXCEPT !.since = commits] \in Refresh
      /\ [NoRefresh EXCEPT !.since = commits].doc = None
      /\ [NoRefresh EXCEPT !.since = commits].since = commits
  BY <1>5, NoRefreshIsRefresh DEF Refresh, NoRefresh
<1>7. TypeOK'
  BY <1>1, <1>3, <1>4, <1>6 DEF GrantInv, TypeOK, PoolInv
<1>8. \A q \in Refreshes : refresh'[q] = IF q = r THEN [NoRefresh EXCEPT !.since = commits] ELSE refresh[q]
  BY <1>4 DEF GrantInv, TypeOK
<1>9. OffersApproved'
  BY <1>1, <1>6, <1>8 DEF GrantInv, OffersApproved
<1>10. RefreshesCurrent'
  <2>1. commits \in 0..commits
    BY <1>5
  <2>2. QED
    BY <1>1, <1>6, <1>8, <2>1 DEF GrantInv, RefreshesCurrent
<1>11. DirectCallsGranted' /\ NewestRefreshRules'
  BY <1>1 DEF GrantInv, DirectCallsGranted, NewestRefreshRules
<1>12. QED
  BY <1>3, <1>7, <1>9, <1>10, <1>11 DEF GrantInv

LEMMA ReadDocKeeps ==
    ASSUME GrantInv, NEW r \in Refreshes, ReadDoc(r)
    PROVE  GrantInv'
<1>1. /\ commits' = commits /\ grant' = grant /\ approved' = approved
      /\ calling' = calling /\ cache' = cache /\ source' = source /\ wanted' = wanted
      /\ warm' = warm /\ connecting' = connecting /\ run' = run /\ client' = client
      /\ user' = user /\ served' = served /\ closed' = closed
  BY DEF ReadDoc, pool
<1>2. PoolInv'
  BY <1>1 DEF GrantInv, PoolInv, PoolTypeOK, WarmIsOpen, TriesApart, ConnectingRuns, Waiting,
              NobodyStranded, OneConnect, OneClient
<1>3. /\ refresh[r] \in Refresh /\ grant \in Grant
      /\ refresh[r].since # None /\ refresh[r].doc = None
  BY DEF ReadDoc, GrantInv, TypeOK
<1>4. PICK d \in Grant \cup {None}, f \in BOOLEAN :
        /\ refresh' = [refresh EXCEPT ![r] = [refresh[r] EXCEPT !.doc = d, !.failed = f]]
        /\ d # None => d = grant
  <2>1. CASE refresh' = [refresh EXCEPT ![r].doc = grant]
    <3>1. refresh' = [refresh EXCEPT ![r] = [refresh[r] EXCEPT !.doc = grant, !.failed = refresh[r].failed]]
      BY <2>1, <1>3 DEF GrantInv, TypeOK, Refresh
    <3>2. refresh[r].failed \in BOOLEAN
      BY <1>3 DEF Refresh
    <3>3. QED
      BY <3>1, <3>2, <1>3
  <2>2. CASE refresh' = [refresh EXCEPT ![r].failed = TRUE]
    <3>1. refresh' = [refresh EXCEPT ![r] = [refresh[r] EXCEPT !.doc = None, !.failed = TRUE]]
      BY <2>2, <1>3 DEF GrantInv, TypeOK, Refresh
    <3>2. QED
      BY <3>1
  <2>3. QED
    BY <2>1, <2>2 DEF ReadDoc
<1>5. \A q \in Refreshes :
        /\ refresh'[q].since = refresh[q].since
        /\ refresh'[q].doc = IF q = r THEN d ELSE refresh[q].doc
  BY <1>3, <1>4 DEF GrantInv, TypeOK, Refresh
<1>6. TypeOK'
  <2>1. [refresh[r] EXCEPT !.doc = d, !.failed = f] \in Refresh
    BY <1>3 DEF Refresh
  <2>2. QED
    BY <1>1, <1>2, <1>4, <2>1 DEF GrantInv, TypeOK, PoolInv
<1>7. OffersApproved'
  BY <1>1, <1>4, <1>5 DEF GrantInv, OffersApproved
<1>8. RefreshesCurrent'
  BY <1>1, <1>3, <1>4, <1>5 DEF GrantInv, RefreshesCurrent
<1>9. DirectCallsGranted' /\ NewestRefreshRules'
  BY <1>1 DEF GrantInv, DirectCallsGranted, NewestRefreshRules
<1>10. QED
  BY <1>2, <1>6, <1>7, <1>8, <1>9 DEF GrantInv

\* A refresh ends, with a new cache or with the old one.
LEMMA RefreshEnds ==
    ASSUME GrantInv, NEW r \in Refreshes, Finish(r) \/ Abandon(r)
    PROVE  GrantInv'
<1>1. /\ commits' = commits /\ grant' = grant /\ approved' = approved
      /\ calling' = calling /\ wanted' = wanted
      /\ refresh' = [refresh EXCEPT ![r] = NoRefresh]
      /\ user' = [user EXCEPT ![r] = NoUser]
      /\ UNCHANGED <<warm, connecting, run, client, served, closed>>
  BY DEF Finish, Abandon
<1>2. PoolInv'
  BY <1>1, UserMovesOn, NoUserIsUser, UsersAssumption DEF GrantInv
<1>3. \A q \in Refreshes : refresh'[q] = IF q = r THEN NoRefresh ELSE refresh[q]
  BY <1>1 DEF GrantInv, TypeOK
<1>4. \/ cache' = cache /\ source' = source
      \/ /\ refresh[r].doc # None
         /\ cache' = Assembled(refresh[r].doc, user[r].found)
         /\ source' = refresh[r].since
  BY DEF Finish, Abandon
<1>5. ASSUME refresh[r].doc # None, NEW e \in Assembled(refresh[r].doc, user[r].found)
      PROVE  /\ e \in user[r].found
             /\ e.tool \in refresh[r].doc.tools
             /\ refresh[r].doc.status = "granted" /\ ~refresh[r].doc.scoped
             /\ e.tool \in Offers(refresh[r].doc)
  BY <1>5 DEF Assembled, Offers
<1>6. cache' \subseteq Entry /\ source' \in 0..MaxCommits /\ source' <= commits
  <2>1. user[r].found \subseteq Entry
    BY UsersAssumption DEF GrantInv, PoolInv, PoolTypeOK, User
  <2>2. refresh[r].doc # None => refresh[r].since \in 0..commits
    BY DEF GrantInv, RefreshesCurrent
  <2>3. /\ cache \subseteq Entry /\ source \in 0..MaxCommits /\ source <= commits
        /\ commits \in 0..MaxCommits
    BY DEF GrantInv, TypeOK, RefreshesCurrent
  <2>4. QED
    BY <1>4, <1>5, <2>1, <2>2, <2>3, UsersAssumption
<1>7. TypeOK'
  BY <1>1, <1>2, <1>6, NoRefreshIsRefresh DEF GrantInv, TypeOK, PoolInv
<1>8. OffersApproved'
  <2>1. ASSUME NEW e \in cache' PROVE e.tool \in approved
    BY <2>1, <1>4, <1>5 DEF GrantInv, OffersApproved
  <2>2. QED
    BY <1>1, <1>3, <2>1, NoRefreshIsRefresh DEF GrantInv, OffersApproved
<1>9. RefreshesCurrent'
  BY <1>1, <1>3, <1>6, NoRefreshIsRefresh DEF GrantInv, RefreshesCurrent
<1>10. DirectCallsGranted'
  BY <1>1 DEF GrantInv, DirectCallsGranted
<1>11. NewestRefreshRules'
  <2>1. CASE cache' = cache /\ source' = source
    BY <1>1, <2>1 DEF GrantInv, NewestRefreshRules
  <2>2. CASE /\ refresh[r].doc # None
             /\ cache' = Assembled(refresh[r].doc, user[r].found)
             /\ source' = refresh[r].since
    <3>1. source' = commits => refresh[r].doc = grant
      BY <2>2 DEF GrantInv, RefreshesCurrent
    <3>2. QED
      BY <1>1, <1>5, <2>2, <3>1 DEF NewestRefreshRules
  <2>3. QED
    BY <1>4, <2>1, <2>2
<1>12. QED
  BY <1>2, <1>7, <1>8, <1>9, <1>10, <1>11 DEF GrantInv

LEMMA PoolStepKeeps ==
    ASSUME GrantInv, PoolStep
    PROVE  GrantInv'
<1>1. Apart /\ wanted' = wanted /\ calling' = calling
  BY DEF PoolStep, Apart
<1>2. PoolInv'
  BY SettleKeeps, ReplyKeeps, DropKeeps, CloseKeeps DEF PoolStep, GrantInv
<1>3. QED
  BY <1>1, <1>2, ApartKeeps DEF GrantInv, TypeOK, DirectCallsGranted

LEMMA GrantStepKeeps ==
    ASSUME GrantInv, GrantStep
    PROVE  GrantInv'
<1>1. ASSUME NEW tools \in SUBSET Tools, NEW scoped \in BOOLEAN, Approve(tools, scoped)
      PROVE  GrantInv'
  <2>1. [status |-> "granted", tools |-> grant.tools \cap tools, scoped |-> scoped] \in Grant
    BY DEF Grant
  <2>2. wanted' \in [Agents -> SUBSET Tools]
    BY <1>1 DEF Approve, GrantInv, TypeOK
  <2>3. QED
    BY <1>1, <2>1, <2>2, CommitKeeps DEF Approve
<1>2. CASE Revoke
  <2>1. [grant EXCEPT !.status = "revoked", !.scoped = FALSE] \in Grant
    BY DEF Grant, GrantInv, TypeOK
  <2>2. wanted' \in [Agents -> SUBSET Tools]
    BY <1>2 DEF Revoke, GrantInv, TypeOK
  <2>3. QED
    BY <1>2, <2>1, <2>2, CommitKeeps DEF Revoke
<1>3. QED
  BY <1>1, <1>2, HostRefreshKeeps DEF GrantStep

LEMMA AgentStepKeeps ==
    ASSUME GrantInv, AgentStep
    PROVE  GrantInv'
<1> PICK a \in Agents : \/ \E tools \in SUBSET Tools \ {{}} : Search(a, tools)
                       \/ Request(a)
                       \/ \E e \in cache : CallTool(a, e)
  BY DEF AgentStep
<1>a. a \in Users
  BY DEF Agents
<1>1. ASSUME NEW tools \in SUBSET Tools, Search(a, tools)
      PROVE  GrantInv'
  <2>1. Apart /\ calling' = calling
    BY <1>1 DEF Search, Apart
  <2>2. wanted' \in [Agents -> SUBSET Tools]
    BY <1>1 DEF Search, GrantInv, TypeOK
  <2>3. PoolInv'
    BY <1>1, <1>a, BeginKeeps DEF Search, GrantInv
  <2>4. QED
    BY <2>1, <2>2, <2>3, ApartKeeps DEF GrantInv, TypeOK, DirectCallsGranted
<1>2. CASE Request(a)
  <2> DEFINE g == [status |-> "requested", tools |-> grant.tools \cup Known(a), scoped |-> FALSE]
  <2>1. g \in Grant
    BY <1>a DEF Grant, Known, GrantInv, TypeOK
  <2>2. wanted' \in [Agents -> SUBSET Tools]
    BY <1>2 DEF Request, GrantInv, TypeOK
  <2>3. Commit(g)
    BY <1>2 DEF Request
  <2>4. QED
    BY <2>1, <2>2, <2>3, CommitKeeps
<1>3. ASSUME NEW e \in cache, CallTool(a, e)
      PROVE  GrantInv'
  <2>1. Apart /\ wanted' = wanted /\ calling' = [calling EXCEPT ![a] = e.tool]
    BY <1>3 DEF CallTool, Apart
  <2>2. e.tool \in Tools /\ e.tool \in approved
    BY DEF GrantInv, TypeOK, Entry, OffersApproved
  <2>3. PoolInv'
    BY <1>3, <1>a, <2>2, BeginKeeps DEF CallTool, GrantInv
  <2>4. QED
    BY <2>1, <2>2, <2>3, ApartKeeps DEF GrantInv, TypeOK, DirectCallsGranted
<1>4. QED
  BY <1>1, <1>2, <1>3

LEMMA EndStepKeeps ==
    ASSUME GrantInv, EndStep
    PROVE  GrantInv'
<1> PICK a \in Agents : SearchEnds(a) \/ CallEnds(a)
  BY DEF EndStep
<1>1. /\ Apart
      /\ user' = [user EXCEPT ![a] = NoUser]
      /\ UNCHANGED <<warm, connecting, run, client, served, closed>>
  BY DEF SearchEnds, CallEnds, Apart
<1>2. PoolInv'
  BY <1>1, UserMovesOn, NoUserIsUser DEF GrantInv, Agents
<1>3. wanted' \in [Agents -> SUBSET Tools] /\ calling' \in [Agents -> Tools \cup {None}]
  BY DEF SearchEnds, CallEnds, GrantInv, TypeOK
<1>4. \A b \in Agents : calling'[b] # None => calling'[b] \in approved
  BY DEF SearchEnds, CallEnds, GrantInv, TypeOK, DirectCallsGranted
<1>5. QED
  BY <1>1, <1>2, <1>3, <1>4, ApartKeeps

LEMMA StepKeeps == GrantInv /\ [Next]_vars => GrantInv'
<1> SUFFICES ASSUME GrantInv, [Next]_vars PROVE GrantInv'
  OBVIOUS
<1>1. CASE PoolStep
  BY <1>1, PoolStepKeeps
<1>2. CASE GrantStep
  BY <1>2, GrantStepKeeps
<1>3. CASE AgentStep
  BY <1>3, AgentStepKeeps
<1>4. CASE RefreshStep
  BY <1>4, ReadDocKeeps, RefreshEnds DEF RefreshStep
<1>5. CASE EndStep
  BY <1>5, EndStepKeeps
<1>6. CASE UNCHANGED vars
  <2>1. /\ Apart /\ wanted' = wanted /\ calling' = calling
        /\ warm' = warm /\ connecting' = connecting /\ run' = run /\ client' = client
        /\ user' = user /\ served' = served /\ closed' = closed
    BY <1>6 DEF vars, pool, Apart
  <2>2. PoolInv'
    BY <2>1 DEF GrantInv, PoolInv, PoolTypeOK, WarmIsOpen, TriesApart, ConnectingRuns, Waiting,
                NobodyStranded, OneConnect, OneClient
  <2>3. QED
    BY <2>1, <2>2, ApartKeeps DEF GrantInv, TypeOK, DirectCallsGranted
<1>7. QED
  BY <1>1, <1>2, <1>3, <1>4, <1>5, <1>6 DEF Next, Begins

\* The inductive invariant of the pool and the grants.
THEOREM GrantsInvariant == Spec => []GrantInv
<1>1. QED
  BY GrantInit, StepKeeps, PTL DEF Spec

\* Every connector has at most one client, however many users overlap, connects fail and
\* transports end: the warm one, which is connected, or the one its only connect tries.
THEOREM OneLiveClientHolds == Spec => []OneLiveClient
<1>1. GrantInv => OneLiveClient
  BY DEF GrantInv, PoolInv, OneLiveClient
<1>2. QED
  BY <1>1, GrantsInvariant, PTL

\* Whoever waits for a connect waits for one that is under way, to the connector needed.
THEOREM NobodyStrandedHolds == Spec => []NobodyStranded
<1>1. GrantInv => NobodyStranded
  BY DEF GrantInv, PoolInv
<1>2. QED
  BY <1>1, GrantsInvariant, PTL

\* Agents execute without asking only what the operator granted to them, and a cache that
\* the newest commit's refresh wrote offers only what the current grant does.
THEOREM GrantsRespectedHolds == Spec => []GrantsRespected
<1>1. GrantInv => GrantsRespected
  BY DEF GrantInv, GrantsRespected
<1>2. QED
  BY <1>1, GrantsInvariant, PTL

-----------------------------------------------------------------------------
(***************************************************************************)
(* What a model streams                                                    *)
(***************************************************************************)
CallIds == GivenIds \cup MadeUp

Kinds == {"text-start", "text-delta", "text-end", "tool-call-start", "tool-call-delta",
          "tool-call-ready", "usage", "stop", "error"}
Names == {"text", "usage", "", "tool_use", "length", "refusal", "end"}
ArgLists == Seq(Nat \X Nat)

\* What may be yielded; texts, ends and errors have names of their own.
Yields ==
  [kind : Kinds, id : CallIds \cup Names, args : ArgLists]

Made == [id : CallIds, args : ArgLists]

\* Calls are begun one after another, each once.
CallsInOrder ==
  /\ StreamTypeOK /\ manner \in {"blocks", "each", "all"}
  /\ calls \in Seq(Made) /\ deltas \in Seq(Yields)
  /\ Len(calls) <= Len(Tool) /\ meant = [i \in 1..Len(calls) |-> i]

\* The index of a call that is not whole yet is its own.
IndexInUse ==
  /\ manner # "all" => byIndex = [i \in 1..Len(calls) |-> i]
  /\ manner = "all" =>
       /\ byIndex = [i \in (IF calls = <<>> THEN {} ELSE {0}) |-> Len(calls)]
       /\ \A i \in DOMAIN calls : i < Len(calls) => Whole(i)

\* An id made up is the call's own.
IdsApart ==
  /\ \A i, j \in DOMAIN calls : i # j => calls[i].id # calls[j].id
  /\ \A i \in DOMAIN calls :
       \/ calls[i].id \in GivenIds
       \/ calls[i].id = (IF manner = "blocks" THEN <<"tool", i>> ELSE <<Tool[i], i - 1>>)

FragmentsKept ==
  /\ \A i \in DOMAIN calls : calls[i].args = [k \in 1..parts[i] |-> <<i, k>>]
  /\ \A c \in DOMAIN Tool : parts[c] <= Fragments[c] /\ (c > Len(calls) => parts[c] = 0)
  /\ stopped \subseteq DOMAIN calls /\ (manner # "blocks" => stopped = {})

\* Only a block that has ended is ready before the answer is over.
DeltasTell ==
  /\ \A p \in DOMAIN calls : \E s \in Yielded("tool-call-start") : deltas[s].id = calls[p].id
  /\ \A i \in Yielded("tool-call-ready") \cup Yielded("tool-call-delta") :
       /\ \E p \in DOMAIN calls : calls[p].id = deltas[i].id
       /\ \E s \in Yielded("tool-call-start") : s < i /\ deltas[s].id = deltas[i].id
  /\ \A i \in Yielded("tool-call-ready"), j \in Yielded("tool-call-ready") \cup Yielded("tool-call-delta") :
       i < j => deltas[i].id # deltas[j].id
  /\ \A p \in stopped : \E i \in Yielded("tool-call-ready") : deltas[i].id = calls[p].id
  /\ ~ Over => /\ Yielded("usage") = {}
               /\ \A i \in Yielded("tool-call-ready"), p \in DOMAIN calls :
                    deltas[i].id = calls[p].id => p \in stopped

\* A reason but the length is given when no call is in the middle.
ReasonMeans ==
  stop \notin {"unsaid", "length"} =>
     \A p \in DOMAIN calls : Whole(p) /\ (manner = "blocks" => p \in stopped)

StreamInv ==
  /\ CallsInOrder /\ IndexInUse /\ IdsApart /\ FragmentsKept /\ DeltasTell /\ ReasonMeans
  /\ ReadyIsMeant /\ NoneLeftOut

LEMMA NoArgs == <<>> \in ArgLists
  BY DEF ArgLists

LEMMA DeltaYields ==
    ASSUME NEW k \in Kinds, NEW id \in CallIds \cup Names
    PROVE  Delta(k, id) \in Yields /\ Delta(k, id).kind = k /\ Delta(k, id).id = id
  BY NoArgs DEF Delta, Yields

\* What the yields of one delta more are.
LEMMA YieldsAll ==
    ASSUME deltas \in Seq(Yields), NEW new \in Seq(Yields), Yield(new)
    PROVE  /\ deltas' \in Seq(Yields) /\ DOMAIN deltas' = 1..(Len(deltas) + Len(new))
           /\ \A i \in 1..Len(deltas) : deltas'[i] = deltas[i]
           /\ \A i \in 1..Len(new) : deltas'[Len(deltas) + i] = new[i]
<1>1. deltas' = deltas \o new
  BY DEF Yield
<1>2. QED
  BY <1>1

LEMMA YieldsOne ==
    ASSUME deltas \in Seq(Yields), NEW d \in Yields, Yield(<<d>>)
    PROVE  /\ deltas' \in Seq(Yields) /\ DOMAIN deltas' = 1..(Len(deltas) + 1)
           /\ \A i \in 1..Len(deltas) : deltas'[i] = deltas[i]
           /\ deltas'[Len(deltas) + 1] = d
           /\ Over' <=> d.kind \in {"stop", "error"}
<1> DEFINE new == <<d>>
<1>1. new \in Seq(Yields) /\ Len(new) = 1 /\ new[1] = d
  <2>1. Len(<<d>>) = 1 /\ <<d>>[1] = d
    OBVIOUS
  <2>2. <<d>> \in Seq(Yields)
    OBVIOUS
  <2>3. QED
    BY <2>1, <2>2
<1>a. Yield(new)
  OBVIOUS
<1> HIDE DEF new
<1>2. /\ deltas' \in Seq(Yields) /\ DOMAIN deltas' = 1..(Len(deltas) + 1)
      /\ \A i \in 1..Len(deltas) : deltas'[i] = deltas[i]
      /\ deltas'[Len(deltas) + 1] = d
  <2>1. /\ deltas' \in Seq(Yields) /\ DOMAIN deltas' = 1..(Len(deltas) + Len(new))
        /\ \A i \in 1..Len(deltas) : deltas'[i] = deltas[i]
        /\ \A i \in 1..Len(new) : deltas'[Len(deltas) + i] = new[i]
    BY <1>1, <1>a, YieldsAll
  <2>2. QED
    BY <1>1, <2>1
<1>3. Len(deltas') = Len(deltas) + 1 /\ deltas' # <<>>
  BY <1>2
<1>4. Last(deltas') = d
  BY <1>2, <1>3 DEF Last
<1>5. QED
  BY <1>2, <1>3, <1>4 DEF Over

LEMMA StreamInitial == StreamInit => StreamInv
<1> SUFFICES ASSUME StreamInit PROVE StreamInv
  OBVIOUS
<1> USE ModelStreamAssumption DEF StreamInit
<1>1. CallsInOrder
  BY DEF CallsInOrder, StreamTypeOK
<1>2. IndexInUse /\ IdsApart
  BY DEF IndexInUse, IdsApart
<1>3. FragmentsKept
  BY DEF FragmentsKept
<1>4. DeltasTell /\ ReadyIsMeant /\ NoneLeftOut /\ ReasonMeans
  BY DEF DeltasTell, Yielded, ReadyIsMeant, NoneLeftOut, Over, ReasonMeans
<1>5. QED
  BY <1>1, <1>2, <1>3, <1>4 DEF StreamInv

LEMMA CallsFacts ==
    ASSUME StreamInv
    PROVE  /\ DOMAIN calls = 1..Len(calls) /\ Len(calls) \in Nat /\ DOMAIN meant = DOMAIN calls
           /\ Len(meant) = Len(calls) /\ \A i \in DOMAIN calls : meant[i] = i
           /\ DOMAIN Tool = 1..Len(Tool) /\ Len(Tool) \in Nat /\ DOMAIN calls \subseteq DOMAIN Tool
           /\ \A c \in DOMAIN Tool : Sent(c) <=> c \in DOMAIN calls
           /\ \A i \in DOMAIN calls : calls[i] \in Made
           /\ calls = <<>> <=> Len(calls) = 0
<1>1. /\ calls \in Seq(Made)
      /\ Len(calls) <= Len(Tool) /\ meant = [i \in 1..Len(calls) |-> i] /\ Tool \in Seq(STRING)
  BY ModelStreamAssumption DEF StreamInv, CallsInOrder
<1>2. DOMAIN calls = 1..Len(calls) /\ Len(calls) \in Nat /\ DOMAIN Tool = 1..Len(Tool) /\ Len(Tool) \in Nat
  BY <1>1
<1>3. DOMAIN meant = DOMAIN calls /\ \A i \in DOMAIN calls : meant[i] = i
  BY <1>1, <1>2
<1>4. Len(meant) = Len(calls)
  BY <1>1
<1>5. DOMAIN calls \subseteq DOMAIN Tool
  BY <1>1, <1>2
<1>6. \A c \in DOMAIN Tool : Sent(c) <=> c \in DOMAIN calls
  BY <1>2, <1>3, <1>5 DEF Sent
<1>7. (calls = <<>> <=> Len(calls) = 0) /\ \A i \in DOMAIN calls : calls[i] \in Made
  <2>1. calls = <<>> <=> Len(calls) = 0
    BY <1>1
  <2>2. \A i \in 1..Len(calls) : calls[i] \in Made
    BY <1>1
  <2>3. QED
    BY <1>2, <2>1, <2>2
<1>8. QED
  BY <1>2, <1>3, <1>4, <1>5, <1>6, <1>7

Kept == <<manner, parts, stopped, calls, byIndex, meant>>

\* A delta of a text, an end or an error tells nothing of a call.
LEMMA NeutralTold ==
    ASSUME StreamInv, ~ Over, UNCHANGED Kept, text' \in {"none", "open", "ended"},
           stop' \in StopReasons \cup {"unsaid"}, ReasonMeans',
           NEW n \in Nat, deltas' \in Seq(Yields), DOMAIN deltas' = 1..(Len(deltas) + n),
           \A i \in 1..Len(deltas) : deltas'[i] = deltas[i],
           \A i \in (Len(deltas) + 1)..(Len(deltas) + n) :
              deltas'[i].kind \in {"text-start", "text-delta", "text-end", "stop", "error"}
    PROVE  StreamInv'
<1> USE DEF Kept
<1>0. DeltasTell /\ calls' = calls /\ stopped' = stopped
  BY DEF StreamInv
<1>1. Len(deltas) \in Nat /\ DOMAIN deltas = 1..Len(deltas)
  BY DEF StreamInv, CallsInOrder
<1>2. /\ Yielded("tool-call-start")' = Yielded("tool-call-start")
      /\ Yielded("tool-call-ready")' = Yielded("tool-call-ready")
      /\ Yielded("tool-call-delta")' = Yielded("tool-call-delta")
      /\ Yielded("usage")' = Yielded("usage")
  <2> SUFFICES ASSUME NEW k \in {"tool-call-start", "tool-call-ready", "tool-call-delta", "usage"}
               PROVE  {i \in DOMAIN deltas' : deltas'[i].kind = k} = {i \in DOMAIN deltas : deltas[i].kind = k}
    BY DEF Yielded
  <2>1. \A i \in DOMAIN deltas' : i \in DOMAIN deltas \/ i \in (Len(deltas) + 1)..(Len(deltas) + n)
    BY <1>1
  <2>2. DOMAIN deltas \subseteq DOMAIN deltas'
    BY <1>1
  <2>3. QED
    BY <1>1, <2>1, <2>2
<1>3. \A i \in Yielded("tool-call-start") \cup Yielded("tool-call-ready") \cup Yielded("tool-call-delta") :
         i \in 1..Len(deltas) /\ deltas'[i] = deltas[i]
  BY <1>1 DEF Yielded
<1>4. CallsInOrder' /\ IndexInUse' /\ IdsApart' /\ FragmentsKept'
  <2>1. CallsInOrder'
    BY DEF StreamInv, CallsInOrder, StreamTypeOK
  <2>2. IndexInUse'
    BY DEF StreamInv, IndexInUse, Whole
  <2>3. IdsApart'
    BY DEF StreamInv, IdsApart
  <2>4. FragmentsKept'
    BY DEF StreamInv, FragmentsKept
  <2>5. QED
    BY <2>1, <2>2, <2>3, <2>4
<1>5. DeltasTell'
  <2>1. \A p \in DOMAIN calls' : \E s \in Yielded("tool-call-start")' : deltas'[s].id = calls'[p].id
    BY <1>0, <1>2, <1>3 DEF DeltasTell
  <2>2. \A i \in Yielded("tool-call-ready")' \cup Yielded("tool-call-delta")' :
          /\ \E p \in DOMAIN calls' : calls'[p].id = deltas'[i].id
          /\ \E s \in Yielded("tool-call-start")' : s < i /\ deltas'[s].id = deltas'[i].id
    <3> SUFFICES ASSUME NEW i \in Yielded("tool-call-ready") \cup Yielded("tool-call-delta")
                 PROVE  /\ \E p \in DOMAIN calls : calls[p].id = deltas'[i].id
                        /\ \E s \in Yielded("tool-call-start") : s < i /\ deltas'[s].id = deltas'[i].id
      BY <1>0, <1>2
    <3>1. PICK p \in DOMAIN calls : calls[p].id = deltas[i].id
      BY <1>0 DEF DeltasTell
    <3>2. PICK s \in Yielded("tool-call-start") : s < i /\ deltas[s].id = deltas[i].id
      BY <1>0 DEF DeltasTell
    <3>3. deltas'[i] = deltas[i] /\ deltas'[s] = deltas[s]
      BY <1>3, <3>2
    <3>4. QED
      BY <3>1, <3>2, <3>3
  <2>3. \A i \in Yielded("tool-call-ready")', j \in Yielded("tool-call-ready")' \cup Yielded("tool-call-delta")' :
          i < j => deltas'[i].id # deltas'[j].id
    <3> SUFFICES ASSUME NEW i \in Yielded("tool-call-ready"),
                        NEW j \in Yielded("tool-call-ready") \cup Yielded("tool-call-delta"), i < j
                 PROVE  deltas'[i].id # deltas'[j].id
      BY <1>2
    <3>1. deltas'[i] = deltas[i] /\ deltas'[j] = deltas[j]
      BY <1>3
    <3>2. QED
      BY <1>0, <3>1 DEF DeltasTell
  <2>4. \A p \in stopped' : \E i \in Yielded("tool-call-ready")' : deltas'[i].id = calls'[p].id
    BY SMTT(40), <1>0, <1>2, <1>3 DEF DeltasTell
  <2>7. /\ Yielded("usage") = {}
        /\ \A i \in Yielded("tool-call-ready"), p \in DOMAIN calls :
              deltas[i].id = calls[p].id => p \in stopped
    BY <1>0 DEF DeltasTell
  <2>8. \A i \in Yielded("tool-call-ready") : deltas'[i] = deltas[i]
    BY <1>3
  <2>9. \A i \in Yielded("tool-call-ready"), p \in DOMAIN calls :
           deltas'[i].id = calls[p].id => p \in stopped
    BY <2>7, <2>8
  <2>5. /\ Yielded("usage")' = {}
        /\ \A i \in Yielded("tool-call-ready")', p \in DOMAIN calls' :
              deltas'[i].id = calls'[p].id => p \in stopped'
    BY <1>0, <1>2, <2>7, <2>9
  <2>6. QED
    BY <2>1, <2>2, <2>3, <2>4, <2>5 DEF DeltasTell
<1>6. ReadyIsMeant'
  BY <1>2, <1>3 DEF StreamInv, ReadyIsMeant, Whole
<1>7. NoneLeftOut'
  <2>1. Yielded("usage")' = {}
    BY <1>2 DEF StreamInv, DeltasTell
  <2>2. QED
    BY <2>1 DEF NoneLeftOut
<1>8. QED
  BY <1>4, <1>5, <1>6, <1>7 DEF StreamInv

LEMMA ReasonKept ==
    ASSUME StreamInv, UNCHANGED <<manner, parts, stopped, calls, stop>>
    PROVE  ReasonMeans'
  BY DEF StreamInv, ReasonMeans, Whole

LEMMA TextInv ==
    ASSUME StreamInv, TextArrives \/ TextStops
    PROVE  StreamInv'
<1>1. /\ deltas \in Seq(Yields) /\ Len(deltas) \in Nat
      /\ stop \in StopReasons \cup {"unsaid"}
  BY DEF StreamInv, CallsInOrder, StreamTypeOK
<1>2. /\ ~ Over /\ UNCHANGED Kept /\ UNCHANGED stop /\ text' \in {"none", "open", "ended"}
      /\ ReasonMeans'
  BY ReasonKept DEF TextArrives, TextStops, Reading, Kept
<1>3. /\ Delta("text-start", "text") \in Yields /\ Delta("text-start", "text").kind = "text-start"
      /\ Delta("text-delta", "text") \in Yields /\ Delta("text-delta", "text").kind = "text-delta"
  <2>1. {"text-start", "text-delta"} \subseteq Kinds /\ "text" \in Names
    BY DEF Kinds, Names
  <2>2. QED
    BY <2>1, DeltaYields
<1>4. CASE TextArrives
  <2> DEFINE a == Delta("text-start", "text")
             b == Delta("text-delta", "text")
             new == <<a, b>>
  <2>1. a \in Yields /\ b \in Yields /\ a.kind = "text-start" /\ b.kind = "text-delta" /\ Yield(new)
    <3>1. Yield(new)
      BY <1>4 DEF TextArrives
    <3>2. QED
      BY <1>3, <3>1
  <2> HIDE DEF a, b
  <2>2. new \in Seq(Yields)
    BY <2>1
  <2>3. Len(new) = 2 /\ new[1] = a /\ new[2] = b
    OBVIOUS
  <2> HIDE DEF new
  <2>4. /\ deltas' \in Seq(Yields) /\ DOMAIN deltas' = 1..(Len(deltas) + 2)
        /\ \A i \in 1..Len(deltas) : deltas'[i] = deltas[i]
        /\ \A i \in 1..2 : deltas'[Len(deltas) + i] = new[i]
    BY <1>1, <2>1, <2>2, <2>3, YieldsAll
  <2>5. deltas'[Len(deltas) + 1] = a /\ deltas'[Len(deltas) + 2] = b
    BY <2>3, <2>4
  <2>6. \A i \in (Len(deltas) + 1)..(Len(deltas) + 2) :
           deltas'[i].kind \in {"text-start", "text-delta", "text-end", "stop", "error"}
    BY <1>1, <2>1, <2>5
  <2>7. QED
    BY <1>1, <1>2, <2>4, <2>6, NeutralTold
<1>5. CASE TextStops
  <2> DEFINE a == Delta("text-end", "text")
  <2>1. a \in Yields /\ a.kind = "text-end" /\ Yield(<<a>>)
    <3>1. Yield(<<a>>)
      BY <1>5 DEF TextStops
    <3>2. a \in Yields /\ a.kind = "text-end"
      BY ZenonT(60), DeltaYields DEF Kinds, Names
    <3>3. QED
      BY <3>1, <3>2
  <2> HIDE DEF a
  <2>2. /\ deltas' \in Seq(Yields) /\ DOMAIN deltas' = 1..(Len(deltas) + 1)
        /\ \A i \in 1..Len(deltas) : deltas'[i] = deltas[i]
        /\ deltas'[Len(deltas) + 1] = a
    BY <1>1, <2>1, YieldsOne
  <2>3. \A i \in (Len(deltas) + 1)..(Len(deltas) + 1) :
           deltas'[i].kind \in {"text-start", "text-delta", "text-end", "stop", "error"}
    BY <1>1, <2>1, <2>2
  <2>4. QED
    BY <1>1, <1>2, <2>2, <2>3, NeutralTold
<1>6. QED
  BY <1>4, <1>5

LEMMA ReadFailsInv ==
    ASSUME StreamInv, ReadFails
    PROVE  StreamInv'
<1>1. /\ deltas \in Seq(Yields) /\ Len(deltas) \in Nat
      /\ stop \in StopReasons \cup {"unsaid"} /\ text \in {"none", "open", "ended"}
  BY DEF StreamInv, CallsInOrder, StreamTypeOK
<1>2. /\ ~ Over /\ UNCHANGED Kept /\ UNCHANGED stop /\ text' \in {"none", "open", "ended"}
      /\ ReasonMeans'
  BY <1>1, ReasonKept DEF ReadFails, Kept
<1>3. PICK a : (a = Delta("error", "") \/ a = Delta("stop", "end")) /\ Yield(<<a>>)
  BY DEF ReadFails
<1>4. a \in Yields /\ a.kind \in {"error", "stop"}
  <2>1. CASE a = Delta("error", "")
    BY <2>1, DeltaYields DEF Kinds, Names
  <2>2. CASE a = Delta("stop", "end")
    BY <2>2, DeltaYields DEF Kinds, Names
  <2>3. QED
    BY <1>3, <2>1, <2>2
<1>5. /\ deltas' \in Seq(Yields) /\ DOMAIN deltas' = 1..(Len(deltas) + 1)
      /\ \A i \in 1..Len(deltas) : deltas'[i] = deltas[i]
      /\ deltas'[Len(deltas) + 1] = a
  BY <1>1, <1>3, <1>4, YieldsOne
<1>6. \A i \in (Len(deltas) + 1)..(Len(deltas) + 1) :
         deltas'[i].kind \in {"text-start", "text-delta", "text-end", "stop", "error"}
  <2>1. \A i \in (Len(deltas) + 1)..(Len(deltas) + 1) : i = Len(deltas) + 1
    BY <1>1
  <2>2. QED
    BY <1>4, <1>5, <2>1
<1>7. QED
  BY <1>1, <1>2, <1>5, <1>6, NeutralTold

LEMMA ReasonInv ==
    ASSUME StreamInv, ReasonArrives
    PROVE  StreamInv'
<1>1. /\ deltas \in Seq(Yields) /\ Len(deltas) \in Nat /\ text \in {"none", "open", "ended"}
  BY DEF StreamInv, CallsInOrder, StreamTypeOK
<1>2. ~ Over /\ UNCHANGED Kept /\ UNCHANGED <<text, deltas>> /\ stop' \in StopReasons
  BY DEF ReasonArrives, Reading, Kept
<1>3. ReasonMeans'
  BY CallsFacts DEF ReasonArrives, ReasonMeans, Whole
<1>4. /\ deltas' \in Seq(Yields) /\ DOMAIN deltas' = 1..(Len(deltas) + 0)
      /\ \A i \in 1..Len(deltas) : deltas'[i] = deltas[i]
      /\ \A i \in (Len(deltas) + 1)..(Len(deltas) + 0) :
            deltas'[i].kind \in {"text-start", "text-delta", "text-end", "stop", "error"}
  BY <1>1, <1>2
<1>5. QED
  BY <1>1, <1>2, <1>3, <1>4, NeutralTold

\* An id is new: one the provider gave and that is in use is not taken.
LEMMA IdsNew ==
    ASSUME StreamInv, NEW c \in DOMAIN Tool, c = Len(calls) + 1, NEW given \in GivenIds \cup {NoId},
           manner = "blocks" => given \notin Ids
    PROVE  /\ IdOf(c, given) \in CallIds /\ \A i \in DOMAIN calls : calls[i].id # IdOf(c, given)
           /\ \/ IdOf(c, given) \in GivenIds
              \/ IdOf(c, given) = (IF manner = "blocks" THEN <<"tool", c>> ELSE <<Tool[c], c - 1>>)
<1>1. GivenIds \cap MadeUp = {} /\ NoId \notin GivenIds
  BY ModelStreamAssumption
<1>2. /\ DOMAIN Tool = 1..Len(Tool) /\ Len(Tool) \in Nat /\ Len(calls) \in Nat
      /\ DOMAIN calls = 1..Len(calls) /\ DOMAIN calls \subseteq DOMAIN Tool
  BY CallsFacts
<1>3. \A i \in DOMAIN Tool : <<"tool", i>> \in MadeUp /\ <<Tool[i], i - 1>> \in MadeUp
  <2>1. \A i \in DOMAIN Tool : i - 1 \in 0..Len(Tool)
    BY <1>2
  <2>2. QED
    BY <2>1 DEF MadeUp
<1>4. c - 1 = Len(calls) /\ c \notin DOMAIN calls
  BY <1>2
<1>5. \A i \in DOMAIN calls : \/ calls[i].id \in GivenIds
                              \/ calls[i].id = (IF manner = "blocks" THEN <<"tool", i>> ELSE <<Tool[i], i - 1>>)
  BY DEF StreamInv, IdsApart
<1>6. CASE given # NoId /\ given \notin Ids
  <2>1. IdOf(c, given) = given
    BY <1>6 DEF IdOf
  <2>2. QED
    BY <1>6, <2>1 DEF Ids, CallIds
<1>7. CASE ~ (given # NoId /\ given \notin Ids)
  <2>1. IdOf(c, given) = (IF manner = "blocks" THEN <<"tool", c>> ELSE <<Tool[c], c - 1>>)
    BY <1>4, <1>7 DEF IdOf
  <2>2. IdOf(c, given) \in MadeUp
    BY <1>3, <2>1
  <2>3. ASSUME NEW i \in DOMAIN calls PROVE calls[i].id # IdOf(c, given)
    <3>1. CASE calls[i].id \in GivenIds
      BY <1>1, <2>2, <3>1
    <3>2. CASE manner = "blocks" /\ calls[i].id = <<"tool", i>>
      BY <1>4, <2>1, <3>2
    <3>3. CASE manner # "blocks" /\ calls[i].id = <<Tool[i], i - 1>>
      <4>1. i - 1 # c - 1
        BY <1>2, <1>4
      <4>2. QED
        BY <2>1, <3>3, <4>1
    <3>4. QED
      BY <1>5, <3>1, <3>2, <3>3
  <2>4. QED
    BY <2>1, <2>2, <2>3 DEF CallIds
<1>8. QED
  BY <1>6, <1>7

LEMMA CallBeginsInv ==
    ASSUME StreamInv, NEW c \in DOMAIN Tool, CallBegins(c)
    PROVE  StreamInv'
<1>1. /\ deltas \in Seq(Yields) /\ Len(deltas) \in Nat /\ ~ Over /\ stop = "unsaid"
      /\ calls \in Seq(Made) /\ DOMAIN deltas = 1..Len(deltas)
      /\ UNCHANGED <<manner, parts, stopped, text, stop>>
  BY DEF StreamInv, CallsInOrder, CallBegins, Reading
<1>2. /\ DOMAIN Tool = 1..Len(Tool) /\ Len(Tool) \in Nat /\ Len(calls) \in Nat /\ Len(meant) = Len(calls)
      /\ DOMAIN calls = 1..Len(calls) /\ DOMAIN calls \subseteq DOMAIN Tool
      /\ \A d \in DOMAIN Tool : Sent(d) <=> d \in DOMAIN calls
      /\ \A i \in DOMAIN calls : calls[i] \in Made
      /\ calls = <<>> <=> Len(calls) = 0
  BY CallsFacts
<1>3. c = Len(calls) + 1
  <2>1. MayBegin(c)
    BY DEF CallBegins
  <2>2. c \notin DOMAIN calls /\ \A d \in 1..(c - 1) : d \in DOMAIN calls
    BY <1>2, <2>1 DEF MayBegin
  <2>3. c \in Nat /\ c > Len(calls)
    BY <1>2, <2>2
  <2>4. CASE c - 1 > Len(calls)
    BY <1>2, <2>2, <2>3, <2>4
  <2>5. QED
    BY <1>2, <2>3, <2>4
<1>4. PICK given \in GivenIds \cup {NoId} : (manner = "blocks" => given \notin Ids) /\ BeginAt(c, given)
  BY DEF CallBegins
<1> DEFINE id == IdOf(c, given)
           call == [id |-> id, args |-> <<>>]
           d == Delta("tool-call-start", id)
<1>5. /\ id \in CallIds /\ \A i \in DOMAIN calls : calls[i].id # id
      /\ id \in GivenIds \/ id = (IF manner = "blocks" THEN <<"tool", c>> ELSE <<Tool[c], c - 1>>)
  BY <1>3, <1>4, IdsNew
<1>6. call \in Made /\ call.id = id /\ call.args = <<>>
  BY <1>5, NoArgs DEF Made
<1>7. d \in Yields /\ d.kind = "tool-call-start" /\ d.id = id
  <2>1. "tool-call-start" \in Kinds
    BY DEF Kinds
  <2>2. QED
    BY <1>5, <2>1, DeltaYields
<1>8. calls' = Append(calls, call) /\ Yield(<<d>>) /\ meant' = Append(meant, c)
      /\ byIndex' = [i \in DOMAIN byIndex \cup {IndexOf(c)} |->
                       IF i = IndexOf(c) THEN Len(calls') ELSE byIndex[i]]
  BY <1>4 DEF BeginAt, CallBegins
<1> HIDE DEF call, d, id
<1>9. /\ calls' \in Seq(Made) /\ Len(calls') = Len(calls) + 1 /\ DOMAIN calls' = 1..(Len(calls) + 1)
      /\ \A i \in DOMAIN calls : calls'[i] = calls[i]
      /\ calls'[Len(calls) + 1] = call
  BY <1>1, <1>6, <1>8
<1>10. /\ deltas' \in Seq(Yields) /\ DOMAIN deltas' = 1..(Len(deltas) + 1)
       /\ \A i \in 1..Len(deltas) : deltas'[i] = deltas[i]
       /\ deltas'[Len(deltas) + 1] = d
       /\ ~ Over'
  <2>1. d.kind \notin {"stop", "error"}
    BY <1>7
  <2>2. QED
    BY <1>1, <1>7, <1>8, <2>1, YieldsOne
<1>11. meant' = [i \in 1..Len(calls') |-> i]
  <2>1. meant = [i \in 1..Len(calls) |-> i]
    BY DEF StreamInv, CallsInOrder
  <2>2. QED
    BY <1>2, <1>3, <1>8, <1>9, <2>1
<1>12. CallsInOrder'
  <2>1. Len(calls') <= Len(Tool) /\ Len(meant') = Len(calls')
    BY <1>2, <1>3, <1>9, <1>11
  <2>2. StreamTypeOK'
    BY <1>1, <2>1 DEF StreamTypeOK, StreamInv, CallsInOrder
  <2>3. QED
    BY <1>1, <1>9, <1>10, <1>11, <2>1, <2>2 DEF CallsInOrder, StreamInv
<1>13. IndexInUse'
  <2>1. CASE manner # "all"
    <3>1. byIndex = [i \in 1..Len(calls) |-> i] /\ IndexOf(c) = Len(calls) + 1
      BY <1>3, <2>1 DEF StreamInv, IndexInUse, IndexOf
    <3>2. byIndex' = [i \in 1..(Len(calls) + 1) |-> i]
      BY <1>2, <1>8, <1>9, <3>1
    <3>3. QED
      BY <1>1, <1>9, <2>1, <3>2 DEF IndexInUse
  <2>2. CASE manner = "all"
    <3>1. byIndex = [i \in (IF calls = <<>> THEN {} ELSE {0}) |-> Len(calls)] /\ IndexOf(c) = 0
      BY <2>2 DEF StreamInv, IndexInUse, IndexOf
    <3>2. calls' # <<>>
      BY <1>2, <1>9
    <3>3. byIndex' = [i \in {0} |-> Len(calls')]
      BY <1>8, <3>1
    <3>4. \A e \in 1..(c - 1) : Whole(e)
      BY <2>2 DEF CallBegins, MayBegin
    <3>5. \A i \in DOMAIN calls' : i < Len(calls') => Whole(i)'
      BY <1>1, <1>2, <1>3, <1>9, <3>4 DEF Whole
    <3>6. QED
      BY <1>1, <2>2, <3>2, <3>3, <3>5 DEF IndexInUse
  <2>3. QED
    BY <2>1, <2>2
<1>14. \A i \in DOMAIN calls' : \/ i \in DOMAIN calls /\ i # c /\ calls'[i] = calls[i]
                                \/ i = c /\ calls'[i] = call
  BY <1>2, <1>3, <1>9
<1>15. IdsApart'
  <2>1. \A i, j \in DOMAIN calls' : i # j => calls'[i].id # calls'[j].id
    BY <1>5, <1>6, <1>14 DEF StreamInv, IdsApart
  <2>2. \A i \in DOMAIN calls' : \/ calls'[i].id \in GivenIds
                                 \/ calls'[i].id = (IF manner = "blocks" THEN <<"tool", i>> ELSE <<Tool[i], i - 1>>)
    BY <1>5, <1>6, <1>14 DEF StreamInv, IdsApart
  <2>3. QED
    BY <1>1, <2>1, <2>2 DEF IdsApart
<1>16. FragmentsKept'
  <2>1. parts[c] = 0
    BY <1>2, <1>3 DEF StreamInv, FragmentsKept
  <2>2. <<>> = [k \in 1..0 |-> <<c, k>>]
    OBVIOUS
  <2>3. \A i \in DOMAIN calls' : calls'[i].args = [k \in 1..parts'[i] |-> <<i, k>>]
    BY SMTT(40), <1>1, <1>6, <1>14, <2>1, <2>2 DEF StreamInv, FragmentsKept
  <2>4. \A e \in DOMAIN Tool : parts'[e] <= Fragments[e] /\ (e > Len(calls') => parts'[e] = 0)
    <3>1. \A e \in DOMAIN Tool : e > Len(calls') => e > Len(calls)
      BY <1>2, <1>9
    <3>2. QED
      BY <1>1, <3>1 DEF StreamInv, FragmentsKept
  <2>5. stopped \subseteq DOMAIN calls'
    BY <1>2, <1>9 DEF StreamInv, FragmentsKept
  <2>6. QED
    BY <1>1, <2>3, <2>4, <2>5 DEF StreamInv, FragmentsKept
<1>17. /\ Yielded("tool-call-start")' = Yielded("tool-call-start") \cup {Len(deltas) + 1}
       /\ Yielded("tool-call-ready")' = Yielded("tool-call-ready")
       /\ Yielded("tool-call-delta")' = Yielded("tool-call-delta")
       /\ Yielded("usage")' = Yielded("usage")
  BY <1>1, <1>7, <1>10 DEF Yielded
<1>18. \A i \in Yielded("tool-call-start") \cup Yielded("tool-call-ready") \cup Yielded("tool-call-delta") :
          i \in 1..Len(deltas) /\ deltas'[i] = deltas[i]
  BY <1>1, <1>10 DEF Yielded
<1>19. DeltasTell'
  <2>0. DeltasTell
    BY DEF StreamInv
  <2>1. \A p \in DOMAIN calls' : \E s \in Yielded("tool-call-start")' : deltas'[s].id = calls'[p].id
    <3> SUFFICES ASSUME NEW p \in DOMAIN calls'
                 PROVE  \E s \in Yielded("tool-call-start")' : deltas'[s].id = calls'[p].id
      OBVIOUS
    <3>1. CASE p = c
      BY <1>6, <1>7, <1>10, <1>14, <1>17, <3>1
    <3>2. CASE p # c
      BY <2>0, <1>14, <1>17, <1>18, <3>2 DEF DeltasTell
    <3>3. QED
      BY <3>1, <3>2
  <2>2. \A i \in Yielded("tool-call-ready")' \cup Yielded("tool-call-delta")' :
          /\ \E p \in DOMAIN calls' : calls'[p].id = deltas'[i].id
          /\ \E s \in Yielded("tool-call-start")' : s < i /\ deltas'[s].id = deltas'[i].id
    <3> SUFFICES ASSUME NEW i \in Yielded("tool-call-ready") \cup Yielded("tool-call-delta")
                 PROVE  /\ \E p \in DOMAIN calls' : calls'[p].id = deltas'[i].id
                        /\ \E s \in Yielded("tool-call-start")' : s < i /\ deltas'[s].id = deltas'[i].id
      BY <1>17
    <3>1. PICK p \in DOMAIN calls : calls[p].id = deltas[i].id
      BY <2>0 DEF DeltasTell
    <3>2. PICK s \in Yielded("tool-call-start") : s < i /\ deltas[s].id = deltas[i].id
      BY <2>0 DEF DeltasTell
    <3>3. deltas'[i] = deltas[i] /\ deltas'[s] = deltas[s] /\ s \in Yielded("tool-call-start")'
      BY <1>17, <1>18, <3>2
    <3>4. p \in DOMAIN calls' /\ calls'[p] = calls[p]
      BY <1>2, <1>9
    <3>5. QED
      BY <3>1, <3>2, <3>3, <3>4
  <2>3. \A i \in Yielded("tool-call-ready")', j \in Yielded("tool-call-ready")' \cup Yielded("tool-call-delta")' :
          i < j => deltas'[i].id # deltas'[j].id
    <3> SUFFICES ASSUME NEW i \in Yielded("tool-call-ready"),
                        NEW j \in Yielded("tool-call-ready") \cup Yielded("tool-call-delta"), i < j
                 PROVE  deltas'[i].id # deltas'[j].id
      BY <1>17
    <3>1. deltas'[i] = deltas[i] /\ deltas'[j] = deltas[j]
      BY <1>18
    <3>2. QED
      BY <2>0, <3>1 DEF DeltasTell
  <2>4. \A p \in stopped' : \E i \in Yielded("tool-call-ready")' : deltas'[i].id = calls'[p].id
    <3>1. \A p \in stopped : p \in DOMAIN calls /\ calls'[p] = calls[p]
      BY <1>9 DEF StreamInv, FragmentsKept
    <3>2. ASSUME NEW p \in stopped
          PROVE  \E i \in Yielded("tool-call-ready") : deltas'[i].id = calls'[p].id
      <4>1. PICK i \in Yielded("tool-call-ready") : deltas[i].id = calls[p].id
        BY <2>0 DEF DeltasTell
      <4>2. QED
        BY <1>18, <3>1, <4>1
    <3>3. QED
      BY <1>1, <1>17, <3>2
  <2>5. Yielded("usage")' = {}
    BY <1>1, <2>0, <1>17 DEF DeltasTell
  <2>6. ASSUME NEW i \in Yielded("tool-call-ready"), NEW p \in DOMAIN calls', deltas'[i].id = calls'[p].id
        PROVE  p \in stopped'
    <3>1. deltas'[i] = deltas[i]
      BY <1>18
    <3>2. p \in DOMAIN calls /\ calls'[p] = calls[p]
      <4>1. PICK q \in DOMAIN calls : calls[q].id = deltas[i].id
        BY <2>0 DEF DeltasTell
      <4>2. QED
        BY <1>5, <1>6, <1>14, <2>6, <3>1, <4>1
    <3>3. QED
      BY <1>1, <2>0, <2>6, <3>1, <3>2 DEF DeltasTell
  <2>7. QED
    BY <1>17, <2>1, <2>2, <2>3, <2>4, <2>5, <2>6 DEF DeltasTell
<1>20. ReasonMeans' /\ NoneLeftOut'
  BY <1>1, <1>10 DEF ReasonMeans, NoneLeftOut
<1>21. ReadyIsMeant'
  <2> SUFFICES ASSUME NEW i \in Yielded("tool-call-ready")
               PROVE  \E p \in DOMAIN calls' :
                        /\ calls'[p].id = deltas'[i].id
                        /\ \/ deltas'[i].args = Arguments(meant'[p])
                           \/ deltas'[i].args = <<>> /\ ~ (parts'[meant'[p]] = Fragments[meant'[p]])
    BY <1>17 DEF ReadyIsMeant, Whole, Arguments
  <2>1. PICK p \in DOMAIN calls : /\ calls[p].id = deltas[i].id
                                  /\ \/ deltas[i].args = Arguments(meant[p])
                                     \/ deltas[i].args = <<>> /\ ~ Whole(meant[p])
    BY DEF StreamInv, ReadyIsMeant
  <2>2. deltas'[i] = deltas[i] /\ p \in DOMAIN calls' /\ calls'[p] = calls[p]
    BY <1>2, <1>9, <1>18
  <2>3. meant'[p] = meant[p]
    BY <1>2, <1>9, <1>11 DEF StreamInv, CallsInOrder
  <2>4. QED
    BY <1>1, <2>1, <2>2, <2>3 DEF Whole
<1>22. QED
  BY <1>12, <1>13, <1>15, <1>16, <1>19, <1>20, <1>21 DEF StreamInv

\* What comes of arguments that are not whole, or that are.
LEMMA ParsedArgs ==
    ASSUME StreamInv, NEW c \in DOMAIN calls
    PROVE  /\ Parsed(calls[c].args) \in ArgLists
           /\ \/ Parsed(calls[c].args) = Arguments(c)
              \/ Parsed(calls[c].args) = <<>> /\ ~ Whole(c)
<1>1. /\ c \in DOMAIN Tool /\ parts[c] \in Nat /\ parts[c] <= Fragments[c] /\ calls[c] \in Made
      /\ calls[c].args = [k \in 1..parts[c] |-> <<c, k>>]
  BY CallsFacts DEF StreamInv, CallsInOrder, StreamTypeOK, FragmentsKept
<1>2. \A d \in DOMAIN Tool : Fragments[d] \in Nat
  BY ModelStreamAssumption
<1>3. calls[c].args \in ArgLists
  BY <1>1 DEF Made
<1>4. CASE Whole(c)
  <2>1. calls[c].args = Arguments(c)
    BY <1>1, <1>4 DEF Whole, Arguments
  <2>2. QED
    BY <1>1, <1>3, <2>1 DEF Parsed
<1>5. CASE ~ Whole(c)
  <2>1. CASE \E d \in DOMAIN Tool : calls[c].args = Arguments(d)
    <3>1. PICK d \in DOMAIN Tool : calls[c].args = Arguments(d)
      BY <2>1
    <3>2. [k \in 1..parts[c] |-> <<c, k>>] = [k \in 1..Fragments[d] |-> <<d, k>>]
      BY <1>1, <3>1 DEF Arguments
    <3>3. parts[c] = 0
      <4> SUFFICES ASSUME parts[c] # 0 PROVE FALSE
        OBVIOUS
      <4>1. 1 \in 1..parts[c]
        BY <1>1
      <4>2. 1 \in 1..Fragments[d]
        <5>1. DOMAIN [k \in 1..parts[c] |-> <<c, k>>] = DOMAIN [k \in 1..Fragments[d] |-> <<d, k>>]
          BY <3>2
        <5>2. QED
          BY <4>1, <5>1
      <4>3. <<c, 1>> = <<d, 1>>
        BY <3>2, <4>1, <4>2
      <4>4. c = d
        BY <4>3
      <4>5. parts[c] = Fragments[c]
        <5>1. 1..parts[c] = 1..Fragments[c]
          BY <3>2, <4>4
        <5>2. QED
          BY <1>1, <1>2, <5>1
      <4>6. QED
        BY <1>5, <4>5 DEF Whole
    <3>4. calls[c].args = <<>>
      BY <1>1, <3>3
    <3>5. QED
      BY <1>5, <2>1, <3>4, NoArgs DEF Parsed
  <2>2. CASE ~ \E d \in DOMAIN Tool : calls[c].args = Arguments(d)
    BY <1>5, <2>2, NoArgs DEF Parsed
  <2>3. QED
    BY <2>1, <2>2
<1>6. QED
  BY <1>4, <1>5

LEMMA OneFragmentMore ==
    ASSUME NEW c, NEW n \in Nat, NEW m, m = n + 1, NEW s, s = [k \in 1..n |-> <<c, k>>]
    PROVE  Append(s, <<c, m>>) = [k \in 1..m |-> <<c, k>>]
<1> DEFINE t == Append(s, <<c, n + 1>>)
<1>1. s \in Seq({c} \X Nat) /\ Len(s) = n
  OBVIOUS
<1>2. \A k \in 1..n : s[k] = <<c, k>>
  OBVIOUS
<1>3. t \in Seq({c} \X Nat) /\ Len(t) = n + 1 /\ t[n + 1] = <<c, n + 1>> /\ \A k \in 1..n : t[k] = s[k]
  BY <1>1
<1> HIDE DEF t
<1>4. t = [k \in 1..(n + 1) |-> t[k]]
  BY <1>3
<1>5. \A k \in 1..(n + 1) : t[k] = <<c, k>>
  BY <1>2, <1>3
<1>6. t = [k \in 1..(n + 1) |-> <<c, k>>]
  BY <1>4, <1>5
<1>7. QED
  BY <1>6 DEF t

LEMMA FragmentInv ==
    ASSUME StreamInv, NEW c \in DOMAIN Tool, FragmentArrives(c)
    PROVE  StreamInv'
<1>1. /\ deltas \in Seq(Yields) /\ Len(deltas) \in Nat /\ ~ Over /\ stop = "unsaid"
      /\ calls \in Seq(Made) /\ DOMAIN deltas = 1..Len(deltas)
      /\ parts \in [DOMAIN Tool -> Nat]
      /\ UNCHANGED <<manner, stopped, byIndex, meant, text, stop>>
  BY DEF StreamInv, CallsInOrder, StreamTypeOK, FragmentArrives, Reading
<1>2. /\ DOMAIN Tool = 1..Len(Tool) /\ Len(Tool) \in Nat /\ Len(calls) \in Nat /\ Len(meant) = Len(calls)
      /\ DOMAIN calls = 1..Len(calls) /\ DOMAIN calls \subseteq DOMAIN Tool /\ c \in DOMAIN calls
      /\ \A i \in DOMAIN calls : calls[i] \in Made /\ meant[i] = i
      /\ calls = <<>> <=> Len(calls) = 0
  BY CallsFacts DEF FragmentArrives
<1>3. ~ Whole(c) /\ c \notin stopped /\ parts[c] <= Fragments[c] /\ Fragments[c] \in Nat
  BY <1>2, ModelStreamAssumption DEF FragmentArrives, StreamInv, FragmentsKept
<1>4. byIndex[IndexOf(c)] = c
  <2>1. CASE manner # "all"
    BY <1>2, <2>1 DEF StreamInv, IndexInUse, IndexOf
  <2>2. CASE manner = "all"
    <3>1. byIndex = [i \in (IF calls = <<>> THEN {} ELSE {0}) |-> Len(calls)] /\ IndexOf(c) = 0
      BY <2>2 DEF StreamInv, IndexInUse, IndexOf
    <3>2. ~ (c < Len(calls))
      BY <1>2, <1>3, <2>2 DEF StreamInv, IndexInUse
    <3>3. QED
      BY <1>2, <3>1, <3>2
  <2>3. QED
    BY <2>1, <2>2
<1> DEFINE d == Delta("tool-call-delta", calls[c].id)
<1>5. /\ parts' = [parts EXCEPT ![c] = @ + 1]
      /\ calls' = [calls EXCEPT ![c].args = Append(@, <<c, parts'[c]>>)] /\ Yield(<<d>>)
  BY <1>4 DEF FragmentArrives
<1>6. d \in Yields /\ d.kind = "tool-call-delta" /\ d.id = calls[c].id
  <2>1. calls[c].id \in CallIds
    BY <1>2 DEF Made
  <2>2. "tool-call-delta" \in Kinds
    BY DEF Kinds
  <2>3. QED
    BY <2>1, <2>2, DeltaYields
<1> HIDE DEF d
<1>7. /\ parts' \in [DOMAIN Tool -> Nat] /\ parts'[c] = parts[c] + 1 /\ parts'[c] <= Fragments[c]
      /\ \A e \in DOMAIN Tool : e # c => parts'[e] = parts[e]
  BY <1>1, <1>3, <1>5 DEF Whole
<1>8. /\ calls' \in Seq(Made) /\ Len(calls') = Len(calls) /\ DOMAIN calls' = DOMAIN calls
      /\ \A i \in DOMAIN calls : calls'[i].id = calls[i].id /\ (i # c => calls'[i] = calls[i])
      /\ calls'[c].args = Append(calls[c].args, <<c, parts'[c]>>)
  <2> DEFINE args == Append(calls[c].args, <<c, parts'[c]>>)
  <2>1. args \in ArgLists
    BY <1>2, <1>7 DEF Made, ArgLists
  <2> HIDE DEF args
  <2>2. calls' = [calls EXCEPT ![c].args = args]
    BY <1>5 DEF args
  <2>3. calls' = [i \in 1..Len(calls) |-> IF i = c THEN [calls[i] EXCEPT !.args = args] ELSE calls[i]]
    BY <1>1, <1>2, <2>2
  <2>4. \A i \in DOMAIN calls : calls'[i] \in Made /\ calls'[i].id = calls[i].id /\ (i # c => calls'[i] = calls[i])
    BY <1>2, <2>1, <2>3 DEF Made
  <2>5. calls'[c].args = args
    BY <1>2, <2>3 DEF Made
  <2>6. calls' \in Seq(Made) /\ Len(calls') = Len(calls) /\ DOMAIN calls' = DOMAIN calls
    BY <1>2, <2>3, <2>4
  <2>7. QED
    BY <2>4, <2>5, <2>6 DEF args
<1>9. /\ deltas' \in Seq(Yields) /\ DOMAIN deltas' = 1..(Len(deltas) + 1)
      /\ \A i \in 1..Len(deltas) : deltas'[i] = deltas[i]
      /\ deltas'[Len(deltas) + 1] = d
      /\ ~ Over'
  <2>1. d.kind \notin {"stop", "error"}
    BY <1>6
  <2>2. QED
    BY <1>1, <1>5, <1>6, <2>1, YieldsOne
<1>10. CallsInOrder'
  <2>1. StreamTypeOK'
    BY <1>1, <1>7, <1>8 DEF StreamTypeOK, StreamInv, CallsInOrder
  <2>2. QED
    BY <1>1, <1>2, <1>8, <1>9, <2>1 DEF CallsInOrder, StreamInv
<1>11. \A e \in DOMAIN Tool : Whole(e) => Whole(e)'
  BY <1>3, <1>7 DEF Whole
<1>12. IndexInUse'
  <2>1. calls' = <<>> <=> calls = <<>>
    BY <1>1, <1>8
  <2>2. CASE manner # "all"
    BY <1>1, <1>8, <2>2 DEF StreamInv, IndexInUse
  <2>3. CASE manner = "all"
    <3>1. byIndex' = [i \in (IF calls' = <<>> THEN {} ELSE {0}) |-> Len(calls')]
      BY <1>1, <1>8, <2>1, <2>3 DEF StreamInv, IndexInUse
    <3>2. \A i \in DOMAIN calls' : i < Len(calls') => Whole(i)'
      BY <1>2, <1>8, <1>11, <2>3 DEF StreamInv, IndexInUse
    <3>3. QED
      BY <1>1, <2>3, <3>1, <3>2 DEF IndexInUse
  <2>4. QED
    BY <2>2, <2>3
<1>13. IdsApart'
  BY <1>1, <1>8 DEF StreamInv, IdsApart
<1>14. FragmentsKept'
  <2>1. ASSUME NEW i \in DOMAIN calls'
        PROVE  calls'[i].args = [k \in 1..parts'[i] |-> <<i, k>>]
    <3>1. calls[i].args = [k \in 1..parts[i] |-> <<i, k>>] /\ i \in DOMAIN Tool
      BY <1>2, <1>8 DEF StreamInv, FragmentsKept
    <3>2. CASE i = c
      <4>1. parts[c] \in Nat /\ parts'[c] = parts[c] + 1 /\ calls[c].args = [k \in 1..parts[c] |-> <<c, k>>]
        BY <1>1, <1>2, <1>7, <3>1, <3>2
      <4>2. calls'[c].args = [k \in 1..parts'[c] |-> <<c, k>>]
        BY <1>8, <4>1, OneFragmentMore
      <4>3. QED
        BY <3>2, <4>2
    <3>3. CASE i # c
      BY <1>7, <1>8, <3>1, <3>3
    <3>4. QED
      BY <3>2, <3>3
  <2>2. \A e \in DOMAIN Tool : parts'[e] <= Fragments[e] /\ (e > Len(calls') => parts'[e] = 0)
    BY <1>2, <1>7, <1>8 DEF StreamInv, FragmentsKept
  <2>3. QED
    BY <1>1, <1>8, <2>1, <2>2 DEF StreamInv, FragmentsKept
<1>15. /\ Yielded("tool-call-start")' = Yielded("tool-call-start")
       /\ Yielded("tool-call-ready")' = Yielded("tool-call-ready")
       /\ Yielded("tool-call-delta")' = Yielded("tool-call-delta") \cup {Len(deltas) + 1}
       /\ Yielded("usage")' = Yielded("usage")
  BY <1>1, <1>6, <1>9 DEF Yielded
<1>16. \A i \in Yielded("tool-call-start") \cup Yielded("tool-call-ready") \cup Yielded("tool-call-delta") :
          i \in 1..Len(deltas) /\ deltas'[i] = deltas[i] /\ i < Len(deltas) + 1
  BY <1>1, <1>9 DEF Yielded
<1>17. DeltasTell'
  <2>0. DeltasTell
    BY DEF StreamInv
  <2>1. \A p \in DOMAIN calls' : \E s \in Yielded("tool-call-start")' : deltas'[s].id = calls'[p].id
    <3> SUFFICES ASSUME NEW p \in DOMAIN calls
                 PROVE  \E s \in Yielded("tool-call-start")' : deltas'[s].id = calls'[p].id
      BY <1>8
    <3>1. PICK s \in Yielded("tool-call-start") : deltas[s].id = calls[p].id
      BY <2>0 DEF DeltasTell
    <3>2. QED
      BY <1>8, <1>15, <1>16, <3>1
  <2>2. \A i \in Yielded("tool-call-ready")' \cup Yielded("tool-call-delta")' :
          /\ \E p \in DOMAIN calls' : calls'[p].id = deltas'[i].id
          /\ \E s \in Yielded("tool-call-start")' : s < i /\ deltas'[s].id = deltas'[i].id
    <3> SUFFICES ASSUME NEW i \in Yielded("tool-call-ready") \cup Yielded("tool-call-delta") \cup {Len(deltas) + 1}
                 PROVE  /\ \E p \in DOMAIN calls' : calls'[p].id = deltas'[i].id
                        /\ \E s \in Yielded("tool-call-start")' : s < i /\ deltas'[s].id = deltas'[i].id
      BY <1>15
    <3>1. CASE i = Len(deltas) + 1
      <4>1. PICK s \in Yielded("tool-call-start") : deltas[s].id = calls[c].id
        BY <1>2, <2>0 DEF DeltasTell
      <4>2. deltas'[i].id = calls[c].id /\ calls'[c].id = calls[c].id
        BY <1>2, <1>6, <1>8, <1>9, <3>1
      <4>3. QED
        BY <1>2, <1>8, <1>15, <1>16, <3>1, <4>1, <4>2
    <3>2. CASE i # Len(deltas) + 1
      <4>1. PICK p \in DOMAIN calls : calls[p].id = deltas[i].id
        BY <2>0, <3>2 DEF DeltasTell
      <4>2. PICK s \in Yielded("tool-call-start") : s < i /\ deltas[s].id = deltas[i].id
        BY <2>0, <3>2 DEF DeltasTell
      <4>3. deltas'[i] = deltas[i] /\ deltas'[s] = deltas[s] /\ s \in Yielded("tool-call-start")'
        BY <1>15, <1>16, <3>2, <4>2
      <4>4. p \in DOMAIN calls' /\ calls'[p].id = calls[p].id
        BY <1>8
      <4>5. QED
        BY <4>1, <4>2, <4>3, <4>4
    <3>3. QED
      BY <3>1, <3>2
  <2>3. \A i \in Yielded("tool-call-ready")', j \in Yielded("tool-call-ready")' \cup Yielded("tool-call-delta")' :
          i < j => deltas'[i].id # deltas'[j].id
    <3> SUFFICES ASSUME NEW i \in Yielded("tool-call-ready"),
                        NEW j \in Yielded("tool-call-ready") \cup Yielded("tool-call-delta") \cup {Len(deltas) + 1},
                        i < j
                 PROVE  deltas'[i].id # deltas'[j].id
      BY <1>15
    <3>1. deltas'[i] = deltas[i]
      BY <1>16
    <3>2. CASE j = Len(deltas) + 1
      <4>1. deltas'[j].id = calls[c].id
        BY <1>6, <1>9, <3>2
      <4>2. deltas[i].id # calls[c].id
        BY <1>1, <1>2, <1>3, <2>0 DEF DeltasTell
      <4>3. QED
        BY <3>1, <4>1, <4>2
    <3>3. CASE j # Len(deltas) + 1
      <4>1. deltas'[j] = deltas[j]
        BY <1>16, <3>3
      <4>2. QED
        BY <2>0, <3>1, <3>3, <4>1 DEF DeltasTell
    <3>4. QED
      BY <3>2, <3>3
  <2>4. \A p \in stopped' : \E i \in Yielded("tool-call-ready")' : deltas'[i].id = calls'[p].id
    <3>1. ASSUME NEW p \in stopped
          PROVE  \E i \in Yielded("tool-call-ready") : deltas'[i].id = calls'[p].id
      <4>1. PICK i \in Yielded("tool-call-ready") : deltas[i].id = calls[p].id
        BY <2>0 DEF DeltasTell
      <4>2. p \in DOMAIN calls
        BY DEF StreamInv, FragmentsKept
      <4>3. QED
        BY <1>8, <1>16, <4>1, <4>2
    <3>2. QED
      BY <1>1, <1>15, <3>1
  <2>5. Yielded("usage")' = {}
    BY <1>1, <2>0, <1>15 DEF DeltasTell
  <2>6. ASSUME NEW i \in Yielded("tool-call-ready"), NEW p \in DOMAIN calls', deltas'[i].id = calls'[p].id
        PROVE  p \in stopped'
    <3>1. deltas'[i] = deltas[i] /\ p \in DOMAIN calls /\ calls'[p].id = calls[p].id
      BY <1>8, <1>16
    <3>2. QED
      BY <1>1, <2>0, <2>6, <3>1 DEF DeltasTell
  <2>7. QED
    BY <1>15, <2>1, <2>2, <2>3, <2>4, <2>5, <2>6 DEF DeltasTell
<1>18. ReasonMeans' /\ NoneLeftOut'
  BY <1>1, <1>9 DEF ReasonMeans, NoneLeftOut
<1>19. ReadyIsMeant'
  <2> SUFFICES ASSUME NEW i \in Yielded("tool-call-ready")
               PROVE  \E p \in DOMAIN calls' :
                        /\ calls'[p].id = deltas'[i].id
                        /\ \/ deltas'[i].args = Arguments(meant'[p])
                           \/ deltas'[i].args = <<>> /\ ~ (parts'[meant'[p]] = Fragments[meant'[p]])
    BY <1>15 DEF ReadyIsMeant, Whole, Arguments
  <2>1. PICK p \in DOMAIN calls : /\ calls[p].id = deltas[i].id
                                  /\ \/ deltas[i].args = Arguments(meant[p])
                                     \/ deltas[i].args = <<>> /\ ~ Whole(meant[p])
    BY DEF StreamInv, ReadyIsMeant
  <2>2. deltas'[i] = deltas[i] /\ p \in DOMAIN calls' /\ calls'[p].id = calls[p].id
    BY <1>8, <1>16
  <2>3. meant'[p] = p /\ meant[p] = p /\ p \in DOMAIN Tool
    BY <1>1, <1>2
  <2>4. p # c
    BY <1>1, <1>2, <1>3, <2>1 DEF StreamInv, DeltasTell
  <2>5. QED
    BY <1>7, <2>1, <2>2, <2>3, <2>4 DEF Whole
<1>20. QED
  BY <1>10, <1>12, <1>13, <1>14, <1>17, <1>18, <1>19 DEF StreamInv

LEMMA BlockStopsInv ==
    ASSUME StreamInv, NEW c \in DOMAIN Tool, BlockStops(c)
    PROVE  StreamInv'
<1>1. /\ deltas \in Seq(Yields) /\ Len(deltas) \in Nat /\ ~ Over /\ stop = "unsaid" /\ manner = "blocks"
      /\ calls \in Seq(Made) /\ DOMAIN deltas = 1..Len(deltas)
      /\ UNCHANGED <<manner, parts, calls, byIndex, meant, text, stop>>
      /\ stopped' = stopped \cup {c} /\ c \notin stopped
  BY DEF StreamInv, CallsInOrder, StreamTypeOK, BlockStops, Reading
<1>2. /\ DOMAIN calls \subseteq DOMAIN Tool /\ c \in DOMAIN calls
      /\ \A i \in DOMAIN calls : calls[i] \in Made /\ meant[i] = i
      /\ DOMAIN calls = 1..Len(calls)
  BY CallsFacts DEF BlockStops
<1>3. byIndex[c] = c
  BY <1>1, <1>2 DEF StreamInv, IndexInUse
<1> DEFINE d == ReadyDelta(calls[c])
<1>4. Yield(<<d>>)
  BY <1>3 DEF BlockStops
<1>5. /\ d \in Yields /\ d.kind = "tool-call-ready" /\ d.id = calls[c].id
      /\ d.args = Arguments(c) \/ (d.args = <<>> /\ ~ Whole(c))
  <2>1. calls[c].id \in CallIds
    BY <1>2 DEF Made
  <2>2. "tool-call-ready" \in Kinds
    BY DEF Kinds
  <2>3. QED
    BY <1>2, <2>1, <2>2, ParsedArgs DEF ReadyDelta, Yields
<1> HIDE DEF d
<1>6. /\ deltas' \in Seq(Yields) /\ DOMAIN deltas' = 1..(Len(deltas) + 1)
      /\ \A i \in 1..Len(deltas) : deltas'[i] = deltas[i]
      /\ deltas'[Len(deltas) + 1] = d
      /\ ~ Over'
  <2>1. d.kind \notin {"stop", "error"}
    BY <1>5
  <2>2. QED
    BY <1>1, <1>4, <1>5, <2>1, YieldsOne
<1>7. CallsInOrder'
  <2>1. StreamTypeOK'
    BY <1>1, <1>2 DEF StreamTypeOK, StreamInv, CallsInOrder
  <2>2. QED
    BY <1>1, <1>6, <2>1 DEF CallsInOrder, StreamInv
<1>8. IndexInUse' /\ IdsApart'
  BY <1>1 DEF StreamInv, IndexInUse, IdsApart, Whole
<1>9. FragmentsKept'
  BY <1>1, <1>2 DEF StreamInv, FragmentsKept
<1>10. /\ Yielded("tool-call-start")' = Yielded("tool-call-start")
       /\ Yielded("tool-call-ready")' = Yielded("tool-call-ready") \cup {Len(deltas) + 1}
       /\ Yielded("tool-call-delta")' = Yielded("tool-call-delta")
       /\ Yielded("usage")' = Yielded("usage")
  BY <1>1, <1>5, <1>6 DEF Yielded
<1>11. \A i \in Yielded("tool-call-start") \cup Yielded("tool-call-ready") \cup Yielded("tool-call-delta") :
          i \in 1..Len(deltas) /\ deltas'[i] = deltas[i] /\ i < Len(deltas) + 1
  BY <1>1, <1>6 DEF Yielded
<1>12. DeltasTell'
  <2>0. DeltasTell
    BY DEF StreamInv
  <2>1. \A p \in DOMAIN calls' : \E s \in Yielded("tool-call-start")' : deltas'[s].id = calls'[p].id
    <3> SUFFICES ASSUME NEW p \in DOMAIN calls
                 PROVE  \E s \in Yielded("tool-call-start")' : deltas'[s].id = calls'[p].id
      BY <1>1
    <3>1. PICK s \in Yielded("tool-call-start") : deltas[s].id = calls[p].id
      BY <2>0 DEF DeltasTell
    <3>2. QED
      BY <1>1, <1>10, <1>11, <3>1
  <2>2. \A i \in Yielded("tool-call-ready")' \cup Yielded("tool-call-delta")' :
          /\ \E p \in DOMAIN calls' : calls'[p].id = deltas'[i].id
          /\ \E s \in Yielded("tool-call-start")' : s < i /\ deltas'[s].id = deltas'[i].id
    <3> SUFFICES ASSUME NEW i \in Yielded("tool-call-ready") \cup Yielded("tool-call-delta") \cup {Len(deltas) + 1}
                 PROVE  /\ \E p \in DOMAIN calls' : calls'[p].id = deltas'[i].id
                        /\ \E s \in Yielded("tool-call-start")' : s < i /\ deltas'[s].id = deltas'[i].id
      BY <1>10
    <3>1. CASE i = Len(deltas) + 1
      <4>1. PICK s \in Yielded("tool-call-start") : deltas[s].id = calls[c].id
        BY <1>2, <2>0 DEF DeltasTell
      <4>2. deltas'[i].id = calls[c].id
        BY <1>5, <1>6, <3>1
      <4>3. QED
        BY <1>1, <1>2, <1>10, <1>11, <3>1, <4>1, <4>2
    <3>2. CASE i # Len(deltas) + 1
      <4>1. PICK p \in DOMAIN calls : calls[p].id = deltas[i].id
        BY <2>0, <3>2 DEF DeltasTell
      <4>2. PICK s \in Yielded("tool-call-start") : s < i /\ deltas[s].id = deltas[i].id
        BY <2>0, <3>2 DEF DeltasTell
      <4>3. deltas'[i] = deltas[i] /\ deltas'[s] = deltas[s] /\ s \in Yielded("tool-call-start")'
        BY <1>10, <1>11, <3>2, <4>2
      <4>4. QED
        BY <1>1, <4>1, <4>2, <4>3
    <3>3. QED
      BY <3>1, <3>2
  <2>3. \A i \in Yielded("tool-call-ready")', j \in Yielded("tool-call-ready")' \cup Yielded("tool-call-delta")' :
          i < j => deltas'[i].id # deltas'[j].id
    <3> SUFFICES ASSUME NEW i \in Yielded("tool-call-ready") \cup {Len(deltas) + 1},
                        NEW j \in Yielded("tool-call-ready") \cup Yielded("tool-call-delta") \cup {Len(deltas) + 1},
                        i < j
                 PROVE  deltas'[i].id # deltas'[j].id
      BY <1>10
    <3>1. i \in Yielded("tool-call-ready") /\ deltas'[i] = deltas[i]
      <4>1. i # Len(deltas) + 1
        BY <1>1, <1>11
      <4>2. QED
        BY <1>11, <4>1
    <3>2. CASE j = Len(deltas) + 1
      <4>1. deltas'[j].id = calls[c].id
        BY <1>5, <1>6, <3>2
      <4>2. deltas[i].id # calls[c].id
        BY <1>1, <1>2, <2>0, <3>1 DEF DeltasTell
      <4>3. QED
        BY <3>1, <4>1, <4>2
    <3>3. CASE j # Len(deltas) + 1
      <4>1. deltas'[j] = deltas[j]
        BY <1>11, <3>3
      <4>2. QED
        BY <2>0, <3>1, <3>3, <4>1 DEF DeltasTell
    <3>4. QED
      BY <3>2, <3>3
  <2>4. \A p \in stopped' : \E i \in Yielded("tool-call-ready")' : deltas'[i].id = calls'[p].id
    <3>1. ASSUME NEW p \in stopped
          PROVE  \E i \in Yielded("tool-call-ready") : deltas'[i].id = calls'[p].id
      <4>1. PICK i \in Yielded("tool-call-ready") : deltas[i].id = calls[p].id
        BY <2>0 DEF DeltasTell
      <4>2. QED
        BY <1>1, <1>11, <4>1
    <3>2. deltas'[Len(deltas) + 1].id = calls'[c].id
      BY <1>1, <1>5, <1>6
    <3>3. QED
      BY <1>1, <1>10, <3>1, <3>2
  <2>5. Yielded("usage")' = {}
    BY <1>1, <2>0, <1>10 DEF DeltasTell
  <2>6. ASSUME NEW i \in Yielded("tool-call-ready")', NEW p \in DOMAIN calls', deltas'[i].id = calls'[p].id
        PROVE  p \in stopped'
    <3>1. CASE i = Len(deltas) + 1
      <4>1. calls[p].id = calls[c].id
        BY <1>1, <1>5, <1>6, <2>6, <3>1
      <4>2. p = c
        BY <1>1, <1>2, <4>1 DEF StreamInv, IdsApart
      <4>3. QED
        BY <1>1, <4>2
    <3>2. CASE i # Len(deltas) + 1
      <4>1. i \in Yielded("tool-call-ready") /\ deltas'[i] = deltas[i]
        BY <1>10, <1>11, <3>2
      <4>2. QED
        BY <1>1, <2>0, <2>6, <4>1 DEF DeltasTell
    <3>3. QED
      BY <3>1, <3>2
  <2>7. QED
    BY <2>1, <2>2, <2>3, <2>4, <2>5, <2>6 DEF DeltasTell
<1>13. ReasonMeans' /\ NoneLeftOut'
  BY <1>1, <1>6 DEF ReasonMeans, NoneLeftOut
<1>14. ReadyIsMeant'
  <2> SUFFICES ASSUME NEW i \in Yielded("tool-call-ready") \cup {Len(deltas) + 1}
               PROVE  \E p \in DOMAIN calls :
                        /\ calls[p].id = deltas'[i].id
                        /\ \/ deltas'[i].args = Arguments(meant[p])
                           \/ deltas'[i].args = <<>> /\ ~ Whole(meant[p])
    <3>1. \A p : Whole(p)' = Whole(p)
      BY <1>1 DEF Whole
    <3>2. \A p : Arguments(p)' = Arguments(p)
      BY DEF Arguments
    <3>3. /\ calls' = calls /\ meant' = meant
          /\ Yielded("tool-call-ready")' \subseteq Yielded("tool-call-ready") \cup {Len(deltas) + 1}
      BY <1>1, <1>10
    <3>4. QED
      BY <3>1, <3>2, <3>3, Zenon DEF ReadyIsMeant
  <2>1. CASE i = Len(deltas) + 1
    BY <1>2, <1>5, <1>6, <2>1
  <2>2. CASE i # Len(deltas) + 1
    <3>1. deltas'[i] = deltas[i]
      BY <1>11, <2>2
    <3>2. QED
      BY <2>2, <3>1 DEF StreamInv, ReadyIsMeant
  <2>3. QED
    BY <2>1, <2>2
<1>15. QED
  BY <1>7, <1>8, <1>9, <1>12, <1>13, <1>14 DEF StreamInv

LEMMA Joined ==
    ASSUME NEW S, NEW a \in Seq(S), NEW b \in Seq(S), NEW c, c = a \o b
    PROVE  /\ c \in Seq(S) /\ Len(c) = Len(a) + Len(b)
           /\ \A i \in 1..Len(a) : c[i] = a[i]
           /\ \A i \in 1..Len(b) : c[Len(a) + i] = b[i]
  OBVIOUS

LEMMA JoinedToNone ==
    ASSUME NEW S, NEW s \in Seq(S)
    PROVE  <<>> \o s = s
  OBVIOUS

Final == IF stop = "unsaid" THEN "end" ELSE stop
AtTheEnd == Ending \o <<Delta("usage", "usage"), Delta("stop", Final)>>

\* The deltas of the end: t of a text, those of m calls, the usage and the reason.
LEMMA EndingIs ==
    ASSUME StreamInv
    PROVE  \E t \in {0, 1}, m \in {0, Len(calls)} :
             /\ m = (IF manner = "blocks" THEN 0 ELSE Len(calls))
             /\ AtTheEnd \in Seq(Yields) /\ Len(AtTheEnd) = t + m + 2
             /\ \A i \in 1..t : AtTheEnd[i].kind = "text-end"
             /\ \A i \in 1..m : AtTheEnd[t + i] = ReadyDelta(calls[i])
             /\ AtTheEnd[t + m + 1].kind = "usage" /\ AtTheEnd[t + m + 2].kind = "stop"
<1> DEFINE new == AtTheEnd
<1>1. /\ Len(calls) \in Nat /\ DOMAIN calls = 1..Len(calls)
      /\ \A i \in DOMAIN calls : ReadyDelta(calls[i]) \in Yields
  <2>1. ASSUME NEW i \in DOMAIN calls PROVE ReadyDelta(calls[i]) \in Yields
    <3>1. calls[i].id \in CallIds
      BY CallsFacts DEF Made
    <3>2. "tool-call-ready" \in Kinds
      BY DEF Kinds
    <3>3. QED
      BY <3>1, <3>2, ParsedArgs DEF ReadyDelta, Yields
  <2>2. QED
    BY <2>1, CallsFacts
<1>2. Final \in Names
  BY DEF StreamInv, CallsInOrder, StreamTypeOK, StopReasons, Names, Final
<1> DEFINE u == Delta("usage", "usage")
           r == Delta("stop", Final)
           x == Delta("text-end", "text")
<1>3. u \in Yields /\ u.kind = "usage" /\ r \in Yields /\ r.kind = "stop" /\ x \in Yields /\ x.kind = "text-end"
  <2>1. {"usage", "stop", "text-end"} \subseteq Kinds /\ "usage" \in Names /\ "text" \in Names
    BY DEF Kinds, Names
  <2>2. QED
    BY <1>2, <2>1, DeltaYields
<1> HIDE DEF u, r, x
<1> DEFINE tail == <<u, r>>
           first == IF text = "open" THEN <<x>> ELSE <<>>
           readies == [i \in DOMAIN calls |-> ReadyDelta(calls[i])]
<1>4. tail \in Seq(Yields) /\ Len(tail) = 2 /\ tail[1] = u /\ tail[2] = r
  BY <1>3
<1>5. new = (IF manner = "blocks" THEN <<>> ELSE first \o readies) \o tail
  BY DEF AtTheEnd, Ending, u, r, x
<1> HIDE DEF new
<1>6. CASE manner = "blocks"
  <2> HIDE DEF tail
  <2>1. new = tail
    <3>1. new = <<>> \o tail
      BY <1>5, <1>6
    <3>2. <<>> \o tail = tail
      BY <1>4, JoinedToNone
    <3>3. QED
      BY <3>1, <3>2
  <2>2. /\ new \in Seq(Yields) /\ Len(new) = 0 + 0 + 2
        /\ \A i \in 1..0 : new[i].kind = "text-end"
        /\ \A i \in 1..0 : new[0 + i] = ReadyDelta(calls[i])
        /\ new[0 + 0 + 1].kind = "usage" /\ new[0 + 0 + 2].kind = "stop"
    <3>1. 0 + 0 + 1 = 1 /\ 0 + 0 + 2 = 2 /\ \A i \in 1..0 : FALSE
      OBVIOUS
    <3>2. QED
      BY <1>3, <1>4, <2>1, <3>1
  <2>3. QED
    BY <1>6, <2>2 DEF new
<1>7. CASE manner # "blocks"
  <2> DEFINE t == IF text = "open" THEN 1 ELSE 0
             m == Len(calls)
  <2>1. first \in Seq(Yields) /\ Len(first) = t /\ \A i \in 1..t : first[i].kind = "text-end"
    <3>1. CASE text = "open"
      <4>1. <<x>> \in Seq(Yields) /\ Len(<<x>>) = 1 /\ <<x>>[1] = x
        BY <1>3
      <4>2. QED
        BY <1>3, <3>1, <4>1
    <3>2. CASE text # "open"
      BY <3>2
    <3>3. QED
      BY <3>1, <3>2
  <2>2. readies \in Seq(Yields) /\ Len(readies) = m /\ \A i \in 1..m : readies[i] = ReadyDelta(calls[i])
    BY <1>1
  <2>3. t \in {0, 1} /\ m \in Nat
    BY <1>1
  <2> HIDE DEF tail, first, readies, t, m
  <2>4. new = (first \o readies) \o tail
    BY <1>5, <1>7
  <2> DEFINE both == first \o readies
  <2>a. both = first \o readies
    OBVIOUS
  <2> HIDE DEF both
  <2>5. /\ both \in Seq(Yields) /\ Len(both) = t + m
        /\ \A i \in 1..t : both[i] = first[i]
        /\ \A i \in 1..m : both[t + i] = readies[i]
    <3>1. first \in Seq(Yields) /\ readies \in Seq(Yields)
      BY <2>1, <2>2
    <3>2. /\ both \in Seq(Yields) /\ Len(both) = Len(first) + Len(readies)
          /\ \A i \in 1..Len(first) : both[i] = first[i]
          /\ \A i \in 1..Len(readies) : both[Len(first) + i] = readies[i]
      BY <2>a, <3>1, Joined
    <3>3. Len(first) = t /\ Len(readies) = m
      BY <2>1, <2>2
    <3>4. QED
      BY <3>2, <3>3
  <2>6. /\ new \in Seq(Yields) /\ Len(new) = t + m + 2
        /\ \A i \in 1..(t + m) : new[i] = both[i]
        /\ new[t + m + 1] = tail[1] /\ new[t + m + 2] = tail[2]
    <3>1. new = both \o tail
      BY <2>4, <2>a
    <3>2. /\ new \in Seq(Yields) /\ Len(new) = Len(both) + Len(tail)
          /\ \A i \in 1..Len(both) : new[i] = both[i]
          /\ \A i \in 1..Len(tail) : new[Len(both) + i] = tail[i]
      <4>1. both \in Seq(Yields) /\ tail \in Seq(Yields)
        BY <1>4, <2>5
      <4>2. QED
        BY <3>1, <4>1, Joined
    <3>3. 1 \in 1..Len(tail) /\ 2 \in 1..Len(tail)
      BY <1>4
    <3>4. QED
      BY <1>4, <2>5, <3>2, <3>3
  <2>7. /\ \A i \in 1..t : new[i].kind = "text-end"
        /\ \A i \in 1..m : new[t + i] = ReadyDelta(calls[i])
    <3>1. ASSUME NEW i \in 1..t PROVE new[i].kind = "text-end"
      <4>1. i \in 1..(t + m)
        BY <2>3
      <4>2. QED
        BY <2>1, <2>5, <2>6, <4>1
    <3>2. ASSUME NEW i \in 1..m PROVE new[t + i] = ReadyDelta(calls[i])
      <4>1. t + i \in 1..(t + m)
        BY <2>3
      <4>2. QED
        BY <2>2, <2>5, <2>6, <4>1
    <3>3. QED
      BY <3>1, <3>2
  <2>8. m = (IF manner = "blocks" THEN 0 ELSE Len(calls)) /\ m \in {0, Len(calls)}
    BY <1>7 DEF m
  <2>9. new[t + m + 1].kind = "usage" /\ new[t + m + 2].kind = "stop"
    BY <1>3, <1>4, <2>6
  <2>10. QED
    BY <2>3, <2>6, <2>7, <2>8, <2>9 DEF new
<1>8. QED
  BY <1>6, <1>7

LEMMA StreamEndsInv ==
    ASSUME StreamInv, StreamEnds
    PROVE  StreamInv'
<1>1. /\ deltas \in Seq(Yields) /\ Len(deltas) \in Nat /\ ~ Over
      /\ calls \in Seq(Made) /\ DOMAIN deltas = 1..Len(deltas)
      /\ UNCHANGED <<manner, parts, stopped, calls, byIndex, meant, text, stop>>
  BY DEF StreamInv, CallsInOrder, StreamTypeOK, StreamEnds
<1>2. /\ DOMAIN calls \subseteq DOMAIN Tool /\ Len(calls) \in Nat
      /\ \A i \in DOMAIN calls : calls[i] \in Made /\ meant[i] = i
      /\ DOMAIN calls = 1..Len(calls) /\ DOMAIN meant = DOMAIN calls
  BY CallsFacts
<1> DEFINE new == AtTheEnd
           L == Len(deltas)
<1>3. PICK t \in {0, 1}, m \in {0, Len(calls)} :
             /\ m = (IF manner = "blocks" THEN 0 ELSE Len(calls))
             /\ new \in Seq(Yields) /\ Len(new) = t + m + 2
             /\ \A i \in 1..t : new[i].kind = "text-end"
             /\ \A i \in 1..m : new[t + i] = ReadyDelta(calls[i])
             /\ new[t + m + 1].kind = "usage" /\ new[t + m + 2].kind = "stop"
  BY EndingIs
<1>4. Yield(new)
  BY DEF StreamEnds, AtTheEnd, Final
<1> HIDE DEF new
<1>5. m \in Nat /\ t \in Nat /\ L \in Nat /\ Len(new) = t + m + 2 /\ Len(new) \in Nat
  <2>1. L \in Nat /\ Len(new) = t + m + 2
    BY <1>1, <1>3
  <2>2. m \in Nat /\ t \in Nat
    <3>1. Len(calls) \in Nat
      BY <1>2
    <3>2. QED
      BY <3>1
  <2>3. QED
    BY <2>1, <2>2
<1>6. /\ deltas' \in Seq(Yields) /\ DOMAIN deltas' = 1..(L + Len(new)) /\ Len(deltas') = L + Len(new)
      /\ \A i \in 1..L : deltas'[i] = deltas[i]
      /\ \A i \in 1..Len(new) : deltas'[L + i] = new[i]
  <2>1. /\ deltas' \in Seq(Yields) /\ DOMAIN deltas' = 1..(L + Len(new))
        /\ \A i \in 1..L : deltas'[i] = deltas[i]
        /\ \A i \in 1..Len(new) : deltas'[L + i] = new[i]
    BY <1>1, <1>3, <1>4, YieldsAll
  <2> HIDE DEF L
  <2>2. Len(deltas') = L + Len(new)
    BY <1>5, <2>1
  <2>3. QED
    BY <2>1, <2>2
<1> HIDE DEF L
<1>7. /\ \A i \in 1..t : deltas'[L + i].kind = "text-end"
      /\ \A i \in 1..m : deltas'[L + t + i] = ReadyDelta(calls[i])
      /\ deltas'[L + t + m + 1].kind = "usage" /\ deltas'[L + t + m + 2].kind = "stop"
  <2>1. \A i \in 1..t : i \in 1..Len(new)
    BY <1>5
  <2>2. \A i \in 1..m : t + i \in 1..Len(new) /\ L + (t + i) = L + t + i
    BY <1>5
  <2>3. /\ t + m + 1 \in 1..Len(new) /\ L + (t + m + 1) = L + t + m + 1
        /\ t + m + 2 \in 1..Len(new) /\ L + (t + m + 2) = L + t + m + 2
    BY <1>5
  <2>4. QED
    <3>1. \A i \in 1..t : deltas'[L + i].kind = "text-end"
      BY <1>3, <1>6, <2>1
    <3>2. \A i \in 1..m : deltas'[L + t + i] = ReadyDelta(calls[i])
      <4> SUFFICES ASSUME NEW i \in 1..m PROVE deltas'[L + t + i] = ReadyDelta(calls[i])
        OBVIOUS
      <4>1. deltas'[L + (t + i)] = new[t + i] /\ L + (t + i) = L + t + i
        BY <1>6, <2>2
      <4>2. QED
        BY <1>3, <4>1
    <3>3. deltas'[L + t + m + 1] = new[t + m + 1] /\ deltas'[L + t + m + 2] = new[t + m + 2]
      <4>1. deltas'[L + (t + m + 1)] = new[t + m + 1] /\ deltas'[L + (t + m + 2)] = new[t + m + 2]
        BY <1>6, <2>3
      <4>2. QED
        BY <2>3, <4>1
    <3>4. QED
      BY <1>3, <3>1, <3>2, <3>3
<1>8. \A i \in DOMAIN deltas' :
         \/ i \in 1..L
         \/ \E j \in 1..t : i = L + j
         \/ \E j \in 1..m : i = L + t + j
         \/ i = L + t + m + 1 \/ i = L + t + m + 2
  <2> SUFFICES ASSUME NEW i \in 1..(L + t + m + 2), i > L, i # L + t + m + 1, i # L + t + m + 2
               PROVE  (\E j \in 1..t : i = L + j) \/ (\E j \in 1..m : i = L + t + j)
    <3>1. DOMAIN deltas' = 1..(L + t + m + 2)
      <4>1. L + Len(new) = L + t + m + 2
        BY <1>5
      <4>2. QED
        BY <1>6, <4>1
    <3>2. \A i \in 1..(L + t + m + 2) : i \in 1..L \/ i > L
      BY <1>5
    <3>3. QED
      BY <3>1, <3>2
  <2>1. CASE i <= L + t
    <3>1. i - L \in 1..t /\ i = L + (i - L)
      BY <1>5, <2>1
    <3>2. QED
      BY <3>1
  <2>2. CASE i > L + t
    <3>1. i - L - t \in 1..m /\ i = L + t + (i - L - t)
      BY <1>5, <2>2
    <3>2. QED
      BY <3>1
  <2>3. QED
    BY <1>5, <2>1, <2>2
<1>9. \A i \in DOMAIN calls : /\ ReadyDelta(calls[i]).kind = "tool-call-ready" /\ ReadyDelta(calls[i]).id = calls[i].id
                              /\ \/ ReadyDelta(calls[i]).args = Arguments(i)
                                 \/ ReadyDelta(calls[i]).args = <<>> /\ ~ Whole(i)
  BY ParsedArgs DEF ReadyDelta
<1>10. \A j \in 1..m : j \in DOMAIN calls
  BY <1>2, <1>3
<1>11. /\ \A i \in 1..L : i \in DOMAIN deltas' /\ deltas'[i] = deltas[i]
       /\ \A j \in 1..m : L + t + j \in DOMAIN deltas' /\ ~ (L + t + j \in 1..L)
  BY SMTT(40), <1>5, <1>6
<1>12. Yielded("tool-call-start")' = Yielded("tool-call-start") /\ Yielded("tool-call-delta")' = Yielded("tool-call-delta")
  <2> SUFFICES ASSUME NEW k \in {"tool-call-start", "tool-call-delta"}
               PROVE  {i \in DOMAIN deltas' : deltas'[i].kind = k} = {i \in DOMAIN deltas : deltas[i].kind = k}
    BY DEF Yielded
  <2>1. ASSUME NEW i \in DOMAIN deltas', deltas'[i].kind = k PROVE i \in 1..L
    BY <1>7, <1>8, <1>9, <1>10, <2>1
  <2>2. QED
    BY <1>1, <1>11, <2>1 DEF L
<1>13. Yielded("tool-call-ready")' = Yielded("tool-call-ready") \cup {L + t + j : j \in 1..m}
  <2>1. ASSUME NEW i \in DOMAIN deltas', deltas'[i].kind = "tool-call-ready"
        PROVE  i \in 1..L \/ \E j \in 1..m : i = L + t + j
    BY <1>7, <1>8, <2>1
  <2>2. \A j \in 1..m : deltas'[L + t + j].kind = "tool-call-ready"
    BY <1>7, <1>9, <1>10
  <2>3. \A i \in 1..L : i \in DOMAIN deltas /\ (deltas'[i].kind = "tool-call-ready" <=> deltas[i].kind = "tool-call-ready")
    BY <1>1, <1>11 DEF L
  <2>4. \A i \in DOMAIN deltas : i \in 1..L
    BY <1>1 DEF L
  <2>5. {i \in DOMAIN deltas' : deltas'[i].kind = "tool-call-ready"}
          = {i \in DOMAIN deltas : deltas[i].kind = "tool-call-ready"} \cup {L + t + j : j \in 1..m}
    BY <1>11, <2>1, <2>2, <2>3, <2>4
  <2>6. QED
    BY <2>5 DEF Yielded
<1>14. \A i \in Yielded("tool-call-start") \cup Yielded("tool-call-ready") \cup Yielded("tool-call-delta") :
          i \in 1..L /\ deltas'[i] = deltas[i] /\ i < L + 1
  BY <1>1, <1>5, <1>6 DEF Yielded, L
<1>15. Over'
  <2>1. deltas' # <<>> /\ Last(deltas') = deltas'[L + t + m + 2]
    <3>1. Len(deltas') = L + t + m + 2 /\ Len(deltas') > 0
      BY <1>5, <1>6
    <3>2. QED
      BY <1>6, <3>1 DEF Last
  <2>2. QED
    BY <1>7, <2>1 DEF Over
<1>16. /\ CallsInOrder' /\ IndexInUse' /\ IdsApart' /\ FragmentsKept' /\ ReasonMeans'
  <2>1. StreamTypeOK'
    BY <1>1 DEF StreamTypeOK, StreamInv, CallsInOrder
  <2>2. CallsInOrder'
    BY <1>1, <1>6, <2>1 DEF CallsInOrder, StreamInv
  <2>3. IndexInUse' /\ IdsApart'
    BY <1>1 DEF StreamInv, IndexInUse, IdsApart, Whole
  <2>4. FragmentsKept' /\ ReasonMeans'
    BY <1>1 DEF StreamInv, FragmentsKept, ReasonMeans, Whole
  <2>5. QED
    BY <2>2, <2>3, <2>4
\* Where calls end with the answer, none was ready before.
<1>17. m # 0 => Yielded("tool-call-ready") = {}
  <2> SUFFICES ASSUME m # 0, NEW i \in Yielded("tool-call-ready") PROVE FALSE
    OBVIOUS
  <2>1. stopped = {}
    BY <1>3 DEF StreamInv, FragmentsKept
  <2>2. PICK p \in DOMAIN calls : calls[p].id = deltas[i].id
    BY DEF StreamInv, DeltasTell
  <2>3. p \in stopped
    BY <1>1, <2>2 DEF StreamInv, DeltasTell
  <2>4. QED
    BY <2>1, <2>3
<1>18. DeltasTell'
  <2>0. DeltasTell
    BY DEF StreamInv
  <2>1. \A p \in DOMAIN calls' : \E s \in Yielded("tool-call-start")' : s < L + 1 /\ deltas'[s].id = calls'[p].id
    <3> SUFFICES ASSUME NEW p \in DOMAIN calls
                 PROVE  \E s \in Yielded("tool-call-start")' : s < L + 1 /\ deltas'[s].id = calls'[p].id
      BY <1>1
    <3>1. PICK s \in Yielded("tool-call-start") : deltas[s].id = calls[p].id
      BY <2>0 DEF DeltasTell
    <3>2. QED
      BY <1>1, <1>12, <1>14, <3>1
  <2>2. \A i \in Yielded("tool-call-ready")' \cup Yielded("tool-call-delta")' :
          /\ \E p \in DOMAIN calls' : calls'[p].id = deltas'[i].id
          /\ \E s \in Yielded("tool-call-start")' : s < i /\ deltas'[s].id = deltas'[i].id
    <3> SUFFICES ASSUME NEW i \in Yielded("tool-call-ready") \cup Yielded("tool-call-delta") \cup {L + t + j : j \in 1..m}
                 PROVE  /\ \E p \in DOMAIN calls' : calls'[p].id = deltas'[i].id
                        /\ \E s \in Yielded("tool-call-start")' : s < i /\ deltas'[s].id = deltas'[i].id
      BY <1>12, <1>13
    <3>1. CASE i \in {L + t + j : j \in 1..m}
      <4>1. PICK j \in 1..m : i = L + t + j
        BY <3>1
      <4>2. deltas'[i].id = calls'[j].id /\ j \in DOMAIN calls'
        BY <1>1, <1>7, <1>9, <1>10, <4>1
      <4>3. PICK s \in Yielded("tool-call-start")' : s < L + 1 /\ deltas'[s].id = calls'[j].id
        BY <2>1, <4>2
      <4>4. s < i
        <5>1. s \in 1..L
          BY <1>12, <1>14
        <5>2. QED
          BY <1>5, <4>1, <5>1
      <4>5. QED
        BY <4>2, <4>3, <4>4
    <3>2. CASE i \in Yielded("tool-call-ready") \cup Yielded("tool-call-delta")
      <4>1. PICK p \in DOMAIN calls : calls[p].id = deltas[i].id
        BY <2>0, <3>2 DEF DeltasTell
      <4>2. PICK s \in Yielded("tool-call-start") : s < i /\ deltas[s].id = deltas[i].id
        BY <2>0, <3>2 DEF DeltasTell
      <4>3. deltas'[i] = deltas[i] /\ deltas'[s] = deltas[s] /\ s \in Yielded("tool-call-start")'
        BY <1>12, <1>14, <3>2, <4>2
      <4>4. QED
        BY <1>1, <4>1, <4>2, <4>3
    <3>3. QED
      BY <3>1, <3>2
  <2>3. \A i \in Yielded("tool-call-ready")', j \in Yielded("tool-call-ready")' \cup Yielded("tool-call-delta")' :
          i < j => deltas'[i].id # deltas'[j].id
    <3> SUFFICES ASSUME NEW i \in Yielded("tool-call-ready") \cup {L + t + e : e \in 1..m},
                        NEW j \in Yielded("tool-call-ready") \cup Yielded("tool-call-delta") \cup {L + t + e : e \in 1..m},
                        i < j
                 PROVE  deltas'[i].id # deltas'[j].id
      BY <1>12, <1>13
    <3>1. CASE m = 0
      <4>1. i \in Yielded("tool-call-ready") /\ j \in Yielded("tool-call-ready") \cup Yielded("tool-call-delta")
        BY <3>1
      <4>2. deltas'[i] = deltas[i] /\ deltas'[j] = deltas[j]
        BY <1>14, <4>1
      <4>3. QED
        BY <2>0, <4>1, <4>2 DEF DeltasTell
    <3>2. CASE m # 0
      <4>1. PICK e \in 1..m : i = L + t + e
        BY <1>17, <3>2
      <4>2. j \in {L + t + f : f \in 1..m}
        <5>1. CASE j \in Yielded("tool-call-delta")
          <6>1. j \in 1..L
            BY <1>14, <5>1
          <6>2. QED
            BY <1>5, <4>1, <6>1
        <5>2. QED
          BY <1>17, <3>2, <5>1
      <4>3. PICK f \in 1..m : j = L + t + f
        BY <4>2
      <4>4. e # f
        BY <1>5, <4>1, <4>3
      <4>5. deltas'[i].id = calls[e].id /\ deltas'[j].id = calls[f].id
        BY <1>7, <1>9, <1>10, <4>1, <4>3
      <4>6. QED
        BY <1>10, <4>4, <4>5 DEF StreamInv, IdsApart
    <3>3. QED
      BY <3>1, <3>2
  <2>4. \A p \in stopped' : \E i \in Yielded("tool-call-ready")' : deltas'[i].id = calls'[p].id
    <3>1. ASSUME NEW p \in stopped
          PROVE  \E i \in Yielded("tool-call-ready")' : deltas'[i].id = calls'[p].id
      <4>1. PICK i \in Yielded("tool-call-ready") : deltas[i].id = calls[p].id
        BY <2>0 DEF DeltasTell
      <4>2. QED
        BY <1>1, <1>13, <1>14, <4>1
    <3>2. QED
      BY <1>1, <3>1
  <2>5. QED
    BY <1>15, <2>1, <2>2, <2>3, <2>4 DEF DeltasTell
<1>19. ReadyIsMeant'
  <2> SUFFICES ASSUME NEW i \in Yielded("tool-call-ready") \cup {L + t + j : j \in 1..m}
               PROVE  \E p \in DOMAIN calls :
                        /\ calls[p].id = deltas'[i].id
                        /\ \/ deltas'[i].args = Arguments(meant[p])
                           \/ deltas'[i].args = <<>> /\ ~ Whole(meant[p])
    BY <1>1, <1>13 DEF ReadyIsMeant, Whole, Arguments
  <2>1. CASE i \in {L + t + j : j \in 1..m}
    <3>1. PICK j \in 1..m : i = L + t + j
      BY <2>1
    <3>2. deltas'[i] = ReadyDelta(calls[j]) /\ j \in DOMAIN calls /\ meant[j] = j
      BY <1>2, <1>7, <1>10, <3>1
    <3>3. QED
      BY <1>9, <3>2
  <2>2. CASE i \in Yielded("tool-call-ready")
    <3>1. deltas'[i] = deltas[i]
      BY <1>14, <2>2
    <3>2. QED
      BY <2>2, <3>1 DEF StreamInv, ReadyIsMeant
  <2>3. QED
    BY <2>1, <2>2
<1>20. NoneLeftOut'
  <2> SUFFICES ASSUME stop \notin {"unsaid", "length"}, NEW p \in DOMAIN calls
               PROVE  \E i \in Yielded("tool-call-ready")' : deltas'[i].id = calls[p].id
    BY <1>1, <1>2 DEF NoneLeftOut
  <2>1. CASE manner = "blocks"
    <3>1. p \in stopped
      BY <2>1 DEF StreamInv, ReasonMeans
    <3>2. PICK i \in Yielded("tool-call-ready") : deltas[i].id = calls[p].id
      BY <3>1 DEF StreamInv, DeltasTell
    <3>3. QED
      BY <1>13, <1>14, <3>2
  <2>2. CASE manner # "blocks"
    <3>1. p \in 1..m
      BY <1>2, <1>3, <2>2
    <3>2. L + t + p \in Yielded("tool-call-ready")' /\ deltas'[L + t + p].id = calls[p].id
      BY <1>7, <1>9, <1>13, <3>1
    <3>3. QED
      BY <3>2
  <2>3. QED
    BY <2>1, <2>2
<1>21. QED
  BY <1>16, <1>18, <1>19, <1>20 DEF StreamInv

LEMMA StreamNextInv == StreamInv /\ [StreamNext]_streamVars => StreamInv'
<1> SUFFICES ASSUME StreamInv, [StreamNext]_streamVars PROVE StreamInv'
  OBVIOUS
<1>1. ASSUME NEW c \in DOMAIN Tool, CallBegins(c) \/ FragmentArrives(c) \/ BlockStops(c)
      PROVE  StreamInv'
  BY <1>1, CallBeginsInv, FragmentInv, BlockStopsInv
<1>2. CASE TextArrives \/ TextStops
  BY <1>2, TextInv
<1>3. CASE ReasonArrives
  BY <1>3, ReasonInv
<1>4. CASE StreamEnds
  BY <1>4, StreamEndsInv
<1>5. CASE ReadFails
  BY <1>5, ReadFailsInv
<1>6. CASE UNCHANGED streamVars
  <2>1. UNCHANGED Kept /\ UNCHANGED <<text, stop, deltas>>
    BY <1>6 DEF streamVars, Kept
  <2>2. CallsInOrder' /\ IndexInUse' /\ IdsApart' /\ FragmentsKept'
    BY <2>1 DEF Kept, StreamInv, CallsInOrder, StreamTypeOK, IndexInUse, IdsApart, FragmentsKept, Whole
  <2>3. DeltasTell'
    BY <2>1 DEF Kept, StreamInv, DeltasTell, Yielded, Over
  <2>4. ReasonMeans' /\ ReadyIsMeant' /\ NoneLeftOut'
    BY <2>1 DEF Kept, StreamInv, ReasonMeans, ReadyIsMeant, NoneLeftOut, Yielded, Over, Whole, Arguments
  <2>5. QED
    BY <2>2, <2>3, <2>4 DEF StreamInv
<1>7. QED
  BY <1>1, <1>2, <1>3, <1>4, <1>5, <1>6 DEF StreamNext

\* Whatever way a provider numbers its calls and mixes their fragments, what an adapter
\* yields is in triads, made of the arguments the provider meant, with no call left out.
THEOREM StreamToldTruly == StreamSpec => []ModelStreamTrue
<1>1. StreamInv => ModelStreamTrue
  BY DEF StreamInv, ModelStreamTrue, Triads, IdsApart, DeltasTell
<1>2. QED
  BY <1>1, StreamInitial, StreamNextInv, PTL DEF StreamSpec

-----------------------------------------------------------------------------
(***************************************************************************)
(* Recursive functions on 0..N                                             *)
(*                                                                         *)
(* A definition f[n \in 0..N] chooses a function that fits its equation:   *)
(* one has to exist, and whatever holds at 0 and goes on holds everywhere. *)
(***************************************************************************)

\* A nonempty set of numbers has a least one.
LEMMA LeastNumber ==
    ASSUME NEW T \in SUBSET Nat, T # {}
    PROVE  \E x \in T : \A y \in T : x <= y
<1> DEFINE R == OpToRel(<, Nat)
<1>1. IsWellFoundedOn(R, Nat)
  BY NatLessThanWellFounded
<1> HIDE DEF R
<1>2. PICK x \in T : \A y \in T : <<y, x>> \notin R
  BY <1>1, WFMin
<1>3. \A y \in T : ~ (y < x)
  BY <1>2 DEF R, OpToRel
<1>4. QED
  BY <1>3

\* What holds of 0 and of each number whose predecessor it holds of, holds up to N.
LEMMA UpTo ==
    ASSUME NEW N \in Nat, NEW P, 0 \in P, \A n \in 1..N : n - 1 \in P => n \in P
    PROVE  0..N \subseteq P
<1> DEFINE T == (0..N) \ P
<1> SUFFICES ASSUME T # {} PROVE FALSE
  OBVIOUS
<1>1. T \in SUBSET Nat
  OBVIOUS
<1> HIDE DEF T
<1>2. PICK x \in T : \A y \in T : x <= y
  BY <1>1, LeastNumber
<1>3. x \in 1..N
  BY <1>2 DEF T
<1>4. x - 1 \in 0..N /\ ~ (x <= x - 1)
  BY <1>3
<1>5. x - 1 \in P
  BY <1>2, <1>4 DEF T
<1>6. QED
  BY <1>2, <1>3, <1>5 DEF T

\* What N steps within a set make of a value in it.
Steps(N, S) == [(1..N) \X S -> S]
Follows(g, N, S, base, step) ==
    g \in [0..N -> S] /\ g[0] = base /\ \A n \in 1..N : g[n] = step[<<n, g[n - 1]>>]

\* Steps within a set lead somewhere, from any value in it.
LEMMA StepsLead ==
    ASSUME NEW N \in Nat, NEW S, NEW base \in S, NEW step \in Steps(N, S)
    PROVE  \E g : Follows(g, N, S, base, step)
<1> USE DEF Steps
<1> DEFINE Leads(m, g) == g[0] = base /\ \A n \in 1..m : g[n] = step[<<n, g[n - 1]>>]
           P == {m \in 0..N : \E g \in [0..m -> S] : Leads(m, g)}
<1>1. 0 \in P
  <2> DEFINE g == [n \in 0..0 |-> base]
  <2>1. g \in [0..0 -> S]
    OBVIOUS
  <2>2. g[0] = base
    OBVIOUS
  <2> HIDE DEF g
  <2>3. \A n \in 1..0 : g[n] = step[<<n, g[n - 1]>>]
    OBVIOUS
  <2>4. Leads(0, g)
    BY <2>2, <2>3
  <2> HIDE DEF Leads
  <2>5. 0 \in 0..N
    OBVIOUS
  <2>6. QED
    BY <2>1, <2>4, <2>5
<1>2. ASSUME NEW m \in 1..N, m - 1 \in P PROVE m \in P
  <2>1. PICK g \in [0..(m - 1) -> S] : Leads(m - 1, g)
    BY <1>2
  <2> DEFINE h == [n \in 0..m |-> IF n = m THEN step[<<m, g[m - 1]>>] ELSE g[n]]
  <2>2. m - 1 \in 0..(m - 1) /\ m \in 1..N /\ \A n \in 0..m : n # m => n \in 0..(m - 1)
    OBVIOUS
  <2>3. step[<<m, g[m - 1]>>] \in S
    <3>1. <<m, g[m - 1]>> \in (1..N) \X S
      BY <2>2
    <3>2. QED
      BY <3>1
  <2>4. h \in [0..m -> S]
    BY <2>2, <2>3
  <2>5. h[0] = base
    BY <2>1, <2>2
  <2>6. ASSUME NEW n \in 1..m PROVE h[n] = step[<<n, h[n - 1]>>]
    <3>1. n - 1 \in 0..m /\ n - 1 # m /\ h[n - 1] = g[n - 1]
      OBVIOUS
    <3>2. CASE n = m
      BY <3>1, <3>2
    <3>3. CASE n # m
      <4>1. n \in 1..(m - 1) /\ n \in 0..m
        BY <3>3
      <4>2. QED
        BY <2>1, <3>1, <3>3, <4>1
    <3>4. QED
      BY <3>2, <3>3
  <2>7. Leads(m, h)
    BY <2>5, <2>6
  <2> HIDE DEF h, Leads
  <2>8. QED
    BY <2>4, <2>7
<1>3. N \in P
  <2> HIDE DEF P
  <2>1. 0..N \subseteq P
    BY <1>1, <1>2, UpTo
  <2>2. QED
    BY <2>1
<1>4. QED
  BY <1>3 DEF Follows

-----------------------------------------------------------------------------
(***************************************************************************)
(* Sums of sizes                                                           *)
(***************************************************************************)

\* A running sum of numbers exists, and is a number.
LEMMA SumExists ==
    ASSUME NEW N \in Nat, NEW size \in [1..N -> Nat]
    PROVE  \E g : g = [n \in 0..N |-> IF n = 0 THEN 0 ELSE g[n - 1] + size[n]]
<1> DEFINE step == [p \in (1..N) \X Nat |-> p[2] + size[p[1]]]
<1>1. step \in [(1..N) \X Nat -> Nat]
  OBVIOUS
<1>2. \A n \in 1..N : \A m \in Nat : step[<<n, m>>] = m + size[n]
  OBVIOUS
<1> HIDE DEF step
<1>3. PICK g : Follows(g, N, Nat, 0, step)
  <2>1. 0 \in Nat /\ step \in Steps(N, Nat)
    BY <1>1 DEF Steps
  <2>2. QED
    BY <2>1, StepsLead
<1>4. \A n \in 1..N : g[n] = g[n - 1] + size[n]
  <2>1. \A n \in 1..N : g[n - 1] \in Nat
    BY <1>3 DEF Follows
  <2>2. QED
    BY <1>2, <1>3, <2>1 DEF Follows
<1>5. \A n \in 0..N : n # 0 => n \in 1..N
  OBVIOUS
<1>6. g = [n \in 0..N |-> IF n = 0 THEN 0 ELSE g[n - 1] + size[n]]
  BY <1>3, <1>4, <1>5 DEF Follows
<1>7. QED
  BY <1>6

IsSum(g, N, size) ==
    g \in [0..N -> Nat] /\ g[0] = 0 /\ \A n \in 1..N : g[n] = g[n - 1] + size[n]

LEMMA SumIsNat ==
    ASSUME NEW N \in Nat, NEW size \in [1..N -> Nat], NEW g,
           g = [n \in 0..N |-> IF n = 0 THEN 0 ELSE g[n - 1] + size[n]]
    PROVE  IsSum(g, N, size)
<1>0. 0 \in 0..N /\ \A n \in 1..N : n \in 0..N /\ n # 0 /\ n - 1 \in 0..N
  OBVIOUS
<1>1. g[0] = 0
  BY <1>0
<1>2. \A n \in 1..N : g[n] = g[n - 1] + size[n]
  BY <1>0
<1> DEFINE P == {n \in 0..N : g[n] \in Nat}
<1>3. 0 \in P
  BY <1>0, <1>1
<1>4. ASSUME NEW n \in 1..N, n - 1 \in P PROVE n \in P
  BY <1>0, <1>2, <1>4
<1> HIDE DEF P
<1>5. 0..N \subseteq P
  BY <1>3, <1>4, UpTo
<1>6. \A n \in 0..N : g[n] \in Nat
  BY <1>5 DEF P
<1>7. g \in [0..N -> Nat]
  BY <1>6
<1>8. QED
  BY <1>1, <1>2, <1>7 DEF IsSum

\* The sizes of the definitions with those of `full` in full.
SizesOf(full) ==
    [n \in 1..Len(ToolDefs) |-> IF ToolDefs[n] \in External \ full THEN StubSize[ToolDefs[n]]
                                ELSE FullSize[ToolDefs[n]]]

LEMMA SizesAreNat == ASSUME NEW full PROVE SizesOf(full) \in [1..Len(ToolDefs) -> Nat]
<1>1. /\ ToolDefs \in Seq(Range(ToolDefs)) /\ FullSize \in [Range(ToolDefs) -> Nat]
      /\ StubSize \in [Range(ToolDefs) -> Nat]
  BY LimitsAssumption
<1>2. \A n \in 1..Len(ToolDefs) : ToolDefs[n] \in Range(ToolDefs)
  BY <1>1
<1>3. QED
  BY <1>1, <1>2 DEF SizesOf

\* What the definitions come to is a number.
LEMMA TotalIsNat == ASSUME NEW full PROVE Total(full) \in Nat
<1> DEFINE N == Len(ToolDefs)
           sizes == SizesOf(full)
           sum[n \in 0..N] ==
             IF n = 0 THEN 0
             ELSE sum[n - 1] + (IF ToolDefs[n] \in External \ full THEN StubSize[ToolDefs[n]]
                                ELSE FullSize[ToolDefs[n]])
<1>1. N \in Nat /\ sizes \in [1..N -> Nat]
  BY LimitsAssumption, SizesAreNat
<1>2. \A g : [n \in 0..N |-> IF n = 0 THEN 0 ELSE g[n - 1] + sizes[n]]
             = [n \in 0..N |->
                  IF n = 0 THEN 0
                  ELSE g[n - 1] + (IF ToolDefs[n] \in External \ full THEN StubSize[ToolDefs[n]]
                                   ELSE FullSize[ToolDefs[n]])]
  <2>1. \A n \in 0..N : n # 0 => n \in 1..N
    BY <1>1
  <2>2. \A n \in 0..N : n # 0 => sizes[n] = IF ToolDefs[n] \in External \ full
                                            THEN StubSize[ToolDefs[n]] ELSE FullSize[ToolDefs[n]]
    BY <2>1 DEF SizesOf
  <2> HIDE DEF sizes, N
  <2>3. QED
    BY <2>2
<1>3. Total(full) = sum[N]
  BY DEF Total
<1>4. sum = [n \in 0..N |-> IF n = 0 THEN 0 ELSE sum[n - 1] + sizes[n]]
  <2> HIDE DEF N, sizes
  <2>1. \E g : g = [n \in 0..N |-> IF n = 0 THEN 0 ELSE g[n - 1] + sizes[n]]
    BY <1>1, SumExists
  <2>2. \E g : g = [n \in 0..N |->
                      IF n = 0 THEN 0
                      ELSE g[n - 1] + (IF ToolDefs[n] \in External \ full THEN StubSize[ToolDefs[n]]
                                       ELSE FullSize[ToolDefs[n]])]
    <3>1. PICK g : g = [n \in 0..N |-> IF n = 0 THEN 0 ELSE g[n - 1] + sizes[n]]
      BY <2>1
    <3>2. g = [n \in 0..N |->
                 IF n = 0 THEN 0
                 ELSE g[n - 1] + (IF ToolDefs[n] \in External \ full THEN StubSize[ToolDefs[n]]
                                  ELSE FullSize[ToolDefs[n]])]
      BY <1>2, <3>1, Zenon
    <3>3. QED
      BY <3>2, Zenon
  <2>3. sum = [n \in 0..N |->
                 IF n = 0 THEN 0
                 ELSE sum[n - 1] + (IF ToolDefs[n] \in External \ full THEN StubSize[ToolDefs[n]]
                                    ELSE FullSize[ToolDefs[n]])]
    BY <2>2
  <2>4. QED
    BY <1>2, <2>3
<1> HIDE DEF sum, N, sizes
<1>5. sum \in [0..N -> Nat]
  BY <1>1, <1>4, SumIsNat DEF IsSum
<1>6. QED
  BY <1>1, <1>3, <1>5
-----------------------------------------------------------------------------
(***************************************************************************)
(* The definitions a provider is sent                                      *)
(***************************************************************************)

\* What is known of a run of steps taken while within a set is a run of steps.
LEMMA StepsStay ==
    ASSUME NEW N \in Nat, NEW S, NEW base \in S, NEW step \in Steps(N, S), NEW g,
           DOMAIN g = 0..N, g = [n \in 0..N |-> g[n]], g[0] = base,
           \A n \in 1..N : g[n - 1] \in S => g[n] = step[<<n, g[n - 1]>>]
    PROVE  Follows(g, N, S, base, step)
<1> DEFINE P == {n \in 0..N : g[n] \in S}
<1>1. 0 \in P
  OBVIOUS
<1>2. ASSUME NEW n \in 1..N, n - 1 \in P PROVE n \in P
  <2>1. <<n, g[n - 1]>> \in (1..N) \X S
    BY <1>2
  <2>2. g[n] \in S
    BY <1>2, <2>1 DEF Steps
  <2>3. QED
    BY <2>2
<1> HIDE DEF P
<1>3. 0..N \subseteq P
  BY <1>1, <1>2, UpTo
<1>4. \A n \in 0..N : g[n] \in S
  BY <1>3 DEF P
<1>5. g \in [0..N -> S]
  BY <1>4
<1>6. \A n \in 1..N : n - 1 \in 0..N
  OBVIOUS
<1>7. QED
  BY <1>4, <1>5, <1>6 DEF Follows

Mru == Seq(Range(ToolDefs))

\* The tools upgraded after each step; the upgraded ones are external.
Grown(mru, full) ==
    /\ full[0] = {}
    /\ \A n \in 0..Len(Ranked(mru)) : full[n] \in SUBSET External
    /\ \A n \in 1..Len(Ranked(mru)) :
         full[n] = IF Upgradable(mru, n) /\ Total(full[n - 1] \cup {Ranked(mru)[n]}) <= DefBudget
                   THEN full[n - 1] \cup {Ranked(mru)[n]} ELSE full[n - 1]
    /\ Upgraded(mru) = full[Len(Ranked(mru))]

LEMMA UpgradedGrows ==
    ASSUME NEW mru \in Mru
    PROVE  \E full : Grown(mru, full)
<1> DEFINE N == Len(Ranked(mru))
           S == SUBSET External
           more(n, before) == IF Upgradable(mru, n) /\ Total(before \cup {Ranked(mru)[n]}) <= DefBudget
                              THEN before \cup {Ranked(mru)[n]} ELSE before
           step == [p \in (1..N) \X S |-> more(p[1], p[2])]
           full[n \in 0..N] ==
             IF n = 0 THEN {}
             ELSE LET before == full[n - 1]
                      mo == before \cup {Ranked(mru)[n]}
                  IN  IF Upgradable(mru, n) /\ Total(mo) <= DefBudget THEN mo ELSE before
<1>1. N \in Nat
  BY LimitsAssumption DEF Mru, Ranked
<1>2. {} \in S
  OBVIOUS
<1>3. \A n \in 1..N : \A b \in S : more(n, b) \in S
  BY DEF Upgradable
<1>4. Upgraded(mru) = full[N]
  BY DEF Upgraded
<1> HIDE DEF N, S
<1>5. step \in Steps(N, S)
  <2> HIDE DEF more
  <2>1. QED
    BY <1>3 DEF Steps
<1>6. \A n \in 1..N : \A b \in S : step[<<n, b>>] = more(n, b)
  <2> HIDE DEF more
  <2>1. QED
    OBVIOUS
<1> HIDE DEF step
<1>7. PICK g : Follows(g, N, S, {}, step)
  BY <1>1, <1>2, <1>5, StepsLead
<1>8. g = [n \in 0..N |-> IF n = 0 THEN {} ELSE more(n, g[n - 1])]
  <2> HIDE DEF more
  <2>1. \A n \in 1..N : n - 1 \in 0..N
    BY <1>1
  <2>2. \A n \in 1..N : g[n] = more(n, g[n - 1])
    BY <1>6, <1>7, <2>1 DEF Follows
  <2>3. \A n \in 0..N : n # 0 => n \in 1..N
    BY <1>1
  <2>4. QED
    BY <1>7, <2>2, <2>3 DEF Follows
<1>9. full = [n \in 0..N |-> IF n = 0 THEN {} ELSE more(n, full[n - 1])]
  BY <1>8, Zenon
<1>10. Follows(full, N, S, {}, step)
  <2> HIDE DEF full, more
  <2>1. DOMAIN full = 0..N /\ full = [n \in 0..N |-> full[n]]
    BY <1>9
  <2>2. full[0] = {}
    BY <1>1, <1>9
  <2>3. \A n \in 1..N : full[n] = more(n, full[n - 1])
    <3>1. \A n \in 1..N : n \in 0..N /\ n # 0
      BY <1>1
    <3>2. QED
      BY <1>9, <3>1
  <2>4. \A n \in 1..N : full[n - 1] \in S => full[n] = step[<<n, full[n - 1]>>]
    BY <1>6, <2>3
  <2>5. QED
    BY <1>1, <1>2, <1>5, <2>1, <2>2, <2>4, StepsStay
<1> HIDE DEF full, more
<1>11. \A n \in 0..N : full[n] \in S
  BY <1>10 DEF Follows
<1>12. \A n \in 1..N : full[n] = more(n, full[n - 1])
  <2>1. \A n \in 1..N : n - 1 \in 0..N
    BY <1>1
  <2>2. QED
    BY <1>6, <1>10, <1>11, <2>1 DEF Follows
<1>13. full[0] = {}
  BY <1>10 DEF Follows
<1>14. Grown(mru, full)
  BY <1>4, <1>11, <1>12, <1>13 DEF Grown, N, S, more
<1>15. QED
  BY <1>14

\* What the upgraded definitions come to is within the budget, if there are any.
LEMMA UpgradedFits ==
    ASSUME NEW mru \in Mru
    PROVE  Upgraded(mru) = {} \/ Total(Upgraded(mru)) <= DefBudget
<1> DEFINE N == Len(Ranked(mru))
<1>1. PICK full : Grown(mru, full)
  BY UpgradedGrows
<1>2. N \in Nat
  BY LimitsAssumption DEF Mru, Ranked
<1> DEFINE P == {n \in 0..N : full[n] = {} \/ Total(full[n]) <= DefBudget}
<1>3. 0 \in P
  BY <1>1, <1>2 DEF Grown
<1>4. ASSUME NEW n \in 1..N, n - 1 \in P PROVE n \in P
  <2>1. \/ full[n] = full[n - 1]
        \/ full[n] = full[n - 1] \cup {Ranked(mru)[n]}
           /\ Total(full[n - 1] \cup {Ranked(mru)[n]}) <= DefBudget
    BY <1>1 DEF Grown
  <2> HIDE DEF N
  <2>2. n \in 0..N
    BY <1>2
  <2>3. QED
    BY <1>4, <2>1, <2>2
<1> HIDE DEF P, N
<1>5. 0..N \subseteq P
  BY <1>2, <1>3, <1>4, UpTo
<1>6. full[N] = {} \/ Total(full[N]) <= DefBudget
  BY <1>2, <1>5 DEF P
<1>7. QED
  BY <1>1, <1>6 DEF Grown, N

\* The tool used last is the first external one among the recent.
First(mru, used) ==
    used # NoTool =>
      \E k \in 1..Len(mru) : /\ mru[k] = used /\ used \in External
                             /\ \A j \in 1..(k - 1) : mru[j] \notin External

\* It is the first to be upgraded, if it fits.
LEMMA UpgradedHasUsed ==
    ASSUME NEW mru \in Mru, NEW used, used # NoTool, First(mru, used),
           Total({used}) <= DefBudget
    PROVE  used \in Upgraded(mru)
<1> DEFINE N == Len(Ranked(mru))
<1>1. PICK full : Grown(mru, full)
  BY UpgradedGrows
<1>2. PICK k \in 1..Len(mru) : /\ mru[k] = used /\ used \in External
                               /\ \A j \in 1..(k - 1) : mru[j] \notin External
  BY DEF First
<1>3. /\ N \in Nat /\ Len(mru) \in Nat /\ Len(mru) <= N
      /\ \A j \in 1..Len(mru) : Ranked(mru)[j] = mru[j]
  BY LimitsAssumption DEF Mru, Ranked
<1>4. \A n \in 1..N :
         full[n] = IF Upgradable(mru, n) /\ Total(full[n - 1] \cup {Ranked(mru)[n]}) <= DefBudget
                   THEN full[n - 1] \cup {Ranked(mru)[n]} ELSE full[n - 1]
  BY <1>1 DEF Grown
<1> HIDE DEF N
<1>5. full[k - 1] = {}
  <2> DEFINE P == {n \in 0..(k - 1) : full[n] = {}}
  <2>1. 0 \in P
    BY <1>1 DEF Grown
  <2>2. ASSUME NEW n \in 1..(k - 1), n - 1 \in P PROVE n \in P
    <3>1. n \in 1..N /\ n \in 1..Len(mru) /\ n \in 0..(k - 1)
      BY <1>3
    <3>2. ~ Upgradable(mru, n)
      BY <1>2, <1>3, <3>1 DEF Upgradable
    <3>3. full[n] = full[n - 1]
      BY <1>4, <3>1, <3>2
    <3>4. QED
      BY <2>2, <3>1, <3>3
  <2> HIDE DEF P
  <2>3. k - 1 \in Nat /\ k - 1 \in 0..(k - 1)
    BY <1>3
  <2>4. 0..(k - 1) \subseteq P
    BY <2>1, <2>2, <2>3, UpTo
  <2>5. QED
    BY <2>3, <2>4 DEF P
<1>6. used \in full[k]
  <2>1. k \in 1..N /\ Ranked(mru)[k] = used
    BY <1>2, <1>3
  <2>2. Upgradable(mru, k)
    BY <1>2, <1>3, <2>1 DEF Upgradable
  <2>3. full[k - 1] \cup {Ranked(mru)[k]} = {used}
    BY <1>5, <2>1
  <2>4. full[k] = {used}
    BY <1>4, <2>1, <2>2, <2>3
  <2>5. QED
    BY <2>4
<1> DEFINE P == {n \in 0..N : n >= k => used \in full[n]}
<1>7. 0 \in P
  BY <1>3
<1>8. ASSUME NEW n \in 1..N, n - 1 \in P PROVE n \in P
  <2>1. full[n - 1] \subseteq full[n]
    BY <1>4
  <2>2. n \in 0..N /\ n \in Int
    BY <1>3
  <2>3. n = k \/ n < k \/ n - 1 >= k
    BY <2>2
  <2>4. QED
    BY <1>6, <1>8, <2>1, <2>2, <2>3
<1> HIDE DEF P
<1>9. 0..N \subseteq P
  BY <1>3, <1>7, <1>8, UpTo
<1>10. N >= k /\ N \in 0..N
  BY <1>3
<1>11. used \in full[N]
  BY <1>9, <1>10 DEF P
<1>12. QED
  BY <1>1, <1>11 DEF Grown, N

\* What a provider is sent fits, and has the tool used last.
LEMMA ShippedFits ==
    ASSUME NEW mru \in Mru, NEW used, First(mru, used)
    PROVE  /\ Total(Shipped(mru)) <= DefBudget \/ Total(Shipped(mru)) <= Total({})
           /\ used # NoTool /\ Total({used}) <= DefBudget => used \in Shipped(mru)
<1>1. CASE Total(External) <= DefBudget
  BY <1>1 DEF Shipped, First
<1>2. CASE ~ (Total(External) <= DefBudget)
  <2>1. Shipped(mru) = Upgraded(mru)
    BY <1>2 DEF Shipped
  <2>2. Total({}) <= Total({})
    BY TotalIsNat
  <2>3. QED
    BY <2>1, <2>2, UpgradedFits, UpgradedHasUsed
<1>3. QED
  BY <1>1, <1>2

\* The place of a tool among the recent ones.
LEMMA PlaceIs ==
    ASSUME NEW mru \in Mru, NEW t
    PROVE  /\ PlaceOf(mru, t) \in 1..(Len(mru) + 1)
           /\ PlaceOf(mru, t) <= Len(mru) => mru[PlaceOf(mru, t)] = t
           /\ \A j \in 1..(PlaceOf(mru, t) - 1) : mru[j] # t
<1> DEFINE T == {i \in 1..(Len(mru) + 1) : i <= Len(mru) => mru[i] = t}
<1>0. Len(mru) \in Nat
  BY DEF Mru
<1>1. T \in SUBSET Nat /\ Len(mru) + 1 \in T
  BY <1>0
<1> HIDE DEF T
<1>2. PICK i \in T : \A j \in T : i <= j
  BY <1>1, LeastNumber
<1>3. i \in 1..(Len(mru) + 1) /\ (i <= Len(mru) => mru[i] = t)
  BY DEF T
<1>4. ASSUME NEW j \in 1..(i - 1) PROVE mru[j] # t
  <2>1. j \notin T /\ j \in 1..(Len(mru) + 1)
    BY <1>0, <1>2, <1>3
  <2>2. QED
    BY <2>1 DEF T
<1>5. QED
  BY <1>3, <1>4 DEF PlaceOf

LEMMA TouchedIs ==
    ASSUME NEW mru \in Mru, NEW t \in Range(ToolDefs), NEW used, First(mru, used)
    PROVE  /\ Touched(mru, t) \in Mru
           /\ First(Touched(mru, t), IF t \in External THEN t ELSE used)
<1> DEFINE old == PlaceOf(mru, t)
           len == IF old > Len(mru) THEN old ELSE Len(mru)
           new == [i \in 1..len |-> IF i = 1 THEN t ELSE IF i <= old THEN mru[i - 1] ELSE mru[i]]
<1>1. Touched(mru, t) = new
  BY DEF Touched
<1>2. /\ Len(mru) \in Nat /\ old \in 1..(Len(mru) + 1) /\ (old <= Len(mru) => mru[old] = t)
      /\ \A i \in 1..Len(mru) : mru[i] \in Range(ToolDefs)
  BY PlaceIs DEF Mru
<1> HIDE DEF old
<1>3. len \in Nat /\ 1 \in 1..len /\ len <= Len(mru) + 1 /\ Len(mru) <= len /\ old <= len
  BY <1>2
<1>4. \A i \in 1..len : i # 1 /\ i <= old => i - 1 \in 1..Len(mru)
  BY <1>2, <1>3
<1>5. \A i \in 1..len : ~ (i <= old) => i \in 1..Len(mru)
  BY <1>2
<1> HIDE DEF len
<1>6. \A i \in 1..len : new[i] \in Range(ToolDefs)
  BY <1>2, <1>4, <1>5
<1>7. new \in Seq(Range(ToolDefs)) /\ Len(new) = len /\ DOMAIN new = 1..len
  BY <1>3, <1>6
<1>8. First(new, IF t \in External THEN t ELSE used)
  <2>1. new[1] = t
    BY <1>3
  <2>2. \A i \in 1..len : i # 1 /\ i <= old => new[i] = mru[i - 1]
    BY <1>3
  <2>3. \A i \in 1..len : i # 1 /\ ~ (i <= old) => new[i] = mru[i]
    BY <1>3
  <2> HIDE DEF new
  <2>4. CASE t \in External
    <3>1. 1 \in 1..Len(new) /\ \A j \in 1..(1 - 1) : FALSE
      BY <1>3, <1>7
    <3>2. QED
      BY <2>1, <2>4, <3>1 DEF First
  <2>5. CASE t \notin External /\ used # NoTool
    <3>1. PICK k \in 1..Len(mru) : /\ mru[k] = used /\ used \in External
                                   /\ \A j \in 1..(k - 1) : mru[j] \notin External
      BY <2>5 DEF First
    <3>2. old # k
      BY <1>2, <2>5, <3>1
    <3>3. CASE k < old
      <4>1. /\ k + 1 \in 1..len /\ k + 1 # 1 /\ k + 1 <= old /\ (k + 1) - 1 = k
        BY <1>2, <1>3, <3>3
      <4>2. new[k + 1] = used
        BY <2>2, <3>1, <4>1
      <4>3. ASSUME NEW j \in 1..((k + 1) - 1) PROVE new[j] \notin External
        <5>1. CASE j = 1
          BY <2>1, <2>5, <5>1
        <5>2. CASE j # 1
          <6>1. j \in 1..len /\ j <= old /\ j - 1 \in 1..(k - 1)
            BY <1>2, <1>3, <3>3, <5>2
          <6>2. QED
            BY <2>2, <3>1, <5>2, <6>1
        <5>3. QED
          BY <5>1, <5>2
      <4>4. QED
        BY <1>7, <2>5, <3>1, <4>1, <4>2, <4>3 DEF First
    <3>4. CASE old < k
      <4>1. k \in 1..len /\ k # 1 /\ ~ (k <= old)
        BY <1>2, <1>3, <3>4
      <4>2. new[k] = used
        BY <2>3, <3>1, <4>1
      <4>3. ASSUME NEW j \in 1..(k - 1) PROVE new[j] \notin External
        <5>1. CASE j = 1
          BY <2>1, <2>5, <5>1
        <5>2. CASE j # 1 /\ j <= old
          <6>1. j \in 1..len /\ j - 1 \in 1..(k - 1)
            BY <1>2, <1>3, <4>1, <5>2
          <6>2. QED
            BY <2>2, <3>1, <5>2, <6>1
        <5>3. CASE j # 1 /\ ~ (j <= old)
          <6>1. j \in 1..len
            BY <1>2, <1>3, <4>1
          <6>2. QED
            BY <2>3, <3>1, <5>3, <6>1
        <5>4. QED
          BY <5>1, <5>2, <5>3
      <4>4. QED
        BY <1>7, <2>5, <3>1, <4>1, <4>2, <4>3 DEF First
    <3>5. old < k \/ k < old
      BY <1>2, <3>2
    <3>6. QED
      BY <3>3, <3>4, <3>5
  <2>6. CASE t \notin External /\ used = NoTool
    BY <2>6 DEF First
  <2>7. QED
    BY <2>4, <2>5, <2>6
<1>9. QED
  BY <1>1, <1>7, <1>8 DEF Mru

-----------------------------------------------------------------------------
(***************************************************************************)
(* What truncation leaves                                                  *)
(***************************************************************************)

MessageKinds == {"say", "result"}
Message == [kind : MessageKinds, size : Nat]
IsResult(m) == m.kind = "result"

LEMMA ElidedIs ==
    ASSUME NEW m \in Message
    PROVE  Elided(m) \in Message /\ (IsResult(Elided(m)) <=> IsResult(m)) /\ Elided(Elided(m)) = Elided(m)
BY LimitsAssumption DEF Elided, Message, IsResult

\* A running sum of the sizes of messages.
SumOf(ms, sum) ==
    /\ sum \in [0..Len(ms) -> Nat] /\ sum[0] = 0
    /\ \A n \in 1..Len(ms) : sum[n] = sum[n - 1] + ms[n].size
    /\ Estimate(ms) = sum[Len(ms)]

LEMMA EstimateIs ==
    ASSUME NEW ms \in Seq(Message)
    PROVE  \E sum : SumOf(ms, sum)
<1> DEFINE N == Len(ms)
           sizes == [n \in 1..N |-> ms[n].size]
           sum[n \in 0..N] == IF n = 0 THEN 0 ELSE sum[n - 1] + ms[n].size
<1>1. N \in Nat /\ sizes \in [1..N -> Nat]
  <2>1. \A n \in 1..Len(ms) : ms[n] \in Message
    OBVIOUS
  <2>2. \A m \in Message : m.size \in Nat
    BY DEF Message
  <2>3. QED
    BY <2>1, <2>2
<1>2. \A n \in 1..N : sizes[n] = ms[n].size
  OBVIOUS
<1>3. Estimate(ms) = sum[N]
  BY DEF Estimate
<1> HIDE DEF N, sizes
<1>4. \A n \in 0..N : n # 0 => sizes[n] = ms[n].size
  <2>1. \A n \in 0..N : n # 0 => n \in 1..N
    BY <1>1
  <2>2. QED
    BY <1>2, <2>1
<1>5. \A g : [n \in 0..N |-> IF n = 0 THEN 0 ELSE g[n - 1] + sizes[n]]
             = [n \in 0..N |-> IF n = 0 THEN 0 ELSE g[n - 1] + ms[n].size]
  BY <1>4
<1>6. PICK g : g = [n \in 0..N |-> IF n = 0 THEN 0 ELSE g[n - 1] + sizes[n]]
  BY <1>1, SumExists
<1>7. g = [n \in 0..N |-> IF n = 0 THEN 0 ELSE g[n - 1] + ms[n].size]
  BY <1>5, <1>6, Zenon
<1>8. sum = [n \in 0..N |-> IF n = 0 THEN 0 ELSE sum[n - 1] + ms[n].size]
  BY <1>7, Zenon
<1>9. sum = [n \in 0..N |-> IF n = 0 THEN 0 ELSE sum[n - 1] + sizes[n]]
  BY <1>5, <1>8
<1> HIDE DEF sum
<1>10. sum \in [0..N -> Nat] /\ sum[0] = 0 /\ \A n \in 1..N : sum[n] = sum[n - 1] + sizes[n]
  <2>1. IsSum(sum, N, sizes)
    BY <1>1, <1>9, SumIsNat
  <2>2. QED
    BY <2>1 DEF IsSum
<1>11. SumOf(ms, sum)
  BY <1>2, <1>3, <1>10 DEF SumOf, N
<1>12. QED
  BY <1>11

LEMMA EstimateIsNat == ASSUME NEW ms \in Seq(Message) PROVE Estimate(ms) \in Nat
<1>1. PICK sum : SumOf(ms, sum)
  BY EstimateIs
<1>2. Len(ms) \in 0..Len(ms)
  OBVIOUS
<1>3. QED
  BY <1>1, <1>2 DEF SumOf

\* More messages come to no less.
LEMMA EstimateMore ==
    ASSUME NEW ms \in Seq(Message), NEW c \in Seq(Message), NEW more, more = ms \o c
    PROVE  Estimate(ms) <= Estimate(more)
<1>1. /\ more \in Seq(Message) /\ Len(ms) \in Nat /\ Len(more) \in Nat /\ Len(ms) <= Len(more)
      /\ \A n \in 1..Len(ms) : more[n] = ms[n]
  OBVIOUS
<1>2. PICK f : SumOf(ms, f)
  BY EstimateIs
<1>3. PICK g : SumOf(more, g)
  BY <1>1, EstimateIs
<1> DEFINE P == {n \in 0..Len(ms) : g[n] = f[n]}
<1>4. 0 \in P
  BY <1>1, <1>2, <1>3 DEF SumOf
<1>5. ASSUME NEW n \in 1..Len(ms), n - 1 \in P PROVE n \in P
  <2>1. n \in 1..Len(more) /\ n \in 0..Len(ms)
    BY <1>1
  <2>2. f[n] = f[n - 1] + ms[n].size /\ g[n] = g[n - 1] + more[n].size
    BY <1>2, <1>3, <2>1 DEF SumOf
  <2>3. QED
    BY <1>1, <1>5, <2>1, <2>2
<1> HIDE DEF P
<1>6. 0..Len(ms) \subseteq P
  BY <1>1, <1>4, <1>5, UpTo
<1>7. g[Len(ms)] = f[Len(ms)]
  BY <1>1, <1>6 DEF P
<1>14. \A n \in 1..Len(more) : g[n] = g[n - 1] + more[n].size
  BY <1>3 DEF SumOf
<1>15. \A n \in 1..Len(more) : more[n].size \in Nat
  <2>1. \A n \in 1..Len(more) : more[n] \in Message
    BY <1>1
  <2>2. \A m \in Message : m.size \in Nat
    BY DEF Message
  <2>3. QED
    BY <2>1, <2>2
<1> DEFINE Q == {n \in 0..Len(more) : n >= Len(ms) => g[Len(ms)] <= g[n]}
<1>8. \A n \in 0..Len(more) : g[n] \in Nat
  BY <1>3 DEF SumOf
<1>9. 0 \in Q
  BY <1>1, <1>8
<1>10. ASSUME NEW n \in 1..Len(more), n - 1 \in Q PROVE n \in Q
  <2>1. n \in 0..Len(more) /\ n - 1 \in 0..Len(more) /\ Len(ms) \in 0..Len(more)
    BY <1>1
  <2>2. g[n] = g[n - 1] + more[n].size
    BY <1>14
  <2>3. more[n].size \in Nat
    BY <1>15
  <2>4. g[n] \in Nat /\ g[n - 1] \in Nat /\ g[Len(ms)] \in Nat
    BY <1>8, <2>1
  <2>5. CASE n = Len(ms)
    BY <2>1, <2>4, <2>5
  <2>6. CASE n < Len(ms)
    BY <1>1, <2>1, <2>6
  <2>7. CASE n - 1 >= Len(ms)
    <3>1. g[Len(ms)] <= g[n - 1]
      BY <1>10, <2>7
    <3>2. g[Len(ms)] <= g[n]
      BY SMTT(40), <2>2, <2>3, <2>4, <3>1
    <3>3. QED
      BY <2>1, <3>2
  <2>8. n = Len(ms) \/ n < Len(ms) \/ n - 1 >= Len(ms)
    BY <1>1
  <2>9. QED
    BY <2>5, <2>6, <2>7, <2>8
<1> HIDE DEF Q
<1>11. 0..Len(more) \subseteq Q
  BY <1>1, <1>9, <1>10, UpTo
<1>12. g[Len(ms)] <= g[Len(more)]
  BY <1>1, <1>11 DEF Q
<1>13. QED
  BY <1>2, <1>3, <1>7, <1>12 DEF SumOf

\* The messages as they were said or elided, from the oldest on and for a reason.
Fitted(ms, wh) ==
    /\ ms \in Seq(Message) /\ wh \in Seq(Message) /\ Len(ms) = Len(wh)
    /\ \A i \in 1..Len(ms) : ms[i] = wh[i] \/ (ms[i] = Elided(wh[i]) /\ IsResult(wh[i]))
    /\ \A i, j \in 1..Len(ms) :
         i < j /\ IsResult(wh[i]) /\ ms[j] # wh[j] => ms[i] = Elided(wh[i])
    /\ Estimate(wh) <= HistoryBudget => ms = wh

\* The results among the first n are elided.
Emptied(ms, wh, n) ==
    \A i \in 1..n : IsResult(wh[i]) => ms[i] = Elided(wh[i])

\* One result less, if there is one there, while the messages do not fit.
LEMMA ShedFits ==
    ASSUME NEW ms, NEW wh, Fitted(ms, wh), NEW n \in 1..Len(wh),
           Emptied(ms, wh, n - 1) \/ Estimate(ms) <= HistoryBudget
    PROVE  /\ Fitted(Shed(ms, n), wh)
           /\ Emptied(Shed(ms, n), wh, n) \/ Estimate(Shed(ms, n)) <= HistoryBudget
<1> SUFFICES ASSUME NEW new, new = Shed(ms, n)
             PROVE  Fitted(new, wh) /\ (Emptied(new, wh, n) \/ Estimate(new) <= HistoryBudget)
  OBVIOUS
<1>1. /\ ms \in Seq(Message) /\ wh \in Seq(Message) /\ Len(ms) = Len(wh) /\ Len(wh) \in Nat
      /\ n \in 1..Len(ms)
  BY DEF Fitted
<1>2. \A i \in 1..Len(ms) : ms[i] = wh[i] \/ (ms[i] = Elided(wh[i]) /\ IsResult(wh[i]))
  BY DEF Fitted
<1>3. \A i \in 1..Len(ms) : ms[i] \in Message /\ wh[i] \in Message
  BY <1>1
<1>4. Estimate(ms) \in Nat /\ Estimate(wh) \in Nat /\ HistoryBudget \in Nat
  BY <1>1, EstimateIsNat, LimitsAssumption
<1>5. CASE Estimate(ms) <= HistoryBudget
  <2>1. new = ms
    BY <1>4, <1>5 DEF Shed
  <2>2. QED
    BY <1>5, <2>1
<1>6. CASE Estimate(ms) > HistoryBudget
  <2>0. Emptied(ms, wh, n - 1)
    BY <1>4, <1>6
  <2>1. ~ (Estimate(wh) <= HistoryBudget)
    BY <1>4, <1>6 DEF Fitted
  <2>2. IsResult(ms[n]) <=> IsResult(wh[n])
    BY <1>1, <1>2, <1>3, ElidedIs
  <2>3. CASE ~ IsResult(wh[n])
    <3>1. new = ms
      BY <2>2, <2>3 DEF Shed, IsResult
    <3>2. Emptied(ms, wh, n)
      <4>1. SUFFICES ASSUME NEW i \in 1..n, IsResult(wh[i]) PROVE ms[i] = Elided(wh[i])
        BY DEF Emptied
      <4>2. i # n
        BY <2>3, <4>1
      <4>3. i \in 1..(n - 1)
        BY <4>2
      <4>4. QED
        BY <2>0, <4>1, <4>3 DEF Emptied
    <3>3. QED
      BY <3>1, <3>2
  <2>4. CASE IsResult(wh[n])
    <3>1. new = [ms EXCEPT ![n] = Elided(ms[n])]
      BY <1>6, <2>2, <2>4 DEF Shed, IsResult
    <3>2. Elided(ms[n]) = Elided(wh[n]) /\ Elided(ms[n]) \in Message
      BY <1>1, <1>2, <1>3, ElidedIs
    <3>3. new \in Seq(Message) /\ Len(new) = Len(ms)
      BY <1>1, <3>1, <3>2
    <3>4. new[n] = Elided(wh[n])
      BY <1>1, <3>1, <3>2
    <3>5. \A i \in 1..Len(ms) : i # n => new[i] = ms[i]
      BY <1>1, <3>1
    <3>6. Emptied(new, wh, n)
      <4>1. SUFFICES ASSUME NEW i \in 1..n, IsResult(wh[i]) PROVE new[i] = Elided(wh[i])
        BY DEF Emptied
      <4>2. CASE i = n
        BY <3>4, <4>2
      <4>3. CASE i # n
        <5>1. i \in 1..(n - 1) /\ i \in 1..Len(ms)
          BY <1>1, <4>3
        <5>2. QED
          BY <2>0, <3>5, <4>1, <4>3, <5>1 DEF Emptied
      <4>4. QED
        BY <4>2, <4>3
    <3>7. \A i \in 1..Len(ms) : new[i] = wh[i] \/ (new[i] = Elided(wh[i]) /\ IsResult(wh[i]))
      BY <1>2, <2>4, <3>4, <3>5
    <3>8. ASSUME NEW i \in 1..Len(ms), NEW j \in 1..Len(ms),
                 i < j, IsResult(wh[i]), new[j] # wh[j]
          PROVE  new[i] = Elided(wh[i])
      <4>1. CASE i \in 1..n
        BY <3>6, <3>8, <4>1 DEF Emptied
      <4>2. CASE i \notin 1..n
        <5>1. i # n /\ j # n
          BY <1>1, <3>8, <4>2
        <5>2. ms[j] # wh[j]
          BY <3>5, <3>8, <5>1
        <5>3. ms[i] = Elided(wh[i])
          BY <3>8, <5>2 DEF Fitted
        <5>4. QED
          BY <3>5, <5>1, <5>3
      <4>3. QED
        BY <4>1, <4>2
    <3>9. Fitted(new, wh)
      BY <1>1, <2>1, <3>3, <3>7, <3>8 DEF Fitted
    <3>10. QED
      BY <3>6, <3>9
  <2>5. QED
    BY <2>3, <2>4
<1>7. QED
  BY <1>4, <1>5, <1>6

LEMMA ShedIs ==
    ASSUME NEW ms \in Seq(Message), NEW n \in 1..Len(ms)
    PROVE  Shed(ms, n) \in Seq(Message) /\ Len(Shed(ms, n)) = Len(ms)
<1>1. ms[n] \in Message
  OBVIOUS
<1>2. Elided(ms[n]) \in Message
  BY <1>1, ElidedIs
<1>3. Shed(ms, n) = ms \/ Shed(ms, n) = [ms EXCEPT ![n] = Elided(ms[n])]
  BY DEF Shed
<1>4. QED
  BY <1>2, <1>3

\* What is left after each message was looked at.
Shedding(ms, shed) ==
    /\ shed[0] = ms
    /\ \A n \in 1..Len(ms) : shed[n] = Shed(shed[n - 1], n)
    /\ Truncated(ms) = shed[Len(ms)]

LEMMA TruncatedSheds ==
    ASSUME NEW ms \in Seq(Message)
    PROVE  \E shed : Shedding(ms, shed)
<1> DEFINE N == Len(ms)
           S == {x \in Seq(Message) : Len(x) = Len(ms)}
           step == [p \in (1..N) \X S |-> Shed(p[2], p[1])]
           shed[n \in 0..N] == IF n = 0 THEN ms ELSE Shed(shed[n - 1], n)
<1>1. N \in Nat /\ ms \in S
  OBVIOUS
<1>2. \A n \in 1..N : \A x \in S : Shed(x, n) \in S
  BY ShedIs
<1>3. Truncated(ms) = shed[N]
  BY DEF Truncated
<1> HIDE DEF N, S
<1>4. step \in Steps(N, S)
  BY <1>2 DEF Steps
<1>5. \A n \in 1..N : \A x \in S : step[<<n, x>>] = Shed(x, n)
  OBVIOUS
<1> HIDE DEF step
<1>6. PICK g : Follows(g, N, S, ms, step)
  BY <1>1, <1>4, StepsLead
<1>7. g = [n \in 0..N |-> IF n = 0 THEN ms ELSE Shed(g[n - 1], n)]
  <2>1. \A n \in 1..N : n - 1 \in 0..N
    BY <1>1
  <2>2. \A n \in 1..N : g[n] = Shed(g[n - 1], n)
    BY <1>5, <1>6, <2>1 DEF Follows
  <2>3. \A n \in 0..N : n # 0 => n \in 1..N
    BY <1>1
  <2>4. QED
    BY <1>6, <2>2, <2>3 DEF Follows
<1>8. shed = [n \in 0..N |-> IF n = 0 THEN ms ELSE Shed(shed[n - 1], n)]
  BY <1>7, Zenon
<1> HIDE DEF shed
<1>9. shed[0] = ms
  BY <1>1, <1>8
<1>10. \A n \in 1..N : shed[n] = Shed(shed[n - 1], n)
  <2>1. \A n \in 1..N : n \in 0..N /\ n # 0
    BY <1>1
  <2>2. QED
    BY <1>8, <2>1
<1>11. Shedding(ms, shed)
  BY <1>3, <1>9, <1>10 DEF Shedding, N
<1>12. QED
  BY <1>11

\* Truncated messages fit, or have no result left to lose.
LEMMA TruncatedFits ==
    ASSUME NEW ms, NEW wh, Fitted(ms, wh), NEW new, new = Truncated(ms)
    PROVE  Fitted(new, wh) /\ (Emptied(new, wh, Len(wh)) \/ Estimate(new) <= HistoryBudget)
<1> DEFINE N == Len(wh)
<1>1. ms \in Seq(Message) /\ Len(ms) = N /\ N \in Nat
  BY DEF Fitted
<1>2. PICK shed : Shedding(ms, shed)
  BY <1>1, TruncatedSheds
<1> HIDE DEF N
<1> DEFINE P == {n \in 0..N : /\ Fitted(shed[n], wh)
                              /\ Emptied(shed[n], wh, n) \/ Estimate(shed[n]) <= HistoryBudget}
<1>3. 0 \in P
  <2>1. shed[0] = ms
    BY <1>2 DEF Shedding
  <2>2. Emptied(ms, wh, 0)
    BY DEF Emptied
  <2>3. QED
    BY <1>1, <2>1, <2>2
<1>4. ASSUME NEW n \in 1..N, n - 1 \in P PROVE n \in P
  <2>1. shed[n] = Shed(shed[n - 1], n)
    BY <1>1, <1>2 DEF Shedding
  <2>2. /\ Fitted(shed[n - 1], wh) /\ n \in 0..N /\ n \in 1..Len(wh)
        /\ Emptied(shed[n - 1], wh, n - 1) \/ Estimate(shed[n - 1]) <= HistoryBudget
    BY <1>1, <1>4 DEF N
  <2> HIDE DEF P
  <2>3. /\ Fitted(Shed(shed[n - 1], n), wh)
        /\ Emptied(Shed(shed[n - 1], n), wh, n) \/ Estimate(Shed(shed[n - 1], n)) <= HistoryBudget
    BY <2>2, ShedFits
  <2>4. QED
    BY <2>1, <2>2, <2>3 DEF P
<1> HIDE DEF P
<1>5. 0..N \subseteq P
  BY <1>1, <1>3, <1>4, UpTo
<1>6. N \in P
  BY <1>1, <1>5
<1>7. new = shed[N]
  BY <1>1, <1>2 DEF Shedding
<1>8. QED
  BY <1>6, <1>7 DEF P, N

Lengthens(c, a, b, S) ==
    /\ c \in Seq(S) /\ Len(c) = Len(a) + Len(b)
    /\ \A i \in 1..Len(a) : c[i] = a[i]
    /\ \A i \in 1..Len(c) : i \notin 1..Len(a) => c[i] = b[i - Len(a)]

LEMMA Lengthened ==
    ASSUME NEW S, NEW a \in Seq(S), NEW b \in Seq(S), NEW c, c = a \o b
    PROVE  Lengthens(c, a, b, S)
<1>1. c \in Seq(S) /\ Len(c) = Len(a) + Len(b)
  OBVIOUS
<1>2. \A i \in 1..Len(a) : c[i] = a[i]
  OBVIOUS
<1>3. \A i \in 1..Len(c) : i \notin 1..Len(a) => c[i] = b[i - Len(a)]
  OBVIOUS
<1>4. QED
  BY <1>1, <1>2, <1>3 DEF Lengthens

\* What is said next is added to both.
LEMMA FittedMore ==
    ASSUME NEW ms, NEW wh, Fitted(ms, wh), NEW c \in Seq(Message),
           NEW ms2, NEW wh2, ms2 = ms \o c, wh2 = wh \o c
    PROVE  Fitted(ms2, wh2)
<1>1. ms \in Seq(Message) /\ wh \in Seq(Message) /\ Len(ms) = Len(wh) /\ Len(ms) \in Nat /\ Len(c) \in Nat
  BY DEF Fitted
<1>9. Lengthens(ms2, ms, c, Message) /\ Lengthens(wh2, wh, c, Message)
  BY <1>1, Lengthened
<1>2. /\ ms2 \in Seq(Message) /\ wh2 \in Seq(Message) /\ Len(ms2) = Len(wh2) /\ Len(ms2) \in Nat
      /\ Len(ms) <= Len(ms2)
  BY <1>1, <1>9 DEF Lengthens
<1>3. \A i \in 1..Len(ms) : ms2[i] = ms[i] /\ wh2[i] = wh[i]
  BY <1>1, <1>9 DEF Lengthens
<1>4. \A i \in 1..Len(ms2) : i \notin 1..Len(ms) => ms2[i] = wh2[i]
  <2>1. SUFFICES ASSUME NEW i \in 1..Len(ms2), i \notin 1..Len(ms) PROVE ms2[i] = wh2[i]
    OBVIOUS
  <2>2. ms2[i] = c[i - Len(ms)]
    BY <1>9, <2>1 DEF Lengthens
  <2>3. wh2[i] = c[i - Len(wh)]
    BY <1>1, <1>2, <1>9, <2>1 DEF Lengthens
  <2>4. QED
    BY <1>1, <2>2, <2>3
<1>5. \A i \in 1..Len(ms2) : ms2[i] = wh2[i] \/ (ms2[i] = Elided(wh2[i]) /\ IsResult(wh2[i]))
  <2>1. \A i \in 1..Len(ms) : ms[i] = wh[i] \/ (ms[i] = Elided(wh[i]) /\ IsResult(wh[i]))
    BY DEF Fitted
  <2>2. SUFFICES ASSUME NEW i \in 1..Len(ms2)
                 PROVE  ms2[i] = wh2[i] \/ (ms2[i] = Elided(wh2[i]) /\ IsResult(wh2[i]))
    OBVIOUS
  <2>3. CASE i \in 1..Len(ms)
    <3>1. ms2[i] = ms[i] /\ wh2[i] = wh[i]
      BY <1>3, <2>3
    <3>2. ms[i] = wh[i] \/ (ms[i] = Elided(wh[i]) /\ IsResult(wh[i]))
      BY <2>1, <2>3
    <3>3. QED
      BY <3>1, <3>2
  <2>4. CASE i \notin 1..Len(ms)
    <3>1. ms2[i] = wh2[i]
      BY <1>1, <1>2, <1>4, <2>4
    <3>2. QED
      BY <3>1
  <2>5. QED
    BY <2>3, <2>4
<1>6. ASSUME NEW i \in 1..Len(ms2), NEW j \in 1..Len(ms2), i < j, IsResult(wh2[i]), ms2[j] # wh2[j]
      PROVE  ms2[i] = Elided(wh2[i])
  <2>1. j \in 1..Len(ms)
    BY <1>4, <1>6
  <2>2. i \in 1..Len(ms)
    BY <1>1, <1>6, <2>1
  <2>3. QED
    BY <1>3, <1>6, <2>1, <2>2 DEF Fitted
<1>7. ASSUME Estimate(wh2) <= HistoryBudget PROVE ms2 = wh2
  <2>1. Estimate(wh) <= Estimate(wh2)
    BY <1>1, EstimateMore
  <2>2. Estimate(wh) \in Nat /\ Estimate(wh2) \in Nat /\ HistoryBudget \in Nat
    BY <1>1, <1>2, EstimateIsNat, LimitsAssumption
  <2>3. Estimate(wh) <= HistoryBudget
    BY <1>7, <2>1, <2>2
  <2>4. ms = wh
    BY <2>3 DEF Fitted
  <2>5. QED
    BY <2>4
<1>8. QED
  BY <1>2, <1>5, <1>6, <1>7 DEF Fitted

-----------------------------------------------------------------------------
(***************************************************************************)
(* Turns and what is saved of them                                         *)
(***************************************************************************)

Used == Range(ToolDefs) \cup {NoTool}
Messages == Seq(Message)
Turn ==
    [on : BOOLEAN, asked : BOOLEAN, messages : Messages, whole : Messages, mru : Mru,
     shipped : SUBSET External, iteration : Nat, usage : Nat, used : Used]

GoodTurn(t) ==
    /\ t \in Turn
    /\ t.asked = TRUE => t.shipped = Shipped(t.mru)
    /\ First(t.mru, t.used)
    /\ Fitted(t.messages, t.whole)

\* What is saved has been truncated.
GoodSaved(h, w, r, l) ==
    /\ Fitted(h, w) /\ (Emptied(h, w, Len(w)) \/ Estimate(h) <= HistoryBudget)
    /\ r \in Mru /\ l \in Used /\ First(r, l)

LEMMA ShippedIs == ASSUME NEW mru \in Mru PROVE Shipped(mru) \in SUBSET External
<1>1. PICK full : Grown(mru, full)
  BY UpgradedGrows
<1>2. Len(Ranked(mru)) \in 0..Len(Ranked(mru))
  BY LimitsAssumption DEF Mru, Ranked
<1>3. Upgraded(mru) \in SUBSET External
  BY <1>1, <1>2 DEF Grown
<1>4. QED
  BY <1>3 DEF Shipped

LEMMA NothingFits == Fitted(<<>>, <<>>) /\ Emptied(<<>>, <<>>, 0) /\ <<>> \in Messages
BY DEF Fitted, Emptied, Messages

LEMMA IdleGood == GoodTurn(Idle)
<1>1. <<>> \in Mru /\ First(<<>>, NoTool) /\ NoTool \in Used
  BY DEF Mru, First, Used
<1>2. Idle \in Turn
  BY <1>1, NothingFits DEF Idle, Turn
<1>3. Idle.asked = FALSE /\ Idle.mru = <<>> /\ Idle.used = NoTool /\ Idle.messages = <<>> /\ Idle.whole = <<>>
  BY DEF Idle
<1>4. QED
  BY <1>1, <1>2, <1>3, NothingFits DEF GoodTurn

LEMMA SayIs == Say \in Message
BY DEF Say, Message, MessageKinds

LEMMA ResultIs == ASSUME NEW tool \in Range(ToolDefs) PROVE Result(tool) \in Message
<1>1. ResultSize[tool] \in Nat
  BY LimitsAssumption
<1>2. QED
  BY <1>1 DEF Result, Message, MessageKinds

LEMMA AppendIsMore ==
    ASSUME NEW S, NEW s \in Seq(S), NEW x \in S
    PROVE  Append(s, x) = s \o <<x>>
OBVIOUS

LEMMA BegunGood ==
    ASSUME NEW h, NEW w, NEW r, NEW l, GoodSaved(h, w, r, l),
           NEW t, t = [Idle EXCEPT !.on = TRUE, !.messages = Append(Truncated(h), Say),
                                   !.whole = Append(w, Say), !.mru = r, !.used = l]
    PROVE  GoodTurn(t)
<1> DEFINE ms == Append(Truncated(h), Say)
           wh == Append(w, Say)
<1>1. Fitted(Truncated(h), w)
  BY TruncatedFits DEF GoodSaved
<1>2. Truncated(h) \in Seq(Message) /\ w \in Seq(Message)
  BY <1>1 DEF Fitted
<1>3. ms = Truncated(h) \o <<Say>> /\ wh = w \o <<Say>>
  BY <1>2, SayIs, AppendIsMore
<1>4. <<Say>> \in Seq(Message)
  BY SayIs
<1> HIDE DEF ms, wh
<1>5. Fitted(ms, wh)
  BY <1>1, <1>3, <1>4, FittedMore
<1>6. ms \in Messages /\ wh \in Messages
  BY <1>5 DEF Fitted, Messages
<1>7. t = [Idle EXCEPT !.on = TRUE, !.messages = ms, !.whole = wh, !.mru = r, !.used = l]
  BY DEF ms, wh
<1>8. r \in Mru /\ l \in Used /\ First(r, l)
  BY DEF GoodSaved
<1>9. Idle \in Turn /\ Idle.asked = FALSE
  BY IdleGood DEF GoodTurn, Idle
<1>10. t \in Turn
  BY <1>6, <1>7, <1>8, <1>9 DEF Turn
<1>11. t.asked = FALSE /\ t.mru = r /\ t.used = l /\ t.messages = ms /\ t.whole = wh
  BY <1>7, <1>9 DEF Turn
<1>12. QED
  BY <1>5, <1>8, <1>10, <1>11 DEF GoodTurn

LEMMA AskedGood ==
    ASSUME NEW t, GoodTurn(t),
           NEW new, new = [t EXCEPT !.asked = TRUE, !.shipped = Shipped(t.mru)]
    PROVE  GoodTurn(new)
<1>1. t \in Turn /\ t.mru \in Mru
  BY DEF GoodTurn, Turn
<1>2. Shipped(t.mru) \in SUBSET External
  BY <1>1, ShippedIs
<1>3. new \in Turn
  BY <1>1, <1>2 DEF Turn
<1>4. /\ new.shipped = Shipped(t.mru) /\ new.mru = t.mru /\ new.used = t.used
      /\ new.messages = t.messages /\ new.whole = t.whole
  BY <1>1 DEF Turn
<1>5. QED
  BY <1>3, <1>4 DEF GoodTurn

LEMMA SaidGood ==
    ASSUME NEW t, GoodTurn(t), NEW c \in Seq(Message), NEW new, new = Said(t, c)
    PROVE  GoodTurn(new) /\ new.mru = t.mru /\ new.used = t.used
<1> DEFINE ms == t.messages \o c
           wh == t.whole \o c
<1>1. t \in Turn /\ t.usage \in Nat
  BY DEF GoodTurn, Turn
<1>2. Fitted(ms, wh)
  BY FittedMore DEF GoodTurn
<1>3. new = [t EXCEPT !.messages = ms, !.whole = wh, !.usage = t.usage + 1]
  BY <1>1 DEF Said, Turn
<1> HIDE DEF ms, wh
<1>4. ms \in Messages /\ wh \in Messages /\ t.usage + 1 \in Nat
  BY <1>1, <1>2 DEF Fitted, Messages
<1>5. new \in Turn
  BY <1>1, <1>3, <1>4 DEF Turn
<1>6. /\ new.shipped = t.shipped /\ new.mru = t.mru /\ new.used = t.used /\ new.asked = t.asked
      /\ new.messages = ms /\ new.whole = wh
  BY <1>1, <1>3 DEF Turn
<1>7. QED
  BY <1>2, <1>5, <1>6 DEF GoodTurn

LEMMA CalledGood ==
    ASSUME NEW t, GoodTurn(t), NEW tool \in Range(ToolDefs), NEW used,
           used = (IF tool \in External THEN tool ELSE t.used),
           NEW new, new = [t EXCEPT !.asked = FALSE, !.shipped = {}, !.iteration = @ + 1,
                                    !.mru = Touched(@, tool), !.used = used]
    PROVE  GoodTurn(new)
<1>1. t \in Turn /\ t.iteration \in Nat /\ t.mru \in Mru /\ t.used \in Used /\ First(t.mru, t.used)
  BY DEF GoodTurn, Turn
<1> DEFINE mru == Touched(t.mru, tool)
<1>2. mru \in Mru /\ First(mru, used)
  BY <1>1, TouchedIs
<1>3. used \in Used
  BY <1>1 DEF Used
<1>4. new = [t EXCEPT !.asked = FALSE, !.shipped = {}, !.iteration = t.iteration + 1,
                      !.mru = mru, !.used = used]
  BY <1>1 DEF Turn
<1> HIDE DEF mru
<1>5. t.iteration + 1 \in Nat /\ {} \in SUBSET External
  BY <1>1
<1>6. new \in Turn
  BY <1>1, <1>2, <1>3, <1>4, <1>5 DEF Turn
<1>7. /\ new.asked = FALSE /\ new.mru = mru /\ new.used = used
      /\ new.messages = t.messages /\ new.whole = t.whole
  BY <1>1, <1>4 DEF Turn
<1>8. QED
  BY <1>2, <1>6, <1>7 DEF GoodTurn

LEMMA EndedGood ==
    ASSUME NEW t, GoodTurn(t)
    PROVE  GoodSaved(Truncated(t.messages), t.whole, t.mru, t.used)
<1>1. t.mru \in Mru /\ t.used \in Used /\ First(t.mru, t.used) /\ Fitted(t.messages, t.whole)
  BY DEF GoodTurn, Turn
<1>2. /\ Fitted(Truncated(t.messages), t.whole)
      /\ \/ Emptied(Truncated(t.messages), t.whole, Len(t.whole))
         \/ Estimate(Truncated(t.messages)) <= HistoryBudget
  BY <1>1, TruncatedFits
<1>3. QED
  BY <1>1, <1>2 DEF GoodSaved

\* Wakes are added behind, and taken off in front.
LEMMA BehindWoken ==
    ASSUME NEW S, NEW w \in Seq(S), NEW c \in Seq(S), NEW a \in S
    PROVE  w \o Append(c, a) = Append(w \o c, a)
OBVIOUS

LEMMA BehindFirst ==
    ASSUME NEW S, NEW c \in Seq(S), c # <<>>, NEW a \in S
    PROVE  Tail(Append(c, a)) = Append(Tail(c), a)
OBVIOUS

LEMMA FirstWoken ==
    ASSUME NEW S, NEW w \in Seq(S), NEW c \in Seq(S), c # <<>>
    PROVE  /\ Append(w, Head(c)) \o Tail(c) = w \o c
           /\ Append(w, Head(c)) \in Seq(S) /\ Tail(c) \in Seq(S)
<1>1. Head(c) \in S /\ Tail(c) \in Seq(S) /\ Len(c) \in Nat /\ Len(c) > 0 /\ Len(Tail(c)) = Len(c) - 1
  OBVIOUS
<1>2. Append(w, Head(c)) \in Seq(S) /\ Len(Append(w, Head(c))) = Len(w) + 1
  BY <1>1
<1> DEFINE l == Append(w, Head(c)) \o Tail(c)
           r == w \o c
<1>3. l \in Seq(S) /\ r \in Seq(S) /\ Len(l) = Len(r)
  BY <1>1, <1>2
<1>4. ASSUME NEW i \in 1..Len(r) PROVE l[i] = r[i]
  <2>1. CASE i <= Len(w)
    BY <1>1, <1>2, <2>1
  <2>2. CASE i = Len(w) + 1
    BY <1>1, <1>2, <2>2
  <2>3. CASE i > Len(w) + 1
    BY <1>1, <1>2, <2>3
  <2>4. QED
    BY <2>1, <2>2, <2>3
<1> HIDE DEF l, r
<1>5. l = r
  BY <1>3, <1>4
<1>6. QED
  BY <1>1, <1>2, <1>5 DEF l, r

\* The wakes begun and those to come are the settlements.
Awaited ==
    /\ chain \in Seq(Actions) /\ woken \in Seq(Actions) /\ decided \in Seq(Actions)
    /\ waking \in BOOLEAN /\ (waking => chain # <<>>)
    /\ WakesFollow

\* The inductive invariant.
LimitsInv ==
    /\ turn \in [Slots -> Turn] /\ \A s \in Slots : GoodTurn(turn[s])
    /\ GoodSaved(history, whole, recent, lastUsed)
    /\ Awaited

LEMMA LimitsInitInv == LimitsInit => LimitsInv
<1> SUFFICES ASSUME LimitsInit PROVE LimitsInv
  OBVIOUS
<1> USE DEF LimitsInit
<1>1. GoodTurn(Idle) /\ Idle \in Turn
  BY IdleGood DEF GoodTurn
<1>2. turn \in [Slots -> Turn] /\ \A s \in Slots : GoodTurn(turn[s])
  BY <1>1
<1>3. GoodSaved(history, whole, recent, lastUsed)
  <2>1. <<>> \in Mru /\ First(<<>>, NoTool) /\ NoTool \in Used /\ Len(<<>>) = 0
    BY DEF Mru, First, Used
  <2>2. QED
    BY <2>1, NothingFits DEF GoodSaved
<1>4. Awaited
  <2>1. WakesFollow
    BY DEF WakesFollow
  <2>2. chain \in Seq(Actions) /\ woken \in Seq(Actions) /\ decided \in Seq(Actions)
    OBVIOUS
  <2>3. waking = FALSE
    OBVIOUS
  <2> HIDE DEF LimitsInit
  <2>4. QED
    BY <2>1, <2>2, <2>3 DEF Awaited
<1>5. QED
  BY <1>2, <1>3, <1>4 DEF LimitsInv

\* A good turn in its slot, whatever happens to the wakes.
LEMMA TurnPut ==
    ASSUME LimitsInv, NEW s \in Slots, NEW t, GoodTurn(t), turn' = [turn EXCEPT ![s] = t]
    PROVE  turn' \in [Slots -> Turn] /\ \A x \in Slots : GoodTurn(turn'[x])
<1>1. t \in Turn
  BY DEF GoodTurn
<1>2. QED
  BY <1>1 DEF LimitsInv

LEMMA BegunKeeps ==
    ASSUME LimitsInv, NEW s \in Slots, Begin(s)
    PROVE  /\ turn' \in [Slots -> Turn] /\ \A x \in Slots : GoodTurn(turn'[x])
           /\ GoodSaved(history, whole, recent, lastUsed)'
<1> DEFINE t == [Idle EXCEPT !.on = TRUE, !.messages = Append(Truncated(history), Say),
                             !.whole = Append(whole, Say), !.mru = recent, !.used = lastUsed]
<1>1. GoodSaved(history, whole, recent, lastUsed)
  BY DEF LimitsInv
<1>2. GoodTurn(t)
  BY <1>1, BegunGood
<1>3. turn' = [turn EXCEPT ![s] = t]
  BY DEF Begin
<1> HIDE DEF t
<1>4. UNCHANGED saved
  BY DEF Begin
<1>5. GoodSaved(history, whole, recent, lastUsed)'
  BY <1>1, <1>4 DEF saved
<1>6. QED
  BY <1>2, <1>3, <1>5, TurnPut

LEMMA EndKeeps ==
    ASSUME LimitsInv, NEW s \in Slots, NEW t, GoodTurn(t), End(s, t)
    PROVE  /\ turn' \in [Slots -> Turn] /\ \A x \in Slots : GoodTurn(turn'[x])
           /\ GoodSaved(history, whole, recent, lastUsed)'
<1>1. turn' = [turn EXCEPT ![s] = Idle] /\ history' = Truncated(t.messages) /\ whole' = t.whole
      /\ recent' = t.mru /\ lastUsed' = t.used
  BY DEF End
<1>2. GoodSaved(Truncated(t.messages), t.whole, t.mru, t.used)
  BY EndedGood
<1>3. GoodSaved(history, whole, recent, lastUsed)'
  BY <1>1, <1>2
<1>4. QED
  BY <1>1, <1>3, IdleGood, TurnPut

LEMMA AwaitedStays == ASSUME LimitsInv, UNCHANGED <<chain, waking, woken, decided>> PROVE Awaited'
BY DEF LimitsInv, Awaited, WakesFollow

LEMMA TurnsStay ==
    ASSUME LimitsInv, UNCHANGED <<turn, saved>>
    PROVE  /\ turn' \in [Slots -> Turn] /\ \A x \in Slots : GoodTurn(turn'[x])
           /\ GoodSaved(history, whole, recent, lastUsed)'
BY DEF LimitsInv, saved

LEMMA WakeEndKeeps == ASSUME LimitsInv, WakeEnds, UNCHANGED <<woken, decided>> PROVE Awaited'
<1>1. /\ chain \in Seq(Actions) /\ woken \in Seq(Actions) /\ decided \in Seq(Actions) /\ chain # <<>>
      /\ woken \o Tail(chain) = decided /\ waking' = FALSE /\ chain' = Tail(chain)
      /\ woken' = woken /\ decided' = decided
  BY DEF LimitsInv, Awaited, WakesFollow, WakeEnds
<1>2. Tail(chain) \in Seq(Actions)
  BY <1>1
<1>3. WakesFollow'
  BY <1>1 DEF WakesFollow
<1>4. QED
  BY <1>1, <1>2, <1>3 DEF Awaited

LEMMA LimitsNextInv == LimitsInv /\ [LimitsNext]_limitVars => LimitsInv'
<1> SUFFICES ASSUME LimitsInv, [LimitsNext]_limitVars PROVE LimitsInv'
  OBVIOUS
<1>1. /\ turn \in [Slots -> Turn] /\ (\A s \in Slots : GoodTurn(turn[s]))
      /\ GoodSaved(history, whole, recent, lastUsed) /\ Awaited
  BY DEF LimitsInv
<1>2. ASSUME NEW s \in Slots, UserSends(s) PROVE LimitsInv'
  <2>1. Begin(s) /\ UNCHANGED <<chain, waking, woken, decided>>
    BY <1>2 DEF UserSends, wakes
  <2>2. QED
    BY <2>1, BegunKeeps, AwaitedStays DEF LimitsInv
<1>3. ASSUME NEW s \in Slots, AskProvider(s) PROVE LimitsInv'
  <2> DEFINE t == [turn[s] EXCEPT !.asked = TRUE, !.shipped = Shipped(turn[s].mru)]
  <2>1. UNCHANGED saved /\ UNCHANGED <<chain, waking, woken, decided>>
    BY <1>3 DEF AskProvider, wakes
  <2>2. turn' = [turn EXCEPT ![s] = t]
    BY <1>1, <1>3 DEF AskProvider, Turn
  <2>3. GoodTurn(t)
    BY <1>1, AskedGood
  <2> HIDE DEF t
  <2>4. GoodSaved(history, whole, recent, lastUsed)'
    BY <1>1, <2>1 DEF saved
  <2>5. QED
    BY <2>1, <2>2, <2>3, <2>4, TurnPut, AwaitedStays DEF LimitsInv
<1>4. ASSUME NEW s \in Slots, ProviderStops(s) PROVE LimitsInv'
  <2>1. UNCHANGED <<chain, waking, woken, decided>> /\ End(s, Said(turn[s], <<Say>>))
    BY <1>4 DEF ProviderStops, wakes
  <2>2. <<Say>> \in Seq(Message)
    BY SayIs
  <2>3. GoodTurn(Said(turn[s], <<Say>>))
    BY <1>1, <2>2, SaidGood
  <2>4. QED
    BY <2>1, <2>3, EndKeeps, AwaitedStays DEF LimitsInv
<1>5. ASSUME NEW s \in Slots, ProviderFails(s) PROVE LimitsInv'
  <2>1. UNCHANGED <<chain, waking, woken, decided>> /\ End(s, turn[s])
    BY <1>5 DEF ProviderFails, wakes
  <2>2. QED
    BY <1>1, <2>1, EndKeeps, AwaitedStays DEF LimitsInv
<1>6. ASSUME NEW s \in Slots, TurnAborted(s) PROVE LimitsInv'
  <2>1. /\ UNCHANGED <<history, whole, chain, waking, woken, decided>>
        /\ turn' = [turn EXCEPT ![s] = Idle] /\ recent' = turn[s].mru /\ lastUsed' = turn[s].used
    BY <1>6 DEF TurnAborted, wakes
  <2>2. turn[s].mru \in Mru /\ turn[s].used \in Used /\ First(turn[s].mru, turn[s].used)
    BY <1>1 DEF GoodTurn, Turn
  <2>3. GoodSaved(history, whole, recent, lastUsed)'
    BY <1>1, <2>1, <2>2 DEF GoodSaved
  <2>4. QED
    BY <2>1, <2>3, IdleGood, TurnPut, AwaitedStays DEF LimitsInv
<1>7. ASSUME NEW s \in Slots, NEW tool \in Range(ToolDefs), NEW parked, ProviderCalls(s, tool, parked)
      PROVE  LimitsInv'
  <2> DEFINE said == Said(turn[s], <<Say, Result(tool)>>)
             used == IF tool \in External THEN tool ELSE said.used
             t == [said EXCEPT !.asked = FALSE, !.shipped = {}, !.iteration = @ + 1,
                               !.mru = Touched(@, tool), !.used = used]
  <2>1. <<Say, Result(tool)>> \in Seq(Message)
    BY SayIs, ResultIs
  <2>2. GoodTurn(said)
    BY <1>1, <2>1, SaidGood
  <2>3. GoodTurn(t)
    <3> HIDE DEF said
    <3>1. QED
      BY <2>2, CalledGood
  <2>4. t = [said EXCEPT !.asked = FALSE, !.shipped = {}, !.iteration = @ + 1,
                         !.mru = Touched(@, tool), !.used = IF tool \in External THEN tool ELSE @]
    <3> HIDE DEF said
    <3>1. said \in Turn
      BY <2>2 DEF GoodTurn
    <3>2. QED
      BY <3>1 DEF Turn
  <2>5. \/ End(s, t)
        \/ turn' = [turn EXCEPT ![s] = t] /\ UNCHANGED saved
    <3> HIDE DEF t
    <3>1. QED
      BY <1>7, <2>4 DEF ProviderCalls
  <2>6. UNCHANGED <<chain, waking, woken, decided>>
    BY <1>7 DEF ProviderCalls
  <2> HIDE DEF t
  <2>7. CASE End(s, t)
    BY <2>3, <2>6, <2>7, EndKeeps, AwaitedStays DEF LimitsInv
  <2>8. CASE turn' = [turn EXCEPT ![s] = t] /\ UNCHANGED saved
    <3>1. GoodSaved(history, whole, recent, lastUsed)'
      BY <1>1, <2>8 DEF saved
    <3>2. QED
      BY <2>3, <2>6, <2>8, <3>1, TurnPut, AwaitedStays DEF LimitsInv
  <2>9. QED
    BY <2>5, <2>7, <2>8
<1>8. ASSUME NEW s \in Slots, WakeSends(s) PROVE LimitsInv'
  <2>1. Begin(s) /\ WakeEnds /\ UNCHANGED <<woken, decided>>
    BY <1>8 DEF WakeSends
  <2>2. QED
    BY <2>1, BegunKeeps, WakeEndKeeps DEF LimitsInv
<1>9. CASE WakeFails
  <2>1. UNCHANGED <<turn, saved>> /\ WakeEnds /\ UNCHANGED <<woken, decided>>
    BY <1>9 DEF WakeFails
  <2>2. QED
    BY <2>1, TurnsStay, WakeEndKeeps DEF LimitsInv
<1>10. ASSUME NEW a \in Actions, OperatorSettles(a) PROVE LimitsInv'
  <2>1. /\ UNCHANGED <<turn, saved, waking, woken>> /\ decided' = Append(decided, a)
        /\ chain' = Append(chain, a)
    BY <1>10 DEF OperatorSettles, OnSettled
  <2>2. /\ chain \in Seq(Actions) /\ woken \in Seq(Actions) /\ decided \in Seq(Actions)
        /\ waking \in BOOLEAN /\ (waking => chain # <<>>)
        /\ woken \o (IF waking THEN Tail(chain) ELSE chain) = decided
    BY <1>1 DEF Awaited, WakesFollow
  <2>3. woken \o (IF waking THEN Tail(Append(chain, a)) ELSE Append(chain, a)) = Append(decided, a)
    <3>1. CASE waking
      <4>1. Tail(Append(chain, a)) = Append(Tail(chain), a) /\ Tail(chain) \in Seq(Actions)
        BY <2>2, <3>1, BehindFirst
      <4>2. woken \o Append(Tail(chain), a) = Append(woken \o Tail(chain), a)
        BY <2>2, <4>1, BehindWoken
      <4>3. QED
        BY <2>2, <3>1, <4>1, <4>2
    <3>2. CASE ~ waking
      <4>1. woken \o Append(chain, a) = Append(woken \o chain, a)
        BY <2>2, BehindWoken
      <4>2. QED
        BY <2>2, <3>2, <4>1
    <3>3. QED
      BY <3>1, <3>2
  <2>4. WakesFollow'
    BY <2>1, <2>3 DEF WakesFollow
  <2>5. /\ chain' \in Seq(Actions) /\ woken' \in Seq(Actions) /\ decided' \in Seq(Actions)
        /\ chain' # <<>>
    <3>1. Append(chain, a) \in Seq(Actions) /\ Append(chain, a) # <<>>
      <4>1. chain \in Seq(Actions)
        BY <2>2
      <4>2. \A x : x = <<>> => Len(x) = 0
        OBVIOUS
      <4>3. Append(chain, a) \in Seq(Actions)
        BY <4>1
      <4>4. Len(Append(chain, a)) # 0
        BY <4>1
      <4>5. QED
        BY <4>2, <4>3, <4>4, Zenon
    <3>2. Append(decided, a) \in Seq(Actions)
      BY <2>2
    <3>3. QED
      BY <2>1, <2>2, <3>1, <3>2
  <2>8. waking' \in BOOLEAN
    BY <2>1, <2>2
  <2>6. Awaited'
    BY <2>4, <2>5, <2>8 DEF Awaited
  <2>7. QED
    BY <2>1, <2>6, TurnsStay DEF LimitsInv
<1>11. ASSUME NEW a \in Actions, ActionExpires(a) PROVE LimitsInv'
  <2>1. UNCHANGED <<turn, saved>> /\ UNCHANGED <<chain, waking, woken, decided>>
    BY <1>11 DEF ActionExpires, OnSettled
  <2>2. QED
    BY <2>1, TurnsStay, AwaitedStays DEF LimitsInv
<1>12. CASE WakeBegins
  <2>1. /\ UNCHANGED <<turn, saved>> /\ ~ waking /\ chain # <<>> /\ waking' = TRUE
        /\ woken' = Append(woken, Head(chain)) /\ chain' = chain /\ decided' = decided
    BY <1>12 DEF WakeBegins
  <2>2. chain \in Seq(Actions) /\ woken \in Seq(Actions) /\ decided \in Seq(Actions) /\ woken \o chain = decided
    BY <1>1, <2>1 DEF Awaited, WakesFollow
  <2>3. Append(woken, Head(chain)) \o Tail(chain) = decided /\ Append(woken, Head(chain)) \in Seq(Actions)
    BY <2>1, <2>2, FirstWoken
  <2>4. WakesFollow'
    BY <2>1, <2>3 DEF WakesFollow
  <2>5. Awaited'
    BY <2>1, <2>2, <2>3, <2>4 DEF Awaited
  <2>6. QED
    BY <2>1, <2>5, TurnsStay DEF LimitsInv
<1>13. CASE UNCHANGED limitVars
  <2>1. UNCHANGED <<turn, saved>> /\ UNCHANGED <<chain, waking, woken, decided>>
    BY <1>13 DEF limitVars, wakes
  <2>2. QED
    BY <2>1, TurnsStay, AwaitedStays DEF LimitsInv
<1>14. QED
  BY <1>2, <1>3, <1>4, <1>5, <1>6, <1>7, <1>8, <1>9, <1>10, <1>11, <1>12, <1>13 DEF LimitsNext

LEMMA LimitsInvBounds == LimitsInv => AgentBounded
<1> SUFFICES ASSUME LimitsInv PROVE AgentBounded
  OBVIOUS
<1>1. ToolsFit
  <2>1. SUFFICES ASSUME NEW s \in Slots, turn[s].asked
                 PROVE  /\ \/ Total(turn[s].shipped) <= DefBudget
                           \/ Total(turn[s].shipped) <= Total({})
                        /\ turn[s].used # NoTool /\ Total({turn[s].used}) <= DefBudget =>
                             turn[s].used \in turn[s].shipped
    BY DEF ToolsFit
  <2>2. GoodTurn(turn[s])
    BY DEF LimitsInv
  <2>3. /\ turn[s].mru \in Mru /\ First(turn[s].mru, turn[s].used) /\ turn[s].asked \in BOOLEAN
    BY <2>2 DEF GoodTurn, Turn
  <2>4. turn[s].shipped = Shipped(turn[s].mru)
    BY <2>1, <2>2, <2>3 DEF GoodTurn
  <2>5. QED
    BY <2>3, <2>4, ShippedFits
<1>2. HistoryFits
  <2>1. Fitted(history, whole) /\ (Emptied(history, whole, Len(whole)) \/ Estimate(history) <= HistoryBudget)
    BY DEF LimitsInv, GoodSaved
  <2>2. /\ history \in Seq(Message) /\ Len(history) = Len(whole) /\ DOMAIN history = 1..Len(history)
        /\ Estimate(whole) <= HistoryBudget => history = whole
    BY <2>1 DEF Fitted
  <2>3. \A i \in 1..Len(history) : history[i] = whole[i] \/ IsElided(i)
    BY <2>1 DEF Fitted, IsElided, IsResult
  <2>4. \A i, j \in 1..Len(history) :
           i < j /\ whole[i].kind = "result" /\ history[j] # whole[j] => IsElided(i)
    BY <2>1 DEF Fitted, IsElided, IsResult
  <2>5. \/ Estimate(history) <= HistoryBudget
        \/ \A i \in 1..Len(history) : whole[i].kind = "result" => IsElided(i)
    BY <2>1, <2>2 DEF Emptied, IsElided, IsResult
  <2>6. QED
    BY <2>2, <2>3, <2>4, <2>5 DEF HistoryFits
<1>3. WakesFollow
  BY DEF LimitsInv, Awaited
<1>4. QED
  BY <1>1, <1>2, <1>3 DEF AgentBounded

\* An agent's turns are sent no more tools and no longer a history than fit, and it is woken
\* once by each settlement, however turns overlap, are aborted, and actions expire.
THEOREM AgentIsBounded == LimitsSpec => []AgentBounded
<1>1. LimitsSpec => []LimitsInv
  BY LimitsInitInv, LimitsNextInv, PTL DEF LimitsSpec
<1>2. QED
  BY <1>1, LimitsInvBounds, PTL
=============================================================================
