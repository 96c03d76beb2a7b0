------------------------------- MODULE Store -------------------------------
(***************************************************************************)
(* DashboardStore: the single validated document on storage, its undo      *)
(* ring, and the promise chain (runExclusive) that serializes mutate,      *)
(* replace and undo.  A caller's operation is split at every storage call, *)
(* where other callers, the clock, an I/O error or a crash can intervene.  *)
(* An external read() is NOT on the chain: it loads, sweeps, and writes    *)
(* back what it swept.                                                     *)
(*                                                                         *)
(* A storage write is atomic (temporary file and rename); a crash loses    *)
(* the process state and keeps the files.                                  *)
(***************************************************************************)
EXTENDS Workspace, Sequences, FiniteSets

CONSTANTS Callers,      \* concurrent RPC, tool, CLI and timer callers
          Ops,          \* the operations they may ask for
          Seeded,       \* workspace.json exists at the start
          UndoRingSize, \* UNDO_RING_SIZE
          Base,         \* digits of a version: 10 in the code
          PadLimit,     \* first version longer than the padding: 10^4 there
          StopVersion,  \* bound: no mutation or sweeping read starts from here
          MaxClock,     \* bound: last instant of the clock
          NoDoc,        \* the missing file
          NoOp

UndoOp == [kind |-> "undo"]

ASSUME OpsAssumption == Ops \subseteq MutateOp \cup {UndoOp}
ASSUME NoDocAssumption == NoDoc \notin Doc
ASSUME RingAssumption == /\ UndoRingSize \in Nat \ {0}
                         /\ Base \in Nat \ {0, 1}
                         /\ PadLimit \in Nat \ {0}
                         /\ StopVersion \in Nat
                         /\ MaxClock \in Nat
                         /\ Seeded \in BOOLEAN

VARIABLES disk,   \* workspace.json
          ring,   \* undo/: the snapshots, each under its file number
          queue,  \* callers on the promise chain; its head holds the lock
          pc,     \* where each caller is
          op,     \* what it asked for
          cur,    \* the document it loaded
          nxt,    \* the document it is about to write
          clock,  \* now()
          decisions  \* history: the grants and approvals operators decided

vars == <<disk, ring, queue, pc, op, cur, nxt, clock, decisions>>
storage == <<disk, ring>>
memory  == <<queue, pc, op, cur, nxt>>

PC == {"idle", "queued", "sweep", "produce", "snapshot", "evict", "commit",
       "undoWrite", "undoRm", "readWrite"}

Snapshots == [file : Nat, doc : Doc]

(***************************************************************************)
(* Undo files are named String(version).padStart(4, "0") and ordered as    *)
(* strings: a longer name sorts by its leading digits.                     *)
(***************************************************************************)
NameLess(m, n) ==
  IF (m < PadLimit) = (n < PadLimit) THEN m < n
  ELSE IF m < PadLimit THEN m <= n \div Base
  ELSE m \div Base < n

NewerThan(s) == {t \in ring : NameLess(s.file, t.file)}
Newest(s) == NewerThan(s) = {}

Init ==
  /\ disk = IF Seeded THEN DefaultDoc ELSE NoDoc
  /\ ring = {}
  /\ queue = <<>>
  /\ pc = [c \in Callers |-> "idle"]
  /\ op = [c \in Callers |-> NoOp]
  /\ cur = [c \in Callers |-> NoDoc]
  /\ nxt = [c \in Callers |-> NoDoc]
  /\ clock = 0
  /\ decisions = {}

(***************************************************************************)
(* Calls and the promise chain                                             *)
(***************************************************************************)
HoldsLock(c) == queue # <<>> /\ Head(queue) = c

Bounded == IF disk = NoDoc THEN TRUE ELSE disk.workspaceVersion < StopVersion

\* An operator's expiresAt must lie in the future when the call is made.
Timely(o) == o.kind = "grant" => o.expiresAt = Never \/ o.expiresAt > clock

Call(c) ==
  /\ pc[c] = "idle"
  /\ \E o \in Ops :
       /\ Timely(o)
       /\ o.kind = "undo" \/ Bounded
       /\ op' = [op EXCEPT ![c] = o]
  /\ pc' = [pc EXCEPT ![c] = "queued"]
  /\ queue' = Append(queue, c)
  /\ UNCHANGED <<storage, cur, nxt, clock, decisions>>

\* The operation settles, fulfilled or rejected; the chain moves on either way.
Settle(c) ==
  /\ pc' = [pc EXCEPT ![c] = "idle"]
  /\ op' = [op EXCEPT ![c] = NoOp]
  /\ cur' = [cur EXCEPT ![c] = NoDoc]
  /\ nxt' = [nxt EXCEPT ![c] = NoDoc]
  /\ queue' = IF HoldsLock(c) THEN Tail(queue) ELSE queue

(***************************************************************************)
(* read()                                                                  *)
(***************************************************************************)
Loaded == IF disk = NoDoc THEN DefaultDoc ELSE Sweep(disk, clock)
MustWrite == IF disk = NoDoc THEN TRUE ELSE NeedsSweep(disk, clock)

\* An external read that has nothing to write changes nothing.
ReadStart(c) ==
  /\ pc[c] = "idle" /\ MustWrite /\ Bounded
  /\ pc' = [pc EXCEPT ![c] = "readWrite"]
  /\ nxt' = [nxt EXCEPT ![c] = Loaded]
  /\ UNCHANGED <<storage, queue, op, cur, clock, decisions>>

ReadWrite(c) ==
  /\ pc[c] = "readWrite"
  /\ disk' = nxt[c]
  /\ Settle(c)
  /\ UNCHANGED <<ring, clock, decisions>>

(***************************************************************************)
(* mutate() and replaceSanitized()                                         *)
(***************************************************************************)
Load(c) ==
  /\ pc[c] = "queued" /\ HoldsLock(c) /\ op[c].kind # "undo"
  /\ cur' = [cur EXCEPT ![c] = Loaded]
  /\ pc' = [pc EXCEPT ![c] = IF MustWrite THEN "sweep" ELSE "produce"]
  /\ UNCHANGED <<storage, queue, op, nxt, clock, decisions>>

SweepWrite(c) ==
  /\ pc[c] = "sweep"
  /\ disk' = cur[c]
  /\ pc' = [pc EXCEPT ![c] = "produce"]
  /\ UNCHANGED <<ring, queue, op, cur, nxt, clock, decisions>>

Candidate(c) == [Produced(op[c], cur[c]) EXCEPT
                   !.workspaceVersion = cur[c].workspaceVersion + 1]

\* What an operator decided by this operation, for the history variable.
Decided(o, doc) ==
  IF o.kind = "grant" THEN {<<o.name, OperatorSurface(doc.grants[o.name])>>}
  ELSE IF o.kind = "widget" /\ o.decision = "approved" THEN {<<o.name>>}
  ELSE {}

Produce(c) ==
  /\ pc[c] = "produce" /\ Accepted(op[c], cur[c])
  /\ nxt' = [nxt EXCEPT ![c] = Candidate(c)]
  /\ decisions' = decisions \cup Decided(op[c], Candidate(c))
  /\ pc' = [pc EXCEPT ![c] = "snapshot"]
  /\ UNCHANGED <<storage, queue, op, cur, clock>>

\* (mutant) The next operation hangs on the fulfilment of this one alone.
RejectBlocks(c) ==
  /\ pc[c] = "produce" /\ ~Accepted(op[c], cur[c])
  /\ pc' = [pc EXCEPT ![c] = "idle"]
  /\ UNCHANGED <<storage, queue, op, cur, nxt, clock, decisions>>

Reject(c) ==
  /\ pc[c] = "produce" /\ ~Accepted(op[c], cur[c])
  /\ Settle(c)
  /\ UNCHANGED <<storage, clock, decisions>>

Snapshot(c) ==
  LET file == nxt[c].workspaceVersion
  IN  /\ pc[c] = "snapshot"
      /\ ring' = {s \in ring : s.file # file} \cup {[file |-> file, doc |-> cur[c]]}
      /\ pc' = [pc EXCEPT ![c] = "evict"]
      /\ UNCHANGED <<disk, queue, op, cur, nxt, clock, decisions>>

\* (mutant) The slice is one entry too short.
EvictLate(c) ==
  /\ pc[c] = "evict"
  /\ ring' = {s \in ring : Cardinality(NewerThan(s)) <= UndoRingSize}
  /\ pc' = [pc EXCEPT ![c] = "commit"]
  /\ UNCHANGED <<disk, queue, op, cur, nxt, clock, decisions>>

Evict(c) ==
  /\ pc[c] = "evict"
  /\ ring' = {s \in ring : Cardinality(NewerThan(s)) < UndoRingSize}
  /\ pc' = [pc EXCEPT ![c] = "commit"]
  /\ UNCHANGED <<disk, queue, op, cur, nxt, clock, decisions>>

Commit(c) ==
  /\ pc[c] = "commit"
  /\ disk' = nxt[c]
  /\ Settle(c)
  /\ UNCHANGED <<ring, clock, decisions>>

(***************************************************************************)
(* undo()                                                                  *)
(***************************************************************************)
UndoEmpty(c) ==
  /\ pc[c] = "queued" /\ HoldsLock(c) /\ op[c].kind = "undo" /\ ring = {}
  /\ Settle(c)
  /\ UNCHANGED <<storage, clock, decisions>>

\* Only the lock holder touches the ring: UndoRm removes the file loaded here.
UndoLoad(c) ==
  /\ pc[c] = "queued" /\ HoldsLock(c) /\ op[c].kind = "undo"
  /\ \E s \in ring : Newest(s) /\ nxt' = [nxt EXCEPT ![c] = s.doc]
  /\ pc' = [pc EXCEPT ![c] = "undoWrite"]
  /\ UNCHANGED <<storage, queue, op, cur, clock, decisions>>

UndoWrite(c) ==
  /\ pc[c] = "undoWrite"
  /\ disk' = nxt[c]
  /\ pc' = [pc EXCEPT ![c] = "undoRm"]
  /\ UNCHANGED <<ring, queue, op, cur, nxt, clock, decisions>>

UndoRm(c) ==
  /\ pc[c] = "undoRm"
  /\ ring' = {s \in ring : ~Newest(s)}
  /\ Settle(c)
  /\ UNCHANGED <<disk, clock, decisions>>

(***************************************************************************)
(* The environment                                                         *)
(***************************************************************************)
\* A storage call throws: the operation rejects with its earlier writes done.
IOFail(c) ==
  /\ pc[c] \in PC \ {"idle", "produce"}
  /\ pc[c] = "queued" => HoldsLock(c)
  /\ Settle(c)
  /\ UNCHANGED <<storage, clock, decisions>>

Crash ==
  /\ \E c \in Callers : pc[c] # "idle"
  /\ queue' = <<>>
  /\ pc' = [c \in Callers |-> "idle"]
  /\ op' = [c \in Callers |-> NoOp]
  /\ cur' = [c \in Callers |-> NoDoc]
  /\ nxt' = [c \in Callers |-> NoDoc]
  /\ UNCHANGED <<storage, clock, decisions>>

Tick ==
  /\ clock < MaxClock
  /\ clock' = clock + 1
  /\ UNCHANGED <<storage, memory, decisions>>

Progress(c) ==
  \/ ReadWrite(c)
  \/ Load(c) \/ SweepWrite(c) \/ Produce(c) \/ Reject(c)
  \/ Snapshot(c) \/ Evict(c) \/ Commit(c)
  \/ UndoEmpty(c) \/ UndoLoad(c) \/ UndoWrite(c) \/ UndoRm(c)

Next ==
  \/ \E c \in Callers : Call(c) \/ ReadStart(c) \/ Progress(c) \/ IOFail(c)
  \/ Crash
  \/ Tick

Spec == Init /\ [][Next]_vars

\* A started storage call completes: the event loop runs every continuation.
Fairness == \A c \in Callers : WF_vars(Progress(c))
FairSpec == Spec /\ Fairness

(***************************************************************************)
(* Properties                                                              *)
(***************************************************************************)
LockedPC == PC \ {"idle", "queued", "readWrite"}
MutatePC == {"sweep", "produce", "snapshot", "evict", "commit"}
WritePC  == {"snapshot", "evict", "commit", "undoWrite", "undoRm", "readWrite"}

\* Every variable has its type, and a caller inside an operation holds the
\* documents its next step writes (read() never hands a missing file on).
TypeOK ==
  /\ disk \in Doc \cup {NoDoc}
  /\ ring \subseteq Snapshots
  /\ queue \in Seq(Callers)
  /\ pc \in [Callers -> PC]
  /\ op \in [Callers -> Ops \cup {NoOp}]
  /\ cur \in [Callers -> Doc \cup {NoDoc}]
  /\ nxt \in [Callers -> Doc \cup {NoDoc}]
  /\ clock \in Nat
  /\ \A c \in Callers :
       /\ pc[c] = "queued" => op[c] \in Ops
       /\ pc[c] \in MutatePC => op[c] \in Ops /\ op[c] \in MutateOp /\ cur[c] \in Doc
       /\ pc[c] \in WritePC => nxt[c] \in Doc

\* runExclusive: the callers inside or waiting for the lock are exactly the
\* queue, each once, and only its head is inside, across rejections, I/O
\* errors and crashes.  Read-modify-write cycles cannot interleave.
LockOK ==
  /\ \A i, j \in 1..Len(queue) : queue[i] = queue[j] => i = j
  /\ \A c \in Callers :
       /\ (\E i \in 1..Len(queue) : queue[i] = c) <=> pc[c] \notin {"idle", "readWrite"}
       /\ pc[c] \in LockedPC => HoldsLock(c)

\* The approval gate (SPEC 8.2 and 17): a document that says a grant is granted
\* says so with exactly the tools, auto-confirm set, agents and lease of some
\* operator decision, and an approved widget was approved by an operator.
Authorised(doc) ==
  /\ \A n \in Connectors : doc.grants[n].status = "granted" =>
       <<n, OperatorSurface(doc.grants[n])>> \in decisions
  /\ \A w \in WidgetNames : doc.widgets[w] = "approved" => <<w>> \in decisions

\* Nothing persisted, the document or an undo snapshot that can become it again,
\* carries authority an operator never gave: through replaces, undo of revokes,
\* lapsed leases, stale sweeps, failures and crashes in any order.
OperatorAuthority ==
  /\ disk # NoDoc => Authorised(disk)
  /\ \A s \in ring : Authorised(s.doc)

\* store.ts: "read-modify-write cycles cannot interleave".  The write of an
\* external read never takes away what a mutation has committed meanwhile.
ReadsKeepCommits ==
  [][\A c \in Callers : ReadWrite(c) /\ disk # NoDoc =>
       disk'.body = disk.body /\ disk'.workspaceVersion >= disk.workspaceVersion]_vars

\* Every operation settles: a rejected or failed one never blocks the chain.
EveryCallSettles ==
  \A c \in Callers : pc[c] = "queued" ~> pc[c] = "idle"

(***************************************************************************)
(* The files of the store implement the abstract undo stack. A snapshot    *)
(* file of a version above the document's is one whose commit never        *)
(* happened or whose undo has happened: it is not on the stack.            *)
(***************************************************************************)
UpTo(snapshots, n) == {s \in snapshots : s.file <= n}

ByAge(snapshots) ==
  [i \in 1..Cardinality(snapshots) |->
     (CHOOSE s \in snapshots : Cardinality(UpTo(snapshots, s.file)) = i).doc]

Replaced == ByAge(UpTo(ring, disk.workspaceVersion))

Stack == INSTANCE UndoStack WITH Depth <- UndoRingSize, Initial <- DefaultDoc,
                                 doc <- disk, past <- Replaced

\* Every step of the store is a step of the stack or invisible in it: commits
\* push the document they replace, undo pops it, and neither an I/O error nor a
\* crash between two file operations loses, invents or reorders an entry.
ImplementsUndoStack == Stack!Spec
=============================================================================
