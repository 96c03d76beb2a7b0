----------------------------- MODULE DeskProofs -----------------------------
(***************************************************************************)
(* Three parts around the host keep their promises for every value of      *)
(* their constants: the installations of a widget's name, the grants of a  *)
(* connector, and the action button over the pending-action engine.        *)
(***************************************************************************)
EXTENDS Install, Streams, ActionButton, TLAPS

-----------------------------------------------------------------------------
(***************************************************************************)
(* Installations                                                           *)
(***************************************************************************)

\* One installation at a time is at work in the directory, which is there meanwhile.
OneAtWork ==
  /\ \A b, c \in Working : b = c
  /\ Working # {} => there /\ registered = {}

\* Whoever may read a file reads one of an installation that registered the name, or
\* was on disk when the name had an entry already.
AccountedFor ==
  entry # "none" \/ (\E r \in Readers : reader[r] # "idle") => OnDisk \subseteq registered \cup named

InstallInv == InstallTypeOK /\ OneAtWork /\ AccountedFor /\ InstallsWhole

LEMMA WorkingAfter ==
    ASSUME InstallTypeOK, NEW b \in Bundles, NEW stage, Advance(b, stage)
    PROVE  /\ installer'[b] = stage
           /\ \A c \in Bundles \ {b} : installer'[c] = installer[c]
           /\ Working' = IF stage \in {"writing", "cleaning"} THEN Working \cup {b}
                         ELSE Working \ {b}
<1>1. /\ installer'[b] = stage
      /\ \A c \in Bundles \ {b} : installer'[c] = installer[c]
  BY DEF Advance, InstallTypeOK
<1>2. QED
  BY <1>1 DEF Working

LEMMA InstallInitial == InstallInit => InstallInv
  BY InstallAssumption
     DEF InstallInit, InstallInv, InstallTypeOK, OneAtWork, AccountedFor, InstallsWhole, Empty,
         Stages, Working, RegisteredStays, ServedInstalled, NoOrphanDir

LEMMA MakeDirInv ==
    ASSUME InstallInv, NEW b \in Bundles, MakeDir(b)
    PROVE  InstallInv'
<1>1. /\ installer[b] = "idle" /\ InstallTypeOK
      /\ UNCHANGED <<code, entry, reader, served, registered, named, orphaned, faults, entries>>
  BY DEF MakeDir, InstallInv, installHistory
<1>2. CASE there
  <2>1. Advance(b, "ended") /\ UNCHANGED there
    BY <1>2 DEF MakeDir
  <2>2. installer' \in [Bundles -> Stages] /\ Working' = Working
    BY <1>1, <2>1, WorkingAfter DEF Advance, InstallTypeOK, Stages, Working
  <2>3. QED
    BY <1>1, <2>1, <2>2
       DEF InstallInv, InstallTypeOK, OneAtWork, AccountedFor, InstallsWhole, OnDisk,
           RegisteredStays, ServedInstalled, NoOrphanDir
<1>3. CASE ~ there
  <2>1. Advance(b, "writing") /\ there' = TRUE
    BY <1>3 DEF MakeDir
  <2>2. installer' \in [Bundles -> Stages] /\ Working' = {b} /\ registered = {}
    <3>1. Working = {} /\ registered = {}
      BY <1>3 DEF InstallInv, OneAtWork, InstallsWhole, RegisteredStays
    <3>2. QED
      BY <1>1, <2>1, <3>1, WorkingAfter DEF Advance, InstallTypeOK, Stages
  <2>3. QED
    BY <1>1, <1>3, <2>1, <2>2
       DEF InstallInv, InstallTypeOK, OneAtWork, AccountedFor, InstallsWhole, OnDisk,
           RegisteredStays, ServedInstalled, NoOrphanDir
<1>4. QED
  BY <1>2, <1>3

LEMMA WriteFileInv ==
    ASSUME InstallInv, NEW b \in Bundles, WriteFile(b)
    PROVE  InstallInv'
<1>1. /\ installer[b] = "writing" /\ InstallTypeOK
      /\ UNCHANGED <<there, entry, installer, reader, served, registered, orphaned, faults, entries>>
  BY DEF WriteFile, InstallInv
<1>2. PICK f \in Files : code' = [code EXCEPT ![f] = b]
  BY DEF WriteFile
<1>3. b \in Working /\ there /\ registered = {} /\ Working' = Working
  BY <1>1 DEF InstallInv, OneAtWork, Working
<1>4. code' \in [Files -> Bundles \cup {NoBundle}] /\ OnDisk' \subseteq OnDisk \cup {b}
  BY <1>1, <1>2 DEF InstallTypeOK, OnDisk
<1>5. /\ named \subseteq named' /\ named' \subseteq Bundles
      /\ entry # "none" \/ (\E r \in Readers : reader[r] # "idle") => b \in named'
  BY <1>1 DEF WriteFile, InstallTypeOK
<1>6. InstallTypeOK'
  BY <1>1, <1>3, <1>4, <1>5 DEF InstallTypeOK
<1>7. OneAtWork' /\ NoOrphanDir'
  BY <1>1, <1>3 DEF InstallInv, OneAtWork, InstallsWhole, NoOrphanDir
<1>8. AccountedFor'
  BY <1>1, <1>4, <1>5 DEF InstallInv, AccountedFor
<1>9. RegisteredStays' /\ ServedInstalled'
  BY <1>1, <1>3, <1>5 DEF InstallInv, InstallsWhole, RegisteredStays, ServedInstalled
<1>10. QED
  BY <1>6, <1>7, <1>8, <1>9 DEF InstallInv, InstallsWhole

LEMMA RegisterInv ==
    ASSUME InstallInv, NEW b \in Bundles, Register(b)
    PROVE  InstallInv'
<1>1. /\ installer[b] = "writing" /\ InstallTypeOK /\ code = [f \in Files |-> b]
      /\ UNCHANGED <<there, code, reader, served, named, orphaned, faults, entries>>
  BY DEF Register, InstallInv
<1>2. b \in Working /\ there /\ registered = {} /\ Working = {b}
  BY <1>1 DEF InstallInv, OneAtWork, Working
<1>3. OnDisk \subseteq {b} /\ OnDisk' = OnDisk
  BY <1>1 DEF OnDisk
<1>4. CASE b \in Scaffolds \/ entry = "none"
  <2>1. entry' = "pending" /\ registered' = {b} /\ Advance(b, "ended")
    BY <1>2, <1>4 DEF Register
  <2>2. installer' \in [Bundles -> Stages] /\ Working' = {}
    BY <1>1, <1>2, <2>1, WorkingAfter DEF Advance, InstallTypeOK, Stages
  <2>3. QED
    BY <1>1, <1>2, <1>3, <2>1, <2>2
       DEF InstallInv, InstallTypeOK, OneAtWork, AccountedFor, InstallsWhole,
           RegisteredStays, ServedInstalled, NoOrphanDir
<1>5. CASE ~ (b \in Scaffolds \/ entry = "none")
  <2>1. Advance(b, "cleaning") /\ UNCHANGED <<entry, registered>>
    BY <1>5 DEF Register
  <2>2. installer' \in [Bundles -> Stages] /\ Working' = Working
    BY <1>1, <1>2, <2>1, WorkingAfter DEF Advance, InstallTypeOK, Stages
  <2>3. QED
    BY <1>1, <1>2, <1>3, <2>1, <2>2
       DEF InstallInv, InstallTypeOK, OneAtWork, AccountedFor, InstallsWhole,
           RegisteredStays, ServedInstalled, NoOrphanDir
<1>6. QED
  BY <1>4, <1>5

\* A failure leaves the directory to the clean-up, or behind.
LEMMA FailsInv ==
    ASSUME InstallInv, NEW b \in Bundles, Fails(b) \/ CleanUpFails(b)
    PROVE  InstallInv'
<1>1. /\ installer[b] \in {"writing", "cleaning"} /\ InstallTypeOK
      /\ UNCHANGED <<there, code, entry, reader, served, registered, named, entries>>
      /\ \/ Advance(b, "ended") /\ orphaned' = TRUE
         \/ Advance(b, "cleaning") /\ UNCHANGED orphaned
  BY DEF Fails, CleanUpFails, InstallInv
<1>2. b \in Working /\ there /\ registered = {} /\ Working = {b}
  BY <1>1 DEF InstallInv, OneAtWork, Working
<1>3. /\ installer' \in [Bundles -> Stages] /\ Working' \subseteq {b}
      /\ Working' = {b} \/ orphaned'
  BY <1>1, <1>2, WorkingAfter DEF Advance, InstallTypeOK, Stages
<1>4. OnDisk' = OnDisk
  BY <1>1 DEF OnDisk
<1>5. QED
  BY <1>1, <1>2, <1>3, <1>4
     DEF InstallInv, InstallTypeOK, OneAtWork, AccountedFor, InstallsWhole,
         RegisteredStays, ServedInstalled, NoOrphanDir

LEMMA CleanUpInv ==
    ASSUME InstallInv, NEW b \in Bundles, CleanUp(b)
    PROVE  InstallInv'
<1>1. /\ installer[b] = "cleaning" /\ InstallTypeOK
      /\ UNCHANGED <<entry, reader, served, registered, named, orphaned, faults, entries>>
  BY DEF CleanUp, InstallInv, installHistory
<1>2. b \in Working /\ there /\ registered = {} /\ Working = {b}
  BY <1>1 DEF InstallInv, OneAtWork, Working
<1>3. CASE code = Empty
  <2>1. there' = FALSE /\ Advance(b, "ended") /\ UNCHANGED code
    BY <1>3 DEF CleanUp
  <2>2. installer' \in [Bundles -> Stages] /\ Working' = {}
    BY <1>1, <1>2, <2>1, WorkingAfter DEF Advance, InstallTypeOK, Stages
  <2>3. OnDisk' = OnDisk
    BY <2>1 DEF OnDisk
  <2>4. QED
    BY <1>1, <1>2, <1>3, <2>1, <2>2, <2>3
       DEF InstallInv, InstallTypeOK, OneAtWork, AccountedFor, InstallsWhole, Empty,
           RegisteredStays, ServedInstalled, NoOrphanDir
<1>4. CASE code # Empty
  <2>1. PICK f \in Files : code' = [code EXCEPT ![f] = NoBundle]
    BY <1>4 DEF CleanUp
  <2>2. UNCHANGED <<there, installer>> /\ Working' = Working
    BY <1>4 DEF CleanUp, Working
  <2>3. OnDisk' \subseteq OnDisk /\ code' \in [Files -> Bundles \cup {NoBundle}]
    BY <1>1, <2>1 DEF OnDisk, InstallTypeOK
  <2>4. QED
    BY <1>1, <1>2, <2>2, <2>3
       DEF InstallInv, InstallTypeOK, OneAtWork, AccountedFor, InstallsWhole,
           RegisteredStays, ServedInstalled, NoOrphanDir
<1>5. QED
  BY <1>3, <1>4

LEMMA CrashInstallInv == ASSUME InstallInv, CrashInstall PROVE InstallInv'
<1>1. /\ orphaned' = TRUE /\ InstallTypeOK
      /\ installer' = [b \in Bundles |-> IF b \in Working THEN "ended" ELSE installer[b]]
      /\ reader' = [r \in Readers |-> "idle"]
      /\ UNCHANGED <<there, code, entry, served, registered, named, entries>>
  BY DEF CrashInstall, InstallInv
<1>2. installer' \in [Bundles -> Stages] /\ Working' = {}
  BY <1>1 DEF InstallTypeOK, Stages, Working
<1>3. OnDisk' = OnDisk
  BY <1>1 DEF OnDisk
<1>4. QED
  BY <1>1, <1>2, <1>3
     DEF InstallInv, InstallTypeOK, OneAtWork, AccountedFor, InstallsWhole,
         RegisteredStays, ServedInstalled, NoOrphanDir

\* The registry entry changes hands; the route admits a request or serves a file.
LEMMA EntryInv ==
    ASSUME InstallInv, NEW status \in {"none", "pending", "approved", "rejected"},
           SetEntry(status)
    PROVE  InstallInv'
<1>1. /\ entry' = status /\ named' = named \cup (OnDisk \ registered) /\ InstallTypeOK
      /\ UNCHANGED <<there, code, installer, reader, served, registered, orphaned, faults>>
  BY DEF SetEntry, InstallInv
<1>2. OnDisk' = OnDisk /\ Working' = Working /\ OnDisk \subseteq Bundles
  BY <1>1 DEF OnDisk, Working, InstallTypeOK
<1>3. QED
  BY <1>1, <1>2
     DEF InstallInv, InstallTypeOK, OneAtWork, AccountedFor, InstallsWhole,
         RegisteredStays, ServedInstalled, NoOrphanDir

LEMMA RouteInv ==
    ASSUME InstallInv, NEW r \in Readers, Admit(r) \/ ServeFile(r)
    PROVE  InstallInv'
<1>1. CASE Admit(r)
  <2>1. /\ entry = "approved" /\ reader' = [reader EXCEPT ![r] = "admitted"] /\ InstallTypeOK
        /\ UNCHANGED <<there, code, entry, installer, served, registered, named, orphaned>>
    BY <1>1 DEF Admit, InstallInv, installHistory
  <2>2. OnDisk' = OnDisk /\ Working' = Working
    BY <2>1 DEF OnDisk, Working
  <2>3. QED
    BY <2>1, <2>2
       DEF InstallInv, InstallTypeOK, OneAtWork, AccountedFor, InstallsWhole,
           RegisteredStays, ServedInstalled, NoOrphanDir
<1>2. CASE ServeFile(r)
  <2>1. /\ reader[r] = "admitted" /\ reader' = [reader EXCEPT ![r] = "idle"] /\ InstallTypeOK
        /\ UNCHANGED <<there, code, entry, installer, registered, named, orphaned>>
        /\ \E f \in Files : served' = served \cup ({code[f]} \ {NoBundle})
    BY <1>2 DEF ServeFile, InstallInv
  <2>2. OnDisk' = OnDisk /\ Working' = Working
    BY <2>1 DEF OnDisk, Working
  <2>3. OnDisk \subseteq registered \cup named /\ OnDisk \subseteq Bundles
    BY <2>1 DEF InstallInv, AccountedFor, OnDisk, InstallTypeOK
  <2>4. served' \subseteq served \cup OnDisk
    BY <2>1 DEF OnDisk
  <2>5. QED
    BY <2>1, <2>2, <2>3, <2>4
       DEF InstallInv, InstallTypeOK, OneAtWork, AccountedFor, InstallsWhole,
           RegisteredStays, ServedInstalled, NoOrphanDir
<1>3. QED
  BY <1>1, <1>2

LEMMA InstallSteps == InstallInv /\ [InstallNext]_installVars => InstallInv'
<1> SUFFICES ASSUME InstallInv, [InstallNext]_installVars PROVE InstallInv'
  OBVIOUS
<1>1. CASE UNCHANGED installVars
  BY <1>1
     DEF installVars, installHistory, InstallInv, InstallTypeOK, OneAtWork, AccountedFor,
         InstallsWhole, RegisteredStays, ServedInstalled, NoOrphanDir, Working, OnDisk
<1>2. CASE AgentNames \/ Dropped \/ Decide
  BY <1>2, EntryInv DEF AgentNames, Dropped, Decide
<1>3. QED
  BY <1>1, <1>2, MakeDirInv, WriteFileInv, RegisterInv, FailsInv, CleanUpInv, CrashInstallInv,
     RouteInv DEF InstallNext

\* What the installations keep true of the directory is an invariant of them.
THEOREM InstallInvariant == InstallSpec => []InstallInv
  BY InstallInitial, InstallSteps, PTL DEF InstallSpec

\* A registered widget's code is whole and never another installation's, what the asset
\* route serves was registered or named before, and no directory is left behind without a
\* failure, for any number of bundles, files, requests, failures and decisions
\* (install.ts, scaffold.ts, serve.ts).
THEOREM InstallsWholeHolds == InstallSpec => []InstallsWhole
<1>1. InstallInv => InstallsWhole
  BY DEF InstallInv
<1>2. QED
  BY <1>1, InstallInvariant, PTL

-----------------------------------------------------------------------------
(***************************************************************************)
(* Connectors                                                              *)
(***************************************************************************)
Entries == [status : {"none", "requested", "granted", "revoked"}, shape : Shapes \cup {NoShape}]

StreamTypes ==
  /\ serving \in Shapes \cup {NoShape}
  /\ grant \in Entries /\ past \in Seq(Entries)
  /\ request \in BOOLEAN /\ undone \in BOOLEAN /\ tick.early \in BOOLEAN

\* Once its request is committed, and unless it was undone, the grant a running connector
\* reads is one of its own shape, and so is what a tick found there.
OwnGrant ==
  /\ serving # NoShape /\ ~ request /\ ~ undone => grant.shape = serving
  /\ tick.stage = "granted" => tick.shape = serving \/ tick.early \/ undone

StreamInv == StreamTypes /\ OwnGrant /\ ShapeApproved

LEMMA StreamInitial == StreamsInit => StreamInv
<1> SUFFICES ASSUME StreamsInit PROVE StreamInv
  OBVIOUS
<1>1. /\ serving = NoShape /\ request = FALSE /\ undone = FALSE /\ sent = {} /\ past = << >>
      /\ grant = NoEntry /\ tick = Idle
  BY DEF StreamsInit
<1>2. NoEntry \in Entries /\ Idle.stage = "idle" /\ Idle.early = FALSE
  BY DEF NoEntry, Entries, Idle
<1>3. StreamTypes
  <2>1. serving \in Shapes \cup {NoShape} /\ grant \in Entries /\ past \in Seq(Entries)
    BY <1>1, <1>2
  <2>2. request \in BOOLEAN /\ undone \in BOOLEAN /\ tick.early \in BOOLEAN
    BY <1>1, <1>2
  <2>3. QED
    BY <2>1, <2>2 DEF StreamTypes
<1>4. OwnGrant /\ ShapeApproved
  BY <1>1, <1>2 DEF OwnGrant, ShapeApproved
<1>5. QED
  BY <1>3, <1>4 DEF StreamInv

LEMMA StreamSteps == StreamInv /\ [StreamsNext]_streamVars => StreamInv'
<1> SUFFICES ASSUME StreamInv, [StreamsNext]_streamVars PROVE StreamInv'
  OBVIOUS
<1>1. ASSUME NEW s \in Shapes, InstallConnector(s) PROVE StreamInv'
  <2>1. /\ serving' = s /\ request' = TRUE /\ tick' = Idle /\ undone' = FALSE
        /\ UNCHANGED <<grant, past, sent>>
    BY <1>1 DEF InstallConnector
  <2>2. Idle.stage = "idle" /\ Idle.early = FALSE
    BY DEF Idle
  <2>3. QED
    BY <2>1, <2>2 DEF StreamInv, StreamTypes, OwnGrant, ShapeApproved
<1>2. CASE RequestGrant
  <2>1. /\ request' = FALSE /\ past' = Append(past, grant)
        /\ UNCHANGED <<serving, tick, sent, undone>>
        /\ \/ SameShape /\ UNCHANGED grant
           \/ grant' = [status |-> "requested", shape |-> serving]
    BY <1>2 DEF RequestGrant, CommitGrant
  <2>2. grant' \in Entries /\ grant'.shape = serving
    BY <2>1 DEF StreamInv, StreamTypes, SameShape, Entries
  <2>3. past' \in Seq(Entries)
    BY <2>1 DEF StreamInv, StreamTypes
  <2>4. QED
    BY <2>1, <2>2, <2>3 DEF StreamInv, StreamTypes, OwnGrant, ShapeApproved
<1>3. CASE RequestFails
  <2>1. /\ request' = FALSE /\ serving' = NoShape /\ tick' = Idle
        /\ UNCHANGED <<grant, past, sent, undone>>
    BY <1>3 DEF RequestFails
  <2>2. Idle.stage = "idle" /\ Idle.early = FALSE
    BY DEF Idle
  <2>3. QED
    BY <2>1, <2>2 DEF StreamInv, StreamTypes, OwnGrant, ShapeApproved
<1>4. CASE DecideGrant
  <2>1. PICK status \in {"granted", "revoked"} :
          grant' = [grant EXCEPT !.status = status] /\ past' = Append(past, grant)
    BY <1>4 DEF DecideGrant, CommitGrant
  <2>2. grant \in Entries /\ past \in Seq(Entries)
    BY DEF StreamInv, StreamTypes
  <2>3. grant' \in Entries /\ grant'.shape = grant.shape /\ past' \in Seq(Entries)
    BY <2>1, <2>2 DEF Entries
  <2>4. UNCHANGED <<serving, request, tick, sent, undone>>
    BY <1>4 DEF DecideGrant
  <2>5. QED
    BY <2>3, <2>4 DEF StreamInv, StreamTypes, OwnGrant, ShapeApproved
<1>5. CASE UndoGrant
  <2>1. /\ past # << >> /\ grant' = past[Len(past)] /\ undone' = TRUE
        /\ past' = SubSeq(past, 1, Len(past) - 1)
        /\ UNCHANGED <<serving, request, tick, sent>>
    BY <1>5 DEF UndoGrant
  <2>2. grant' \in Entries /\ past' \in Seq(Entries)
    BY <2>1 DEF StreamInv, StreamTypes
  <2>3. QED
    BY <2>1, <2>2 DEF StreamInv, StreamTypes, OwnGrant, ShapeApproved
<1>6. CASE CheckGrant
  <2>1. /\ serving # NoShape
        /\ tick' = [stage |-> "granted", shape |-> grant.shape, early |-> request]
        /\ UNCHANGED <<serving, request, grant, past, sent, undone>>
    BY <1>6 DEF CheckGrant
  <2>2. tick'.shape = grant.shape /\ tick'.early = request
    BY <2>1
  <2>3. QED
    BY <2>1, <2>2 DEF StreamInv, StreamTypes, OwnGrant, ShapeApproved
<1>7. CASE SendData
  <2>1. /\ tick.stage = "granted" /\ tick' = Idle
        /\ sent' = sent \cup {[shape |-> serving, grant |-> tick.shape,
                               excused |-> tick.early \/ undone]}
        /\ UNCHANGED <<serving, request, grant, past, undone>>
    BY <1>7 DEF SendData
  <2>2. serving = tick.shape \/ tick.early \/ undone
    BY <2>1 DEF StreamInv, OwnGrant
  <2>3. ShapeApproved'
    <3>1. PICK e \in BOOLEAN : e = (tick.early \/ undone)
      BY DEF StreamInv, StreamTypes
    <3>2. sent' = sent \cup {[shape |-> serving, grant |-> tick.shape, excused |-> e]}
      BY <2>1, <3>1
    <3>3. serving = tick.shape \/ e
      BY <2>2, <3>1
    <3>4. QED
      BY <3>2, <3>3 DEF StreamInv, ShapeApproved
  <2>4. Idle.stage = "idle" /\ Idle.early = FALSE
    BY DEF Idle
  <2>5. QED
    BY <2>1, <2>3, <2>4 DEF StreamInv, StreamTypes, OwnGrant
<1>8. CASE UNCHANGED streamVars
  BY <1>8 DEF streamVars, StreamInv, StreamTypes, OwnGrant, ShapeApproved
<1>9. QED
  BY <1>1, <1>2, <1>3, <1>4, <1>5, <1>6, <1>7, <1>8 DEF StreamsNext

\* What a connector serves was approved for its shape, except before its own request is
\* committed and after an undo, for any shapes, installations and decisions (connector.ts).
THEOREM ShapeApprovedHolds == StreamsSpec => []ShapeApproved
<1>1. StreamInv => ShapeApproved
  BY DEF StreamInv
<1>2. QED
  BY <1>1, StreamInitial, StreamSteps, PTL DEF StreamsSpec

-----------------------------------------------------------------------------
(***************************************************************************)
(* The action button                                                       *)
(***************************************************************************)
Statuses == {"pending", "claimed", "denied", "expired", "confirmed", "failed"}
Acts == [status : Statuses, by : 0..MaxControllers]
Phases == [kind : {"idle", "running", "pending", "result", "confirmed", "denied", "expired",
                   "error"}, id : Nat]
Asks == [op : {"invoke", "confirm", "deny"}, id : Nat, by : Controllers]

\* A phase says of its action what became of it.
TrueOf(p, acts) ==
  /\ p.id <= Len(acts)
  /\ p.id # 0 =>
       /\ p.kind = "denied"    => acts[p.id].status = "denied"
       /\ p.kind = "expired"   => acts[p.id].status = "expired"
       /\ p.kind = "confirmed" => acts[p.id].status \in {"confirmed", "failed"}
       /\ p.kind = "result"    => acts[p.id].status = "confirmed"

TruePhases(acts) == {p \in Phases : TrueOf(p, acts)}

\* An event under way says of its action what became of it, an answer what the call did.
Changes == [kind : {"changed"}, id : Nat \ {0}, status : {"confirmed", "denied", "expired"}]
Replies == [kind : {"answer"}, to : Controllers, op : {"invoke", "confirm", "deny"},
            ok : BOOLEAN, id : Nat]

TrueChanges(acts) == {m \in Changes : TrueOf(Phase(m.status, m.id), acts)}
TrueReplies(acts) ==
  {m \in Replies :
     /\ m.ok => m.id <= Len(acts)
     /\ m.ok /\ m.op = "confirm" => m.id # 0 /\ acts[m.id].status = "confirmed"
     /\ m.ok /\ m.op = "deny"    => m.id # 0 /\ acts[m.id].status = "denied"}

Mail(acts) == TrueChanges(acts) \cup TrueReplies(acts)

\* What was settled stays what it became.
Later(before, after) ==
  /\ Len(before) <= Len(after)
  /\ \A i \in 1..Len(before) :
       before[i].status \in {"denied", "expired", "confirmed", "failed"} =>
         after[i].status = before[i].status

PageTypes ==
  /\ mounted \in Controllers \cup {NoController}
  /\ known \in Controllers \cup {NoController}
  /\ bound \in Controllers \cup {NoController}
  /\ requests \in Seq(Asks)

ButtonInv ==
  /\ PageTypes
  /\ actions \in Seq(Acts)
  /\ button \in [Controllers -> TruePhases(actions)]
  /\ inbox \in Seq(Mail(actions))

LEMMA FreshTrue == \A acts : Fresh \in Phases /\ Phase("error", 0) \in Phases
                             /\ Phase("running", 0) \in Phases
  BY DEF Fresh, Phase, Phases

LEMMA IdlesTrue ==
    ASSUME NEW acts \in Seq(Acts), NEW kind \in {"idle", "running", "error", "result"}
    PROVE  Phase(kind, 0) \in TruePhases(acts)
<1>1. Phase(kind, 0) \in Phases
  BY DEF Phase, Phases
<1>2. Phase(kind, 0).id = 0 /\ Len(acts) \in Nat
  BY DEF Phase
<1>3. QED
  BY <1>1, <1>2 DEF TruePhases, TrueOf

LEMMA StaysTrue ==
    ASSUME NEW a \in Seq(Acts), NEW b \in Seq(Acts), Later(a, b)
    PROVE  TruePhases(a) \subseteq TruePhases(b) /\ Mail(a) \subseteq Mail(b)
<1>1. Len(a) \in Nat /\ Len(b) \in Nat /\ Len(a) <= Len(b)
  BY DEF Later
<1>2. ASSUME NEW p \in Phases, TrueOf(p, a) PROVE TrueOf(p, b)
  <2>1. p.id \in Nat /\ p.id <= Len(a)
    BY <1>2 DEF Phases, TrueOf
  <2>2. p.id # 0 => p.id \in 1..Len(a)
    BY <1>1, <2>1
  <2>3. QED
    BY <1>1, <1>2, <2>1, <2>2 DEF TrueOf, Later
<1>3. TruePhases(a) \subseteq TruePhases(b)
  BY <1>2 DEF TruePhases
<1>4. TrueChanges(a) \subseteq TrueChanges(b)
  <2>1. \A m \in Changes : Phase(m.status, m.id) \in Phases
    BY DEF Changes, Phase, Phases
  <2>2. QED
    BY <1>2, <2>1 DEF TrueChanges
<1>5. TrueReplies(a) \subseteq TrueReplies(b)
  <2>1. ASSUME NEW m \in TrueReplies(a) PROVE m \in TrueReplies(b)
    <3>1. m \in Replies /\ m.id \in Nat /\ (m.ok => m.id <= Len(a))
      BY DEF TrueReplies, Replies
    <3>2. m.ok /\ m.id # 0 => m.id \in 1..Len(a)
      BY <1>1, <3>1
    <3>3. QED
      BY <1>1, <3>1, <3>2 DEF TrueReplies, Later
  <2>2. QED
    BY <2>1
<1>6. QED
  BY <1>3, <1>4, <1>5 DEF Mail

LEMMA SeqWider == ASSUME NEW S, NEW T, S \subseteq T PROVE Seq(S) \subseteq Seq(T)
  OBVIOUS

\* What the actions went on to leaves what was said of them true.
LEMMA ActionsMove ==
    ASSUME ButtonInv, actions' \in Seq(Acts), Later(actions, actions'), UNCHANGED button
    PROVE  /\ button' \in [Controllers -> TruePhases(actions')]
           /\ inbox \in Seq(Mail(actions'))
<1>1. TruePhases(actions) \subseteq TruePhases(actions') /\ Mail(actions) \subseteq Mail(actions')
  BY StaysTrue DEF ButtonInv
<1>2. QED
  BY <1>1, SeqWider DEF ButtonInv

LEMMA ButtonInitial == ButtonInit => ButtonInv
<1> SUFFICES ASSUME ButtonInit PROVE ButtonInv
  OBVIOUS
<1>1. /\ button = [k \in Controllers |-> Fresh] /\ mounted = NoController /\ known = NoController
      /\ bound = NoController /\ requests = << >> /\ inbox = << >> /\ actions = << >>
  BY DEF ButtonInit
<1>2. << >> \in Seq(Acts) /\ << >> \in Seq(Asks) /\ \A acts : << >> \in Seq(Mail(acts))
  OBVIOUS
<1>3. Fresh \in TruePhases(<< >>)
  BY <1>2, IdlesTrue DEF Fresh
<1>4. QED
  BY <1>1, <1>2, <1>3 DEF ButtonInv, PageTypes

\* A mount shows nothing yet.
LEMMA MountTrue ==
    ASSUME ButtonInv, NEW k, NEW deaf, Mount(k, deaf)
    PROVE  button' \in [Controllers -> TruePhases(actions)] /\ mounted' = k
<1>1. Fresh \in TruePhases(actions)
  BY IdlesTrue DEF Fresh, ButtonInv
<1>2. button' = [button EXCEPT ![k] = Fresh] /\ mounted' = k
  BY DEF Mount
<1>3. QED
  BY <1>1, <1>2 DEF ButtonInv

LEMMA RenderTrue ==
    ASSUME ButtonInv,
           RenderButton \/ RemoveButton \/ LeavePage \/ RejoinPage
    PROVE  ButtonInv'
<1>1. UNCHANGED <<actions, requests, inbox>>
  BY DEF RenderButton, RemoveButton, LeavePage, RejoinPage, engineVars
<1>2. CASE RenderButton
  <2> DEFINE k == IF known # NoController THEN known ELSE made + 1
  <2>1. k \in Controllers
    BY <1>2 DEF RenderButton
  <2> HIDE DEF k
  <2>2. CASE bound = k
    <3>1. known' = k /\ UNCHANGED <<button, mounted, bound>>
      BY <1>2, <2>2 DEF RenderButton, k
    <3>2. QED
      BY <1>1, <2>1, <3>1 DEF ButtonInv, PageTypes
  <2>3. CASE bound # k
    <3>1. bound' = k /\ known' \in {k, NoController} /\ Mount(k, {bound})
      BY <1>2, <2>3 DEF RenderButton, k
    <3>2. QED
      BY <1>1, <2>1, <3>1, MountTrue DEF ButtonInv, PageTypes
  <2>4. QED
    BY <2>2, <2>3
<1>3. CASE RemoveButton \/ LeavePage
  <2>1. /\ UNCHANGED button /\ mounted' = NoController /\ known' = NoController
        /\ bound' \in {bound, NoController}
    BY <1>3 DEF RemoveButton, LeavePage, Unmount
  <2>2. QED
    BY <1>1, <2>1 DEF ButtonInv, PageTypes
<1>4. CASE RejoinPage
  <2>1. Mount(bound, {}) /\ UNCHANGED <<known, bound>>
    BY <1>4 DEF RejoinPage
  <2>2. QED
    BY <1>1, <2>1, MountTrue DEF ButtonInv, PageTypes
<1>5. QED
  BY <1>2, <1>3, <1>4

LEMMA SwapTrue == ASSUME ButtonInv, SwapTransport PROVE ButtonInv'
<1>1. /\ inbox' = << >> /\ requests' = << >>
      /\ button' = [k \in Controllers |->
            IF button[k].kind = "running" THEN Phase("error", 0) ELSE button[k]]
      /\ UNCHANGED <<mounted, known, bound, actions>>
  BY DEF SwapTransport, engineVars
<1>2. Phase("error", 0) \in TruePhases(actions)
  BY IdlesTrue DEF ButtonInv
<1>3. button' \in [Controllers -> TruePhases(actions)]
  BY <1>1, <1>2 DEF ButtonInv
<1>4. << >> \in Seq(Asks) /\ << >> \in Seq(Mail(actions'))
  OBVIOUS
<1>5. QED
  BY <1>1, <1>3, <1>4 DEF ButtonInv, PageTypes

LEMMA ClickTrue ==
    ASSUME ButtonInv, ClickRun \/ ClickConfirm \/ ClickDeny
    PROVE  ButtonInv'
<1>1. /\ mounted # NoController /\ UNCHANGED <<mounted, known, bound, inbox, actions>>
      /\ button' \in {button, [button EXCEPT ![mounted] = Phase("running", 0)]}
      /\ \E op \in {"invoke", "confirm", "deny"}, id \in {0, button[mounted].id} :
           requests' = Append(requests, [op |-> op, id |-> id, by |-> mounted])
  BY DEF ClickRun, ClickConfirm, ClickDeny, Send, pageVars, engineVars
<1>2. mounted \in Controllers
  BY <1>1 DEF ButtonInv, PageTypes
<1>3. Phase("running", 0) \in TruePhases(actions)
  BY IdlesTrue DEF ButtonInv
<1>4. button' \in [Controllers -> TruePhases(actions)]
  BY <1>1, <1>3 DEF ButtonInv
<1>5. button[mounted].id \in Nat
  BY <1>2 DEF ButtonInv, TruePhases, Phases
<1>6. requests' \in Seq(Asks)
  BY <1>1, <1>2, <1>5 DEF ButtonInv, PageTypes, Asks
<1>7. QED
  BY <1>1, <1>4, <1>6 DEF ButtonInv, PageTypes

\* A status that is set where nothing was settled.
LEMMA SetLater ==
    ASSUME ButtonInv, NEW id \in 1..Len(actions), NEW status \in Statuses,
           NEW by \in 0..MaxControllers,
           actions[id].status \in {"pending", "claimed"}, SetAction(id, status, by)
    PROVE  /\ actions' \in Seq(Acts) /\ Later(actions, actions')
           /\ Len(actions') = Len(actions) /\ actions'[id].status = status
<1>1. actions \in Seq(Acts) /\ Len(actions) \in Nat
  BY DEF ButtonInv
<1> DEFINE new == [status |-> status, by |-> by]
<1>2. new \in Acts /\ new.status = status
  BY DEF Acts
<1>3. actions' = [actions EXCEPT ![id] = new]
  BY DEF SetAction
<1> HIDE DEF new
<1>4. /\ actions' \in Seq(Acts) /\ Len(actions') = Len(actions)
      /\ actions'[id] = new
      /\ \A i \in 1..Len(actions) : i # id => actions'[i] = actions[i]
  BY <1>1, <1>2, <1>3
<1>5. Later(actions, actions')
  BY <1>1, <1>4 DEF Later
<1>6. QED
  BY <1>2, <1>4, <1>5

LEMMA HeadOf == ASSUME NEW S, NEW s \in Seq(S), s # << >>
                PROVE  Head(s) \in S /\ Tail(s) \in Seq(S)
  OBVIOUS

LEMMA ParkedActs ==
    ASSUME ButtonInv, NEW id
    PROVE  /\ DOMAIN actions = 1..Len(actions)
           /\ Parked(id) => id \in 1..Len(actions) /\ actions[id].status = "pending"
  BY DEF ButtonInv, Parked

\* What the engine says of what it did.
LEMMA EngineSays ==
    ASSUME NEW acts \in Seq(Acts), NEW id \in 1..Len(acts), NEW to \in Controllers
    PROVE  /\ acts[id].status = "denied" =>
                Changed(id, "denied") \in Mail(acts) /\ Answered(to, "deny", TRUE, id) \in Mail(acts)
           /\ acts[id].status = "expired" => Changed(id, "expired") \in Mail(acts)
           /\ acts[id].status \in {"confirmed", "failed"} => Changed(id, "confirmed") \in Mail(acts)
           /\ acts[id].status = "confirmed" => Answered(to, "confirm", TRUE, id) \in Mail(acts)
<1>1. id \in Nat \ {0} /\ id <= Len(acts) /\ Len(acts) \in Nat
  OBVIOUS
<1>2. ASSUME NEW status \in {"confirmed", "denied", "expired"}, TrueOf(Phase(status, id), acts)
      PROVE  Changed(id, status) \in Mail(acts)
  <2>1. Changed(id, status) \in Changes
    BY <1>1 DEF Changed, Changes
  <2>2. Changed(id, status).status = status /\ Changed(id, status).id = id
    BY DEF Changed
  <2>3. QED
    BY <1>2, <2>1, <2>2 DEF Mail, TrueChanges
<1>3. \A kind : Phase(kind, id).kind = kind /\ Phase(kind, id).id = id
  BY DEF Phase
<1>4. /\ acts[id].status = "denied" => TrueOf(Phase("denied", id), acts)
      /\ acts[id].status = "expired" => TrueOf(Phase("expired", id), acts)
      /\ acts[id].status \in {"confirmed", "failed"} => TrueOf(Phase("confirmed", id), acts)
  BY <1>1, <1>3 DEF TrueOf
<1>5. ASSUME NEW op \in {"confirm", "deny"},
             op = "confirm" => acts[id].status = "confirmed",
             op = "deny" => acts[id].status = "denied"
      PROVE  Answered(to, op, TRUE, id) \in Mail(acts)
  <2> DEFINE m == Answered(to, op, TRUE, id)
  <2>1. m \in Replies /\ m.id = id /\ m.op = op
    BY <1>1 DEF Answered, Replies
  <2> HIDE DEF m
  <2>2. m \in TrueReplies(acts)
    BY <1>1, <1>5, <2>1 DEF TrueReplies
  <2>3. QED
    BY <2>2 DEF Mail, m
<1>6. QED
  BY <1>2, <1>4, <1>5

\* An answer that claims nothing.
LEMMA EngineRefuses ==
    ASSUME NEW acts \in Seq(Acts), NEW to \in Controllers,
           NEW op \in {"invoke", "confirm", "deny"}, NEW ok \in BOOLEAN,
           NEW id \in Nat, ok => op = "invoke" /\ id <= Len(acts)
    PROVE  Answered(to, op, ok, id) \in Mail(acts)
<1> DEFINE m == Answered(to, op, ok, id)
<1>1. m \in Replies /\ m.id = id /\ m.op = op /\ m.ok = ok
  BY DEF Answered, Replies
<1> HIDE DEF m
<1>2. m \in TrueReplies(acts)
  BY <1>1 DEF TrueReplies
<1>3. QED
  BY <1>2 DEF Mail, m

LEMMA SaysOn ==
    ASSUME NEW S, NEW s \in Seq(S), NEW m \in S, NEW n \in S
    PROVE  Append(s, m) \in Seq(S) /\ s \o <<m>> \in Seq(S) /\ s \o <<m, n>> \in Seq(S)
<1>1. <<m>> \in Seq(S) /\ <<m, n>> \in Seq(S)
  OBVIOUS
<1>2. QED
  BY <1>1

LEMMA ServeInvokeTrue ==
    ASSUME ButtonInv, NEW q \in Asks, ServeInvoke(q), UNCHANGED button
    PROVE  /\ actions' \in Seq(Acts)
           /\ button' \in [Controllers -> TruePhases(actions')]
           /\ inbox' \in Seq(Mail(actions'))
<1>1. q.by \in Controllers /\ actions \in Seq(Acts) /\ Len(actions) \in Nat
  BY DEF Asks, ButtonInv
<1>2. CASE /\ actions' = Append(actions, [status |-> "pending", by |-> Others])
           /\ inbox' = Append(inbox, Answered(q.by, "invoke", TRUE, Len(actions) + 1))
  <2> DEFINE new == [status |-> "pending", by |-> Others]
  <2>1. new \in Acts
    BY ButtonAssumption DEF Acts, Statuses, Others
  <2> HIDE DEF new
  <2>2. actions' \in Seq(Acts) /\ Len(actions') = Len(actions) + 1 /\ Later(actions, actions')
    <3>1. actions' = Append(actions, new)
      BY <1>2 DEF new
    <3>2. /\ actions' \in Seq(Acts) /\ Len(actions') = Len(actions) + 1
          /\ \A i \in 1..Len(actions) : actions'[i] = actions[i]
      BY <1>1, <2>1, <3>1
    <3>3. QED
      BY <1>1, <3>2 DEF Later
  <2>3. Answered(q.by, "invoke", TRUE, Len(actions) + 1) \in Mail(actions')
    <3>1. PICK n \in Nat, to \in Controllers : n = Len(actions) + 1 /\ to = q.by
      BY <1>1
    <3>2. n <= Len(actions')
      BY <2>2, <3>1
    <3>3. Answered(to, "invoke", TRUE, n) \in Mail(actions')
      BY <2>2, <3>2, EngineRefuses
    <3>4. QED
      BY <3>1, <3>3
  <2>4. button' \in [Controllers -> TruePhases(actions')] /\ inbox \in Seq(Mail(actions'))
    BY <2>2, ActionsMove
  <2>5. inbox' \in Seq(Mail(actions'))
    BY <1>2, <2>3, <2>4, SaysOn
  <2>6. QED
    BY <2>2, <2>4, <2>5
<1>3. ASSUME NEW ok \in BOOLEAN,
             inbox' = Append(inbox, Answered(q.by, "invoke", ok, 0)) /\ UNCHANGED actions
      PROVE  inbox' \in Seq(Mail(actions'))
  <2>1. Answered(q.by, "invoke", ok, 0) \in Mail(actions)
    BY <1>1, EngineRefuses
  <2>2. QED
    BY <1>3, <2>1, SaysOn DEF ButtonInv
<1>4. CASE \E ok \in BOOLEAN :
             inbox' = Append(inbox, Answered(q.by, "invoke", ok, 0)) /\ UNCHANGED actions
  BY <1>1, <1>3, <1>4 DEF ButtonInv
<1>5. QED
  BY <1>2, <1>4 DEF ServeInvoke

LEMMA ServeDecisionTrue ==
    ASSUME ButtonInv, NEW q \in Asks, UNCHANGED button,
           ServeConfirm(q) \/ ServeDeny(q)
    PROVE  /\ actions' \in Seq(Acts)
           /\ button' \in [Controllers -> TruePhases(actions')]
           /\ inbox' \in Seq(Mail(actions'))
<1>1. q.by \in Controllers /\ q.id \in Nat /\ actions \in Seq(Acts)
  BY DEF Asks, ButtonInv
<1>2. q.by \in 0..MaxControllers /\ Others \in 0..MaxControllers
  BY <1>1, ButtonAssumption DEF Controllers, Others
<1>3. CASE ~ Parked(q.id)
  <2>1. PICK op \in {"confirm", "deny"} :
          inbox' = Append(inbox, Answered(q.by, op, FALSE, q.id)) /\ UNCHANGED actions
    BY <1>3 DEF ServeConfirm, ServeDeny
  <2>2. Answered(q.by, op, FALSE, q.id) \in Mail(actions)
    BY <1>1, EngineRefuses
  <2>3. QED
    BY <1>1, <2>1, <2>2, SaysOn DEF ButtonInv
<1>4. CASE Parked(q.id)
  <2>1. q.id \in 1..Len(actions) /\ actions[q.id].status = "pending"
    BY <1>4, ParkedActs
  <2>2. CASE SetAction(q.id, "claimed", q.by) /\ UNCHANGED inbox
    <3>1. actions' \in Seq(Acts) /\ Later(actions, actions')
      BY <1>2, <2>1, <2>2, SetLater DEF Statuses
    <3>2. QED
      BY <2>2, <3>1, ActionsMove
  <2>3. CASE /\ SetAction(q.id, "denied", Others)
             /\ inbox' = inbox \o <<Changed(q.id, "denied"), Answered(q.by, "deny", TRUE, q.id)>>
    <3>1. /\ actions' \in Seq(Acts) /\ Later(actions, actions')
          /\ Len(actions') = Len(actions) /\ actions'[q.id].status = "denied"
      BY <1>2, <2>1, <2>3, SetLater DEF Statuses
    <3>2. /\ Changed(q.id, "denied") \in Mail(actions')
          /\ Answered(q.by, "deny", TRUE, q.id) \in Mail(actions')
      BY <1>1, <2>1, <3>1, EngineSays
    <3>3. button' \in [Controllers -> TruePhases(actions')] /\ inbox \in Seq(Mail(actions'))
      BY <3>1, ActionsMove
    <3>4. inbox' \in Seq(Mail(actions'))
      BY <2>3, <3>2, <3>3, SaysOn
    <3>5. QED
      BY <3>1, <3>3, <3>4
  <2>4. QED
    BY <1>4, <2>2, <2>3 DEF ServeConfirm, ServeDeny
<1>5. QED
  BY <1>3, <1>4

LEMMA ServeTrue == ASSUME ButtonInv, ServeRequest PROVE ButtonInv'
<1>1. /\ requests # << >> /\ requests' = Tail(requests)
      /\ UNCHANGED <<button, mounted, known, bound>>
  BY DEF ServeRequest, pageVars
<1>2. PICK q \in Asks : q = Head(requests)
  BY <1>1, HeadOf DEF ButtonInv, PageTypes
<1>3. ServeInvoke(q) \/ ServeConfirm(q) \/ ServeDeny(q)
  <2>1. q.op \in {"invoke", "confirm", "deny"}
    BY DEF Asks
  <2>2. q.op = "invoke" => ServeInvoke(q)
    BY <1>2 DEF ServeRequest
  <2>3. q.op = "confirm" => ServeConfirm(q)
    BY <1>2 DEF ServeRequest
  <2>4. q.op = "deny" => ServeDeny(q)
    BY <1>2 DEF ServeRequest
  <2>5. QED
    BY <2>1, <2>2, <2>3, <2>4
<1>4. PageTypes'
  BY <1>1, HeadOf DEF ButtonInv, PageTypes
<1>5. QED
  BY <1>1, <1>3, <1>4, ServeInvokeTrue, ServeDecisionTrue DEF ButtonInv

LEMMA RunTrue ==
    ASSUME ButtonInv, NEW id \in 1..MaxActions,
           \/ RunAction(id)
           \/ \E status \in {"claimed", "denied", "expired"} : Elsewhere(id, status)
    PROVE  ButtonInv'
<1>1. UNCHANGED <<button, mounted, known, bound, requests>>
  BY DEF RunAction, Elsewhere, pageVars
<1>2. PageTypes' /\ actions \in Seq(Acts) /\ Others \in 0..MaxControllers
  BY <1>1, ButtonAssumption DEF ButtonInv, PageTypes, Others
<1>3. CASE RunAction(id)
  <2>1. id \in 1..Len(actions) /\ actions[id].status = "claimed" /\ actions[id].by \in 0..MaxControllers
    <3>1. id \in DOMAIN actions /\ actions[id].status = "claimed"
      BY <1>3 DEF RunAction
    <3>2. id \in 1..Len(actions)
      BY <3>1, ParkedActs
    <3>3. actions[id] \in Acts
      BY <1>2, <3>2
    <3>4. QED
      BY <3>1, <3>2, <3>3 DEF Acts
  <2>2. PICK ok \in BOOLEAN :
          /\ SetAction(id, IF ok THEN "confirmed" ELSE "failed", actions[id].by)
          /\ inbox' = inbox \o <<Changed(id, "confirmed")>>
                 \o (IF actions[id].by = Others THEN <<>>
                     ELSE <<Answered(actions[id].by, "confirm", ok, id)>>)
    BY <1>3 DEF RunAction
  <2>3. PICK by \in 0..MaxControllers : by = actions[id].by
    BY <2>1
  <2>4. /\ actions' \in Seq(Acts) /\ Later(actions, actions') /\ Len(actions') = Len(actions)
        /\ actions'[id].status = IF ok THEN "confirmed" ELSE "failed"
    BY <2>1, <2>2, <2>3, SetLater DEF Statuses
  <2>5. button' \in [Controllers -> TruePhases(actions')] /\ inbox \in Seq(Mail(actions'))
    BY <1>1, <2>4, ActionsMove
  <2>6. Changed(id, "confirmed") \in Mail(actions')
    <3>1. PICK k \in 0..MaxControllers : k = by
      OBVIOUS
    <3>2. id \in 1..Len(actions') /\ actions'[id].status \in {"confirmed", "failed"}
      BY <2>1, <2>4
    <3>3. TrueOf(Phase("confirmed", id), actions')
      BY <3>2, <2>4 DEF TrueOf, Phase
    <3>4. Changed(id, "confirmed") \in Changes
      BY <3>2 DEF Changed, Changes
    <3>5. QED
      BY <3>3, <3>4 DEF Mail, TrueChanges, Changed
  <2>7. CASE by = Others
    <3>1. inbox' = inbox \o <<Changed(id, "confirmed")>> \o << >>
      BY <2>2, <2>3, <2>7
    <3>2. inbox \o <<Changed(id, "confirmed")>> \in Seq(Mail(actions'))
      BY <2>5, <2>6, SaysOn
    <3>3. inbox' \in Seq(Mail(actions'))
      BY <3>1, <3>2
    <3>4. QED
      BY <1>2, <2>4, <2>5, <3>3 DEF ButtonInv
  <2>8. CASE by # Others
    <3> DEFINE told == Answered(by, "confirm", ok, id)
    <3>1. by \in Controllers
      BY <2>8, ButtonAssumption DEF Others, Controllers
    <3>2. told \in Mail(actions')
      <4>1. id \in 1..Len(actions') /\ id \in Nat
        BY <2>1, <2>4
      <4>2. CASE ok
        BY <2>4, <3>1, <4>1, <4>2, EngineSays
      <4>3. CASE ~ ok
        BY <2>4, <3>1, <4>1, <4>3, EngineRefuses
      <4>4. QED
        BY <4>2, <4>3
    <3>3. inbox' = (inbox \o <<Changed(id, "confirmed")>>) \o <<told>>
      BY <2>2, <2>3, <2>8
    <3> HIDE DEF told
    <3>4. inbox \o <<Changed(id, "confirmed")>> \in Seq(Mail(actions'))
      BY <2>5, <2>6, SaysOn
    <3>5. inbox' \in Seq(Mail(actions'))
      BY <3>2, <3>3, <3>4, SaysOn
    <3>6. QED
      BY <1>2, <2>4, <2>5, <3>5 DEF ButtonInv
  <2>9. QED
    BY <2>7, <2>8
<1>4. ASSUME NEW status \in {"claimed", "denied", "expired"}, Elsewhere(id, status)
      PROVE  ButtonInv'
  <2>1. id \in 1..Len(actions) /\ actions[id].status = "pending"
    BY <1>4, ParkedActs DEF Elsewhere
  <2>2. /\ actions' \in Seq(Acts) /\ Later(actions, actions')
        /\ Len(actions') = Len(actions) /\ actions'[id].status = status
    BY <1>2, <1>4, <2>1, SetLater DEF Elsewhere, Statuses
  <2>3. button' \in [Controllers -> TruePhases(actions')] /\ inbox \in Seq(Mail(actions'))
    BY <1>1, <2>2, ActionsMove
  <2>4. CASE status = "claimed"
    BY <1>2, <1>4, <2>2, <2>3, <2>4 DEF Elsewhere, ButtonInv
  <2>5. CASE status # "claimed"
    <3>1. inbox' = Append(inbox, Changed(id, status))
      BY <1>4, <2>5 DEF Elsewhere
    <3>2. id \in 1..Len(actions')
      BY <2>1, <2>2
    <3>3. TrueOf(Phase(status, id), actions')
      BY <2>2, <2>5, <3>2 DEF TrueOf, Phase
    <3>4. Changed(id, status) \in Changes
      BY <2>5, <3>2 DEF Changed, Changes
    <3>5. Changed(id, status) \in Mail(actions')
      BY <3>3, <3>4 DEF Mail, TrueChanges, Changed
    <3>6. inbox' \in Seq(Mail(actions'))
      BY <2>3, <3>1, <3>5, SaysOn
    <3>7. QED
      BY <1>2, <2>2, <2>3, <3>6 DEF ButtonInv
  <2>6. QED
    BY <2>4, <2>5
<1>5. QED
  BY <1>3, <1>4

LEMMA ReceiveTrue == ASSUME ButtonInv, ReceiveMessage PROVE ButtonInv'
<1>1. /\ inbox # << >> /\ inbox' = Tail(inbox)
      /\ UNCHANGED <<mounted, known, bound, requests, actions>>
      /\ IF Head(inbox).kind = "changed" THEN OnActionChange(Head(inbox)) ELSE OnAnswer(Head(inbox))
  BY DEF ReceiveMessage, engineVars
<1>2. PICK m \in Mail(actions) : m = Head(inbox)
  BY <1>1, HeadOf DEF ButtonInv
<1>3. inbox' \in Seq(Mail(actions))
  BY <1>1, HeadOf DEF ButtonInv
<1>4. CASE m.kind = "changed"
  <2>1. m \in Changes /\ TrueOf(Phase(m.status, m.id), actions)
    BY <1>4 DEF Mail, TrueChanges, TrueReplies, Replies
  <2>2. Phase(m.status, m.id) \in TruePhases(actions)
    BY <2>1 DEF Changes, TruePhases, Phases, Phase
  <2>3. button' = [k \in Controllers |->
          IF hears[k] = transport /\ Concerns(k, m) THEN Phase(m.status, button[k].id) ELSE button[k]]
    BY <1>1, <1>2, <1>4 DEF OnActionChange
  <2>4. \A k \in Controllers : Concerns(k, m) => button[k].id = m.id
    BY DEF Concerns
  <2>5. button' \in [Controllers -> TruePhases(actions)]
    BY <2>2, <2>3, <2>4 DEF ButtonInv
  <2>6. QED
    BY <1>1, <1>3, <2>5 DEF ButtonInv, PageTypes
<1>5. CASE m.kind # "changed"
  <2>1. m \in Replies /\ m \in TrueReplies(actions)
    BY <1>5 DEF Mail, TrueChanges, Changes, TrueReplies
  <2> DEFINE p == IF ~ m.ok THEN Phase("error", 0)
                  ELSE CASE m.op = "invoke" /\ m.id # 0 -> Phase("pending", m.id)
                         [] m.op = "deny"               -> Phase("denied", m.id)
                         [] OTHER                       -> Phase("result", m.id)
  <2>2. button' = [button EXCEPT ![m.to] = p]
    BY <1>1, <1>2, <1>5 DEF OnAnswer
  <2>3. p \in TruePhases(actions)
    <3>1. CASE ~ m.ok
      BY <3>1, IdlesTrue DEF ButtonInv
    <3>2. ASSUME NEW kind \in {"pending", "denied", "result"}, m.ok,
                 kind = "denied" => m.id # 0 /\ actions[m.id].status = "denied",
                 kind = "result" => m.id = 0 \/ actions[m.id].status = "confirmed"
          PROVE  Phase(kind, m.id) \in TruePhases(actions)
      <4>1. Phase(kind, m.id) \in Phases /\ m.id <= Len(actions)
        BY <2>1, <3>2 DEF Phase, Phases, Replies, TrueReplies
      <4>2. TrueOf(Phase(kind, m.id), actions)
        BY <3>2, <4>1 DEF TrueOf, Phase
      <4>3. QED
        BY <4>1, <4>2 DEF TruePhases
    <3>3. CASE m.ok
      <4>1. m.op = "invoke" \/ m.op = "confirm" \/ m.op = "deny"
        BY <2>1 DEF Replies
      <4>2. CASE m.op = "invoke" /\ m.id # 0
        BY <3>2, <3>3, <4>2
      <4>3. CASE m.op = "invoke" /\ m.id = 0
        BY <3>2, <3>3, <4>3
      <4>4. CASE m.op = "deny"
        BY <2>1, <3>2, <3>3, <4>4 DEF TrueReplies
      <4>5. CASE m.op = "confirm"
        BY <2>1, <3>2, <3>3, <4>5 DEF TrueReplies
      <4>6. QED
        BY <4>1, <4>2, <4>3, <4>4, <4>5
    <3>4. QED
      BY <3>1, <3>3
  <2> HIDE DEF p
  <2>4. QED
    BY <1>1, <1>3, <2>2, <2>3 DEF ButtonInv, PageTypes
<1>6. QED
  BY <1>4, <1>5

LEMMA ButtonSteps == ButtonInv /\ [ButtonNext]_buttonVars => ButtonInv'
<1> SUFFICES ASSUME ButtonInv, [ButtonNext]_buttonVars PROVE ButtonInv'
  OBVIOUS
<1>1. CASE UNCHANGED buttonVars
  BY <1>1 DEF buttonVars, pageVars, engineVars, ButtonInv, PageTypes
<1>2. QED
  BY <1>1, RenderTrue, SwapTrue, ClickTrue, ServeTrue, ReceiveTrue, RunTrue DEF ButtonNext

\* What a button says became of an action did become of it, whoever else decided, however
\* often the button was remounted, the transport replaced and the action invoked again,
\* for any number of controllers, actions and calls (action-button.ts).
THEOREM ButtonTellsTruthHolds == ButtonSpec => []ButtonTellsTruth
<1>1. ButtonInv => ButtonTellsTruth
  BY DEF ButtonInv, TruePhases, TrueOf, ButtonTellsTruth
<1>2. QED
  BY <1>1, ButtonInitial, ButtonSteps, PTL DEF ButtonSpec

=============================================================================
