------------------------------- MODULE Install -------------------------------
(* One custom widget's name: its directory, its registry entry and the asset *)
(* route. Installers (server/install.ts, or scaffold.ts behind the scaffold  *)
(* tool of tools-node.ts) make the directory, write the files one by one and *)
(* register the name last, each step on its own; an agent may name a widget  *)
(* that is not installed yet (tools.ts), the operator decides on what the    *)
(* registry lists, and the route (serve.ts) reads the registry, then a file. *)
EXTENDS Naturals, FiniteSets

CONSTANTS
    Bundles,      \* installations of the name, told apart by their code
    Scaffolds,    \* those of dashboard_widget_scaffold
    Files,        \* the files of a bundle
    Readers,      \* requests for an asset
    MaxFaults,    \* bound: failed file operations and crashes
    MaxEntries,   \* bound: changes of the registry entry made by others
    NoBundle

ASSUME InstallAssumption ==
    /\ Scaffolds \subseteq Bundles /\ NoBundle \notin Bundles
    /\ MaxFaults \in Nat /\ MaxEntries \in Nat

VARIABLES
    there,       \* the widget's directory exists
    code,        \* whose each file in it is
    entry,       \* the registry's status of the name
    installer,   \* what each installation is doing
    reader,      \* the route's requests
    served,      \* history: the bundles a file was served of
    registered,  \* history: the bundles whose installation registered the name
    named,       \* history: the bundles on disk, unregistered, while the name had an
                 \* entry already, or a request was under way that it had admitted
    orphaned,    \* history: a crash or a failed clean-up left a directory
    faults, entries

installHistory == <<served, registered, named, orphaned>>
installVars == <<there, code, entry, installer, reader, installHistory, faults, entries>>

Empty   == [f \in Files |-> NoBundle]
OnDisk  == {code[f] : f \in Files} \ {NoBundle}
Stages == {"idle", "writing", "cleaning", "ended"}
Working == {b \in Bundles : installer[b] \in {"writing", "cleaning"}}

InstallInit ==
    /\ there = FALSE /\ code = Empty /\ entry = "none"
    /\ installer = [b \in Bundles |-> "idle"]
    /\ reader = [r \in Readers |-> "idle"]
    /\ served = {} /\ registered = {} /\ named = {} /\ orphaned = FALSE
    /\ faults = 0 /\ entries = 0

Advance(b, stage) == installer' = [installer EXCEPT ![b] = stage]

\* Mutant: an existing directory is taken over.
MakeDirAnyway(b) ==
    /\ installer[b] = "idle"
    /\ there' = TRUE /\ Advance(b, "writing")
    /\ UNCHANGED <<code, entry, reader, installHistory, faults, entries>>

\* The exclusive mkdir: whoever finds a directory gives up and touches nothing.
MakeDir(b) ==
    /\ installer[b] = "idle"
    /\ IF there THEN Advance(b, "ended") /\ UNCHANGED there
       ELSE there' = TRUE /\ Advance(b, "writing")
    /\ UNCHANGED <<code, entry, reader, installHistory, faults, entries>>

WriteFile(b) ==
    /\ installer[b] = "writing"
    /\ \E f \in {g \in Files : code[g] # b} : code' = [code EXCEPT ![f] = b]
    /\ named' = IF entry = "none" /\ \A r \in Readers : reader[r] = "idle" THEN named
                ELSE named \cup {b}
    /\ UNCHANGED <<there, entry, installer, reader, served, registered, orphaned, faults, entries>>

\* Mutant: the name is registered before its files are written.
RegisterEarly(b) ==
    /\ installer[b] = "writing" /\ b \notin registered
    /\ entry = "none" /\ entry' = "pending"
    /\ registered' = registered \cup {b}
    /\ UNCHANGED <<there, code, installer, reader, served, named, orphaned, faults, entries>>

\* The registry write comes last; a bundle does not register a name that has an
\* entry, a scaffold sets it back to pending.
Register(b) ==
    /\ installer[b] = "writing" /\ code = [f \in Files |-> b]
    /\ IF b \in Scaffolds \/ entry = "none"
       THEN /\ entry' = "pending" /\ registered' = registered \cup {b} /\ Advance(b, "ended")
       ELSE Advance(b, "cleaning") /\ UNCHANGED <<entry, registered>>
    /\ UNCHANGED <<there, code, reader, served, named, orphaned, faults, entries>>

\* A file operation or the registry write fails: a bundle cleans up, a scaffold
\* leaves its directory behind.
Fails(b) ==
    /\ installer[b] = "writing" /\ faults < MaxFaults
    /\ faults' = faults + 1
    /\ IF b \in Scaffolds THEN Advance(b, "ended") /\ orphaned' = TRUE
       ELSE Advance(b, "cleaning") /\ UNCHANGED orphaned
    /\ UNCHANGED <<there, code, entry, reader, served, registered, named, entries>>

\* The recursive rm takes a file at a time and the directory at the end.
CleanUp(b) ==
    /\ installer[b] = "cleaning"
    /\ IF code = Empty THEN there' = FALSE /\ Advance(b, "ended") /\ UNCHANGED code
       ELSE /\ \E f \in {g \in Files : code[g] # NoBundle} : code' = [code EXCEPT ![f] = NoBundle]
            /\ UNCHANGED <<there, installer>>
    /\ UNCHANGED <<entry, reader, installHistory, faults, entries>>

\* A failed clean-up is ignored.
CleanUpFails(b) ==
    /\ installer[b] = "cleaning" /\ faults < MaxFaults
    /\ faults' = faults + 1 /\ orphaned' = TRUE
    /\ Advance(b, "ended")
    /\ UNCHANGED <<there, code, entry, reader, served, registered, named, entries>>

\* The process ends; what is on disk stays.
CrashInstall ==
    /\ Working # {} /\ faults < MaxFaults
    /\ faults' = faults + 1 /\ orphaned' = TRUE
    /\ installer' = [b \in Bundles |-> IF b \in Working THEN "ended" ELSE installer[b]]
    /\ reader' = [r \in Readers |-> "idle"]
    /\ UNCHANGED <<there, code, entry, served, registered, named, entries>>

\* The entry changes hands: an agent's document names the widget (pending) or
\* drops it, an undo takes a registration back, the operator approves or rejects.
SetEntry(status) ==
    /\ entries < MaxEntries /\ entry # status
    /\ entries' = entries + 1 /\ entry' = status
    /\ named' = named \cup (OnDisk \ registered)
    /\ UNCHANGED <<there, code, installer, reader, served, registered, orphaned, faults>>

AgentNames == entry = "none" /\ SetEntry("pending")
Dropped    == SetEntry("none")
Decide     == entry # "none" /\ \E status \in {"approved", "rejected"} : SetEntry(status)

\* The route answers only for an approved name ...
Admit(r) ==
    /\ reader[r] = "idle" /\ entry = "approved"
    /\ reader' = [reader EXCEPT ![r] = "admitted"]
    /\ UNCHANGED <<there, code, entry, installer, installHistory, faults, entries>>

\* ... and reads the file later: it is served as it is then, or not found.
ServeFile(r) ==
    /\ reader[r] = "admitted"
    /\ reader' = [reader EXCEPT ![r] = "idle"]
    /\ \E f \in Files : served' = served \cup ({code[f]} \ {NoBundle})
    /\ UNCHANGED <<there, code, entry, installer, registered, named, orphaned, faults, entries>>

InstallNext ==
    \/ \E b \in Bundles : MakeDir(b) \/ WriteFile(b) \/ Register(b) \/ Fails(b)
                          \/ CleanUp(b) \/ CleanUpFails(b)
    \/ \E r \in Readers : Admit(r) \/ ServeFile(r)
    \/ CrashInstall \/ AgentNames \/ Dropped \/ Decide

InstallSpec == InstallInit /\ [][InstallNext]_installVars

InstallTypeOK ==
    /\ there \in BOOLEAN /\ code \in [Files -> Bundles \cup {NoBundle}]
    /\ ~ there => code = Empty
    /\ entry \in {"none", "pending", "approved", "rejected"}
    /\ installer \in [Bundles -> Stages] /\ reader \in [Readers -> {"idle", "admitted"}]
    /\ registered \cup named \cup served \subseteq Bundles

\* Once an installation registered the name its files are all there and are never
\* another installation's ("so an install cannot swap an approved widget's code"),
\* through crashes, failed writes, competing installations and a changing entry.
RegisteredStays ==
    \A b \in registered : there /\ code = [f \in Files |-> b]

\* A file is served only of a completed installation, unless somebody put the name
\* into the registry before its installation did.
ServedInstalled == served \subseteq registered \cup named

\* Only a crash, a failed removal or a failed scaffold leaves a directory nobody
\* registered, which then keeps the name from being installed again.
NoOrphanDir ==
    there /\ Working = {} => orphaned \/ registered # {}

InstallsWhole == RegisteredStays /\ ServedInstalled /\ NoOrphanDir
=============================================================================
