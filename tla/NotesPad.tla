------------------------------ MODULE NotesPad ------------------------------
(***************************************************************************)
(* The persisted state of a widget, and the notes builtin that edits it.   *)
(* The store keeps a versioned record per widget, written whole, with an   *)
(* optional expected version; the pad loads it once, never over what was   *)
(* typed meanwhile, and saves each edit when the typing pauses. The board  *)
(* renders the widgets of the shown tab by position, so the element of a   *)
(* pad stays when the tab changes and both tabs have notes in that place.  *)
(***************************************************************************)
EXTENDS Integers, Sequences, FiniteSets

CONSTANTS
    Notes,       \* the notes widgets, one per tab, all in the same position
    Texts,         \* what may be typed
    Seed,          \* the text of a pad nothing was saved for
    MaxPads,       \* bound: the textarea elements the page ever makes
    MaxEdits,      \* bound: how often the operator types
    MaxFails,      \* bound: how many saves the server refuses or restarts
    MaxOthers,     \* bound: the writes of another client
    NoText, NoPad

ASSUME PadAssumption ==
    /\ MaxPads \in Nat /\ MaxEdits \in Nat /\ MaxFails \in Nat /\ MaxOthers \in Nat
    /\ Seed \notin Texts /\ NoText \notin Texts \cup {Seed} /\ NoPad \notin 1..MaxPads
    /\ NoPad \notin Notes

Pads == 1..MaxPads

VARIABLES
    file,      \* per widget: its record, version 0 when there is none
    cell,      \* the pad on the page and the widget shown in its cell
    pad,       \* per element: whose accessor it uses, its text and its flags
    made,      \* how many elements were made
    timers,    \* per element: its debounce timer, what it saves, when it was armed
    saves,     \* the saves under way, in the order the store will take them
    loads,     \* the pads whose hydrating read is under way
    peer,      \* another client: what it read of each widget
    edits, fails, others,
    typed,     \* history: the last text typed into each element
    latest,    \* history: the last text typed for each widget's state
    kept,      \* history: the last text of a pad the store took, per widget
    refused,   \* history: the widgets whose last save failed
    unread     \* history: the widgets whose record could not be read once

padVars == <<file, cell, pad, made, timers, saves, loads, peer, edits, fails, others,
          typed, latest, kept, refused, unread>>
padBounds == <<edits, fails, others>>
padHistory == <<typed, latest, kept, refused, unread>>

NoTimer == [armed |-> 0, text |-> NoText]

Armed(p) == timers[p] # NoTimer

NoRecord == [version |-> 0, text |-> NoText]

Showing == cell.pad # NoPad

-----------------------------------------------------------------------------
(* Rendering the cell: the element is made with the first notes widget in  *)
(* the place, and bound to that widget's state once.                       *)

MakePad(w) ==
    /\ ~ Showing /\ made < MaxPads
    /\ made' = made + 1
    /\ cell' = [pad |-> made + 1, widget |-> w]
    /\ pad' = [pad EXCEPT ![made + 1] =
                 [widget |-> w, text |-> Seed, persisted |-> FALSE, dirty |-> FALSE]]
    /\ loads' = loads \cup {made + 1}
    /\ UNCHANGED <<file, timers, saves, peer, padBounds, padHistory>>

\* The same element shows another widget: a changed seed is taken while
\* nothing is persisted or typed, everything else stays as it is.
Rerender(w) ==
    /\ Showing
    /\ cell' = [cell EXCEPT !.widget = w]
    /\ pad' = IF pad[cell.pad].persisted \/ pad[cell.pad].dirty THEN pad
              ELSE [pad EXCEPT ![cell.pad].text = Seed]
    /\ UNCHANGED <<file, made, timers, saves, loads, peer, padBounds, padHistory>>

\* A tab with something else in that place: the element leaves the page, its
\* timer and its requests do not.
\* Mutant of DropPad: the element's debounce is cleared with it.
DropPadClearing ==
    /\ Showing
    /\ cell' = [pad |-> NoPad, widget |-> NoPad]
    /\ timers' = [timers EXCEPT ![cell.pad] = NoTimer]
    /\ UNCHANGED <<file, pad, made, saves, loads, peer, padBounds, padHistory>>

DropPad ==
    /\ Showing
    /\ cell' = [pad |-> NoPad, widget |-> NoPad]
    /\ UNCHANGED <<file, pad, made, timers, saves, loads, peer, padBounds, padHistory>>

-----------------------------------------------------------------------------
(* Editing.                                                                *)

Type(text) ==
    /\ Showing /\ edits < MaxEdits
    /\ edits' = edits + 1
    /\ pad' = [pad EXCEPT ![cell.pad].text = text, ![cell.pad].dirty = TRUE]
    /\ timers' = [timers EXCEPT ![cell.pad] = [armed |-> edits + 1, text |-> text]]
    /\ typed' = [typed EXCEPT ![cell.pad] = text]
    /\ latest' = [latest EXCEPT ![pad[cell.pad].widget] = text]
    /\ UNCHANGED <<file, cell, made, saves, loads, peer, fails, others, kept, refused,
                   unread>>

\* All debounces wait equally long, so the timers fire in the order they were
\* armed in.
Due(p) == Armed(p) /\ \A q \in Pads : Armed(q) => timers[p].armed <= timers[q].armed

Save(p) ==
    /\ Due(p)
    /\ saves' = Append(saves, [widget |-> pad[p].widget, text |-> timers[p].text])
    /\ timers' = [timers EXCEPT ![p] = NoTimer]
    /\ UNCHANGED <<file, cell, pad, made, loads, peer, padBounds, padHistory>>

\* Mutant of Hydrate: what was saved replaces what was typed meanwhile.
HydrateAlways(p) ==
    /\ p \in loads
    /\ loads' = loads \ {p}
    /\ pad' = IF file[pad[p].widget].version > 0
              THEN [pad EXCEPT ![p].persisted = TRUE, ![p].text = file[pad[p].widget].text]
              ELSE pad
    /\ UNCHANGED <<file, cell, made, timers, saves, peer, padBounds, padHistory>>

Hydrate(p) ==
    /\ p \in loads
    /\ loads' = loads \ {p}
    /\ pad' = IF file[pad[p].widget].version > 0 /\ ~ pad[p].dirty
              THEN [pad EXCEPT ![p].persisted = TRUE, ![p].text = file[pad[p].widget].text]
              ELSE pad
    /\ UNCHANGED <<file, cell, made, timers, saves, peer, padBounds, padHistory>>

\* A failed read keeps the seed.
HydrateFails(p) ==
    /\ p \in loads
    /\ loads' = loads \ {p}
    /\ UNCHANGED <<file, cell, pad, made, timers, saves, peer, padBounds, padHistory>>

-----------------------------------------------------------------------------
(* The store: writes one at a time, each the whole record.                 *)

\* Mutant of Written: only the first write counts the version.
WrittenOnce(w, text) == [file EXCEPT ![w] = [version |-> 1, text |-> text]]

Written(w, text) ==
    [file EXCEPT ![w] = [version |-> @.version + 1, text |-> text]]

WriteState ==
    /\ saves # <<>>
    /\ file' = Written(Head(saves).widget, Head(saves).text)
    /\ kept' = [kept EXCEPT ![Head(saves).widget] = Head(saves).text]
    /\ refused' = refused \ {Head(saves).widget}
    /\ saves' = Tail(saves)
    /\ UNCHANGED <<cell, pad, made, timers, loads, peer, padBounds, typed, latest, unread>>

\* A record that cannot be read counts as none: the write starts over at 1.
WriteAnew ==
    /\ saves # <<>> /\ fails < MaxFails /\ file[Head(saves).widget].version > 0
    /\ fails' = fails + 1
    /\ file' = [file EXCEPT ![Head(saves).widget] = [version |-> 1, text |-> Head(saves).text]]
    /\ kept' = [kept EXCEPT ![Head(saves).widget] = Head(saves).text]
    /\ refused' = refused \ {Head(saves).widget}
    /\ unread' = unread \cup {Head(saves).widget}
    /\ saves' = Tail(saves)
    /\ UNCHANGED <<cell, pad, made, timers, loads, peer, edits, others, typed, latest>>

\* Too large, or the connection is gone: nothing is written and the pad does
\* not hear of it.
WriteRefused ==
    /\ saves # <<>> /\ fails < MaxFails
    /\ fails' = fails + 1
    /\ saves' = Tail(saves)
    /\ refused' = refused \cup {Head(saves).widget}
    /\ UNCHANGED <<file, cell, pad, made, timers, loads, peer, edits, others, typed, latest,
                   kept, unread>>

PeerReads(w) ==
    /\ peer' = [peer EXCEPT ![w] = file[w]]
    /\ UNCHANGED <<file, cell, pad, made, timers, saves, loads, padBounds, padHistory>>

\* The write of a client that names the version it read.
PeerWrites(w, text) ==
    /\ others < MaxOthers /\ peer[w].version = file[w].version
    /\ others' = others + 1
    /\ file' = Written(w, text)
    /\ peer' = [peer EXCEPT ![w] = file'[w]]
    /\ UNCHANGED <<cell, pad, made, timers, saves, loads, edits, fails, padHistory>>

-----------------------------------------------------------------------------

PadInit ==
    /\ file = [w \in Notes |-> NoRecord]
    /\ cell = [pad |-> NoPad, widget |-> NoPad]
    /\ pad = [p \in Pads |-> [widget |-> NoPad, text |-> Seed, persisted |-> FALSE,
                              dirty |-> FALSE]]
    /\ made = 0
    /\ timers = [p \in Pads |-> NoTimer] /\ saves = <<>> /\ loads = {}
    /\ peer = [w \in Notes |-> NoRecord]
    /\ edits = 0 /\ fails = 0 /\ others = 0
    /\ typed = [p \in Pads |-> NoText]
    /\ latest = [w \in Notes |-> NoText]
    /\ kept = [w \in Notes |-> NoText]
    /\ refused = {} /\ unread = {}

PadNext ==
    \/ \E w \in Notes : MakePad(w) \/ Rerender(w) \/ PeerReads(w)
    \/ DropPad
    \/ \E text \in Texts : Type(text) \/ \E w \in Notes : PeerWrites(w, text)
    \/ WriteState \/ WriteAnew \/ WriteRefused
    \/ \E p \in Pads : Save(p) \/ Hydrate(p) \/ HydrateFails(p)

PadSpec == PadInit /\ [][PadNext]_padVars

\* A timer fires, and the store works its queue off.
PadFairSpec == PadSpec /\ WF_padVars(\E p \in Pads : Save(p)) /\ WF_padVars(WriteState)

-----------------------------------------------------------------------------

Records == [version : Nat, text : Texts \cup {NoText}]

PadTypeOK ==
    /\ file \in [Notes -> Records] /\ peer \in [Notes -> Records]
    /\ cell \in [pad : Pads \cup {NoPad}, widget : Notes \cup {NoPad}]
    /\ pad \in [Pads -> [widget : Notes \cup {NoPad}, text : Texts \cup {Seed},
                         persisted : BOOLEAN, dirty : BOOLEAN]]
    /\ made \in 0..MaxPads
    /\ timers \in [Pads -> [armed : 1..MaxEdits, text : Texts] \cup {NoTimer}]
    /\ saves \in Seq([widget : Notes, text : Texts])
    /\ loads \subseteq 1..made
    /\ edits \in 0..MaxEdits /\ fails \in 0..MaxFails /\ others \in 0..MaxOthers
    /\ typed \in [Pads -> Texts \cup {NoText}]
    /\ latest \in [Notes -> Texts \cup {NoText}] /\ kept \in [Notes -> Texts \cup {NoText}]
    /\ refused \subseteq Notes /\ unread \subseteq Notes

\* A version names one text for good as long as the record could be read, which is what the expected version of a
\* conditional write relies on: a client that still holds the current version
\* holds the current text, so its write covers nothing it has not read.
VersionNamesText ==
    \A w \in Notes \ unread :
        peer[w].version = file[w].version => peer[w].text = file[w].text

\* No edit is lost: neither a load that is slower than the operator nor a
\* render with another seed replaces what was typed; when no timer is armed
\* and no save is under way, the last text a pad put into a widget's state is
\* the last one typed for it, whatever pauses, tab switches and new elements
\* came in between, but for a save that was refused; and no conditional write
\* of another client covers a text that client has not read.
EditsKept ==
    /\ \A p \in Pads : pad[p].dirty => pad[p].text = typed[p]
    /\ (\A p \in Pads : ~ Armed(p)) /\ saves = <<>> =>
           \A w \in Notes : w \in refused \/ kept[w] = latest[w]
    /\ VersionNamesText

\* What was typed reaches the store, or the store refused a save.
EditsLand ==
    \A w \in Notes, text \in Texts :
        latest[w] = text ~> kept[w] = text \/ latest[w] # text \/ w \in refused

\* What the view says of the accessor it hands a notes widget: bound to that
\* widget's own id, so that it reads and writes its own state only
\* (boardstate-view.ts).
OwnStateOnly == Showing => pad[cell.pad].widget = cell.widget
=============================================================================
