----------------------------- MODULE UndoStack -----------------------------
(***************************************************************************)
(* What the store promises its callers: one document that changes in whole *)
(* steps, and a bounded stack of the documents earlier commits replaced.   *)
(* No files, no lock, no intermediate writes.                              *)
(***************************************************************************)
EXTENDS Naturals, Sequences

CONSTANTS Depth,    \* how many commits can be undone
          Initial   \* the document of a fresh workspace

VARIABLES doc, past

vars == <<doc, past>>

Init == doc = Initial /\ past = <<>>

\* A mutation: the next version, the replaced document pushed.
Commit ==
  /\ Len(past) < Depth
  /\ past' = Append(past, doc)
  /\ doc'.workspaceVersion = doc.workspaceVersion + 1

\* The oldest document is given up to make room.
Forget ==
  /\ Len(past) = Depth
  /\ past' = Tail(past)
  /\ UNCHANGED doc

\* Undo: exactly the document the latest commit still on the stack replaced.
Undo ==
  /\ past # <<>>
  /\ doc' = past[Len(past)]
  /\ past' = SubSeq(past, 1, Len(past) - 1)

Next == Commit \/ Forget \/ Undo

Spec == Init /\ [][Next]_vars
=============================================================================
