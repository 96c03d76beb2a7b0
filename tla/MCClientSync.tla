---------------------------- MODULE MCClientSync ----------------------------
(* Small instances of ClientSync for TLC. *)
EXTENDS ClientSync, TLC

CONSTANTS c1, c2, s1, s2

AllKinds    == OpKinds
CommitKinds == OpKinds \ {"undo"}
EditUndo    == {"edit", "undo"}

Symmetry == Permutations(Clients) \cup Permutations(Slots)
=============================================================================
