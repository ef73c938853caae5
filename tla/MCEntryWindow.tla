---------------------------- MODULE MCEntryWindow ----------------------------
(* Model-checking instances of EntryWindow. *)
EXTENDS EntryWindow, TLC

Symmetry == Permutations(Sides)
=============================================================================
