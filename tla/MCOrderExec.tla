----------------------------- MODULE MCOrderExec -----------------------------
(* Model-checking instances of OrderExec. *)
EXTENDS OrderExec, TLC

Symmetry == Permutations(Oid) \cup Permutations(Key)
=============================================================================
