-------------------------- MODULE MCOperatorControl --------------------------
(* Model-checking instances of OperatorControl. *)
EXTENDS OperatorControl, TLC

Symmetry == Permutations(Pos) \cup Permutations(Key)
=============================================================================
