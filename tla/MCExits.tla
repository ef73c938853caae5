------------------------------- MODULE MCExits -------------------------------
(* Model-checking instance of Exits: one young position and one near its end,
   profits in thousandths of the credit. *)
EXTENDS Exits

MCOpenFor == [p \in Pos |-> IF p = 1 THEN 0 ELSE Oldest]
MCMarks == {-760, 252, 256, 360, 700}
MCFills == {-760, 256}
MCEmergency == -550
=============================================================================
