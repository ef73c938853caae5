--------------------------------- MODULE Lists ---------------------------------
(***************************************************************************)
(* A list comprehension with a condition: the elements of s at the places  *)
(* I, in their order.  It is a recursive function because what it keeps is *)
(* shown by induction over the places it has come to.                      *)
(***************************************************************************)
EXTENDS Integers, Sequences

Sift(s, I) ==
    LET f[i \in 0..Len(s)] ==
            IF i = 0 THEN <<>> ELSE IF i \in I THEN Append(f[i - 1], s[i]) ELSE f[i - 1]
    IN  f[Len(s)]
=============================================================================
