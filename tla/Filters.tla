------------------------------- MODULE Filters -------------------------------
(***************************************************************************)
(* Array.prototype.filter.  SelectSeq does the same, but its definition is  *)
(* closed to the provers.                                                   *)
(***************************************************************************)
EXTENDS Naturals, Sequences

\* What is not in gone stays, in its order.
Without(s, gone) ==
  LET left[n \in 0..Len(s)] ==
        IF n = 0 THEN << >>
        ELSE IF s[n] \in gone THEN left[n - 1] ELSE Append(left[n - 1], s[n])
  IN  left[Len(s)]
=============================================================================
