------------------------------ MODULE Subsequences -----------------------------
(***************************************************************************)
(* What is left of a sequence where some of its elements are dropped.      *)
(* SelectSeq takes an operator, of which nothing can be proved; this takes *)
(* the set of the places that stay.                                        *)
(***************************************************************************)
EXTENDS Integers, Sequences

AtPlaces(s, P) ==
  LET kept[n \in 0..Len(s)] ==
        IF n = 0 THEN <<>>
        ELSE IF n \in P THEN Append(kept[n - 1], s[n]) ELSE kept[n - 1]
  IN kept[Len(s)]
=============================================================================
