-------------------------------- MODULE Retain --------------------------------
(***************************************************************************)
(* What Vec::retain and Iterator::filter leave of a sequence.  (A function *)
(* of the position, unlike SelectSeq: provers can unfold it.)              *)
(***************************************************************************)
EXTENDS Naturals, Sequences

\* What is left of the first n elements, for every n: the members of S, in their order.
Retained(s, S) ==
  LET kept[n \in 0..Len(s)] ==
        IF n = 0 THEN <<>>
        ELSE IF s[n] \in S THEN Append(kept[n - 1], s[n]) ELSE kept[n - 1]
  IN  kept

Retain(s, S) == Retained(s, S)[Len(s)]
=============================================================================
