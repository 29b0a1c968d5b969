----------------------------- MODULE MCPublisher -----------------------------
(* Publisher on a small instance: one tick stands for one minute. *)
EXTENDS Publisher, TLC

CONSTANTS p1, p2, o1, o2, r1, r2, h1, h2

MCSymmetry == Permutations({p1, p2}) \cup Permutations({r1, r2})
                \cup Permutations({h1, h2}) \cup Permutations({o1, o2})
=============================================================================
