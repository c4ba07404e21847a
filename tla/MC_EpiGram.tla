------------------------------ MODULE MC_EpiGram ----------------------------
(* TLC instances of EpiGram. *)
EXTENDS EpiGram

Sizes == {1, 2, 4, 8, 16, 32}

(***************************************************************************)
(* Eight words as a linear scan; over an index map that is a linear scan   *)
(* of eight; and over an index map of four words, over a linear scan of    *)
(* four.  A level of n words is flushed by the access after n accesses:    *)
(* few accesses under all combinations of permutations, and enough for     *)
(* the flush of both levels, under one, to a word or two.                  *)
(***************************************************************************)
Bound(s, o, i, a) ==
  [scan |-> s, orders |-> o, indices |-> i, accesses |-> a]

MC_Bounds ==
  { Bound(0, {}, Index, 3),
    Bound(1, Orders, Index, 2),
    Bound(1, {"affine"}, {5}, 9),
    Bound(2, {"affine"}, Index, 3),
    Bound(2, Orders, {3, 6}, 5),
    Bound(2, Orders, {6}, 9) }

\* A reversal, and j -> 3j + 1, which is a permutation as all sizes are powers of two
MC_Order ==
  [o \in Orders |->
     [s \in Sizes |-> [j \in 0 .. s - 1 |->
        IF o = "reverse" THEN s - 1 - j ELSE (3 * j + 1) % s]]]
=============================================================================
