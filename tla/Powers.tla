------------------------------- MODULE Powers -------------------------------
(***************************************************************************)
(* Powers of two, as a recursive function, which unlike 2^n can be         *)
(* unfolded in proofs.                                                     *)
(***************************************************************************)
EXTENDS Naturals

PowerOf2[n \in Nat] == IF n = 0 THEN 1 ELSE 2 * PowerOf2[n - 1]
=============================================================================
