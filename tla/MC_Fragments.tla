----------------------------- MODULE MC_Fragments ---------------------------
(* Registers of three bits: two ordinary positions and a sign *)
EXTENDS Fragments

(* Zero, a positive number, the most negative one, and one wider than a word *)
MC_Immediates == {0, 3, 4, 9}
=============================================================================
