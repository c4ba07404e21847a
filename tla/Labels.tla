------------------------------- MODULE Labels -------------------------------
(***************************************************************************)
(* Wire labels of the garbled circuit.  A KappaBitString (BasicType.h) is  *)
(* a std::bitset<128>; here it is the set of the positions that hold a 1,  *)
(* over a parametric width KAPPA.  Exclusive or is symmetric difference,   *)
(* and the colour of a label (point and permute) is its bit 0.             *)
(*                                                                         *)
(* The fixed-key PRF is an arbitrary function of the key and the input:    *)
(* what is stated about garbling holds whatever the PRF computes.          *)
(***************************************************************************)
EXTENDS Integers

CONSTANTS KAPPA,   \* width of a label: 128 in the code
          Keys,    \* keys of the PRF
          Prf      \* Prf[key][input]: SGC::prf

Kappa == 0 .. KAPPA - 1
Label == SUBSET Kappa
ZeroLabel == {}

ASSUME KappaAssumption == KAPPA \in Nat \ {0}
ASSUME PrfAssumption == Prf \in [Keys -> [Label -> Label]]

\* bitset operator^
Xor(a, b) == (a \ b) \cup (b \ a)

\* static_cast<bool>(wire[0])
Color(w) == 0 \in w

\* Mutant: the public 1 is written one position past the last
OneLabel_pastEnd == {KAPPA}

\* bitset<128>{1}: the label Bit<Evaluator>::constant(1) holds
OneLabel == {0}

\* w << 1 drops the top bit
ShiftLeft1(w) == { i \in Kappa : i - 1 \in w }

\* bitset<128>{id}: the binary digits of a nonce
Nonce(id) == { i \in Kappa : (id \div 2^i) % 2 = 1 }

HashHalfGates(key, w, id) ==
  LET aes_inp == Xor(ShiftLeft1(w), Nonce(id))
  IN  Xor(Prf[key][aes_inp], aes_inp)

\* The label of a wire for the truth value "choose", from its label for FALSE
Find_Wire(wire, choose, delta) == IF choose THEN Xor(wire, delta) ELSE wire
=============================================================================
