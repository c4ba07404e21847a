---------------------------- MODULE MC_HandOver -----------------------------
(***************************************************************************)
(* TLC instances of HandOver.  The sizes have the shape of the program's:  *)
(* gbytes, the third vector, is always empty (only dec(Byte) adds to it,   *)
(* and only tests call that), and the material follows it at once.  The    *)
(* first vector leaves its last chunk short, the second and the fourth     *)
(* leave one empty.  The memory is decoded into bits or is not: a scan of  *)
(* a small one sends none.                                                 *)
(***************************************************************************)
EXTENDS HandOver

MCSizes == <<5, 4, 0, 4>>

MCCounts ==
  { [gram_bits |-> 2, garbler_inputs |-> 1, evaluator_inputs |-> 2, outputs |-> 1],
    [gram_bits |-> 1, garbler_inputs |-> 0, evaluator_inputs |-> 0, outputs |-> 2],
    [gram_bits |-> 0, garbler_inputs |-> 1, evaluator_inputs |-> 0, outputs |-> 1] }
=============================================================================
