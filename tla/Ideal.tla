-------------------------------- MODULE Ideal -------------------------------
(***************************************************************************)
(* What a run of the two parties promises, with no cryptography: a circuit *)
(* is fixed operation by operation, every operation has the value that     *)
(* Bit<Role::Cleartext> computes for it, and the results handed to Bob are *)
(* the values of the wires that were revealed, in the order of Reveal().   *)
(*                                                                         *)
(* A circuit is in single-assignment form: C++ Bit objects are values, so  *)
(* operation number i of "program" defines wire number i, and its operands *)
(* are earlier wires.                                                      *)
(***************************************************************************)
EXTENDS Integers, Sequences

VARIABLES program,     \* the operations performed, in order
          clear,       \* clear[i]: the cleartext value of wire i
          outputs,     \* the wires revealed, in order
          result_bits  \* what Bob has decoded so far

idealVars == <<program, clear, outputs, result_bits>>

(***************************************************************************)
(* Operations.  "gin" and "ein" are input bits owned by the garbler and by *)
(* the evaluator, "eqb" is operator==(Bit, bool).                          *)
(***************************************************************************)
Kinds == {"gin", "ein", "const", "and", "xor", "not", "eqb"}

\* An operation: its operands, and the bit an input, a constant or operator== carries
Operation == [op : Kinds, l : Nat, r : Nat, v : BOOLEAN]

\* The operands used are wires of a circuit of n operations
WellFormed(o, n) ==
  /\ o.op \in {"and", "xor", "not", "eqb"} => o.l \in 1 .. n
  /\ o.op \in {"and", "xor"} => o.r \in 1 .. n

\* Bit<Role::Cleartext>: the value of an operation over the values of its operands
ClearValue(o, val) ==
  CASE o.op \in {"gin", "ein", "const"} -> o.v
    [] o.op = "and" -> val[o.l] /\ val[o.r]
    [] o.op = "xor" -> val[o.l] # val[o.r]
    [] o.op = "not" -> ~ val[o.l]
    [] o.op = "eqb" -> val[o.l] = o.v

Init == /\ program = <<>>
        /\ clear = <<>>
        /\ outputs = <<>>
        /\ result_bits = <<>>

Extend == \E k \in Kinds, l, r \in 0 .. Len(program), v \in BOOLEAN :
            LET o == [op |-> k, l |-> l, r |-> r, v |-> v]
            IN  /\ WellFormed(o, Len(program))
                /\ program' = Append(program, o)
                /\ clear' = Append(clear, ClearValue(o, clear))
                /\ UNCHANGED <<outputs, result_bits>>

Choose == \E i \in 1 .. Len(program) :
            /\ outputs' = Append(outputs, i)
            /\ UNCHANGED <<program, clear, result_bits>>

Deliver == /\ Len(result_bits) < Len(outputs)
           /\ result_bits' = Append(result_bits, clear[outputs[Len(result_bits) + 1]])
           /\ UNCHANGED <<program, clear, outputs>>

Next == Extend \/ Choose \/ Deliver

Spec == Init /\ [][Next]_idealVars
=============================================================================
