------------------------------ MODULE HalfGates -----------------------------
(***************************************************************************)
(* Bit<Role::Garbler> and Bit<Role::Evaluator> (Bit.cpp): Alice garbles a  *)
(* circuit operation by operation with the half-gates technique, appends   *)
(* two rows per AND to material_buffer, fills the output decoding table    *)
(* for the wires she reveals, and hands everything over; then Bob runs     *)
(* the same operations on one label per wire, and decodes.                 *)
(*                                                                         *)
(* Both parties run the same operations in the same order: they execute    *)
(* the same program text.  Alice's part of an operation never looks at the *)
(* bit of an "ein" input, nor Bob's at the bit of a "gin" input.           *)
(***************************************************************************)
EXTENDS Labels, Sequences

CONSTANTS Draws,    \* labels the label generator SGC::prg may return
          MaxOps,   \* bound on the operations of a circuit
          MaxOut,   \* MaxOut[k]: bound on the wires revealed of k operations
          Slots     \* outputs per entry of the decoding table: 128 / 2

ASSUME DrawsAssumption == Draws \subseteq Label
ASSUME BoundsAssumption == MaxOps \in Nat /\ MaxOut \in [0 .. MaxOps -> Nat]
ASSUME SlotsAssumption == Slots \in Nat \ {0}

VARIABLES
  phase,                   \* "garble", "reveal", "evaluate", "done"
  key, delta,              \* the PRF key, and Alice's offset
  program, clear,          \* the circuit, and its cleartext values
  gb, ev,                  \* the garbler's and the evaluator's bit of each wire
  material_buffer,         \* SGC::material_buffer
  gb_material_id, ev_material_id,
  garbler_inputs, garbler_input_idx,
  evaluator_inputs_false, evaluator_inputs_true,   \* Alice's pairs
  choice_bits,                                     \* Bob's input bits, in order
  evaluator_inputs, evaluator_input_idx,           \* what Bob obtained by OT
  outputs, output_decoding_table,
  ev_output_wire_idx, result_bits,
  counters                 \* history: Alice's counters after each operation

circuitVars == <<program, clear, gb, counters>>
inputVars == <<garbler_inputs, evaluator_inputs_false, evaluator_inputs_true,
               choice_bits>>
tableVars == <<outputs, output_decoding_table>>
evVars == <<ev, ev_material_id, garbler_input_idx, evaluator_inputs,
            evaluator_input_idx, ev_output_wire_idx, result_bits>>
vars == <<phase, key, delta, circuitVars, material_buffer, gb_material_id,
          inputVars, tableVars, evVars>>

\* The abstract promise, over the circuit and the results
ABS == INSTANCE Ideal

Bit == [wire : Label, isConstant : BOOLEAN]
MkBit(w, c) == [wire |-> w, isConstant |-> c]

\* One entry of the output decoding table: two bits per output
TableEntry == [0 .. 2 * Slots - 1 -> BOOLEAN]

H(w, id) == HashHalfGates(key, w, id)
-----------------------------------------------------------------------------
(* The garbler *)

GbConstantBit(b) == MkBit(IF b THEN delta ELSE ZeroLabel, TRUE)

\* The early returns of operator& when an operand is a constant
GbShortAnd(a, b) ==
  CASE a.isConstant /\ b.isConstant -> MkBit(a.wire \cap b.wire, TRUE)
    [] a.isConstant /\ ~ b.isConstant ->
         IF a.wire = ZeroLabel THEN GbConstantBit(FALSE) ELSE b
    [] ~ a.isConstant -> IF b.wire = ZeroLabel THEN GbConstantBit(FALSE) ELSE a

\* The two garbled rows of an AND, for nonces n and n + 1
RowG(a, b, n) ==
  LET h == Xor(H(a, n), H(Xor(a, delta), n))
  IN  IF Color(b) THEN Xor(h, delta) ELSE h

\* Mutant: the second row is not corrected by the left operand's label
RowE_noLabel(a, b, n) == Xor(H(b, n + 1), H(Xor(b, delta), n + 1))

RowE(a, b, n) == Xor(Xor(H(b, n + 1), H(Xor(b, delta), n + 1)), a)

\* The half that each party computes from a label and the two rows: on Alice's
\* side with the labels for FALSE, on Bob's side with the labels he holds
HalfAnd(a, b, rowG, rowE, n) ==
  LET g == IF Color(a) THEN Xor(H(a, n), rowG) ELSE H(a, n)
      e == IF Color(b) THEN Xor(Xor(H(b, n + 1), rowE), a) ELSE H(b, n + 1)
  IN  Xor(g, e)

\* Alice runs operation o, which yields the bit b
GbEmit(o, b) ==
  /\ phase = "garble"
  /\ Len(program) < MaxOps
  /\ program' = Append(program, o)
  /\ clear' = Append(clear, ABS!ClearValue(o, clear))
  /\ gb' = Append(gb, b)
  /\ counters' = Append(counters, [material |-> gb_material_id',
                                   gin |-> Len(garbler_inputs'),
                                   ein |-> Len(evaluator_inputs_false')])
  /\ UNCHANGED <<phase, key, delta, tableVars, evVars>>

GbLocal(o, b) ==
  /\ UNCHANGED <<material_buffer, gb_material_id, inputVars>>
  /\ GbEmit(o, b)

Operation(kind, l, r, v) == [op |-> kind, l |-> l, r |-> r, v |-> v]

\* Bit<Garbler>(true, GARBLER, v): the right label goes to garbler_inputs
GbInput ==
  \E v \in BOOLEAN, w \in Draws :
    /\ garbler_inputs' = Append(garbler_inputs, Find_Wire(w, v, delta))
    /\ UNCHANGED <<evaluator_inputs_false, evaluator_inputs_true, choice_bits,
                   material_buffer, gb_material_id>>
    /\ GbEmit(Operation("gin", 0, 0, v), MkBit(w, FALSE))

\* Bit<Garbler>(true, EVALUATOR): both labels wait for the oblivious transfer
GbEvaluatorInput ==
  \E v \in BOOLEAN, w \in Draws :
    /\ evaluator_inputs_false' = Append(evaluator_inputs_false, w)
    /\ evaluator_inputs_true' = Append(evaluator_inputs_true, Xor(w, delta))
    /\ choice_bits' = Append(choice_bits, v)
    /\ UNCHANGED <<garbler_inputs, material_buffer, gb_material_id>>
    /\ GbEmit(Operation("ein", 0, 0, v), MkBit(w, FALSE))

GbConstant == \E v \in BOOLEAN :
                GbLocal(Operation("const", 0, 0, v), GbConstantBit(v))

GbAndConstant ==
  \E l, r \in 1 .. Len(gb) :
    /\ gb[l].isConstant \/ gb[r].isConstant
    /\ GbLocal(Operation("and", l, r, FALSE), GbShortAnd(gb[l], gb[r]))

\* operator&: push two rows, then read them back at material_id
GbAnd ==
  \E l, r \in 1 .. Len(gb) :
    LET a == gb[l].wire
        b == gb[r].wire
        n == gb_material_id
    IN  /\ ~ gb[l].isConstant /\ ~ gb[r].isConstant
        /\ material_buffer' = material_buffer \o <<RowG(a, b, n), RowE(a, b, n)>>
        /\ gb_material_id' = n + 2
        /\ UNCHANGED inputVars
        /\ GbEmit(Operation("and", l, r, FALSE),
                  MkBit(HalfAnd(a, b, material_buffer'[n + 1],
                                material_buffer'[n + 2], n), FALSE))

GbXor ==
  \E l, r \in 1 .. Len(gb) :
    GbLocal(Operation("xor", l, r, FALSE),
            MkBit(Xor(gb[l].wire, gb[r].wire), gb[l].isConstant /\ gb[r].isConstant))

GbNot ==
  \E l \in 1 .. Len(gb) :
    GbLocal(Operation("not", l, 0, FALSE),
            MkBit(Xor(gb[l].wire, delta), gb[l].isConstant))

\* operator==(Bit, bool).  The result is never a constant, while Bob's keeps
\* the flag of its operand: the callers compare register bits, which are not
\* constants, and the guard says so.
GbEq ==
  \E l \in 1 .. Len(gb), v \in BOOLEAN :
    /\ ~ gb[l].isConstant
    /\ GbLocal(Operation("eqb", l, 0, v),
               MkBit(IF v THEN gb[l].wire ELSE Xor(gb[l].wire, delta), FALSE))

\* Mutant: one bit per output instead of two
OutputBit_single(n) == n % Slots

\* bitset_idx: where output n starts in its entry of the table
OutputBit(n) == 2 * (n % Slots)

(***************************************************************************)
(* Bit<Garbler>::Reveal.  Output number n takes the two bits from          *)
(* 2 * (n % Slots) on of entry n / Slots, the first for the label of       *)
(* colour 0.  Register bits are revealed, which are not constants.         *)
(***************************************************************************)
OutputRows(w, n) ==
  LET row0 == Color(H(w, n))
      row1 == ~ Color(H(Xor(w, delta), n))
  IN  IF ~ Color(w) THEN <<row0, row1>> ELSE <<row1, row0>>

GbReveal ==
  \E i \in 1 .. Len(gb) :
    LET n == Len(outputs)
        table_idx == n \div Slots
        bitset_idx == OutputBit(n)
        table == IF n % Slots = 0
                 THEN Append(output_decoding_table, [p \in 0 .. 2 * Slots - 1 |-> FALSE])
                 ELSE output_decoding_table
        rows == OutputRows(gb[i].wire, n)
    IN  /\ phase \in {"garble", "reveal"}
        /\ n < MaxOut[Len(program)]
        /\ ~ gb[i].isConstant
        /\ phase' = "reveal"
        /\ outputs' = Append(outputs, i)
        /\ output_decoding_table' =
             [table EXCEPT ![table_idx + 1] =
                [@ EXCEPT ![bitset_idx] = rows[1], ![bitset_idx + 1] = rows[2]]]
        /\ UNCHANGED <<key, delta, circuitVars, material_buffer, gb_material_id,
                       inputVars, evVars>>
-----------------------------------------------------------------------------
(* The hand-over: material, garbler's labels, decoding table, and one label *)
(* of each pair by oblivious transfer.  Bob's choices are his input bits.   *)

Transfer ==
  /\ phase \in {"garble", "reveal"}
  /\ phase' = "evaluate"
  /\ evaluator_inputs' =
       [i \in 1 .. Len(evaluator_inputs_false) |->
          IF choice_bits[i] THEN evaluator_inputs_true[i] ELSE evaluator_inputs_false[i]]
  /\ UNCHANGED <<key, delta, circuitVars, material_buffer, gb_material_id,
                 inputVars, tableVars, ev, ev_material_id, garbler_input_idx,
                 evaluator_input_idx, ev_output_wire_idx, result_bits>>
-----------------------------------------------------------------------------
(* The evaluator *)

EvConstantBit(b) == MkBit(IF b THEN OneLabel ELSE ZeroLabel, TRUE)

EvShortAnd(a, b) ==
  CASE a.isConstant /\ b.isConstant -> MkBit(a.wire \cap b.wire, TRUE)
    [] a.isConstant /\ ~ b.isConstant ->
         IF a.wire = ZeroLabel THEN EvConstantBit(FALSE) ELSE b
    [] ~ a.isConstant -> IF b.wire = ZeroLabel THEN EvConstantBit(FALSE) ELSE a

EvXorBit(a, b) ==
  CASE a.isConstant /\ ~ b.isConstant -> b
    [] ~ a.isConstant /\ b.isConstant -> a
    [] a.isConstant = b.isConstant -> MkBit(Xor(a.wire, b.wire), a.isConstant)

EvNotBit(a) == IF a.isConstant THEN EvConstantBit(~ Color(a.wire)) ELSE a

\* Bob's next operation, of one of the given kinds
Current(kinds) == /\ phase = "evaluate"
                  /\ Len(ev) < Len(program)
                  /\ program[Len(ev) + 1].op \in kinds
Op == program[Len(ev) + 1]

EvEmit(b) ==
  /\ ev' = Append(ev, b)
  /\ UNCHANGED <<phase, key, delta, circuitVars, material_buffer, gb_material_id,
                 inputVars, tableVars, evaluator_inputs, ev_output_wire_idx, result_bits>>

EvGarblerInput ==
  /\ Current({"gin"})
  /\ garbler_input_idx < Len(garbler_inputs)
  /\ garbler_input_idx' = garbler_input_idx + 1
  /\ UNCHANGED <<ev_material_id, evaluator_input_idx>>
  /\ EvEmit(MkBit(garbler_inputs[garbler_input_idx + 1], FALSE))

EvEvaluatorInput ==
  /\ Current({"ein"})
  /\ evaluator_input_idx < Len(evaluator_inputs)
  /\ evaluator_input_idx' = evaluator_input_idx + 1
  /\ UNCHANGED <<ev_material_id, garbler_input_idx>>
  /\ EvEmit(MkBit(evaluator_inputs[evaluator_input_idx + 1], FALSE))

EvLocal(b) == /\ UNCHANGED <<ev_material_id, garbler_input_idx, evaluator_input_idx>>
              /\ EvEmit(b)

EvConstant == Current({"const"}) /\ EvLocal(EvConstantBit(Op.v))

\* Mutant: the early return is taken after material_id was advanced
EvAndConstant_consumes == /\ Current({"and"})
                          /\ ev[Op.l].isConstant \/ ev[Op.r].isConstant
                          /\ ev_material_id' = ev_material_id + 2
                          /\ UNCHANGED <<garbler_input_idx, evaluator_input_idx>>
                          /\ EvEmit(EvShortAnd(ev[Op.l], ev[Op.r]))

EvAndConstant == /\ Current({"and"})
                 /\ ev[Op.l].isConstant \/ ev[Op.r].isConstant
                 /\ EvLocal(EvShortAnd(ev[Op.l], ev[Op.r]))

\* Reading past the end of the material is undefined: Bob has no such step
EvAnd ==
  /\ Current({"and"})
  /\ ~ ev[Op.l].isConstant /\ ~ ev[Op.r].isConstant
  /\ ev_material_id + 2 <= Len(material_buffer)
  /\ ev_material_id' = ev_material_id + 2
  /\ UNCHANGED <<garbler_input_idx, evaluator_input_idx>>
  /\ EvEmit(MkBit(HalfAnd(ev[Op.l].wire, ev[Op.r].wire,
                          material_buffer[ev_material_id + 1],
                          material_buffer[ev_material_id + 2],
                          ev_material_id), FALSE))

EvXor == Current({"xor"}) /\ EvLocal(EvXorBit(ev[Op.l], ev[Op.r]))
EvNot == Current({"not"}) /\ EvLocal(EvNotBit(ev[Op.l]))
EvEq  == Current({"eqb"}) /\ EvLocal(ev[Op.l])

\* Bit<Evaluator>::Reveal: the entry for the colour of the label he holds
EvReveal ==
  LET n == ev_output_wire_idx
      w == ev[outputs[n + 1]].wire
      entry == output_decoding_table[(n \div Slots) + 1]
      row == entry[OutputBit(n) + IF Color(w) THEN 1 ELSE 0]
  IN  /\ phase = "evaluate"
      /\ Len(ev) = Len(program)
      /\ n < Len(outputs)
      /\ result_bits' = Append(result_bits, row # Color(H(w, n)))
      /\ ev_output_wire_idx' = n + 1
      /\ UNCHANGED <<phase, key, delta, circuitVars, material_buffer, gb_material_id,
                     inputVars, tableVars, ev, ev_material_id, garbler_input_idx,
                     evaluator_inputs, evaluator_input_idx>>

\* Mutant: Bob starts decoding again instead of leaving
EvFinish_again ==
  /\ phase = "evaluate"
  /\ Len(ev) = Len(program)
  /\ ev_output_wire_idx = Len(outputs)
  /\ ev_output_wire_idx' = 0
  /\ result_bits' = <<>>
  /\ UNCHANGED <<phase, key, delta, circuitVars, material_buffer, gb_material_id,
                 inputVars, tableVars, ev, ev_material_id, garbler_input_idx,
                 evaluator_inputs, evaluator_input_idx>>

EvFinish ==
  /\ phase = "evaluate"
  /\ Len(ev) = Len(program)
  /\ ev_output_wire_idx = Len(outputs)
  /\ phase' = "done"
  /\ UNCHANGED <<key, delta, circuitVars, material_buffer, gb_material_id,
                 inputVars, tableVars, evVars>>
-----------------------------------------------------------------------------
Init ==
  /\ phase = "garble"
  /\ key \in Keys
  /\ delta \in { d \in Label : Color(d) }
  /\ program = <<>> /\ clear = <<>> /\ gb = <<>> /\ ev = <<>> /\ counters = <<>>
  /\ material_buffer = <<>> /\ gb_material_id = 0 /\ ev_material_id = 0
  /\ garbler_inputs = <<>> /\ garbler_input_idx = 0
  /\ evaluator_inputs_false = <<>> /\ evaluator_inputs_true = <<>>
  /\ choice_bits = <<>> /\ evaluator_inputs = <<>> /\ evaluator_input_idx = 0
  /\ outputs = <<>> /\ output_decoding_table = <<>>
  /\ ev_output_wire_idx = 0 /\ result_bits = <<>>

Garble == \/ GbInput \/ GbEvaluatorInput \/ GbConstant \/ GbAndConstant \/ GbAnd
          \/ GbXor \/ GbNot \/ GbEq

Evaluate == \/ EvGarblerInput \/ EvEvaluatorInput \/ EvConstant \/ EvAndConstant
            \/ EvAnd \/ EvXor \/ EvNot \/ EvEq \/ EvReveal \/ EvFinish

\* Bob's process exits when he has printed the results
Terminated == phase = "done" /\ UNCHANGED vars

Next == Garble \/ GbReveal \/ Transfer \/ Evaluate \/ Terminated

Spec == Init /\ [][Next]_vars

\* Bob runs to the end once he has everything: his loop has no other wait
FairSpec == Spec /\ WF_vars(Evaluate)
-----------------------------------------------------------------------------
(* Properties *)

Counter == [material : Nat, gin : Nat, ein : Nat]

\* Every variable has its type
TypeOK ==
  /\ phase \in {"garble", "reveal", "evaluate", "done"}
  /\ key \in Keys /\ delta \in Label
  /\ program \in Seq(ABS!Operation)
  /\ \A i \in 1 .. Len(program) : ABS!WellFormed(program[i], i - 1)
  /\ \A s \in {clear, choice_bits, result_bits} : s \in Seq(BOOLEAN)
  /\ gb \in Seq(Bit) /\ ev \in Seq(Bit)
  /\ counters \in Seq(Counter)
  /\ \A s \in {material_buffer, garbler_inputs, evaluator_inputs_false,
               evaluator_inputs_true, evaluator_inputs} : s \in Seq(Label)
  /\ \A n \in {gb_material_id, ev_material_id, garbler_input_idx,
               evaluator_input_idx, ev_output_wire_idx} : n \in Nat
  /\ outputs \in Seq(1 .. Len(program))
  /\ output_decoding_table \in Seq(TableEntry)

(***************************************************************************)
(* The invariant of garbling (Bit.cpp): for every wire Bob has computed,   *)
(* he holds Alice's label for FALSE shifted by the offset exactly when the *)
(* cleartext bit is TRUE; for a wire both treat as a constant he holds the *)
(* public bit itself; and both agree which wires are constants, so that    *)
(* they take the same early returns of operator&.                          *)
(***************************************************************************)
Encodes(i) ==
  /\ ev[i].isConstant = gb[i].isConstant
  /\ IF gb[i].isConstant
     THEN /\ gb[i].wire = IF clear[i] THEN delta ELSE ZeroLabel
          /\ ev[i].wire = IF clear[i] THEN OneLabel ELSE ZeroLabel
     ELSE ev[i].wire = Find_Wire(gb[i].wire, clear[i], delta)

LabelsEncode == \A i \in 1 .. Len(ev) : Encodes(i)

(***************************************************************************)
(* Position counters (Const.cpp).  Alice indexes material_buffer with      *)
(* material_id although she fills it by push_back, so the two must never   *)
(* drift apart; and after each operation Bob's counters of material and of *)
(* inputs stand where Alice's stood after the same operation.              *)
(***************************************************************************)
CountersAligned ==
  /\ Len(material_buffer) = gb_material_id
  /\ Len(ev) > 0 =>
       counters[Len(ev)] = [material |-> ev_material_id,
                            gin |-> garbler_input_idx,
                            ein |-> evaluator_input_idx]

\* A run of the two parties is a run of the ideal evaluation: garbling adds
\* nothing but representation, and what Bob decodes with the output table are
\* the cleartext values of the wires revealed, in the order of Reveal (Bit.cpp)
ImplementsIdeal == ABS!Spec

\* Once everything is handed over Bob finishes: he never runs out of material,
\* inputs or decoding table (setup_evaluator sizes them from Alice's counts)
EvaluationCompletes == (phase = "evaluate") ~> (phase = "done")
=============================================================================
