------------------------- MODULE HalfGatesInvariant -------------------------
(***************************************************************************)
(* The inductive invariant of HalfGates.  Its first part is what Alice     *)
(* leaves behind: for each operation its wire, the rows or labels she put  *)
(* aside for it, and how far her counters moved.  No step of Bob matters   *)
(* for it, and with it each of his steps repeats hers.                     *)
(***************************************************************************)
EXTENDS HalfGates

\* Alice's counters before operation i
Before(i) == IF i = 1 THEN [material |-> 0, gin |-> 0, ein |-> 0] ELSE counters[i - 1]

LeftForGarblerInput(i) ==
  /\ ~ gb[i].isConstant
  /\ counters[i] = [Before(i) EXCEPT !.gin = @ + 1]
  /\ counters[i].gin \in 1 .. Len(garbler_inputs)
  /\ garbler_inputs[counters[i].gin] = Find_Wire(gb[i].wire, clear[i], delta)

LeftForEvaluatorInput(i) ==
  LET k == counters[i].ein
  IN  /\ ~ gb[i].isConstant
      /\ counters[i] = [Before(i) EXCEPT !.ein = @ + 1]
      /\ k \in 1 .. Len(evaluator_inputs_false)
      /\ evaluator_inputs_false[k] = gb[i].wire
      /\ evaluator_inputs_true[k] = Xor(gb[i].wire, delta)
      /\ choice_bits[k] = clear[i]

LeftForAnd(i) ==
  LET a == gb[program[i].l]
      b == gb[program[i].r]
      n == Before(i).material
      rg == RowG(a.wire, b.wire, n)
      re == RowE(a.wire, b.wire, n)
  IN  IF a.isConstant \/ b.isConstant
      THEN /\ counters[i] = Before(i)
           /\ gb[i] = GbShortAnd(a, b)
      ELSE /\ counters[i] = [Before(i) EXCEPT !.material = @ + 2]
           /\ n + 2 <= Len(material_buffer)
           /\ material_buffer[n + 1] = rg
           /\ material_buffer[n + 2] = re
           /\ gb[i] = MkBit(HalfAnd(a.wire, b.wire, rg, re, n), FALSE)

LeftForOther(i) ==
  LET o == program[i]
      a == gb[o.l]
      b == gb[o.r]
  IN  /\ counters[i] = Before(i)
      /\ o.op = "const" => gb[i] = GbConstantBit(o.v)
      /\ o.op = "xor" => gb[i] = MkBit(Xor(a.wire, b.wire), a.isConstant /\ b.isConstant)
      /\ o.op = "not" => gb[i] = MkBit(Xor(a.wire, delta), a.isConstant)
      /\ o.op = "eqb" => /\ ~ a.isConstant
                         /\ gb[i] = MkBit(IF o.v THEN a.wire ELSE Xor(a.wire, delta), FALSE)

LeftFor(i) ==
  CASE program[i].op = "gin" -> LeftForGarblerInput(i)
    [] program[i].op = "ein" -> LeftForEvaluatorInput(i)
    [] program[i].op = "and" -> LeftForAnd(i)
    [] OTHER -> LeftForOther(i)

Garbled(i) ==
  /\ clear[i] = ABS!ClearValue(program[i], clear)
  /\ gb[i].isConstant => gb[i].wire = IF clear[i] THEN delta ELSE ZeroLabel
  /\ LeftFor(i)

\* What Alice has garbled so far, and where her counters stand
GarbledCircuit ==
  /\ Color(delta)
  /\ Len(gb) = Len(program) /\ Len(clear) = Len(program) /\ Len(counters) = Len(program)
  /\ Before(Len(program) + 1) = [material |-> gb_material_id,
                                 gin |-> Len(garbler_inputs),
                                 ein |-> Len(evaluator_inputs_false)]
  /\ Len(material_buffer) = gb_material_id
  /\ Len(evaluator_inputs_true) = Len(evaluator_inputs_false)
  /\ Len(choice_bits) = Len(evaluator_inputs_false)
  /\ \A i \in 1 .. Len(program) : Garbled(i)

\* The decoding table has the two bits of every output, none overwritten
TableFilled ==
  LET n == Len(outputs)
  IN  /\ n % Slots = 0 => Len(output_decoding_table) = n \div Slots
      /\ n % Slots # 0 => Len(output_decoding_table) = n \div Slots + 1
      /\ \A k \in 0 .. n - 1 :
           LET entry == output_decoding_table[k \div Slots + 1]
               rows == OutputRows(gb[outputs[k + 1]].wire, k)
           IN  /\ ~ gb[outputs[k + 1]].isConstant
               /\ k \div Slots + 1 \in 1 .. Len(output_decoding_table)
               /\ entry[OutputBit(k)] = rows[1]
               /\ entry[OutputBit(k) + 1] = rows[2]

\* Bob has nothing before the hand-over; afterwards he has the labels of his
\* inputs, and his counters stand where Alice's stood
HandedOver ==
  /\ Len(ev) <= Len(program)
  /\ Before(Len(ev) + 1) = [material |-> ev_material_id,
                            gin |-> garbler_input_idx,
                            ein |-> evaluator_input_idx]
  /\ ev_output_wire_idx = Len(result_bits)
  /\ Len(result_bits) <= Len(outputs)
  /\ IF phase \in {"garble", "reveal"}
     THEN ev = <<>> /\ result_bits = <<>>
     ELSE /\ Len(evaluator_inputs) = Len(evaluator_inputs_false)
          /\ \A i \in 1 .. Len(evaluator_inputs) :
               evaluator_inputs[i] =
                 IF choice_bits[i] THEN evaluator_inputs_true[i] ELSE evaluator_inputs_false[i]
  /\ Len(result_bits) > 0 => Len(ev) = Len(program)

\* What Bob will need of Alice's circuit is there and was never overwritten,
\* his positions and labels follow hers: every step of either keeps all of this
\* at once (Bit.cpp, Const.cpp), although it keeps no part of it alone
InductiveInvariant ==
  TypeOK /\ GarbledCircuit /\ TableFilled /\ HandedOver /\ LabelsEncode
=============================================================================
