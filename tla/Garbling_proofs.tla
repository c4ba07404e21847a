--------------------------- MODULE Garbling_proofs --------------------------
(***************************************************************************)
(* Proofs about the garbled gates and the gadgets of stacked garbling, for *)
(* every label width, every PRF and every choice of labels and offsets.    *)
(* Of the gates (HalfGates), for every circuit: one AND gate, then that    *)
(* the inductive invariant holds, and what follows.  Of the gadgets        *)
(* (Gadgets): an equation of labels is shown position by position, where   *)
(* exclusive or is inequality of truth values; what the hash returns never *)
(* matters, only that both sides hash the same labels.                     *)
(***************************************************************************)
EXTENDS HalfGatesInvariant, Gadgets, SequenceTheorems, TLAPS

-----------------------------------------------------------------------------
(* Labels under exclusive or *)

\* A position is in a xor b when it is in exactly one of them
LEMMA XorMember == \A a, b, x : x \in Xor(a, b) <=> ((x \in a) # (x \in b))
  BY DEF Xor

\* Labels are closed under exclusive or (bitset<128>::operator^)
LEMMA XorLabel == \A a, b \in Label : Xor(a, b) \in Label
  BY DEF Xor, Label

\* Two labels that agree at every position are equal
LEMMA SameMembers == \A a, b : (\A x : x \in a <=> x \in b) => a = b
  OBVIOUS

\* HashHalfGates returns a label, whatever the nonce
LEMMA HashLabel ==
  ASSUME NEW k \in Keys, NEW w \in Label, NEW n \in Nat
  PROVE  HashHalfGates(k, w, n) \in Label
<1>1. ShiftLeft1(w) \in Label /\ Nonce(n) \in Label
  BY DEF ShiftLeft1, Nonce, Label
<1>2. Xor(ShiftLeft1(w), Nonce(n)) \in Label
  BY <1>1, XorLabel
<1>3. Prf[k][Xor(ShiftLeft1(w), Nonce(n))] \in Label
  BY <1>2, PrfAssumption
<1> QED
  BY <1>2, <1>3, XorLabel DEF HashHalfGates

(***************************************************************************)
(* The half-gates technique is correct for every hash (Bit.cpp, operator&  *)
(* of both roles): if Bob holds, for both operands, Alice's label for the  *)
(* operand's value, then his half of the computation yields Alice's label  *)
(* for the conjunction.  The only fact about the offset is that its bit 0  *)
(* is set, so that the two labels of a wire have different colours.        *)
(***************************************************************************)
THEOREM HalfGateCorrect ==
  ASSUME NEW a, NEW b, NEW n \in Nat, Color(delta),
         NEW va \in BOOLEAN, NEW vb \in BOOLEAN
  PROVE  LET rg == RowG(a, b, n)
             re == RowE(a, b, n)
         IN  HalfAnd(Find_Wire(a, va, delta), Find_Wire(b, vb, delta), rg, re, n)
               = Find_Wire(HalfAnd(a, b, rg, re, n), va /\ vb, delta)
<1> DEFINE ha0 == H(a, n)
           ha1 == H(Xor(a, delta), n)
           hb0 == H(b, n + 1)
           hb1 == H(Xor(b, delta), n + 1)
           rg == RowG(a, b, n)
           re == RowE(a, b, n)
           ax == Find_Wire(a, va, delta)
           bx == Find_Wire(b, vb, delta)
           hax == IF va THEN ha1 ELSE ha0
           hbx == IF vb THEN hb1 ELSE hb0
<1>1. H(ax, n) = hax /\ H(bx, n + 1) = hbx
  BY DEF Find_Wire
<1>2. rg = (IF Color(b) THEN Xor(Xor(ha0, ha1), delta) ELSE Xor(ha0, ha1))
  BY DEF RowG
<1>3. re = Xor(Xor(hb0, hb1), a)
  BY DEF RowE
<1>4. /\ Color(ax) <=> IF va THEN ~ Color(a) ELSE Color(a)
      /\ Color(bx) <=> IF vb THEN ~ Color(b) ELSE Color(b)
  BY DEF Color, Find_Wire, Xor
<1>5. HalfAnd(ax, bx, rg, re, n)
        = Xor(IF Color(ax) THEN Xor(hax, rg) ELSE hax,
              IF Color(bx) THEN Xor(Xor(hbx, re), ax) ELSE hbx)
  BY <1>1 DEF HalfAnd
<1>6. HalfAnd(a, b, rg, re, n)
        = Xor(IF Color(a) THEN Xor(ha0, rg) ELSE ha0,
              IF Color(b) THEN Xor(Xor(hb0, re), a) ELSE hb0)
  BY DEF HalfAnd
<1> HIDE DEF ha0, ha1, hb0, hb1, rg, re
<1>7. HalfAnd(ax, bx, rg, re, n) = Find_Wire(HalfAnd(a, b, rg, re, n), va /\ vb, delta)
  <2> SUFFICES ASSUME NEW x
               PROVE  x \in HalfAnd(ax, bx, rg, re, n)
                        <=> x \in Find_Wire(HalfAnd(a, b, rg, re, n), va /\ vb, delta)
    OBVIOUS
  <2>1. x \in rg <=> ((((x \in ha0) # (x \in ha1)) # (Color(b) /\ x \in delta)))
    BY <1>2, XorMember
  <2>2. x \in re <=> (((x \in hb0) # (x \in hb1)) # (x \in a))
    BY <1>3, XorMember
  <2>3. x \in ax <=> ((x \in a) # (va /\ x \in delta))
    BY XorMember DEF Find_Wire
  <2>4. x \in HalfAnd(ax, bx, rg, re, n)
          <=> (((x \in hax) # (Color(ax) /\ x \in rg))
                # ((x \in hbx) # (Color(bx) /\ ((x \in re) # (x \in ax)))))
    BY <1>5, XorMember
  <2>5. x \in HalfAnd(a, b, rg, re, n)
          <=> (((x \in ha0) # (Color(a) /\ x \in rg))
                # ((x \in hb0) # (Color(b) /\ ((x \in re) # (x \in a)))))
    BY <1>6, XorMember
  <2>6. x \in Find_Wire(HalfAnd(a, b, rg, re, n), va /\ vb, delta)
          <=> ((x \in HalfAnd(a, b, rg, re, n)) # (va /\ vb /\ x \in delta))
    BY XorMember DEF Find_Wire
  <2>7. /\ x \in hax <=> IF va THEN x \in ha1 ELSE x \in ha0
        /\ x \in hbx <=> IF vb THEN x \in hb1 ELSE x \in hb0
    OBVIOUS
  <2> HIDE DEF ax, bx, hax, hbx
  <2> QED
    BY <2>1, <2>2, <2>3, <2>4, <2>5, <2>6, <2>7, <1>4 DEF Color
<1> QED
  BY <1>7 DEF rg, re
-----------------------------------------------------------------------------
\* A sequence that has grown at its end
Extends(t, s) == Len(s) <= Len(t) /\ \A i \in 1 .. Len(s) : t[i] = s[i]

-----------------------------------------------------------------------------
(* Sequences and labels *)

\* Appending an element keeps what was there
LEMMA Appended ==
  ASSUME NEW S, NEW s \in Seq(S), NEW e \in S
  PROVE  LET t == Append(s, e)
         IN  /\ t \in Seq(S) /\ Len(t) = Len(s) + 1
             /\ t[Len(s) + 1] = e /\ Extends(t, s)
BY AppendProperties DEF Extends

\* So does appending two, as operator& does with its rows
LEMMA AppendedTwo ==
  ASSUME NEW S, NEW s \in Seq(S), NEW d \in S, NEW e \in S
  PROVE  LET t == s \o <<d, e>>
         IN  /\ t \in Seq(S) /\ Len(t) = Len(s) + 2
             /\ t[Len(s) + 1] = d /\ t[Len(s) + 2] = e /\ Extends(t, s)
<1> <<d, e>> \in Seq(S) /\ Len(<<d, e>>) = 2 /\ <<d, e>>[1] = d /\ <<d, e>>[2] = e
  OBVIOUS
<1> QED
  BY ConcatProperties DEF Extends

\* The case of a sequence of labels
LEMMA AppendedLabel ==
  ASSUME NEW s \in Seq(Label), NEW e \in Label
  PROVE  LET t == Append(s, e)
         IN  /\ t \in Seq(Label) /\ Len(t) = Len(s) + 1 /\ Len(s) \in Nat
             /\ t[Len(s) + 1] = e /\ Extends(t, s)
BY Appended

\* A sequence of wires of a circuit is one of wires of a longer circuit
LEMMA LongerRange ==
  ASSUME NEW m \in Nat, NEW n \in Nat, m <= n, NEW s \in Seq(1 .. m)
  PROVE  s \in Seq(1 .. n)
<1> 1 .. m \subseteq 1 .. n
  OBVIOUS
<1> QED
  BY SeqMonotonic

\* The public constants are labels
LEMMA OneIsLabel == OneLabel \in Label /\ ZeroLabel \in Label
BY KappaAssumption DEF OneLabel, ZeroLabel, Label, Kappa

\* The two rows of an AND are labels
LEMMA RowLabels ==
  ASSUME key \in Keys, delta \in Label, NEW a \in Label, NEW b \in Label, NEW n \in Nat
  PROVE  RowG(a, b, n) \in Label /\ RowE(a, b, n) \in Label
<1> n + 1 \in Nat /\ Xor(a, delta) \in Label /\ Xor(b, delta) \in Label
  BY XorLabel
<1>1. /\ H(a, n) \in Label /\ H(Xor(a, delta), n) \in Label
      /\ H(b, n + 1) \in Label /\ H(Xor(b, delta), n + 1) \in Label
  BY HashLabel DEF H
<1>2. RowG(a, b, n) \in Label
  BY <1>1, XorLabel DEF RowG
<1>3. RowE(a, b, n) \in Label
  BY <1>1, XorLabel DEF RowE
<1> QED
  BY <1>2, <1>3

\* So is what either party computes with them
LEMMA HalfLabel ==
  ASSUME key \in Keys, NEW a \in Label, NEW b \in Label, NEW n \in Nat,
         NEW rg \in Label, NEW re \in Label
  PROVE  HalfAnd(a, b, rg, re, n) \in Label
<1> n + 1 \in Nat
  OBVIOUS
<1>1. H(a, n) \in Label /\ H(b, n + 1) \in Label
  BY HashLabel DEF H
<1>2. Xor(H(a, n), rg) \in Label /\ Xor(Xor(H(b, n + 1), re), a) \in Label
  BY <1>1, XorLabel
<1> QED
  BY <1>1, <1>2, XorLabel DEF HalfAnd

-----------------------------------------------------------------------------
(* Quotients *)

\* Quotient and remainder, for a divisor that is not a literal
LEMMA DivMod ==
  ASSUME NEW s \in Nat \ {0}, NEW n \in Nat
  PROVE  n = s * (n \div s) + (n % s) /\ n % s \in 0 .. s - 1 /\ n \div s \in Nat
OBVIOUS

\* Multiples of a number are at least that number apart
LEMMA MulMono ==
  ASSUME NEW s \in Nat \ {0}, NEW p \in Nat, NEW q \in Nat, p < q
  PROVE  s * p + s <= s * q
<1>1. PICK d \in Nat : q = p + 1 + d
  <2>1. q - p - 1 \in Nat /\ q = p + 1 + (q - p - 1)
    OBVIOUS
  <2> QED
    BY <2>1
<1>2. s * q = s * p + s + s * d /\ s * d \in Nat
  BY <1>1
<1> QED
  BY <1>2

\* Only the quotient and the remainder make up the dividend
LEMMA DivUnique ==
  ASSUME NEW s \in Nat \ {0}, NEW n \in Nat, NEW q \in Nat, NEW r \in 0 .. s - 1,
         n = s * q + r
  PROVE  n \div s = q /\ n % s = r
<1> DEFINE p == n \div s
<1>1. n = s * p + (n % s) /\ n % s \in 0 .. s - 1 /\ p \in Nat
  BY DivMod
<1> HIDE DEF p
<1>2. CASE p < q
  <2>1. s * p + s <= s * q
    BY <1>1, <1>2, MulMono
  <2> QED
    BY <1>1, <2>1
<1>3. CASE q < p
  <2>1. s * q + s <= s * p
    BY <1>1, <1>3, MulMono
  <2> QED
    BY <1>1, <2>1
<1>4. CASE p = q
  BY <1>1, <1>4 DEF p
<1> QED
  BY <1>1, <1>2, <1>3, <1>4

\* The quotient and the remainder of the successor
LEMMA DivSuccessor ==
  ASSUME NEW s \in Nat \ {0}, NEW n \in Nat
  PROVE  /\ n % s = s - 1 => (n + 1) % s = 0 /\ (n + 1) \div s = n \div s + 1
         /\ n % s # s - 1 => (n + 1) % s # 0 /\ (n + 1) \div s = n \div s
<1> DEFINE q == n \div s
           r == n % s
<1>1. n = s * q + r /\ r \in 0 .. s - 1 /\ q \in Nat
  BY DivMod
<1> HIDE DEF q, r
<1>2. CASE r = s - 1
  <2>1. n + 1 = s * (q + 1) + 0 /\ 0 \in 0 .. s - 1 /\ q + 1 \in Nat /\ n + 1 \in Nat
    BY <1>1, <1>2
  <2>2. (n + 1) \div s = q + 1 /\ (n + 1) % s = 0
    BY <2>1, DivUnique
  <2> QED
    BY <1>2, <2>2 DEF q, r
<1>3. CASE r # s - 1
  <2>1. n + 1 = s * q + (r + 1) /\ r + 1 \in 0 .. s - 1 /\ n + 1 \in Nat
    BY <1>1, <1>3
  <2>2. (n + 1) \div s = q /\ (n + 1) % s = r + 1
    BY <1>1, <2>1, DivUnique
  <2> QED
    BY <1>1, <1>3, <2>2 DEF q, r
<1> QED
  BY <1>2, <1>3

-----------------------------------------------------------------------------
(* The garbler *)

\* An operation appended to the circuit, while what Alice put aside only grows
Grown(o, b) ==
  /\ GbEmit(o, b)
  /\ o \in ABS!Operation /\ ABS!WellFormed(o, Len(program)) /\ b \in Bit
  /\ gb_material_id' \in Nat
  /\ material_buffer' \in Seq(Label) /\ garbler_inputs' \in Seq(Label)
  /\ evaluator_inputs_false' \in Seq(Label) /\ evaluator_inputs_true' \in Seq(Label)
  /\ choice_bits' \in Seq(BOOLEAN)
  /\ Extends(material_buffer', material_buffer)
  /\ Extends(garbler_inputs', garbler_inputs)
  /\ Extends(evaluator_inputs_false', evaluator_inputs_false)
  /\ Extends(evaluator_inputs_true', evaluator_inputs_true)
  /\ Extends(choice_bits', choice_bits)
  /\ Len(material_buffer') = gb_material_id'
  /\ Len(evaluator_inputs_true') = Len(evaluator_inputs_false')
  /\ Len(choice_bits') = Len(evaluator_inputs_false')

\* The value of an operation is a bit, and looks at earlier wires only
LEMMA ClearBoolean ==
  ASSUME NEW o \in ABS!Operation, NEW n \in Nat, ABS!WellFormed(o, n),
         NEW val \in Seq(BOOLEAN), Len(val) >= n
  PROVE  /\ ABS!ClearValue(o, val) \in BOOLEAN
         /\ \A w \in Seq(BOOLEAN) :
              (\A i \in 1 .. n : w[i] = val[i])
                => ABS!ClearValue(o, w) = ABS!ClearValue(o, val)
<1>1. CASE o.op \in {"gin", "ein", "const"}
  BY <1>1 DEF ABS!Operation, ABS!ClearValue
<1>2. CASE o.op = "and"
  BY <1>2 DEF ABS!Operation, ABS!WellFormed, ABS!ClearValue
<1>3. CASE o.op = "xor"
  BY <1>3 DEF ABS!Operation, ABS!WellFormed, ABS!ClearValue
<1>4. CASE o.op = "not"
  BY <1>4 DEF ABS!Operation, ABS!WellFormed, ABS!ClearValue
<1>5. CASE o.op = "eqb"
  BY <1>5 DEF ABS!Operation, ABS!WellFormed, ABS!ClearValue
<1> QED
  BY <1>1, <1>2, <1>3, <1>4, <1>5 DEF ABS!Operation, ABS!Kinds

\* The counters are counters, before each operation and after the last
LEMMA BeforeCounter ==
  ASSUME TypeOK, GarbledCircuit, NEW i \in 1 .. Len(program) + 1
  PROVE  /\ Before(i) \in Counter
         /\ Before(i).material \in Nat /\ Before(i).gin \in Nat /\ Before(i).ein \in Nat
<1>1. Len(program) \in Nat /\ Len(counters) = Len(program) /\ counters \in Seq(Counter)
  BY DEF TypeOK, GarbledCircuit
<1>2. Before(i) \in Counter
  <2>1. CASE i = 1
    BY <2>1 DEF Before, Counter
  <2>2. CASE i # 1
    <3>1. i - 1 \in 1 .. Len(counters)
      BY <1>1, <2>2
    <3>2. counters[i - 1] \in Counter
      BY <3>1, <1>1, ElementOfSeq
    <3> QED
      BY <2>2, <3>2 DEF Before
  <2> QED
    BY <2>1, <2>2
<1> QED
  BY <1>2 DEF Counter

\* What a garbling step does to the sequences it appends to
LEMMA EmitFacts ==
  ASSUME TypeOK, GarbledCircuit, NEW o, NEW b, Grown(o, b)
  PROVE  LET n == Len(program)
         IN  /\ n \in Nat
             /\ program' \in Seq(ABS!Operation) /\ Len(program') = n + 1
             /\ clear' \in Seq(BOOLEAN) /\ Len(clear') = n + 1
             /\ gb' \in Seq(Bit) /\ Len(gb') = n + 1
             /\ counters' \in Seq(Counter) /\ Len(counters') = n + 1
             /\ Extends(program', program) /\ program'[n + 1] = o
             /\ Extends(clear', clear) /\ clear'[n + 1] = ABS!ClearValue(o, clear)
             /\ Extends(gb', gb) /\ gb'[n + 1] = b
             /\ Extends(counters', counters)
             /\ counters'[n + 1] = [material |-> gb_material_id',
                                    gin |-> Len(garbler_inputs'),
                                    ein |-> Len(evaluator_inputs_false')]
             /\ \A i \in 1 .. n + 1 : Before(i)' = Before(i)
             /\ delta' = delta /\ key' = key /\ phase = "garble" /\ phase' = phase
             /\ UNCHANGED <<tableVars, evVars>>
<1> DEFINE n == Len(program)
<1>0. /\ n \in Nat /\ Len(gb) = n /\ Len(clear) = n /\ Len(counters) = n
      /\ program \in Seq(ABS!Operation) /\ clear \in Seq(BOOLEAN) /\ gb \in Seq(Bit)
      /\ counters \in Seq(Counter)
  BY DEF TypeOK, GarbledCircuit
<1>1. GbEmit(o, b) /\ o \in ABS!Operation /\ ABS!WellFormed(o, n) /\ b \in Bit
  BY DEF Grown
<1>2. ABS!ClearValue(o, clear) \in BOOLEAN
  BY <1>0, <1>1, ClearBoolean
<1>3. [material |-> gb_material_id', gin |-> Len(garbler_inputs'),
       ein |-> Len(evaluator_inputs_false')] \in Counter
  BY DEF Grown, Counter
<1>4. program' \in Seq(ABS!Operation) /\ Len(program') = n + 1
      /\ Extends(program', program) /\ program'[n + 1] = o
  BY <1>0, <1>1, Appended DEF GbEmit
<1>5. clear' \in Seq(BOOLEAN) /\ Len(clear') = n + 1
      /\ Extends(clear', clear) /\ clear'[n + 1] = ABS!ClearValue(o, clear)
  BY <1>0, <1>1, <1>2, Appended DEF GbEmit
<1>6. gb' \in Seq(Bit) /\ Len(gb') = n + 1 /\ Extends(gb', gb) /\ gb'[n + 1] = b
  BY <1>0, <1>1, Appended DEF GbEmit
<1>7. counters' \in Seq(Counter) /\ Len(counters') = n + 1
      /\ Extends(counters', counters)
      /\ counters'[n + 1] = [material |-> gb_material_id', gin |-> Len(garbler_inputs'),
                             ein |-> Len(evaluator_inputs_false')]
  BY <1>0, <1>1, <1>3, Appended DEF GbEmit
<1>8. \A i \in 1 .. n + 1 : Before(i)' = Before(i)
  <2> SUFFICES ASSUME NEW i \in 1 .. n + 1
               PROVE  Before(i)' = Before(i)
    OBVIOUS
  <2>1. CASE i = 1
    BY <2>1 DEF Before
  <2>2. CASE i # 1
    <3>1. i - 1 \in 1 .. n
      BY <2>2, <1>0
    <3>2. counters'[i - 1] = counters[i - 1]
      BY <3>1, <1>0, <1>7 DEF Extends
    <3> QED
      BY <2>2, <3>2 DEF Before
  <2> QED
    BY <2>1, <2>2
<1> QED
  BY <1>0, <1>1, <1>4, <1>5, <1>6, <1>7, <1>8 DEF GbEmit

\* What Alice left for an earlier operation is not disturbed
LEMMA GarbledKept ==
  ASSUME TypeOK, GarbledCircuit, NEW o, NEW b, Grown(o, b), NEW i \in 1 .. Len(program)
  PROVE  Garbled(i)'
<1> USE DEF Extends
<1>1. /\ Len(program) \in Nat /\ i \in Nat /\ i - 1 \in Nat
      /\ Garbled(i) /\ ABS!WellFormed(program[i], i - 1)
      /\ program[i] \in ABS!Operation
      /\ clear \in Seq(BOOLEAN) /\ Len(clear) = Len(program)
      /\ Len(gb) = Len(program) /\ Len(counters) = Len(program)
  BY ElementOfSeq DEF TypeOK, GarbledCircuit
<1>2. /\ program'[i] = program[i] /\ clear'[i] = clear[i] /\ gb'[i] = gb[i]
      /\ counters'[i] = counters[i] /\ Before(i)' = Before(i)
      /\ clear' \in Seq(BOOLEAN) /\ delta' = delta /\ key' = key
  BY <1>1, EmitFacts DEF Before
<1>3. ABS!ClearValue(program'[i], clear') = ABS!ClearValue(program[i], clear)
  <2>1. \A j \in 1 .. (i - 1) : clear'[j] = clear[j]
    <3>1. Extends(clear', clear)
      BY EmitFacts
    <3> QED
      BY <1>1, <3>1
  <2> QED
    BY <1>1, <1>2, <2>1, ClearBoolean
<1>4. \A j \in 1 .. (i - 1) : gb'[j] = gb[j]
  <2>1. Extends(gb', gb)
    BY EmitFacts
  <2> QED
    BY <1>1, <2>1
<1>5. LeftFor(i)'
  <2>1. CASE program[i].op = "gin"
    <3>1. LeftForGarblerInput(i)
      BY <1>1, <2>1 DEF Garbled, LeftFor
    <3>2. Extends(garbler_inputs', garbler_inputs) /\ Len(garbler_inputs) \in Nat
          /\ Len(garbler_inputs') \in Nat
      BY LenProperties DEF Grown, TypeOK
    <3>3. /\ counters[i].gin \in 1 .. Len(garbler_inputs')
          /\ garbler_inputs'[counters[i].gin] = garbler_inputs[counters[i].gin]
      BY <3>1, <3>2 DEF LeftForGarblerInput
    <3>4. LeftForGarblerInput(i)'
      BY <3>1, <3>3, <1>2 DEF LeftForGarblerInput
    <3> QED
      BY <3>4, <2>1, <1>2 DEF LeftFor
  <2>2. CASE program[i].op = "ein"
    <3>1. LeftForEvaluatorInput(i)
      BY <1>1, <2>2 DEF Garbled, LeftFor
    <3>2. /\ Extends(evaluator_inputs_false', evaluator_inputs_false)
          /\ Extends(evaluator_inputs_true', evaluator_inputs_true)
          /\ Extends(choice_bits', choice_bits)
          /\ Len(evaluator_inputs_false) \in Nat /\ Len(evaluator_inputs_false') \in Nat
          /\ Len(evaluator_inputs_true) = Len(evaluator_inputs_false)
          /\ Len(choice_bits) = Len(evaluator_inputs_false)
      BY LenProperties DEF Grown, TypeOK, GarbledCircuit
    <3>3. LET k == counters[i].ein
          IN  /\ k \in 1 .. Len(evaluator_inputs_false')
              /\ evaluator_inputs_false'[k] = evaluator_inputs_false[k]
              /\ evaluator_inputs_true'[k] = evaluator_inputs_true[k]
              /\ choice_bits'[k] = choice_bits[k]
      BY <3>1, <3>2 DEF LeftForEvaluatorInput
    <3>4. LeftForEvaluatorInput(i)'
      BY <3>1, <3>3, <1>2 DEF LeftForEvaluatorInput
    <3> QED
      BY <3>4, <2>2, <1>2 DEF LeftFor
  <2>3. CASE program[i].op = "and"
    <3>1. LeftForAnd(i)
      BY <1>1, <2>3 DEF Garbled, LeftFor
    <3>2. gb'[program[i].l] = gb[program[i].l] /\ gb'[program[i].r] = gb[program[i].r]
      <4>1. program[i].l \in 1 .. (i - 1) /\ program[i].r \in 1 .. (i - 1)
        BY <1>1, <2>3 DEF ABS!WellFormed
      <4> QED
        BY <4>1, <1>4
    <3>3. CASE gb[program[i].l].isConstant \/ gb[program[i].r].isConstant
      <4>1. LeftForAnd(i)'
        BY <3>1, <3>2, <3>3, <1>2 DEF LeftForAnd, GbShortAnd, GbConstantBit
      <4> QED
        BY <4>1, <2>3, <1>2 DEF LeftFor
    <3>4. CASE ~ (gb[program[i].l].isConstant \/ gb[program[i].r].isConstant)
      <4>1. Before(i).material \in Nat
        BY <1>1, BeforeCounter
      <4>2. /\ material_buffer'[Before(i).material + 1] = material_buffer[Before(i).material + 1]
            /\ material_buffer'[Before(i).material + 2] = material_buffer[Before(i).material + 2]
            /\ Before(i).material + 2 <= Len(material_buffer')
        <5>1. Before(i).material + 2 <= Len(material_buffer)
          BY <3>1, <3>4 DEF LeftForAnd
        <5>2. Extends(material_buffer', material_buffer)
          BY DEF Grown
        <5>3. Len(material_buffer) \in Nat /\ Len(material_buffer') \in Nat
          BY LenProperties DEF Grown, TypeOK
        <5> DEFINE m == Before(i).material
        <5>4. m \in Nat /\ m + 2 <= Len(material_buffer)
          BY <5>1, <4>1
        <5>5. m + 1 \in 1 .. Len(material_buffer) /\ m + 2 \in 1 .. Len(material_buffer)
              /\ m + 2 <= Len(material_buffer')
          <6> HIDE DEF m
          <6> QED
            BY <5>2, <5>3, <5>4
        <5> QED
          BY <5>2, <5>5
      <4>3. LeftForAnd(i)'
        BY <3>1, <3>2, <3>4, <4>2, <1>2, ZenonT(60) DEF LeftForAnd, RowG, RowE, HalfAnd, H
      <4> QED
        BY <4>3, <2>3, <1>2 DEF LeftFor
    <3> QED
      BY <3>3, <3>4
  <2>4. CASE program[i].op \notin {"gin", "ein", "and"}
    <3>1. LeftForOther(i)
      BY <1>1, <2>4 DEF Garbled, LeftFor
    <3>2. /\ program[i].op \in {"xor", "not", "eqb"} => gb'[program[i].l] = gb[program[i].l]
          /\ program[i].op = "xor" => gb'[program[i].r] = gb[program[i].r]
      <4>1. /\ program[i].op \in {"xor", "not", "eqb"} => program[i].l \in 1 .. (i - 1)
            /\ program[i].op = "xor" => program[i].r \in 1 .. (i - 1)
        BY <1>1 DEF ABS!WellFormed
      <4> QED
        BY <4>1, <1>4
    <3>3. LeftForOther(i)'
      BY <3>1, <3>2, <1>2 DEF LeftForOther, GbConstantBit
    <3> QED
      BY <3>3, <2>4, <1>2 DEF LeftFor
  <2> QED
    BY <2>1, <2>2, <2>3, <2>4
<1> QED
  BY <1>1, <1>2, <1>3, <1>5 DEF Garbled

\* A garbling step keeps the invariant if it leaves what Bob needs for its wire
LEMMA GrownInvariant ==
  ASSUME InductiveInvariant, NEW o, NEW b, Grown(o, b),
         NEW n \in Nat, n = Len(program) + 1, LeftFor(n)',
         b.isConstant => b.wire = IF ABS!ClearValue(o, clear) THEN delta ELSE ZeroLabel
  PROVE  InductiveInvariant'
<1>0. TypeOK /\ GarbledCircuit /\ TableFilled /\ HandedOver /\ LabelsEncode
  BY DEF InductiveInvariant
<1> DEFINE m == Len(program)
<1>1. /\ m \in Nat /\ program' \in Seq(ABS!Operation) /\ Len(program') = n
      /\ clear' \in Seq(BOOLEAN) /\ Len(clear') = n
      /\ gb' \in Seq(Bit) /\ Len(gb') = n
      /\ counters' \in Seq(Counter) /\ Len(counters') = n
      /\ Extends(program', program) /\ program'[n] = o
      /\ Extends(clear', clear) /\ clear'[n] = ABS!ClearValue(o, clear)
      /\ Extends(gb', gb) /\ gb'[n] = b
      /\ counters'[n] = [material |-> gb_material_id', gin |-> Len(garbler_inputs'),
                         ein |-> Len(evaluator_inputs_false')]
      /\ delta' = delta /\ key' = key /\ phase = "garble" /\ phase' = phase
      /\ UNCHANGED <<outputs, output_decoding_table>> /\ UNCHANGED evVars
  BY <1>0, EmitFacts DEF tableVars
<1>2. ABS!WellFormed(o, m) /\ o \in ABS!Operation
  BY DEF Grown
<1>3. /\ outputs' = outputs /\ outputs \in Seq(1 .. m) /\ outputs' \in Seq(1 .. n)
      /\ Len(outputs) \in Nat
  <2>1. outputs \in Seq(1 .. m)
    BY <1>0 DEF TypeOK
  <2>2. m <= n /\ m \in Nat /\ n \in Nat
    BY <1>1
  <2>3. outputs \in Seq(1 .. n)
    BY <2>1, <2>2, LongerRange
  <2> QED
    BY <2>1, <2>3, <1>1
<1>4. \A i \in 1 .. Len(program') : ABS!WellFormed(program'[i], i - 1)
  <2> SUFFICES ASSUME NEW i \in 1 .. n
               PROVE  ABS!WellFormed(program'[i], i - 1)
    BY <1>1
  <2>1. CASE i = n
    BY <2>1, <1>1, <1>2
  <2>2. CASE i # n
    <3>1. i \in 1 .. m /\ program'[i] = program[i]
      BY <2>2, <1>1 DEF Extends
    <3> QED
      BY <3>1, <1>0 DEF TypeOK
  <2> QED
    BY <2>1, <2>2
<1>5. TypeOK'
  <2>1. phase' \in {"garble", "reveal", "evaluate", "done"} /\ key' \in Keys /\ delta' \in Label
    BY <1>0, <1>1 DEF TypeOK
  <2>2. /\ clear' \in Seq(BOOLEAN) /\ choice_bits' \in Seq(BOOLEAN)
        /\ result_bits' \in Seq(BOOLEAN) /\ gb' \in Seq(Bit) /\ ev' \in Seq(Bit)
        /\ counters' \in Seq(Counter)
    BY <1>0, <1>1 DEF TypeOK, Grown, evVars
  <2>3. /\ material_buffer' \in Seq(Label) /\ garbler_inputs' \in Seq(Label)
        /\ evaluator_inputs_false' \in Seq(Label) /\ evaluator_inputs_true' \in Seq(Label)
        /\ evaluator_inputs' \in Seq(Label)
    BY <1>0, <1>1 DEF TypeOK, Grown, evVars
  <2>4. /\ gb_material_id' \in Nat /\ ev_material_id' \in Nat /\ garbler_input_idx' \in Nat
        /\ evaluator_input_idx' \in Nat /\ ev_output_wire_idx' \in Nat
    BY <1>0, <1>1 DEF TypeOK, Grown, evVars
  <2>5. outputs' \in Seq(1 .. Len(program')) /\ output_decoding_table' \in Seq(TableEntry)
    BY <1>0, <1>1, <1>3 DEF TypeOK
  <2>6. program' \in Seq(ABS!Operation)
    BY <1>1
  <2> QED
    BY <1>4, <2>1, <2>2, <2>3, <2>4, <2>5, <2>6 DEF TypeOK
<1>6. GarbledCircuit'
  <2>1. \A i \in 1 .. n : Garbled(i)'
    <3> SUFFICES ASSUME NEW i \in 1 .. n
                 PROVE  Garbled(i)'
      OBVIOUS
    <3>1. CASE i = n
      <4>1. ABS!ClearValue(program'[n], clear') = clear'[n]
        <5>1. clear \in Seq(BOOLEAN) /\ Len(clear) >= m /\ (\A j \in 1 .. m : clear'[j] = clear[j])
          BY <1>0, <1>1 DEF TypeOK, GarbledCircuit, Extends
        <5>2. ABS!ClearValue(o, clear') = ABS!ClearValue(o, clear)
          <6> HIDE DEF m
          <6> QED
            BY <5>1, <1>1, <1>2, ClearBoolean
        <5> QED
          BY <5>2, <1>1
      <4> QED
        BY <4>1, <3>1, <1>1 DEF Garbled
    <3>2. CASE i # n
      <4>1. i \in 1 .. Len(program)
        BY <3>2, <1>1
      <4> QED
        BY <4>1, <1>0, GarbledKept
    <3> QED
      BY <3>1, <3>2
  <2>2. Before(n + 1)' = counters'[n]
    BY DEF Before
  <2>3. Color(delta')
    BY <1>0, <1>1 DEF GarbledCircuit
  <2>4. /\ Len(material_buffer') = gb_material_id'
        /\ Len(evaluator_inputs_true') = Len(evaluator_inputs_false')
        /\ Len(choice_bits') = Len(evaluator_inputs_false')
    BY DEF Grown
  <2> QED
    BY <2>1, <2>2, <2>3, <2>4, <1>1 DEF GarbledCircuit
<1>7. TableFilled'
  <2>1. \A k \in 0 .. Len(outputs) - 1 : gb'[outputs[k + 1]] = gb[outputs[k + 1]]
    <3> SUFFICES ASSUME NEW k \in 0 .. Len(outputs) - 1
                 PROVE  gb'[outputs[k + 1]] = gb[outputs[k + 1]]
      OBVIOUS
    <3>1. k + 1 \in 1 .. Len(outputs)
      BY <1>3
    <3>2. outputs[k + 1] \in 1 .. m
      BY <3>1, <1>3, ElementOfSeq
    <3> QED
      BY <3>2, <1>0, <1>1 DEF Extends, GarbledCircuit
  <2>2. /\ TableFilled /\ UNCHANGED <<key, delta, outputs, output_decoding_table>>
    BY <1>0, <1>1
  <2> QED
    BY <2>1, <2>2, SMTT(30) DEF TableFilled, OutputRows, H
<1>8. HandedOver' /\ LabelsEncode'
  <2>1. /\ ev' = <<>> /\ result_bits' = <<>> /\ ev_output_wire_idx' = ev_output_wire_idx
        /\ ev_material_id' = ev_material_id /\ garbler_input_idx' = garbler_input_idx
        /\ evaluator_input_idx' = evaluator_input_idx /\ ev = <<>> /\ result_bits = <<>>
    BY <1>0, <1>1 DEF HandedOver, evVars
  <2>2. Before(1)' = Before(1)
    BY DEF Before
  <2>3. Before(1) = [material |-> ev_material_id, gin |-> garbler_input_idx,
                     ein |-> evaluator_input_idx]
    BY <1>0, <2>1 DEF HandedOver
  <2>4. Len(ev') = 0 /\ Len(result_bits') = 0 /\ Len(ev) = 0 /\ Len(result_bits) = 0
    BY <2>1
  <2>5. HandedOver'
    BY <2>1, <2>2, <2>3, <2>4, <1>0, <1>1, <1>3 DEF HandedOver
  <2>6. LabelsEncode'
    BY <2>4 DEF LabelsEncode
  <2> QED
    BY <2>5, <2>6
<1> QED
  BY <1>5, <1>6, <1>7, <1>8 DEF InductiveInvariant

\* A sequence left alone
LEMMA ExtendsItself == \A s : Extends(s, s)
BY DEF Extends

\* Operations that put nothing aside
LEMMA LocalGrown ==
  ASSUME InductiveInvariant, NEW o \in ABS!Operation, ABS!WellFormed(o, Len(program)),
         NEW b \in Bit, GbLocal(o, b), NEW n \in Nat, n = Len(program) + 1
  PROVE  Grown(o, b) /\ counters'[n] = Before(n)'
<1>0. TypeOK /\ GarbledCircuit
  BY DEF InductiveInvariant
<1>1. Grown(o, b)
  BY <1>0, ExtendsItself DEF TypeOK, GarbledCircuit, Grown, GbLocal, inputVars
<1>2. Before(n) = [material |-> gb_material_id, gin |-> Len(garbler_inputs),
                   ein |-> Len(evaluator_inputs_false)]
  BY <1>0 DEF GarbledCircuit
<1>3. counters'[n] = [material |-> gb_material_id', gin |-> Len(garbler_inputs'),
                      ein |-> Len(evaluator_inputs_false')]
  BY <1>0, <1>1, EmitFacts
<1>4. Before(n)' = Before(n)
  <2>1. \A i \in 1 .. Len(program) + 1 : Before(i)' = Before(i)
    BY <1>0, <1>1, EmitFacts
  <2>2. n \in 1 .. Len(program) + 1
    BY <1>0 DEF TypeOK
  <2> QED
    BY <2>1, <2>2
<1> QED
  BY <1>1, <1>2, <1>3, <1>4 DEF GbLocal, inputVars

\* A wire of the circuit, its bit and its value
LEMMA WireOf ==
  ASSUME InductiveInvariant, NEW l \in 1 .. Len(gb)
  PROVE  /\ l \in Nat /\ l \in 1 .. Len(program) /\ Len(gb) = Len(program)
         /\ gb[l] \in Bit /\ gb[l].wire \in Label /\ gb[l].isConstant \in BOOLEAN
         /\ clear[l] \in BOOLEAN
         /\ gb[l].isConstant => gb[l].wire = IF clear[l] THEN delta ELSE ZeroLabel
<1>0. TypeOK /\ GarbledCircuit
  BY DEF InductiveInvariant
<1>1. l \in 1 .. Len(program) /\ Len(gb) = Len(program) /\ Len(clear) = Len(program)
      /\ gb \in Seq(Bit) /\ clear \in Seq(BOOLEAN)
  BY <1>0 DEF TypeOK, GarbledCircuit
<1>2. gb[l] \in Bit /\ clear[l] \in BOOLEAN
  BY <1>1, ElementOfSeq
<1>3. Garbled(l)
  BY <1>0, <1>1 DEF GarbledCircuit
<1> QED
  BY <1>1, <1>2, <1>3 DEF Garbled, Bit

\* The facts about Alice's state that her steps use
LEMMA GarblerTypes ==
  ASSUME InductiveInvariant
  PROVE  /\ Len(program) \in Nat /\ Len(gb) = Len(program)
         /\ key \in Keys /\ delta \in Label /\ Color(delta) /\ delta # ZeroLabel
         /\ material_buffer \in Seq(Label) /\ garbler_inputs \in Seq(Label)
         /\ evaluator_inputs_false \in Seq(Label) /\ evaluator_inputs_true \in Seq(Label)
         /\ choice_bits \in Seq(BOOLEAN)
         /\ Len(evaluator_inputs_true) = Len(evaluator_inputs_false)
         /\ Len(choice_bits) = Len(evaluator_inputs_false)
         /\ gb_material_id \in Nat /\ Len(material_buffer) = gb_material_id
         /\ TypeOK /\ GarbledCircuit
<1>1. TypeOK /\ GarbledCircuit
  BY DEF InductiveInvariant
<1>2. /\ key \in Keys /\ delta \in Label /\ program \in Seq(ABS!Operation)
      /\ material_buffer \in Seq(Label) /\ garbler_inputs \in Seq(Label)
      /\ evaluator_inputs_false \in Seq(Label) /\ evaluator_inputs_true \in Seq(Label)
      /\ choice_bits \in Seq(BOOLEAN) /\ gb_material_id \in Nat
  BY <1>1 DEF TypeOK
<1>3. /\ Len(gb) = Len(program) /\ Color(delta)
      /\ Len(evaluator_inputs_true) = Len(evaluator_inputs_false)
      /\ Len(choice_bits) = Len(evaluator_inputs_false)
      /\ Len(material_buffer) = gb_material_id
  BY <1>1 DEF GarbledCircuit
<1>4. Len(program) \in Nat
  BY <1>2, LenProperties
<1>5. delta # ZeroLabel
  BY <1>3 DEF Color, ZeroLabel
<1> QED
  BY <1>1, <1>2, <1>3, <1>4, <1>5

\* A label made for an input, and its counterpart, are labels
LEMMA DrawnLabel ==
  ASSUME InductiveInvariant, NEW w \in Draws, NEW v \in BOOLEAN
  PROVE  w \in Label /\ Xor(w, delta) \in Label /\ Find_Wire(w, v, delta) \in Label
         /\ MkBit(w, FALSE) \in Bit
<1>1. w \in Label /\ Xor(w, delta) \in Label
  BY DrawsAssumption, GarblerTypes, XorLabel
<1> QED
  BY <1>1 DEF Find_Wire, MkBit, Bit

\* Each operation of Alice keeps the invariant: her own input bit
LEMMA GbInputStep == ASSUME InductiveInvariant, GbInput PROVE InductiveInvariant'
<1>1. PICK v \in BOOLEAN, w \in Draws :
        /\ garbler_inputs' = Append(garbler_inputs, Find_Wire(w, v, delta))
        /\ UNCHANGED <<evaluator_inputs_false, evaluator_inputs_true, choice_bits,
                       material_buffer, gb_material_id>>
        /\ GbEmit(Operation("gin", 0, 0, v), MkBit(w, FALSE))
  BY DEF GbInput
<1> DEFINE o == Operation("gin", 0, 0, v)
           b == MkBit(w, FALSE)
           n == Len(program) + 1
           k == Len(garbler_inputs) + 1
<1>2. o \in ABS!Operation /\ ABS!WellFormed(o, Len(program)) /\ o.op = "gin" /\ o.v = v
  BY DEF Operation, ABS!Operation, ABS!WellFormed, ABS!Kinds
<1>3. /\ garbler_inputs' \in Seq(Label) /\ Len(garbler_inputs') = k
      /\ garbler_inputs'[k] = Find_Wire(w, v, delta)
      /\ Extends(garbler_inputs', garbler_inputs) /\ k \in Nat \ {0}
  <2>1. garbler_inputs \in Seq(Label) /\ Find_Wire(w, v, delta) \in Label
    BY GarblerTypes, DrawnLabel
  <2>2. garbler_inputs' = Append(garbler_inputs, Find_Wire(w, v, delta))
    BY <1>1
  <2> QED
    BY <2>1, <2>2, AppendedLabel
<1>4. Grown(o, b)
  BY <1>1, <1>2, <1>3, GarblerTypes, DrawnLabel, ExtendsItself DEF Grown
<1>5. ~ b.isConstant /\ b.wire = w
  BY DEF MkBit
<1>6. n \in Nat /\ n \in 1 .. n
  BY GarblerTypes
<1>7. ABS!ClearValue(o, clear) = v
  BY <1>2 DEF ABS!ClearValue
<1> HIDE DEF o, b
<1> SUFFICES ASSUME NEW i \in Nat, i = n
             PROVE  LeftFor(i)'
  BY <1>4, <1>5, <1>6, GrownInvariant
<1>8. /\ program'[i] = o /\ clear'[i] = v /\ gb'[i] = b /\ delta' = delta
      /\ counters'[i] = [material |-> gb_material_id', gin |-> Len(garbler_inputs'),
                         ein |-> Len(evaluator_inputs_false')]
      /\ Before(i)' = Before(i)
  BY <1>4, <1>6, <1>7, GarblerTypes, EmitFacts
<1>9. Before(i) = [material |-> gb_material_id, gin |-> Len(garbler_inputs),
                   ein |-> Len(evaluator_inputs_false)]
  BY GarblerTypes DEF GarbledCircuit
<1>10. LeftForGarblerInput(i)'
  <2>1. counters'[i] = [material |-> gb_material_id, gin |-> k,
                        ein |-> Len(evaluator_inputs_false)]
    BY <1>1, <1>3, <1>8
  <2>2. counters'[i].gin = k /\ k \in 1 .. Len(garbler_inputs')
    BY <2>1, <1>3
  <2>3. counters'[i] = [Before(i)' EXCEPT !.gin = @ + 1]
    BY <2>1, <1>8, <1>9
  <2> HIDE DEF k
  <2> QED
    BY <2>2, <2>3, <1>3, <1>5, <1>8 DEF LeftForGarblerInput
<1> QED
  BY <1>2, <1>8, <1>10 DEF LeftFor

\* An input bit of Bob's: a pair of labels is put aside
LEMMA GbEvaluatorInputStep ==
  ASSUME InductiveInvariant, GbEvaluatorInput PROVE InductiveInvariant'
<1>1. PICK v \in BOOLEAN, w \in Draws :
        /\ evaluator_inputs_false' = Append(evaluator_inputs_false, w)
        /\ evaluator_inputs_true' = Append(evaluator_inputs_true, Xor(w, delta))
        /\ choice_bits' = Append(choice_bits, v)
        /\ UNCHANGED <<garbler_inputs, material_buffer, gb_material_id>>
        /\ GbEmit(Operation("ein", 0, 0, v), MkBit(w, FALSE))
  BY DEF GbEvaluatorInput
<1> DEFINE o == Operation("ein", 0, 0, v)
           b == MkBit(w, FALSE)
           n == Len(program) + 1
           k == Len(evaluator_inputs_false) + 1
<1>2. o \in ABS!Operation /\ ABS!WellFormed(o, Len(program)) /\ o.op = "ein" /\ o.v = v
  BY DEF Operation, ABS!Operation, ABS!WellFormed, ABS!Kinds
<1>3. /\ evaluator_inputs_false' \in Seq(Label) /\ Len(evaluator_inputs_false') = k
      /\ evaluator_inputs_false'[k] = w
      /\ Extends(evaluator_inputs_false', evaluator_inputs_false)
  <2>1. evaluator_inputs_false \in Seq(Label) /\ w \in Label
    BY GarblerTypes, DrawnLabel
  <2> QED
    BY <1>1, <2>1, AppendedLabel
<1>4. /\ evaluator_inputs_true' \in Seq(Label) /\ Len(evaluator_inputs_true') = k
      /\ evaluator_inputs_true'[k] = Xor(w, delta)
      /\ Extends(evaluator_inputs_true', evaluator_inputs_true)
  <2>1. /\ evaluator_inputs_true \in Seq(Label) /\ Xor(w, delta) \in Label
        /\ Len(evaluator_inputs_true) = Len(evaluator_inputs_false)
    BY GarblerTypes, DrawnLabel
  <2>2. evaluator_inputs_true' = Append(evaluator_inputs_true, Xor(w, delta))
    BY <1>1
  <2> QED
    BY <2>1, <2>2, AppendedLabel
<1>5. /\ choice_bits' \in Seq(BOOLEAN) /\ Len(choice_bits') = k /\ choice_bits'[k] = v
      /\ Extends(choice_bits', choice_bits)
  BY <1>1, GarblerTypes, Appended
<1>6. Grown(o, b)
  BY <1>1, <1>2, <1>3, <1>4, <1>5, GarblerTypes, DrawnLabel, ExtendsItself DEF Grown
<1>7. ~ b.isConstant /\ b.wire = w
  BY DEF MkBit
<1>8. n \in Nat /\ n \in 1 .. n /\ k \in 1 .. k
  BY GarblerTypes, LenProperties
<1>9. ABS!ClearValue(o, clear) = v
  BY <1>2 DEF ABS!ClearValue
<1> HIDE DEF o, b
<1> SUFFICES ASSUME NEW i \in Nat, i = n
             PROVE  LeftFor(i)'
  BY <1>6, <1>7, <1>8, GrownInvariant
<1>10. /\ program'[i] = o /\ clear'[i] = v /\ gb'[i] = b /\ delta' = delta
       /\ counters'[i] = [material |-> gb_material_id', gin |-> Len(garbler_inputs'),
                          ein |-> Len(evaluator_inputs_false')]
       /\ Before(i)' = Before(i)
  BY <1>6, <1>8, <1>9, GarblerTypes, EmitFacts
<1>11. Before(i) = [material |-> gb_material_id, gin |-> Len(garbler_inputs),
                    ein |-> Len(evaluator_inputs_false)]
  BY GarblerTypes DEF GarbledCircuit
<1>12. LeftForEvaluatorInput(i)'
  <2>1. counters'[i] = [material |-> gb_material_id, gin |-> Len(garbler_inputs), ein |-> k]
    BY <1>1, <1>3, <1>10
  <2>2. counters'[i].ein = k
    BY <2>1
  <2>3. counters'[i] = [Before(i)' EXCEPT !.ein = @ + 1]
    BY <2>1, <1>10, <1>11
  <2> HIDE DEF k
  <2> QED
    BY <2>2, <2>3, <1>3, <1>4, <1>5, <1>7, <1>8, <1>10 DEF LeftForEvaluatorInput
<1> QED
  BY <1>2, <1>10, <1>12 DEF LeftFor

\* The early returns of operator&: a bit, and a constant only with the right label
LEMMA GbShortAndBit ==
  ASSUME InductiveInvariant, NEW l \in 1 .. Len(gb), NEW r \in 1 .. Len(gb),
         gb[l].isConstant \/ gb[r].isConstant
  PROVE  LET b == GbShortAnd(gb[l], gb[r])
         IN  /\ b \in Bit
             /\ b.isConstant => b.wire = IF clear[l] /\ clear[r] THEN delta ELSE ZeroLabel
<1> DEFINE a == gb[l]
           c == gb[r]
<1>1. /\ a \in Bit /\ a.wire \in Label /\ a.isConstant \in BOOLEAN /\ clear[l] \in BOOLEAN
      /\ a.isConstant => a.wire = IF clear[l] THEN delta ELSE ZeroLabel
  BY WireOf
<1>2. /\ c \in Bit /\ c.wire \in Label /\ c.isConstant \in BOOLEAN /\ clear[r] \in BOOLEAN
      /\ c.isConstant => c.wire = IF clear[r] THEN delta ELSE ZeroLabel
  BY WireOf
<1>3. delta # ZeroLabel /\ delta \in Label /\ ZeroLabel \in Label
  BY GarblerTypes, OneIsLabel
<1>4. CASE a.isConstant /\ c.isConstant
  <2>1. GbShortAnd(a, c) = MkBit(a.wire \cap c.wire, TRUE)
    BY <1>4 DEF GbShortAnd
  <2>2. a.wire \cap c.wire = IF clear[l] /\ clear[r] THEN delta ELSE ZeroLabel
    BY <1>4, <1>1, <1>2 DEF ZeroLabel
  <2> DEFINE w == a.wire \cap c.wire
  <2>3. w = (IF clear[l] /\ clear[r] THEN delta ELSE ZeroLabel) /\ w \in Label
    BY <2>2, <1>3
  <2> HIDE DEF w
  <2>4. MkBit(w, TRUE) \in Bit /\ MkBit(w, TRUE).wire = w
    BY <2>3 DEF MkBit, Bit
  <2> QED
    BY <2>1, <2>3, <2>4 DEF w
<1>5. CASE a.isConstant /\ ~ c.isConstant
  <2>1. GbShortAnd(a, c) = IF a.wire = ZeroLabel THEN GbConstantBit(FALSE) ELSE c
    BY <1>5 DEF GbShortAnd
  <2>2. CASE a.wire = ZeroLabel
    <3>1. ~ clear[l]
      BY <2>2, <1>1, <1>3, <1>5
    <3> QED
      BY <2>1, <2>2, <3>1, <1>3 DEF GbConstantBit, MkBit, Bit
  <2>3. CASE a.wire # ZeroLabel
    BY <2>1, <2>3, <1>2, <1>5
  <2> QED
    BY <2>2, <2>3
<1>6. CASE ~ a.isConstant /\ c.isConstant
  <2>1. GbShortAnd(a, c) = IF c.wire = ZeroLabel THEN GbConstantBit(FALSE) ELSE a
    BY <1>6 DEF GbShortAnd
  <2>2. CASE c.wire = ZeroLabel
    <3>1. ~ (clear[l] /\ clear[r])
      BY <2>2, <1>2, <1>3, <1>6
    <3> QED
      BY <2>1, <2>2, <3>1, <1>3 DEF GbConstantBit, MkBit, Bit
  <2>3. CASE c.wire # ZeroLabel
    BY <2>1, <2>3, <1>1, <1>6
  <2> QED
    BY <2>2, <2>3
<1> QED
  BY <1>1, <1>4, <1>5, <1>6

\* The operands of an operation are not moved by appending its wire
LEMMA LocalLeft ==
  ASSUME InductiveInvariant, NEW o \in ABS!Operation, ABS!WellFormed(o, Len(program)),
         NEW b \in Bit, GbLocal(o, b), NEW n \in Nat, n = Len(program) + 1
  PROVE  /\ Grown(o, b) /\ counters'[n] = Before(n)'
         /\ program'[n] = o /\ gb'[n] = b /\ delta' = delta
         /\ \A i \in 1 .. Len(gb) : gb'[i] = gb[i]
<1>1. Grown(o, b) /\ counters'[n] = Before(n)'
  BY LocalGrown
<1> QED
  BY <1>1, GarblerTypes, EmitFacts DEF Extends

\* A constant: nothing is put aside
LEMMA GbConstantStep == ASSUME InductiveInvariant, GbConstant PROVE InductiveInvariant'
<1>1. PICK v \in BOOLEAN : GbLocal(Operation("const", 0, 0, v), GbConstantBit(v))
  BY DEF GbConstant
<1> DEFINE o == Operation("const", 0, 0, v)
           b == GbConstantBit(v)
<1>2. o \in ABS!Operation /\ ABS!WellFormed(o, Len(program)) /\ o.op = "const" /\ o.v = v
  BY DEF Operation, ABS!Operation, ABS!WellFormed, ABS!Kinds
<1>3. b \in Bit /\ b.wire = IF v THEN delta ELSE ZeroLabel
  BY GarblerTypes, OneIsLabel DEF GbConstantBit, MkBit, Bit
<1>4. ABS!ClearValue(o, clear) = v
  BY <1>2 DEF ABS!ClearValue
<1>7. GbLocal(o, b)
  BY <1>1
<1> HIDE DEF o
<1> SUFFICES ASSUME NEW n \in Nat, n = Len(program) + 1
             PROVE  Grown(o, b) /\ LeftFor(n)'
  BY <1>3, <1>4, GarblerTypes, GrownInvariant
<1>5. /\ Grown(o, b) /\ counters'[n] = Before(n)' /\ program'[n] = o /\ gb'[n] = b
      /\ delta' = delta
  BY <1>2, <1>3, <1>7, LocalLeft
<1>6. LeftForOther(n)'
  BY <1>2, <1>5 DEF LeftForOther, GbConstantBit
<1> QED
  BY <1>2, <1>5, <1>6 DEF LeftFor

\* The early returns of operator&: no row is pushed
LEMMA GbAndConstantStep ==
  ASSUME InductiveInvariant, GbAndConstant PROVE InductiveInvariant'
<1>1. PICK l \in 1 .. Len(gb), r \in 1 .. Len(gb) :
        /\ gb[l].isConstant \/ gb[r].isConstant
        /\ GbLocal(Operation("and", l, r, FALSE), GbShortAnd(gb[l], gb[r]))
  BY DEF GbAndConstant
<1> DEFINE o == Operation("and", l, r, FALSE)
           b == GbShortAnd(gb[l], gb[r])
<1>0. l \in Nat /\ r \in Nat /\ l \in 1 .. Len(program) /\ r \in 1 .. Len(program)
  BY WireOf
<1>2. o \in ABS!Operation /\ ABS!WellFormed(o, Len(program)) /\ o.op = "and"
      /\ o.l = l /\ o.r = r
  BY <1>0 DEF Operation, ABS!Operation, ABS!WellFormed, ABS!Kinds
<1>3. b \in Bit /\ (b.isConstant => b.wire = IF clear[l] /\ clear[r] THEN delta ELSE ZeroLabel)
  BY <1>1, GbShortAndBit
<1>4. b.isConstant => b.wire = IF ABS!ClearValue(o, clear) THEN delta ELSE ZeroLabel
  <2>1. ABS!ClearValue(o, clear) = (clear[l] /\ clear[r])
    BY <1>2 DEF ABS!ClearValue
  <2> HIDE DEF o, b
  <2> QED
    BY <2>1, <1>3
<1>7. GbLocal(o, b)
  BY <1>1
<1> HIDE DEF o, b
<1> SUFFICES ASSUME NEW n \in Nat, n = Len(program) + 1
             PROVE  Grown(o, b) /\ LeftFor(n)'
  BY <1>3, <1>4, GarblerTypes, GrownInvariant
<1>5. /\ Grown(o, b) /\ counters'[n] = Before(n)' /\ program'[n] = o /\ gb'[n] = b
      /\ delta' = delta /\ gb'[l] = gb[l] /\ gb'[r] = gb[r]
  BY <1>7, <1>2, <1>3, LocalLeft
<1>6. LeftForAnd(n)'
  <2>1. (gb[l].isConstant \/ gb[r].isConstant) /\ b = GbShortAnd(gb[l], gb[r])
    BY <1>1 DEF b
  <2> QED
    BY <2>1, <1>2, <1>5, ZenonT(60) DEF LeftForAnd, GbShortAnd, GbConstantBit
<1> QED
  BY <1>2, <1>5, <1>6 DEF LeftFor

\* Free XOR
LEMMA GbXorStep == ASSUME InductiveInvariant, GbXor PROVE InductiveInvariant'
<1>1. PICK l \in 1 .. Len(gb), r \in 1 .. Len(gb) :
        GbLocal(Operation("xor", l, r, FALSE),
                MkBit(Xor(gb[l].wire, gb[r].wire), gb[l].isConstant /\ gb[r].isConstant))
  BY DEF GbXor
<1> DEFINE o == Operation("xor", l, r, FALSE)
           b == MkBit(Xor(gb[l].wire, gb[r].wire), gb[l].isConstant /\ gb[r].isConstant)
<1>0. l \in Nat /\ r \in Nat /\ l \in 1 .. Len(program) /\ r \in 1 .. Len(program)
  BY WireOf
<1>2. o \in ABS!Operation /\ ABS!WellFormed(o, Len(program)) /\ o.op = "xor"
      /\ o.l = l /\ o.r = r
  BY <1>0 DEF Operation, ABS!Operation, ABS!WellFormed, ABS!Kinds
<1>3. b \in Bit
  BY WireOf, XorLabel DEF MkBit, Bit
<1>4. b.isConstant => b.wire = IF ABS!ClearValue(o, clear) THEN delta ELSE ZeroLabel
  <2>1. ABS!ClearValue(o, clear) = (clear[l] # clear[r])
    BY <1>2 DEF ABS!ClearValue
  <2>2. b.isConstant => b.wire = IF clear[l] # clear[r] THEN delta ELSE ZeroLabel
    BY WireOf DEF MkBit, Xor, ZeroLabel
  <2> HIDE DEF o, b
  <2> QED
    BY <2>1, <2>2
<1>5. GbLocal(o, b)
  BY <1>1
<1> HIDE DEF o, b
<1> SUFFICES ASSUME NEW n \in Nat, n = Len(program) + 1
             PROVE  Grown(o, b) /\ LeftFor(n)'
  BY <1>3, <1>4, GarblerTypes, GrownInvariant
<1>6. /\ Grown(o, b) /\ counters'[n] = Before(n)' /\ program'[n] = o /\ gb'[n] = b
      /\ delta' = delta /\ gb'[l] = gb[l] /\ gb'[r] = gb[r]
  BY <1>5, <1>2, <1>3, LocalLeft
<1>7. LeftForOther(n)'
  BY <1>2, <1>6 DEF LeftForOther, b
<1> QED
  BY <1>2, <1>6, <1>7 DEF LeftFor

\* NOT is a shift by the offset
LEMMA GbNotStep == ASSUME InductiveInvariant, GbNot PROVE InductiveInvariant'
<1>1. PICK l \in 1 .. Len(gb) :
        GbLocal(Operation("not", l, 0, FALSE), MkBit(Xor(gb[l].wire, delta), gb[l].isConstant))
  BY DEF GbNot
<1> DEFINE o == Operation("not", l, 0, FALSE)
           b == MkBit(Xor(gb[l].wire, delta), gb[l].isConstant)
<1>0. l \in Nat /\ l \in 1 .. Len(program)
  BY WireOf
<1>2. o \in ABS!Operation /\ ABS!WellFormed(o, Len(program)) /\ o.op = "not" /\ o.l = l
  BY <1>0 DEF Operation, ABS!Operation, ABS!WellFormed, ABS!Kinds
<1>3. b \in Bit
  BY WireOf, XorLabel, GarblerTypes DEF MkBit, Bit
<1>4. b.isConstant => b.wire = IF ABS!ClearValue(o, clear) THEN delta ELSE ZeroLabel
  <2>1. ABS!ClearValue(o, clear) = ~ clear[l]
    BY <1>2 DEF ABS!ClearValue
  <2>2. b.isConstant => b.wire = IF ~ clear[l] THEN delta ELSE ZeroLabel
    BY WireOf DEF MkBit, Xor, ZeroLabel
  <2> HIDE DEF o, b
  <2> QED
    BY <2>1, <2>2
<1>5. GbLocal(o, b)
  BY <1>1
<1> HIDE DEF o, b
<1> SUFFICES ASSUME NEW n \in Nat, n = Len(program) + 1
             PROVE  Grown(o, b) /\ LeftFor(n)'
  BY <1>3, <1>4, GarblerTypes, GrownInvariant
<1>6. /\ Grown(o, b) /\ counters'[n] = Before(n)' /\ program'[n] = o /\ gb'[n] = b
      /\ delta' = delta /\ gb'[l] = gb[l]
  BY <1>5, <1>2, <1>3, LocalLeft
<1>7. LeftForOther(n)'
  BY <1>2, <1>6 DEF LeftForOther, b
<1> QED
  BY <1>2, <1>6, <1>7 DEF LeftFor

\* Comparison with a bit
LEMMA GbEqStep == ASSUME InductiveInvariant, GbEq PROVE InductiveInvariant'
<1>1. PICK l \in 1 .. Len(gb), v \in BOOLEAN :
        /\ ~ gb[l].isConstant
        /\ GbLocal(Operation("eqb", l, 0, v),
                   MkBit(IF v THEN gb[l].wire ELSE Xor(gb[l].wire, delta), FALSE))
  BY DEF GbEq
<1> DEFINE o == Operation("eqb", l, 0, v)
           b == MkBit(IF v THEN gb[l].wire ELSE Xor(gb[l].wire, delta), FALSE)
<1>0. l \in Nat /\ l \in 1 .. Len(program)
  BY WireOf
<1>2. o \in ABS!Operation /\ ABS!WellFormed(o, Len(program)) /\ o.op = "eqb"
      /\ o.l = l /\ o.v = v
  BY <1>0 DEF Operation, ABS!Operation, ABS!WellFormed, ABS!Kinds
<1>3. b \in Bit /\ ~ b.isConstant
  BY WireOf, XorLabel, GarblerTypes DEF MkBit, Bit
<1>6. GbLocal(o, b)
  BY <1>1
<1>7. Len(program) + 1 \in Nat
  BY GarblerTypes
<1> HIDE DEF o, b
<1> SUFFICES ASSUME NEW n \in Nat, n = Len(program) + 1
             PROVE  Grown(o, b) /\ LeftFor(n)'
  BY <1>3, <1>7, GrownInvariant
<1>4. /\ Grown(o, b) /\ counters'[n] = Before(n)' /\ program'[n] = o /\ gb'[n] = b
      /\ delta' = delta /\ gb'[l] = gb[l]
  BY <1>6, <1>2, <1>3, LocalLeft
<1>5. LeftForOther(n)'
  BY <1>1, <1>2, <1>4 DEF LeftForOther, b
<1> QED
  BY <1>2, <1>4, <1>5 DEF LeftFor

\* An AND: two rows are pushed, and read back at the same place
LEMMA GbAndStep == ASSUME InductiveInvariant, GbAnd PROVE InductiveInvariant'
<1>1. PICK l \in 1 .. Len(gb), r \in 1 .. Len(gb) :
        LET a == gb[l].wire
            c == gb[r].wire
            m == gb_material_id
        IN  /\ ~ gb[l].isConstant /\ ~ gb[r].isConstant
            /\ material_buffer' = material_buffer \o <<RowG(a, c, m), RowE(a, c, m)>>
            /\ gb_material_id' = m + 2
            /\ UNCHANGED inputVars
            /\ GbEmit(Operation("and", l, r, FALSE),
                      MkBit(HalfAnd(a, c, material_buffer'[m + 1],
                                    material_buffer'[m + 2], m), FALSE))
  BY DEF GbAnd
<1> DEFINE m == gb_material_id
           rg == RowG(gb[l].wire, gb[r].wire, m)
           re == RowE(gb[l].wire, gb[r].wire, m)
           o == Operation("and", l, r, FALSE)
           b == MkBit(HalfAnd(gb[l].wire, gb[r].wire, rg, re, m), FALSE)
<1>0. l \in Nat /\ r \in Nat /\ l \in 1 .. Len(program) /\ r \in 1 .. Len(program)
  BY WireOf
<1>2. o \in ABS!Operation /\ ABS!WellFormed(o, Len(program)) /\ o.op = "and"
      /\ o.l = l /\ o.r = r
  BY <1>0 DEF Operation, ABS!Operation, ABS!WellFormed, ABS!Kinds
<1>3. rg \in Label /\ re \in Label
  BY WireOf, GarblerTypes, RowLabels
<1>4. b \in Bit /\ ~ b.isConstant
  <2>1. HalfAnd(gb[l].wire, gb[r].wire, rg, re, m) \in Label
    BY <1>3, WireOf, GarblerTypes, HalfLabel
  <2> QED
    BY <2>1 DEF MkBit, Bit
<1>5. /\ material_buffer' \in Seq(Label) /\ Len(material_buffer') = m + 2
      /\ material_buffer'[m + 1] = rg /\ material_buffer'[m + 2] = re
      /\ Extends(material_buffer', material_buffer)
  <2> HIDE DEF rg, re
  <2>1. material_buffer' = material_buffer \o <<rg, re>>
    BY <1>1 DEF rg, re
  <2>2. material_buffer \in Seq(Label) /\ Len(material_buffer) = m
    BY GarblerTypes
  <2> QED
    BY <2>1, <2>2, <1>3, AppendedTwo
<1>6. GbEmit(o, b)
  BY <1>1, <1>5
<1>7. Grown(o, b)
  <2>1. UNCHANGED <<garbler_inputs, evaluator_inputs_false, evaluator_inputs_true, choice_bits>>
    BY <1>1 DEF inputVars
  <2>2. gb_material_id' = m + 2 /\ gb_material_id' \in Nat
    BY <1>1, GarblerTypes
  <2> HIDE DEF o, b, rg, re, m
  <2> QED
    BY <2>1, <2>2, <1>2, <1>4, <1>5, <1>6, GarblerTypes, ExtendsItself DEF Grown
<1> HIDE DEF o, b
<1> SUFFICES ASSUME NEW n \in Nat, n = Len(program) + 1
             PROVE  LeftFor(n)'
  BY <1>4, <1>7, GarblerTypes, GrownInvariant
<1>8. /\ program'[n] = o /\ gb'[n] = b /\ delta' = delta /\ key' = key
      /\ counters'[n] = [material |-> gb_material_id', gin |-> Len(garbler_inputs'),
                         ein |-> Len(evaluator_inputs_false')]
      /\ Before(n)' = Before(n) /\ gb'[l] = gb[l] /\ gb'[r] = gb[r]
  BY <1>7, GarblerTypes, EmitFacts DEF Extends
<1>9. Before(n) = [material |-> m, gin |-> Len(garbler_inputs),
                   ein |-> Len(evaluator_inputs_false)]
  BY GarblerTypes DEF GarbledCircuit
<1>10. Before(n)'.material = m /\ counters'[n] = [Before(n)' EXCEPT !.material = @ + 2]
  <2>1. counters'[n] = [material |-> m + 2, gin |-> Len(garbler_inputs),
                        ein |-> Len(evaluator_inputs_false)]
    BY <1>1, <1>8 DEF inputVars
  <2>2. Before(n)' = [material |-> m, gin |-> Len(garbler_inputs),
                      ein |-> Len(evaluator_inputs_false)]
    BY <1>8, <1>9
  <2> QED
    BY <2>1, <2>2
<1>11. LeftForAnd(n)'
  <2>1. m \in Nat /\ m + 2 <= Len(material_buffer')
    BY <1>5, GarblerTypes
  <2>2. /\ gb'[program'[n].l] = gb[l] /\ gb'[program'[n].r] = gb[r]
        /\ ~ (gb[l].isConstant \/ gb[r].isConstant)
    BY <1>1, <1>2, <1>8
  <2> DEFINE p == Before(n)'.material
             a == gb'[program'[n].l]
             c == gb'[program'[n].r]
  <2>3. /\ material_buffer'[p + 1] = RowG(a.wire, c.wire, p)
        /\ material_buffer'[p + 2] = RowE(a.wire, c.wire, p)
        /\ gb'[n] = MkBit(HalfAnd(a.wire, c.wire, RowG(a.wire, c.wire, p),
                                 RowE(a.wire, c.wire, p), p), FALSE)
        /\ p + 2 <= Len(material_buffer')
    BY <2>1, <2>2, <1>5, <1>8, <1>10 DEF b
  <2> QED
    BY <1>8, <1>10, <2>2, <2>3, ZenonT(30) DEF LeftForAnd, RowG, RowE, HalfAnd, H
<1> QED
  BY <1>2, <1>8, <1>11 DEF LeftFor

\* All operations of Alice
LEMMA GarbleStep == ASSUME InductiveInvariant, Garble PROVE InductiveInvariant'
BY GbInputStep, GbEvaluatorInputStep, GbConstantStep, GbAndConstantStep, GbAndStep,
   GbXorStep, GbNotStep, GbEqStep DEF Garble

-----------------------------------------------------------------------------
(* Steps that leave the garbled circuit as it is *)

\* Everything that GarbledCircuit speaks of
circuitAndBuffers == <<key, delta, circuitVars, material_buffer, gb_material_id, inputVars>>

\* The circuit and what was put aside, in a step that writes none of it
LEMMA CircuitUnchanged ==
  ASSUME GarbledCircuit, UNCHANGED circuitAndBuffers
  PROVE  GarbledCircuit'
<1>1. /\ UNCHANGED <<key, delta, program, clear, gb, counters, material_buffer>>
      /\ UNCHANGED <<gb_material_id, garbler_inputs, evaluator_inputs_false>>
      /\ UNCHANGED <<evaluator_inputs_true, choice_bits>>
  BY DEF circuitAndBuffers, circuitVars, inputVars
<1>2. ASSUME NEW i PROVE Garbled(i)' <=> Garbled(i)
  <2>1. Before(i)' = Before(i)
    BY <1>1 DEF Before
  <2>2. LeftForGarblerInput(i)' <=> LeftForGarblerInput(i)
    BY <1>1, <2>1 DEF LeftForGarblerInput
  <2>3. LeftForEvaluatorInput(i)' <=> LeftForEvaluatorInput(i)
    BY <1>1, <2>1 DEF LeftForEvaluatorInput
  <2>4. LeftForAnd(i)' <=> LeftForAnd(i)
    BY <1>1, <2>1 DEF LeftForAnd, RowG, RowE, HalfAnd, H, GbShortAnd, GbConstantBit
  <2>5. LeftForOther(i)' <=> LeftForOther(i)
    BY <1>1, <2>1 DEF LeftForOther, GbConstantBit
  <2>6. LeftFor(i)' <=> LeftFor(i)
    BY <1>1, <2>2, <2>3, <2>4, <2>5 DEF LeftFor
  <2> QED
    BY <1>1, <2>6 DEF Garbled
<1>3. ASSUME NEW i PROVE Before(i)' = Before(i)
  BY <1>1 DEF Before
<1> QED
  BY <1>1, <1>2, <1>3 DEF GarbledCircuit

\* The decoding table, in a step that reveals nothing
LEMMA TableUnchanged ==
  ASSUME TableFilled, UNCHANGED <<key, delta, gb, outputs, output_decoding_table>>
  PROVE  TableFilled'
BY DEF TableFilled, OutputRows, H

\* Bob's labels, in a step in which he computes none
LEMMA LabelsUnchanged ==
  ASSUME LabelsEncode, UNCHANGED <<delta, gb, clear, ev>>
  PROVE  LabelsEncode'
BY DEF LabelsEncode, Encodes

\* Reveal fills two bits that no earlier output has
LEMMA RevealTable ==
  ASSUME InductiveInvariant, GbReveal
  PROVE  output_decoding_table' \in Seq(TableEntry) /\ TableFilled'
<1> DEFINE n == Len(outputs)
           q == n \div Slots
           r == n % Slots
           Zeros == [p \in 0 .. 2 * Slots - 1 |-> FALSE]
           T == output_decoding_table
           U == IF r = 0 THEN Append(T, Zeros) ELSE T
<1>1. PICK i \in 1 .. Len(gb) :
        /\ ~ gb[i].isConstant /\ outputs' = Append(outputs, i)
        /\ T' = [U EXCEPT ![q + 1] =
                   [@ EXCEPT ![OutputBit(n)] = OutputRows(gb[i].wire, n)[1],
                             ![OutputBit(n) + 1] = OutputRows(gb[i].wire, n)[2]]]
        /\ UNCHANGED <<key, delta, gb>>
  BY DEF GbReveal, circuitVars
<1>2. /\ T \in Seq(TableEntry) /\ outputs \in Seq(1 .. Len(gb)) /\ n \in Nat
      /\ TableFilled
  BY DEF InductiveInvariant, TypeOK, GarbledCircuit
<1>3. Slots \in Nat \ {0} /\ r \in 0 .. Slots - 1 /\ q \in Nat
  BY <1>2, SlotsAssumption, DivMod
<1>4. /\ r = 0 => Len(T) = q
      /\ r # 0 => Len(T) = q + 1
  BY <1>2 DEF TableFilled
<1>5. /\ U \in Seq(TableEntry) /\ Len(U) = q + 1
      /\ \A j \in 1 .. Len(T) : U[j] = T[j]
  <2>1. Zeros \in TableEntry
    BY DEF TableEntry
  <2>2. CASE r = 0
    <3> HIDE DEF Zeros, T
    <3> QED
      BY <1>2, <1>4, <2>1, <2>2, Appended DEF Extends
  <2>3. CASE r # 0
    BY <1>2, <1>4, <2>3
  <2> QED
    BY <2>2, <2>3
<1>6. outputs' \in Seq(1 .. Len(gb)) /\ Len(outputs') = n + 1 /\ outputs'[n + 1] = i
      /\ \A k \in 1 .. n : outputs'[k] = outputs[k]
  BY <1>1, <1>2, Appended DEF Extends
<1> DEFINE rows == OutputRows(gb[i].wire, n)
           c == OutputBit(n)
           E == [U[q + 1] EXCEPT ![c] = rows[1], ![c + 1] = rows[2]]
<1>7. U[q + 1] \in TableEntry /\ q + 1 \in 1 .. Len(U)
  <2>1. q + 1 \in 1 .. Len(U)
    BY <1>3, <1>5
  <2> HIDE DEF U, q
  <2> QED
    BY <2>1, <1>5, ElementOfSeq
<1>8. c = 2 * r /\ c \in 0 .. 2 * Slots - 1 /\ c + 1 \in 0 .. 2 * Slots - 1 /\ c # c + 1
  BY <1>3 DEF OutputBit
<1>9. rows[1] \in BOOLEAN /\ rows[2] \in BOOLEAN
  <2> DEFINE w == gb[i].wire
  <2>1. CASE ~ Color(w)
    BY <2>1 DEF OutputRows, Color
  <2>2. CASE Color(w)
    BY <2>2 DEF OutputRows, Color
  <2> QED
    BY <2>1, <2>2
<1> HIDE DEF U, q, rows, c
<1>10. /\ E \in TableEntry /\ E[c] = rows[1] /\ E[c + 1] = rows[2]
       /\ \A x \in (0 .. 2 * Slots - 1) \ {c, c + 1} : E[x] = U[q + 1][x]
  BY <1>7, <1>8, <1>9 DEF TableEntry
<1>11. T' = [U EXCEPT ![q + 1] = E]
  BY <1>1 DEF q, rows, c
<1> HIDE DEF E
<1>12. /\ T' \in Seq(TableEntry) /\ Len(T') = q + 1 /\ T'[q + 1] = E
       /\ \A j \in 1 .. q : T'[j] = U[j]
  <2> HIDE DEF T
  <2> QED
    BY <1>3, <1>5, <1>7, <1>10, <1>11
<1>13. /\ (n + 1) % Slots = 0 => Len(T') = (n + 1) \div Slots
       /\ (n + 1) % Slots # 0 => Len(T') = (n + 1) \div Slots + 1
  <2>1. /\ r = Slots - 1 => (n + 1) % Slots = 0 /\ (n + 1) \div Slots = q + 1
        /\ r # Slots - 1 => (n + 1) % Slots # 0 /\ (n + 1) \div Slots = q
    BY <1>2, <1>3, DivSuccessor DEF q
  <2> QED
    BY <1>12, <2>1
<1>14. ASSUME NEW k \in 0 .. n
       PROVE  LET w == gb[outputs'[k + 1]]
                  entry == T'[k \div Slots + 1]
                  pair == OutputRows(w.wire, k)
              IN  /\ ~ w.isConstant /\ k \div Slots + 1 \in 1 .. Len(T')
                  /\ entry[OutputBit(k)] = pair[1] /\ entry[OutputBit(k) + 1] = pair[2]
  <2>1. CASE k = n
    <3>1. q + 1 \in 1 .. Len(T') /\ outputs'[k + 1] = i /\ T'[q + 1] = E
      BY <2>1, <1>3, <1>6, <1>12
    <3>2. k \div Slots = q /\ OutputBit(k) = c /\ OutputRows(gb[i].wire, k) = rows
      BY <2>1 DEF q, rows, c
    <3> HIDE DEF T, n, r
    <3> QED
      BY <3>1, <3>2, <1>1, <1>10
  <2>2. CASE k # n
    <3> DEFINE qk == k \div Slots
               rk == k % Slots
    <3>1. k \in 0 .. n - 1 /\ k + 1 \in 1 .. n /\ k \in Nat
      BY <2>2, <1>2
    <3>2. outputs'[k + 1] = outputs[k + 1]
      BY <3>1, <1>6
    <3>3. /\ ~ gb[outputs[k + 1]].isConstant /\ qk + 1 \in 1 .. Len(T)
          /\ T[qk + 1][OutputBit(k)] = OutputRows(gb[outputs[k + 1]].wire, k)[1]
          /\ T[qk + 1][OutputBit(k) + 1] = OutputRows(gb[outputs[k + 1]].wire, k)[2]
      BY <3>1, <1>2 DEF TableFilled
    <3>4. /\ k = Slots * qk + rk /\ n = Slots * q + r /\ rk \in 0 .. Slots - 1 /\ qk \in Nat
      BY <3>1, <1>2, <1>3, DivMod DEF q
    <3> DEFINE ck == OutputBit(k)
    <3>5. ck = 2 * rk
      BY DEF OutputBit
    <3> HIDE DEF qk, rk, ck, r, T
    <3>6. U[qk + 1] = T[qk + 1] /\ qk + 1 \in 1 .. Len(T')
      <4>1. Len(T) <= q + 1 /\ Len(T) \in Nat
        BY <1>2, <1>3, <1>4
      <4> QED
        BY <4>1, <1>3, <1>5, <1>12, <3>3
    <3>7. CASE qk = q
      <4>1. rk # r
        BY <3>4, <3>7, <2>2
      <4>2. ck \in (0 .. 2 * Slots - 1) \ {c, c + 1} /\ ck + 1 \in (0 .. 2 * Slots - 1) \ {c, c + 1}
        BY <4>1, <3>4, <3>5, <1>3, <1>8
      <4>3. T'[qk + 1][ck] = T[qk + 1][ck] /\ T'[qk + 1][ck + 1] = T[qk + 1][ck + 1]
        BY <4>2, <3>6, <3>7, <1>10, <1>12
      <4> QED
        BY <4>3, <3>2, <3>3, <3>6 DEF ck, qk
    <3>8. CASE qk # q
      <4>1. qk + 1 \in 1 .. q
        BY <3>4, <3>6, <3>8, <1>3, <1>12
      <4>2. T'[qk + 1] = T[qk + 1]
        BY <4>1, <3>6, <1>12
      <4> QED
        BY <4>2, <3>2, <3>3, <3>6 DEF ck, qk
    <3> QED
      BY <3>7, <3>8
  <2> QED
    BY <2>1, <2>2
<1>15. TableFilled'
  <2>1. gb' = gb /\ key' = key /\ delta' = delta
    BY <1>1
  <2>2. Len(outputs') = n + 1 /\ 0 .. Len(outputs') - 1 = 0 .. n
    BY <1>2, <1>6
  <2> HIDE DEF n
  <2>3. /\ Len(outputs') % Slots = 0 => Len(T') = Len(outputs') \div Slots
        /\ Len(outputs') % Slots # 0 => Len(T') = Len(outputs') \div Slots + 1
    BY <2>2, <1>13
  <2>4. \A k \in 0 .. Len(outputs') - 1 :
          LET w == gb'[outputs'[k + 1]]
              entry == T'[k \div Slots + 1]
              pair == OutputRows(w.wire, k)
          IN  /\ ~ w.isConstant /\ k \div Slots + 1 \in 1 .. Len(T')
              /\ entry[OutputBit(k)] = pair[1] /\ entry[OutputBit(k) + 1] = pair[2]
    BY <2>1, <2>2, <1>14
  <2> QED
    BY <2>1, <2>3, <2>4 DEF TableFilled, OutputRows, H
<1> QED
  BY <1>12, <1>15

\* What the type invariant says of sequences and their lengths
LEMMA TypeFacts ==
  ASSUME TypeOK
  PROVE  /\ program \in Seq(ABS!Operation) /\ ev \in Seq(Bit) /\ gb \in Seq(Bit)
         /\ outputs \in Seq(1 .. Len(program)) /\ result_bits \in Seq(BOOLEAN)
         /\ Len(ev) \in Nat /\ Len(program) \in Nat /\ Len(outputs) \in Nat
         /\ Len(result_bits) \in Nat
<1>1. /\ program \in Seq(ABS!Operation) /\ ev \in Seq(Bit) /\ gb \in Seq(Bit)
      /\ outputs \in Seq(1 .. Len(program)) /\ result_bits \in Seq(BOOLEAN)
  BY DEF TypeOK
<1> QED
  BY <1>1, LenProperties

\* Reveal keeps the invariant
LEMMA GbRevealStep == ASSUME InductiveInvariant, GbReveal PROVE InductiveInvariant'
<1>0. TypeOK /\ GarbledCircuit /\ HandedOver /\ LabelsEncode
  BY DEF InductiveInvariant
<1>1. /\ phase \in {"garble", "reveal"} /\ phase' = "reveal"
      /\ UNCHANGED circuitAndBuffers /\ UNCHANGED evVars
  BY DEF GbReveal, circuitAndBuffers
<1>2. PICK i \in 1 .. Len(gb) : outputs' = Append(outputs, i)
  BY DEF GbReveal
<1>3. outputs' \in Seq(1 .. Len(program))
  BY <1>0, <1>2, Appended DEF TypeOK, GarbledCircuit
<1>4. output_decoding_table' \in Seq(TableEntry) /\ TableFilled'
  BY RevealTable
<1>5. TypeOK'
  BY <1>0, <1>1, <1>3, <1>4 DEF TypeOK, circuitAndBuffers, circuitVars, inputVars, evVars
<1>6. GarbledCircuit' /\ LabelsEncode'
  BY <1>0, <1>1, CircuitUnchanged, LabelsUnchanged DEF circuitAndBuffers, circuitVars, evVars
<1>7. HandedOver'
  <2>1. ev' = <<>> /\ result_bits' = <<>> /\ ev = <<>> /\ result_bits = <<>>
    BY <1>0, <1>1 DEF HandedOver, evVars
  <2>2. Before(1)' = Before(1)
    BY DEF Before
  <2>3. Len(outputs') \in Nat /\ Len(program') \in Nat
    <3>1. outputs' \in Seq(1 .. Len(program)) /\ program' \in Seq(ABS!Operation)
      BY <1>3, <1>5 DEF TypeOK
    <3> QED
      BY <3>1, LenProperties
  <2> QED
    BY <2>1, <2>2, <2>3, <1>0, <1>1 DEF HandedOver, evVars
<1> QED
  BY <1>4, <1>5, <1>6, <1>7 DEF InductiveInvariant

\* The hand-over keeps it: Bob gets the label of each pair for his bit
LEMMA TransferStep == ASSUME InductiveInvariant, Transfer PROVE InductiveInvariant'
<1>0. TypeOK /\ GarbledCircuit /\ TableFilled /\ HandedOver /\ LabelsEncode
  BY DEF InductiveInvariant
<1>1. /\ phase \in {"garble", "reveal"} /\ phase' = "evaluate"
      /\ UNCHANGED circuitAndBuffers /\ UNCHANGED tableVars
      /\ UNCHANGED <<ev, ev_material_id, garbler_input_idx, evaluator_input_idx>>
      /\ UNCHANGED <<ev_output_wire_idx, result_bits>>
  BY DEF Transfer, circuitAndBuffers
<1> DEFINE m == Len(evaluator_inputs_false)
           pick(i) == IF choice_bits[i] THEN evaluator_inputs_true[i]
                      ELSE evaluator_inputs_false[i]
<1>2. evaluator_inputs' = [i \in 1 .. m |-> pick(i)] /\ m \in Nat
  BY <1>0 DEF Transfer, TypeOK
<1>3. \A i \in 1 .. m : pick(i) \in Label
  BY <1>0, ElementOfSeq DEF TypeOK, GarbledCircuit
<1> HIDE DEF pick
<1>4. evaluator_inputs' \in Seq(Label) /\ Len(evaluator_inputs') = m
      /\ \A i \in 1 .. m : evaluator_inputs'[i] = pick(i)
  BY <1>2, <1>3
<1>5. TypeOK'
  BY <1>0, <1>1, <1>4 DEF TypeOK, circuitAndBuffers, circuitVars, inputVars, tableVars
<1>6. GarbledCircuit' /\ LabelsEncode' /\ TableFilled'
  BY <1>0, <1>1, CircuitUnchanged, LabelsUnchanged, TableUnchanged
     DEF circuitAndBuffers, circuitVars, tableVars
<1>7. HandedOver'
  <2>1. Before(Len(ev) + 1)' = Before(Len(ev) + 1)
    BY <1>1 DEF Before, circuitAndBuffers, circuitVars
  <2>2. choice_bits' = choice_bits /\ UNCHANGED <<evaluator_inputs_true, evaluator_inputs_false>>
        /\ program' = program
    BY <1>1 DEF circuitAndBuffers, circuitVars, inputVars
  <2>3. Len(evaluator_inputs') = Len(evaluator_inputs_false')
        /\ \A i \in 1 .. Len(evaluator_inputs') :
             evaluator_inputs'[i] = IF choice_bits'[i] THEN evaluator_inputs_true'[i]
                                    ELSE evaluator_inputs_false'[i]
    BY <2>2, <1>4 DEF pick
  <2> QED
    BY <2>1, <2>2, <2>3, <1>0, <1>1 DEF HandedOver, tableVars
<1> QED
  BY <1>5, <1>6, <1>7 DEF InductiveInvariant

-----------------------------------------------------------------------------
(* The evaluator *)

\* Bit b stands for wire i in Bob's hands
EncodesAs(b, i) ==
  /\ b.isConstant = gb[i].isConstant
  /\ IF gb[i].isConstant
     THEN b.wire = IF clear[i] THEN OneLabel ELSE ZeroLabel
     ELSE b.wire = Find_Wire(gb[i].wire, clear[i], delta)

\* A step of Bob keeps the invariant if he gets the right label, and moves his
\* counters as Alice moved hers
LEMMA EvEmitInvariant ==
  ASSUME InductiveInvariant, phase = "evaluate",
         NEW n \in Nat, n = Len(ev) + 1, n <= Len(program), NEW b \in Bit, EvEmit(b),
         EncodesAs(b, n),
         ev_material_id' \in Nat, garbler_input_idx' \in Nat, evaluator_input_idx' \in Nat,
         counters[n] = [material |-> ev_material_id', gin |-> garbler_input_idx',
                        ein |-> evaluator_input_idx']
  PROVE  InductiveInvariant'
<1>0. TypeOK /\ GarbledCircuit /\ TableFilled /\ HandedOver /\ LabelsEncode
  BY DEF InductiveInvariant
<1>1. /\ ev' = Append(ev, b) /\ phase' = phase
      /\ UNCHANGED circuitAndBuffers /\ UNCHANGED tableVars
      /\ UNCHANGED <<evaluator_inputs, ev_output_wire_idx, result_bits>>
  BY DEF EvEmit, circuitAndBuffers
<1>2. ev \in Seq(Bit) /\ Len(ev) \in Nat /\ Len(program) \in Nat
  BY <1>0, TypeFacts
<1>3. ev' \in Seq(Bit) /\ Len(ev') = n /\ ev'[n] = b /\ \A i \in 1 .. Len(ev) : ev'[i] = ev[i]
  BY <1>1, <1>2, Appended DEF Extends
<1>4. TypeOK'
  BY <1>0, <1>1, <1>3 DEF TypeOK, circuitAndBuffers, circuitVars, inputVars, tableVars
<1>5. GarbledCircuit' /\ TableFilled'
  BY <1>0, <1>1, CircuitUnchanged, TableUnchanged DEF circuitAndBuffers, circuitVars, tableVars
<1>6. LabelsEncode'
  <2>1. UNCHANGED <<gb, clear, delta>>
    BY <1>1 DEF circuitAndBuffers, circuitVars
  <2> SUFFICES ASSUME NEW i \in 1 .. n
               PROVE  Encodes(i)'
    BY <1>3 DEF LabelsEncode
  <2>2. CASE i = n
    <3>1. Garbled(n)
      BY <1>0, <1>2 DEF GarbledCircuit
    <3> QED
      BY <2>1, <2>2, <3>1, <1>3 DEF Encodes, EncodesAs, Garbled
  <2>3. CASE i # n
    <3>1. i \in 1 .. Len(ev) /\ Encodes(i)
      BY <2>3, <1>0, <1>2 DEF LabelsEncode
    <3> QED
      BY <3>1, <2>1, <1>3 DEF Encodes
  <2> QED
    BY <2>2, <2>3
<1>7. HandedOver'
  <2>1. Before(n + 1)' = counters[n]
    BY <1>1, <1>2 DEF Before, circuitAndBuffers, circuitVars
  <2>2. UNCHANGED <<choice_bits, evaluator_inputs_true, evaluator_inputs_false, program, outputs>>
    BY <1>1 DEF circuitAndBuffers, circuitVars, inputVars, tableVars
  <2>3. Len(result_bits) = 0 /\ Len(outputs) \in Nat
    BY <1>0, <1>2, TypeFacts DEF HandedOver
  <2> QED
    BY <2>1, <2>2, <2>3, <1>0, <1>1, <1>3 DEF HandedOver
<1> QED
  BY <1>4, <1>5, <1>6, <1>7 DEF InductiveInvariant

\* Where Bob stands before an operation
LEMMA EvFacts ==
  ASSUME InductiveInvariant, phase = "evaluate", Len(ev) < Len(program),
         NEW n, n = Len(ev) + 1
  PROVE  /\ n \in Nat /\ n \in 1 .. Len(program) /\ n <= Len(program)
         /\ Op = program[n] /\ Op \in ABS!Operation /\ ABS!WellFormed(Op, Len(ev))
         /\ Garbled(n) /\ clear[n] \in BOOLEAN
         /\ Before(n) = [material |-> ev_material_id, gin |-> garbler_input_idx,
                         ein |-> evaluator_input_idx]
         /\ ev_material_id \in Nat /\ garbler_input_idx \in Nat /\ evaluator_input_idx \in Nat
<1>0. TypeOK /\ GarbledCircuit /\ HandedOver
  BY DEF InductiveInvariant
<1>1. Len(ev) \in Nat /\ Len(program) \in Nat /\ program \in Seq(ABS!Operation)
  BY <1>0, TypeFacts
<1>2. n \in Nat /\ n \in 1 .. Len(program) /\ n <= Len(program) /\ n - 1 = Len(ev)
  BY <1>1
<1>3. Op = program[n] /\ Op \in ABS!Operation
  BY <1>1, <1>2, ElementOfSeq DEF Op
<1>4. ABS!WellFormed(Op, Len(ev))
  <2>1. ABS!WellFormed(program[n], n - 1)
    BY <1>0, <1>2 DEF TypeOK
  <2> QED
    BY <2>1, <1>2, <1>3
<1>5. Garbled(n) /\ clear[n] \in BOOLEAN
  <2>1. clear \in Seq(BOOLEAN) /\ Len(clear) = Len(program) /\ Garbled(n)
    BY <1>0, <1>2 DEF TypeOK, GarbledCircuit
  <2> QED
    BY <2>1, <1>2, ElementOfSeq
<1>6. ev_material_id \in Nat /\ garbler_input_idx \in Nat /\ evaluator_input_idx \in Nat
  BY <1>0 DEF TypeOK
<1> QED
  BY <1>0, <1>2, <1>3, <1>4, <1>5, <1>6 DEF HandedOver

\* A wire Bob has computed
LEMMA HeldBit ==
  ASSUME InductiveInvariant, NEW l \in 1 .. Len(ev)
  PROVE  /\ l \in 1 .. Len(gb) /\ EncodesAs(ev[l], l)
         /\ ev[l] \in Bit /\ ev[l].wire \in Label /\ ev[l].isConstant \in BOOLEAN
         /\ gb[l].wire \in Label /\ gb[l].isConstant \in BOOLEAN /\ clear[l] \in BOOLEAN
         /\ gb[l].isConstant => gb[l].wire = IF clear[l] THEN delta ELSE ZeroLabel
<1>0. TypeOK /\ GarbledCircuit /\ HandedOver /\ LabelsEncode
  BY DEF InductiveInvariant
<1>1. Len(ev) \in Nat /\ Len(program) \in Nat /\ ev \in Seq(Bit)
  BY <1>0, TypeFacts
<1>2. l \in 1 .. Len(gb)
  BY <1>0, <1>1 DEF HandedOver, GarbledCircuit
<1>3. EncodesAs(ev[l], l)
  BY <1>0 DEF LabelsEncode, Encodes, EncodesAs
<1>4. ev[l] \in Bit
  BY <1>1, ElementOfSeq
<1>5. ev[l].wire \in Label /\ ev[l].isConstant \in BOOLEAN
  BY <1>4 DEF Bit
<1> QED
  BY <1>2, <1>3, <1>4, <1>5, WireOf

\* Free XOR: the shifts add up, and a constant shifts the other operand
LEMMA XorShifts ==
  ASSUME NEW x, NEW y, NEW d, NEW u \in BOOLEAN, NEW v \in BOOLEAN
  PROVE  /\ Xor(Find_Wire(x, u, d), Find_Wire(y, v, d)) = Find_Wire(Xor(x, y), u # v, d)
         /\ x = (IF u THEN d ELSE ZeroLabel)
              => Find_Wire(y, v, d) = Find_Wire(Xor(x, y), u # v, d)
         /\ y = (IF v THEN d ELSE ZeroLabel)
              => Find_Wire(x, u, d) = Find_Wire(Xor(x, y), u # v, d)
BY DEF Xor, Find_Wire, ZeroLabel

\* Each operation of Bob keeps the invariant: an input bit of Alice's
LEMMA EvGarblerInputStep ==
  ASSUME InductiveInvariant, EvGarblerInput PROVE InductiveInvariant'
<1> DEFINE n == Len(ev) + 1
           b == MkBit(garbler_inputs[garbler_input_idx + 1], FALSE)
<1>1. /\ phase = "evaluate" /\ Len(ev) < Len(program) /\ Op.op = "gin"
      /\ EvEmit(b) /\ garbler_input_idx' = garbler_input_idx + 1
      /\ UNCHANGED <<ev_material_id, evaluator_input_idx>>
  BY DEF EvGarblerInput, Current, Op
<1>2. LeftForGarblerInput(n)
  BY <1>1, EvFacts DEF Garbled, LeftFor
<1>3. counters[n] = [material |-> ev_material_id', gin |-> garbler_input_idx',
                     ein |-> evaluator_input_idx']
  BY <1>1, <1>2, EvFacts DEF LeftForGarblerInput
<1>4. garbler_input_idx + 1 \in 1 .. Len(garbler_inputs)
      /\ garbler_inputs[garbler_input_idx + 1] = Find_Wire(gb[n].wire, clear[n], delta)
      /\ ~ gb[n].isConstant
  BY <1>1, <1>2, <1>3 DEF LeftForGarblerInput
<1>5. garbler_inputs[garbler_input_idx + 1] \in Label
  BY <1>4, GarblerTypes, ElementOfSeq
<1>6. b \in Bit /\ EncodesAs(b, n)
  <2>1. n \in 1 .. Len(gb)
    BY <1>1, EvFacts, GarblerTypes
  <2> QED
    BY <2>1, <1>4, <1>5, WireOf DEF MkBit, Bit, EncodesAs
<1> HIDE DEF b
<1> QED
  BY <1>1, <1>3, <1>6, EvFacts, EvEmitInvariant

\* An input bit of his own
LEMMA EvEvaluatorInputStep ==
  ASSUME InductiveInvariant, EvEvaluatorInput PROVE InductiveInvariant'
<1> DEFINE n == Len(ev) + 1
           k == evaluator_input_idx + 1
           b == MkBit(evaluator_inputs[k], FALSE)
<1>1. /\ phase = "evaluate" /\ Len(ev) < Len(program) /\ Op.op = "ein"
      /\ EvEmit(b) /\ evaluator_input_idx' = k
      /\ UNCHANGED <<ev_material_id, garbler_input_idx>>
  BY DEF EvEvaluatorInput, Current, Op
<1>2. LeftForEvaluatorInput(n)
  BY <1>1, EvFacts DEF Garbled, LeftFor
<1>3. counters[n] = [material |-> ev_material_id', gin |-> garbler_input_idx',
                     ein |-> evaluator_input_idx']
  BY <1>1, <1>2, EvFacts DEF LeftForEvaluatorInput
<1>4. /\ k \in 1 .. Len(evaluator_inputs_false) /\ ~ gb[n].isConstant
      /\ evaluator_inputs_false[k] = gb[n].wire
      /\ evaluator_inputs_true[k] = Xor(gb[n].wire, delta) /\ choice_bits[k] = clear[n]
  BY <1>1, <1>2, <1>3 DEF LeftForEvaluatorInput
<1>5. /\ k \in 1 .. Len(evaluator_inputs)
      /\ evaluator_inputs[k] = Find_Wire(gb[n].wire, clear[n], delta)
  BY <1>1, <1>4 DEF InductiveInvariant, HandedOver, Find_Wire
<1>6. evaluator_inputs[k] \in Label
  <2>1. evaluator_inputs \in Seq(Label)
    BY DEF InductiveInvariant, TypeOK
  <2> QED
    BY <2>1, <1>5, ElementOfSeq
<1>7. b \in Bit /\ EncodesAs(b, n)
  <2>1. n \in 1 .. Len(gb)
    BY <1>1, EvFacts, GarblerTypes
  <2> QED
    BY <2>1, <1>4, <1>5, <1>6, WireOf DEF MkBit, Bit, EncodesAs
<1> HIDE DEF b
<1> QED
  BY <1>1, <1>3, <1>7, EvFacts, EvEmitInvariant

\* Operations for which Alice put nothing aside
LEMMA EvLocalInvariant ==
  ASSUME InductiveInvariant, phase = "evaluate", Len(ev) < Len(program),
         NEW b \in Bit, EvLocal(b), NEW n, n = Len(ev) + 1,
         counters[n] = Before(n), EncodesAs(b, n)
  PROVE  InductiveInvariant'
<1>1. EvEmit(b) /\ UNCHANGED <<ev_material_id, garbler_input_idx, evaluator_input_idx>>
  BY DEF EvLocal
<1>2. counters[n] = [material |-> ev_material_id', gin |-> garbler_input_idx',
                     ein |-> evaluator_input_idx']
  BY <1>1, EvFacts
<1> QED
  BY <1>1, <1>2, EvFacts, EvEmitInvariant

\* A constant
LEMMA EvConstantStep == ASSUME InductiveInvariant, EvConstant PROVE InductiveInvariant'
<1> DEFINE n == Len(ev) + 1
           b == EvConstantBit(Op.v)
<1>1. phase = "evaluate" /\ Len(ev) < Len(program) /\ Op.op = "const" /\ EvLocal(b)
  BY DEF EvConstant, Current, Op
<1>2. /\ Op = program[n] /\ Op.v \in BOOLEAN /\ Garbled(n)
  BY <1>1, EvFacts DEF ABS!Operation
<1>3. LeftForOther(n) /\ clear[n] = Op.v
  BY <1>1, <1>2 DEF Garbled, LeftFor, ABS!ClearValue
<1>4. counters[n] = Before(n) /\ gb[n].isConstant
  BY <1>1, <1>2, <1>3 DEF LeftForOther, GbConstantBit, MkBit
<1>5. b \in Bit /\ EncodesAs(b, n)
  BY <1>2, <1>3, <1>4, OneIsLabel DEF EvConstantBit, MkBit, Bit, EncodesAs
<1> HIDE DEF b
<1> QED
  BY <1>1, <1>4, <1>5, EvLocalInvariant

\* Free XOR, with its two early returns
LEMMA EvXorStep == ASSUME InductiveInvariant, EvXor PROVE InductiveInvariant'
<1> DEFINE n == Len(ev) + 1
           l == Op.l
           r == Op.r
           b == EvXorBit(ev[l], ev[r])
<1>1. phase = "evaluate" /\ Len(ev) < Len(program) /\ Op.op = "xor" /\ EvLocal(b)
  BY DEF EvXor, Current, Op
<1>2. /\ Op = program[n] /\ Garbled(n) /\ l \in 1 .. Len(ev) /\ r \in 1 .. Len(ev)
  BY <1>1, EvFacts DEF ABS!WellFormed
<1>3. LeftForOther(n) /\ clear[n] = (clear[l] # clear[r])
  BY <1>1, <1>2 DEF Garbled, LeftFor, ABS!ClearValue
<1>4. /\ counters[n] = Before(n)
      /\ gb[n].wire = Xor(gb[l].wire, gb[r].wire)
      /\ gb[n].isConstant = (gb[l].isConstant /\ gb[r].isConstant)
  BY <1>1, <1>2, <1>3 DEF LeftForOther, MkBit
<1>5. b \in Bit /\ EncodesAs(b, n)
  <2> HIDE DEF n, l, r
  <2>1. /\ EncodesAs(ev[l], l) /\ EncodesAs(ev[r], r) /\ ev[l] \in Bit /\ ev[r] \in Bit
        /\ ev[l].wire \in Label /\ ev[r].wire \in Label
        /\ ev[l].isConstant \in BOOLEAN /\ ev[r].isConstant \in BOOLEAN
        /\ gb[l].isConstant \in BOOLEAN /\ gb[r].isConstant \in BOOLEAN
        /\ clear[l] \in BOOLEAN /\ clear[r] \in BOOLEAN
        /\ gb[l].isConstant => gb[l].wire = IF clear[l] THEN delta ELSE ZeroLabel
        /\ gb[r].isConstant => gb[r].wire = IF clear[r] THEN delta ELSE ZeroLabel
    BY <1>2, HeldBit
  <2>2. CASE ev[l].isConstant /\ ~ ev[r].isConstant
    <3>1. b = ev[r]
      BY <2>2 DEF EvXorBit
    <3>2. Find_Wire(gb[r].wire, clear[r], delta)
            = Find_Wire(Xor(gb[l].wire, gb[r].wire), clear[l] # clear[r], delta)
      <4>1. gb[l].wire = IF clear[l] THEN delta ELSE ZeroLabel
        BY <2>1, <2>2 DEF EncodesAs
      <4> QED
        BY <4>1, <2>1 DEF Xor, Find_Wire, ZeroLabel
    <3> QED
      BY <3>1, <3>2, <2>1, <2>2, <1>3, <1>4 DEF EncodesAs
  <2>3. CASE ~ ev[l].isConstant /\ ev[r].isConstant
    <3>1. b = ev[l]
      BY <2>3 DEF EvXorBit
    <3>2. Find_Wire(gb[l].wire, clear[l], delta)
            = Find_Wire(Xor(gb[l].wire, gb[r].wire), clear[l] # clear[r], delta)
      BY <2>1, <2>3, XorShifts DEF EncodesAs
    <3> QED
      BY <3>1, <3>2, <2>1, <2>3, <1>3, <1>4 DEF EncodesAs
  <2>4. CASE ev[l].isConstant = ev[r].isConstant
    <3>1. b = MkBit(Xor(ev[l].wire, ev[r].wire), ev[l].isConstant)
      BY <2>4, <2>1 DEF EvXorBit
    <3>2. Xor(ev[l].wire, ev[r].wire) \in Label
      BY <2>1, XorLabel
    <3>3. b \in Bit /\ b.wire = Xor(ev[l].wire, ev[r].wire) /\ b.isConstant = ev[l].isConstant
      BY <3>1, <3>2, <2>1 DEF MkBit, Bit
    <3>4. CASE ev[l].isConstant
      <4>1. /\ ev[l].wire = IF clear[l] THEN OneLabel ELSE ZeroLabel
            /\ ev[r].wire = IF clear[r] THEN OneLabel ELSE ZeroLabel
        BY <3>4, <2>1, <2>4 DEF EncodesAs
      <4>2. Xor(ev[l].wire, ev[r].wire) = IF clear[l] # clear[r] THEN OneLabel ELSE ZeroLabel
        BY <4>1, <2>1 DEF Xor, ZeroLabel
      <4>3. gb[n].isConstant
        BY <3>4, <2>1, <2>4, <1>4 DEF EncodesAs
      <4> HIDE DEF b
      <4> QED
        BY <3>3, <3>4, <4>2, <4>3, <1>3 DEF EncodesAs
    <3>5. CASE ~ ev[l].isConstant
      <4>1. /\ ev[l].wire = Find_Wire(gb[l].wire, clear[l], delta)
            /\ ev[r].wire = Find_Wire(gb[r].wire, clear[r], delta)
            /\ ~ gb[n].isConstant
        BY <3>5, <2>1, <2>4, <1>4 DEF EncodesAs
      <4>2. Xor(ev[l].wire, ev[r].wire)
              = Find_Wire(Xor(gb[l].wire, gb[r].wire), clear[l] # clear[r], delta)
        BY <4>1, <2>1, XorShifts
      <4>3. b.wire = Find_Wire(gb[n].wire, clear[n], delta)
        BY <3>3, <4>2, <1>3, <1>4
      <4> HIDE DEF b
      <4> QED
        BY <3>3, <3>5, <4>1, <4>3, <2>1, <1>4 DEF EncodesAs
    <3> QED
      BY <3>4, <3>5
  <2> QED
    BY <2>1, <2>2, <2>3, <2>4
<1> HIDE DEF b
<1> QED
  BY <1>1, <1>4, <1>5, EvLocalInvariant

\* NOT: nothing to do, Alice moved the label
LEMMA EvNotStep == ASSUME InductiveInvariant, EvNot PROVE InductiveInvariant'
<1> DEFINE n == Len(ev) + 1
           l == Op.l
           b == EvNotBit(ev[l])
<1>1. phase = "evaluate" /\ Len(ev) < Len(program) /\ Op.op = "not" /\ EvLocal(b)
  BY DEF EvNot, Current, Op
<1>2. Op = program[n] /\ Garbled(n) /\ l \in 1 .. Len(ev)
  BY <1>1, EvFacts DEF ABS!WellFormed
<1>3. LeftForOther(n) /\ clear[n] = ~ clear[l]
  BY <1>1, <1>2 DEF Garbled, LeftFor, ABS!ClearValue
<1>4. /\ counters[n] = Before(n)
      /\ gb[n].wire = Xor(gb[l].wire, delta) /\ gb[n].isConstant = gb[l].isConstant
  BY <1>1, <1>2, <1>3 DEF LeftForOther, MkBit
<1>5. b \in Bit /\ EncodesAs(b, n)
  <2> HIDE DEF n, l
  <2>1. /\ EncodesAs(ev[l], l) /\ ev[l] \in Bit /\ ev[l].wire \in Label
        /\ ev[l].isConstant \in BOOLEAN /\ clear[l] \in BOOLEAN
    BY <1>2, HeldBit
  <2>2. CASE ev[l].isConstant
    <3>1. ev[l].wire = (IF clear[l] THEN OneLabel ELSE ZeroLabel) /\ gb[n].isConstant
      BY <2>1, <2>2, <1>4 DEF EncodesAs
    <3>2. Color(ev[l].wire) <=> clear[l]
      BY <3>1, <2>1 DEF Color, OneLabel, ZeroLabel
    <3>3. b = MkBit(IF ~ Color(ev[l].wire) THEN OneLabel ELSE ZeroLabel, TRUE)
      BY <2>2 DEF EvNotBit, EvConstantBit
    <3> HIDE DEF b
    <3> QED
      BY <3>1, <3>2, <3>3, <1>3, OneIsLabel DEF MkBit, Bit, EncodesAs
  <2>3. CASE ~ ev[l].isConstant
    <3>1. ev[l].wire = Find_Wire(gb[l].wire, clear[l], delta) /\ ~ gb[n].isConstant
      BY <2>1, <2>3, <1>4 DEF EncodesAs
    <3>2. Find_Wire(gb[l].wire, clear[l], delta) = Find_Wire(Xor(gb[l].wire, delta), ~ clear[l], delta)
      BY <2>1 DEF Find_Wire, Xor
    <3>3. b = ev[l]
      BY <2>3 DEF EvNotBit
    <3> QED
      BY <3>1, <3>2, <3>3, <2>1, <2>3, <1>3, <1>4 DEF EncodesAs
  <2> QED
    BY <2>2, <2>3
<1> HIDE DEF b
<1> QED
  BY <1>1, <1>4, <1>5, EvLocalInvariant

\* Comparison with a bit
LEMMA EvEqStep == ASSUME InductiveInvariant, EvEq PROVE InductiveInvariant'
<1> DEFINE n == Len(ev) + 1
           l == Op.l
           b == ev[l]
<1>1. phase = "evaluate" /\ Len(ev) < Len(program) /\ Op.op = "eqb" /\ EvLocal(b)
  BY DEF EvEq, Current, Op
<1>2. Op = program[n] /\ Garbled(n) /\ l \in 1 .. Len(ev) /\ Op.v \in BOOLEAN
  BY <1>1, EvFacts DEF ABS!WellFormed, ABS!Operation
<1>3. LeftForOther(n) /\ clear[n] = (clear[l] = Op.v)
  BY <1>1, <1>2 DEF Garbled, LeftFor, ABS!ClearValue
<1>4. /\ counters[n] = Before(n) /\ ~ gb[l].isConstant /\ gb[n].isConstant = FALSE
      /\ gb[n].wire = IF Op.v THEN gb[l].wire ELSE Xor(gb[l].wire, delta)
  BY <1>1, <1>2, <1>3 DEF LeftForOther, MkBit
<1>5. b \in Bit /\ EncodesAs(b, n)
  <2>1. /\ EncodesAs(ev[l], l) /\ ev[l] \in Bit /\ clear[l] \in BOOLEAN
        /\ ev[l].isConstant = FALSE
    BY <1>2, <1>4, HeldBit DEF EncodesAs
  <2>2. Find_Wire(gb[l].wire, clear[l], delta)
          = Find_Wire(IF Op.v THEN gb[l].wire ELSE Xor(gb[l].wire, delta), clear[l] = Op.v, delta)
    <3> HIDE DEF n, l
    <3> QED
      BY <2>1, <1>2 DEF Find_Wire, Xor
  <2>3. ev[l].wire = Find_Wire(gb[n].wire, clear[n], delta)
    <3>1. ev[l].wire = Find_Wire(gb[l].wire, clear[l], delta)
      BY <2>1, <1>4 DEF EncodesAs
    <3> QED
      BY <3>1, <2>2, <1>3, <1>4
  <2> HIDE DEF n, l
  <2> QED
    BY <2>1, <2>3, <1>4 DEF EncodesAs
<1> HIDE DEF b
<1> QED
  BY <1>1, <1>4, <1>5, EvLocalInvariant

\* Both parties take the same early return, and it means the same to both
LEMMA ShortAndEncodes ==
  ASSUME InductiveInvariant, NEW l \in 1 .. Len(ev), NEW r \in 1 .. Len(ev), NEW n,
         ev[l].isConstant \/ ev[r].isConstant,
         gb[n] = GbShortAnd(gb[l], gb[r]), clear[n] = (clear[l] /\ clear[r])
  PROVE  EvShortAnd(ev[l], ev[r]) \in Bit /\ EncodesAs(EvShortAnd(ev[l], ev[r]), n)
<1> DEFINE a == ev[l]
           c == ev[r]
           b == EvShortAnd(a, c)
<1>1. /\ EncodesAs(a, l) /\ a \in Bit /\ a.isConstant \in BOOLEAN /\ clear[l] \in BOOLEAN
      /\ gb[l].isConstant = a.isConstant
      /\ gb[l].isConstant => gb[l].wire = IF clear[l] THEN delta ELSE ZeroLabel
      /\ a.isConstant => a.wire = IF clear[l] THEN OneLabel ELSE ZeroLabel
  BY HeldBit DEF EncodesAs
<1>2. /\ EncodesAs(c, r) /\ c \in Bit /\ c.isConstant \in BOOLEAN /\ clear[r] \in BOOLEAN
      /\ gb[r].isConstant = c.isConstant
      /\ gb[r].isConstant => gb[r].wire = IF clear[r] THEN delta ELSE ZeroLabel
      /\ c.isConstant => c.wire = IF clear[r] THEN OneLabel ELSE ZeroLabel
  BY HeldBit DEF EncodesAs
<1>3. delta # ZeroLabel /\ OneLabel # ZeroLabel /\ OneLabel \in Label /\ ZeroLabel \in Label
  BY GarblerTypes, OneIsLabel DEF OneLabel, ZeroLabel
<1> HIDE DEF a, c
<1>4. CASE a.isConstant /\ c.isConstant
  <2>1. b = MkBit(a.wire \cap c.wire, TRUE)
    BY <1>4 DEF EvShortAnd
  <2>2. gb[n].isConstant = TRUE
    BY <1>1, <1>2, <1>4 DEF GbShortAnd, MkBit
  <2>3. a.wire \cap c.wire = IF clear[n] THEN OneLabel ELSE ZeroLabel
    BY <1>1, <1>2, <1>4 DEF ZeroLabel
  <2>4. a.wire \cap c.wire \in Label
    BY <2>3, <1>3
  <2>5. b \in Bit /\ b.wire = a.wire \cap c.wire /\ b.isConstant = TRUE
    <3> DEFINE w == a.wire \cap c.wire
    <3> HIDE DEF w
    <3> QED
      BY <2>1, <2>4 DEF MkBit, Bit, w
  <2> HIDE DEF b
  <2> QED
    BY <2>2, <2>3, <2>5 DEF EncodesAs, b, a, c
<1>5. CASE a.isConstant /\ ~ c.isConstant
  <2>1. /\ b = IF a.wire = ZeroLabel THEN EvConstantBit(FALSE) ELSE c
        /\ gb[n] = IF gb[l].wire = ZeroLabel THEN GbConstantBit(FALSE) ELSE gb[r]
    BY <1>1, <1>2, <1>5 DEF EvShortAnd, GbShortAnd
  <2>2. CASE clear[l]
    <3>1. b = c /\ gb[n] = gb[r] /\ clear[n] = clear[r]
      BY <2>1, <2>2, <1>1, <1>2, <1>3, <1>5
    <3> HIDE DEF b
    <3> QED
      BY <3>1, <1>2 DEF EncodesAs, b, a, c
  <2>3. CASE ~ clear[l]
    <3>1. b = EvConstantBit(FALSE) /\ gb[n] = GbConstantBit(FALSE) /\ clear[n] = FALSE
      BY <2>1, <2>3, <1>1, <1>2, <1>3, <1>5
    <3>2. b \in Bit /\ b.isConstant = TRUE /\ b.wire = ZeroLabel /\ gb[n].isConstant = TRUE
      BY <3>1, <1>3 DEF EvConstantBit, GbConstantBit, MkBit, Bit
    <3> HIDE DEF b
    <3> QED
      BY <3>1, <3>2 DEF EncodesAs, b, a, c
  <2> QED
    BY <2>2, <2>3
<1>6. CASE ~ a.isConstant /\ c.isConstant
  <2>1. /\ b = IF c.wire = ZeroLabel THEN EvConstantBit(FALSE) ELSE a
        /\ gb[n] = IF gb[r].wire = ZeroLabel THEN GbConstantBit(FALSE) ELSE gb[l]
    BY <1>1, <1>2, <1>6 DEF EvShortAnd, GbShortAnd
  <2>2. CASE clear[r]
    <3>1. b = a /\ gb[n] = gb[l] /\ clear[n] = clear[l]
      BY <2>1, <2>2, <1>1, <1>2, <1>3, <1>6
    <3> HIDE DEF b
    <3> QED
      BY <3>1, <1>1 DEF EncodesAs, b, a, c
  <2>3. CASE ~ clear[r]
    <3>1. b = EvConstantBit(FALSE) /\ gb[n] = GbConstantBit(FALSE) /\ clear[n] = FALSE
      BY <2>1, <2>3, <1>1, <1>2, <1>3, <1>6
    <3>2. b \in Bit /\ b.isConstant = TRUE /\ b.wire = ZeroLabel /\ gb[n].isConstant = TRUE
      BY <3>1, <1>3 DEF EvConstantBit, GbConstantBit, MkBit, Bit
    <3> HIDE DEF b
    <3> QED
      BY <3>1, <3>2 DEF EncodesAs, b, a, c
  <2> QED
    BY <2>2, <2>3
<1>7. (a.isConstant \/ c.isConstant)
  BY DEF a, c
<1>8. b \in Bit /\ EncodesAs(b, n)
  BY <1>1, <1>2, <1>4, <1>5, <1>6, <1>7 DEF a, c
<1> QED
  BY <1>8 DEF a, c

\* The early returns of operator&: no row is read
LEMMA EvAndConstantStep ==
  ASSUME InductiveInvariant, EvAndConstant PROVE InductiveInvariant'
<1> DEFINE n == Len(ev) + 1
           l == Op.l
           r == Op.r
           b == EvShortAnd(ev[l], ev[r])
<1>1. /\ phase = "evaluate" /\ Len(ev) < Len(program) /\ Op.op = "and" /\ EvLocal(b)
      /\ ev[l].isConstant \/ ev[r].isConstant
  BY DEF EvAndConstant, Current, Op
<1>2. /\ Op = program[n] /\ Garbled(n) /\ l \in 1 .. Len(ev) /\ r \in 1 .. Len(ev)
  BY <1>1, EvFacts DEF ABS!WellFormed
<1>3. LeftForAnd(n) /\ clear[n] = (clear[l] /\ clear[r])
  BY <1>1, <1>2 DEF Garbled, LeftFor, ABS!ClearValue
<1>4. gb[l].isConstant \/ gb[r].isConstant
  BY <1>1, <1>2, HeldBit DEF EncodesAs
<1>5. counters[n] = Before(n) /\ gb[n] = GbShortAnd(gb[l], gb[r])
  BY <1>2, <1>3, <1>4 DEF LeftForAnd
<1>6. b \in Bit /\ EncodesAs(b, n)
  BY <1>1, <1>2, <1>3, <1>5, ShortAndEncodes
<1> HIDE DEF b
<1> QED
  BY <1>1, <1>5, <1>6, EvLocalInvariant

\* An AND: the rows are those Alice pushed for it, and HalfGateCorrect does the rest
LEMMA EvAndStep == ASSUME InductiveInvariant, EvAnd PROVE InductiveInvariant'
<1> DEFINE n == Len(ev) + 1
           l == Op.l
           r == Op.r
           m == ev_material_id
           rg == RowG(gb[l].wire, gb[r].wire, m)
           re == RowE(gb[l].wire, gb[r].wire, m)
           b == MkBit(HalfAnd(ev[l].wire, ev[r].wire, material_buffer[m + 1],
                              material_buffer[m + 2], m), FALSE)
<1>1. /\ phase = "evaluate" /\ Len(ev) < Len(program) /\ Op.op = "and" /\ EvEmit(b)
      /\ ~ ev[l].isConstant /\ ~ ev[r].isConstant
      /\ ev_material_id' = m + 2 /\ UNCHANGED <<garbler_input_idx, evaluator_input_idx>>
  BY DEF EvAnd, Current, Op
<1>2. /\ Op = program[n] /\ Garbled(n) /\ l \in 1 .. Len(ev) /\ r \in 1 .. Len(ev)
      /\ m \in Nat /\ Before(n) = [material |-> m, gin |-> garbler_input_idx,
                                   ein |-> evaluator_input_idx]
  BY <1>1, EvFacts DEF ABS!WellFormed
<1>3. LeftForAnd(n) /\ clear[n] = (clear[l] /\ clear[r])
  BY <1>1, <1>2 DEF Garbled, LeftFor, ABS!ClearValue
<1>4. /\ ~ gb[l].isConstant /\ ~ gb[r].isConstant
      /\ ev[l].wire = Find_Wire(gb[l].wire, clear[l], delta)
      /\ ev[r].wire = Find_Wire(gb[r].wire, clear[r], delta)
      /\ ev[l].wire \in Label /\ ev[r].wire \in Label
      /\ gb[l].wire \in Label /\ gb[r].wire \in Label
      /\ clear[l] \in BOOLEAN /\ clear[r] \in BOOLEAN
  BY <1>1, <1>2, HeldBit DEF EncodesAs
<1>5. /\ counters[n] = [Before(n) EXCEPT !.material = @ + 2]
      /\ material_buffer[m + 1] = rg /\ material_buffer[m + 2] = re
      /\ gb[n] = MkBit(HalfAnd(gb[l].wire, gb[r].wire, rg, re, m), FALSE)
  <2>1. Before(n).material = m
    BY <1>2
  <2>2. ~ (gb[program[n].l].isConstant \/ gb[program[n].r].isConstant)
    BY <1>2, <1>4
  <2> HIDE DEF n, m
  <2> QED
    BY <2>1, <2>2, <1>2, <1>3 DEF LeftForAnd
<1>6. counters[n] = [material |-> ev_material_id', gin |-> garbler_input_idx',
                     ein |-> evaluator_input_idx']
  <2>1. counters[n] = [Before(n) EXCEPT !.material = @ + 2]
    BY <1>5
  <2> HIDE DEF n
  <2> QED
    BY <2>1, <1>1, <1>2
<1>7. rg \in Label /\ re \in Label
  BY <1>2, <1>4, GarblerTypes, RowLabels
<1>8. HalfAnd(ev[l].wire, ev[r].wire, rg, re, m) \in Label
  <2> HIDE DEF rg, re
  <2> QED
    BY <1>2, <1>4, <1>7, GarblerTypes, HalfLabel
<1>9. HalfAnd(ev[l].wire, ev[r].wire, rg, re, m)
        = Find_Wire(HalfAnd(gb[l].wire, gb[r].wire, rg, re, m), clear[l] /\ clear[r], delta)
  BY <1>2, <1>4, GarblerTypes, HalfGateCorrect
<1>10. b \in Bit /\ EncodesAs(b, n)
  <2> HIDE DEF rg, re, n, m, l, r
  <2>1. b.wire = Find_Wire(gb[n].wire, clear[n], delta) /\ b.wire \in Label
        /\ b.isConstant = FALSE /\ gb[n].isConstant = FALSE
    BY <1>3, <1>5, <1>8, <1>9 DEF MkBit
  <2>2. b \in Bit
    BY <1>5, <1>8 DEF MkBit, Bit
  <2> HIDE DEF b
  <2> QED
    BY <2>1, <2>2 DEF EncodesAs
<1> HIDE DEF b
<1> QED
  BY <1>1, <1>2, <1>6, <1>10, EvFacts, EvEmitInvariant

\* The table gives Bob the cleartext value of the wire revealed
LEMMA Decodes ==
  ASSUME InductiveInvariant, NEW n \in 0 .. Len(outputs) - 1, Len(ev) = Len(program)
  PROVE  LET w == ev[outputs[n + 1]].wire
             entry == output_decoding_table[(n \div Slots) + 1]
             row == entry[OutputBit(n) + IF Color(w) THEN 1 ELSE 0]
         IN  /\ outputs[n + 1] \in 1 .. Len(program)
             /\ clear[outputs[n + 1]] \in BOOLEAN
             /\ (row # Color(H(w, n))) = clear[outputs[n + 1]]
<1>0. TypeOK /\ TableFilled
  BY DEF InductiveInvariant
<1> DEFINE j == outputs[n + 1]
           g == gb[j].wire
           w == ev[j].wire
           entry == output_decoding_table[(n \div Slots) + 1]
           c == OutputBit(n)
           rows == OutputRows(g, n)
           hg == Color(H(g, n))
           hd == Color(H(Xor(g, delta), n))
<1>1. j \in 1 .. Len(program)
  <2>1. outputs \in Seq(1 .. Len(program)) /\ n + 1 \in 1 .. Len(outputs)
    BY <1>0, TypeFacts
  <2> QED
    BY <2>1, ElementOfSeq
<1>2. ~ gb[j].isConstant /\ entry[c] = rows[1] /\ entry[c + 1] = rows[2]
  BY <1>0 DEF TableFilled
<1>3. clear[j] \in BOOLEAN /\ w = Find_Wire(g, clear[j], delta)
  BY <1>1, <1>2, HeldBit DEF EncodesAs
<1>4. Color(delta)
  BY GarblerTypes
<1>5. /\ rows[1] = IF Color(g) THEN ~ hd ELSE hg
      /\ rows[2] = IF Color(g) THEN hg ELSE ~ hd
  BY DEF OutputRows
<1>6. c \in Nat
  <2>1. n \in Nat /\ n % Slots \in 0 .. Slots - 1
    <3>1. n \in Nat
      BY <1>0, TypeFacts
    <3> QED
      BY <3>1, SlotsAssumption, DivMod
  <2> QED
    BY <2>1, SlotsAssumption DEF OutputBit
<1>7. hg \in BOOLEAN /\ hd \in BOOLEAN /\ Color(g) \in BOOLEAN
  BY DEF Color
<1>8. CASE clear[j]
  <2>1. w = Xor(g, delta) /\ Color(H(w, n)) = hd
    BY <1>3, <1>8 DEF Find_Wire
  <2>2. Color(w) <=> ~ Color(g)
    BY <2>1, <1>4 DEF Color, Xor
  <2>3. entry[c + IF Color(w) THEN 1 ELSE 0] = ~ hd
    <3>1. CASE Color(g)
      BY <3>1, <2>2, <1>2, <1>5, <1>6
    <3>2. CASE ~ Color(g)
      BY <3>2, <2>2, <1>2, <1>5, <1>6
    <3> QED
      BY <3>1, <3>2
  <2> HIDE DEF entry, w, c, hd
  <2> QED
    BY <2>1, <2>3, <1>1, <1>3, <1>7, <1>8 DEF entry, w, c
<1>9. CASE ~ clear[j]
  <2>1. w = g /\ Color(H(w, n)) = hg
    BY <1>3, <1>9 DEF Find_Wire
  <2>2. entry[c + IF Color(w) THEN 1 ELSE 0] = hg
    <3>1. CASE Color(g)
      BY <3>1, <2>1, <1>2, <1>5, <1>6
    <3>2. CASE ~ Color(g)
      BY <3>2, <2>1, <1>2, <1>5, <1>6
    <3> QED
      BY <3>1, <3>2
  <2> HIDE DEF entry, w, c, hg
  <2> QED
    BY <2>1, <2>2, <1>1, <1>3, <1>7, <1>9 DEF entry, w, c
<1> QED
  BY <1>3, <1>8, <1>9

\* Bob's next result, as EvReveal appends it
LEMMA EvRevealResult ==
  ASSUME InductiveInvariant, EvReveal
  PROVE  /\ Len(result_bits) < Len(outputs) /\ Len(result_bits) \in Nat
         /\ result_bits' = Append(result_bits, clear[outputs[Len(result_bits) + 1]])
         /\ clear[outputs[Len(result_bits) + 1]] \in BOOLEAN
<1> DEFINE n == Len(result_bits)
<1>1. n = ev_output_wire_idx /\ n \in Nat /\ Len(outputs) \in Nat
  BY TypeFacts DEF InductiveInvariant, HandedOver
<1>2. n < Len(outputs) /\ Len(ev) = Len(program)
  BY <1>1 DEF EvReveal
<1>3. n \in 0 .. Len(outputs) - 1
  BY <1>1, <1>2
<1> HIDE DEF n
<1>4. result_bits' = Append(result_bits, clear[outputs[n + 1]]) /\ clear[outputs[n + 1]] \in BOOLEAN
  BY <1>1, <1>2, <1>3, Decodes DEF EvReveal
<1> QED
  BY <1>1, <1>2, <1>4 DEF n

\* Decoding one result keeps the invariant
LEMMA EvRevealStep == ASSUME InductiveInvariant, EvReveal PROVE InductiveInvariant'
<1>0. TypeOK /\ GarbledCircuit /\ TableFilled /\ HandedOver /\ LabelsEncode
  BY DEF InductiveInvariant
<1>1. /\ phase = "evaluate" /\ phase' = phase /\ Len(ev) = Len(program)
      /\ ev_output_wire_idx' = ev_output_wire_idx + 1
      /\ UNCHANGED circuitAndBuffers /\ UNCHANGED tableVars
      /\ UNCHANGED <<ev, ev_material_id, garbler_input_idx, evaluator_input_idx>>
      /\ UNCHANGED evaluator_inputs
  BY DEF EvReveal, circuitAndBuffers
<1>2. /\ result_bits' \in Seq(BOOLEAN) /\ Len(result_bits') = Len(result_bits) + 1
      /\ Len(result_bits) < Len(outputs) /\ Len(result_bits) \in Nat
  <2>1. result_bits \in Seq(BOOLEAN)
    BY <1>0, TypeFacts
  <2>2. PICK e \in BOOLEAN : result_bits' = Append(result_bits, e)
    BY EvRevealResult
  <2> QED
    BY <2>1, <2>2, EvRevealResult, Appended
<1>3. ev_output_wire_idx' \in Nat
  <2>1. ev_output_wire_idx \in Nat
    BY <1>0 DEF TypeOK
  <2> QED
    BY <2>1, <1>1
<1>4. TypeOK'
  BY <1>0, <1>1, <1>2, <1>3 DEF TypeOK, circuitAndBuffers, circuitVars, inputVars, tableVars
<1>5. GarbledCircuit' /\ LabelsEncode' /\ TableFilled'
  BY <1>0, <1>1, CircuitUnchanged, LabelsUnchanged, TableUnchanged
     DEF circuitAndBuffers, circuitVars, tableVars
<1>6. HandedOver'
  <2>1. Before(Len(ev) + 1)' = Before(Len(ev) + 1)
    BY <1>1 DEF Before, circuitAndBuffers, circuitVars
  <2>2. UNCHANGED <<choice_bits, evaluator_inputs_true, evaluator_inputs_false, program, outputs>>
    BY <1>1 DEF circuitAndBuffers, circuitVars, inputVars, tableVars
  <2>3. Len(result_bits') <= Len(outputs) /\ ev_output_wire_idx' = Len(result_bits')
    BY <1>0, <1>1, <1>2, TypeFacts DEF HandedOver
  <2> QED
    BY <2>1, <2>2, <2>3, <1>0, <1>1 DEF HandedOver
<1> QED
  BY <1>4, <1>5, <1>6 DEF InductiveInvariant

\* Only the phase may change: the last step of Bob, and stuttering
LEMMA PhaseStep ==
  ASSUME InductiveInvariant,
         phase' = phase \/ (phase = "evaluate" /\ phase' = "done"),
         UNCHANGED <<circuitAndBuffers, tableVars, evVars>>
  PROVE  InductiveInvariant'
<1>0. TypeOK /\ GarbledCircuit /\ TableFilled /\ HandedOver /\ LabelsEncode
  BY DEF InductiveInvariant
<1>1. UNCHANGED circuitAndBuffers /\ UNCHANGED tableVars /\ UNCHANGED evVars
  OBVIOUS
<1>2. TypeOK'
  BY <1>0, <1>1 DEF TypeOK, circuitAndBuffers, circuitVars, inputVars, tableVars, evVars
<1>3. GarbledCircuit' /\ LabelsEncode' /\ TableFilled'
  BY <1>0, <1>1, CircuitUnchanged, LabelsUnchanged, TableUnchanged
     DEF circuitAndBuffers, circuitVars, tableVars, evVars
<1>4. HandedOver'
  <2>1. Before(Len(ev) + 1)' = Before(Len(ev) + 1)
    BY <1>1 DEF Before, circuitAndBuffers, circuitVars, evVars
  <2>2. phase' \in {"garble", "reveal"} <=> phase \in {"garble", "reveal"}
    OBVIOUS
  <2> QED
    BY <2>1, <2>2, <1>0, <1>1
       DEF HandedOver, circuitAndBuffers, circuitVars, inputVars, tableVars, evVars
<1> QED
  BY <1>2, <1>3, <1>4 DEF InductiveInvariant

-----------------------------------------------------------------------------
(* Theorems *)

\* The invariant holds before anything is garbled
LEMMA InvariantInitially == Init => InductiveInvariant
<1> SUFFICES ASSUME Init PROVE InductiveInvariant
  OBVIOUS
<1> USE DEF Init
<1>1. TypeOK
  BY DEF TypeOK
<1>2. GarbledCircuit
  BY DEF GarbledCircuit, Before
<1>3. TableFilled
  <2>1. 0 % Slots = 0 /\ 0 \div Slots = 0
    BY SlotsAssumption, DivUnique
  <2> QED
    BY <2>1 DEF TableFilled
<1>4. HandedOver /\ LabelsEncode
  BY DEF HandedOver, Before, LabelsEncode
<1> QED
  BY <1>1, <1>2, <1>3, <1>4 DEF InductiveInvariant

\* Every step keeps it
LEMMA InvariantKept == InductiveInvariant /\ [Next]_vars => InductiveInvariant'
<1> SUFFICES ASSUME InductiveInvariant, [Next]_vars
             PROVE  InductiveInvariant'
  OBVIOUS
<1>1. CASE Garble
  BY <1>1, GarbleStep
<1>2. CASE GbReveal
  BY <1>2, GbRevealStep
<1>3. CASE Transfer
  BY <1>3, TransferStep
<1>4. CASE Evaluate
  <2>1. CASE EvFinish
    BY <2>1, PhaseStep DEF EvFinish, circuitAndBuffers
  <2> QED
    BY <1>4, <2>1, EvGarblerInputStep, EvEvaluatorInputStep, EvConstantStep,
       EvAndConstantStep, EvAndStep, EvXorStep, EvNotStep, EvEqStep, EvRevealStep
       DEF Evaluate
<1>5. CASE UNCHANGED vars
  BY <1>5, PhaseStep DEF vars, circuitAndBuffers, tableVars, evVars
<1> QED
  BY <1>1, <1>2, <1>3, <1>4, <1>5 DEF Next, Terminated

(***************************************************************************)
(* At every moment of every run, what Bob will need is there and was never *)
(* overwritten, and his positions and labels follow Alice's (Bit.cpp,      *)
(* Const.cpp).                                                             *)
(***************************************************************************)
THEOREM Invariance == Spec => []InductiveInvariant
BY InvariantInitially, InvariantKept, PTL DEF Spec

(***************************************************************************)
(* Every variable of garbling and evaluation keeps its type, whatever the  *)
(* circuit, the width of a label and the PRF (Bit.cpp).                    *)
(***************************************************************************)
THEOREM TypesAlwaysHold == Spec => []TypeOK
<1>1. InductiveInvariant => TypeOK
  BY DEF InductiveInvariant
<1> QED
  BY <1>1, Invariance, PTL

(***************************************************************************)
(* Whatever the circuit, Bob always holds Alice's label for the cleartext  *)
(* value of every wire he has computed, and agrees with her on which wires *)
(* are constants (Bit.cpp, operators &, ^, ~ and == of both roles).        *)
(***************************************************************************)
THEOREM LabelsAlwaysEncode == Spec => []LabelsEncode
<1>1. InductiveInvariant => LabelsEncode
  BY DEF InductiveInvariant
<1> QED
  BY <1>1, Invariance, PTL

(***************************************************************************)
(* Bob's positions in the garbled material and in both inputs are always   *)
(* where Alice's were after the same operation, and her own index never    *)
(* leaves the end of material_buffer (Const.cpp, Bit.cpp).                 *)
(***************************************************************************)
THEOREM CountersAlwaysAligned == Spec => []CountersAligned
<1>1. InductiveInvariant => CountersAligned
  <2> SUFFICES ASSUME InductiveInvariant PROVE CountersAligned
    OBVIOUS
  <2>1. Len(ev) \in Nat
    BY TypeFacts DEF InductiveInvariant
  <2>2. Len(ev) > 0 => Before(Len(ev) + 1) = counters[Len(ev)]
    BY <2>1 DEF Before
  <2> QED
    BY <2>1, <2>2 DEF InductiveInvariant, GarbledCircuit, HandedOver, CountersAligned
<1> QED
  BY <1>1, Invariance, PTL

-----------------------------------------------------------------------------
(* Refinement *)

\* An operation garbled is an operation of the ideal circuit
LEMMA EmitExtends ==
  ASSUME InductiveInvariant, NEW k \in ABS!Kinds, NEW l \in 0 .. Len(program),
         NEW r \in 0 .. Len(program), NEW v \in BOOLEAN, NEW b,
         ABS!WellFormed(Operation(k, l, r, v), Len(program)),
         GbEmit(Operation(k, l, r, v), b)
  PROVE  ABS!Extend
BY DEF GbEmit, Operation, ABS!Extend, tableVars, evVars

\* Every operation of Alice is an operation of the ideal circuit
LEMMA GarbleExtends == ASSUME InductiveInvariant, Garble PROVE ABS!Extend
<1>1. /\ 0 \in 0 .. Len(program) /\ \A l \in 1 .. Len(gb) : l \in 0 .. Len(program)
      /\ 1 .. Len(gb) = 1 .. Len(program)
  BY GarblerTypes
<1>2. /\ "gin" \in ABS!Kinds /\ "ein" \in ABS!Kinds /\ "const" \in ABS!Kinds
      /\ "and" \in ABS!Kinds /\ "xor" \in ABS!Kinds /\ "not" \in ABS!Kinds
      /\ "eqb" \in ABS!Kinds
  BY DEF ABS!Kinds
<1>3. ASSUME NEW k \in {"gin", "ein", "const"}, NEW v
      PROVE  ABS!WellFormed(Operation(k, 0, 0, v), Len(program))
  BY DEF Operation, ABS!WellFormed
<1>4. ASSUME NEW k \in {"and", "xor"}, NEW l \in 1 .. Len(gb), NEW r \in 1 .. Len(gb), NEW v
      PROVE  ABS!WellFormed(Operation(k, l, r, v), Len(program))
  BY <1>1 DEF Operation, ABS!WellFormed
<1>5. ASSUME NEW k \in {"not", "eqb"}, NEW l \in 1 .. Len(gb), NEW v
      PROVE  ABS!WellFormed(Operation(k, l, 0, v), Len(program))
  BY <1>1 DEF Operation, ABS!WellFormed
<1>6. CASE GbInput
  BY <1>1, <1>2, <1>3, <1>6, EmitExtends DEF GbInput
<1>7. CASE GbEvaluatorInput
  BY <1>1, <1>2, <1>3, <1>7, EmitExtends DEF GbEvaluatorInput
<1>8. CASE GbConstant
  BY <1>1, <1>2, <1>3, <1>8, EmitExtends DEF GbConstant, GbLocal
<1>9. CASE GbAndConstant
  BY <1>1, <1>2, <1>4, <1>9, EmitExtends DEF GbAndConstant, GbLocal
<1>10. CASE GbAnd
  BY <1>1, <1>2, <1>4, <1>10, EmitExtends DEF GbAnd
<1>11. CASE GbXor
  BY <1>1, <1>2, <1>4, <1>11, EmitExtends DEF GbXor, GbLocal
<1>12. CASE GbNot
  BY <1>1, <1>2, <1>5, <1>12, EmitExtends DEF GbNot, GbLocal
<1>13. CASE GbEq
  BY <1>1, <1>2, <1>5, <1>13, EmitExtends DEF GbEq, GbLocal
<1> QED
  BY <1>6, <1>7, <1>8, <1>9, <1>10, <1>11, <1>12, <1>13 DEF Garble

\* Every step of the two parties is one of the ideal evaluation, or none
LEMMA StepImplements ==
  InductiveInvariant /\ [Next]_vars => [ABS!Next]_ABS!idealVars
<1> SUFFICES ASSUME InductiveInvariant, [Next]_vars
             PROVE  ABS!Next \/ UNCHANGED <<program, clear, outputs, result_bits>>
  BY DEF ABS!idealVars
<1>1. CASE Garble
  BY <1>1, GarbleExtends DEF ABS!Next
<1>2. CASE GbReveal
  <2>1. PICK i \in 1 .. Len(gb) : outputs' = Append(outputs, i)
    BY <1>2 DEF GbReveal
  <2>2. i \in 1 .. Len(program) /\ UNCHANGED <<program, clear, result_bits>>
    BY <1>2, GarblerTypes DEF GbReveal, circuitVars, evVars
  <2>3. ABS!Choose
    BY <2>1, <2>2 DEF ABS!Choose
  <2> QED
    BY <2>3 DEF ABS!Next
<1>3. CASE Transfer
  BY <1>3 DEF Transfer, circuitVars, tableVars
<1>4. CASE EvReveal
  <2>1. UNCHANGED <<program, clear, outputs>>
    BY <1>4 DEF EvReveal, circuitVars, tableVars
  <2>2. ABS!Deliver
    BY <2>1, <1>4, EvRevealResult DEF ABS!Deliver
  <2> QED
    BY <2>2 DEF ABS!Next
<1>5. CASE EvFinish
  BY <1>5 DEF EvFinish, circuitVars, tableVars, evVars
<1>6. CASE \/ EvGarblerInput \/ EvEvaluatorInput \/ EvConstant \/ EvAndConstant
           \/ EvAnd \/ EvXor \/ EvNot \/ EvEq
  <2>1. PICK b : EvEmit(b)
    BY <1>6 DEF EvGarblerInput, EvEvaluatorInput, EvConstant, EvAndConstant, EvAnd,
                EvXor, EvNot, EvEq, EvLocal
  <2> QED
    BY <2>1 DEF EvEmit, circuitVars, tableVars
<1>7. CASE UNCHANGED vars
  BY <1>7 DEF vars, circuitVars, tableVars, evVars
<1> QED
  BY <1>1, <1>2, <1>3, <1>4, <1>5, <1>6, <1>7 DEF Next, Evaluate, Terminated

(***************************************************************************)
(* Every run of the two parties is a run of the ideal evaluation: what Bob *)
(* decodes with the output table are the cleartext values of the wires     *)
(* revealed, in the order of Reveal (Bit.cpp).                             *)
(***************************************************************************)
THEOREM GarblingImplementsIdeal == Spec => ImplementsIdeal
<1>1. Init => ABS!Init
  BY DEF Init, ABS!Init
<1> QED
  BY <1>1, StepImplements, Invariance, PTL DEF Spec, ImplementsIdeal, ABS!Spec

-----------------------------------------------------------------------------
(* Labels under exclusive or *)

\* A position is in a ++ b when it is in exactly one of them
LEMMA PlusMember == \A a, b, i : i \in a ++ b <=> ((i \in a) # (i \in b))
  BY DEF ++, Xor

LEMMA WhenMember == \A w, i : \A c \in BOOLEAN : i \in When(c, w) <=> (c /\ i \in w)
  BY DEF When, ZeroLabel

\* The label of a wire for v, position by position
LEMMA WireMember ==
  \A w, o, i : \A v \in BOOLEAN : i \in Find_Wire(w, v, o) <=> ((i \in w) # (v /\ i \in o))
  BY DEF Find_Wire, Xor

\* Two labels that agree at every position are equal
LEMMA SamePositions == \A a, b : (\A i : i \in a <=> i \in b) => a = b
  OBVIOUS

\* Adding a label twice leaves nothing of it
LEMMA DoublePlus == \A h, d : h ++ (h ++ d) = d
<1> TAKE h, d
<1>1. \A i : i \in h ++ (h ++ d) <=> i \in d
  BY PlusMember
<1> QED
  BY <1>1, SamePositions

LEMMA ColorBoolean == \A w : Color(w) \in BOOLEAN
  BY DEF Color

\* Over an offset whose bit 0 is set the colour of a label tells its value
LEMMA WireColor ==
  ASSUME NEW w, NEW o, NEW v \in BOOLEAN, Color(o)
  PROVE  Color(Find_Wire(w, v, o)) <=> (Color(w) # v)
  BY DEF Find_Wire, Xor, Color

\* Bob hashes the label he has, Alice the one of the two it is
LEMMA HashWire ==
  ASSUME NEW w, NEW o, NEW v \in BOOLEAN
  PROVE  HashSGC(Find_Wire(w, v, o)) = IF v THEN HashSGC(w ++ o) ELSE HashSGC(w)
  BY DEF Find_Wire, ++

\* Moving a label of either value to another offset
LEMMA TranslateWire ==
  ASSUME NEW w, NEW o, NEW new, NEW v \in BOOLEAN, Color(o)
  PROVE  Translate(Find_Wire(w, v, o), o ++ new) = Find_Wire(Translate(w, o ++ new), v, new)
<1> SUFFICES ASSUME NEW i
             PROVE  i \in Translate(Find_Wire(w, v, o), o ++ new)
                      <=> i \in Find_Wire(Translate(w, o ++ new), v, new)
  BY SamePositions
<1>1. Color(Find_Wire(w, v, o)) <=> (Color(w) # v)
  BY WireColor
<1>2. i \in Translate(Find_Wire(w, v, o), o ++ new)
        <=> (((i \in w) # (v /\ i \in o))
               # (Color(Find_Wire(w, v, o)) /\ ((i \in o) # (i \in new))))
  BY PlusMember, WhenMember, WireMember, ColorBoolean DEF Translate
<1>3. i \in Find_Wire(Translate(w, o ++ new), v, new)
        <=> (((i \in w) # (Color(w) /\ ((i \in o) # (i \in new)))) # (v /\ i \in new))
  BY PlusMember, WhenMember, WireMember, ColorBoolean DEF Translate
<1> QED
  BY <1>1, <1>2, <1>3, ColorBoolean
-----------------------------------------------------------------------------
(* A multiplexer node *)

(***************************************************************************)
(* EvTransDelta decodes, of the two differences GbTransDelta encrypted     *)
(* and put in the order of the colour, the one to the offset of the child  *)
(* that the condition names.                                               *)
(***************************************************************************)
THEOREM TransDeltaCorrect ==
  ASSUME NEW node, NEW c \in BOOLEAN, Color(node.offset)
  PROVE  EvTransDelta(Find_Wire(node.b, c, node.offset), GbTransDelta(node))
           = IF c THEN ToRight(node) ELSE ToLeft(node)
<1> DEFINE b == Find_Wire(node.b, c, node.offset)
           row0 == Hash0(node) ++ ToLeft(node)
           row1 == Hash1(node) ++ ToRight(node)
<1>1. HashSGC(b) = IF c THEN Hash1(node) ELSE Hash0(node)
  BY HashWire DEF Hash0, Hash1
<1>2. Color(b) <=> (Color(node.b) # c)
  BY WireColor
<1>3. GbTransDelta(node) = IF Color(node.b) THEN <<row1, row0>> ELSE <<row0, row1>>
  BY DEF GbTransDelta
<1> HIDE DEF row0, row1
<1>4. (IF Color(b) THEN GbTransDelta(node)[2] ELSE GbTransDelta(node)[1])
        = IF c THEN row1 ELSE row0
  BY <1>2, <1>3, ColorBoolean
<1> HIDE DEF b
<1>5. EvTransDelta(b, GbTransDelta(node))
        = IF c THEN Hash1(node) ++ row1 ELSE Hash0(node) ++ row0
  BY <1>1, <1>4 DEF EvTransDelta
<1>6. \A h, d : h ++ (h ++ d) = d
  BY DoublePlus
<1> QED
  BY <1>5, <1>6 DEF row0, row1, b

(***************************************************************************)
(* EvCondAdd: on the side of the condition Bob gets the label of x for its *)
(* value under the node's offset, on the other side what Alice foresaw,    *)
(* whatever the value of x.                                                *)
(***************************************************************************)
THEOREM CondAddCorrect ==
  ASSUME NEW x, NEW node, NEW c \in BOOLEAN, NEW v \in BOOLEAN, Color(node.offset)
  PROVE  LET add == GbCondAdd(x, node)
             active == Find_Wire(add.label, v, node.offset)
         IN  EvCondAdd(Find_Wire(x, v, node.offset), Find_Wire(node.b, c, node.offset), add.row)
               = IF c THEN <<add.junk, active>> ELSE <<active, add.junk>>
<1> DEFINE o == node.offset
           X == Find_Wire(x, v, o)
           B == Find_Wire(node.b, c, o)
           h0 == HashSGC(x)
           h1 == HashSGC(x ++ o)
           row == h0 ++ h1 ++ When(Color(node.b), o)
           label == h0 ++ When(Color(x), row) ++ When(~ Color(node.b), x)
           junk == label ++ x
           T == HashSGC(X) ++ When(Color(X), row)
           active == Find_Wire(label, v, o)
<1>1. /\ GbCondAdd(x, node).row = row
      /\ GbCondAdd(x, node).label = label
      /\ GbCondAdd(x, node).junk = junk
  BY DEF GbCondAdd
<1>2. EvCondAdd(X, B, row) = <<T ++ When(~ Color(B), X), T ++ When(Color(B), X)>>
  BY DEF EvCondAdd
<1>3. HashSGC(X) = IF v THEN h1 ELSE h0
  BY HashWire
<1>4. (Color(X) <=> (Color(x) # v)) /\ (Color(B) <=> (Color(node.b) # c))
  BY WireColor
<1>5. ASSUME NEW i
      PROVE  /\ i \in row <=> (((i \in h0) # (i \in h1)) # (Color(node.b) /\ i \in o))
             /\ i \in X <=> ((i \in x) # (v /\ i \in o))
             /\ i \in HashSGC(X) <=> IF v THEN i \in h1 ELSE i \in h0
  <2>1. i \in row <=> (((i \in h0) # (i \in h1)) # (Color(node.b) /\ i \in o))
    BY PlusMember, WhenMember, ColorBoolean
  <2>2. i \in X <=> ((i \in x) # (v /\ i \in o))
    BY WireMember
  <2> QED
    BY <2>1, <2>2, <1>3
<1> HIDE DEF o, X, B, h0, h1, row
<1>6. ASSUME NEW i
      PROVE  /\ i \in T <=> ((i \in HashSGC(X)) # (Color(X) /\ i \in row))
             /\ i \in label <=> (((i \in h0) # (Color(x) /\ i \in row))
                                   # (~ Color(node.b) /\ i \in x))
  <2>1. i \in T <=> ((i \in HashSGC(X)) # (Color(X) /\ i \in row))
    BY PlusMember, WhenMember, ColorBoolean
  <2>3. i \in When(~ Color(node.b), x) <=> (~ Color(node.b) /\ i \in x)
    BY DEF When, ZeroLabel
  <2>4. i \in When(Color(x), row) <=> (Color(x) /\ i \in row)
    BY WhenMember, ColorBoolean
  <2>5. i \in label <=> ((i \in h0 ++ When(Color(x), row))
                           # (i \in When(~ Color(node.b), x)))
    BY PlusMember
  <2> QED
    BY <2>1, <2>3, <2>4, <2>5, PlusMember
<1> HIDE DEF T, label
<1>7. ASSUME NEW i, NEW d \in BOOLEAN
      PROVE  /\ i \in T ++ When(d, X) <=> ((i \in T) # (d /\ i \in X))
             /\ i \in active <=> ((i \in label) # (v /\ i \in o))
             /\ i \in junk <=> ((i \in label) # (i \in x))
  BY PlusMember, WhenMember, WireMember
<1> HIDE DEF active, junk
\* The side of the condition keeps the label, the other one loses the value
<1>8. ASSUME NEW d \in BOOLEAN
      PROVE  T ++ When(d, X) = IF d <=> ~ Color(node.b) THEN active ELSE junk
  <2>1. ASSUME NEW i PROVE i \in T <=> (((i \in h0) # (Color(x) /\ i \in row))
                                          # (v /\ Color(node.b) /\ i \in o))
    BY <1>4, <1>5, <1>6, ColorBoolean
  <2>2. CASE d <=> ~ Color(node.b)
    <3>1. ASSUME NEW i PROVE i \in T ++ When(d, X) <=> i \in active
      BY <2>1, <2>2, <1>5, <1>6, <1>7, ColorBoolean
    <3> QED
      BY <3>1, <2>2, SamePositions
  <2>3. CASE ~ (d <=> ~ Color(node.b))
    <3>1. ASSUME NEW i PROVE i \in T ++ When(d, X) <=> i \in junk
      BY <2>1, <2>3, <1>5, <1>6, <1>7, ColorBoolean
    <3> QED
      BY <3>1, <2>3, SamePositions
  <2> QED
    BY <2>2, <2>3
<1>9. EvCondAdd(X, B, row) = IF c THEN <<junk, active>> ELSE <<active, junk>>
  BY <1>2, <1>4, <1>8, ColorBoolean
<1> QED
  BY <1>1, <1>9 DEF o, X, B, row, active, junk
-----------------------------------------------------------------------------
(* A wire through a node *)

\* What encrypts x0 under a hash gives it back, for either value of the wire
LEMMA Unmask ==
  ASSUME NEW w, NEW x0, NEW h, NEW o, NEW v \in BOOLEAN
  PROVE  Find_Wire(w, v, o) ++ (w ++ x0 ++ h) ++ h = Find_Wire(x0, v, o)
<1> SUFFICES ASSUME NEW i
             PROVE  i \in Find_Wire(w, v, o) ++ (w ++ x0 ++ h) ++ h
                      <=> i \in Find_Wire(x0, v, o)
  BY SamePositions
<1>1. /\ i \in Find_Wire(w, v, o) <=> ((i \in w) # (v /\ i \in o))
      /\ i \in Find_Wire(x0, v, o) <=> ((i \in x0) # (v /\ i \in o))
  BY WireMember
<1> QED
  BY <1>1, PlusMember

(***************************************************************************)
(* Splitting a wire (GbSplitMux, EvSplitMux): in the child the condition   *)
(* names Bob gets the label of the wire's value under that child's offset, *)
(* in the other the junk Alice foresaw, the same for both values.          *)
(***************************************************************************)
THEOREM SplitWireCorrect ==
  ASSUME NEW x, NEW node, NEW x0, NEW x1, NEW c \in BOOLEAN, NEW v \in BOOLEAN,
         Color(node.offset)
  PROVE  LET split == GbSplitWire(x, node, x0, x1)
             b == Find_Wire(node.b, c, node.offset)
         IN  EvSplitWire(Find_Wire(x, v, node.offset), b,
                         EvTransDelta(b, GbTransDelta(node)), split.rows)
               = IF c THEN <<split.junk[1], Find_Wire(x1, v, node.right)>>
                      ELSE <<Find_Wire(x0, v, node.left), split.junk[2]>>
<1> DEFINE o == node.offset
           X == Find_Wire(x, v, o)
           B == Find_Wire(node.b, c, o)
           add == GbCondAdd(x, node)
           active == Find_Wire(add.label, v, o)
           difference == EvTransDelta(B, GbTransDelta(node))
           row0 == Translate(add.label, ToLeft(node)) ++ x0 ++ Hash0(node)
           row1 == Translate(add.label, ToRight(node)) ++ x1 ++ Hash1(node)
           rows == <<add.row, row0, row1>>
           junk == << Translate(add.junk, ToRight(node)) ++ row0 ++ Hash1(node),
                      Translate(add.junk, ToLeft(node)) ++ row1 ++ Hash0(node) >>
           bobs == EvCondAdd(X, B, add.row)
<1>1. GbSplitWire(x, node, x0, x1).rows = rows /\ GbSplitWire(x, node, x0, x1).junk = junk
  BY DEF GbSplitWire
<1>2. difference = IF c THEN ToRight(node) ELSE ToLeft(node)
  BY TransDeltaCorrect
<1>3. bobs = IF c THEN <<add.junk, active>> ELSE <<active, add.junk>>
  BY CondAddCorrect
<1>4. HashSGC(B) = IF c THEN Hash1(node) ELSE Hash0(node)
  BY HashWire DEF Hash0, Hash1
<1>5. /\ Translate(active, ToLeft(node))
           = Find_Wire(Translate(add.label, ToLeft(node)), v, node.left)
      /\ Translate(active, ToRight(node))
           = Find_Wire(Translate(add.label, ToRight(node)), v, node.right)
  BY TranslateWire DEF ToLeft, ToRight
<1>6. /\ Translate(active, ToLeft(node)) ++ row0 ++ Hash0(node) = Find_Wire(x0, v, node.left)
      /\ Translate(active, ToRight(node)) ++ row1 ++ Hash1(node) = Find_Wire(x1, v, node.right)
  BY <1>5, Unmask
<1>7. EvSplitWire(X, B, difference, rows)
        = << Translate(bobs[1], difference) ++ row0 ++ HashSGC(B),
             Translate(bobs[2], difference) ++ row1 ++ HashSGC(B) >>
  BY DEF EvSplitWire
<1> HIDE DEF X, B, add, active, difference, row0, row1, rows, bobs
<1>8. EvSplitWire(X, B, difference, rows)
        = IF c THEN <<junk[1], Find_Wire(x1, v, node.right)>>
               ELSE <<Find_Wire(x0, v, node.left), junk[2]>>
  BY <1>2, <1>3, <1>4, <1>6, <1>7
<1> QED
  BY <1>1, <1>8 DEF X, B, difference, o

\* The order in which two labels are added does not matter
LEMMA PlusCommutes == \A a, b : a ++ b = b ++ a
  BY DEF ++, Xor

\* A position of four labels added up
LEMMA SumMember ==
  \A a, b, c, d, i :
    i \in a ++ b ++ c ++ d <=> ((((i \in a) # (i \in b)) # (i \in c)) # (i \in d))
  BY PlusMember

(***************************************************************************)
(* Joining (GbJoinMux, EvJoinMux): from the label of the result in the     *)
(* child that the condition names, and the foreseen junk of the other, Bob *)
(* gets the label of the result under the node's offset.                   *)
(***************************************************************************)
THEOREM JoinNodeCorrect ==
  ASSUME NEW good, NEW junk, NEW node, NEW c \in BOOLEAN, NEW v \in BOOLEAN,
         Color(node.offset), Color(node.left), Color(node.right)
  PROVE  LET join == GbJoinNode(good, junk, node)
             b == Find_Wire(node.b, c, node.offset)
             x == IF c THEN <<junk[1], Find_Wire(good[2], v, node.right)>>
                       ELSE <<Find_Wire(good[1], v, node.left), junk[2]>>
         IN  EvJoinNode(x, b, EvTransDelta(b, GbTransDelta(node)), join.row)
               = Find_Wire(join.out, v, node.offset)
<1> DEFINE o == node.offset
           B == Find_Wire(node.b, c, o)
           d == EvTransDelta(B, GbTransDelta(node))
           x == IF c THEN <<junk[1], Find_Wire(good[2], v, node.right)>>
                     ELSE <<Find_Wire(good[1], v, node.left), junk[2]>>
           h0 == Hash0(node)
           h1 == Hash1(node)
           l == Translate(good[1], ToLeft(node))
           r == Translate(good[2], ToRight(node))
           jl == Translate(junk[1], ToRight(node))
           jr == Translate(junk[2], ToLeft(node))
           row == h0 ++ h1 ++ l ++ r ++ jl ++ jr
           out == h0 ++ l ++ jr ++ When(Color(node.b), row)
<1>1. GbJoinNode(good, junk, node).row = row /\ GbJoinNode(good, junk, node).out = out
  BY DEF GbJoinNode
<1>2. d = IF c THEN ToRight(node) ELSE ToLeft(node)
  BY TransDeltaCorrect
<1>3. HashSGC(B) = IF c THEN h1 ELSE h0
  BY HashWire DEF Hash0, Hash1
<1>4. Color(B) <=> (Color(node.b) # c)
  BY WireColor
<1>5. /\ Translate(Find_Wire(good[1], v, node.left), node.left ++ o)
           = Find_Wire(Translate(good[1], node.left ++ o), v, o)
      /\ Translate(Find_Wire(good[2], v, node.right), node.right ++ o)
           = Find_Wire(Translate(good[2], node.right ++ o), v, o)
  BY TranslateWire
<1>6. /\ Translate(Find_Wire(good[1], v, node.left), ToLeft(node)) = Find_Wire(l, v, o)
      /\ Translate(Find_Wire(good[2], v, node.right), ToRight(node)) = Find_Wire(r, v, o)
  BY <1>5, PlusCommutes DEF ToLeft, ToRight
<1>7. EvJoinNode(x, B, d, row)
        = HashSGC(B) ++ Translate(x[1], d) ++ Translate(x[2], d) ++ When(Color(B), row)
  BY DEF EvJoinNode
<1>8. ASSUME NEW i
      PROVE  /\ i \in row <=> ((((((i \in h0) # (i \in h1)) # (i \in l)) # (i \in r))
                                  # (i \in jl)) # (i \in jr))
             /\ i \in out <=> ((((i \in h0) # (i \in l)) # (i \in jr))
                                 # (Color(node.b) /\ i \in row))
             /\ i \in Find_Wire(l, v, o) <=> ((i \in l) # (v /\ i \in o))
             /\ i \in Find_Wire(r, v, o) <=> ((i \in r) # (v /\ i \in o))
             /\ i \in Find_Wire(out, v, o) <=> ((i \in out) # (v /\ i \in o))
  <2>1. i \in row <=> ((((((i \in h0) # (i \in h1)) # (i \in l)) # (i \in r))
                          # (i \in jl)) # (i \in jr))
    BY PlusMember
  <2>2. i \in out <=> ((((i \in h0) # (i \in l)) # (i \in jr)) # (Color(node.b) /\ i \in row))
    <3> HIDE DEF h0, l, jr, row
    <3> QED
      BY PlusMember, WhenMember, ColorBoolean
  <2> QED
    BY <2>1, <2>2, WireMember
<1> HIDE DEF B, d, h0, h1, l, r, jl, jr, row, out
\* The labels of either child, with the junk the other leaves, at a position
<1> DEFINE p(i) == ((i \in h1) <=> (i \in jl)) <=> (i \in r)
           q(i) == ((i \in h0) <=> (i \in l)) <=> (i \in jr)
<1>9. ASSUME NEW i
      PROVE  i \in row <=> ~ (p(i) <=> q(i))
  BY <1>8
<1>10. ASSUME NEW i
       PROVE  i \in out <=> IF Color(node.b) THEN p(i) ELSE q(i)
  BY <1>8, ColorBoolean
<1>11. CASE c
  <2>1. EvJoinNode(x, B, d, row) = h1 ++ jl ++ Find_Wire(r, v, o) ++ When(Color(B), row)
    BY <1>2, <1>3, <1>6, <1>7, <1>11 DEF jl
  <2> SUFFICES ASSUME NEW i
               PROVE  i \in h1 ++ jl ++ Find_Wire(r, v, o) ++ When(Color(B), row)
                        <=> i \in Find_Wire(out, v, o)
    BY <2>1, SamePositions, <1>1 DEF B, d, row, out
  <2>2. i \in h1 ++ jl ++ Find_Wire(r, v, o) ++ When(Color(B), row)
          <=> ((((i \in h1) # (i \in jl)) # (i \in Find_Wire(r, v, o)))
                 # (i \in When(Color(B), row)))
    BY SumMember
  <2>3. i \in h1 ++ jl ++ Find_Wire(r, v, o) ++ When(Color(B), row)
          <=> IF v /\ i \in o THEN (p(i) <=> i \in When(Color(B), row))
                              ELSE ~ (p(i) <=> i \in When(Color(B), row))
    BY <2>2, <1>8
  <2> HIDE DEF x, p, q
  <2>4. i \in When(Color(B), row) <=> (Color(B) /\ i \in row)
    BY WhenMember, ColorBoolean
  <2>5. i \in Find_Wire(out, v, o) <=> IF v /\ i \in o THEN ~ (i \in out) ELSE i \in out
    BY <1>8
  <2>6. Color(B) <=> ~ Color(node.b)
    BY <1>4, <1>11, ColorBoolean
  <2> QED
    BY <2>3, <2>4, <2>5, <2>6, <1>9, <1>10
<1>12. CASE ~ c
  <2>1. EvJoinNode(x, B, d, row) = h0 ++ Find_Wire(l, v, o) ++ jr ++ When(Color(B), row)
    BY <1>2, <1>3, <1>6, <1>7, <1>12 DEF jr
  <2> SUFFICES ASSUME NEW i
               PROVE  i \in h0 ++ Find_Wire(l, v, o) ++ jr ++ When(Color(B), row)
                        <=> i \in Find_Wire(out, v, o)
    BY <2>1, SamePositions, <1>1 DEF B, d, row, out
  <2>2. i \in h0 ++ Find_Wire(l, v, o) ++ jr ++ When(Color(B), row)
          <=> ((((i \in h0) # (i \in Find_Wire(l, v, o))) # (i \in jr))
                 # (i \in When(Color(B), row)))
    BY SumMember
  <2>3. i \in h0 ++ Find_Wire(l, v, o) ++ jr ++ When(Color(B), row)
          <=> IF v /\ i \in o THEN (q(i) <=> i \in When(Color(B), row))
                              ELSE ~ (q(i) <=> i \in When(Color(B), row))
    BY <2>2, <1>8
  <2> HIDE DEF x, p, q
  <2>4. i \in When(Color(B), row) <=> (Color(B) /\ i \in row)
    BY WhenMember, ColorBoolean
  <2>5. i \in Find_Wire(out, v, o) <=> IF v /\ i \in o THEN ~ (i \in out) ELSE i \in out
    BY <1>8
  <2>6. Color(B) <=> Color(node.b)
    BY <1>4, <1>12, ColorBoolean
  <2> QED
    BY <2>3, <2>4, <2>5, <2>6, <1>9, <1>10
<1> QED
  BY <1>11, <1>12
-----------------------------------------------------------------------------
(* The leaves: AND over the offset of a child, and seeds *)

(***************************************************************************)
(* AND with a material vector of its own (Bit.cpp), over any offset whose  *)
(* bit 0 is set: Bob's half yields the label of the conjunction.           *)
(***************************************************************************)
THEOREM AndCorrect ==
  ASSUME NEW a, NEW b, NEW o, NEW n \in Nat, NEW va \in BOOLEAN, NEW vb \in BOOLEAN,
         Color(o)
  PROVE  LET rows == AndRows(a, b, o, n)
         IN  AndHalf(Find_Wire(a, va, o), Find_Wire(b, vb, o), rows, n)
               = Find_Wire(AndHalf(a, b, rows, n), va /\ vb, o)
<1> DEFINE ax == Find_Wire(a, va, o)
           bx == Find_Wire(b, vb, o)
           ha0 == HashGate(a, n)
           ha1 == HashGate(a ++ o, n)
           hb0 == HashGate(b, n + 1)
           hb1 == HashGate(b ++ o, n + 1)
           hax == IF va THEN ha1 ELSE ha0
           hbx == IF vb THEN hb1 ELSE hb0
           rg == ha0 ++ ha1 ++ When(Color(b), o)
           re == hb0 ++ hb1 ++ a
           bobs == hax ++ When(Color(ax), rg) ++ hbx ++ When(Color(bx), re ++ ax)
           alices == ha0 ++ When(Color(a), rg) ++ hb0 ++ When(Color(b), re ++ a)
<1>1. AndRows(a, b, o, n) = <<rg, re>>
  BY DEF AndRows
<1>2. HashGate(ax, n) = hax /\ HashGate(bx, n + 1) = hbx
  BY DEF Find_Wire, ++
<1>3. AndHalf(ax, bx, <<rg, re>>, n) = bobs /\ AndHalf(a, b, <<rg, re>>, n) = alices
  BY <1>2 DEF AndHalf
<1>4. (Color(ax) <=> (Color(a) # va)) /\ (Color(bx) <=> (Color(b) # vb))
  BY WireColor
<1> HIDE DEF ha0, ha1, hb0, hb1
<1>5. ASSUME NEW i
      PROVE  /\ i \in ax <=> ((i \in a) # (va /\ i \in o))
             /\ i \in hax <=> IF va THEN i \in ha1 ELSE i \in ha0
             /\ i \in hbx <=> IF vb THEN i \in hb1 ELSE i \in hb0
  BY WireMember
<1> HIDE DEF ax, bx, hax, hbx
<1>6. ASSUME NEW i
      PROVE  /\ i \in rg <=> (((i \in ha0) # (i \in ha1)) # (Color(b) /\ i \in o))
             /\ i \in re <=> (((i \in hb0) # (i \in hb1)) # (i \in a))
  BY PlusMember, WhenMember, ColorBoolean
<1> HIDE DEF rg, re
<1>7. ASSUME NEW i
      PROVE  /\ i \in bobs <=> (((i \in hax) # (Color(ax) /\ i \in rg))
                                # ((i \in hbx) # (Color(bx) /\ ((i \in re) # (i \in ax)))))
             /\ i \in alices <=> (((i \in ha0) # (Color(a) /\ i \in rg))
                                # ((i \in hb0) # (Color(b) /\ ((i \in re) # (i \in a)))))
  BY PlusMember, WhenMember, ColorBoolean
<1> HIDE DEF bobs, alices
<1>8. bobs = Find_Wire(alices, va /\ vb, o)
  <2> SUFFICES ASSUME NEW i
               PROVE  i \in bobs <=> i \in Find_Wire(alices, va /\ vb, o)
    BY SamePositions
  <2>1. i \in Find_Wire(alices, va /\ vb, o) <=> ((i \in alices) # (va /\ vb /\ i \in o))
    BY WireMember
  <2> QED
    BY <2>1, <1>4, <1>5, <1>6, <1>7, ColorBoolean
<1> QED
  BY <1>1, <1>3, <1>8 DEF ax, bx

(***************************************************************************)
(* Seeds (GbSeedTree, EvSeedTree): with the label that says the sibling is *)
(* active Bob decodes the child's good seed, and with the other label the  *)
(* bad seed Alice foresees.                                                *)
(***************************************************************************)
THEOREM SeedCorrect ==
  ASSUME NEW k, NEW offset, NEW good, NEW sibling \in BOOLEAN
  PROVE  LET row == SeedRow(k, offset, good)
         IN  Seed(Find_Wire(k, sibling, offset), row)
               = IF sibling THEN good ELSE Seed(k, row)
<1>1. HashSGC(k ++ offset) ++ (HashSGC(k ++ offset) ++ good) = good
  BY DoublePlus
<1>2. CASE sibling
  BY <1>1, <1>2 DEF Seed, SeedRow, Find_Wire, ++
<1>3. CASE ~ sibling
  BY <1>3 DEF Seed, SeedRow, Find_Wire
<1> QED
  BY <1>2, <1>3
=============================================================================
