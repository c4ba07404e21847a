--------------------------- MODULE Fragments_proofs -------------------------
(***************************************************************************)
(* The rows that the instructions of a fragment take, for every width of   *)
(* the words, all contents of the registers, all choices of operands and   *)
(* all immediates.  Every circuit of Words is looked at as what it does to *)
(* the flags of its bits: a wire is a bit that is not a constant, and an   *)
(* AND takes two rows exactly if both of its bits are wires.               *)
(***************************************************************************)
EXTENDS Fragments, Induction, FiniteSetTheorems

LEMMA Width == SIZE \in Nat /\ SIZE >= 2 /\ Top \in Nat /\ Top = SIZE - 1
  BY SizeAssumption DEF Top

-----------------------------------------------------------------------------
(* Bits *)

Wire == [v : BOOLEAN, isConstant : {FALSE}]
NoWire == constant(FALSE)

LEMMA WireOf == \A p \in BOOLEAN : wire(p) \in Wire
  BY DEF wire, Wire

LEMMA WireFlag == \A a : a \in Wire => ~ a.isConstant /\ a.v \in BOOLEAN
  BY DEF Wire

\* The gates over two wires
LEMMA WireGates ==
  ASSUME NEW a \in Wire, NEW b \in Wire
  PROVE  Xor(a, b) \in Wire /\ Not(a) \in Wire /\ And(a, b) \in Wire /\ AndRows(a, b) = 2
<1>1. Xor(a, b) \in Wire
  BY DEF Xor, Wire
<1>2. Not(a) \in Wire
  BY DEF Not, Wire
<1>3. And(a, b) \in Wire
  <2>1. ~ a.isConstant /\ ~ b.isConstant
    BY WireFlag
  <2>2. And(a, b) = wire(a.v /\ b.v)
    BY <2>1, Zenon DEF And
  <2> QED
    BY <2>2, WireOf
<1>4. AndRows(a, b) = 2
  BY WireFlag DEF AndRows
<1> QED
  BY <1>1, <1>2, <1>3, <1>4

\* The gates over a wire and a constant 0: no row is taken
LEMMA ConstantGates ==
  ASSUME NEW a \in Wire
  PROVE  /\ Xor(a, NoWire) \in Wire /\ Xor(NoWire, a) \in Wire
         /\ And(a, NoWire) = NoWire /\ And(NoWire, a) = NoWire
         /\ AndRows(a, NoWire) = 0 /\ AndRows(NoWire, a) = 0
<1>1. NoWire.isConstant = TRUE /\ NoWire.v = FALSE
  BY DEF NoWire, constant
<1>2. ~ a.isConstant
  BY WireFlag
<1>3. Xor(a, NoWire) \in Wire /\ Xor(NoWire, a) \in Wire
  BY <1>1 DEF Xor, Wire
<1>4. And(a, NoWire) = NoWire
  <2>1. And(a, NoWire) = IF NoWire.v THEN a ELSE constant(FALSE)
    BY <1>1, <1>2, Zenon DEF And
  <2> QED
    BY <2>1, <1>1 DEF NoWire
<1>5. And(NoWire, a) = NoWire
  <2>1. And(NoWire, a) = IF NoWire.v THEN a ELSE constant(FALSE)
    BY <1>1, <1>2, Zenon DEF And
  <2> QED
    BY <2>1, <1>1 DEF NoWire
<1>6. AndRows(a, NoWire) = 0 /\ AndRows(NoWire, a) = 0
  BY <1>1 DEF AndRows
<1> QED
  BY <1>3, <1>4, <1>5, <1>6

LEMMA NoWireGates ==
  Xor(NoWire, NoWire) = NoWire /\ And(NoWire, NoWire) = NoWire /\ AndRows(NoWire, NoWire) = 0
<1>1. NoWire.isConstant = TRUE /\ NoWire.v = FALSE
  BY DEF NoWire, constant
<1>2. Xor(NoWire, NoWire) = NoWire
  BY <1>1 DEF Xor, NoWire, constant
<1>3. And(NoWire, NoWire) = NoWire
  <2>1. And(NoWire, NoWire) = constant(NoWire.v /\ NoWire.v)
    BY <1>1, Zenon DEF And
  <2> QED
    BY <2>1, <1>1 DEF NoWire
<1>4. AndRows(NoWire, NoWire) = 0
  BY <1>1 DEF AndRows
<1> QED
  BY <1>2, <1>3, <1>4

\* One step of a carry chain, over wires
LEMMA WireMajority ==
  ASSUME NEW a \in Wire, NEW b \in Wire, NEW c \in Wire
  PROVE  Majority(a, b, c) \in Wire /\ MajorityRows(a, b, c) = 2
<1>1. Xor(a, c) \in Wire /\ Xor(b, c) \in Wire
  BY WireGates
<1>2. And(Xor(a, c), Xor(b, c)) \in Wire /\ AndRows(Xor(a, c), Xor(b, c)) = 2
  BY <1>1, WireGates
<1> QED
  BY <1>2, WireGates DEF Majority, MajorityRows

\* The carry stays a constant 0 where the first word holds constants 0
LEMMA MajorityNoFirst ==
  ASSUME NEW b \in Wire
  PROVE  Majority(NoWire, b, NoWire) = NoWire /\ MajorityRows(NoWire, b, NoWire) = 0
  BY ConstantGates, NoWireGates DEF Majority, MajorityRows

\* ... and where the second does
LEMMA MajorityNoSecond ==
  ASSUME NEW a \in Wire
  PROVE  Majority(a, NoWire, NoWire) = NoWire /\ MajorityRows(a, NoWire, NoWire) = 0
  BY ConstantGates, NoWireGates DEF Majority, MajorityRows

\* The first position at which both words hold wires
LEMMA MajorityStarts ==
  ASSUME NEW a \in Wire, NEW b \in Wire
  PROVE  Majority(a, b, NoWire) \in Wire /\ MajorityRows(a, b, NoWire) = 2
<1>1. Xor(a, NoWire) \in Wire /\ Xor(b, NoWire) \in Wire
  BY ConstantGates
<1>2. And(Xor(a, NoWire), Xor(b, NoWire)) \in Wire
        /\ AndRows(Xor(a, NoWire), Xor(b, NoWire)) = 2
  BY <1>1, WireGates
<1> QED
  BY <1>2, ConstantGates DEF Majority, MajorityRows
-----------------------------------------------------------------------------
(* Counting rows *)

\* Two rows at every position from k on, and none before
RowsStart(rs, m, n, k) ==
  /\ DOMAIN rs = m .. n
  /\ \A j \in m .. n : rs[j] = IF j < k THEN 0 ELSE 2

LEMMA RowsFrom ==
  ASSUME NEW m \in Int, NEW n \in Int, NEW k \in Int, m <= k, k <= n + 1,
         NEW rs, RowsStart(rs, m, n, k)
  PROVE  SumRows(rs) = 2 * ((n + 1) - k)
<1>1. { j \in DOMAIN rs : rs[j] = 2 } = k .. n
  BY DEF RowsStart
<1>2. Cardinality(k .. n) = IF k > n THEN 0 ELSE (n - k) + 1
  BY FS_Interval
<1>3. Cardinality(k .. n) = (n + 1) - k
  BY <1>2
<1> QED
  BY <1>1, <1>3 DEF SumRows

LEMMA AllRows ==
  ASSUME NEW m \in Int, NEW n \in Int, m <= n + 1, NEW rs,
         DOMAIN rs = m .. n, \A j \in m .. n : rs[j] = 2
  PROVE  SumRows(rs) = 2 * ((n + 1) - m)
<1>1. RowsStart(rs, m, n, m)
  BY DEF RowsStart
<1> QED
  BY <1>1, RowsFrom
-----------------------------------------------------------------------------
(* Carry chains *)

LEMMA BitGates ==
  ASSUME NEW a \in Bit, NEW b \in Bit
  PROVE  Xor(a, b) \in Bit /\ Not(a) \in Bit /\ And(a, b) \in Bit
<1>1. a.v \in BOOLEAN /\ a.isConstant \in BOOLEAN /\ b.v \in BOOLEAN /\ b.isConstant \in BOOLEAN
  BY DEF Bit
<1>2. Xor(a, b) \in Bit
  BY <1>1 DEF Xor, Bit
<1>3. Not(a) \in Bit
  BY DEF Not, Bit
<1>4. \A p \in BOOLEAN : constant(p) \in Bit /\ wire(p) \in Bit
  BY DEF constant, wire, Bit
<1>5. \/ And(a, b) = constant(a.v /\ b.v) \/ And(a, b) = wire(a.v /\ b.v)
      \/ And(a, b) \in {a, b, constant(FALSE)}
  <2>1. CASE a.isConstant /\ b.isConstant
    BY <2>1, Zenon DEF And
  <2>2. CASE a.isConstant /\ ~ b.isConstant
    <3>1. And(a, b) = IF a.v THEN b ELSE constant(FALSE)
      BY <2>2, Zenon DEF And
    <3> QED
      BY <3>1
  <2>3. CASE ~ a.isConstant /\ b.isConstant
    <3>1. And(a, b) = IF b.v THEN a ELSE constant(FALSE)
      BY <2>3, Zenon DEF And
    <3> QED
      BY <3>1
  <2>4. CASE ~ a.isConstant /\ ~ b.isConstant
    BY <2>4, Zenon DEF And
  <2> QED
    BY <1>1, <2>1, <2>2, <2>3, <2>4
<1>6. And(a, b) \in Bit
  BY <1>1, <1>4, <1>5
<1> QED
  BY <1>2, <1>3, <1>6

LEMMA MajorityBit ==
  ASSUME NEW a \in Bit, NEW b \in Bit, NEW c \in Bit
  PROVE  Majority(a, b, c) \in Bit
<1>1. Xor(a, c) \in Bit /\ Xor(b, c) \in Bit
  BY BitGates
<1>2. And(Xor(a, c), Xor(b, c)) \in Bit
  BY <1>1, BitGates
<1> QED
  BY <1>2, BitGates DEF Majority

\* The recursive definitions mean what they say: the carries of an addition
LEMMA AddCarriesAre ==
  ASSUME NEW a \in Word, NEW b \in Word
  PROVE  LET c == AddCarries(a, b)
         IN  /\ c \in [1 .. SIZE -> Bit]
             /\ c[1] = And(a[0], b[0])
             /\ \A j \in 2 .. SIZE : c[j] = Majority(a[j - 1], b[j - 1], c[j - 1])
<1> DEFINE At(c, j) == IF j = 1 THEN And(a[0], b[0])
                       ELSE Majority(a[j - 1], b[j - 1], c[j - 1])
           step == [j \in 1 + 1 .. SIZE |->
                      [x \in Bit |-> Majority(a[j - 1], b[j - 1], x)]]
<1>1. \A j \in Position : a[j] \in Bit /\ b[j] \in Bit
  BY DEF Word
<1>2. And(a[0], b[0]) \in Bit
  BY <1>1, BitGates, Width DEF Position
<1>3. step \in [1 + 1 .. SIZE -> [Bit -> Bit]]
  <2> SUFFICES ASSUME NEW j \in 2 .. SIZE, NEW x \in Bit
               PROVE  Majority(a[j - 1], b[j - 1], x) \in Bit
    BY Width
  <2>1. j - 1 \in Position
    BY Width DEF Position
  <2> QED
    BY <1>1, <2>1, MajorityBit
<1>4. \A j \in 2 .. SIZE, x \in Bit : step[j][x] = Majority(a[j - 1], b[j - 1], x)
  OBVIOUS
<1> HIDE DEF step
<1>5. PICK g : /\ g \in [1 .. SIZE -> Bit]
               /\ g[1] = And(a[0], b[0])
               /\ \A j \in 1 + 1 .. SIZE : g[j] = step[j][g[j - 1]]
  <2>1. 1 \in Nat /\ SIZE \in Nat /\ 1 <= SIZE
    BY Width
  <2>2. \E g : SolvesRecursion(g, Bit, And(a[0], b[0]), 1, SIZE, step)
    BY <1>2, <1>3, <2>1, Recursion
  <2> QED
    BY <2>2 DEF SolvesRecursion
<1>6. \A j \in 1 .. SIZE : g[j] = At(g, j)
  <2> SUFFICES ASSUME NEW j \in 1 .. SIZE, j # 1
               PROVE  g[j] = Majority(a[j - 1], b[j - 1], g[j - 1])
    BY <1>5
  <2>1. j \in 2 .. SIZE /\ j - 1 \in 1 .. SIZE /\ j \in 1 + 1 .. SIZE
    BY Width
  <2>2. g[j] = step[j][g[j - 1]] /\ g[j - 1] \in Bit
    BY <1>5, <2>1
  <2> QED
    BY <1>4, <2>1, <2>2, Zenon
<1>7. AddCarries(a, b) = CHOOSE c : c = [j \in 1 .. SIZE |-> At(c, j)]
  BY DEF AddCarries
<1>8. g = [j \in 1 .. SIZE |-> At(g, j)]
  <2> HIDE DEF At
  <2> QED
    BY <1>5, <1>6
<1>9. PICK c : c = AddCarries(a, b)
  OBVIOUS
<1>10. c = [j \in 1 .. SIZE |-> At(c, j)]
  <2> HIDE DEF At
  <2> QED
    BY <1>7, <1>8, <1>9, Zenon
<1>11. c[1] = And(a[0], b[0])
  BY <1>10, Width
<1>12. \A j \in 2 .. SIZE : c[j] = Majority(a[j - 1], b[j - 1], c[j - 1])
  <2> SUFFICES ASSUME NEW j \in 2 .. SIZE
               PROVE  c[j] = Majority(a[j - 1], b[j - 1], c[j - 1])
    OBVIOUS
  <2>1. j \in 1 .. SIZE /\ j # 1
    BY Width
  <2>2. c[j] = At(c, j)
    <3> HIDE DEF At
    <3> QED
      BY <1>10, <2>1
  <2> QED
    BY <2>1, <2>2, Zenon
<1>13. \A j \in 1 .. SIZE : c[j] \in Bit
  <2> DEFINE S == { j \in 1 .. SIZE : c[j] \in Bit }
  <2>1. 1 \in S
    BY <1>2, <1>11, Width
  <2>2. ASSUME NEW j \in 1 .. SIZE, j # SIZE, j \in S
        PROVE  j + 1 \in S
    <3>1. j + 1 \in 2 .. SIZE /\ (j + 1) - 1 = j /\ j \in Position
      BY <2>2, Width DEF Position
    <3>2. c[j + 1] = Majority(a[j], b[j], c[j])
      BY <1>12, <3>1
    <3>3. Majority(a[j], b[j], c[j]) \in Bit
      BY <1>1, <2>2, <3>1, MajorityBit
    <3> QED
      BY <3>1, <3>2, <3>3, Width
  <2>3. 1 .. SIZE \subseteq S
    <3> HIDE DEF S
    <3> QED
      BY <2>1, <2>2, IntervalInduction, Width
  <2> QED
    BY <2>3
<1>14. c \in [1 .. SIZE -> Bit]
  <2> HIDE DEF At
  <2> QED
    BY <1>10, <1>13
<1> QED
  BY <1>9, <1>11, <1>12, <1>14

\* The carries for a carry into position 0
LEMMA CarriesAre ==
  ASSUME NEW a \in Word, NEW b \in Word, NEW in \in Bit
  PROVE  LET c == Carries(a, b, in)
         IN  /\ c \in [0 .. SIZE -> Bit]
             /\ c[0] = in
             /\ \A j \in 1 .. SIZE : c[j] = Majority(a[j - 1], b[j - 1], c[j - 1])
<1> DEFINE At(c, j) == IF j = 0 THEN in
                       ELSE Majority(a[j - 1], b[j - 1], c[j - 1])
           step == [j \in 0 + 1 .. SIZE |->
                      [x \in Bit |-> Majority(a[j - 1], b[j - 1], x)]]
<1>1. \A j \in Position : a[j] \in Bit /\ b[j] \in Bit
  BY DEF Word
<1>2. in \in Bit
  OBVIOUS
<1>3. step \in [0 + 1 .. SIZE -> [Bit -> Bit]]
  <2> SUFFICES ASSUME NEW j \in 1 .. SIZE, NEW x \in Bit
               PROVE  Majority(a[j - 1], b[j - 1], x) \in Bit
    BY Width
  <2>1. j - 1 \in Position
    BY Width DEF Position
  <2> QED
    BY <1>1, <2>1, MajorityBit
<1>4. \A j \in 1 .. SIZE, x \in Bit : step[j][x] = Majority(a[j - 1], b[j - 1], x)
  OBVIOUS
<1> HIDE DEF step
<1>5. PICK g : /\ g \in [0 .. SIZE -> Bit]
               /\ g[0] = in
               /\ \A j \in 0 + 1 .. SIZE : g[j] = step[j][g[j - 1]]
  <2>1. 0 \in Nat /\ SIZE \in Nat /\ 0 <= SIZE
    BY Width
  <2>2. \E g : SolvesRecursion(g, Bit, in, 0, SIZE, step)
    BY <1>2, <1>3, <2>1, Recursion
  <2> QED
    BY <2>2 DEF SolvesRecursion
<1>6. \A j \in 0 .. SIZE : g[j] = At(g, j)
  <2> SUFFICES ASSUME NEW j \in 0 .. SIZE, j # 0
               PROVE  g[j] = Majority(a[j - 1], b[j - 1], g[j - 1])
    BY <1>5
  <2>1. j \in 1 .. SIZE /\ j - 1 \in 0 .. SIZE /\ j \in 0 + 1 .. SIZE
    BY Width
  <2>2. g[j] = step[j][g[j - 1]] /\ g[j - 1] \in Bit
    BY <1>5, <2>1
  <2> QED
    BY <1>4, <2>1, <2>2, Zenon
<1>7. Carries(a, b, in) = CHOOSE c : c = [j \in 0 .. SIZE |-> At(c, j)]
  BY DEF Carries
<1>8. g = [j \in 0 .. SIZE |-> At(g, j)]
  <2> HIDE DEF At
  <2> QED
    BY <1>5, <1>6
<1>9. PICK c : c = Carries(a, b, in)
  OBVIOUS
<1>10. c = [j \in 0 .. SIZE |-> At(c, j)]
  <2> HIDE DEF At
  <2> QED
    BY <1>7, <1>8, <1>9, Zenon
<1>11. c[0] = in
  BY <1>10, Width
<1>12. \A j \in 1 .. SIZE : c[j] = Majority(a[j - 1], b[j - 1], c[j - 1])
  <2> SUFFICES ASSUME NEW j \in 1 .. SIZE
               PROVE  c[j] = Majority(a[j - 1], b[j - 1], c[j - 1])
    OBVIOUS
  <2>1. j \in 0 .. SIZE /\ j # 0
    BY Width
  <2>2. c[j] = At(c, j)
    <3> HIDE DEF At
    <3> QED
      BY <1>10, <2>1
  <2> QED
    BY <2>1, <2>2, Zenon
<1>13. \A j \in 0 .. SIZE : c[j] \in Bit
  <2> DEFINE S == { j \in 0 .. SIZE : c[j] \in Bit }
  <2>1. 0 \in S
    BY <1>2, <1>11, Width
  <2>2. ASSUME NEW j \in 0 .. SIZE, j # SIZE, j \in S
        PROVE  j + 1 \in S
    <3>1. j + 1 \in 1 .. SIZE /\ (j + 1) - 1 = j /\ j \in Position
      BY <2>2, Width DEF Position
    <3>2. c[j + 1] = Majority(a[j], b[j], c[j])
      BY <1>12, <3>1
    <3>3. Majority(a[j], b[j], c[j]) \in Bit
      BY <1>1, <2>2, <3>1, MajorityBit
    <3> QED
      BY <3>1, <3>2, <3>3, Width
  <2>3. 0 .. SIZE \subseteq S
    <3> HIDE DEF S
    <3> QED
      BY <2>1, <2>2, IntervalInduction, Width
  <2> QED
    BY <2>3
<1>14. c \in [0 .. SIZE -> Bit]
  <2> HIDE DEF At
  <2> QED
    BY <1>10, <1>13
<1> QED
  BY <1>9, <1>11, <1>12, <1>14

\* The comparison of the lowest positions
LEMMA EqualAre ==
  ASSUME NEW a \in Word, NEW b \in Word
  PROVE  LET c == Equal(a, b)
         IN  /\ c \in [0 .. Top -> Bit]
             /\ c[0] = Not(Xor(a[0], b[0]))
             /\ \A j \in 1 .. Top : c[j] = And(c[j - 1], Not(Xor(a[j], b[j])))
<1> DEFINE At(c, j) == IF j = 0 THEN Not(Xor(a[0], b[0]))
                       ELSE And(c[j - 1], Not(Xor(a[j], b[j])))
           step == [j \in 0 + 1 .. Top |->
                      [x \in Bit |-> And(x, Not(Xor(a[j], b[j])))]]
<1>1. \A j \in Position : a[j] \in Bit /\ b[j] \in Bit
  BY DEF Word
<1>2. Not(Xor(a[0], b[0])) \in Bit
  <2>1. Xor(a[0], b[0]) \in Bit
    BY <1>1, BitGates, Width DEF Position
  <2> QED
    BY <2>1, BitGates
<1>3. step \in [0 + 1 .. Top -> [Bit -> Bit]]
  <2> SUFFICES ASSUME NEW j \in 1 .. Top, NEW x \in Bit
               PROVE  And(x, Not(Xor(a[j], b[j]))) \in Bit
    BY Width
  <2>1. j \in Position
    BY Width DEF Position
  <2> QED
    BY <1>1, <2>1, BitGates
<1>4. \A j \in 1 .. Top, x \in Bit : step[j][x] = And(x, Not(Xor(a[j], b[j])))
  OBVIOUS
<1> HIDE DEF step
<1>5. PICK g : /\ g \in [0 .. Top -> Bit]
               /\ g[0] = Not(Xor(a[0], b[0]))
               /\ \A j \in 0 + 1 .. Top : g[j] = step[j][g[j - 1]]
  <2>1. 0 \in Nat /\ Top \in Nat /\ 0 <= Top
    BY Width
  <2>2. \E g : SolvesRecursion(g, Bit, Not(Xor(a[0], b[0])), 0, Top, step)
    BY <1>2, <1>3, <2>1, Recursion
  <2> QED
    BY <2>2 DEF SolvesRecursion
<1>6. \A j \in 0 .. Top : g[j] = At(g, j)
  <2> SUFFICES ASSUME NEW j \in 0 .. Top, j # 0
               PROVE  g[j] = And(g[j - 1], Not(Xor(a[j], b[j])))
    BY <1>5
  <2>1. j \in 1 .. Top /\ j - 1 \in 0 .. Top /\ j \in 0 + 1 .. Top
    BY Width
  <2>2. g[j] = step[j][g[j - 1]] /\ g[j - 1] \in Bit
    BY <1>5, <2>1
  <2> QED
    BY <1>4, <2>1, <2>2, Zenon
<1>7. Equal(a, b) = CHOOSE c : c = [j \in 0 .. Top |-> At(c, j)]
  <2>1. 0 .. Top = Position
    BY DEF Position, Top
  <2>2. Equal(a, b) = CHOOSE c : c = [j \in Position |-> At(c, j)]
    BY DEF Equal
  <2> HIDE DEF At
  <2> QED
    BY <2>1, <2>2
<1>8. g = [j \in 0 .. Top |-> At(g, j)]
  <2> HIDE DEF At
  <2> QED
    BY <1>5, <1>6
<1>9. PICK c : c = Equal(a, b)
  OBVIOUS
<1>10. c = [j \in 0 .. Top |-> At(c, j)]
  <2> HIDE DEF At
  <2> QED
    BY <1>7, <1>8, <1>9, Zenon
<1>11. c[0] = Not(Xor(a[0], b[0]))
  BY <1>10, Width
<1>12. \A j \in 1 .. Top : c[j] = And(c[j - 1], Not(Xor(a[j], b[j])))
  <2> SUFFICES ASSUME NEW j \in 1 .. Top
               PROVE  c[j] = And(c[j - 1], Not(Xor(a[j], b[j])))
    OBVIOUS
  <2>1. j \in 0 .. Top /\ j # 0
    BY Width
  <2>2. c[j] = At(c, j)
    <3> HIDE DEF At
    <3> QED
      BY <1>10, <2>1
  <2> QED
    BY <2>1, <2>2, Zenon
<1>13. \A j \in 0 .. Top : c[j] \in Bit
  <2> DEFINE S == { j \in 0 .. Top : c[j] \in Bit }
  <2>1. 0 \in S
    BY <1>2, <1>11, Width
  <2>2. ASSUME NEW j \in 0 .. Top, j # Top, j \in S
        PROVE  j + 1 \in S
    <3>1. j + 1 \in 1 .. Top /\ (j + 1) - 1 = j /\ j + 1 \in Position
      BY <2>2, Width DEF Position
    <3>2. c[j + 1] = And(c[j], Not(Xor(a[j + 1], b[j + 1])))
      BY <1>12, <3>1
    <3>3. And(c[j], Not(Xor(a[j + 1], b[j + 1]))) \in Bit
      BY <1>1, <2>2, <3>1, BitGates
    <3> QED
      BY <3>1, <3>2, <3>3, Width
  <2>3. 0 .. Top \subseteq S
    <3> HIDE DEF S
    <3> QED
      BY <2>1, <2>2, IntervalInduction, Width
  <2> QED
    BY <2>3
<1>14. c \in [0 .. Top -> Bit]
  <2> HIDE DEF At
  <2> QED
    BY <1>10, <1>13
<1> QED
  BY <1>9, <1>11, <1>12, <1>14
-----------------------------------------------------------------------------
(* Words of wires *)

WireWord == [Position -> Wire]

LEMMA WireWords ==
  ASSUME NEW a \in WireWord
  PROVE  a \in Word /\ \A j \in Position : a[j] \in Wire
<1>1. Wire \subseteq Bit
  BY DEF Wire, Bit
<1> QED
  BY <1>1 DEF WireWord, Word

LEMMA NoWireBit == NoWire \in Bit
  BY DEF NoWire, constant, Bit

LEMMA Bits2 == 0 \in Position /\ 1 \in Position /\ Top \in Position
  BY Width DEF Position

(***************************************************************************)
(* The sum of a word of wires and one of wires from position k on, which   *)
(* is what a multiplication adds: the carry starts at k, and so do the     *)
(* rows.  The sum is a word of wires.                                      *)
(***************************************************************************)
FromPosition(b, k) ==
  /\ b \in Word
  /\ \A j \in Position : IF j < k THEN b[j] = NoWire ELSE b[j] \in Wire

LEMMA CarriesFrom ==
  ASSUME NEW a \in WireWord, NEW k \in Position, NEW b, FromPosition(b, k), NEW j \in 1 .. SIZE
  PROVE  IF j <= k THEN AddCarries(a, b)[j] = NoWire ELSE AddCarries(a, b)[j] \in Wire
<1> DEFINE c == AddCarries(a, b)
           S == { i \in 1 .. SIZE : IF i <= k THEN c[i] = NoWire ELSE c[i] \in Wire }
<1>1. /\ c[1] = And(a[0], b[0])
      /\ \A i \in 2 .. SIZE : c[i] = Majority(a[i - 1], b[i - 1], c[i - 1])
  BY WireWords, AddCarriesAre DEF FromPosition
<1> HIDE DEF c
<1>2. k \in Int /\ 0 <= k /\ k <= SIZE - 1
  BY Width DEF Position
<1>3. \A i \in Position : IF i < k THEN b[i] = NoWire ELSE b[i] \in Wire
  BY DEF FromPosition
<1>4. 1 \in S
  <2>1. 0 \in Position /\ a[0] \in Wire
    BY Bits2, WireWords
  <2>2. CASE 1 <= k
    <3>1. b[0] = NoWire
      BY <1>2, <1>3, <2>1, <2>2
    <3> QED
      BY <1>1, <2>1, <2>2, <3>1, ConstantGates, Width
  <2>3. CASE ~ (1 <= k)
    <3>1. b[0] \in Wire
      BY <1>2, <1>3, <2>1, <2>3
    <3>2. And(a[0], b[0]) \in Wire
      BY <2>1, <3>1, WireGates
    <3> QED
      BY <1>1, <2>3, <3>2, Width
  <2> QED
    BY <2>2, <2>3
<1>5. ASSUME NEW i \in 1 .. SIZE, i # SIZE, i \in S
      PROVE  i + 1 \in S
  <2>1. i \in Position /\ a[i] \in Wire /\ i + 1 \in 2 .. SIZE /\ (i + 1) - 1 = i
    BY <1>5, WireWords, Width DEF Position
  <2>2. c[i + 1] = Majority(a[i], b[i], c[i])
    BY <1>1, <2>1
  <2>3. CASE i + 1 <= k
    <3>1. b[i] = NoWire /\ c[i] = NoWire
      BY <1>2, <1>3, <1>5, <2>1, <2>3
    <3>2. c[i + 1] = NoWire
      BY <2>1, <2>2, <3>1, MajorityNoSecond
    <3> QED
      BY <2>1, <2>3, <3>2
  <2>4. CASE i = k
    <3>1. b[i] \in Wire /\ c[i] = NoWire
      BY <1>2, <1>3, <1>5, <2>1, <2>4
    <3>2. c[i + 1] \in Wire
      BY <2>1, <2>2, <3>1, MajorityStarts
    <3>3. ~ (i + 1 <= k)
      BY <1>2, <2>4
    <3> QED
      BY <2>1, <3>2, <3>3
  <2>5. CASE k < i
    <3>1. b[i] \in Wire /\ c[i] \in Wire
      BY <1>2, <1>3, <1>5, <2>1, <2>5
    <3>2. c[i + 1] \in Wire
      BY <2>1, <2>2, <3>1, WireMajority
    <3>3. ~ (i + 1 <= k)
      BY <1>2, <2>5
    <3> QED
      BY <2>1, <3>2, <3>3
  <2> QED
    BY <1>2, <2>3, <2>4, <2>5
<1>6. 1 .. SIZE \subseteq S
  <2> HIDE DEF S
  <2> QED
    BY <1>4, <1>5, IntervalInduction, Width
<1>7. IF j <= k THEN c[j] = NoWire ELSE c[j] \in Wire
  BY <1>6
<1> QED
  BY <1>7 DEF c

LEMMA AddFrom ==
  ASSUME NEW a \in WireWord, NEW k \in Position, NEW b, FromPosition(b, k)
  PROVE  Add(a, b) \in WireWord /\ AddRows(a, b) = 2 * (SIZE - k)
<1> DEFINE c == AddCarries(a, b)
           rs == [j \in Position |-> IF j = 0 THEN AndRows(a[0], b[0])
                                     ELSE MajorityRows(a[j], b[j], c[j])]
<1>1. \A j \in 1 .. SIZE : IF j <= k THEN c[j] = NoWire ELSE c[j] \in Wire
  BY CarriesFrom
<1> HIDE DEF c
<1>2. k \in Int /\ 0 <= k /\ k <= SIZE - 1
  BY Width DEF Position
<1>3. \A i \in Position : IF i < k THEN b[i] = NoWire ELSE b[i] \in Wire
  BY DEF FromPosition
<1>4. 0 \in Position /\ a[0] \in Wire
  BY Bits2, WireWords
<1>5. ASSUME NEW j \in Position, j # 0
      PROVE  /\ Xor(Xor(a[j], b[j]), c[j]) \in Wire
             /\ MajorityRows(a[j], b[j], c[j]) = IF j < k THEN 0 ELSE 2
  <2>1. a[j] \in Wire /\ j \in 1 .. SIZE
    BY <1>5, WireWords, Width DEF Position
  <2>2. CASE j < k
    <3>1. b[j] = NoWire /\ c[j] = NoWire
      BY <1>1, <1>2, <1>3, <2>1, <2>2
    <3> QED
      BY <2>1, <2>2, <3>1, MajorityNoSecond, ConstantGates
  <2>3. CASE j = k
    <3>1. b[j] \in Wire /\ c[j] = NoWire /\ ~ (j < k)
      BY <1>1, <1>2, <1>3, <2>1, <2>3
    <3>2. Xor(a[j], b[j]) \in Wire
      BY <2>1, <3>1, WireGates
    <3> QED
      BY <2>1, <3>1, <3>2, MajorityStarts, ConstantGates
  <2>4. CASE k < j
    <3>1. b[j] \in Wire /\ c[j] \in Wire /\ ~ (j < k)
      BY <1>1, <1>2, <1>3, <2>1, <2>4
    <3>2. Xor(a[j], b[j]) \in Wire
      BY <2>1, <3>1, WireGates
    <3> QED
      BY <2>1, <3>1, <3>2, WireMajority, WireGates
  <2> QED
    BY <1>2, <2>1, <2>2, <2>3, <2>4
<1>6. Xor(a[0], b[0]) \in Wire /\ AndRows(a[0], b[0]) = IF 0 < k THEN 0 ELSE 2
  <2>1. CASE 0 < k
    <3>1. b[0] = NoWire
      BY <1>3, <1>4, <2>1
    <3> QED
      BY <1>4, <2>1, <3>1, ConstantGates
  <2>2. CASE ~ (0 < k)
    <3>1. b[0] \in Wire
      BY <1>3, <1>4, <2>2
    <3> QED
      BY <1>4, <2>2, <3>1, WireGates
  <2> QED
    BY <2>1, <2>2
<1>7. Add(a, b) \in WireWord
  <2>1. Add(a, b) = [j \in Position |-> IF j = 0 THEN Xor(a[0], b[0])
                                        ELSE Xor(Xor(a[j], b[j]), c[j])]
    BY DEF Add, c
  <2> QED
    BY <1>5, <1>6, <2>1 DEF WireWord
<1>8. DOMAIN rs = 0 .. Top /\ \A j \in 0 .. Top : rs[j] = IF j < k THEN 0 ELSE 2
  <2>1. Position = 0 .. Top
    BY DEF Position, Top
  <2> QED
    BY <1>5, <1>6, <2>1
<1>9. AddRows(a, b) = SumRows(rs)
  BY DEF AddRows, c
<1>10. Top \in Int /\ k <= Top + 1 /\ (Top + 1) - k = SIZE - k /\ 0 \in Int
  BY <1>2, Width
<1> HIDE DEF rs
<1>11. SumRows(rs) = 2 * ((Top + 1) - k)
  <2>1. RowsStart(rs, 0, Top, k)
    BY <1>8 DEF RowsStart
  <2> QED
    BY <1>2, <1>10, <2>1, RowsFrom
<1> QED
  BY <1>7, <1>9, <1>10, <1>11
-----------------------------------------------------------------------------
(* The circuits over words of wires *)

LEMMA AddWires ==
  ASSUME NEW a \in WireWord, NEW b \in WireWord
  PROVE  Add(a, b) \in WireWord /\ AddRows(a, b) = 2 * SIZE
<1>1. 0 \in Position /\ \A j \in Position : ~ (j < 0)
  BY Bits2 DEF Position
<1>2. FromPosition(b, 0)
  BY <1>1, WireWords DEF FromPosition
<1>3. Add(a, b) \in WireWord /\ AddRows(a, b) = 2 * (SIZE - 0)
  BY <1>1, <1>2, AddFrom
<1> QED
  BY <1>3, Width

LEMMA WordGates ==
  ASSUME NEW a \in WireWord, NEW b \in WireWord
  PROVE  /\ XorWord(a, b) \in WireWord
         /\ NotWord(b) \in WireWord
         /\ RightShift1(a) \in WireWord
<1>1. \A j \in Position : a[j] \in Wire /\ b[j] \in Wire
  BY WireWords
<1>2. XorWord(a, b) \in WireWord
  BY <1>1, WireGates DEF XorWord, WireWord
<1>3. NotWord(b) \in WireWord
  BY <1>1, WireGates DEF NotWord, WireWord
<1>4. ASSUME NEW j \in Position
      PROVE  [a[j] EXCEPT !.v = IF j = Top THEN FALSE ELSE a[j + 1].v] \in Wire
  <2>1. (IF j = Top THEN FALSE ELSE a[j + 1].v) \in BOOLEAN
    <3>1. CASE j = Top
      BY <3>1
    <3>2. CASE j # Top
      <4>1. j + 1 \in Position
        BY <3>2, Width DEF Position
      <4> QED
        BY <1>1, <3>2, <4>1, WireFlag
    <3> QED
      BY <3>1, <3>2
  <2> QED
    BY <1>1, <2>1 DEF Wire
<1>5. RightShift1(a) \in WireWord
  BY <1>4 DEF RightShift1, WireWord
<1> QED
  BY <1>2, <1>3, <1>5

LEMMA ImmediateWord == \A n : Immediate(n) \in WireWord
<1> TAKE n
<1>1. \A j \in Position : wire((n \div 2^j) % 2 = 1) \in Wire
  BY DEF wire, Wire
<1> QED
  BY <1>1 DEF Immediate, WireWord

LEMMA AndWires ==
  ASSUME NEW a \in WireWord, NEW b \in WireWord, NEW bid \in {0, 1}, NEW not_mark \in BOOLEAN
  PROVE  And_Bit(a, b, bid, not_mark) \in WireWord
<1>1. (\A j \in Position : a[j] \in Wire) /\ b[bid] \in Wire
  BY WireWords, Bits2
<1>2. (IF not_mark THEN Not(b[bid]) ELSE b[bid]) \in Wire
  BY <1>1, WireGates
<1> DEFINE bit == IF not_mark THEN Not(b[bid]) ELSE b[bid]
<1>3. And_Bit(a, b, bid, not_mark) = [j \in Position |-> And(a[j], bit)]
  BY DEF And_Bit
<1> HIDE DEF bit
<1>4. \A j \in Position : And(a[j], bit) \in Wire
  BY <1>1, <1>2, WireGates DEF bit
<1> QED
  BY <1>3, <1>4 DEF WireWord

LEMMA AndWordWires ==
  ASSUME NEW a \in WireWord, NEW bit \in Wire
  PROVE  AndWordRows(a, bit) = 2 * SIZE
<1> DEFINE rs == [j \in Position |-> AndRows(a[j], bit)]
<1>1. \A j \in Position : a[j] \in Wire
  BY WireWords
<1>2. Position = 0 .. Top
  BY DEF Position, Top
<1>3. DOMAIN rs = 0 .. Top /\ \A j \in 0 .. Top : rs[j] = 2
  BY <1>1, <1>2, WireGates
<1>4. AndWordRows(a, bit) = SumRows(rs)
  BY DEF AndWordRows
<1> HIDE DEF rs
<1>5. SumRows(rs) = 2 * ((Top + 1) - 0)
  BY <1>3, AllRows, Width
<1> QED
  BY <1>4, <1>5, Width
-----------------------------------------------------------------------------
(* Subtraction and comparison *)

LEMMA SubCarriesWire ==
  ASSUME NEW a \in WireWord, NEW b \in WireWord, NEW j \in 0 .. SIZE
  PROVE  SubCarries(a, b)[j] \in Wire
<1> DEFINE d == NotWord(b)
           c == Carries(a, d, wire(TRUE))
           S == { i \in 0 .. SIZE : c[i] \in Wire }
<1>1. d \in WireWord /\ wire(TRUE) \in Wire
  BY WordGates, WireOf
<1>2. d \in Word /\ a \in Word /\ wire(TRUE) \in Bit
  BY <1>1, WireWords DEF wire, Bit
<1> HIDE DEF d
<1>3. c[0] = wire(TRUE) /\ \A i \in 1 .. SIZE : c[i] = Majority(a[i - 1], d[i - 1], c[i - 1])
  BY <1>2, CarriesAre
<1> HIDE DEF c
<1>4. 0 \in S
  <2>1. c[0] \in Wire
    BY <1>1, <1>3, Zenon
  <2> QED
    BY <2>1, Width
<1>5. ASSUME NEW i \in 0 .. SIZE, i # SIZE, i \in S
      PROVE  i + 1 \in S
  <2>1. i \in Position /\ i + 1 \in 1 .. SIZE /\ i + 1 \in 0 .. SIZE /\ (i + 1) - 1 = i
    BY <1>5, Width DEF Position
  <2>2. a[i] \in Wire /\ d[i] \in Wire /\ c[i] \in Wire
    BY <1>1, <1>5, <2>1, WireWords
  <2>3. c[i + 1] = Majority(a[i], d[i], c[i])
    BY <1>3, <2>1
  <2>4. c[i + 1] \in Wire
    BY <2>2, <2>3, WireMajority
  <2> QED
    BY <2>1, <2>4
<1>6. 0 .. SIZE \subseteq S
  <2> HIDE DEF S
  <2> QED
    BY <1>4, <1>5, IntervalInduction, Width
<1>7. SubCarries(a, b) = c
  BY DEF SubCarries, c, d
<1> QED
  BY <1>6, <1>7

LEMMA SubWires ==
  ASSUME NEW a \in WireWord, NEW b \in WireWord
  PROVE  Sub(a, b) \in WireWord /\ SubRows(a, b) = 2 * SIZE
<1> DEFINE c == SubCarries(a, b)
           rs == [j \in Position |-> MajorityRows(a[j], Not(b[j]), c[j])]
<1>1. \A j \in 0 .. SIZE : c[j] \in Wire
  BY SubCarriesWire
<1> HIDE DEF c
<1>2. ASSUME NEW j \in Position
      PROVE  Xor(Xor(a[j], Not(b[j])), c[j]) \in Wire /\ MajorityRows(a[j], Not(b[j]), c[j]) = 2
  <2>1. a[j] \in Wire /\ b[j] \in Wire /\ c[j] \in Wire
    BY <1>1, WireWords, Width DEF Position
  <2>2. Not(b[j]) \in Wire
    BY <2>1, WireGates
  <2>3. Xor(a[j], Not(b[j])) \in Wire
    BY <2>1, <2>2, WireGates
  <2> QED
    BY <2>1, <2>2, <2>3, WireGates, WireMajority
<1>3. Sub(a, b) \in WireWord
  BY <1>2 DEF Sub, WireWord, c
<1>4. Position = 0 .. Top
  BY DEF Position, Top
<1>5. DOMAIN rs = 0 .. Top /\ \A j \in 0 .. Top : rs[j] = 2
  BY <1>2, <1>4
<1>6. SubRows(a, b) = SumRows(rs)
  BY DEF SubRows, c
<1> HIDE DEF rs
<1>7. SumRows(rs) = 2 * ((Top + 1) - 0)
  BY <1>5, AllRows, Width
<1> QED
  BY <1>3, <1>6, <1>7, Width

LEMMA CmpWires ==
  ASSUME NEW a \in WireWord, NEW b \in WireWord
  PROVE  Cmp(a, b) \in WireWord /\ CmpRows(a, b) = 2 * SIZE + 4
<1> DEFINE below == wire(~ SubCarries(a, b)[SIZE].v)
           neg_pos == And(a[Top], Not(b[Top]))
           same_sign == Not(Xor(a[Top], b[Top]))
           diff == Sub(a, b)[Top]
           less == Xor(neg_pos, And(same_sign, diff))
           bits == [j \in 0 .. 1 |-> IF j = 0 THEN below ELSE less]
<1>1. a[Top] \in Wire /\ b[Top] \in Wire /\ diff \in Wire
  BY WireWords, SubWires, Bits2
<1>2. Not(b[Top]) \in Wire /\ Xor(a[Top], b[Top]) \in Wire
  BY <1>1, WireGates
<1>3. neg_pos \in Wire /\ same_sign \in Wire
  BY <1>1, <1>2, WireGates
<1>4. less \in Wire
  <2> HIDE DEF neg_pos, same_sign, diff
  <2>1. And(same_sign, diff) \in Wire
    BY <1>1, <1>3, WireGates
  <2> QED
    BY <1>3, <2>1, WireGates
<1>5. below \in Wire
  BY WireOf
<1>6. AndRows(a[Top], Not(b[Top])) = 2 /\ AndRows(same_sign, diff) = 2
  BY <1>1, <1>2, <1>3, WireGates
<1>7. CmpRows(a, b) = 2 * SIZE + 4
  <2>1. CmpRows(a, b) = SubRows(a, b) + AndRows(a[Top], Not(b[Top])) + AndRows(same_sign, diff)
    BY DEF CmpRows
  <2> HIDE DEF same_sign, diff
  <2> QED
    BY <1>6, <2>1, SubWires, Width
<1>8. Cmp(a, b) = Fresh(bits)
  BY DEF Cmp
<1> HIDE DEF below, less
<1>9. \A j \in Position : (IF j \in DOMAIN bits THEN bits[j] ELSE wire(FALSE)) \in Wire
  BY <1>4, <1>5, WireOf
<1>10. Fresh(bits) \in WireWord
  BY <1>9 DEF Fresh, WireWord
<1> QED
  BY <1>7, <1>8, <1>10

LEMMA EqualWire ==
  ASSUME NEW a \in WireWord, NEW b \in WireWord, NEW j \in Position
  PROVE  Equal(a, b)[j] \in Wire
<1> DEFINE c == Equal(a, b)
           S == { i \in 0 .. Top : c[i] \in Wire }
<1>1. a \in Word /\ b \in Word
  BY WireWords
<1>2. /\ c[0] = Not(Xor(a[0], b[0]))
      /\ \A i \in 1 .. Top : c[i] = And(c[i - 1], Not(Xor(a[i], b[i])))
  BY <1>1, EqualAre
<1> HIDE DEF c
<1>3. \A i \in Position : Not(Xor(a[i], b[i])) \in Wire
  <2> TAKE i \in Position
  <2>1. Xor(a[i], b[i]) \in Wire
    BY WireWords, WireGates
  <2> QED
    BY <2>1, WireGates
<1>4. 0 \in S
  BY <1>2, <1>3, Bits2, Width
<1>5. ASSUME NEW i \in 0 .. Top, i # Top, i \in S
      PROVE  i + 1 \in S
  <2>1. i + 1 \in Position /\ i + 1 \in 1 .. Top /\ i + 1 \in 0 .. Top /\ (i + 1) - 1 = i
    BY <1>5, Width DEF Position
  <2>2. c[i + 1] = And(c[i], Not(Xor(a[i + 1], b[i + 1])))
    BY <1>2, <2>1
  <2>3. c[i + 1] \in Wire
    BY <1>3, <1>5, <2>1, <2>2, WireGates
  <2> QED
    BY <2>1, <2>3
<1>6. 0 .. Top \subseteq S
  <2> HIDE DEF S
  <2> QED
    BY <1>4, <1>5, IntervalInduction, Width
<1>7. Position = 0 .. Top
  BY DEF Position, Top
<1>8. c[j] \in Wire
  BY <1>6, <1>7
<1> QED
  BY <1>8 DEF c

LEMMA EqWires ==
  ASSUME NEW a \in WireWord, NEW b \in WireWord
  PROVE  Eq(a, b) \in WireWord /\ EqRows(a, b) = 2 * (SIZE - 1)
<1> DEFINE c == Equal(a, b)
           bits == [j \in {0} |-> c[Top]]
           rs == [j \in 1 .. Top |-> AndRows(c[j - 1], Not(Xor(a[j], b[j])))]
<1>1. \A j \in Position : c[j] \in Wire
  BY EqualWire
<1>2. Eq(a, b) = Fresh(bits) /\ EqRows(a, b) = SumRows(rs)
  BY DEF Eq, EqRows
<1> HIDE DEF c
<1>3. \A j \in Position : (IF j \in DOMAIN bits THEN bits[j] ELSE wire(FALSE)) \in Wire
  BY <1>1, WireOf, Bits2
<1>4. Eq(a, b) \in WireWord
  BY <1>2, <1>3 DEF Fresh, WireWord
<1>5. ASSUME NEW j \in 1 .. Top
      PROVE  AndRows(c[j - 1], Not(Xor(a[j], b[j]))) = 2
  <2>1. j \in Position /\ j - 1 \in Position
    BY Width DEF Position
  <2>2. Xor(a[j], b[j]) \in Wire
    BY <2>1, WireWords, WireGates
  <2>3. Not(Xor(a[j], b[j])) \in Wire
    BY <2>2, WireGates
  <2> QED
    BY <1>1, <2>1, <2>3, WireGates
<1>6. DOMAIN rs = 1 .. Top /\ \A j \in 1 .. Top : rs[j] = 2
  BY <1>5
<1> HIDE DEF rs
<1>7. SumRows(rs) = 2 * ((Top + 1) - 1)
  BY <1>6, AllRows, Width
<1> QED
  BY <1>2, <1>4, <1>7, Width
-----------------------------------------------------------------------------
(* Multiplication: from a constant 0, of words shifted in from constants *)

\* To a constant 0 a word of wires is added for nothing
LEMMA AddZero ==
  ASSUME NEW b \in WireWord
  PROVE  Add(Zero, b) \in WireWord /\ AddRows(Zero, b) = 0
<1> DEFINE c == AddCarries(Zero, b)
           S == { i \in 1 .. SIZE : c[i] = NoWire }
           rs == [j \in Position |-> IF j = 0 THEN AndRows(Zero[0], b[0])
                                     ELSE MajorityRows(Zero[j], b[j], c[j])]
<1>1. \A j \in Position : Zero[j] = NoWire /\ b[j] \in Wire
  BY WireWords DEF Zero, NoWire
<1>2. Zero \in Word /\ b \in Word
  BY NoWireBit, WireWords DEF Zero, NoWire, Word
<1>3. /\ c[1] = And(Zero[0], b[0])
      /\ \A i \in 2 .. SIZE : c[i] = Majority(Zero[i - 1], b[i - 1], c[i - 1])
  BY <1>2, AddCarriesAre
<1> HIDE DEF c
<1>4. 1 \in S
  BY <1>1, <1>3, Bits2, ConstantGates, Width
<1>5. ASSUME NEW i \in 1 .. SIZE, i # SIZE, i \in S
      PROVE  i + 1 \in S
  <2>1. i \in Position /\ i + 1 \in 2 .. SIZE /\ i + 1 \in 1 .. SIZE /\ (i + 1) - 1 = i
    BY <1>5, Width DEF Position
  <2>2. c[i + 1] = Majority(Zero[i], b[i], c[i])
    BY <1>3, <2>1
  <2>3. c[i + 1] = NoWire
    BY <1>1, <1>5, <2>1, <2>2, MajorityNoFirst
  <2> QED
    BY <2>1, <2>3
<1>6. 1 .. SIZE \subseteq S
  <2> HIDE DEF S
  <2> QED
    BY <1>4, <1>5, IntervalInduction, Width
<1>7. ASSUME NEW j \in Position, j # 0
      PROVE  /\ Xor(Xor(Zero[j], b[j]), c[j]) \in Wire
             /\ MajorityRows(Zero[j], b[j], c[j]) = 0
  <2>1. j \in 1 .. SIZE
    BY <1>7, Width DEF Position
  <2>2. c[j] = NoWire
    BY <1>6, <2>1
  <2> QED
    BY <1>1, <2>2, ConstantGates, MajorityNoFirst
<1>8. Xor(Zero[0], b[0]) \in Wire /\ AndRows(Zero[0], b[0]) = 0
  BY <1>1, Bits2, ConstantGates
<1>9. Add(Zero, b) \in WireWord
  <2>1. Add(Zero, b) = [j \in Position |-> IF j = 0 THEN Xor(Zero[0], b[0])
                                           ELSE Xor(Xor(Zero[j], b[j]), c[j])]
    BY DEF Add, c
  <2> QED
    BY <1>7, <1>8, <2>1 DEF WireWord
<1>10. Position = 0 .. Top
  BY DEF Position, Top
<1>11. \A j \in Position : rs[j] = 0
  BY <1>7, <1>8
<1>12. AddRows(Zero, b) = SumRows(rs)
  BY DEF AddRows, c
<1>13. DOMAIN rs = 0 .. Top
  BY <1>10
<1> HIDE DEF rs
<1>14. RowsStart(rs, 0, Top, Top + 1)
  BY <1>10, <1>11, <1>13, Width DEF RowsStart
<1>15. SumRows(rs) = 2 * ((Top + 1) - (Top + 1))
  BY <1>14, RowsFrom, Width
<1> QED
  BY <1>9, <1>12, <1>15, Width

\* a << n times a bit: constants below n, wires from n on, a row pair for each of these
LEMMA PartialFrom ==
  ASSUME NEW a \in WireWord, NEW b \in WireWord, NEW n \in Position
  PROVE  /\ FromPosition(Partial(a, b, n), n)
         /\ AndWordRows(ShiftLeft(a, n), b[n]) = 2 * (SIZE - n)
<1> DEFINE shifted == ShiftLeft(a, n)
           part == Partial(a, b, n)
           rs == [j \in Position |-> AndRows(shifted[j], b[n])]
<1>1. b[n] \in Wire /\ n \in Int /\ 0 <= n /\ n <= SIZE - 1
  BY WireWords, Width DEF Position
<1>2. ASSUME NEW j \in Position
      PROVE  IF j < n THEN shifted[j] = NoWire ELSE shifted[j] \in Wire
  <2>1. shifted[j] = IF j >= n THEN a[j - n] ELSE NoWire
    BY DEF ShiftLeft, NoWire
  <2>2. CASE j < n
    BY <1>1, <2>1, <2>2 DEF Position
  <2>3. CASE ~ (j < n)
    <3>1. j - n \in Position /\ j >= n
      BY <1>1, <2>3, Width DEF Position
    <3> QED
      BY <2>1, <2>3, <3>1, WireWords
  <2> QED
    BY <2>2, <2>3
<1> HIDE DEF shifted
<1>3. part = [j \in Position |-> And(shifted[j], b[n])]
  BY DEF Partial, shifted
<1> HIDE DEF part
<1>4. ASSUME NEW j \in Position
      PROVE  /\ IF j < n THEN part[j] = NoWire ELSE part[j] \in Wire
             /\ AndRows(shifted[j], b[n]) = IF j < n THEN 0 ELSE 2
  <2>1. part[j] = And(shifted[j], b[n])
    BY <1>3
  <2>2. CASE j < n
    <3>1. shifted[j] = NoWire
      BY <1>2, <2>2
    <3> QED
      BY <1>1, <2>1, <2>2, <3>1, ConstantGates
  <2>3. CASE ~ (j < n)
    <3>1. shifted[j] \in Wire
      BY <1>2, <2>3
    <3> QED
      BY <1>1, <2>1, <2>3, <3>1, WireGates
  <2> QED
    BY <2>2, <2>3
<1>5. part \in Word
  <2>1. Wire \subseteq Bit
    BY DEF Wire, Bit
  <2>2. \A j \in Position : And(shifted[j], b[n]) \in Bit
    BY <1>3, <1>4, <2>1, NoWireBit
  <2> QED
    BY <1>3, <2>2 DEF Word
<1>6. FromPosition(part, n)
  BY <1>4, <1>5 DEF FromPosition
<1>7. Position = 0 .. Top
  BY DEF Position, Top
<1>8. RowsStart(rs, 0, Top, n)
  BY <1>4, <1>7 DEF RowsStart
<1>9. AndWordRows(shifted, b[n]) = SumRows(rs)
  BY DEF AndWordRows
<1> HIDE DEF rs
<1>10. SumRows(rs) = 2 * ((Top + 1) - n)
  BY <1>1, <1>8, RowsFrom, Width
<1>11. AndWordRows(shifted, b[n]) = 2 * (SIZE - n)
  BY <1>1, <1>9, <1>10, Width
<1> QED
  BY <1>6, <1>11 DEF part, shifted

LEMMA SumRowsNat ==
  ASSUME NEW rs, DOMAIN rs = Position
  PROVE  SumRows(rs) \in Nat
<1>1. IsFiniteSet(0 .. Top)
  BY FS_Interval, Width
<1>2. { j \in DOMAIN rs : rs[j] = 2 } \in SUBSET (0 .. Top)
  BY DEF Position, Top
<1>3. Cardinality({ j \in DOMAIN rs : rs[j] = 2 }) \in Nat
  BY <1>1, <1>2, FS_Subset, FS_CardinalityType
<1> QED
  BY <1>3 DEF SumRows

\* What one round adds, whatever the words are
LEMMA AddWord ==
  ASSUME NEW a \in Word, NEW b \in Word
  PROVE  Add(a, b) \in Word /\ AddRows(a, b) \in Nat
<1> DEFINE c == AddCarries(a, b)
           rs == [j \in Position |-> IF j = 0 THEN AndRows(a[0], b[0])
                                     ELSE MajorityRows(a[j], b[j], c[j])]
<1>1. c \in [1 .. SIZE -> Bit]
  BY AddCarriesAre
<1> HIDE DEF c
<1>2. ASSUME NEW j \in Position
      PROVE  (IF j = 0 THEN Xor(a[0], b[0]) ELSE Xor(Xor(a[j], b[j]), c[j])) \in Bit
  <2>1. a[j] \in Bit /\ b[j] \in Bit
    BY DEF Word
  <2>2. Xor(a[j], b[j]) \in Bit
    BY <2>1, BitGates
  <2>3. CASE j = 0
    BY <2>2, <2>3
  <2>4. CASE j # 0
    <3>1. c[j] \in Bit
      BY <1>1, <2>4, Width DEF Position
    <3> QED
      BY <2>2, <2>4, <3>1, BitGates
  <2> QED
    BY <2>3, <2>4
<1>3. Add(a, b) \in Word
  BY <1>2 DEF Add, Word, c
<1>4. AddRows(a, b) = SumRows(rs) /\ DOMAIN rs = Position
  BY DEF AddRows, c
<1> HIDE DEF rs
<1> QED
  BY <1>3, <1>4, SumRowsNat

LEMMA PartialWord ==
  ASSUME NEW a \in WireWord, NEW b \in WireWord, NEW n \in Position
  PROVE  Partial(a, b, n) \in Word /\ AndWordRows(ShiftLeft(a, n), b[n]) \in Nat
<1> DEFINE rs == [j \in Position |-> AndRows(ShiftLeft(a, n)[j], b[n])]
<1>1. Partial(a, b, n) \in Word
  BY PartialFrom DEF FromPosition
<1>2. AndWordRows(ShiftLeft(a, n), b[n]) = SumRows(rs) /\ DOMAIN rs = Position
  BY DEF AndWordRows
<1> HIDE DEF rs
<1> QED
  BY <1>1, <1>2, SumRowsNat

\* One round of a multiplication
Round(a, b, before, n) ==
  [word |-> Add(before.word, Partial(a, b, n)),
   rows |-> before.rows + AndWordRows(ShiftLeft(a, n), b[n])
              + AddRows(before.word, Partial(a, b, n))]

Nothing == [word |-> Zero, rows |-> 0]
Progress == [word : Word, rows : Nat]

LEMMA RoundType ==
  ASSUME NEW a \in WireWord, NEW b \in WireWord, NEW x \in Progress, NEW n \in Position
  PROVE  Round(a, b, x, n) \in Progress
<1>1. x.word \in Word /\ x.rows \in Nat
  BY DEF Progress
<1>2. Partial(a, b, n) \in Word /\ AndWordRows(ShiftLeft(a, n), b[n]) \in Nat
  BY PartialWord
<1>3. Add(x.word, Partial(a, b, n)) \in Word /\ AddRows(x.word, Partial(a, b, n)) \in Nat
  BY <1>1, <1>2, AddWord
<1>4. x.rows + AndWordRows(ShiftLeft(a, n), b[n]) + AddRows(x.word, Partial(a, b, n)) \in Nat
  BY <1>1, <1>2, <1>3
<1> QED
  BY <1>3, <1>4 DEF Round, Progress

\* The rounds of Multiply
LEMMA Rounds ==
  ASSUME NEW a \in WireWord, NEW b \in WireWord
  PROVE  \E m : /\ Multiply(a, b) = m[SIZE]
                /\ m[0] = Nothing
                /\ \A n \in 1 .. SIZE : m[n] = Round(a, b, m[n - 1], n - 1)
<1> DEFINE At(m, n) == IF n = 0 THEN Nothing ELSE Round(a, b, m[n - 1], n - 1)
           step == [n \in 0 + 1 .. SIZE |-> [x \in Progress |-> Round(a, b, x, n - 1)]]
<1>1. Nothing \in Progress
  <2>1. Zero \in Word
    BY NoWireBit DEF Zero, NoWire, Word
  <2> QED
    BY <2>1 DEF Nothing, Progress
<1>2. step \in [0 + 1 .. SIZE -> [Progress -> Progress]]
  <2> SUFFICES ASSUME NEW n \in 1 .. SIZE, NEW x \in Progress
               PROVE  Round(a, b, x, n - 1) \in Progress
    BY Width
  <2>1. n - 1 \in Position
    BY Width DEF Position
  <2> QED
    BY <2>1, RoundType
<1>3. \A n \in 1 .. SIZE, x \in Progress : step[n][x] = Round(a, b, x, n - 1)
  OBVIOUS
<1> HIDE DEF step
<1>4. PICK g : /\ g \in [0 .. SIZE -> Progress]
               /\ g[0] = Nothing
               /\ \A n \in 0 + 1 .. SIZE : g[n] = step[n][g[n - 1]]
  <2>1. 0 \in Nat /\ SIZE \in Nat /\ 0 <= SIZE
    BY Width
  <2>2. \E g : SolvesRecursion(g, Progress, Nothing, 0, SIZE, step)
    BY <1>1, <1>2, <2>1, Recursion
  <2> QED
    BY <2>2 DEF SolvesRecursion
<1>5. \A n \in 0 .. SIZE : g[n] = At(g, n)
  <2> SUFFICES ASSUME NEW n \in 0 .. SIZE, n # 0
               PROVE  g[n] = Round(a, b, g[n - 1], n - 1)
    BY <1>4
  <2>1. n \in 1 .. SIZE /\ n - 1 \in 0 .. SIZE /\ n \in 0 + 1 .. SIZE
    BY Width
  <2>2. g[n] = step[n][g[n - 1]] /\ g[n - 1] \in Progress
    BY <1>4, <2>1
  <2> QED
    BY <1>3, <2>1, <2>2, Zenon
<1>6. Multiply(a, b) = (CHOOSE m : m = [n \in 0 .. SIZE |-> At(m, n)])[SIZE]
  BY DEF Multiply, Round, Nothing
<1>7. g = [n \in 0 .. SIZE |-> At(g, n)]
  <2> HIDE DEF At
  <2> QED
    BY <1>4, <1>5
<1>8. PICK m : m = CHOOSE f : f = [n \in 0 .. SIZE |-> At(f, n)]
  OBVIOUS
<1>9. m = [n \in 0 .. SIZE |-> At(m, n)]
  <2> HIDE DEF At
  <2> QED
    BY <1>7, <1>8, Zenon
<1>10. m[0] = Nothing
  BY <1>9, Width
<1>11. ASSUME NEW n \in 1 .. SIZE
       PROVE  m[n] = Round(a, b, m[n - 1], n - 1)
  <2>1. n \in 0 .. SIZE /\ n # 0
    BY Width
  <2>2. m[n] = At(m, n)
    <3> HIDE DEF At
    <3> QED
      BY <1>9, <2>1
  <2> QED
    BY <2>1, <2>2, Zenon
<1>12. Multiply(a, b) = m[SIZE]
  <2> HIDE DEF At
  <2> QED
    BY <1>6, <1>8, Zenon
<1> QED
  BY <1>10, <1>11, <1>12

(***************************************************************************)
(* A multiplication of words of wires takes 2 * SIZE * SIZE rows, though   *)
(* its rounds work with constants: the first addition is for nothing, and  *)
(* later ones begin where the shifted word does.                           *)
(***************************************************************************)
LEMMA MultiplyWires ==
  ASSUME NEW a \in WireWord, NEW b \in WireWord
  PROVE  Multiply(a, b).word \in WireWord /\ Multiply(a, b).rows = 2 * SIZE * SIZE
<1>1. PICK m : /\ Multiply(a, b) = m[SIZE]
               /\ m[0] = Nothing
               /\ \A n \in 1 .. SIZE : m[n] = Round(a, b, m[n - 1], n - 1)
  BY Rounds
<1> DEFINE Taken(n) == 2 * SIZE + 2 * ((n - 1) * (2 * SIZE - n))
           S == { n \in 1 .. SIZE : m[n].word \in WireWord /\ m[n].rows = Taken(n) }
<1>2. 1 \in S
  <2>1. m[1] = Round(a, b, Nothing, 0)
    <3>1. 1 \in 1 .. SIZE /\ 1 - 1 = 0
      BY Width
    <3> QED
      BY <1>1, <3>1
  <2> DEFINE part == Partial(a, b, 0)
  <2>2. part \in WireWord
    <3>1. FromPosition(part, 0)
      BY PartialFrom, Bits2
    <3>2. \A j \in Position : part[j] \in Wire /\ part \in Word
      BY <3>1 DEF FromPosition, Position
    <3> HIDE DEF part
    <3> QED
      BY <3>2, Bits2 DEF Word, WireWord
  <2>3. AndWordRows(ShiftLeft(a, 0), b[0]) = 2 * (SIZE - 0)
    BY PartialFrom, Bits2
  <2>4. m[1].word = Add(Zero, part) /\ m[1].rows = 0 + 2 * (SIZE - 0) + AddRows(Zero, part)
    BY <2>1, <2>3 DEF Round, Nothing
  <2> HIDE DEF part
  <2>5. m[1].word \in WireWord /\ m[1].rows = 2 * SIZE
    BY <2>2, <2>4, AddZero, Width
  <2>6. 2 * SIZE = Taken(1) /\ 1 \in 1 .. SIZE
    BY Width
  <2> QED
    BY <2>5, <2>6
<1>3. ASSUME NEW n \in 1 .. SIZE, n # SIZE, n \in S
      PROVE  n + 1 \in S
  <2>1. n \in Position /\ n + 1 \in 1 .. SIZE /\ (n + 1) - 1 = n
    BY <1>3, Width DEF Position
  <2>2. m[n + 1] = Round(a, b, m[n], n)
    BY <1>1, <2>1
  <2>3. m[n].word \in WireWord /\ m[n].rows = Taken(n)
    BY <1>3
  <2>4. FromPosition(Partial(a, b, n), n) /\ AndWordRows(ShiftLeft(a, n), b[n]) = 2 * (SIZE - n)
    BY <2>1, PartialFrom
  <2>5. /\ Add(m[n].word, Partial(a, b, n)) \in WireWord
        /\ AddRows(m[n].word, Partial(a, b, n)) = 2 * (SIZE - n)
    BY <2>1, <2>3, <2>4, AddFrom
  <2>6. m[n + 1].word \in WireWord
    BY <2>2, <2>5 DEF Round
  <2>7. m[n + 1].rows = Taken(n) + 2 * (SIZE - n) + 2 * (SIZE - n)
    BY <2>2, <2>3, <2>4, <2>5 DEF Round
  <2>8. Taken(n) + 2 * (SIZE - n) + 2 * (SIZE - n) = Taken(n + 1)
    <3>1. SIZE \in Int /\ n \in Int
      BY Width
    <3> QED
      BY <3>1
  <2> QED
    BY <2>1, <2>6, <2>7, <2>8
<1>4. SIZE \in S
  <2>1. 1 .. SIZE \subseteq S
    <3> HIDE DEF S
    <3> QED
      BY <1>2, <1>3, IntervalInduction, Width
  <2> QED
    BY <2>1, Width
<1>5. Taken(SIZE) = 2 * SIZE * SIZE
  BY Width
<1> QED
  BY <1>1, <1>4, <1>5
-----------------------------------------------------------------------------
(* Fragments *)

(***************************************************************************)
(* The inductive invariant: every bit of every register is a wire, and the *)
(* rows taken are those counted.                                           *)
(***************************************************************************)
FragmentInv == reg \in [Registers -> WireWord] /\ rows = length

LEMMA Lengths ==
  /\ \A op \in {"ADD", "ADDI", "SUB", "SUBI"} \cup ISA!Mask : GetMaxLength(op) = 2 * SIZE
  /\ GetMaxLength("MUL") = 2 * SIZE * SIZE
  /\ GetMaxLength("CMP") = 2 * SIZE + 4
  /\ \A op \in {"EQ", "EQI"} : GetMaxLength(op) = 2 * (SIZE - 1)
  /\ GetMaxLength("CCOPY") = 4 * SIZE
  /\ \A op \in {"IMM", "SWAP", "COPY", "XOR", "RS1", "NOOP"} : GetMaxLength(op) = 0
<1> DEFINE Sum == {"ADD", "ADDI", "SUB", "SUBI"} \cup ISA!Mask
           Equality == {"EQ", "EQI"}
<1>1. \A op : GetMaxLength(op) = CASE op \in Sum -> 2 * SIZE
                                   [] op = "MUL" -> 2 * SIZE * SIZE
                                   [] op = "CMP" -> 2 * SIZE + 4
                                   [] op \in Equality -> 2 * (SIZE - 1)
                                   [] op = "CCOPY" -> 4 * SIZE
                                   [] OTHER -> 0
  BY DEF GetMaxLength
<1>2. /\ \A op \in Sum : op # "MUL" /\ op # "CMP" /\ op \notin Equality /\ op # "CCOPY"
      /\ \A op \in Equality : op # "MUL" /\ op # "CMP" /\ op \notin Sum /\ op # "CCOPY"
      /\ "MUL" # "CMP" /\ "MUL" \notin Sum /\ "MUL" \notin Equality /\ "MUL" # "CCOPY"
      /\ "CMP" \notin Sum /\ "CMP" \notin Equality /\ "CMP" # "CCOPY"
      /\ "CCOPY" \notin Sum /\ "CCOPY" \notin Equality
      /\ \A op \in {"IMM", "SWAP", "COPY", "XOR", "RS1", "NOOP"} :
           op # "MUL" /\ op # "CMP" /\ op \notin Sum /\ op \notin Equality /\ op # "CCOPY"
  BY DEF ISA!Mask
<1> HIDE DEF Sum, Equality
<1>3. \A op \in Sum : GetMaxLength(op) = 2 * SIZE
  BY <1>1, <1>2, Zenon
<1>4. GetMaxLength("MUL") = 2 * SIZE * SIZE /\ GetMaxLength("CMP") = 2 * SIZE + 4
        /\ GetMaxLength("CCOPY") = 4 * SIZE
  BY <1>1, <1>2, Zenon
<1>5. \A op \in Equality : GetMaxLength(op) = 2 * (SIZE - 1)
  BY <1>1, <1>2, Zenon
<1>6. \A op \in {"IMM", "SWAP", "COPY", "XOR", "RS1", "NOOP"} : GetMaxLength(op) = 0
  BY <1>1, <1>2, Zenon
<1> QED
  BY <1>3, <1>4, <1>5, <1>6 DEF Sum, Equality

\* An instruction that writes a word of wires and takes what is counted for it
LEMMA WriteKeeps ==
  ASSUME FragmentInv, NEW inst, NEW word \in WireWord, NEW taken,
         taken = GetMaxLength(inst.op), Write(inst, word, taken)
  PROVE  FragmentInv'
<1>1. reg' = [reg EXCEPT ![inst.dst] = word]
  BY DEF Write
<1>2. reg' \in [Registers -> WireWord]
  BY <1>1 DEF FragmentInv
<1>3. rows' = length'
  BY DEF Write, Count, FragmentInv
<1> QED
  BY <1>2, <1>3 DEF FragmentInv

LEMMA ThreeKeep ==
  ASSUME FragmentInv, NEW dst \in Registers, NEW src1 \in Registers, NEW src2 \in Registers,
         ThreeRegisters(dst, src1, src2)
  PROVE  FragmentInv'
<1>1. reg[dst] \in WireWord /\ reg[src1] \in WireWord /\ reg[src2] \in WireWord
  BY DEF FragmentInv
<1>2. CASE ADD(dst, src1, src2)
  <2> DEFINE inst == Inst("ADD", dst, src1, src2, NoImm)
  <2>1. Write(inst, Add(reg[src1], reg[src2]), AddRows(reg[src1], reg[src2]))
    BY <1>2 DEF ADD
  <2>2. inst.op = "ADD"
    BY DEF Inst
  <2> HIDE DEF inst
  <2>3. Add(reg[src1], reg[src2]) \in WireWord
          /\ AddRows(reg[src1], reg[src2]) = GetMaxLength(inst.op)
    BY <1>1, <2>2, AddWires, Lengths
  <2> QED
    BY <2>1, <2>3, WriteKeeps
<1>3. CASE SUB(dst, src1, src2)
  <2> DEFINE inst == Inst("SUB", dst, src1, src2, NoImm)
  <2>1. Write(inst, Sub(reg[src1], reg[src2]), SubRows(reg[src1], reg[src2]))
    BY <1>3 DEF SUB
  <2>2. inst.op = "SUB"
    BY DEF Inst
  <2> HIDE DEF inst
  <2>3. Sub(reg[src1], reg[src2]) \in WireWord
          /\ SubRows(reg[src1], reg[src2]) = GetMaxLength(inst.op)
    BY <1>1, <2>2, SubWires, Lengths
  <2> QED
    BY <2>1, <2>3, WriteKeeps
<1>4. CASE MUL(dst, src1, src2)
  <2> DEFINE inst == Inst("MUL", dst, src1, src2, NoImm)
             product == Multiply(Factor(src1, src2), reg[src2])
  <2>1. Write(inst, product.word, product.rows)
    BY <1>4 DEF MUL
  <2>2. inst.op = "MUL"
    BY DEF Inst
  <2>3. Factor(src1, src2) \in WireWord
    BY <1>1 DEF Factor
  <2>4. product.word \in WireWord /\ product.rows = 2 * SIZE * SIZE
    BY <1>1, <2>3, MultiplyWires
  <2> HIDE DEF inst, product
  <2>5. product.rows = GetMaxLength(inst.op)
    BY <2>2, <2>4, Lengths
  <2> QED
    BY <2>1, <2>4, <2>5, WriteKeeps
<1>5. CASE CMP(dst, src1, src2)
  <2> DEFINE inst == Inst("CMP", dst, src1, src2, NoImm)
  <2>1. Write(inst, Cmp(reg[src1], reg[src2]), CmpRows(reg[src1], reg[src2]))
    BY <1>5 DEF CMP
  <2>2. inst.op = "CMP"
    BY DEF Inst
  <2> HIDE DEF inst
  <2>3. Cmp(reg[src1], reg[src2]) \in WireWord
          /\ CmpRows(reg[src1], reg[src2]) = GetMaxLength(inst.op)
    BY <1>1, <2>2, CmpWires, Lengths
  <2> QED
    BY <2>1, <2>3, WriteKeeps
<1>6. CASE EQ(dst, src1, src2)
  <2> DEFINE inst == Inst("EQ", dst, src1, src2, NoImm)
  <2>1. Write(inst, Eq(reg[src1], reg[src2]), EqRows(reg[src1], reg[src2]))
    BY <1>6 DEF EQ
  <2>2. inst.op = "EQ"
    BY DEF Inst
  <2> HIDE DEF inst
  <2>3. Eq(reg[src1], reg[src2]) \in WireWord
          /\ EqRows(reg[src1], reg[src2]) = GetMaxLength(inst.op)
    BY <1>1, <2>2, EqWires, Lengths
  <2> QED
    BY <2>1, <2>3, WriteKeeps
<1>7. CASE XOR(dst, src1, src2)
  <2> DEFINE inst == Inst("XOR", dst, src1, src2, NoImm)
  <2>1. Write(inst, XorWord(reg[src1], reg[src2]), 0)
    BY <1>7 DEF XOR
  <2>2. inst.op = "XOR"
    BY DEF Inst
  <2> HIDE DEF inst
  <2>3. XorWord(reg[src1], reg[src2]) \in WireWord /\ 0 = GetMaxLength(inst.op)
    BY <1>1, <2>2, WordGates, Lengths
  <2> QED
    BY <2>1, <2>3, WriteKeeps
<1>8. CASE CCOPY(dst, src1, src2)
  <2> DEFINE inst == Inst("CCOPY", dst, src1, src2, NoImm)
             le == And_Bit(reg[src2], reg[src1], 0, FALSE)
             ri == And_Bit(reg[dst], reg[src1], 0, TRUE)
             taken == AndWordRows(reg[src2], reg[src1][0])
                        + AndWordRows(reg[dst], Not(reg[src1][0]))
  <2>1. Write(inst, XorWord(le, ri), taken)
    BY <1>8 DEF CCOPY
  <2>2. inst.op = "CCOPY"
    BY DEF Inst
  <2>3. le \in WireWord /\ ri \in WireWord
    BY <1>1, AndWires
  <2>4. taken = 4 * SIZE
    <3>1. reg[src1][0] \in Wire
      BY <1>1, WireWords, Bits2
    <3>2. Not(reg[src1][0]) \in Wire
      BY <3>1, WireGates
    <3>3. AndWordRows(reg[src2], reg[src1][0]) = 2 * SIZE
            /\ AndWordRows(reg[dst], Not(reg[src1][0])) = 2 * SIZE
      BY <1>1, <3>1, <3>2, AndWordWires
    <3> QED
      BY <3>3, Width
  <2> HIDE DEF inst, le, ri, taken
  <2>5. XorWord(le, ri) \in WireWord /\ taken = GetMaxLength(inst.op)
    BY <2>2, <2>3, <2>4, WordGates, Lengths
  <2> QED
    BY <2>1, <2>5, WriteKeeps
<1>9. ASSUME NEW op \in ISA!Mask, MASK(op, dst, src1, src2)
      PROVE  FragmentInv'
  <2> DEFINE inst == Inst(op, dst, src1, src2, NoImm)
             bid == IF op \in {"AND0", "ANDN0"} THEN 0 ELSE 1
             not_mark == op \in {"ANDN0", "ANDN1"}
             word == And_Bit(reg[src1], reg[src2], bid, not_mark)
             taken == AndWordRows(reg[src1], reg[src2][bid])
  <2>1. Write(inst, word, taken)
    BY <1>9 DEF MASK
  <2>2. inst.op = op
    BY DEF Inst
  <2>3. bid \in {0, 1} /\ not_mark \in BOOLEAN
    OBVIOUS
  <2> HIDE DEF inst, bid, not_mark
  <2>4. word \in WireWord
    BY <1>1, <2>3, AndWires
  <2>5. taken = 2 * SIZE
    <3>1. reg[src2][bid] \in Wire
      BY <1>1, <2>3, WireWords, Bits2
    <3> QED
      BY <1>1, <3>1, AndWordWires
  <2> HIDE DEF word, taken
  <2>6. taken = GetMaxLength(inst.op)
    BY <2>2, <2>5, Lengths
  <2> QED
    BY <2>1, <2>4, <2>6, WriteKeeps
<1> QED
  BY <1>2, <1>3, <1>4, <1>5, <1>6, <1>7, <1>8, <1>9, Zenon DEF ThreeRegisters

LEMMA TwoKeep ==
  ASSUME FragmentInv, NEW dst \in Registers, NEW src1 \in Registers, TwoRegisters(dst, src1)
  PROVE  FragmentInv'
<1>1. reg[dst] \in WireWord /\ reg[src1] \in WireWord
  BY DEF FragmentInv
<1>2. CASE SWAP(dst, src1)
  <2>1. reg' = [reg EXCEPT ![dst] = reg[src1], ![src1] = reg[dst]]
    BY <1>2 DEF SWAP
  <2>2. reg' \in [Registers -> WireWord]
    BY <1>1, <2>1 DEF FragmentInv
  <2>3. Inst("SWAP", None, dst, src1, NoImm).op = "SWAP"
    BY DEF Inst
  <2>4. rows' = rows + 0 /\ length' = length + 0
    BY <1>2, <2>3, Lengths DEF SWAP, Count
  <2>5. rows' = length'
    BY <2>4 DEF FragmentInv
  <2> QED
    BY <2>2, <2>5 DEF FragmentInv
<1>3. CASE COPY(dst, src1)
  <2> DEFINE inst == Inst("COPY", dst, src1, None, NoImm)
  <2>1. Write(inst, reg[src1], 0)
    BY <1>3 DEF COPY
  <2>2. inst.op = "COPY"
    BY DEF Inst
  <2> HIDE DEF inst
  <2>3. 0 = GetMaxLength(inst.op)
    BY <2>2, Lengths
  <2> QED
    BY <1>1, <2>1, <2>3, WriteKeeps
<1>4. ASSUME NEW imm \in Immediates, ADDI(dst, src1, imm)
      PROVE  FragmentInv'
  <2> DEFINE inst == Inst("ADDI", dst, src1, None, imm)
             word == Add(reg[src1], Immediate(imm))
             taken == AddRows(reg[src1], Immediate(imm))
  <2>1. Write(inst, word, taken)
    BY <1>4 DEF ADDI
  <2>2. inst.op = "ADDI"
    BY DEF Inst
  <2>3. word \in WireWord /\ taken = 2 * SIZE
    BY <1>1, ImmediateWord, AddWires
  <2> HIDE DEF inst, word, taken
  <2>4. taken = GetMaxLength(inst.op)
    BY <2>2, <2>3, Lengths
  <2> QED
    BY <2>1, <2>3, <2>4, WriteKeeps
<1>5. ASSUME NEW imm \in Immediates, SUBI(dst, src1, imm)
      PROVE  FragmentInv'
  <2> DEFINE inst == Inst("SUBI", dst, src1, None, imm)
             word == Sub(reg[src1], Immediate(imm))
             taken == SubRows(reg[src1], Immediate(imm))
  <2>1. Write(inst, word, taken)
    BY <1>5 DEF SUBI
  <2>2. inst.op = "SUBI"
    BY DEF Inst
  <2>3. word \in WireWord /\ taken = 2 * SIZE
    BY <1>1, ImmediateWord, SubWires
  <2> HIDE DEF inst, word, taken
  <2>4. taken = GetMaxLength(inst.op)
    BY <2>2, <2>3, Lengths
  <2> QED
    BY <2>1, <2>3, <2>4, WriteKeeps
<1>6. ASSUME NEW imm \in Immediates, EQI(dst, src1, imm)
      PROVE  FragmentInv'
  <2> DEFINE inst == Inst("EQI", dst, src1, None, imm)
             word == Eq(reg[src1], Immediate(imm))
             taken == EqRows(reg[src1], Immediate(imm))
  <2>1. Write(inst, word, taken)
    BY <1>6 DEF EQI
  <2>2. inst.op = "EQI"
    BY DEF Inst
  <2>3. word \in WireWord /\ taken = 2 * (SIZE - 1)
    BY <1>1, ImmediateWord, EqWires
  <2> HIDE DEF inst, word, taken
  <2>4. taken = GetMaxLength(inst.op)
    BY <2>2, <2>3, Lengths
  <2> QED
    BY <2>1, <2>3, <2>4, WriteKeeps
<1> QED
  BY <1>2, <1>3, <1>4, <1>5, <1>6, Zenon DEF TwoRegisters

LEMMA OneKeeps ==
  ASSUME FragmentInv, NEW dst \in Registers
  PROVE  /\ RS1(dst) => FragmentInv'
         /\ \A imm \in Immediates : IMM(dst, imm) => FragmentInv'
<1>1. reg[dst] \in WireWord
  BY DEF FragmentInv
<1>2. ASSUME RS1(dst)
      PROVE  FragmentInv'
  <2> DEFINE inst == Inst("RS1", dst, None, None, NoImm)
  <2>1. Write(inst, RightShift1(reg[dst]), 0)
    BY <1>2 DEF RS1
  <2>2. inst.op = "RS1"
    BY DEF Inst
  <2> HIDE DEF inst
  <2>3. RightShift1(reg[dst]) \in WireWord /\ 0 = GetMaxLength(inst.op)
    BY <1>1, <2>2, WordGates, Lengths
  <2> QED
    BY <2>1, <2>3, WriteKeeps
<1>3. ASSUME NEW imm \in Immediates, IMM(dst, imm)
      PROVE  FragmentInv'
  <2> DEFINE inst == Inst("IMM", dst, None, None, imm)
             word == [j \in Position |-> [Immediate(imm)[j] EXCEPT
                        !.isConstant = path = "plain" /\ reg[dst][j].isConstant]]
  <2>1. Write(inst, word, 0)
    BY <1>3 DEF IMM
  <2>2. inst.op = "IMM"
    BY DEF Inst
  <2>3. word \in WireWord
    <3>1. ASSUME NEW j \in Position
          PROVE  [Immediate(imm)[j] EXCEPT
                    !.isConstant = path = "plain" /\ reg[dst][j].isConstant] \in Wire
      <4>1. Immediate(imm)[j] \in Wire /\ reg[dst][j] \in Wire
        BY <1>1, ImmediateWord, WireWords
      <4>2. (path = "plain" /\ reg[dst][j].isConstant) = FALSE
        BY <4>1, WireFlag
      <4> QED
        BY <4>1, <4>2 DEF Wire
    <3> QED
      BY <3>1 DEF WireWord
  <2> HIDE DEF inst, word
  <2>4. 0 = GetMaxLength(inst.op)
    BY <2>2, Lengths
  <2> QED
    BY <2>1, <2>3, <2>4, WriteKeeps
<1> QED
  BY <1>2, <1>3

LEMMA NoopKeeps == FragmentInv /\ NOOP => FragmentInv'
<1> SUFFICES ASSUME FragmentInv, NOOP
             PROVE  FragmentInv'
  OBVIOUS
<1>1. Inst("NOOP", None, None, None, NoImm).op = "NOOP"
  BY DEF Inst
<1>2. rows' = rows + 0 /\ length' = length + 0 /\ reg' = reg
  BY <1>1, Lengths DEF NOOP, Count
<1> QED
  BY <1>2 DEF FragmentInv

LEMMA FragmentInvariance == Spec => []FragmentInv
<1>1. Init => FragmentInv
  <2> SUFFICES ASSUME Init
               PROVE  FragmentInv
    OBVIOUS
  <2>1. {wire(FALSE), wire(TRUE)} \subseteq Wire
    BY DEF wire, Wire
  <2>2. [Position -> {wire(FALSE), wire(TRUE)}] \subseteq WireWord
    BY <2>1 DEF WireWord
  <2>3. reg \in [Registers -> WireWord]
    BY <2>2 DEF Init
  <2>4. rows = length
    BY DEF Init
  <2> QED
    BY <2>3, <2>4 DEF FragmentInv
<1>2. FragmentInv /\ [Next]_vars => FragmentInv'
  <2> SUFFICES ASSUME FragmentInv, [Next]_vars
               PROVE  FragmentInv'
    OBVIOUS
  <2>1. ASSUME NEW dst \in Registers, NEW src1 \in Registers, NEW src2 \in Registers,
               ThreeRegisters(dst, src1, src2)
        PROVE  FragmentInv'
    BY <2>1, ThreeKeep
  <2>2. ASSUME NEW dst \in Registers, NEW src1 \in Registers, TwoRegisters(dst, src1)
        PROVE  FragmentInv'
    BY <2>2, TwoKeep
  <2>3. ASSUME NEW dst \in Registers, RS1(dst) \/ \E imm \in Immediates : IMM(dst, imm)
        PROVE  FragmentInv'
    BY <2>3, OneKeeps
  <2>4. CASE NOOP
    BY <2>4, NoopKeeps
  <2>5. CASE UNCHANGED vars
    BY <2>5 DEF vars, FragmentInv
  <2> QED
    BY <2>1, <2>2, <2>3, <2>4, <2>5, Zenon DEF Next
<1> QED
  BY <1>1, <1>2, PTL DEF Spec

(***************************************************************************)
(* No register ever holds a constant bit, whatever instructions a fragment *)
(* has: Reveal may decode by the label alone, and both parties take the    *)
(* same early returns of operator&.                                        *)
(***************************************************************************)
THEOREM ConstantsStayInside == Spec => []NoConstants
<1>1. FragmentInv => NoConstants
  <2> SUFFICES ASSUME FragmentInv, NEW r \in Registers, NEW j \in Position
               PROVE  ~ reg[r][j].isConstant
    BY DEF NoConstants
  <2>1. reg[r] \in WireWord
    BY DEF FragmentInv
  <2> QED
    BY <2>1, WireWords, WireFlag
<1> QED
  BY <1>1, FragmentInvariance, PTL

(***************************************************************************)
(* The numbers of GetMaxLength, SIZE being whatever it is, are the rows    *)
(* that the circuits of Bit32 take, for every sequence of instructions:    *)
(* Bob cuts his material where Alice's piece ends.                         *)
(***************************************************************************)
THEOREM LengthsAlwaysExact == Spec => []LengthExact
<1>1. FragmentInv => LengthExact
  BY DEF FragmentInv, LengthExact
<1> QED
  BY <1>1, FragmentInvariance, PTL
=============================================================================
