-------------------------------- MODULE Words -------------------------------
(***************************************************************************)
(* The circuits of Bit32 (Bit32.cpp), over words of SIZE bits.  A bit is   *)
(* its truth value and its isConstant flag: that labels carry the values   *)
(* and that the flags are those of both parties is what HalfGates shows.   *)
(* Next to each circuit stands the number of material rows it takes, two   *)
(* for every AND of two bits that are not constants.                       *)
(*                                                                         *)
(* Bit32 has every circuit twice, over operator& and over AND(), which     *)
(* take the same rows from different buffers; they are one circuit here.   *)
(***************************************************************************)
EXTENDS Integers, FiniteSets

CONSTANT SIZE   \* BIT32::SIZE: 32 in the code

ASSUME SizeAssumption == SIZE \in Nat \ {0, 1}

Position == 0 .. SIZE - 1
Top == SIZE - 1

Bit == [v : BOOLEAN, isConstant : BOOLEAN]
Word == [Position -> Bit]

constant(b) == [v |-> b, isConstant |-> TRUE]
wire(b) == [v |-> b, isConstant |-> FALSE]

Xor(a, b) == [v |-> a.v # b.v, isConstant |-> a.isConstant /\ b.isConstant]
Not(a) == [a EXCEPT !.v = ~ @]

And(a, b) ==
  CASE a.isConstant /\ b.isConstant -> constant(a.v /\ b.v)
    [] a.isConstant /\ ~ b.isConstant -> IF a.v THEN b ELSE constant(FALSE)
    [] ~ a.isConstant /\ b.isConstant -> IF b.v THEN a ELSE constant(FALSE)
    [] OTHER -> wire(a.v /\ b.v)

AndRows(a, b) == IF a.isConstant \/ b.isConstant THEN 0 ELSE 2

\* The rows of a family of ANDs, one per position; at most SIZE pairs
SumRows(rows) == 2 * Cardinality({ j \in DOMAIN rows : rows[j] = 2 })
-----------------------------------------------------------------------------
(* Words, numbers, and the pairs of bits of a carry chain *)

\* GbGetImm: bit i of the word is digit i of the number, and not a constant
Immediate(n) == [j \in Position |-> wire((n \div 2^j) % 2 = 1)]

Zero == [j \in Position |-> constant(FALSE)]

XorWord(a, b) == [j \in Position |-> Xor(a[j], b[j])]
NotWord(a) == [j \in Position |-> Not(a[j])]

\* One step of the carry: c ^ ((a ^ c) & (b ^ c))
Majority(a, b, c) == Xor(c, And(Xor(a, c), Xor(b, c)))
MajorityRows(a, b, c) == AndRows(Xor(a, c), Xor(b, c))

(***************************************************************************)
(* Carries(a, b, in)[j] is the carry into position j, for a carry "in"     *)
(* into position 0; operator+ and Add have none, and take a0 & b0.         *)
(***************************************************************************)
Carries(a, b, in) ==
  LET c[j \in 0 .. SIZE] == IF j = 0 THEN in ELSE Majority(a[j - 1], b[j - 1], c[j - 1])
  IN  c

AddCarries(a, b) ==
  LET c[j \in 1 .. SIZE] == IF j = 1 THEN And(a[0], b[0])
                            ELSE Majority(a[j - 1], b[j - 1], c[j - 1])
  IN  c

Add(a, b) ==
  LET c == AddCarries(a, b)
  IN  [j \in Position |-> IF j = 0 THEN Xor(a[0], b[0]) ELSE Xor(Xor(a[j], b[j]), c[j])]

AddRows(a, b) ==
  LET c == AddCarries(a, b)
  IN  SumRows([j \in Position |-> IF j = 0 THEN AndRows(a[0], b[0])
                                  ELSE MajorityRows(a[j], b[j], c[j])])

\* Mutant: the carry into position 0 is forgotten
SubCarries_noCarry(a, b) == Carries(a, NotWord(b), wire(FALSE))

\* a - b is a + ~ b + 1, the 1 as a carry that is not a constant
SubCarries(a, b) == Carries(a, NotWord(b), wire(TRUE))

Sub(a, b) ==
  LET c == SubCarries(a, b)
  IN  [j \in Position |-> Xor(Xor(a[j], Not(b[j])), c[j])]

SubRows(a, b) ==
  LET c == SubCarries(a, b)
  IN  SumRows([j \in Position |-> MajorityRows(a[j], Not(b[j]), c[j])])

\* Mutant: a fresh word is one of constants
Fresh_constant(bits) == [j \in Position |-> IF j \in DOMAIN bits THEN bits[j] ELSE constant(FALSE)]

\* What a fresh Bit32 holds where nothing is assigned: labels 0, not constants
Fresh(bits) == [j \in Position |-> IF j \in DOMAIN bits THEN bits[j] ELSE wire(FALSE)]

\* Unsigned less than at position 0, signed less than at position 1
Cmp(a, b) ==
  LET below == wire(~ SubCarries(a, b)[SIZE].v)
      neg_pos == And(a[Top], Not(b[Top]))
      same_sign == Not(Xor(a[Top], b[Top]))
      less == Xor(neg_pos, And(same_sign, Sub(a, b)[Top]))
  IN  Fresh([j \in 0 .. 1 |-> IF j = 0 THEN below ELSE less])

CmpRows(a, b) == SubRows(a, b) + AndRows(a[Top], Not(b[Top]))
                   + AndRows(Not(Xor(a[Top], b[Top])), Sub(a, b)[Top])

\* equal[j]: positions 0 to j agree
Equal(a, b) ==
  LET equal[j \in Position] ==
        IF j = 0 THEN Not(Xor(a[0], b[0])) ELSE And(equal[j - 1], Not(Xor(a[j], b[j])))
  IN  equal

Eq(a, b) == Fresh([j \in {0} |-> Equal(a, b)[Top]])
EqRows(a, b) ==
  LET equal == Equal(a, b)
  IN  SumRows([j \in 1 .. Top |-> AndRows(equal[j - 1], Not(Xor(a[j], b[j])))])

\* Every bit of a with bit "bid" of b, negated or not
And_Bit(a, b, bid, not_mark) ==
  [j \in Position |-> And(a[j], IF not_mark THEN Not(b[bid]) ELSE b[bid])]

AndWordRows(a, bit) == SumRows([j \in Position |-> AndRows(a[j], bit)])

\* a << n, with constants shifted in
ShiftLeft(a, n) == [j \in Position |-> IF j >= n THEN a[j - n] ELSE constant(FALSE)]

Partial(a, b, n) == [j \in Position |-> And(ShiftLeft(a, n)[j], b[n])]

\* The sum of a << n over the positions n that hold a 1 in b, from a constant 0
Multiply(a, b) ==
  LET m[n \in 0 .. SIZE] ==
        IF n = 0 THEN [word |-> Zero, rows |-> 0]
        ELSE LET before == m[n - 1]
                 part == Partial(a, b, n - 1)
             IN  [word |-> Add(before.word, part),
                  rows |-> before.rows + AndWordRows(ShiftLeft(a, n - 1), b[n - 1])
                             + AddRows(before.word, part)]
  IN  m[SIZE]

\* The low bit falls out; the label 0 comes in at the top, the flags stay
RightShift1(a) ==
  [j \in Position |-> [a[j] EXCEPT !.v = IF j = Top THEN FALSE ELSE a[j + 1].v]]
=============================================================================
