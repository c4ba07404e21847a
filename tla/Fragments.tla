------------------------------ MODULE Fragments -----------------------------
(***************************************************************************)
(* The instructions of a fragment over the registers, as executed on two   *)
(* paths: "stacked", by GbFragment and single_inst, over a material vector *)
(* of the fragment's own, and "plain", by Gb- and Ev-                      *)
(* ExecuteSingleBBWithoutStacking, over the common material buffer.        *)
(* LOAD and STORE are in module Blocks.                                    *)
(*                                                                         *)
(* GetMaxLength says beforehand how many rows a fragment takes; Bob cuts   *)
(* his material by it.                                                     *)
(***************************************************************************)
EXTENDS Words, FiniteSetsExt

CONSTANTS Registers,
          Immediates,
          Multiplies,  \* the paths whose programs may multiply
          MaxSteps     \* bound: instructions of a fragment

Path == {"stacked", "plain"}

ASSUME MultipliesAssumption == Multiplies \subseteq Path

VARIABLES path,
          reg,
          rows,    \* rows of material the fragment has taken
          length,  \* tmp_res of GetMaxLength, up to the same instruction
          last,    \* the instruction executed last
          steps    \* instructions executed, for the bound

vars == <<path, reg, rows, length, last, steps>>

Number(word) == MapThenSumSet(LAMBDA j : IF word[j].v THEN 2^j ELSE 0, Position)

ISA == INSTANCE Isa WITH reg <- [r \in Registers |-> Number(reg[r])]

None == CHOOSE r \in Registers : TRUE
NoImm == CHOOSE n \in Immediates : TRUE
Inst(op, dst, src1, src2, imm) ==
  [op |-> op, dst |-> dst, src1 |-> src1, src2 |-> src2, imm |-> imm]

\* Mutant: CMP is taken for a subtraction
GetMaxLength_subtraction(op) ==
  CASE op \in {"ADD", "ADDI", "SUB", "SUBI", "CMP"} \cup ISA!Mask -> 2 * SIZE
    [] op = "MUL" -> 2 * SIZE * SIZE
    [] op \in {"EQ", "EQI"} -> 2 * (SIZE - 1)
    [] op = "CCOPY" -> 4 * SIZE
    [] OTHER -> 0

\* The numbers GetMaxLength adds, for words of SIZE = 32 bits
GetMaxLength(op) ==
  CASE op \in {"ADD", "ADDI", "SUB", "SUBI"} \cup ISA!Mask -> 2 * SIZE
    [] op = "MUL" -> 2 * SIZE * SIZE
    [] op = "CMP" -> 2 * SIZE + 4
    [] op \in {"EQ", "EQI"} -> 2 * (SIZE - 1)
    [] op = "CCOPY" -> 4 * SIZE
    [] OTHER -> 0
-----------------------------------------------------------------------------
Count(inst, taken) ==
  /\ steps < MaxSteps
  /\ steps' = steps + 1
  /\ rows' = rows + taken
  /\ length' = length + GetMaxLength(inst.op)
  /\ last' = inst
  /\ UNCHANGED path

Write(inst, word, taken) ==
  /\ Count(inst, taken)
  /\ reg' = [reg EXCEPT ![inst.dst] = word]

ADD(dst, src1, src2) ==
  Write(Inst("ADD", dst, src1, src2, NoImm),
        Add(reg[src1], reg[src2]), AddRows(reg[src1], reg[src2]))

ADDI(dst, src1, imm) ==
  Write(Inst("ADDI", dst, src1, None, imm),
        Add(reg[src1], Immediate(imm)), AddRows(reg[src1], Immediate(imm)))

SUB(dst, src1, src2) ==
  Write(Inst("SUB", dst, src1, src2, NoImm),
        Sub(reg[src1], reg[src2]), SubRows(reg[src1], reg[src2]))

SUBI(dst, src1, imm) ==
  Write(Inst("SUBI", dst, src1, None, imm),
        Sub(reg[src1], Immediate(imm)), SubRows(reg[src1], Immediate(imm)))

\* The factors of MUL: the plain path names src2 twice
Factor(src1, src2) == IF path = "stacked" THEN reg[src1] ELSE reg[src2]

MUL(dst, src1, src2) ==
  LET product == Multiply(Factor(src1, src2), reg[src2])
  IN  /\ path \in Multiplies
      /\ Write(Inst("MUL", dst, src1, src2, NoImm), product.word, product.rows)

\* GbFragment puts a new word, the others set the labels and keep the flags
IMM(dst, imm) ==
  Write(Inst("IMM", dst, None, None, imm),
        [j \in Position |-> [Immediate(imm)[j] EXCEPT
           !.isConstant = path = "plain" /\ reg[dst][j].isConstant]], 0)

\* std::swap of the two registers' bits
SWAP(src1, src2) ==
  LET inst == Inst("SWAP", None, src1, src2, NoImm)
  IN  /\ Count(inst, 0)
      /\ reg' = [reg EXCEPT ![src1] = reg[src2], ![src2] = reg[src1]]

COPY(dst, src1) == Write(Inst("COPY", dst, src1, None, NoImm), reg[src1], 0)

\* dst takes src2 if bit 0 of src1 is set: the two halves are never both nonzero
CCOPY(dst, src1, src2) ==
  LET le == And_Bit(reg[src2], reg[src1], 0, FALSE)
      ri == And_Bit(reg[dst], reg[src1], 0, TRUE)
  IN  Write(Inst("CCOPY", dst, src1, src2, NoImm), XorWord(le, ri),
            AndWordRows(reg[src2], reg[src1][0]) + AndWordRows(reg[dst], Not(reg[src1][0])))

CMP(dst, src1, src2) ==
  Write(Inst("CMP", dst, src1, src2, NoImm),
        Cmp(reg[src1], reg[src2]), CmpRows(reg[src1], reg[src2]))

EQ(dst, src1, src2) ==
  Write(Inst("EQ", dst, src1, src2, NoImm),
        Eq(reg[src1], reg[src2]), EqRows(reg[src1], reg[src2]))

EQI(dst, src1, imm) ==
  Write(Inst("EQI", dst, src1, None, imm),
        Eq(reg[src1], Immediate(imm)), EqRows(reg[src1], Immediate(imm)))

XOR(dst, src1, src2) ==
  Write(Inst("XOR", dst, src1, src2, NoImm), XorWord(reg[src1], reg[src2]), 0)

\* AND0, AND1, ANDN0, ANDN1
MASK(op, dst, src1, src2) ==
  LET bid == IF op \in {"AND0", "ANDN0"} THEN 0 ELSE 1
      not_mark == op \in {"ANDN0", "ANDN1"}
  IN  Write(Inst(op, dst, src1, src2, NoImm), And_Bit(reg[src1], reg[src2], bid, not_mark),
            AndWordRows(reg[src1], reg[src2][bid]))

RS1(dst) == Write(Inst("RS1", dst, None, None, NoImm), RightShift1(reg[dst]), 0)

NOOP == Count(Inst("NOOP", None, None, None, NoImm), 0) /\ UNCHANGED reg
-----------------------------------------------------------------------------
(* The registers at the start of a fragment: any numbers, no constants *)
Init ==
  /\ path \in Path
  /\ reg \in [Registers -> [Position -> {wire(FALSE), wire(TRUE)}]]
  /\ rows = 0 /\ length = 0 /\ steps = 0
  /\ last = Inst("NOOP", None, None, None, NoImm)

ThreeRegisters(dst, src1, src2) ==
  \/ ADD(dst, src1, src2) \/ SUB(dst, src1, src2) \/ MUL(dst, src1, src2)
  \/ CMP(dst, src1, src2) \/ EQ(dst, src1, src2) \/ XOR(dst, src1, src2)
  \/ CCOPY(dst, src1, src2)
  \/ \E op \in ISA!Mask : MASK(op, dst, src1, src2)

TwoRegisters(dst, src1) ==
  \/ SWAP(dst, src1)
  \/ COPY(dst, src1)
  \/ \E imm \in Immediates : ADDI(dst, src1, imm) \/ SUBI(dst, src1, imm) \/ EQI(dst, src1, imm)

Next ==
  \/ \E dst, src1, src2 \in Registers : ThreeRegisters(dst, src1, src2)
  \/ \E dst, src1 \in Registers : TwoRegisters(dst, src1)
  \/ \E dst \in Registers : RS1(dst) \/ \E imm \in Immediates : IMM(dst, imm)
  \/ NOOP

Spec == Init /\ [][Next]_vars
-----------------------------------------------------------------------------
(***************************************************************************)
(* No register ever holds a constant bit, although the circuits (Multiply  *)
(* from a constant 0, shifted in constants) work with them.  The code      *)
(* relies on it in three places: Reveal decodes a bit by its label alone,  *)
(* the evaluator's IMM sets labels and not flags, and Alice and Bob take   *)
(* the same early returns of operator&.                                    *)
(***************************************************************************)
NoConstants == \A r \in Registers, j \in Position : ~ reg[r][j].isConstant

(***************************************************************************)
(* A fragment takes exactly the rows GetMaxLength has counted for it.      *)
(* With fewer rows Bob runs into the material of the next piece, with more *)
(* everything behind the fragment is shifted (SGCUtils.cpp uses it to cut  *)
(* the stacked material).                                                  *)
(***************************************************************************)
LengthExact == rows = length

(***************************************************************************)
(* Every instruction has the effect the instruction set says, modulo       *)
(* 2^SIZE, and for every choice of registers, equal ones included.         *)
(***************************************************************************)
ImplementsIsa == ISA!Spec

(***************************************************************************)
(* MUL multiplies its two operands, as the list of instructions in         *)
(* SGCUtils.h says: "MUL, DST := SRC1 * SRC2".  It does on the stacked     *)
(* path only.                                                              *)
(***************************************************************************)
MulMultiplies ==
  [][last'.op = "MUL" =>
       Number(reg'[last'.dst]) =
         (Number(reg[last'.src1]) * Number(reg[last'.src2])) % 2^SIZE]_vars
=============================================================================
