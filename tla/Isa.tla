--------------------------------- MODULE Isa --------------------------------
(***************************************************************************)
(* What the instructions mean: registers hold numbers below 2^SIZE, and    *)
(* arithmetic is modulo 2^SIZE.  The comments of the code that say what an *)
(* instruction does are those above Cmp, Eq, single_inst and enum OPCODE.  *)
(***************************************************************************)
EXTENDS Integers, FiniteSetsExt

CONSTANTS SIZE,       \* bits of a register
          Registers,
          Immediates  \* the immediates considered

Modulus == 2^SIZE
Value == 0 .. Modulus - 1

Digit(n, j) == (n \div 2^j) % 2
Signed(n) == IF Digit(n, SIZE - 1) = 1 THEN n - Modulus ELSE n
Truth(p) == IF p THEN 1 ELSE 0

\* The digits of two numbers, combined one by one
XorValue(x, y) ==
  MapThenSumSet(LAMBDA j : IF Digit(x, j) # Digit(y, j) THEN 2^j ELSE 0, 0 .. SIZE - 1)

Binary == {"ADD", "SUB", "MUL", "CMP", "EQ", "XOR"}
WithImmediate == {"ADDI", "SUBI", "EQI", "IMM"}
Mask == {"AND0", "AND1", "ANDN0", "ANDN1"}
Opcode == Binary \cup WithImmediate \cup Mask \cup {"SWAP", "COPY", "CCOPY", "RS1", "NOOP"}

\* Inst of BasicType.h
Instruction == [op : Opcode, dst : Registers, src1 : Registers, src2 : Registers,
                imm : Immediates]

Compare(x, y) == Truth(x < y) + 2 * Truth(Signed(x) < Signed(y))
Keep(p, x) == IF p THEN x ELSE 0

\* The value written to dst, for registers whose values are x, y, and d of dst
Result(inst, x, y, d) ==
  CASE inst.op = "ADD"   -> (x + y) % Modulus
    [] inst.op = "SUB"   -> (x - y) % Modulus
    [] inst.op = "MUL"   -> (x * y) % Modulus
    [] inst.op = "CMP"   -> Compare(x, y)
    [] inst.op = "EQ"    -> Truth(x = y)
    [] inst.op = "XOR"   -> XorValue(x, y)
    [] inst.op = "ADDI"  -> (x + inst.imm) % Modulus
    [] inst.op = "SUBI"  -> (x - inst.imm) % Modulus
    [] inst.op = "EQI"   -> Truth(x = inst.imm % Modulus)
    [] inst.op = "IMM"   -> inst.imm % Modulus
    [] inst.op = "AND0"  -> Keep(Digit(y, 0) = 1, x)
    [] inst.op = "AND1"  -> Keep(Digit(y, 1) = 1, x)
    [] inst.op = "ANDN0" -> Keep(Digit(y, 0) = 0, x)
    [] inst.op = "ANDN1" -> Keep(Digit(y, 1) = 0, x)
    [] inst.op = "COPY"  -> x
    [] inst.op = "CCOPY" -> IF Digit(x, 0) = 1 THEN y ELSE d
    [] inst.op = "RS1"   -> d \div 2

VARIABLES reg,   \* the registers
          last   \* the instruction that was executed last

isaVars == <<reg, last>>

\* SWAP exchanges its operands and writes no dst; NOOP does nothing
Effect(inst) ==
  CASE inst.op = "NOOP" -> reg
    [] inst.op = "SWAP" -> [reg EXCEPT ![inst.src1] = reg[inst.src2],
                                       ![inst.src2] = reg[inst.src1]]
    [] OTHER -> [reg EXCEPT ![inst.dst] =
                   Result(inst, reg[inst.src1], reg[inst.src2], reg[inst.dst])]

Init == /\ reg \in [Registers -> Value]
        /\ last \in Instruction

Execute == last' \in Instruction /\ reg' = Effect(last')

Spec == Init /\ [][Execute]_isaVars
=============================================================================
