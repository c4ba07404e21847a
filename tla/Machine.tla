------------------------------ MODULE Machine -------------------------------
(***************************************************************************)
(* What the two parties compute together: a processor with registers and a *)
(* memory, which executes one block of the program a step, the one whose   *)
(* start address is in PC.  Instructions mean what module Isa says.        *)
(***************************************************************************)
EXTENDS Integers, Sequences

CONSTANTS SIZE, REG_CNT,
          PC,         \* the register of the program counter
          MemBits,    \* log2 of the size of the memory
          CFG,        \* CFG[block] is a record [start_addr, fragment]
          Memories    \* the initial memories

VARIABLES reg, mem

ISA == INSTANCE Isa WITH last <- reg, Registers <- 1 .. REG_CNT,
                         Immediates <- 0 .. 2^SIZE - 1

Address(v) == v % 2^MemBits

RECURSIVE Execute(_, _)
Execute(s, prog) ==
  IF prog = <<>> THEN s
  ELSE LET inst == Head(prog)
           x == s.reg[inst.src1]
           y == s.reg[inst.src2]
           d == s.reg[inst.dst]
       IN  Execute(CASE inst.op = "LOAD" ->
                          [s EXCEPT !.reg[inst.dst] = s.mem[Address(x)]]
                     [] inst.op = "STORE" -> [s EXCEPT !.mem[Address(d)] = x]
                     [] inst.op = "NOOP" -> s
                     [] OTHER -> [s EXCEPT !.reg[inst.dst] = ISA!Result(inst, x, y, d)],
                   Tail(prog))

Init == reg = [r \in 1 .. REG_CNT |-> 0] /\ mem \in Memories

Run(block) ==
  LET s == Execute([reg |-> reg, mem |-> mem], block.fragment)
  IN  /\ reg[PC] = block.start_addr
      /\ reg' = s.reg
      /\ mem' = s.mem

Next == \E id \in DOMAIN CFG : Run(CFG[id])

Spec == Init /\ [][Next]_<<reg, mem>>
=============================================================================
