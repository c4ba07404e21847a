---------------------------- MODULE MC_Stacking -----------------------------
(***************************************************************************)
(* TLC instances of Stacking.  The program has eight blocks, one per value *)
(* of the program counter; the blocks of a step differ in the rows they    *)
(* take and in their accesses.  A step has 1, 2, 4 and then 5 active       *)
(* blocks, so that the last tree is filled up.                             *)
(***************************************************************************)
EXTENDS Stacking

CONSTANT k1

LabelNumber(w) == Number([j \in 1 .. KAPPA |-> (j - 1) \in w])
LabelOf(n) == { i \in 0 .. KAPPA - 1 : (n \div 2^i) % 2 = 1 }

\* Arbitrary functions, without structure that exclusive or would respect
Scramble(n) == (n * n * n + 7 * n + 3) % 257

MCPrf == [k \in Keys |-> [w \in Label |-> LabelOf(Scramble(5 * LabelNumber(w) + 11))]]
MCPrg == [w \in Label |-> Vector([i \in 1 .. 64 |-> LabelOf(Scramble(67 * LabelNumber(w) + i))])]

T == 2
C == 3

Load(dst, index) == Op("LOAD", dst, index, 1, 0)
Store(index, value) == Op("STORE", index, value, 1, 0)
Imm(dst, n) == Op("IMM", dst, 1, 1, n)
GoTo(yes, no) == <<Imm(PC, no), Imm(T, yes), Op("CCOPY", PC, C, T, 0)>>

MCFragments ==
  << <<Load(C, PC), Imm(T, 1), Store(PC, T)>> \o GoTo(2, 1),
     <<Imm(T, 1), Load(C, T)>> \o GoTo(4, 3),
     <<Store(PC, C), Load(T, C), Op("XOR", C, C, T, 0)>> \o GoTo(6, 5),
     <<Imm(PC, 7)>>,
     <<Op("AND0", T, C, PC, 0), Store(C, PC), Op("COPY", T, C, 1, 0), Imm(PC, 0)>>,
     <<Load(T, C), Store(T, C), Load(C, PC)>> \o GoTo(1, 7),
     <<Op("NOOP", 1, 1, 1, 0), Op("AND0", C, C, T, 0)>> \o GoTo(5, 2),
     <<Op("NOOP", 1, 1, 1, 0)>> >>

MCCFG == [id \in 1 .. 8 |-> [start_addr |-> id - 1, fragment |-> MCFragments[id]]]
MCBBPath == << <<1>>, <<2, 3>>, <<4, 5, 6, 7>>, <<1, 2, 3, 6, 8>> >>

MCMemories == [0 .. 1 -> {2, 5}]
MCOffsets == {{0}, {0, 2, 3}}
MCRoots == {LabelOf(6)}
MCFreshWords == {<<LabelOf(3), LabelOf(12), LabelOf(5)>>}
=============================================================================
