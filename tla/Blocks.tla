------------------------------- MODULE Blocks -------------------------------
(***************************************************************************)
(* The oblivious execution of a program: GiantStep times, all the blocks   *)
(* that GenerateBBPath lists for the step are executed by                  *)
(* Gb/EvExecuteSingleBB, and the registers of the one whose start address  *)
(* equals PC are kept.  Only that block is followed here, instruction by   *)
(* instruction; every step accesses memory as often as the block that      *)
(* accesses it most, whichever runs.                                       *)
(*                                                                         *)
(* Refines Assembly: a run of the blocks is a run of the program.          *)
(***************************************************************************)
EXTENDS ControlFlow

VARIABLES
  step,         \* blocks executed so far
  block, at,    \* the block that runs (None between blocks), and the
                \* instructions of it that were executed
  PC, SP0, SP1, \* the registers the jumps are made of
  flag,         \* bits 0 and 1 of the register jumps look at
  accesses      \* accesses to memory so far

regs == <<PC, SP0, SP1, flag>>
runVars == <<step, block, at, regs, accesses>>
vars == <<cfgVars, runVars>>

None == -1
Active == BBPath[step + 1]
Selected == { b \in Active : CFG[b + 1].start_addr = PC }
Fragment == CFG[block + 1].fragment

\* LOAD and STORE in the fragment: the length of its idx_array
AccessesOf(b) ==
  LET f == CFG[b + 1].fragment IN Cardinality({ k \in DOMAIN f : f[k].op = "access" })

\* GbExecuteSingleBB: a single active block runs without looking at PC
Enter ==
  /\ pass = "run" /\ block = None /\ step < GiantStep
  /\ block' \in IF Cardinality(Active) = 1 THEN Active ELSE Selected
  /\ at' = 0
  /\ UNCHANGED <<cfgVars, step, regs, accesses>>

\* AND0 and its like: keep the register, or clear it
Masked(op, value) ==
  LET keep == CASE op = "AND0" -> flag[1]
                [] op = "ANDN0" -> ~ flag[1]
                [] op = "AND1" -> flag[2]
                [] op = "ANDN1" -> ~ flag[2]
  IN  IF keep THEN value ELSE 0

\* x ^ y where, as here, the masks have cleared one of the two
XorWord(x, y) == IF x = 0 THEN y ELSE x

Exec ==
  /\ block # None /\ at < Len(Fragment)
  /\ at' = at + 1
  /\ LET inst == Fragment[at + 1]
         result == CASE inst.op = "IMM" -> inst.imm
                     [] inst.op = "XOR" -> XorWord(SP0, SP1)
                     [] inst.op \in {"AND0", "ANDN0", "AND1", "ANDN1"} ->
                          Masked(inst.op, IF inst.dst = "SP0" THEN SP0 ELSE SP1)
                     [] OTHER -> 0
     IN  /\ PC' = IF inst.dst = "PC" THEN result ELSE PC
         /\ SP0' = IF inst.dst = "SP0" THEN result ELSE SP0
         /\ SP1' = IF inst.dst = "SP1" THEN result ELSE SP1
         /\ IF inst.op = "set" THEN flag' \in ASM!Flags ELSE UNCHANGED flag
  /\ UNCHANGED <<cfgVars, step, block, accesses>>

\* Mutant: the accesses of the block that runs, not of the one with most
Leave_ownAccesses ==
  /\ block # None /\ at = Len(Fragment)
  /\ block' = None /\ at' = 0
  /\ step' = step + 1
  /\ accesses' = accesses + AccessesOf(block)
  /\ UNCHANGED <<cfgVars, regs>>

\* Joining the registers; the other active blocks have filled up the accesses
Leave ==
  /\ block # None /\ at = Len(Fragment)
  /\ block' = None /\ at' = 0
  /\ step' = step + 1
  /\ accesses' = accesses + Largest({ AccessesOf(b) : b \in Active })
  /\ UNCHANGED <<cfgVars, regs>>

Finished == pass = "run" /\ step = GiantStep
Terminated == Finished /\ UNCHANGED vars

Init == /\ CfgInit
        /\ step = 0 /\ block = None /\ at = 0
        /\ PC = 0 /\ SP0 = 0 /\ SP1 = 0 /\ flag = <<FALSE, FALSE>>
        /\ accesses = 0

Next == \/ GenerateCFG /\ UNCHANGED runVars
        \/ GenerateBBPath /\ UNCHANGED runVars
        \/ Enter \/ Exec \/ Leave \/ Terminated

Spec == Init /\ [][Next]_vars
-----------------------------------------------------------------------------
(* Properties *)

(***************************************************************************)
(* Whatever path the data take, when a step begins the point function is a *)
(* point function: PC is the start address of exactly one of the blocks    *)
(* GenerateBBPath activated (SGCUtils.cpp, point_func), also of the only   *)
(* one when it runs unchecked.                                             *)
(***************************************************************************)
OnePoint ==
  pass = "run" /\ block = None /\ step < GiantStep => Cardinality(Selected) = 1

(***************************************************************************)
(* The memory is built for MAXACC accesses (PrepareAccess, Main.cpp), and  *)
(* the steps executed so far have made exactly those counted for them; at  *)
(* the end the whole budget is used, whatever the data.                    *)
(***************************************************************************)
BudgetExact ==
  /\ pass = "run" => accesses <= sum_acc_cnt
  /\ Finished => accesses = sum_acc_cnt

\* The instructions of a fragment that stand for its last line
LastLine(fragment) == IF fragment[Len(fragment)].op = "XOR" THEN 5 ELSE 1

\* The address of the next instruction of the program
CurrentAddr ==
  IF block = None \/ at = Len(Fragment) THEN PC
  ELSE LET body == Len(Fragment) - LastLine(Fragment)
       IN  CFG[block + 1].start_addr + IF at < body THEN at ELSE body

Source == INSTANCE Assembly WITH addr <- CurrentAddr

\* Executing the blocks is executing the program, on every path
ImplementsAssembly == Source!Spec
=============================================================================
