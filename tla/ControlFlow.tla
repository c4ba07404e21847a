----------------------------- MODULE ControlFlow ----------------------------
(***************************************************************************)
(* GenerateCFG and GenerateBBPath (AsParse.cpp), line by line.  A first    *)
(* pass gives every label the address of the next instruction; a second    *)
(* one cuts the program into basic blocks, each ending with instructions   *)
(* that set PC; then the blocks a label or a fall-through can reach are    *)
(* resolved to block numbers.  GenerateBBPath gives, for every step, the   *)
(* blocks that can be the one to run, whatever the data.                   *)
(*                                                                         *)
(* Block numbers start at 0 as in the code: block b is CFG[b + 1].         *)
(***************************************************************************)
EXTENDS Integers, Sequences, FiniteSets

CONSTANTS LabelNames,
          Texts,      \* the programs considered, as lines
          GiantStep   \* giant_step: how many blocks are executed

ASSUME GiantStepAssumption == GiantStep \in Nat

VARIABLES
  text,          \* as_program
  pass,          \* "addresses", "blocks", "resolve", "path", "run"
  i, ctr,        \* the line reached, and the instructions before it
  label_to_addr, label_to_bbid,
  bb, CFG,       \* the block being built, and those finished
  check,         \* the blocks active in the next step
  BBPath,        \* the active blocks of each step
  sum_acc_cnt    \* what GenerateBBPath returns: MAXACC

passVars == <<text, label_to_addr>>
pathVars == <<check, BBPath, sum_acc_cnt>>
cfgVars == <<text, pass, i, ctr, label_to_addr, label_to_bbid, bb, CFG, pathVars>>

ASM == INSTANCE Assembly WITH addr <- 0, flag <- <<FALSE, FALSE>>

ASSUME LabelsAssumption == LabelNames \cap {ASM!NoopLabel, ""} = {}
ASSUME TextsAssumption == Texts \subseteq Seq(ASM!UserLine)

\* An instruction of a fragment: the operation, its destination, its immediate
Inst(op, dst, imm) == [op |-> op, dst |-> dst, imm |-> imm]
Imm(dst, imm) == Inst("IMM", dst, imm)

EmptyBlock(start) == [start_addr |-> start, acc_cnt |-> 0, fragment |-> <<>>,
                      next_BB |-> <<>>, branch_BB |-> ""]

\* std::map::operator[]: 0 for a label that has no entry
Lookup(map, l) == IF l \in DOMAIN map THEN map[l] ELSE 0
Define(map, l, n) == [k \in DOMAIN map \cup {l} |-> IF k = l THEN n ELSE map[k]]

ln == text[i]

\* Mutant: JNE selects as JE does
Masks_unnegated(op) == IF op = "JL" THEN <<"ANDN1", "AND1">> ELSE <<"ANDN0", "AND0">>

(***************************************************************************)
(* PC := flag ? target : next, without a branch: one of SP0 (the next      *)
(* address) and SP1 (the target) is cleared by the flag bit, and PC is     *)
(* their exclusive or.  AND0, AND1 keep the register when bit 0, 1 of the  *)
(* flag is set; ANDN0, ANDN1 when it is clear.                             *)
(***************************************************************************)
Masks(op) == CASE op \in {"JE", "JB"} -> <<"ANDN0", "AND0">>
               [] op = "JNE" -> <<"AND0", "ANDN0">>
               [] op = "JL" -> <<"ANDN1", "AND1">>

SelectPC(op, next, target) ==
  << Imm("SP0", next), Imm("SP1", target),
     Inst(Masks(op)[1], "SP0", 0), Inst(Masks(op)[2], "SP1", 0),
     Inst("XOR", "PC", 0) >>
-----------------------------------------------------------------------------
(* First pass *)

At(p) == pass = p /\ i <= Len(text)

AddressPass ==
  /\ At("addresses")
  /\ i' = i + 1
  /\ IF ln.op = "label"
     THEN label_to_addr' = Define(label_to_addr, ln.label, ctr) /\ UNCHANGED ctr
     ELSE ctr' = ctr + 1 /\ UNCHANGED label_to_addr
  /\ UNCHANGED <<text, pass, label_to_bbid, bb, CFG, pathVars>>

EndAddressPass ==
  /\ pass = "addresses" /\ i > Len(text)
  /\ pass' = "blocks" /\ i' = 1 /\ ctr' = 0
  /\ UNCHANGED <<passVars, label_to_bbid, bb, CFG, pathVars>>
-----------------------------------------------------------------------------
(* Second pass *)

\* Mutant: the label is bound to the block it ends
LabelLine_boundEarly ==
  LET ended == bb.fragment # <<>>
  IN  /\ At("blocks") /\ ln.op = "label"
      /\ CFG' = IF ended
                THEN Append(CFG, [bb EXCEPT !.fragment = Append(@, Imm("PC", ctr)),
                                            !.next_BB = Append(@, Len(CFG) + 1)])
                ELSE CFG
      /\ bb' = IF ended THEN EmptyBlock(ctr) ELSE bb
      /\ label_to_bbid' = Define(label_to_bbid, ln.label, Len(CFG))
      /\ i' = i + 1
      /\ UNCHANGED <<passVars, pass, ctr, pathVars>>

\* A label ends the block that runs into it, if there is one
LabelLine ==
  LET ended == bb.fragment # <<>>
  IN  /\ At("blocks") /\ ln.op = "label"
      /\ CFG' = IF ended
                THEN Append(CFG, [bb EXCEPT !.fragment = Append(@, Imm("PC", ctr)),
                                            !.next_BB = Append(@, Len(CFG) + 1)])
                ELSE CFG
      /\ bb' = IF ended THEN EmptyBlock(ctr) ELSE bb
      /\ label_to_bbid' = Define(label_to_bbid, ln.label, Len(CFG'))
      /\ i' = i + 1
      /\ UNCHANGED <<passVars, pass, ctr, pathVars>>

\* An instruction that neither jumps nor ends the block
LocalLine ==
  /\ At("blocks") /\ ln.op \in {"plain", "set", "access"}
  /\ bb' = [bb EXCEPT !.fragment = Append(@, Inst(ln.op, "GR", 0)),
                      !.acc_cnt = IF ln.op = "access" THEN @ + 1 ELSE @]
  /\ i' = i + 1 /\ ctr' = ctr + 1
  /\ UNCHANGED <<passVars, pass, label_to_bbid, CFG, pathVars>>

\* Mutant: the next block starts at the instruction that ended this one
EndBlock_staleStart(insts, branch, falls) ==
  /\ CFG' = Append(CFG, [bb EXCEPT !.fragment = @ \o insts, !.branch_BB = branch,
                                   !.next_BB = IF falls THEN Append(@, Len(CFG) + 1) ELSE @])
  /\ ctr' = ctr + 1
  /\ bb' = EmptyBlock(ctr)
  /\ i' = i + 1
  /\ UNCHANGED <<passVars, pass, label_to_bbid, pathVars>>

\* The block ends with these instructions, a branch, and maybe a fall-through
EndBlock(insts, branch, falls) ==
  /\ CFG' = Append(CFG, [bb EXCEPT !.fragment = @ \o insts, !.branch_BB = branch,
                                   !.next_BB = IF falls THEN Append(@, Len(CFG) + 1) ELSE @])
  /\ ctr' = ctr + 1
  /\ bb' = EmptyBlock(ctr')
  /\ i' = i + 1
  /\ UNCHANGED <<passVars, pass, label_to_bbid, pathVars>>

JumpLine ==
  /\ At("blocks") /\ ln.op = "J"
  /\ EndBlock(<<Imm("PC", Lookup(label_to_addr, ln.label))>>, ln.label, FALSE)

\* Mutant: the fall-through is forgotten
ConditionalLine_noFall ==
  /\ At("blocks") /\ ln.op \in ASM!Conditional
  /\ EndBlock(SelectPC(ln.op, ctr + 1, Lookup(label_to_addr, ln.label)), ln.label, FALSE)

ConditionalLine ==
  /\ At("blocks") /\ ln.op \in ASM!Conditional
  /\ EndBlock(SelectPC(ln.op, ctr + 1, Lookup(label_to_addr, ln.label)), ln.label, TRUE)

HaltLine ==
  /\ At("blocks") /\ ln.op = "HALT"
  /\ EndBlock(<<Imm("PC", Lookup(label_to_addr, ASM!NoopLabel))>>, ASM!NoopLabel, FALSE)

\* NOOP leaves PC where it is: its block is its own successor
NoopLine ==
  /\ At("blocks") /\ ln.op = "NOOP"
  /\ EndBlock(<<Inst("NOOP", "GR", 0)>>, ASM!NoopLabel, FALSE)

EndBlockPass ==
  /\ pass = "blocks" /\ i > Len(text)
  /\ pass' = "resolve"
  /\ UNCHANGED <<passVars, i, ctr, label_to_bbid, bb, CFG, pathVars>>

\* Mutant: the fall-through is resolved, and the branch is one block too far
Resolve_shifted ==
  /\ pass = "resolve"
  /\ CFG' = [b \in DOMAIN CFG |->
               IF CFG[b].branch_BB = "" THEN CFG[b]
               ELSE [CFG[b] EXCEPT !.next_BB =
                       Append(@, Lookup(label_to_bbid, CFG[b].branch_BB) + 1)]]
  /\ pass' = "path"
  /\ UNCHANGED <<passVars, i, ctr, label_to_bbid, bb, pathVars>>

Resolve ==
  /\ pass = "resolve"
  /\ CFG' = [b \in DOMAIN CFG |->
               IF CFG[b].branch_BB = "" THEN CFG[b]
               ELSE [CFG[b] EXCEPT !.next_BB =
                       Append(@, Lookup(label_to_bbid, CFG[b].branch_BB))]]
  /\ pass' = "path"
  /\ UNCHANGED <<passVars, i, ctr, label_to_bbid, bb, pathVars>>
-----------------------------------------------------------------------------
(* GenerateBBPath *)

Blocks == 0 .. Len(CFG) - 1
NextOf(b) == LET next == CFG[b + 1].next_BB IN { next[k] : k \in DOMAIN next }

\* The largest of f(b) for the blocks b, 0 if there is none
Largest(values) == CHOOSE n \in values \cup {0} : \A m \in values : m <= n

AccCnt(b) == CFG[b + 1].acc_cnt

PathStep ==
  /\ pass = "path"
  /\ Len(BBPath) < GiantStep
  /\ BBPath' = Append(BBPath, check)
  /\ sum_acc_cnt' = sum_acc_cnt + Largest({ AccCnt(b) : b \in check })
  /\ check' = UNION { NextOf(b) : b \in check }
  /\ UNCHANGED <<passVars, pass, i, ctr, label_to_bbid, bb, CFG>>

EndPath ==
  /\ pass = "path" /\ Len(BBPath) = GiantStep
  /\ pass' = "run"
  /\ UNCHANGED <<passVars, i, ctr, label_to_bbid, bb, CFG, pathVars>>
-----------------------------------------------------------------------------
CfgInit ==
  /\ text \in { ASM!OpenAs(user) : user \in Texts }
  /\ pass = "addresses" /\ i = 1 /\ ctr = 0
  /\ label_to_addr = << >> /\ label_to_bbid = << >>
  /\ bb = EmptyBlock(0) /\ CFG = <<>>
  /\ check = {0} /\ BBPath = <<>> /\ sum_acc_cnt = 0

GenerateCFG == \/ AddressPass \/ EndAddressPass
               \/ LabelLine \/ LocalLine \/ JumpLine \/ ConditionalLine
               \/ HaltLine \/ NoopLine \/ EndBlockPass \/ Resolve

GenerateBBPath == PathStep \/ EndPath

CfgNext == GenerateCFG \/ GenerateBBPath

CfgSpec == CfgInit /\ [][CfgNext]_cfgVars
-----------------------------------------------------------------------------
(* Properties *)

(***************************************************************************)
(* The two passes agree (AsParse.cpp, label_to_addr and label_to_bbid):    *)
(* the address a jump writes into PC is the start address of the block     *)
(* that GenerateBBPath activates for it, for every label that is used,     *)
(* defined or not, once or several times.                                  *)
(***************************************************************************)
PassesAgree ==
  pass \in {"path", "run"} =>
    \A b \in DOMAIN CFG : CFG[b].branch_BB # "" =>
      CFG[Lookup(label_to_bbid, CFG[b].branch_BB) + 1].start_addr
        = Lookup(label_to_addr, CFG[b].branch_BB)

(***************************************************************************)
(* The start addresses increase from block to block, and no two blocks     *)
(* share one: "PC == start_addr" (GbExecuteSingleBB) selects at most one   *)
(* of any set of blocks.                                                   *)
(***************************************************************************)
StartsIncrease ==
  \A a, b \in DOMAIN CFG : a < b => CFG[a].start_addr < CFG[b].start_addr

\* Every successor is a block, and every block has one: GenerateBBPath never
\* indexes past its arrays, and a step is never left without an active block
SuccessorsExist ==
  pass \in {"path", "run"} =>
    /\ \A b \in Blocks : NextOf(b) # {} /\ NextOf(b) \subseteq Blocks
    /\ check # {} /\ check \subseteq Blocks
=============================================================================
