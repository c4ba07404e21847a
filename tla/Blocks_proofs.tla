----------------------------- MODULE Blocks_proofs --------------------------
(***************************************************************************)
(* First the control flow (ControlFlow), for every set of programs and of  *)
(* labels.                                                                 *)
(*                                                                         *)
(* Then the execution (Blocks), for every program, every number of steps   *)
(* and every path the data may take: what runs is one of the blocks        *)
(* foreseen, it has the accesses to memory that were counted, and it is    *)
(* the program.                                                            *)
(***************************************************************************)
EXTENDS Blocks, Induction, SequenceTheorems, FiniteSetTheorems

(***************************************************************************)
(* The inductive invariant.  While the second pass runs, the block being   *)
(* built starts at or before the instruction reached, strictly before it   *)
(* once it has an instruction, and after every finished block.  None of    *)
(* this follows from StartsIncrease alone, which says nothing of bb.       *)
(***************************************************************************)
TextInv == /\ text \in Seq(ASM!Line)
           /\ i \in 1 .. Len(text) + 1
           /\ pass \in {"addresses", "blocks", "resolve", "path", "run"}

AddressInv == /\ ctr \in Nat
              /\ \A l \in DOMAIN label_to_addr : label_to_addr[l] \in Nat
              /\ \A l \in DOMAIN label_to_bbid : label_to_bbid[l] \in Nat

\* The types of what the passes build
InstType == [op : {"IMM", "AND0", "ANDN0", "AND1", "ANDN1", "XOR", "NOOP",
                   "plain", "set", "access"},
             dst : {"GR", "PC", "SP0", "SP1"}, imm : Nat]
Branches == LabelNames \cup {ASM!NoopLabel, ""}
BlockType == [start_addr : Nat, acc_cnt : Nat, fragment : Seq(InstType),
              next_BB : Seq(Nat), branch_BB : Branches]

BlockInv == bb \in BlockType /\ CFG \in Seq(BlockType)

FirstPassInv == pass = "addresses" => CFG = <<>> /\ bb = EmptyBlock(0)

OpenBlockInv == pass = "blocks" =>
  /\ bb.start_addr <= ctr
  /\ bb.fragment # <<>> => bb.start_addr < ctr
  /\ \A b \in DOMAIN CFG : CFG[b].start_addr < bb.start_addr

StartsInv == /\ TextInv /\ AddressInv /\ BlockInv
             /\ FirstPassInv /\ OpenBlockInv /\ StartsIncrease
-----------------------------------------------------------------------------
(* Lemmas about the helpers *)

\* std::map::operator[] yields an address when every entry is one
LEMMA LookupNat ==
  ASSUME NEW map, NEW l, \A k \in DOMAIN map : map[k] \in Nat
  PROVE  Lookup(map, l) \in Nat
  BY DEF Lookup

\* Setting an entry of a map to an address keeps every entry an address
LEMMA DefineNat ==
  ASSUME NEW map, NEW l, NEW n \in Nat, \A k \in DOMAIN map : map[k] \in Nat
  PROVE  \A k \in DOMAIN Define(map, l, n) : Define(map, l, n)[k] \in Nat
  BY DEF Define

\* BasicBlock::clear gives a block of the right type
LEMMA EmptyBlockType ==
  ASSUME NEW n \in Nat
  PROVE  /\ EmptyBlock(n) \in BlockType
         /\ EmptyBlock(n).start_addr = n /\ EmptyBlock(n).fragment = <<>>
  BY DEF EmptyBlock, BlockType, Branches

\* The five instructions that stand for a conditional jump
LEMMA SelectPCType ==
  ASSUME NEW op \in ASM!Conditional, NEW n \in Nat, NEW t \in Nat
  PROVE  SelectPC(op, n, t) \in Seq(InstType)
<1>1. Masks(op)[1] \in {"AND0", "ANDN0", "AND1", "ANDN1"}
      /\ Masks(op)[2] \in {"AND0", "ANDN0", "AND1", "ANDN1"}
  BY DEF Masks, ASM!Conditional
<1>2. /\ Imm("SP0", n) \in InstType /\ Imm("SP1", t) \in InstType
      /\ Inst(Masks(op)[1], "SP0", 0) \in InstType
      /\ Inst(Masks(op)[2], "SP1", 0) \in InstType
      /\ Inst("XOR", "PC", 0) \in InstType
  BY <1>1 DEF Imm, Inst, InstType
<1> QED
  BY <1>2 DEF SelectPC

(***************************************************************************)
(* Finishing a block (CFG.push_back(bb) and bb.clear()): if the finished   *)
(* block starts after all the others, starts still increase, and those of  *)
(* all blocks are below the address the next block starts at.              *)
(***************************************************************************)
LEMMA AppendBlock ==
  ASSUME NEW B \in BlockType, NEW n \in Nat, CFG \in Seq(BlockType), StartsIncrease,
         B.start_addr < n, \A b \in DOMAIN CFG : CFG[b].start_addr < B.start_addr,
         CFG' = Append(CFG, B)
  PROVE  /\ CFG' \in Seq(BlockType)
         /\ StartsIncrease'
         /\ \A b \in DOMAIN CFG' : CFG'[b].start_addr < n
<1>1. /\ CFG' \in Seq(BlockType) /\ Len(CFG') = Len(CFG) + 1
      /\ \A b \in 1 .. Len(CFG) : CFG'[b] = CFG[b]
      /\ CFG'[Len(CFG) + 1] = B
  BY AppendProperties
<1>2. DOMAIN CFG = 1 .. Len(CFG) /\ DOMAIN CFG' = 1 .. Len(CFG) + 1 /\ Len(CFG) \in Nat
  BY <1>1
<1>3. \A b \in DOMAIN CFG : CFG[b].start_addr \in Nat
  <2>1. \A b \in DOMAIN CFG : CFG[b] \in BlockType
    OBVIOUS
  <2> QED
    BY <2>1 DEF BlockType
<1>4. B.start_addr \in Nat
  BY DEF BlockType
<1>5. StartsIncrease'
  <2> SUFFICES ASSUME NEW a \in DOMAIN CFG', NEW b \in DOMAIN CFG', a < b
               PROVE  CFG'[a].start_addr < CFG'[b].start_addr
    BY DEF StartsIncrease
  <2>1. a \in DOMAIN CFG /\ CFG'[a] = CFG[a]
    BY <1>1, <1>2
  <2>2. CASE b \in DOMAIN CFG
    BY <1>1, <1>2, <2>1, <2>2 DEF StartsIncrease
  <2>3. CASE b = Len(CFG) + 1
    BY <1>1, <2>1, <2>3
  <2> QED
    BY <1>2, <2>2, <2>3
<1>6. \A b \in DOMAIN CFG' : CFG'[b].start_addr < n
  <2> TAKE b \in DOMAIN CFG'
  <2>1. CASE b \in DOMAIN CFG
    BY <1>1, <1>2, <1>3, <1>4, <2>1
  <2>2. CASE b = Len(CFG) + 1
    BY <1>1, <2>2
  <2> QED
    BY <1>2, <2>1, <2>2
<1> QED
  BY <1>1, <1>5, <1>6
-----------------------------------------------------------------------------
(* The invariant is inductive *)

\* GenerateCFG starts with no block
LEMMA StartsInit == CfgInit => StartsInv
<1> SUFFICES ASSUME CfgInit PROVE StartsInv
  OBVIOUS
<1>1. PICK user \in Texts : text = ASM!OpenAs(user)
  BY DEF CfgInit
<1>2. user \in Seq(ASM!UserLine)
  BY TextsAssumption
<1>3. user \in Seq(ASM!Line)
  <2>1. ASM!UserLine \subseteq ASM!Line
    BY DEF ASM!UserLine
  <2> QED
    BY <1>2, <2>1, SeqMonotonic, ElementOfSeq
<1>4. <<[op |-> "label", label |-> ASM!NoopLabel], [op |-> "NOOP", label |-> ""]>>
        \in Seq(ASM!Line)
  BY DEF ASM!Line
<1>5. text \in Seq(ASM!Line)
  BY <1>1, <1>3, <1>4, ConcatProperties DEF ASM!OpenAs
<1>8. TextInv
  BY <1>5, LenProperties DEF TextInv, CfgInit
<1>6. AddressInv
  BY DEF CfgInit, AddressInv
<1>7. BlockInv
  BY EmptyBlockType DEF CfgInit, BlockInv
<1> QED
  BY <1>8, <1>6, <1>7 DEF StartsInv, CfgInit, FirstPassInv, OpenBlockInv, StartsIncrease

\* The line reached is a line of the program
LEMMA LineType ==
  ASSUME TextInv, i <= Len(text)
  PROVE  ln \in ASM!Line /\ i + 1 \in 1 .. Len(text) + 1
  BY ElementOfSeq, LenProperties DEF TextInv, ln

(***************************************************************************)
(* A line that ends the block keeps the invariant, whatever instructions   *)
(* it appends: the next block starts at the following address.             *)
(***************************************************************************)
LEMMA EndBlockInv ==
  ASSUME NEW insts \in Seq(InstType), NEW branch \in Branches,
         NEW falls \in BOOLEAN,
         StartsInv, At("blocks"), EndBlock(insts, branch, falls)
  PROVE  StartsInv'
<1> DEFINE B == [bb EXCEPT !.fragment = @ \o insts, !.branch_BB = branch,
                           !.next_BB = IF falls THEN Append(@, Len(CFG) + 1) ELSE @]
<1>1. /\ bb \in BlockType /\ CFG \in Seq(BlockType) /\ ctr \in Nat /\ pass = "blocks"
      /\ bb.start_addr <= ctr /\ StartsIncrease
      /\ \A b \in DOMAIN CFG : CFG[b].start_addr < bb.start_addr
  BY DEF StartsInv, BlockInv, AddressInv, OpenBlockInv, At
<1>2. /\ bb.fragment \in Seq(InstType) /\ bb.next_BB \in Seq(Nat)
      /\ bb.start_addr \in Nat /\ bb.acc_cnt \in Nat
  BY <1>1 DEF BlockType
<1>3. Len(CFG) + 1 \in Nat
  BY <1>1, LenProperties
<1>4. bb.fragment \o insts \in Seq(InstType) /\ Append(bb.next_BB, Len(CFG) + 1) \in Seq(Nat)
  BY <1>2, <1>3, ConcatProperties, AppendProperties
<1>5. B \in BlockType /\ B.start_addr = bb.start_addr
  BY <1>1, <1>2, <1>4 DEF BlockType
<1>6. CFG' = Append(CFG, B) /\ ctr' = ctr + 1 /\ bb' = EmptyBlock(ctr + 1) /\ i' = i + 1
      /\ UNCHANGED <<passVars, pass, label_to_bbid, pathVars>>
  BY DEF EndBlock
<1> HIDE DEF B
<1>7. /\ CFG' \in Seq(BlockType) /\ StartsIncrease'
      /\ \A b \in DOMAIN CFG' : CFG'[b].start_addr < ctr + 1
  BY <1>1, <1>2, <1>5, <1>6, AppendBlock
<1>8. TextInv'
  BY <1>6, LineType DEF StartsInv, TextInv, At, passVars
<1>9. AddressInv'
  BY <1>1, <1>6 DEF StartsInv, AddressInv, passVars
<1>10. bb' \in BlockType /\ bb'.start_addr = ctr + 1 /\ bb'.fragment = <<>>
  BY <1>1, <1>6, EmptyBlockType
<1> QED
  BY <1>1, <1>6, <1>7, <1>8, <1>9, <1>10
     DEF StartsInv, BlockInv, FirstPassInv, OpenBlockInv

\* A label ends the block that runs into it, or leaves an empty one as it is
LEMMA LabelLineInv ==
  ASSUME StartsInv, LabelLine
  PROVE  StartsInv'
<1> DEFINE ended == bb.fragment # <<>>
           B == [bb EXCEPT !.fragment = Append(@, Imm("PC", ctr)),
                           !.next_BB = Append(@, Len(CFG) + 1)]
<1>1. /\ bb \in BlockType /\ CFG \in Seq(BlockType) /\ ctr \in Nat /\ pass = "blocks"
      /\ ended => bb.start_addr < ctr
      /\ bb.start_addr <= ctr /\ StartsIncrease
      /\ \A b \in DOMAIN CFG : CFG[b].start_addr < bb.start_addr
  BY DEF StartsInv, BlockInv, AddressInv, OpenBlockInv, LabelLine, At
<1>2. /\ bb.fragment \in Seq(InstType) /\ bb.next_BB \in Seq(Nat)
      /\ bb.start_addr \in Nat /\ bb.acc_cnt \in Nat
  BY <1>1 DEF BlockType
<1>3. Imm("PC", ctr) \in InstType /\ Len(CFG) + 1 \in Nat
  BY <1>1, LenProperties DEF Imm, Inst, InstType
<1>4. B \in BlockType /\ B.start_addr = bb.start_addr
  <2>1. Append(bb.fragment, Imm("PC", ctr)) \in Seq(InstType)
        /\ Append(bb.next_BB, Len(CFG) + 1) \in Seq(Nat)
    BY <1>2, <1>3, AppendProperties
  <2> QED
    BY <1>1, <2>1 DEF BlockType
<1>5. /\ CFG' = IF ended THEN Append(CFG, B) ELSE CFG
      /\ bb' = IF ended THEN EmptyBlock(ctr) ELSE bb
      /\ label_to_bbid' = Define(label_to_bbid, ln.label, Len(CFG'))
      /\ i' = i + 1 /\ i <= Len(text)
      /\ UNCHANGED <<passVars, pass, ctr, pathVars>>
  BY DEF LabelLine, At
<1> HIDE DEF B
<1>6. CFG' \in Seq(BlockType) /\ bb' \in BlockType /\ OpenBlockInv' /\ StartsIncrease'
  <2>1. CASE ended
    <3>1. /\ CFG' \in Seq(BlockType) /\ StartsIncrease'
          /\ \A b \in DOMAIN CFG' : CFG'[b].start_addr < ctr
      BY <1>1, <1>2, <1>4, <1>5, <2>1, AppendBlock
    <3>2. bb' \in BlockType /\ bb'.start_addr = ctr /\ bb'.fragment = <<>>
      BY <1>1, <1>5, <2>1, EmptyBlockType
    <3> QED
      BY <1>1, <1>5, <3>1, <3>2 DEF OpenBlockInv
  <2>2. CASE ~ ended
    BY <1>1, <1>5, <2>2 DEF OpenBlockInv, StartsIncrease
  <2> QED
    BY <2>1, <2>2
<1>7. TextInv'
  BY <1>5, LineType DEF StartsInv, TextInv, passVars
<1>8. AddressInv'
  <2>1. Len(CFG') \in Nat
    BY <1>6, LenProperties
  <2> QED
    BY <1>5, <2>1, DefineNat DEF StartsInv, AddressInv, passVars
<1> QED
  BY <1>1, <1>5, <1>6, <1>7, <1>8 DEF StartsInv, BlockInv, FirstPassInv

\* Every step of GenerateCFG keeps the invariant
LEMMA StartsStep ==
  ASSUME StartsInv, GenerateCFG
  PROVE  StartsInv'
<1> USE DEF passVars, pathVars
<1>1. CASE AddressPass
  <2>1. TextInv'
    BY <1>1, LineType DEF StartsInv, TextInv, AddressPass, At
  <2>2. AddressInv'
    BY <1>1, DefineNat DEF StartsInv, AddressInv, AddressPass
  <2> QED
    BY <1>1, <2>1, <2>2
       DEF StartsInv, AddressPass, At, BlockInv, FirstPassInv, OpenBlockInv, StartsIncrease
<1>2. CASE EndAddressPass
  <2>1. TextInv' /\ AddressInv' /\ BlockInv'
    BY <1>2, LenProperties DEF StartsInv, EndAddressPass, TextInv, AddressInv, BlockInv
  <2>2. CFG' = <<>> /\ bb' = EmptyBlock(0) /\ ctr' = 0 /\ pass' = "blocks"
    BY <1>2 DEF StartsInv, EndAddressPass, FirstPassInv
  <2>3. OpenBlockInv'
    BY <2>2, EmptyBlockType DEF OpenBlockInv
  <2> QED
    BY <2>1, <2>2, <2>3 DEF StartsInv, FirstPassInv, StartsIncrease
<1>3. CASE LabelLine
  BY <1>3, LabelLineInv
<1>4. CASE LocalLine
  <2> DEFINE I == Inst(ln.op, "GR", 0)
  <2>1. I \in InstType
    BY <1>4 DEF LocalLine, Inst, InstType
  <2>2. /\ bb \in BlockType /\ pass = "blocks" /\ ctr \in Nat
        /\ bb.fragment \in Seq(InstType) /\ bb.acc_cnt \in Nat /\ bb.start_addr \in Nat
    BY <1>4 DEF StartsInv, BlockInv, AddressInv, LocalLine, At, BlockType
  <2>3. Append(bb.fragment, I) \in Seq(InstType)
    BY <2>1, <2>2, AppendProperties
  <2>4. bb' \in BlockType /\ bb'.start_addr = bb.start_addr
    <3> DEFINE n == IF ln.op = "access" THEN bb.acc_cnt + 1 ELSE bb.acc_cnt
    <3>1. bb' = [bb EXCEPT !.fragment = Append(bb.fragment, I), !.acc_cnt = n]
      BY <1>4 DEF LocalLine
    <3>2. n \in Nat
      BY <2>2
    <3> HIDE DEF I, n
    <3> QED
      BY <2>2, <2>3, <3>1, <3>2 DEF BlockType
  <2>5. TextInv'
    BY <1>4, LineType DEF StartsInv, TextInv, LocalLine, At
  <2> QED
    BY <1>4, <2>2, <2>4, <2>5
       DEF StartsInv, AddressInv, BlockInv, FirstPassInv, OpenBlockInv, StartsIncrease, LocalLine
<1>5. CASE JumpLine
  <2>1. <<Imm("PC", Lookup(label_to_addr, ln.label))>> \in Seq(InstType)
    <3>1. Imm("PC", Lookup(label_to_addr, ln.label)) \in InstType
      BY LookupNat DEF StartsInv, AddressInv, Imm, Inst, InstType
    <3> QED
      BY <3>1
  <2>2. ln.label \in Branches
    BY <1>5, LineType DEF JumpLine, StartsInv, At, ASM!Line, Branches
  <2> QED
    BY <1>5, <2>1, <2>2, EndBlockInv DEF JumpLine
<1>6. CASE ConditionalLine
  <2>1. ctr + 1 \in Nat /\ Lookup(label_to_addr, ln.label) \in Nat
    BY LookupNat DEF StartsInv, AddressInv
  <2>2. SelectPC(ln.op, ctr + 1, Lookup(label_to_addr, ln.label)) \in Seq(InstType)
    BY <1>6, <2>1, SelectPCType DEF ConditionalLine
  <2>3. ln.label \in Branches
    BY <1>6, LineType DEF ConditionalLine, StartsInv, At, ASM!Line, Branches
  <2> QED
    BY <1>6, <2>2, <2>3, EndBlockInv DEF ConditionalLine
<1>7. CASE HaltLine
  <2>1. <<Imm("PC", Lookup(label_to_addr, ASM!NoopLabel))>> \in Seq(InstType)
    <3>1. Imm("PC", Lookup(label_to_addr, ASM!NoopLabel)) \in InstType
      BY LookupNat DEF StartsInv, AddressInv, Imm, Inst, InstType
    <3> QED
      BY <3>1
  <2> QED
    BY <1>7, <2>1, EndBlockInv DEF HaltLine, Branches
<1>8. CASE NoopLine
  <2>1. <<Inst("NOOP", "GR", 0)>> \in Seq(InstType)
    <3>1. Inst("NOOP", "GR", 0) \in InstType
      BY DEF Inst, InstType
    <3> QED
      BY <3>1
  <2> QED
    BY <1>8, <2>1, EndBlockInv DEF NoopLine, Branches
<1>9. CASE EndBlockPass
  BY <1>9 DEF StartsInv, EndBlockPass, TextInv, AddressInv, BlockInv, FirstPassInv,
              OpenBlockInv, StartsIncrease
<1>10. CASE Resolve
  <2>1. /\ CFG \in Seq(BlockType) /\ pass = "resolve" /\ pass' = "path"
        /\ DOMAIN CFG = 1 .. Len(CFG) /\ Len(CFG) \in Nat
    BY <1>10, LenProperties DEF StartsInv, BlockInv, Resolve
  <2>2. ASSUME NEW b \in DOMAIN CFG
        PROVE  CFG'[b] \in BlockType /\ CFG'[b].start_addr = CFG[b].start_addr
    <3>1. CFG[b] \in BlockType
      BY <2>1, <2>2, ElementOfSeq
    <3>2. Lookup(label_to_bbid, CFG[b].branch_BB) \in Nat
      BY LookupNat DEF StartsInv, AddressInv
    <3>3. Append(CFG[b].next_BB, Lookup(label_to_bbid, CFG[b].branch_BB)) \in Seq(Nat)
      BY <3>1, <3>2, AppendProperties DEF BlockType
    <3>4. CFG'[b] = IF CFG[b].branch_BB = "" THEN CFG[b]
                    ELSE [CFG[b] EXCEPT !.next_BB =
                            Append(@, Lookup(label_to_bbid, CFG[b].branch_BB))]
      BY <1>10, <2>2 DEF Resolve
    <3> QED
      BY <3>1, <3>3, <3>4 DEF BlockType
  <2>3. CFG' = [b \in 1 .. Len(CFG) |-> CFG'[b]]
    BY <1>10, <2>1 DEF Resolve
  <2>4. CFG' \in Seq(BlockType) /\ DOMAIN CFG' = DOMAIN CFG
    BY <2>1, <2>2, <2>3, SeqDef
  <2>5. StartsIncrease'
    BY <2>2, <2>4 DEF StartsInv, StartsIncrease
  <2> QED
    BY <1>10, <2>1, <2>4, <2>5
       DEF StartsInv, Resolve, TextInv, AddressInv, BlockInv, FirstPassInv, OpenBlockInv
<1> QED
  BY <1>1, <1>2, <1>3, <1>4, <1>5, <1>6, <1>7, <1>8, <1>9, <1>10 DEF GenerateCFG

\* GenerateBBPath and stuttering steps leave the blocks alone
LEMMA StartsKept ==
  ASSUME StartsInv, GenerateBBPath \/ UNCHANGED cfgVars
  PROVE  StartsInv'
<1> USE DEF passVars, pathVars
<1>1. CASE PathStep
  BY <1>1 DEF PathStep, StartsInv, TextInv, AddressInv, BlockInv, FirstPassInv,
              OpenBlockInv, StartsIncrease
<1>2. CASE EndPath
  BY <1>2 DEF EndPath, StartsInv, TextInv, AddressInv, BlockInv, FirstPassInv,
              OpenBlockInv, StartsIncrease
<1>3. CASE UNCHANGED cfgVars
  BY <1>3 DEF cfgVars, StartsInv, TextInv, AddressInv, BlockInv, FirstPassInv,
              OpenBlockInv, StartsIncrease
<1> QED
  BY <1>1, <1>2, <1>3 DEF GenerateBBPath

(***************************************************************************)
(* GenerateCFG gives the blocks of every program strictly increasing start *)
(* addresses: at no time do two of them share one, so that comparing PC    *)
(* with start_addr (GbExecuteSingleBB) can select at most one block.       *)
(***************************************************************************)
THEOREM StartsAlwaysIncrease == CfgSpec => []StartsIncrease
<1>1. CfgInit => StartsInv
  BY StartsInit
<1>2. StartsInv /\ [CfgNext]_cfgVars => StartsInv'
  BY StartsStep, StartsKept DEF CfgNext
<1>3. StartsInv => StartsIncrease
  BY DEF StartsInv
<1> QED
  BY <1>1, <1>2, <1>3, PTL DEF CfgSpec
-----------------------------------------------------------------------------
(* Addresses *)

Before(t, k) == ASM!Before(t, k)
InstructionsBefore(t, k) == { j \in 1 .. k - 1 : t[j].op # "label" }

LEMMA InstructionsFinite ==
  ASSUME NEW t, NEW k \in Nat
  PROVE  /\ IsFiniteSet(InstructionsBefore(t, k))
         /\ Before(t, k) = Cardinality(InstructionsBefore(t, k)) /\ Before(t, k) \in Nat
<1>1. IsFiniteSet(1 .. k - 1)
  BY FS_Interval
<1>2. InstructionsBefore(t, k) \subseteq 1 .. k - 1
  BY DEF InstructionsBefore
<1>3. IsFiniteSet(InstructionsBefore(t, k))
  BY <1>1, <1>2, FS_Subset
<1>4. Before(t, k) = Cardinality(InstructionsBefore(t, k))
  <2>1. ASM!Before(t, k) = Cardinality({ j \in 1 .. k - 1 : ASM!IsInstruction(t[j]) })
    BY DEF ASM!Before, ASM!Cardinality, Cardinality
  <2>2. { j \in 1 .. k - 1 : ASM!IsInstruction(t[j]) } = InstructionsBefore(t, k)
    BY DEF ASM!IsInstruction, InstructionsBefore
  <2> QED
    BY <2>1, <2>2 DEF Before
<1> QED
  BY <1>3, <1>4, FS_CardinalityType

\* An instruction has the next address, a label none of its own
LEMMA BeforeNext ==
  ASSUME NEW t, NEW k \in Nat \ {0}
  PROVE  /\ Before(t, 1) = 0
         /\ Before(t, k + 1) = IF t[k].op = "label" THEN Before(t, k) ELSE Before(t, k) + 1
<1>1. Before(t, 1) = 0
  <2>1. InstructionsBefore(t, 1) = {}
    BY DEF InstructionsBefore
  <2> QED
    BY <2>1, InstructionsFinite, FS_EmptySet
<1>2. CASE t[k].op = "label"
  <2>1. InstructionsBefore(t, k + 1) = InstructionsBefore(t, k)
    BY <1>2 DEF InstructionsBefore
  <2> QED
    BY <1>1, <1>2, <2>1, InstructionsFinite
<1>3. CASE t[k].op # "label"
  <2>1. InstructionsBefore(t, k + 1) = InstructionsBefore(t, k) \cup {k}
    BY <1>3 DEF InstructionsBefore
  <2>2. k \notin InstructionsBefore(t, k)
    BY DEF InstructionsBefore
  <2>3. Cardinality(InstructionsBefore(t, k + 1)) = Cardinality(InstructionsBefore(t, k)) + 1
    BY <2>1, <2>2, InstructionsFinite, FS_AddElement
  <2> QED
    BY <1>1, <1>3, <2>3, InstructionsFinite
<1> QED
  BY <1>2, <1>3

\* Addresses grow with the lines, and no two instructions share one
LEMMA BeforeGrows ==
  ASSUME NEW t, NEW j \in Nat \ {0}, NEW k \in Nat, j <= k
  PROVE  /\ Before(t, j) <= Before(t, k)
         /\ j < k /\ t[j].op # "label" => Before(t, j) < Before(t, k)
<1>1. ASSUME NEW m \in Nat, m <= k PROVE Before(t, m) <= Before(t, k)
  <2>1. InstructionsBefore(t, m) \subseteq InstructionsBefore(t, k)
    BY <1>1 DEF InstructionsBefore
  <2> QED
    BY <2>1, InstructionsFinite, FS_Subset
<1>2. ASSUME j < k, t[j].op # "label" PROVE Before(t, j) < Before(t, k)
  <2>1. Before(t, j + 1) <= Before(t, k)
    BY <1>1, <1>2
  <2>2. Before(t, j + 1) = Before(t, j) + 1
    BY <1>2, BeforeNext
  <2> QED
    BY <2>1, <2>2, InstructionsFinite
<1> QED
  BY <1>1, <1>2
-----------------------------------------------------------------------------
(* Labels *)

\* Line k is the last of the first n - 1 lines to define l
IsLast(t, n, l, k) ==
  /\ k \in 1 .. n - 1 /\ t[k].op = "label" /\ t[k].label = l
  /\ \A j \in k + 1 .. n - 1 : ~ (t[j].op = "label" /\ t[j].label = l)

(***************************************************************************)
(* After n - 1 lines the map has exactly the labels defined there, and its *)
(* entry for a label stands for the address of the last definition: at     *)
(* gives the address that a value of the map stands for.                   *)
(***************************************************************************)
Points(map, t, n, here) ==
  /\ \A k \in 1 .. n - 1 : t[k].op = "label" => t[k].label \in DOMAIN map
  /\ \A l \in DOMAIN map :
       /\ map[l] \in DOMAIN here
       /\ \E k \in 1 .. n - 1 : IsLast(t, n, l, k) /\ here[map[l]] = Before(t, k)

\* What label_to_addr and label_to_bbid hold, as addresses; the block being
\* built is the last of those that label_to_bbid may name
Itself == [a \in Nat |-> a]
Starts(blocks, open) ==
  [b \in 0 .. Len(blocks) |-> IF b < Len(blocks) THEN blocks[b + 1].start_addr ELSE open]

LEMMA OneLast ==
  ASSUME NEW t, NEW n \in Nat, NEW l, NEW j, NEW k, IsLast(t, n, l, j), IsLast(t, n, l, k)
  PROVE  j = k
  BY DEF IsLast

\* A line that is no label
LEMMA PointsOver ==
  ASSUME NEW map, NEW t, NEW n \in Nat \ {0}, NEW here, Points(map, t, n, here), t[n].op # "label"
  PROVE  Points(map, t, n + 1, here)
<1>1. ASSUME NEW l, NEW k, IsLast(t, n, l, k)
      PROVE  IsLast(t, n + 1, l, k) /\ k \in 1 .. n
  BY <1>1 DEF IsLast
<1>2. \A k \in 1 .. n : t[k].op = "label" => t[k].label \in DOMAIN map
  BY DEF Points
<1>3. ASSUME NEW l \in DOMAIN map
      PROVE  \E k \in 1 .. n : IsLast(t, n + 1, l, k) /\ here[map[l]] = Before(t, k)
  BY <1>1 DEF Points
<1>4. n + 1 - 1 = n
  OBVIOUS
<1> QED
  BY <1>2, <1>3, <1>4 DEF Points

\* A label, defined as something that stands for its address
LEMMA PointsDefine ==
  ASSUME NEW map, NEW t, NEW n \in Nat \ {0}, NEW here, Points(map, t, n, here),
         t[n].op = "label", NEW x \in DOMAIN here, here[x] = Before(t, n)
  PROVE  Points(Define(map, t[n].label, x), t, n + 1, here)
<1> DEFINE new == Define(map, t[n].label, x)
<1>1. /\ DOMAIN new = DOMAIN map \cup {t[n].label} /\ new[t[n].label] = x
      /\ \A l \in DOMAIN map : l # t[n].label => new[l] = map[l]
  BY DEF Define
<1>2. ASSUME NEW l, NEW k, IsLast(t, n, l, k), l # t[n].label
      PROVE  IsLast(t, n + 1, l, k) /\ k \in 1 .. n
  BY <1>2 DEF IsLast
<1>3. IsLast(t, n + 1, t[n].label, n)
  BY DEF IsLast
<1> HIDE DEF new
<1>4. \A k \in 1 .. n : t[k].op = "label" => t[k].label \in DOMAIN new
  BY <1>1 DEF Points
<1>5. ASSUME NEW l \in DOMAIN new
      PROVE  /\ new[l] \in DOMAIN here
             /\ \E k \in 1 .. n : IsLast(t, n + 1, l, k) /\ here[new[l]] = Before(t, k)
  <2>1. CASE l = t[n].label
    BY <1>1, <1>3, <2>1
  <2>2. CASE l # t[n].label
    <3>1. l \in DOMAIN map /\ new[l] = map[l]
      BY <1>1, <2>2
    <3>2. PICK k \in 1 .. n - 1 : IsLast(t, n, l, k) /\ here[map[l]] = Before(t, k)
      BY <3>1 DEF Points
    <3>3. IsLast(t, n + 1, l, k) /\ k \in 1 .. n
      BY <1>2, <2>2, <3>2
    <3>4. map[l] \in DOMAIN here
      BY <3>1 DEF Points
    <3> QED
      BY <3>1, <3>2, <3>3, <3>4
  <2> QED
    BY <2>1, <2>2
<1>6. n + 1 - 1 = n
  OBVIOUS
<1>7. Points(new, t, n + 1, here)
  BY <1>4, <1>5, <1>6 DEF Points
<1> QED
  BY <1>7 DEF new

\* Another block does not change what the entries stand for
LEMMA PointsExtend ==
  ASSUME NEW map, NEW t, NEW n \in Nat, NEW here, NEW more, Points(map, t, n, here),
         \A x \in DOMAIN here : x \in DOMAIN more /\ more[x] = here[x]
  PROVE  Points(map, t, n, more)
  BY DEF Points

\* Two maps of the same lines stand for the same addresses, and so does the 0
\* that operator[] gives for a label without an entry
LEMMA PointsAgree ==
  ASSUME NEW m1, NEW m2, NEW t, NEW n \in Nat, NEW at1, NEW at2,
         Points(m1, t, n, at1), Points(m2, t, n, at2),
         0 \in DOMAIN at1, 0 \in DOMAIN at2, at1[0] = at2[0], NEW l
  PROVE  /\ Lookup(m1, l) \in DOMAIN at1 /\ Lookup(m2, l) \in DOMAIN at2
         /\ at1[Lookup(m1, l)] = at2[Lookup(m2, l)]
<1>1. DOMAIN m1 \subseteq DOMAIN m2 /\ DOMAIN m2 \subseteq DOMAIN m1
  BY DEF Points, IsLast
<1>2. CASE l \in DOMAIN m1
  <2>1. PICK j : IsLast(t, n, l, j) /\ at1[m1[l]] = Before(t, j)
    BY <1>2 DEF Points
  <2>2. PICK k : IsLast(t, n, l, k) /\ at2[m2[l]] = Before(t, k)
    BY <1>1, <1>2 DEF Points
  <2>3. j = k
    BY <2>1, <2>2, OneLast
  <2> QED
    BY <1>1, <1>2, <2>1, <2>2, <2>3 DEF Lookup, Points
<1>3. CASE l \notin DOMAIN m1
  BY <1>1, <1>3 DEF Lookup
<1> QED
  BY <1>2, <1>3

\* At the end label_to_addr gives the addresses the program's meaning gives
LEMMA LabelAddress ==
  ASSUME NEW map, NEW t, Len(t) \in Nat, Points(map, t, Len(t) + 1, Itself), NEW l
  PROVE  Lookup(map, l) = ASM!AddressOf(t, l)
<1> DEFINE here == ASM!Definitions(t, l)
           last == CHOOSE k \in here : \A j \in here : j <= k
<1>1. here = { k \in 1 .. Len(t) : t[k].op = "label" /\ t[k].label = l }
  BY DEF ASM!Definitions
<1>2. ASM!AddressOf(t, l) = IF here = {} THEN 0 ELSE Before(t, last)
  BY DEF ASM!AddressOf, Before
<1>3. CASE l \notin DOMAIN map
  <2>1. here = {}
    <3>1. \A k \in 1 .. Len(t) : t[k].op = "label" => t[k].label \in DOMAIN map
      BY DEF Points
    <3> QED
      BY <1>1, <1>3, <3>1
  <2> QED
    BY <1>2, <1>3, <2>1 DEF Lookup
<1>4. CASE l \in DOMAIN map
  <2>1. PICK k \in 1 .. Len(t) : IsLast(t, Len(t) + 1, l, k) /\ Itself[map[l]] = Before(t, k)
    BY <1>4 DEF Points
  <2>2. map[l] \in Nat /\ Itself[map[l]] = map[l]
    BY <1>4 DEF Points, Itself
  <2>3. k \in here /\ \A j \in here : j <= k
    BY <1>1, <2>1 DEF IsLast
  <2>4. here \subseteq Nat
    BY <1>1
  <2> HIDE DEF here
  <2>5. last \in here /\ \A j \in here : j <= last
    BY <2>3
  <2>7. k \in Nat /\ last \in Nat
    BY <2>3, <2>4, <2>5
  <2>8. k <= last /\ last <= k
    BY <2>3, <2>5
  <2> HIDE DEF last
  <2>6. last = k
    BY <2>7, <2>8
  <2> QED
    BY <1>2, <1>4, <2>1, <2>2, <2>3, <2>6 DEF Lookup
<1> QED
  BY <1>3, <1>4

\* Finishing the block being built gives it the number it was known by
LEMMA StartsAppend ==
  ASSUME NEW C \in Seq(BlockType), NEW B, NEW next
  PROVE  /\ Len(Append(C, B)) = Len(C) + 1 /\ Len(C) \in Nat
         /\ \A x \in DOMAIN Starts(C, B.start_addr) :
              /\ x \in DOMAIN Starts(Append(C, B), next)
              /\ Starts(Append(C, B), next)[x] = Starts(C, B.start_addr)[x]
         /\ DOMAIN Starts(C, B.start_addr) = 0 .. Len(C)
         /\ Starts(Append(C, B), next)[Len(C) + 1] = next
         /\ Starts(C, B.start_addr)[Len(C)] = B.start_addr
<1>1. /\ Len(C) \in Nat /\ Len(Append(C, B)) = Len(C) + 1
      /\ \A b \in 1 .. Len(C) : Append(C, B)[b] = C[b]
      /\ Append(C, B)[Len(C) + 1] = B
  OBVIOUS
<1> HIDE DEF BlockType
<1>2. DOMAIN Starts(C, B.start_addr) = 0 .. Len(C)
      /\ DOMAIN Starts(Append(C, B), next) = 0 .. Len(C) + 1
  BY <1>1 DEF Starts
<1>3. ASSUME NEW x \in 0 .. Len(C)
      PROVE  Starts(Append(C, B), next)[x] = Starts(C, B.start_addr)[x]
  <2>1. CASE x = Len(C)
    <3>1. Starts(Append(C, B), next)[x] = Append(C, B)[x + 1].start_addr
      BY <1>1, <2>1 DEF Starts
    <3>2. Starts(C, B.start_addr)[x] = B.start_addr
      BY <1>1, <2>1 DEF Starts
    <3> QED
      BY <1>1, <2>1, <3>1, <3>2
  <2>2. CASE x < Len(C)
    <3>1. Starts(Append(C, B), next)[x] = Append(C, B)[x + 1].start_addr
      BY <1>1, <2>2 DEF Starts
    <3>2. Starts(C, B.start_addr)[x] = C[x + 1].start_addr
      BY <1>1, <2>2 DEF Starts
    <3>3. x + 1 \in 1 .. Len(C)
      BY <1>1, <2>2
    <3> QED
      BY <1>1, <3>3, <3>1, <3>2
  <2> QED
    BY <1>1, <2>1, <2>2
<1>4. Starts(Append(C, B), next)[Len(C) + 1] = next
  BY <1>1 DEF Starts
<1>5. Starts(C, B.start_addr)[Len(C)] = B.start_addr
  BY <1>1 DEF Starts
<1> QED
  BY <1>1, <1>2, <1>3, <1>4, <1>5
-----------------------------------------------------------------------------
(* The shape of a block *)

\* What a sequence holds
Elements(s) == { s[k] : k \in DOMAIN s }

NoLabel == ""
Locals == {"plain", "set", "access"}

\* Line k is the instruction at address a
LineAt(t, a, k) == k \in 1 .. Len(t) /\ t[k].op # "label" /\ Before(t, k) = a

\* The first m instructions of the fragment are those at start, start + 1, ...
Body(t, start, f, m) ==
  \A a \in 1 .. m : /\ f[a].op \in Locals /\ f[a].dst = "GR"
                    /\ \E k : LineAt(t, start + a - 1, k) /\ t[k].op = f[a].op

\* The block runs into a label
RunsInto(start, f, branch, m, next) ==
  /\ Len(f) = m + 1 /\ f[m + 1] = Imm("PC", start + m)
  /\ branch = NoLabel /\ next = start + m

\* A jump or HALT
JumpsTo(t, addrs, start, f, branch, m) ==
  \E k : /\ LineAt(t, start + m, k) /\ t[k].op \in {"J", "HALT"}
         /\ branch = (IF t[k].op = "J" THEN t[k].label ELSE ASM!NoopLabel) /\ branch # NoLabel
         /\ Len(f) = m + 1 /\ f[m + 1] = Imm("PC", Lookup(addrs, branch))

\* A conditional jump
Selects(t, addrs, start, f, branch, m, next) ==
  \E k : /\ LineAt(t, start + m, k) /\ t[k].op \in ASM!Conditional
         /\ branch = t[k].label /\ branch # NoLabel
         /\ Len(f) = m + 5 /\ next = start + m + 1
         /\ \A j \in 1 .. 5 : f[m + j] = SelectPC(t[k].op, next, Lookup(addrs, branch))[j]

\* The NOOP that OpenAs appends
Idles(t, start, f, branch, m) ==
  /\ m = 0 /\ f = <<Inst("NOOP", "GR", 0)>>
  /\ branch = ASM!NoopLabel /\ start = Before(t, Len(t))

\* A finished block: instructions of the program, and one way to end; next is
\* the address at which the block that follows it starts
Shape(t, addrs, start, f, branch, next) ==
  \E m \in Nat : /\ Body(t, start, f, m)
                 /\ \/ RunsInto(start, f, branch, m, next)
                    \/ JumpsTo(t, addrs, start, f, branch, m)
                    \/ Selects(t, addrs, start, f, branch, m, next)
                    \/ Idles(t, start, f, branch, m)

\* The next block is a successor
Falls(f, branch) == branch = NoLabel \/ f[Len(f)].op = "XOR"

\* Instructions that may end a block
NoAccess(insts) == insts \in Seq(InstType) /\ \A j \in 1 .. Len(insts) : insts[j].op # "access"

LEMMA BodyConcat ==
  ASSUME NEW t, NEW start, NEW f \in Seq(InstType), NEW g \in Seq(InstType),
         Body(t, start, f, Len(f))
  PROVE  Body(t, start, f \o g, Len(f))
<1>1. \A a \in 1 .. Len(f) : (f \o g)[a] = f[a]
  BY ConcatProperties
<1> QED
  BY <1>1 DEF Body

\* The accesses of a fragment: LOAD and STORE
AccessesIn(f) == { k \in DOMAIN f : f[k].op = "access" }

LEMMA AccessesFinite ==
  ASSUME NEW f \in Seq(InstType)
  PROVE  /\ IsFiniteSet(AccessesIn(f)) /\ Cardinality(AccessesIn(f)) \in Nat
         /\ AccessesIn(f) = { k \in 1 .. Len(f) : f[k].op = "access" }
<1>1. DOMAIN f = 1 .. Len(f) /\ Len(f) \in Nat
  BY LenProperties
<1>2. IsFiniteSet(1 .. Len(f)) /\ AccessesIn(f) \subseteq 1 .. Len(f)
  BY <1>1, FS_Interval DEF AccessesIn
<1>3. IsFiniteSet(AccessesIn(f))
  BY <1>2, FS_Subset
<1> QED
  BY <1>1, <1>3, FS_CardinalityType DEF AccessesIn

LEMMA AccessesConcat ==
  ASSUME NEW f \in Seq(InstType), NEW g, NoAccess(g)
  PROVE  Cardinality(AccessesIn(f \o g)) = Cardinality(AccessesIn(f))
<1>1. g \in Seq(InstType) /\ \A j \in 1 .. Len(g) : g[j].op # "access"
  BY DEF NoAccess
<1>2. /\ f \o g \in Seq(InstType) /\ Len(f \o g) = Len(f) + Len(g)
      /\ Len(f) \in Nat /\ Len(g) \in Nat
      /\ \A a \in 1 .. Len(f) + Len(g) :
           (f \o g)[a] = IF a <= Len(f) THEN f[a] ELSE g[a - Len(f)]
  BY <1>1, ConcatProperties, LenProperties
<1>3. AccessesIn(f \o g) = { k \in 1 .. Len(f) + Len(g) : (f \o g)[k].op = "access" }
  BY <1>2, AccessesFinite
<1>4. AccessesIn(f) = { k \in 1 .. Len(f) : f[k].op = "access" }
  BY AccessesFinite
<1> DEFINE h == f \o g
<1>6. /\ \A a \in 1 .. Len(f) + Len(g) : h[a] = IF a <= Len(f) THEN f[a] ELSE g[a - Len(f)]
      /\ AccessesIn(h) = { k \in 1 .. Len(f) + Len(g) : h[k].op = "access" }
  BY <1>2, <1>3
<1> HIDE DEF h
<1>5. AccessesIn(h) = AccessesIn(f)
  <2>1. ASSUME NEW k \in AccessesIn(h) PROVE k \in AccessesIn(f)
    <3>1. k \in 1 .. Len(f) + Len(g) /\ h[k].op = "access"
      BY <1>6
    <3>2. CASE k <= Len(f)
      BY <1>2, <1>4, <1>6, <3>1, <3>2
    <3>3. CASE k > Len(f)
      <4>1. h[k] = g[k - Len(f)] /\ k - Len(f) \in 1 .. Len(g)
        BY <1>2, <1>6, <3>1, <3>3
      <4> QED
        BY <1>1, <3>1, <4>1
    <3> QED
      BY <1>2, <3>1, <3>2, <3>3
  <2>2. ASSUME NEW k \in AccessesIn(f) PROVE k \in AccessesIn(h)
    <3>1. k \in 1 .. Len(f) /\ f[k].op = "access"
      BY <1>4
    <3>2. k \in 1 .. Len(f) + Len(g) /\ h[k] = f[k]
      BY <1>2, <1>6, <3>1
    <3> QED
      BY <1>6, <3>1, <3>2
  <2> QED
    BY <2>1, <2>2
<1> QED
  BY <1>5 DEF h

LEMMA AccessesAppend ==
  ASSUME NEW f \in Seq(InstType), NEW inst \in InstType
  PROVE  Cardinality(AccessesIn(Append(f, inst)))
           = IF inst.op = "access" THEN Cardinality(AccessesIn(f)) + 1
             ELSE Cardinality(AccessesIn(f))
<1>1. /\ Append(f, inst) \in Seq(InstType) /\ Len(Append(f, inst)) = Len(f) + 1
      /\ Len(f) \in Nat /\ Append(f, inst)[Len(f) + 1] = inst
      /\ \A a \in 1 .. Len(f) : Append(f, inst)[a] = f[a]
  BY AppendProperties, LenProperties
<1>2. AccessesIn(Append(f, inst))
        = { k \in 1 .. Len(f) + 1 : Append(f, inst)[k].op = "access" }
  BY <1>1, AccessesFinite
<1> DEFINE h == Append(f, inst)
<1>3. /\ \A a \in 1 .. Len(f) : h[a] = f[a]
      /\ h[Len(f) + 1] = inst
      /\ AccessesIn(h) = { k \in 1 .. Len(f) + 1 : h[k].op = "access" }
      /\ AccessesIn(f) = { k \in 1 .. Len(f) : f[k].op = "access" }
  BY <1>1, <1>2, AccessesFinite
<1> HIDE DEF h
<1>4. CASE inst.op = "access"
  <2>1. AccessesIn(h) = AccessesIn(f) \cup {Len(f) + 1} /\ Len(f) + 1 \notin AccessesIn(f)
    BY <1>1, <1>3, <1>4
  <2>2. Cardinality(AccessesIn(h)) = Cardinality(AccessesIn(f)) + 1
    BY <2>1, AccessesFinite, FS_AddElement
  <2> QED
    BY <1>4, <2>2 DEF h
<1>5. CASE inst.op # "access"
  <2>1. AccessesIn(h) = AccessesIn(f)
    BY <1>1, <1>3, <1>5
  <2> QED
    BY <1>5, <2>1 DEF h
<1> QED
  BY <1>4, <1>5
-----------------------------------------------------------------------------
(* The four ways to end a block *)

\* One more instruction
LEMMA OneMore ==
  ASSUME NEW f \in Seq(InstType), NEW x \in InstType
  PROVE  /\ <<x>> \in Seq(InstType)
         /\ x.op # "access" => NoAccess(<<x>>)
         /\ Len(f \o <<x>>) = Len(f) + 1 /\ (f \o <<x>>)[Len(f) + 1] = x
<1>1. <<x>> \in Seq(InstType)
  OBVIOUS
<1>2. Len(<<x>>) = 1 /\ <<x>>[1] = x
  OBVIOUS
<1>3. x.op # "access" => NoAccess(<<x>>)
  <2> DEFINE g == <<x>>
  <2>1. g \in Seq(InstType) /\ Len(g) = 1 /\ g[1] = x
    BY <1>1, <1>2
  <2> HIDE DEF g
  <2>2. x.op # "access" => NoAccess(g)
    BY <2>1 DEF NoAccess
  <2> QED
    BY <2>2 DEF g
<1>4. Len(f \o <<x>>) = Len(f) + 1 /\ (f \o <<x>>)[Len(f) + 1] = x
  <2> DEFINE g == <<x>>
  <2>1. g \in Seq(InstType) /\ Len(g) = 1 /\ g[1] = x /\ Len(f) \in Nat
    BY <1>1, <1>2, LenProperties
  <2> HIDE DEF g
  <2>2. /\ Len(f \o g) = Len(f) + Len(g)
        /\ \A a \in 1 .. Len(f) + Len(g) :
             (f \o g)[a] = IF a <= Len(f) THEN f[a] ELSE g[a - Len(f)]
    BY <2>1, ConcatProperties
  <2> DEFINE h == f \o g
  <2>4. /\ Len(h) = Len(f) + Len(g)
        /\ \A a \in 1 .. Len(f) + Len(g) : h[a] = IF a <= Len(f) THEN f[a] ELSE g[a - Len(f)]
    BY <2>2
  <2> HIDE DEF h
  <2>3. Len(h) = Len(f) + 1 /\ h[Len(f) + 1] = x
    BY <2>1, <2>4
  <2> QED
    BY <2>3 DEF g, h
<1> QED
  BY <1>1, <1>3, <1>4

LEMMA ShapeOfRunInto ==
  ASSUME NEW t, NEW addrs, NEW start \in Nat, NEW f \in Seq(InstType),
         Body(t, start, f, Len(f))
  PROVE  LET g == Append(f, Imm("PC", start + Len(f)))
         IN  /\ Shape(t, addrs, start, g, NoLabel, start + Len(f)) /\ Falls(g, NoLabel)
             /\ Cardinality(AccessesIn(g)) = Cardinality(AccessesIn(f))
<1> DEFINE x == Imm("PC", start + Len(f))
           g == Append(f, x)
<1>1. Len(f) \in Nat /\ x \in InstType /\ x.op = "IMM"
  BY LenProperties DEF Imm, Inst, InstType
<1>2. Len(g) = Len(f) + 1 /\ g[Len(f) + 1] = x /\ \A a \in 1 .. Len(f) : g[a] = f[a]
  BY <1>1, AppendProperties
<1>3. Cardinality(AccessesIn(g)) = Cardinality(AccessesIn(f))
  BY <1>1, AccessesAppend
<1> HIDE DEF g
<1>4. Body(t, start, g, Len(f))
  BY <1>2 DEF Body
<1>5. RunsInto(start, g, NoLabel, Len(f), start + Len(f))
  BY <1>2 DEF RunsInto
<1>6. Shape(t, addrs, start, g, NoLabel, start + Len(f))
  BY <1>1, <1>4, <1>5 DEF Shape
<1> QED
  BY <1>3, <1>6 DEF g, Falls

LEMMA ShapeOfJump ==
  ASSUME NEW t, NEW addrs, NEW start \in Nat, NEW f \in Seq(InstType), NEW k, NEW next,
         NEW branch, Body(t, start, f, Len(f)), LineAt(t, start + Len(f), k),
         t[k].op \in {"J", "HALT"}, Lookup(addrs, branch) \in Nat,
         branch = (IF t[k].op = "J" THEN t[k].label ELSE ASM!NoopLabel), branch # NoLabel
  PROVE  LET insts == <<Imm("PC", Lookup(addrs, branch))>>
             g == f \o insts
         IN  /\ Shape(t, addrs, start, g, branch, next) /\ ~ Falls(g, branch)
             /\ NoAccess(insts)
<1> DEFINE x == Imm("PC", Lookup(addrs, branch))
           insts == <<x>>
           g == f \o insts
<1>1. Len(f) \in Nat /\ x \in InstType /\ x.op = "IMM"
  BY LenProperties DEF Imm, Inst, InstType
<1> HIDE DEF x
<1>2. insts \in Seq(InstType)
  BY <1>1, OneMore
<1>3. NoAccess(insts)
  BY <1>1, OneMore
<1>4. Body(t, start, g, Len(f))
  BY <1>2, BodyConcat
<1>5. Len(g) = Len(f) + 1 /\ g[Len(f) + 1] = x
  BY <1>1, OneMore
<1> HIDE DEF g
<1>6. JumpsTo(t, addrs, start, g, branch, Len(f))
  BY <1>5 DEF JumpsTo, x
<1>7. Shape(t, addrs, start, g, branch, next)
  BY <1>1, <1>4, <1>6 DEF Shape
<1>8. ~ Falls(g, branch)
  BY <1>1, <1>5 DEF Falls
<1> QED
  BY <1>3, <1>7, <1>8 DEF g, insts, x

LEMMA ShapeOfSelect ==
  ASSUME NEW t, NEW addrs, NEW start \in Nat, NEW f \in Seq(InstType), NEW k,
         Body(t, start, f, Len(f)), LineAt(t, start + Len(f), k),
         t[k].op \in ASM!Conditional, Lookup(addrs, t[k].label) \in Nat, t[k].label # NoLabel
  PROVE  LET next == start + Len(f) + 1
             insts == SelectPC(t[k].op, next, Lookup(addrs, t[k].label))
             g == f \o insts
         IN  /\ Shape(t, addrs, start, g, t[k].label, next) /\ Falls(g, t[k].label)
             /\ NoAccess(insts)
<1> DEFINE next == start + Len(f) + 1
           insts == SelectPC(t[k].op, next, Lookup(addrs, t[k].label))
           g == f \o insts
<1>11. Len(f) \in Nat
  BY LenProperties
<1>1. next \in Nat
  BY <1>11
<1>2. insts \in Seq(InstType)
  BY <1>1, SelectPCType
<1>3. Len(insts) = 5 /\ insts[5] = Inst("XOR", "PC", 0)
  BY DEF SelectPC
<1>4. NoAccess(insts)
  <2>1. \A j \in 1 .. 5 : insts[j].op # "access"
    <3>1. Masks(t[k].op)[1] # "access" /\ Masks(t[k].op)[2] # "access"
      BY DEF Masks, ASM!Conditional
    <3>2. /\ insts[1] = Imm("SP0", next)
          /\ insts[2] = Imm("SP1", Lookup(addrs, t[k].label))
          /\ insts[3] = Inst(Masks(t[k].op)[1], "SP0", 0)
          /\ insts[4] = Inst(Masks(t[k].op)[2], "SP1", 0)
      BY DEF SelectPC
    <3> HIDE DEF insts
    <3>3. /\ insts[1].op # "access" /\ insts[2].op # "access" /\ insts[3].op # "access"
          /\ insts[4].op # "access" /\ insts[5].op # "access"
      BY <1>3, <3>1, <3>2 DEF Imm, Inst
    <3>4. \A j \in 1 .. 5 : j = 1 \/ j = 2 \/ j = 3 \/ j = 4 \/ j = 5
      OBVIOUS
    <3> QED
      BY <3>3, <3>4
  <2> HIDE DEF insts
  <2> QED
    BY <1>2, <1>3, <2>1 DEF NoAccess
<1>5. Body(t, start, g, Len(f))
  BY <1>2, BodyConcat
<1> HIDE DEF insts, next
<1>6. Len(g) = Len(f) + 5 /\ \A j \in 1 .. 5 : g[Len(f) + j] = insts[j]
  <2>1. /\ Len(g) = Len(f) + Len(insts)
        /\ \A a \in 1 .. Len(f) + Len(insts) :
             g[a] = IF a <= Len(f) THEN f[a] ELSE insts[a - Len(f)]
    BY <1>2, ConcatProperties
  <2> HIDE DEF g
  <2>2. Len(g) = Len(f) + 5
    BY <1>3, <2>1
  <2>3. ASSUME NEW j \in 1 .. 5
        PROVE  g[Len(f) + j] = insts[j]
    <3>1. Len(f) + j \in 1 .. Len(f) + Len(insts) /\ ~ (Len(f) + j <= Len(f))
      BY <1>11, <1>3
    <3>2. g[Len(f) + j] = insts[(Len(f) + j) - Len(f)]
      BY <2>1, <3>1
    <3>3. (Len(f) + j) - Len(f) = j
      BY <1>11
    <3> QED
      BY <3>2, <3>3
  <2> QED
    BY <2>2, <2>3
<1> HIDE DEF g
<1>7. Selects(t, addrs, start, g, t[k].label, Len(f), next)
  BY <1>6 DEF Selects, insts, next
<1>8. Shape(t, addrs, start, g, t[k].label, next)
  BY <1>11, <1>5, <1>7 DEF Shape
<1>9. Falls(g, t[k].label)
  <2>1. g[Len(g)] = Inst("XOR", "PC", 0)
    BY <1>3, <1>6
  <2> QED
    BY <2>1 DEF Falls, Inst
<1> QED
  BY <1>4, <1>8, <1>9 DEF g, insts, next

LEMMA ShapeOfIdle ==
  ASSUME NEW t, NEW addrs, NEW start \in Nat, NEW f, f = <<>>, NEW next,
         start = Before(t, Len(t))
  PROVE  LET insts == <<Inst("NOOP", "GR", 0)>>
             g == f \o insts
         IN  /\ Shape(t, addrs, start, g, ASM!NoopLabel, next) /\ ~ Falls(g, ASM!NoopLabel)
             /\ NoAccess(insts)
<1> DEFINE x == Inst("NOOP", "GR", 0)
           insts == <<x>>
           g == f \o insts
<1>1. x \in InstType /\ x.op = "NOOP"
  BY DEF Inst, InstType
<1> HIDE DEF x
<1>2. NoAccess(insts)
  BY <1>1, OneMore, EmptySeq
<1>3. g = <<x>> /\ Len(g) = 1 /\ g[1] = x
  OBVIOUS
<1> HIDE DEF g
<1>4. Idles(t, start, g, ASM!NoopLabel, 0)
  BY <1>3 DEF Idles, x
<1>5. Body(t, start, g, 0)
  BY DEF Body
<1>6. Shape(t, addrs, start, g, ASM!NoopLabel, next)
  BY <1>4, <1>5 DEF Shape
<1>7. ~ Falls(g, ASM!NoopLabel)
  <2>1. ASM!NoopLabel # NoLabel
    BY DEF ASM!NoopLabel, NoLabel
  <2> QED
    BY <1>1, <1>3, <2>1 DEF Falls
<1> QED
  BY <1>2, <1>6, <1>7 DEF g, x
-----------------------------------------------------------------------------
(* The invariant of GenerateCFG *)

ProgramInv ==
  /\ Len(text) >= 2
  /\ \A k \in 1 .. Len(text) - 2 : text[k] \in ASM!UserLine
  /\ text[Len(text) - 1].op = "label" /\ text[Len(text) - 1].label = ASM!NoopLabel
  /\ text[Len(text)].op = "NOOP"

\* Both passes count the instructions, and the second one reads every line
CountInv ==
  /\ pass \in {"addresses", "blocks"} => ctr = Before(text, i)
  /\ pass \notin {"addresses", "blocks"} => i = Len(text) + 1

LabelsInv ==
  /\ Points(label_to_addr, text, IF pass = "addresses" THEN i ELSE Len(text) + 1, Itself)
  /\ Points(label_to_bbid, text, IF pass = "addresses" THEN 1 ELSE i,
            Starts(CFG, bb.start_addr))
  /\ Starts(CFG, bb.start_addr)[0] = 0

\* The block being built has the instructions since its start
OpenBody(t, B, reached) ==
  /\ Elements(B.next_BB) = {} /\ B.branch_BB = NoLabel
  /\ B.acc_cnt = Cardinality(AccessesIn(B.fragment))
  /\ B.start_addr + Len(B.fragment) = reached
  /\ Body(t, B.start_addr, B.fragment, Len(B.fragment))

OpenBodyInv == pass = "blocks" =>
  /\ OpenBody(text, bb, ctr)
  /\ i > 1 /\ text[i - 1].op = "label" => bb.fragment = <<>>

FinishedBlock(t, addrs, B, next) ==
  /\ Shape(t, addrs, B.start_addr, B.fragment, B.branch_BB, next)
  /\ B.acc_cnt = Cardinality(AccessesIn(B.fragment))

AllFinished(t, addrs, C, open) ==
  \A b \in 1 .. Len(C) : FinishedBlock(t, addrs, C[b], Starts(C, open)[b])

FinishedInv == AllFinished(text, label_to_addr, CFG, bb.start_addr)

\* What next_BB holds: the block that follows, and the branch once it is resolved
Successors(B, b, resolved, map) ==
  { x \in {b, Lookup(map, B.branch_BB)} :
      \/ x = b /\ Falls(B.fragment, B.branch_BB)
      \/ x = Lookup(map, B.branch_BB) /\ resolved /\ B.branch_BB # NoLabel }

AllSuccessors(C, resolved, map) ==
  \A b \in 1 .. Len(C) : Elements(C[b].next_BB) = Successors(C[b], b, resolved, map)

Resolved == pass \in {"path", "run"}

\* The block being built when the last line is read is never finished: nothing
\* falls through to it, and no label is bound to it
Closed(C, map) ==
  /\ Len(C) > 0 /\ ~ Falls(C[Len(C)].fragment, C[Len(C)].branch_BB)
  /\ \A l \in DOMAIN map : map[l] < Len(C)

ClosedInv ==
  pass # "addresses" /\ i > 1 /\ text[i - 1].op = "NOOP" => Closed(CFG, label_to_bbid)

SuccessorsInv ==
  /\ pass = "blocks" => AllSuccessors(CFG, FALSE, << >>)
  /\ pass = "resolve" => AllSuccessors(CFG, FALSE, << >>)
  /\ Resolved => AllSuccessors(CFG, TRUE, label_to_bbid)

GraphInv == /\ StartsInv /\ ProgramInv /\ CountInv /\ LabelsInv /\ OpenBodyInv
            /\ FinishedInv /\ ClosedInv /\ SuccessorsInv

LEMMA ElementsAppend ==
  ASSUME NEW s \in Seq(Nat), NEW x
  PROVE  Elements(Append(s, x)) = Elements(s) \cup {x} /\ Elements(<<>>) = {}
<1>1. /\ Len(s) \in Nat /\ DOMAIN s = 1 .. Len(s)
      /\ DOMAIN Append(s, x) = 1 .. Len(s) + 1
      /\ Append(s, x)[Len(s) + 1] = x
      /\ \A k \in 1 .. Len(s) : Append(s, x)[k] = s[k]
  OBVIOUS
<1>2. Elements(<<>>) = {}
  BY DEF Elements
<1> DEFINE h == Append(s, x)
<1>3. /\ DOMAIN h = 1 .. Len(s) + 1 /\ h[Len(s) + 1] = x
      /\ \A k \in 1 .. Len(s) : h[k] = s[k]
  BY <1>1
<1> HIDE DEF h
<1>4. Elements(h) = Elements(s) \cup {x}
  BY <1>1, <1>3 DEF Elements
<1> QED
  BY <1>2, <1>4 DEF h

\* Without resolved branches the map does not matter
LEMMA SuccessorsOpen ==
  ASSUME NEW B, NEW b, NEW map
  PROVE  Successors(B, b, FALSE, map) = IF Falls(B.fragment, B.branch_BB) THEN {b} ELSE {}
  BY DEF Successors

LEMMA SuccessorsResolved ==
  ASSUME NEW B, NEW b, NEW map
  PROVE  Successors(B, b, TRUE, map)
           = IF B.branch_BB # NoLabel THEN Successors(B, b, FALSE, << >>) \cup {Lookup(map, B.branch_BB)}
             ELSE Successors(B, b, FALSE, << >>)
  BY DEF Successors

\* A finished block is pushed
LEMMA AppendFinished ==
  ASSUME NEW t, NEW addrs, NEW C \in Seq(BlockType), NEW B, NEW next,
         AllFinished(t, addrs, C, B.start_addr), FinishedBlock(t, addrs, B, next)
  PROVE  AllFinished(t, addrs, Append(C, B), next)
<1> DEFINE D == Append(C, B)
<1>1. /\ Len(C) \in Nat /\ Len(D) = Len(C) + 1 /\ D[Len(C) + 1] = B
      /\ \A b \in 1 .. Len(C) : D[b] = C[b]
  OBVIOUS
<1>2. /\ \A x \in 0 .. Len(C) : Starts(D, next)[x] = Starts(C, B.start_addr)[x]
      /\ Starts(D, next)[Len(C) + 1] = next
  BY StartsAppend
<1> HIDE DEF D
<1>3. ASSUME NEW b \in 1 .. Len(D) PROVE FinishedBlock(t, addrs, D[b], Starts(D, next)[b])
  <2>1. CASE b \in 1 .. Len(C)
    <3>1. FinishedBlock(t, addrs, C[b], Starts(C, B.start_addr)[b])
      BY <2>1 DEF AllFinished
    <3>2. D[b] = C[b] /\ Starts(D, next)[b] = Starts(C, B.start_addr)[b]
      BY <1>1, <1>2, <2>1
    <3> QED
      BY <3>1, <3>2
  <2>2. CASE b = Len(C) + 1
    BY <1>1, <1>2, <2>2
  <2> QED
    BY <1>1, <2>1, <2>2
<1>4. AllFinished(t, addrs, D, next)
  BY <1>3 DEF AllFinished
<1> QED
  BY <1>4 DEF D

LEMMA AppendSuccessors ==
  ASSUME NEW C \in Seq(BlockType), NEW B, AllSuccessors(C, FALSE, << >>),
         Elements(B.next_BB)
           = IF Falls(B.fragment, B.branch_BB) THEN {Len(C) + 1} ELSE {}
  PROVE  AllSuccessors(Append(C, B), FALSE, << >>)
<1> DEFINE D == Append(C, B)
<1>1. /\ Len(C) \in Nat /\ Len(D) = Len(C) + 1 /\ D[Len(C) + 1] = B
      /\ \A b \in 1 .. Len(C) : D[b] = C[b]
  OBVIOUS
<1> HIDE DEF D
<1>2. ASSUME NEW b \in 1 .. Len(D)
      PROVE  Elements(D[b].next_BB) = Successors(D[b], b, FALSE, << >>)
  <2>1. CASE b \in 1 .. Len(C)
    <3>1. D[b] = C[b]
      BY <1>1, <2>1
    <3>2. Elements(C[b].next_BB) = Successors(C[b], b, FALSE, << >>)
      BY <2>1 DEF AllSuccessors
    <3> QED
      BY <3>1, <3>2, Zenon
  <2>2. CASE b = Len(C) + 1
    <3>1. D[b] = B
      BY <1>1, <2>2
    <3>2. Successors(B, b, FALSE, << >>) = IF Falls(B.fragment, B.branch_BB) THEN {b} ELSE {}
      BY SuccessorsOpen
    <3>3. Successors(B, b, FALSE, << >>) = Elements(B.next_BB)
      BY <2>2, <3>2
    <3> QED
      BY <3>1, <3>3, Zenon
  <2>3. b \in 1 .. Len(C) \/ b = Len(C) + 1
    BY <1>1
  <2> QED
    BY <2>1, <2>2, <2>3, Zenon
<1>3. AllSuccessors(D, FALSE, << >>)
  BY <1>2 DEF AllSuccessors
<1> QED
  BY <1>3 DEF D

\* A jump has a label to jump to, and NOOP is the last line only
LEMMA LineKinds ==
  ASSUME TextInv, ProgramInv, NEW k \in 1 .. Len(text)
  PROVE  /\ text[k].op \in ASM!Jumps => text[k].label # NoLabel
         /\ text[k].op = "NOOP" <=> k = Len(text)
<1>1. Len(text) \in Nat /\ Len(text) >= 2
  BY LenProperties DEF TextInv, ProgramInv
<1>2. CASE k \in 1 .. Len(text) - 2
  <2>1. text[k] \in ASM!UserLine
    BY <1>2 DEF ProgramInv
  <2>2. text[k].op # "NOOP"
    BY <2>1, Zenon DEF ASM!UserLine
  <2>3. text[k].op \in ASM!Jumps => text[k].label # NoLabel
    BY <2>1, Zenon DEF ASM!UserLine, NoLabel
  <2> QED
    BY <1>1, <1>2, <2>2, <2>3
<1>3. CASE k = Len(text) - 1
  BY <1>1, <1>3 DEF ProgramInv, ASM!Jumps, ASM!Conditional
<1>4. CASE k = Len(text)
  BY <1>1, <1>4 DEF ProgramInv, ASM!Jumps, ASM!Conditional
<1> QED
  BY <1>1, <1>2, <1>3, <1>4
-----------------------------------------------------------------------------
\* No line read, no label
LEMMA PointsNone ==
  ASSUME NEW t, NEW here
  PROVE  Points(<< >>, t, 1, here)
  BY DEF Points

LEMMA StartsNone ==
  ASSUME NEW open
  PROVE  Starts(<< >>, open)[0] = open
  BY DEF Starts

\* A block just begun
LEMMA OpenEmpty ==
  ASSUME NEW t, NEW n \in Nat
  PROVE  OpenBody(t, EmptyBlock(n), n)
<1> DEFINE B == EmptyBlock(n)
<1>1. /\ B.start_addr = n /\ B.fragment = <<>> /\ B.acc_cnt = 0
      /\ B.next_BB = <<>> /\ B.branch_BB = NoLabel
  BY Zenon DEF EmptyBlock, NoLabel
<1> HIDE DEF B
<1>2. Elements(<<>>) = {} /\ AccessesIn(<<>>) = {}
  BY DEF Elements, AccessesIn
<1>3. Cardinality(AccessesIn(B.fragment)) = 0
  BY <1>1, <1>2, FS_EmptySet
<1>4. Len(B.fragment) = 0
  BY <1>1, EmptySeq
<1>5. Body(t, B.start_addr, B.fragment, Len(B.fragment))
  BY <1>4 DEF Body
<1>6. Elements(B.next_BB) = {}
  BY <1>1, <1>2, Zenon
<1>7. OpenBody(t, B, n)
  BY <1>1, <1>3, <1>4, <1>5, <1>6 DEF OpenBody
<1> QED
  BY <1>7 DEF B

\* OpenAs appends two lines
LEMMA ProgramLines ==
  ASSUME NEW user \in Seq(ASM!UserLine), text = ASM!OpenAs(user)
  PROVE  ProgramInv /\ Len(text) = Len(user) + 2 /\ \A k \in 1 .. Len(user) : text[k] = user[k]
<1> DEFINE x == [op |-> "label", label |-> ASM!NoopLabel]
           y == [op |-> "NOOP", label |-> ""]
           last == <<x, y>>
<1>1. /\ x.op = "label" /\ x.label = ASM!NoopLabel /\ y.op = "NOOP"
      /\ x \in ASM!Line /\ y \in ASM!Line
  BY DEF ASM!Line
<1> HIDE DEF x, y
<1>2. Len(last) = 2 /\ last[1] = x /\ last[2] = y /\ last \in Seq(ASM!Line)
  BY <1>1
<1> HIDE DEF last
<1>3. user \in Seq(ASM!Line) /\ Len(user) \in Nat
  <2>1. ASM!UserLine \subseteq ASM!Line
    BY DEF ASM!UserLine
  <2> QED
    BY <2>1, SeqMonotonic, ElementOfSeq, LenProperties
<1>4. text = user \o last
  BY DEF ASM!OpenAs, last, x, y
<1> DEFINE all == user \o last
<1>12. /\ Len(all) = Len(user) + Len(last)
       /\ \A a \in 1 .. Len(user) + Len(last) :
            all[a] = IF a <= Len(user) THEN user[a] ELSE last[a - Len(user)]
  BY <1>2, <1>3, ConcatProperties
<1>13. text = all
  BY <1>4
<1> HIDE DEF all
<1>5. /\ Len(text) = Len(user) + Len(last)
      /\ \A a \in 1 .. Len(user) + Len(last) :
           text[a] = IF a <= Len(user) THEN user[a] ELSE last[a - Len(user)]
  BY <1>12, <1>13
<1>6. Len(text) = Len(user) + 2
  BY <1>2, <1>5
<1>7. \A k \in 1 .. Len(user) : text[k] = user[k]
  BY <1>2, <1>3, <1>5
<1>8. \A k \in 1 .. Len(user) : user[k] \in ASM!UserLine
  BY <1>3, ElementOfSeq
<1>9. text[Len(user) + 1] = x /\ text[Len(user) + 2] = y
  BY <1>2, <1>3, <1>5
<1>10. /\ Len(text) >= 2 /\ Len(text) - 2 = Len(user)
       /\ Len(text) - 1 = Len(user) + 1
  BY <1>3, <1>6
<1>11. ProgramInv
  BY <1>1, <1>6, <1>7, <1>8, <1>9, <1>10 DEF ProgramInv
<1> QED
  BY <1>6, <1>7, <1>11

LEMMA GraphInit == CfgInit => GraphInv
<1> SUFFICES ASSUME CfgInit PROVE GraphInv
  OBVIOUS
<1>1. PICK user \in Texts : text = ASM!OpenAs(user)
  BY DEF CfgInit
<1>2. user \in Seq(ASM!UserLine)
  BY TextsAssumption
<1>3. ProgramInv
  BY <1>1, <1>2, ProgramLines
<1>4. /\ pass = "addresses" /\ i = 1 /\ ctr = 0
      /\ label_to_addr = << >> /\ label_to_bbid = << >>
      /\ bb = EmptyBlock(0) /\ CFG = <<>>
  BY DEF CfgInit
<1>5. bb.start_addr = 0
  BY <1>4, EmptyBlockType
<1>6. CountInv
  BY <1>4, BeforeNext DEF CountInv
<1>7. Points(label_to_addr, text, 1, Itself)
  BY <1>4, PointsNone, Zenon
<1>8. Points(label_to_bbid, text, 1, Starts(CFG, bb.start_addr))
  BY <1>4, PointsNone, Zenon
<1>9. Starts(CFG, bb.start_addr)[0] = 0
  BY <1>4, <1>5, StartsNone, Zenon
<1>10. LabelsInv
  BY <1>4, <1>7, <1>8, <1>9 DEF LabelsInv
<1>11. FinishedInv
  BY <1>4, EmptySeq DEF FinishedInv, AllFinished
<1>12. OpenBodyInv /\ ClosedInv /\ SuccessorsInv
  BY <1>4 DEF OpenBodyInv, ClosedInv, SuccessorsInv, Resolved
<1> QED
  BY <1>3, <1>6, <1>10, <1>11, <1>12, StartsInit DEF GraphInv

\* The first pass
LEMMA GraphAddressPass ==
  ASSUME GraphInv, AddressPass
  PROVE  GraphInv'
<1>1. /\ pass = "addresses" /\ i <= Len(text) /\ i' = i + 1
      /\ UNCHANGED <<text, pass, label_to_bbid, bb, CFG>>
  BY DEF AddressPass, At, pathVars
<1>2. StartsInv /\ StartsInv'
  BY StartsStep DEF GraphInv, GenerateCFG
<1>3. i \in Nat \ {0} /\ ctr \in Nat
  BY <1>2 DEF StartsInv, TextInv, AddressInv
<1>4. ctr = Before(text, i)
  BY <1>1 DEF GraphInv, CountInv
<1>5. Points(label_to_addr, text, i, Itself)
  BY <1>1 DEF GraphInv, LabelsInv
<1>6. ctr' = Before(text, i + 1) /\ Points(label_to_addr', text, i + 1, Itself)
  <2>1. CASE ln.op = "label"
    <3>1. label_to_addr' = Define(label_to_addr, text[i].label, ctr) /\ ctr' = ctr
      BY <2>1 DEF AddressPass, ln
    <3>2. ctr \in DOMAIN Itself /\ Itself[ctr] = ctr
      BY <1>3 DEF Itself
    <3>3. Points(Define(label_to_addr, text[i].label, ctr), text, i + 1, Itself)
      BY <1>3, <1>4, <1>5, <2>1, <3>2, PointsDefine DEF ln
    <3>4. Before(text, i + 1) = Before(text, i)
      BY <1>3, <2>1, BeforeNext DEF ln
    <3> QED
      BY <1>4, <3>1, <3>3, <3>4
  <2>2. CASE ln.op # "label"
    <3>1. label_to_addr' = label_to_addr /\ ctr' = ctr + 1
      BY <2>2 DEF AddressPass, ln
    <3>3. Points(label_to_addr, text, i + 1, Itself)
      BY <1>3, <1>5, <2>2, PointsOver DEF ln
    <3>4. Before(text, i + 1) = Before(text, i) + 1
      BY <1>3, <2>2, BeforeNext DEF ln
    <3> QED
      BY <1>4, <3>1, <3>3, <3>4
  <2> QED
    BY <2>1, <2>2
<1>7. ProgramInv'
  BY <1>1 DEF GraphInv, ProgramInv
<1>8. CountInv'
  BY <1>1, <1>6 DEF CountInv
<1>9. LabelsInv'
  BY <1>1, <1>6 DEF GraphInv, LabelsInv
<1>10. FinishedInv'
  <2>1. CFG' = <<>>
    BY <1>1, <1>2 DEF StartsInv, FirstPassInv
  <2> QED
    BY <2>1, EmptySeq DEF FinishedInv, AllFinished
<1>11. OpenBodyInv' /\ ClosedInv' /\ SuccessorsInv'
  BY <1>1 DEF OpenBodyInv, ClosedInv, SuccessorsInv, Resolved
<1> QED
  BY <1>2, <1>7, <1>8, <1>9, <1>10, <1>11 DEF GraphInv

LEMMA GraphEndAddressPass ==
  ASSUME GraphInv, EndAddressPass
  PROVE  GraphInv'
<1>1. /\ pass = "addresses" /\ i > Len(text) /\ i' = 1 /\ ctr' = 0 /\ pass' = "blocks"
      /\ UNCHANGED <<text, label_to_addr, label_to_bbid, bb, CFG>>
  BY DEF EndAddressPass, passVars, pathVars
<1>2. StartsInv /\ StartsInv'
  BY StartsStep DEF GraphInv, GenerateCFG
<1>3. i = Len(text) + 1 /\ CFG = <<>> /\ bb = EmptyBlock(0) /\ Len(text) \in Nat
  BY <1>1, <1>2, LenProperties DEF StartsInv, TextInv, FirstPassInv
<1>4. OpenBody(text, bb, 0) /\ bb.fragment = <<>>
  BY <1>3, OpenEmpty, EmptyBlockType
<1>5. ProgramInv'
  BY <1>1 DEF GraphInv, ProgramInv
<1>6. CountInv'
  BY <1>1, BeforeNext DEF CountInv
<1>7. LabelsInv'
  BY <1>1, <1>3 DEF GraphInv, LabelsInv
<1>8. FinishedInv'
  BY <1>1, <1>3, EmptySeq DEF FinishedInv, AllFinished
<1>9. AllSuccessors(CFG, FALSE, << >>)
  BY <1>3, EmptySeq DEF AllSuccessors
<1>12. ClosedInv'
  BY <1>1 DEF ClosedInv
<1>10. SuccessorsInv'
  BY <1>1, <1>9, Zenon DEF SuccessorsInv, Resolved
<1>11. OpenBodyInv'
  BY <1>1, <1>4 DEF OpenBodyInv
<1> QED
  BY <1>2, <1>5, <1>6, <1>7, <1>8, <1>10, <1>11, <1>12 DEF GraphInv
-----------------------------------------------------------------------------
(* The second pass *)

\* What holds at any line of the second pass
LEMMA AtLine ==
  ASSUME GraphInv, At("blocks")
  PROVE  /\ pass = "blocks" /\ i \in 1 .. Len(text) /\ i \in Nat \ {0} /\ Len(text) \in Nat
         /\ bb \in BlockType /\ CFG \in Seq(BlockType) /\ ctr \in Nat
         /\ bb.start_addr \in Nat /\ bb.fragment \in Seq(InstType) /\ bb.next_BB \in Seq(Nat)
         /\ ctr = Before(text, i) /\ OpenBody(text, bb, ctr)
         /\ Points(label_to_bbid, text, i, Starts(CFG, bb.start_addr))
<1>1. pass = "blocks" /\ i <= Len(text)
  BY DEF At
<1>2. /\ i \in 1 .. Len(text) + 1 /\ text \in Seq(ASM!Line) /\ ctr \in Nat
      /\ bb \in BlockType /\ CFG \in Seq(BlockType)
  BY DEF GraphInv, StartsInv, TextInv, AddressInv, BlockInv
<1>3. Len(text) \in Nat
  BY <1>2, LenProperties
<1>4. bb.start_addr \in Nat /\ bb.fragment \in Seq(InstType) /\ bb.next_BB \in Seq(Nat)
  BY <1>2 DEF BlockType
<1>5. /\ ctr = Before(text, i) /\ OpenBody(text, bb, ctr)
      /\ Points(label_to_bbid, text, i, Starts(CFG, bb.start_addr))
  BY <1>1 DEF GraphInv, CountInv, OpenBodyInv, LabelsInv
<1> QED
  BY <1>1, <1>2, <1>3, <1>4, <1>5

(***************************************************************************)
(* B is pushed, and the next block starts at next: what was known of the   *)
(* blocks and of the labels still holds.                                   *)
(***************************************************************************)
LEMMA PushBlock ==
  ASSUME GraphInv, At("blocks"), NEW B, B.start_addr = bb.start_addr, NEW next,
         FinishedBlock(text, label_to_addr, B, next),
         Elements(B.next_BB) = IF Falls(B.fragment, B.branch_BB) THEN {Len(CFG) + 1} ELSE {}
  PROVE  /\ Len(Append(CFG, B)) = Len(CFG) + 1 /\ Len(CFG) \in Nat
         /\ Append(CFG, B)[Len(CFG) + 1] = B
         /\ AllFinished(text, label_to_addr, Append(CFG, B), next)
         /\ AllSuccessors(Append(CFG, B), FALSE, << >>)
         /\ Points(label_to_bbid, text, i, Starts(Append(CFG, B), next))
         /\ Starts(Append(CFG, B), next)[0] = 0
         /\ Starts(Append(CFG, B), next)[Len(CFG) + 1] = next
         /\ \A l \in DOMAIN label_to_bbid : label_to_bbid[l] < Len(CFG) + 1
<1>1. CFG \in Seq(BlockType) /\ i \in Nat /\ pass = "blocks"
  BY AtLine
<1> HIDE DEF BlockType
<1>2. Append(CFG, B)[Len(CFG) + 1] = B
  BY <1>1
<1>3. /\ Len(Append(CFG, B)) = Len(CFG) + 1 /\ Len(CFG) \in Nat
      /\ DOMAIN Starts(CFG, bb.start_addr) = 0 .. Len(CFG)
      /\ \A x \in DOMAIN Starts(CFG, bb.start_addr) :
           /\ x \in DOMAIN Starts(Append(CFG, B), next)
           /\ Starts(Append(CFG, B), next)[x] = Starts(CFG, bb.start_addr)[x]
      /\ Starts(Append(CFG, B), next)[Len(CFG) + 1] = next
  BY <1>1, StartsAppend
<1>4. AllFinished(text, label_to_addr, CFG, B.start_addr)
  BY DEF GraphInv, FinishedInv
<1>5. AllFinished(text, label_to_addr, Append(CFG, B), next)
  BY <1>1, <1>4, AppendFinished
<1>6. AllSuccessors(CFG, FALSE, << >>)
  BY <1>1 DEF GraphInv, SuccessorsInv
<1>7. AllSuccessors(Append(CFG, B), FALSE, << >>)
  BY <1>1, <1>6, AppendSuccessors
<1>8. Points(label_to_bbid, text, i, Starts(CFG, bb.start_addr))
  BY AtLine
<1>9. Points(label_to_bbid, text, i, Starts(Append(CFG, B), next))
  BY <1>1, <1>3, <1>8, PointsExtend
<1>10. Starts(CFG, bb.start_addr)[0] = 0 /\ 0 \in DOMAIN Starts(CFG, bb.start_addr)
  BY <1>3 DEF GraphInv, LabelsInv
<1>11. Starts(Append(CFG, B), next)[0] = 0
  BY <1>3, <1>10
<1>12. ASSUME NEW l \in DOMAIN label_to_bbid PROVE label_to_bbid[l] < Len(CFG) + 1
  <2>1. label_to_bbid[l] \in 0 .. Len(CFG)
    BY <1>3, <1>8 DEF Points
  <2> QED
    BY <1>3, <2>1
<1> QED
  BY <1>2, <1>3, <1>5, <1>7, <1>9, <1>11, <1>12

\* A line that ends the block, once it is known what the block stands for
LEMMA GraphEndBlock ==
  ASSUME GraphInv, StartsInv', At("blocks"), ln.op # "label",
         NEW insts, NoAccess(insts), NEW branch, NEW falls \in BOOLEAN,
         EndBlock(insts, branch, falls),
         Shape(text, label_to_addr, bb.start_addr, bb.fragment \o insts, branch, ctr + 1),
         falls <=> Falls(bb.fragment \o insts, branch),
         ln.op = "NOOP" => ~ falls
  PROVE  GraphInv'
<1> DEFINE f == bb.fragment \o insts
           next_BB == IF falls THEN Append(bb.next_BB, Len(CFG) + 1) ELSE bb.next_BB
           B == [bb EXCEPT !.fragment = f, !.branch_BB = branch, !.next_BB = next_BB]
<1>1. /\ pass = "blocks" /\ i \in 1 .. Len(text) /\ i \in Nat \ {0} /\ Len(text) \in Nat
      /\ bb \in BlockType /\ CFG \in Seq(BlockType) /\ ctr \in Nat
      /\ bb.fragment \in Seq(InstType) /\ bb.next_BB \in Seq(Nat)
      /\ ctr = Before(text, i) /\ OpenBody(text, bb, ctr)
  BY AtLine
<1>2. /\ CFG' = Append(CFG, B) /\ ctr' = ctr + 1 /\ bb' = EmptyBlock(ctr + 1) /\ i' = i + 1
      /\ UNCHANGED <<text, label_to_addr, pass, label_to_bbid>>
  BY DEF EndBlock, passVars
<1> HIDE DEF f, next_BB
<1>3. /\ B.start_addr = bb.start_addr /\ B.acc_cnt = bb.acc_cnt
      /\ B.fragment = f /\ B.branch_BB = branch /\ B.next_BB = next_BB
  BY <1>1 DEF BlockType
<1> HIDE DEF B
<1>4. FinishedBlock(text, label_to_addr, B, ctr + 1)
  <2>1. Cardinality(AccessesIn(f)) = Cardinality(AccessesIn(bb.fragment))
    BY <1>1, AccessesConcat DEF f
  <2>2. bb.acc_cnt = Cardinality(AccessesIn(bb.fragment))
    BY <1>1 DEF OpenBody
  <2>3. Shape(text, label_to_addr, bb.start_addr, f, branch, ctr + 1)
    BY DEF f
  <2> QED
    BY <1>3, <2>1, <2>2, <2>3 DEF FinishedBlock
<1>5. falls <=> Falls(B.fragment, B.branch_BB)
  BY <1>3 DEF f
<1>6. Elements(B.next_BB) = IF Falls(B.fragment, B.branch_BB) THEN {Len(CFG) + 1} ELSE {}
  <2>1. Elements(bb.next_BB) = {}
    BY <1>1 DEF OpenBody
  <2>2. Elements(Append(bb.next_BB, Len(CFG) + 1)) = {Len(CFG) + 1}
    BY <1>1, <2>1, ElementsAppend
  <2>3. CASE falls
    BY <1>3, <1>5, <2>2, <2>3 DEF next_BB
  <2>4. CASE ~ falls
    BY <1>3, <1>5, <2>1, <2>4 DEF next_BB
  <2> QED
    BY <2>3, <2>4
<1>7. /\ Len(CFG') = Len(CFG) + 1 /\ Len(CFG) \in Nat /\ CFG'[Len(CFG) + 1] = B
      /\ AllFinished(text, label_to_addr, CFG', ctr + 1)
      /\ AllSuccessors(CFG', FALSE, << >>)
      /\ Points(label_to_bbid, text, i, Starts(CFG', ctr + 1))
      /\ Starts(CFG', ctr + 1)[0] = 0
      /\ \A l \in DOMAIN label_to_bbid : label_to_bbid[l] < Len(CFG) + 1
  <2>1. B.start_addr = bb.start_addr
    BY <1>3
  <2> DEFINE C == Append(CFG, B)
  <2>2. \A next : FinishedBlock(text, label_to_addr, B, next) =>
          /\ Len(C) = Len(CFG) + 1 /\ Len(CFG) \in Nat /\ C[Len(CFG) + 1] = B
          /\ AllFinished(text, label_to_addr, C, next)
          /\ AllSuccessors(C, FALSE, << >>)
          /\ Points(label_to_bbid, text, i, Starts(C, next))
          /\ Starts(C, next)[0] = 0
          /\ \A l \in DOMAIN label_to_bbid : label_to_bbid[l] < Len(CFG) + 1
    BY <1>6, <2>1, PushBlock
  <2>3. CFG' = C
    BY <1>2
  <2> HIDE DEF C
  <2> QED
    BY <1>4, <2>2, <2>3, Zenon
<1>8. bb'.start_addr = ctr + 1 /\ OpenBody(text, bb', ctr + 1) /\ bb'.fragment = <<>>
  BY <1>1, <1>2, OpenEmpty, EmptyBlockType
<1>9. ProgramInv'
  BY <1>2 DEF GraphInv, ProgramInv
<1>10. CountInv'
  <2>1. Before(text, i + 1) = Before(text, i) + 1
    BY <1>1, BeforeNext DEF ln
  <2> QED
    BY <1>1, <1>2, <2>1 DEF CountInv
<1>11. LabelsInv'
  <2>1. Points(label_to_bbid, text, i + 1, Starts(CFG', ctr + 1))
    BY <1>1, <1>7, PointsOver DEF ln
  <2>2. Points(label_to_addr, text, Len(text) + 1, Itself)
    BY <1>1 DEF GraphInv, LabelsInv
  <2> QED
    BY <1>1, <1>2, <1>7, <1>8, <2>1, <2>2 DEF LabelsInv
<1>12. OpenBodyInv'
  BY <1>2, <1>8 DEF OpenBodyInv
<1>13. FinishedInv'
  BY <1>2, <1>7, <1>8 DEF FinishedInv
<1>14. ClosedInv'
  <2> SUFFICES ASSUME text[i].op = "NOOP" PROVE Closed(CFG', label_to_bbid)
    BY <1>1, <1>2 DEF ClosedInv
  <2>1. ~ Falls(B.fragment, B.branch_BB)
    BY <1>5 DEF ln
  <2> QED
    BY <1>7, <2>1 DEF Closed
<1>15. SuccessorsInv'
  BY <1>1, <1>2, <1>7, Zenon DEF SuccessorsInv, Resolved
<1> QED
  BY <1>9, <1>10, <1>11, <1>12, <1>13, <1>14, <1>15 DEF GraphInv
-----------------------------------------------------------------------------
LEMMA GraphLabelLine ==
  ASSUME GraphInv, LabelLine
  PROVE  GraphInv'
<1> DEFINE f == Append(bb.fragment, Imm("PC", ctr))
           next_BB == Append(bb.next_BB, Len(CFG) + 1)
           B == [bb EXCEPT !.fragment = f, !.next_BB = next_BB]
           ended == bb.fragment # <<>>
<1>1. /\ At("blocks") /\ ln.op = "label"
      /\ CFG' = IF ended THEN Append(CFG, B) ELSE CFG
      /\ bb' = IF ended THEN EmptyBlock(ctr) ELSE bb
      /\ label_to_bbid' = Define(label_to_bbid, ln.label, Len(CFG'))
      /\ i' = i + 1
      /\ UNCHANGED <<text, label_to_addr, pass, ctr>>
  BY DEF LabelLine, passVars
<1>2. /\ pass = "blocks" /\ i \in 1 .. Len(text) /\ i \in Nat \ {0} /\ Len(text) \in Nat
      /\ bb \in BlockType /\ CFG \in Seq(BlockType) /\ ctr \in Nat
      /\ bb.start_addr \in Nat /\ bb.fragment \in Seq(InstType) /\ bb.next_BB \in Seq(Nat)
      /\ ctr = Before(text, i) /\ OpenBody(text, bb, ctr)
      /\ Points(label_to_bbid, text, i, Starts(CFG, bb.start_addr))
  BY <1>1, AtLine
<1> HIDE DEF f, next_BB
<1>3. /\ B.start_addr = bb.start_addr /\ B.acc_cnt = bb.acc_cnt
      /\ B.fragment = f /\ B.branch_BB = bb.branch_BB /\ B.next_BB = next_BB
  BY <1>2 DEF BlockType
<1> HIDE DEF B
<1>4. /\ bb.branch_BB = NoLabel /\ Elements(bb.next_BB) = {}
      /\ bb.acc_cnt = Cardinality(AccessesIn(bb.fragment))
      /\ bb.start_addr + Len(bb.fragment) = ctr
      /\ Body(text, bb.start_addr, bb.fragment, Len(bb.fragment))
  BY <1>2 DEF OpenBody
\* The block being built goes on at ctr, and the label is bound to it
<1>5. /\ AllFinished(text, label_to_addr, CFG', bb'.start_addr)
      /\ AllSuccessors(CFG', FALSE, << >>)
      /\ Points(label_to_bbid, text, i, Starts(CFG', bb'.start_addr))
      /\ Starts(CFG', bb'.start_addr)[0] = 0
      /\ Len(CFG') \in DOMAIN Starts(CFG', bb'.start_addr)
      /\ Starts(CFG', bb'.start_addr)[Len(CFG')] = ctr
      /\ OpenBody(text, bb', ctr) /\ bb'.fragment = <<>>
  <2>1. CASE ended
    <3>1. Shape(text, label_to_addr, bb.start_addr, f, NoLabel, ctr) /\ Falls(f, NoLabel)
          /\ Cardinality(AccessesIn(f)) = Cardinality(AccessesIn(bb.fragment))
      <4> DEFINE end == bb.start_addr + Len(bb.fragment)
                 g == Append(bb.fragment, Imm("PC", end))
      <4>1. Shape(text, label_to_addr, bb.start_addr, g, NoLabel, end) /\ Falls(g, NoLabel)
            /\ Cardinality(AccessesIn(g)) = Cardinality(AccessesIn(bb.fragment))
        BY <1>2, <1>4, ShapeOfRunInto
      <4>2. end = ctr /\ g = f
        BY <1>4 DEF f
      <4> HIDE DEF end, g
      <4> QED
        BY <4>1, <4>2
    <3>2. FinishedBlock(text, label_to_addr, B, ctr)
      BY <1>3, <1>4, <3>1 DEF FinishedBlock
    <3>3. Elements(next_BB) = {Len(CFG) + 1}
      BY <1>2, <1>4, ElementsAppend DEF next_BB
    <3>4. Elements(B.next_BB) = IF Falls(B.fragment, B.branch_BB) THEN {Len(CFG) + 1} ELSE {}
      BY <1>3, <1>4, <3>1, <3>3
    <3>5. B.start_addr = bb.start_addr
      BY <1>3
    <3> DEFINE C == Append(CFG, B)
    <3>6. \A next : FinishedBlock(text, label_to_addr, B, next) =>
            /\ Len(C) = Len(CFG) + 1 /\ Len(CFG) \in Nat
            /\ AllFinished(text, label_to_addr, C, next)
            /\ AllSuccessors(C, FALSE, << >>)
            /\ Points(label_to_bbid, text, i, Starts(C, next))
            /\ Starts(C, next)[0] = 0
            /\ Starts(C, next)[Len(CFG) + 1] = next
      BY <1>1, <3>4, <3>5, PushBlock
    <3>7. CFG' = C /\ bb' = EmptyBlock(ctr)
      BY <1>1, <2>1
    <3> HIDE DEF C
    <3>8. /\ Len(C) = Len(CFG) + 1 /\ Len(CFG) \in Nat
          /\ AllFinished(text, label_to_addr, C, ctr)
          /\ AllSuccessors(C, FALSE, << >>)
          /\ Points(label_to_bbid, text, i, Starts(C, ctr))
          /\ Starts(C, ctr)[0] = 0
          /\ Starts(C, ctr)[Len(CFG) + 1] = ctr
      BY <3>2, <3>6, Zenon
    <3>9. bb'.start_addr = ctr /\ OpenBody(text, bb', ctr) /\ bb'.fragment = <<>>
      BY <1>2, <3>7, OpenEmpty, EmptyBlockType
    <3>10. Len(C) \in DOMAIN Starts(C, ctr) /\ Starts(C, ctr)[Len(C)] = ctr
      <4>1. Len(C) \in Nat
        BY <3>8
      <4>2. Len(C) \in 0 .. Len(C)
        BY <4>1
      <4> QED
        BY <3>8, <4>2 DEF Starts
    <3> QED
      BY <3>7, <3>8, <3>9, <3>10, Zenon
  <2>2. CASE ~ ended
    <3>1. CFG' = CFG /\ bb' = bb /\ bb.fragment = <<>>
      BY <1>1, <2>2
    <3>2. Len(bb.fragment) = 0
      BY <3>1, EmptySeq
    <3>3. bb.start_addr = ctr
      BY <1>2, <1>4, <3>2
    <3>4. Len(CFG) \in Nat
      BY <1>2, LenProperties
    <3>5. Len(CFG) \in DOMAIN Starts(CFG, ctr) /\ Starts(CFG, ctr)[Len(CFG)] = ctr
      BY <3>4 DEF Starts
    <3>6. AllSuccessors(CFG, FALSE, << >>)
      BY <1>2 DEF GraphInv, SuccessorsInv
    <3>7. /\ AllFinished(text, label_to_addr, CFG, bb.start_addr)
          /\ Starts(CFG, bb.start_addr)[0] = 0
      BY DEF GraphInv, FinishedInv, LabelsInv
    <3> QED
      BY <1>2, <3>1, <3>3, <3>5, <3>6, <3>7, Zenon
  <2> QED
    BY <2>1, <2>2
<1>6. Points(label_to_bbid', text, i + 1, Starts(CFG', bb'.start_addr))
  <2> DEFINE here == Starts(CFG', bb'.start_addr)
             x == Len(CFG')
  <2>1. /\ Points(label_to_bbid, text, i, here) /\ x \in DOMAIN here /\ here[x] = Before(text, i)
        /\ text[i].op = "label" /\ label_to_bbid' = Define(label_to_bbid, text[i].label, x)
    BY <1>1, <1>2, <1>5 DEF ln
  <2> HIDE DEF here, x
  <2>2. Points(Define(label_to_bbid, text[i].label, x), text, i + 1, here)
    BY <1>2, <2>1, PointsDefine
  <2> QED
    BY <2>1, <2>2 DEF here
<1>7. StartsInv'
  BY StartsStep DEF GraphInv, GenerateCFG
<1>8. ProgramInv'
  BY <1>1 DEF GraphInv, ProgramInv
<1>9. CountInv'
  <2>1. Before(text, i + 1) = Before(text, i)
    BY <1>1, <1>2, BeforeNext DEF ln
  <2> QED
    BY <1>1, <1>2, <2>1 DEF CountInv
<1>10. LabelsInv'
  <2>1. Points(label_to_addr, text, Len(text) + 1, Itself)
    BY <1>2 DEF GraphInv, LabelsInv
  <2> QED
    BY <1>1, <1>2, <1>5, <1>6, <2>1 DEF LabelsInv
<1>11. OpenBodyInv'
  BY <1>1, <1>5 DEF OpenBodyInv
<1>12. FinishedInv'
  BY <1>1, <1>5 DEF FinishedInv
<1>13. ClosedInv'
  BY <1>1, <1>2 DEF ClosedInv, ln
<1>14. SuccessorsInv'
  BY <1>1, <1>2, <1>5, Zenon DEF SuccessorsInv, Resolved
<1> QED
  BY <1>7, <1>8, <1>9, <1>10, <1>11, <1>12, <1>13, <1>14 DEF GraphInv

LEMMA GraphLocalLine ==
  ASSUME GraphInv, LocalLine
  PROVE  GraphInv'
<1> DEFINE x == Inst(ln.op, "GR", 0)
           f == Append(bb.fragment, x)
           n == IF ln.op = "access" THEN bb.acc_cnt + 1 ELSE bb.acc_cnt
<1>1. /\ At("blocks") /\ ln.op \in {"plain", "set", "access"}
      /\ bb' = [bb EXCEPT !.fragment = f, !.acc_cnt = n]
      /\ i' = i + 1 /\ ctr' = ctr + 1
      /\ UNCHANGED <<text, label_to_addr, pass, label_to_bbid, CFG>>
  BY DEF LocalLine, passVars
<1>2. /\ pass = "blocks" /\ i \in 1 .. Len(text) /\ i \in Nat \ {0} /\ Len(text) \in Nat
      /\ bb \in BlockType /\ CFG \in Seq(BlockType) /\ ctr \in Nat
      /\ bb.start_addr \in Nat /\ bb.fragment \in Seq(InstType)
      /\ ctr = Before(text, i) /\ OpenBody(text, bb, ctr)
      /\ Points(label_to_bbid, text, i, Starts(CFG, bb.start_addr))
  BY <1>1, AtLine
<1>3. x \in InstType /\ x.op = ln.op /\ x.dst = "GR"
  BY <1>1 DEF Inst, InstType
<1> HIDE DEF f, n, x
<1>4. /\ bb'.start_addr = bb.start_addr /\ bb'.acc_cnt = n
      /\ bb'.fragment = f /\ bb'.branch_BB = bb.branch_BB /\ bb'.next_BB = bb.next_BB
  BY <1>1, <1>2 DEF BlockType
<1>5. /\ bb.branch_BB = NoLabel /\ Elements(bb.next_BB) = {}
      /\ bb.acc_cnt = Cardinality(AccessesIn(bb.fragment))
      /\ bb.start_addr + Len(bb.fragment) = ctr
      /\ Body(text, bb.start_addr, bb.fragment, Len(bb.fragment))
  BY <1>2 DEF OpenBody
<1>6. /\ Len(bb.fragment) \in Nat /\ Len(f) = Len(bb.fragment) + 1
      /\ f[Len(bb.fragment) + 1] = x /\ \A a \in 1 .. Len(bb.fragment) : f[a] = bb.fragment[a]
  BY <1>2, <1>3, AppendProperties, LenProperties DEF f
<1>7. n = Cardinality(AccessesIn(f))
  <2>1. Cardinality(AccessesIn(f)) = IF x.op = "access" THEN Cardinality(AccessesIn(bb.fragment)) + 1
                                     ELSE Cardinality(AccessesIn(bb.fragment))
    BY <1>2, <1>3, AccessesAppend DEF f
  <2> QED
    BY <1>3, <1>5, <2>1 DEF n
<1>8. Body(text, bb.start_addr, f, Len(f))
  <2> SUFFICES ASSUME NEW a \in 1 .. Len(f)
               PROVE  /\ f[a].op \in Locals /\ f[a].dst = "GR"
                      /\ \E k : LineAt(text, bb.start_addr + a - 1, k) /\ text[k].op = f[a].op
    BY DEF Body
  <2>1. CASE a \in 1 .. Len(bb.fragment)
    BY <1>5, <1>6, <2>1 DEF Body
  <2>2. CASE a = Len(bb.fragment) + 1
    <3>1. f[a] = x /\ f[a].op \in Locals
      BY <1>1, <1>3, <1>6, <2>2 DEF Locals
    <3>2. bb.start_addr + a - 1 = ctr
      BY <1>2, <1>5, <1>6, <2>2
    <3>3. LineAt(text, ctr, i)
      BY <1>1, <1>2 DEF LineAt, ln
    <3> QED
      BY <1>3, <3>1, <3>2, <3>3 DEF ln
  <2> QED
    BY <1>6, <2>1, <2>2
<1>9. OpenBody(text, bb', ctr + 1)
  <2>1. bb'.start_addr + Len(bb'.fragment) = ctr + 1
    BY <1>2, <1>4, <1>5, <1>6
  <2> QED
    BY <1>4, <1>5, <1>7, <1>8, <2>1 DEF OpenBody
<1>10. StartsInv'
  BY StartsStep DEF GraphInv, GenerateCFG
<1>11. ProgramInv'
  BY <1>1 DEF GraphInv, ProgramInv
<1>12. CountInv'
  <2>1. Before(text, i + 1) = Before(text, i) + 1
    BY <1>1, <1>2, BeforeNext DEF ln
  <2> QED
    BY <1>1, <1>2, <2>1 DEF CountInv
<1>13. LabelsInv'
  <2>1. Points(label_to_addr, text, Len(text) + 1, Itself) /\ Starts(CFG, bb.start_addr)[0] = 0
    BY <1>2 DEF GraphInv, LabelsInv
  <2>2. Points(label_to_bbid, text, i + 1, Starts(CFG, bb.start_addr))
    BY <1>1, <1>2, PointsOver DEF ln
  <2> QED
    BY <1>1, <1>2, <1>4, <2>1, <2>2 DEF LabelsInv
<1>14. OpenBodyInv'
  BY <1>1, <1>2, <1>9 DEF OpenBodyInv, ln
<1>15. FinishedInv'
  BY <1>1, <1>4 DEF GraphInv, FinishedInv
<1>16. ClosedInv'
  BY <1>1, <1>2 DEF ClosedInv, ln
<1>17. SuccessorsInv'
  BY <1>1, <1>2 DEF GraphInv, SuccessorsInv, Resolved
<1> QED
  BY <1>10, <1>11, <1>12, <1>13, <1>14, <1>15, <1>16, <1>17 DEF GraphInv
-----------------------------------------------------------------------------
\* The lines that end a block
LEMMA GraphEndLines ==
  ASSUME GraphInv, JumpLine \/ ConditionalLine \/ HaltLine \/ NoopLine
  PROVE  GraphInv'
<1>1. At("blocks") /\ GenerateCFG
  BY DEF JumpLine, ConditionalLine, HaltLine, NoopLine, GenerateCFG
<1>2. StartsInv /\ StartsInv'
  BY <1>1, StartsStep DEF GraphInv
<1> DEFINE f == bb.fragment
           start == bb.start_addr
<1>3. /\ pass = "blocks" /\ i \in 1 .. Len(text) /\ Len(text) \in Nat /\ ctr \in Nat
      /\ start \in Nat /\ f \in Seq(InstType)
      /\ ctr = Before(text, i) /\ start + Len(f) = ctr /\ Body(text, start, f, Len(f))
  BY <1>1, AtLine DEF OpenBody
<1>4. \A l : Lookup(label_to_addr, l) \in Nat
  BY <1>2, LookupNat DEF StartsInv, AddressInv
<1>5. /\ ln.op \in ASM!Jumps => ln.label # NoLabel
      /\ ln.op = "NOOP" <=> i = Len(text)
  BY <1>2, <1>3, LineKinds DEF GraphInv, StartsInv, ln
<1>6. ln.op # "label" => LineAt(text, start + Len(f), i)
  BY <1>3 DEF LineAt, ln
<1>7. CASE JumpLine
  <2>1. ln.op = "J" /\ EndBlock(<<Imm("PC", Lookup(label_to_addr, ln.label))>>, ln.label, FALSE)
    BY <1>7 DEF JumpLine
  <2>2. text[i].label # NoLabel /\ text[i].op = "J" /\ LineAt(text, start + Len(f), i)
    BY <1>5, <1>6, <2>1 DEF ASM!Jumps, ln
  <2> DEFINE l == text[i].label
             insts == <<Imm("PC", Lookup(label_to_addr, l))>>
  <2>3. /\ Shape(text, label_to_addr, start, f \o insts, l, ctr + 1)
        /\ ~ Falls(f \o insts, l) /\ NoAccess(insts)
    <3>1. text[i].op \in {"J", "HALT"} /\ Lookup(label_to_addr, l) \in Nat
          /\ l = (IF text[i].op = "J" THEN text[i].label ELSE ASM!NoopLabel) /\ l # NoLabel
      BY <1>4, <2>2
    <3> HIDE DEF l, f, start
    <3> QED
      BY <1>3, <2>2, <3>1, ShapeOfJump
  <2>4. EndBlock(insts, l, FALSE)
    BY <2>1 DEF ln
  <2> HIDE DEF insts, l
  <2> QED
    BY <1>1, <1>2, <2>1, <2>3, <2>4, GraphEndBlock
<1>8. CASE HaltLine
  <2>1. ln.op = "HALT"
        /\ EndBlock(<<Imm("PC", Lookup(label_to_addr, ASM!NoopLabel))>>, ASM!NoopLabel, FALSE)
    BY <1>8 DEF HaltLine
  <2>2. text[i].op = "HALT" /\ LineAt(text, start + Len(f), i)
    BY <1>6, <2>1 DEF ln
  <2> DEFINE l == ASM!NoopLabel
             insts == <<Imm("PC", Lookup(label_to_addr, l))>>
  <2>5. l # NoLabel
    BY DEF ASM!NoopLabel, NoLabel
  <2>3. /\ Shape(text, label_to_addr, start, f \o insts, l, ctr + 1)
        /\ ~ Falls(f \o insts, l) /\ NoAccess(insts)
    <3>1. text[i].op \in {"J", "HALT"} /\ Lookup(label_to_addr, l) \in Nat
          /\ l = (IF text[i].op = "J" THEN text[i].label ELSE ASM!NoopLabel) /\ l # NoLabel
      BY <1>4, <2>2, <2>5
    <3> HIDE DEF l, f, start
    <3> QED
      BY <1>3, <2>2, <3>1, ShapeOfJump
  <2>4. EndBlock(insts, l, FALSE)
    BY <2>1
  <2> HIDE DEF insts, l
  <2> QED
    BY <1>1, <1>2, <2>1, <2>3, <2>4, GraphEndBlock
<1>9. CASE ConditionalLine
  <2>1. /\ ln.op \in ASM!Conditional
        /\ EndBlock(SelectPC(ln.op, ctr + 1, Lookup(label_to_addr, ln.label)), ln.label, TRUE)
    BY <1>9 DEF ConditionalLine
  <2>2. ln.op \in ASM!Jumps /\ ln.op # "label" /\ ln.op # "NOOP"
    BY <2>1 DEF ASM!Jumps, ASM!Conditional
  <2>3. text[i].label # NoLabel /\ text[i].op \in ASM!Conditional
        /\ LineAt(text, start + Len(f), i)
    BY <1>5, <1>6, <2>1, <2>2 DEF ln
  <2> DEFINE next == start + Len(f) + 1
             insts == SelectPC(text[i].op, next, Lookup(label_to_addr, text[i].label))
  <2>4. /\ Shape(text, label_to_addr, start, f \o insts, text[i].label, next)
        /\ Falls(f \o insts, text[i].label) /\ NoAccess(insts)
    <3>1. Lookup(label_to_addr, text[i].label) \in Nat
      BY <1>4
    <3> HIDE DEF f, start
    <3> QED
      BY <1>3, <2>3, <3>1, ShapeOfSelect
  <2>5. next = ctr + 1
    BY <1>3
  <2> HIDE DEF next, f, start
  <2>6. EndBlock(insts, text[i].label, TRUE)
    BY <2>1, <2>5 DEF ln
  <2> HIDE DEF insts
  <2>7. Shape(text, label_to_addr, start, f \o insts, text[i].label, ctr + 1)
    BY <2>4, <2>5
  <2> QED
    BY <1>1, <1>2, <2>2, <2>4, <2>6, <2>7, GraphEndBlock DEF f, start
<1>10. CASE NoopLine
  <2>1. ln.op = "NOOP" /\ EndBlock(<<Inst("NOOP", "GR", 0)>>, ASM!NoopLabel, FALSE)
    BY <1>10 DEF NoopLine
  <2>2. i = Len(text) /\ i - 1 \in Nat /\ i > 1 /\ text[i - 1].op = "label"
    BY <1>3, <1>5, <2>1 DEF GraphInv, ProgramInv
  <2>3. f = <<>>
    BY <1>3, <2>2 DEF GraphInv, OpenBodyInv
  <2>4. start = Before(text, Len(text))
    <3>1. Len(f) = 0
      BY <2>3, EmptySeq
    <3> QED
      BY <1>3, <2>2, <3>1
  <2> DEFINE insts == <<Inst("NOOP", "GR", 0)>>
  <2>5. /\ Shape(text, label_to_addr, start, f \o insts, ASM!NoopLabel, ctr + 1)
        /\ ~ Falls(f \o insts, ASM!NoopLabel) /\ NoAccess(insts)
    <3> HIDE DEF f, start
    <3> QED
      BY <1>3, <2>3, <2>4, ShapeOfIdle
  <2>6. EndBlock(insts, ASM!NoopLabel, FALSE)
    BY <2>1
  <2> HIDE DEF insts
  <2> QED
    BY <1>1, <1>2, <2>1, <2>5, <2>6, GraphEndBlock
<1> QED
  BY <1>7, <1>8, <1>9, <1>10

LEMMA GraphEndBlockPass ==
  ASSUME GraphInv, EndBlockPass
  PROVE  GraphInv'
<1>1. /\ pass = "blocks" /\ i > Len(text) /\ pass' = "resolve"
      /\ UNCHANGED <<text, label_to_addr, i, ctr, label_to_bbid, bb, CFG>>
  BY DEF EndBlockPass, passVars
<1>2. StartsInv /\ StartsInv'
  BY StartsStep DEF GraphInv, GenerateCFG
<1>3. i = Len(text) + 1 /\ Len(text) \in Nat
  BY <1>1, <1>2, LenProperties DEF StartsInv, TextInv
<1>4. ProgramInv' /\ CountInv' /\ FinishedInv'
  BY <1>1, <1>3 DEF GraphInv, ProgramInv, CountInv, FinishedInv
<1>5. LabelsInv' /\ ClosedInv'
  BY <1>1, <1>3 DEF GraphInv, LabelsInv, ClosedInv
<1>6. OpenBodyInv' /\ SuccessorsInv'
  BY <1>1 DEF GraphInv, OpenBodyInv, SuccessorsInv, Resolved
<1> QED
  BY <1>2, <1>4, <1>5, <1>6 DEF GraphInv

\* The labels of the branches become block numbers; nothing else changes
LEMMA GraphResolve ==
  ASSUME GraphInv, Resolve
  PROVE  GraphInv'
<1>1. /\ pass = "resolve" /\ pass' = "path"
      /\ UNCHANGED <<text, label_to_addr, i, ctr, label_to_bbid, bb>>
  BY DEF Resolve, passVars
<1>2. StartsInv /\ StartsInv'
  BY StartsStep DEF GraphInv, GenerateCFG
<1>3. /\ CFG \in Seq(BlockType) /\ CFG' \in Seq(BlockType)
      /\ DOMAIN CFG = 1 .. Len(CFG) /\ Len(CFG) \in Nat
      /\ DOMAIN CFG' = 1 .. Len(CFG') /\ Len(CFG') \in Nat
  BY <1>2, LenProperties DEF StartsInv, BlockInv
<1>4. Len(CFG') = Len(CFG)
  <2>1. DOMAIN CFG' = DOMAIN CFG
    BY DEF Resolve
  <2>2. \A m, n \in Nat : (\A k \in 1 .. m : k \in 1 .. n) => m <= n
    OBVIOUS
  <2>3. Len(CFG') <= Len(CFG) /\ Len(CFG) <= Len(CFG')
    BY <1>3, <2>1, <2>2
  <2>4. Len(CFG) \in Nat /\ Len(CFG') \in Nat
    BY <1>3
  <2> QED
    BY <2>3, <2>4
<1>5. ASSUME NEW b \in 1 .. Len(CFG)
      PROVE  /\ CFG'[b].start_addr = CFG[b].start_addr /\ CFG'[b].acc_cnt = CFG[b].acc_cnt
             /\ CFG'[b].fragment = CFG[b].fragment /\ CFG'[b].branch_BB = CFG[b].branch_BB
             /\ Elements(CFG'[b].next_BB)
                  = IF CFG[b].branch_BB # NoLabel
                    THEN Elements(CFG[b].next_BB)
                           \cup {Lookup(label_to_bbid, CFG[b].branch_BB)}
                    ELSE Elements(CFG[b].next_BB)
  <2> DEFINE more == Append(CFG[b].next_BB, Lookup(label_to_bbid, CFG[b].branch_BB))
  <2>1. CFG'[b] = IF CFG[b].branch_BB = NoLabel THEN CFG[b]
                  ELSE [CFG[b] EXCEPT !.next_BB = more]
    BY <1>3, <1>5, Zenon DEF Resolve, NoLabel
  <2>2. CFG[b] \in BlockType
    BY <1>3, ElementOfSeq
  <2>3. CFG[b].next_BB \in Seq(Nat)
    BY <2>2 DEF BlockType
  <2>4. Elements(more) = Elements(CFG[b].next_BB)
                           \cup {Lookup(label_to_bbid, CFG[b].branch_BB)}
    BY <2>3, ElementsAppend
  <2> HIDE DEF more
  <2>5. LET B == [CFG[b] EXCEPT !.next_BB = more]
        IN  /\ B.start_addr = CFG[b].start_addr /\ B.acc_cnt = CFG[b].acc_cnt
            /\ B.fragment = CFG[b].fragment /\ B.branch_BB = CFG[b].branch_BB
            /\ B.next_BB = more
    BY <2>2 DEF BlockType
  <2> QED
    BY <2>1, <2>4, <2>5
<1>6. ProgramInv' /\ CountInv' /\ OpenBodyInv'
  BY <1>1 DEF GraphInv, ProgramInv, CountInv, OpenBodyInv
<1>7. Starts(CFG', bb.start_addr) = Starts(CFG, bb.start_addr)
  <2> DEFINE s == bb.start_addr
  <2>1. ASSUME NEW b \in 0 .. Len(CFG), b < Len(CFG)
        PROVE  CFG'[b + 1].start_addr = CFG[b + 1].start_addr
    <3>1. Len(CFG) \in Nat
      BY <1>3
    <3>2. b + 1 \in 1 .. Len(CFG)
      BY <2>1, <3>1
    <3> QED
      BY <1>5, <3>2
  <2> HIDE DEF s
  <2>2. Starts(CFG', s) = [b \in 0 .. Len(CFG) |-> IF b < Len(CFG) THEN CFG'[b + 1].start_addr ELSE s]
    BY <1>4 DEF Starts
  <2>3. \A b \in 0 .. Len(CFG) : (IF b < Len(CFG) THEN CFG'[b + 1].start_addr ELSE s)
                                  = (IF b < Len(CFG) THEN CFG[b + 1].start_addr ELSE s)
    BY <2>1
  <2>4. Starts(CFG', s) = Starts(CFG, s)
    BY <2>2, <2>3 DEF Starts
  <2> QED
    BY <2>4 DEF s
<1>8. LabelsInv'
  BY <1>1, <1>7 DEF GraphInv, LabelsInv
<1>9. FinishedInv'
  <2>1. ASSUME NEW b \in 1 .. Len(CFG)
        PROVE  FinishedBlock(text, label_to_addr, CFG'[b], Starts(CFG, bb.start_addr)[b])
    <3>1. FinishedBlock(text, label_to_addr, CFG[b], Starts(CFG, bb.start_addr)[b])
      BY DEF GraphInv, FinishedInv, AllFinished
    <3> QED
      BY <1>5, <3>1 DEF FinishedBlock
  <2>2. AllFinished(text, label_to_addr, CFG', bb.start_addr)
    BY <1>4, <1>7, <2>1 DEF AllFinished
  <2> QED
    BY <1>1, <2>2 DEF FinishedInv
<1>10. ClosedInv'
  <2> SUFFICES ASSUME i > 1, text[i - 1].op = "NOOP" PROVE Closed(CFG', label_to_bbid)
    BY <1>1 DEF ClosedInv
  <2>1. Closed(CFG, label_to_bbid)
    BY <1>1 DEF GraphInv, ClosedInv
  <2> QED
    <3>1. Len(CFG) > 0 /\ Len(CFG) \in 1 .. Len(CFG)
      BY <1>3, <2>1 DEF Closed
    <3>2. CFG'[Len(CFG)].fragment = CFG[Len(CFG)].fragment
          /\ CFG'[Len(CFG)].branch_BB = CFG[Len(CFG)].branch_BB
      BY <1>5, <3>1
    <3> QED
      BY <1>4, <2>1, <3>1, <3>2 DEF Closed
<1>11. SuccessorsInv'
  <2>1. ASSUME NEW b \in 1 .. Len(CFG)
        PROVE  Elements(CFG'[b].next_BB) = Successors(CFG'[b], b, TRUE, label_to_bbid)
    <3>1. Elements(CFG[b].next_BB) = Successors(CFG[b], b, FALSE, << >>)
      BY <1>1, Zenon DEF GraphInv, SuccessorsInv, AllSuccessors
    <3>2. Successors(CFG'[b], b, FALSE, << >>) = Successors(CFG[b], b, FALSE, << >>)
      <4>1. CFG'[b].fragment = CFG[b].fragment /\ CFG'[b].branch_BB = CFG[b].branch_BB
        BY <1>5
      <4>2. Successors(CFG'[b], b, FALSE, << >>)
              = IF Falls(CFG'[b].fragment, CFG'[b].branch_BB) THEN {b} ELSE {}
        BY SuccessorsOpen, Zenon
      <4>3. Successors(CFG[b], b, FALSE, << >>)
              = IF Falls(CFG[b].fragment, CFG[b].branch_BB) THEN {b} ELSE {}
        BY SuccessorsOpen, Zenon
      <4> QED
        BY <4>1, <4>2, <4>3, Zenon
    <3>3. Successors(CFG'[b], b, TRUE, label_to_bbid)
            = IF CFG'[b].branch_BB # NoLabel
              THEN Successors(CFG'[b], b, FALSE, << >>) \cup {Lookup(label_to_bbid, CFG'[b].branch_BB)}
              ELSE Successors(CFG'[b], b, FALSE, << >>)
      BY SuccessorsResolved, Zenon
    <3> QED
      BY <1>5, <3>1, <3>2, <3>3
  <2>2. AllSuccessors(CFG', TRUE, label_to_bbid)
    BY <1>4, <2>1 DEF AllSuccessors
  <2> QED
    BY <1>1, <2>2 DEF SuccessorsInv, Resolved
<1> QED
  BY <1>2, <1>6, <1>8, <1>9, <1>10, <1>11 DEF GraphInv
-----------------------------------------------------------------------------
(* GenerateBBPath *)

\* Finitely many numbers have a bound
LEMMA FiniteBound ==
  ASSUME NEW n \in Nat, NEW g \in [1 .. n -> Nat]
  PROVE  \E u \in Nat : \A k \in 1 .. n : g[k] <= u
<1> DEFINE Bounded(m) == \A h \in [1 .. m -> Nat] :
                           \E u \in Nat : \A k \in 1 .. m : h[k] <= u
           S == { m \in Nat : Bounded(m) }
<1>1. 0 \in S
  OBVIOUS
<1>2. ASSUME NEW m \in Nat, m \in S
      PROVE  m + 1 \in S
  <2>1. Bounded(m)
    BY <1>2
  <2>2. ASSUME NEW h \in [1 .. m + 1 -> Nat]
        PROVE  \E u \in Nat : \A k \in 1 .. m + 1 : h[k] <= u
    <3> DEFINE low == [k \in 1 .. m |-> h[k]]
    <3>1. low \in [1 .. m -> Nat]
      OBVIOUS
    <3>2. PICK u \in Nat : \A k \in 1 .. m : low[k] <= u
      BY <2>1, <3>1
    <3> HIDE DEF S, Bounded
    <3>3. \A k \in 1 .. m : h[k] <= u /\ h[k] \in Nat
      BY <3>2
    <3>4. h[m + 1] \in Nat
      OBVIOUS
    <3> DEFINE w == u + h[m + 1]
    <3>5. w \in Nat /\ u <= w /\ h[m + 1] <= w
      BY <3>4
    <3> HIDE DEF w, low
    <3>6. \A k \in 1 .. m + 1 : k \in 1 .. m \/ k = m + 1
      OBVIOUS
    <3>7. ASSUME NEW k \in 1 .. m + 1 PROVE h[k] <= w
      <4>1. CASE k \in 1 .. m
        BY <3>3, <3>5, <4>1
      <4>2. CASE k = m + 1
        BY <3>5, <4>2
      <4> QED
        BY <3>6, <4>1, <4>2
    <3> QED
      BY <3>5, <3>7
  <2>3. Bounded(m + 1)
    BY <2>2
  <2> HIDE DEF Bounded
  <2> QED
    BY <2>3
<1>3. Nat \subseteq S
  <2> HIDE DEF S, Bounded
  <2> QED
    BY <1>1, <1>2, SetInduction
<1>4. Bounded(n)
  <2> HIDE DEF Bounded
  <2> QED
    BY <1>3
<1> QED
  BY <1>4

\* The largest of a bounded set of numbers is one of them, or 0
LEMMA LargestOf ==
  ASSUME NEW V \in SUBSET Nat, NEW u \in Nat, \A v \in V : v <= u
  PROVE  /\ Largest(V) \in Nat /\ Largest(V) \in V \cup {0}
         /\ \A v \in V : v <= Largest(V)
<1> DEFINE U == { n \in Nat : \A v \in V : v <= n }
<1>1. U \in SUBSET Nat /\ u \in U
  OBVIOUS
<1>2. PICK n \in U : \A m \in U : n <= m
  <2> HIDE DEF U
  <2> QED
    BY <1>1, LeastNat
<1>3. n \in V \cup {0}
  <2> SUFFICES ASSUME n \notin V, n # 0 PROVE FALSE
    OBVIOUS
  <2>1. n - 1 \in Nat
    BY <1>2
  <2>2. \A v \in V : v <= n - 1
    BY <1>2
  <2> QED
    BY <1>2, <2>1, <2>2
<1>4. \A v \in V : v <= n
  BY <1>2
<1>5. \E m \in V \cup {0} : \A v \in V : v <= m
  BY <1>3, <1>4
<1>6. Largest(V) \in V \cup {0} /\ \A v \in V : v <= Largest(V)
  BY <1>5, Zenon DEF Largest
<1>7. V \cup {0} \subseteq Nat
  OBVIOUS
<1> HIDE DEF U
<1> QED
  BY <1>6, <1>7

\* GenerateBBPath adds a number for every step
LEMMA LargestAccesses ==
  ASSUME NEW C \in Seq(BlockType), NEW S \in SUBSET (0 .. Len(C) - 1)
  PROVE  Largest({ C[b + 1].acc_cnt : b \in S }) \in Nat
<1>1. Len(C) \in Nat /\ \A k \in 1 .. Len(C) : C[k] \in BlockType
  BY LenProperties, ElementOfSeq
<1>2. \A k \in 1 .. Len(C) : C[k].acc_cnt \in Nat
  BY <1>1 DEF BlockType
<1> DEFINE g == [k \in 1 .. Len(C) |-> C[k].acc_cnt]
<1>3. g \in [1 .. Len(C) -> Nat]
  BY <1>2
<1>4. PICK u \in Nat : \A k \in 1 .. Len(C) : g[k] <= u
  <2> HIDE DEF g
  <2> QED
    BY <1>1, <1>3, FiniteBound
<1> DEFINE V == { C[b + 1].acc_cnt : b \in S }
<1>5. \A b \in S : b + 1 \in 1 .. Len(C)
  BY <1>1
<1>6. V \in SUBSET Nat /\ \A v \in V : v <= u
  BY <1>2, <1>4, <1>5
<1> HIDE DEF V
<1>7. Largest(V) \in Nat
  BY <1>6, LargestOf
<1> QED
  BY <1>7 DEF V
-----------------------------------------------------------------------------
(* Once the branches are resolved *)

LEMMA BlocksResolved ==
  ASSUME GraphInv, Resolved
  PROVE  /\ Len(CFG) \in Nat /\ Len(CFG) > 0 /\ CFG[1].start_addr = 0
         /\ \A l : /\ Lookup(label_to_bbid, l) \in 0 .. Len(CFG) - 1
                   /\ CFG[Lookup(label_to_bbid, l) + 1].start_addr = Lookup(label_to_addr, l)
         /\ \A b \in 1 .. Len(CFG) :
              /\ Elements(CFG[b].next_BB) # {}
              /\ Elements(CFG[b].next_BB) \subseteq 0 .. Len(CFG) - 1
              /\ Falls(CFG[b].fragment, CFG[b].branch_BB) =>
                   b + 1 \in 1 .. Len(CFG) /\ b \in Elements(CFG[b].next_BB)
              /\ CFG[b].branch_BB # NoLabel =>
                   Lookup(label_to_bbid, CFG[b].branch_BB) \in Elements(CFG[b].next_BB)
<1> DEFINE here == Starts(CFG, bb.start_addr)
<1>1. /\ pass # "addresses" /\ pass \notin {"addresses", "blocks"}
      /\ CFG \in Seq(BlockType) /\ Len(CFG) \in Nat
      /\ text \in Seq(ASM!Line) /\ Len(text) \in Nat
  BY LenProperties DEF Resolved, GraphInv, StartsInv, TextInv, BlockInv
<1>2. i = Len(text) + 1 /\ Len(text) >= 2 /\ text[Len(text)].op = "NOOP"
  BY <1>1 DEF GraphInv, CountInv, ProgramInv
<1>3. i > 1 /\ text[i - 1].op = "NOOP"
  BY <1>1, <1>2
<1>4. Closed(CFG, label_to_bbid)
  BY <1>1, <1>3 DEF GraphInv, ClosedInv
<1>5. /\ Points(label_to_addr, text, Len(text) + 1, Itself)
      /\ Points(label_to_bbid, text, Len(text) + 1, here) /\ here[0] = 0
  BY <1>1, <1>2 DEF GraphInv, LabelsInv
<1>6. /\ DOMAIN here = 0 .. Len(CFG) /\ DOMAIN Itself = Nat /\ \A n \in Nat : Itself[n] = n
      /\ \A x \in 0 .. Len(CFG) - 1 : here[x] = CFG[x + 1].start_addr
  BY <1>1 DEF Starts, Itself
<1>7. Len(CFG) > 0 /\ ~ Falls(CFG[Len(CFG)].fragment, CFG[Len(CFG)].branch_BB)
      /\ \A l \in DOMAIN label_to_bbid : label_to_bbid[l] < Len(CFG)
  BY <1>4 DEF Closed
<1> HIDE DEF here
<1>8. CFG[1].start_addr = 0
  <2>1. 0 \in 0 .. Len(CFG) - 1 /\ 0 + 1 = 1
    BY <1>1, <1>7
  <2> QED
    BY <1>5, <1>6, <2>1
<1>9. ASSUME NEW l
      PROVE  /\ Lookup(label_to_bbid, l) \in 0 .. Len(CFG) - 1
             /\ CFG[Lookup(label_to_bbid, l) + 1].start_addr = Lookup(label_to_addr, l)
  <2>1. 0 \in DOMAIN Itself /\ 0 \in DOMAIN here /\ Itself[0] = here[0] /\ Len(text) + 1 \in Nat
    BY <1>1, <1>5, <1>6
  <2>2. /\ Lookup(label_to_addr, l) \in DOMAIN Itself /\ Lookup(label_to_bbid, l) \in DOMAIN here
        /\ Itself[Lookup(label_to_addr, l)] = here[Lookup(label_to_bbid, l)]
    BY <1>5, <2>1, PointsAgree
  <2>3. Lookup(label_to_bbid, l) < Len(CFG)
    BY <1>7 DEF Lookup
  <2>4. Lookup(label_to_bbid, l) \in 0 .. Len(CFG) - 1
    BY <1>1, <1>6, <2>2, <2>3
  <2> QED
    BY <1>6, <2>2, <2>4
<1>10. ASSUME NEW b \in 1 .. Len(CFG)
       PROVE  /\ Elements(CFG[b].next_BB) # {}
              /\ Elements(CFG[b].next_BB) \subseteq 0 .. Len(CFG) - 1
              /\ Falls(CFG[b].fragment, CFG[b].branch_BB) =>
                   b + 1 \in 1 .. Len(CFG) /\ b \in Elements(CFG[b].next_BB)
              /\ CFG[b].branch_BB # NoLabel =>
                   Lookup(label_to_bbid, CFG[b].branch_BB) \in Elements(CFG[b].next_BB)
  <2> DEFINE x == Lookup(label_to_bbid, CFG[b].branch_BB)
  <2>1. Elements(CFG[b].next_BB) = Successors(CFG[b], b, TRUE, label_to_bbid)
    BY DEF GraphInv, SuccessorsInv, AllSuccessors
  <2>2. Elements(CFG[b].next_BB)
          = { y \in {b, x} : \/ y = b /\ Falls(CFG[b].fragment, CFG[b].branch_BB)
                             \/ y = x /\ CFG[b].branch_BB # NoLabel }
    BY <2>1 DEF Successors
  <2>3. x \in 0 .. Len(CFG) - 1
    BY <1>9
  <2>4. Falls(CFG[b].fragment, CFG[b].branch_BB) => b # Len(CFG)
    BY <1>7
  <2>5. Falls(CFG[b].fragment, CFG[b].branch_BB) \/ CFG[b].branch_BB # NoLabel
    BY DEF Falls
  <2> HIDE DEF x
  <2>6. Falls(CFG[b].fragment, CFG[b].branch_BB) =>
          b + 1 \in 1 .. Len(CFG) /\ b \in 0 .. Len(CFG) - 1
    BY <1>1, <2>4
  <2>7. Elements(CFG[b].next_BB) # {} /\ Elements(CFG[b].next_BB) \subseteq 0 .. Len(CFG) - 1
    BY <2>2, <2>3, <2>5, <2>6
  <2>8. CFG[b].branch_BB # NoLabel => x \in Elements(CFG[b].next_BB)
    BY <2>2
  <2> QED
    BY <2>2, <2>6, <2>7, <2>8 DEF x
<1> QED
  BY <1>1, <1>7, <1>8, <1>9, <1>10

(***************************************************************************)
(* P is the sequence of the sets of blocks that can be reached: block 0    *)
(* first, and with a block, its successors one step later.                 *)
(***************************************************************************)
Follows(C, P) ==
  /\ P \in Seq(SUBSET (0 .. Len(C) - 1)) /\ Len(P) > 0 /\ 0 \in P[1]
  /\ \A k \in 1 .. Len(P) : P[k] # {}
  /\ \A k \in 1 .. Len(P) - 1 : \A b \in P[k] : Elements(C[b + 1].next_BB) \subseteq P[k + 1]

\* The accesses counted for the first k steps
Counts(C, path, sum, acc) ==
  /\ acc \in [Nat -> Nat] /\ acc[0] = 0 /\ acc[Len(path)] = sum
  /\ \A k \in 1 .. Len(path) :
       acc[k] = acc[k - 1] + Largest({ C[b + 1].acc_cnt : b \in path[k] })
  /\ \A j, k \in 0 .. Len(path) : j <= k => acc[j] <= acc[k]

PathInv ==
  /\ BBPath \in Seq(SUBSET Nat) /\ Len(BBPath) <= GiantStep
  /\ ~ Resolved => BBPath = <<>> /\ check = {0} /\ sum_acc_cnt = 0
  /\ Resolved => Follows(CFG, Append(BBPath, check))
  /\ pass = "run" => Len(BBPath) = GiantStep
  /\ \E acc : Counts(CFG, BBPath, sum_acc_cnt, acc)

CfgInv == GraphInv /\ PathInv

LEMMA CountsNone ==
  ASSUME NEW C
  PROVE  Counts(C, <<>>, 0, [n \in Nat |-> 0])
<1> DEFINE acc == [n \in Nat |-> 0]
<1>1. acc \in [Nat -> Nat] /\ \A n \in Nat : acc[n] = 0
  OBVIOUS
<1>2. Len(<<>>) = 0
  BY EmptySeq
<1> HIDE DEF acc
<1>3. Counts(C, <<>>, 0, acc)
  BY <1>1, <1>2 DEF Counts
<1> QED
  BY <1>3 DEF acc

LEMMA CountsMore ==
  ASSUME NEW C, NEW path \in Seq(SUBSET Nat), NEW sum, NEW next,
         NEW acc, Counts(C, path, sum, acc),
         NEW most \in Nat, most = Largest({ C[b + 1].acc_cnt : b \in next })
  PROVE  \E more : Counts(C, Append(path, next), sum + most, more)
<1> DEFINE n == Len(path)
           P == Append(path, next)
           total == sum + most
           more == [k \in Nat |-> IF k = n + 1 THEN total ELSE acc[k]]
<1>1. /\ n \in Nat /\ Len(P) = n + 1 /\ P[n + 1] = next
      /\ \A k \in 1 .. n : P[k] = path[k]
  OBVIOUS
<1>2. /\ acc \in [Nat -> Nat] /\ acc[0] = 0 /\ acc[n] = sum
      /\ \A k \in 1 .. n : acc[k] = acc[k - 1] + Largest({ C[b + 1].acc_cnt : b \in path[k] })
      /\ \A j, k \in 0 .. n : j <= k => acc[j] <= acc[k]
  BY DEF Counts
<1> HIDE DEF P, n
<1>3. sum \in Nat /\ sum + most \in Nat
  <2>1. sum \in Nat
    BY <1>1, <1>2
  <2> QED
    BY <2>1
<1>4. more \in [Nat -> Nat] /\ more[n + 1] = sum + most /\ \A k \in 0 .. n : more[k] = acc[k]
  <2>1. total \in Nat
    BY <1>3
  <2> HIDE DEF total
  <2>2. more \in [Nat -> Nat]
    BY <1>2, <2>1
  <2>3. more[n + 1] = total
    BY <1>1
  <2>4. \A k \in 0 .. n : more[k] = acc[k]
    BY <1>1
  <2> QED
    BY <2>2, <2>3, <2>4 DEF total
<1> HIDE DEF more
<1>5. ASSUME NEW k \in 1 .. n + 1
      PROVE  more[k] = more[k - 1] + Largest({ C[b + 1].acc_cnt : b \in P[k] })
  <2>1. CASE k \in 1 .. n
    <3>1. k - 1 \in 0 .. n /\ k \in 0 .. n
      BY <1>1, <2>1
    <3>2. more[k] = acc[k] /\ more[k - 1] = acc[k - 1] /\ P[k] = path[k]
      BY <1>1, <1>4, <2>1, <3>1
    <3> QED
      BY <1>2, <2>1, <3>2
  <2>2. CASE k = n + 1
    <3>1. k - 1 = n /\ n \in 0 .. n
      BY <1>1, <2>2
    <3> QED
      BY <1>1, <1>2, <1>4, <2>2, <3>1
  <2> QED
    BY <1>1, <2>1, <2>2
<1>6. ASSUME NEW j \in 0 .. n + 1, NEW k \in 0 .. n + 1, j <= k
      PROVE  more[j] <= more[k]
  <2>1. CASE k \in 0 .. n
    <3>1. j \in 0 .. n
      BY <1>1, <1>6, <2>1
    <3>2. acc[j] <= acc[k]
      BY <1>2, <1>6, <2>1, <3>1
    <3> QED
      BY <1>4, <2>1, <3>1, <3>2
  <2>2. CASE k = n + 1 /\ j = n + 1
    BY <1>3, <1>4, <2>2
  <2>3. CASE k = n + 1 /\ j \in 0 .. n
    <3>1. n \in 0 .. n /\ j <= n /\ j \in Nat
      BY <1>1, <2>3
    <3>2. acc[j] <= sum
      BY <1>2, <2>3, <3>1
    <3>3. acc[j] \in Nat
      BY <1>2, <3>1
    <3>4. acc[j] <= sum + most
      BY <1>3, <3>2, <3>3
    <3> QED
      BY <1>4, <2>3, <3>4
  <2> QED
    BY <1>1, <2>1, <2>2, <2>3
<1>7. Counts(C, P, sum + most, more)
  <2>1. 0 \in 0 .. n
    BY <1>1
  <2> QED
    BY <1>1, <1>2, <1>4, <1>5, <1>6, <2>1 DEF Counts
<1> QED
  BY <1>7 DEF P
-----------------------------------------------------------------------------
\* One step further along the graph
LEMMA FollowsMore ==
  ASSUME NEW C, Len(C) \in Nat, NEW P, Follows(C, P), NEW next,
         \A b \in P[Len(P)] : /\ Elements(C[b + 1].next_BB) # {}
                              /\ Elements(C[b + 1].next_BB) \subseteq 0 .. Len(C) - 1
                              /\ Elements(C[b + 1].next_BB) \subseteq next,
         next \in SUBSET (0 .. Len(C) - 1)
  PROVE  Follows(C, Append(P, next))
<1> DEFINE Q == Append(P, next)
           T == SUBSET (0 .. Len(C) - 1)
           n == Len(P)
<1>1. P \in Seq(T) /\ next \in T /\ n > 0
  BY DEF Follows
<1> HIDE DEF T
<1>2. /\ Q \in Seq(T) /\ n \in Nat /\ Len(Q) = n + 1 /\ Q[n + 1] = next
      /\ \A k \in 1 .. n : Q[k] = P[k]
  BY <1>1, AppendProperties, LenProperties
<1>3. /\ 0 \in P[1] /\ \A k \in 1 .. n : P[k] # {}
      /\ \A k \in 1 .. n - 1 : \A b \in P[k] : Elements(C[b + 1].next_BB) \subseteq P[k + 1]
  BY DEF Follows
<1> HIDE DEF n, Q
<1>4. n \in 1 .. n /\ 1 \in 1 .. n
  BY <1>1, <1>2
<1>5. next # {}
  <2>1. PICK b \in P[n] : TRUE
    BY <1>3, <1>4
  <2> QED
    BY <2>1 DEF n
<1>6. 0 \in Q[1]
  BY <1>2, <1>3, <1>4
<1>7. \A k \in 1 .. n + 1 : Q[k] # {}
  <2> TAKE k \in 1 .. n + 1
  <2>1. k \in 1 .. n \/ k = n + 1
    BY <1>2
  <2> QED
    BY <1>2, <1>3, <1>5, <2>1
<1>8. ASSUME NEW k \in 1 .. n, NEW b \in Q[k]
      PROVE  Elements(C[b + 1].next_BB) \subseteq Q[k + 1]
  <2>1. Q[k] = P[k]
    BY <1>2
  <2>2. CASE k \in 1 .. n - 1
    <3>1. k + 1 \in 1 .. n
      BY <1>2, <2>2
    <3> QED
      BY <1>2, <1>3, <1>8, <2>1, <2>2, <3>1
  <2>3. CASE k = n
    BY <1>2, <1>8, <2>1, <2>3 DEF n
  <2> QED
    BY <1>2, <2>2, <2>3
<1>9. Follows(C, Q)
  <2>1. n + 1 > 0 /\ (n + 1) - 1 = n
    BY <1>2
  <2> QED
    BY <1>2, <1>6, <1>7, <1>8, <2>1 DEF Follows, T
<1> QED
  BY <1>9 DEF Q

LEMMA CfgInvInit == CfgInit => CfgInv
<1> SUFFICES ASSUME CfgInit PROVE CfgInv
  OBVIOUS
<1>1. pass = "addresses" /\ BBPath = <<>> /\ check = {0} /\ sum_acc_cnt = 0
  BY DEF CfgInit
<1>2. \E acc : Counts(CFG, <<>>, 0, acc)
  BY CountsNone
<1>3. \E acc : Counts(CFG, BBPath, sum_acc_cnt, acc)
  BY <1>1, <1>2, Zenon
<1>4. BBPath \in Seq(SUBSET Nat) /\ Len(BBPath) <= GiantStep
  <2>1. Len(BBPath) = 0
    BY <1>1, EmptySeq
  <2>2. BBPath \in Seq(SUBSET Nat)
    BY <1>1, EmptySeq
  <2> QED
    BY <2>1, <2>2, GiantStepAssumption
<1>5. ~ Resolved /\ pass # "run"
  BY <1>1 DEF Resolved
<1>6. PathInv
  BY <1>1, <1>3, <1>4, <1>5 DEF PathInv
<1> QED
  BY <1>6, GraphInit DEF CfgInv

LEMMA GraphStep ==
  ASSUME GraphInv, GenerateCFG
  PROVE  GraphInv'
  BY GraphAddressPass, GraphEndAddressPass, GraphLabelLine, GraphLocalLine, GraphEndLines,
     GraphEndBlockPass, GraphResolve DEF GenerateCFG

\* While the graph is built there is no path yet; then it starts at block 0
LEMMA CfgInvStep ==
  ASSUME CfgInv, GenerateCFG
  PROVE  CfgInv'
<1>1. GraphInv'
  BY GraphStep DEF CfgInv
<1>2. UNCHANGED <<check, BBPath, sum_acc_cnt>>
  BY DEF GenerateCFG, AddressPass, EndAddressPass, LabelLine, LocalLine, JumpLine,
         ConditionalLine, HaltLine, NoopLine, EndBlock, EndBlockPass, Resolve, pathVars
<1>3. ~ Resolved /\ pass' # "run" /\ (Resolved' => Resolve)
  <2>1. CASE Resolve
    BY <2>1 DEF Resolve, Resolved
  <2>2. CASE AddressPass \/ LabelLine \/ LocalLine
    BY <2>2 DEF AddressPass, LabelLine, LocalLine, At, Resolved
  <2>3. CASE EndAddressPass \/ EndBlockPass
    BY <2>3 DEF EndAddressPass, EndBlockPass, Resolved
  <2>4. CASE JumpLine \/ ConditionalLine \/ HaltLine \/ NoopLine
    BY <2>4 DEF JumpLine, ConditionalLine, HaltLine, NoopLine, EndBlock, At, Resolved
  <2> QED
    BY <2>1, <2>2, <2>3, <2>4 DEF GenerateCFG
<1>4. BBPath = <<>> /\ check = {0} /\ sum_acc_cnt = 0
  BY <1>3 DEF CfgInv, PathInv
<1>5. \E acc : Counts(CFG', BBPath', sum_acc_cnt', acc)
  <2>1. \E acc : Counts(CFG', <<>>, 0, acc)
    BY CountsNone
  <2> QED
    BY <1>2, <1>4, <2>1, Zenon
<1>6. Resolved' => Follows(CFG', Append(BBPath', check'))
  <2> SUFFICES ASSUME Resolved' PROVE Follows(CFG', Append(<<>>, {0}))
    BY <1>2, <1>4, Zenon
  <2>1. pass = "resolve" /\ pass' = "path"
    BY <1>3 DEF Resolve
  <2>2. Closed(CFG', label_to_bbid')
    <3>1. /\ i' = Len(text') + 1 /\ Len(text') >= 2 /\ text'[Len(text')].op = "NOOP"
          /\ text' \in Seq(ASM!Line)
      BY <1>1, <2>1 DEF GraphInv, CountInv, ProgramInv, StartsInv, TextInv
    <3>2. Len(text') \in Nat
      BY <3>1, LenProperties
    <3>3. i' > 1 /\ i' - 1 = Len(text')
      BY <3>1, <3>2
    <3>4. ClosedInv' /\ pass' # "addresses"
      BY <1>1, <2>1 DEF GraphInv
    <3> QED
      BY <3>1, <3>3, <3>4 DEF ClosedInv
  <2>3. CFG' \in Seq(BlockType)
    BY <1>1 DEF GraphInv, StartsInv, BlockInv
  <2> DEFINE n == Len(CFG')
             P == Append(<<>>, {0})
  <2>4. n \in Nat /\ n > 0
    BY <2>2, <2>3, LenProperties DEF Closed
  <2>5. P = <<{0}>> /\ Len(P) = 1 /\ P[1] = {0}
    OBVIOUS
  <2> HIDE DEF n
  <2>6. {0} \in SUBSET (0 .. n - 1)
    BY <2>4
  <2>7. P \in Seq(SUBSET (0 .. n - 1))
    BY <2>5, <2>6
  <2> HIDE DEF P
  <2> QED
    BY <2>5, <2>7 DEF Follows, n, P
<1>7. PathInv'
  BY <1>2, <1>3, <1>4, <1>5, <1>6 DEF CfgInv, PathInv
<1> QED
  BY <1>1, <1>7 DEF CfgInv

\* GenerateBBPath leaves the graph alone
LEMMA GraphKept ==
  ASSUME GraphInv, GenerateBBPath \/ UNCHANGED cfgVars
  PROVE  GraphInv'
<1>1. /\ UNCHANGED <<text, label_to_addr, i, ctr, label_to_bbid, bb, CFG>>
      /\ pass' = pass \/ (pass = "path" /\ pass' = "run")
  <2>1. CASE PathStep
    BY <2>1 DEF PathStep, passVars
  <2>2. CASE EndPath
    BY <2>2 DEF EndPath, passVars
  <2>3. CASE UNCHANGED cfgVars
    BY <2>3 DEF cfgVars
  <2> QED
    BY <2>1, <2>2, <2>3 DEF GenerateBBPath
<1>2. StartsInv'
  BY StartsKept DEF GraphInv
<1>3. ProgramInv' /\ CountInv' /\ LabelsInv' /\ FinishedInv'
  BY <1>1 DEF GraphInv, ProgramInv, CountInv, LabelsInv, FinishedInv
<1>4. OpenBodyInv' /\ ClosedInv' /\ SuccessorsInv'
  BY <1>1 DEF GraphInv, OpenBodyInv, ClosedInv, SuccessorsInv, Resolved
<1> QED
  BY <1>2, <1>3, <1>4 DEF GraphInv

\* What the path says of the blocks of the next step
LEMMA CheckExists ==
  ASSUME CfgInv, Resolved
  PROVE  /\ check # {} /\ check \subseteq 0 .. Len(CFG) - 1
         /\ BBPath \in Seq(SUBSET (0 .. Len(CFG) - 1))
<1> DEFINE P == Append(BBPath, check)
<1>1. Follows(CFG, P) /\ BBPath \in Seq(SUBSET Nat)
  BY DEF CfgInv, PathInv
<1>2. /\ Len(BBPath) \in Nat /\ Len(P) = Len(BBPath) + 1 /\ P[Len(BBPath) + 1] = check
      /\ \A k \in 1 .. Len(BBPath) : P[k] = BBPath[k]
  BY <1>1, AppendProperties, LenProperties
<1> HIDE DEF P
<1>3. \A k \in 1 .. Len(P) : P[k] # {} /\ P[k] \in SUBSET (0 .. Len(CFG) - 1)
  <2>1. P \in Seq(SUBSET (0 .. Len(CFG) - 1))
    BY <1>1 DEF Follows
  <2> QED
    BY <1>1, <2>1, ElementOfSeq DEF Follows
<1>4. Len(BBPath) + 1 \in 1 .. Len(P) /\ \A k \in 1 .. Len(BBPath) : k \in 1 .. Len(P)
  BY <1>2
<1>5. \A k \in 1 .. Len(BBPath) : BBPath[k] \in SUBSET (0 .. Len(CFG) - 1)
  BY <1>2, <1>3, <1>4
<1> QED
  BY <1>1, <1>2, <1>3, <1>4, <1>5, SeqDef

LEMMA CfgInvPath ==
  ASSUME CfgInv, PathStep
  PROVE  CfgInv'
<1>1. /\ pass = "path" /\ Len(BBPath) < GiantStep
      /\ BBPath' = Append(BBPath, check)
      /\ sum_acc_cnt' = sum_acc_cnt + Largest({ CFG[b + 1].acc_cnt : b \in check })
      /\ check' = UNION { Elements(CFG[b + 1].next_BB) : b \in check }
      /\ UNCHANGED <<CFG, pass>>
  BY Zenon DEF PathStep, AccCnt, NextOf, Elements
<1>2. GraphInv' /\ Resolved /\ Resolved'
  <2>1. GraphInv'
    BY GraphKept DEF GenerateBBPath, CfgInv
  <2> QED
    BY <1>1, <2>1 DEF Resolved
<1>3. GraphInv /\ CFG \in Seq(BlockType)
  BY DEF CfgInv, GraphInv, StartsInv, BlockInv
<1>4. /\ Len(CFG) \in Nat
      /\ \A b \in 1 .. Len(CFG) : /\ Elements(CFG[b].next_BB) # {}
                                  /\ Elements(CFG[b].next_BB) \subseteq 0 .. Len(CFG) - 1
  BY <1>2, <1>3, BlocksResolved
<1>5. check # {} /\ check \in SUBSET (0 .. Len(CFG) - 1)
  BY <1>2, CheckExists
<1>6. \A b \in check : b + 1 \in 1 .. Len(CFG)
  BY <1>4, <1>5
<1>7. check' \in SUBSET (0 .. Len(CFG) - 1)
  BY <1>1, <1>4, <1>6
<1>8. BBPath \in Seq(SUBSET Nat) /\ Len(BBPath) \in Nat
  BY LenProperties DEF CfgInv, PathInv
<1> DEFINE P == Append(BBPath, check)
<1>9. /\ Len(P) = Len(BBPath) + 1 /\ P[Len(P)] = check
  BY <1>8, AppendProperties
<1>10. Follows(CFG, P)
  BY <1>2 DEF CfgInv, PathInv
<1> HIDE DEF P
<1>11. Follows(CFG, Append(P, check'))
  <2>1. \A b \in P[Len(P)] : /\ Elements(CFG[b + 1].next_BB) # {}
                             /\ Elements(CFG[b + 1].next_BB) \subseteq 0 .. Len(CFG) - 1
                             /\ Elements(CFG[b + 1].next_BB) \subseteq check'
    BY <1>1, <1>4, <1>6, <1>9
  <2> QED
    BY <1>4, <1>7, <1>10, <2>1, FollowsMore
<1>12. \E acc : Counts(CFG, P, sum_acc_cnt', acc)
  <2>1. PICK acc : Counts(CFG, BBPath, sum_acc_cnt, acc)
    BY DEF CfgInv, PathInv
  <2> DEFINE most == Largest({ CFG[b + 1].acc_cnt : b \in check })
  <2>2. most \in Nat
    BY <1>3, <1>5, LargestAccesses
  <2> HIDE DEF most
  <2>3. \E more : Counts(CFG, Append(BBPath, check), sum_acc_cnt + most, more)
    BY <1>8, <2>1, <2>2, CountsMore DEF most
  <2> QED
    BY <1>1, <2>3 DEF most, P
<1>13. BBPath' \in Seq(SUBSET Nat) /\ Len(BBPath') <= GiantStep
  <2>1. check \in SUBSET Nat
    BY <1>5
  <2>2. P \in Seq(SUBSET Nat)
    BY <1>8, <2>1, AppendProperties DEF P
  <2>3. Len(P) <= GiantStep
    BY <1>1, <1>8, <1>9, GiantStepAssumption
  <2> QED
    BY <1>1, <2>2, <2>3 DEF P
<1>14. PathInv'
  BY <1>1, <1>2, <1>11, <1>12, <1>13 DEF PathInv, P
<1> QED
  BY <1>2, <1>14 DEF CfgInv

LEMMA CfgInvKept ==
  ASSUME CfgInv, EndPath \/ UNCHANGED cfgVars
  PROVE  CfgInv'
<1>1. GraphInv'
  BY GraphKept DEF CfgInv, GenerateBBPath
<1>2. /\ UNCHANGED <<CFG, check, BBPath, sum_acc_cnt>>
      /\ pass' = pass \/ (pass = "path" /\ pass' = "run" /\ Len(BBPath) = GiantStep)
  <2>1. CASE EndPath
    BY <2>1 DEF EndPath, passVars, pathVars
  <2>2. CASE UNCHANGED cfgVars
    BY <2>2 DEF cfgVars, pathVars
  <2> QED
    BY <2>1, <2>2
<1>3. PathInv'
  BY <1>2 DEF CfgInv, PathInv, Resolved
<1> QED
  BY <1>1, <1>3 DEF CfgInv

LEMMA CfgInvNext ==
  ASSUME CfgInv, [CfgNext]_cfgVars
  PROVE  CfgInv'
  BY CfgInvStep, CfgInvPath, CfgInvKept DEF CfgNext, GenerateBBPath

LEMMA CfgInvariant == CfgSpec => []CfgInv
<1>1. CfgInit => CfgInv
  BY CfgInvInit
<1>2. CfgInv /\ [CfgNext]_cfgVars => CfgInv'
  BY CfgInvNext
<1> QED
  BY <1>1, <1>2, PTL DEF CfgSpec

\* What the two properties say, of a state
LEMMA CfgPassesAgree ==
  ASSUME CfgInv
  PROVE  PassesAgree
<1> SUFFICES ASSUME pass \in {"path", "run"}, NEW b \in DOMAIN CFG
             PROVE  CFG[Lookup(label_to_bbid, CFG[b].branch_BB) + 1].start_addr
                      = Lookup(label_to_addr, CFG[b].branch_BB)
  BY Zenon DEF PassesAgree
<1> QED
  BY BlocksResolved DEF Resolved, CfgInv

LEMMA CfgSuccessorsExist ==
  ASSUME CfgInv
  PROVE  SuccessorsExist
<1> SUFFICES ASSUME Resolved
             PROVE  /\ \A b \in Blocks : NextOf(b) # {} /\ NextOf(b) \subseteq Blocks
                    /\ check # {} /\ check \subseteq Blocks
  BY DEF SuccessorsExist, Resolved
<1>1. check # {} /\ check \subseteq 0 .. Len(CFG) - 1
  BY CheckExists
<1>2. /\ Len(CFG) \in Nat
      /\ \A b \in 1 .. Len(CFG) : /\ Elements(CFG[b].next_BB) # {}
                                  /\ Elements(CFG[b].next_BB) \subseteq 0 .. Len(CFG) - 1
  BY BlocksResolved DEF CfgInv
<1>3. \A b \in 0 .. Len(CFG) - 1 : NextOf(b) = Elements(CFG[b + 1].next_BB)
  BY Zenon DEF NextOf, Elements
<1>4. \A b \in 0 .. Len(CFG) - 1 : b + 1 \in 1 .. Len(CFG)
  BY <1>2
<1> QED
  BY <1>1, <1>2, <1>3, <1>4 DEF Blocks

(***************************************************************************)
(* For every program, whatever its labels: the address that a jump writes  *)
(* into PC is the start address of the block that is activated for it.     *)
(***************************************************************************)
THEOREM PassesAlwaysAgree == CfgSpec => []PassesAgree
<1>1. CfgInv => PassesAgree
  BY CfgPassesAgree
<1> QED
  BY <1>1, CfgInvariant, PTL

(***************************************************************************)
(* For every program: every successor is a block, every block has one, and *)
(* no step of GenerateBBPath is left without an active block.              *)
(***************************************************************************)
THEOREM SuccessorsAlwaysExist == CfgSpec => []SuccessorsExist
<1>1. CfgInv => SuccessorsExist
  BY CfgSuccessorsExist
<1> QED
  BY <1>1, CfgInvariant, PTL

-----------------------------------------------------------------------------
(* One block *)

\* The instructions of a fragment that are instructions of the program
BodyLen(f) == Len(f) - LastLine(f)

(***************************************************************************)
(* How the fragment f of a finished block ends, by its last instruction:   *)
(* where it leaves PC, unless it is a conditional jump.                    *)
(***************************************************************************)
LEMMA ShapeEnds ==
  ASSUME NEW t, NEW addrs, NEW start \in Nat, NEW f \in Seq(InstType), NEW branch, NEW next,
         Shape(t, addrs, start, f, branch, next)
  PROVE  /\ BodyLen(f) \in Nat /\ Len(f) \in Nat /\ BodyLen(f) < Len(f)
         /\ Body(t, start, f, BodyLen(f))
         /\ LastLine(f) \in {1, 5}
         /\ \/ LastLine(f) = 1 /\ RunsInto(start, f, branch, BodyLen(f), next)
            \/ LastLine(f) = 1 /\ JumpsTo(t, addrs, start, f, branch, BodyLen(f))
            \/ LastLine(f) = 5 /\ Selects(t, addrs, start, f, branch, BodyLen(f), next)
            \/ LastLine(f) = 1 /\ Idles(t, start, f, branch, BodyLen(f))
<1>1. PICK m \in Nat : /\ Body(t, start, f, m)
                       /\ \/ RunsInto(start, f, branch, m, next)
                          \/ JumpsTo(t, addrs, start, f, branch, m)
                          \/ Selects(t, addrs, start, f, branch, m, next)
                          \/ Idles(t, start, f, branch, m)
  BY DEF Shape
<1>2. Len(f) \in Nat
  BY LenProperties
<1>3. CASE RunsInto(start, f, branch, m, next)
  <2>1. Len(f) = m + 1 /\ f[Len(f)].op = "IMM"
    BY <1>3 DEF RunsInto, Imm, Inst
  <2>2. LastLine(f) = 1
    BY <2>1 DEF LastLine
  <2>3. BodyLen(f) = m
    BY <1>2, <2>1, <2>2 DEF BodyLen
  <2>4. m < Len(f)
    BY <1>2, <2>1
  <2> QED
    BY <1>1, <1>2, <1>3, <2>2, <2>3, <2>4
<1>4. CASE JumpsTo(t, addrs, start, f, branch, m)
  <2>1. Len(f) = m + 1 /\ f[Len(f)].op = "IMM"
    BY <1>4 DEF JumpsTo, Imm, Inst
  <2>2. LastLine(f) = 1
    BY <2>1 DEF LastLine
  <2>3. BodyLen(f) = m
    BY <1>2, <2>1, <2>2 DEF BodyLen
  <2>4. m < Len(f)
    BY <1>2, <2>1
  <2> QED
    BY <1>1, <1>2, <1>4, <2>2, <2>3, <2>4
<1>5. CASE Selects(t, addrs, start, f, branch, m, next)
  <2>1. PICK k : /\ Len(f) = m + 5
                 /\ \A j \in 1 .. 5 : f[m + j] = SelectPC(t[k].op, next, Lookup(addrs, branch))[j]
    BY <1>5 DEF Selects
  <2>2. f[Len(f)] = SelectPC(t[k].op, next, Lookup(addrs, branch))[5]
    BY <2>1
  <2>3. f[Len(f)].op = "XOR"
    BY <2>2 DEF SelectPC, Inst
  <2>4. LastLine(f) = 5
    BY <2>3 DEF LastLine
  <2>5. BodyLen(f) = m
    BY <1>2, <2>1, <2>4 DEF BodyLen
  <2>6. m < Len(f)
    BY <1>2, <2>1
  <2> QED
    BY <1>1, <1>2, <1>5, <2>4, <2>5, <2>6
<1>6. CASE Idles(t, start, f, branch, m)
  <2> DEFINE x == Inst("NOOP", "GR", 0)
  <2>1. f = <<x>> /\ x.op = "NOOP" /\ m = 0
    BY <1>6 DEF Idles, Inst
  <2> HIDE DEF x
  <2>2. Len(f) = 1 /\ f[1].op = "NOOP"
    BY <2>1
  <2>3. LastLine(f) = 1
    BY <2>2 DEF LastLine
  <2>4. BodyLen(f) = m
    BY <2>1, <2>2, <2>3 DEF BodyLen
  <2>5. m < Len(f)
    BY <2>1, <2>2
  <2> QED
    BY <1>1, <1>2, <1>6, <2>3, <2>4, <2>5
<1> QED
  BY <1>1, <1>3, <1>4, <1>5, <1>6

\* No two instructions have the same address
LEMMA OneLine ==
  ASSUME NEW t, Len(t) \in Nat, NEW a, NEW j, NEW k, LineAt(t, a, j), LineAt(t, a, k)
  PROVE  j = k
<1>1. /\ j \in Nat \ {0} /\ k \in Nat \ {0} /\ t[j].op # "label" /\ t[k].op # "label"
      /\ Before(t, j) = Before(t, k)
  BY DEF LineAt
<1>2. ~ (j < k)
  <2> SUFFICES ASSUME j < k PROVE FALSE
    OBVIOUS
  <2>1. Before(t, j) < Before(t, k)
    BY <1>1, BeforeGrows
  <2> QED
    BY <1>1, <2>1, InstructionsFinite
<1>3. ~ (k < j)
  <2> SUFFICES ASSUME k < j PROVE FALSE
    OBVIOUS
  <2>1. Before(t, k) < Before(t, j)
    BY <1>1, BeforeGrows
  <2> QED
    BY <1>1, <2>1, InstructionsFinite
<1> QED
  BY <1>1, <1>2, <1>3

\* The masks of a conditional jump clear SP0, the next address, when it is
\* taken, and SP1, the target, when it is not
LEMMA MasksSelect ==
  ASSUME NEW op \in ASM!Conditional, flag \in ASM!Flags, NEW value
  PROVE  /\ Masked(Masks(op)[1], value) = IF ASM!Taken(op, flag) THEN 0 ELSE value
         /\ Masked(Masks(op)[2], value) = IF ASM!Taken(op, flag) THEN value ELSE 0
         /\ Masks(op)[1] \in {"AND0", "ANDN0", "AND1", "ANDN1"}
         /\ Masks(op)[2] \in {"AND0", "ANDN0", "AND1", "ANDN1"}
<1>1. CASE op \in {"JE", "JB"}
  <2>1. Masks(op) = <<"ANDN0", "AND0">>
    BY <1>1 DEF Masks
  <2>2. Masks(op)[1] = "ANDN0" /\ Masks(op)[2] = "AND0"
    BY <2>1
  <2>3. ASM!Taken(op, flag) = flag[1]
    BY <1>1, Zenon DEF ASM!Taken
  <2> QED
    BY <2>2, <2>3, Zenon DEF Masked
<1>2. CASE op = "JNE"
  <2>1. Masks(op) = <<"AND0", "ANDN0">>
    BY <1>2 DEF Masks
  <2>2. Masks(op)[1] = "AND0" /\ Masks(op)[2] = "ANDN0"
    BY <2>1
  <2>3. ASM!Taken(op, flag) = ~ flag[1]
    BY <1>2, Zenon DEF ASM!Taken
  <2> QED
    BY <2>2, <2>3, Zenon DEF Masked
<1>3. CASE op = "JL"
  <2>1. Masks(op) = <<"ANDN1", "AND1">>
    BY <1>3 DEF Masks
  <2>2. Masks(op)[1] = "ANDN1" /\ Masks(op)[2] = "AND1"
    BY <2>1
  <2>3. ASM!Taken(op, flag) = flag[2]
    BY <1>3, Zenon DEF ASM!Taken
  <2> QED
    BY <2>2, <2>3, Zenon DEF Masked
<1> QED
  BY <1>1, <1>2, <1>3, Zenon DEF ASM!Conditional
-----------------------------------------------------------------------------
(* The invariant of the execution *)

\* Nothing runs before the path is known
WaitInv == /\ step \in 0 .. GiantStep /\ at \in Nat /\ flag \in ASM!Flags
           /\ block = None => at = 0
           /\ pass # "run" => block = None /\ step = 0 /\ PC = 0 /\ accesses = 0

\* Between two blocks PC is the start of a block foreseen for the next step
BetweenInv == pass = "run" /\ block = None /\ step < GiantStep =>
  \E b \in Active : CFG[b + 1].start_addr = PC

(***************************************************************************)
(* The block that runs is one of those foreseen.  Only its last            *)
(* instruction writes PC, if any does, and then PC is the start of one of  *)
(* its successors.                                                         *)
(***************************************************************************)
InsideInv == block # None =>
  /\ pass = "run" /\ step < GiantStep /\ block \in Active /\ at <= Len(Fragment)
  /\ at < Len(Fragment) => PC = CFG[block + 1].start_addr
  /\ at = Len(Fragment) =>
       \E b \in Elements(CFG[block + 1].next_BB) : CFG[b + 1].start_addr = PC

\* How far the selection of one of two addresses has come: both are loaded,
\* and then one is cleared
Chosen(sp0, sp1, taken, next, target, done) ==
  /\ done >= 1 => sp0 = IF done >= 3 /\ taken THEN 0 ELSE next
  /\ done >= 2 => sp1 = IF done >= 4 /\ ~ taken THEN 0 ELSE target

SelectSound(t, addrs, start, f, n, sp0, sp1, flg) ==
  LastLine(f) = 5 /\ n < Len(f) =>
    \A k : LineAt(t, start + BodyLen(f), k) =>
             Chosen(sp0, sp1, ASM!Taken(t[k].op, flg), start + BodyLen(f) + 1,
                    Lookup(addrs, t[k].label), n - BodyLen(f))

SelectInv == block # None =>
  SelectSound(text, label_to_addr, CFG[block + 1].start_addr, Fragment, at, SP0, SP1, flag)

\* The accesses made are those counted for the steps executed
CountedInv == pass = "run" =>
  \E acc : Counts(CFG, BBPath, sum_acc_cnt, acc) /\ accesses = acc[step]

RunInv == /\ CfgInv /\ WaitInv /\ BetweenInv /\ InsideInv /\ SelectInv /\ CountedInv

\* What GenerateBBPath foresees for a step that is still to come
LEMMA ActiveBlocks ==
  ASSUME CfgInv, pass = "run" \/ (pass = "path" /\ Len(BBPath) = GiantStep)
  PROVE  /\ Len(CFG) \in Nat /\ Len(BBPath) = GiantStep /\ GiantStep \in Nat
         /\ GiantStep > 0 => 0 \in BBPath[1]
         /\ \A k \in 1 .. GiantStep : /\ BBPath[k] \in SUBSET (0 .. Len(CFG) - 1)
                                      /\ \A b \in BBPath[k] : b \in Nat /\ b + 1 \in 1 .. Len(CFG)
         /\ \A k \in 1 .. GiantStep - 1 : \A b \in BBPath[k] :
              Elements(CFG[b + 1].next_BB) \subseteq BBPath[k + 1]
<1>1. Resolved /\ Len(BBPath) = GiantStep /\ GiantStep \in Nat
  BY GiantStepAssumption DEF Resolved, CfgInv, PathInv
<1>2. CFG \in Seq(BlockType) /\ Len(CFG) \in Nat
  BY LenProperties DEF CfgInv, GraphInv, StartsInv, BlockInv
<1>3. BBPath \in Seq(SUBSET (0 .. Len(CFG) - 1))
  BY <1>1, CheckExists
<1> DEFINE P == Append(BBPath, check)
<1>4. Follows(CFG, P)
  BY <1>1 DEF CfgInv, PathInv
<1>5. Len(P) = GiantStep + 1 /\ \A k \in 1 .. GiantStep : P[k] = BBPath[k]
  BY <1>1, <1>3, AppendProperties
<1> HIDE DEF P
<1>6. ASSUME NEW k \in 1 .. GiantStep
      PROVE  /\ BBPath[k] \in SUBSET (0 .. Len(CFG) - 1)
             /\ \A b \in BBPath[k] : b \in Nat /\ b + 1 \in 1 .. Len(CFG)
  <2>1. BBPath[k] \in SUBSET (0 .. Len(CFG) - 1)
    BY <1>1, <1>3, ElementOfSeq
  <2> QED
    BY <1>2, <2>1
<1>7. GiantStep > 0 => 0 \in BBPath[1]
  BY <1>1, <1>4, <1>5 DEF Follows
<1>8. ASSUME NEW k \in 1 .. GiantStep - 1, NEW b \in BBPath[k]
      PROVE  Elements(CFG[b + 1].next_BB) \subseteq BBPath[k + 1]
  <2>1. /\ k \in 1 .. Len(P) - 1 /\ k \in 1 .. GiantStep /\ k + 1 \in 1 .. GiantStep
    BY <1>1, <1>5
  <2>2. P[k] = BBPath[k] /\ P[k + 1] = BBPath[k + 1]
    BY <1>5, <2>1
  <2> QED
    BY <1>4, <1>8, <2>1, <2>2 DEF Follows
<1> QED
  BY <1>1, <1>2, <1>6, <1>7, <1>8

\* What is known of one of its blocks
LEMMA BlockShape ==
  ASSUME CfgInv, Resolved, NEW b \in Nat, b + 1 \in 1 .. Len(CFG)
  PROVE  /\ CFG[b + 1] \in BlockType /\ CFG[b + 1].start_addr \in Nat
         /\ CFG[b + 1].fragment \in Seq(InstType)
         /\ CFG[b + 1].acc_cnt = AccessesOf(b)
         /\ \E next :
              /\ Shape(text, label_to_addr, CFG[b + 1].start_addr, CFG[b + 1].fragment,
                       CFG[b + 1].branch_BB, next)
              /\ Falls(CFG[b + 1].fragment, CFG[b + 1].branch_BB) =>
                   /\ next = CFG[b + 2].start_addr
                   /\ b + 1 \in Elements(CFG[b + 1].next_BB)
         /\ CFG[b + 1].branch_BB # NoLabel =>
              LET x == Lookup(label_to_bbid, CFG[b + 1].branch_BB)
              IN  /\ x \in Elements(CFG[b + 1].next_BB)
                  /\ CFG[x + 1].start_addr = Lookup(label_to_addr, CFG[b + 1].branch_BB)
<1> DEFINE B == CFG[b + 1]
           at_ == Starts(CFG, bb.start_addr)
<1>1. GraphInv /\ CFG \in Seq(BlockType) /\ Len(CFG) \in Nat
  BY LenProperties DEF CfgInv, GraphInv, StartsInv, BlockInv
<1>2. B \in BlockType
  BY <1>1, ElementOfSeq
<1>3. B.start_addr \in Nat /\ B.fragment \in Seq(InstType)
  BY <1>2 DEF BlockType
<1>4. FinishedBlock(text, label_to_addr, B, at_[b + 1])
  BY <1>1 DEF GraphInv, FinishedInv, AllFinished
<1>5. B.acc_cnt = AccessesOf(b)
  BY <1>4 DEF FinishedBlock, AccessesOf, AccessesIn
<1>6. /\ Falls(B.fragment, B.branch_BB) =>
           (b + 1) + 1 \in 1 .. Len(CFG) /\ b + 1 \in Elements(B.next_BB)
      /\ B.branch_BB # NoLabel => Lookup(label_to_bbid, B.branch_BB) \in Elements(B.next_BB)
      /\ CFG[Lookup(label_to_bbid, B.branch_BB) + 1].start_addr = Lookup(label_to_addr, B.branch_BB)
  BY <1>1, BlocksResolved
<1>7. Falls(B.fragment, B.branch_BB) => at_[b + 1] = CFG[b + 2].start_addr
  <2> SUFFICES ASSUME Falls(B.fragment, B.branch_BB) PROVE at_[b + 1] = CFG[b + 2].start_addr
    OBVIOUS
  <2>1. b + 1 \in 0 .. Len(CFG) /\ b + 1 < Len(CFG) /\ (b + 1) + 1 = b + 2
    BY <1>1, <1>6
  <2> QED
    BY <2>1 DEF Starts
<1> HIDE DEF at_
<1>8. /\ Shape(text, label_to_addr, B.start_addr, B.fragment, B.branch_BB, at_[b + 1])
      /\ Falls(B.fragment, B.branch_BB) =>
           at_[b + 1] = CFG[b + 2].start_addr /\ b + 1 \in Elements(B.next_BB)
  BY <1>4, <1>6, <1>7 DEF FinishedBlock
<1> QED
  BY <1>2, <1>3, <1>5, <1>6, <1>8

\* The line that Assembly's Instruction finds
LEMMA SourceLine ==
  ASSUME NEW k, Len(text) \in Nat, LineAt(text, CurrentAddr, k)
  PROVE  Source!Instruction = text[k]
<1>1. \A n : Source!Before(text, n) = Before(text, n)
  BY DEF Source!Before, Before, ASM!Before, Source!Cardinality, ASM!Cardinality,
         Source!IsInstruction, ASM!IsInstruction
<1> DEFINE Found(j) == j \in 1 .. Len(text) /\ Source!IsInstruction(text[j])
                       /\ Source!Before(text, j) = CurrentAddr
<1>2. \A j : Found(j) <=> LineAt(text, CurrentAddr, j)
  BY <1>1 DEF LineAt, Source!IsInstruction
<1>3. \A j : Found(j) <=> j = k
  <2> HIDE DEF Found
  <2> QED
    BY <1>2, OneLine
<1>4. (CHOOSE j \in 1 .. Len(text) : Source!IsInstruction(text[j])
                                     /\ Source!Before(text, j) = CurrentAddr) = k
  BY <1>3
<1> QED
  BY <1>4 DEF Source!Instruction
-----------------------------------------------------------------------------
(* One instruction *)

\* Where NOOP is
LEMMA NoopAddress ==
  ASSUME GraphInv, Resolved
  PROVE  Lookup(label_to_addr, ASM!NoopLabel) = Before(text, Len(text))
<1>1. text \in Seq(ASM!Line) /\ Len(text) \in Nat
  BY LenProperties DEF GraphInv, StartsInv, TextInv
<1>2. /\ Len(text) >= 2
      /\ text[Len(text) - 1].op = "label" /\ text[Len(text) - 1].label = ASM!NoopLabel
      /\ text[Len(text)].op = "NOOP"
  BY DEF GraphInv, ProgramInv
<1> DEFINE l == ASM!NoopLabel
           n == Len(text) + 1
<1>3. Points(label_to_addr, text, n, Itself)
  BY DEF GraphInv, LabelsInv, Resolved
<1>4. l \in DOMAIN label_to_addr
  <2>1. Len(text) - 1 \in 1 .. n - 1
    BY <1>1, <1>2
  <2> QED
    BY <1>2, <1>3, <2>1 DEF Points
<1>5. PICK k \in 1 .. n - 1 : IsLast(text, n, l, k) /\ Itself[label_to_addr[l]] = Before(text, k)
  BY <1>3, <1>4 DEF Points
<1>6. label_to_addr[l] \in Nat
  BY <1>4 DEF GraphInv, StartsInv, AddressInv
<1>7. k = Len(text) - 1
  <2>1. ~ (k < Len(text) - 1)
    <3> SUFFICES ASSUME k < Len(text) - 1 PROVE FALSE
      OBVIOUS
    <3>1. Len(text) - 1 \in k + 1 .. n - 1
      BY <1>1
    <3> QED
      BY <1>2, <1>5, <3>1 DEF IsLast
  <2>2. k # Len(text)
    BY <1>2, <1>5 DEF IsLast
  <2> QED
    BY <1>1, <2>1, <2>2
<1>8. Before(text, Len(text)) = Before(text, Len(text) - 1)
  <2>1. Len(text) - 1 \in Nat \ {0} /\ (Len(text) - 1) + 1 = Len(text)
    BY <1>1, <1>2
  <2> QED
    BY <1>2, <2>1, BeforeNext
<1>9. label_to_addr[l] = Before(text, Len(text))
  BY <1>5, <1>6, <1>7, <1>8 DEF Itself
<1> QED
  BY <1>4, <1>9 DEF Lookup

\* The block that runs
LEMMA Running ==
  ASSUME RunInv, block # None
  PROVE  /\ CfgInv /\ GraphInv /\ Resolved /\ pass = "run" /\ step \in 0 .. GiantStep - 1
         /\ block \in Active /\ block \in Nat /\ block + 1 \in 1 .. Len(CFG)
         /\ at \in Nat /\ at <= Len(Fragment) /\ Len(Fragment) \in Nat
         /\ Fragment \in Seq(InstType) /\ CFG[block + 1].start_addr \in Nat
         /\ Len(text) \in Nat /\ flag \in ASM!Flags
         /\ step + 1 \in 1 .. GiantStep
         /\ \E next :
              /\ Shape(text, label_to_addr, CFG[block + 1].start_addr, Fragment,
                       CFG[block + 1].branch_BB, next)
              /\ Falls(Fragment, CFG[block + 1].branch_BB) =>
                   /\ next = CFG[block + 2].start_addr
                   /\ block + 1 \in Elements(CFG[block + 1].next_BB)
<1>1. /\ CfgInv /\ GraphInv /\ Resolved /\ pass = "run" /\ GiantStep \in Nat
      /\ step \in 0 .. GiantStep - 1 /\ block \in Active
      /\ at \in Nat /\ at <= Len(Fragment) /\ flag \in ASM!Flags
  BY GiantStepAssumption DEF RunInv, CfgInv, InsideInv, WaitInv, Resolved
<1>2. step + 1 \in 1 .. GiantStep
  BY <1>1
<1>3. block \in Nat /\ block + 1 \in 1 .. Len(CFG)
  BY <1>1, <1>2, ActiveBlocks DEF Active
<1>4. /\ Fragment \in Seq(InstType) /\ CFG[block + 1].start_addr \in Nat
      /\ \E next :
              /\ Shape(text, label_to_addr, CFG[block + 1].start_addr, Fragment,
                       CFG[block + 1].branch_BB, next)
              /\ Falls(Fragment, CFG[block + 1].branch_BB) =>
                   /\ next = CFG[block + 2].start_addr
                   /\ block + 1 \in Elements(CFG[block + 1].next_BB)
  BY <1>1, <1>3, BlockShape DEF Fragment
<1>5. Len(Fragment) \in Nat /\ Len(text) \in Nat
  BY <1>1, <1>4, LenProperties DEF GraphInv, StartsInv, TextInv
<1> QED
  BY <1>1, <1>2, <1>3, <1>4, <1>5

\* What each kind of instruction does to the registers
LEMMA ExecKinds ==
  ASSUME NEW x, x = Fragment[at + 1], Exec
  PROVE  /\ at' = at + 1 /\ UNCHANGED <<cfgVars, step, block, accesses>>
         /\ x.op # "set" => flag' = flag
         /\ x.op = "set" => flag' \in ASM!Flags
         /\ x.dst = "GR" => UNCHANGED <<PC, SP0, SP1>>
         /\ x.op = "IMM" =>
              /\ x.dst = "PC" => PC' = x.imm /\ UNCHANGED <<SP0, SP1>>
              /\ x.dst = "SP0" => SP0' = x.imm /\ UNCHANGED <<PC, SP1>>
              /\ x.dst = "SP1" => SP1' = x.imm /\ UNCHANGED <<PC, SP0>>
         /\ x.op \in {"AND0", "ANDN0", "AND1", "ANDN1"} =>
              /\ x.dst = "SP0" => SP0' = Masked(x.op, SP0) /\ UNCHANGED <<PC, SP1>>
              /\ x.dst = "SP1" => SP1' = Masked(x.op, SP1) /\ UNCHANGED <<PC, SP0>>
         /\ x.op = "XOR" /\ x.dst = "PC" => PC' = XorWord(SP0, SP1) /\ UNCHANGED <<SP0, SP1>>
<1> DEFINE result == CASE x.op = "IMM" -> x.imm
                     [] x.op = "XOR" -> XorWord(SP0, SP1)
                     [] x.op \in {"AND0", "ANDN0", "AND1", "ANDN1"} ->
                          Masked(x.op, IF x.dst = "SP0" THEN SP0 ELSE SP1)
                     [] OTHER -> 0
<1>1. /\ at' = at + 1 /\ UNCHANGED <<cfgVars, step, block, accesses>>
      /\ PC' = IF x.dst = "PC" THEN result ELSE PC
      /\ SP0' = IF x.dst = "SP0" THEN result ELSE SP0
      /\ SP1' = IF x.dst = "SP1" THEN result ELSE SP1
      /\ IF x.op = "set" THEN flag' \in ASM!Flags ELSE UNCHANGED flag
  BY Zenon DEF Exec
<1>2. x.op = "IMM" => result = x.imm
  BY Zenon
<1>3. x.op = "XOR" => result = XorWord(SP0, SP1)
  BY Zenon
<1>4. ASSUME x.op \in {"AND0", "ANDN0", "AND1", "ANDN1"}
      PROVE  /\ x.dst = "SP0" => result = Masked(x.op, SP0)
             /\ x.dst = "SP1" => result = Masked(x.op, SP1)
  <2>1. x.op # "IMM" /\ x.op # "XOR"
    BY <1>4
  <2>2. result = Masked(x.op, IF x.dst = "SP0" THEN SP0 ELSE SP1)
    BY <1>4, <2>1, Zenon
  <2> HIDE DEF result
  <2> QED
    BY <2>2
<1> HIDE DEF result
<1> QED
  BY <1>1, <1>2, <1>3, <1>4

\* The value is the start of a successor of the block that runs
OnSuccessor(pc) == \E b \in Elements(CFG[block + 1].next_BB) : CFG[b + 1].start_addr = pc

\* The address in branch_BB is that of a successor
LEMMA BranchSuccessor ==
  ASSUME RunInv, block # None, CFG[block + 1].branch_BB # NoLabel
  PROVE  OnSuccessor(Lookup(label_to_addr, CFG[block + 1].branch_BB))
<1>1. CfgInv /\ Resolved /\ block \in Nat /\ block + 1 \in 1 .. Len(CFG)
  BY Running
<1> QED
  BY <1>1, BlockShape DEF OnSuccessor

LEMMA FallSuccessor ==
  ASSUME block \in Nat, block + 1 \in Elements(CFG[block + 1].next_BB)
  PROVE  OnSuccessor(CFG[block + 2].start_addr)
<1>1. (block + 1) + 1 = block + 2
  OBVIOUS
<1> QED
  BY <1>1 DEF OnSuccessor
-----------------------------------------------------------------------------
(* The steps of a block, in the words of the program *)

Start == CFG[block + 1].start_addr
Last == BodyLen(Fragment)

\* Line k is executed: it does not jump
LocalStep(k) ==
  /\ at < Last /\ LineAt(text, Start + at, k) /\ text[k].op \in Locals
  /\ UNCHANGED PC
  /\ IF text[k].op = "set" THEN flag' \in ASM!Flags ELSE UNCHANGED flag

\* The block runs into the next one, or idles
RunOnStep ==
  /\ at = Last /\ LastLine(Fragment) = 1
  /\ PC' = Start + Last /\ OnSuccessor(PC')
  /\ UNCHANGED flag

\* Line k is executed: a jump or HALT
JumpStep(k) ==
  /\ at = Last /\ LastLine(Fragment) = 1
  /\ LineAt(text, Start + Last, k) /\ text[k].op \in {"J", "HALT"}
  /\ PC' = Lookup(label_to_addr, IF text[k].op = "J" THEN text[k].label ELSE ASM!NoopLabel)
  /\ OnSuccessor(PC')
  /\ UNCHANGED flag

\* Line k is prepared: a conditional jump
SelectStep(k) ==
  /\ at >= Last /\ at < Last + 4 /\ LastLine(Fragment) = 5
  /\ LineAt(text, Start + Last, k) /\ text[k].op \in ASM!Conditional
  /\ Chosen(SP0', SP1', ASM!Taken(text[k].op, flag), Start + Last + 1,
            Lookup(label_to_addr, text[k].label), at - Last + 1)
  /\ UNCHANGED <<PC, flag>>

\* Line k is executed
TakeStep(k) ==
  /\ at = Last + 4 /\ LastLine(Fragment) = 5
  /\ LineAt(text, Start + Last, k) /\ text[k].op \in ASM!Conditional
  /\ PC' = IF ASM!Taken(text[k].op, flag) THEN Lookup(label_to_addr, text[k].label)
           ELSE Start + Last + 1
  /\ OnSuccessor(PC')
  /\ UNCHANGED flag

LEMMA BodyStep ==
  ASSUME RunInv, Exec, at < Last
  PROVE  \E k : LocalStep(k)
<1>1. block # None
  BY DEF Exec
<1>2. /\ at \in Nat /\ Start \in Nat /\ Fragment \in Seq(InstType)
      /\ \E next : Shape(text, label_to_addr, Start, Fragment, CFG[block + 1].branch_BB, next)
  BY <1>1, Running DEF Start
<1>3. Last \in Nat /\ Body(text, Start, Fragment, Last)
  <2>1. PICK next : Shape(text, label_to_addr, Start, Fragment, CFG[block + 1].branch_BB, next)
    BY <1>2
  <2> QED
    BY <1>2, <2>1, ShapeEnds DEF Last
<1> DEFINE x == Fragment[at + 1]
<1>4. at + 1 \in 1 .. Last /\ Start + (at + 1) - 1 = Start + at
  BY <1>2, <1>3
<1>5. /\ x.op \in Locals /\ x.dst = "GR"
      /\ \E k : LineAt(text, Start + at, k) /\ text[k].op = x.op
  BY <1>3, <1>4 DEF Body
<1>6. UNCHANGED PC /\ (x.op # "set" => flag' = flag) /\ (x.op = "set" => flag' \in ASM!Flags)
  <2> HIDE DEF x
  <2>1. x = Fragment[at + 1]
    BY DEF x
  <2> QED
    BY <1>5, <2>1, ExecKinds
<1> HIDE DEF x
<1>7. PICK k : LineAt(text, Start + at, k) /\ text[k].op = x.op
  BY <1>5
<1> QED
  BY <1>5, <1>6, <1>7 DEF LocalStep

LEMMA EndStep ==
  ASSUME RunInv, Exec, ~ (at < Last), LastLine(Fragment) = 1
  PROVE  RunOnStep \/ \E k : JumpStep(k)
<1> DEFINE branch == CFG[block + 1].branch_BB
<1>1. block # None /\ at < Len(Fragment)
  BY DEF Exec
<1>2. /\ at \in Nat /\ Start \in Nat /\ Fragment \in Seq(InstType) /\ Len(Fragment) \in Nat
      /\ block \in Nat /\ GraphInv /\ Resolved
  BY <1>1, Running DEF Start
<1>3. PICK next : /\ Shape(text, label_to_addr, Start, Fragment, branch, next)
                  /\ Falls(Fragment, branch) =>
                       /\ next = CFG[block + 2].start_addr
                       /\ block + 1 \in Elements(CFG[block + 1].next_BB)
  BY <1>1, Running DEF Start
<1>4. /\ Last \in Nat
      /\ \/ RunsInto(Start, Fragment, branch, Last, next)
         \/ JumpsTo(text, label_to_addr, Start, Fragment, branch, Last)
         \/ Idles(text, Start, Fragment, branch, Last)
  BY <1>2, <1>3, ShapeEnds DEF Last
<1>5. at = Last
  BY <1>1, <1>2, <1>4 DEF Last, BodyLen
<1> DEFINE x == Fragment[at + 1]
<1>6. x = Fragment[at + 1]
  OBVIOUS
<1>7. CASE RunsInto(Start, Fragment, branch, Last, next)
  <2>1. x = Imm("PC", Start + Last) /\ branch = NoLabel /\ next = Start + Last
    BY <1>5, <1>7 DEF RunsInto
  <2>2. x.op = "IMM" /\ x.dst = "PC" /\ x.imm = Start + Last
    BY <2>1 DEF Imm, Inst
  <2>3. PC' = Start + Last /\ flag' = flag
    <3> HIDE DEF x
    <3> QED
      BY <1>6, <2>2, ExecKinds
  <2>4. OnSuccessor(Start + Last)
    <3>1. next = CFG[block + 2].start_addr /\ block + 1 \in Elements(CFG[block + 1].next_BB)
      BY <1>3, <2>1 DEF Falls
    <3>2. OnSuccessor(CFG[block + 2].start_addr)
      BY <1>2, <3>1, FallSuccessor
    <3> QED
      BY <2>1, <3>1, <3>2
  <2>5. OnSuccessor(PC')
    BY <2>3, <2>4
  <2> QED
    BY <1>5, <2>3, <2>5 DEF RunOnStep
<1>8. CASE JumpsTo(text, label_to_addr, Start, Fragment, branch, Last)
  <2>1. PICK k : /\ LineAt(text, Start + Last, k) /\ text[k].op \in {"J", "HALT"}
                 /\ branch = (IF text[k].op = "J" THEN text[k].label ELSE ASM!NoopLabel)
                 /\ branch # NoLabel /\ x = Imm("PC", Lookup(label_to_addr, branch))
    BY <1>5, <1>8 DEF JumpsTo
  <2>2. x.op = "IMM" /\ x.dst = "PC" /\ x.imm = Lookup(label_to_addr, branch)
    BY <2>1 DEF Imm, Inst
  <2>3. PC' = Lookup(label_to_addr, branch) /\ flag' = flag
    <3> HIDE DEF x, branch
    <3> QED
      BY <1>6, <2>2, ExecKinds
  <2>4. OnSuccessor(PC')
    BY <1>1, <2>1, <2>3, BranchSuccessor
  <2> HIDE DEF branch, x
  <2>5. JumpStep(k)
    BY <1>5, <2>1, <2>3, <2>4 DEF JumpStep
  <2> QED
    BY <2>5
<1>9. CASE Idles(text, Start, Fragment, branch, Last)
  <2>1. Last = 0 /\ branch = ASM!NoopLabel /\ Start = Before(text, Len(text))
        /\ x.dst = "GR" /\ x.op = "NOOP"
    <3> DEFINE y == Inst("NOOP", "GR", 0)
    <3>1. /\ Last = 0 /\ Fragment = <<y>> /\ branch = ASM!NoopLabel
          /\ Start = Before(text, Len(text)) /\ y.dst = "GR" /\ y.op = "NOOP"
      BY <1>9 DEF Idles, Inst
    <3> HIDE DEF y
    <3>2. Fragment[1] = y /\ at + 1 = 1
      BY <1>5, <3>1
    <3> QED
      BY <3>1, <3>2
  <2>2. PC' = PC /\ flag' = flag
    <3> HIDE DEF x
    <3> QED
      BY <1>6, <2>1, ExecKinds
  <2>3. PC = Start
    BY <1>1 DEF RunInv, InsideInv, Start
  <2>4. OnSuccessor(Start)
    <3>1. branch # NoLabel
      BY <2>1, Zenon DEF NoLabel, ASM!NoopLabel
    <3>2. OnSuccessor(Lookup(label_to_addr, branch))
      BY <1>1, <3>1, BranchSuccessor
    <3> QED
      BY <1>2, <2>1, <3>2, NoopAddress
  <2>5. PC' = Start + Last /\ OnSuccessor(PC')
    BY <1>2, <2>1, <2>2, <2>3, <2>4
  <2> QED
    BY <1>5, <2>2, <2>5 DEF RunOnStep
<1> QED
  BY <1>4, <1>7, <1>8, <1>9

\* The five instructions of a conditional jump
LEMMA SelectInsts ==
  ASSUME NEW op, NEW next, NEW target
  PROVE  LET s == SelectPC(op, next, target)
         IN  /\ s[1] = Imm("SP0", next) /\ s[2] = Imm("SP1", target)
             /\ s[3] = Inst(Masks(op)[1], "SP0", 0) /\ s[4] = Inst(Masks(op)[2], "SP1", 0)
             /\ s[5] = Inst("XOR", "PC", 0)
  BY DEF SelectPC

\* One of the two addresses was cleared
LEMMA XorChooses ==
  ASSUME NEW taken \in BOOLEAN, NEW next \in Nat \ {0}, NEW target \in Nat
  PROVE  XorWord(IF taken THEN 0 ELSE next, IF ~ taken THEN 0 ELSE target)
           = IF taken THEN target ELSE next
  BY DEF XorWord

LEMMA TakenBoolean ==
  ASSUME NEW op \in ASM!Conditional, NEW f \in ASM!Flags
  PROVE  ASM!Taken(op, f) \in BOOLEAN
<1>1. f[1] \in BOOLEAN /\ f[2] \in BOOLEAN
  BY DEF ASM!Flags
<1>2. CASE op \in {"JE", "JB"}
  <2>1. ASM!Taken(op, f) = f[1]
    BY <1>2, Zenon DEF ASM!Taken
  <2> QED
    BY <1>1, <2>1
<1>3. CASE op = "JNE"
  <2>1. ASM!Taken(op, f) = ~ f[1]
    BY <1>3, Zenon DEF ASM!Taken
  <2> QED
    BY <2>1, Zenon
<1>4. CASE op = "JL"
  <2>1. ASM!Taken(op, f) = f[2]
    BY <1>4, Zenon DEF ASM!Taken
  <2> QED
    BY <1>1, <2>1
<1> QED
  BY <1>2, <1>3, <1>4, Zenon DEF ASM!Conditional

\* One of the first four of the five
LEMMA SelectOne ==
  ASSUME Exec, flag \in ASM!Flags, NEW op \in ASM!Conditional, NEW next, NEW target,
         NEW done \in 0 .. 3, Fragment[at + 1] = SelectPC(op, next, target)[done + 1],
         Chosen(SP0, SP1, ASM!Taken(op, flag), next, target, done)
  PROVE  /\ Chosen(SP0', SP1', ASM!Taken(op, flag), next, target, done + 1)
         /\ UNCHANGED <<PC, flag>>
<1> DEFINE x == Fragment[at + 1]
           s == SelectPC(op, next, target)
           taken == ASM!Taken(op, flag)
<1>1. x = Fragment[at + 1] /\ x = s[done + 1]
  OBVIOUS
<1>2. /\ s[1] = Imm("SP0", next) /\ s[2] = Imm("SP1", target)
      /\ s[3] = Inst(Masks(op)[1], "SP0", 0) /\ s[4] = Inst(Masks(op)[2], "SP1", 0)
  BY SelectInsts
<1>3. /\ Masks(op)[1] \in {"AND0", "ANDN0", "AND1", "ANDN1"}
      /\ Masks(op)[2] \in {"AND0", "ANDN0", "AND1", "ANDN1"}
      /\ \A v : Masked(Masks(op)[1], v) = IF taken THEN 0 ELSE v
      /\ \A v : Masked(Masks(op)[2], v) = IF taken THEN v ELSE 0
  BY MasksSelect
<1>4. taken \in BOOLEAN /\ Chosen(SP0, SP1, taken, next, target, done)
  BY TakenBoolean
<1> HIDE DEF x, s, taken
<1>5. CASE done = 0
  <2>1. x.op = "IMM" /\ x.dst = "SP0" /\ x.imm = next
    BY <1>1, <1>2, <1>5 DEF Imm, Inst
  <2>2. SP0' = next /\ UNCHANGED <<PC, SP1, flag>>
    BY <1>1, <2>1, ExecKinds
  <2> QED
    BY <1>5, <2>2 DEF Chosen, taken
<1>6. CASE done = 1
  <2>1. x.op = "IMM" /\ x.dst = "SP1" /\ x.imm = target
    BY <1>1, <1>2, <1>6 DEF Imm, Inst
  <2>2. SP1' = target /\ UNCHANGED <<PC, SP0, flag>>
    BY <1>1, <2>1, ExecKinds
  <2>3. SP0 = next
    BY <1>4, <1>6 DEF Chosen
  <2> QED
    BY <1>6, <2>2, <2>3 DEF Chosen, taken
<1>7. CASE done = 2
  <2>1. x.op = Masks(op)[1] /\ x.dst = "SP0"
    BY <1>1, <1>2, <1>7 DEF Inst
  <2>2. x.op \in {"AND0", "ANDN0", "AND1", "ANDN1"}
    BY <1>3, <2>1
  <2>3. SP0' = Masked(x.op, SP0) /\ UNCHANGED <<PC, SP1, flag>>
    BY <1>1, <2>1, <2>2, ExecKinds
  <2>4. SP0' = IF taken THEN 0 ELSE SP0
    BY <1>3, <2>1, <2>3
  <2>5. SP0 = next /\ SP1 = target
    BY <1>4, <1>7 DEF Chosen
  <2>6. Chosen(SP0', SP1', taken, next, target, done + 1)
    BY <1>4, <1>7, <2>3, <2>4, <2>5 DEF Chosen
  <2> QED
    BY <2>3, <2>6 DEF taken
<1>8. CASE done = 3
  <2>1. x.op = Masks(op)[2] /\ x.dst = "SP1"
    BY <1>1, <1>2, <1>8 DEF Inst
  <2>2. x.op \in {"AND0", "ANDN0", "AND1", "ANDN1"}
    BY <1>3, <2>1
  <2>3. SP1' = Masked(x.op, SP1) /\ UNCHANGED <<PC, SP0, flag>>
    BY <1>1, <2>1, <2>2, ExecKinds
  <2>4. SP1' = IF taken THEN SP1 ELSE 0
    BY <1>3, <2>1, <2>3
  <2>5. SP0 = (IF taken THEN 0 ELSE next) /\ SP1 = target
    BY <1>4, <1>8 DEF Chosen
  <2>6. Chosen(SP0', SP1', taken, next, target, done + 1)
    BY <1>4, <1>8, <2>3, <2>4, <2>5 DEF Chosen
  <2> QED
    BY <2>3, <2>6 DEF taken
<1> QED
  BY <1>5, <1>6, <1>7, <1>8

\* The last of the five
LEMMA SelectLast ==
  ASSUME Exec, flag \in ASM!Flags, NEW op \in ASM!Conditional, NEW next \in Nat \ {0},
         NEW target \in Nat, Fragment[at + 1] = SelectPC(op, next, target)[5],
         Chosen(SP0, SP1, ASM!Taken(op, flag), next, target, 4)
  PROVE  PC' = (IF ASM!Taken(op, flag) THEN target ELSE next) /\ flag' = flag
<1> DEFINE x == Fragment[at + 1]
           taken == ASM!Taken(op, flag)
<1>1. x = Fragment[at + 1] /\ taken \in BOOLEAN
  BY TakenBoolean
<1>2. x.op = "XOR" /\ x.dst = "PC"
  <2>1. x = Inst("XOR", "PC", 0)
    BY SelectInsts
  <2> QED
    BY <2>1 DEF Inst
<1>3. SP0 = (IF taken THEN 0 ELSE next) /\ SP1 = (IF ~ taken THEN 0 ELSE target)
  BY DEF Chosen
<1> HIDE DEF x, taken
<1>4. PC' = XorWord(SP0, SP1) /\ flag' = flag
  BY <1>1, <1>2, ExecKinds
<1>5. XorWord(IF taken THEN 0 ELSE next, IF ~ taken THEN 0 ELSE target)
        = IF taken THEN target ELSE next
  BY <1>1, XorChooses
<1> QED
  BY <1>3, <1>4, <1>5 DEF taken

LEMMA ChooseStep ==
  ASSUME RunInv, Exec, ~ (at < Last), LastLine(Fragment) = 5
  PROVE  \E k : SelectStep(k) \/ TakeStep(k)
<1> DEFINE branch == CFG[block + 1].branch_BB
           target == Lookup(label_to_addr, branch)
<1>1. block # None /\ at < Len(Fragment)
  BY DEF Exec
<1>2. /\ at \in Nat /\ Start \in Nat /\ Fragment \in Seq(InstType) /\ Len(Fragment) \in Nat
      /\ block \in Nat /\ GraphInv /\ flag \in ASM!Flags
  BY <1>1, Running DEF Start
<1>3. PICK next : /\ Shape(text, label_to_addr, Start, Fragment, branch, next)
                  /\ Falls(Fragment, branch) =>
                       /\ next = CFG[block + 2].start_addr
                       /\ block + 1 \in Elements(CFG[block + 1].next_BB)
  BY <1>1, Running DEF Start
<1>4. Last \in Nat /\ Selects(text, label_to_addr, Start, Fragment, branch, Last, next)
  BY <1>2, <1>3, ShapeEnds DEF Last
<1>5. PICK k : /\ LineAt(text, Start + Last, k) /\ text[k].op \in ASM!Conditional
               /\ branch = text[k].label /\ branch # NoLabel
               /\ Len(Fragment) = Last + 5 /\ next = Start + Last + 1
               /\ \A j \in 1 .. 5 : Fragment[Last + j] = SelectPC(text[k].op, next, target)[j]
  BY <1>4 DEF Selects
<1> DEFINE op == text[k].op
           done == at - Last
           taken == ASM!Taken(op, flag)
<1>6. next \in Nat \ {0} /\ target \in Nat
  <2>1. next = Start + Last + 1 /\ Start \in Nat /\ Last \in Nat
    BY <1>2, <1>4, <1>5
  <2>2. next \in Nat \ {0}
    BY <2>1
  <2>3. \A l \in DOMAIN label_to_addr : label_to_addr[l] \in Nat
    BY <1>2 DEF GraphInv, StartsInv, AddressInv
  <2>4. target \in Nat
    BY <2>3, LookupNat
  <2> QED
    BY <2>2, <2>4
<1>7. Chosen(SP0, SP1, taken, next, target, done)
  BY <1>1, <1>5 DEF RunInv, SelectInv, SelectSound, Start, Last
<1>8. done \in 0 .. 4 /\ at + 1 = Last + (done + 1) /\ done + 1 \in 1 .. 5
  <2>1. at \in Nat /\ Last \in Nat /\ at < Last + 5 /\ ~ (at < Last)
    BY <1>1, <1>2, <1>4, <1>5
  <2> QED
    BY <2>1
<1>9. Fragment[at + 1] = SelectPC(op, next, target)[done + 1]
  BY <1>5, <1>8
<1>10. CASE done \in 0 .. 3
  <2>1. \A d \in 0 .. 3 :
           /\ Fragment[at + 1] = SelectPC(op, next, target)[d + 1]
           /\ Chosen(SP0, SP1, taken, next, target, d)
           => Chosen(SP0', SP1', taken, next, target, d + 1) /\ UNCHANGED <<PC, flag>>
    BY <1>2, <1>5, SelectOne
  <2>2. Chosen(SP0', SP1', taken, next, target, done + 1) /\ UNCHANGED <<PC, flag>>
    BY <1>7, <1>9, <1>10, <2>1
  <2>3. at >= Last /\ at < Last + 4
    BY <1>2, <1>4, <1>10
  <2>4. SelectStep(k)
    BY <1>5, <2>2, <2>3 DEF SelectStep
  <2> QED
    BY <2>4
<1>11. CASE done = 4
  <2>1. /\ Fragment[at + 1] = SelectPC(op, next, target)[5]
        /\ Chosen(SP0, SP1, taken, next, target, 4)
    BY <1>7, <1>9, <1>11
  <2>2. PC' = (IF taken THEN target ELSE next) /\ flag' = flag
    BY <1>2, <1>5, <1>6, <2>1, SelectLast
  <2>3. OnSuccessor(target)
    BY <1>1, <1>5, BranchSuccessor
  <2>4. OnSuccessor(next)
    <3>1. Fragment[Len(Fragment)].op = "XOR"
      <4>1. Fragment[Last + 5] = SelectPC(op, next, target)[5]
        BY <1>5
      <4>2. Fragment[Len(Fragment)] = Inst("XOR", "PC", 0)
        BY <1>5, <4>1, SelectInsts
      <4> QED
        BY <4>2 DEF Inst
    <3>2. next = CFG[block + 2].start_addr /\ block + 1 \in Elements(CFG[block + 1].next_BB)
      BY <1>3, <3>1 DEF Falls
    <3>3. OnSuccessor(CFG[block + 2].start_addr)
      BY <1>2, <3>2, FallSuccessor
    <3> QED
      BY <3>2, <3>3
  <2>5. OnSuccessor(PC') /\ at = Last + 4
    BY <1>2, <1>4, <1>11, <2>2, <2>3, <2>4
  <2>6. TakeStep(k)
    BY <1>5, <2>2, <2>5 DEF TakeStep
  <2> QED
    BY <2>6
<1> QED
  BY <1>8, <1>10, <1>11

(***************************************************************************)
(* Whatever instruction of the fragment is executed, it is one of these.   *)
(***************************************************************************)
LEMMA ExecSteps ==
  ASSUME RunInv, Exec
  PROVE  RunOnStep \/ \E k : LocalStep(k) \/ JumpStep(k) \/ SelectStep(k) \/ TakeStep(k)
<1>1. block # None
  BY DEF Exec
<1>2. LastLine(Fragment) \in {1, 5}
  BY <1>1, Running, ShapeEnds
<1> QED
  BY <1>2, BodyStep, EndStep, ChooseStep
-----------------------------------------------------------------------------
(* The invariant is inductive *)

\* Where execution stands in a block
LEMMA ExecInside ==
  ASSUME RunInv, Exec
  PROVE  /\ at + 1 <= Len(Fragment)
         /\ at + 1 < Len(Fragment) => PC' = PC
         /\ at + 1 = Len(Fragment) => OnSuccessor(PC')
         /\ flag' \in ASM!Flags
<1>1. block # None
  BY DEF Exec
<1>2. /\ at \in Nat /\ at <= Len(Fragment) /\ Len(Fragment) \in Nat /\ flag \in ASM!Flags
  BY <1>1, Running
<1>3. Last = Len(Fragment) - LastLine(Fragment) /\ Last \in Nat /\ Last < Len(Fragment)
  BY <1>1, Running, ShapeEnds DEF Last, BodyLen
<1>4. ASSUME NEW k, LocalStep(k)
      PROVE  at + 1 < Len(Fragment) /\ PC' = PC /\ flag' \in ASM!Flags
  <2>1. at < Last /\ PC' = PC /\ (IF text[k].op = "set" THEN flag' \in ASM!Flags ELSE flag' = flag)
    BY <1>4 DEF LocalStep
  <2> QED
    BY <1>2, <1>3, <2>1
<1>5. CASE RunOnStep
  BY <1>2, <1>3, <1>5 DEF RunOnStep
<1>6. ASSUME NEW k, JumpStep(k)
      PROVE  at + 1 = Len(Fragment) /\ OnSuccessor(PC') /\ flag' = flag
  BY <1>2, <1>3, <1>6 DEF JumpStep
<1>7. ASSUME NEW k, SelectStep(k)
      PROVE  at + 1 < Len(Fragment) /\ PC' = PC /\ flag' = flag
  BY <1>2, <1>3, <1>7 DEF SelectStep
<1>8. ASSUME NEW k, TakeStep(k)
      PROVE  at + 1 = Len(Fragment) /\ OnSuccessor(PC') /\ flag' = flag
  BY <1>2, <1>3, <1>8 DEF TakeStep
<1> QED
  BY <1>2, <1>4, <1>5, <1>6, <1>7, <1>8, ExecSteps

LEMMA ExecSelect ==
  ASSUME RunInv, Exec
  PROVE  SelectInv'
<1>1. block # None
  BY DEF Exec
<1>2. UNCHANGED <<text, CFG, block, label_to_addr>> /\ at' = at + 1 /\ Fragment' = Fragment
  BY ExecKinds DEF cfgVars, Fragment
<1>3. at \in Nat /\ Len(Fragment) \in Nat /\ Len(text) \in Nat
  BY <1>1, Running
<1>4. Last = Len(Fragment) - LastLine(Fragment) /\ Last \in Nat
  BY <1>1, Running, ShapeEnds DEF Last, BodyLen
<1>5. SelectInv' <=> SelectSound(text, label_to_addr, Start, Fragment, at + 1, SP0', SP1', flag')
  BY <1>1, <1>2 DEF SelectInv, Start
<1> SUFFICES ASSUME LastLine(Fragment) = 5, at + 1 < Len(Fragment),
                    NEW k, LineAt(text, Start + Last, k)
             PROVE  Chosen(SP0', SP1', ASM!Taken(text[k].op, flag'), Start + Last + 1,
                           Lookup(label_to_addr, text[k].label), (at + 1) - Last)
  BY <1>5 DEF SelectSound, Last
<1>6. ASSUME NEW j, LocalStep(j)
      PROVE  (at + 1) - Last <= 0
  BY <1>3, <1>4, <1>6 DEF LocalStep
<1>7. ~ RunOnStep /\ \A j : ~ JumpStep(j)
  BY DEF RunOnStep, JumpStep
<1>8. ASSUME NEW j, SelectStep(j)
      PROVE  Chosen(SP0', SP1', ASM!Taken(text[k].op, flag'), Start + Last + 1,
                    Lookup(label_to_addr, text[k].label), (at + 1) - Last)
  <2>1. j = k
    BY <1>3, <1>8, OneLine DEF SelectStep
  <2>2. at - Last + 1 = (at + 1) - Last
    BY <1>3, <1>4
  <2> QED
    BY <1>8, <2>1, <2>2 DEF SelectStep
<1>9. \A j : ~ TakeStep(j)
  BY <1>3, <1>4 DEF TakeStep
<1>10. ASSUME (at + 1) - Last <= 0
      PROVE  Chosen(SP0', SP1', ASM!Taken(text[k].op, flag'), Start + Last + 1,
                    Lookup(label_to_addr, text[k].label), (at + 1) - Last)
  <2> DEFINE d == (at + 1) - Last
  <2>1. ~ (d >= 1) /\ ~ (d >= 2)
    BY <1>3, <1>4, <1>10
  <2> HIDE DEF d
  <2>2. Chosen(SP0', SP1', ASM!Taken(text[k].op, flag'), Start + Last + 1,
               Lookup(label_to_addr, text[k].label), d)
    BY <2>1 DEF Chosen
  <2> QED
    BY <2>2 DEF d
<1> QED
  BY <1>6, <1>7, <1>8, <1>9, <1>10, ExecSteps

LEMMA ExecInv ==
  ASSUME RunInv, Exec
  PROVE  RunInv'
<1>1. block # None
  BY DEF Exec
<1>2. UNCHANGED <<cfgVars, step, block, accesses>> /\ at' = at + 1
  BY ExecKinds
<1>3. /\ UNCHANGED <<text, pass, CFG, label_to_addr, BBPath, sum_acc_cnt, step, block, accesses>>
      /\ at' = at + 1 /\ Fragment' = Fragment /\ Active' = Active
  BY <1>2 DEF cfgVars, pathVars, Fragment, Active
<1>4. CfgInv'
  BY <1>2, CfgInvKept DEF RunInv
<1>5. /\ pass = "run" /\ step < GiantStep /\ block \in Active /\ at \in Nat
      /\ step \in 0 .. GiantStep
  BY <1>1 DEF RunInv, InsideInv, WaitInv
<1>6. WaitInv'
  BY <1>1, <1>3, <1>5, ExecInside DEF WaitInv
<1>7. BetweenInv' /\ CountedInv'
  BY <1>1, <1>3 DEF RunInv, BetweenInv, CountedInv
<1>8. InsideInv'
  <2>1. at < Len(Fragment)
    BY DEF Exec
  <2>2. PC = Start
    BY <1>1, <2>1 DEF RunInv, InsideInv, Start
  <2>3. /\ at + 1 <= Len(Fragment)
        /\ at + 1 < Len(Fragment) => PC' = CFG[block + 1].start_addr
        /\ at + 1 = Len(Fragment) =>
             \E b \in Elements(CFG[block + 1].next_BB) : CFG[b + 1].start_addr = PC'
    BY <2>2, ExecInside DEF OnSuccessor, Start
  <2> QED
    BY <1>3, <1>5, <2>3 DEF InsideInv
<1>9. SelectInv'
  BY ExecSelect
<1> QED
  BY <1>4, <1>6, <1>7, <1>8, <1>9 DEF RunInv

\* The block that is entered
LEMMA EnterBlock ==
  ASSUME RunInv, Enter
  PROVE  /\ block' \in Active /\ CFG[block' + 1].start_addr = PC
         /\ block' # None /\ CFG[block' + 1].start_addr \in Nat
         /\ Len(Fragment') \in Nat /\ 0 < Len(Fragment') /\ BodyLen(Fragment') \in Nat
<1>1. /\ pass = "run" /\ block = None /\ step < GiantStep
      /\ block' \in (IF Cardinality(Active) = 1 THEN Active ELSE Selected)
      /\ at' = 0 /\ UNCHANGED <<cfgVars, step, regs, accesses>>
  BY DEF Enter
<1>2. /\ UNCHANGED <<text, pass, CFG, label_to_addr, BBPath, sum_acc_cnt, step, PC, SP0, SP1, flag,
                     accesses>>
      /\ Active' = Active /\ pass' = "run"
  BY <1>1 DEF cfgVars, pathVars, regs, Active
<1>3. CfgInv /\ CfgInv' /\ GiantStep \in Nat /\ step \in 0 .. GiantStep /\ flag \in ASM!Flags
  BY <1>1, CfgInvKept, GiantStepAssumption DEF RunInv, WaitInv
<1>4. step + 1 \in 1 .. GiantStep
  BY <1>1, <1>3
<1>5. Active \in SUBSET (0 .. Len(CFG) - 1) /\ Len(CFG) \in Nat /\ IsFiniteSet(Active)
  <2>1. Active \in SUBSET (0 .. Len(CFG) - 1) /\ Len(CFG) \in Nat
    BY <1>1, <1>3, <1>4, ActiveBlocks DEF Active
  <2>2. IsFiniteSet(0 .. Len(CFG) - 1)
    BY <2>1, FS_Interval
  <2> QED
    BY <2>1, <2>2, FS_Subset
\* The only active block is the one PC selects
<1>6. block' \in Active /\ CFG[block' + 1].start_addr = PC
  <2>1. PICK b \in Active : CFG[b + 1].start_addr = PC
    BY <1>1 DEF RunInv, BetweenInv
  <2>2. CASE Cardinality(Active) = 1
    <3>1. PICK c : Active = {c}
      BY <1>5, <2>2, FS_Singleton
    <3> QED
      BY <1>1, <2>1, <2>2, <3>1
  <2>3. CASE Cardinality(Active) # 1
    BY <1>1, <2>3 DEF Selected
  <2> QED
    BY <2>2, <2>3
<1>7. block' \in Nat /\ block' + 1 \in 1 .. Len(CFG)
  <2>1. \A b \in 0 .. Len(CFG) - 1 : b \in Nat /\ b + 1 \in 1 .. Len(CFG)
    BY <1>5
  <2>2. block' \in 0 .. Len(CFG) - 1
    BY <1>5, <1>6
  <2> QED
    BY <2>1, <2>2
<1>8. /\ CFG[block' + 1].start_addr \in Nat
      /\ Len(Fragment') \in Nat /\ 0 < Len(Fragment') /\ BodyLen(Fragment') \in Nat
  <2> DEFINE F == CFG[block' + 1].fragment
             S == CFG[block' + 1].start_addr
             branch == CFG[block' + 1].branch_BB
  <2>1. F \in Seq(InstType) /\ S \in Nat /\ \E next : Shape(text, label_to_addr, S, F, branch, next)
    <3>1. \A b \in Nat : b + 1 \in 1 .. Len(CFG) =>
            /\ CFG[b + 1].fragment \in Seq(InstType) /\ CFG[b + 1].start_addr \in Nat
            /\ \E next : Shape(text, label_to_addr, CFG[b + 1].start_addr, CFG[b + 1].fragment,
                               CFG[b + 1].branch_BB, next)
      BY <1>1, <1>3, BlockShape DEF Resolved
    <3> QED
      BY <1>7, <3>1
  <2> HIDE DEF F, S, branch
  <2>2. BodyLen(F) \in Nat /\ Len(F) \in Nat /\ BodyLen(F) < Len(F)
    BY <2>1, ShapeEnds
  <2>3. Fragment' = F
    BY <1>2 DEF Fragment, F
  <2> QED
    BY <2>1, <2>2, <2>3 DEF S
<1> QED
  BY <1>6, <1>7, <1>8 DEF None

LEMMA EnterInv ==
  ASSUME RunInv, Enter
  PROVE  RunInv'
<1>1. /\ pass = "run" /\ block = None /\ step < GiantStep
      /\ block' \in (IF Cardinality(Active) = 1 THEN Active ELSE Selected)
      /\ at' = 0 /\ UNCHANGED <<cfgVars, step, regs, accesses>>
  BY DEF Enter
<1>2. /\ UNCHANGED <<text, pass, CFG, label_to_addr, BBPath, sum_acc_cnt, step, PC, SP0, SP1, flag,
                     accesses>>
      /\ Active' = Active /\ pass' = "run"
  BY <1>1 DEF cfgVars, pathVars, regs, Active
<1>3. CfgInv /\ CfgInv' /\ GiantStep \in Nat /\ step \in 0 .. GiantStep /\ flag \in ASM!Flags
  BY <1>1, CfgInvKept, GiantStepAssumption DEF RunInv, WaitInv
<1>4. WaitInv' /\ BetweenInv' /\ CountedInv'
  BY <1>1, <1>2, <1>3, EnterBlock DEF RunInv, WaitInv, BetweenInv, CountedInv
<1>5. InsideInv'
  BY <1>1, <1>2, EnterBlock DEF InsideInv
<1>6. SelectInv'
  <2> SUFFICES SelectSound(text, label_to_addr, CFG[block' + 1].start_addr, Fragment', 0,
                           SP0, SP1, flag)
    BY <1>1, <1>2 DEF SelectInv
  <2>1. ~ (0 - BodyLen(Fragment') >= 1) /\ ~ (0 - BodyLen(Fragment') >= 2)
    BY EnterBlock
  <2> QED
    BY <2>1 DEF SelectSound, Chosen
<1> QED
  BY <1>3, <1>4, <1>5, <1>6 DEF RunInv

\* GenerateBBPath counted the accesses that Leave counts
LEMMA AccessesCounted ==
  ASSUME CfgInv, Resolved, NEW S \in SUBSET (0 .. Len(CFG) - 1)
  PROVE  { AccessesOf(b) : b \in S } = { CFG[b + 1].acc_cnt : b \in S }
<1>1. Len(CFG) \in Nat
  BY BlocksResolved DEF CfgInv
<1>2. ASSUME NEW b \in S PROVE AccessesOf(b) = CFG[b + 1].acc_cnt
  <2>1. b \in Nat /\ b + 1 \in 1 .. Len(CFG)
    BY <1>1
  <2> QED
    BY <2>1, BlockShape
<1> QED
  BY <1>2

LEMMA LeaveInv ==
  ASSUME RunInv, Leave
  PROVE  RunInv'
<1>1. /\ block # None /\ at = Len(Fragment) /\ block' = None /\ at' = 0 /\ step' = step + 1
      /\ accesses' = accesses + Largest({ AccessesOf(b) : b \in Active })
      /\ UNCHANGED <<cfgVars, regs>>
  BY DEF Leave
<1>2. UNCHANGED <<text, pass, CFG, BBPath, sum_acc_cnt, PC, flag>>
  BY <1>1 DEF cfgVars, pathVars, regs
<1>3. /\ CfgInv /\ pass = "run" /\ Resolved
      /\ step \in 0 .. GiantStep - 1 /\ step + 1 \in 1 .. GiantStep
      /\ block \in Active /\ flag \in ASM!Flags /\ GiantStep \in Nat
  BY <1>1, Running, GiantStepAssumption
<1>4. CfgInv'
  BY <1>1, <1>3, CfgInvKept
<1>5. WaitInv'
  BY <1>1, <1>2, <1>3 DEF WaitInv
<1>6. BetweenInv'
  <2> SUFFICES ASSUME step + 1 < GiantStep
               PROVE  \E b \in BBPath[(step + 1) + 1] : CFG[b + 1].start_addr = PC
    BY <1>1, <1>2 DEF BetweenInv, Active
  <2>1. PICK b \in Elements(CFG[block + 1].next_BB) : CFG[b + 1].start_addr = PC
    BY <1>1 DEF RunInv, InsideInv
  <2>2. step + 1 \in 1 .. GiantStep - 1
    BY <1>3
  <2>3. Elements(CFG[block + 1].next_BB) \subseteq BBPath[(step + 1) + 1]
    BY <1>3, <2>2, ActiveBlocks DEF Active
  <2> QED
    BY <2>1, <2>3
<1>7. InsideInv' /\ SelectInv'
  BY <1>1 DEF InsideInv, SelectInv
<1>8. CountedInv'
  <2>1. PICK acc : Counts(CFG, BBPath, sum_acc_cnt, acc) /\ accesses = acc[step]
    BY <1>3 DEF RunInv, CountedInv
  <2>2. Len(BBPath) = GiantStep /\ BBPath[step + 1] \in SUBSET (0 .. Len(CFG) - 1)
    BY <1>3, ActiveBlocks
  <2>3. { AccessesOf(b) : b \in Active } = { CFG[b + 1].acc_cnt : b \in BBPath[step + 1] }
    BY <1>3, <2>2, AccessesCounted DEF Active
  <2>4. acc[step + 1] = acc[step] + Largest({ CFG[b + 1].acc_cnt : b \in BBPath[step + 1] })
    <3>1. /\ step + 1 \in 1 .. Len(BBPath) /\ (step + 1) - 1 = step
      BY <1>3, <2>2
    <3>2. acc[step + 1] = acc[(step + 1) - 1]
                            + Largest({ CFG[b + 1].acc_cnt : b \in BBPath[step + 1] })
      BY <2>1, <3>1 DEF Counts
    <3> QED
      BY <3>1, <3>2
  <2>5. accesses' = acc[step']
    BY <1>1, <2>1, <2>3, <2>4
  <2>6. Counts(CFG, BBPath, sum_acc_cnt, acc)'
    BY <1>2, <2>1
  <2> QED
    BY <2>5, <2>6 DEF CountedInv
<1> QED
  BY <1>4, <1>5, <1>6, <1>7, <1>8 DEF RunInv

\* Before it runs
LEMMA PrepareInv ==
  ASSUME RunInv, CfgNext, UNCHANGED runVars
  PROVE  RunInv'
<1>1. UNCHANGED <<step, block, at, PC, SP0, SP1, flag, accesses>>
  BY DEF runVars, regs
<1>2. CfgInv' /\ CfgInv
  BY CfgInvNext DEF RunInv
<1>3. pass # "run"
  BY DEF CfgNext, GenerateCFG, GenerateBBPath, AddressPass, EndAddressPass, LabelLine, LocalLine,
         JumpLine, ConditionalLine, HaltLine, NoopLine, EndBlockPass, Resolve, PathStep, EndPath, At
<1>4. block = None /\ step = 0 /\ PC = 0 /\ accesses = 0 /\ at = 0
  BY <1>3 DEF RunInv, WaitInv
<1>5. WaitInv'
  BY <1>1, <1>4 DEF RunInv, WaitInv
<1>6. InsideInv' /\ SelectInv'
  BY <1>1, <1>4 DEF InsideInv, SelectInv
<1>7. BetweenInv'
  <2> SUFFICES ASSUME pass' = "run", 0 < GiantStep
               PROVE  \E b \in BBPath'[1] : CFG'[b + 1].start_addr = 0
    <3>1. (0 + 1) = 1
      OBVIOUS
    <3> QED
      BY <1>1, <1>4, <3>1 DEF BetweenInv, Active
  <2>1. EndPath
    <3>1. ~ GenerateCFG
      BY DEF GenerateCFG, AddressPass, EndAddressPass, LabelLine, LocalLine, JumpLine,
             ConditionalLine, HaltLine, NoopLine, EndBlock, EndBlockPass, Resolve, At
    <3>2. ~ PathStep
      BY DEF PathStep
    <3> QED
      BY <3>1, <3>2 DEF CfgNext, GenerateBBPath
  <2>2. pass = "path" /\ Len(BBPath) = GiantStep /\ UNCHANGED <<CFG, BBPath>>
    BY <2>1 DEF EndPath, pathVars
  <2>3. 0 \in BBPath[1]
    BY <1>2, <2>2, ActiveBlocks
  <2>4. CFG[1].start_addr = 0
    BY <1>2, <2>2, BlocksResolved DEF Resolved, CfgInv
  <2>5. CFG[0 + 1].start_addr = 0
    BY <2>4
  <2> QED
    BY <2>2, <2>3, <2>5
<1>8. CountedInv'
  <2>1. \E acc : Counts(CFG, BBPath, sum_acc_cnt, acc)'
    BY <1>2 DEF CfgInv, PathInv
  <2> QED
    BY <1>1, <1>4, <2>1 DEF CountedInv, Counts
<1> QED
  BY <1>2, <1>5, <1>6, <1>7, <1>8 DEF RunInv

LEMMA RunInvInit == Init => RunInv
<1> SUFFICES ASSUME Init PROVE RunInv
  OBVIOUS
<1>1. /\ CfgInit /\ step = 0 /\ block = None /\ at = 0 /\ PC = 0 /\ flag = <<FALSE, FALSE>>
      /\ accesses = 0
  BY DEF Init
<1>2. CfgInv /\ pass = "addresses"
  BY <1>1, CfgInvInit DEF CfgInit
<1>3. WaitInv
  <2>1. flag \in ASM!Flags
    BY <1>1 DEF ASM!Flags
  <2> QED
    BY <1>1, <2>1, GiantStepAssumption DEF WaitInv
<1> QED
  BY <1>1, <1>2, <1>3 DEF RunInv, BetweenInv, InsideInv, SelectInv, CountedInv

LEMMA RunInvNext ==
  ASSUME RunInv, [Next]_vars
  PROVE  RunInv'
<1>1. CASE (GenerateCFG \/ GenerateBBPath) /\ UNCHANGED runVars
  BY <1>1, PrepareInv DEF CfgNext
<1>2. CASE Enter
  BY <1>2, EnterInv
<1>3. CASE Exec
  BY <1>3, ExecInv
<1>4. CASE Leave
  BY <1>4, LeaveInv
<1>5. CASE Terminated \/ UNCHANGED vars
  <2>1. /\ UNCHANGED cfgVars
        /\ UNCHANGED <<text, pass, label_to_addr, CFG, BBPath, sum_acc_cnt>>
        /\ UNCHANGED <<step, block, at, PC, SP0, SP1, flag, accesses>>
    BY <1>5 DEF Terminated, vars, cfgVars, pathVars, runVars, regs
  <2>2. CfgInv'
    BY <2>1, CfgInvKept DEF RunInv
  <2>3. Active' = Active /\ Fragment' = Fragment
    BY <2>1 DEF Active, Fragment
  <2>4. WaitInv' /\ BetweenInv' /\ InsideInv' /\ SelectInv' /\ CountedInv'
    BY <2>1, <2>3 DEF RunInv, WaitInv, BetweenInv, InsideInv, SelectInv, CountedInv
  <2> QED
    BY <2>2, <2>4 DEF RunInv
<1> QED
  BY <1>1, <1>2, <1>3, <1>4, <1>5 DEF Next

LEMMA RunInvariant == Spec => []RunInv
<1>1. Init => RunInv
  BY RunInvInit
<1>2. RunInv /\ [Next]_vars => RunInv'
  BY RunInvNext
<1> QED
  BY <1>1, <1>2, PTL DEF Spec
-----------------------------------------------------------------------------
(***************************************************************************)
(* For every program, every number of steps and every path of the data:    *)
(* when a step begins, PC is the start address of exactly one of the       *)
(* blocks that GenerateBBPath activated for it.                            *)
(***************************************************************************)
THEOREM AlwaysOnePoint == Spec => []OnePoint
<1>1. RunInv => OnePoint
  <2> SUFFICES ASSUME RunInv, pass = "run", block = None, step < GiantStep
               PROVE  Cardinality(Selected) = 1
    BY DEF OnePoint
  <2>1. PICK b \in Active : CFG[b + 1].start_addr = PC
    BY DEF RunInv, BetweenInv
  <2>2. step + 1 \in 1 .. GiantStep
    BY GiantStepAssumption DEF RunInv, WaitInv
  <2>3. \A c \in Active : c \in Nat /\ c + 1 \in 1 .. Len(CFG)
    BY <2>2, ActiveBlocks DEF RunInv, Active
  <2>4. StartsIncrease /\ CFG \in Seq(BlockType) /\ DOMAIN CFG = 1 .. Len(CFG)
    BY LenProperties DEF RunInv, CfgInv, GraphInv, StartsInv, BlockInv
  <2>5. ASSUME NEW c \in Selected PROVE c = b
    <3>1. c \in Active /\ CFG[c + 1].start_addr = PC
      BY DEF Selected
    <3>2. /\ b \in Nat /\ c \in Nat /\ b + 1 \in DOMAIN CFG /\ c + 1 \in DOMAIN CFG
          /\ CFG[b + 1].start_addr \in Nat
      <4>1. CFG[b + 1] \in BlockType
        BY <2>1, <2>3, <2>4, ElementOfSeq
      <4> QED
        BY <2>1, <2>3, <2>4, <3>1, <4>1 DEF BlockType
    <3>3. ~ (b + 1 < c + 1) /\ ~ (c + 1 < b + 1)
      BY <2>1, <2>4, <3>1, <3>2 DEF StartsIncrease
    <3> QED
      BY <3>2, <3>3
  <2>6. Selected = {b}
    BY <2>1, <2>5 DEF Selected
  <2> QED
    BY <2>6, FS_Singleton
<1> QED
  BY <1>1, RunInvariant, PTL

(***************************************************************************)
(* For every program: the memory, built for MAXACC accesses, is accessed   *)
(* no more often than that on any path, and at the end exactly that often. *)
(***************************************************************************)
THEOREM AlwaysInBudget == Spec => []BudgetExact
<1>1. RunInv => BudgetExact
  <2> SUFFICES ASSUME RunInv, pass = "run"
               PROVE  accesses <= sum_acc_cnt /\ (step = GiantStep => accesses = sum_acc_cnt)
    BY DEF BudgetExact, Finished
  <2>1. PICK acc : Counts(CFG, BBPath, sum_acc_cnt, acc) /\ accesses = acc[step]
    BY DEF RunInv, CountedInv
  <2>2. Len(BBPath) = GiantStep
    BY DEF RunInv, CfgInv, PathInv
  <2>3. step \in 0 .. GiantStep /\ GiantStep \in 0 .. GiantStep /\ step <= GiantStep
    BY GiantStepAssumption DEF RunInv, WaitInv
  <2> QED
    BY <2>1, <2>2, <2>3 DEF Counts
<1> QED
  BY <1>1, RunInvariant, PTL

(***************************************************************************)
(* What is proved of the blocks of a program alone holds while it runs.    *)
(***************************************************************************)
THEOREM RunsAgree == Spec => [](PassesAgree /\ SuccessorsExist)
<1>1. RunInv => PassesAgree /\ SuccessorsExist
  BY CfgPassesAgree, CfgSuccessorsExist DEF RunInv
<1> QED
  BY <1>1, RunInvariant, PTL
-----------------------------------------------------------------------------
(* Executing the blocks is executing the program *)

\* The words of Assembly mean the same here and there
LEMMA SourceTerms ==
  /\ \A t, n : Source!Before(t, n) = ASM!Before(t, n)
  /\ \A t, l : Source!AddressOf(t, l) = ASM!AddressOf(t, l)
  /\ Source!NoopLabel = ASM!NoopLabel /\ Source!Conditional = ASM!Conditional
  /\ Source!Flags = ASM!Flags
<1>1. \A t, n : Source!Before(t, n) = ASM!Before(t, n)
  BY DEF Source!Before, ASM!Before, Source!Cardinality, ASM!Cardinality,
         Source!IsInstruction, ASM!IsInstruction
<1>2. \A t, l : Source!Definitions(t, l) = ASM!Definitions(t, l)
  BY DEF Source!Definitions, ASM!Definitions
<1>3. \A t, l : Source!AddressOf(t, l) = ASM!AddressOf(t, l)
  <2> TAKE t, l
  <2> DEFINE D == ASM!Definitions(t, l)
             last == CHOOSE k \in D : \A j \in D : j <= k
  <2>1. ASM!AddressOf(t, l) = IF D = {} THEN 0 ELSE ASM!Before(t, last)
    BY DEF ASM!AddressOf
  <2>2. Source!Definitions(t, l) = D
    BY <1>2
  <2>3. Source!AddressOf(t, l) = IF D = {} THEN 0 ELSE Source!Before(t, last)
    <3> HIDE DEF D
    <3> QED
      BY <2>2 DEF Source!AddressOf
  <2> QED
    BY <1>1, <2>1, <2>3
<1> QED
  BY <1>1, <1>3, Zenon DEF Source!NoopLabel, ASM!NoopLabel, Source!Conditional, ASM!Conditional,
         Source!Flags, ASM!Flags

LEMMA SourceTaken ==
  ASSUME NEW op \in ASM!Conditional, NEW f
  PROVE  Source!Taken(op, f) = ASM!Taken(op, f)
  BY Zenon DEF Source!Taken, ASM!Taken

LEMMA SourceProgram ==
  ASSUME NEW user \in Seq(ASM!UserLine), text = ASM!OpenAs(user)
  PROVE  Source!IsProgram(text)
<1>1. Source!UserLine = ASM!UserLine
  BY Zenon DEF Source!UserLine, ASM!UserLine, Source!Line, ASM!Line, Source!Jumps, ASM!Jumps,
        Source!Conditional, ASM!Conditional, Source!NoopLabel, ASM!NoopLabel
<1>2. \A u : Source!OpenAs(u) = ASM!OpenAs(u)
  BY Zenon DEF Source!OpenAs, ASM!OpenAs, Source!NoopLabel, ASM!NoopLabel
<1>3. Len(text) = Len(user) + 2 /\ \A k \in 1 .. Len(user) : text[k] = user[k]
  BY ProgramLines
<1>4. Len(user) \in Nat /\ \A k \in 1 .. Len(user) : user[k] \in ASM!UserLine
  BY LenProperties, ElementOfSeq
<1> DEFINE n == Len(text) - 2
           u == SubSeq(text, 1, n)
<1>5. n = Len(user) /\ n \in Int /\ 1 \in Int /\ \A k \in 1 .. n : text[k] \in ASM!UserLine
  BY <1>3, <1>4
<1>6. /\ u \in Seq(ASM!UserLine)
      /\ Len(u) = IF 1 <= n THEN n - 1 + 1 ELSE 0
      /\ \A k \in 1 .. n - 1 + 1 : u[k] = text[1 + k - 1]
  <2> HIDE DEF n
  <2> QED
    BY <1>5, SubSeqProperties
<1> HIDE DEF u
<1>7. Len(u) = Len(user) /\ \A k \in 1 .. Len(user) : u[k] = user[k]
  BY <1>3, <1>4, <1>5, <1>6
<1>8. u = user
  BY <1>6, <1>7, SeqEqual
<1>9. SubSeq(text, 1, Len(text) - 2) = user
  BY <1>8 DEF u
<1> QED
  BY <1>1, <1>2, <1>9, Zenon DEF Source!IsProgram

\* The address execution has reached in a block
LEMMA AddressInside ==
  ASSUME RunInv, Exec
  PROVE  /\ CurrentAddr = Start + (IF at < Last THEN at ELSE Last)
         /\ at + 1 < Len(Fragment) =>
              CurrentAddr' = Start + (IF at + 1 < Last THEN at + 1 ELSE Last)
         /\ at + 1 = Len(Fragment) => CurrentAddr' = PC'
         /\ text' = text
         /\ at \in Nat /\ Start \in Nat /\ Last \in Nat /\ Last < Len(Fragment)
         /\ Len(Fragment) \in Nat /\ Last = Len(Fragment) - LastLine(Fragment)
         /\ Len(text) \in Nat /\ flag \in ASM!Flags /\ GraphInv
<1>1. block # None /\ at < Len(Fragment) /\ block' = block /\ at' = at + 1
      /\ UNCHANGED <<text, CFG>>
  BY DEF Exec, cfgVars
<1>2. Fragment' = Fragment
  BY <1>1 DEF Fragment
<1>3. /\ at \in Nat /\ Len(Fragment) \in Nat /\ Len(text) \in Nat /\ Start \in Nat /\ GraphInv
      /\ flag \in ASM!Flags
  BY <1>1, Running DEF Start
<1>4. Last = Len(Fragment) - LastLine(Fragment) /\ Last \in Nat /\ Last < Len(Fragment)
  BY <1>1, Running, ShapeEnds DEF Last, BodyLen
<1>5. CurrentAddr = Start + (IF at < Last THEN at ELSE Last)
  BY <1>1, <1>3, <1>4 DEF CurrentAddr, Start, Last, BodyLen
<1>6. CurrentAddr' = IF at + 1 = Len(Fragment) THEN PC'
                     ELSE Start + (IF at + 1 < Last THEN at + 1 ELSE Last)
  BY <1>1, <1>2, <1>3, <1>4 DEF CurrentAddr, Start, Last, BodyLen
<1> QED
  BY <1>1, <1>3, <1>4, <1>5, <1>6

\* Addresses of labels are those of the first pass
LEMMA SourceAddress ==
  ASSUME GraphInv, Resolved, Len(text) \in Nat, NEW l
  PROVE  Source!AddressOf(text, l) = Lookup(label_to_addr, l)
<1>1. Points(label_to_addr, text, Len(text) + 1, Itself)
  BY DEF GraphInv, LabelsInv, Resolved
<1> QED
  BY <1>1, LabelAddress, SourceTerms

LEMMA LocalIsSource ==
  ASSUME RunInv, Exec, NEW k, LocalStep(k)
  PROVE  Source!Next
<1>1. /\ at < Last /\ LineAt(text, Start + at, k) /\ text[k].op \in Locals
      /\ (IF text[k].op = "set" THEN flag' \in ASM!Flags ELSE flag' = flag)
  BY DEF LocalStep
<1>2. CurrentAddr = Start + at /\ CurrentAddr' = CurrentAddr + 1
  BY <1>1, AddressInside
<1>3. Source!Instruction = text[k]
  BY <1>1, <1>2, AddressInside, SourceLine
<1>4. CASE text[k].op = "set"
  <2>1. flag' \in Source!Flags
    BY <1>1, <1>4, SourceTerms
  <2> QED
    BY <1>2, <1>3, <1>4, <2>1, AddressInside DEF Source!Next, Source!SetFlag
<1>5. CASE text[k].op \in {"plain", "access"}
  BY <1>1, <1>2, <1>3, <1>5, AddressInside DEF Source!Next, Source!Local
<1> QED
  BY <1>1, <1>4, <1>5 DEF Locals

LEMMA JumpIsSource ==
  ASSUME RunInv, Exec, NEW k, JumpStep(k)
  PROVE  Source!Next
<1>1. /\ at = Last /\ LastLine(Fragment) = 1 /\ LineAt(text, Start + Last, k)
      /\ text[k].op \in {"J", "HALT"} /\ flag' = flag
      /\ PC' = Lookup(label_to_addr, IF text[k].op = "J" THEN text[k].label ELSE ASM!NoopLabel)
  BY DEF JumpStep
<1>2. CurrentAddr = Start + Last /\ CurrentAddr' = PC' /\ text' = text
  BY <1>1, AddressInside
<1>3. Source!Instruction = text[k]
  BY <1>1, <1>2, AddressInside, SourceLine
<1>4. \A l : Source!AddressOf(text, l) = Lookup(label_to_addr, l)
  BY AddressInside, Running, SourceAddress DEF Exec
<1>5. CASE text[k].op = "J"
  BY <1>1, <1>2, <1>3, <1>4, <1>5 DEF Source!Next, Source!Jump
<1>6. CASE text[k].op = "HALT"
  <2>1. CurrentAddr' = Source!AddressOf(text, Source!NoopLabel)
    BY <1>1, <1>2, <1>4, <1>6, SourceTerms
  <2> QED
    BY <1>1, <1>2, <1>3, <1>6, <2>1 DEF Source!Next, Source!Halt
<1> QED
  BY <1>1, <1>5, <1>6

LEMMA TakeIsSource ==
  ASSUME RunInv, Exec, NEW k, TakeStep(k)
  PROVE  Source!Next
<1> DEFINE taken == ASM!Taken(text[k].op, flag)
<1>1. /\ at = Last + 4 /\ LastLine(Fragment) = 5 /\ LineAt(text, Start + Last, k)
      /\ text[k].op \in ASM!Conditional /\ flag' = flag
      /\ PC' = IF taken THEN Lookup(label_to_addr, text[k].label) ELSE Start + Last + 1
  BY DEF TakeStep
<1>2. CurrentAddr = Start + Last /\ CurrentAddr' = PC' /\ text' = text
  BY <1>1, AddressInside
<1>3. Source!Instruction = text[k]
  BY <1>1, <1>2, AddressInside, SourceLine
<1>4. Source!AddressOf(text, text[k].label) = Lookup(label_to_addr, text[k].label)
  BY AddressInside, Running, SourceAddress DEF Exec
<1>5. text[k].op \in Source!Conditional /\ Source!Taken(text[k].op, flag) = taken
  BY <1>1, SourceTerms, SourceTaken
<1> HIDE DEF taken
<1>6. CASE taken
  BY <1>1, <1>2, <1>3, <1>4, <1>5, <1>6 DEF Source!Next, Source!Jump
<1>7. CASE ~ taken
  BY <1>1, <1>2, <1>3, <1>5, <1>7 DEF Source!Next, Source!FallThrough
<1> QED
  BY <1>6, <1>7

\* No line of the program is executed
LEMMA Silent ==
  ASSUME RunInv, Exec, RunOnStep \/ \E k : SelectStep(k)
  PROVE  CurrentAddr' = CurrentAddr /\ text' = text /\ flag' = flag
<1>1. CASE RunOnStep
  BY <1>1, AddressInside DEF RunOnStep
<1>2. ASSUME NEW k, SelectStep(k)
      PROVE  CurrentAddr' = CurrentAddr /\ text' = text /\ flag' = flag
  BY <1>2, AddressInside DEF SelectStep
<1> QED
  BY <1>1, <1>2

LEMMA EnterSilent ==
  ASSUME RunInv, Enter
  PROVE  CurrentAddr' = CurrentAddr /\ text' = text /\ flag' = flag
<1>1. block = None /\ at' = 0 /\ UNCHANGED <<text, PC, flag, CFG>>
  BY DEF Enter, cfgVars, regs
<1> DEFINE S == CFG[block' + 1].start_addr
           m == BodyLen(Fragment')
<1>2. /\ S = PC /\ S \in Nat /\ m \in Nat /\ block' # None /\ ~ (0 = Len(Fragment'))
  BY EnterBlock
<1>3. m = Len(Fragment') - LastLine(Fragment')
  BY DEF BodyLen
<1>4. CurrentAddr' = S + IF 0 < m THEN 0 ELSE m
  BY <1>1, <1>2, <1>3 DEF CurrentAddr
<1> HIDE DEF m, S
<1>5. CurrentAddr' = PC
  BY <1>2, <1>4
<1> QED
  BY <1>1, <1>5 DEF CurrentAddr

(***************************************************************************)
(* For every program, every number of steps and every path of the data:    *)
(* the blocks, executed obliviously one after the other, do what the       *)
(* program says, instruction by instruction; all else they do is invisible *)
(* to it.                                                                  *)
(***************************************************************************)
THEOREM BlocksImplementAssembly == Spec => ImplementsAssembly
<1>1. Init => Source!Init
  <2> SUFFICES ASSUME Init PROVE Source!Init
    OBVIOUS
  <2>1. PICK user \in Texts : text = ASM!OpenAs(user)
    BY DEF Init, CfgInit
  <2>2. Source!IsProgram(text)
    BY <2>1, SourceProgram, TextsAssumption
  <2>3. CurrentAddr = 0 /\ flag = <<FALSE, FALSE>>
    BY DEF Init, CurrentAddr
  <2> QED
    BY <2>2, <2>3 DEF Source!Init
<1>2. RunInv /\ [Next]_vars => [Source!Next]_(Source!assemblyVars)
  <2> SUFFICES ASSUME RunInv, [Next]_vars
               PROVE  Source!Next \/ (CurrentAddr' = CurrentAddr /\ text' = text /\ flag' = flag)
    BY DEF Source!assemblyVars
  <2>1. CASE (GenerateCFG \/ GenerateBBPath) /\ UNCHANGED runVars
    <3>1. UNCHANGED <<block, PC, flag>>
      BY <2>1 DEF runVars, regs
    <3>2. text' = text
      BY <2>1 DEF GenerateCFG, GenerateBBPath, AddressPass, EndAddressPass, LabelLine, LocalLine,
                  JumpLine, ConditionalLine, HaltLine, NoopLine, EndBlock, EndBlockPass, Resolve,
                  PathStep, EndPath, passVars
    <3>3. pass # "run"
      BY <2>1 DEF GenerateCFG, GenerateBBPath, AddressPass, EndAddressPass, LabelLine, LocalLine,
                  JumpLine, ConditionalLine, HaltLine, NoopLine, EndBlockPass, Resolve, PathStep,
                  EndPath, At
    <3>4. block = None
      BY <3>3 DEF RunInv, WaitInv
    <3> QED
      BY <3>1, <3>2, <3>4 DEF CurrentAddr
  <2>2. CASE Enter
    BY <2>2, EnterSilent
  <2>3. CASE Exec
    BY <2>3, ExecSteps, LocalIsSource, JumpIsSource, TakeIsSource, Silent
  <2>4. CASE Leave
    <3>1. block # None /\ at = Len(Fragment) /\ block' = None /\ UNCHANGED <<text, PC, flag>>
      BY <2>4 DEF Leave, cfgVars, regs
    <3> QED
      BY <3>1 DEF CurrentAddr
  <2>5. CASE Terminated \/ UNCHANGED vars
    BY <2>5 DEF Terminated, vars, cfgVars, runVars, regs, CurrentAddr, Fragment
  <2> QED
    BY <2>1, <2>2, <2>3, <2>4, <2>5 DEF Next
<1> QED
  BY <1>1, <1>2, RunInvariant, PTL DEF Spec, ImplementsAssembly, Source!Spec
=============================================================================
