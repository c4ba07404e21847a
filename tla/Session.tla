------------------------------ MODULE Session -------------------------------
(***************************************************************************)
(* Execution of a fragment over labels (SGCUtils.cpp, SGCUtils.h): by      *)
(* Alice, in one go, with rows of material for its ANDs (GbFragment), and  *)
(* by Bob, in a session that stops at every memory access (EVSession).     *)
(* A register is a sequence of SIZE labels, bit 0 first.                   *)
(*                                                                         *)
(* Bob's instructions are Alice's for the offset 0: he holds 0 for an      *)
(* immediate, and a negation leaves his label alone.                       *)
(***************************************************************************)
EXTENDS BranchTree

Op(op, dst, src1, src2, imm) == [op |-> op, dst |-> dst, src1 |-> src1, src2 |-> src2, imm |-> imm]
IsAccess(inst) == inst.op \in {"LOAD", "STORE"}

ZeroWord == [j \in 1 .. SIZE |-> ZeroLabel]
XorWord(x, y) == XorRows(x, y)

\* GbGetImm
Immediate(imm, offset) == Vector([j \in 1 .. SIZE |-> When((imm \div 2^(j - 1)) % 2 = 1, offset)])

Registry(wires) == Vector([r \in 1 .. REG_CNT |-> SubSeq(wires, SIZE * (r - 1) + 1, SIZE * r)])

(***************************************************************************)
(* The words of an instruction that are and-ed with one bit (And_Bit),     *)
(* each taking 2 * SIZE rows, and its result given those rows.             *)
(***************************************************************************)
Conjunctions(reg, inst, offset) ==
  CASE inst.op = "AND0"  -> << <<reg[inst.src1], reg[inst.src2][1]>> >>
    [] inst.op = "CCOPY" -> << <<reg[inst.src2], reg[inst.src1][1]>>,
                               <<reg[inst.dst], reg[inst.src1][1] ++ offset>> >>
    [] OTHER -> <<>>

RowsTaken(inst) == 2 * SIZE * (CASE inst.op = "AND0" -> 1 [] inst.op = "CCOPY" -> 2 [] OTHER -> 0)

And_BitRows(word, bit, offset, nonce) ==
  FlattenSeq([j \in 1 .. SIZE |-> AndRows(word[j], bit, offset, nonce + 2 * (j - 1))])

And_Bit(word, bit, rows, nonce) ==
  Vector([j \in 1 .. SIZE |->
            AndHalf(word[j], bit, <<rows[2 * j - 1], rows[2 * j]>>, nonce + 2 * (j - 1))])

InstRows(reg, inst, offset, nonce) ==
  LET ands == Conjunctions(reg, inst, offset)
  IN  FlattenSeq([i \in 1 .. Len(ands) |->
                    And_BitRows(ands[i][1], ands[i][2], offset, nonce + 2 * SIZE * (i - 1))])

InstResult(reg, inst, offset, rows, nonce) ==
  LET ands == Conjunctions(reg, inst, offset)
      And(i) == And_Bit(ands[i][1], ands[i][2], Drop(rows, 2 * SIZE * (i - 1)),
                        nonce + 2 * SIZE * (i - 1))
  IN  CASE inst.op = "IMM"   -> Immediate(inst.imm, offset)
        [] inst.op = "COPY"  -> reg[inst.src1]
        [] inst.op = "XOR"   -> XorWord(reg[inst.src1], reg[inst.src2])
        [] inst.op = "AND0"  -> And(1)
        [] inst.op = "CCOPY" -> XorWord(And(1), And(2))

\* What an access presents to the memory: LOAD the word 0 as value
AccessIndex(reg, inst) == IF inst.op = "LOAD" THEN reg[inst.src1] ELSE reg[inst.dst]
AccessValue(reg, inst) == IF inst.op = "LOAD" THEN ZeroWord ELSE reg[inst.src1]
-----------------------------------------------------------------------------
(***************************************************************************)
(* Alice runs the instructions from pc on: s holds the registers, the rows *)
(* garbled, and the index and value of each access.  fresh[k] is the word  *)
(* that the k-th access returns.                                           *)
(***************************************************************************)
RECURSIVE GbRun(_, _, _, _, _, _)
GbRun(s, pc, prog, offset, nonce, fresh) ==
  IF pc > Len(prog) THEN s
  ELSE LET inst == prog[pc]
           rows == InstRows(s.reg, inst, offset, nonce + Len(s.rows))
           done == CASE inst.op = "NOOP" -> s
                     [] IsAccess(inst) ->
                          [reg |-> IF inst.op = "LOAD"
                                   THEN [s.reg EXCEPT ![inst.dst] = fresh[Len(s.idx) + 1]]
                                   ELSE s.reg,
                           rows |-> s.rows,
                           idx |-> Append(s.idx, AccessIndex(s.reg, inst)),
                           val |-> Append(s.val, AccessValue(s.reg, inst))]
                     [] OTHER ->
                          [s EXCEPT !.reg[inst.dst] = InstResult(s.reg, inst, offset, rows,
                                                                 nonce + Len(s.rows)),
                                    !.rows = @ \o rows]
       IN  GbRun(done, pc + 1, prog, offset, nonce, fresh)

Fresh(reg) == [reg |-> reg, rows |-> <<>>, idx |-> <<>>, val |-> <<>>]

ExtractAccessPattern(prog) == SelectSeq(prog, IsAccess)
Accesses(prog) == Len(ExtractAccessPattern(prog))

\* Mutant: a STORE draws no label, as it returns none
FlashWord_loadsOnly(seed, prog, k) ==
  LET loads == Len(SelectSeq(Take(ExtractAccessPattern(prog), k - 1),
                             LAMBDA inst : inst.op = "LOAD"))
  IN  Draw(seed, 3 + Wires + SIZE * loads, SIZE)

\* The word of the k-th access: each draws SIZE labels, a STORE too
FlashWord(seed, prog, k) == Draw(seed, 3 + Wires + SIZE * (k - 1), SIZE)

GbFragment(seed, prog, nonce) ==
  GbRun(Fresh(Registry(Draw(seed, 3, Wires))), 1, prog, LanguageOffset(seed), nonce,
        [k \in 1 .. Accesses(prog) |-> FlashWord(seed, prog, k)])

\* The material of a fragment, filled up with labels drawn next
Material(seed, prog, nonce, max_length) ==
  LET rows == GbFragment(seed, prog, nonce).rows
  IN  rows \o Draw(seed, 3 + Wires + SIZE * Accesses(prog), max_length - Len(rows))

\* GetMaxLength
GetMaxLength(fragments) ==
  FoldLeft(LAMBDA longest, prog :
             LET n == FoldLeft(LAMBDA sum, inst : sum + RowsTaken(inst), 0, prog)
             IN  IF n > longest THEN n ELSE longest,
           0, fragments)
-----------------------------------------------------------------------------
(* EVSession *)

EVSession(prog, reg, nonce_id, evmaterials) ==
  [prog |-> prog, pc |-> 1, nonce_id |-> nonce_id, mat_id |-> 0, reg |-> reg,
   evmaterials |-> evmaterials, idx |-> ZeroWord, val |-> ZeroWord]

Finished(s) == s.pc > Len(s.prog)

\* Mutant: a finished session keeps presenting its last access
Idle_keep(s) == s

\* A finished session presents the labels 0, as Alice does for its block
Idle(s) == [s EXCEPT !.idx = ZeroWord, !.val = ZeroWord]

\* Step: run up to the next access
RECURSIVE Step(_)
Step(s) ==
  IF Finished(s) THEN Idle(s)
  ELSE LET inst == s.prog[s.pc]
       IN  CASE IsAccess(inst) -> [s EXCEPT !.idx = AccessIndex(s.reg, inst),
                                            !.val = AccessValue(s.reg, inst)]
             [] inst.op = "NOOP" -> Step([s EXCEPT !.pc = @ + 1])
             [] OTHER ->
                  Step([s EXCEPT !.reg[inst.dst] =
                                   InstResult(s.reg, inst, ZeroLabel,
                                              Drop(s.evmaterials, s.mat_id), s.nonce_id),
                                 !.pc = @ + 1,
                                 !.nonce_id = @ + RowsTaken(inst),
                                 !.mat_id = @ + RowsTaken(inst)])

\* Continue: the access returned "word"
Continue(s, word) ==
  IF Finished(s) THEN s
  ELSE IF s.prog[s.pc].op = "LOAD" THEN [s EXCEPT !.reg[s.prog[s.pc].dst] = word, !.pc = @ + 1]
  ELSE [s EXCEPT !.pc = @ + 1]

Steps(sessions) == Vector([i \in 1 .. Len(sessions) |-> Step(sessions[i])])
Continues(sessions, words) == Vector([i \in 1 .. Len(sessions) |-> Continue(sessions[i], words[i])])
-----------------------------------------------------------------------------
(* The fragments of all the blocks, stacked *)

\* GbStackFragments: the material below node n, from its seed
RECURSIVE GbStackFragments(_, _, _, _, _)
GbStackFragments(n, seed, fragments, nonce, max_length) ==
  IF n >= Len(fragments)
  THEN Material(seed, fragments[n - Len(fragments) + 1], nonce, max_length)
  ELSE XorRows(GbStackFragments(Left(n), Prg[seed][1], fragments, nonce, max_length),
               GbStackFragments(Right(n), Prg[seed][2], fragments, nonce, max_length))

GenerateCondMatTree(seeds, fragments, nonce, max_length) ==
  <<<<>>>> \o [i \in 1 .. Len(seeds) - 1 |->
                 GbStackFragments(i + 1, seeds[i + 1], fragments, nonce, max_length)]

\* Mutant: a child's own material is taken off, not its sibling's
Unstack_own(rows, mats, n) == XorRows(rows, mats[n])

\* The material of child n: its father's less its sibling's
Unstack(rows, mats, n) == XorRows(rows, mats[Sibling(n)])

\* EvGenerateSession: a session for each leaf below n; wires: those of the leaves
RECURSIVE EvGenerateSession(_, _, _, _, _, _)
EvGenerateSession(n, mats, fragments, rows, wires, nonce) ==
  IF n >= Len(fragments)
  THEN << EVSession(fragments[n - Len(fragments) + 1], Registry(wires[1]), nonce, rows) >>
  ELSE LET half == Len(wires) \div 2
       IN  EvGenerateSession(Left(n), mats, fragments, Unstack(rows, mats, Left(n)),
                             Take(wires, half), nonce)
             \o EvGenerateSession(Right(n), mats, fragments, Unstack(rows, mats, Right(n)),
                                  Drop(wires, half), nonce)

\* GbStackFragmentsWithJunkProcess: the material, and the sessions Bob has below
\* each inactive child of an active node
RECURSIVE JunkSessions(_, _, _, _, _, _, _)
JunkSessions(n, seed, mats, fragments, held, nonce, max_length) ==
  IF n >= Len(fragments) THEN <<>>
  ELSE LET rows == GbStackFragments(n, seed, fragments, nonce, max_length)
           Junk(m) == m :> EvGenerateSession(m, mats, fragments, Unstack(rows, mats, m),
                                             held[m].res, nonce)
       IN  Junk(Left(n)) @@ Junk(Right(n))
             @@ JunkSessions(Left(n), Prg[seed][1], mats, fragments, held, nonce, max_length)
             @@ JunkSessions(Right(n), Prg[seed][2], mats, fragments, held, nonce, max_length)
=============================================================================
