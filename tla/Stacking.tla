------------------------------ MODULE Stacking ------------------------------
(***************************************************************************)
(* GbExecuteSingleBB and EvExecuteSingleBB (SGCUtils.cpp): a program is    *)
(* run one basic block a step.  Which block is secret: Alice garbles all   *)
(* the blocks that may be active in the step and stacks them; Bob          *)
(* evaluates each of them, all but one on junk, and the multiplexers       *)
(* select the results of the active one.  Memory accesses of the blocks    *)
(* are joined too: the k-th accesses of all blocks are one access of the   *)
(* memory.                                                                 *)
(*                                                                         *)
(* Alice runs the whole program first, and hands the material over; then   *)
(* Bob runs it.  Both must take the rows and the nonces in the same order. *)
(*                                                                         *)
(* The memory, an EpiGRAM, is what module EpiGram shows it to be: Bob's    *)
(* k-th access is answered in the labels of Alice's k-th.                  *)
(***************************************************************************)
EXTENDS Session

CONSTANTS PC, MemBits,
          CFG,        \* CFG[id] is a record [start_addr, fragment]
          BBPath,     \* BBPath[s]: the blocks that may be active in step s
          Memories,   \* the initial contents of the memory considered
          Offsets,    \* the values of SGC::delta considered
          Roots,      \* the seeds SGC::prg may draw for a tree
          FreshWords  \* the words of labels the memory may draw for an answer

VARIABLES
  turn, step, stage,       \* whose turn, which step, how far it is
  delta, material_buffer,
  gb_reg, ev_reg,
  ev_material_id,
  gb, ev,                  \* the local variables of the step
  accesses, ev_accesses,   \* Alice's accesses of the memory; the number of Bob's
  memory, memory_before,   \* what Bob's memory holds; and held before the step
  record                   \* history: what Alice had after each stage of a step

vars == <<turn, step, stage, delta, material_buffer, gb_reg, ev_reg, ev_material_id,
          gb, ev, accesses, ev_accesses, memory, memory_before, record>>

Number(bits) == LET Sum[j \in 0 .. Len(bits)] ==
                      IF j = 0 THEN 0
                      ELSE Sum[j - 1] + IF bits[j] THEN 2^(j - 1) ELSE 0
                IN  Sum[Len(bits)]

\* A label of Bob's stands for TRUE when it is not Alice's label for FALSE
Decode(word, base) == Vector([j \in 1 .. Len(word) |-> word[j] # base[j]])
EncodeWord(base, value) ==
  Vector([j \in 1 .. SIZE |-> Find_Wire(base[j], (value \div 2^(j - 1)) % 2 = 1, delta)])

None == <<>>
Active == BBPath[step]
Single == Len(Active) = 1
Depth == DepthFor(Len(Active))
Blocks == 2^Depth

\* The fragments of the step, filled up with empty ones
Fragments == Vector([i \in 1 .. Blocks |->
                       IF i <= Len(Active) THEN CFG[Active[i]].fragment ELSE <<>>])

MaxAccesses == LET Most[i \in 0 .. Blocks] ==
                     IF i = 0 THEN 0
                     ELSE LET n == Accesses(Fragments[i])
                          IN  IF n > Most[i - 1] THEN n ELSE Most[i - 1]
               IN  Most[Blocks]

\* SGC::material_id of Alice: the nonce of her next AND
GbNonce == Len(material_buffer)

\* GetRW: the label of "the active block's k-th access is a STORE"
GetRW(point, k) ==
  FoldLeft(Xor, ZeroLabel,
           [i \in 1 .. Blocks |->
              LET pattern == ExtractAccessPattern(Fragments[i])
              IN  When(k <= Len(pattern) /\ pattern[k].op = "STORE", point[i])])

(***************************************************************************)
(* reg[PC] == start_addr: for each block, the bits of PC, negated where    *)
(* the address has a 0, are and-ed; each AND takes two rows of the buffer. *)
(* The label 0 stands for the blocks filled up with.                       *)
(***************************************************************************)
EqualBits(word, addr, offset) ==
  [j \in 1 .. SIZE |-> IF (addr \div 2^(j - 1)) % 2 = 1 THEN word[j] ELSE word[j] ++ offset]

RECURSIVE GbPoint(_, _, _, _)
GbPoint(bits, j, acc, buffer) ==
  IF j > SIZE THEN [label |-> acc, buffer |-> buffer]
  ELSE LET n == Len(buffer)
           rows == AndRows(acc, bits[j], delta, n)
       IN  GbPoint(bits, j + 1, AndHalf(acc, bits[j], rows, n), buffer \o rows)

RECURSIVE GbPoints(_, _, _)
GbPoints(i, points, buffer) ==
  IF i > Blocks THEN [labels |-> points, buffer |-> buffer]
  ELSE IF i > Len(Active) THEN GbPoints(i + 1, Append(points, ZeroLabel), buffer)
  ELSE LET bits == EqualBits(gb_reg[PC], CFG[Active[i]].start_addr, delta)
           p == GbPoint(bits, 2, bits[1], buffer)
       IN  GbPoints(i + 1, Append(points, p.label), p.buffer)

RECURSIVE EvPoint(_, _, _, _)
EvPoint(word, j, acc, n) ==
  IF j > SIZE THEN acc
  ELSE EvPoint(word, j + 1, AndHalf(acc, word[j], SubSeq(material_buffer, n + 1, n + 2), n), n + 2)

\* Mutant: an AND for each bit, the first included
PointRows_all == 2 * SIZE

\* The rows of a comparison: the ANDs are one fewer than the bits
PointRows == 2 * (SIZE - 1)

EvPoints ==
  Vector([i \in 1 .. Blocks |->
            IF i > Len(Active) THEN ZeroLabel
            ELSE EvPoint(ev_reg[PC], 2, ev_reg[PC][1], ev_material_id + PointRows * (i - 1))])
-----------------------------------------------------------------------------
(* Alice *)

Remember(entry) == record' = Append(record, entry)
Entry(sessions, reg) == [step |-> step, position |-> Len(material_buffer'),
                         sessions |-> sessions, reg |-> reg]
FlashEntry == [step |-> step, position |-> Len(material_buffer) + Len(gb'.flashmaterials),
               sessions |-> gb'.sessions, reg |-> None]

GbTurn(at) == turn = "Alice" /\ step <= Len(BBPath) /\ stage = at
EvUnchanged == UNCHANGED <<turn, delta, ev_reg, ev_material_id, ev, ev_accesses,
                           memory, memory_before>>

\* GbExecuteSingleBBWithoutStacking: the only block, under the global offset
GbSingle ==
  \E fresh \in FreshWords :
    LET prog == CFG[Active[1]].fragment
        pattern == ExtractAccessPattern(prog)
        s == GbRun(Fresh(gb_reg), 1, prog, delta, GbNonce, [k \in 1 .. Len(pattern) |-> fresh])
    IN  /\ GbTurn("begin") /\ Single
        /\ material_buffer' = material_buffer \o s.rows
        /\ gb_reg' = s.reg
        /\ accesses' = accesses \o
             [k \in 1 .. Len(pattern) |->
                [idx |-> s.idx[k], val |-> s.val[k],
                 rw |-> When(pattern[k].op = "STORE", delta), out |-> fresh]]
        /\ step' = step + 1
        /\ Remember(Entry(None, gb_reg'))
        /\ UNCHANGED <<stage, gb>>
        /\ EvUnchanged

\* The point function, the tree of seeds and the split of the registers
GbSplit ==
  \E root \in Roots :
    LET points == GbPoints(1, <<>>, material_buffer)
        tree == Accumulate(points.labels)
        keys == SeedKeys(tree)
        bit_encode == BitEncode(tree, Depth)
        good == Expand(<<root>>, Depth)
        seedRows == SeedRows(keys, delta, good)
        bad == Vector(Seeds(keys, seedRows))
        junk_split == Vector(GenerateSplitMatTree(bad, Depth))
        reply == Reply(<<root>>, bit_encode[1], delta, Depth)
        split == GbSplitMuxWithJunk(reply, 1, Mats(junk_split), bit_encode, FlattenSeq(gb_reg))
    IN  /\ GbTurn("begin") /\ ~ Single
        /\ material_buffer' = points.buffer \o seedRows \o split.rows
        /\ gb' = [point |-> points.labels, good |-> good, bad |-> bad, reply |-> reply,
                  junk_split |-> junk_split, held |-> split.junk]
        /\ stage' = "stack"
        /\ Remember(Entry(None, None))
        /\ UNCHANGED <<step, gb_reg, accesses>>
        /\ EvUnchanged

\* The material of the blocks, garbled before it is added to the buffer
GbStack ==
  LET max_length == GetMaxLength(Fragments)
      mats == Vector(GenerateCondMatTree(gb.bad, Fragments, GbNonce, max_length))
  IN  /\ GbTurn("stack")
      /\ material_buffer' = material_buffer
           \o GbStackFragments(1, gb.good[1], Fragments, GbNonce, max_length)
      /\ gb' = [point |-> gb.point, reply |-> gb.reply, junk_split |-> gb.junk_split,
                held |-> gb.held, flashmaterials |-> <<>>, accid |-> 0,
                final |-> Vector([i \in 1 .. Blocks |->
                                    GbFragment(gb.good[Blocks - 1 + i], Fragments[i], GbNonce)]),
                sessions |-> JunkSessions(1, gb.good[1], mats, Fragments, gb.held, GbNonce,
                                          max_length)]
      /\ stage' = "access"
      /\ Remember(Entry(gb'.sessions, None))
      /\ UNCHANGED <<step, gb_reg, accesses>>
      /\ EvUnchanged

\* GbFlashJoin of one wire: labels are the blocks', junk the sessions'
GbFlashJoinWire(labels, junk) == GbJoinMux(gb.reply, 1, labels, gb.held, junk)
Joined(joins) == Vector([j \in 1 .. Len(joins) |-> joins[j].out])
JoinedRows(joins) == FlattenSeq([j \in 1 .. Len(joins) |-> joins[j].rows])

\* GbStepProcessJunk
SteppedJunk == [m \in DOMAIN gb.sessions |-> Steps(gb.sessions[m])]

\* One turn of the loop over the accesses
GbAccess ==
  \E out \in FreshWords :
    LET k == gb.accid + 1
        junk == SteppedJunk
        idx == Vector([j \in 1 .. SIZE |->
                 GbFlashJoinWire(
                   [i \in 1 .. Blocks |->
                      IF k <= Len(gb.final[i].idx) THEN gb.final[i].idx[k][j] ELSE ZeroLabel],
                   [m \in DOMAIN junk |-> [i \in 1 .. Len(junk[m]) |-> junk[m][i].idx[j]]])])
        val == Vector([j \in 1 .. SIZE |->
                 GbFlashJoinWire(
                   [i \in 1 .. Blocks |->
                      IF k <= Len(gb.final[i].val) THEN gb.final[i].val[k][j] ELSE ZeroLabel],
                   [m \in DOMAIN junk |-> [i \in 1 .. Len(junk[m]) |-> junk[m][i].val[j]]])])
        mats == Vector(GenerateFlashSplitMatTree(gb.junk_split))
        flash == GbFlashSplitWithJunk(gb.reply, 1, mats, out, gb.held)
    IN  /\ GbTurn("access") /\ gb.accid < MaxAccesses
        /\ accesses' = Append(accesses, [idx |-> Joined(idx), val |-> Joined(val),
                                         rw |-> GetRW(gb.point, k), out |-> out])
        /\ gb' = [gb EXCEPT !.accid = k,
                            !.flashmaterials = @ \o JoinedRows(idx) \o JoinedRows(val) \o flash.rows,
                            !.reply = Flashed(@),
                            !.junk_split = Vector(FlashedTree(@)),
                            !.sessions = [m \in DOMAIN junk |-> Continues(junk[m], flash.junk[m])]]
        /\ UNCHANGED <<step, stage, material_buffer, gb_reg>>
        /\ Remember(FlashEntry)
        /\ EvUnchanged

\* After the last access: the registers of the blocks are joined, wire by wire
GbJoin ==
  LET junk == SteppedJunk
      joins == Vector([w \in 1 .. Wires |->
                 LET r == ((w - 1) \div SIZE) + 1
                     j == ((w - 1) % SIZE) + 1
                 IN  GbFlashJoinWire(
                       [i \in 1 .. Blocks |-> gb.final[i].reg[r][j]],
                       [m \in DOMAIN junk |-> [i \in 1 .. Len(junk[m]) |-> junk[m][i].reg[r][j]]])])
  IN  /\ GbTurn("access") /\ gb.accid = MaxAccesses
      /\ material_buffer' = material_buffer \o gb.flashmaterials \o JoinedRows(joins)
      /\ gb_reg' = Registry(Joined(joins))
      /\ gb' = None
      /\ stage' = "begin"
      /\ step' = step + 1
      /\ Remember(Entry(junk, gb_reg'))
      /\ UNCHANGED accesses
      /\ EvUnchanged

\* The material is handed over and Bob begins
HandOver ==
  /\ turn = "Alice" /\ step > Len(BBPath)
  /\ turn' = "Bob" /\ step' = 1
  /\ UNCHANGED <<stage, delta, material_buffer, gb_reg, ev_reg, ev_material_id, gb, ev,
                 accesses, ev_accesses, memory, memory_before, record>>
-----------------------------------------------------------------------------
(* Bob *)

EvTurn(at) == turn = "Bob" /\ step <= Len(BBPath) /\ stage = at
GbUnchanged == UNCHANGED <<turn, delta, material_buffer, gb_reg, gb, accesses, record>>

\* The next n rows.  Reading past the end is undefined: Bob has no such step.
Buffer(n) == SubSeq(material_buffer, ev_material_id + 1, ev_material_id + n)
Enough(n) == ev_material_id + n <= Len(material_buffer)

(***************************************************************************)
(* The k-th access of the memory.  What Bob presents stands for an index,  *)
(* a value and "store"; he gets the old word in the labels Alice drew.     *)
(***************************************************************************)
Position(k, idx) == Number(Decode(Take(idx, MemBits), Take(accesses[k].idx, MemBits)))

Remembers(mem, k, idx, val, rw) ==
  IF rw # accesses[k].rw
  THEN [mem EXCEPT ![Position(k, idx)] = Number(Decode(val, accesses[k].val))]
  ELSE mem

Answer(mem, k, idx) == EncodeWord(accesses[k].out, mem[Position(k, idx)])

\* EvExecuteSingleBBWithoutStacking, as a session that is alone.  The delta of
\* Bob is 0, and so is his label of "store".
RECURSIVE EvRun(_, _, _)
EvRun(s, mem, k) ==
  LET stepped == Step(s)
  IN  IF Finished(stepped) THEN [session |-> stepped, memory |-> mem, accesses |-> k]
      ELSE EvRun(Continue(stepped, Answer(mem, k + 1, stepped.idx)),
                 Remembers(mem, k + 1, stepped.idx, stepped.val, ZeroLabel), k + 1)

EvSingle ==
  LET prog == CFG[Active[1]].fragment
      n == GetMaxLength(<<prog>>)
      run == EvRun(EVSession(prog, ev_reg, ev_material_id, Buffer(n)), memory, ev_accesses)
  IN  /\ EvTurn("begin") /\ Single /\ Enough(n)
      /\ ev_reg' = run.session.reg
      /\ ev_material_id' = run.session.nonce_id
      /\ ev_accesses' = run.accesses
      /\ memory' = run.memory
      /\ memory_before' = run.memory
      /\ step' = step + 1
      /\ UNCHANGED <<stage, ev>>
      /\ GbUnchanged

\* GetSplitMuxSize: two rows a node, and three for each wire split
GetSplitMuxSize(d, x) == 2 * d + 3 * ((d * (d - 1)) \div 2) + 3 * d * x

EvSplit ==
  LET points == EvPoints
      tree == Accumulate(points)
      keys == SeedKeys(tree)
      read == PointRows * Len(Active)
      seedRows == Take(Drop(Buffer(read + Len(keys)), read), Len(keys))
      bit_encode == BitEncode(tree, Depth)
      seeds == Vector(Seeds(keys, seedRows))
      split_record == Vector(GenerateSplitMatTree(seeds, Depth))
      n == read + Len(keys) + GetSplitMuxSize(Depth, Wires)
  IN  /\ EvTurn("begin") /\ ~ Single /\ Enough(n)
      /\ ev' = [point |-> points, seeds |-> seeds, split_record |-> split_record,
                held |-> EvSplitMux(1, Mats(split_record), bit_encode, FlattenSeq(ev_reg),
                                    Drop(Buffer(n), read + Len(keys)))]
      /\ ev_material_id' = ev_material_id + n
      /\ stage' = "stack"
      /\ UNCHANGED <<step, ev_reg, ev_accesses, memory, memory_before>>
      /\ GbUnchanged

\* The ANDs of the sessions count on from the position of the material
EvStack ==
  LET max_length == GetMaxLength(Fragments)
      mats == Vector(GenerateCondMatTree(ev.seeds, Fragments, ev_material_id, max_length))
      sessions == EvGenerateSession(1, mats, Fragments, Buffer(max_length), ev.held.res,
                                    ev_material_id)
  IN  /\ EvTurn("stack") /\ Enough(max_length)
      /\ ev' = [point |-> ev.point, split_record |-> ev.split_record, held |-> ev.held,
                accid |-> 0, presented |-> None, sessions |-> sessions, stepped |-> Steps(sessions)]
      /\ ev_material_id' = ev_material_id + max_length
      /\ stage' = "access"
      /\ UNCHANGED <<step, ev_reg, ev_accesses, memory, memory_before>>
      /\ GbUnchanged

\* One wire of the sessions, joined with the rows of the w-th wire read
Inner == Blocks - 1
EvJoinWire(w, x) == EvJoinMux(1, Take(Drop(Buffer(Inner * w), Inner * (w - 1)), Inner), ev.held, x)
EvFlashJoin(words, w) ==
  Vector([j \in 1 .. SIZE |-> EvJoinWire(w + j, [i \in 1 .. Blocks |-> words[i][j]])])

AllFinished == \A i \in 1 .. Blocks : Finished(ev.stepped[i])

EvAccess ==
  LET k == ev_accesses + 1
      idx == EvFlashJoin([i \in 1 .. Blocks |-> ev.stepped[i].idx], 0)
      val == EvFlashJoin([i \in 1 .. Blocks |-> ev.stepped[i].val], SIZE)
      out == Answer(memory, k, idx)
      joined == 2 * SIZE * Inner
      n == joined + 3 * SIZE * Depth
      mats == Vector(GenerateFlashSplitMatTree(ev.split_record))
      words == EvFlashSplit(1, 1, mats, out, Drop(Buffer(n), joined), ev.held)
      rw == GetRW(ev.point, ev.accid + 1)
      sessions == Continues(ev.stepped, words)
  IN  /\ EvTurn("access") /\ ~ AllFinished /\ Enough(n) /\ k <= Len(accesses)
      /\ memory' = Remembers(memory, k, idx, val, rw)
      /\ ev_accesses' = k
      /\ ev' = [ev EXCEPT !.accid = @ + 1,
                          !.presented = [idx |-> idx, val |-> val, rw |-> rw],
                          !.split_record = Vector(FlashedTree(@)),
                          !.sessions = sessions,
                          !.stepped = Steps(sessions)]
      /\ ev_material_id' = ev_material_id + n
      /\ UNCHANGED <<step, stage, ev_reg, memory_before>>
      /\ GbUnchanged

\* EvJoinRegistry
EvJoin ==
  LET n == Inner * Wires
      joined == Vector([w \in 1 .. Wires |->
                  EvJoinWire(w, [i \in 1 .. Blocks |->
                                   FlattenSeq(ev.stepped[i].reg)[w]])])
  IN  /\ EvTurn("access") /\ AllFinished /\ Enough(n)
      /\ ev_reg' = Registry(joined)
      /\ ev_material_id' = ev_material_id + n
      /\ memory_before' = memory
      /\ ev' = None
      /\ stage' = "begin"
      /\ step' = step + 1
      /\ UNCHANGED <<ev_accesses, memory>>
      /\ GbUnchanged

Done == turn = "Bob" /\ step > Len(BBPath)
Terminated == Done /\ UNCHANGED vars
-----------------------------------------------------------------------------
Bob == EvSingle \/ EvSplit \/ EvStack \/ EvAccess \/ EvJoin
Alice == GbSingle \/ GbSplit \/ GbStack \/ GbAccess \/ GbJoin \/ HandOver

ZeroRegistry == [r \in 1 .. REG_CNT |-> ZeroWord]

Init == /\ turn = "Alice" /\ step = 1 /\ stage = "begin"
        /\ delta \in Offsets
        /\ material_buffer = <<>> /\ ev_material_id = 0
        /\ gb_reg = ZeroRegistry /\ ev_reg = ZeroRegistry
        /\ gb = None /\ ev = None
        /\ accesses = <<>> /\ ev_accesses = 0
        /\ memory \in Memories /\ memory_before = memory
        /\ record = <<>>

Next == Alice \/ Bob \/ Terminated

Spec == Init /\ [][Next]_vars
-----------------------------------------------------------------------------
(* What Bob has, against what Alice had at the same point *)

\* Alice's labels at the beginning of step s
RegistryBefore(s) ==
  IF s = 1 THEN ZeroRegistry
  ELSE (CHOOSE entry \in Range(record) : entry.step = s - 1 /\ entry.reg # None).reg

Base == IF turn = "Alice" THEN ZeroRegistry ELSE RegistryBefore(step)
Decoded == Vector([r \in 1 .. REG_CNT |-> Number(Decode(ev_reg[r], Base[r]))])

\* The number of stages Bob has finished
Stages ==
  Cardinality({ i \in DOMAIN record : record[i].step < step })
    + CASE stage = "begin" -> 0 [] stage = "stack" -> 1 [] stage = "access" -> 2 + ev.accid

\* A node and its ancestors, but for the root
RECURSIVE Path(_)
Path(n) == IF n = 1 THEN {} ELSE {n} \cup Path(Father(n))

SessionsBelow(n) == LET width == 2^(Depth - Level(n))
                    IN  SubSeq(ev.sessions, n * width - Inner, n * width - Inner + width - 1)
-----------------------------------------------------------------------------
(***************************************************************************)
(* The two parties compute what the processor computes: decoded, Bob's     *)
(* registers and memory after each step are those after the one block      *)
(* whose start address is in PC, though he evaluates all that may be       *)
(* active (EvExecuteSingleBB).                                             *)
(***************************************************************************)
M == INSTANCE Machine WITH reg <- Decoded, mem <- memory_before
ImplementsMachine == M!Spec

(***************************************************************************)
(* Whatever was junk, each wire that leaves a step (GbJoinRegistry,        *)
(* EvJoinRegistry) and each that is presented to the memory (GbFlashJoin,  *)
(* GetRW) is one of the two labels Alice has for it: no third label goes   *)
(* on, though a block that has finished presents an access too.            *)
(***************************************************************************)
Encodes(word, base) == \A j \in 1 .. SIZE : word[j] \in {base[j], base[j] ++ delta}

LabelsEncode ==
  /\ \A r \in 1 .. REG_CNT : Encodes(ev_reg[r], Base[r])
  /\ turn = "Bob" /\ stage = "access" /\ ev.accid > 0 =>
       LET access == accesses[ev_accesses]
       IN  /\ Encodes(ev.presented.idx, access.idx)
           /\ Encodes(ev.presented.val, access.val)
           /\ ev.presented.rw \in {access.rw, access.rw ++ delta}

(***************************************************************************)
(* Alice foresees the junk: below every inactive sibling of the active     *)
(* path, Bob's sessions are after each access those Alice stepped when she *)
(* garbled (GbStackFragmentsWithJunkProcess, GbStepProcessJunk), in        *)
(* registers, material, program counter and nonce.                         *)
(***************************************************************************)
JunkForeseen ==
  turn = "Bob" /\ stage = "access" =>
    \A i \in 1 .. Len(Active) :
      CFG[Active[i]].start_addr = Decoded[PC] =>
        \A n \in Path(Inner + i) :
          record[Stages].sessions[Sibling(n)] = SessionsBelow(Sibling(n))

(***************************************************************************)
(* Bob counts the rows he must take from the program alone                 *)
(* (GetSplitMuxSize, GetMaxLength): after each stage he has read up to     *)
(* where Alice wrote, and in the end all rows and accesses are used.       *)
(***************************************************************************)
CountersMeet ==
  turn = "Bob" =>
    /\ ev_material_id = IF Stages = 0 THEN 0 ELSE record[Stages].position
    /\ Done => ev_material_id = Len(material_buffer) /\ ev_accesses = Len(accesses)
=============================================================================
