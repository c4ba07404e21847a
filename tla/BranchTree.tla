----------------------------- MODULE BranchTree -----------------------------
(***************************************************************************)
(* The binary tree over the blocks of a step (SGCUtils.cpp): the tree of   *)
(* seeds, the multiplexer that splits the registers to the blocks, the one *)
(* that splits the result of a memory access ("flash"), and the one that   *)
(* joins the blocks' results.                                              *)
(*                                                                         *)
(* The 2^depth blocks are the leaves.  The root is node 1 and the children *)
(* of node n are 2n and 2n + 1, each id being one more than in the code.   *)
(* Every node but the root of Alice's tree has a seed, which draws, in     *)
(* this order: the seeds of the two children, the node's offset, and the   *)
(* labels of its wires.  Sequences indexed by node are called heaps.       *)
(*                                                                         *)
(* The material of a node is its own followed by that of its two children, *)
(* stacked: added up.  Who knows the seed of one child takes it off.       *)
(***************************************************************************)
EXTENDS Gadgets, SequencesExt

CONSTANTS SIZE,     \* BIT32::SIZE
          REG_CNT,  \* SGC::reg_cnt
          Prg       \* Prg[seed][i]: the i-th draw of SGC::PRG(seed)

Wires == SIZE * REG_CNT

\* A sequence, with all its elements evaluated
Vector(s) == <<>> \o s

XorRows(s, t) == Vector([i \in 1 .. Len(s) |-> s[i] ++ t[i]])

Drop(s, n) == SubSeq(s, n + 1, Len(s))
Take(s, n) == SubSeq(s, 1, n)

Draw(seed, drawn, n) == Vector([i \in 1 .. n |-> Prg[seed][drawn + i]])
LanguageOffset(seed) == Offset(Prg[seed][3])

Left(n) == 2 * n
Right(n) == 2 * n + 1
Father(n) == n \div 2
Sibling(n) == IF n % 2 = 0 THEN n + 1 ELSE n - 1
Level(n) == CHOOSE k \in 0 .. n : 2^k <= n /\ n < 2^(k + 1)

\* The depth of the tree for so many blocks
DepthFor(blocks) == CHOOSE d \in 0 .. blocks : 2^d >= blocks /\ (d = 0 \/ 2^(d - 1) < blocks)
-----------------------------------------------------------------------------
(* The tree of seeds *)

\* The labels of "the block is below this node", from those of the leaves up
RECURSIVE Accumulate(_)
Accumulate(level) ==
  IF Len(level) = 1 THEN level
  ELSE Accumulate(Vector([i \in 1 .. Len(level) \div 2 |-> level[2 * i - 1] ++ level[2 * i]]))
         \o level

\* The seeds of the nodes of a level, and of the levels below
RECURSIVE Expand(_, _)
Expand(level, depth) ==
  IF depth = 0 THEN level
  ELSE level \o Expand(Vector([i \in 1 .. 2 * Len(level) |->
                                 Prg[level[(i + 1) \div 2]][IF i % 2 = 1 THEN 1 ELSE 2]]),
                       depth - 1)

\* The keys of nodes 2, 3, ...: the label of the father less the node's own
SeedKeys(tree) == Vector([i \in 1 .. Len(tree) - 1 |-> tree[i + 1] ++ tree[Father(i + 1)]])

SeedRows(keys, offset, good) ==
  Vector([i \in 1 .. Len(keys) |-> SeedRow(keys[i], offset, good[i + 1])])

\* The bad seeds of Alice, and the seeds of Bob; the root has none
Seeds(keys, rows) == <<ZeroLabel>> \o [i \in 1 .. Len(keys) |-> Seed(keys[i], rows[i])]

\* bit_encode: for each level, the label of "the block is below a right child"
BitEncode(tree, depth) ==
  Vector([k \in 1 .. depth |->
            FoldLeft(Xor, ZeroLabel, [i \in 1 .. 2^(k - 1) |-> tree[2^k + 2 * i - 1]])])
-----------------------------------------------------------------------------
(***************************************************************************)
(* What Alice keeps of a tree after splitting (SplitReply, or delta_tree,  *)
(* cond_tree and prg_tree): heaps of the seeds, of the labels of the       *)
(* conditions, of the offsets, and of the labels drawn so far.             *)
(***************************************************************************)
Reply(root, b, offset, depth) ==
  LET seed == Expand(root, depth)
      inner == 2^depth - 1
  IN  [seed |-> seed,
       b |-> <<b>> \o [n \in 1 .. inner - 1 |-> Prg[seed[n + 1]][4]],
       offset |-> <<offset>> \o [n \in 1 .. Len(seed) - 1 |-> LanguageOffset(seed[n + 1])],
       drawn |-> Vector([n \in 1 .. Len(seed) |-> 3 + depth - Level(n) + Wires])]

\* The tree below a node, in the language of its seed
ReplyOf(seed, depth) == Reply(<<seed>>, Prg[seed][4], LanguageOffset(seed), depth)

Node(reply, n, b) == [b |-> b, offset |-> reply.offset[n],
                      left |-> reply.offset[Left(n)], right |-> reply.offset[Right(n)]]

SplitLayer(node, x, x0, x1) ==
  Vector([i \in 1 .. Len(x) |-> GbSplitWire(x[i], node, x0[i], x1[i])])
LayerRows(layer) == FlattenSeq([i \in 1 .. Len(layer) |-> layer[i].rows])
LayerJunk(layer, side) == Vector([i \in 1 .. Len(layer) |-> layer[i].junk[side]])

\* GbSplitMux: the material of node n, which splits the conditions b[2], ... of
\* the levels below and the wires x under its condition b[1]
RECURSIVE GbSplitMux(_, _, _, _)
GbSplitMux(reply, n, b, x) ==
  LET node == Node(reply, n, b[1])
      w == Tail(b) \o x
      x0 == Draw(reply.seed[Left(n)], 3, Len(w))
      x1 == Draw(reply.seed[Right(n)], 3, Len(w))
      inner == Len(b) - 1
  IN  GbTransDelta(node) \o LayerRows(SplitLayer(node, w, x0, x1))
        \o IF inner = 0 THEN <<>>
           ELSE XorRows(GbSplitMux(reply, Left(n), Take(x0, inner), Drop(x0, inner)),
                        GbSplitMux(reply, Right(n), Take(x1, inner), Drop(x1, inner)))

\* GenerateSplitMatTree: the material below each inner node, in the language of
\* its seed; the root has none
SplitMat(seed, depth) ==
  LET w == Draw(seed, 3, depth + Wires)
  IN  GbSplitMux(ReplyOf(seed, depth), 1, Take(w, depth), Drop(w, depth))

GenerateSplitMatTree(seeds, depth) ==
  <<[mat |-> <<>>, reply |-> <<>>]>>
    \o [i \in 1 .. 2^depth - 2 |->
          LET below == depth - Level(i + 1)
          IN  [mat |-> SplitMat(seeds[i + 1], below), reply |-> ReplyOf(seeds[i + 1], below)]]

Mats(split) == Vector([n \in 1 .. Len(split) |-> split[n].mat])

\* Two subtrees in level order make a tree in level order, but for its root
RECURSIVE Merge(_, _, _)
Merge(l, r, n) ==
  IF l = <<>> /\ r = <<>> THEN <<>>
  ELSE Take(l, n) \o Take(r, n) \o Merge(Drop(l, n), Drop(r, n), 2 * n)

LevelOrder(l, r) == Merge(l, r, 1)

(***************************************************************************)
(* EvSplitMux: what Bob holds below node n.  res: the wires at the leaves; *)
(* b and difference: the conditions, and what the offset changes by, of    *)
(* the nodes in level order.                                               *)
(***************************************************************************)
Held(res, b, difference) == [res |-> res, b |-> b, difference |-> difference]

RECURSIVE EvSplitMux(_, _, _, _, _)
EvSplitMux(n, mats, b, x, rows) ==
  LET w == Tail(b) \o x
      difference == EvTransDelta(b[1], rows)
      split == Vector([i \in 1 .. Len(w) |->
                         EvSplitWire(w[i], b[1], difference, SubSeq(rows, 3 * i, 3 * i + 2))])
      x0 == Vector([i \in 1 .. Len(w) |-> split[i][1]])
      x1 == Vector([i \in 1 .. Len(w) |-> split[i][2]])
      stack == Drop(rows, 2 + 3 * Len(w))
      inner == Len(b) - 1
  IN  IF inner = 0 THEN Held(<<x0, x1>>, b, <<difference>>)
      ELSE LET l == EvSplitMux(Left(n), mats, Take(x0, inner), Drop(x0, inner),
                               XorRows(stack, mats[Right(n)]))
               r == EvSplitMux(Right(n), mats, Take(x1, inner), Drop(x1, inner),
                               XorRows(stack, mats[Left(n)]))
           IN  Held(l.res \o r.res, <<b[1]>> \o LevelOrder(l.b, r.b),
                    <<difference>> \o LevelOrder(l.difference, r.difference))

(***************************************************************************)
(* GbSplitMuxWithJunkProcess: the same material as GbSplitMux, and for     *)
(* each node below n what Bob holds there when it is the inactive child of *)
(* an active node.  Alice plays Bob, with the material he unstacks.        *)
(***************************************************************************)
RECURSIVE GbSplitMuxWithJunk(_, _, _, _, _)
GbSplitMuxWithJunk(reply, n, mats, b, x) ==
  LET node == Node(reply, n, b[1])
      w == Tail(b) \o x
      x0 == Draw(reply.seed[Left(n)], 3, Len(w))
      x1 == Draw(reply.seed[Right(n)], 3, Len(w))
      layer == SplitLayer(node, w, x0, x1)
      junk0 == LayerJunk(layer, 1)
      junk1 == LayerJunk(layer, 2)
      own == GbTransDelta(node) \o LayerRows(layer)
      inner == Len(b) - 1
  IN  IF inner = 0
      THEN [rows |-> own,
            junk |-> (Left(n) :> Held(<<junk0>>, <<>>, <<>>))
                       @@ (Right(n) :> Held(<<junk1>>, <<>>, <<>>))]
      ELSE LET l == GbSplitMuxWithJunk(reply, Left(n), mats, Take(x0, inner), Drop(x0, inner))
               r == GbSplitMuxWithJunk(reply, Right(n), mats, Take(x1, inner), Drop(x1, inner))
               stack == XorRows(l.rows, r.rows)
               held0 == EvSplitMux(Left(n), mats, Take(junk0, inner), Drop(junk0, inner),
                                   XorRows(stack, mats[Right(n)]))
               held1 == EvSplitMux(Right(n), mats, Take(junk1, inner), Drop(junk1, inner),
                                   XorRows(stack, mats[Left(n)]))
           IN  [rows |-> own \o stack,
                junk |-> (Left(n) :> held0) @@ (Right(n) :> held1) @@ l.junk @@ r.junk]
-----------------------------------------------------------------------------
(* Flash: the word x a memory access returned is split to the leaves *)

Flashed(reply) == [reply EXCEPT !.drawn = Vector([n \in 1 .. Len(@) |-> @[n] + SIZE])]

FlashDraw(reply, n) == Draw(reply.seed[n], reply.drawn[n], SIZE)

FlashLayer(reply, n, x) ==
  SplitLayer(Node(reply, n, reply.b[n]), x, FlashDraw(reply, Left(n)), FlashDraw(reply, Right(n)))

RECURSIVE GbFlashSplit(_, _, _)
GbFlashSplit(reply, n, x) ==
  LayerRows(FlashLayer(reply, n, x))
    \o IF Left(n) > Len(reply.b) THEN <<>>
       ELSE XorRows(GbFlashSplit(reply, Left(n), FlashDraw(reply, Left(n))),
                    GbFlashSplit(reply, Right(n), FlashDraw(reply, Right(n))))

\* GenerateFlashSplitMatTree draws the word of the root from its seed as well
GenerateFlashSplitMatTree(split) ==
  <<<<>>>> \o [i \in 1 .. Len(split) - 1 |->
                 GbFlashSplit(split[i + 1].reply, 1, FlashDraw(split[i + 1].reply, 1))]

FlashedTree(split) ==
  <<split[1]>> \o [i \in 1 .. Len(split) - 1 |-> [split[i + 1] EXCEPT !.reply = Flashed(@)]]

\* EvFlashSplit: the words at the leaves below node n, the k-th of b
RECURSIVE EvFlashSplit(_, _, _, _, _, _)
EvFlashSplit(k, n, mats, x, rows, held) ==
  LET split == Vector([i \in 1 .. SIZE |->
                         EvSplitWire(x[i], held.b[k], held.difference[k],
                                     SubSeq(rows, 3 * i - 2, 3 * i))])
      x0 == Vector([i \in 1 .. SIZE |-> split[i][1]])
      x1 == Vector([i \in 1 .. SIZE |-> split[i][2]])
      stack == Drop(rows, 3 * SIZE)
  IN  IF Left(k) > Len(held.b) THEN <<x0, x1>>
      ELSE EvFlashSplit(Left(k), Left(n), mats, x0, XorRows(stack, mats[Right(n)]), held)
             \o EvFlashSplit(Right(k), Right(n), mats, x1, XorRows(stack, mats[Left(n)]), held)

\* GbFlashSplitMuxWithJunkProcess; held: what Bob holds at each inactive node
RECURSIVE GbFlashSplitWithJunk(_, _, _, _, _)
GbFlashSplitWithJunk(reply, n, mats, x, held) ==
  LET layer == FlashLayer(reply, n, x)
      junk0 == LayerJunk(layer, 1)
      junk1 == LayerJunk(layer, 2)
  IN  IF Left(n) > Len(reply.b)
      THEN [rows |-> LayerRows(layer),
            junk |-> (Left(n) :> <<junk0>>) @@ (Right(n) :> <<junk1>>)]
      ELSE LET l == GbFlashSplitWithJunk(reply, Left(n), mats, FlashDraw(reply, Left(n)), held)
               r == GbFlashSplitWithJunk(reply, Right(n), mats, FlashDraw(reply, Right(n)), held)
               stack == XorRows(l.rows, r.rows)
           IN  [rows |-> LayerRows(layer) \o stack,
                junk |-> (Left(n) :> EvFlashSplit(1, Left(n), mats, junk0,
                                                  XorRows(stack, mats[Right(n)]), held[Left(n)]))
                           @@ (Right(n) :> EvFlashSplit(1, Right(n), mats, junk1,
                                                        XorRows(stack, mats[Left(n)]), held[Right(n)]))
                           @@ l.junk @@ r.junk]
-----------------------------------------------------------------------------
(* Joining one wire *)

\* EvJoinMux, at the k-th node in level order of a tree with wires x at its leaves
RECURSIVE EvJoinMux(_, _, _, _)
EvJoinMux(k, rows, held, x) ==
  IF k > Len(held.b) THEN x[k - Len(held.b)]
  ELSE EvJoinNode(<<EvJoinMux(Left(k), rows, held, x), EvJoinMux(Right(k), rows, held, x)>>,
                  held.b[k], held.difference[k], rows[k])

\* GbJoinMux: junk[m] are the wires Bob has at the leaves below the inactive m
RECURSIVE GbJoinMux(_, _, _, _, _)
GbJoinMux(reply, n, x, held, junk) ==
  IF n > Len(reply.b) THEN [rows |-> <<>>, out |-> x[n - Len(reply.b)]]
  ELSE LET l == GbJoinMux(reply, Left(n), x, held, junk)
           r == GbJoinMux(reply, Right(n), x, held, junk)
           join == GbJoinNode(<<l.out, r.out>>,
                              << EvJoinMux(1, l.rows, held[Left(n)], junk[Left(n)]),
                                 EvJoinMux(1, r.rows, held[Right(n)], junk[Right(n)]) >>,
                              Node(reply, n, reply.b[n]))
       IN  [rows |-> <<join.row>> \o LevelOrder(l.rows, r.rows), out |-> join.out]
=============================================================================
