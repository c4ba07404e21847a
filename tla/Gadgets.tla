------------------------------ MODULE Gadgets -------------------------------
(***************************************************************************)
(* The gadgets of stacked garbling (SGCUtils.cpp), each as Alice's half    *)
(* and Bob's half.  A multiplexer node has a condition c, and a child for  *)
(* each value of c; each child is garbled under an offset of its own.      *)
(*                                                                         *)
(* Splitting, a wire goes to the child c names and becomes junk in the     *)
(* other; joining, the result of the child c names goes on and the junk of *)
(* the other is taken off.  Junk is harmless because Alice can foresee it: *)
(* it depends on c, and on nothing else that only Bob knows.               *)
(***************************************************************************)
EXTENDS Labels, Sequences

CONSTANT Key   \* the key of SGC::prf

ASSUME KeyAssumption == Key \in Keys

a ++ b == Xor(a, b)

\* c ? w : 0
When(c, w) == IF c THEN w ELSE ZeroLabel

HashSGC(w) == Prf[Key][w] ++ w

\* The bit 0 of an offset is set, so that two labels of a wire differ in colour
Offset(w) == w \cup {0}
-----------------------------------------------------------------------------
(* AND with the half-gates technique, over an offset that is a parameter    *)

HashGate(w, id) == HashHalfGates(Key, w, id)

AndRows(a, b, offset, n) ==
  << HashGate(a, n) ++ HashGate(a ++ offset, n) ++ When(Color(b), offset),
     HashGate(b, n + 1) ++ HashGate(b ++ offset, n + 1) ++ a >>

AndHalf(a, b, rows, n) ==
  HashGate(a, n) ++ When(Color(a), rows[1])
    ++ HashGate(b, n + 1) ++ When(Color(b), rows[2] ++ a)
-----------------------------------------------------------------------------
(* A multiplexer node is a record [b, offset, left, right]: Alice's label   *)
(* of its condition, its offset, and the offsets of its two children.       *)

ToLeft(node) == node.offset ++ node.left
ToRight(node) == node.offset ++ node.right
Hash0(node) == HashSGC(node.b)
Hash1(node) == HashSGC(node.b ++ node.offset)

\* Bob is to learn the difference between the node's offset and the child's
GbTransDelta(node) ==
  LET row0 == Hash0(node) ++ ToLeft(node)
      row1 == Hash1(node) ++ ToRight(node)
  IN  IF Color(node.b) THEN <<row1, row0>> ELSE <<row0, row1>>

EvTransDelta(b, rows) == HashSGC(b) ++ IF Color(b) THEN rows[2] ELSE rows[1]

\* A label is moved to another offset by its colour
Translate(w, difference) == w ++ When(Color(w), difference)

(***************************************************************************)
(* Conditional addition of x: Alice knows the label of x on the side of    *)
(* the condition, "label", and what Bob gets on the other side, "junk".    *)
(***************************************************************************)
GbCondAdd(x, node) ==
  LET row == HashSGC(x) ++ HashSGC(x ++ node.offset) ++ When(Color(node.b), node.offset)
      label == HashSGC(x) ++ When(Color(x), row) ++ When(~ Color(node.b), x)
  IN  [row |-> row, label |-> label, junk |-> label ++ x]

EvCondAdd(x, b, row) ==
  LET T == HashSGC(x) ++ When(Color(x), row)
  IN  << T ++ When(~ Color(b), x), T ++ When(Color(b), x) >>

(***************************************************************************)
(* One wire x of the node becomes the wires x0 and x1 of its children.     *)
(* Three rows go to the material.  If the condition is TRUE Bob's wire on  *)
(* the left is junk, and if it is FALSE the one on the right is.           *)
(***************************************************************************)
GbSplitWire(x, node, x0, x1) ==
  LET add == GbCondAdd(x, node)
      row0 == Translate(add.label, ToLeft(node)) ++ x0 ++ Hash0(node)
      row1 == Translate(add.label, ToRight(node)) ++ x1 ++ Hash1(node)
  IN  [rows |-> <<add.row, row0, row1>>,
       junk |-> << Translate(add.junk, ToRight(node)) ++ row0 ++ Hash1(node),
                   Translate(add.junk, ToLeft(node)) ++ row1 ++ Hash0(node) >>]

EvSplitWire(x, b, difference, rows) ==
  LET add == EvCondAdd(x, b, rows[1])
  IN  << Translate(add[1], difference) ++ rows[2] ++ HashSGC(b),
         Translate(add[2], difference) ++ rows[3] ++ HashSGC(b) >>

(***************************************************************************)
(* The outputs of the two children become one wire of the node.  Alice     *)
(* knows the labels "good" of both, and the junk Bob has of each when it   *)
(* is the inactive one.                                                    *)
(***************************************************************************)
GbJoinNode(good, junk, node) ==
  LET left == Translate(good[1], ToLeft(node))
      right == Translate(good[2], ToRight(node))
      junk_left == Translate(junk[1], ToRight(node))
      junk_right == Translate(junk[2], ToLeft(node))
      row == Hash0(node) ++ Hash1(node) ++ left ++ right
               ++ junk_left ++ junk_right
  IN  [row |-> row,
       out |-> Hash0(node) ++ left ++ junk_right ++ When(Color(node.b), row)]

EvJoinNode(x, b, difference, row) ==
  HashSGC(b) ++ Translate(x[1], difference) ++ Translate(x[2], difference)
    ++ When(Color(b), row)
-----------------------------------------------------------------------------
(***************************************************************************)
(* Seeds of a node whose sibling's point label is "key": Bob is to have    *)
(* the good one when the sibling is active, and otherwise the bad one,     *)
(* which follows from the row.                                             *)
(***************************************************************************)
SeedRow(key, offset, good) == HashSGC(key ++ offset) ++ good
Seed(key, row) == HashSGC(key) ++ row
=============================================================================
