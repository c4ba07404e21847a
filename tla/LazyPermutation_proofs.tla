----------------------- MODULE LazyPermutation_proofs -----------------------
(***************************************************************************)
(* The lazy permutation, for every number of leaves and every order of     *)
(* look-ups: Bob reads in the material what Alice wrote there for the use  *)
(* he makes of it, though she wrote it node after node and he reads it     *)
(* access after access.                                                    *)
(***************************************************************************)
EXTENDS LazyPermutation, Induction, SequenceTheorems, FiniteSetTheorems

-----------------------------------------------------------------------------
(* The tree *)

\* A node by its depth and its number among the nodes of that depth
Ids == {x \in [d : 0 .. Logn, k : 0 .. N - 1] : x.k < PowerOf2[x.d]}

Height(x) == Logn - x.d
Size(x) == PowerOf2[Height(x)]
Inner == {x \in Ids : x.d < Logn}

RootId == [d |-> 0, k |-> 0]
Kid(x, b) == [d |-> x.d + 1, k |-> 2 * x.k + b]
Parent(x) == [d |-> x.d - 1, k |-> x.k \div 2]

\* The material of the uses of one node of that height, and of all its tree
Own(h) == CostUntil(PowerOf2[h], PowerOf2[h])
TreeCost[h \in Nat] == IF h = 0 THEN Own(0) ELSE Own(h) + 2 * TreeCost[h - 1]

(***************************************************************************)
(* A node with the position where its material begins and the place of the *)
(* stack that holds its languages.  Tree[d] has the nodes of depth d.      *)
(***************************************************************************)
Placed(node, pos, of) == [node |-> node, pos |-> pos, of |-> of]

LeftPlaced(y, h) == Placed(Left(y.node), y.pos + Own(h), y.node.st)
RightPlaced(y, h) ==
  Placed(Right(y.node), y.pos + Own(h) + TreeCost[h - 1], y.node.st + 1)

Tree[d \in 0 .. Logn] ==
  IF d = 0 THEN [k \in Nat |-> Placed(Root, Before, -1)]
  ELSE [k \in Nat |-> IF k % 2 = 0 THEN LeftPlaced(Tree[d - 1][k \div 2], Logn - d + 1)
                      ELSE RightPlaced(Tree[d - 1][k \div 2], Logn - d + 1)]

NodeOf(x) == Tree[x.d][x.k].node
PosOf(x) == Tree[x.d][x.k].pos
LangsOf(x) == Languages(Tree[x.d][x.k].of, Size(x))
End == Before + TreeCost[Logn]
-----------------------------------------------------------------------------
(* The invariant: set-up *)

Above(x, y) == x.d <= y.d /\ y.k \div PowerOf2[y.d - x.d] = x.k

\* The calls to come, by their nodes, each with its subtree: their material goes
\* on from `from`, without a gap, to the end
Walk(ids, from) ==
  /\ ids \in Seq(Ids)
  /\ from = IF ids = <<>> THEN End ELSE PosOf(ids[1])
  /\ \A i \in 1 .. Len(ids) :
        PosOf(ids[i]) + TreeCost[Height(ids[i])] = IF i = Len(ids) THEN End ELSE PosOf(ids[i + 1])

ToDo(ids, x) == \E i \in 1 .. Len(ids) : Above(ids[i], x)

GCall(x) == Call(NodeOf(x), LangsOf(x))

\* What Alice has written for the use i of x
Uses(x) == 0 .. Size(x) - 1
At(x, i) == PosOf(x) + CostUntil(Size(x), i)
LeftFor(x, i) == At(x, i) \in DOMAIN gcode
                 /\ gcode[At(x, i)] = Material(NodeOf(x), i, {LangsOf(x)[i + 1]})

AliceInv(ids) ==
  /\ gPending = [i \in 1 .. Len(ids) |-> GCall(ids[i])]
  /\ gtimer \in 0 .. N /\ gcost \in Nat
  /\ Walk(ids, gcost - gtimer)
  /\ ids # <<>> => gtimer = 0
  /\ \A p \in DOMAIN gcode : p \in Nat /\ p < gcost
  /\ \A x \in Ids : ToDo(ids, x) \/ \A i \in Uses(x) : LeftFor(x, i)
  /\ \A i \in 0 .. gtimer - 1 : End + i \in DOMAIN gcode /\ gcode[End + i] = Opening(i)

-----------------------------------------------------------------------------
(* The invariant: accesses *)

Busy == at # <<>>
Depth == Logn - Len(at.path)

\* The leaves looked up whose accesses have come past depth d, and those of
\* them below x; how often x was used, and how often its parent led to it
Past(d) == {ix \in used : ~ (Busy /\ ix = at.ix /\ d >= Depth)}
Below(x) == {ix \in 0 .. N - 1 : ix \div Size(x) = x.k}
Used(x) == Cardinality(Past(x.d) \cap Below(x))
Handed(x) == Cardinality(Past(x.d - 1) \cap Below(x))

\* A stack that was queried `uses` times and gave `handed` of its words
StackAfter(place, words, uses, handed) ==
  [words |-> words, timer |-> uses,
   content |-> [i \in 1 .. words - handed |-> <<place, handed + i>>]]

StackFor(place, x, y) == StackAfter(place, Size(y), Used(x), Handed(y))

StacksFilled(x) ==
  /\ stacks[NodeOf(x).st] = StackFor(NodeOf(x).st, x, Kid(x, 0))
  /\ stacks[NodeOf(x).st + 1] = StackFor(NodeOf(x).st + 1, x, Kid(x, 1))

BobInv(eids, sids) ==
  /\ eids \in Seq(Ids) /\ ePending = [i \in 1 .. Len(eids) |-> NodeOf(eids[i])]
  /\ Walk(sids, scost) /\ sPending = [i \in 1 .. Len(sids) |-> NodeOf(sids[i])]
  /\ eids # <<>> => sids # <<>>
  /\ sids # <<>> => used = {} /\ timer = 0 /\ at = <<>>
  /\ DOMAIN stacks = 0 .. 2 * N - 3
  /\ DOMAIN resource_positions = 0 .. 2 * N - 2
  /\ \A x \in Inner : ToDo(eids, x) \/ StacksFilled(x)
  /\ \A x \in Ids : ToDo(sids, x) \/ resource_positions[NodeOf(x).rp] = At(x, Used(x))

\* What is left of a path when n bits of it are left: the lowest, highest first
PathOf(ix, n) == [j \in 1 .. n |-> Bit(ix, n - j)]

\* The node he is at: the one of his depth above the leaf he looks up
Here == [d |-> Depth, k |-> at.ix \div PowerOf2[Len(at.path)]]

AccessInv ==
  /\ used \in SUBSET (0 .. N - 1)
  /\ timer = Cardinality(Past(Logn))
  /\ sPending = <<>> => IF Busy THEN saved = End + timer + 1 ELSE ecost = End + timer
  /\ Busy => /\ gPending = <<>> /\ sPending = <<>>
             /\ at.ix \in used /\ Len(at.path) \in 0 .. Logn /\ Here \in Ids
             /\ at.path = PathOf(at.ix, Len(at.path))
             /\ at = [node |-> NodeOf(Here), ix |-> at.ix, path |-> at.path,
                      lang |-> {LangsOf(Here)[Used(Here) + 1]}]

LazyInv ==
  /\ \E ids \in Seq(Ids) : AliceInv(ids)
  /\ \E eids, sids \in Seq(Ids) : BobInv(eids, sids)
  /\ AccessInv
  /\ Aligned /\ FindsItsLeaf
-----------------------------------------------------------------------------
(* Powers and costs *)

LEMMA PowersAre == \A n \in Nat : PowerOf2[n] \in Nat \ {0} /\ PowerOf2[n + 1] = 2 * PowerOf2[n]
  BY PowerOf2Is

LEMMA PopsAre ==
  ASSUME NEW words \in Nat \ {0}, NEW time
  PROVE  LevelsPopped(words, time) \in Nat
<1> DEFINE need == (words + 2) \div 3 + 1
           all == 0 .. (Levels(words) - 1)
           visited == {l \in all : VisitedAt(time, l)}
<1>1. need \in Nat /\ need > 1 /\ need <= words + 1
  OBVIOUS
<1>2. \E l \in 1 .. words : need <= PowerOf2[l] /\ \A k \in 0 .. (l - 1) : need > PowerOf2[k]
  <2> HIDE DEF need
  <2> QED
    BY <1>1, LeastPower
<1>3. Levels(words) \in 1 .. words
  BY <1>2 DEF Levels, need
<1>4. IsFiniteSet(all)
  BY <1>3, FS_Interval
<1>5. visited \subseteq all
  OBVIOUS
<1>6. IsFiniteSet(visited)
  <2> HIDE DEF all, visited
  <2> QED
    BY <1>4, <1>5, FS_Subset
<1>7. Cardinality(visited) \in Nat
  <2> HIDE DEF all, visited
  <2> QED
    BY <1>6, FS_CardinalityType
<1> QED
  BY <1>7 DEF LevelsPopped

\* Every use of a node costs something
LEMMA UseCosts ==
  ASSUME NEW h \in Nat, NEW time
  PROVE  UseCost(PowerOf2[h], time) \in Nat \ {0}
<1>1. CASE h = 0
  BY <1>1, PowerOf2Is DEF UseCost
<1>2. CASE h # 0
  <2>1. h - 1 \in Nat /\ (h - 1) + 1 = h
    BY <1>2
  <2>2. PowerOf2[h - 1] \in Nat \ {0} /\ PowerOf2[h] = 2 * PowerOf2[h - 1]
    BY <2>1, PowersAre
  <2>3. PowerOf2[h] # 1 /\ PowerOf2[h] \div 2 = PowerOf2[h - 1]
    BY <2>2
  <2>4. LevelsPopped(PowerOf2[h - 1], time) \in Nat
    BY <2>2, PopsAre
  <2> QED
    BY <2>3, <2>4 DEF UseCost
<1> QED
  BY <1>1, <1>2

\* The uses of a node cost the sum of their costs
LEMMA CostIs ==
  ASSUME NEW h \in Nat
  PROVE  /\ CostUntil(PowerOf2[h], 0) = 0
         /\ \A i \in Nat : /\ CostUntil(PowerOf2[h], i) \in Nat
                           /\ CostUntil(PowerOf2[h], i + 1) =
                                CostUntil(PowerOf2[h], i) + UseCost(PowerOf2[h], i)
<1> DEFINE size == PowerOf2[h]
           Sum(f, i) == IF i = 0 THEN 0 ELSE f[i - 1] + UseCost(size, i - 1)
           step == [i \in Nat \ {0} |-> [x \in Nat |-> x + UseCost(size, i - 1)]]
           sum == CHOOSE f : f = [i \in Nat |-> Sum(f, i)]
<1>1. \A i \in Nat : UseCost(size, i) \in Nat
  BY UseCosts
<1>2. \A i \in Nat : CostUntil(size, i) = sum[i]
  BY DEF CostUntil
<1> HIDE DEF size
<1>3. PICK g : Runs(g, Nat, 0, step)
  <2>1. step \in [Nat \ {0} -> [Nat -> Nat]]
    <3>1. \A i \in Nat \ {0} : i - 1 \in Nat
      OBVIOUS
    <3> QED
      BY <1>1, <3>1
  <2>2. 0 \in Nat
    OBVIOUS
  <2> HIDE DEF step
  <2> QED
    BY <2>1, <2>2, EndlessRecursion
<1>4. g \in [Nat -> Nat] /\ g[0] = 0 /\ \A i \in Nat : g[i + 1] = g[i] + UseCost(size, i)
  <2>1. ASSUME NEW i \in Nat, NEW x \in Nat
        PROVE  step[i + 1][x] = x + UseCost(size, i)
    <3>1. i + 1 \in Nat \ {0} /\ (i + 1) - 1 = i
      OBVIOUS
    <3> QED
      BY <3>1
  <2> HIDE DEF step
  <2>2. g \in [Nat -> Nat] /\ g[0] = 0
    BY <1>3 DEF Runs
  <2>3. ASSUME NEW i \in Nat
        PROVE  g[i + 1] = g[i] + UseCost(size, i)
    <3>1. g[i] \in Nat /\ g[i + 1] = step[i + 1][g[i]]
      BY <1>3, <2>2 DEF Runs
    <3> QED
      BY <2>1, <3>1
  <2> QED
    BY <2>2, <2>3
<1>5. \A i \in Nat : g[i] = Sum(g, i)
  <2> SUFFICES ASSUME NEW i \in Nat, i # 0
               PROVE  g[i] = g[i - 1] + UseCost(size, i - 1)
    BY <1>4
  <2>1. i - 1 \in Nat /\ (i - 1) + 1 = i
    OBVIOUS
  <2> QED
    BY <1>4, <2>1
<1>6. g = [i \in Nat |-> Sum(g, i)]
  <2>1. g = [i \in Nat |-> g[i]]
    BY <1>4
  <2> HIDE DEF Sum
  <2> QED
    BY <1>5, <2>1
<1>7. sum = [i \in Nat |-> Sum(sum, i)]
  <2>1. sum = CHOOSE f : f = [i \in Nat |-> Sum(f, i)]
    OBVIOUS
  <2> HIDE DEF Sum, sum
  <2> QED
    BY <1>6, <2>1, Zenon
<1>8. \A i \in Nat : sum[i] = Sum(sum, i)
  <2> HIDE DEF Sum, sum
  <2> QED
    BY <1>7
<1>9. sum[0] = 0
  <2>1. sum[0] = Sum(sum, 0)
    <3> HIDE DEF Sum, sum
    <3> QED
      BY <1>8
  <2> HIDE DEF sum
  <2> QED
    BY <2>1
<1>10. ASSUME NEW i \in Nat
       PROVE  sum[i + 1] = sum[i] + UseCost(size, i)
  <2>1. i + 1 \in Nat /\ i + 1 # 0 /\ (i + 1) - 1 = i
    OBVIOUS
  <2>2. sum[i + 1] = Sum(sum, i + 1)
    <3> HIDE DEF Sum, sum
    <3> QED
      BY <1>8, <2>1
  <2> HIDE DEF sum
  <2> QED
    BY <2>1, <2>2
<1> HIDE DEF sum
<1>11. \A i \in Nat : sum[i] \in Nat
  <2> DEFINE S == { i \in Nat : sum[i] \in Nat }
  <2>1. 0 \in S
    BY <1>9
  <2>2. ASSUME NEW i \in Nat, i \in S
        PROVE  i + 1 \in S
    BY <2>2, <1>1, <1>10
  <2> HIDE DEF S
  <2>3. Nat \subseteq S
    BY <2>1, <2>2, SetInduction
  <2> QED
    BY <2>3 DEF S
<1>12. \A i \in Nat : i + 1 \in Nat
  OBVIOUS
<1>13. /\ CostUntil(size, 0) = 0
       /\ \A i \in Nat : /\ CostUntil(size, i) \in Nat
                         /\ CostUntil(size, i + 1) = CostUntil(size, i) + UseCost(size, i)
  BY <1>2, <1>9, <1>10, <1>11, <1>12
<1> QED
  BY <1>13 DEF size

\* No two uses of a node begin at one place, and a later one begins later
LEMMA CostGrows ==
  ASSUME NEW h \in Nat, NEW i \in Nat, NEW j \in Nat, i < j
  PROVE  CostUntil(PowerOf2[h], i) < CostUntil(PowerOf2[h], j)
<1> DEFINE Cost(m) == CostUntil(PowerOf2[h], m)
           S == { m \in Nat : Cost(i) < Cost(m) }
<1>1. \A m \in Nat : Cost(m) \in Nat /\ Cost(m + 1) > Cost(m)
  <2> SUFFICES ASSUME NEW m \in Nat
               PROVE  Cost(m) \in Nat /\ Cost(m + 1) > Cost(m)
    OBVIOUS
  <2>1. UseCost(PowerOf2[h], m) \in Nat \ {0}
    BY UseCosts
  <2>2. CostUntil(PowerOf2[h], m) \in Nat
        /\ CostUntil(PowerOf2[h], m + 1) = CostUntil(PowerOf2[h], m) + UseCost(PowerOf2[h], m)
    BY CostIs
  <2> QED
    BY <2>1, <2>2
<1>2. i + 1 \in S
  BY <1>1
<1> HIDE DEF Cost
<1>3. ASSUME NEW m \in i + 1 .. j, m # j, m \in S
      PROVE  m + 1 \in S
  <2>1. m \in Nat /\ m + 1 \in Nat
    OBVIOUS
  <2>2. Cost(i) \in Nat /\ Cost(m) \in Nat /\ Cost(m + 1) \in Nat /\ Cost(m) < Cost(m + 1) /\ Cost(i) < Cost(m)
    BY <1>1, <1>3, <2>1
  <2> QED
    BY <2>1, <2>2
<1> HIDE DEF S
<1>4. i + 1 .. j \subseteq S
  <2>1. i + 1 \in Nat
    OBVIOUS
  <2> QED
    BY <1>2, <1>3, <2>1, IntervalInduction
<1>5. j \in S
  BY <1>4
<1> QED
  BY <1>5 DEF S, Cost
-----------------------------------------------------------------------------
(* The tree, by its equations *)

LEMMA OwnIs == \A h \in Nat : Own(h) \in Nat \ {0}
<1> SUFFICES ASSUME NEW h \in Nat
             PROVE  Own(h) \in Nat \ {0}
  OBVIOUS
<1>1. PowerOf2[h] \in Nat \ {0}
  BY PowersAre
<1>2. CostUntil(PowerOf2[h], 0) = 0 /\ CostUntil(PowerOf2[h], PowerOf2[h]) \in Nat
  BY <1>1, CostIs
<1>3. CostUntil(PowerOf2[h], 0) < CostUntil(PowerOf2[h], PowerOf2[h])
  BY <1>1, CostGrows
<1> QED
  BY <1>2, <1>3 DEF Own

LEMMA TreeCostIs ==
  /\ TreeCost[0] = Own(0)
  /\ \A h \in Nat : TreeCost[h + 1] = Own(h + 1) + 2 * TreeCost[h]
  /\ \A h \in Nat : TreeCost[h] \in Nat
<1> DEFINE Cost(f, h) == IF h = 0 THEN Own(0) ELSE Own(h) + 2 * f[h - 1]
           step == [h \in Nat \ {0} |-> [x \in Nat |-> Own(h) + 2 * x]]
<1>1. PICK g : Runs(g, Nat, Own(0), step)
  <2>1. step \in [Nat \ {0} -> [Nat -> Nat]] /\ Own(0) \in Nat
    BY OwnIs
  <2> HIDE DEF step
  <2> QED
    BY <2>1, EndlessRecursion
<1>2. g \in [Nat -> Nat] /\ g[0] = Own(0) /\ \A h \in Nat : g[h + 1] = Own(h + 1) + 2 * g[h]
  <2>1. \A h \in Nat, x \in Nat : step[h + 1][x] = Own(h + 1) + 2 * x
    OBVIOUS
  <2> HIDE DEF step
  <2> QED
    BY <1>1, <2>1 DEF Runs
<1>3. \A h \in Nat : g[h] = Cost(g, h)
  <2> SUFFICES ASSUME NEW h \in Nat, h # 0
               PROVE  g[h] = Own(h) + 2 * g[h - 1]
    BY <1>2
  <2>1. h - 1 \in Nat /\ (h - 1) + 1 = h
    OBVIOUS
  <2> QED
    BY <1>2, <2>1
<1>4. g = [h \in Nat |-> Cost(g, h)]
  <2>1. g = [h \in Nat |-> g[h]]
    BY <1>2
  <2> HIDE DEF Cost
  <2> QED
    BY <1>3, <2>1
<1>5. TreeCost = CHOOSE f : f = [h \in Nat |-> Cost(f, h)]
  BY DEF TreeCost
<1>6. TreeCost = [h \in Nat |-> Cost(TreeCost, h)]
  <2> HIDE DEF Cost
  <2> QED
    BY <1>4, <1>5, Zenon
<1>7. \A h \in Nat : TreeCost[h] = Cost(TreeCost, h)
  <2> HIDE DEF Cost
  <2> QED
    BY <1>6
<1>8. TreeCost[0] = Own(0)
  BY <1>7
<1>9. ASSUME NEW h \in Nat
      PROVE  TreeCost[h + 1] = Own(h + 1) + 2 * TreeCost[h]
  <2>1. h + 1 \in Nat /\ h + 1 # 0 /\ (h + 1) - 1 = h
    OBVIOUS
  <2>2. TreeCost[h + 1] = Cost(TreeCost, h + 1)
    <3> HIDE DEF Cost
    <3> QED
      BY <1>7, <2>1
  <2> QED
    BY <2>1, <2>2
<1>10. \A h \in Nat : TreeCost[h] \in Nat
  <2> DEFINE S == { h \in Nat : TreeCost[h] \in Nat }
  <2>1. 0 \in S
    BY <1>8, OwnIs
  <2>2. ASSUME NEW h \in Nat, h \in S
        PROVE  h + 1 \in S
    BY <2>2, <1>9, OwnIs
  <2> HIDE DEF S
  <2>3. Nat \subseteq S
    BY <2>1, <2>2, SetInduction
  <2> QED
    BY <2>3 DEF S
<1> QED
  BY <1>8, <1>9, <1>10

Nodes == [start : Nat, size : Nat, st : Nat, rp : Nat]
PlacedNodes == [node : Nodes, pos : Nat, of : Int]

LEMMA ChildrenPlaced ==
  ASSUME NEW y \in PlacedNodes, NEW h \in Nat \ {0}
  PROVE  LeftPlaced(y, h) \in PlacedNodes /\ RightPlaced(y, h) \in PlacedNodes
<1>1. h - 1 \in Nat /\ Own(h) \in Nat /\ TreeCost[h - 1] \in Nat
  BY OwnIs, TreeCostIs
<1>2. y.node \in Nodes /\ y.pos \in Nat
  BY DEF PlacedNodes
<1>3. Left(y.node) \in Nodes /\ Right(y.node) \in Nodes
  BY <1>2 DEF Nodes, Left, Right, Node
<1>4. y.node.st \in Int /\ y.node.st + 1 \in Int
  BY <1>2 DEF Nodes
<1> QED
  BY <1>1, <1>2, <1>3, <1>4 DEF LeftPlaced, RightPlaced, Placed, PlacedNodes

LEMMA RootPlaced == Logn \in Nat /\ Logn > 0 /\ N \in Nat \ {0} /\ Before \in Nat
                    /\ Placed(Root, Before, -1) \in PlacedNodes
<1>1. Logn \in Nat /\ Logn > 0 /\ Before \in Nat
  BY SizeAssumption
<1>2. N \in Nat \ {0}
  BY <1>1, PowersAre DEF N
<1>3. Root \in Nodes
  BY <1>2 DEF Root, Node, Nodes
<1> QED
  BY <1>1, <1>2, <1>3 DEF Placed, PlacedNodes

LEMMA TreeIs ==
  /\ \A k \in Nat : Tree[0][k] = Placed(Root, Before, -1)
  /\ \A d \in 0 .. Logn, k \in Nat : Tree[d][k] \in PlacedNodes
  /\ \A d \in 0 .. Logn - 1, k \in Nat :
       /\ Tree[d + 1][2 * k] = LeftPlaced(Tree[d][k], Logn - d)
       /\ Tree[d + 1][2 * k + 1] = RightPlaced(Tree[d][k], Logn - d)
<1> DEFINE V == [Nat -> PlacedNodes]
           first == [k \in Nat |-> Placed(Root, Before, -1)]
           Next1(f, h) == [k \in Nat |-> IF k % 2 = 0 THEN LeftPlaced(f[k \div 2], h)
                                         ELSE RightPlaced(f[k \div 2], h)]
           Of(t, d) == IF d = 0 THEN first ELSE Next1(t[d - 1], Logn - d + 1)
           step == [d \in 0 + 1 .. Logn |-> [f \in V |-> Next1(f, Logn - d + 1)]]
<1>1. first \in V
  BY RootPlaced
<1>2. ASSUME NEW f \in V, NEW h \in Nat \ {0}
      PROVE  Next1(f, h) \in V
  <2>1. ASSUME NEW k \in Nat
        PROVE  k \div 2 \in Nat /\ f[k \div 2] \in PlacedNodes
    <3>1. k \div 2 \in Nat
      OBVIOUS
    <3> QED
      BY <3>1
  <2> QED
    BY <2>1, ChildrenPlaced
<1> HIDE DEF V, first, Next1
<1>3. step \in [0 + 1 .. Logn -> [V -> V]]
  <2>1. \A d \in 0 + 1 .. Logn : Logn - d + 1 \in Nat \ {0}
    BY RootPlaced
  <2> QED
    BY <1>2, <2>1
<1>4. \A d \in 1 .. Logn, f \in V : step[d][f] = Next1(f, Logn - d + 1)
  OBVIOUS
<1> HIDE DEF step
<1>5. PICK g : SolvesRecursion(g, V, first, 0, Logn, step)
  <2>1. 0 \in Nat /\ Logn \in Nat /\ 0 <= Logn
    BY RootPlaced
  <2> QED
    BY <1>1, <1>3, <2>1, Recursion
<1>6. g \in [0 .. Logn -> V] /\ g[0] = first
      /\ \A d \in 1 .. Logn : g[d] = Next1(g[d - 1], Logn - d + 1)
  <2>1. g \in [0 .. Logn -> V] /\ g[0] = first
    BY <1>5 DEF SolvesRecursion
  <2>2. ASSUME NEW d \in 1 .. Logn
        PROVE  g[d] = Next1(g[d - 1], Logn - d + 1)
    <3>1. d \in 0 + 1 .. Logn /\ d - 1 \in 0 .. Logn
      BY RootPlaced
    <3>2. g[d] = step[d][g[d - 1]] /\ g[d - 1] \in V
      BY <1>5, <2>1, <3>1 DEF SolvesRecursion
    <3> QED
      BY <1>4, <3>2
  <2> QED
    BY <2>1, <2>2
<1>7. \A d \in 0 .. Logn : g[d] = Of(g, d)
  <2> SUFFICES ASSUME NEW d \in 0 .. Logn, d # 0
               PROVE  g[d] = Next1(g[d - 1], Logn - d + 1)
    BY <1>6
  <2> QED
    BY <1>6
<1>8. g = [d \in 0 .. Logn |-> Of(g, d)]
  <2>1. g = [d \in 0 .. Logn |-> g[d]]
    BY <1>6
  <2> HIDE DEF Of
  <2> QED
    BY <1>7, <2>1
<1>9. Tree = CHOOSE t : t = [d \in 0 .. Logn |-> Of(t, d)]
  BY DEF Tree, first, Next1
<1>10. Tree = [d \in 0 .. Logn |-> Of(Tree, d)]
  <2> HIDE DEF Of
  <2> QED
    BY <1>8, <1>9, Zenon
<1>11. \A d \in 0 .. Logn : Tree[d] = Of(Tree, d)
  <2> HIDE DEF Of
  <2> QED
    BY <1>10
<1>12. 0 \in 0 .. Logn /\ Tree[0] = first
  BY <1>11, RootPlaced
<1>13. ASSUME NEW d \in 0 .. Logn - 1
       PROVE  d + 1 \in 0 .. Logn /\ Tree[d + 1] = Next1(Tree[d], Logn - d)
  <2>1. d + 1 \in 0 .. Logn /\ d + 1 # 0 /\ (d + 1) - 1 = d /\ Logn - (d + 1) + 1 = Logn - d
    BY RootPlaced
  <2>2. Tree[d + 1] = Of(Tree, d + 1)
    <3> HIDE DEF Of
    <3> QED
      BY <1>11, <2>1
  <2> QED
    BY <2>1, <2>2
<1>14. \A d \in 0 .. Logn : Tree[d] \in V
  <2> DEFINE S == { d \in 0 .. Logn : Tree[d] \in V }
  <2>1. 0 \in S
    BY <1>1, <1>12
  <2>2. ASSUME NEW d \in 0 .. Logn, d # Logn, d \in S
        PROVE  d + 1 \in S
    <3>1. d \in 0 .. Logn - 1 /\ Logn - d \in Nat \ {0}
      BY <2>2, RootPlaced
    <3> QED
      BY <1>2, <1>13, <2>2, <3>1
  <2> HIDE DEF S
  <2>3. 0 .. Logn \subseteq S
    BY <2>1, <2>2, RootPlaced, IntervalInduction
  <2> QED
    BY <2>3 DEF S
<1>15. ASSUME NEW d \in 0 .. Logn - 1, NEW k \in Nat
       PROVE  /\ Tree[d + 1][2 * k] = LeftPlaced(Tree[d][k], Logn - d)
              /\ Tree[d + 1][2 * k + 1] = RightPlaced(Tree[d][k], Logn - d)
  <2>1. /\ (2 * k) \div 2 = k /\ (2 * k) % 2 = 0 /\ 2 * k \in Nat
        /\ (2 * k + 1) \div 2 = k /\ (2 * k + 1) % 2 = 1 /\ 2 * k + 1 \in Nat
    OBVIOUS
  <2> DEFINE t == Tree[d]
  <2> HIDE DEF t
  <2>2. Next1(t, Logn - d)[2 * k] = LeftPlaced(t[k], Logn - d)
    BY <2>1 DEF Next1
  <2>3. Next1(t, Logn - d)[2 * k + 1] = RightPlaced(t[k], Logn - d)
    BY <2>1 DEF Next1
  <2> QED
    BY <1>13, <2>2, <2>3 DEF t
<1> QED
  BY <1>12, <1>14, <1>15 DEF first, V
-----------------------------------------------------------------------------
(* Nodes *)

LEMMA IdsAre ==
  ASSUME NEW x \in Ids
  PROVE  /\ x.d \in 0 .. Logn /\ x.k \in Nat /\ x.k < PowerOf2[x.d]
         /\ Height(x) \in 0 .. Logn /\ Height(x) \in Nat /\ Size(x) \in Nat \ {0}
         /\ x = [d |-> x.d, k |-> x.k]
<1>1. x.d \in 0 .. Logn /\ x.k \in Nat /\ x.k < PowerOf2[x.d] /\ x = [d |-> x.d, k |-> x.k]
  BY RootPlaced DEF Ids
<1>2. Height(x) \in 0 .. Logn /\ Height(x) \in Nat
  BY <1>1, RootPlaced DEF Height
<1> QED
  BY <1>1, <1>2, PowersAre DEF Size

\* The powers grow
LEMMA PowersGrow == \A m, n \in Nat : m <= n => PowerOf2[m] <= PowerOf2[n]
<1> SUFFICES ASSUME NEW m \in Nat, NEW n \in Nat, m <= n
             PROVE  PowerOf2[m] <= PowerOf2[n]
  OBVIOUS
<1> DEFINE S == { j \in Nat : PowerOf2[m] <= PowerOf2[j] }
<1>1. m \in S
  BY PowersAre
<1>2. ASSUME NEW j \in m .. n, j # n, j \in S
      PROVE  j + 1 \in S
  <2>1. j \in Nat /\ PowerOf2[m] <= PowerOf2[j]
    BY <1>2
  <2>2. PowerOf2[m] \in Nat /\ PowerOf2[j] \in Nat /\ PowerOf2[j + 1] = 2 * PowerOf2[j] /\ j + 1 \in Nat
    BY <2>1, PowersAre
  <2> QED
    BY <2>1, <2>2
<1> HIDE DEF S
<1>3. m .. n \subseteq S
  BY <1>1, <1>2, IntervalInduction
<1> QED
  BY <1>3 DEF S

LEMMA IdIs ==
  ASSUME NEW d \in 0 .. Logn, NEW k \in Nat, k < PowerOf2[d]
  PROVE  [d |-> d, k |-> k] \in Ids
<1>1. d \in Nat /\ d <= Logn /\ Logn \in Nat
  BY RootPlaced
<1>2. PowerOf2[d] <= N /\ PowerOf2[d] \in Nat /\ N \in Nat
  BY <1>1, PowersGrow, PowersAre DEF N
<1>3. k \in 0 .. N - 1
  BY <1>2
<1> QED
  BY <1>3 DEF Ids

\* A node begins at the leaf its number says, and has as many as its height says
LEMMA NodeIs ==
  ASSUME NEW x \in Ids
  PROVE  /\ NodeOf(x) \in Nodes
         /\ NodeOf(x).size = Size(x)
         /\ NodeOf(x).start = x.k * Size(x)
         /\ PosOf(x) \in Nat
         /\ Tree[x.d][x.k].of \in Int
<1> DEFINE Fits(d, k) == /\ Tree[d][k].node.size = PowerOf2[Logn - d]
                         /\ Tree[d][k].node.start = k * PowerOf2[Logn - d]
           S == { d \in 0 .. Logn : \A k \in Nat : k < PowerOf2[d] => Fits(d, k) }
<1>1. 0 \in S
  <2>1. Fits(0, 0)
    <3>1. Tree[0][0] = Placed(Root, Before, -1) /\ N \in Nat /\ Logn - 0 = Logn
      BY TreeIs, RootPlaced
    <3>2. Tree[0][0].node.size = N /\ Tree[0][0].node.start = 0
      BY <3>1 DEF Placed, Root, Node
    <3> QED
      BY <3>1, <3>2 DEF N
  <2>2. \A k \in Nat : k < PowerOf2[0] => k = 0
    BY PowerOf2Is
  <2>3. 0 \in 0 .. Logn
    BY RootPlaced
  <2> HIDE DEF Fits
  <2> QED
    BY <2>1, <2>2, <2>3
<1>2. ASSUME NEW d \in 0 .. Logn, d # Logn, d \in S
      PROVE  d + 1 \in S
  <2>1. d \in 0 .. Logn - 1 /\ d \in Nat /\ d + 1 \in 0 .. Logn /\ Logn - (d + 1) \in Nat
        /\ Logn - d = (Logn - (d + 1)) + 1
    BY <1>2, RootPlaced
  <2> DEFINE p == PowerOf2[Logn - (d + 1)]
  <2>2. p \in Nat \ {0} /\ PowerOf2[Logn - d] = 2 * p
    <3>1. PowerOf2[(Logn - (d + 1)) + 1] = 2 * p /\ p \in Nat \ {0}
      BY <2>1, PowersAre
    <3> QED
      BY <2>1, <3>1
  <2> SUFFICES ASSUME NEW k \in Nat, k < PowerOf2[d + 1]
               PROVE  Fits(d + 1, k)
    BY <2>1
  <2> DEFINE j == k \div 2
             b == k % 2
  <2>3. j \in Nat /\ b \in {0, 1} /\ k = 2 * j + b /\ j < PowerOf2[d]
    <3>1. PowerOf2[d + 1] = 2 * PowerOf2[d] /\ PowerOf2[d] \in Nat
      BY <2>1, PowersAre
    <3> QED
      BY <3>1
  <2> HIDE DEF j, b, p
  <2> DEFINE y == Tree[d][j]
             z == Tree[d + 1][k]
  <2>4. y.node.size = 2 * p /\ y.node.start = j * (2 * p) /\ j * (2 * p) \in Nat
    BY <1>2, <2>2, <2>3
  <2>5. (2 * p) \div 2 = p
    BY <2>2
  <2>6. CASE b = 0
    <3>1. z = LeftPlaced(y, Logn - d)
      <4>1. k = 2 * j
        BY <2>3, <2>6
      <4> QED
        BY <2>1, <2>3, <4>1, TreeIs
    <3> HIDE DEF z, y
    <3>2. z.node.size = p /\ z.node.start = j * (2 * p)
      BY <3>1, <2>4, <2>5 DEF LeftPlaced, Placed, Left, Node
    <3>3. j * (2 * p) = k * p
      BY <2>2, <2>3, <2>6
    <3> QED
      BY <3>2, <3>3 DEF p, z
  <2>7. CASE b = 1
    <3>1. z = RightPlaced(y, Logn - d)
      <4>1. k = 2 * j + 1
        BY <2>3, <2>7
      <4> QED
        BY <2>1, <2>3, <4>1, TreeIs
    <3> HIDE DEF z, y
    <3>2. z.node.size = p /\ z.node.start = j * (2 * p) + p
      BY <3>1, <2>4, <2>5 DEF RightPlaced, Placed, Right, Node
    <3>3. j * (2 * p) + p = k * p
      BY <2>2, <2>3, <2>7
    <3> QED
      BY <3>2, <3>3 DEF p, z
  <2> QED
    BY <2>3, <2>6, <2>7
<1> HIDE DEF S
<1>3. 0 .. Logn \subseteq S
  BY <1>1, <1>2, RootPlaced, IntervalInduction
<1>4. x.d \in 0 .. Logn /\ x.k \in Nat /\ x.k < PowerOf2[x.d]
  BY IdsAre
<1>5. Fits(x.d, x.k)
  BY <1>3, <1>4 DEF S
<1>6. Tree[x.d][x.k] \in PlacedNodes
  BY <1>4, TreeIs
<1> QED
  BY <1>5, <1>6 DEF PlacedNodes, NodeOf, PosOf, Size, Height

\* A node of some height and its children
LEMMA KidsAre ==
  ASSUME NEW x \in Inner
  PROVE  /\ x \in Ids /\ Height(x) \in Nat \ {0} /\ Size(x) > 1
         /\ NodeOf(x).size # 1
         /\ \A b \in {0, 1} :
              /\ Kid(x, b) \in Ids /\ Kid(x, b).d = x.d + 1 /\ Kid(x, b).k = 2 * x.k + b
              /\ Height(Kid(x, b)) = Height(x) - 1
              /\ Size(x) = 2 * Size(Kid(x, b))
              /\ NodeOf(x).size \div 2 = Size(Kid(x, b))
         /\ Tree[x.d + 1][2 * x.k] = LeftPlaced(Tree[x.d][x.k], Height(x))
         /\ Tree[x.d + 1][2 * x.k + 1] = RightPlaced(Tree[x.d][x.k], Height(x))
         /\ NodeOf(Kid(x, 0)) = Left(NodeOf(x))
         /\ NodeOf(Kid(x, 1)) = Right(NodeOf(x))
         /\ PosOf(Kid(x, 0)) = PosOf(x) + Own(Height(x))
         /\ PosOf(Kid(x, 1)) = PosOf(x) + Own(Height(x)) + TreeCost[Height(x) - 1]
         /\ LangsOf(Kid(x, 0)) = Languages(NodeOf(x).st, NodeOf(x).size \div 2)
         /\ LangsOf(Kid(x, 1)) = Languages(NodeOf(x).st + 1, NodeOf(x).size \div 2)
<1>1. x \in Ids /\ x.d \in 0 .. Logn - 1 /\ x.d \in Nat /\ x.k \in Nat /\ x.k < PowerOf2[x.d]
      /\ x.d + 1 \in 0 .. Logn /\ x.d + 1 \in Nat
  BY IdsAre, RootPlaced DEF Inner
<1>2. Height(x) = (Logn - (x.d + 1)) + 1 /\ Logn - (x.d + 1) \in Nat /\ Height(x) \in Nat \ {0}
  BY <1>1, RootPlaced DEF Height
<1>3. ASSUME NEW b \in {0, 1}
      PROVE  /\ Kid(x, b) \in Ids /\ Kid(x, b).d = x.d + 1 /\ Kid(x, b).k = 2 * x.k + b
             /\ Height(Kid(x, b)) = Height(x) - 1
             /\ Height(Kid(x, b)) \in Nat
             /\ Size(x) = 2 * Size(Kid(x, b))
  <2>1. Kid(x, b).d = x.d + 1 /\ Kid(x, b).k = 2 * x.k + b
    BY DEF Kid
  <2>2. PowerOf2[x.d + 1] = 2 * PowerOf2[x.d] /\ PowerOf2[x.d] \in Nat
    BY <1>1, PowersAre
  <2>3. 2 * x.k + b \in Nat /\ 2 * x.k + b < PowerOf2[x.d + 1]
    BY <1>1, <2>2
  <2>4. Kid(x, b) \in Ids
    <3>1. [d |-> x.d + 1, k |-> 2 * x.k + b] \in Ids
      BY <1>1, <2>3, IdIs
    <3> QED
      BY <3>1 DEF Kid
  <2>5. Height(Kid(x, b)) = Height(x) - 1 /\ Height(Kid(x, b)) = Logn - (x.d + 1)
    BY <1>1, <2>1, RootPlaced DEF Height
  <2>6. Size(x) = 2 * Size(Kid(x, b))
    BY <1>2, <2>5, PowersAre DEF Size
  <2> QED
    BY <1>2, <2>1, <2>4, <2>5, <2>6
<1>4. NodeOf(x).size = Size(x) /\ Size(x) \in Nat
  BY <1>1, NodeIs, IdsAre
<1>5. \A b \in {0, 1} : Size(Kid(x, b)) \in Nat \ {0} /\ NodeOf(x).size \div 2 = Size(Kid(x, b))
  <2> SUFFICES ASSUME NEW b \in {0, 1}
               PROVE  Size(Kid(x, b)) \in Nat \ {0} /\ NodeOf(x).size \div 2 = Size(Kid(x, b))
    OBVIOUS
  <2>1. Size(Kid(x, b)) \in Nat \ {0} /\ Size(x) = 2 * Size(Kid(x, b))
    BY <1>3, IdsAre
  <2> QED
    BY <1>4, <2>1
<1>6. /\ Tree[x.d + 1][2 * x.k] = LeftPlaced(Tree[x.d][x.k], Height(x))
      /\ Tree[x.d + 1][2 * x.k + 1] = RightPlaced(Tree[x.d][x.k], Height(x))
  BY <1>1, TreeIs DEF Height
<1>7. Size(x) > 1
  <2>1. 0 \in {0, 1}
    OBVIOUS
  <2>2. Size(Kid(x, 0)) \in Nat \ {0} /\ Size(x) = 2 * Size(Kid(x, 0))
    BY <1>3, <1>5, <2>1
  <2> QED
    BY <2>2
<1>8. /\ Kid(x, 0).d = x.d + 1 /\ Kid(x, 0).k = 2 * x.k
      /\ Kid(x, 1).d = x.d + 1 /\ Kid(x, 1).k = 2 * x.k + 1
  BY <1>1 DEF Kid
<1>9. /\ NodeOf(Kid(x, 0)) = Left(NodeOf(x)) /\ NodeOf(Kid(x, 1)) = Right(NodeOf(x))
      /\ PosOf(Kid(x, 0)) = PosOf(x) + Own(Height(x))
      /\ PosOf(Kid(x, 1)) = PosOf(x) + Own(Height(x)) + TreeCost[Height(x) - 1]
      /\ Tree[Kid(x, 0).d][Kid(x, 0).k].of = NodeOf(x).st
      /\ Tree[Kid(x, 1).d][Kid(x, 1).k].of = NodeOf(x).st + 1
  BY <1>6, <1>8 DEF NodeOf, PosOf, LeftPlaced, RightPlaced, Placed
<1>10. /\ LangsOf(Kid(x, 0)) = Languages(NodeOf(x).st, NodeOf(x).size \div 2)
       /\ LangsOf(Kid(x, 1)) = Languages(NodeOf(x).st + 1, NodeOf(x).size \div 2)
  BY <1>5, <1>9 DEF LangsOf
<1> QED
  BY <1>1, <1>2, <1>3, <1>4, <1>5, <1>6, <1>7, <1>9, <1>10

LEMMA Halved ==
  ASSUME NEW k \in Nat
  PROVE  k \div 2 \in Nat /\ k % 2 \in {0, 1} /\ k = 2 * (k \div 2) + (k % 2)
  OBVIOUS

LEMMA ParentIs ==
  ASSUME NEW y \in Ids, y.d # 0
  PROVE  /\ Parent(y) \in Inner /\ Parent(y).d = y.d - 1 /\ Parent(y).k = y.k \div 2
         /\ y.k % 2 \in {0, 1} /\ y = Kid(Parent(y), y.k % 2)
<1>1. y.d \in 0 .. Logn /\ y.k \in Nat /\ y.k < PowerOf2[y.d] /\ y = [d |-> y.d, k |-> y.k]
  BY IdsAre
<1>2. y.d - 1 \in 0 .. Logn /\ y.d - 1 \in Nat /\ (y.d - 1) + 1 = y.d /\ y.d - 1 < Logn
  BY <1>1, RootPlaced
<1> DEFINE q == y.k \div 2
           b == y.k % 2
<1>3. q \in Nat /\ b \in {0, 1} /\ y.k = 2 * q + b
  BY <1>1, Halved
<1>10. q = y.k \div 2 /\ b = y.k % 2 /\ Parent(y) = [d |-> y.d - 1, k |-> q]
  BY DEF Parent
<1> HIDE DEF q, b
<1>4. PowerOf2[y.d] = 2 * PowerOf2[y.d - 1] /\ PowerOf2[y.d - 1] \in Nat
  BY <1>2, PowersAre
<1>5. q < PowerOf2[y.d - 1]
  BY <1>1, <1>3, <1>4
<1>6. [d |-> y.d - 1, k |-> q] \in Ids
  BY <1>2, <1>3, <1>5, IdIs
<1>7. Parent(y) \in Inner /\ Parent(y).d = y.d - 1 /\ Parent(y).k = q
  BY <1>2, <1>6, <1>10 DEF Inner
<1>8. Kid(Parent(y), b) = [d |-> y.d, k |-> y.k]
  BY <1>2, <1>3, <1>7 DEF Kid
<1> QED
  BY <1>1, <1>3, <1>7, <1>8, <1>10
-----------------------------------------------------------------------------
(* Places: the nodes lie in the arrays, and their material in the whole, in *)
(* the order of set-up                                                      *)

\* A node has `own` places, the tree below it with them `total`
Layout(place, own, total) ==
  /\ place \in [Ids -> Nat] /\ own \in [0 .. Logn -> Nat] /\ total \in [0 .. Logn -> Nat]
  /\ own[0] <= total[0]
  /\ \A x \in Inner :
       /\ total[Height(x)] = own[Height(x)] + 2 * total[Height(x) - 1]
       /\ place[Kid(x, 0)] = place[x] + own[Height(x)]
       /\ place[Kid(x, 1)] = place[x] + own[Height(x)] + total[Height(x) - 1]

\* A child's places are within its parent's, behind the parent's own
LEMMA KidInside ==
  ASSUME NEW place, NEW own, NEW total, Layout(place, own, total), NEW y \in Ids, y.d # 0
  PROVE  /\ place[Parent(y)] + own[Height(Parent(y))] <= place[y]
         /\ place[y] + total[Height(y)] <= place[Parent(y)] + total[Height(Parent(y))]
<1> DEFINE x == Parent(y)
<1>1. x \in Inner /\ y.k % 2 \in {0, 1} /\ y = Kid(x, y.k % 2)
  BY ParentIs
<1> HIDE DEF x
<1>2. x \in Ids /\ Height(x) \in 0 .. Logn /\ Height(y) = Height(x) - 1 /\ Height(y) \in 0 .. Logn
  BY <1>1, KidsAre, IdsAre
<1>3. place[x] \in Nat /\ own[Height(x)] \in Nat /\ total[Height(x) - 1] \in Nat
      /\ total[Height(x)] = own[Height(x)] + 2 * total[Height(x) - 1]
      /\ place[Kid(x, 0)] = place[x] + own[Height(x)]
      /\ place[Kid(x, 1)] = place[x] + own[Height(x)] + total[Height(x) - 1]
  BY <1>1, <1>2 DEF Layout
<1>4. place[x] + own[Height(x)] <= place[y] /\ place[y] + total[Height(y)] <= place[x] + total[Height(x)]
  <2>1. CASE y = Kid(x, 0)
    <3>1. place[y] = place[x] + own[Height(x)] /\ total[Height(y)] = total[Height(x) - 1]
      BY <1>2, <1>3, <2>1
    <3> QED
      BY <1>3, <3>1
  <2>2. CASE y = Kid(x, 1)
    <3>1. place[y] = place[x] + own[Height(x)] + total[Height(x) - 1] /\ total[Height(y)] = total[Height(x) - 1]
      BY <1>2, <1>3, <2>2
    <3> QED
      BY <1>3, <3>1
  <2> QED
    BY <1>1, <2>1, <2>2
<1> QED
  BY <1>4 DEF x

\* Its own places are among those of its tree
LEMMA OwnInside ==
  ASSUME NEW place, NEW own, NEW total, Layout(place, own, total), NEW x \in Ids
  PROVE  own[Height(x)] <= total[Height(x)]
<1>1. CASE x.d < Logn
  <2>1. x \in Inner
    BY <1>1 DEF Inner
  <2>2. Height(x) \in Nat \ {0} /\ Height(x) \in 0 .. Logn
    BY <2>1, KidsAre, IdsAre
  <2>3. Height(x) - 1 \in 0 .. Logn
    BY <2>2, RootPlaced
  <2>4. own[Height(x)] \in Nat /\ total[Height(x) - 1] \in Nat
        /\ total[Height(x)] = own[Height(x)] + 2 * total[Height(x) - 1]
    BY <2>1, <2>2, <2>3 DEF Layout
  <2> QED
    BY <2>4
<1>2. CASE x.d = Logn
  <2>1. Height(x) = 0
    BY <1>2, RootPlaced DEF Height
  <2> QED
    BY <2>1 DEF Layout
<1> QED
  BY <1>1, <1>2, IdsAre, RootPlaced

\* Halving, then dividing
LEMMA HalfQuotient ==
  ASSUME NEW a \in Nat, NEW p \in Nat, p > 0
  PROVE  a \div (2 * p) = (a \div 2) \div p
<1> DEFINE q == a \div 2
           b == a % 2
           c == q \div p
           r == q % p
<1>1. q \in Nat /\ b \in {0, 1} /\ a = 2 * q + b
  BY Halved
<1> HIDE DEF b
<1>2. q = a \div 2
  OBVIOUS
<1> HIDE DEF q
<1>3. c \in Nat /\ r \in 0 .. p - 1 /\ q = p * c + r
  BY <1>1
<1>4. c = q \div p
  OBVIOUS
<1> HIDE DEF c, r
<1>5. a = c * (2 * p) + (2 * r + b)
  BY <1>1, <1>3
<1>6. 2 * r + b \in Nat /\ 2 * r + b < 2 * p /\ 2 * p \in Nat /\ 2 * p > 0
  BY <1>1, <1>3
<1>7. (c * (2 * p) + (2 * r + b)) \div (2 * p) = c
  BY <1>3, <1>6, DivModUnique
<1> QED
  BY <1>2, <1>4, <1>5, <1>7

LEMMA AboveParent ==
  ASSUME NEW x \in Ids, NEW y \in Ids
  PROVE  /\ Above(x, x)
         /\ Above(x, y) /\ x.d = y.d => x = y
         /\ x.d < y.d => (Above(x, y) <=> Above(x, Parent(y)))
<1>1. /\ x.d \in Nat /\ x.k \in Nat /\ x = [d |-> x.d, k |-> x.k]
      /\ y.d \in Nat /\ y.k \in Nat /\ y = [d |-> y.d, k |-> y.k]
      /\ x.d \in 0 .. Logn /\ y.d \in 0 .. Logn
  BY IdsAre, RootPlaced
<1>2. x.k \div 1 = x.k /\ y.k \div 1 = y.k
  <2>1. \A k \in Nat : k \div 1 = k
    OBVIOUS
  <2> QED
    BY <1>1, <2>1
<1>3. Above(x, x)
  <2>1. x.d - x.d = 0 /\ x.d <= x.d
    BY <1>1
  <2> QED
    BY <1>2, <2>1, PowerOf2Is DEF Above
<1>4. Above(x, y) /\ x.d = y.d => x = y
  <2> SUFFICES ASSUME Above(x, y), x.d = y.d
               PROVE  x = y
    OBVIOUS
  <2>1. y.d - x.d = 0
    BY <1>1
  <2> QED
    BY <1>1, <1>2, <2>1, PowerOf2Is DEF Above
<1>5. ASSUME x.d < y.d
      PROVE  Above(x, y) <=> Above(x, Parent(y))
  <2>1. y.d # 0
    BY <1>1, <1>5
  <2>2. Parent(y).d = y.d - 1 /\ Parent(y).k = y.k \div 2
    BY <2>1, ParentIs
  <2> DEFINE m == (y.d - 1) - x.d
  <2>3. m \in Nat /\ y.d - x.d = m + 1
    BY <1>1, <1>5
  <2>4. PowerOf2[m + 1] = 2 * PowerOf2[m] /\ PowerOf2[m] \in Nat /\ PowerOf2[m] > 0
    BY <2>3, PowersAre
  <2>5. y.k \div PowerOf2[y.d - x.d] = (y.k \div 2) \div PowerOf2[m]
    <3> DEFINE p == PowerOf2[m]
               a == y.k
    <3>1. a \in Nat /\ p \in Nat /\ p > 0
      BY <1>1, <2>4
    <3> HIDE DEF p, a
    <3>2. a \div (2 * p) = (a \div 2) \div p
      BY <3>1, HalfQuotient
    <3> QED
      BY <2>3, <2>4, <3>2 DEF p, a
  <2>6. x.d <= y.d /\ x.d <= y.d - 1
    BY <1>1, <1>5
  <2> QED
    BY <2>2, <2>5, <2>6 DEF Above
<1> QED
  BY <1>3, <1>4, <1>5

\* What is below a node is within it
LEMMA Inside ==
  ASSUME NEW place, NEW own, NEW total, Layout(place, own, total),
         NEW x \in Ids, NEW y \in Ids, Above(x, y)
  PROVE  /\ place[x] <= place[y]
         /\ place[y] + total[Height(y)] <= place[x] + total[Height(x)]
         /\ x # y => place[x] + own[Height(x)] <= place[y]
<1> DEFINE In(z) == /\ place[x] <= place[z]
                    /\ place[z] + total[Height(z)] <= place[x] + total[Height(x)]
                    /\ x # z => place[x] + own[Height(x)] <= place[z]
           S == { d \in 0 .. Logn : \A z \in Ids : z.d = d /\ Above(x, z) => In(z) }
<1>1. \A z \in Ids : place[z] \in Nat /\ own[Height(z)] \in Nat /\ total[Height(z)] \in Nat
  BY IdsAre DEF Layout
<1>2. x.d \in S
  <2>1. \A z \in Ids : z.d = x.d /\ Above(x, z) => z = x
    BY AboveParent
  <2>2. In(x)
    BY <1>1
  <2>3. x.d \in 0 .. Logn
    BY IdsAre
  <2> HIDE DEF In
  <2> QED
    BY <2>1, <2>2, <2>3
<1>3. ASSUME NEW d \in x.d .. Logn, d # Logn, d \in S
      PROVE  d + 1 \in S
  <2>1. x.d \in 0 .. Logn /\ d + 1 \in 0 .. Logn /\ d \in 0 .. Logn
    BY <1>3, IdsAre, RootPlaced
  <2> SUFFICES ASSUME NEW z \in Ids, z.d = d + 1, Above(x, z)
               PROVE  In(z)
    BY <2>1
  <2>2. z.d # 0 /\ x.d < z.d
    BY <2>1
  <2> DEFINE w == Parent(z)
  <2>3. w \in Ids /\ w.d = d
    <3>1. Parent(z) \in Inner /\ Parent(z).d = z.d - 1
      BY <2>2, ParentIs
    <3> QED
      BY <2>1, <3>1 DEF Inner
  <2>4. Above(x, w)
    BY <2>2, AboveParent
  <2>5. place[w] + own[Height(w)] <= place[z] /\ place[z] + total[Height(z)] <= place[w] + total[Height(w)]
    BY <2>2, KidInside
  <2> HIDE DEF w
  <2>6. In(w)
    BY <1>3, <2>3, <2>4
  <2>7. place[w] \in Nat /\ own[Height(w)] \in Nat /\ place[z] \in Nat /\ place[x] \in Nat
        /\ own[Height(x)] \in Nat /\ total[Height(z)] \in Nat /\ total[Height(w)] \in Nat
        /\ total[Height(x)] \in Nat
    BY <1>1, <2>3
  <2>8. place[x] <= place[z] /\ place[z] + total[Height(z)] <= place[x] + total[Height(x)]
    BY <2>5, <2>6, <2>7
  <2>9. place[x] + own[Height(x)] <= place[z]
    BY <2>5, <2>6, <2>7
  <2> QED
    BY <2>8, <2>9
<1> HIDE DEF S
<1>4. x.d .. Logn \subseteq S
  <2>1. x.d \in Nat /\ Logn \in Nat
    BY IdsAre, RootPlaced
  <2> QED
    BY <1>2, <1>3, <2>1, IntervalInduction
<1>5. y.d \in x.d .. Logn
  BY IdsAre DEF Above
<1> QED
  BY <1>4, <1>5 DEF S

\* Of two nodes of one depth the whole tree of the first comes first
LEMMA SideBySide ==
  ASSUME NEW place, NEW own, NEW total, Layout(place, own, total),
         NEW x \in Ids, NEW y \in Ids, x.d = y.d, x.k < y.k
  PROVE  place[x] + total[Height(x)] <= place[y]
<1> DEFINE S == { d \in 0 .. Logn : \A v, w \in Ids : v.d = d /\ w.d = d /\ v.k < w.k
                                        => place[v] + total[Height(v)] <= place[w] }
<1>1. \A z \in Ids : place[z] \in Nat /\ own[Height(z)] \in Nat /\ total[Height(z)] \in Nat
  BY IdsAre DEF Layout
<1>2. 0 \in S
  <2>1. \A w \in Ids : w.d = 0 => w.k = 0
    <3> SUFFICES ASSUME NEW w \in Ids, w.d = 0
                 PROVE  w.k = 0
      OBVIOUS
    <3>1. w.k \in Nat /\ w.k < PowerOf2[w.d] /\ PowerOf2[0] = 1
      BY IdsAre, PowerOf2Is
    <3> QED
      BY <3>1
  <2>2. 0 \in 0 .. Logn
    BY RootPlaced
  <2> QED
    BY <2>1, <2>2
<1>3. ASSUME NEW d \in 0 .. Logn, d # Logn, d \in S
      PROVE  d + 1 \in S
  <2>1. d + 1 \in 0 .. Logn /\ d + 1 # 0 /\ (d + 1) - 1 = d
    BY <1>3, RootPlaced
  <2> SUFFICES ASSUME NEW v \in Ids, NEW w \in Ids, v.d = d + 1, w.d = d + 1, v.k < w.k
               PROVE  place[v] + total[Height(v)] <= place[w]
    BY <2>1
  <2> DEFINE p == Parent(v)
             q == Parent(w)
             b == v.k % 2
             c == w.k % 2
  <2>2. p \in Inner /\ q \in Inner /\ p.d = d /\ q.d = d /\ v = Kid(p, b) /\ w = Kid(q, c)
        /\ b \in {0, 1} /\ c \in {0, 1}
    BY <2>1, ParentIs
  <2>3. /\ place[v] + total[Height(v)] <= place[p] + total[Height(p)]
        /\ place[q] + own[Height(q)] <= place[w]
    BY <2>1, KidInside
  <2> HIDE DEF p, q, b, c
  <2>4. p \in Ids /\ q \in Ids
    BY <2>2 DEF Inner
  <2>5. p.k \in Nat /\ q.k \in Nat /\ v.k = 2 * p.k + b /\ w.k = 2 * q.k + c
    BY <2>2, <2>4, KidsAre, IdsAre
  <2>6. CASE p.k < q.k
    <3>1. place[p] + total[Height(p)] <= place[q]
      BY <1>3, <2>2, <2>4, <2>6
    <3>2. place[v] \in Nat /\ total[Height(v)] \in Nat /\ place[p] \in Nat /\ total[Height(p)] \in Nat
          /\ place[q] \in Nat /\ own[Height(q)] \in Nat /\ place[w] \in Nat
      BY <1>1, <2>4
    <3> QED
      BY <2>3, <3>1, <3>2
  <2>7. CASE p.k = q.k
    <3>1. p = q
      <4>1. p = [d |-> p.d, k |-> p.k] /\ q = [d |-> q.d, k |-> q.k]
        BY <2>4, IdsAre
      <4> QED
        BY <2>2, <2>7, <4>1
    <3>2. b = 0 /\ c = 1
      BY <2>2, <2>5, <2>7
    <3>3. Height(v) = Height(p) - 1
      BY <2>2, KidsAre
    <3>4. place[v] = place[p] + own[Height(p)] /\ place[w] = place[p] + own[Height(p)] + total[Height(p) - 1]
      BY <2>2, <3>1, <3>2 DEF Layout
    <3>5. place[p] \in Nat /\ own[Height(p)] \in Nat /\ total[Height(v)] \in Nat
      BY <1>1, <2>4
    <3> QED
      BY <3>3, <3>4, <3>5
  <2>8. p.k <= q.k
    BY <2>2, <2>5
  <2> QED
    BY <2>5, <2>6, <2>7, <2>8
<1> HIDE DEF S
<1>4. 0 .. Logn \subseteq S
  BY <1>2, <1>3, RootPlaced, IntervalInduction
<1>5. x.d \in 0 .. Logn
  BY IdsAre
<1> QED
  BY <1>4, <1>5 DEF S

\* Two nodes have no place in common: the own places of one come before those
\* of the other
LEMMA ApartBelow ==
  ASSUME NEW place, NEW own, NEW total, Layout(place, own, total),
         NEW x \in Ids, NEW y \in Ids, x # y, x.d <= y.d
  PROVE  place[x] + own[Height(x)] <= place[y] \/ place[y] + own[Height(y)] <= place[x]
<1> DEFINE j == y.k \div PowerOf2[y.d - x.d]
           z == [d |-> x.d, k |-> j]
<1>1. /\ x.d \in 0 .. Logn /\ y.d \in 0 .. Logn /\ x.k \in Nat /\ y.k \in Nat
      /\ y.k < PowerOf2[y.d] /\ x.k < PowerOf2[x.d]
      /\ x = [d |-> x.d, k |-> x.k]
  BY IdsAre
<1>2. j \in Nat /\ j < PowerOf2[x.d]
  <2> DEFINE m == y.d - x.d
             S == { d \in 0 .. Logn : \A k \in Nat, e \in Nat :
                      e + d <= Logn /\ k < PowerOf2[e + d]
                         => k \div PowerOf2[d] \in Nat /\ k \div PowerOf2[d] < PowerOf2[e] }
  <2>1. 0 \in S
    <3>1. \A k \in Nat : k \div 1 = k
      OBVIOUS
    <3>2. 0 \in 0 .. Logn /\ \A e \in Nat : e + 0 = e
      BY RootPlaced
    <3> QED
      BY <3>1, <3>2, PowerOf2Is
  <2>2. ASSUME NEW d \in 0 .. Logn, d # Logn, d \in S
        PROVE  d + 1 \in S
    <3>1. d + 1 \in 0 .. Logn /\ d \in Nat
      BY <2>2, RootPlaced
    <3> SUFFICES ASSUME NEW k \in Nat, NEW e \in Nat, e + (d + 1) <= Logn, k < PowerOf2[e + (d + 1)]
                 PROVE  k \div PowerOf2[d + 1] \in Nat /\ k \div PowerOf2[d + 1] < PowerOf2[e]
      BY <3>1
    <3> DEFINE q == k \div 2
    <3>2. q \in Nat /\ k % 2 \in {0, 1} /\ k = 2 * q + (k % 2)
      BY Halved
    <3>3. e + d \in Nat /\ e + (d + 1) = (e + d) + 1 /\ e + d <= Logn
      BY <3>1, RootPlaced
    <3>4. PowerOf2[e + (d + 1)] = 2 * PowerOf2[e + d] /\ PowerOf2[e + d] \in Nat
      BY <3>3, PowersAre
    <3>5. q < PowerOf2[e + d]
      <4> HIDE DEF q
      <4> DEFINE b == k % 2
      <4>1. b \in {0, 1} /\ k = 2 * q + b
        BY <3>2
      <4> HIDE DEF b
      <4> QED
        BY <3>2, <3>4, <4>1
    <3>6. q \div PowerOf2[d] \in Nat /\ q \div PowerOf2[d] < PowerOf2[e]
      <4> HIDE DEF q
      <4> QED
        BY <2>2, <3>2, <3>3, <3>5
    <3>7. k \div PowerOf2[d + 1] = q \div PowerOf2[d]
      <4>1. PowerOf2[d + 1] = 2 * PowerOf2[d] /\ PowerOf2[d] \in Nat /\ PowerOf2[d] > 0
        BY <3>1, PowersAre
      <4>2. k \div (2 * PowerOf2[d]) = (k \div 2) \div PowerOf2[d]
        BY <4>1, HalfQuotient
      <4> QED
        BY <4>1, <4>2
    <3> QED
      BY <3>6, <3>7
  <2> HIDE DEF S
  <2>3. 0 .. Logn \subseteq S
    BY <2>1, <2>2, RootPlaced, IntervalInduction
  <2>4. m \in 0 .. Logn /\ x.d \in Nat /\ x.d + m = y.d /\ y.d <= Logn
    BY <1>1, RootPlaced
  <2> HIDE DEF m
  <2>5. y.k \div PowerOf2[m] \in Nat /\ y.k \div PowerOf2[m] < PowerOf2[x.d]
    <3>1. m \in S
      BY <2>3, <2>4
    <3>2. x.d + m <= Logn /\ y.k < PowerOf2[x.d + m]
      BY <1>1, <2>4
    <3> QED
      BY <1>1, <2>4, <3>1, <3>2 DEF S
  <2> QED
    BY <2>5 DEF m
<1>3. z \in Ids /\ z.d = x.d /\ z.k = j
  BY <1>1, <1>2, IdIs
<1>4. Above(z, y)
  BY <1>3 DEF Above
<1> HIDE DEF z, j
<1>5. /\ place[z] <= place[y] /\ place[y] + total[Height(y)] <= place[z] + total[Height(z)]
      /\ z # y => place[z] + own[Height(z)] <= place[y]
  BY <1>3, <1>4, Inside
<1>6. \A w \in Ids : place[w] \in Nat /\ own[Height(w)] \in Nat /\ total[Height(w)] \in Nat
                     /\ own[Height(w)] <= total[Height(w)]
  BY IdsAre, OwnInside DEF Layout
<1>7. CASE z = x
  BY <1>5, <1>7
<1>8. CASE x.k < z.k
  <2>1. place[x] + total[Height(x)] <= place[z]
    BY <1>3, <1>8, SideBySide
  <2>2. place[x] \in Nat /\ place[z] \in Nat /\ place[y] \in Nat /\ own[Height(x)] \in Nat
        /\ total[Height(x)] \in Nat /\ own[Height(x)] <= total[Height(x)]
    BY <1>3, <1>6
  <2> QED
    BY <1>5, <2>1, <2>2
<1>9. CASE z.k < x.k
  <2>1. place[z] + total[Height(z)] <= place[x]
    BY <1>3, <1>9, SideBySide
  <2>2. place[x] \in Nat /\ place[z] \in Nat /\ place[y] \in Nat /\ own[Height(y)] \in Nat
        /\ total[Height(z)] \in Nat /\ total[Height(y)] \in Nat /\ own[Height(y)] <= total[Height(y)]
    BY <1>3, <1>6
  <2> QED
    BY <1>5, <2>1, <2>2
<1>10. z = [d |-> z.d, k |-> z.k] /\ z.k \in Nat
  BY <1>3, IdsAre
<1>11. z.k = x.k => z = x
  BY <1>1, <1>3, <1>10
<1> QED
  BY <1>1, <1>7, <1>8, <1>9, <1>10, <1>11

LEMMA Apart ==
  ASSUME NEW place, NEW own, NEW total, Layout(place, own, total),
         NEW x \in Ids, NEW y \in Ids, x # y
  PROVE  place[x] + own[Height(x)] <= place[y] \/ place[y] + own[Height(y)] <= place[x]
<1>1. CASE x.d <= y.d
  BY <1>1, ApartBelow
<1>2. CASE y.d <= x.d
  <2>1. y # x
    OBVIOUS
  <2> QED
    BY <1>2, <2>1, ApartBelow
<1>3. x.d \in Nat /\ y.d \in Nat
  BY IdsAre, RootPlaced
<1> QED
  BY <1>1, <1>2, <1>3
-----------------------------------------------------------------------------
(* The places in the arrays of positions and of stacks, and the positions  *)

LEMMA RootIs ==
  /\ RootId \in Ids /\ RootId \in Inner /\ Height(RootId) = Logn /\ Size(RootId) = N
  /\ NodeOf(RootId) = Root /\ PosOf(RootId) = Before /\ LangsOf(RootId) = RootLanguages
  /\ \A x \in Ids : Above(RootId, x)
<1>1. RootId \in Ids /\ RootId.d = 0 /\ RootId.k = 0
  <2>1. 0 \in 0 .. Logn /\ PowerOf2[0] = 1
    BY RootPlaced, PowerOf2Is
  <2>2. [d |-> 0, k |-> 0] \in Ids
    BY <2>1, IdIs
  <2> QED
    BY <2>2 DEF RootId
<1>2. Height(RootId) = Logn
  BY <1>1, RootPlaced DEF Height
<1>3. Size(RootId) = N
  BY <1>2 DEF Size, N
<1>4. RootId \in Inner
  BY <1>1, RootPlaced DEF Inner
<1>5. Tree[RootId.d][RootId.k] = Placed(Root, Before, -1)
  BY <1>1, TreeIs
<1>6. NodeOf(RootId) = Root /\ PosOf(RootId) = Before /\ Tree[RootId.d][RootId.k].of = -1
  BY <1>5 DEF NodeOf, PosOf, Placed
<1>7. LangsOf(RootId) = RootLanguages
  BY <1>3, <1>6 DEF LangsOf, RootLanguages
<1>8. ASSUME NEW x \in Ids
      PROVE  Above(RootId, x)
  <2>1. x.k \in Nat /\ x.k < PowerOf2[x.d] /\ x.d \in Nat /\ PowerOf2[x.d] \in Nat
    BY IdsAre, RootPlaced, PowersAre
  <2> DEFINE k == x.k
             p == PowerOf2[x.d]
  <2>2. k \in Nat /\ p \in Nat /\ k < p
    BY <2>1
  <2> HIDE DEF k, p
  <2>3. (0 * p + k) \div p = 0
    BY <2>2, DivModUnique
  <2>4. 0 * p + k = k
    BY <2>2
  <2>5. x.k \div PowerOf2[x.d] = 0
    BY <2>3, <2>4 DEF k, p
  <2>6. RootId.d <= x.d /\ x.d - RootId.d = x.d
    BY <1>1, <2>1
  <2> QED
    BY <1>1, <2>5, <2>6 DEF Above
<1> QED
  BY <1>1, <1>2, <1>3, <1>4, <1>6, <1>7, <1>8

LEMMA InnerHeights ==
  ASSUME NEW x \in Inner
  PROVE  /\ Height(x) \in Nat \ {0} /\ Height(x) \in 0 .. Logn /\ Height(x) - 1 \in Nat
         /\ Height(x) - 1 \in 0 .. Logn /\ Height(x) = (Height(x) - 1) + 1
         /\ PowerOf2[Height(x)] = 2 * PowerOf2[Height(x) - 1] /\ PowerOf2[Height(x) - 1] \in Nat \ {0}
<1>1. Height(x) \in Nat \ {0} /\ Height(x) \in 0 .. Logn
  BY KidsAre, IdsAre
<1>2. /\ Height(x) - 1 \in Nat /\ Height(x) - 1 \in 0 .. Logn /\ Height(x) = (Height(x) - 1) + 1
  BY <1>1, RootPlaced
<1>3. PowerOf2[(Height(x) - 1) + 1] = 2 * PowerOf2[Height(x) - 1] /\ PowerOf2[Height(x) - 1] \in Nat \ {0}
  BY <1>2, PowersAre
<1> QED
  BY <1>1, <1>2, <1>3

LEMMA InKids == \A x \in Inner : Kid(x, 0) \in Ids /\ Kid(x, 1) \in Ids
<1>1. 0 \in {0, 1} /\ 1 \in {0, 1}
  OBVIOUS
<1> QED
  BY <1>1, KidsAre

LEMMA SizesDoubled ==
  ASSUME NEW h \in 0 .. Logn
  PROVE  PowerOf2[h] \in Nat \ {0} /\ 2 * PowerOf2[h] - 1 \in Nat /\ 2 * PowerOf2[h] - 2 \in Nat
<1>1. PowerOf2[h] \in Nat \ {0}
  BY RootPlaced, PowersAre
<1> QED
  BY <1>1

\* Every node has a position of its own in resource_positions
LEMMA RpIs ==
  /\ \A x \in Ids : NodeOf(x).rp \in 0 .. 2 * N - 2
  /\ \A x, y \in Ids : x # y => NodeOf(x).rp # NodeOf(y).rp
<1> DEFINE place == [x \in Ids |-> NodeOf(x).rp]
           own == [h \in 0 .. Logn |-> 1]
           total == [h \in 0 .. Logn |-> 2 * PowerOf2[h] - 1]
<1>1. /\ place \in [Ids -> Nat] /\ own \in [0 .. Logn -> Nat] /\ total \in [0 .. Logn -> Nat]
      /\ own[0] <= total[0]
  <2>1. \A x \in Ids : NodeOf(x).rp \in Nat
    BY NodeIs DEF Nodes
  <2>2. 0 \in 0 .. Logn /\ PowerOf2[0] = 1
    BY RootPlaced, PowerOf2Is
  <2> QED
    BY <2>1, <2>2, SizesDoubled
<1>2. ASSUME NEW x \in Inner
      PROVE  /\ total[Height(x)] = own[Height(x)] + 2 * total[Height(x) - 1]
             /\ place[Kid(x, 0)] = place[x] + own[Height(x)]
             /\ place[Kid(x, 1)] = place[x] + own[Height(x)] + total[Height(x) - 1]
  <2>1. x \in Ids /\ Kid(x, 0) \in Ids /\ Kid(x, 1) \in Ids
    BY InKids DEF Inner
  <2>2. NodeOf(Kid(x, 0)).rp = NodeOf(x).rp + 1 /\ NodeOf(Kid(x, 1)).rp = NodeOf(x).rp + NodeOf(x).size
    BY KidsAre DEF Left, Right, Node
  <2>3. NodeOf(x).size = PowerOf2[Height(x)] /\ NodeOf(x).rp \in Nat
    BY <2>1, NodeIs DEF Size, Nodes
  <2>4. total[Height(x)] = 2 * PowerOf2[Height(x)] - 1 /\ own[Height(x)] = 1
        /\ total[Height(x) - 1] = 2 * PowerOf2[Height(x) - 1] - 1
        /\ place[Kid(x, 0)] = NodeOf(Kid(x, 0)).rp /\ place[Kid(x, 1)] = NodeOf(Kid(x, 1)).rp
        /\ place[x] = NodeOf(x).rp
    BY <2>1, InnerHeights
  <2>5. PowerOf2[Height(x)] = 2 * PowerOf2[Height(x) - 1] /\ PowerOf2[Height(x) - 1] \in Nat
    BY InnerHeights
  <2> HIDE DEF place, own, total
  <2> QED
    BY <2>2, <2>3, <2>4, <2>5
<1> DEFINE laid == Layout(place, own, total)
<1>3. laid
  BY <1>1, <1>2 DEF Layout
<1>4. /\ \A x \in Ids : place[x] = NodeOf(x).rp
      /\ \A h \in 0 .. Logn : own[h] = 1 /\ total[h] = 2 * PowerOf2[h] - 1
  OBVIOUS
<1> HIDE DEF place, own, total
<1>5. ASSUME NEW x \in Ids
      PROVE  NodeOf(x).rp \in 0 .. 2 * N - 2
  <2>1. place[RootId] <= place[x] /\ place[x] + total[Height(x)] <= place[RootId] + total[Height(RootId)]
    BY <1>3, RootIs, Inside
  <2>2. NodeOf(RootId).rp = 0
    BY RootIs DEF Root, Node
  <2>3. Height(x) \in 0 .. Logn /\ Logn \in 0 .. Logn
    BY IdsAre, RootPlaced
  <2>4. PowerOf2[Height(x)] \in Nat \ {0} /\ PowerOf2[Logn] = N /\ N \in Nat \ {0} /\ NodeOf(x).rp \in Nat
    BY <2>3, SizesDoubled, RootPlaced, NodeIs DEF N, Nodes
  <2>5. total[Height(x)] = 2 * PowerOf2[Height(x)] - 1 /\ total[Height(RootId)] = 2 * N - 1
        /\ place[RootId] = 0 /\ place[x] = NodeOf(x).rp
    BY <1>4, <2>2, <2>3, <2>4, RootIs
  <2>6. NodeOf(x).rp + (2 * PowerOf2[Height(x)] - 1) <= 0 + (2 * N - 1)
    BY <2>1, <2>5
  <2> QED
    BY <2>4, <2>6
<1>6. ASSUME NEW x \in Ids, NEW y \in Ids, x # y
      PROVE  NodeOf(x).rp # NodeOf(y).rp
  <2>1. place[x] + own[Height(x)] <= place[y] \/ place[y] + own[Height(y)] <= place[x]
    BY <1>3, <1>6, Apart
  <2>2. own[Height(x)] = 1 /\ own[Height(y)] = 1 /\ place[x] = NodeOf(x).rp /\ place[y] = NodeOf(y).rp
    BY <1>4, IdsAre
  <2>3. NodeOf(x).rp \in Nat /\ NodeOf(y).rp \in Nat
    BY NodeIs DEF Nodes
  <2> QED
    BY <2>1, <2>2, <2>3
<1> QED
  BY <1>5, <1>6

\* Every inner node has two stacks of its own
LEMMA StIs ==
  /\ \A x \in Inner : NodeOf(x).st \in 0 .. 2 * N - 3 /\ NodeOf(x).st + 1 \in 0 .. 2 * N - 3
  /\ \A x, y \in Inner : x # y => /\ NodeOf(x).st # NodeOf(y).st
                                  /\ NodeOf(x).st + 1 # NodeOf(y).st + 1
                                  /\ NodeOf(x).st + 1 # NodeOf(y).st
                                  /\ NodeOf(x).st # NodeOf(y).st + 1
<1> DEFINE place == [x \in Ids |-> NodeOf(x).st]
           own == [h \in 0 .. Logn |-> IF h = 0 THEN 0 ELSE 2]
           total == [h \in 0 .. Logn |-> 2 * PowerOf2[h] - 2]
<1>1. /\ place \in [Ids -> Nat] /\ own \in [0 .. Logn -> Nat] /\ total \in [0 .. Logn -> Nat]
      /\ own[0] <= total[0]
  <2>1. \A x \in Ids : NodeOf(x).st \in Nat
    BY NodeIs DEF Nodes
  <2>2. 0 \in 0 .. Logn /\ PowerOf2[0] = 1
    BY RootPlaced, PowerOf2Is
  <2> QED
    BY <2>1, <2>2, SizesDoubled
<1>2. ASSUME NEW x \in Inner
      PROVE  /\ total[Height(x)] = own[Height(x)] + 2 * total[Height(x) - 1]
             /\ place[Kid(x, 0)] = place[x] + own[Height(x)]
             /\ place[Kid(x, 1)] = place[x] + own[Height(x)] + total[Height(x) - 1]
  <2>1. x \in Ids /\ Kid(x, 0) \in Ids /\ Kid(x, 1) \in Ids
    BY InKids DEF Inner
  <2>2. NodeOf(Kid(x, 0)).st = NodeOf(x).st + 2 /\ NodeOf(Kid(x, 1)).st = NodeOf(x).st + NodeOf(x).size
    BY KidsAre DEF Left, Right, Node
  <2>3. NodeOf(x).size = PowerOf2[Height(x)] /\ NodeOf(x).st \in Nat
    BY <2>1, NodeIs DEF Size, Nodes
  <2>4. total[Height(x)] = 2 * PowerOf2[Height(x)] - 2 /\ own[Height(x)] = 2
        /\ total[Height(x) - 1] = 2 * PowerOf2[Height(x) - 1] - 2
        /\ place[Kid(x, 0)] = NodeOf(Kid(x, 0)).st /\ place[Kid(x, 1)] = NodeOf(Kid(x, 1)).st
        /\ place[x] = NodeOf(x).st
    BY <2>1, InnerHeights
  <2>5. PowerOf2[Height(x)] = 2 * PowerOf2[Height(x) - 1] /\ PowerOf2[Height(x) - 1] \in Nat
    BY InnerHeights
  <2> HIDE DEF place, own, total
  <2> QED
    BY <2>2, <2>3, <2>4, <2>5
<1> DEFINE laid == Layout(place, own, total)
<1>3. laid
  BY <1>1, <1>2 DEF Layout
<1>4. /\ \A x \in Ids : place[x] = NodeOf(x).st
      /\ \A h \in 0 .. Logn : h # 0 => own[h] = 2
      /\ \A h \in 0 .. Logn : total[h] = 2 * PowerOf2[h] - 2
  OBVIOUS
<1> HIDE DEF place, own, total
<1>5. ASSUME NEW x \in Inner
      PROVE  NodeOf(x).st \in 0 .. 2 * N - 3 /\ NodeOf(x).st + 1 \in 0 .. 2 * N - 3
  <2>1. x \in Ids
    BY DEF Inner
  <2>2. place[RootId] <= place[x] /\ place[x] + total[Height(x)] <= place[RootId] + total[Height(RootId)]
    BY <1>3, <2>1, RootIs, Inside
  <2>3. NodeOf(RootId).st = 0
    BY RootIs DEF Root, Node
  <2>4. Height(x) \in 0 .. Logn /\ Logn \in 0 .. Logn
    BY <2>1, IdsAre, RootPlaced
  <2>5. PowerOf2[Height(x)] \in Nat \ {0} /\ PowerOf2[Logn] = N /\ N \in Nat \ {0} /\ NodeOf(x).st \in Nat
        /\ PowerOf2[Height(x)] > 1
    <3>1. Size(x) > 1
      BY KidsAre
    <3> QED
      BY <3>1, <2>1, <2>4, SizesDoubled, RootPlaced, NodeIs DEF N, Nodes, Size
  <2>6. total[Height(x)] = 2 * PowerOf2[Height(x)] - 2 /\ total[Height(RootId)] = 2 * N - 2
        /\ place[RootId] = 0 /\ place[x] = NodeOf(x).st
    BY <1>4, <2>1, <2>3, <2>4, <2>5, RootIs
  <2> QED
    BY <2>2, <2>5, <2>6
<1>6. ASSUME NEW x \in Inner, NEW y \in Inner, x # y
      PROVE  /\ NodeOf(x).st # NodeOf(y).st
             /\ NodeOf(x).st + 1 # NodeOf(y).st + 1
             /\ NodeOf(x).st + 1 # NodeOf(y).st
             /\ NodeOf(x).st # NodeOf(y).st + 1
  <2>1. x \in Ids /\ y \in Ids
    BY DEF Inner
  <2>2. place[x] + own[Height(x)] <= place[y] \/ place[y] + own[Height(y)] <= place[x]
    BY <1>3, <1>6, <2>1, Apart
  <2>3. own[Height(x)] = 2 /\ own[Height(y)] = 2 /\ place[x] = NodeOf(x).st /\ place[y] = NodeOf(y).st
    BY <1>4, <2>1, InnerHeights
  <2>4. NodeOf(x).st \in Nat /\ NodeOf(y).st \in Nat
    BY <2>1, NodeIs DEF Nodes
  <2> QED
    BY <2>2, <2>3, <2>4
<1> QED
  BY <1>5, <1>6

\* The material of a node is before the end of that of the tree
LEMMA PosIs ==
  ASSUME NEW x \in Ids
  PROVE  /\ PosOf(x) \in Nat /\ End \in Nat /\ Own(Height(x)) \in Nat /\ TreeCost[Height(x)] \in Nat
         /\ Own(Height(x)) <= TreeCost[Height(x)]
         /\ PosOf(x) + TreeCost[Height(x)] <= End
<1> DEFINE place == [y \in Ids |-> PosOf(y)]
           own == [h \in 0 .. Logn |-> Own(h)]
           total == [h \in 0 .. Logn |-> TreeCost[h]]
<1>1. \A h \in 0 .. Logn : Own(h) \in Nat /\ TreeCost[h] \in Nat
  BY OwnIs, TreeCostIs, RootPlaced
<1>2. /\ place \in [Ids -> Nat] /\ own \in [0 .. Logn -> Nat] /\ total \in [0 .. Logn -> Nat]
      /\ own[0] <= total[0]
  <2>1. \A y \in Ids : PosOf(y) \in Nat
    BY NodeIs
  <2>2. 0 \in 0 .. Logn /\ Own(0) \in Nat /\ TreeCost[0] = Own(0)
    BY <1>1, RootPlaced, TreeCostIs
  <2> QED
    BY <1>1, <2>1, <2>2
<1>3. ASSUME NEW y \in Inner
      PROVE  /\ total[Height(y)] = own[Height(y)] + 2 * total[Height(y) - 1]
             /\ place[Kid(y, 0)] = place[y] + own[Height(y)]
             /\ place[Kid(y, 1)] = place[y] + own[Height(y)] + total[Height(y) - 1]
  <2>1. y \in Ids /\ Kid(y, 0) \in Ids /\ Kid(y, 1) \in Ids
    BY InKids DEF Inner
  <2>2. /\ PosOf(Kid(y, 0)) = PosOf(y) + Own(Height(y))
        /\ PosOf(Kid(y, 1)) = PosOf(y) + Own(Height(y)) + TreeCost[Height(y) - 1]
    BY KidsAre
  <2>3. TreeCost[Height(y)] = Own(Height(y)) + 2 * TreeCost[Height(y) - 1]
    BY InnerHeights, TreeCostIs
  <2> QED
    BY <2>1, <2>2, <2>3, InnerHeights
<1>4. Layout(place, own, total)
  BY <1>2, <1>3 DEF Layout
<1>5. /\ \A y \in Ids : place[y] = PosOf(y)
      /\ \A h \in 0 .. Logn : own[h] = Own(h) /\ total[h] = TreeCost[h]
  OBVIOUS
<1> HIDE DEF place, own, total
<1>6. place[x] + total[Height(x)] <= place[RootId] + total[Height(RootId)]
  BY <1>4, RootIs, Inside
<1>7. own[Height(x)] <= total[Height(x)]
  BY <1>4, OwnInside
<1>8. Height(x) \in 0 .. Logn /\ Logn \in 0 .. Logn /\ RootId \in Ids /\ Height(RootId) = Logn
      /\ PosOf(RootId) = Before
  BY IdsAre, RootPlaced, RootIs
<1>9. PosOf(x) + TreeCost[Height(x)] <= End
  BY <1>5, <1>6, <1>8 DEF End
<1>10. End \in Nat
  BY <1>1, <1>8, RootPlaced DEF End
<1> QED
  BY <1>1, <1>5, <1>7, <1>8, <1>9, <1>10, NodeIs
-----------------------------------------------------------------------------
(* The calls of set-up *)

\* The calls after the first of them has been made
NextCalls(ids) ==
  (IF ids[1].d = Logn THEN <<>> ELSE <<Kid(ids[1], 0), Kid(ids[1], 1)>>) \o Tail(ids)

\* Two elements in the place of the first
LEMMA Replaced ==
  ASSUME NEW S, NEW s \in Seq(S), s # << >>, NEW a \in S, NEW b \in S
  PROVE  /\ Len(s) \in Nat /\ Len(s) >= 1
         /\ <<a, b>> \o Tail(s) \in Seq(S) /\ Len(<<a, b>> \o Tail(s)) = Len(s) + 1
         /\ (<<a, b>> \o Tail(s))[1] = a /\ (<<a, b>> \o Tail(s))[2] = b
         /\ \A i \in 3 .. Len(s) + 1 : (<<a, b>> \o Tail(s))[i] = s[i - 1]
         /\ << >> \o Tail(s) \in Seq(S) /\ Len(<< >> \o Tail(s)) = Len(s) - 1
         /\ \A i \in 1 .. Len(s) - 1 : (<< >> \o Tail(s))[i] = s[i + 1]
<1> DEFINE t == Tail(s)
           p == <<a, b>>
           c == p \o t
           e == << >> \o t
<1>1. Len(s) \in Nat /\ Len(s) >= 1
  <2>1. Len(s) \in Nat /\ (Len(s) = 0 => s = << >>)
    BY LenProperties, EmptySeq
  <2> QED
    BY <2>1
<1>2. t \in Seq(S) /\ Len(t) = Len(s) - 1 /\ \A i \in 1 .. Len(t) : t[i] = s[i + 1]
  BY HeadTailProperties
<1>3. p \in Seq(S) /\ Len(p) = 2 /\ p[1] = a /\ p[2] = b
  OBVIOUS
<1> HIDE DEF p, t
<1>4. c \in Seq(S) /\ Len(c) = Len(p) + Len(t)
      /\ \A i \in 1 .. Len(p) + Len(t) : c[i] = IF i <= Len(p) THEN p[i] ELSE t[i - Len(p)]
  BY <1>2, <1>3, ConcatProperties
<1>5. e = t
  BY <1>2, ConcatEmptySeq
<1> HIDE DEF c, e
<1>6. Len(c) = Len(s) + 1 /\ c[1] = a /\ c[2] = b
  BY <1>1, <1>2, <1>3, <1>4
<1>7. ASSUME NEW i \in 3 .. Len(s) + 1
      PROVE  c[i] = s[i - 1]
  <2>1. i \in 1 .. Len(p) + Len(t) /\ ~(i <= Len(p)) /\ i - Len(p) \in 1 .. Len(t)
        /\ (i - Len(p)) + 1 = i - 1
    BY <1>1, <1>2, <1>3
  <2>2. c[i] = t[i - Len(p)]
    BY <1>4, <2>1
  <2>3. t[i - Len(p)] = s[(i - Len(p)) + 1]
    BY <1>2, <2>1
  <2> QED
    BY <2>1, <2>2, <2>3
<1>8. \A i \in 1 .. Len(s) - 1 : e[i] = s[i + 1]
  BY <1>2, <1>5
<1>9. e \in Seq(S) /\ Len(e) = Len(s) - 1
  BY <1>2, <1>5
<1> QED
  BY <1>1, <1>4, <1>6, <1>7, <1>8, <1>9 DEF c, e, p, t

LEMMA NextCallsAre ==
  ASSUME NEW ids \in Seq(Ids), ids # << >>
  PROVE  /\ Len(ids) \in Nat /\ Len(ids) >= 1 /\ ids[1] \in Ids
         /\ NextCalls(ids) \in Seq(Ids)
         /\ ids[1].d = Logn =>
              /\ Len(NextCalls(ids)) = Len(ids) - 1
              /\ \A i \in 1 .. Len(ids) - 1 : NextCalls(ids)[i] = ids[i + 1]
         /\ ids[1].d # Logn =>
              /\ ids[1] \in Inner
              /\ Len(NextCalls(ids)) = Len(ids) + 1
              /\ NextCalls(ids)[1] = Kid(ids[1], 0) /\ NextCalls(ids)[2] = Kid(ids[1], 1)
              /\ \A i \in 3 .. Len(ids) + 1 : NextCalls(ids)[i] = ids[i - 1]
<1>1. Len(ids) \in Nat /\ Len(ids) >= 1
  <2>1. Len(ids) \in Nat /\ (Len(ids) = 0 => ids = << >>)
    BY LenProperties, EmptySeq
  <2> QED
    BY <2>1
<1>2. ids[1] \in Ids
  BY <1>1, ElementOfSeq
<1>3. CASE ids[1].d = Logn
  <2> DEFINE e == << >> \o Tail(ids)
  <2>1. e \in Seq(Ids) /\ Len(e) = Len(ids) - 1 /\ \A i \in 1 .. Len(ids) - 1 : e[i] = ids[i + 1]
    BY <1>2, Replaced
  <2>2. NextCalls(ids) = e
    BY <1>3 DEF NextCalls
  <2> HIDE DEF e
  <2> QED
    BY <1>1, <1>2, <1>3, <2>1, <2>2
<1>4. CASE ids[1].d # Logn
  <2> DEFINE x == ids[1]
             c == <<Kid(x, 0), Kid(x, 1)>> \o Tail(ids)
  <2>1. x \in Inner
    BY <1>2, <1>4, IdsAre, RootPlaced DEF Inner
  <2>2. Kid(x, 0) \in Ids /\ Kid(x, 1) \in Ids
    BY <2>1, InKids
  <2>3. /\ c \in Seq(Ids) /\ Len(c) = Len(ids) + 1 /\ c[1] = Kid(x, 0) /\ c[2] = Kid(x, 1)
        /\ \A i \in 3 .. Len(ids) + 1 : c[i] = ids[i - 1]
    BY <2>2, Replaced
  <2>4. NextCalls(ids) = c
    BY <1>4 DEF NextCalls
  <2> HIDE DEF c
  <2> QED
    BY <1>1, <1>2, <1>4, <2>1, <2>3, <2>4
<1> QED
  BY <1>3, <1>4

\* A call and those after it, seen through what is called for each node
Image(f, ids) == [i \in 1 .. Len(ids) |-> f[ids[i]]]

LEMMA NextImage ==
  ASSUME NEW V, NEW f \in [Ids -> V], NEW ids \in Seq(Ids), ids # << >>
  PROVE  /\ Head(Image(f, ids)) = f[ids[1]]
         /\ ids[1].d = Logn => << >> \o Tail(Image(f, ids)) = Image(f, NextCalls(ids))
         /\ ids[1].d # Logn =>
              <<f[Kid(ids[1], 0)], f[Kid(ids[1], 1)]>> \o Tail(Image(f, ids)) = Image(f, NextCalls(ids))
<1> DEFINE m == Image(f, ids)
           n == NextCalls(ids)
           w == Image(f, n)
<1>1. /\ Len(ids) \in Nat /\ Len(ids) >= 1 /\ ids[1] \in Ids /\ n \in Seq(Ids)
      /\ \A i \in 1 .. Len(ids) : ids[i] \in Ids
  BY NextCallsAre, ElementOfSeq
<1>2. m \in Seq(V) /\ Len(m) = Len(ids) /\ \A i \in 1 .. Len(ids) : m[i] = f[ids[i]]
  <2>1. m = [i \in 1 .. Len(ids) |-> f[ids[i]]]
    BY DEF Image
  <2>2. \A i \in 1 .. Len(ids) : f[ids[i]] \in V
    BY <1>1
  <2> QED
    BY <1>1, <2>1, <2>2
<1>3. w \in [1 .. Len(n) -> V] /\ \A i \in 1 .. Len(n) : w[i] = f[n[i]]
  <2>1. \A i \in 1 .. Len(n) : n[i] \in Ids
    BY <1>1, ElementOfSeq
  <2> QED
    BY <2>1 DEF Image
<1>4. m # << >>
  BY <1>1, <1>2
<1>5. Head(m) = f[ids[1]]
  BY <1>1, <1>2, <1>4
<1>6. f[ids[1]] \in V
  BY <1>1
<1> HIDE DEF m, w
<1>7. ASSUME ids[1].d = Logn
      PROVE  << >> \o Tail(m) = w
  <2> DEFINE e == << >> \o Tail(m)
  <2>1. e \in Seq(V) /\ Len(e) = Len(m) - 1 /\ \A i \in 1 .. Len(m) - 1 : e[i] = m[i + 1]
    BY <1>2, <1>4, <1>6, Replaced
  <2>2. Len(n) = Len(ids) - 1 /\ \A i \in 1 .. Len(ids) - 1 : n[i] = ids[i + 1]
    BY <1>7, NextCallsAre
  <2> HIDE DEF e, n
  <2>3. e \in [1 .. Len(ids) - 1 -> V]
    BY <1>2, <2>1, LenProperties
  <2>4. ASSUME NEW i \in 1 .. Len(ids) - 1
        PROVE  e[i] = w[i]
    <3>1. i + 1 \in 1 .. Len(ids)
      BY <1>1
    <3> QED
      BY <1>2, <1>3, <2>1, <2>2, <3>1
  <2>5. e = w
    BY <1>3, <2>2, <2>3, <2>4
  <2> QED
    BY <2>5 DEF e
<1>8. ASSUME ids[1].d # Logn
      PROVE  <<f[Kid(ids[1], 0)], f[Kid(ids[1], 1)]>> \o Tail(m) = w
  <2> DEFINE a == f[Kid(ids[1], 0)]
             b == f[Kid(ids[1], 1)]
             c == <<a, b>> \o Tail(m)
  <2>1. /\ ids[1] \in Inner /\ Len(n) = Len(ids) + 1
        /\ n[1] = Kid(ids[1], 0) /\ n[2] = Kid(ids[1], 1)
        /\ \A i \in 3 .. Len(ids) + 1 : n[i] = ids[i - 1]
    BY <1>8, NextCallsAre
  <2>2. a \in V /\ b \in V
    BY <2>1, InKids
  <2>3. w[1] = a /\ w[2] = b
    BY <1>1, <1>3, <2>1
  <2> HIDE DEF a, b
  <2>4. /\ c \in Seq(V) /\ Len(c) = Len(m) + 1 /\ c[1] = a /\ c[2] = b
        /\ \A i \in 3 .. Len(m) + 1 : c[i] = m[i - 1]
    BY <1>2, <1>4, <2>2, Replaced
  <2> HIDE DEF c, n
  <2>5. c \in [1 .. Len(ids) + 1 -> V]
    BY <1>2, <2>4, LenProperties
  <2>6. ASSUME NEW i \in 1 .. Len(ids) + 1
        PROVE  c[i] = w[i]
    <3>1. CASE i = 1
      BY <2>3, <2>4, <3>1
    <3>2. CASE i = 2
      BY <2>3, <2>4, <3>2
    <3>3. CASE i \in 3 .. Len(ids) + 1
      <4>1. i - 1 \in 1 .. Len(ids)
        BY <1>1, <3>3
      <4>2. c[i] = f[ids[i - 1]]
        BY <1>2, <2>4, <3>3, <4>1
      <4>3. w[i] = f[ids[i - 1]]
        BY <1>3, <2>1, <3>3
      <4> QED
        BY <4>2, <4>3
    <3> QED
      BY <1>1, <3>1, <3>2, <3>3
  <2>7. c = w
    BY <1>3, <2>1, <2>5, <2>6
  <2> QED
    BY <2>7 DEF c, a, b
<1> QED
  BY <1>5, <1>7, <1>8 DEF m, w
\* A step of set-up writes the material of one node, and goes on
LEMMA WalkStep ==
  ASSUME NEW ids \in Seq(Ids), ids # << >>, NEW from, Walk(ids, from)
  PROVE  /\ from = PosOf(ids[1])
         /\ Walk(NextCalls(ids), from + Own(Height(ids[1])))
<1> DEFINE x == ids[1]
           n == NextCalls(ids)
<1>1. /\ Len(ids) \in Nat /\ Len(ids) >= 1 /\ x \in Ids /\ n \in Seq(Ids) /\ Len(n) \in Nat
  BY NextCallsAre, LenProperties
<1>2. from = PosOf(x) /\ \A i \in 1 .. Len(ids) :
        PosOf(ids[i]) + TreeCost[Height(ids[i])] = IF i = Len(ids) THEN End ELSE PosOf(ids[i + 1])
  BY DEF Walk
<1>3. PosOf(x) + TreeCost[Height(x)] = IF 1 = Len(ids) THEN End ELSE PosOf(ids[2])
  <2>1. 1 \in 1 .. Len(ids) /\ 1 + 1 = 2
    BY <1>1
  <2> QED
    BY <1>2, <2>1
<1>4. PosOf(x) \in Nat /\ Own(Height(x)) \in Nat /\ TreeCost[Height(x)] \in Nat
  BY <1>1, PosIs
<1>5. CASE x.d = Logn
  <2>1. /\ Len(n) = Len(ids) - 1 /\ \A i \in 1 .. Len(ids) - 1 : n[i] = ids[i + 1]
    BY <1>5, NextCallsAre
  <2>2. TreeCost[Height(x)] = Own(Height(x))
    <3>1. Height(x) = 0
      BY <1>5, RootPlaced DEF Height
    <3> QED
      BY <3>1, TreeCostIs
  <2>3. from + Own(Height(x)) = IF n = << >> THEN End ELSE PosOf(n[1])
    <3>1. CASE Len(ids) = 1
      <4>1. n = << >>
        BY <1>1, <2>1, <3>1, EmptySeq
      <4> QED
        BY <1>2, <1>3, <2>2, <3>1, <4>1
    <3>2. CASE Len(ids) # 1
      <4>1. n # << >> /\ 1 \in 1 .. Len(ids) - 1
        BY <1>1, <2>1, <3>2, EmptySeq
      <4>2. n[1] = ids[1 + 1]
        BY <2>1, <4>1
      <4> QED
        BY <1>2, <1>3, <2>2, <3>2, <4>1, <4>2
    <3> QED
      BY <3>1, <3>2
  <2>4. ASSUME NEW i \in 1 .. Len(n)
        PROVE  PosOf(n[i]) + TreeCost[Height(n[i])] = IF i = Len(n) THEN End ELSE PosOf(n[i + 1])
    <3>1. i + 1 \in 1 .. Len(ids) /\ i \in 1 .. Len(ids) - 1 /\ (i = Len(n) <=> i + 1 = Len(ids))
      BY <1>1, <2>1
    <3>2. n[i] = ids[i + 1]
      BY <2>1, <3>1
    <3>3. i # Len(n) => n[i + 1] = ids[(i + 1) + 1]
      <4> SUFFICES ASSUME i # Len(n)
                   PROVE  n[i + 1] = ids[(i + 1) + 1]
        OBVIOUS
      <4>1. i + 1 \in 1 .. Len(ids) - 1
        BY <1>1, <2>1
      <4> QED
        BY <2>1, <4>1
    <3> QED
      BY <1>2, <3>1, <3>2, <3>3
  <2> HIDE DEF n
  <2>5. Walk(n, from + Own(Height(x)))
    BY <1>1, <2>3, <2>4 DEF Walk
  <2> QED
    BY <1>2, <2>5 DEF n
<1>6. CASE x.d # Logn
  <2> DEFINE l == Kid(x, 0)
             r == Kid(x, 1)
             h == Height(x) - 1
  <2>1. /\ x \in Inner /\ Len(n) = Len(ids) + 1 /\ n[1] = l /\ n[2] = r
        /\ \A i \in 3 .. Len(ids) + 1 : n[i] = ids[i - 1]
    BY <1>6, NextCallsAre
  <2>2. /\ PosOf(l) = PosOf(x) + Own(Height(x)) /\ PosOf(r) = PosOf(l) + TreeCost[h]
        /\ Height(l) = h /\ Height(r) = h
    <3>1. 0 \in {0, 1} /\ 1 \in {0, 1}
      OBVIOUS
    <3> QED
      BY <2>1, <3>1, KidsAre
  <2>3. TreeCost[Height(x)] = Own(Height(x)) + 2 * TreeCost[h] /\ TreeCost[h] \in Nat
    BY <2>1, InnerHeights, TreeCostIs
  <2> HIDE DEF l, r, h
  <2>4. PosOf(l) + TreeCost[Height(l)] = PosOf(r)
    BY <2>2
  <2>5. PosOf(r) + TreeCost[Height(r)] = IF 2 = Len(n) THEN End ELSE PosOf(n[3])
    <3>1. PosOf(r) + TreeCost[Height(r)] = PosOf(x) + TreeCost[Height(x)]
      BY <1>4, <2>2, <2>3
    <3>2. CASE Len(ids) = 1
      BY <1>3, <2>1, <3>1, <3>2
    <3>3. CASE Len(ids) # 1
      <4> DEFINE len == Len(ids)
      <4>3. len \in Nat /\ len >= 1 /\ len # 1
        BY <1>1, <3>3
      <4> HIDE DEF len
      <4>4. 3 \in 3 .. len + 1 /\ len + 1 # 2 /\ 3 - 1 = 2
        BY <4>3
      <4>1. 3 \in 3 .. Len(ids) + 1 /\ 3 - 1 = 2 /\ Len(ids) + 1 # 2
        BY <4>4 DEF len
      <4>2. n[3] = ids[2]
        BY <2>1, <4>1
      <4> QED
        BY <1>3, <2>1, <3>1, <3>3, <4>1, <4>2
    <3> QED
      BY <3>2, <3>3
  <2>6. ASSUME NEW i \in 1 .. Len(n)
        PROVE  PosOf(n[i]) + TreeCost[Height(n[i])] = IF i = Len(n) THEN End ELSE PosOf(n[i + 1])
    <3>1. CASE i = 1
      <4>1. 1 + 1 = 2 /\ 1 # Len(n)
        BY <1>1, <2>1
      <4> QED
        BY <2>1, <2>4, <3>1, <4>1
    <3>2. CASE i = 2
      <4>1. 2 + 1 = 3
        OBVIOUS
      <4> QED
        BY <2>1, <2>5, <3>2, <4>1
    <3>3. CASE i \in 3 .. Len(n)
      <4>1. i - 1 \in 1 .. Len(ids) /\ i \in 3 .. Len(ids) + 1 /\ (i = Len(n) <=> i - 1 = Len(ids))
        BY <1>1, <2>1, <3>3
      <4>2. n[i] = ids[i - 1]
        BY <2>1, <4>1
      <4>3. i # Len(n) => n[i + 1] = ids[(i - 1) + 1]
        <5> SUFFICES ASSUME i # Len(n)
                     PROVE  n[i + 1] = ids[(i - 1) + 1]
          OBVIOUS
        <5>1. i + 1 \in 3 .. Len(ids) + 1 /\ (i + 1) - 1 = (i - 1) + 1
          BY <1>1, <2>1, <3>3
        <5>2. n[i + 1] = ids[(i + 1) - 1]
          BY <2>1, <5>1
        <5> QED
          BY <5>1, <5>2
      <4> QED
        BY <1>2, <4>1, <4>2, <4>3
    <3>4. i = 1 \/ i = 2 \/ i \in 3 .. Len(n)
      OBVIOUS
    <3> QED
      BY <3>1, <3>2, <3>3, <3>4
  <2>7. from + Own(Height(x)) = IF n = << >> THEN End ELSE PosOf(n[1])
    <3>1. n # << >>
      BY <1>1, <2>1, EmptySeq
    <3> QED
      BY <1>2, <2>1, <2>2, <3>1
  <2> HIDE DEF n
  <2>8. Walk(n, from + Own(Height(x)))
    BY <1>1, <2>6, <2>7 DEF Walk
  <2> QED
    BY <1>2, <2>8 DEF n
<1> QED
  BY <1>5, <1>6

\* Above one of two children, or the node itself
LEMMA BelowKids ==
  ASSUME NEW x \in Inner, NEW y \in Ids, Above(x, y), x # y
  PROVE  Above(Kid(x, 0), y) \/ Above(Kid(x, 1), y)
<1> DEFINE m == y.d - (x.d + 1)
           q == y.k \div PowerOf2[m]
<1>1. x \in Ids /\ x.d \in Nat /\ y.d \in Nat /\ x.k \in Nat /\ y.k \in Nat /\ x.d <= y.d
      /\ y.k \div PowerOf2[y.d - x.d] = x.k
  BY IdsAre, RootPlaced DEF Inner, Above
<1>2. x.d # y.d
  BY <1>1, AboveParent
<1>3. m \in Nat /\ y.d - x.d = m + 1 /\ x.d + 1 <= y.d
  BY <1>1, <1>2
<1>4. PowerOf2[m] \in Nat /\ PowerOf2[m] > 0 /\ PowerOf2[m + 1] = 2 * PowerOf2[m]
  BY <1>3, PowersAre
<1> DEFINE p == PowerOf2[m]
           a == y.k
<1>5. a \in Nat /\ p \in Nat /\ p > 0
  BY <1>1, <1>4
<1>6. a \div (2 * p) = x.k /\ q = a \div p
  BY <1>1, <1>3, <1>4
<1> HIDE DEF p, a, q, m
<1> DEFINE r == a % p
           c == q \div 2
           b == q % 2
<1>7. q \in Nat /\ r \in 0 .. p - 1 /\ a = p * q + r
  BY <1>5, <1>6
<1>8. c \in Nat /\ b \in {0, 1} /\ q = 2 * c + b
  BY <1>7, Halved
<1> HIDE DEF r, c, b
<1>9. c = x.k
  <2>1. CASE b = 0
    <3>1. a = c * (2 * p) + r /\ r \in Nat /\ r < 2 * p /\ 2 * p \in Nat /\ 2 * p > 0
      BY <1>5, <1>7, <1>8, <2>1
    <3>2. (c * (2 * p) + r) \div (2 * p) = c
      BY <1>8, <3>1, DivModUnique
    <3> QED
      BY <1>6, <3>1, <3>2
  <2>2. CASE b = 1
    <3>1. a = c * (2 * p) + (p + r) /\ p + r \in Nat /\ p + r < 2 * p /\ 2 * p \in Nat /\ 2 * p > 0
      BY <1>5, <1>7, <1>8, <2>2
    <3>2. (c * (2 * p) + (p + r)) \div (2 * p) = c
      BY <1>8, <3>1, DivModUnique
    <3> QED
      BY <1>6, <3>1, <3>2
  <2> QED
    BY <1>8, <2>1, <2>2
<1>10. /\ Kid(x, 0).d = x.d + 1 /\ Kid(x, 0).k = 2 * x.k
       /\ Kid(x, 1).d = x.d + 1 /\ Kid(x, 1).k = 2 * x.k + 1
  BY <1>1 DEF Kid
<1>11. y.k \div PowerOf2[y.d - (x.d + 1)] = q
  BY DEF q, m
<1>12. CASE b = 0
  BY <1>3, <1>8, <1>9, <1>10, <1>11, <1>12 DEF Above
<1>13. CASE b = 1
  BY <1>3, <1>8, <1>9, <1>10, <1>11, <1>13 DEF Above
<1> QED
  BY <1>8, <1>12, <1>13

\* All nodes to come but that of the first call are below those of the calls then
LEMMA StillToDo ==
  ASSUME NEW ids \in Seq(Ids), ids # << >>, NEW y \in Ids, ToDo(ids, y)
  PROVE  y = ids[1] \/ ToDo(NextCalls(ids), y)
<1> DEFINE n == NextCalls(ids)
           x == ids[1]
<1>1. PICK i \in 1 .. Len(ids) : Above(ids[i], y)
  BY DEF ToDo
<1>2. Len(ids) \in Nat /\ Len(ids) >= 1 /\ x \in Ids
  BY NextCallsAre
<1>3. CASE x.d = Logn
  <2>1. Len(n) = Len(ids) - 1 /\ \A j \in 1 .. Len(ids) - 1 : n[j] = ids[j + 1]
    BY <1>3, NextCallsAre
  <2>2. CASE i = 1
    <3>1. x.d = y.d
      <4>1. x.d <= y.d /\ y.d \in 0 .. Logn
        BY <1>1, <2>2, IdsAre DEF Above
      <4> QED
        BY <1>3, <4>1, RootPlaced
    <3> QED
      BY <1>1, <1>2, <2>2, <3>1, AboveParent
  <2>3. CASE i # 1
    <3>1. i - 1 \in 1 .. Len(ids) - 1 /\ (i - 1) + 1 = i
      BY <1>2, <2>3
    <3>2. n[i - 1] = ids[i] /\ i - 1 \in 1 .. Len(n)
      BY <2>1, <3>1
    <3> QED
      BY <1>1, <3>2 DEF ToDo
  <2> QED
    BY <2>2, <2>3
<1>4. CASE x.d # Logn
  <2>1. /\ x \in Inner /\ Len(n) = Len(ids) + 1 /\ n[1] = Kid(x, 0) /\ n[2] = Kid(x, 1)
        /\ \A j \in 3 .. Len(ids) + 1 : n[j] = ids[j - 1]
    BY <1>4, NextCallsAre
  <2>2. CASE i = 1 /\ x # y
    <3>1. Above(Kid(x, 0), y) \/ Above(Kid(x, 1), y)
      BY <1>1, <2>1, <2>2, BelowKids
    <3>2. 1 \in 1 .. Len(n) /\ 2 \in 1 .. Len(n)
      BY <1>2, <2>1
    <3> HIDE DEF n
    <3>3. ToDo(n, y)
      BY <2>1, <3>1, <3>2 DEF ToDo
    <3> QED
      BY <3>3 DEF n
  <2>3. CASE i # 1
    <3>1. i + 1 \in 3 .. Len(ids) + 1 /\ (i + 1) - 1 = i /\ i + 1 \in 1 .. Len(n)
      BY <1>2, <2>1, <2>3
    <3>2. n[i + 1] = ids[i]
      BY <2>1, <3>1
    <3> QED
      BY <1>1, <3>1, <3>2 DEF ToDo
  <2> QED
    BY <2>2, <2>3
<1> QED
  BY <1>3, <1>4
-----------------------------------------------------------------------------
(* Alice *)

LEMMA CallsBegin ==
  /\ <<RootId>> \in Seq(Ids) /\ Len(<<RootId>>) = 1 /\ <<RootId>>[1] = RootId
  /\ Walk(<<RootId>>, Before)
  /\ \A x \in Ids : ToDo(<<RootId>>, x)
<1>1. <<RootId>> \in Seq(Ids) /\ Len(<<RootId>>) = 1 /\ <<RootId>>[1] = RootId /\ <<RootId>> # << >>
  BY RootIs
<1> DEFINE ids == <<RootId>>
<1> HIDE DEF ids
<1>2. ids \in Seq(Ids) /\ Len(ids) = 1 /\ ids[1] = RootId /\ ids # << >>
  BY <1>1 DEF ids
<1>3. PosOf(RootId) + TreeCost[Height(RootId)] = End /\ PosOf(RootId) = Before
  BY RootIs DEF End
<1>4. Walk(ids, Before)
  BY <1>2, <1>3 DEF Walk
<1>5. \A x \in Ids : ToDo(ids, x)
  BY <1>2, RootIs DEF ToDo
<1> QED
  BY <1>1, <1>4, <1>5 DEF ids

LEMMA AliceInit ==
  ASSUME Init
  PROVE  AliceInv(<<RootId>>)
<1>1. gPending = <<Call(Root, RootLanguages)>> /\ gcost = Before /\ gcode = << >> /\ gtimer = 0
  BY DEF Init
<1>2. gPending = [i \in 1 .. Len(<<RootId>>) |-> GCall(<<RootId>>[i])]
  <2>1. GCall(RootId) = Call(Root, RootLanguages)
    BY RootIs DEF GCall
  <2> DEFINE call == Call(Root, RootLanguages)
             ids == <<RootId>>
             g == [i \in 1 .. Len(ids) |-> GCall(ids[i])]
  <2>2. Len(ids) = 1 /\ ids[1] = RootId
    BY CallsBegin
  <2> HIDE DEF call, ids
  <2>3. g = [i \in 1 .. 1 |-> GCall(ids[i])]
    BY <2>2
  <2>4. \A i \in 1 .. 1 : GCall(ids[i]) = call
    BY <2>1, <2>2 DEF call
  <2>5. g = [i \in 1 .. 1 |-> call]
    BY <2>3, <2>4
  <2>6. <<call>> = [i \in 1 .. 1 |-> call]
    OBVIOUS
  <2> QED
    BY <1>1, <2>5, <2>6 DEF call, ids
<1>3. Before \in Nat /\ N \in Nat /\ Before - 0 = Before
  BY RootPlaced
<1>4. DOMAIN gcode = {}
  BY <1>1
<1>5. \A i \in 0 .. gtimer - 1 : FALSE
  BY <1>1
<1> QED
  BY <1>1, <1>2, <1>3, <1>4, <1>5, CallsBegin DEF AliceInv

\* What is written is added, where nothing was
LEMMA WrittenIs ==
  ASSUME NEW code, NEW more
  PROVE  /\ DOMAIN Written(code, more) = DOMAIN code \cup DOMAIN more
         /\ \A p \in DOMAIN code : Written(code, more)[p] = code[p]
         /\ \A p \in DOMAIN more : p \notin DOMAIN code => Written(code, more)[p] = more[p]
  BY DEF Written

LEMMA LeafIs ==
  ASSUME NEW x \in Ids
  PROVE  /\ IsLeaf(NodeOf(x)) <=> x.d = Logn
         /\ x \in Inner <=> x.d # Logn
<1>1. CASE x.d = Logn
  <2>0. x \notin Inner
    BY <1>1, RootPlaced DEF Inner
  <2>1. Height(x) = 0
    BY <1>1, RootPlaced DEF Height
  <2>2. Size(x) = 1
    BY <2>1, PowerOf2Is DEF Size
  <2> QED
    BY <1>1, <2>0, <2>2, NodeIs DEF IsLeaf
<1>2. CASE x.d # Logn
  <2>1. x \in Inner
    <3>1. x.d \in 0 .. Logn /\ Logn \in Nat
      BY IdsAre, RootPlaced
    <3>2. x.d < Logn
      BY <1>2, <3>1
    <3> QED
      BY <3>2 DEF Inner
  <2> QED
    BY <1>2, <2>1, KidsAre DEF IsLeaf
<1> QED
  BY <1>1, <1>2

LEMMA WholeCall ==
  ASSUME NEW x \in Ids, NEW ids \in Seq(Ids), ids # << >>, x = ids[1],
         gPending = [i \in 1 .. Len(ids) |-> GCall(ids[i])]
  PROVE  /\ Head(gPending) = GCall(x)
         /\ GCall(x).node = NodeOf(x) /\ GCall(x).langs = LangsOf(x)
         /\ IsLeaf(NodeOf(x)) <=> x.d = Logn
         /\ Calls(NodeOf(x), Call(Left(NodeOf(x)), Languages(NodeOf(x).st, NodeOf(x).size \div 2)),
                             Call(Right(NodeOf(x)), Languages(NodeOf(x).st + 1, NodeOf(x).size \div 2)))
              \o Tail(gPending) = [i \in 1 .. Len(NextCalls(ids)) |-> GCall(NextCalls(ids)[i])]
<1> DEFINE V == {GCall(z) : z \in Ids}
           f == [z \in Ids |-> GCall(z)]
           v == NodeOf(x)
<1>1. f \in [Ids -> V]
  OBVIOUS
<1>2. gPending = Image(f, ids)
  <2>1. \A i \in 1 .. Len(ids) : f[ids[i]] = GCall(ids[i])
    BY ElementOfSeq
  <2> HIDE DEF f
  <2> QED
    BY <2>1 DEF Image
<1>3. Image(f, NextCalls(ids)) = [i \in 1 .. Len(NextCalls(ids)) |-> GCall(NextCalls(ids)[i])]
  <2>1. NextCalls(ids) \in Seq(Ids)
    BY NextCallsAre
  <2>2. \A i \in 1 .. Len(NextCalls(ids)) : f[NextCalls(ids)[i]] = GCall(NextCalls(ids)[i])
    BY <2>1, ElementOfSeq
  <2> HIDE DEF f
  <2> QED
    BY <2>2 DEF Image
<1>4. f[x] = GCall(x)
  OBVIOUS
<1> HIDE DEF V
<1>5. /\ Head(Image(f, ids)) = f[ids[1]]
      /\ ids[1].d = Logn => << >> \o Tail(Image(f, ids)) = Image(f, NextCalls(ids))
      /\ ids[1].d # Logn =>
           <<f[Kid(ids[1], 0)], f[Kid(ids[1], 1)]>> \o Tail(Image(f, ids)) = Image(f, NextCalls(ids))
  <2> HIDE DEF f
  <2> QED
    BY <1>1, NextImage
<1>6. GCall(x).node = v /\ GCall(x).langs = LangsOf(x)
  BY DEF GCall, Call
<1>7. IsLeaf(v) <=> x.d = Logn
  BY LeafIs
<1> DEFINE l == Call(Left(v), Languages(v.st, v.size \div 2))
           r == Call(Right(v), Languages(v.st + 1, v.size \div 2))
<1>8. x.d # Logn => f[Kid(x, 0)] = l /\ f[Kid(x, 1)] = r
  <2> SUFFICES ASSUME x.d # Logn
               PROVE  f[Kid(x, 0)] = l /\ f[Kid(x, 1)] = r
    OBVIOUS
  <2>1. x \in Inner
    BY NextCallsAre
  <2>2. f[Kid(x, 0)] = GCall(Kid(x, 0)) /\ f[Kid(x, 1)] = GCall(Kid(x, 1))
    BY <2>1, InKids
  <2> HIDE DEF f
  <2>3. GCall(Kid(x, 0)) = l /\ GCall(Kid(x, 1)) = r
    BY <2>1, KidsAre DEF GCall
  <2> QED
    BY <2>2, <2>3
<1> HIDE DEF f, l, r
<1>9. Calls(v, l, r) \o Tail(gPending) = Image(f, NextCalls(ids))
  <2>1. CASE x.d = Logn
    <3>1. Calls(v, l, r) = << >>
      BY <1>7, <2>1 DEF Calls
    <3> QED
      BY <1>2, <1>5, <2>1, <3>1
  <2>2. CASE x.d # Logn
    <3>1. Calls(v, l, r) = <<l, r>>
      BY <1>7, <2>2 DEF Calls
    <3> QED
      BY <1>2, <1>5, <1>8, <2>2, <3>1
  <2> QED
    BY <2>1, <2>2
<1> QED
  BY <1>2, <1>3, <1>4, <1>5, <1>6, <1>7, <1>9 DEF l, r

LEMMA SetupGStep ==
  ASSUME NEW ids \in Seq(Ids), AliceInv(ids), SetupG
  PROVE  AliceInv(NextCalls(ids))'
<1> DEFINE x == ids[1]
           v == NodeOf(x)
           langs == LangsOf(x)
           uses == 0 .. (v.size - 1)
           place(i) == gcost + CostUntil(v.size, i)
           which(p) == CHOOSE j \in uses : place(j) = p
           more == [p \in {place(i) : i \in uses} |-> Material(v, which(p), {langs[which(p) + 1]})]
           n == NextCalls(ids)
<1>1. gPending # << >> /\ gPending = [i \in 1 .. Len(ids) |-> GCall(ids[i])]
  BY DEF SetupG, AliceInv
<1>2. ids # << >>
  <2>1. ASSUME ids = << >> PROVE FALSE
    <3>1. Len(ids) = 0
      BY <2>1
    <3>2. gPending = [i \in 1 .. 0 |-> GCall(ids[i])]
      BY <1>1, <3>1
    <3> HIDE DEF x
    <3>3. gPending = << >>
      BY <3>2
    <3> QED
      BY <1>1, <3>3
  <2> QED
    BY <2>1
<1>3. x \in Ids /\ n \in Seq(Ids)
  BY <1>2, NextCallsAre
<1>4. /\ Head(gPending) = GCall(x) /\ GCall(x).node = v /\ GCall(x).langs = langs
      /\ Calls(v, Call(Left(v), Languages(v.st, v.size \div 2)),
                  Call(Right(v), Languages(v.st + 1, v.size \div 2)))
           \o Tail(gPending) = [i \in 1 .. Len(n) |-> GCall(n[i])]
  BY <1>1, <1>2, <1>3, WholeCall
<1>5. /\ gcode' = Written(gcode, more)
      /\ gcost' = place(v.size)
      /\ gPending' = [i \in 1 .. Len(n) |-> GCall(n[i])]
      /\ gtimer' = gtimer
  <2>1. Head(gPending).node = v /\ Head(gPending).langs = langs
    BY <1>4
  <2>2. PICK u : u = v
    OBVIOUS
  <2>3. PICK w : w = langs
    OBVIOUS
  <2>4. PICK call : call = Head(gPending)
    OBVIOUS
  <2>5. call.node = u /\ call.langs = w
    BY <2>1, <2>2, <2>3, <2>4
  <2>6. gtimer' = gtimer
    BY DEF SetupG
  <2> DEFINE SetUp(y, l) ==
               /\ gcode' = Written(gcode, [p \in {gcost + CostUntil(y.size, i) : i \in 0 .. (y.size - 1)} |->
                      Material(y, CHOOSE j \in 0 .. (y.size - 1) : gcost + CostUntil(y.size, j) = p,
                               {l[(CHOOSE j \in 0 .. (y.size - 1) : gcost + CostUntil(y.size, j) = p) + 1]})])
               /\ gcost' = gcost + CostUntil(y.size, y.size)
               /\ gPending' = Calls(y, Call(Left(y), Languages(y.st, y.size \div 2)),
                                       Call(Right(y), Languages(y.st + 1, y.size \div 2)))
                              \o Tail(gPending)
  <2>7. SetUp(Head(gPending).node, Head(gPending).langs)
    BY DEF SetupG
  <2> HIDE DEF SetUp
  <2>8. SetUp(u, w)
    BY <2>4, <2>5, <2>7
  <2>9. SetUp(v, langs)
    BY <2>2, <2>3, <2>8
  <2> QED
    BY <1>4, <2>6, <2>9 DEF SetUp
<1>6. /\ gtimer = 0 /\ gcost \in Nat /\ gcost = PosOf(x) /\ N \in Nat
      /\ Walk(n, gcost + Own(Height(x)))
  <2>1. gtimer = 0 /\ gcost \in Nat /\ Walk(ids, gcost - gtimer)
    BY <1>2 DEF AliceInv
  <2>2. gcost - gtimer = gcost
    BY <2>1
  <2>3. Walk(ids, gcost)
    BY <2>1, <2>2
  <2> QED
    BY <1>2, <2>1, <2>3, WalkStep, RootPlaced
<1>7. v.size = Size(x) /\ Size(x) = PowerOf2[Height(x)] /\ Size(x) \in Nat \ {0} /\ Height(x) \in Nat
  BY <1>3, NodeIs, IdsAre DEF Size
<1>8. /\ \A i \in Nat : CostUntil(v.size, i) \in Nat
      /\ \A i, j \in Nat : i < j => CostUntil(v.size, i) < CostUntil(v.size, j)
  BY <1>7, CostIs, CostGrows
<1>9. gcost' = gcost + Own(Height(x)) /\ gcost' \in Nat /\ gcost' - gtimer' = gcost + Own(Height(x))
  <2>1. gcost' = gcost + Own(Height(x))
    BY <1>5, <1>7 DEF Own
  <2>2. Own(Height(x)) \in Nat
    BY <1>7, OwnIs
  <2> QED
    BY <1>5, <1>6, <2>1, <2>2
<1>10. /\ DOMAIN gcode' = DOMAIN gcode \cup {place(i) : i \in uses}
       /\ \A p \in DOMAIN gcode : gcode'[p] = gcode[p]
       /\ \A p \in {place(i) : i \in uses} : p \notin DOMAIN gcode =>
             gcode'[p] = Material(v, which(p), {langs[which(p) + 1]})
  <2>1. DOMAIN more = {place(i) : i \in uses}
    OBVIOUS
  <2>2. \A p \in DOMAIN more : more[p] = Material(v, which(p), {langs[which(p) + 1]})
    OBVIOUS
  <2> DEFINE places == {place(i) : i \in uses}
             what(p) == Material(v, which(p), {langs[which(p) + 1]})
  <2>3. DOMAIN more = places /\ \A p \in places : more[p] = what(p)
    BY <2>1, <2>2
  <2>4. gcode' = Written(gcode, more)
    BY <1>5
  <2>5. /\ DOMAIN Written(gcode, more) = DOMAIN gcode \cup DOMAIN more
        /\ \A p \in DOMAIN gcode : Written(gcode, more)[p] = gcode[p]
        /\ \A p \in DOMAIN more : p \notin DOMAIN gcode => Written(gcode, more)[p] = more[p]
    <3> HIDE DEF more
    <3> QED
      BY WrittenIs, Zenon
  <2> HIDE DEF places, what, more
  <2>6. /\ DOMAIN gcode' = DOMAIN gcode \cup places
        /\ \A p \in DOMAIN gcode : gcode'[p] = gcode[p]
        /\ \A p \in places : p \notin DOMAIN gcode => gcode'[p] = what(p)
    BY <2>3, <2>4, <2>5, Zenon
  <2> QED
    BY <2>6 DEF places, what
<1> HIDE DEF more, v, langs, n, x
<1>11. \A i \in uses : i \in Nat /\ i < v.size /\ place(i) \in Nat /\ place(i) >= gcost
                      /\ place(i) < gcost' /\ place(i) \notin DOMAIN gcode
  <2> SUFFICES ASSUME NEW i \in uses
               PROVE  i \in Nat /\ i < v.size /\ place(i) \in Nat /\ place(i) >= gcost
                      /\ place(i) < gcost' /\ place(i) \notin DOMAIN gcode
    OBVIOUS
  <2>1. i \in Nat /\ i < v.size /\ v.size \in Nat
    BY <1>7
  <2>2. CostUntil(v.size, i) \in Nat /\ CostUntil(v.size, v.size) \in Nat
        /\ CostUntil(v.size, i) < CostUntil(v.size, v.size)
    BY <1>8, <2>1
  <2>3. place(i) \in Nat /\ place(i) >= gcost /\ place(i) < gcost'
    BY <1>5, <1>6, <2>2
  <2>4. \A p \in DOMAIN gcode : p \in Nat /\ p < gcost
    BY DEF AliceInv
  <2> HIDE DEF place
  <2> QED
    BY <1>6, <2>1, <2>3, <2>4
<1>12. \A i \in uses : which(place(i)) = i
  <2> SUFFICES ASSUME NEW i \in uses
               PROVE  which(place(i)) = i
    OBVIOUS
  <2>1. ASSUME NEW j \in uses, place(j) = place(i)
        PROVE  j = i
    <3>1. i \in Nat /\ j \in Nat
      BY <1>11
    <3>2. CostUntil(v.size, i) \in Nat /\ CostUntil(v.size, j) \in Nat
          /\ (i < j => CostUntil(v.size, i) < CostUntil(v.size, j))
          /\ (j < i => CostUntil(v.size, j) < CostUntil(v.size, i))
      BY <1>8, <3>1
    <3>3. CostUntil(v.size, i) = CostUntil(v.size, j)
      BY <1>6, <2>1, <3>2
    <3> QED
      BY <3>1, <3>2, <3>3
  <2> HIDE DEF place, uses
  <2>2. which(place(i)) \in uses /\ place(which(place(i))) = place(i)
    OBVIOUS
  <2> HIDE DEF which
  <2> QED
    BY <2>1, <2>2
<1>13. \A i \in uses : place(i) \in DOMAIN gcode' /\ gcode'[place(i)] = Material(v, i, {langs[i + 1]})
  <2> SUFFICES ASSUME NEW i \in uses
               PROVE  place(i) \in DOMAIN gcode' /\ gcode'[place(i)] = Material(v, i, {langs[i + 1]})
    OBVIOUS
  <2> HIDE DEF which, place, uses
  <2>1. place(i) \in {place(j) : j \in uses}
    OBVIOUS
  <2>2. gcode'[place(i)] = Material(v, which(place(i)), {langs[which(place(i)) + 1]})
    BY <1>10, <1>11, <2>1
  <2> QED
    BY <1>10, <1>12, <2>1, <2>2
<1>14. \A p \in DOMAIN gcode' : p \in Nat /\ p < gcost'
  <2> SUFFICES ASSUME NEW p \in DOMAIN gcode'
               PROVE  p \in Nat /\ p < gcost'
    OBVIOUS
  <2>1. CASE p \in DOMAIN gcode
    <3>1. p \in Nat /\ p < gcost
      BY <2>1 DEF AliceInv
    <3>2. Own(Height(x)) \in Nat
      BY <1>7, OwnIs
    <3> QED
      BY <1>6, <1>9, <3>1, <3>2
  <2>2. CASE p \in {place(i) : i \in uses}
    BY <1>11, <2>2
  <2> QED
    BY <1>10, <2>1, <2>2
<1>15. ASSUME NEW y \in Ids, ~ToDo(n, y), NEW i \in Uses(y)
       PROVE  LeftFor(y, i)'
  <2>1. CASE y = x
    <3>1. i \in uses
      BY <1>7, <2>1 DEF Uses
    <3>2. At(y, i) = place(i)
      BY <1>6, <1>7, <2>1 DEF At
    <3> HIDE DEF place, uses
    <3>3. At(y, i) \in DOMAIN gcode' /\ gcode'[At(y, i)] = Material(v, i, {langs[i + 1]})
      BY <1>13, <3>1, <3>2
    <3> QED
      BY <2>1, <3>3 DEF LeftFor, v, langs
  <2>2. CASE y # x
    <3>1. ~ToDo(ids, y)
      BY <1>2, <1>15, <2>2, StillToDo DEF n, x
    <3>2. LeftFor(y, i)
      BY <3>1 DEF AliceInv
    <3> QED
      BY <1>10, <3>2 DEF LeftFor
  <2> QED
    BY <2>1, <2>2
<1>16. \A i \in 0 .. gtimer' - 1 : FALSE
  BY <1>5, <1>6
<1>17. gtimer' = 0 /\ gtimer' \in 0 .. N
  BY <1>5, <1>6
<1>18. Walk(n, gcost' - gtimer')
  BY <1>6, <1>9
<1>19. AliceInv(n)'
  BY <1>5, <1>9, <1>14, <1>15, <1>16, <1>17, <1>18 DEF AliceInv
<1> QED
  BY <1>19 DEF n

LEMMA AccessGStep ==
  ASSUME NEW ids \in Seq(Ids), AliceInv(ids), AccessG
  PROVE  AliceInv(ids)'
<1>1. /\ gPending = << >> /\ gtimer < N /\ gPending' = gPending
      /\ gcode' = Written(gcode, [p \in {gcost} |-> Opening(gtimer)])
      /\ gcost' = gcost + 1 /\ gtimer' = gtimer + 1
  BY DEF AccessG, OpenCost
<1>2. ids = << >>
  <2>1. gPending = [i \in 1 .. Len(ids) |-> GCall(ids[i])]
    BY DEF AliceInv
  <2>2. DOMAIN gPending = 1 .. Len(ids) /\ DOMAIN gPending = {}
    BY <1>1, <2>1
  <2>3. Len(ids) \in Nat
    BY LenProperties
  <2>4. Len(ids) = 0
    <3>1. ASSUME Len(ids) # 0
          PROVE  FALSE
      <4>1. 1 \in 1 .. Len(ids)
        BY <2>3, <3>1
      <4>2. 1 \in {}
        BY <2>2, <4>1, Zenon
      <4> QED
        BY <4>2
    <3> QED
      BY <3>1
  <2> QED
    BY <2>4, EmptySeq
<1>3. gtimer \in Nat /\ gcost \in Nat /\ N \in Nat /\ gtimer \in 0 .. N
  BY RootPlaced DEF AliceInv
<1>4. gcost - gtimer = End /\ gcost = End + gtimer /\ End \in Nat
  <2>1. gcost - gtimer = End
    BY <1>2 DEF AliceInv, Walk
  <2>2. End \in Nat
    BY RootIs, PosIs
  <2> QED
    BY <1>3, <2>1, <2>2
<1>5. gcost' - gtimer' = gcost - gtimer /\ gtimer' \in 0 .. N /\ gcost' \in Nat
  BY <1>1, <1>3
<1> DEFINE more == [p \in {gcost} |-> Opening(gtimer)]
<1>6. \A p \in DOMAIN gcode : p \in Nat /\ p < gcost
  BY DEF AliceInv
<1>7. /\ DOMAIN gcode' = DOMAIN gcode \cup {gcost}
      /\ \A p \in DOMAIN gcode : gcode'[p] = gcode[p]
      /\ gcode'[gcost] = Opening(gtimer)
  <2>1. DOMAIN more = {gcost} /\ more[gcost] = Opening(gtimer) /\ gcode' = Written(gcode, more)
    BY <1>1
  <2>2. gcost \notin DOMAIN gcode
    BY <1>3, <1>6
  <2> HIDE DEF more
  <2>3. /\ DOMAIN Written(gcode, more) = DOMAIN gcode \cup DOMAIN more
        /\ \A p \in DOMAIN gcode : Written(gcode, more)[p] = gcode[p]
        /\ \A p \in DOMAIN more : p \notin DOMAIN gcode => Written(gcode, more)[p] = more[p]
    BY WrittenIs, Zenon
  <2>4. gcost \in DOMAIN more
    BY <2>1
  <2>5. Written(gcode, more)[gcost] = more[gcost]
    BY <2>2, <2>3, <2>4, Zenon
  <2>6. DOMAIN gcode' = DOMAIN gcode \cup {gcost}
    BY <2>1, <2>3, Zenon
  <2>7. \A p \in DOMAIN gcode : gcode'[p] = gcode[p]
    BY <2>1, <2>3, Zenon
  <2>8. gcode'[gcost] = Opening(gtimer)
    BY <2>1, <2>5, Zenon
  <2> QED
    BY <2>6, <2>7, <2>8
<1>8. \A p \in DOMAIN gcode' : p \in Nat /\ p < gcost'
  BY <1>1, <1>3, <1>6, <1>7
<1>9. ASSUME NEW x \in Ids, ~ToDo(ids, x), NEW i \in Uses(x)
      PROVE  LeftFor(x, i)'
  <2>1. LeftFor(x, i)
    BY <1>9 DEF AliceInv
  <2> QED
    BY <1>7, <2>1 DEF LeftFor
<1>10. ASSUME NEW i \in 0 .. gtimer' - 1
       PROVE  End + i \in DOMAIN gcode' /\ gcode'[End + i] = Opening(i)
  <2>1. CASE i = gtimer
    BY <1>4, <1>7, <2>1
  <2>2. CASE i # gtimer
    <3>1. i \in 0 .. gtimer - 1
      BY <1>1, <1>3, <2>2
    <3>2. End + i \in DOMAIN gcode /\ gcode[End + i] = Opening(i)
      BY <3>1 DEF AliceInv
    <3> QED
      BY <1>7, <3>2
  <2> QED
    BY <2>1, <2>2
<1>11. Walk(ids, gcost' - gtimer')
  BY <1>5 DEF AliceInv
<1>12. gPending' = [i \in 1 .. Len(ids) |-> GCall(ids[i])]
  BY <1>1 DEF AliceInv
<1> QED
  BY <1>2, <1>5, <1>8, <1>9, <1>10, <1>11, <1>12 DEF AliceInv

LEMMA AliceRests ==
  ASSUME NEW ids, AliceInv(ids), UNCHANGED alice
  PROVE  AliceInv(ids)'
<1>1. gPending' = gPending /\ gcost' = gcost /\ gcode' = gcode /\ gtimer' = gtimer
  BY DEF alice
<1>2. \A x, i : LeftFor(x, i)' <=> LeftFor(x, i)
  BY <1>1 DEF LeftFor
<1> QED
  BY <1>1, <1>2 DEF AliceInv
-----------------------------------------------------------------------------
(* Bob's set-up *)

\* How often the nodes were used depends on where Bob is and was
LEMMA UsesKept ==
  ASSUME used' = used, at' = at
  PROVE  /\ \A d : Past(d)' = Past(d)
         /\ \A x : Used(x)' = Used(x) /\ Handed(x)' = Handed(x)
         /\ \A place, x, y : StackFor(place, x, y)' = StackFor(place, x, y)
<1>1. \A d : Past(d)' = Past(d)
  BY DEF Past, Busy, Depth
<1>2. \A x : Used(x)' = Used(x) /\ Handed(x)' = Handed(x)
  BY <1>1 DEF Used, Handed
<1>3. \A place, x, y : StackFor(place, x, y)' = StackFor(place, x, y)
  BY <1>2 DEF StackFor
<1> QED
  BY <1>1, <1>2, <1>3

\* Before the first access nothing was used
LEMMA Unused ==
  ASSUME used = {}
  PROVE  /\ \A d : Past(d) = {}
         /\ \A x : Used(x) = 0 /\ Handed(x) = 0
         /\ \A x \in Inner, b \in {0, 1}, place \in Int :
               StackFor(place, x, Kid(x, b)) = NewStack(place, NodeOf(x).size \div 2)
<1>1. \A d : Past(d) = {}
  BY DEF Past
<1>2. \A x : Used(x) = 0 /\ Handed(x) = 0
  BY <1>1, FS_EmptySet DEF Used, Handed
<1>3. ASSUME NEW x \in Inner, NEW b \in {0, 1}, NEW place \in Int
      PROVE  StackFor(place, x, Kid(x, b)) = NewStack(place, NodeOf(x).size \div 2)
  <2>1. PICK words : words = NodeOf(x).size \div 2
    OBVIOUS
  <2>2. Size(Kid(x, b)) = words /\ words \in Nat
    BY <2>1, KidsAre, IdsAre
  <2>3. StackFor(place, x, Kid(x, b)) =
          [words |-> words, timer |-> 0, content |-> [i \in 1 .. words - 0 |-> <<place, 0 + i>>]]
    BY <1>2, <2>2 DEF StackFor, StackAfter
  <2>4. [i \in 1 .. words - 0 |-> <<place, 0 + i>>] = [i \in 1 .. words |-> <<place, i>>]
    <3>1. words - 0 = words
      BY <2>2
    <3>2. \A i \in 1 .. words : 0 + i = i
      BY <2>2
    <3> QED
      BY <3>1, <3>2
  <2> QED
    BY <2>1, <2>3, <2>4 DEF NewStack, Languages
<1> QED
  BY <1>1, <1>2, <1>3

LEMMA WholeNode ==
  ASSUME NEW ids \in Seq(Ids), ids # << >>, NEW x, x = ids[1],
         NEW pending, pending = [i \in 1 .. Len(ids) |-> NodeOf(ids[i])]
  PROVE  /\ Head(pending) = NodeOf(x)
         /\ Calls(NodeOf(x), Left(NodeOf(x)), Right(NodeOf(x))) \o Tail(pending) =
              [i \in 1 .. Len(NextCalls(ids)) |-> NodeOf(NextCalls(ids)[i])]
<1> DEFINE V == {NodeOf(z) : z \in Ids}
           f == [z \in Ids |-> NodeOf(z)]
           v == NodeOf(x)
<1>0. x \in Ids
  BY NextCallsAre
<1>1. f \in [Ids -> V]
  OBVIOUS
<1>2. pending = Image(f, ids)
  <2>1. \A i \in 1 .. Len(ids) : f[ids[i]] = NodeOf(ids[i])
    BY ElementOfSeq
  <2> HIDE DEF f
  <2> QED
    BY <2>1 DEF Image
<1>3. Image(f, NextCalls(ids)) = [i \in 1 .. Len(NextCalls(ids)) |-> NodeOf(NextCalls(ids)[i])]
  <2>1. NextCalls(ids) \in Seq(Ids)
    BY NextCallsAre
  <2>2. \A i \in 1 .. Len(NextCalls(ids)) : f[NextCalls(ids)[i]] = NodeOf(NextCalls(ids)[i])
    BY <2>1, ElementOfSeq
  <2> HIDE DEF f
  <2> QED
    BY <2>2 DEF Image
<1>4. f[x] = v
  BY <1>0
<1> HIDE DEF V
<1>5. /\ Head(Image(f, ids)) = f[ids[1]]
      /\ ids[1].d = Logn => << >> \o Tail(Image(f, ids)) = Image(f, NextCalls(ids))
      /\ ids[1].d # Logn =>
           <<f[Kid(ids[1], 0)], f[Kid(ids[1], 1)]>> \o Tail(Image(f, ids)) = Image(f, NextCalls(ids))
  <2> HIDE DEF f
  <2> QED
    BY <1>1, NextImage
<1>7. IsLeaf(v) <=> x.d = Logn
  BY <1>0, LeafIs
<1> DEFINE l == Left(v)
           r == Right(v)
<1>8. x.d # Logn => f[Kid(x, 0)] = l /\ f[Kid(x, 1)] = r
  <2> SUFFICES ASSUME x.d # Logn
               PROVE  f[Kid(x, 0)] = l /\ f[Kid(x, 1)] = r
    OBVIOUS
  <2>1. x \in Inner
    BY NextCallsAre
  <2>2. f[Kid(x, 0)] = NodeOf(Kid(x, 0)) /\ f[Kid(x, 1)] = NodeOf(Kid(x, 1))
    BY <2>1, InKids
  <2> HIDE DEF f
  <2> QED
    BY <2>1, <2>2, KidsAre
<1> HIDE DEF f, l, r
<1>9. Calls(v, l, r) \o Tail(pending) = Image(f, NextCalls(ids))
  <2>1. CASE x.d = Logn
    <3>1. Calls(v, l, r) = << >>
      BY <1>7, <2>1 DEF Calls
    <3> QED
      BY <1>2, <1>5, <2>1, <3>1
  <2>2. CASE x.d # Logn
    <3>1. Calls(v, l, r) = <<l, r>>
      BY <1>7, <2>2 DEF Calls
    <3> QED
      BY <1>2, <1>5, <1>8, <2>2, <3>1
  <2> QED
    BY <2>1, <2>2
<1> QED
  BY <1>2, <1>3, <1>4, <1>5, <1>9 DEF l, r

LEMMA BobInit ==
  ASSUME Init
  PROVE  BobInv(<<RootId>>, <<RootId>>)
<1>1. /\ ePending = <<Root>> /\ sPending = <<Root>> /\ scost = Before
      /\ DOMAIN stacks = 0 .. 2 * N - 3 /\ DOMAIN resource_positions = 0 .. 2 * N - 2
      /\ timer = 0 /\ at = << >> /\ used = {}
  BY DEF Init
<1> DEFINE ids == <<RootId>>
<1>2. <<Root>> = [i \in 1 .. Len(ids) |-> NodeOf(ids[i])]
  <2> DEFINE g == [i \in 1 .. Len(ids) |-> NodeOf(ids[i])]
             node == Root
  <2>1. Len(ids) = 1 /\ ids[1] = RootId /\ NodeOf(RootId) = node
    BY CallsBegin, RootIs
  <2> HIDE DEF node, ids
  <2>2. g = [i \in 1 .. 1 |-> NodeOf(ids[i])]
    BY <2>1
  <2>3. \A i \in 1 .. 1 : NodeOf(ids[i]) = node
    BY <2>1
  <2>4. g = [i \in 1 .. 1 |-> node]
    BY <2>2, <2>3
  <2>5. <<node>> = [i \in 1 .. 1 |-> node]
    OBVIOUS
  <2> QED
    BY <2>4, <2>5 DEF node
<1>3. ids \in Seq(Ids) /\ Walk(ids, Before) /\ (\A x \in Ids : ToDo(ids, x)) /\ ids # << >>
  BY CallsBegin
<1> HIDE DEF ids
<1>4. BobInv(ids, ids)
  BY <1>1, <1>2, <1>3 DEF BobInv, Inner
<1> QED
  BY <1>4 DEF ids

\* No call to come: no node
LEMMA CallsLeft ==
  ASSUME NEW ids \in Seq(Ids), NEW pending, DOMAIN pending = 1 .. Len(ids)
  PROVE  /\ ids = << >> => DOMAIN pending = {}
         /\ pending = << >> => ids = << >>
<1>1. Len(ids) \in Nat
  BY LenProperties
<1>2. ASSUME ids = << >>
      PROVE  DOMAIN pending = {}
  <2>1. Len(ids) = 0
    BY <1>2
  <2> QED
    BY <2>1
<1>3. ASSUME pending = << >>
      PROVE  ids = << >>
  <2>1. DOMAIN pending = {}
    BY <1>3
  <2>2. ASSUME Len(ids) # 0
        PROVE  FALSE
    <3>1. 1 \in 1 .. Len(ids)
      BY <1>1, <2>2
    <3>2. 1 \in {}
      BY <2>1, <3>1, Zenon
    <3> QED
      BY <3>2
  <2> QED
    BY <2>2, EmptySeq
<1> QED
  BY <1>2, <1>3

LEMMA SetupEStep ==
  ASSUME NEW eids \in Seq(Ids), NEW sids \in Seq(Ids), BobInv(eids, sids), SetupE
  PROVE  BobInv(NextCalls(eids), sids)'
<1> DEFINE x == eids[1]
           v == NodeOf(x)
           n == NextCalls(eids)
           words == v.size \div 2
<1>1. /\ ePending # << >> /\ ePending = [i \in 1 .. Len(eids) |-> NodeOf(eids[i])]
      /\ DOMAIN stacks = 0 .. 2 * N - 3
      /\ sPending' = sPending /\ scost' = scost /\ resource_positions' = resource_positions
      /\ timer' = timer /\ at' = at /\ used' = used
  BY DEF SetupE, BobInv, history
<1>2. eids # << >>
  <2>1. DOMAIN ePending = 1 .. Len(eids)
    BY <1>1
  <2> QED
    BY <1>1, <2>1, CallsLeft
<1>3. x \in Ids /\ n \in Seq(Ids)
  BY <1>2, NextCallsAre
<1>4. used = {} /\ sids # << >>
  BY <1>2 DEF BobInv
<1>5. /\ Head(ePending) = v
      /\ Calls(v, Left(v), Right(v)) \o Tail(ePending) = [i \in 1 .. Len(n) |-> NodeOf(n[i])]
  <2> HIDE DEF x
  <2>1. x = eids[1]
    BY DEF x
  <2> QED
    BY <1>1, <1>2, <2>1, WholeNode
<1>6. /\ stacks' = IF IsLeaf(v) THEN stacks
                   ELSE [stacks EXCEPT ![v.st] = NewStack(v.st, v.size \div 2),
                                       ![v.st + 1] = NewStack(v.st + 1, v.size \div 2)]
      /\ ePending' = Calls(v, Left(v), Right(v)) \o Tail(ePending)
  <2> DEFINE Filled(u) ==
               /\ stacks' = IF IsLeaf(u) THEN stacks
                            ELSE [stacks EXCEPT ![u.st] = NewStack(u.st, u.size \div 2),
                                                ![u.st + 1] = NewStack(u.st + 1, u.size \div 2)]
               /\ ePending' = Calls(u, Left(u), Right(u)) \o Tail(ePending)
  <2>1. Filled(Head(ePending))
    BY DEF SetupE
  <2> HIDE DEF Filled
  <2>2. Filled(v)
    BY <1>5, <2>1
  <2> QED
    BY <2>2 DEF Filled
<1>7. /\ \A p, y, z : StackFor(p, y, z)' = StackFor(p, y, z)
      /\ \A y : Used(y)' = Used(y)
  BY <1>1, UsesKept
<1>8. IsLeaf(v) <=> x \notin Inner
  BY <1>3, LeafIs
<1>9. ASSUME NEW y \in Inner, ~ToDo(n, y)
      PROVE  StacksFilled(y)'
  <2> DEFINE st == v.st
             ys == NodeOf(y).st
  <2>1. y \in Ids
    BY DEF Inner
  <2>2. CASE y = x
    <3>1. x \in Inner
      BY <2>2
    <3>2. st \in 0 .. 2 * N - 3 /\ st + 1 \in 0 .. 2 * N - 3 /\ st \in Int /\ st + 1 \in Int /\ st # st + 1
      BY <3>1, StIs
    <3>3. StackFor(st, x, Kid(x, 0)) = NewStack(st, v.size \div 2)
          /\ StackFor(st + 1, x, Kid(x, 1)) = NewStack(st + 1, v.size \div 2)
      BY <1>4, <3>1, <3>2, Unused
    <3> HIDE DEF st
    <3>4. stacks' = [stacks EXCEPT ![st] = NewStack(st, v.size \div 2),
                                   ![st + 1] = NewStack(st + 1, v.size \div 2)]
      BY <1>6, <1>8, <3>1 DEF st
    <3>5. stacks'[st] = NewStack(st, v.size \div 2) /\ stacks'[st + 1] = NewStack(st + 1, v.size \div 2)
      <4> DEFINE one == NewStack(st, v.size \div 2)
                 two == NewStack(st + 1, v.size \div 2)
      <4> HIDE DEF one, two
      <4>1. stacks' = [stacks EXCEPT ![st] = one, ![st + 1] = two]
        BY <3>4 DEF one, two
      <4>2. stacks'[st] = one /\ stacks'[st + 1] = two
        BY <1>1, <3>2, <4>1
      <4> QED
        BY <4>2 DEF one, two
    <3>6. stacks'[st] = StackFor(st, x, Kid(x, 0))' /\ stacks'[st + 1] = StackFor(st + 1, x, Kid(x, 1))'
      BY <1>7, <3>3, <3>5
    <3> QED
      BY <2>2, <3>6 DEF StacksFilled, st
  <2>3. CASE y # x
    <3>1. ~ToDo(eids, y)
      BY <1>2, <1>9, <2>1, <2>3, StillToDo
    <3>2. StacksFilled(y)
      BY <3>1 DEF BobInv
    <3>3. stacks'[ys] = stacks[ys] /\ stacks'[ys + 1] = stacks[ys + 1]
      <4>1. CASE x \notin Inner
        BY <1>6, <1>8, <4>1
      <4>2. CASE x \in Inner
        <5>1. /\ ys \in 0 .. 2 * N - 3 /\ ys + 1 \in 0 .. 2 * N - 3
              /\ ys # st /\ ys # st + 1 /\ ys + 1 # st /\ ys + 1 # st + 1
          BY <2>3, <4>2, StIs
        <5> DEFINE one == NewStack(st, v.size \div 2)
                   two == NewStack(st + 1, v.size \div 2)
        <5>2. stacks' = [stacks EXCEPT ![st] = one, ![st + 1] = two]
          BY <1>6, <1>8, <4>2
        <5> HIDE DEF one, two, st, ys
        <5> QED
          BY <1>1, <5>1, <5>2
      <4> QED
        BY <4>1, <4>2
    <3> QED
      BY <1>7, <3>2, <3>3 DEF StacksFilled
  <2> QED
    BY <2>2, <2>3
<1>10. DOMAIN stacks' = 0 .. 2 * N - 3
  BY <1>1, <1>6
<1>11. \A y \in Ids : ToDo(sids, y) \/ resource_positions'[NodeOf(y).rp] = At(y, Used(y)')
  BY <1>1, <1>7 DEF BobInv
<1>12. ePending' = [i \in 1 .. Len(n) |-> NodeOf(n[i])]
  BY <1>5, <1>6
<1> HIDE DEF x, v, n
<1>13. BobInv(n, sids)'
  BY <1>1, <1>3, <1>4, <1>9, <1>10, <1>11, <1>12 DEF BobInv
<1> QED
  BY <1>13 DEF n

LEMMA SpeculateStep ==
  ASSUME NEW eids \in Seq(Ids), NEW sids \in Seq(Ids), BobInv(eids, sids), Speculate
  PROVE  /\ BobInv(eids, NextCalls(sids))'
         /\ sPending' = << >> => ecost' = End
<1> DEFINE x == sids[1]
           v == NodeOf(x)
           n == NextCalls(sids)
<1>1. /\ ePending = << >> /\ sPending # << >>
      /\ ePending = [i \in 1 .. Len(eids) |-> NodeOf(eids[i])]
      /\ sPending = [i \in 1 .. Len(sids) |-> NodeOf(sids[i])]
      /\ DOMAIN resource_positions = 0 .. 2 * N - 2
      /\ ecost' = IF sPending' = << >> THEN scost' ELSE ecost
      /\ ePending' = ePending /\ stacks' = stacks /\ timer' = timer /\ at' = at /\ used' = used
  BY DEF Speculate, BobInv, history
<1>2. sids # << >> /\ eids = << >>
  <2>1. DOMAIN ePending = 1 .. Len(eids) /\ DOMAIN sPending = 1 .. Len(sids)
    BY <1>1
  <2>2. eids = << >>
    BY <1>1, <2>1, CallsLeft
  <2>3. ASSUME sids = << >>
        PROVE  FALSE
    <3>1. DOMAIN sPending = {}
      BY <2>1, <2>3, CallsLeft
    <3>2. sPending \in Seq(Nodes)
      <4>1. Len(sids) \in Nat
        BY LenProperties
      <4>2. \A i \in 1 .. Len(sids) : NodeOf(sids[i]) \in Nodes
        BY ElementOfSeq, NodeIs
      <4>3. sPending \in [1 .. Len(sids) -> Nodes]
        <5> HIDE DEF x
        <5> QED
          BY <1>1, <4>2
      <4> QED
        BY <4>1, <4>3
    <3> QED
      BY <1>1, <3>1, <3>2, EmptySeq
  <2> QED
    BY <2>2, <2>3
<1>3. x \in Ids /\ n \in Seq(Ids)
  BY <1>2, NextCallsAre
<1>4. used = {} /\ timer = 0 /\ at = << >>
  BY <1>2 DEF BobInv
<1>5. /\ Head(sPending) = v
      /\ Calls(v, Left(v), Right(v)) \o Tail(sPending) = [i \in 1 .. Len(n) |-> NodeOf(n[i])]
  <2> HIDE DEF x
  <2>1. x = sids[1]
    BY DEF x
  <2>2. sids # << >> /\ sPending = [i \in 1 .. Len(sids) |-> NodeOf(sids[i])]
    BY <1>1, <1>2
  <2> QED
    BY <2>1, <2>2, WholeNode
<1>6. /\ resource_positions' = [resource_positions EXCEPT ![v.rp] = scost]
      /\ scost' = scost + CostUntil(v.size, v.size)
      /\ sPending' = Calls(v, Left(v), Right(v)) \o Tail(sPending)
  <2> DEFINE Counted(u) ==
               /\ resource_positions' = [resource_positions EXCEPT ![u.rp] = scost]
               /\ scost' = scost + CostUntil(u.size, u.size)
               /\ sPending' = Calls(u, Left(u), Right(u)) \o Tail(sPending)
  <2>1. Counted(Head(sPending))
    BY DEF Speculate
  <2> HIDE DEF Counted
  <2>2. Counted(v)
    BY <1>5, <2>1
  <2> QED
    BY <2>2 DEF Counted
<1>7. /\ \A p, y, z : StackFor(p, y, z)' = StackFor(p, y, z)
      /\ \A y : Used(y)' = Used(y) /\ Used(y) = 0
  BY <1>1, <1>4, UsesKept, Unused
<1>8. scost = PosOf(x) /\ Walk(n, scost + Own(Height(x)))
  BY <1>2, WalkStep DEF BobInv
<1>9. scost' = scost + Own(Height(x)) /\ Walk(n, scost')
  <2>1. v.size = PowerOf2[Height(x)]
    BY <1>3, NodeIs DEF Size
  <2> QED
    BY <1>6, <1>8, <2>1 DEF Own
<1>10. sPending' = [i \in 1 .. Len(n) |-> NodeOf(n[i])]
  BY <1>5, <1>6
<1>11. sPending' = << >> => ecost' = End
  <2> SUFFICES ASSUME sPending' = << >>
               PROVE  ecost' = End
    OBVIOUS
  <2>1. DOMAIN sPending' = 1 .. Len(n)
    BY <1>10
  <2> HIDE DEF n
  <2>2. n = << >>
    BY <1>3, <2>1, CallsLeft
  <2> QED
    BY <1>1, <1>9, <2>2 DEF Walk
<1>12. ASSUME NEW y \in Ids, ~ToDo(n, y)
       PROVE  resource_positions'[NodeOf(y).rp] = At(y, Used(y)')
  <2> DEFINE rp == v.rp
             ys == NodeOf(y).rp
  <2>1. rp \in 0 .. 2 * N - 2 /\ ys \in 0 .. 2 * N - 2 /\ (y # x => ys # rp)
    BY <1>3, RpIs
  <2>2. resource_positions' = [resource_positions EXCEPT ![rp] = scost]
    BY <1>6
  <2>3. CASE y = x
    <3>1. resource_positions'[ys] = scost
      <4>1. ys = rp
        BY <2>3
      <4> HIDE DEF ys, rp
      <4> QED
        BY <1>1, <2>1, <2>2, <4>1
    <3>2. At(y, Used(y)') = PosOf(y) + CostUntil(Size(y), 0)
      BY <1>7 DEF At
    <3>3. CostUntil(Size(y), 0) = 0 /\ PosOf(y) \in Nat
      BY IdsAre, CostIs, NodeIs DEF Size
    <3> QED
      BY <1>8, <2>3, <3>1, <3>2, <3>3
  <2>4. CASE y # x
    <3>1. ~ToDo(sids, y)
      BY <1>2, <1>12, <2>4, StillToDo
    <3>2. resource_positions[ys] = At(y, Used(y))
      BY <3>1 DEF BobInv
    <3>3. resource_positions'[ys] = resource_positions[ys]
      <4> HIDE DEF ys, rp
      <4> QED
        BY <1>1, <2>1, <2>2, <2>4
    <3> QED
      BY <1>7, <3>2, <3>3
  <2> QED
    BY <2>3, <2>4
<1>13. DOMAIN resource_positions' = 0 .. 2 * N - 2
  BY <1>1, <1>6
<1>14. \A y \in Inner : ToDo(eids, y) \/ StacksFilled(y)'
  BY <1>1, <1>7 DEF BobInv, StacksFilled
<1>15. DOMAIN stacks' = 0 .. 2 * N - 3 /\ eids \in Seq(Ids)
       /\ ePending' = [i \in 1 .. Len(eids) |-> NodeOf(eids[i])]
  BY <1>1 DEF BobInv
<1> HIDE DEF x, v, n
<1>16. BobInv(eids, n)'
  BY <1>1, <1>2, <1>4, <1>9, <1>10, <1>12, <1>13, <1>14, <1>15 DEF BobInv
<1> QED
  BY <1>11, <1>16 DEF n

LEMMA BobRests ==
  ASSUME NEW eids, NEW sids, BobInv(eids, sids),
         UNCHANGED <<ePending, sPending, scost, stacks, resource_positions, used, at, timer>>
  PROVE  BobInv(eids, sids)'
<1>1. /\ ePending' = ePending /\ sPending' = sPending /\ scost' = scost /\ stacks' = stacks
      /\ resource_positions' = resource_positions /\ used' = used /\ at' = at /\ timer' = timer
  OBVIOUS
<1>2. /\ \A p, y, z : StackFor(p, y, z)' = StackFor(p, y, z)
      /\ \A y : Used(y)' = Used(y)
  BY <1>1, UsesKept
<1>3. \A y : StacksFilled(y)' <=> StacksFilled(y)
  BY <1>1, <1>2 DEF StacksFilled
<1> QED
  BY <1>1, <1>2, <1>3 DEF BobInv
-----------------------------------------------------------------------------
(* Leaves counted *)

LEMMA OuterHalf ==
  ASSUME NEW a \in Nat, NEW p \in Nat, p > 0
  PROVE  a \div (2 * p) = (a \div p) \div 2
<1> DEFINE q == a \div p
           r == a % p
           c == q \div 2
           b == q % 2
<1>1. q \in Nat /\ r \in 0 .. p - 1 /\ a = p * q + r
  OBVIOUS
<1>2. q = a \div p
  OBVIOUS
<1> HIDE DEF q, r
<1>3. c \in Nat /\ b \in {0, 1} /\ q = 2 * c + b
  BY <1>1, Halved
<1>4. c = q \div 2
  OBVIOUS
<1> HIDE DEF c, b
<1>5. p * b \in Nat /\ p * b <= p
  BY <1>3
<1>6. p * b + r \in Nat /\ p * b + r < 2 * p /\ 2 * p \in Nat /\ 2 * p > 0
  BY <1>1, <1>5
<1>7. a = c * (2 * p) + (p * b + r)
  <2>1. p * q = p * (2 * c) + p * b
    BY <1>1, <1>3
  <2> QED
    BY <1>1, <1>3, <1>5, <2>1
<1>8. (c * (2 * p) + (p * b + r)) \div (2 * p) = c
  BY <1>3, <1>6, DivModUnique
<1> QED
  BY <1>2, <1>4, <1>7, <1>8

LEMMA BelowIs ==
  ASSUME NEW x \in Ids
  PROVE  IsFiniteSet(Below(x)) /\ Cardinality(Below(x)) \in Nat /\ Cardinality(Below(x)) <= Size(x)
<1> DEFINE s == Size(x)
           first == x.k * s
<1>1. s \in Nat /\ s > 0 /\ x.k \in Nat /\ N \in Nat
  BY IdsAre, RootPlaced
<1>2. first \in Nat
  BY <1>1
<1>3. Below(x) \subseteq first .. (first + s - 1)
  <2> SUFFICES ASSUME NEW ix \in Below(x)
               PROVE  ix \in first .. (first + s - 1)
    OBVIOUS
  <2>1. ix \in Nat /\ ix \div s = x.k
    BY <1>1 DEF Below
  <2> HIDE DEF s
  <2>2. ix % s \in 0 .. s - 1 /\ ix = s * (ix \div s) + (ix % s)
    BY <1>1, <2>1
  <2> DEFINE r == ix % s
  <2>3. ix = s * x.k + r /\ r \in 0 .. s - 1
    BY <2>1, <2>2
  <2> HIDE DEF r
  <2>4. s * x.k = first
    BY <1>1
  <2> HIDE DEF first
  <2> QED
    BY <1>1, <1>2, <2>3, <2>4
<1> HIDE DEF s, first
<1>4. first \in Int /\ first + s - 1 \in Int /\ ~ (first > first + s - 1) /\ (first + s - 1) - first + 1 = s
  BY <1>1, <1>2
<1>5. IsFiniteSet(first .. (first + s - 1)) /\ Cardinality(first .. (first + s - 1)) = s
  BY <1>4, FS_Interval
<1>6. IsFiniteSet(Below(x)) /\ Cardinality(Below(x)) <= s
  BY <1>3, <1>5, FS_Subset
<1> QED
  BY <1>6, FS_CardinalityType DEF s

LEMMA Counted ==
  ASSUME NEW x \in Ids, NEW P
  PROVE  /\ IsFiniteSet(P \cap Below(x)) /\ Cardinality(P \cap Below(x)) \in Nat
         /\ Cardinality(P \cap Below(x)) <= Size(x)
<1>1. P \cap Below(x) \in SUBSET Below(x)
  OBVIOUS
<1>2. IsFiniteSet(P \cap Below(x)) /\ Cardinality(P \cap Below(x)) <= Cardinality(Below(x))
  BY <1>1, BelowIs, FS_Subset
<1>3. Cardinality(P \cap Below(x)) \in Nat
  BY <1>2, FS_CardinalityType
<1> QED
  BY <1>2, <1>3, BelowIs, IdsAre

\* One leaf more
LEMMA OneMore ==
  ASSUME NEW x \in Ids, NEW P, NEW ix, ix \notin P
  PROVE  /\ ix \notin Below(x) =>
              Cardinality((P \cup {ix}) \cap Below(x)) = Cardinality(P \cap Below(x))
         /\ ix \in Below(x) =>
              /\ Cardinality((P \cup {ix}) \cap Below(x)) = Cardinality(P \cap Below(x)) + 1
              /\ Cardinality(P \cap Below(x)) < Size(x)
<1>1. ASSUME ix \notin Below(x)
      PROVE  Cardinality((P \cup {ix}) \cap Below(x)) = Cardinality(P \cap Below(x))
  <2>1. (P \cup {ix}) \cap Below(x) = P \cap Below(x)
    BY <1>1
  <2> QED
    BY <2>1
<1>2. ASSUME ix \in Below(x)
      PROVE  /\ Cardinality((P \cup {ix}) \cap Below(x)) = Cardinality(P \cap Below(x)) + 1
             /\ Cardinality(P \cap Below(x)) < Size(x)
  <2>1. (P \cup {ix}) \cap Below(x) = (P \cap Below(x)) \cup {ix}
    BY <1>2
  <2>2. IsFiniteSet(P \cap Below(x)) /\ ix \notin P \cap Below(x) /\ Cardinality(P \cap Below(x)) \in Nat
    BY Counted
  <2>3. Cardinality((P \cap Below(x)) \cup {ix}) = Cardinality(P \cap Below(x)) + 1
    BY <2>2, FS_AddElement
  <2>4. Cardinality((P \cup {ix}) \cap Below(x)) = Cardinality(P \cap Below(x)) + 1
    BY <2>1, <2>3
  <2>5. Cardinality((P \cup {ix}) \cap Below(x)) <= Size(x) /\ Size(x) \in Nat
    BY Counted, IdsAre
  <2> QED
    BY <2>2, <2>4, <2>5
<1> QED
  BY <1>1, <1>2

\* Of the nodes of one depth one is above a leaf
LEMMA OneAbove ==
  ASSUME NEW x \in Ids, NEW y \in Ids, x.d = y.d, NEW ix, ix \in Below(x), ix \in Below(y)
  PROVE  x = y
<1>1. Size(x) = Size(y)
  BY DEF Size, Height
<1>2. x.k = y.k
  BY <1>1 DEF Below
<1> QED
  BY <1>2, IdsAre

LEMMA HereIs ==
  ASSUME AccessInv, Busy
  PROVE  /\ Here \in Ids /\ Here.d = Depth /\ Depth \in 0 .. Logn /\ Height(Here) = Len(at.path)
         /\ at.ix \in 0 .. N - 1 /\ at.ix \in Below(Here)
         /\ Size(Here) = PowerOf2[Len(at.path)]
         /\ Here.k = at.ix \div Size(Here)
         /\ at.node = NodeOf(Here) /\ at.lang = {LangsOf(Here)[Used(Here) + 1]}
         /\ IsLeaf(at.node) <=> Depth = Logn
         /\ ~ IsLeaf(at.node) => Here \in Inner
<1>1. Here \in Ids /\ Len(at.path) \in 0 .. Logn /\ at.ix \in 0 .. N - 1
  BY DEF AccessInv
<1>2. Here.d = Depth /\ Here.k = at.ix \div PowerOf2[Len(at.path)]
  BY DEF Here
<1>3. Depth \in 0 .. Logn /\ Height(Here) = Len(at.path)
  BY <1>1, <1>2, RootPlaced DEF Depth, Height
<1>4. Size(Here) = PowerOf2[Len(at.path)]
  BY <1>3 DEF Size
<1>5. at.ix \in Below(Here) /\ Here.k = at.ix \div Size(Here)
  BY <1>1, <1>2, <1>4 DEF Below
<1>6. at.node = NodeOf(Here) /\ at.lang = {LangsOf(Here)[Used(Here) + 1]}
  <2> DEFINE lang == {LangsOf(Here)[Used(Here) + 1]}
             node == NodeOf(Here)
  <2>1. at = [node |-> node, ix |-> at.ix, path |-> at.path, lang |-> lang]
    BY DEF AccessInv
  <2> HIDE DEF node, lang
  <2>2. at.node = node /\ at.lang = lang
    <3>1. PICK ix : ix = at.ix
      OBVIOUS
    <3>2. PICK path : path = at.path
      OBVIOUS
    <3>3. at = [node |-> node, ix |-> ix, path |-> path, lang |-> lang]
      BY <2>1, <3>1, <3>2
    <3> QED
      BY <3>3
  <2> QED
    BY <2>2 DEF node, lang
<1>7. IsLeaf(at.node) <=> Depth = Logn
  BY <1>1, <1>2, <1>6, LeafIs
<1>8. ~ IsLeaf(at.node) => Here \in Inner
  BY <1>1, <1>2, <1>3, <1>7, RootPlaced DEF Inner
<1> QED
  BY <1>1, <1>2, <1>3, <1>4, <1>5, <1>6, <1>7, <1>8

LEMMA BelowRoot == Below(RootId) = 0 .. N - 1
<1>1. Size(RootId) = N /\ RootId.k = 0 /\ N \in Nat /\ N > 0
  BY RootIs, RootPlaced DEF RootId
<1>2. \A ix \in 0 .. N - 1 : ix \div N = 0
  <2> DEFINE n == N
  <2> SUFFICES ASSUME NEW ix \in 0 .. N - 1
               PROVE  ix \div n = 0
    OBVIOUS
  <2>1. n \in Nat /\ n > 0 /\ ix \in Nat /\ ix < n
    BY <1>1
  <2> HIDE DEF n
  <2>2. (0 * n + ix) \div n = 0
    BY <2>1, DivModUnique
  <2>3. 0 * n + ix = ix
    BY <2>1
  <2> QED
    BY <2>2, <2>3
<1> QED
  BY <1>1, <1>2 DEF Below

\* The leaves below a child are below its parent; and those below the parent
\* are below the child that the next bit says
LEMMA KidBelow ==
  ASSUME NEW x \in Inner, NEW ix \in Nat
  PROVE  /\ \A b \in {0, 1} : ix \in Below(Kid(x, b)) => ix \in Below(x)
         /\ ix \in Below(x) => \A b \in {0, 1} :
              ix \in Below(Kid(x, b)) <=> b = Bit(ix, Height(x) - 1)
<1> DEFINE p == PowerOf2[Height(x) - 1]
           e == ix \div p
<1>1. /\ p \in Nat /\ p > 0 /\ Size(x) = 2 * p /\ x \in Ids /\ x.k \in Nat
      /\ \A b \in {0, 1} : Size(Kid(x, b)) = p /\ Kid(x, b).k = 2 * x.k + b
  <2>1. \A b \in {0, 1} : Height(Kid(x, b)) = Height(x) - 1 /\ Kid(x, b).k = 2 * x.k + b
    BY KidsAre
  <2>2. PowerOf2[Height(x)] = 2 * p /\ p \in Nat \ {0} /\ x \in Ids
    BY InnerHeights DEF Inner
  <2> QED
    BY <2>1, <2>2, IdsAre DEF Size
<1>2. ix \div (2 * p) = e \div 2
  <2> HIDE DEF p
  <2> QED
    BY <1>1, OuterHalf
<1>3. Bit(ix, Height(x) - 1) = e % 2
  BY DEF Bit
<1> HIDE DEF p
<1>4. e \in Nat
  BY <1>1
<1> HIDE DEF e
<1>5. /\ e \div 2 \in Nat /\ e % 2 \in {0, 1} /\ e = 2 * (e \div 2) + (e % 2)
      /\ \A c \in Nat, b \in {0, 1} : e = 2 * c + b => c = e \div 2 /\ b = e % 2
  BY <1>4
<1>6. /\ ix \in Below(x) <=> ix \in 0 .. N - 1 /\ e \div 2 = x.k
      /\ \A b \in {0, 1} : ix \in Below(Kid(x, b)) <=> ix \in 0 .. N - 1 /\ e = 2 * x.k + b
  BY <1>1, <1>2 DEF Below, e
<1>7. x.k \in Nat
  BY <1>1
<1> DEFINE k == x.k
<1> HIDE DEF k
<1>8. k \in Nat /\ \A b \in {0, 1} : /\ e = 2 * k + b => e \div 2 = k
                                    /\ e \div 2 = k => (e = 2 * k + b <=> b = e % 2)
  BY <1>5, <1>7 DEF k
<1> QED
  BY <1>3, <1>6, <1>8 DEF k

-----------------------------------------------------------------------------
(* Where Bob goes, the uses of the node he leaves become one more *)

\* He leaves the node he is at, for a child or, from a leaf, for the end
Leaves ==
  /\ Busy /\ used' = used
  /\ \/ /\ at' # << >> /\ at'.ix = at.ix /\ Len(at.path) # 0 /\ Len(at'.path) = Len(at.path) - 1
     \/ at' = << >> /\ Len(at.path) = 0

LEMMA PastGrows ==
  ASSUME AccessInv, Leaves, NEW D, D = Depth
  PROVE  /\ \A d \in 0 .. Logn : d # D => Past(d)' = Past(d)
         /\ Past(D)' = Past(D) \cup {at.ix}
         /\ at.ix \notin Past(D)
         /\ D # Logn => Past(D + 1) = Past(D) /\ D + 1 \in 0 .. Logn
<1>1. /\ Busy /\ used' = used /\ Len(at.path) \in 0 .. Logn /\ at.ix \in used /\ Logn \in Nat
      /\ D = Logn - Len(at.path) /\ D \in 0 .. Logn
  BY RootPlaced DEF AccessInv, Leaves, Depth
<1>2. \A d : Past(d) = {ix \in used : ~ (ix = at.ix /\ d >= D)}
  BY <1>1 DEF Past
<1>3. CASE at' # << >> /\ at'.ix = at.ix /\ Len(at.path) # 0 /\ Len(at'.path) = Len(at.path) - 1
  <2>1. Busy' /\ Depth' = D + 1
    BY <1>1, <1>3 DEF Busy, Depth
  <2>2. \A d : Past(d)' = {ix \in used : ~ (ix = at.ix /\ d >= D + 1)}
    BY <1>1, <1>3, <2>1 DEF Past
  <2>3. \A d \in 0 .. Logn : d # D => (d >= D <=> d >= D + 1)
    BY <1>1
  <2>4. D >= D /\ ~ (D >= D + 1) /\ D + 1 >= D
    BY <1>1
  <2>5. D # Logn => D + 1 \in 0 .. Logn
    BY <1>1
  <2> QED
    BY <1>1, <1>2, <2>2, <2>3, <2>4, <2>5
<1>4. CASE at' = << >> /\ Len(at.path) = 0
  <2>1. ~ Busy'
    BY <1>4 DEF Busy
  <2>2. \A d : Past(d)' = used
    BY <1>1, <2>1 DEF Past
  <2>3. D = Logn /\ D >= D /\ \A d \in 0 .. Logn : d # D => ~ (d >= D)
    BY <1>1, <1>4
  <2> QED
    BY <1>1, <1>2, <2>2, <2>3
<1> QED
  BY <1>3, <1>4 DEF Leaves

LEMMA UsesGrow ==
  ASSUME AccessInv, Leaves
  PROVE  /\ \A x \in Ids : Used(x) \in Nat /\ Used(x)' = IF x = Here THEN Used(x) + 1 ELSE Used(x)
         /\ Used(Here) < Size(Here)
         /\ \A x \in Inner, b \in {0, 1} :
              /\ Handed(Kid(x, b)) \in Nat /\ Handed(Kid(x, b)) <= Size(Kid(x, b))
              /\ (x = Here /\ at.ix \in Below(Kid(x, b))) =>
                    /\ Handed(Kid(x, b))' = Handed(Kid(x, b)) + 1
                    /\ Handed(Kid(x, b)) < Size(Kid(x, b))
                    /\ Used(Kid(x, b)) = Handed(Kid(x, b))
              /\ ~ (x = Here /\ at.ix \in Below(Kid(x, b))) => Handed(Kid(x, b))' = Handed(Kid(x, b))
         /\ Cardinality(Past(Logn)) \in Nat
         /\ Cardinality(Past(Logn))' =
              IF Depth = Logn THEN Cardinality(Past(Logn)) + 1 ELSE Cardinality(Past(Logn))
<1>1. PICK D : D = Depth
  OBVIOUS
<1>2. PICK h : h = Here
  OBVIOUS
<1>3. PICK ix : ix = at.ix
  OBVIOUS
<1>4. Busy /\ h \in Ids /\ h.d = D /\ D \in 0 .. Logn /\ ix \in 0 .. N - 1 /\ ix \in Below(h) /\ Logn \in Nat
  BY <1>1, <1>2, <1>3, HereIs, RootPlaced DEF Leaves
<1>5. /\ \A d \in 0 .. Logn : d # D => Past(d)' = Past(d)
      /\ Past(D)' = Past(D) \cup {ix}
      /\ ix \notin Past(D)
      /\ D # Logn => Past(D + 1) = Past(D) /\ D + 1 \in 0 .. Logn
  BY <1>1, <1>3, PastGrows
<1>6. ASSUME NEW x \in Ids
      PROVE  Used(x) \in Nat /\ Used(x)' = IF x = h THEN Used(x) + 1 ELSE Used(x)
  <2>1. Used(x) = Cardinality(Past(x.d) \cap Below(x)) /\ Used(x)' = Cardinality(Past(x.d)' \cap Below(x))
    BY DEF Used, Below
  <2>2. Used(x) \in Nat /\ x.d \in 0 .. Logn
    BY <2>1, Counted, IdsAre
  <2>3. CASE x.d # D
    BY <1>4, <1>5, <2>1, <2>2, <2>3
  <2>4. CASE x.d = D
    <3>1. ix \in Below(x) <=> x = h
      BY <1>4, <2>4, OneAbove
    <3>2. Past(x.d)' = Past(D) \cup {ix} /\ Past(x.d) = Past(D)
      BY <1>5, <2>4
    <3>3. /\ ix \notin Below(x) => Cardinality((Past(D) \cup {ix}) \cap Below(x)) = Cardinality(Past(D) \cap Below(x))
          /\ ix \in Below(x) => Cardinality((Past(D) \cup {ix}) \cap Below(x)) = Cardinality(Past(D) \cap Below(x)) + 1
      BY <1>5, OneMore
    <3> QED
      BY <2>1, <2>2, <3>1, <3>2, <3>3
  <2> QED
    BY <2>3, <2>4
<1>7. Used(h) < Size(h)
  BY <1>4, <1>5, OneMore DEF Used
<1>8. ASSUME NEW x \in Inner, NEW b \in {0, 1}
      PROVE  /\ Handed(Kid(x, b)) \in Nat /\ Handed(Kid(x, b)) <= Size(Kid(x, b))
             /\ (x = h /\ ix \in Below(Kid(x, b))) =>
                    /\ Handed(Kid(x, b))' = Handed(Kid(x, b)) + 1
                    /\ Handed(Kid(x, b)) < Size(Kid(x, b))
                    /\ Used(Kid(x, b)) = Handed(Kid(x, b))
             /\ ~ (x = h /\ ix \in Below(Kid(x, b))) => Handed(Kid(x, b))' = Handed(Kid(x, b))
  <2>1. PICK y : y = Kid(x, b)
    OBVIOUS
  <2>2. y \in Ids /\ y.d = x.d + 1 /\ y.d - 1 = x.d /\ x \in Ids /\ x.d \in 0 .. Logn /\ x.d # Logn
    <3>1. x \in Ids /\ Kid(x, b) \in Ids /\ Kid(x, b).d = x.d + 1
      BY KidsAre
    <3>2. x.d \in 0 .. Logn /\ x.d < Logn
      BY <3>1, IdsAre DEF Inner
    <3> QED
      BY <2>1, <3>1, <3>2, RootPlaced
  <2>3. /\ Handed(y) = Cardinality(Past(x.d) \cap Below(y))
        /\ Handed(y)' = Cardinality(Past(x.d)' \cap Below(y))
        /\ Used(y) = Cardinality(Past(x.d + 1) \cap Below(y))
    BY <2>2 DEF Handed, Used, Below
  <2>4. Handed(y) \in Nat /\ Handed(y) <= Size(y)
    BY <2>2, <2>3, Counted
  <2>5. ix \in Below(y) /\ x.d = D => x = h
    <3> SUFFICES ASSUME ix \in Below(y), x.d = D
                 PROVE  x = h
      OBVIOUS
    <3>1. ix \in Below(x)
      BY <1>4, <2>1, KidBelow, RootPlaced
    <3> QED
      BY <1>4, <2>2, <3>1, OneAbove
  <2>6. CASE x.d # D
    <3>1. Handed(y)' = Handed(y) /\ x # h
      BY <1>4, <1>5, <2>2, <2>3, <2>6
    <3> QED
      BY <2>1, <2>4, <3>1
  <2>7. CASE x.d = D
    <3>1. Past(x.d)' = Past(D) \cup {ix} /\ Past(x.d) = Past(D) /\ Past(x.d + 1) = Past(D)
      BY <1>5, <2>2, <2>7
    <3>2. /\ ix \notin Below(y) => Cardinality((Past(D) \cup {ix}) \cap Below(y)) = Cardinality(Past(D) \cap Below(y))
          /\ ix \in Below(y) => /\ Cardinality((Past(D) \cup {ix}) \cap Below(y)) = Cardinality(Past(D) \cap Below(y)) + 1
                                /\ Cardinality(Past(D) \cap Below(y)) < Size(y)
      BY <1>5, <2>2, OneMore
    <3>3. ix \in Below(y) => x = h
      BY <2>5, <2>7
    <3> QED
      BY <2>1, <2>3, <2>4, <3>1, <3>2, <3>3
  <2> QED
    BY <2>6, <2>7
<1>9. /\ Cardinality(Past(Logn)) \in Nat
      /\ Cardinality(Past(Logn))' =
           IF D = Logn THEN Cardinality(Past(Logn)) + 1 ELSE Cardinality(Past(Logn))
  <2>1. Past(Logn) \in SUBSET (0 .. N - 1)
    BY DEF Past, AccessInv
  <2>2. Past(Logn) \cap Below(RootId) = Past(Logn) /\ RootId \in Ids
    BY <2>1, BelowRoot, RootIs
  <2>3. Cardinality(Past(Logn)) \in Nat
    BY <2>2, Counted
  <2>4. CASE D # Logn
    <3>1. Past(Logn)' = Past(Logn)
      BY <1>4, <1>5, <2>4
    <3> QED
      BY <2>3, <2>4, <3>1
  <2>5. CASE D = Logn
    <3>1. Past(Logn)' = Past(Logn) \cup {ix} /\ ix \notin Past(Logn)
      BY <1>5, <2>5
    <3>2. (Past(Logn) \cup {ix}) \cap Below(RootId) = Past(Logn) \cup {ix} /\ ix \in Below(RootId)
      BY <1>4, <2>1, BelowRoot
    <3>3. Cardinality((Past(Logn) \cup {ix}) \cap Below(RootId)) = Cardinality(Past(Logn) \cap Below(RootId)) + 1
      BY <2>2, <3>1, <3>2, OneMore
    <3>4. Cardinality(Past(Logn) \cup {ix}) = Cardinality(Past(Logn)) + 1
      BY <2>2, <3>2, <3>3
    <3>5. Cardinality(Past(Logn))' = Cardinality(Past(Logn)')
      OBVIOUS
    <3> QED
      BY <2>3, <2>5, <3>1, <3>4, <3>5
  <2> QED
    BY <2>4, <2>5
<1> QED
  BY <1>1, <1>2, <1>3, <1>6, <1>7, <1>8, <1>9
-----------------------------------------------------------------------------
(* The steps of an access *)

\* Nothing that was written is lost or written over
LEMMA AlignedKept ==
  ASSUME Aligned, read' = read, UNCHANGED alice \/ SetupG \/ AccessG
  PROVE  Aligned'
<1>1. DOMAIN gcode \subseteq DOMAIN gcode' /\ \A p \in DOMAIN gcode : gcode'[p] = gcode[p]
  <2>1. gcode' = gcode \/ \E more : gcode' = Written(gcode, more)
    <3>1. CASE UNCHANGED alice
      BY <3>1 DEF alice
    <3>2. CASE SetupG
      BY <3>2, Zenon DEF SetupG
    <3>3. CASE AccessG
      BY <3>3, Zenon DEF AccessG
    <3> QED
      BY <3>1, <3>2, <3>3
  <2>2. CASE gcode' = gcode
    BY <2>2
  <2>3. CASE \E more : gcode' = Written(gcode, more)
    <3>1. PICK more : gcode' = Written(gcode, more)
      BY <2>3
    <3>2. /\ DOMAIN Written(gcode, more) = DOMAIN gcode \cup DOMAIN more
          /\ \A p \in DOMAIN gcode : Written(gcode, more)[p] = gcode[p]
      BY WrittenIs, Zenon
    <3>3. DOMAIN gcode' = DOMAIN gcode \cup DOMAIN more /\ \A p \in DOMAIN gcode : gcode'[p] = gcode[p]
      BY <3>1, <3>2, Zenon
    <3> QED
      BY <3>3
  <2> QED
    BY <2>1, <2>2, <2>3
<1> QED
  BY <1>1 DEF Aligned

\* The uses of every node stay what they are
Same == /\ \A x \in Ids : Used(x)' = Used(x)
        /\ \A x \in Inner, b \in {0, 1} : Handed(Kid(x, b))' = Handed(Kid(x, b))

LEMMA TimerIs ==
  ASSUME AccessInv
  PROVE  timer \in Nat
<1>1. Past(Logn) \in SUBSET (0 .. N - 1)
  BY DEF Past, AccessInv
<1>2. Past(Logn) \cap Below(RootId) = Past(Logn) /\ RootId \in Ids
  BY <1>1, BelowRoot, RootIs
<1> QED
  BY <1>2, Counted DEF AccessInv

\* Bob's calls are all made when he accesses
LEMMA CallsMade ==
  ASSUME NEW eids \in Seq(Ids), NEW sids \in Seq(Ids), BobInv(eids, sids), sPending = << >>
  PROVE  eids = << >> /\ sids = << >>
<1>1. DOMAIN sPending = 1 .. Len(sids)
  BY DEF BobInv
<1>2. sids = << >>
  BY <1>1, CallsLeft
<1> QED
  BY <1>2 DEF BobInv

LEMMA NothingToDo ==
  ASSUME NEW ids, ids = << >>
  PROVE  \A x : ~ ToDo(ids, x)
  BY DEF ToDo

\* A look-up can begin when Alice garbled it: her set-up is over, and what she
\* wrote last is the opening of that access or of a later one
LEMMA OpeningFound ==
  ASSUME NEW ids \in Seq(Ids), AliceInv(ids), NEW t \in Nat, End + t \in DOMAIN gcode
  PROVE  ids = << >> /\ gPending = << >> /\ gcode[End + t] = Opening(t)
<1>1. /\ gcost \in Nat /\ gtimer \in 0 .. N /\ End \in Nat /\ N \in Nat /\ gtimer \in Nat
      /\ End + t < gcost
      /\ gcost - gtimer = IF ids = << >> THEN End ELSE PosOf(ids[1])
      /\ ids # << >> => gtimer = 0
  <2>1. End \in Nat /\ N \in Nat
    BY RootIs, PosIs, RootPlaced
  <2>2. gcost \in Nat /\ gtimer \in 0 .. N /\ Walk(ids, gcost - gtimer) /\ (ids # << >> => gtimer = 0)
    BY DEF AliceInv
  <2>3. \A p \in DOMAIN gcode : p \in Nat /\ p < gcost
    BY DEF AliceInv
  <2> QED
    BY <2>1, <2>2, <2>3 DEF Walk
<1>2. ids = << >>
  <2>1. ASSUME ids # << >>
        PROVE  FALSE
    <3>1. ids[1] \in Ids
      BY <2>1, NextCallsAre
    <3>2. PosOf(ids[1]) \in Nat /\ TreeCost[Height(ids[1])] \in Nat
          /\ PosOf(ids[1]) + TreeCost[Height(ids[1])] <= End
      BY <3>1, PosIs
    <3> QED
      BY <1>1, <2>1, <3>2
  <2> QED
    BY <2>1
<1>3. t \in 0 .. gtimer - 1
  BY <1>1, <1>2
<1>4. gcode[End + t] = Opening(t)
  BY <1>3 DEF AliceInv
<1>5. gPending = << >>
  <2>1. gPending = [i \in 1 .. Len(ids) |-> GCall(ids[i])]
    BY DEF AliceInv
  <2>2. Len(ids) = 0
    BY <1>2
  <2>3. gPending = [i \in 1 .. 0 |-> GCall(ids[i])]
    BY <2>1, <2>2
  <2>4. [i \in 1 .. 0 |-> GCall(ids[i])] = << >>
    OBVIOUS
  <2> QED
    BY <2>3, <2>4
<1> QED
  BY <1>2, <1>4, <1>5

LEMMA BeginStep ==
  ASSUME NEW ids \in Seq(Ids), AliceInv(ids), NEW eids \in Seq(Ids), NEW sids \in Seq(Ids),
         BobInv(eids, sids), AccessInv, NEW ix \in 0 .. N - 1, Begin(ix)
  PROVE  BobInv(eids, sids)' /\ AccessInv' /\ Aligned'
<1>1. /\ sPending = << >> /\ at = << >> /\ timer < N /\ ix \notin used /\ ecost \in DOMAIN gcode
      /\ read' = [position |-> ecost, material |-> Opening(timer)]
      /\ ecost' = ecost + 1 /\ saved' = ecost'
      /\ used' = used \cup {ix}
  BY DEF Begin, Reads, OpenCost
<1>2. at' = [node |-> Root, ix |-> ix, path |-> Path(ix), lang |-> {RootLanguages[timer + 1]}]
  BY DEF Begin
<1>3. /\ gPending' = gPending /\ gcode' = gcode /\ ePending' = ePending /\ sPending' = sPending
      /\ scost' = scost /\ stacks' = stacks /\ resource_positions' = resource_positions
      /\ timer' = timer
  BY DEF Begin, alice, setup
<1>4. timer \in Nat /\ ~ Busy /\ ecost = End + timer
  BY <1>1, TimerIs DEF AccessInv, Busy
<1>5. ids = << >> /\ gPending = << >> /\ gcode[ecost] = Opening(timer)
  BY <1>1, <1>4, OpeningFound
<1>6. eids = << >> /\ sids = << >>
  BY <1>1, CallsMade
<1>7. Aligned'
  BY <1>1, <1>3, <1>5 DEF Aligned
<1>8. /\ at'.node = Root /\ at'.ix = ix /\ at'.path = Path(ix) /\ Busy'
      /\ at'.lang = {RootLanguages[timer + 1]}
  <2> DEFINE lang == {RootLanguages[timer + 1]}
             path == Path(ix)
  <2>1. at' = [node |-> Root, ix |-> ix, path |-> path, lang |-> lang]
    BY <1>2
  <2> HIDE DEF lang, path
  <2>2. at'.node = Root /\ at'.ix = ix /\ at'.path = path /\ at'.lang = lang
    BY <2>1
  <2>3. at' # << >>
    <3>1. DOMAIN at' # {}
      BY <2>1
    <3> QED
      BY <3>1
  <2> QED
    BY <2>2, <2>3 DEF Busy, lang, path
<1>9. /\ Path(ix) = [j \in 1 .. Logn |-> Bit(ix, Logn - j)] /\ Len(Path(ix)) = Logn /\ Logn \in Nat
  <2>1. Path(ix) = [j \in 1 .. Logn |-> Bit(ix, Logn - j)] /\ Logn \in Nat
    BY RootPlaced DEF Path
  <2> DEFINE bits == {Bit(ix, Logn - m) : m \in 1 .. Logn}
             path == Path(ix)
             n == Logn
  <2>2. \A j \in 1 .. n : path[j] \in bits
    BY <2>1
  <2>3. path = [j \in 1 .. n |-> path[j]] /\ n \in Nat
    BY <2>1
  <2> HIDE DEF bits, path, n
  <2>4. path \in [1 .. n -> bits]
    BY <2>2, <2>3
  <2>5. path \in Seq(bits) /\ DOMAIN path = 1 .. n
    BY <2>3, <2>4
  <2>6. Len(path) = n
    BY <2>3, <2>5
  <2> QED
    BY <2>1, <2>6 DEF path, n
<1>10. Depth' = 0
  BY <1>8, <1>9 DEF Depth
<1>11. \A d \in 0 .. Logn : Past(d) = used /\ Past(d)' = used
  <2> SUFFICES ASSUME NEW d \in 0 .. Logn
               PROVE  Past(d) = used /\ Past(d)' = used
    OBVIOUS
  <2>1. Past(d) = used
    BY <1>4 DEF Past
  <2>2. d >= 0
    BY <1>9
  <2>3. Past(d)' = {i \in used \cup {ix} : ~ (i = ix)}
    BY <1>1, <1>8, <1>10, <2>2 DEF Past
  <2>4. Past(d)' = used
    BY <1>1, <2>3
  <2> QED
    BY <2>1, <2>4
<1>12. Same
  <2>1. ASSUME NEW x \in Ids
        PROVE  Used(x)' = Used(x)
    <3>1. x.d \in 0 .. Logn
      BY IdsAre
    <3> QED
      BY <1>11, <3>1 DEF Used, Below
  <2>2. ASSUME NEW x \in Inner, NEW b \in {0, 1}
        PROVE  Handed(Kid(x, b))' = Handed(Kid(x, b))
    <3>1. PICK y : y = Kid(x, b)
      OBVIOUS
    <3>2. y.d - 1 \in 0 .. Logn
      <4>1. y.d = x.d + 1 /\ x \in Ids
        BY <3>1, KidsAre
      <4>2. x.d \in 0 .. Logn
        BY <4>1, IdsAre
      <4> QED
        BY <1>9, <4>1, <4>2
    <3>3. Past(y.d - 1)' = Past(y.d - 1)
      BY <1>11, <3>2
    <3>4. Handed(y)' = Handed(y)
      BY <3>3 DEF Handed, Below
    <3> QED
      BY <3>1, <3>4
  <2> QED
    BY <2>1, <2>2 DEF Same
<1>13. BobInv(eids, sids)'
  <2>1. ASSUME NEW x \in Inner
        PROVE  StacksFilled(x)'
    <3>1. StacksFilled(x)
      BY <1>6, NothingToDo DEF BobInv
    <3>2. x \in Ids
      BY DEF Inner
    <3> QED
      BY <1>3, <1>12, <3>1, <3>2 DEF StacksFilled, StackFor, Same
  <2>2. ASSUME NEW x \in Ids
        PROVE  resource_positions'[NodeOf(x).rp] = At(x, Used(x)')
    <3>1. resource_positions[NodeOf(x).rp] = At(x, Used(x))
      BY <1>6, NothingToDo DEF BobInv
    <3> QED
      BY <1>3, <1>12, <3>1 DEF Same
  <2> QED
    BY <1>3, <1>6, <2>1, <2>2 DEF BobInv
<1>14. Here' = RootId
  <2>1. ix \in Below(RootId) /\ Size(RootId) = PowerOf2[Logn] /\ RootId.k = 0
    BY BelowRoot, RootIs DEF RootId, N
  <2>2. ix \div PowerOf2[Logn] = 0
    BY <2>1 DEF Below
  <2> QED
    BY <1>8, <1>9, <1>10, <2>2 DEF Here, RootId
<1>15. Used(RootId)' = timer
  <2>1. Past(Logn) = used /\ timer = Cardinality(used)
    BY <1>9, <1>11 DEF AccessInv
  <2>2. RootId.d = 0 /\ 0 \in 0 .. Logn
    BY <1>9 DEF RootId
  <2>3. Past(RootId.d) = used
    BY <1>11, <2>2
  <2>4. used \cap Below(RootId) = used
    BY BelowRoot DEF AccessInv
  <2>5. Used(RootId) = timer
    BY <2>1, <2>3, <2>4 DEF Used
  <2> QED
    BY <1>12, <2>5, RootIs DEF Same
<1>16. AccessInv'
  <2>1. used' \in SUBSET (0 .. N - 1)
    BY <1>1 DEF AccessInv
  <2>2. timer' = Cardinality(Past(Logn))'
    BY <1>3, <1>9, <1>11 DEF AccessInv
  <2>3. saved' = End + timer' + 1
    <3>1. End \in Nat
      BY RootIs, PosIs
    <3> QED
      BY <1>1, <1>3, <1>4, <3>1
  <2>4. at'.ix \in used' /\ Len(at'.path) \in 0 .. Logn /\ Here' \in Ids
    BY <1>1, <1>8, <1>9, <1>14, RootIs
  <2>5. at'.path = PathOf(at'.ix, Len(at'.path))
    BY <1>8, <1>9 DEF PathOf
  <2>6. NodeOf(RootId) = Root /\ LangsOf(RootId)[timer + 1] = RootLanguages[timer + 1]
    BY RootIs
  <2>7. at' = [node |-> NodeOf(Here'), ix |-> at'.ix, path |-> at'.path,
               lang |-> {LangsOf(Here')[Used(Here)' + 1]}]
    <3>1. Used(Here)' = timer
      BY <1>14, <1>15 DEF Used, Below
    <3>2. at' = [node |-> Root, ix |-> at'.ix, path |-> at'.path, lang |-> {RootLanguages[timer + 1]}]
      BY <1>2, <1>8
    <3> QED
      BY <1>14, <2>6, <3>1, <3>2
  <2>8. gPending' = << >> /\ sPending' = << >>
    BY <1>1, <1>3, <1>5
  <2> QED
    BY <1>8, <2>1, <2>2, <2>3, <2>4, <2>5, <2>7, <2>8 DEF AccessInv
<1> QED
  BY <1>7, <1>13, <1>16

\* The material read is that of the use Alice garbled it for
LEMMA ReadIs ==
  ASSUME NEW ids \in Seq(Ids), AliceInv(ids), AccessInv, Busy, gcode' = gcode,
         NEW x, x = Here, Used(x) \in Nat, Used(x) < Size(x),
         read' = [position |-> At(x, Used(x)), material |-> Material(NodeOf(x), Used(x), at.lang)]
  PROVE  Aligned'
<1>1. ids = << >>
  <2>1. DOMAIN gPending = 1 .. Len(ids) /\ gPending = << >>
    BY DEF AliceInv, AccessInv
  <2> QED
    BY <2>1, CallsLeft
<1>2. x \in Ids /\ at.lang = {LangsOf(x)[Used(x) + 1]} /\ Size(x) \in Nat
  BY HereIs, IdsAre
<1>3. Used(x) \in Uses(x)
  BY <1>2 DEF Uses
<1>4. LeftFor(x, Used(x))
  BY <1>1, <1>2, <1>3, NothingToDo DEF AliceInv
<1> DEFINE place == At(x, Used(x))
           what == Material(NodeOf(x), Used(x), at.lang)
<1>5. place \in DOMAIN gcode /\ gcode[place] = what
  BY <1>2, <1>4 DEF LeftFor
<1>6. read' = [position |-> place, material |-> what]
  OBVIOUS
<1> HIDE DEF place, what
<1>7. read'.position = place /\ read'.material = what
  BY <1>6
<1> QED
  BY <1>5, <1>7 DEF Aligned

\* The position of the node he leaves goes on behind the use he made of it
LEMMA PositionsGrow ==
  ASSUME AccessInv, Leaves, NEW h, h = Here,
         DOMAIN resource_positions = 0 .. 2 * N - 2,
         \A x \in Ids : resource_positions[NodeOf(x).rp] = At(x, Used(x)),
         resource_positions' = [resource_positions EXCEPT ![NodeOf(h).rp] = AfterUse(NodeOf(h), Used(h))]
  PROVE  /\ \A x \in Ids : resource_positions'[NodeOf(x).rp] = At(x, Used(x)')
         /\ DOMAIN resource_positions' = 0 .. 2 * N - 2
<1>1. h \in Ids /\ Used(h) \in Nat /\ Used(h)' = Used(h) + 1
  BY HereIs, UsesGrow DEF Leaves
<1> DEFINE rp == NodeOf(h).rp
           next == AfterUse(NodeOf(h), Used(h))
<1>2. next = At(h, Used(h) + 1)
  <2> DEFINE u == Used(h)
             ht == Height(h)
  <2>1. next = At(h, u) + UseCost(Size(h), u)
    BY <1>1, NodeIs DEF AfterUse
  <2>2. Size(h) = PowerOf2[ht] /\ ht \in Nat /\ u \in Nat /\ PosOf(h) \in Nat
    BY <1>1, IdsAre, NodeIs DEF Size
  <2> HIDE DEF u, ht
  <2>3. /\ CostUntil(PowerOf2[ht], u) \in Nat
        /\ CostUntil(PowerOf2[ht], u + 1) = CostUntil(PowerOf2[ht], u) + UseCost(PowerOf2[ht], u)
        /\ UseCost(PowerOf2[ht], u) \in Nat
    BY <2>2, CostIs, UseCosts
  <2>4. At(h, u) + UseCost(Size(h), u) = At(h, u + 1)
    BY <2>2, <2>3 DEF At
  <2> QED
    BY <2>1, <2>4 DEF u
<1>3. resource_positions' = [resource_positions EXCEPT ![rp] = next]
  OBVIOUS
<1>4. rp \in 0 .. 2 * N - 2 /\ \A x \in Ids : NodeOf(x).rp \in 0 .. 2 * N - 2 /\ (x # h => NodeOf(x).rp # rp)
  BY <1>1, RpIs
<1> HIDE DEF rp, next
<1>5. DOMAIN resource_positions' = 0 .. 2 * N - 2
  BY <1>3
<1>6. ASSUME NEW x \in Ids
      PROVE  resource_positions'[NodeOf(x).rp] = At(x, Used(x)')
  <2>1. CASE x = h
    <3>1. resource_positions'[rp] = next
      BY <1>3, <1>4
    <3> QED
      BY <1>1, <1>2, <2>1, <3>1 DEF rp
  <2>2. CASE x # h
    <3>1. resource_positions'[NodeOf(x).rp] = resource_positions[NodeOf(x).rp]
      BY <1>3, <1>4, <2>2
    <3>2. Used(x)' = Used(x)
      BY <2>2, UsesGrow
    <3> QED
      BY <3>1, <3>2
  <2> QED
    BY <2>1, <2>2
<1> QED
  BY <1>5, <1>6

\* What is left of a path
LEMMA PathIs ==
  ASSUME NEW n \in Nat \ {0}, NEW ix
  PROVE  /\ Len(PathOf(ix, n)) = n /\ Head(PathOf(ix, n)) = Bit(ix, n - 1)
         /\ Len(Tail(PathOf(ix, n))) = n - 1 /\ Tail(PathOf(ix, n)) = PathOf(ix, n - 1)
<1> DEFINE bits == {Bit(ix, n - m) : m \in 1 .. n}
           bit(j) == Bit(ix, n - j)
           path == PathOf(ix, n)
           rest == [j \in 1 .. n - 1 |-> bit(j + 1)]
<1>1. \A j \in 1 .. n : bit(j) \in bits
  OBVIOUS
<1>2. path = [j \in 1 .. n |-> bit(j)]
  BY DEF PathOf
<1>3. bit(1) = Bit(ix, n - 1)
  OBVIOUS
<1>4. rest = PathOf(ix, n - 1)
  <2>1. \A j \in 1 .. n - 1 : n - (j + 1) = (n - 1) - j
    OBVIOUS
  <2>2. \A j \in 1 .. n - 1 : bit(j + 1) = Bit(ix, (n - 1) - j)
    BY <2>1
  <2> HIDE DEF bit
  <2> QED
    BY <2>2 DEF PathOf
<1> HIDE DEF bits, bit, path
<1>5. path \in Seq(bits) /\ Len(path) = n
  BY <1>1, <1>2
<1>6. path # << >> /\ Head(path) = bit(1)
  BY <1>2, <1>5
<1>7. Tail(path) \in Seq(bits) /\ Len(Tail(path)) = n - 1 /\ \A j \in 1 .. n - 1 : Tail(path)[j] = path[j + 1]
  BY <1>5, <1>6, HeadTailProperties
<1>8. Tail(path) = rest
  <2>1. rest \in Seq(bits) /\ Len(rest) = n - 1
    BY <1>1
  <2>2. \A j \in 1 .. n - 1 : rest[j] = path[j + 1]
    BY <1>2
  <2> HIDE DEF rest
  <2> QED
    BY <1>7, <2>1, <2>2, SeqEqual
<1> QED
  BY <1>3, <1>4, <1>5, <1>6, <1>7, <1>8 DEF path

LEMMA PoppedIs ==
  ASSUME NEW words, NEW uses \in Nat, NEW c, NEW s, s = [words |-> words, timer |-> uses, content |-> c]
  PROVE  /\ AfterPop(FALSE, s) = [words |-> words, timer |-> uses + 1, content |-> c]
         /\ c # << >> => AfterPop(TRUE, s) = [words |-> words, timer |-> uses + 1, content |-> Tail(c)]
<1>1. s.timer = uses /\ s.content = c
  OBVIOUS
<1>2. ASSUME NEW rest
      PROVE  [s EXCEPT !.timer = uses + 1, !.content = rest] =
               [words |-> words, timer |-> uses + 1, content |-> rest]
  <2> DEFINE next == uses + 1
  <2> HIDE DEF next
  <2>1. PICK t : t = [s EXCEPT !.timer = next]
    OBVIOUS
  <2>2. t = [words |-> words, timer |-> next, content |-> c]
    BY <2>1
  <2>3. [s EXCEPT !.timer = next, !.content = rest] = [t EXCEPT !.content = rest]
    BY <2>1
  <2>4. [t EXCEPT !.content = rest] = [words |-> words, timer |-> next, content |-> rest]
    BY <2>2
  <2> QED
    BY <2>3, <2>4 DEF next
<1>3. AfterPop(FALSE, s) = [s EXCEPT !.timer = uses + 1, !.content = c]
  BY <1>1 DEF AfterPop
<1>4. c # << >> => AfterPop(TRUE, s) = [s EXCEPT !.timer = uses + 1, !.content = Tail(c)]
  BY <1>1 DEF AfterPop
<1> QED
  BY <1>2, <1>3, <1>4

\* A stack is queried: only a true condition takes a word
PopsAt(place, words, uses, handed, s) ==
  /\ Popped(FALSE, s) = {} /\ AfterPop(FALSE, s) = StackAfter(place, words, uses + 1, handed)
  /\ handed < words =>
       /\ Popped(TRUE, s) = {<<place, handed + 1>>}
       /\ AfterPop(TRUE, s) = StackAfter(place, words, uses + 1, handed + 1)

LEMMA PopAt ==
  ASSUME NEW words \in Nat, NEW uses \in Nat, NEW handed \in Nat, handed <= words, NEW place,
         NEW s, s = StackAfter(place, words, uses, handed)
  PROVE  PopsAt(place, words, uses, handed, s)
<1> DEFINE lang(i) == <<place, handed + i>>
           V == {lang(i) : i \in Nat}
           c == [i \in 1 .. words - handed |-> lang(i)]
           rest == [i \in 1 .. words - (handed + 1) |-> <<place, (handed + 1) + i>>]
<1>1. s = [words |-> words, timer |-> uses, content |-> c]
  BY DEF StackAfter
<1>2. Popped(FALSE, s) = {}
  BY DEF Popped
<1>3. AfterPop(FALSE, s) = StackAfter(place, words, uses + 1, handed)
  <2> HIDE DEF c
  <2>1. AfterPop(FALSE, s) = [words |-> words, timer |-> uses + 1, content |-> c]
    BY <1>1, PoppedIs
  <2> QED
    BY <2>1 DEF StackAfter, c
<1>4. ASSUME handed < words
      PROVE  /\ Popped(TRUE, s) = {<<place, handed + 1>>}
             /\ AfterPop(TRUE, s) = StackAfter(place, words, uses + 1, handed + 1)
  <2>1. words - handed \in Nat /\ words - handed >= 1 /\ (words - handed) - 1 = words - (handed + 1)
    BY <1>4
  <2>2. \A i \in Nat : lang(i) \in V
    OBVIOUS
  <2>3. lang(1) = <<place, handed + 1>>
    OBVIOUS
  <2>4. rest = [i \in 1 .. (words - handed) - 1 |-> lang(i + 1)]
    <3>1. \A i \in Nat : (handed + 1) + i = handed + (i + 1)
      OBVIOUS
    <3> QED
      BY <2>1, <3>1
  <2> HIDE DEF lang, V
  <2>5. c \in Seq(V) /\ Len(c) = words - handed
    BY <2>1, <2>2
  <2>6. c # << >> /\ Head(c) = lang(1)
    BY <2>1, <2>5
  <2>7. Tail(c) \in Seq(V) /\ Len(Tail(c)) = (words - handed) - 1
        /\ \A i \in 1 .. (words - handed) - 1 : Tail(c)[i] = c[i + 1]
    BY <2>5, <2>6, HeadTailProperties
  <2>8. rest \in Seq(V) /\ Len(rest) = (words - handed) - 1
        /\ \A i \in 1 .. (words - handed) - 1 : rest[i] = c[i + 1]
    <3> DEFINE m == (words - handed) - 1
    <3>1. m \in Nat /\ m + 1 = words - handed
      BY <2>1
    <3> HIDE DEF m
    <3>2. rest = [i \in 1 .. m |-> lang(i + 1)]
      BY <2>4 DEF m
    <3>3. rest \in Seq(V) /\ Len(rest) = m
      <4> HIDE DEF rest
      <4>1. rest \in [1 .. m -> V]
        BY <2>2, <3>2
      <4> QED
        BY <3>1, <3>2, <4>1
    <3>4. c = [i \in 1 .. m + 1 |-> lang(i)]
      BY <3>1
    <3> HIDE DEF rest, c
    <3>5. \A i \in 1 .. m : rest[i] = c[i + 1]
      BY <3>1, <3>2, <3>4
    <3> QED
      BY <3>3, <3>5 DEF m
  <2> HIDE DEF c, rest
  <2>9. Tail(c) = rest
    BY <2>7, <2>8, SeqEqual
  <2>10. Popped(TRUE, s) = {lang(1)}
    BY <1>1, <2>6 DEF Popped
  <2>11. AfterPop(TRUE, s) = [words |-> words, timer |-> uses + 1, content |-> rest]
    BY <1>1, <2>6, <2>9, PoppedIs
  <2> QED
    BY <2>3, <2>10, <2>11 DEF StackAfter, rest
<1> QED
  BY <1>2, <1>3, <1>4 DEF PopsAt

LEMMA LeafStep ==
  ASSUME NEW ids \in Seq(Ids), AliceInv(ids), NEW eids \in Seq(Ids), NEW sids \in Seq(Ids),
         BobInv(eids, sids), AccessInv, Leaf
  PROVE  BobInv(eids, sids)' /\ AccessInv' /\ Aligned' /\ FindsItsLeaf'
<1>1. PICK h : h = Here
  OBVIOUS
<1>2. /\ at # << >> /\ IsLeaf(at.node) /\ Busy
      /\ gPending' = gPending /\ gcode' = gcode /\ ePending' = ePending /\ sPending' = sPending
      /\ scost' = scost /\ stacks' = stacks /\ saved' = saved /\ used' = used
      /\ at' = << >> /\ timer' = timer + 1
      /\ ecost' = saved
  BY DEF Leaf, Busy, alice, setup, Return
<1>3. /\ h \in Ids /\ Depth = Logn /\ h.d = Logn /\ at.node = NodeOf(h) /\ Height(h) = 0
      /\ Len(at.path) = 0 /\ Size(h) = 1 /\ h.k = at.ix \div Size(h) /\ at.ix \in Nat
  <2>1. /\ h \in Ids /\ Depth = Logn /\ h.d = Logn /\ at.node = NodeOf(h)
        /\ h.k = at.ix \div Size(h) /\ at.ix \in Nat /\ Height(h) = Len(at.path)
    BY <1>1, <1>2, HereIs, RootPlaced
  <2>2. Height(h) = 0
    BY <2>1, RootPlaced DEF Height
  <2> QED
    BY <2>1, <2>2, PowerOf2Is DEF Size
<1>4. Leaves
  BY <1>2, <1>3 DEF Leaves
<1>5. Used(h) = 0
  BY <1>1, <1>3, <1>4, UsesGrow
<1>6. sPending = << >> /\ eids = << >> /\ sids = << >>
  BY <1>2, CallsMade DEF AccessInv
<1>7. /\ DOMAIN resource_positions = 0 .. 2 * N - 2
      /\ \A x \in Ids : resource_positions[NodeOf(x).rp] = At(x, Used(x))
      /\ \A x \in Inner : StacksFilled(x)
  BY <1>6, NothingToDo DEF BobInv
<1>8. /\ read' = [position |-> resource_positions[NodeOf(h).rp], material |-> Material(NodeOf(h), 0, at.lang)]
      /\ resource_positions' = [resource_positions EXCEPT ![NodeOf(h).rp] = AfterUse(NodeOf(h), 0)]
      /\ found' = <<at.ix, NodeOf(h).start>>
  <2> DEFINE Ends(u) ==
               /\ read' = [position |-> resource_positions[u.rp], material |-> Material(u, 0, at.lang)]
               /\ resource_positions' = [resource_positions EXCEPT ![u.rp] = AfterUse(u, 0)]
               /\ found' = <<at.ix, u.start>>
  <2>1. Ends(at.node)
    BY DEF Leaf, Reads
  <2> HIDE DEF Ends
  <2>2. Ends(NodeOf(h))
    BY <1>3, <2>1
  <2> QED
    BY <2>2 DEF Ends
<1>9. Aligned'
  <2>1. read' = [position |-> At(h, Used(h)), material |-> Material(NodeOf(h), Used(h), at.lang)]
    BY <1>3, <1>5, <1>7, <1>8
  <2>2. Used(h) \in Nat /\ Used(h) < Size(h)
    BY <1>3, <1>5
  <2> QED
    BY <1>1, <1>2, <2>1, <2>2, ReadIs
<1>10. FindsItsLeaf'
  <2>1. NodeOf(h).start = at.ix
    <3>1. NodeOf(h).start = h.k * Size(h) /\ h.k \in Nat
      BY <1>3, NodeIs, IdsAre
    <3>2. \A k \in Nat : k \div 1 = k
      OBVIOUS
    <3> QED
      BY <1>3, <3>1, <3>2
  <2>2. found'[1] = at.ix /\ found'[2] = NodeOf(h).start
    <3> DEFINE start == NodeOf(h).start
               ix == at.ix
    <3>1. found' = <<ix, start>>
      BY <1>8
    <3> HIDE DEF start, ix
    <3>2. found'[1] = ix /\ found'[2] = start
      BY <3>1
    <3> QED
      BY <3>2 DEF start, ix
  <2> QED
    BY <2>1, <2>2 DEF FindsItsLeaf
<1>11. /\ \A x \in Ids : resource_positions'[NodeOf(x).rp] = At(x, Used(x)')
       /\ DOMAIN resource_positions' = 0 .. 2 * N - 2
  <2>1. resource_positions' = [resource_positions EXCEPT ![NodeOf(h).rp] = AfterUse(NodeOf(h), Used(h))]
    BY <1>5, <1>8
  <2> QED
    BY <1>1, <1>4, <1>7, <2>1, PositionsGrow
<1>12. ASSUME NEW x \in Inner
       PROVE  StacksFilled(x)'
  <2>1. x \in Ids /\ x # h
    BY <1>3, RootPlaced DEF Inner
  <2>2. Used(x)' = Used(x) /\ \A b \in {0, 1} : Handed(Kid(x, b))' = Handed(Kid(x, b))
    BY <1>1, <1>4, <2>1, UsesGrow
  <2> QED
    BY <1>2, <1>7, <2>2 DEF StacksFilled, StackFor
<1>13. BobInv(eids, sids)'
  BY <1>2, <1>6, <1>11, <1>12 DEF BobInv
<1>14. AccessInv'
  <2>1. used' \in SUBSET (0 .. N - 1)
    BY <1>2 DEF AccessInv
  <2>2. timer' = Cardinality(Past(Logn))'
    BY <1>2, <1>3, <1>4, UsesGrow DEF AccessInv
  <2>3. ~ Busy'
    BY <1>2 DEF Busy
  <2>4. ecost' = End + timer'
    <3>1. saved = End + timer + 1
      BY <1>2 DEF AccessInv
    <3>2. timer \in Nat /\ End \in Nat
      BY TimerIs, RootIs, PosIs
    <3> QED
      BY <1>2, <3>1, <3>2
  <2> QED
    BY <2>1, <2>2, <2>3, <2>4 DEF AccessInv
<1> QED
  BY <1>9, <1>10, <1>13, <1>14

LEMMA MovedOn ==
  ASSUME NEW node, NEW ix, NEW path, NEW lang, NEW node2, NEW path2, NEW lang2,
         NEW a, a = [node |-> node, ix |-> ix, path |-> path, lang |-> lang]
  PROVE  [a EXCEPT !.node = node2, !.path = path2, !.lang = lang2]
           = [node |-> node2, ix |-> ix, path |-> path2, lang |-> lang2]
<1>1. PICK t : t = [a EXCEPT !.node = node2]
  OBVIOUS
<1>2. PICK u : u = [t EXCEPT !.path = path2]
  OBVIOUS
<1>3. t = [node |-> node2, ix |-> ix, path |-> path, lang |-> lang]
  BY <1>1
<1>4. u = [node |-> node2, ix |-> ix, path |-> path2, lang |-> lang]
  BY <1>2, <1>3
<1>5. [u EXCEPT !.lang = lang2] = [node |-> node2, ix |-> ix, path |-> path2, lang |-> lang2]
  BY <1>4
<1>6. [a EXCEPT !.node = node2, !.path = path2, !.lang = lang2] = [u EXCEPT !.lang = lang2]
  BY <1>1, <1>2
<1> QED
  BY <1>5, <1>6

LEMMA DescendStep ==
  ASSUME NEW ids \in Seq(Ids), AliceInv(ids), NEW eids \in Seq(Ids), NEW sids \in Seq(Ids),
         BobInv(eids, sids), AccessInv, Descend
  PROVE  BobInv(eids, sids)' /\ AccessInv' /\ Aligned'
<1>1. PICK h : h = Here
  OBVIOUS
<1>L. PICK L : L = Len(at.path)
  OBVIOUS
<1>b. PICK b : b = Bit(at.ix, L - 1)
  OBVIOUS
<1> DEFINE v == NodeOf(h)
           c == Kid(h, b)
           s0 == stacks[v.st]
           s1 == stacks[v.st + 1]
<1>2. /\ at # << >> /\ ~ IsLeaf(at.node) /\ Busy
      /\ gPending' = gPending /\ gcode' = gcode /\ ePending' = ePending /\ sPending' = sPending
      /\ scost' = scost /\ saved' = saved /\ used' = used /\ timer' = timer
  BY DEF Descend, Busy, alice, setup
<1>3. /\ h \in Inner /\ h \in Ids /\ h.d = Depth /\ at.node = v /\ Height(h) = L
      /\ Size(h) = PowerOf2[L] /\ at.ix \in Below(h) /\ at.ix \in 0 .. N - 1 /\ at.ix \in Nat
      /\ at.lang = {LangsOf(h)[Used(h) + 1]}
  BY <1>1, <1>2, <1>L, HereIs, RootPlaced DEF Inner
<1>4. L \in Nat \ {0} /\ L - 1 \in 0 .. Logn /\ L \in 0 .. Logn /\ Logn \in Nat
      /\ Depth = Logn - L /\ Depth # Logn /\ Depth + 1 \in 0 .. Logn
  BY <1>3, <1>L, InnerHeights, RootPlaced DEF Depth
<1>5. at.path = PathOf(at.ix, L)
  BY <1>2, <1>L DEF AccessInv
<1>6. /\ Head(at.path) = b /\ Len(Tail(at.path)) = L - 1
      /\ Tail(at.path) = PathOf(at.ix, L - 1)
  <2>1. L \in Nat \ {0}
    BY <1>4
  <2> QED
    BY <1>b, <1>5, <2>1, PathIs
<1>7. /\ b \in {0, 1} /\ c \in Ids /\ c.d = Depth + 1 /\ Size(h) = 2 * Size(c)
      /\ \A e \in {0, 1} : at.ix \in Below(Kid(h, e)) <=> b = e
      /\ at.ix \in Below(c) /\ Height(c) = L - 1
  <2>1. b \in {0, 1}
    <3> DEFINE q == at.ix \div PowerOf2[L - 1]
    <3>1. PICK p : p = PowerOf2[L - 1]
      OBVIOUS
    <3>2. q \in Nat
      <4>1. L - 1 \in Nat
        BY <1>4
      <4>2. p \in Nat \ {0}
        BY <3>1, <4>1, PowersAre
      <4>3. PICK ix \in Nat : ix = at.ix
        BY <1>3
      <4>4. p \in Nat /\ p > 0
        BY <4>2
      <4>5. \A a \in Nat : a \div p \in Nat
        BY <4>4
      <4> QED
        BY <3>1, <4>3, <4>5
    <3>3. b = q % 2
      BY <1>b DEF Bit
    <3> HIDE DEF q
    <3> QED
      BY <3>2, <3>3, Halved
  <2> HIDE DEF c
  <2>2. \A e \in {0, 1} : at.ix \in Below(Kid(h, e)) <=> e = b
    BY <1>3, <1>b, KidBelow
  <2>3. c \in Ids /\ c.d = Depth + 1 /\ Size(h) = 2 * Size(c) /\ Height(c) = L - 1
    BY <1>3, <2>1, KidsAre DEF c
  <2>4. at.ix \in Below(c)
    BY <2>1, <2>2 DEF c
  <2> QED
    BY <2>1, <2>2, <2>3, <2>4
<1>8. sPending = << >> /\ eids = << >> /\ sids = << >>
  BY <1>2, CallsMade DEF AccessInv
<1>9. /\ DOMAIN resource_positions = 0 .. 2 * N - 2
      /\ \A x \in Ids : resource_positions[NodeOf(x).rp] = At(x, Used(x))
      /\ DOMAIN stacks = 0 .. 2 * N - 3
      /\ \A x \in Inner : StacksFilled(x)
  BY <1>8, NothingToDo DEF BobInv
<1>10. /\ s0 = StackAfter(v.st, Size(Kid(h, 0)), Used(h), Handed(Kid(h, 0)))
       /\ s1 = StackAfter(v.st + 1, Size(Kid(h, 1)), Used(h), Handed(Kid(h, 1)))
       /\ s0.timer = Used(h)
  <2>1. StacksFilled(h)
    BY <1>3, <1>9
  <2>2. /\ s0 = StackAfter(v.st, Size(Kid(h, 0)), Used(h), Handed(Kid(h, 0)))
        /\ s1 = StackAfter(v.st + 1, Size(Kid(h, 1)), Used(h), Handed(Kid(h, 1)))
    BY <2>1 DEF StacksFilled, StackFor
  <2> QED
    BY <2>2 DEF StackAfter
<1>11. /\ read' = [position |-> resource_positions[v.rp], material |-> Material(v, s0.timer, at.lang)]
       /\ stacks' = [stacks EXCEPT ![v.st] = AfterPop(~ (b = 1), s0), ![v.st + 1] = AfterPop(b = 1, s1)]
       /\ at' = [at EXCEPT !.node = IF b = 1 THEN Right(v) ELSE Left(v),
                           !.path = Tail(@),
                           !.lang = Popped(~ (b = 1), s0) \cup Popped(b = 1, s1)]
       /\ resource_positions' = [resource_positions EXCEPT ![v.rp] = AfterUse(v, s0.timer)]
  <2> DEFINE Goes(u, d) ==
         /\ read' = [position |-> resource_positions[u.rp], material |-> Material(u, stacks[u.st].timer, at.lang)]
         /\ ecost' = AfterUse(u, stacks[u.st].timer)
         /\ stacks' = [stacks EXCEPT ![u.st] = AfterPop(~ (d = 1), stacks[u.st]),
                                     ![u.st + 1] = AfterPop(d = 1, stacks[u.st + 1])]
         /\ at' = [at EXCEPT !.node = IF d = 1 THEN Right(u) ELSE Left(u),
                             !.path = Tail(@),
                             !.lang = Popped(~ (d = 1), stacks[u.st]) \cup Popped(d = 1, stacks[u.st + 1])]
         /\ resource_positions' = [resource_positions EXCEPT ![u.rp] = ecost']
  <2>1. Goes(at.node, Head(at.path))
    BY DEF Descend, Reads
  <2> HIDE DEF Goes
  <2>2. Goes(v, b)
    BY <1>3, <1>6, <2>1
  <2> HIDE DEF v
  <2> QED
    BY <2>2 DEF Goes
<1> DEFINE node2 == IF b = 1 THEN Right(v) ELSE Left(v)
           lang2 == Popped(~ (b = 1), s0) \cup Popped(b = 1, s1)
           left2 == AfterPop(~ (b = 1), s0)
           right2 == AfterPop(b = 1, s1)
<1>12. /\ at' = [node |-> node2, ix |-> at.ix, path |-> Tail(at.path), lang |-> lang2]
       /\ at'.ix = at.ix /\ at'.path = Tail(at.path) /\ at' # << >>
  <2> DEFINE node1 == NodeOf(Here)
             lang1 == {LangsOf(Here)[Used(Here) + 1]}
             path2 == Tail(at.path)
  <2>1. at = [node |-> node1, ix |-> at.ix, path |-> at.path, lang |-> lang1]
    BY <1>2 DEF AccessInv
  <2>2. at' = [at EXCEPT !.node = node2, !.path = Tail(at.path), !.lang = lang2]
    <3> HIDE DEF node2, lang2
    <3>1. at' = [at EXCEPT !.node = node2, !.path = Tail(@), !.lang = lang2]
      BY <1>11 DEF node2, lang2
    <3>2. PICK t : t = [at EXCEPT !.node = node2]
      OBVIOUS
    <3>3. t.path = at.path
      <4> HIDE DEF node1, lang1
      <4>1. PICK ix : ix = at.ix
        OBVIOUS
      <4>2. PICK path : path = at.path
        OBVIOUS
      <4>3. at = [node |-> node1, ix |-> ix, path |-> path, lang |-> lang1]
        BY <2>1, <4>1, <4>2
      <4> QED
        BY <3>2, <4>2, <4>3
    <3> QED
      BY <3>1, <3>2, <3>3
  <2> HIDE DEF node1, lang1, node2, lang2, path2
  <2>3. at' = [node |-> node2, ix |-> at.ix, path |-> path2, lang |-> lang2]
    <3>1. PICK ix : ix = at.ix
      OBVIOUS
    <3>2. PICK path : path = at.path
      OBVIOUS
    <3>3. at = [node |-> node1, ix |-> ix, path |-> path, lang |-> lang1]
      BY <2>1, <3>1, <3>2
    <3>4. at' = [at EXCEPT !.node = node2, !.path = path2, !.lang = lang2]
      BY <2>2 DEF path2
    <3>5. at' = [node |-> node2, ix |-> ix, path |-> path2, lang |-> lang2]
      BY <3>3, <3>4, MovedOn
    <3> QED
      BY <3>1, <3>5
  <2>4. at'.ix = at.ix /\ at'.path = path2 /\ at' # << >>
    <3>1. at'.ix = at.ix /\ at'.path = path2
      BY <2>3
    <3>2. DOMAIN at' # {}
      BY <2>3
    <3> QED
      BY <3>1, <3>2
  <2> QED
    BY <2>3, <2>4 DEF path2
<1> HIDE DEF v, c, s0, s1, node2, lang2, left2, right2
<1>13. Leaves
  BY <1>2, <1>4, <1>6, <1>12, <1>L DEF Leaves
<1>14. /\ Used(h) \in Nat /\ Used(h)' = Used(h) + 1 /\ Used(h) < Size(h)
       /\ Used(c)' = Handed(c)
       /\ \A e \in {0, 1} : /\ Handed(Kid(h, e)) \in Nat /\ Handed(Kid(h, e)) <= Size(Kid(h, e))
                            /\ Size(Kid(h, e)) \in Nat
                            /\ b = e => /\ Handed(Kid(h, e))' = Handed(Kid(h, e)) + 1
                                        /\ Handed(Kid(h, e)) < Size(Kid(h, e))
                            /\ b # e => Handed(Kid(h, e))' = Handed(Kid(h, e))
  <2>1. Used(h) \in Nat /\ Used(h)' = Used(h) + 1 /\ Used(h) < Size(h)
    BY <1>1, <1>3, <1>13, UsesGrow
  <2>2. ASSUME NEW e \in {0, 1}
        PROVE  /\ Handed(Kid(h, e)) \in Nat /\ Handed(Kid(h, e)) <= Size(Kid(h, e))
               /\ Size(Kid(h, e)) \in Nat
               /\ b = e => /\ Handed(Kid(h, e))' = Handed(Kid(h, e)) + 1
                           /\ Handed(Kid(h, e)) < Size(Kid(h, e))
                           /\ Used(Kid(h, e)) = Handed(Kid(h, e))
               /\ b # e => Handed(Kid(h, e))' = Handed(Kid(h, e))
    <3>1. Kid(h, e) \in Ids
      BY <1>3, KidsAre
    <3>2. Size(Kid(h, e)) \in Nat
      BY <3>1, IdsAre
    <3>3. at.ix \in Below(Kid(h, e)) <=> b = e
      BY <1>7
    <3> QED
      BY <1>1, <1>3, <1>13, <3>2, <3>3, UsesGrow
  <2>3. Used(c)' = Handed(c)
    <3>1. Used(c) = Handed(c)
      BY <1>7, <2>2 DEF c
    <3>2. c # h
      BY <1>3, <1>4, <1>7
    <3>3. Used(c)' = Used(c)
      BY <1>1, <1>7, <1>13, <3>2, UsesGrow
    <3> QED
      BY <3>1, <3>3
  <2> QED
    BY <2>1, <2>2, <2>3
<1>15. v.st \in Nat /\ v.st + 1 \in Int /\ v.st \in Int /\ v.size \div 2 = Size(c)
       /\ Size(Kid(h, 0)) = Size(c) /\ Size(Kid(h, 1)) = Size(c)
  <2>1. v \in Nodes
    BY <1>3, NodeIs DEF v
  <2>2. v.st \in Nat
    BY <2>1 DEF Nodes
  <2>3. \A e \in {0, 1} : Size(Kid(h, e)) = v.size \div 2
    BY <1>3, KidsAre DEF v
  <2> QED
    BY <1>7, <2>2, <2>3 DEF c
<1>16. /\ left2 = StackAfter(v.st, Size(Kid(h, 0)), Used(h)', Handed(Kid(h, 0))')
       /\ right2 = StackAfter(v.st + 1, Size(Kid(h, 1)), Used(h)', Handed(Kid(h, 1))')
       /\ lang2 = {<<v.st + b, Handed(c) + 1>>}
  <2> DEFINE w == Size(c)
             u == Used(h)
             l == Handed(Kid(h, 0))
             r == Handed(Kid(h, 1))
  <2>1. w \in Nat /\ u \in Nat /\ l \in Nat /\ l <= w /\ r \in Nat /\ r <= w
    BY <1>14, <1>15
  <2>2. s0 = StackAfter(v.st, w, u, l) /\ s1 = StackAfter(v.st + 1, w, u, r)
    BY <1>10, <1>15
  <2>3. PICK st : st = v.st
    OBVIOUS
  <2>4. st \in Int /\ st + 1 \in Int
    BY <1>15, <2>3
  <2> HIDE DEF w, u, l, r
  <2>9. s0 = StackAfter(st, w, u, l) /\ s1 = StackAfter(st + 1, w, u, r)
    BY <2>2, <2>3
  <2>5. PopsAt(st, w, u, l, s0)
    BY <2>1, <2>9, PopAt
  <2>6. PopsAt(st + 1, w, u, r, s1)
    BY <2>1, <2>9, PopAt
  <2>7. CASE b = 0
    <3>1. (~ (b = 1)) = TRUE /\ (b = 1) = FALSE
      BY <2>7
    <3>2. /\ left2 = AfterPop(TRUE, s0) /\ right2 = AfterPop(FALSE, s1)
          /\ lang2 = Popped(TRUE, s0) \cup Popped(FALSE, s1)
      BY <3>1, Zenon DEF left2, right2, lang2
    <3>3. Handed(c) = l /\ l < w /\ Handed(Kid(h, 0))' = l + 1 /\ Handed(Kid(h, 1))' = r
      BY <1>14, <1>15, <2>7 DEF c, l, r, w
    <3>4. Used(h)' = u + 1 /\ st + b = st
      BY <1>14, <2>4, <2>7 DEF u
    <3> QED
      BY <1>15, <2>3, <2>5, <2>6, <3>2, <3>3, <3>4 DEF w, PopsAt
  <2>8. CASE b = 1
    <3>1. (~ (b = 1)) = FALSE /\ (b = 1) = TRUE
      BY <2>8
    <3>2. /\ left2 = AfterPop(FALSE, s0) /\ right2 = AfterPop(TRUE, s1)
          /\ lang2 = Popped(FALSE, s0) \cup Popped(TRUE, s1)
      BY <3>1, Zenon DEF left2, right2, lang2
    <3>3. Handed(c) = r /\ r < w /\ Handed(Kid(h, 0))' = l /\ Handed(Kid(h, 1))' = r + 1
      BY <1>14, <1>15, <2>8 DEF c, l, r, w
    <3>4. Used(h)' = u + 1 /\ st + b = st + 1
      BY <1>14, <2>4, <2>8 DEF u
    <3> QED
      BY <1>15, <2>3, <2>5, <2>6, <3>2, <3>3, <3>4 DEF w, PopsAt
  <2> QED
    BY <1>7, <2>7, <2>8
<1>17. node2 = NodeOf(c) /\ lang2 = {LangsOf(c)[Used(c)' + 1]}
  <2> DEFINE w == v.size \div 2
             u == Used(c)'
  <2>1. u + 1 \in 1 .. w /\ u = Handed(c)
    <3>1. Handed(c) \in Nat /\ Handed(c) < Size(c) /\ Size(c) \in Nat
      BY <1>7, <1>14 DEF c
    <3> QED
      BY <1>14, <1>15, <3>1
  <2>2. LangsOf(c) = Languages(v.st + b, w) /\ node2 = NodeOf(c)
    <3>1. CASE b = 0
      <4>1. NodeOf(Kid(h, 0)) = Left(v) /\ LangsOf(Kid(h, 0)) = Languages(v.st, w)
        BY <1>3, KidsAre DEF v
      <4>2. v.st + b = v.st
        BY <1>15, <3>1
      <4> QED
        BY <3>1, <4>1, <4>2 DEF c, node2
    <3>2. CASE b = 1
      <4>1. NodeOf(Kid(h, 1)) = Right(v) /\ LangsOf(Kid(h, 1)) = Languages(v.st + 1, w)
        BY <1>3, KidsAre DEF v
      <4> QED
        BY <3>2, <4>1 DEF c, node2
    <3> QED
      BY <1>7, <3>1, <3>2
  <2> HIDE DEF w, u
  <2>3. Languages(v.st + b, w)[u + 1] = <<v.st + b, u + 1>>
    BY <2>1 DEF Languages
  <2>4. lang2 = {<<v.st + b, u + 1>>}
    BY <1>16, <2>1
  <2> QED
    BY <2>2, <2>3, <2>4 DEF u
<1>18. Aligned'
  <2>1. read' = [position |-> At(h, Used(h)), material |-> Material(NodeOf(h), Used(h), at.lang)]
    BY <1>3, <1>9, <1>10, <1>11 DEF v
  <2> QED
    BY <1>1, <1>2, <1>14, <2>1, ReadIs
<1>19. /\ \A x \in Ids : resource_positions'[NodeOf(x).rp] = At(x, Used(x)')
       /\ DOMAIN resource_positions' = 0 .. 2 * N - 2
  <2>1. resource_positions' = [resource_positions EXCEPT ![NodeOf(h).rp] = AfterUse(NodeOf(h), Used(h))]
    BY <1>10, <1>11 DEF v
  <2> QED
    BY <1>1, <1>9, <1>13, <2>1, PositionsGrow
<1>20. /\ DOMAIN stacks' = 0 .. 2 * N - 3
       /\ \A x \in Inner : StacksFilled(x)'
  <2> DEFINE st == v.st
  <2>1. stacks' = [stacks EXCEPT ![st] = left2, ![st + 1] = right2]
    BY <1>11 DEF left2, right2
  <2>2. st \in 0 .. 2 * N - 3 /\ st + 1 \in 0 .. 2 * N - 3 /\ st # st + 1
    BY <1>3, <1>15, StIs DEF v
  <2>3. DOMAIN stacks' = 0 .. 2 * N - 3
    BY <1>9, <2>1
  <2>4. ASSUME NEW x \in Inner
        PROVE  StacksFilled(x)'
    <3>1. CASE x = h
      <4> HIDE DEF st
      <4>1. stacks'[st] = left2 /\ stacks'[st + 1] = right2
        BY <1>9, <2>1, <2>2
      <4>2. stacks'[st] = StackFor(st, h, Kid(h, 0))' /\ stacks'[st + 1] = StackFor(st + 1, h, Kid(h, 1))'
        BY <1>16, <4>1 DEF StackFor, st
      <4> QED
        BY <3>1, <4>2 DEF StacksFilled, st, v
    <3>2. CASE x # h
      <4> DEFINE xs == NodeOf(x).st
      <4>1. /\ xs \in 0 .. 2 * N - 3 /\ xs + 1 \in 0 .. 2 * N - 3
            /\ xs # st /\ xs # st + 1 /\ xs + 1 # st /\ xs + 1 # st + 1
        BY <1>3, <3>2, StIs DEF v
      <4>2. Used(x)' = Used(x) /\ \A e \in {0, 1} : Handed(Kid(x, e))' = Handed(Kid(x, e))
        <5>1. x \in Ids
          BY DEF Inner
        <5> QED
          BY <1>1, <1>13, <3>2, <5>1, UsesGrow
      <4>3. StacksFilled(x)
        BY <1>9
      <4> HIDE DEF st, xs
      <4>4. stacks'[xs] = stacks[xs] /\ stacks'[xs + 1] = stacks[xs + 1]
        BY <1>9, <2>1, <4>1
      <4> QED
        BY <4>2, <4>3, <4>4 DEF StacksFilled, StackFor, xs
    <3> QED
      BY <3>1, <3>2
  <2> QED
    BY <2>3, <2>4
<1>21. BobInv(eids, sids)'
  BY <1>2, <1>8, <1>19, <1>20 DEF BobInv
<1>22. Here' = c
  <2>1. Len(at'.path) = L - 1
    BY <1>6, <1>12
  <2>2. Depth' = c.d
    <3>1. Depth' = Logn - (L - 1)
      BY <2>1 DEF Depth
    <3>2. Logn - (L - 1) = (Logn - L) + 1
      BY <1>4
    <3> QED
      BY <1>4, <1>7, <3>1, <3>2
  <2>3. c.k = at.ix \div PowerOf2[L - 1]
    BY <1>7 DEF Below, Size
  <2> QED
    BY <1>7, <1>12, <2>1, <2>2, <2>3, IdsAre DEF Here
<1>23. AccessInv'
  <2>1. Busy' /\ gPending' = << >> /\ sPending' = << >>
    BY <1>2, <1>8, <1>12 DEF Busy, AccessInv
  <2>2. used' \in SUBSET (0 .. N - 1) /\ at'.ix \in used'
    BY <1>2, <1>12 DEF AccessInv
  <2>3. timer' = Cardinality(Past(Logn))'
    BY <1>2, <1>4, <1>13, UsesGrow DEF AccessInv
  <2>4. saved' = End + timer' + 1
    BY <1>2, <1>8 DEF AccessInv
  <2>5. Len(at'.path) = L - 1 /\ Len(at'.path) \in 0 .. Logn /\ Here' \in Ids
    BY <1>4, <1>6, <1>7, <1>12, <1>22
  <2>6. at'.path = PathOf(at'.ix, Len(at'.path))
    BY <1>6, <1>12, <2>5
  <2>7. Used(Here)' = Used(c)'
    BY <1>22 DEF Used, Below, Size, Height
  <2>8. at' = [node |-> NodeOf(Here'), ix |-> at'.ix, path |-> at'.path,
               lang |-> {LangsOf(Here')[Used(Here)' + 1]}]
    BY <1>12, <1>17, <1>22, <2>7
  <2> QED
    BY <2>1, <2>2, <2>3, <2>4, <2>5, <2>6, <2>8 DEF AccessInv
<1> QED
  BY <1>18, <1>21, <1>23
-----------------------------------------------------------------------------
(* The theorems *)

\* The rest of the invariant does not depend on what Alice and the set-up do
LEMMA AccessRests ==
  ASSUME AccessInv, used' = used, at' = at, timer' = timer, saved' = saved,
         gPending = << >> => gPending' = << >>,
         \/ sPending' = sPending /\ ecost' = ecost
         \/ at = << >> /\ timer = 0 /\ (sPending' = << >> => ecost' = End)
  PROVE  AccessInv'
<1>1. /\ Busy' = Busy /\ Depth' = Depth /\ Here' = Here
      /\ \A d : Past(d)' = Past(d)
      /\ Used(Here)' = Used(Here)
  <2>1. Busy' = Busy /\ Depth' = Depth
    BY DEF Busy, Depth
  <2>2. Here' = Here
    BY <2>1 DEF Here
  <2>3. \A d : Past(d)' = Past(d)
    BY UsesKept
  <2>4. Used(Here)' = Used(Here)
    BY <2>2, <2>3 DEF Used, Below, Size, Height
  <2> QED
    BY <2>1, <2>2, <2>3, <2>4
<1>2. /\ used \in SUBSET (0 .. N - 1)
      /\ timer = Cardinality(Past(Logn))
      /\ sPending = << >> => IF Busy THEN saved = End + timer + 1 ELSE ecost = End + timer
      /\ Busy => gPending = << >> /\ sPending = << >>
  BY DEF AccessInv
<1>3. sPending' = << >> => IF Busy' THEN saved' = End + timer' + 1 ELSE ecost' = End + timer'
  <2>1. CASE sPending' = sPending /\ ecost' = ecost
    BY <1>1, <1>2, <2>1
  <2>2. CASE at = << >> /\ timer = 0 /\ (sPending' = << >> => ecost' = End)
    <3>1. ~ Busy' /\ End \in Nat
      BY <1>1, <2>2, RootIs, PosIs DEF Busy
    <3> QED
      BY <2>2, <3>1
  <2> QED
    BY <2>1, <2>2
<1>4. Busy' => gPending' = << >> /\ sPending' = << >>
  BY <1>1, <1>2 DEF Busy
<1>5. Busy => /\ at.ix \in used /\ Len(at.path) \in 0 .. Logn /\ Here \in Ids
              /\ at.path = PathOf(at.ix, Len(at.path))
              /\ at = [node |-> NodeOf(Here), ix |-> at.ix, path |-> at.path,
                       lang |-> {LangsOf(Here)[Used(Here) + 1]}]
  BY DEF AccessInv
<1>6. Busy' => /\ at'.ix \in used' /\ Len(at'.path) \in 0 .. Logn /\ Here' \in Ids
               /\ at'.path = PathOf(at'.ix, Len(at'.path))
               /\ at' = [node |-> NodeOf(Here'), ix |-> at'.ix, path |-> at'.path,
                         lang |-> {LangsOf(Here')[Used(Here)' + 1]}]
  BY <1>1, <1>5
<1>7. used' \in SUBSET (0 .. N - 1) /\ timer' = Cardinality(Past(Logn))'
  BY <1>1, <1>2
<1> QED
  BY <1>3, <1>4, <1>6, <1>7 DEF AccessInv

LEMMA LazyInit == Init => LazyInv
<1> SUFFICES ASSUME Init
             PROVE  LazyInv
  OBVIOUS
<1>1. AliceInv(<<RootId>>) /\ BobInv(<<RootId>>, <<RootId>>) /\ <<RootId>> \in Seq(Ids)
  BY AliceInit, BobInit, CallsBegin
<1>2. PICK ids \in Seq(Ids) : AliceInv(ids) /\ BobInv(ids, ids)
  BY <1>1
<1>3. AccessInv
  <2>1. used = {} /\ timer = 0 /\ at = << >> /\ sPending = <<Root>>
    BY DEF Init
  <2>2. sPending # << >>
    <3> DEFINE root == Root
    <3>1. sPending = <<root>>
      BY <2>1
    <3> HIDE DEF root
    <3> QED
      BY <3>1
  <2>3. ~ Busy
    BY <2>1 DEF Busy
  <2>4. Past(Logn) = {} /\ Cardinality({}) = 0
    BY <2>1, Unused, FS_EmptySet
  <2> QED
    BY <2>1, <2>2, <2>3, <2>4 DEF AccessInv
<1>4. Aligned /\ FindsItsLeaf
  BY DEF Init, Aligned, FindsItsLeaf
<1> QED
  BY <1>2, <1>3, <1>4 DEF LazyInv

LEMMA LazyNext == LazyInv /\ [Next]_vars => LazyInv'
<1> SUFFICES ASSUME LazyInv, [Next]_vars
             PROVE  LazyInv'
  OBVIOUS
<1>1. PICK ids \in Seq(Ids) : AliceInv(ids)
  BY DEF LazyInv
<1>2. PICK eids \in Seq(Ids), sids \in Seq(Ids) : BobInv(eids, sids)
  BY DEF LazyInv
<1>3. AccessInv /\ Aligned /\ FindsItsLeaf
  BY DEF LazyInv
\* What Alice's steps leave alone, and what Bob's do
<1>4. ASSUME NEW next \in Seq(Ids), AliceInv(next)',
             SetupG \/ AccessG
      PROVE  LazyInv'
  <2>1. /\ ePending' = ePending /\ sPending' = sPending /\ scost' = scost /\ stacks' = stacks
        /\ resource_positions' = resource_positions /\ used' = used /\ at' = at /\ timer' = timer
        /\ saved' = saved /\ ecost' = ecost /\ read' = read /\ found' = found
        /\ gPending = << >> => gPending' = << >>
    BY <1>4 DEF SetupG, AccessG, setup, history
  <2>2. BobInv(eids, sids)'
    BY <1>2, <2>1, BobRests
  <2>3. AccessInv'
    BY <1>3, <2>1, AccessRests
  <2>4. Aligned' /\ FindsItsLeaf'
    BY <1>3, <1>4, <2>1, AlignedKept DEF FindsItsLeaf
  <2> QED
    BY <1>4, <2>2, <2>3, <2>4 DEF LazyInv
<1>5. CASE SetupG
  <2>1. gPending # << >>
    BY <1>5 DEF SetupG
  <2>2. ids # << >>
    <3>1. ASSUME ids = << >>
          PROVE  FALSE
      <4>1. Len(ids) = 0 /\ gPending = [i \in 1 .. Len(ids) |-> GCall(ids[i])]
        BY <1>1, <3>1 DEF AliceInv
      <4>2. gPending = [i \in 1 .. 0 |-> GCall(ids[i])]
        BY <4>1
      <4> QED
        BY <2>1, <4>2
    <3> QED
      BY <3>1
  <2>3. NextCalls(ids) \in Seq(Ids)
    BY <2>2, NextCallsAre
  <2> QED
    BY <1>1, <1>4, <1>5, <2>3, SetupGStep
<1>6. CASE AccessG
  BY <1>1, <1>4, <1>6, AccessGStep
<1>7. CASE SetupE
  <2>1. /\ UNCHANGED alice /\ sPending' = sPending /\ ecost' = ecost /\ timer' = timer /\ at' = at
        /\ saved' = saved /\ used' = used /\ read' = read /\ found' = found /\ gPending' = gPending
        /\ ePending # << >>
    BY <1>7 DEF SetupE, history, alice
  <2>2. eids # << >>
    <3>1. ePending = [i \in 1 .. Len(eids) |-> NodeOf(eids[i])]
      BY <1>2 DEF BobInv
    <3>2. ASSUME eids = << >>
          PROVE  FALSE
      <4>1. ePending = [i \in 1 .. 0 |-> NodeOf(eids[i])]
        BY <3>1, <3>2
      <4> QED
        BY <2>1, <4>1
    <3> QED
      BY <3>2
  <2>3. NextCalls(eids) \in Seq(Ids) /\ BobInv(NextCalls(eids), sids)'
    BY <1>2, <1>7, <2>2, NextCallsAre, SetupEStep
  <2>4. AliceInv(ids)' /\ AccessInv' /\ Aligned' /\ FindsItsLeaf'
    BY <1>1, <1>3, <2>1, AliceRests, AccessRests, AlignedKept DEF FindsItsLeaf
  <2> QED
    BY <2>3, <2>4 DEF LazyInv
<1>8. CASE Speculate
  <2>1. /\ UNCHANGED alice /\ timer' = timer /\ at' = at /\ sPending # << >>
        /\ saved' = saved /\ used' = used /\ read' = read /\ found' = found /\ gPending' = gPending
    BY <1>8 DEF Speculate, history, alice
  <2>2. sids # << >>
    <3>1. sPending = [i \in 1 .. Len(sids) |-> NodeOf(sids[i])]
      BY <1>2 DEF BobInv
    <3>2. ASSUME sids = << >>
          PROVE  FALSE
      <4>1. sPending = [i \in 1 .. 0 |-> NodeOf(sids[i])]
        BY <3>1, <3>2
      <4> QED
        BY <2>1, <4>1
    <3> QED
      BY <3>2
  <2>3. NextCalls(sids) \in Seq(Ids) /\ BobInv(eids, NextCalls(sids))' /\ (sPending' = << >> => ecost' = End)
    BY <1>2, <1>8, <2>2, NextCallsAre, SpeculateStep
  <2>4. at = << >> /\ timer = 0
    BY <1>2, <2>2 DEF BobInv
  <2>5. AliceInv(ids)' /\ Aligned' /\ FindsItsLeaf'
    BY <1>1, <1>3, <2>1, AliceRests, AlignedKept DEF FindsItsLeaf
  <2>6. AccessInv'
    BY <1>3, <2>1, <2>3, <2>4, AccessRests
  <2> QED
    BY <2>3, <2>5, <2>6 DEF LazyInv
<1>9. ASSUME NEW ix \in 0 .. N - 1, Begin(ix)
      PROVE  LazyInv'
  <2>1. UNCHANGED alice /\ found' = found
    BY <1>9 DEF Begin
  <2>2. AliceInv(ids)' /\ FindsItsLeaf'
    BY <1>1, <1>3, <2>1, AliceRests DEF FindsItsLeaf
  <2>3. BobInv(eids, sids)' /\ AccessInv' /\ Aligned'
    BY <1>1, <1>2, <1>3, <1>9, BeginStep
  <2> QED
    BY <2>2, <2>3 DEF LazyInv
<1>10. CASE Descend
  <2>1. UNCHANGED alice /\ found' = found
    BY <1>10 DEF Descend
  <2>2. AliceInv(ids)' /\ FindsItsLeaf'
    BY <1>1, <1>3, <2>1, AliceRests DEF FindsItsLeaf
  <2>3. BobInv(eids, sids)' /\ AccessInv' /\ Aligned'
    BY <1>1, <1>2, <1>3, <1>10, DescendStep
  <2> QED
    BY <2>2, <2>3 DEF LazyInv
<1>11. CASE Leaf
  <2>1. UNCHANGED alice
    BY <1>11 DEF Leaf
  <2>2. AliceInv(ids)'
    BY <1>1, <2>1, AliceRests
  <2>3. BobInv(eids, sids)' /\ AccessInv' /\ Aligned' /\ FindsItsLeaf'
    BY <1>1, <1>2, <1>3, <1>11, LeafStep
  <2> QED
    BY <2>2, <2>3 DEF LazyInv
<1>12. CASE UNCHANGED vars
  <2>1. /\ UNCHANGED alice /\ ePending' = ePending /\ sPending' = sPending /\ scost' = scost
        /\ stacks' = stacks /\ resource_positions' = resource_positions /\ used' = used /\ at' = at
        /\ timer' = timer /\ saved' = saved /\ ecost' = ecost /\ read' = read /\ found' = found
        /\ gPending' = gPending
    BY <1>12 DEF vars, alice, setup, history
  <2>2. BobInv(eids, sids)'
    BY <1>2, <2>1, BobRests
  <2>3. AliceInv(ids)' /\ AccessInv' /\ Aligned' /\ FindsItsLeaf'
    BY <1>1, <1>3, <2>1, AliceRests, AccessRests, AlignedKept DEF FindsItsLeaf
  <2> QED
    BY <2>2, <2>3 DEF LazyInv
<1> QED
  BY <1>5, <1>6, <1>7, <1>8, <1>9, <1>10, <1>11, <1>12 DEF Next

\* The invariant of the whole: what is still to be set up forms a walk of the
\* tree, what Alice has written of the other nodes is there for each of their
\* uses, Bob's stacks and positions of every node stand at the number of its
\* uses so far, and where he is in the tree and in the material follows from
\* the leaf he looks up (the set-up and operator() of lazypermutation.hh).
THEOREM LazyInvariant == Spec => []LazyInv
  BY LazyInit, LazyNext, PTL DEF Spec

\* Whatever permutation is looked up, and whenever, Bob reads in the material
\* what Alice wrote there for this node, this use of it and this language, and
\* behind the tree the opening of this access (access_tree, operator()).
THEOREM AlwaysAligned == Spec => []Aligned
<1>1. LazyInv => Aligned
  BY DEF LazyInv
<1> QED
  BY <1>1, LazyInvariant, PTL

\* An access ends at the leaf its index names, whatever the number of leaves
\* (the bits operator() copies, the directions access_tree takes).
THEOREM LeavesFound == Spec => []FindsItsLeaf
<1>1. LazyInv => FindsItsLeaf
  BY DEF LazyInv
<1> QED
  BY <1>1, LazyInvariant, PTL

\* With the same accesses made and nothing under way, the parties are at the
\* same place of the material: the leaps in the tree never leave Bob elsewhere
\* (ecost = scost in the constructor, ecost = current_position in operator()).
THEOREM GoOnTogether == Spec => []BothGoOn
<1>1. LazyInv => BothGoOn
  <2> SUFFICES ASSUME LazyInv, gPending = << >>, sPending = << >>, at = << >>, timer = gtimer
               PROVE  ecost = gcost
    BY DEF BothGoOn
  <2>1. PICK ids \in Seq(Ids) : AliceInv(ids)
    BY DEF LazyInv
  <2>2. ids = << >>
    <3>1. DOMAIN gPending = 1 .. Len(ids)
      BY <2>1 DEF AliceInv
    <3> QED
      BY <3>1, CallsLeft
  <2>3. gcost - gtimer = End /\ gcost \in Nat /\ gtimer \in 0 .. N
    BY <2>1, <2>2 DEF AliceInv, Walk
  <2>4. ecost = End + timer
    BY DEF LazyInv, AccessInv, Busy
  <2>5. End \in Nat /\ N \in Nat
    BY RootIs, PosIs, RootPlaced
  <2> QED
    BY <2>3, <2>4, <2>5
<1> QED
  BY <1>1, LazyInvariant, PTL
=============================================================================
