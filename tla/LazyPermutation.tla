--------------------------- MODULE LazyPermutation ---------------------------
(***************************************************************************)
(* The lazy permutation of epigram/src/lazypermutation.hh: a tree whose    *)
(* leaves are circuits, each evaluated once, in an order that only the     *)
(* evaluator learns, and only as she goes.                                 *)
(*                                                                         *)
(* Alice, the garbler, does not know the order: when the tree is made she  *)
(* garbles every access of every node, node after node.  Bob, the          *)
(* evaluator, goes down the tree once per access, so he takes the material *)
(* of the nodes in another order than it was written in.  He finds it by   *)
(* the position he keeps of each node, first set by a dry run of the       *)
(* set-up that only counts, and he takes the language a child is used in   *)
(* from the stack of its parent.                                           *)
(*                                                                         *)
(* A node of the tree knows the leaves below it, and where its two stacks  *)
(* and its position are in the arrays (the spans the code passes down).    *)
(* The stacks are those PopStack describes, which SimpleStack implements.  *)
(* A position counts material; only that all of its parts grow together is *)
(* used of it.                                                             *)
(***************************************************************************)
EXTENDS StackShape, Sequences

CONSTANTS Logn,    \* 2^Logn leaves
          Before   \* the material written before the tree is made

ASSUME SizeAssumption == Logn \in Nat \ {0} /\ Before \in Nat

N == PowerOf2[Logn]

VARIABLES
    gPending, gcost, gcode, gtimer,    \* Alice: the calls of set-up to come, the
        \* position she writes at, what she wrote where, her accesses
    ePending, sPending, scost,         \* Bob: the calls of set-up to come, those
        \* of the dry run, and its position
    ecost, stacks, resource_positions, timer,  \* Bob: the position he reads at,
        \* the stacks, the position of each node, his accesses
    at,        \* where he is in the tree, with what input
    saved,     \* the position he goes back to after an access
    used, read, found  \* the leaves used, the material read last, with its
        \* position; what the last access found

alice == <<gPending, gcost, gcode, gtimer>>
setup == <<ePending, sPending, scost>>
history == <<used, read, found>>
vars == <<alice, setup, ecost, stacks, resource_positions, timer, at, saved, history>>
-----------------------------------------------------------------------------
(* The tree *)

Node(start, size, st, rp) == [start |-> start, size |-> size, st |-> st, rp |-> rp]

Root == Node(0, N, 0, 0)

Left(v) == Node(v.start, v.size \div 2, v.st + 2, v.rp + 1)

\* Mutant: the right child begins one place too early.
RightOffByOne(v) ==
    Node(v.start + v.size \div 2, v.size \div 2, v.st + v.size, v.rp + v.size - 1)

Right(v) ==
    Node(v.start + v.size \div 2, v.size \div 2, v.st + v.size, v.rp + v.size)

IsLeaf(v) == v.size = 1

\* The languages that the stack at place st of the array is filled with; the
\* child that the stack belongs to is used in them, in this order
Languages(st, words) == [i \in 1..words |-> <<st, i>>]

NewStack(st, words) == [words |-> words, timer |-> 0, content |-> Languages(st, words)]

\* What a use of a node costs: the direction is opened, two stacks are popped,
\* the rest of the input is opened.  A leaf opens its result.
UseCost(size, time) == IF size = 1 THEN 2 ELSE 2 + 2 * LevelsPopped(size \div 2, time)

CostUntil(size, uses) ==
    LET sum[i \in Nat] == IF i = 0 THEN 0 ELSE sum[i - 1] + UseCost(size, i - 1)
    IN  sum[uses]

OpenCost == 1   \* operator() opens the input before the tree is entered

\* Material is known by the node it is for, the use of that node and the
\* language of its input; that of operator() by the access.
Material(v, use, lang) == [start |-> v.start, size |-> v.size, use |-> use, lang |-> lang]
Opening(access) == [start |-> 0, size |-> 0, use |-> access, lang |-> {}]

\* What Alice writes is added behind what she wrote before
Written(code, more) ==
    [p \in DOMAIN code \cup DOMAIN more |-> IF p \in DOMAIN code THEN code[p] ELSE more[p]]
-----------------------------------------------------------------------------
(* Set-up *)

\* Alice's set-up calls remember the languages of their node
Call(v, langs) == [node |-> v, langs |-> langs]

\* The languages of the tree itself: place -1 of no array
RootLanguages == Languages(-1, N)

Init ==
    /\ gPending = <<Call(Root, RootLanguages)>> /\ gcost = Before
    /\ gcode = <<>> /\ gtimer = 0
    /\ ePending = <<Root>> /\ sPending = <<Root>> /\ scost = Before /\ ecost = Before
    /\ stacks = [st \in 0..(2 * N - 3) |-> NewStack(st, 0)]
    /\ resource_positions = [rp \in 0..(2 * N - 2) |-> 0]
    /\ timer = 0 /\ at = <<>> /\ saved = 0
    /\ used = {} /\ read = <<>> /\ found = <<>>

\* The calls that come after a call for v: those for its children, left first
Calls(v, l, r) == IF IsLeaf(v) THEN <<>> ELSE <<l, r>>

\* Alice garbles all uses of a node, one after the other: she writes
SetupG ==
    /\ gPending # <<>>
    /\ LET v == Head(gPending).node
           langs == Head(gPending).langs
           uses == 0..(v.size - 1)
           place(i) == gcost + CostUntil(v.size, i)
       IN  /\ gcode' = Written(gcode, [p \in {place(i) : i \in uses} |->
                  LET i == CHOOSE j \in uses : place(j) = p
                  IN  Material(v, i, {langs[i + 1]})])
           /\ gcost' = place(v.size)
           /\ gPending' = Calls(v, Call(Left(v), Languages(v.st, v.size \div 2)),
                                   Call(Right(v), Languages(v.st + 1, v.size \div 2)))
                          \o Tail(gPending)
    /\ UNCHANGED <<gtimer, setup, ecost, stacks, resource_positions, timer, at, saved, history>>

\* Bob fills the stacks and uses nothing
SetupE ==
    /\ ePending # <<>>
    /\ LET v == Head(ePending)
       IN  /\ stacks' = IF IsLeaf(v) THEN stacks
                        ELSE [stacks EXCEPT ![v.st] = NewStack(v.st, v.size \div 2),
                                            ![v.st + 1] = NewStack(v.st + 1, v.size \div 2)]
           /\ ePending' = Calls(v, Left(v), Right(v)) \o Tail(ePending)
    /\ UNCHANGED <<alice, sPending, scost, ecost, resource_positions, timer, at, saved, history>>

\* Then the dry run takes down where the material of each node begins; at its
\* end Bob goes on behind all of it
Speculate ==
    /\ ePending = <<>> /\ sPending # <<>>
    /\ LET v == Head(sPending)
       IN  /\ resource_positions' = [resource_positions EXCEPT ![v.rp] = scost]
           /\ scost' = scost + CostUntil(v.size, v.size)
           /\ sPending' = Calls(v, Left(v), Right(v)) \o Tail(sPending)
    /\ ecost' = IF sPending' = <<>> THEN scost' ELSE ecost
    /\ UNCHANGED <<alice, ePending, stacks, timer, at, saved, history>>
-----------------------------------------------------------------------------
(* Accesses *)

\* operator(), Alice: the assertion timer < n; she does not go down the tree
AccessG ==
    /\ gPending = <<>> /\ gtimer < N
    /\ gcode' = Written(gcode, [p \in {gcost} |-> Opening(gtimer)])
    /\ gcost' = gcost + OpenCost
    /\ gtimer' = gtimer + 1
    /\ UNCHANGED <<gPending, setup, ecost, stacks, resource_positions, timer, at, saved, history>>

Reads(position, material) == read' = [position |-> position, material |-> material]

Bit(ix, j) == (ix \div PowerOf2[j]) % 2

\* Mutant: the bits go down the tree lowest first.
LowestFirst(ix) == [j \in 1..Logn |-> Bit(ix, j - 1)]

\* The bits of a leaf's index, as operator() copies them: the highest first
Path(ix) == [j \in 1..Logn |-> Bit(ix, Logn - j)]

\* operator(), Bob.  The index is one that was not looked up before: the
\* callers look up a permutation.
Begin(ix) ==
    /\ sPending = <<>> /\ at = <<>> /\ timer < N
    /\ ix \notin used
    /\ ecost \in DOMAIN gcode   \* recv
    /\ Reads(ecost, Opening(timer))
    /\ ecost' = ecost + OpenCost
    /\ saved' = ecost'
    /\ at' = [node |-> Root, ix |-> ix, path |-> Path(ix), lang |-> {RootLanguages[timer + 1]}]
    /\ used' = used \cup {ix}
    /\ UNCHANGED <<alice, setup, stacks, resource_positions, timer, found>>

\* A stack is queried: under a true condition its front comes out
Popped(p, s) == IF p /\ s.content # <<>> THEN {Head(s.content)} ELSE {}

AfterPop(p, s) ==
    [s EXCEPT !.timer = @ + 1,
              !.content = IF p /\ @ # <<>> THEN Tail(@) ELSE @]

AfterUse(v, use) == resource_positions[v.rp] + UseCost(v.size, use)

\* access_tree at an inner node: inner_node with the material of the node's
\* next use, then the child the bit says, in the language its stack says
Descend ==
    /\ at # <<>> /\ ~IsLeaf(at.node)
    /\ LET v == at.node
           right == Head(at.path) = 1
           s0 == stacks[v.st]
           s1 == stacks[v.st + 1]
       IN  /\ Reads(resource_positions[v.rp], Material(v, s0.timer, at.lang))
           /\ ecost' = AfterUse(v, s0.timer)
           /\ stacks' = [stacks EXCEPT ![v.st] = AfterPop(~right, s0),
                                       ![v.st + 1] = AfterPop(right, s1)]
           /\ at' = [at EXCEPT !.node = IF right THEN Right(v) ELSE Left(v),
                               !.path = Tail(@),
                               !.lang = Popped(~right, s0) \cup Popped(right, s1)]
           /\ resource_positions' = [resource_positions EXCEPT ![v.rp] = ecost']
    /\ UNCHANGED <<alice, setup, timer, saved, used, found>>

\* Mutant: after an access Bob goes on behind the leaf's material.
ReturnNowhere(leaf) == resource_positions[leaf.rp] + UseCost(leaf.size, 0)

Return(leaf) == saved

\* access_tree at a leaf, and the end of operator()
Leaf ==
    /\ at # <<>> /\ IsLeaf(at.node)
    /\ LET v == at.node
       IN  /\ Reads(resource_positions[v.rp], Material(v, 0, at.lang))
           /\ resource_positions' = [resource_positions EXCEPT ![v.rp] = AfterUse(v, 0)]
           /\ ecost' = Return(v)
           /\ found' = <<at.ix, v.start>>
    /\ at' = <<>>
    /\ timer' = timer + 1
    /\ UNCHANGED <<alice, setup, stacks, saved, used>>

Next == \/ SetupG \/ AccessG
        \/ SetupE \/ Speculate
        \/ (\E ix \in 0..(N - 1) : Begin(ix)) \/ Descend \/ Leaf

Spec == Init /\ [][Next]_vars
-----------------------------------------------------------------------------
(* Properties *)

\* Whatever the order of the accesses, all that Bob reads is what Alice wrote
\* for the use he makes of it: for this node, for its use of this number, for
\* an input in this language; inside the tree, where he comes by leaps, and
\* behind it, where both go on (access_tree, operator()).
Aligned ==
    read # <<>> => /\ read.position \in DOMAIN gcode
                   /\ gcode[read.position] = read.material

\* An access ends at the leaf that its index names (the copy of the bits in
\* operator(), the directions of access_tree)
FindsItsLeaf == found # <<>> => found[1] = found[2]

\* When neither party has set-up left to do nor is in the tree, and they did
\* the same accesses, they are at the same place of the material
\* (ecost = scost in the constructor, ecost = current_position in operator())
BothGoOn ==
    gPending = <<>> /\ sPending = <<>> /\ at = <<>> /\ timer = gtimer => ecost = gcost
=============================================================================
