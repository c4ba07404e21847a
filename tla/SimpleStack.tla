----------------------------- MODULE SimpleStack -----------------------------
(***************************************************************************)
(* The oblivious stack of epigram/src/simplestack.cc.  It holds its words  *)
(* in levels of three slots, each level's slots twice as wide as those of  *)
(* the level above it, and says of each level how many of its slots are    *)
(* vacant (at the back).  A query pops level 0 under a condition nobody    *)
(* but the circuit knows; every second query of a level refills it from    *)
(* the next one, again under a condition.  No branch depends on the data:  *)
(* a level that has nothing to do is popped under a false condition.       *)
(*                                                                         *)
(* A cell is the set of words whose XOR it holds, a slot is a sequence of  *)
(* cells, a level a sequence of three slots; level l (from 0) has slots of *)
(* 2^l cells.  The four vacancy bits of a level are the set of the         *)
(* positions that hold one.                                                *)
(***************************************************************************)
EXTENDS StackShape, Sequences

CONSTANT MaxWords   \* bound: no stack is built with more words

ASSUME MaxWordsAssumption == MaxWords \in Nat \ {0}

VARIABLES n,          \* the words the stack was built with
          taken,      \* how many of them the queries so far have popped
          timer,      \* the queries so far
          content,    \* the levels
          vacancies,  \* the vacancy bits of each level
          output      \* what the last query returned

vars == <<n, taken, timer, content, vacancies, output>>

(***************************************************************************)
(* The constructor.                                                        *)
(***************************************************************************)
NoWord == {}

\* Slot s of level l when the words are copied in from the front.
InitialSlot(words, l, s) ==
    LET first == 3 * (PowerOf2[l] - 1) + (s - 1) * PowerOf2[l]
    IN  [c \in 1..PowerOf2[l] |-> IF first + c <= words THEN {first + c} ELSE NoWord]

InitialContent(words) ==
    [l \in 0..(Levels(words) - 1) |-> [s \in 1..3 |-> InitialSlot(words, l, s)]]

Init ==
    /\ n \in 1..MaxWords
    /\ taken = 0
    /\ timer = 0
    /\ content = InitialContent(n)
    /\ vacancies = [l \in 0..(Levels(n) - 1) |-> {0}]
    /\ output = NoWord

(***************************************************************************)
(* epop: a conditional swap of a zero word through the slots, back to      *)
(* front.  When the condition holds the first slot comes out and the others*)
(* move one place forward.                                                 *)
(***************************************************************************)
ZeroSlot(slots) == [c \in DOMAIN slots[1] |-> NoWord]

Popped(p, slots) == IF p THEN slots[1] ELSE ZeroSlot(slots)

AfterPop(p, slots) == IF p THEN Append(Tail(slots), ZeroSlot(slots)) ELSE slots

\* The XOR of two cells, and of two sequences of cells.
Xor(x, y) == (x \ y) \cup (y \ x)

XorCells(xs, ys) == [c \in DOMAIN xs |-> Xor(xs[c], ys[c])]

(***************************************************************************)
(* The vacancy counter of a level, in one-hot form: after a pop, and after *)
(* two words came from the next level if there was room for two.           *)
(***************************************************************************)
Counted(p, v) ==
    LET moved == IF p THEN {i + 1 : i \in v \cap 0..2} ELSE v \ {0}
    IN  IF Cardinality(moved) % 2 = 1 THEN moved ELSE moved \cup {0}

\* Mutant: a level is refilled only when it is empty.
RoomForThree(v) == 3 \in v

RoomForTwo(v) == (2 \in v) # (3 \in v)

\* Mutant: the counter of a level that took two words starts again at zero.
RefilledToFull(v) == IF RoomForTwo(v) THEN {0} ELSE v

Refilled(v) == {i \in {0, 1} : (i \in v) # (i + 2 \in v)}

(***************************************************************************)
(* One query.                                                              *)
(***************************************************************************)
Visited(l) == VisitedAt(timer, l)

Refills(l) == l + 1 \in DOMAIN content /\ Visited(l + 1)

\* The condition level l is popped under, when the query's condition is p.
Condition(p) ==
    LET cond[l \in DOMAIN content] ==
            IF l = 0 THEN p
                     ELSE RoomForTwo(Counted(cond[l - 1], vacancies[l - 1]))
    IN  cond

\* The two slots that level l + 1 hands to level l.
BackFill(cond, l) ==
    LET popped == Popped(cond[l + 1], content[l + 1])
    IN  <<SubSeq(popped, 1, PowerOf2[l]), SubSeq(popped, PowerOf2[l] + 1, 2 * PowerOf2[l])>>

\* The back of the level, with the words that came from the next level.
FilledBack(cond, l) ==
    LET back == Tail(AfterPop(cond[l], content[l]))
        fill == BackFill(cond, l)
    IN  <<XorCells(back[1], fill[1]), XorCells(back[2], fill[2])>>

\* Mutant: a level with one vacancy slides even if it took nothing.
SlidesAnyway(cond, l, v) == 1 \in v

\* A level that took two words while three slots were vacant slides them
\* forward by one slot.
Slides(cond, l, v) == cond[l + 1] /\ 1 \in v

NextVacancies(cond, l) ==
    LET v == Counted(cond[l], vacancies[l])
    IN  CASE ~Visited(l) -> vacancies[l]
          [] Visited(l) /\ ~Refills(l) -> v
          [] OTHER -> Refilled(v)

NextLevel(cond, l) ==
    LET popped == AfterPop(cond[l], content[l])
        back == FilledBack(cond, l)
        slide == Slides(cond, l, NextVacancies(cond, l))
    IN  CASE ~Visited(l) -> content[l]
          [] Visited(l) /\ ~Refills(l) -> popped
          [] OTHER -> <<XorCells(popped[1], Popped(slide, back))>>
                      \o AfterPop(slide, back)

\* The callers of the stack keep to its words (taken < n) and query it no
\* more than twice as often as it has words: a node of the lazy permutation
\* queries the stack of each of its two children once for each of its leaves.
Pop(p) ==
    /\ timer < 2 * n
    /\ p => taken < n
    /\ LET cond == Condition(p)
       IN  /\ content' = [l \in DOMAIN content |-> NextLevel(cond, l)]
           /\ vacancies' = [l \in DOMAIN content |-> NextVacancies(cond, l)]
    /\ output' = Popped(p, content[0])[1]
    /\ timer' = timer + 1
    /\ taken' = IF p THEN taken + 1 ELSE taken
    /\ UNCHANGED n

Next == \E p \in BOOLEAN : Pop(p)

Spec == Init /\ [][Next]_vars

(***************************************************************************)
(* Properties.                                                             *)
(***************************************************************************)
Places == UNION { {l} \X (1..3) \X (1..PowerOf2[l]) : l \in DOMAIN content }

Cell(place) == content[place[1]][place[2]][place[3]]

\* From the front of level 0 to the back of the last level.
Before(a, b) ==
    \/ a[1] < b[1]
    \/ a[1] = b[1] /\ a[2] < b[2]
    \/ a[1] = b[1] /\ a[2] = b[2] /\ a[3] < b[3]

\* No word is lost, duplicated, mixed with another by the XOR that stands for
\* a write, or overtaken, at whatever moments the levels were refilled: read
\* from the front, the cells that hold something are the words not yet popped,
\* in their order (the refill and the slide of pop_stack).
WordsInOrder ==
    /\ \A a \in Places : Cell(a) # NoWord => \E w \in taken + 1..n : Cell(a) = {w}
    /\ \A w \in taken + 1..n : \E a \in Places : Cell(a) = {w}
    /\ \A a, b \in Places : Cell(a) # NoWord /\ Cell(b) # NoWord /\ Before(a, b) =>
         \A w \in Cell(a), x \in Cell(b) : w < x

\* The vacancy counters tell the truth, which is what the refills are decided
\* from: one bit is set, and of a level with k vacancies the slots before the
\* last k are full, unless the stack has nothing further down (the counter
\* that the code shifts, adds two to and slides by).
VacanciesTellTheTruth ==
    \A l \in DOMAIN content :
        /\ Cardinality(vacancies[l]) = 1
        /\ \A k \in vacancies[l], s \in 1..3, c \in 1..PowerOf2[l] :
              IF s <= 3 - k
              THEN content[l][s][c] = NoWord =>
                     \A m \in DOMAIN content : m > l =>
                       \A t \in 1..3, d \in 1..PowerOf2[m] : content[m][t][d] = NoWord
              ELSE l < Levels(n) - 1 => content[l][s][c] = NoWord

Abstract == INSTANCE PopStack

\* Whatever the conditions of the queries, each gets the next word or nothing:
\* the oblivious stack is a stack (stack_spec, simplestack.cc).
ImplementsPopStack == Abstract!Spec
=============================================================================
