-------------------------- MODULE SimpleStack_proofs ------------------------
(***************************************************************************)
(* The oblivious stack is a stack, for every number of words and every     *)
(* sequence of queries: where the words of each level are, that a level is *)
(* refilled before it can be queried while empty, and that a refill finds  *)
(* its slots empty.                                                        *)
(***************************************************************************)
EXTENDS SimpleStack, Induction, SequenceTheorems, FiniteSetTheorems

-----------------------------------------------------------------------------
(* The inductive invariant *)

Cells == SUBSET Nat
LastLevel == Levels(n) - 1
Depths == 0 .. LastLevel

\* A slot with the words behind the first `from`, as far as there are any, and
\* an empty one
Row(from, len) == [c \in 1 .. len |-> IF from + c <= n THEN {from + c} ELSE NoWord]
Blank(len) == [c \in 1 .. len |-> NoWord]

\* A level whose words begin behind the first `from`, with `vacant` slots empty
Slot(from, vacant, len, s) ==
  IF s <= 3 - vacant THEN Row(from + (s - 1) * len, len) ELSE Blank(len)
LevelOf(from, vacant, len) == [s \in 1 .. 3 |-> Slot(from, vacant, len, s)]

(***************************************************************************)
(* Every level has the words that follow those of the level above it, and  *)
(* the last has all that are left.  A level with another below it is full  *)
(* up to one slot when its next query will not refill it, and up to two    *)
(* when it will.                                                           *)
(***************************************************************************)
Holds(vacant, first) ==
  /\ vacant \in [Depths -> 0 .. 3] /\ first \in [Depths -> Nat]
  /\ first[0] = taken
  /\ \A l \in Depths : l # LastLevel =>
       /\ first[l + 1] = first[l] + (3 - vacant[l]) * PowerOf2[l]
       /\ vacant[l] <= 1 + ((timer \div PowerOf2[l]) % 2)
  /\ first[LastLevel] + (3 - vacant[LastLevel]) * PowerOf2[LastLevel] >= n
  /\ content = [l \in Depths |-> LevelOf(first[l], vacant[l], PowerOf2[l])]
  /\ vacancies = [l \in Depths |-> {vacant[l]}]

StackInv ==
  /\ n \in 1 .. MaxWords /\ taken \in 0 .. n /\ timer \in Nat
  /\ \E vacant, first : Holds(vacant, first)
-----------------------------------------------------------------------------
(* Slots *)

LEMMA RowType ==
  ASSUME n \in Nat, NEW from \in Nat, NEW len \in Nat
  PROVE  Row(from, len) \in [1 .. len -> Cells] /\ Blank(len) \in [1 .. len -> Cells]
  BY DEF Row, Blank, Cells, NoWord

LEMMA SlotType ==
  ASSUME n \in Nat, NEW from \in Nat, NEW len \in Nat, NEW v \in 0 .. 3, NEW s \in 1 .. 3
  PROVE  Slot(from, v, len, s) \in [1 .. len -> Cells]
<1>1. from + (s - 1) * len \in Nat
  <2>1. s - 1 \in Nat
    OBVIOUS
  <2> QED
    BY <2>1
<1> QED
  BY <1>1, RowType DEF Slot

\* Three slots, as a sequence
LEMMA Triples ==
  ASSUME NEW S, NEW f \in [1 .. 3 -> S], NEW z \in S
  PROVE  /\ f \in Seq(S) /\ Len(f) = 3
         /\ Tail(f) \in Seq(S) /\ Len(Tail(f)) = 2 /\ Tail(f)[1] = f[2] /\ Tail(f)[2] = f[3]
         /\ Append(Tail(f), z) = [s \in 1 .. 3 |-> IF s = 3 THEN z ELSE f[s + 1]]
<1>1. f \in Seq(S)
  <2>1. [i \in 1 .. 3 |-> f[i]] \in Seq(S)
    OBVIOUS
  <2>2. f = [i \in 1 .. 3 |-> f[i]]
    OBVIOUS
  <2> QED
    BY <2>1, <2>2
<1>2. Len(f) = 3 /\ f # << >>
  <2>1. DOMAIN f = 1 .. 3 /\ DOMAIN f = 1 .. Len(f) /\ Len(f) \in Nat
    BY <1>1, LenProperties
  <2>2. Len(f) = 3
    BY <2>1
  <2> QED
    BY <2>2, EmptySeq
<1>3. Tail(f) \in Seq(S) /\ Len(Tail(f)) = 2 /\ \A i \in 1 .. 2 : Tail(f)[i] = f[i + 1]
  <2>1. /\ Tail(f) \in Seq(S) /\ Len(Tail(f)) = Len(f) - 1
        /\ \A i \in 1 .. Len(Tail(f)) : Tail(f)[i] = f[i + 1]
    BY <1>1, <1>2, HeadTailProperties
  <2> QED
    BY <1>2, <2>1
<1> DEFINE t == Tail(f)
           a == Append(t, z)
<1>4. t \in Seq(S) /\ Len(t) = 2 /\ \A i \in 1 .. 2 : t[i] = f[i + 1]
  BY <1>3
<1> HIDE DEF t
<1>5. a \in Seq(S) /\ Len(a) = 3 /\ (\A i \in 1 .. 2 : a[i] = t[i]) /\ a[3] = z
  <2>1. /\ a \in Seq(S) /\ Len(a) = Len(t) + 1
        /\ \A i \in 1 .. Len(t) : a[i] = t[i]
        /\ a[Len(t) + 1] = z
    <3>1. t \in Seq(S)
      BY <1>4
    <3> QED
      BY <3>1, AppendProperties
  <2> QED
    BY <1>4, <2>1
<1> HIDE DEF a
<1>6. a \in [1 .. 3 -> S]
  BY <1>5, LenProperties
<1>7. ASSUME NEW s \in 1 .. 3
      PROVE  a[s] = IF s = 3 THEN z ELSE f[s + 1]
  <2>1. CASE s = 3
    BY <1>5, <2>1
  <2>2. CASE s \in 1 .. 2
    BY <1>4, <1>5, <2>2
  <2> QED
    BY <2>1, <2>2
<1>8. a = [s \in 1 .. 3 |-> IF s = 3 THEN z ELSE f[s + 1]]
  BY <1>6, <1>7
<1>9. t[1] = f[2] /\ t[2] = f[3]
  <2>1. t[1] = f[1 + 1] /\ t[2] = f[2 + 1]
    BY <1>4
  <2> QED
    BY <2>1
<1> QED
  BY <1>1, <1>2, <1>3, <1>8, <1>9 DEF a, t

\* Two slots, and a slot before two
Pair(p, x, y) == p = <<x, y>>

LEMMA Twos ==
  ASSUME NEW S, NEW x \in S, NEW y \in S, NEW z \in S
  PROVE  /\ \A p, q : Pair(p, x, y) /\ Pair(q, y, z) => Append(Tail(p), z) = q
         /\ <<z>> \o <<x, y>> = [s \in 1 .. 3 |-> IF s = 1 THEN z ELSE IF s = 2 THEN x ELSE y]
<1> DEFINE p == <<x, y>>
           t == Tail(p)
           a == Append(t, z)
           o == <<z>>
           c == o \o p
<1>1. p \in Seq(S) /\ Len(p) = 2 /\ p[1] = x /\ p[2] = y /\ p # << >>
  OBVIOUS
<1>2. o \in Seq(S) /\ Len(o) = 1 /\ o[1] = z
  OBVIOUS
<1>3. <<y, z>> \in Seq(S) /\ Len(<<y, z>>) = 2 /\ <<y, z>>[1] = y /\ <<y, z>>[2] = z
  OBVIOUS
<1> HIDE DEF p, o
<1>4. t \in Seq(S) /\ Len(t) = 1 /\ t[1] = y
  <2>1. /\ t \in Seq(S) /\ Len(t) = Len(p) - 1
        /\ \A i \in 1 .. Len(t) : t[i] = p[i + 1]
    BY <1>1, HeadTailProperties
  <2> HIDE DEF t
  <2>2. Len(t) = 1
    BY <1>1, <2>1
  <2>3. t[1] = p[2]
    <3>1. 1 \in 1 .. Len(t) /\ 1 + 1 = 2
      BY <2>2
    <3>2. \A i \in 1 .. Len(t) : t[i] = p[i + 1]
      BY <2>1
    <3> QED
      BY <3>1, <3>2, Zenon
  <2> QED
    BY <1>1, <2>1, <2>2, <2>3
<1> HIDE DEF t
<1>5. a \in Seq(S) /\ Len(a) = 2 /\ a[1] = y /\ a[2] = z
  <2>1. /\ a \in Seq(S) /\ Len(a) = Len(t) + 1
        /\ \A i \in 1 .. Len(t) : a[i] = t[i]
        /\ a[Len(t) + 1] = z
    <3>1. t \in Seq(S)
      BY <1>4
    <3> QED
      BY <3>1, AppendProperties
  <2> QED
    BY <1>4, <2>1
<1> HIDE DEF a
<1>6. a = <<y, z>>
  <2>1. \A i \in 1 .. Len(a) : a[i] = <<y, z>>[i]
    BY <1>3, <1>5
  <2> QED
    BY <1>3, <1>5, <2>1, SeqEqual
<1>7. c \in Seq(S) /\ Len(c) = 3 /\ c[1] = z /\ c[2] = x /\ c[3] = y
  <2>1. /\ c \in Seq(S) /\ Len(c) = Len(o) + Len(p)
        /\ \A i \in 1 .. Len(o) + Len(p) : c[i] = IF i <= Len(o) THEN o[i] ELSE p[i - Len(o)]
    BY <1>1, <1>2, ConcatProperties
  <2> QED
    BY <1>1, <1>2, <2>1
<1> HIDE DEF c
<1>8. c \in [1 .. 3 -> S]
  BY <1>7, LenProperties
<1>9. c = [s \in 1 .. 3 |-> IF s = 1 THEN z ELSE IF s = 2 THEN x ELSE y]
  BY <1>7, <1>8
<1>10. ASSUME NEW q, NEW r, Pair(q, x, y), Pair(r, y, z)
       PROVE  Append(Tail(q), z) = r
  <2>1. q = p /\ r = <<y, z>>
    BY <1>10 DEF p, Pair
  <2>2. Append(Tail(p), z) = r
    <3>1. a = r
      BY <1>6, <2>1
    <3> HIDE DEF p
    <3> QED
      BY <3>1 DEF a, t
  <2> HIDE DEF p
  <2> QED
    BY <2>1, <2>2
<1> QED
  BY <1>9, <1>10 DEF p, c, o

\* There is nothing behind the last word
LEMMA RowBehind ==
  ASSUME n \in Nat, NEW from \in Nat, NEW len \in Nat, from >= n
  PROVE  Row(from, len) = Blank(len)
  BY DEF Row, Blank

LEMMA SlotIs ==
  ASSUME n \in Nat, NEW from \in Nat, NEW len \in Nat, NEW v \in 0 .. 3
  PROVE  /\ LevelOf(from, v, len) \in [1 .. 3 -> [1 .. len -> Cells]]
         /\ \A s \in 1 .. 3 : LevelOf(from, v, len)[s] = Slot(from, v, len, s)
         /\ ZeroSlot(LevelOf(from, v, len)) = Blank(len)
         /\ Blank(len) \in [1 .. len -> Cells]
<1> DEFINE slots == LevelOf(from, v, len)
<1>1. \A s \in 1 .. 3 : Slot(from, v, len, s) \in [1 .. len -> Cells]
  BY SlotType
<1>2. slots \in [1 .. 3 -> [1 .. len -> Cells]] /\ \A s \in 1 .. 3 : slots[s] = Slot(from, v, len, s)
  BY <1>1 DEF LevelOf
<1>3. DOMAIN slots[1] = 1 .. len
  BY <1>2
<1>4. ZeroSlot(slots) = Blank(len)
  BY <1>3 DEF ZeroSlot, Blank
<1> QED
  BY <1>2, <1>4, RowType

\* A pop takes the first slot and moves the others forward
LEMMA PopIs ==
  ASSUME n \in Nat, NEW from \in Nat, NEW len \in Nat, NEW v \in 0 .. 2
  PROVE  LET slots == LevelOf(from, v, len)
         IN  /\ Popped(TRUE, slots) = Row(from, len)
             /\ AfterPop(TRUE, slots) = LevelOf(from + len, v + 1, len)
<1> DEFINE slots == LevelOf(from, v, len)
           S == [1 .. len -> Cells]
<1>1. /\ slots \in [1 .. 3 -> S] /\ \A s \in 1 .. 3 : slots[s] = Slot(from, v, len, s)
      /\ ZeroSlot(slots) = Blank(len) /\ Blank(len) \in S
  <2>1. v \in 0 .. 3
    OBVIOUS
  <2> QED
    BY <2>1, SlotIs, Zenon
<1>2. from + (1 - 1) * len = from
  OBVIOUS
<1>3. slots[1] = Row(from, len)
  BY <1>1, <1>2 DEF Slot
<1>4. Append(Tail(slots), ZeroSlot(slots)) = [s \in 1 .. 3 |-> IF s = 3 THEN Blank(len) ELSE slots[s + 1]]
  <2> HIDE DEF slots, S
  <2> QED
    BY <1>1, Triples
<1>5. ASSUME NEW s \in 1 .. 3
      PROVE  (IF s = 3 THEN Blank(len) ELSE slots[s + 1]) = Slot(from + len, v + 1, len, s)
  <2>1. CASE s = 3
    BY <2>1 DEF Slot
  <2>2. CASE s # 3
    <3>1. s + 1 \in 1 .. 3 /\ (s + 1 <= 3 - v <=> s <= 3 - (v + 1))
      BY <2>2
    <3>2. slots[s + 1] = Slot(from, v, len, s + 1)
      BY <1>1, <3>1
    <3>3. from + ((s + 1) - 1) * len = (from + len) + (s - 1) * len
      <4>1. (s + 1) - 1 = (s - 1) + 1 /\ s - 1 \in Nat
        OBVIOUS
      <4> QED
        BY <4>1
    <3> QED
      BY <2>2, <3>1, <3>2, <3>3 DEF Slot
  <2> QED
    BY <2>1, <2>2
<1> HIDE DEF slots
<1>6. AfterPop(TRUE, slots) = LevelOf(from + len, v + 1, len)
  BY <1>4, <1>5 DEF AfterPop, LevelOf
<1>7. Popped(TRUE, slots) = Row(from, len)
  BY <1>3 DEF Popped
<1> QED
  BY <1>6, <1>7 DEF slots

\* Nothing comes from a level that has nothing left, and it stays empty
LEMMA PopOfNothing ==
  ASSUME n \in Nat, NEW from \in Nat, NEW len \in Nat, from >= n
  PROVE  LET slots == LevelOf(from, 3, len)
         IN  /\ Popped(TRUE, slots) = Row(from, len)
             /\ AfterPop(TRUE, slots) = LevelOf(from + len, 0, len)
<1> DEFINE slots == LevelOf(from, 3, len)
           S == [1 .. len -> Cells]
<1>1. /\ slots \in [1 .. 3 -> S] /\ \A s \in 1 .. 3 : slots[s] = Slot(from, 3, len, s)
      /\ ZeroSlot(slots) = Blank(len) /\ Blank(len) \in S
  <2>1. 3 \in 0 .. 3
    OBVIOUS
  <2> QED
    BY <2>1, SlotIs, Zenon
<1>2. \A s \in 1 .. 3 : slots[s] = Blank(len)
  BY <1>1 DEF Slot
<1>3. Append(Tail(slots), ZeroSlot(slots)) = [s \in 1 .. 3 |-> IF s = 3 THEN Blank(len) ELSE slots[s + 1]]
  <2> HIDE DEF slots, S
  <2> QED
    BY <1>1, Triples
<1>4. ASSUME NEW s \in 1 .. 3
      PROVE  (IF s = 3 THEN Blank(len) ELSE slots[s + 1]) = Slot(from + len, 0, len, s)
  <2>1. Slot(from + len, 0, len, s) = Row((from + len) + (s - 1) * len, len)
    BY DEF Slot
  <2>2. (s - 1) * len \in Nat
    <3>1. s - 1 \in Nat
      OBVIOUS
    <3> QED
      BY <3>1
  <2>3. (from + len) + (s - 1) * len \in Nat /\ (from + len) + (s - 1) * len >= n
    BY <2>2
  <2>4. Slot(from + len, 0, len, s) = Blank(len)
    BY <2>1, <2>3, RowBehind
  <2>5. s # 3 => slots[s + 1] = Blank(len)
    BY <1>2
  <2> QED
    BY <2>4, <2>5
<1> HIDE DEF slots
<1>5. AfterPop(TRUE, slots) = LevelOf(from + len, 0, len)
  BY <1>3, <1>4 DEF AfterPop, LevelOf
<1>6. Popped(TRUE, slots) = Row(from, len)
  BY <1>2, RowBehind DEF Popped
<1> QED
  BY <1>5, <1>6 DEF slots

LEMMA PassIs ==
  ASSUME n \in Nat, NEW from \in Nat, NEW len \in Nat, NEW v \in 0 .. 3
  PROVE  LET slots == LevelOf(from, v, len)
         IN  Popped(FALSE, slots) = Blank(len) /\ AfterPop(FALSE, slots) = slots
  BY SlotIs DEF Popped, AfterPop

\* The two halves of a slot of the next level are two slots of this one
LEMMA Halves ==
  ASSUME n \in Nat, NEW from \in Nat, NEW len \in Nat
  PROVE  /\ SubSeq(Row(from, 2 * len), 1, len) = Row(from, len)
         /\ SubSeq(Row(from, 2 * len), len + 1, 2 * len) = Row(from + len, len)
         /\ SubSeq(Blank(2 * len), 1, len) = Blank(len)
         /\ SubSeq(Blank(2 * len), len + 1, 2 * len) = Blank(len)
<1>1. ASSUME NEW f \in [1 .. 2 * len -> Cells]
      PROVE  /\ SubSeq(f, 1, len) = [c \in 1 .. len |-> f[c]]
             /\ SubSeq(f, len + 1, 2 * len) = [c \in 1 .. len |-> f[len + c]]
  <2> DEFINE x == SubSeq(f, 1, len)
             y == SubSeq(f, len + 1, 2 * len)
  <2>1. /\ x \in Seq(Cells) /\ Len(x) = (IF 1 <= len THEN len - 1 + 1 ELSE 0)
        /\ \A c \in 1 .. len - 1 + 1 : x[c] = f[1 + c - 1]
    <3>1. \A i \in 1 .. len : f[i] \in Cells
      OBVIOUS
    <3> QED
      BY <3>1, SubSeqProperties
  <2>2. /\ y \in Seq(Cells) /\ Len(y) = (IF len + 1 <= 2 * len THEN 2 * len - (len + 1) + 1 ELSE 0)
        /\ \A c \in 1 .. 2 * len - (len + 1) + 1 : y[c] = f[len + 1 + c - 1]
    <3>1. \A i \in len + 1 .. 2 * len : f[i] \in Cells
      OBVIOUS
    <3> QED
      BY <3>1, SubSeqProperties
  <2> HIDE DEF x, y
  <2>3. Len(x) = len /\ Len(y) = len
    BY <2>1, <2>2
  <2>4. x \in [1 .. len -> Cells] /\ y \in [1 .. len -> Cells]
    BY <2>1, <2>2, <2>3, LenProperties
  <2>5. ASSUME NEW c \in 1 .. len
        PROVE  x[c] = f[c] /\ y[c] = f[len + c]
    <3>1. c \in 1 .. len - 1 + 1 /\ 1 + c - 1 = c
      OBVIOUS
    <3>2. c \in 1 .. 2 * len - (len + 1) + 1 /\ len + 1 + c - 1 = len + c
      OBVIOUS
    <3>3. x[c] = f[1 + c - 1] /\ y[c] = f[len + 1 + c - 1]
      BY <2>1, <2>2, <3>1, <3>2
    <3> QED
      BY <3>1, <3>2, <3>3
  <2>6. x = [c \in 1 .. len |-> f[c]] /\ y = [c \in 1 .. len |-> f[len + c]]
    BY <2>4, <2>5
  <2> QED
    BY <2>6 DEF x, y
<1>2. Row(from, 2 * len) \in [1 .. 2 * len -> Cells] /\ Blank(2 * len) \in [1 .. 2 * len -> Cells]
  BY RowType
<1>3. /\ SubSeq(Row(from, 2 * len), 1, len) = [c \in 1 .. len |-> Row(from, 2 * len)[c]]
      /\ SubSeq(Row(from, 2 * len), len + 1, 2 * len) = [c \in 1 .. len |-> Row(from, 2 * len)[len + c]]
      /\ SubSeq(Blank(2 * len), 1, len) = [c \in 1 .. len |-> Blank(2 * len)[c]]
      /\ SubSeq(Blank(2 * len), len + 1, 2 * len) = [c \in 1 .. len |-> Blank(2 * len)[len + c]]
  BY <1>1, <1>2
<1>4. \A c \in 1 .. len : c \in 1 .. 2 * len /\ len + c \in 1 .. 2 * len
  OBVIOUS
<1>5. \A c \in 1 .. len : /\ Row(from, 2 * len)[c] = Row(from, len)[c]
                          /\ Row(from, 2 * len)[len + c] = Row(from + len, len)[c]
                          /\ Blank(2 * len)[c] = NoWord /\ Blank(2 * len)[len + c] = NoWord
  <2> SUFFICES ASSUME NEW c \in 1 .. len
               PROVE  /\ Row(from, 2 * len)[c] = Row(from, len)[c]
                      /\ Row(from, 2 * len)[len + c] = Row(from + len, len)[c]
                      /\ Blank(2 * len)[c] = NoWord /\ Blank(2 * len)[len + c] = NoWord
    OBVIOUS
  <2>1. from + (len + c) = (from + len) + c
    OBVIOUS
  <2> QED
    BY <1>4, <2>1 DEF Row, Blank
<1>6. /\ Row(from, len) = [c \in 1 .. len |-> Row(from, len)[c]]
      /\ Row(from + len, len) = [c \in 1 .. len |-> Row(from + len, len)[c]]
  BY DEF Row
<1> QED
  BY <1>3, <1>5, <1>6 DEF Blank

\* What is written to an empty slot is there
LEMMA XorBlank ==
  ASSUME n \in Nat, NEW len \in Nat, NEW x \in [1 .. len -> Cells]
  PROVE  XorCells(Blank(len), x) = x /\ XorCells(x, Blank(len)) = x
<1>1. \A c \in Cells : Xor(NoWord, c) = c /\ Xor(c, NoWord) = c
  BY DEF Xor, NoWord
<1>2. \A c \in 1 .. len : Blank(len)[c] = NoWord /\ x[c] \in Cells
  BY DEF Blank
<1>3. DOMAIN Blank(len) = 1 .. len /\ DOMAIN x = 1 .. len
  BY DEF Blank
<1>4. /\ [c \in 1 .. len |-> Xor(Blank(len)[c], x[c])] = [c \in 1 .. len |-> x[c]]
      /\ [c \in 1 .. len |-> Xor(x[c], Blank(len)[c])] = [c \in 1 .. len |-> x[c]]
  BY <1>1, <1>2
<1>5. x = [c \in 1 .. len |-> x[c]]
  OBVIOUS
<1> QED
  BY <1>3, <1>4, <1>5 DEF XorCells


\* A level with the slots behind its first, and the slide
Slid(level, behind, slide) ==
  <<XorCells(level[1], Popped(slide, behind))>> \o AfterPop(slide, behind)

Filled(behind, level, x, y) ==
  behind = <<XorCells(Tail(level)[1], x), XorCells(Tail(level)[2], y)>>

\* The back of a level takes the two slots that come from the next one
LEMMA RefillIs ==
  ASSUME n \in Nat, NEW from \in Nat, NEW len \in Nat, NEW k \in 0 .. 3, NEW x, NEW y,
         NEW slide \in BOOLEAN, slide <=> k = 3,
         x = IF k >= 2 THEN Row(from + (3 - k) * len, len) ELSE Blank(len),
         y = IF k >= 2 THEN Row((from + (3 - k) * len) + len, len) ELSE Blank(len),
         NEW r, r = IF k >= 2 THEN k - 2 ELSE k,
         NEW level, level = LevelOf(from, k, len),
         NEW behind, Filled(behind, level, x, y)
  PROVE  Slid(level, behind, slide) = LevelOf(from, r, len)
<1> DEFINE S == [1 .. len -> Cells]
           slots == LevelOf(from, k, len)
           t == Tail(slots)
           u == XorCells(t[1], x)
           w == XorCells(t[2], y)
           back == <<u, w>>
           result == <<XorCells(slots[1], Popped(slide, back))>> \o AfterPop(slide, back)
<1> SUFFICES result = LevelOf(from, r, len)
  <2>1. level = slots
    OBVIOUS
  <2>2. behind = back
    BY DEF Filled
  <2> HIDE DEF slots, back
  <2> QED
    BY <2>1, <2>2 DEF Slid
<1>1. /\ slots \in [1 .. 3 -> S] /\ \A s \in 1 .. 3 : slots[s] = Slot(from, k, len, s)
      /\ ZeroSlot(slots) = Blank(len) /\ Blank(len) \in S
  <2>1. k \in 0 .. 3
    OBVIOUS
  <2>2. slots \in [1 .. 3 -> S]
    BY <2>1, SlotIs
  <2>3. \A s \in 1 .. 3 : slots[s] = Slot(from, k, len, s)
    BY DEF LevelOf
  <2>4. ZeroSlot(slots) = Blank(len)
    BY <2>1, SlotIs
  <2>5. Blank(len) \in S
    BY <2>1, SlotIs
  <2> QED
    BY <2>2, <2>3, <2>4, <2>5
<1>2. /\ t[1] = Slot(from, k, len, 2) /\ t[2] = Slot(from, k, len, 3)
      /\ slots[1] = Slot(from, k, len, 1) /\ \A s \in 1 .. 3 : Slot(from, k, len, s) \in S
  <2> HIDE DEF slots, S
  <2>1. t[1] = slots[2] /\ t[2] = slots[3]
    BY <1>1, Triples
  <2>2. 1 \in 1 .. 3 /\ 2 \in 1 .. 3 /\ 3 \in 1 .. 3
    OBVIOUS
  <2> QED
    BY <1>1, <2>1, <2>2
<1>3. (3 - k) * len \in Nat
  BY \A i \in Nat : i * len \in Nat
<1>4. x \in S /\ y \in S
  <2>1. from + (3 - k) * len \in Nat /\ (from + (3 - k) * len) + len \in Nat
    BY <1>3
  <2> QED
    BY <2>1, RowType
<1>5. \A z \in S : XorCells(Blank(len), z) = z /\ XorCells(z, Blank(len)) = z
  BY XorBlank
<1> HIDE DEF S, slots, t
<1>6. u = (IF k >= 2 THEN x ELSE Slot(from, k, len, 2)) /\ w = (IF k >= 2 THEN y ELSE Slot(from, k, len, 3))
  <2>1. CASE k >= 2
    <3>1. Slot(from, k, len, 2) = Blank(len) /\ Slot(from, k, len, 3) = Blank(len)
      BY <2>1 DEF Slot
    <3> QED
      BY <1>2, <1>4, <1>5, <2>1, <3>1
  <2>2. CASE ~ (k >= 2)
    <3>1. x = Blank(len) /\ y = Blank(len)
      BY <2>2
    <3> QED
      BY <1>2, <1>5, <2>2, <3>1
  <2> QED
    BY <2>1, <2>2
<1>7. u \in S /\ w \in S
  BY <1>2, <1>4, <1>6
<1> HIDE DEF u, w
<1>8. ZeroSlot(back) = Blank(len)
  <2>1. back[1] = u
    OBVIOUS
  <2>2. DOMAIN back[1] = 1 .. len
    BY <1>7, <2>1 DEF S
  <2> QED
    BY <2>2 DEF ZeroSlot, Blank
<1>9. \A a, b, c \in S : <<a>> \o <<b, c>> = [s \in 1 .. 3 |-> IF s = 1 THEN a ELSE IF s = 2 THEN b ELSE c]
  BY Twos
<1>10. CASE k = 3
  <2>1. slide
    BY <1>10
  <2>2. Popped(slide, back) = u
    BY <2>1 DEF Popped
  <2>3. AfterPop(slide, back) = <<w, Blank(len)>>
    <3>1. AfterPop(slide, back) = Append(Tail(back), Blank(len))
      BY <1>8, <2>1 DEF AfterPop
    <3>2. Append(Tail(back), Blank(len)) = <<w, Blank(len)>>
      <4> DEFINE slid == <<w, Blank(len)>>
      <4>1. Pair(back, u, w) /\ Pair(slid, w, Blank(len))
        BY DEF Pair
      <4>2. u \in S /\ w \in S /\ Blank(len) \in S
        BY <1>1, <1>7
      <4> HIDE DEF back, slid
      <4>3. Append(Tail(back), Blank(len)) = slid
        BY <4>1, <4>2, Twos
      <4> QED
        BY <4>3 DEF slid
    <3> HIDE DEF back
    <3> QED
      BY <3>1, <3>2
  <2>4. slots[1] = Blank(len)
    BY <1>2, <1>10 DEF Slot
  <2>5. XorCells(slots[1], Popped(slide, back)) = u
    BY <1>5, <1>7, <2>2, <2>4
  <2>6. result = [s \in 1 .. 3 |-> IF s = 1 THEN u ELSE IF s = 2 THEN w ELSE Blank(len)]
    <3> HIDE DEF back
    <3> QED
      BY <1>1, <1>7, <1>9, <2>3, <2>5
  <2>7. u = Row(from, len) /\ w = Row(from + len, len)
    <3>1. (3 - k) * len = 0 /\ from + 0 = from
      BY <1>10
    <3> QED
      BY <1>6, <1>10, <3>1
  <2>8. \A s \in 1 .. 3 : Slot(from, 1, len, s) = IF s = 1 THEN u ELSE IF s = 2 THEN w ELSE Blank(len)
    <3>1. Slot(from, 1, len, 1) = Row(from, len)
      <4>1. from + (1 - 1) * len = from
        OBVIOUS
      <4> QED
        BY <4>1 DEF Slot
    <3>2. Slot(from, 1, len, 2) = Row(from + len, len)
      <4>1. from + (2 - 1) * len = from + len
        OBVIOUS
      <4> QED
        BY <4>1 DEF Slot
    <3>3. Slot(from, 1, len, 3) = Blank(len)
      BY DEF Slot
    <3>4. \A s \in 1 .. 3 : s = 1 \/ s = 2 \/ s = 3
      OBVIOUS
    <3> QED
      BY <2>7, <3>1, <3>2, <3>3, <3>4
  <2>9. result = LevelOf(from, 1, len)
    <3> HIDE DEF result
    <3> QED
      BY <2>6, <2>8 DEF LevelOf
  <2>10. r = 1
    BY <1>10
  <2> HIDE DEF result
  <2> QED
    BY <2>9, <2>10
<1>11. CASE k # 3
  <2>1. ~ slide
    BY <1>11
  <2>2. Popped(slide, back) = Blank(len) /\ AfterPop(slide, back) = back
    BY <1>8, <2>1 DEF Popped, AfterPop
  <2>3. slots[1] \in S /\ XorCells(slots[1], Popped(slide, back)) = slots[1]
    <3>1. 1 \in 1 .. 3
      OBVIOUS
    <3> QED
      BY <1>2, <1>5, <2>2, <3>1
  <2>4. result = [s \in 1 .. 3 |-> IF s = 1 THEN slots[1] ELSE IF s = 2 THEN u ELSE w]
    <3> HIDE DEF back
    <3>1. result = <<slots[1]>> \o <<u, w>>
      BY <2>2, <2>3 DEF back
    <3> QED
      BY <1>7, <1>9, <2>3, <3>1
  <2>5. \A s \in 1 .. 3 : Slot(from, r, len, s) = IF s = 1 THEN slots[1] ELSE IF s = 2 THEN u ELSE w
    <3>1. CASE k >= 2
      <4>1. k = 2 /\ r = 0
        BY <1>11, <3>1
      <4>2. (3 - k) * len = len
        BY <4>1
      <4>3. u = Row(from + len, len) /\ w = Row((from + len) + len, len)
        BY <1>6, <3>1, <4>2
      <4>4. slots[1] = Row(from + (1 - 1) * len, len)
        BY <1>2, <4>1 DEF Slot
      <4>5. from + (2 - 1) * len = from + len /\ from + (3 - 1) * len = (from + len) + len
        OBVIOUS
      <4>6. Slot(from, 0, len, 1) = slots[1] /\ Slot(from, 0, len, 2) = u /\ Slot(from, 0, len, 3) = w
        BY <4>3, <4>4, <4>5 DEF Slot
      <4>7. \A s \in 1 .. 3 : s = 1 \/ s = 2 \/ s = 3
        OBVIOUS
      <4> QED
        BY <4>1, <4>6, <4>7
    <3>2. CASE ~ (k >= 2)
      <4>1. r = k
        BY <3>2
      <4>2. u = Slot(from, k, len, 2) /\ w = Slot(from, k, len, 3)
        BY <1>6, <3>2
      <4>3. \A s \in 1 .. 3 : s = 1 \/ s = 2 \/ s = 3
        OBVIOUS
      <4> QED
        BY <1>2, <4>1, <4>2, <4>3
    <3> QED
      BY <3>1, <3>2
  <2>6. result = LevelOf(from, r, len)
    <3> HIDE DEF result
    <3> QED
      BY <2>4, <2>5 DEF LevelOf
  <2> QED
    BY <2>6
<1> QED
  BY <1>10, <1>11

-----------------------------------------------------------------------------
(* The vacancy counter *)

LEMMA CountedIs ==
  ASSUME NEW p \in BOOLEAN, NEW k \in 0 .. 3
  PROVE  Counted(p, {k}) = {IF ~ p THEN k ELSE IF k = 3 THEN 0 ELSE k + 1}
<1> DEFINE moved == IF p THEN {i + 1 : i \in {k} \cap 0 .. 2} ELSE {k} \ {0}
<1>1. \A e : Cardinality({e}) % 2 = 1
  <2>1. \A e : Cardinality({e}) = 1
    BY FS_Singleton
  <2> QED
    BY <2>1
<1>2. Cardinality({}) % 2 # 1
  BY FS_EmptySet
<1>3. CASE p /\ k = 3
  <2>1. moved = {}
    BY <1>3
  <2> HIDE DEF moved
  <2>2. (IF Cardinality(moved) % 2 = 1 THEN moved ELSE moved \cup {0}) = {0}
    BY <1>2, <2>1
  <2> QED
    BY <1>3, <2>2 DEF Counted, moved
<1>4. CASE p /\ k # 3
  <2>1. moved = {k + 1}
    <3>1. {k} \cap 0 .. 2 = {k}
      <4>1. k \in 0 .. 2
        BY <1>4
      <4> QED
        BY <4>1, Zenon
    <3>2. {i + 1 : i \in {k}} = {k + 1}
      OBVIOUS
    <3> QED
      BY <1>4, <3>1, <3>2
  <2> HIDE DEF moved
  <2>2. (IF Cardinality(moved) % 2 = 1 THEN moved ELSE moved \cup {0}) = {k + 1}
    BY <1>1, <2>1
  <2> QED
    BY <1>4, <2>2 DEF Counted, moved
<1>5. CASE ~ p /\ k = 0
  <2>1. moved = {}
    BY <1>5
  <2> HIDE DEF moved
  <2>2. (IF Cardinality(moved) % 2 = 1 THEN moved ELSE moved \cup {0}) = {0}
    BY <1>2, <2>1
  <2> QED
    BY <1>5, <2>2 DEF Counted, moved
<1>6. CASE ~ p /\ k # 0
  <2>1. moved = {k}
    BY <1>6
  <2> HIDE DEF moved
  <2>2. (IF Cardinality(moved) % 2 = 1 THEN moved ELSE moved \cup {0}) = {k}
    BY <1>1, <2>1
  <2> QED
    BY <1>6, <2>2 DEF Counted, moved
<1> QED
  BY <1>3, <1>4, <1>5, <1>6

LEMMA RefilledIs ==
  ASSUME NEW k \in 0 .. 3
  PROVE  /\ RoomForTwo({k}) <=> k >= 2
         /\ Refilled({k}) = {IF k >= 2 THEN k - 2 ELSE k}
<1>1. k = 0 \/ k = 1 \/ k = 2 \/ k = 3
  OBVIOUS
<1>2. RoomForTwo({k}) <=> k >= 2
  BY <1>1 DEF RoomForTwo
<1>3. ASSUME NEW i \in {0, 1}
      PROVE  ((i \in {k}) # (i + 2 \in {k})) <=> i = (IF k >= 2 THEN k - 2 ELSE k)
  BY <1>1
<1>4. (IF k >= 2 THEN k - 2 ELSE k) \in {0, 1}
  BY <1>1
<1> DEFINE r == IF k >= 2 THEN k - 2 ELSE k
<1> HIDE DEF r
<1>5. Refilled({k}) = {r}
  BY <1>3, <1>4 DEF Refilled, r
<1> QED
  BY <1>2, <1>5 DEF r

-----------------------------------------------------------------------------
(* The levels, and when they are visited *)

\* There are levels, and they have room for all the words
LEMMA LevelsIs ==
  ASSUME NEW words \in Nat \ {0}
  PROVE  Levels(words) \in 1 .. words /\ 3 * (PowerOf2[Levels(words)] - 1) >= words
<1> DEFINE need == (words + 2) \div 3 + 1
<1>1. need \in Nat /\ need > 1 /\ need <= words + 1 /\ 3 * (need - 1) >= words
  OBVIOUS
<1>2. \E l \in 1 .. words : need <= PowerOf2[l] /\ \A k \in 0 .. (l - 1) : need > PowerOf2[k]
  <2> HIDE DEF need
  <2> QED
    BY <1>1, LeastPower
<1>3. Levels(words) \in 1 .. words /\ need <= PowerOf2[Levels(words)]
  BY <1>2 DEF Levels, need
<1> HIDE DEF need
<1>4. PowerOf2[Levels(words)] \in Nat
  BY <1>3, PowerOf2Is
<1> QED
  BY <1>1, <1>3, <1>4

\* A level counts its visits in the quotient of the timer, and every second
\* of them is a visit to the next level
LEMMA Visits ==
  ASSUME NEW t \in Nat, NEW l \in Nat
  PROVE  LET q == t \div PowerOf2[l]
         IN  /\ q \in Nat /\ q % 2 \in {0, 1}
             /\ (t + 1) \div PowerOf2[l] = IF VisitedAt(t, l) THEN q + 1 ELSE q
             /\ VisitedAt(t, l + 1) <=> VisitedAt(t, l) /\ q % 2 = 1
<1> DEFINE p == PowerOf2[l]
           q == t \div p
           r == t % p
           h == q \div 2
           b == q % 2
<1>1. p \in Nat /\ p > 0 /\ PowerOf2[l + 1] = 2 * p
  BY PowerOf2Is
<1> HIDE DEF p
<1>2. q \in Nat /\ r \in Nat /\ r < p /\ t = q * p + r
  BY <1>1
<1> HIDE DEF r, q
<1>3. h \in Nat /\ b \in {0, 1} /\ q = h * 2 + b
  BY <1>2
<1> HIDE DEF h, b
<1>4. VisitedAt(t, l) <=> r = p - 1
  BY DEF VisitedAt, r, p
<1>5. (t + 1) \div p = IF VisitedAt(t, l) THEN q + 1 ELSE q
  <2>1. CASE r = p - 1
    <3>1. t + 1 = (q + 1) * p + 0
      BY <1>1, <1>2, <2>1
    <3>2. ((q + 1) * p + 0) \div p = q + 1
      BY <1>1, <1>2, DivModUnique
    <3> QED
      BY <1>4, <2>1, <3>1, <3>2
  <2>2. CASE r # p - 1
    <3>1. t + 1 = q * p + (r + 1) /\ r + 1 \in Nat /\ r + 1 < p
      BY <1>1, <1>2, <2>2
    <3>2. (q * p + (r + 1)) \div p = q
      BY <1>1, <1>2, <3>1, DivModUnique
    <3> QED
      BY <1>4, <2>2, <3>1, <3>2
  <2> QED
    BY <2>1, <2>2
<1>6. VisitedAt(t, l + 1) <=> VisitedAt(t, l) /\ b = 1
  <2> DEFINE rest == b * p + r
  <2>1. rest = IF b = 0 THEN r ELSE p + r
    BY <1>1, <1>2, <1>3
  <2>2. t = h * (2 * p) + rest
    <3>1. q * p = h * (2 * p) + b * p
      BY <1>1, <1>3
    <3> QED
      BY <1>1, <1>2, <1>3, <3>1
  <2> HIDE DEF rest
  <2>3. rest \in Nat /\ rest < 2 * p
    BY <1>1, <1>2, <1>3, <2>1
  <2>4. t % (2 * p) = rest
    <3>1. 2 * p \in Nat /\ 2 * p > 0
      BY <1>1
    <3>2. (h * (2 * p) + rest) % (2 * p) = rest
      BY <1>3, <2>3, <3>1, DivModUnique
    <3> QED
      BY <2>2, <3>2
  <2>5. VisitedAt(t, l + 1) <=> rest = 2 * p - 1
    BY <1>1, <2>4 DEF VisitedAt
  <2> QED
    BY <1>1, <1>2, <1>3, <1>4, <2>1, <2>5
<1> QED
  BY <1>2, <1>3, <1>5, <1>6 DEF q, p, b

LEMMA VisitsLevel0 == \A t \in Nat : VisitedAt(t, 0)
  BY PowerOf2Is DEF VisitedAt

-----------------------------------------------------------------------------
(* The condition a level is popped under *)

LEMMA ConditionIs ==
  ASSUME NEW p \in BOOLEAN, NEW last \in Nat, DOMAIN content = 0 .. last
  PROVE  /\ Condition(p) \in [0 .. last -> BOOLEAN]
         /\ Condition(p)[0] = p
         /\ \A l \in 1 .. last :
              Condition(p)[l] = RoomForTwo(Counted(Condition(p)[l - 1], vacancies[l - 1]))
<1> DEFINE Asked(x, l) == RoomForTwo(Counted(x, vacancies[l - 1]))
           Of(c, l) == IF l = 0 THEN p ELSE Asked(c[l - 1], l)
           step == [l \in 0 + 1 .. last |-> [x \in BOOLEAN |-> Asked(x, l)]]
<1>1. \A x, l : Asked(x, l) \in BOOLEAN
  BY DEF RoomForTwo
<1>2. step \in [0 + 1 .. last -> [BOOLEAN -> BOOLEAN]]
  BY <1>1
<1>3. \A l \in 1 .. last, x \in BOOLEAN : step[l][x] = Asked(x, l)
  OBVIOUS
<1> HIDE DEF step, Asked
<1>4. PICK g : g \in [0 .. last -> BOOLEAN] /\ g[0] = p /\ \A l \in 0 + 1 .. last : g[l] = step[l][g[l - 1]]
  <2>1. 0 \in Nat /\ 0 <= last
    OBVIOUS
  <2>2. \E g : SolvesRecursion(g, BOOLEAN, p, 0, last, step)
    BY <1>2, <2>1, Recursion
  <2> QED
    BY <2>2 DEF SolvesRecursion
<1>5. \A l \in 0 .. last : g[l] = Of(g, l)
  <2> SUFFICES ASSUME NEW l \in 0 .. last, l # 0
               PROVE  g[l] = Asked(g[l - 1], l)
    BY <1>4
  <2>1. l \in 1 .. last /\ l - 1 \in 0 .. last /\ l \in 0 + 1 .. last
    OBVIOUS
  <2>2. g[l] = step[l][g[l - 1]] /\ g[l - 1] \in BOOLEAN
    BY <1>4, <2>1
  <2> QED
    BY <1>3, <2>1, <2>2, Zenon
<1>6. Condition(p) = CHOOSE c : c = [l \in 0 .. last |-> Of(c, l)]
  BY DEF Condition, Asked
<1>7. g = [l \in 0 .. last |-> Of(g, l)]
  <2> HIDE DEF Of
  <2> QED
    BY <1>4, <1>5
<1>8. PICK c : c = Condition(p)
  OBVIOUS
<1>9. c = [l \in 0 .. last |-> Of(c, l)]
  <2> HIDE DEF Of
  <2> QED
    BY <1>6, <1>7, <1>8, Zenon
<1>10. c[0] = p
  BY <1>9
<1>11. \A l \in 1 .. last : c[l] = Asked(c[l - 1], l)
  <2> SUFFICES ASSUME NEW l \in 1 .. last
               PROVE  c[l] = Asked(c[l - 1], l)
    OBVIOUS
  <2>1. l \in 0 .. last /\ l # 0
    OBVIOUS
  <2>2. c[l] = Of(c, l)
    <3> HIDE DEF Of
    <3> QED
      BY <1>9, <2>1
  <2> QED
    BY <2>1, <2>2, Zenon
<1>12. \A l \in 0 .. last : c[l] \in BOOLEAN
  <2> SUFFICES ASSUME NEW l \in 0 .. last
               PROVE  c[l] \in BOOLEAN
    OBVIOUS
  <2>1. CASE l = 0
    BY <1>10, <2>1
  <2>2. CASE l # 0
    <3>1. l \in 1 .. last
      BY <2>2
    <3>2. c[l] = Asked(c[l - 1], l)
      BY <1>11, <3>1
    <3> QED
      BY <1>1, <3>2
  <2> QED
    BY <2>1, <2>2
<1>13. c \in [0 .. last -> BOOLEAN]
  <2> HIDE DEF Of
  <2>1. c = [l \in 0 .. last |-> c[l]]
    BY <1>9
  <2> QED
    BY <1>12, <2>1
<1> QED
  BY <1>8, <1>10, <1>11, <1>13 DEF Asked

-----------------------------------------------------------------------------
(* One query *)

\* A query under the condition p takes a slot from level l
Takes(p, l) == Visited(l) /\ Condition(p)[l]

\* The vacancies of level l before its refill
Emptied(p, vacant, l) == vacant[l] + (IF Takes(p, l) THEN 1 ELSE 0)

NewFirst(p, first) ==
  [l \in Depths |-> first[l] + (IF Takes(p, l) THEN PowerOf2[l] ELSE 0)]

NewVacant(p, vacant) ==
  [l \in Depths |->
     LET k == Emptied(p, vacant, l)
     IN  IF l # LastLevel /\ Visited(l + 1) /\ k >= 2 THEN k - 2
         ELSE IF k = 4 THEN 0 ELSE k]

Numbers == n \in 1 .. MaxWords /\ taken \in 0 .. n /\ timer \in Nat

LEMMA Sizes ==
  ASSUME Numbers
  PROVE  /\ n \in Nat /\ LastLevel \in Nat /\ LastLevel \in Depths /\ 0 \in Depths
         /\ \A l \in Depths : /\ l \in Nat /\ PowerOf2[l] \in Nat /\ PowerOf2[l] > 0
                              /\ PowerOf2[l + 1] = 2 * PowerOf2[l]
                              /\ l # LastLevel => l + 1 \in Depths
                              /\ l # 0 => l - 1 \in Depths /\ (l - 1) + 1 = l /\ l - 1 # LastLevel
<1>1. n \in Nat \ {0}
  BY MaxWordsAssumption DEF Numbers
<1>2. Levels(n) \in 1 .. n
  BY <1>1, LevelsIs
<1>3. LastLevel \in Nat
  BY <1>1, <1>2 DEF LastLevel
<1> QED
  BY <1>1, <1>3, PowerOf2Is DEF Depths

\* What the invariant says of a level, and the conditions of the query
LEMMA LevelFacts ==
  ASSUME Numbers, NEW vacant, NEW first, Holds(vacant, first), NEW p \in BOOLEAN, NEW l \in Depths
  PROVE  /\ DOMAIN content = Depths /\ Condition(p)[l] \in BOOLEAN /\ Condition(p)[0] = p
         /\ vacant[l] \in 0 .. 3 /\ first[l] \in Nat
         /\ content[l] = LevelOf(first[l], vacant[l], PowerOf2[l]) /\ vacancies[l] = {vacant[l]}
         /\ \A r : Visited(l) /\ r = (IF Emptied(p, vacant, l) = 4 THEN 0 ELSE Emptied(p, vacant, l)) =>
              Counted(Condition(p)[l], vacancies[l]) = {r}
         /\ l # LastLevel => /\ vacant[l] \in 0 .. 2 /\ Emptied(p, vacant, l) \in 0 .. 3
                             /\ first[l + 1] = first[l] + (3 - vacant[l]) * PowerOf2[l]
                             /\ Visited(l) => (Condition(p)[l + 1] <=> Emptied(p, vacant, l) >= 2)
         /\ vacant[l] = 3 => first[l] >= n
<1> DEFINE c == Condition(p)[l]
           k == Emptied(p, vacant, l)
<1>1. LastLevel \in Nat /\ l \in Nat /\ PowerOf2[l] \in Nat /\ Depths = 0 .. LastLevel
  BY Sizes DEF Depths
<1>2. /\ DOMAIN content = Depths
      /\ vacant[l] \in 0 .. 3 /\ first[l] \in Nat
      /\ content[l] = LevelOf(first[l], vacant[l], PowerOf2[l]) /\ vacancies[l] = {vacant[l]}
  BY DEF Holds
<1>3. Condition(p) \in [Depths -> BOOLEAN] /\ Condition(p)[0] = p
  BY <1>1, <1>2, ConditionIs
<1>4. c \in BOOLEAN
  BY <1>3
<1>5. k = vacant[l] + IF Visited(l) /\ c THEN 1 ELSE 0
  BY DEF Emptied, Takes
<1>6. Visited(l) => Counted(c, vacancies[l]) = {IF k = 4 THEN 0 ELSE k}
  <2> HIDE DEF c, k
  <2> SUFFICES ASSUME Visited(l)
               PROVE  Counted(c, vacancies[l]) = {IF k = 4 THEN 0 ELSE k}
    OBVIOUS
  <2>1. Counted(c, vacancies[l]) = {IF ~ c THEN vacant[l] ELSE IF vacant[l] = 3 THEN 0 ELSE vacant[l] + 1}
    BY <1>2, <1>4, CountedIs
  <2>2. (IF k = 4 THEN 0 ELSE k) = IF ~ c THEN vacant[l] ELSE IF vacant[l] = 3 THEN 0 ELSE vacant[l] + 1
    BY <1>2, <1>4, <1>5
  <2> QED
    BY <2>1, <2>2
<1>7. ASSUME l # LastLevel
      PROVE  /\ vacant[l] \in 0 .. 2 /\ k \in 0 .. 3
             /\ first[l + 1] = first[l] + (3 - vacant[l]) * PowerOf2[l]
             /\ Visited(l) => (Condition(p)[l + 1] <=> k >= 2)
  <2>1. /\ first[l + 1] = first[l] + (3 - vacant[l]) * PowerOf2[l]
        /\ vacant[l] <= 1 + ((timer \div PowerOf2[l]) % 2)
    BY <1>7 DEF Holds
  <2>2. (timer \div PowerOf2[l]) % 2 \in {0, 1}
    BY <1>1, Visits DEF Numbers
  <2>3. vacant[l] \in 0 .. 2 /\ k \in 0 .. 3
    <3> HIDE DEF c, k
    <3> QED
      BY <1>2, <1>5, <2>1, <2>2
  <2>4. ASSUME Visited(l)
        PROVE  Condition(p)[l + 1] <=> k >= 2
    <3>1. l + 1 \in 1 .. LastLevel /\ (l + 1) - 1 = l
      BY <1>1, <1>7
    <3>2. \A m \in 1 .. LastLevel :
            Condition(p)[m] = RoomForTwo(Counted(Condition(p)[m - 1], vacancies[m - 1]))
      BY <1>1, <1>2, ConditionIs
    <3>3. Condition(p)[l + 1] = RoomForTwo(Counted(c, vacancies[l]))
      BY <3>1, <3>2
    <3>4. Counted(c, vacancies[l]) = {k}
      <4>1. k # 4
        BY <2>3
      <4> QED
        BY <1>6, <2>4, <4>1
    <3>5. RoomForTwo({k}) <=> k >= 2
      BY <2>3, RefilledIs
    <3> QED
      BY <3>3, <3>4, <3>5
  <2> QED
    BY <2>1, <2>3, <2>4
<1>8. ASSUME vacant[l] = 3
      PROVE  first[l] >= n
  <2>1. l = LastLevel
    BY <1>7, <1>8
  <2>2. first[l] + (3 - vacant[l]) * PowerOf2[l] >= n
    BY <2>1 DEF Holds
  <2>3. (3 - vacant[l]) * PowerOf2[l] = 0
    BY <1>1, <1>8
  <2> QED
    BY <1>2, <2>2, <2>3
<1>9. \A r : Visited(l) /\ r = (IF k = 4 THEN 0 ELSE k) => Counted(c, vacancies[l]) = {r}
  <2> HIDE DEF c, k
  <2> QED
    BY <1>6
<1> QED
  BY <1>2, <1>3, <1>4, <1>7, <1>8, <1>9

\* The pop of a level that is visited
LEMMA PoppedIs ==
  ASSUME Numbers, NEW vacant, NEW first, Holds(vacant, first), NEW p \in BOOLEAN, NEW l \in Depths,
         Visited(l)
  PROVE  LET k == Emptied(p, vacant, l)
             c == Condition(p)[l]
         IN  /\ AfterPop(c, content[l])
                  = LevelOf(NewFirst(p, first)[l], IF k = 4 THEN 0 ELSE k, PowerOf2[l])
             /\ Popped(c, content[l])
                  = IF c THEN Row(first[l], PowerOf2[l]) ELSE Blank(PowerOf2[l])
<1> DEFINE c == Condition(p)[l]
           k == Emptied(p, vacant, l)
           r == IF k = 4 THEN 0 ELSE k
           f == NewFirst(p, first)[l]
           len == PowerOf2[l]
           v == vacant[l]
           from == first[l]
<1>1. len \in Nat /\ n \in Nat
  BY Sizes
<1>2. /\ c \in BOOLEAN /\ v \in 0 .. 3 /\ from \in Nat
      /\ content[l] = LevelOf(from, v, len)
      /\ v = 3 => from >= n
  BY LevelFacts
<1>3. k = (IF c THEN v + 1 ELSE v) /\ f = (IF c THEN from + len ELSE from)
  <2>1. k = v + (IF c THEN 1 ELSE 0) /\ f = from + IF c THEN len ELSE 0
    BY DEF Emptied, Takes, NewFirst
  <2> HIDE DEF c, k, f, v, from, len
  <2> QED
    BY <1>1, <1>2, <2>1
<1> HIDE DEF c, k, f, len, v, from
<1>4. CASE c /\ v = 3
  <2>1. r = 0 /\ f = from + len /\ from >= n
    BY <1>2, <1>3, <1>4
  <2>2. Popped(TRUE, LevelOf(from, 3, len)) = Row(from, len) /\ AfterPop(TRUE, LevelOf(from, 3, len)) = LevelOf(from + len, 0, len)
    BY <1>1, <1>2, <2>1, PopOfNothing
  <2>3. c = TRUE
    BY <1>4
  <2> HIDE DEF r
  <2>4. AfterPop(c, content[l]) = LevelOf(f, r, len)
    BY <1>2, <1>4, <2>1, <2>2, <2>3
  <2>5. Popped(c, content[l]) = Row(from, len)
    BY <1>2, <1>4, <2>2, <2>3
  <2> QED
    BY <2>3, <2>4, <2>5 DEF r, c, k, f, len, v, from
<1>5. CASE c /\ v # 3
  <2>1. r = v + 1 /\ f = from + len /\ v \in 0 .. 2
    BY <1>2, <1>3, <1>5
  <2>2. Popped(TRUE, LevelOf(from, v, len)) = Row(from, len) /\ AfterPop(TRUE, LevelOf(from, v, len)) = LevelOf(from + len, v + 1, len)
    BY <1>1, <1>2, <2>1, PopIs
  <2>3. c = TRUE
    BY <1>5
  <2> HIDE DEF r
  <2>4. AfterPop(c, content[l]) = LevelOf(f, r, len)
    BY <1>2, <2>1, <2>2, <2>3
  <2>5. Popped(c, content[l]) = Row(from, len)
    BY <1>2, <2>2, <2>3
  <2> QED
    BY <2>3, <2>4, <2>5 DEF r, c, k, f, len, v, from
<1>6. CASE ~ c
  <2>1. r = v /\ f = from
    BY <1>2, <1>3, <1>6
  <2>2. Popped(FALSE, LevelOf(from, v, len)) = Blank(len) /\ AfterPop(FALSE, LevelOf(from, v, len)) = LevelOf(from, v, len)
    BY <1>1, <1>2, PassIs
  <2>3. c = FALSE
    BY <1>2, <1>6
  <2> HIDE DEF r
  <2>4. AfterPop(c, content[l]) = LevelOf(f, r, len)
    BY <1>2, <2>1, <2>2, <2>3
  <2>5. Popped(c, content[l]) = Blank(len)
    BY <1>2, <2>2, <2>3
  <2> QED
    BY <2>3, <2>4, <2>5 DEF r, c, k, f, len, v, from
<1> QED
  BY <1>4, <1>5, <1>6

\* The words that level l + 1 hands to level l
LEMMA BackFillIs ==
  ASSUME Numbers, NEW vacant, NEW first, Holds(vacant, first), NEW p \in BOOLEAN, NEW l \in Depths,
         l # LastLevel, Visited(l + 1), Visited(l)
  PROVE  LET k == Emptied(p, vacant, l)
             len == PowerOf2[l]
             from == NewFirst(p, first)[l] + (3 - k) * len
             fill == BackFill(Condition(p), l)
         IN  /\ fill[1] = IF k >= 2 THEN Row(from, len) ELSE Blank(len)
             /\ fill[2] = IF k >= 2 THEN Row(from + len, len) ELSE Blank(len)
<1> DEFINE k == Emptied(p, vacant, l)
           len == PowerOf2[l]
           f == NewFirst(p, first)[l]
           from == f + (3 - k) * len
           below == first[l + 1]
           popped == Popped(Condition(p)[l + 1], content[l + 1])
           fill == BackFill(Condition(p), l)
<1>1. n \in Nat /\ len \in Nat /\ l + 1 \in Depths /\ PowerOf2[l + 1] = 2 * len
  BY Sizes
<1>2. below \in Nat
  BY <1>1, LevelFacts
<1>3. /\ vacant[l] \in 0 .. 2 /\ k \in 0 .. 3 /\ first[l] \in Nat
      /\ below = first[l] + (3 - vacant[l]) * len
      /\ Condition(p)[l + 1] <=> k >= 2
  BY LevelFacts
<1>4. below = from
  <2> DEFINE t == IF Takes(p, l) THEN 1 ELSE 0
             v == vacant[l]
             g == first[l]
  <2>1. k = v + t
    BY DEF Emptied
  <2>2. f = g + t * len
    <3>1. f = g + IF Takes(p, l) THEN len ELSE 0
      BY DEF NewFirst
    <3> HIDE DEF f, g, len
    <3> QED
      BY <1>1, <3>1
  <2>3. t \in {0, 1} /\ v \in Nat /\ g \in Nat /\ below = g + (3 - v) * len
    BY <1>3
  <2> HIDE DEF k, f, t, v, g, below, len
  <2>4. (3 - v) * len = t * len + (3 - (v + t)) * len
    <3>1. CASE t = 0
      BY <1>1, <2>3, <3>1
    <3>2. CASE t = 1
      <4>1. \A i \in Int : i * len = len + (i - 1) * len
        BY <1>1
      <4>2. 3 - v \in Int /\ (3 - v) - 1 = 3 - (v + 1)
        BY <2>3
      <4>3. (3 - v) * len = len + ((3 - v) - 1) * len
        BY <4>1, <4>2
      <4>4. t * len = len
        BY <1>1, <3>2
      <4> QED
        BY <3>2, <4>2, <4>3, <4>4
    <3> QED
      BY <2>3, <3>1, <3>2
  <2>5. from = g + t * len + (3 - (v + t)) * len
    BY <2>1, <2>2
  <2>6. (3 - (v + t)) * len \in Int /\ t * len \in Int
    BY <1>1, <2>3
  <2> QED
    BY <2>3, <2>4, <2>5, <2>6
<1>5. popped = IF k >= 2 THEN Row(below, 2 * len) ELSE Blank(2 * len)
  <2>1. popped = IF Condition(p)[l + 1] THEN Row(below, 2 * len) ELSE Blank(2 * len)
    BY <1>1, PoppedIs
  <2> QED
    BY <1>3, <2>1
<1>6. fill[1] = SubSeq(popped, 1, len) /\ fill[2] = SubSeq(popped, len + 1, 2 * len)
  BY DEF BackFill
<1> HIDE DEF fill, popped, len, k, f, from, below
<1>7. /\ fill[1] = IF k >= 2 THEN Row(below, len) ELSE Blank(len)
      /\ fill[2] = IF k >= 2 THEN Row(below + len, len) ELSE Blank(len)
  BY <1>1, <1>2, <1>5, <1>6, Halves
<1> QED
  BY <1>4, <1>7 DEF fill, len, k, f, from

LEMMA LevelStep ==
  ASSUME Numbers, NEW vacant, NEW first, Holds(vacant, first), NEW p \in BOOLEAN, NEW l \in Depths
  PROVE  /\ NextLevel(Condition(p), l)
              = LevelOf(NewFirst(p, first)[l], NewVacant(p, vacant)[l], PowerOf2[l])
         /\ NextVacancies(Condition(p), l) = {NewVacant(p, vacant)[l]}
<1> DEFINE cond == Condition(p)
           k == Emptied(p, vacant, l)
           len == PowerOf2[l]
           f == NewFirst(p, first)[l]
           w == NewVacant(p, vacant)[l]
           next == NextLevel(cond, l)
           v == NextVacancies(cond, l)
<1>1. n \in Nat /\ len \in Nat /\ l \in Nat /\ timer \in Nat /\ LastLevel \in Nat
  BY Sizes DEF Numbers
<1>2. /\ DOMAIN content = Depths
      /\ vacant[l] \in 0 .. 3 /\ first[l] \in Nat
      /\ content[l] = LevelOf(first[l], vacant[l], len) /\ vacancies[l] = {vacant[l]}
      /\ Visited(l) => Counted(cond[l], vacancies[l]) = {IF k = 4 THEN 0 ELSE k}
  <2>1. /\ DOMAIN content = Depths
        /\ vacant[l] \in 0 .. 3 /\ first[l] \in Nat
        /\ content[l] = LevelOf(first[l], vacant[l], len) /\ vacancies[l] = {vacant[l]}
    BY LevelFacts
  <2>2. Visited(l) => Counted(cond[l], vacancies[l]) = {IF k = 4 THEN 0 ELSE k}
    <3> DEFINE r == IF k = 4 THEN 0 ELSE k
    <3>1. r = IF k = 4 THEN 0 ELSE k
      OBVIOUS
    <3> HIDE DEF r
    <3>2. Visited(l) => Counted(cond[l], vacancies[l]) = {r}
      BY <3>1, LevelFacts
    <3> QED
      BY <3>2 DEF r
  <2> QED
    BY <2>1, <2>2
<1>3. Visited(l + 1) => Visited(l)
  BY <1>1, Visits DEF Visited
<1>4. Refills(l) <=> l # LastLevel /\ Visited(l + 1)
  <2>1. l + 1 \in DOMAIN content <=> l # LastLevel
    BY <1>1, <1>2 DEF Depths
  <2> QED
    BY <2>1 DEF Refills
<1>5. w = IF l # LastLevel /\ Visited(l + 1) /\ k >= 2 THEN k - 2 ELSE IF k = 4 THEN 0 ELSE k
  BY DEF NewVacant
<1>6. CASE ~ Visited(l)
  <2>1. k = vacant[l] /\ f = first[l]
    <3>1. ~ Takes(p, l)
      BY <1>6 DEF Takes
    <3>2. k = vacant[l] + 0 /\ f = first[l] + 0
      BY <3>1 DEF Emptied, NewFirst
    <3> QED
      BY <1>2, <3>2
  <2>2. w = k
    BY <1>2, <1>3, <1>5, <1>6, <2>1
  <2>3. next = content[l] /\ v = vacancies[l]
    BY <1>6 DEF NextLevel, NextVacancies
  <2> HIDE DEF next, v, k, f, len, w
  <2>4. next = LevelOf(f, w, len) /\ v = {w}
    BY <1>2, <2>1, <2>2, <2>3
  <2> QED
    BY <2>4 DEF next, v, w, f, len
<1>7. CASE Visited(l) /\ ~ Refills(l)
  <2>1. w = IF k = 4 THEN 0 ELSE k
    BY <1>4, <1>5, <1>7
  <2>2. AfterPop(cond[l], content[l]) = LevelOf(f, IF k = 4 THEN 0 ELSE k, len)
    BY <1>7, PoppedIs
  <2>3. next = AfterPop(cond[l], content[l]) /\ v = Counted(cond[l], vacancies[l])
    BY <1>7 DEF NextLevel, NextVacancies
  <2> HIDE DEF next, v, k, f, len, w, cond
  <2>4. next = LevelOf(f, w, len) /\ v = {w}
    BY <1>2, <1>7, <2>1, <2>2, <2>3
  <2> QED
    BY <2>4 DEF next, v, w, f, len, cond
<1>8. CASE Visited(l) /\ Refills(l)
  <2> DEFINE x == BackFill(cond, l)[1]
             y == BackFill(cond, l)[2]
             slots == LevelOf(f, k, len)
             back == <<XorCells(Tail(slots)[1], x), XorCells(Tail(slots)[2], y)>>
             slide == Slides(cond, l, v)
  <2>1. k \in 0 .. 3 /\ (cond[l + 1] <=> k >= 2)
    BY <1>4, <1>8, LevelFacts
  <2>2. cond[l + 1] \in BOOLEAN
    <3>1. l + 1 \in Depths
      BY <1>4, <1>8, Sizes
    <3> QED
      BY <3>1, LevelFacts
  <2>3. w = IF k >= 2 THEN k - 2 ELSE k
    BY <1>4, <1>5, <1>8, <2>1
  <2>4. AfterPop(cond[l], content[l]) = slots
    <3>1. AfterPop(cond[l], content[l]) = LevelOf(f, IF k = 4 THEN 0 ELSE k, len)
      BY <1>8, PoppedIs
    <3>2. (IF k = 4 THEN 0 ELSE k) = k
      BY <2>1
    <3> HIDE DEF cond, k, f, len
    <3> QED
      BY <3>1, <3>2
  <2>5. v = {w}
    <3>1. v = Refilled(Counted(cond[l], vacancies[l]))
      BY <1>8 DEF NextVacancies
    <3>2. Counted(cond[l], vacancies[l]) = {k}
      <4>1. (IF k = 4 THEN 0 ELSE k) = k
        BY <2>1
      <4> HIDE DEF cond, k
      <4> QED
        BY <1>2, <1>8, <4>1
    <3>3. Refilled({k}) = {IF k >= 2 THEN k - 2 ELSE k}
      <4> HIDE DEF k
      <4> QED
        BY <2>1, RefilledIs
    <3> QED
      BY <2>3, <3>1, <3>2, <3>3
  <2>6. slide \in BOOLEAN /\ (slide <=> k = 3)
    <3>1. slide <=> cond[l + 1] /\ 1 \in v
      BY DEF Slides
    <3>2. slide \in BOOLEAN
      BY <2>2 DEF Slides
    <3> HIDE DEF slide, v, k, w, cond
    <3> QED
      BY <2>1, <2>3, <2>5, <3>1, <3>2
  <2>7. /\ x = IF k >= 2 THEN Row(f + (3 - k) * len, len) ELSE Blank(len)
        /\ y = IF k >= 2 THEN Row((f + (3 - k) * len) + len, len) ELSE Blank(len)
    BY <1>3, <1>4, <1>8, BackFillIs
  <2>8. f \in Nat
    <3>1. f = first[l] + IF Takes(p, l) THEN len ELSE 0
      BY DEF NewFirst
    <3> HIDE DEF f, len
    <3> QED
      BY <1>1, <1>2, <3>1
  <2>9. Slid(slots, back, slide) = LevelOf(f, w, len)
    <3>1. slots = LevelOf(f, k, len) /\ Filled(back, slots, x, y)
      BY DEF Filled
    <3> HIDE DEF x, y, slide, f, k, len, slots, back, w
    <3> QED
      BY <1>1, <2>1, <2>3, <2>6, <2>7, <2>8, <3>1, RefillIs
  <2>10. FilledBack(cond, l) = back
    <3>1. FilledBack(cond, l) = <<XorCells(Tail(AfterPop(cond[l], content[l]))[1], x),
                                  XorCells(Tail(AfterPop(cond[l], content[l]))[2], y)>>
      BY DEF FilledBack
    <3> HIDE DEF x, y, slots, cond
    <3> QED
      BY <2>4, <3>1
  <2>11. next = Slid(slots, back, slide)
    <3>1. next = <<XorCells(AfterPop(cond[l], content[l])[1], Popped(slide, FilledBack(cond, l)))>>
                   \o AfterPop(slide, FilledBack(cond, l))
      BY <1>8 DEF NextLevel
    <3> HIDE DEF slots, cond, back, slide, next
    <3> QED
      BY <2>4, <2>10, <3>1 DEF Slid
  <2>12. next = LevelOf(f, w, len)
    <3> HIDE DEF next, slots, back, slide, w, k, f, len
    <3> QED
      BY <2>9, <2>11
  <2> HIDE DEF next, v, w, f, len, cond
  <2> QED
    BY <2>5, <2>12 DEF next, v, w, f, len, cond
<1> QED
  BY <1>6, <1>7, <1>8

-----------------------------------------------------------------------------
(* The invariant *)

LEMMA InitStackInv ==
  ASSUME Init
  PROVE  StackInv
<1>1. Numbers
  <2>1. 0 \in 0 .. n
    BY MaxWordsAssumption DEF Init
  <2> QED
    BY <2>1 DEF Numbers, Init
<1>2. n \in Nat \ {0}
  BY MaxWordsAssumption DEF Init
<1>3. PICK vacant, first : vacant = [l \in Depths |-> 0] /\ first = [l \in Depths |-> 3 * (PowerOf2[l] - 1)]
  OBVIOUS
<1>4. \A l \in Depths : vacant[l] = 0 /\ first[l] = 3 * (PowerOf2[l] - 1)
  BY <1>3
<1>5. vacant \in [Depths -> 0 .. 3] /\ first \in [Depths -> Nat]
  <2>1. \A l \in Depths : 3 * (PowerOf2[l] - 1) \in Nat
    BY <1>1, Sizes
  <2> QED
    BY <1>3, <2>1
<1>6. first[0] = taken
  <2>1. 0 \in Depths /\ PowerOf2[0] = 1
    BY <1>1, Sizes, PowerOf2Is
  <2> QED
    BY <1>4, <2>1 DEF Init
<1>7. ASSUME NEW l \in Depths, l # LastLevel
      PROVE  /\ first[l + 1] = first[l] + (3 - vacant[l]) * PowerOf2[l]
             /\ vacant[l] <= 1 + ((timer \div PowerOf2[l]) % 2)
  <2>1. PowerOf2[l] \in Nat /\ l \in Nat /\ PowerOf2[l + 1] = 2 * PowerOf2[l] /\ l + 1 \in Depths
    BY <1>1, <1>7, Sizes
  <2>2. (timer \div PowerOf2[l]) % 2 \in {0, 1}
    BY <1>1, <2>1, Visits DEF Numbers
  <2>3. first[l] = 3 * (PowerOf2[l] - 1) /\ first[l + 1] = 3 * (PowerOf2[l + 1] - 1) /\ vacant[l] = 0
    BY <1>4, <2>1
  <2> QED
    BY <2>1, <2>2, <2>3
<1>8. first[LastLevel] + (3 - vacant[LastLevel]) * PowerOf2[LastLevel] >= n
  <2>1. 3 * (PowerOf2[Levels(n)] - 1) >= n
    BY <1>2, LevelsIs
  <2>2. LastLevel \in Depths /\ PowerOf2[LastLevel] \in Nat /\ PowerOf2[LastLevel + 1] = 2 * PowerOf2[LastLevel]
    BY <1>1, Sizes
  <2>3. LastLevel + 1 = Levels(n)
    BY <1>2, LevelsIs DEF LastLevel
  <2>4. first[LastLevel] = 3 * (PowerOf2[LastLevel] - 1) /\ vacant[LastLevel] = 0
    BY <1>4, <2>2
  <2> QED
    BY <1>2, <2>1, <2>2, <2>3, <2>4
<1>9. content = [l \in Depths |-> LevelOf(first[l], vacant[l], PowerOf2[l])]
  <2>1. ASSUME NEW l \in Depths, NEW s \in 1 .. 3
        PROVE  InitialSlot(n, l, s) = Slot(first[l], vacant[l], PowerOf2[l], s)
    <3>1. Slot(first[l], vacant[l], PowerOf2[l], s) = Row(3 * (PowerOf2[l] - 1) + (s - 1) * PowerOf2[l], PowerOf2[l])
      <4>1. vacant[l] = 0 /\ first[l] = 3 * (PowerOf2[l] - 1)
        BY <1>4
      <4> QED
        BY <4>1 DEF Slot
    <3> QED
      BY <3>1 DEF InitialSlot, Row
  <2>2. content = [l \in Depths |-> [s \in 1 .. 3 |-> InitialSlot(n, l, s)]]
    BY DEF Init, InitialContent, Depths, LastLevel
  <2>3. \A l \in Depths : [s \in 1 .. 3 |-> InitialSlot(n, l, s)] = LevelOf(first[l], vacant[l], PowerOf2[l])
    BY <2>1 DEF LevelOf
  <2> QED
    BY <2>2, <2>3, Zenon
<1>10. vacancies = [l \in Depths |-> {vacant[l]}]
  <2>1. vacancies = [l \in Depths |-> {0}]
    BY DEF Init, Depths, LastLevel
  <2> QED
    BY <1>4, <2>1
<1>11. Holds(vacant, first)
  BY <1>5, <1>6, <1>7, <1>8, <1>9, <1>10 DEF Holds
<1> QED
  BY <1>1, <1>11 DEF StackInv, Numbers

\* What a query leaves of the levels' numbers
LEMMA NumbersStep ==
  ASSUME Numbers, NEW vacant, NEW first, Holds(vacant, first), NEW p \in BOOLEAN
  PROVE  LET v == NewVacant(p, vacant)
             f == NewFirst(p, first)
         IN  /\ v \in [Depths -> 0 .. 3] /\ f \in [Depths -> Nat]
             /\ f[0] = taken + IF p THEN 1 ELSE 0
             /\ \A l \in Depths : l # LastLevel =>
                  /\ f[l + 1] = f[l] + (3 - v[l]) * PowerOf2[l]
                  /\ v[l] <= 1 + (((timer + 1) \div PowerOf2[l]) % 2)
             /\ f[LastLevel] + (3 - v[LastLevel]) * PowerOf2[LastLevel] >= n
<1> DEFINE v == NewVacant(p, vacant)
           f == NewFirst(p, first)
           k(l) == Emptied(p, vacant, l)
           c(l) == IF Takes(p, l) THEN 1 ELSE 0
           len(l) == PowerOf2[l]
<1>1. ASSUME NEW l \in Depths
      PROVE  /\ k(l) = vacant[l] + c(l) /\ f[l] = first[l] + c(l) * len(l)
             /\ v[l] = IF l # LastLevel /\ Visited(l + 1) /\ k(l) >= 2 THEN k(l) - 2
                       ELSE IF k(l) = 4 THEN 0 ELSE k(l)
             /\ c(l) \in {0, 1} /\ vacant[l] \in 0 .. 3 /\ first[l] \in Nat /\ len(l) \in Nat
             /\ k(l) \in 0 .. 4
  <2>1. vacant[l] \in 0 .. 3 /\ first[l] \in Nat /\ len(l) \in Nat
    BY Sizes, LevelFacts
  <2>2. k(l) = vacant[l] + c(l)
    BY DEF Emptied
  <2>3. f[l] = first[l] + c(l) * len(l)
    <3>1. f[l] = first[l] + IF Takes(p, l) THEN len(l) ELSE 0
      BY DEF NewFirst
    <3>2. c(l) * len(l) = IF Takes(p, l) THEN len(l) ELSE 0
      BY <2>1
    <3> QED
      BY <3>1, <3>2
  <2>4. v[l] = IF l # LastLevel /\ Visited(l + 1) /\ k(l) >= 2 THEN k(l) - 2
               ELSE IF k(l) = 4 THEN 0 ELSE k(l)
    BY DEF NewVacant
  <2>5. c(l) \in {0, 1}
    OBVIOUS
  <2>6. k(l) \in 0 .. 4
    <3> HIDE DEF k, c
    <3> QED
      BY <2>1, <2>2, <2>5
  <2> QED
    BY <2>1, <2>2, <2>3, <2>4, <2>5, <2>6
<1>2. v \in [Depths -> 0 .. 3] /\ f \in [Depths -> Nat]
  <2>1. v = [l \in Depths |-> v[l]] /\ f = [l \in Depths |-> f[l]]
    BY DEF NewVacant, NewFirst
  <2>2. ASSUME NEW l \in Depths
        PROVE  v[l] \in 0 .. 3 /\ f[l] \in Nat
    <3> HIDE DEF v, f, k, c, len
    <3>1. v[l] \in 0 .. 3
      BY <1>1
    <3>2. f[l] = first[l] + c(l) * len(l) /\ (c(l) = 0 \/ c(l) = 1) /\ first[l] \in Nat /\ len(l) \in Nat
      BY <1>1
    <3>3. f[l] \in Nat
      BY <3>2
    <3> QED
      BY <3>1, <3>3
  <2> HIDE DEF v, f
  <2> QED
    BY <2>1, <2>2
<1>3. f[0] = taken + IF p THEN 1 ELSE 0
  <2>1. 0 \in Depths /\ PowerOf2[0] = 1
    BY Sizes, PowerOf2Is
  <2>2. Takes(p, 0) <=> p
    <3>1. Condition(p)[0] = p
      BY <2>1, LevelFacts
    <3>2. Visited(0)
      BY VisitsLevel0 DEF Numbers, Visited
    <3> QED
      BY <3>1, <3>2 DEF Takes
  <2>3. first[0] = taken
    BY DEF Holds
  <2>4. f[0] = first[0] + IF Takes(p, 0) THEN PowerOf2[0] ELSE 0
    BY <2>1 DEF NewFirst
  <2> QED
    BY <2>1, <2>2, <2>3, <2>4
<1>4. ASSUME NEW l \in Depths, l # LastLevel
      PROVE  /\ f[l + 1] = f[l] + (3 - v[l]) * PowerOf2[l]
             /\ v[l] <= 1 + (((timer + 1) \div PowerOf2[l]) % 2)
  <2>1. l + 1 \in Depths /\ len(l + 1) = 2 * len(l) /\ len(l) \in Nat /\ l \in Nat
    BY <1>4, Sizes
  <2>2. /\ vacant[l] \in 0 .. 2 /\ k(l) \in 0 .. 3
        /\ first[l + 1] = first[l] + (3 - vacant[l]) * len(l)
        /\ Visited(l) => (Condition(p)[l + 1] <=> k(l) >= 2)
    BY <1>4, LevelFacts
  <2> DEFINE q == timer \div PowerOf2[l]
  <2>3. /\ q \in Nat /\ q % 2 \in {0, 1}
        /\ (timer + 1) \div PowerOf2[l] = IF Visited(l) THEN q + 1 ELSE q
        /\ Visited(l + 1) <=> Visited(l) /\ q % 2 = 1
    BY <2>1, Visits DEF Numbers, Visited
  <2>4. c(l + 1) = IF Visited(l + 1) /\ k(l) >= 2 THEN 1 ELSE 0
    BY <2>2, <2>3 DEF Takes
  <2>5. v[l] = IF Visited(l + 1) /\ k(l) >= 2 THEN k(l) - 2 ELSE k(l)
    <3>1. v[l] = IF l # LastLevel /\ Visited(l + 1) /\ k(l) >= 2 THEN k(l) - 2
                 ELSE IF k(l) = 4 THEN 0 ELSE k(l)
      BY <1>1
    <3>2. k(l) # 4
      BY <2>2
    <3> QED
      BY <1>4, <3>1, <3>2
  <2>6. k(l) = vacant[l] + c(l) /\ c(l) \in {0, 1}
    BY <1>1
  <2>7. Visited(l) \/ c(l) = 0
    BY DEF Takes
  <2>8. vacant[l] <= 1 + (q % 2)
    BY <1>4 DEF Holds
  <2>9. v[l] <= 1 + (((timer + 1) \div PowerOf2[l]) % 2)
    <3> DEFINE q1 == (timer + 1) \div PowerOf2[l]
    <3>1. q1 = IF Visited(l) THEN q + 1 ELSE q
      BY <2>3
    <3>2. q1 % 2 = IF Visited(l) THEN 1 - (q % 2) ELSE q % 2
      <4> HIDE DEF q, q1
      <4>1. (q + 1) % 2 = 1 - (q % 2)
        BY <2>3
      <4> QED
        BY <3>1, <4>1
    <3> HIDE DEF q, q1, v, k, c
    <3> QED
      BY <2>2, <2>3, <2>5, <2>6, <2>7, <2>8, <3>2 DEF q1
  <2>10. f[l + 1] = f[l] + (3 - v[l]) * len(l)
    <3>1. f[l] = first[l] + c(l) * len(l) /\ f[l + 1] = first[l + 1] + c(l + 1) * (2 * len(l)) /\ first[l] \in Nat
      <4>1. f[l + 1] = first[l + 1] + c(l + 1) * len(l + 1)
        BY <1>1, <2>1
      <4>2. f[l] = first[l] + c(l) * len(l) /\ first[l] \in Nat
        BY <1>1
      <4> HIDE DEF f, c, len
      <4> QED
        BY <2>1, <4>1, <4>2
    <3> DEFINE m == len(l)
               x == vacant[l]
               a == c(l)
               b == c(l + 1)
               g == first[l]
               h == first[l + 1]
               y == v[l]
    <3>2. /\ m \in Nat /\ g \in Nat /\ h = g + (3 - x) * m /\ (a = 0 \/ a = 1) /\ (b = 0 \/ b = 1)
          /\ x \in 0 .. 2 /\ y = x + a - 2 * b
      <4>1. m \in Nat /\ g \in Nat /\ h = g + (3 - x) * m /\ x \in 0 .. 2
        BY <2>1, <2>2, <3>1
      <4>2. (a = 0 \/ a = 1) /\ (b = 0 \/ b = 1)
        OBVIOUS
      <4>3. y = x + a - 2 * b
        <5> HIDE DEF v, k, c
        <5> QED
          BY <2>2, <2>4, <2>5, <2>6
      <4> QED
        BY <4>1, <4>2, <4>3
    <3>3. f[l] = g + a * m /\ f[l + 1] = h + b * (2 * m)
      BY <3>1
    <3> HIDE DEF m, x, a, b, g, h, y, f
    <3>4. x = 0 \/ x = 1 \/ x = 2
      BY <3>2
    <3>5. h + b * (2 * m) = (g + a * m) + (3 - y) * m
      <4>1. \A i \in {0, 1}, j \in {0, 1}, z \in {0, 1, 2} :
              (g + (3 - z) * m) + j * (2 * m) = (g + i * m) + (3 - (z + i - 2 * j)) * m
        BY <3>2
      <4> QED
        BY <3>2, <3>4, <4>1
    <3>6. f[l + 1] = f[l] + (3 - y) * m
      BY <3>3, <3>5
    <3> QED
      BY <3>6 DEF m, y
  <2> QED
    BY <2>9, <2>10
<1>5. f[LastLevel] + (3 - v[LastLevel]) * PowerOf2[LastLevel] >= n
  <2> DEFINE l == LastLevel
             m == len(l)
             x == vacant[l]
             a == c(l)
             g == first[l]
             y == v[l]
             z == f[l]
  <2>1. l \in Depths /\ n \in Nat
    BY Sizes
  <2>2. g + (3 - x) * m >= n
    BY DEF Holds
  <2>3. /\ k(l) = x + a /\ z = g + a * m
        /\ y = (IF l # LastLevel /\ Visited(l + 1) /\ k(l) >= 2 THEN k(l) - 2
                ELSE IF k(l) = 4 THEN 0 ELSE k(l))
        /\ a \in {0, 1} /\ x \in 0 .. 3 /\ g \in Nat /\ m \in Nat
    BY <1>1, <2>1
  <2>4. y = IF x + a = 4 THEN 0 ELSE x + a
    <3> HIDE DEF k, c, x, y, a, m, g, z
    <3> QED
      BY <2>3
  <2> HIDE DEF m, x, a, g, y, z, l, k, c
  <2>5. x = 0 \/ x = 1 \/ x = 2 \/ x = 3
    BY <2>3
  <2>6. z + (3 - y) * m >= n
    <3>1. CASE x = 3
      BY <2>1, <2>2, <2>3, <2>4, <3>1
    <3>2. CASE x = 2
      BY <2>1, <2>2, <2>3, <2>4, <3>2
    <3>3. CASE x = 1
      BY <2>1, <2>2, <2>3, <2>4, <3>3
    <3>4. CASE x = 0
      BY <2>1, <2>2, <2>3, <2>4, <3>4
    <3> QED
      BY <2>5, <3>1, <3>2, <3>3, <3>4
  <2> QED
    BY <2>6 DEF z, y, m, l
<1> QED
  BY <1>2, <1>3, <1>4, <1>5

LEMMA NextStackInv ==
  ASSUME StackInv, [Next]_vars
  PROVE  StackInv'
<1>1. Numbers /\ \E vacant, first : Holds(vacant, first)
  BY DEF StackInv, Numbers
<1>2. CASE UNCHANGED vars
  <2>1. n' = n /\ Depths' = Depths /\ LastLevel' = LastLevel
    BY <1>2 DEF vars, Depths, LastLevel
  <2>2. \A f, v, len : LevelOf(f, v, len)' = LevelOf(f, v, len)
    BY <2>1 DEF LevelOf, Slot, Row, Blank
  <2>3. PICK vacant, first : Holds(vacant, first)
    BY <1>1
  <2>4. Holds(vacant, first)'
    BY <1>2, <2>1, <2>2, <2>3 DEF vars, Holds
  <2> QED
    BY <1>1, <1>2, <2>4 DEF StackInv, Numbers, vars
<1>3. CASE Next
  <2>1. PICK p \in BOOLEAN : Pop(p)
    BY <1>3 DEF Next
  <2>2. PICK vacant, first : Holds(vacant, first)
    BY <1>1
  <2>3. PICK v, f : v = NewVacant(p, vacant) /\ f = NewFirst(p, first)
    OBVIOUS
  <2>4. n' = n /\ timer' = timer + 1 /\ taken' = (IF p THEN taken + 1 ELSE taken) /\ (p => taken < n)
    BY <2>1 DEF Pop
  <2>5. Numbers'
    BY <1>1, <2>4, MaxWordsAssumption DEF Numbers
  <2>6. /\ v \in [Depths -> 0 .. 3] /\ f \in [Depths -> Nat]
        /\ f[0] = taken + IF p THEN 1 ELSE 0
        /\ \A l \in Depths : l # LastLevel =>
             /\ f[l + 1] = f[l] + (3 - v[l]) * PowerOf2[l]
             /\ v[l] <= 1 + (((timer + 1) \div PowerOf2[l]) % 2)
        /\ f[LastLevel] + (3 - v[LastLevel]) * PowerOf2[LastLevel] >= n
    BY <1>1, <2>2, <2>3, NumbersStep
  <2>7. DOMAIN content = Depths
    BY <2>2 DEF Holds
  <2>8. content' = [l \in Depths |-> NextLevel(Condition(p), l)]
    BY <2>1, <2>7 DEF Pop
  <2>9. vacancies' = [l \in Depths |-> NextVacancies(Condition(p), l)]
    BY <2>1, <2>7 DEF Pop
  <2>10. \A l \in Depths : /\ NextLevel(Condition(p), l) = LevelOf(f[l], v[l], PowerOf2[l])
                           /\ NextVacancies(Condition(p), l) = {v[l]}
    BY <1>1, <2>2, <2>3, LevelStep
  <2>11. content' = [l \in Depths |-> LevelOf(f[l], v[l], PowerOf2[l])]
    BY <2>8, <2>10
  <2>12. vacancies' = [l \in Depths |-> {v[l]}]
    BY <2>9, <2>10
  <2>13. Depths' = Depths /\ LastLevel' = LastLevel
    BY <2>4 DEF Depths, LastLevel
  <2>14. \A x, y, len : LevelOf(x, y, len)' = LevelOf(x, y, len)
    BY <2>4 DEF LevelOf, Slot, Row, Blank
  <2>15. taken' = taken + IF p THEN 1 ELSE 0
    BY <1>1, <2>4 DEF Numbers
  <2>16. Holds(v, f)'
    BY <2>4, <2>6, <2>11, <2>12, <2>13, <2>14, <2>15 DEF Holds
  <2> QED
    BY <2>5, <2>16 DEF StackInv, Numbers
<1> QED
  BY <1>2, <1>3

\* What the levels hold, and what their counters say, at every moment: the
\* invariant that a refill always finds two empty slots and that no level but
\* the last is ever queried while it is empty (pop_stack, simplestack.cc).
THEOREM StackInvariant == Spec => []StackInv
  BY InitStackInv, NextStackInv, PTL DEF Spec

-----------------------------------------------------------------------------
(* The stack is a stack *)

\* What a query returns
LEMMA OutputIs ==
  ASSUME StackInv, NEW p \in BOOLEAN, Pop(p)
  PROVE  output' = IF p THEN {taken + 1} ELSE {}
<1>1. PICK vacant, first : Numbers /\ Holds(vacant, first)
  BY DEF StackInv, Numbers
<1>2. 0 \in Depths /\ n \in Nat /\ PowerOf2[0] = 1
  BY <1>1, Sizes, PowerOf2Is
<1>3. Condition(p)[0] = p /\ first[0] = taken /\ DOMAIN content = Depths
  BY <1>1, <1>2, LevelFacts DEF Holds
<1>4. Visited(0)
  BY <1>1, VisitsLevel0 DEF Visited, Numbers
<1>5. Popped(p, content[0]) = IF p THEN Row(taken, 1) ELSE Blank(1)
  <2>1. Popped(Condition(p)[0], content[0]) = IF Condition(p)[0] THEN Row(first[0], PowerOf2[0]) ELSE Blank(PowerOf2[0])
    BY <1>1, <1>2, <1>4, PoppedIs
  <2> QED
    BY <1>2, <1>3, <2>1
<1>6. output' = Popped(p, content[0])[1] /\ (p => taken < n)
  BY DEF Pop
<1>7. p => Row(taken, 1)[1] = {taken + 1}
  BY <1>1, <1>2, <1>6 DEF Row, Numbers
<1>8. Blank(1)[1] = {}
  BY DEF Blank, NoWord
<1> QED
  BY <1>5, <1>6, <1>7, <1>8

LEMMA PopImplements ==
  ASSUME StackInv, [Next]_vars
  PROVE  [Abstract!Next]_<<n, taken, output>>
<1>1. CASE UNCHANGED vars
  BY <1>1 DEF vars
<1>2. CASE Next
  <2>1. PICK p \in BOOLEAN : Pop(p)
    BY <1>2 DEF Next
  <2>2. output' = IF p THEN {taken + 1} ELSE {}
    BY <2>1, OutputIs
  <2>3. n' = n /\ taken' = (IF p THEN taken + 1 ELSE taken) /\ (p => taken < n)
    BY <2>1 DEF Pop
  <2>4. CASE p
    BY <2>2, <2>3, <2>4 DEF Abstract!Next, Abstract!Take
  <2>5. CASE ~ p
    BY <2>2, <2>3, <2>5 DEF Abstract!Next, Abstract!Pass
  <2> QED
    BY <2>4, <2>5
<1> QED
  BY <1>1, <1>2

\* Whatever the conditions of the queries, and however many words the stack
\* has, each query gets the next word or nothing (stack_spec, simplestack.cc).
THEOREM StackIsAStack == Spec => ImplementsPopStack
<1>1. Init => Abstract!Init
  BY DEF Init, Abstract!Init, NoWord
<1>2. StackInv /\ [Next]_vars => [Abstract!Next]_<<n, taken, output>>
  BY PopImplements
<1> QED
  BY <1>1, <1>2, StackInvariant, PTL DEF Spec, ImplementsPopStack, Abstract!Spec

-----------------------------------------------------------------------------
(* Where the words are *)

\* What is in a cell of a level
InCell(vacant, first, l, s, c) ==
  IF s <= 3 - vacant[l] /\ first[l] + (s - 1) * PowerOf2[l] + c <= n
  THEN {first[l] + (s - 1) * PowerOf2[l] + c} ELSE NoWord

LEMMA CellIs ==
  ASSUME Numbers, NEW vacant, NEW first, Holds(vacant, first),
         NEW l \in Depths, NEW s \in 1 .. 3, NEW c \in 1 .. PowerOf2[l]
  PROVE  content[l][s][c] = InCell(vacant, first, l, s, c)
<1>1. content[l][s] = Slot(first[l], vacant[l], PowerOf2[l], s)
  BY DEF Holds, LevelOf
<1>2. CASE s <= 3 - vacant[l]
  <2>1. content[l][s] = Row(first[l] + (s - 1) * PowerOf2[l], PowerOf2[l])
    BY <1>1, <1>2 DEF Slot
  <2> QED
    BY <1>2, <2>1 DEF Row, InCell
<1>3. CASE ~ (s <= 3 - vacant[l])
  <2>1. content[l][s] = Blank(PowerOf2[l])
    BY <1>1, <1>3 DEF Slot
  <2> QED
    BY <1>3, <2>1 DEF Blank, InCell
<1> QED
  BY <1>2, <1>3

\* The words of a level are behind all those of the levels above it
LEMMA LevelsInOrder ==
  ASSUME Numbers, NEW vacant, NEW first, Holds(vacant, first),
         NEW l \in Depths, NEW m \in Depths, l < m
  PROVE  first[m] >= first[l] + (3 - vacant[l]) * PowerOf2[l]
<1> DEFINE bound == first[l] + (3 - vacant[l]) * PowerOf2[l]
           Ends(i) == first[i] + (3 - vacant[i]) * PowerOf2[i]
           S == { i \in Depths : first[i] >= bound }
<1>1. Depths = 0 .. LastLevel /\ LastLevel \in Nat
  BY Sizes DEF Depths
<1>2. \A i \in Depths : /\ first[i] \in Nat /\ vacant[i] \in 0 .. 3 /\ (3 - vacant[i]) * PowerOf2[i] \in Nat
                        /\ i # LastLevel => i + 1 \in Depths /\ first[i + 1] = Ends(i)
  <2> SUFFICES ASSUME NEW i \in Depths
               PROVE  /\ first[i] \in Nat /\ vacant[i] \in 0 .. 3 /\ (3 - vacant[i]) * PowerOf2[i] \in Nat
                      /\ i # LastLevel => i + 1 \in Depths /\ first[i + 1] = Ends(i)
    OBVIOUS
  <2>1. first[i] \in Nat /\ vacant[i] \in 0 .. 3 /\ (i # LastLevel => first[i + 1] = Ends(i))
    BY DEF Holds
  <2>2. PowerOf2[i] \in Nat /\ (i # LastLevel => i + 1 \in Depths)
    BY Sizes
  <2>3. (3 - vacant[i]) * PowerOf2[i] \in Nat
    <3>1. 3 - vacant[i] \in Nat
      BY <2>1
    <3> QED
      BY <2>2, <3>1
  <2> QED
    BY <2>1, <2>2, <2>3
<1>3. l + 1 \in S
  BY <1>1, <1>2
<1>4. ASSUME NEW i \in l + 1 .. LastLevel, i # LastLevel, i \in S
      PROVE  i + 1 \in S
  <2>1. i + 1 \in Depths /\ first[i + 1] = Ends(i) /\ first[i] \in Nat /\ (3 - vacant[i]) * PowerOf2[i] \in Nat
    BY <1>2, <1>4
  <2>2. bound \in Nat /\ first[i] >= bound
    BY <1>2, <1>4
  <2> HIDE DEF bound
  <2> QED
    BY <2>1, <2>2
<1>5. l + 1 .. LastLevel \subseteq S
  <2>1. l + 1 \in Nat
    BY <1>1
  <2> HIDE DEF S
  <2> QED
    BY <1>1, <1>3, <1>4, <2>1, IntervalInduction
<1>6. m \in l + 1 .. LastLevel
  BY <1>1
<1> QED
  BY <1>5, <1>6

LEMMA StackInvTruth == StackInv => VacanciesTellTheTruth
<1> SUFFICES ASSUME StackInv
             PROVE  VacanciesTellTheTruth
  OBVIOUS
<1>1. PICK vacant, first : Numbers /\ Holds(vacant, first)
  BY DEF StackInv, Numbers
<1>2. DOMAIN content = Depths /\ \A l \in Depths : vacancies[l] = {vacant[l]}
  BY <1>1 DEF Holds
<1>3. n \in Nat /\ \A l \in Depths : PowerOf2[l] \in Nat /\ first[l] \in Nat /\ vacant[l] \in 0 .. 3
  BY <1>1, Sizes DEF Holds
<1>4. ASSUME NEW l \in Depths, NEW s \in 1 .. 3, NEW c \in 1 .. PowerOf2[l],
             s <= 3 - vacant[l], content[l][s][c] = NoWord,
             NEW m \in Depths, m > l, NEW t \in 1 .. 3, NEW d \in 1 .. PowerOf2[m]
      PROVE  content[m][t][d] = NoWord
  <2> DEFINE x == first[l] + (s - 1) * PowerOf2[l] + c
             y == first[m] + (t - 1) * PowerOf2[m] + d
             z == (3 - vacant[l]) * PowerOf2[l]
  <2>1. x > n
    <3>1. content[l][s][c] = IF s <= 3 - vacant[l] /\ x <= n THEN {x} ELSE NoWord
      <4>1. content[l][s][c] = InCell(vacant, first, l, s, c)
        <5> HIDE DEF x, y, z
        <5> QED
          BY <1>1, CellIs
      <4> QED
        BY <4>1, Zenon DEF InCell
    <3>2. {x} # NoWord
      BY DEF NoWord
    <3>3. x \in Nat
      <4>1. s - 1 \in Nat /\ PowerOf2[l] \in Nat
        BY <1>3
      <4>2. (s - 1) * PowerOf2[l] \in Nat
        BY <4>1
      <4> QED
        BY <1>3, <4>2
    <3> HIDE DEF x
    <3> QED
      BY <1>3, <1>4, <3>1, <3>2, <3>3
  <2>2. y > first[m]
    <3>1. t - 1 \in Nat /\ PowerOf2[m] \in Nat
      BY <1>3
    <3>2. (t - 1) * PowerOf2[m] \in Nat
      BY <3>1
    <3> QED
      BY <1>3, <3>2
  <2>3. first[m] >= first[l] + z
    <3>1. l < m
      BY <1>1, <1>4, Sizes
    <3> QED
      BY <1>1, <3>1, LevelsInOrder
  <2>4. first[l] + z >= x
    <3> DEFINE p == PowerOf2[l]
               v == vacant[l]
    <3>1. p \in Nat /\ v \in 0 .. 3 /\ first[l] \in Nat /\ c <= p /\ c \in Nat
      BY <1>3
    <3>2. x = first[l] + (s - 1) * p + c /\ z = (3 - v) * p /\ s <= 3 - v
      BY <1>4
    <3> HIDE DEF p, v, x, z
    <3>3. (s = 1 \/ s = 2 \/ s = 3) /\ (v = 0 \/ v = 1 \/ v = 2 \/ v = 3)
      BY <3>1
    <3>4. (s - 1) * p + p <= (3 - v) * p
      BY <3>1, <3>2, <3>3
    <3>5. (s - 1) * p \in Int /\ (3 - v) * p \in Int
      BY <3>1
    <3> QED
      BY <3>1, <3>2, <3>4, <3>5
  <2>5. y > n /\ y \in Int /\ n \in Int
    <3>1. x \in Int /\ y \in Int /\ z \in Int /\ first[m] \in Int /\ first[l] \in Int
      BY <1>3
    <3> HIDE DEF x, y, z
    <3> QED
      BY <1>3, <2>1, <2>2, <2>3, <2>4, <3>1
  <2>6. content[m][t][d] = IF t <= 3 - vacant[m] /\ y <= n THEN {y} ELSE NoWord
    <3>1. Numbers /\ Holds(vacant, first)
      BY <1>1
    <3>2. content[m][t][d] = InCell(vacant, first, m, t, d)
      <4> HIDE DEF x, y, z
      <4> QED
        BY <3>1, CellIs
    <3> QED
      BY <3>2, Zenon DEF InCell
  <2> HIDE DEF y
  <2> QED
    BY <2>5, <2>6
<1>5. ASSUME NEW l \in Depths, NEW s \in 1 .. 3, NEW c \in 1 .. PowerOf2[l], ~ (s <= 3 - vacant[l])
      PROVE  content[l][s][c] = NoWord
  <2>1. content[l][s][c] = InCell(vacant, first, l, s, c)
    BY <1>1, CellIs
  <2> QED
    BY <1>5, <2>1, Zenon DEF InCell
<1>6. \A l \in Depths : Cardinality(vacancies[l]) = 1
  BY <1>2, FS_Singleton
<1>7. SUFFICES ASSUME NEW l \in DOMAIN content
               PROVE  /\ Cardinality(vacancies[l]) = 1
                      /\ \A k \in vacancies[l], s \in 1 .. 3, c \in 1 .. PowerOf2[l] :
                           IF s <= 3 - k
                           THEN content[l][s][c] = NoWord =>
                                  \A m \in DOMAIN content : m > l =>
                                    \A t \in 1 .. 3, d \in 1 .. PowerOf2[m] : content[m][t][d] = NoWord
                           ELSE l < Levels(n) - 1 => content[l][s][c] = NoWord
  BY Zenon DEF VacanciesTellTheTruth
<1>8. l \in Depths
  BY <1>2
<1>9. SUFFICES ASSUME NEW k \in vacancies[l], NEW s \in 1 .. 3, NEW c \in 1 .. PowerOf2[l]
                PROVE  IF s <= 3 - k
                       THEN content[l][s][c] = NoWord =>
                              \A m \in DOMAIN content : m > l =>
                                \A t \in 1 .. 3, d \in 1 .. PowerOf2[m] : content[m][t][d] = NoWord
                       ELSE l < Levels(n) - 1 => content[l][s][c] = NoWord
  BY <1>6, <1>8, Zenon
<1>10. /\ s <= 3 - k => (content[l][s][c] = NoWord =>
                           \A m \in Depths : m > l =>
                             \A t \in 1 .. 3, d \in 1 .. PowerOf2[m] : content[m][t][d] = NoWord)
       /\ ~ (s <= 3 - k) => content[l][s][c] = NoWord
  <2>1. k = vacant[l]
    BY <1>2, <1>8
  <2>2. s <= 3 - k => (content[l][s][c] = NoWord =>
                         \A m \in Depths : m > l =>
                           \A t \in 1 .. 3, d \in 1 .. PowerOf2[m] : content[m][t][d] = NoWord)
    BY <1>4, <1>8, <2>1
  <2>3. ~ (s <= 3 - k) => content[l][s][c] = NoWord
    BY <1>5, <1>8, <2>1
  <2> QED
    BY <2>2, <2>3
<1>11. \A m : m \in DOMAIN content => m \in Depths
  BY <1>2
<1> QED
  BY <1>10, <1>11

\* The vacancy counters tell the truth, whatever the number of words: a refill
\* that goes by them never writes over a word, and never leaves a level that
\* will be asked again without one (cond_refill and the slide of pop_stack).
THEOREM CountersTellTheTruth == Spec => []VacanciesTellTheTruth
  BY StackInvariant, StackInvTruth, PTL

\* The place of a word: after all the words that are gone, the levels above
\* and the slots and cells before it
Position(first, a) == first[a[1]] + (a[2] - 1) * PowerOf2[a[1]] + a[3]

LEMMA PlaceIs ==
  ASSUME Numbers, NEW vacant, NEW first, Holds(vacant, first), NEW a \in Places
  PROVE  /\ a[1] \in Depths /\ a[2] \in 1 .. 3 /\ a[3] \in 1 .. PowerOf2[a[1]]
         /\ Position(first, a) \in Nat /\ Position(first, a) > first[a[1]]
         /\ Cell(a) = IF a[2] <= 3 - vacant[a[1]] /\ Position(first, a) <= n
                      THEN {Position(first, a)} ELSE NoWord
<1>1. DOMAIN content = Depths
  BY DEF Holds
<1>2. PICK l \in Depths : a \in {l} \X (1 .. 3) \X (1 .. PowerOf2[l])
  BY <1>1 DEF Places
<1>3. a[1] = l /\ a[2] \in 1 .. 3 /\ a[3] \in 1 .. PowerOf2[l]
  BY <1>2
<1>4. first[l] \in Nat /\ PowerOf2[l] \in Nat
  BY Sizes DEF Holds
<1>5. Position(first, a) \in Nat /\ Position(first, a) > first[l]
  <2> DEFINE x == (a[2] - 1) * PowerOf2[l]
  <2>1. x \in Nat
    <3>1. a[2] - 1 \in Nat
      BY <1>3
    <3> QED
      BY <1>4, <3>1
  <2>2. Position(first, a) = first[l] + x + a[3]
    BY <1>3 DEF Position
  <2> HIDE DEF x
  <2> QED
    BY <1>3, <1>4, <2>1, <2>2
<1>6. Cell(a) = IF a[2] <= 3 - vacant[l] /\ Position(first, a) <= n
                THEN {Position(first, a)} ELSE NoWord
  <2>1. a[2] \in 1 .. 3 /\ a[3] \in 1 .. PowerOf2[l]
    BY <1>3
  <2>2. content[l][a[2]][a[3]] =
          IF a[2] <= 3 - vacant[l] /\ first[l] + (a[2] - 1) * PowerOf2[l] + a[3] <= n
          THEN {first[l] + (a[2] - 1) * PowerOf2[l] + a[3]} ELSE NoWord
    <3>1. content[l][a[2]][a[3]] = InCell(vacant, first, l, a[2], a[3])
      BY <2>1, CellIs
    <3> QED
      BY <3>1, Zenon DEF InCell
  <2>3. Cell(a) = content[l][a[2]][a[3]] /\ Position(first, a) = first[l] + (a[2] - 1) * PowerOf2[l] + a[3]
    BY <1>3 DEF Cell, Position
  <2> DEFINE x == first[l] + (a[2] - 1) * PowerOf2[l] + a[3]
             y == content[l][a[2]][a[3]]
  <2> HIDE DEF x, y
  <2> QED
    BY <2>2, <2>3 DEF x, y
<1> QED
  BY <1>3, <1>5, <1>6

\* Every word that is left has a place
LEMMA WordHasPlace ==
  ASSUME Numbers, NEW vacant, NEW first, Holds(vacant, first), NEW w \in taken + 1 .. n
  PROVE  \E a \in Places : Cell(a) = {w}
<1> DEFINE Reaches(i) == w <= first[i] + (3 - vacant[i]) * PowerOf2[i]
           S == { i \in Depths : Reaches(i) }
<1>1. /\ n \in Nat /\ taken \in Nat /\ LastLevel \in Depths /\ 0 \in Depths
      /\ \A i \in Depths : i \in Nat
  <2>1. n \in Nat /\ LastLevel \in Depths /\ 0 \in Depths /\ \A i \in Depths : i \in Nat
    BY Sizes
  <2> QED
    BY <2>1 DEF Numbers
<1>2. LastLevel \in S
  <2>1. first[LastLevel] + (3 - vacant[LastLevel]) * PowerOf2[LastLevel] >= n
    BY DEF Holds
  <2>2. first[LastLevel] \in Nat /\ vacant[LastLevel] \in 0 .. 3 /\ PowerOf2[LastLevel] \in Nat
    BY <1>1, Sizes DEF Holds
  <2> DEFINE x == first[LastLevel] + (3 - vacant[LastLevel]) * PowerOf2[LastLevel]
  <2>3. x \in Int
    BY <2>2
  <2> HIDE DEF x
  <2>4. w <= x
    BY <1>1, <2>1, <2>3 DEF x
  <2> QED
    BY <1>1, <2>4 DEF x
<1>3. PICK l \in S : \A i \in S : l <= i
  <2>1. S \in SUBSET Nat /\ S # {}
    BY <1>1, <1>2
  <2> HIDE DEF S
  <2> QED
    BY <2>1, LeastNat
<1> DEFINE p == PowerOf2[l]
           f == first[l]
           v == vacant[l]
           o == w - f
<1>4. l \in Depths /\ f \in Nat /\ v \in 0 .. 3 /\ p \in Nat /\ p > 0 /\ w <= f + (3 - v) * p
  BY <1>3, Sizes DEF Holds
<1>5. f < w
  <2>1. CASE l = 0
    BY <1>1, <2>1 DEF Holds
  <2>2. CASE l # 0
    <3> DEFINE j == l - 1
    <3>1. j \in Depths /\ j + 1 = l /\ j # LastLevel /\ j \notin S
      <4>1. j \in Depths /\ j + 1 = l /\ j # LastLevel
        BY <1>4, <2>2, Sizes
      <4>2. ~ (l <= j)
        BY <1>1, <1>4
      <4> QED
        BY <1>3, <4>1, <4>2
    <3>2. first[j + 1] = first[j] + (3 - vacant[j]) * PowerOf2[j]
      BY <3>1 DEF Holds
    <3>3. ~ (w <= first[j] + (3 - vacant[j]) * PowerOf2[j])
      BY <3>1
    <3>4. ~ (w <= f)
      BY <3>1, <3>2, <3>3
    <3> HIDE DEF f
    <3> QED
      BY <1>1, <1>4, <3>4
  <2> QED
    BY <2>1, <2>2
<1> HIDE DEF f, v, p, o
<1>6. o \in Nat /\ o > 0 /\ o <= (3 - v) * p /\ w = f + o
  <2>1. (3 - v) * p \in Int
    BY <1>4
  <2> QED
    BY <1>1, <1>4, <1>5, <2>1 DEF o
<1>7. PICK s \in 1 .. 3, c \in 1 .. p : s <= 3 - v /\ o = (s - 1) * p + c
  <2>1. v = 0 \/ v = 1 \/ v = 2 \/ v = 3
    BY <1>4
  <2>2. v # 3
    BY <1>4, <1>6
  <2>3. o <= 3 * p /\ (v = 1 => o <= 2 * p) /\ (v = 2 => o <= p)
    BY <1>4, <1>6, <2>1, <2>2
  <2>4. CASE o <= p
    <3>1. o = (1 - 1) * p + o /\ o \in 1 .. p /\ 1 <= 3 - v /\ 1 \in 1 .. 3
      BY <1>4, <1>6, <2>1, <2>2, <2>4
    <3> QED
      BY <3>1
  <2>5. CASE ~ (o <= p) /\ o <= 2 * p
    <3>1. o = (2 - 1) * p + (o - p) /\ o - p \in 1 .. p /\ 2 <= 3 - v /\ 2 \in 1 .. 3
      BY <1>4, <1>6, <2>1, <2>2, <2>3, <2>5
    <3> QED
      BY <3>1
  <2>6. CASE ~ (o <= 2 * p)
    <3>1. o = (3 - 1) * p + (o - 2 * p) /\ o - 2 * p \in 1 .. p /\ 3 <= 3 - v /\ 3 \in 1 .. 3
      BY <1>4, <1>6, <2>1, <2>2, <2>3, <2>6
    <3> QED
      BY <3>1
  <2> QED
    BY <2>4, <2>5, <2>6
<1>8. PICK a : a = <<l, s, c>>
  OBVIOUS
<1>9. a[1] = l /\ a[2] = s /\ a[3] = c
  BY <1>8
<1>10. a \in Places
  <2>1. a \in {l} \X (1 .. 3) \X (1 .. PowerOf2[l])
    BY <1>7, <1>8 DEF p
  <2>2. l \in DOMAIN content
    BY <1>4 DEF Holds
  <2> QED
    BY <2>1, <2>2 DEF Places
<1>11. Position(first, a) = w
  <2>1. Position(first, a) = f + (s - 1) * p + c
    BY <1>9 DEF Position, f, p
  <2>2. (s - 1) * p \in Int
    BY <1>4
  <2> QED
    BY <1>4, <1>6, <1>7, <2>1, <2>2
<1>12. Cell(a) = {w}
  <2>1. Cell(a) = IF a[2] <= 3 - vacant[a[1]] /\ Position(first, a) <= n
                  THEN {Position(first, a)} ELSE NoWord
    BY <1>10, PlaceIs
  <2>2. a[2] <= 3 - vacant[a[1]] /\ Position(first, a) <= n
    BY <1>1, <1>7, <1>9, <1>11 DEF v
  <2> QED
    BY <1>11, <2>1, <2>2
<1> QED
  BY <1>10, <1>12

\* Of two words, the one at the place before is the first
LEMMA PlacesInOrder ==
  ASSUME Numbers, NEW vacant, NEW first, Holds(vacant, first),
         NEW a \in Places, NEW b \in Places, Before(a, b),
         a[2] <= 3 - vacant[a[1]]
  PROVE  Position(first, a) < Position(first, b)
<1> DEFINE l == a[1]
           m == b[1]
           p == PowerOf2[l]
           q == PowerOf2[m]
           x == (a[2] - 1) * p
           y == (b[2] - 1) * q
           f == first[l]
           g == first[m]
<1>1. /\ l \in Depths /\ m \in Depths /\ p \in Nat /\ q \in Nat /\ f \in Nat /\ g \in Nat
      /\ a[2] \in 1 .. 3 /\ b[2] \in 1 .. 3 /\ a[3] \in 1 .. p /\ b[3] \in 1 .. q
      /\ l \in Nat /\ m \in Nat /\ vacant[l] \in 0 .. 3
      /\ Position(first, b) > g
  <2>1. /\ l \in Depths /\ m \in Depths
        /\ a[2] \in 1 .. 3 /\ b[2] \in 1 .. 3 /\ a[3] \in 1 .. p /\ b[3] \in 1 .. q
        /\ Position(first, b) > g
    BY PlaceIs
  <2>2. p \in Nat /\ q \in Nat /\ l \in Nat /\ m \in Nat
    BY <2>1, Sizes
  <2>3. f \in Nat /\ g \in Nat /\ vacant[l] \in 0 .. 3
    BY <2>1 DEF Holds
  <2> QED
    BY <2>1, <2>2, <2>3
<1>2. Position(first, a) = f + x + a[3] /\ Position(first, b) = g + y + b[3]
  BY DEF Position
<1>3. x \in Nat /\ y \in Nat
  <2>1. a[2] - 1 \in Nat /\ b[2] - 1 \in Nat
    BY <1>1
  <2> HIDE DEF p, q
  <2> QED
    BY <1>1, <2>1
<1>4. CASE l < m
  <2> DEFINE z == (3 - vacant[l]) * p
             i == a[2]
             v == vacant[l]
  <2>1. g >= f + z
    BY <1>1, <1>4, LevelsInOrder
  <2>2. x + p <= z /\ z \in Int
    <3>1. i \in 1 .. 3 /\ v \in 0 .. 3 /\ i <= 3 - v /\ x = (i - 1) * p /\ z = (3 - v) * p /\ p \in Nat
      BY <1>1
    <3> HIDE DEF i, v, x, z, p
    <3>2. (i = 1 \/ i = 2 \/ i = 3) /\ (v = 0 \/ v = 1 \/ v = 2)
      BY <3>1
    <3> QED
      BY <3>1, <3>2
  <2> HIDE DEF l, m, p, q, x, y, f, g, z, i, v
  <2> QED
    BY <1>1, <1>2, <1>3, <2>1, <2>2
<1>5. CASE l = m /\ a[2] < b[2]
  <2> DEFINE i == a[2]
             j == b[2]
  <2>1. x + p <= y
    <3>1. i \in 1 .. 3 /\ j \in 1 .. 3 /\ i < j /\ x = (i - 1) * p /\ y = (j - 1) * p /\ p \in Nat
      BY <1>1, <1>5
    <3> HIDE DEF i, j, x, y, p
    <3>2. (i = 1 \/ i = 2 \/ i = 3) /\ (j = 1 \/ j = 2 \/ j = 3)
      BY <3>1
    <3> QED
      BY <3>1, <3>2
  <2>2. f = g /\ p = q
    BY <1>5
  <2> HIDE DEF l, m, p, q, x, y, f, g, i, j
  <2> QED
    BY <1>1, <1>2, <1>3, <2>1, <2>2
<1>6. CASE l = m /\ a[2] = b[2] /\ a[3] < b[3]
  <2>1. f = g /\ x = y
    BY <1>6
  <2> HIDE DEF l, m, p, q, x, y, f, g
  <2> QED
    BY <1>1, <1>2, <1>3, <1>6, <2>1
<1>7. l < m \/ (l = m /\ a[2] < b[2]) \/ (l = m /\ a[2] = b[2] /\ a[3] < b[3])
  BY DEF Before
<1> QED
  BY <1>4, <1>5, <1>6, <1>7

LEMMA StackInvOrder == StackInv => WordsInOrder
<1> SUFFICES ASSUME StackInv
             PROVE  WordsInOrder
  OBVIOUS
<1>1. PICK vacant, first : Numbers /\ Holds(vacant, first)
  BY DEF StackInv, Numbers
<1>2. n \in Nat /\ taken \in Nat
  BY <1>1, MaxWordsAssumption DEF Numbers
<1>3. ASSUME NEW a \in Places, Cell(a) # NoWord
      PROVE  /\ a[2] <= 3 - vacant[a[1]] /\ Cell(a) = {Position(first, a)}
             /\ Position(first, a) \in taken + 1 .. n
  <2>1. /\ a[1] \in Depths
        /\ Position(first, a) \in Nat /\ Position(first, a) > first[a[1]]
        /\ a[2] <= 3 - vacant[a[1]] /\ Position(first, a) <= n /\ Cell(a) = {Position(first, a)}
    BY <1>1, <1>3, PlaceIs
  <2>2. first[a[1]] >= taken /\ first[a[1]] \in Nat
    <3>1. first[a[1]] \in Nat /\ a[1] \in Nat /\ 0 \in Depths
      BY <1>1, <2>1, Sizes DEF Holds
    <3>2. CASE a[1] = 0
      BY <1>1, <1>2, <3>2 DEF Holds
    <3>3. CASE a[1] # 0
      <4> DEFINE i == a[1]
                 z == (3 - vacant[0]) * PowerOf2[0]
      <4>1. 0 < i /\ i \in Depths
        BY <2>1, <3>1, <3>3
      <4>2. first[i] >= first[0] + z
        <5> HIDE DEF i
        <5> QED
          BY <1>1, <3>1, <4>1, LevelsInOrder
      <4>3. z \in Nat /\ first[0] = taken
        <5>1. 3 - vacant[0] \in Nat /\ PowerOf2[0] \in Nat
          BY <1>1, <3>1, Sizes DEF Holds
        <5> QED
          BY <1>1, <5>1 DEF Holds
      <4> HIDE DEF z
      <4> QED
        BY <1>2, <3>1, <4>2, <4>3
    <3> QED
      BY <3>2, <3>3, <3>1
  <2> QED
    BY <1>2, <2>1, <2>2
<1>4. \A a \in Places : Cell(a) # NoWord => \E w \in taken + 1 .. n : Cell(a) = {w}
  BY <1>3
<1>5. \A w \in taken + 1 .. n : \E a \in Places : Cell(a) = {w}
  BY <1>1, WordHasPlace
<1>6. ASSUME NEW a \in Places, NEW b \in Places, Cell(a) # NoWord, Cell(b) # NoWord, Before(a, b),
             NEW w \in Cell(a), NEW x \in Cell(b)
      PROVE  w < x
  <2>1. a[2] <= 3 - vacant[a[1]] /\ Cell(a) = {Position(first, a)} /\ Cell(b) = {Position(first, b)}
    BY <1>3, <1>6
  <2>2. w = Position(first, a) /\ x = Position(first, b)
    BY <2>1
  <2>3. Position(first, a) < Position(first, b)
    BY <1>1, <1>6, <2>1, PlacesInOrder
  <2> QED
    BY <2>2, <2>3
<1> QED
  BY <1>4, <1>5, <1>6, Zenon DEF WordsInOrder

\* No word is lost, duplicated, mixed with another or overtaken, whatever the
\* number of words and the conditions of the queries (the refill and the slide
\* of pop_stack, simplestack.cc).
THEOREM NoWordLost == Spec => []WordsInOrder
  BY StackInvariant, StackInvOrder, PTL
=============================================================================
