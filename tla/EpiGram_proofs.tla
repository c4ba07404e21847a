---------------------------- MODULE EpiGram_proofs --------------------------
(***************************************************************************)
(* The levels of an EpiGRAM wear out in step, for every size of the        *)
(* memory, every place of the linear scan, all permutations and any        *)
(* sequence of accesses.                                                   *)
(***************************************************************************)
EXTENDS EpiGram, Induction

-----------------------------------------------------------------------------
(* The inductive invariant *)

\* The accesses level k has made since its last refresh
Done(k) == ram[k].t - N(k)

Fields == {"logn", "t", "pi_progress", "looked", "mask", "order", "mdata", "storage"}

\* Where the execution is, and that a level is never used beyond its plan
ShapeInv ==
  /\ bound \in Bounds
  /\ phase \in {"idle", "down", "up", "flush"}
  /\ level \in 0 .. Scan
  /\ phase \in {"up", "flush"} => level < Scan
  /\ DOMAIN ram = Levels
  /\ \A k \in Levels : /\ DOMAIN ram[k] = Fields /\ ram[k].t \in Nat
                       /\ Done(k) \in 0 .. N(k)

(***************************************************************************)
(* Level k + 1 after as many accesses as level k, modulo its size n.       *)
(* Between accesses a full level is still full (InStep); to a level that   *)
(* is entered it does not matter whether it was flushed (Even); on the way *)
(* back the lower level has counted the access already (Counted).          *)
(***************************************************************************)
InStep(k) ==
  Done(k + 1) = IF Done(k) <= N(k + 1) THEN Done(k) ELSE Done(k) - N(k + 1)

Even(k) ==
  Done(k + 1) = IF Done(k) < N(k + 1) THEN Done(k) ELSE Done(k) - N(k + 1)

Counted(k) ==
  Done(k + 1) = 1 + IF Done(k) < N(k + 1) THEN Done(k) ELSE Done(k) - N(k + 1)

Pairs == 0 .. Scan - 2

\* On the way down: the levels above this one have room, this one may be full
DownInv ==
  phase \in {"down", "flush"} =>
    /\ \A k \in Levels : k < level => Done(k) < N(k)
    /\ \A k \in Pairs : /\ k + 1 < level => Even(k)
                        /\ k + 1 = level => InStep(k) \/ Even(k)
                        /\ level <= k => InStep(k)
    /\ phase = "flush" => Full(level)

\* On the way up: the levels below this one have counted the access
UpInv ==
  phase = "up" =>
    /\ \A k \in Levels : k <= level => Done(k) < N(k)
    /\ \A k \in Pairs : /\ k < level => Even(k)
                        /\ k = level => Counted(k)
                        /\ level < k => InStep(k)

IdleInv == phase = "idle" => \A k \in Pairs : InStep(k)

WearInv == ShapeInv /\ DownInv /\ UpInv /\ IdleInv
-----------------------------------------------------------------------------
(* Sizes *)

\* The scan is one of the levels, and each level is half the one above it
LEMMA Sizes ==
  ASSUME bound \in Bounds
  PROVE  /\ Scan \in 0 .. Logn
         /\ \A k \in 0 .. Scan : N(k) \in Nat /\ N(k) > 0
         /\ \A k \in Levels : N(k) = 2 * N(k + 1)
<1>1. bound \in [scan : 0 .. Logn, orders : SUBSET Orders,
                 indices : SUBSET (0 .. 2^Logn - 1), accesses : Nat]
  BY BoundsAssumption
<1>2. Scan \in 0 .. Logn /\ Logn \in Nat
  BY <1>1, SizeAssumption DEF Scan
<1>3. ASSUME NEW k \in 0 .. Scan
      PROVE  N(k) \in Nat /\ N(k) > 0
  <2>1. Logn - k \in Nat
    BY <1>2
  <2> QED
    BY <2>1, PowerOf2Is DEF N
<1>4. ASSUME NEW k \in Levels
      PROVE  N(k) = 2 * N(k + 1)
  <2>1. Logn - (k + 1) \in Nat /\ (Logn - (k + 1)) + 1 = Logn - k
    BY <1>2 DEF Levels
  <2> QED
    BY <2>1, PowerOf2Is DEF N
<1> QED
  BY <1>2, <1>3, <1>4

\* Half of the pair arithmetic: the levels of a pair
LEMMA PairLevels ==
  ASSUME bound \in Bounds, NEW k \in Pairs
  PROVE  k \in Levels /\ k + 1 \in Levels /\ N(k) = 2 * N(k + 1)
           /\ N(k + 1) \in Nat /\ N(k + 1) > 0
<1>1. Scan \in Nat
  BY Sizes
<1>2. k \in Levels /\ k + 1 \in Levels /\ k + 1 \in 0 .. Scan
  BY <1>1 DEF Pairs, Levels
<1> QED
  BY <1>2, Sizes
-----------------------------------------------------------------------------
(* What the steps do to the times *)

LEMMA ShuffleKeeps ==
  ASSUME NEW r, DOMAIN r = Fields
  PROVE  DOMAIN shuffle(r) = Fields /\ shuffle(r).t = r.t
  BY DEF shuffle, Fields

\* A step after which every level is at the time it was
SameTimes == /\ bound' = bound
             /\ DOMAIN ram' = Levels
             /\ \A k \in Levels : DOMAIN ram'[k] = Fields /\ ram'[k].t = ram[k].t

LEMMA SameTimesKeep ==
  ASSUME ShapeInv, SameTimes
  PROVE  /\ Scan' = Scan /\ Levels' = Levels /\ Pairs' = Pairs
         /\ \A k \in Levels : Done(k)' = Done(k) /\ (Full(k)' <=> Full(k))
         /\ \A k \in Pairs : /\ InStep(k)' <=> InStep(k)
                             /\ Even(k)' <=> Even(k)
<1>1. Scan' = Scan
  BY DEF SameTimes, Scan
<1>2. Levels' = Levels /\ Pairs' = Pairs
  BY <1>1 DEF Levels, Pairs
<1>3. \A k \in Levels : Done(k)' = Done(k)
  BY DEF SameTimes, Done
<1>4. \A k \in Levels : Full(k)' <=> Full(k)
  BY DEF SameTimes, Full
<1>5. \A k \in Pairs : k \in Levels /\ k + 1 \in Levels
  BY PairLevels DEF ShapeInv
<1>6. \A k \in Pairs : InStep(k)' <=> InStep(k)
  BY <1>3, <1>5 DEF InStep
<1>7. \A k \in Pairs : Even(k)' <=> Even(k)
  BY <1>3, <1>5 DEF Even
<1> QED
  BY <1>1, <1>2, <1>3, <1>4, <1>6, <1>7

\* A step that leaves the memory alone
LEMMA SameRam ==
  ASSUME ShapeInv, UNCHANGED <<bound, ram>>
  PROVE  SameTimes
  BY DEF ShapeInv, SameTimes

\* The final shuffle of a flush
LEMMA FlushTimes ==
  ASSUME ShapeInv, Flush
  PROVE  SameTimes
<1>1. bound' = bound /\ ram' = [k \in Levels |-> IF k >= level THEN shuffle(ram[k]) ELSE ram[k]]
  BY DEF Flush, LastShuffle
<1>2. ASSUME NEW k \in Levels
      PROVE  DOMAIN ram'[k] = Fields /\ ram'[k].t = ram[k].t
  <2>1. DOMAIN ram[k] = Fields
    BY DEF ShapeInv
  <2>2. DOMAIN shuffle(ram[k]) = Fields /\ shuffle(ram[k]).t = ram[k].t
    BY <2>1, ShuffleKeeps
  <2> QED
    BY <1>1, <2>1, <2>2
<1> QED
  BY <1>1, <1>2 DEF SameTimes

LEMMA DescendTimes ==
  ASSUME ShapeInv, Descend
  PROVE  SameTimes
<1>1. bound' = bound /\ ram' = [ram EXCEPT ![level] = shuffle(ram[level])]
  BY DEF Descend
<1>2. ASSUME NEW k \in Levels
      PROVE  DOMAIN ram'[k] = Fields /\ ram'[k].t = ram[k].t
  <2>1. DOMAIN ram[k] = Fields /\ k \in DOMAIN ram
    BY DEF ShapeInv
  <2>2. DOMAIN shuffle(ram[k]) = Fields /\ shuffle(ram[k]).t = ram[k].t
    BY <2>1, ShuffleKeeps
  <2> QED
    BY <1>1, <2>1, <2>2
<1>3. DOMAIN ram' = Levels
  BY <1>1 DEF ShapeInv
<1> QED
  BY <1>1, <1>2, <1>3 DEF SameTimes

LEMMA CollectTimes ==
  ASSUME ShapeInv, Collect
  PROVE  SameTimes
<1> DEFINE c == cursor - 1
<1>1. bound' = bound /\ \E new : ram' = [ram EXCEPT ![c].looked = new]
  BY DEF Collect
<1>2. PICK new : ram' = [ram EXCEPT ![c].looked = new]
  BY <1>1
<1> HIDE DEF c
<1>3. ASSUME NEW k \in Levels
      PROVE  DOMAIN ram'[k] = Fields /\ ram'[k].t = ram[k].t
  <2>1. DOMAIN ram[k] = Fields /\ k \in DOMAIN ram
    BY DEF ShapeInv
  <2>2. CASE k = c
    <3>1. ram'[k] = [ram[k] EXCEPT !.looked = new]
      BY <1>2, <2>1, <2>2
    <3> QED
      BY <2>1, <3>1 DEF Fields
  <2>3. CASE k # c
    BY <1>2, <2>1, <2>3
  <2> QED
    BY <2>2, <2>3
<1>4. DOMAIN ram' = Levels
  BY <1>2 DEF ShapeInv
<1> QED
  BY <1>1, <1>3, <1>4 DEF SameTimes

\* A refresh starts a level and its index maps anew
LEMMA RefreshTimes ==
  ASSUME ShapeInv, Refresh
  PROVE  /\ bound' = bound /\ DOMAIN ram' = Levels
         /\ \A k \in Levels : /\ DOMAIN ram'[k] = Fields
                              /\ ram'[k].t = IF k >= level THEN N(k) ELSE ram[k].t
<1>1. bound' = bound
  BY DEF Refresh
<1>2. PICK storageOrder, maskOrder :
             ram' = [k \in Levels |-> IF k >= level
                                      THEN refresh(level, content, storageOrder, maskOrder)[k]
                                      ELSE ram[k]]
  BY DEF Refresh
<1>3. ASSUME NEW k \in Levels
      PROVE  /\ DOMAIN ram'[k] = Fields
             /\ ram'[k].t = IF k >= level THEN N(k) ELSE ram[k].t
  <2>1. DOMAIN ram[k] = Fields
    BY DEF ShapeInv
  <2>2. CASE k >= level
    <3> DEFINE words == IF k = level THEN content
                        ELSE MaskWords(N(k - 1), Order[maskOrder[k - 1]][2 * N(k - 1)])
               new == NewRam(k, words, storageOrder[k], maskOrder[k])
    <3>1. k \in level .. Scan - 1
      BY <2>2, Sizes DEF ShapeInv, Levels
    <3>2. ram'[k] = refresh(level, content, storageOrder, maskOrder)[k]
      BY <1>2, <2>2
    <3>3. refresh(level, content, storageOrder, maskOrder)[k] = new
      BY <3>1 DEF refresh
    <3>4. DOMAIN new = Fields /\ new.t = N(k)
      <4> HIDE DEF words
      <4> QED
        BY DEF NewRam, Fields
    <3> HIDE DEF new
    <3> QED
      BY <2>2, <3>2, <3>3, <3>4
  <2>3. CASE ~ (k >= level)
    BY <1>2, <2>1, <2>3
  <2> QED
    BY <2>2, <2>3
<1>4. DOMAIN ram' = Levels
  BY <1>2
<1> QED
  BY <1>1, <1>3, <1>4

\* On the way up the level counts the access
LEMMA AscendTimes ==
  ASSUME ShapeInv, Ascend
  PROVE  /\ bound' = bound /\ DOMAIN ram' = Levels
         /\ \A k \in Levels : /\ DOMAIN ram'[k] = Fields
                              /\ ram'[k].t = IF k = level THEN ram[k].t + 1 ELSE ram[k].t
<1>1. bound' = bound
  BY DEF Ascend
<1>2. PICK slots, leaves :
             ram' = [ram EXCEPT ![level] = [ram[level] EXCEPT !.storage = slots,
                                                              !.looked = leaves,
                                                              !.t = ram[level].t + 1]]
  BY DEF Ascend
<1>3. ASSUME NEW k \in Levels
      PROVE  /\ DOMAIN ram'[k] = Fields
             /\ ram'[k].t = IF k = level THEN ram[k].t + 1 ELSE ram[k].t
  <2>1. DOMAIN ram[k] = Fields /\ k \in DOMAIN ram
    BY DEF ShapeInv
  <2>2. CASE k = level
    <3>1. ram'[k] = [ram[k] EXCEPT !.storage = slots, !.looked = leaves, !.t = ram[k].t + 1]
      BY <1>2, <2>1, <2>2
    <3> QED
      BY <2>1, <2>2, <3>1 DEF Fields
  <2>3. CASE k # level
    BY <1>2, <2>1, <2>3
  <2> QED
    BY <2>2, <2>3
<1>4. DOMAIN ram' = Levels
  BY <1>2 DEF ShapeInv
<1> QED
  BY <1>1, <1>3, <1>4
-----------------------------------------------------------------------------
(* The steps keep the invariant *)

LEMMA PairFacts ==
  ASSUME ShapeInv, NEW k \in Pairs
  PROVE  /\ k \in Levels /\ k + 1 \in Levels /\ k \in Int
         /\ N(k) = 2 * N(k + 1) /\ N(k + 1) \in Nat /\ N(k + 1) > 0
         /\ Done(k) \in 0 .. N(k) /\ Done(k + 1) \in 0 .. N(k + 1)
<1>1. k \in Levels /\ k + 1 \in Levels /\ N(k) = 2 * N(k + 1)
        /\ N(k + 1) \in Nat /\ N(k + 1) > 0
  BY PairLevels DEF ShapeInv
<1>2. k \in Int
  BY Sizes DEF ShapeInv, Pairs
<1> QED
  BY <1>1, <1>2 DEF ShapeInv

LEMMA LevelFacts ==
  ASSUME ShapeInv, NEW k \in Levels
  PROVE  /\ k \in Int /\ N(k) \in Nat /\ N(k) > 0 /\ ram[k].t = Done(k) + N(k)
         /\ Full(k) <=> Done(k) = N(k)
<1>1. k \in Int /\ k \in 0 .. Scan
  BY Sizes DEF ShapeInv, Levels
<1>2. N(k) \in Nat /\ N(k) > 0
  BY <1>1, Sizes DEF ShapeInv
<1>3. ram[k].t \in Nat /\ ram[k].t - N(k) \in 0 .. N(k)
  BY DEF ShapeInv, Done
<1>4. ram[k].t = Done(k) + N(k)
  BY <1>2, <1>3 DEF Done
<1>5. Full(k) <=> Done(k) = N(k)
  BY <1>2, <1>3, <1>4 DEF Full, Done
<1> QED
  BY <1>1, <1>2, <1>4, <1>5

LEMMA InitHolds == Init => WearInv
<1> SUFFICES ASSUME Init
             PROVE  WearInv
  OBVIOUS
<1>1. bound \in Bounds /\ phase = "idle" /\ level = 0
  BY DEF Init
<1>2. PICK storageOrder, maskOrder : ram = refresh(0, Zeros, storageOrder, maskOrder)
  BY DEF Init
<1>3. Scan \in Nat /\ level \in 0 .. Scan
  BY <1>1, Sizes
<1>4. DOMAIN ram = Levels
  BY <1>2, <1>3 DEF refresh, Levels
<1>5. ASSUME NEW k \in Levels
      PROVE  DOMAIN ram[k] = Fields /\ ram[k].t = N(k)
  <2> DEFINE words == IF k = 0 THEN Zeros
                      ELSE MaskWords(N(k - 1), Order[maskOrder[k - 1]][2 * N(k - 1)])
             new == NewRam(k, words, storageOrder[k], maskOrder[k])
  <2>1. ram[k] = new
    BY <1>2 DEF refresh, Levels
  <2>2. DOMAIN new = Fields /\ new.t = N(k)
    <3> HIDE DEF words
    <3> QED
      BY DEF NewRam, Fields
  <2> HIDE DEF new
  <2> QED
    BY <2>1, <2>2
<1>6. \A k \in Levels : k \in 0 .. Scan
  BY <1>3 DEF Levels
<1>7. \A k \in Levels : ram[k].t \in Nat /\ Done(k) = 0 /\ N(k) \in Nat /\ N(k) > 0
  BY <1>1, <1>5, <1>6, Sizes DEF Done
<1>8. ShapeInv
  BY <1>1, <1>3, <1>4, <1>5, <1>7 DEF ShapeInv
<1>9. \A k \in Pairs : InStep(k)
  <2> TAKE k \in Pairs
  <2>1. k \in Levels /\ k + 1 \in Levels
    BY <1>8, PairFacts
  <2> QED
    BY <1>7, <2>1 DEF InStep
<1> QED
  BY <1>1, <1>8, <1>9 DEF WearInv, DownInv, UpInv, IdleInv

\* The shape after a step that leaves the times alone
LEMMA SameShape ==
  ASSUME ShapeInv, SameTimes,
         phase' \in {"idle", "down", "up", "flush"}, level' \in 0 .. Scan,
         phase' \in {"up", "flush"} => level' < Scan
  PROVE  ShapeInv'
<1>1. Scan' = Scan /\ Levels' = Levels /\ \A k \in Levels : Done(k)' = Done(k)
  BY SameTimesKeep
<1>2. \A k \in Levels : DOMAIN ram'[k] = Fields /\ ram'[k].t \in Nat /\ Done(k)' \in 0 .. N(k)
  BY <1>1 DEF SameTimes, ShapeInv
<1>3. bound' \in Bounds /\ DOMAIN ram' = Levels
  BY DEF SameTimes, ShapeInv
<1> QED
  BY <1>1, <1>2, <1>3 DEF ShapeInv

LEMMA AccessKeeps == WearInv /\ Access => WearInv'
<1> SUFFICES ASSUME WearInv, Access
             PROVE  WearInv'
  OBVIOUS
<1>1. ShapeInv /\ phase = "idle" /\ phase' = "down" /\ level' = 0 /\ UNCHANGED <<bound, ram>>
  BY DEF WearInv, Access
<1>2. SameTimes
  BY <1>1, SameRam
<1>3. Scan \in Nat /\ level' \in 0 .. Scan
  BY <1>1, Sizes DEF ShapeInv
<1>4. ShapeInv'
  BY <1>1, <1>2, <1>3, SameShape
<1>5. Pairs' = Pairs /\ Levels' = Levels /\ \A k \in Pairs : InStep(k)' <=> InStep(k)
  BY <1>1, <1>2, SameTimesKeep
<1>6. \A k \in Pairs : InStep(k)
  BY <1>1 DEF WearInv, IdleInv
<1>7. (\A k \in Levels : ~ (k < 0)) /\ \A k \in Pairs : ~ (k + 1 < 0) /\ k + 1 # 0
  BY <1>3 DEF Levels, Pairs
<1>8. DownInv'
  <2>1. \A k \in Levels' : ~ (k < level')
    BY <1>1, <1>5, <1>7
  <2>2. \A k \in Pairs' : ~ (k + 1 < level') /\ k + 1 # level' /\ InStep(k)'
    BY <1>1, <1>5, <1>6, <1>7
  <2> QED
    BY <1>1, <2>1, <2>2 DEF DownInv
<1> QED
  BY <1>1, <1>4, <1>8 DEF WearInv, UpInv, IdleInv

LEMMA FlushKeeps == WearInv /\ Flush => WearInv'
<1> SUFFICES ASSUME WearInv, Flush
             PROVE  WearInv'
  OBVIOUS
<1>1. /\ ShapeInv /\ phase = "down" /\ phase' = "flush" /\ level' = level
      /\ level < Scan /\ Full(level)
  BY DEF WearInv, Flush
<1>2. SameTimes
  BY <1>1, FlushTimes
<1>3. ShapeInv'
  BY <1>1, <1>2, SameShape DEF ShapeInv
<1>4. /\ Levels' = Levels /\ Pairs' = Pairs
      /\ \A k \in Levels : Done(k)' = Done(k) /\ (Full(k)' <=> Full(k))
      /\ \A k \in Pairs : (InStep(k)' <=> InStep(k)) /\ (Even(k)' <=> Even(k))
  BY <1>1, <1>2, SameTimesKeep
<1>5. level \in Levels
  BY <1>1, Sizes DEF ShapeInv, Levels
<1>6. DownInv'
  <2>1. /\ \A k \in Levels : k < level => Done(k) < N(k)
        /\ \A k \in Pairs : /\ k + 1 < level => Even(k)
                            /\ k + 1 = level => InStep(k) \/ Even(k)
                            /\ level <= k => InStep(k)
    BY <1>1 DEF WearInv, DownInv
  <2>2. /\ \A k \in Levels' : k < level' => Done(k)' < N(k)
        /\ \A k \in Pairs' : /\ k + 1 < level' => Even(k)'
                             /\ k + 1 = level' => InStep(k)' \/ Even(k)'
                             /\ level' <= k => InStep(k)'
    BY <1>1, <1>4, <2>1
  <2>3. Full(level)'
    BY <1>4, <1>5, <1>1
  <2> QED
    BY <2>2, <2>3 DEF DownInv
<1> QED
  BY <1>1, <1>3, <1>6 DEF WearInv, UpInv, IdleInv

LEMMA CollectKeeps == WearInv /\ Collect => WearInv'
<1> SUFFICES ASSUME WearInv, Collect
             PROVE  WearInv'
  OBVIOUS
<1>1. ShapeInv /\ phase = "flush" /\ phase' = "flush" /\ level' = level
  BY DEF WearInv, Collect
<1>2. SameTimes
  BY <1>1, CollectTimes
<1>3. ShapeInv'
  BY <1>1, <1>2, SameShape DEF ShapeInv
<1>4. /\ Levels' = Levels /\ Pairs' = Pairs
      /\ \A k \in Levels : Done(k)' = Done(k) /\ (Full(k)' <=> Full(k))
      /\ \A k \in Pairs : (InStep(k)' <=> InStep(k)) /\ (Even(k)' <=> Even(k))
  BY <1>1, <1>2, SameTimesKeep
<1>5. level \in Levels
  BY <1>1, Sizes DEF ShapeInv, Levels
<1>6. DownInv'
  <2>1. /\ \A k \in Levels : k < level => Done(k) < N(k)
        /\ \A k \in Pairs : /\ k + 1 < level => Even(k)
                            /\ k + 1 = level => InStep(k) \/ Even(k)
                            /\ level <= k => InStep(k)
        /\ Full(level)
    BY <1>1 DEF WearInv, DownInv
  <2>2. /\ \A k \in Levels' : k < level' => Done(k)' < N(k)
        /\ \A k \in Pairs' : /\ k + 1 < level' => Even(k)'
                             /\ k + 1 = level' => InStep(k)' \/ Even(k)'
                             /\ level' <= k => InStep(k)'
    BY <1>1, <1>4, <2>1
  <2>3. Full(level)'
    BY <1>4, <1>5, <2>1, <1>1
  <2> QED
    BY <2>2, <2>3 DEF DownInv
<1> QED
  BY <1>1, <1>3, <1>6 DEF WearInv, UpInv, IdleInv

(***************************************************************************)
(* A full level is begun anew with its index maps.  It was the lower one   *)
(* of a pair in step, and as the upper one has room, that one has used up  *)
(* half of its plan: it makes no difference to it.                         *)
(***************************************************************************)
LEMMA RefreshKeeps == WearInv /\ Refresh => WearInv'
<1> SUFFICES ASSUME WearInv, Refresh
             PROVE  WearInv'
  OBVIOUS
<1>1. ShapeInv /\ phase = "flush" /\ phase' = "down" /\ level' = level
  BY DEF WearInv, Refresh
<1>2. /\ bound' = bound /\ DOMAIN ram' = Levels
      /\ \A k \in Levels : /\ DOMAIN ram'[k] = Fields
                           /\ ram'[k].t = IF k >= level THEN N(k) ELSE ram[k].t
  BY <1>1, RefreshTimes
<1>3. Scan' = Scan /\ Levels' = Levels /\ Pairs' = Pairs
  BY <1>2 DEF Scan, Levels, Pairs
<1>4. \A k \in Levels : /\ k \in Int /\ N(k) \in Nat /\ N(k) > 0 /\ ram[k].t = Done(k) + N(k)
                        /\ Done(k) \in 0 .. N(k)
  BY <1>1, LevelFacts DEF ShapeInv
<1>5. \A k \in Levels : Done(k)' = IF k >= level THEN 0 ELSE Done(k)
  BY <1>2, <1>4 DEF Done
<1>6. /\ \A k \in Levels : k < level => Done(k) < N(k)
      /\ \A k \in Pairs : /\ k + 1 < level => Even(k)
                          /\ k + 1 = level => InStep(k) \/ Even(k)
                          /\ level <= k => InStep(k)
      /\ Full(level)
  BY <1>1 DEF WearInv, DownInv
<1>7. level \in Levels /\ level \in Int
  BY <1>1, Sizes DEF ShapeInv, Levels
<1>8. ShapeInv'
  <2>1. \A k \in Levels : ram'[k].t \in Nat /\ Done(k)' \in 0 .. N(k)
    BY <1>1, <1>2, <1>4, <1>5, <1>7 DEF ShapeInv
  <2> QED
    BY <1>1, <1>2, <1>3, <2>1 DEF ShapeInv
<1>9. ASSUME NEW k \in Pairs
      PROVE  /\ k + 1 < level => Even(k)'
             /\ k + 1 = level => Even(k)'
             /\ level <= k => InStep(k)'
  <2>1. /\ k \in Levels /\ k + 1 \in Levels /\ k \in Int
        /\ N(k) = 2 * N(k + 1) /\ N(k + 1) \in Nat /\ N(k + 1) > 0
        /\ Done(k) \in 0 .. N(k) /\ Done(k + 1) \in 0 .. N(k + 1)
    BY <1>1, PairFacts
  <2>2. ASSUME k + 1 < level
        PROVE  Even(k)'
    <3>1. Done(k)' = Done(k) /\ Done(k + 1)' = Done(k + 1) /\ Even(k)
      BY <1>5, <1>6, <1>7, <2>1, <2>2
    <3> QED
      BY <3>1 DEF Even
  <2>3. ASSUME k + 1 = level
        PROVE  Even(k)'
    <3>1. Done(k)' = Done(k) /\ Done(k + 1)' = 0
      BY <1>5, <1>7, <2>1, <2>3
    <3>2. Done(k) < N(k) /\ (InStep(k) \/ Even(k)) /\ Done(k + 1) = N(k + 1)
      BY <1>1, <1>6, <1>7, <2>1, <2>3, LevelFacts
    <3>3. Done(k) = N(k + 1)
      BY <2>1, <3>2 DEF InStep, Even
    <3> QED
      BY <2>1, <3>1, <3>3 DEF Even
  <2>4. ASSUME level <= k
        PROVE  InStep(k)'
    <3>1. Done(k)' = 0 /\ Done(k + 1)' = 0
      BY <1>5, <1>7, <2>1, <2>4
    <3> QED
      BY <2>1, <3>1 DEF InStep
  <2> QED
    BY <2>2, <2>3, <2>4
<1>10. DownInv'
  <2>1. \A k \in Levels' : k < level' => Done(k)' < N(k)
    BY <1>1, <1>3, <1>4, <1>5, <1>6, <1>7
  <2>2. \A k \in Pairs' : /\ k + 1 < level' => Even(k)'
                          /\ k + 1 = level' => InStep(k)' \/ Even(k)'
                          /\ level' <= k => InStep(k)'
    BY <1>1, <1>3, <1>9
  <2> QED
    BY <1>1, <2>1, <2>2 DEF DownInv
<1> QED
  BY <1>1, <1>8, <1>10 DEF WearInv, UpInv, IdleInv

\* The level has room, so that the pair above it is even in any case
LEMMA DescendKeeps == WearInv /\ Descend => WearInv'
<1> SUFFICES ASSUME WearInv, Descend
             PROVE  WearInv'
  OBVIOUS
<1>1. /\ ShapeInv /\ phase = "down" /\ phase' = "down" /\ level' = level + 1
      /\ level < Scan /\ ~ Full(level)
  BY DEF WearInv, Descend
<1>2. SameTimes
  BY <1>1, DescendTimes
<1>3. level \in Levels /\ level \in Int /\ level + 1 \in 0 .. Scan
  BY <1>1, Sizes DEF ShapeInv, Levels
<1>4. ShapeInv'
  BY <1>1, <1>2, <1>3, SameShape
<1>5. /\ Levels' = Levels /\ Pairs' = Pairs
      /\ \A k \in Levels : Done(k)' = Done(k)
      /\ \A k \in Pairs : (InStep(k)' <=> InStep(k)) /\ (Even(k)' <=> Even(k))
  BY <1>1, <1>2, SameTimesKeep
<1>6. /\ \A k \in Levels : k < level => Done(k) < N(k)
      /\ \A k \in Pairs : /\ k + 1 < level => Even(k)
                          /\ k + 1 = level => InStep(k) \/ Even(k)
                          /\ level <= k => InStep(k)
  BY <1>1 DEF WearInv, DownInv
<1>7. ASSUME NEW k \in Levels, k < level + 1
      PROVE  Done(k) < N(k)
  <2>1. k \in Int /\ Done(k) \in 0 .. N(k) /\ N(k) \in Nat /\ (Full(k) <=> Done(k) = N(k))
    BY <1>1, LevelFacts DEF ShapeInv
  <2>2. CASE k < level
    BY <1>6, <2>2
  <2>3. CASE k = level
    BY <1>1, <2>1, <2>3
  <2> QED
    BY <1>3, <1>7, <2>1, <2>2, <2>3
<1>8. ASSUME NEW k \in Pairs
      PROVE  /\ k + 1 < level + 1 => Even(k)
             /\ k + 1 = level + 1 => InStep(k)
             /\ level + 1 <= k => InStep(k)
  <2>1. /\ k \in Levels /\ k + 1 \in Levels /\ k \in Int
        /\ N(k) = 2 * N(k + 1) /\ N(k + 1) \in Nat /\ N(k + 1) > 0
        /\ Done(k) \in 0 .. N(k) /\ Done(k + 1) \in 0 .. N(k + 1)
    BY <1>1, PairFacts
  <2>2. ASSUME k + 1 = level
        PROVE  Even(k)
    <3>1. Done(k) < N(k) /\ Done(k + 1) < N(k + 1)
      BY <1>3, <1>7, <2>1, <2>2
    <3>2. InStep(k) \/ Even(k)
      BY <1>6, <2>2
    <3> QED
      BY <2>1, <3>1, <3>2 DEF InStep, Even
  <2> QED
    BY <1>3, <1>6, <2>1, <2>2
<1>9. DownInv'
  <2>1. \A k \in Levels' : k < level' => Done(k)' < N(k)
    BY <1>1, <1>5, <1>7
  <2>2. \A k \in Pairs' : /\ k + 1 < level' => Even(k)'
                          /\ k + 1 = level' => InStep(k)' \/ Even(k)'
                          /\ level' <= k => InStep(k)'
    BY <1>1, <1>5, <1>8
  <2> QED
    BY <1>1, <2>1, <2>2 DEF DownInv
<1> QED
  BY <1>1, <1>4, <1>9 DEF WearInv, UpInv, IdleInv

LEMMA HalfWriteKeeps == WearInv /\ HalfWriteScan => WearInv'
<1> SUFFICES ASSUME WearInv, HalfWriteScan
             PROVE  WearInv'
  OBVIOUS
<1>1. /\ ShapeInv /\ phase = "down" /\ phase' = "up" /\ level = Scan /\ Scan > 0
      /\ level' = Scan - 1 /\ UNCHANGED <<bound, ram>>
  BY DEF WearInv, HalfWriteScan
<1>2. SameTimes
  BY <1>1, SameRam
<1>3. Scan \in Int /\ level' \in 0 .. Scan /\ level' < Scan
  BY <1>1, Sizes DEF ShapeInv
<1>4. ShapeInv'
  BY <1>1, <1>2, <1>3, SameShape
<1>5. /\ Levels' = Levels /\ Pairs' = Pairs
      /\ \A k \in Levels : Done(k)' = Done(k)
      /\ \A k \in Pairs : Even(k)' <=> Even(k)
  BY <1>1, <1>2, SameTimesKeep
<1>6. /\ \A k \in Levels : k < level => Done(k) < N(k)
      /\ \A k \in Pairs : k + 1 < level => Even(k)
  BY <1>1 DEF WearInv, DownInv
<1>7. /\ \A k \in Levels : k < Scan
      /\ \A k \in Pairs : k + 1 < Scan /\ ~ (k = Scan - 1) /\ ~ (Scan - 1 < k)
  BY <1>3 DEF Levels, Pairs
<1>8. UpInv'
  <2>1. \A k \in Levels' : k <= level' => Done(k)' < N(k)
    BY <1>1, <1>5, <1>6, <1>7
  <2>2. \A k \in Pairs' : Even(k)' /\ ~ (k = level') /\ ~ (level' < k)
    BY <1>1, <1>5, <1>6, <1>7
  <2> QED
    BY <1>1, <2>1, <2>2 DEF UpInv
<1> QED
  BY <1>1, <1>4, <1>8 DEF WearInv, DownInv, IdleInv

LEMMA AscendKeeps == WearInv /\ Ascend => WearInv'
<1> SUFFICES ASSUME WearInv, Ascend
             PROVE  WearInv'
  OBVIOUS
<1>1. ShapeInv /\ phase = "up" /\ level < Scan
  BY DEF WearInv, ShapeInv, Ascend
<1>2. \/ level = 0 /\ phase' = "idle" /\ level' = level
      \/ level # 0 /\ phase' = "up" /\ level' = level - 1
  BY <1>1 DEF Ascend
<1>3. /\ bound' = bound /\ DOMAIN ram' = Levels
      /\ \A k \in Levels : /\ DOMAIN ram'[k] = Fields
                           /\ ram'[k].t = IF k = level THEN ram[k].t + 1 ELSE ram[k].t
  BY <1>1, AscendTimes
<1>4. Scan' = Scan /\ Levels' = Levels /\ Pairs' = Pairs
  BY <1>3 DEF Scan, Levels, Pairs
<1>5. \A k \in Levels : /\ k \in Int /\ N(k) \in Nat /\ N(k) > 0 /\ ram[k].t = Done(k) + N(k)
                        /\ Done(k) \in 0 .. N(k) /\ ram[k].t \in Nat
  BY <1>1, LevelFacts DEF ShapeInv
<1>6. \A k \in Levels : Done(k)' = IF k = level THEN Done(k) + 1 ELSE Done(k)
  BY <1>3, <1>5 DEF Done
<1>7. /\ \A k \in Levels : k <= level => Done(k) < N(k)
      /\ \A k \in Pairs : /\ k < level => Even(k)
                          /\ k = level => Counted(k)
                          /\ level < k => InStep(k)
  BY <1>1 DEF WearInv, UpInv
<1>8. level \in Int /\ level >= 0 /\ Scan \in Int /\ level \in 0 .. Scan
  BY <1>1, Sizes DEF ShapeInv
<1>9. ShapeInv'
  <2>1. \A k \in Levels : ram'[k].t \in Nat /\ Done(k)' \in 0 .. N(k)
    <3> TAKE k \in Levels
    <3>1. CASE k = level
      <4>1. Done(k) < N(k)
        BY <1>7, <1>8, <3>1
      <4> QED
        BY <1>3, <1>5, <1>6, <3>1, <4>1
    <3>2. CASE k # level
      BY <1>3, <1>5, <1>6, <3>2
    <3> QED
      BY <3>1, <3>2
  <2>2. level' \in 0 .. Scan /\ level' < Scan /\ phase' \in {"idle", "up"}
    BY <1>1, <1>2, <1>8
  <2>3. bound' \in Bounds
    BY <1>1, <1>3 DEF ShapeInv
  <2> QED
    BY <1>3, <1>4, <2>1, <2>2, <2>3 DEF ShapeInv
<1>10. ASSUME NEW k \in Pairs
       PROVE  /\ k + 1 < level => Even(k)'
              /\ k + 1 = level => Counted(k)'
              /\ level <= k => InStep(k)'
  <2>1. /\ k \in Levels /\ k + 1 \in Levels /\ k \in Int
        /\ N(k) = 2 * N(k + 1) /\ N(k + 1) \in Nat /\ N(k + 1) > 0
        /\ Done(k) \in 0 .. N(k) /\ Done(k + 1) \in 0 .. N(k + 1)
    BY <1>1, PairFacts
  <2>2. ASSUME k + 1 < level
        PROVE  Even(k)'
    <3>1. Done(k)' = Done(k) /\ Done(k + 1)' = Done(k + 1) /\ Even(k)
      BY <1>6, <1>7, <1>8, <2>1, <2>2
    <3> QED
      BY <3>1 DEF Even
  <2>3. ASSUME k + 1 = level
        PROVE  Counted(k)'
    <3>1. Done(k)' = Done(k) /\ Done(k + 1)' = Done(k + 1) + 1 /\ Even(k)
      BY <1>6, <1>7, <1>8, <2>1, <2>3
    <3> QED
      BY <2>1, <3>1 DEF Even, Counted
  <2>4. ASSUME level = k
        PROVE  InStep(k)'
    <3>1. Done(k)' = Done(k) + 1 /\ Done(k + 1)' = Done(k + 1) /\ Counted(k)
      BY <1>6, <1>7, <1>8, <2>1, <2>4
    <3> QED
      BY <2>1, <3>1 DEF Counted, InStep
  <2>5. ASSUME level < k
        PROVE  InStep(k)'
    <3>1. Done(k)' = Done(k) /\ Done(k + 1)' = Done(k + 1) /\ InStep(k)
      BY <1>6, <1>7, <1>8, <2>1, <2>5
    <3> QED
      BY <3>1 DEF InStep
  <2> QED
    BY <1>8, <2>1, <2>2, <2>3, <2>4, <2>5
<1>11. CASE level = 0
  <2>1. phase' = "idle" /\ \A k \in Pairs : level <= k
    BY <1>2, <1>8, <1>11 DEF Pairs
  <2>2. \A k \in Pairs' : InStep(k)'
    BY <1>4, <1>10, <2>1
  <2> QED
    BY <1>9, <2>1, <2>2 DEF WearInv, DownInv, UpInv, IdleInv
<1>12. CASE level # 0
  <2>1. phase' = "up" /\ level' = level - 1
    BY <1>2, <1>12
  <2>2. \A k \in Levels' : k <= level' => Done(k)' < N(k)
    BY <1>4, <1>5, <1>6, <1>7, <1>8, <2>1
  <2>3. \A k \in Pairs : k \in Int
    BY <1>1, PairFacts
  <2>4. \A k \in Pairs' : /\ k < level' => Even(k)'
                          /\ k = level' => Counted(k)'
                          /\ level' < k => InStep(k)'
    BY <1>4, <1>8, <1>10, <2>1, <2>3
  <2> QED
    BY <1>9, <2>1, <2>2, <2>4 DEF WearInv, DownInv, UpInv, IdleInv
<1> QED
  BY <1>11, <1>12

LEMMA AccessScanKeeps == WearInv /\ AccessScan => WearInv'
<1> SUFFICES ASSUME WearInv, AccessScan
             PROVE  WearInv'
  OBVIOUS
<1>1. ShapeInv /\ Scan = 0 /\ phase' = "idle" /\ level' = level /\ UNCHANGED <<bound, ram>>
  BY DEF WearInv, AccessScan
<1>2. SameTimes
  BY <1>1, SameRam
<1>3. ShapeInv'
  BY <1>1, <1>2, SameShape DEF ShapeInv
<1>4. Pairs' = {}
  <2>1. Pairs' = Pairs
    BY <1>1, <1>2, SameTimesKeep
  <2> QED
    BY <1>1, <2>1 DEF Pairs
<1> QED
  BY <1>1, <1>3, <1>4 DEF WearInv, DownInv, UpInv, IdleInv

LEMMA StutterKeeps == WearInv /\ UNCHANGED vars => WearInv'
<1> SUFFICES ASSUME WearInv, UNCHANGED vars
             PROVE  WearInv'
  OBVIOUS
<1>1. UNCHANGED <<bound, ram, phase, level>>
  BY DEF vars
<1> QED
  BY <1>1 DEF WearInv, ShapeInv, DownInv, UpInv, IdleInv, Levels, Pairs, Scan, Done,
              InStep, Even, Counted, Full

LEMMA WearInvariance == Spec => []WearInv
<1>1. WearInv /\ [Next]_vars => WearInv'
  BY AccessKeeps, FlushKeeps, CollectKeeps, RefreshKeeps, DescendKeeps, HalfWriteKeeps,
     AscendKeeps, AccessScanKeeps, StutterKeeps, Zenon DEF Next, Terminated
<1> QED
  BY <1>1, InitHolds, PTL DEF Spec

(***************************************************************************)
(* Between accesses an index map has made as many accesses since its last  *)
(* refresh as the level it belongs to, modulo its size (EpiGRAM::access    *)
(* calls flush and refresh on the way down and counts on the way up).      *)
(***************************************************************************)
THEOREM LevelsWearInStep == Spec => []LevelsInStep
<1>1. WearInv => LevelsInStep
  <2> SUFFICES ASSUME WearInv, phase = "idle", NEW k \in Pairs
               PROVE  ram[k + 1].t - N(k + 1) =
                        IF ram[k].t - N(k) = 0 THEN 0
                        ELSE 1 + ((ram[k].t - N(k) - 1) % N(k + 1))
    BY Zenon DEF LevelsInStep, Pairs
  <2> DEFINE n == N(k + 1)
             d == Done(k)
  <2>1. /\ n \in Nat /\ n > 0 /\ d \in 0 .. 2 * n
        /\ Done(k + 1) = IF d <= n THEN d ELSE d - n
    BY PairFacts DEF WearInv, IdleInv, InStep
  <2> HIDE DEF n, d
  <2>2. Done(k + 1) = IF d = 0 THEN 0 ELSE 1 + ((d - 1) % n)
    <3>1. CASE d = 0
      BY <2>1, <3>1
    <3>2. CASE d # 0 /\ d <= n
      <4>1. (d - 1) % n = d - 1
        BY <2>1, <3>2
      <4> QED
        BY <2>1, <3>2, <4>1
    <3>3. CASE n < d /\ d <= 2 * n
      <4>1. (d - 1) % n = (d - 1) - n
        BY <2>1, <3>3
      <4> QED
        BY <2>1, <3>3, <4>1
    <3> QED
      BY <2>1, <3>1, <3>2, <3>3
  <2> QED
    BY <2>2 DEF n, d, Done
<1> QED
  BY <1>1, WearInvariance, PTL

(***************************************************************************)
(* No level is used beyond its plan: its time is one of those gschedule    *)
(* planned for, up to the flush at time 2n.                                *)
(***************************************************************************)
WithinPlan == \A k \in Levels : ram[k].t \in N(k) .. 2 * N(k)

THEOREM AlwaysWithinPlan == Spec => []WithinPlan
<1>1. WearInv => WithinPlan
  BY LevelFacts DEF WearInv, ShapeInv, WithinPlan
<1> QED
  BY <1>1, WearInvariance, PTL
=============================================================================
