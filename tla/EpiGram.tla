------------------------------- MODULE EpiGram ------------------------------
(***************************************************************************)
(* EpiGRAM (epigram.cc): the garbled RAM.  Level 0 holds the data; level   *)
(* k + 1 is the index map of level k, an EpiGRAM of half the size with     *)
(* words of two halves, which holds for each word of level k its current   *)
(* one-time index, masked by a permutation only Alice knows.  Level Scan   *)
(* is small enough to be a linear scan; a small memory is nothing else.    *)
(*                                                                         *)
(* An access to level k exchanges the masked index of its word for that of *)
(* the current time, in the index map; from the old one the leaf of the    *)
(* lazy permutation gives address and language; the word is read there and *)
(* written back to a fresh slot.  After n accesses a level is flushed, and *)
(* begins anew with new permutations.                                      *)
(*                                                                         *)
(* A slot holds a word and the language it is garbled in; a word is read   *)
(* right when the languages that are added up cancel, and is Garbage       *)
(* otherwise.                                                              *)
(***************************************************************************)
EXTENDS Powers, Schedule, LinearScan

CONSTANTS Logn,    \* 2^Logn words
          Value, Zero,
          Garbage, \* a word read in the wrong language
          Nil,     \* the word of a dummy: constant 0
          Orders,  \* names of the permutations Alice may draw
          Order,   \* Order[o][size]: a permutation of 0 .. size - 1
          Bounds   \* the instances: the level that is a linear scan, and as bounds the
                   \* permutations an execution draws from, the indices and the accesses

ASSUME SizeAssumption == Logn \in Nat
ASSUME BoundsAssumption ==
  Bounds \subseteq [scan : 0 .. Logn, orders : SUBSET Orders,
                    indices : SUBSET (0 .. 2^Logn - 1), accesses : Nat]
ASSUME OrderAssumption ==
  \A o \in Orders, k \in 0 .. Logn + 2 :
    { Order[o][2^k][j] : j \in 0 .. 2^k - 1 } = 0 .. 2^k - 1

N(k) == PowerOf2[Logn - k]
Index == 0 .. N(0) - 1

VARIABLES
  ram,      \* ram[k]: logn, t, storage, pi_progress, mask, mdata and the name of the permutations
            \* it was made from; looked: the leaves used of lpn
  scan,     \* what level Scan holds: masked indices, or the words
  phase,    \* "idle", "down" or "up" the levels, or "flush"
  level,    \* the level reached
  request,  \* the index, and what is done to the word
  cursor, content,   \* during a flush: the level read last, and its words
  bound,    \* the one of Bounds this execution keeps to
  found,    \* the masked index that level + 1 returned
  out, contents, accesses  \* the last result, the Contents after it, the number of accesses

\* The first level of at most scan_preference_point words
Scan == bound.scan
Levels == 0 .. Scan - 1

flushVars == <<cursor, content>>
vars == <<bound, ram, scan, phase, level, request, flushVars, found, out, contents, accesses>>

Unused == -1   \* the language of a slot that was not permuted since it was written
Cell(val, lang) == [val |-> val, lang |-> lang]
NoLanguage == Cell(Nil, Unused)

\* The entries of one-time index ix in the plan of an EpiGRAM
Entries(r, ix) == Pad(r.mdata.storage[ix], r.logn + 1)

\* The one-time index of a masked one; of a wrong one, any
Unmask(r, p) == CHOOSE ix \in DOMAIN r.mask : p # Garbage => r.mask[ix] = p
-----------------------------------------------------------------------------
(* refresh: a new plan, new masks, the content in the even slots *)

NewRam(k, words, storageOrder, maskOrder) ==
  [logn |-> Logn - k, t |-> N(k), pi_progress |-> 0, looked |-> <<>>,
   mask |-> Order[maskOrder][2 * N(k)],
   order |-> storageOrder, mdata |-> gschedule(N(k), Order[storageOrder]),
   storage |-> [a \in 0 .. 4 * N(k) - 1 |->
                  IF a % 2 = 0 /\ a < 2 * N(k) THEN Cell(words[a \div 2], Unused)
                  ELSE NoLanguage]]

\* The initial content of an index map: the masks of the first n indices
MaskWords(n, mask) == [j \in 0 .. n \div 2 - 1 |-> <<mask[2 * j], mask[2 * j + 1]>>]

\* refresh of level l, and of its index maps
refresh(l, words, storageOrder, maskOrder) ==
  [k \in l .. Scan - 1 |->
     NewRam(k, IF k = l THEN words
               ELSE MaskWords(N(k - 1), Order[maskOrder[k - 1]][2 * N(k - 1)]),
            storageOrder[k], maskOrder[k])]

\* What a refresh of any level leaves in level Scan, below others
ScanContent(maskOrder) ==
  [j \in 0 .. N(Scan - 1) - 1 |-> Order[maskOrder[Scan - 1]][2 * N(Scan - 1)][j]]
-----------------------------------------------------------------------------
(* shuffle, and reading a word *)

shuffle(r) ==
  LET size == PermSize(r.t)
      base == 2 * r.t - size
      moved == Permute(r.storage, base, size, Order[r.order][size])
  IN  [r EXCEPT !.storage = [a \in DOMAIN moved |->
                               IF a >= base /\ a < 2 * r.t
                               THEN Cell(moved[a].val, r.pi_progress + a - base)
                               ELSE moved[a]],
                !.pi_progress = @ + size]

\* The sum of the words at some addresses, and of a language
ReadSum(storage, addresses, lang) ==
  LET real == { j \in DOMAIN addresses : storage[addresses[j]].val # Nil }
      sum[j \in 0 .. Len(addresses)] ==
        IF j = 0 THEN lang ELSE Plus(sum[j - 1], {storage[addresses[j]].lang})
  IN  IF Cardinality(real) = 1 /\ sum[Len(addresses)] = {}
      THEN storage[addresses[CHOOSE j \in real : TRUE]].val
      ELSE Garbage

\* The halves of a word of an index map
Half(word, side) == IF word = Garbage THEN Garbage ELSE word[side]
WithHalf(word, side, x) ==
  IF word = Garbage THEN Garbage ELSE [word EXCEPT ![side] = x]

\* index_map: the word of level k + 1, and its half, that stand for word i of level k
Side(i) == 1 + (i % 2)
At(k) == request.i \div 2^k
-----------------------------------------------------------------------------
(* Where the words are *)

\* The contents, between two accesses, of EpiGRAMs r over a linear scan s: each
\* word where the index maps lead, before the next permutation
Contents(r, s) ==
  LET word(k, p) ==
        LET ix == Unmask(r[k], p)
            past == { j \in DOMAIN Entries(r[k], ix) : Entries(r[k], ix)[j].t < r[k].t }
            leaf == Leaf(Entries(r[k], ix), r[k].t - 1)
        IN  IF past = {} THEN r[k].storage[2 * ix].val
            ELSE ReadSum(r[k].storage, <<leaf.addr>>, leaf.lang)
      find(i) ==
        LET p[k \in Levels] ==
              IF k = Scan - 1 THEN s[i \div 2^k]
              ELSE Half(word(k + 1, p[k + 1]), Side(i \div 2^k))
        IN  word(0, p[0])
  IN  IF Scan = 0 THEN s ELSE [i \in Index |-> find(i)]
-----------------------------------------------------------------------------
(* access *)

Zeros == [i \in Index |-> Zero]

Init ==
  /\ bound \in Bounds
  /\ \E storageOrder, maskOrder \in [Levels -> bound.orders] :
       /\ ram = refresh(0, Zeros, storageOrder, maskOrder)
       /\ scan = IF Scan = 0 THEN Zeros ELSE ScanContent(maskOrder)
  /\ phase = "idle" /\ level = 0 /\ found = Garbage
  /\ cursor = Scan /\ content = << >>
  /\ request = [i |-> 0, x |-> Nil]
  /\ out = << >> /\ contents = Contents(ram, scan) /\ accesses = 0

\* read(i) for x = Nil, write(i, x) otherwise
Access ==
  /\ phase = "idle" /\ accesses < bound.accesses
  /\ \E i \in bound.indices, x \in Value \cup {Nil} : request' = [i |-> i, x |-> x]
  /\ phase' = "down" /\ level' = 0
  /\ accesses' = accesses + 1
  /\ UNCHANGED <<bound, ram, scan, flushVars, found, out, contents>>

\* Mutant: a level is flushed one access before its plan is used up
Full_early(k) == ram[k].t = 2 * N(k) - 1

\* EpiGRAM is only good for n accesses
Full(k) == ram[k].t = 2 * N(k)

\* Mutant: the index maps are not permuted before a flush reads them
LastShuffle_top == [ram EXCEPT ![level] = shuffle(@)]

\* The final shuffle of flush, at this level and in its index maps
LastShuffle == [k \in Levels |-> IF k >= level THEN shuffle(ram[k]) ELSE ram[k]]

(***************************************************************************)
(* After n accesses.  flush permutes once more, at this level and in its   *)
(* index maps, then reads every word, from the last index map up; refresh  *)
(* begins anew.                                                            *)
(***************************************************************************)
Flush ==
  /\ phase = "down" /\ level < Scan
  /\ Full(level)
  /\ ram' = LastShuffle
  /\ phase' = "flush" /\ cursor' = Scan /\ content' = scan
  /\ UNCHANGED <<bound, scan, level, request, found, out, contents, accesses>>

Collect ==
  LET k == cursor - 1
      masked == [i \in 0 .. N(k) - 1 |->
                   IF cursor = Scan THEN content[i] ELSE Half(content[i \div 2], Side(i))]
      word(p) == LET leaf == Leaf(Entries(ram[k], Unmask(ram[k], p)), ram[k].t)
                 IN  ReadSum(ram[k].storage, <<leaf.addr>>, leaf.lang)
  IN  /\ phase = "flush" /\ cursor > level
      /\ cursor' = k
      /\ content' = [i \in DOMAIN masked |-> word(masked[i])]
      /\ ram' = [ram EXCEPT ![k].looked = @ \o [j \in 1 .. N(k) |-> masked[j - 1]]]
      /\ UNCHANGED <<bound, scan, phase, level, request, found, out, contents, accesses>>

Refresh ==
  /\ phase = "flush" /\ cursor = level
  /\ \E storageOrder, maskOrder \in [level .. Scan - 1 -> bound.orders] :
       LET new == refresh(level, content, storageOrder, maskOrder)
       IN  /\ ram' = [k \in Levels |-> IF k >= level THEN new[k] ELSE ram[k]]
           /\ scan' = ScanContent(maskOrder)
  /\ phase' = "down" /\ content' = << >> /\ cursor' = Scan
  /\ UNCHANGED <<bound, level, request, found, out, contents, accesses>>

\* Up to the call of the index map
Descend ==
  /\ phase = "down" /\ level < Scan
  /\ ~ Full(level)
  /\ ram' = [ram EXCEPT ![level] = shuffle(@)]
  /\ level' = level + 1
  /\ UNCHANGED <<bound, scan, phase, request, flushVars, found, out, contents, accesses>>

\* The index given to the linear scan: the bits of the level it is the index map of
ScanIndex(k) == Bits(At(k), Logn - k)

\* A sum of words that is a word
Word(sum) == IF Cardinality(sum) = 1 THEN CHOOSE x \in sum : TRUE ELSE Garbage

\* half_write of a scan RAM: the masked index of time t for the current one
HalfWriteScan ==
  /\ phase = "down" /\ level = Scan /\ Scan > 0
  /\ LET k == Scan - 1
         written == write_scan(ram[k].mask[ram[k].t], ScanIndex(k), scan)
     IN  found' = written.temp /\ scan' = written.buff
  /\ phase' = "up" /\ level' = Scan - 1
  /\ UNCHANGED <<bound, ram, request, flushVars, out, contents, accesses>>

\* Mutant: the index map keeps the index it had
WriteBack_kept(word) ==
  IF level = 0 THEN IF request.x = Nil THEN word ELSE request.x ELSE word

\* What is written back: f of the word read, in level 0 read or write, and in
\* the others half_write of the level below
WriteBack(word) ==
  IF level = 0 THEN IF request.x = Nil THEN word ELSE request.x
  ELSE WithHalf(word, Side(At(level - 1)), ram[level - 1].mask[ram[level - 1].t])

\* A fresh slot for the word, and a fresh dummy
Stored(r, word) ==
  [r.storage EXCEPT ![2 * r.t] = Cell(word, Unused), ![2 * r.t + 1] = NoLanguage]

Returned(word) == word

\* From the index map's answer to the return
Ascend ==
  /\ phase = "up"
  /\ LET r == ram[level]
         leaf == Leaf(Entries(r, Unmask(r, found)), r.t)
         masks == hide(r.mdata.dummy[r.t - N(level)], leaf.addr, r.t)
         word == ReadSum(r.storage, masks.addresses, Plus(masks.lang, leaf.lang))
     IN  /\ ram' = [ram EXCEPT ![level] =
                      [r EXCEPT !.storage = Stored(r, WriteBack(word)),
                                !.looked = Append(@, found),
                                !.t = @ + 1]]
         /\ UNCHANGED scan
         /\ IF level = 0
            THEN /\ out' = <<request.i, Returned(word)>> /\ phase' = "idle"
                 /\ contents' = Contents(ram', scan)
                 /\ UNCHANGED <<level, found>>
            ELSE /\ found' = Half(Returned(word), Side(At(level - 1)))
                 /\ level' = level - 1
                 /\ UNCHANGED <<out, contents, phase>>
  /\ UNCHANGED <<bound, request, flushVars, accesses>>

\* access of a scan RAM: the word is read, given to read or write, and written
AccessScan ==
  /\ phase = "down" /\ level = Scan /\ Scan = 0
  /\ LET word == Word(read_scan(ScanIndex(0), scan))
     IN  /\ scan' = write_scan(WriteBack(word), ScanIndex(0), scan).buff
         /\ out' = <<request.i, Returned(word)>>
  /\ phase' = "idle" /\ contents' = Contents(ram, scan')
  /\ UNCHANGED <<bound, ram, level, request, flushVars, found, accesses>>

Finished == phase = "idle" /\ accesses = bound.accesses
Terminated == Finished /\ UNCHANGED vars

Next == \/ Access \/ Flush \/ Collect \/ Refresh \/ Descend
        \/ HalfWriteScan \/ Ascend \/ AccessScan \/ Terminated

Spec == Init /\ [][Next]_vars
-----------------------------------------------------------------------------
(* Properties *)

(***************************************************************************)
(* The leaves of a lazy permutation are circuits for one use, garbled in   *)
(* advance: no masked index is ever looked up twice, and after n accesses  *)
(* exactly those of the current words are left, for the flush (the         *)
(* assertion timer < n in lazypermutation.hh, and the stacks it pops).     *)
(***************************************************************************)
LookedUpOnce ==
  \A k \in Levels :
    LET looked == ram[k].looked
    IN  \A a, b \in DOMAIN looked : a # b => looked[a] # looked[b]

(***************************************************************************)
(* The plan fits its arrays: every index has between 1 and log n + 1       *)
(* entries (storage_metadata is a flat array of such rows, and the padding *)
(* copies the entry before), and every access as many dummies as there are *)
(* levels (the first assertion of hide).                                   *)
(***************************************************************************)
ScheduleFits ==
  \A k \in Levels :
    /\ \A r \in DOMAIN ram[k].mdata.storage :
         Len(ram[k].mdata.storage[r]) \in 1 .. Logn - k + 1
    /\ \A j \in DOMAIN ram[k].mdata.dummy :
         Len(ram[k].mdata.dummy[j]) = NumLevels(N(k) + j)

(***************************************************************************)
(* The index maps wear out in step: between accesses, level k + 1 has made *)
(* as many accesses since its last refresh as level k has, modulo its own  *)
(* size.  So when level k is flushed after n accesses, its index map has   *)
(* just used up its own plan, and the last permutation of EpiGRAM::flush   *)
(* puts everything into one level.                                         *)
(***************************************************************************)
LevelsInStep ==
  phase = "idle" =>
    \A k \in 0 .. Scan - 2 :
      LET done == ram[k].t - N(k)
          n == N(k + 1)
      IN  ram[k + 1].t - n = IF done = 0 THEN 0 ELSE 1 + ((done - 1) % n)

(***************************************************************************)
(* EpiGRAM is an array: every access returns what the array holds at the   *)
(* index, and afterwards every word, accessed or not, is found where the   *)
(* index maps lead, in the language the plan says, across flushes and      *)
(* refreshes of any level.                                                 *)
(***************************************************************************)
RAM == INSTANCE Ram WITH mem <- contents

ImplementsRam == RAM!Spec
=============================================================================
