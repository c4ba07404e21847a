------------------------------ MODULE Schedule ------------------------------
(***************************************************************************)
(* gschedule (epigram.cc): before any access, Alice plans where each word  *)
(* will be at each time.  A memory of n words serves n accesses, at times  *)
(* n to 2n - 1.  Its 4n slots are filled in pairs: the word written at     *)
(* time t goes to slot 2t, a dummy to slot 2t + 1.  Each access, and the   *)
(* flush at time 2n, first permutes the last PermSize(t) of the 2t slots   *)
(* in use, and gives each of them a fresh language.                        *)
(*                                                                         *)
(* "One-time index" r is the word written at time r (for r < n, word r of  *)
(* the initial content); in buffer it is item 2r, its dummy item 2r + 1.   *)
(* A language is named by its position in mdata.languages.                 *)
(***************************************************************************)
EXTENDS Integers, Sequences, FiniteSets

\* perm_size: twice the lowest set bit of t
PermSize(t) == 2 * CHOOSE p \in 1 .. t : /\ \E k \in 0 .. t : p = 2^k
                                         /\ t % p = 0 /\ t % (2 * p) # 0

\* num_levels: the bits set in t
NumLevels(t) == Cardinality({ k \in 0 .. t : (t \div 2^k) % 2 = 1 })

\* apply_permutation and gpermute, on the size slots from base
Permute(slots, base, size, pi) ==
  [a \in DOMAIN slots |->
     IF a >= base /\ a < base + size THEN slots[base + pi[a - base]] ELSE slots[a]]

Entry(t, addr, lang) == [t |-> t, addr |-> addr, lang |-> lang]

\* Mutant: the dummies are counted from the wrong end of their level
Turn_late(n, k, size) == n + k - size

\* The dummy, of a level of size slots, whose turn it is at time n + k: the d
\* with t - n + order = k, for order = d - (t - size/2)
Turn(n, k, size) == n + k - size \div 2

(***************************************************************************)
(* The loop over t.  storage[r] collects the places of index r, dummy[k]   *)
(* the dummies of the access at time n + k: every level has as many        *)
(* dummies as it will see accesses, and they take turns by their number.   *)
(* order gives the permutation for each size.                              *)
(***************************************************************************)
gschedule(n, order) ==
  LET start == [buffer |-> [a \in 0 .. 4 * n - 1 |-> a], pptr |-> 0,
                storage |-> [r \in 0 .. 2 * n - 1 |-> <<>>],
                dummy |-> [k \in 0 .. n - 1 |-> <<>>]]
      plan[t \in n - 1 .. 2 * n] ==
        IF t = n - 1 THEN start
        ELSE
          LET before == plan[t - 1]
              size == PermSize(t)
              base == 2 * t - size
              buffer == Permute(before.buffer, base, size, order[size])
              Place(item) ==
                LET addr == CHOOSE a \in base .. 2 * t - 1 : buffer[a] = item
                IN  Entry(t, addr, before.pptr + addr - base)
              moved == { d \in 0 .. 2 * n - 1 : base <= 2 * d /\ d < t }
              turn(k) == Turn(n, k, size)
          IN  [buffer |-> buffer,
               pptr |-> before.pptr + size,
               storage |-> [r \in DOMAIN before.storage |->
                              before.storage[r] \o IF r \in moved THEN <<Place(2 * r)>> ELSE <<>>],
               dummy |-> [k \in DOMAIN before.dummy |->
                            before.dummy[k] \o IF t < 2 * n /\ turn(k) \in moved
                                               THEN <<Place(2 * turn(k) + 1)>> ELSE <<>>]]
  IN  [storage |-> plan[2 * n].storage, dummy |-> plan[2 * n].dummy]

\* The padding to "size" entries, by repeating the last
Pad(entries, size) ==
  [j \in 1 .. size |-> IF j <= Len(entries) THEN entries[j] ELSE entries[Len(entries)]]

\* A sum of languages: exclusive or, by which a language cancels itself
Plus(x, y) == (x \ y) \cup (y \ x)

(***************************************************************************)
(* EpiGRAMLeaf: the address and the language of a word at time T, from its *)
(* entries: each that has begun replaces the one before it.                *)
(***************************************************************************)
Leaf(entries, T) ==
  LET at[j \in DOMAIN entries] ==
        IF j = 1 THEN [addr |-> entries[1].addr, lang |-> {entries[1].lang}]
        ELSE IF entries[j].t <= T
             THEN [addr |-> entries[j].addr,
                   lang |-> Plus(at[j - 1].lang,
                                 Plus({entries[j - 1].lang}, {entries[j].lang}))]
             ELSE at[j - 1]
  IN  at[Len(entries)]

(***************************************************************************)
(* EpiGRAM::hide: one address per level, addr for a level it is thought to *)
(* be in and the level's dummy for the others.  The bound compared with is *)
(* 2t for every level, so the first level always has addr.                 *)
(***************************************************************************)
hide(dummies, addr, t) ==
  LET occurs_before == addr < 2 * t
      in_range(j) == (j = 1 \/ ~ occurs_before) /\ occurs_before
      skipped == { j \in DOMAIN dummies : ~ in_range(j) }
  IN  [addresses |-> [j \in DOMAIN dummies |->
                        IF in_range(j) THEN addr ELSE dummies[j].addr],
       lang |-> { dummies[j].lang : j \in skipped }]
=============================================================================
