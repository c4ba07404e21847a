----------------------------- MODULE LinearScan -----------------------------
(***************************************************************************)
(* The linear scan (linearscan.cc, linearscan.h): a small memory is read   *)
(* and written in every slot.  The index, as bits from the lowest on, is   *)
(* made one-hot by a table of all products of its bits, of which each can  *)
(* be absent, plain or negated: entry i of the table stands for the        *)
(* product that the digits of i to base 3 name.                            *)
(*                                                                         *)
(* The code keeps the powers of 3 in a table of its own, of which the one  *)
(* of 11 is wrong (177417); that one is for indices of 11 bits and more.   *)
(* 0 to 10 bits are what these definitions stand for: the memory is        *)
(* scanned up to default_scan_preference_point words.                      *)
(***************************************************************************)
EXTENDS Integers, FiniteSets, FiniteSetsExt

Bits(i, n) == [j \in 0 .. n - 1 |-> (i \div 2^j) % 2 = 1]

\* decompose_trits and compose_trits
Trit(i, j) == (i \div 3^j) % 3
Compose(trits) ==
  LET n == Cardinality(DOMAIN trits)
      out[j \in 0 .. n] == IF j = 0 THEN 0 ELSE out[j - 1] + trits[j - 1] * 3^(j - 1)
  IN  out[n]

\* split_mst: the highest power of 3 in i, as often as it is there, and the rest
Top(i, highest) == (i \div 3^highest) * 3^highest
Rest(i, highest) == i % 3^highest

(***************************************************************************)
(* expansions: an entry follows from earlier ones.  A negation is linear,  *)
(* ~a * b = b + a * b; only a product of plain bits takes an AND.          *)
(***************************************************************************)
expansions(inp) ==
  LET n == Cardinality(DOMAIN inp)
      out[i \in 0 .. 3^n - 1] ==
        LET present == { j \in DOMAIN inp : Trit(i, j) # 0 }
            negated == { j \in DOMAIN inp : Trit(i, j) = 2 }
            highest == Max(present)
            tt == 3^Max(negated)
        IN  IF present = {} THEN TRUE
            ELSE IF negated # {} THEN out[i - tt] # out[i - 2 * tt]
            ELSE IF Cardinality(present) = 1 THEN inp[highest]
            ELSE out[Top(i, highest)] /\ out[Rest(i, highest)]
  IN  out

\* Mutant: a bit that is not set is taken as absent, instead of negated
Trits_absent(bits) == [j \in DOMAIN bits |-> IF bits[j] THEN 1 ELSE 0]

\* A bit that is set is to be plain in the product, and the others negated
Trits(bits) == [j \in DOMAIN bits |-> IF bits[j] THEN 1 ELSE 2]

one_hot(inp) ==
  LET n == Cardinality(DOMAIN inp)
      exps == expansions(inp)
  IN  [i \in 0 .. 2^n - 1 |-> exps[Compose(Trits(Bits(i, n)))]]

(***************************************************************************)
(* read_selection: the sum of the selected words, here the set of those    *)
(* that do not cancel.  It is a word if exactly one is selected.           *)
(***************************************************************************)
read_selection(selection, buff) ==
  LET times(x) == Cardinality({ i \in DOMAIN buff : selection[i] /\ buff[i] = x })
  IN  { x \in { buff[i] : i \in DOMAIN buff } : times(x) % 2 = 1 }

\* write_selection: each selected slot is swapped with temp, in order
write_selection(x, selection, buff) ==
  LET swapped[i \in 0 .. Cardinality(DOMAIN buff)] ==
        IF i = 0 THEN [temp |-> x, buff |-> buff]
        ELSE LET before == swapped[i - 1]
             IN  IF selection[i - 1]
                 THEN [temp |-> before.buff[i - 1],
                       buff |-> [before.buff EXCEPT ![i - 1] = before.temp]]
                 ELSE before
  IN  swapped[Cardinality(DOMAIN buff)]

read_scan(index, buff) == read_selection(one_hot(index), buff)
write_scan(x, index, buff) == write_selection(x, one_hot(index), buff)
=============================================================================
