--------------------------------- MODULE Ram --------------------------------
(***************************************************************************)
(* What EpiGRAM promises: an array of words, whose operation returns the   *)
(* word at an index and may replace it.  The struct Spec in epigram.cc,    *)
(* against which its randomised test compares, is this array.              *)
(***************************************************************************)
CONSTANTS Index, Value,
          Zero    \* what a new memory holds

VARIABLES mem,
          out     \* the index and the result of the last access, or None

None == << >>

Init == mem = [i \in Index |-> Zero] /\ out = None

Read(i) == /\ out' = <<i, mem[i]>>
           /\ UNCHANGED mem

Write(i, x) == /\ out' = <<i, mem[i]>>
               /\ mem' = [mem EXCEPT ![i] = x]

Access == \E i \in Index : Read(i) \/ \E x \in Value : Write(i, x)

Spec == Init /\ [][Access]_<<mem, out>>
=============================================================================
