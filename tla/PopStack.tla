------------------------------ MODULE PopStack ------------------------------
(***************************************************************************)
(* What a stack that is popped conditionally promises (stack_spec in       *)
(* epigram/src/simplestack.cc): the words 1..n, front first, and of each   *)
(* query the next word when the query holds and nothing when it does not.  *)
(* A cell is the set of words whose XOR it holds: {} is the zero word.     *)
(***************************************************************************)
EXTENDS Integers

CONSTANT MaxWords   \* no stack is built with more words

VARIABLES n,        \* the words the stack was built with
          taken,    \* how many of them were popped
          output    \* the answer to the last query

Init == /\ n \in 1..MaxWords
        /\ taken = 0
        /\ output = {}

Take == /\ taken < n
        /\ taken' = taken + 1
        /\ output' = {taken + 1}
        /\ UNCHANGED n

Pass == output' = {} /\ UNCHANGED <<n, taken>>

Next == Take \/ Pass

Spec == Init /\ [][Next]_<<n, taken, output>>
=============================================================================
