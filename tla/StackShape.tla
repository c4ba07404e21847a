----------------------------- MODULE StackShape -----------------------------
(***************************************************************************)
(* The levels of an oblivious stack (epigram/src/simplestack.cc), and when *)
(* a query reaches them.                                                   *)
(***************************************************************************)
EXTENDS Powers, Integers, FiniteSets

\* The least number of levels whose 3 * (2^levels - 1) cells hold `words`.
Levels(words) ==
    CHOOSE l \in 1..words : /\ (words + 2) \div 3 + 1 <= PowerOf2[l]
                            /\ \A k \in 0..(l - 1) : (words + 2) \div 3 + 1 > PowerOf2[k]

\* pop_stack calls itself for the next level when the lowest bit of its timer
\* is set, with the timer shifted: level l is popped when the l lowest bits of
\* the stack's timer are ones.
VisitedAt(time, l) == time % PowerOf2[l] = PowerOf2[l] - 1

\* How many levels the query at `time` pops.  The levels it pops decide what
\* the query costs, and nothing else does.
LevelsPopped(words, time) ==
    Cardinality({l \in 0..(Levels(words) - 1) : VisitedAt(time, l)})
=============================================================================
