------------------------------ MODULE MC_Blocks -----------------------------
(* TLC instances of Blocks. *)
EXTENDS Blocks

CONSTANT L, M

Ln(op, l) == [op |-> op, label |-> l]
Kinds == {"plain", "access", "set", "HALT"}

SomeLines == [op : Kinds, label : {""}]
               \cup [op : {"J", "JE", "JNE", "JL", "label"}, label : {L}]

\* All the programs of at most four lines (JB is JE by another name)
ShortTexts == UNION { [1 .. n -> SomeLines] : n \in 0 .. 4 }

\* A loop with memory accesses on one side of a branch, and an early exit
LoopText ==
  << Ln("label", L), Ln("access", ""), Ln("set", ""), Ln("JE", M),
     Ln("access", ""), Ln("access", ""), Ln("set", ""), Ln("JL", L),
     Ln("label", M), Ln("plain", ""), Ln("set", ""), Ln("JNE", L) >>

\* Labels defined twice, defined together, never defined, and dead code
OddText ==
  << Ln("set", ""), Ln("JB", M), Ln("label", L), Ln("label", M), Ln("access", ""),
     Ln("J", L), Ln("plain", ""), Ln("label", L), Ln("set", ""), Ln("JNE", M) >>

AllTexts == ShortTexts \cup {LoopText, OddText}
=============================================================================
