---------------------------- MODULE MC_HalfGates ----------------------------
(* TLC instances of HalfGates: two-bit labels, two PRF keys. *)
EXTENDS HalfGatesInvariant

CONSTANTS k1, k2

\* k1: a permutation; k2: a function that collides
MCPrf == [k \in Keys |->
            [x \in Label |->
               IF k = k1
               THEN CASE x = {} -> {0, 1} [] x = {0} -> {1} [] x = {1} -> {} [] x = {0, 1} -> {0}
               ELSE IF x \in {{}, {1}} THEN {0} ELSE {1}]]

\* Three wires revealed of the circuits of at most two operations
MCMaxOut == [k \in 0 .. MaxOps |-> IF k <= 2 THEN 3 ELSE 0]

\* One label of each colour
MCDraws == {{1}, {0}}
=============================================================================
