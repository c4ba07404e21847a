----------------------------- MODULE Permutation -----------------------------
(***************************************************************************)
(* gpermute (epigram/src/permute.cc): Alice routes a permutation of her    *)
(* choice through a network of conditional swaps that both parties walk    *)
(* alike.  A network for n inputs is a layer of swaps between congruent    *)
(* inputs (x and x + n/2), two networks for the halves, and a layer of     *)
(* swaps between congruent outputs.  To program the first layer Alice      *)
(* follows the permutation from input to output to the congruent output    *)
(* to its input and so on until she is back, sending the ends of each step *)
(* into different halves.                                                  *)
(*                                                                         *)
(* All calls share four arrays.  `visited` is never cleared: a call reads  *)
(* it the other way round than its caller.  `buffer` holds the programming *)
(* of the final layer of a call, behind what its nested calls write.       *)
(***************************************************************************)
EXTENDS Integers, Sequences

CONSTANTS MaxLogn,   \* bound: no permutation of more than 2^MaxLogn words
          MaxDraws   \* bound: random_permutation draws for so many places; the
                     \* others draw themselves

ASSUME BoundAssumption == MaxLogn \in Nat /\ MaxDraws \in Nat

VARIABLES
    logn, pi,               \* the permutation that is applied
    drawn,                  \* the places random_permutation has drawn for
    src_to_tgt, tgt_to_src, visited, buffer,
    xs,                     \* the words: where each word was at the beginning
    calls                   \* the calls of permute that have not returned

arrays == <<src_to_tgt, tgt_to_src, visited, buffer>>
vars == <<logn, pi, drawn, arrays, xs, calls>>

n == 2^logn

Swap(array, i, j) == [array EXCEPT ![i] = array[j], ![j] = array[i]]
-----------------------------------------------------------------------------
(* A call: the size and place of its part of the arrays, how it marks what *)
(* it visited, what it does next, and where it is in the permutation.      *)

Frame(size, base, vbase, visit_start) ==
    [logn |-> size, base |-> base, vbase |-> vbase, visit_start |-> visit_start,
     pc |-> "enter", start |-> 0, src |-> 0, s |-> FALSE]

Call == Head(calls)

N2(f) == 2^(f.logn - 1)
N4(f) == 2^(f.logn - 2)

modn2(x) == IF x >= N2(Call) THEN x - N2(Call) ELSE x
cong(x) == IF x >= N2(Call) THEN x - N2(Call) ELSE x + N2(Call)

Goto(pc) == calls' = <<[Call EXCEPT !.pc = pc]>> \o Tail(calls)

\* follow(start) begins
Follow(start) ==
    calls' = <<[Call EXCEPT !.pc = "follow", !.start = start, !.src = start, !.s = FALSE]>>
             \o Tail(calls)

\* Mutant: the programming of the final layer is put where nested calls write.
FinalSlotInFront(f, j) == j

FinalSlot(f, j) == N2(f) + j
-----------------------------------------------------------------------------
(* random_permutation, then gpermute *)

Init ==
    /\ logn \in 0..MaxLogn
    /\ pi = [i \in 0..(n - 1) |-> i]
    /\ drawn = 0
    /\ src_to_tgt = <<>> /\ tgt_to_src = <<>> /\ visited = <<>> /\ buffer = <<>>
    /\ xs = pi
    /\ calls = <<>>

Drawing == src_to_tgt = <<>>

Draw ==
    /\ Drawing
    /\ drawn < n /\ drawn < MaxDraws
    /\ \E j \in 0..(n - 1) : pi' = Swap(pi, drawn, j)
    /\ drawn' = drawn + 1
    /\ UNCHANGED <<logn, arrays, xs, calls>>

Inverse(f) == [t \in DOMAIN f |-> CHOOSE x \in DOMAIN f : f[x] = t]

\* Mutant: the permutation is taken for its inverse.
Confused == pi

Targets == Inverse(pi)

gpermute ==
    /\ Drawing
    /\ drawn = n \/ drawn = MaxDraws
    /\ tgt_to_src' = pi
    /\ src_to_tgt' = Targets
    /\ visited' = [i \in 0..(n \div 2 - 1) |-> FALSE]
    /\ buffer' = [i \in 0..(n - 1) |-> FALSE]
    /\ calls' = <<Frame(logn, 0, 0, FALSE)>>
    /\ UNCHANGED <<logn, pi, drawn, xs>>
-----------------------------------------------------------------------------
(* permute *)

At(pc) == calls # <<>> /\ Call.pc = pc

\* One word: nothing to do.  Two words: one swap
SwapTwo ==
    /\ At("enter") /\ Call.logn <= 1
    /\ LET b == Call.logn = 1 /\ src_to_tgt[Call.base] # 0
       IN  xs' = IF b THEN Swap(xs, Call.base, Call.base + 1) ELSE xs
    /\ calls' = Tail(calls)
    /\ UNCHANGED <<logn, pi, drawn, arrays>>

\* The sources of the targets; then the permutation is followed from 0
Invert ==
    /\ At("enter") /\ Call.logn > 1
    /\ LET base == Call.base
           size == 2^Call.logn
           source(t) == CHOOSE x \in 0..(size - 1) : src_to_tgt[base + x] = t
       IN  tgt_to_src' = [i \in DOMAIN tgt_to_src |->
               IF i \in base..(base + size - 1) THEN source(i - base) ELSE tgt_to_src[i]]
    /\ Follow(0)
    /\ UNCHANGED <<logn, pi, drawn, src_to_tgt, visited, buffer, xs>>

\* Mutant: follow waits for the very place it began at.
BackAtPlace(next, start) == modn2(next) = start

\* The way follow takes is closed
Back(next, start) == modn2(next) = modn2(start)

\* The source of the congruent target is sent to the other half
ProgramBit(s, src, csrc) == (s # (src >= N2(Call))) = (csrc >= N2(Call))

\* The places not visited yet, after follow was begun at `start`
Unvisited(start, marks) ==
    {c \in (start + 1)..(N2(Call) - 1) : marks[Call.vbase + c] = Call.visit_start}

\* One iteration of follow: back at the start, the same is done from the
\* congruent place, then from the next one not visited
FollowStep ==
    /\ At("follow")
    /\ LET src == Call.src
           srcmod == modn2(src)
           csrc == tgt_to_src[Call.base + cong(src_to_tgt[Call.base + src])]
           next == cong(csrc)
           marks == [visited EXCEPT ![Call.vbase + srcmod] = ~Call.visit_start]
           left == Unvisited(modn2(Call.start), marks)
       IN  /\ visited' = marks
           /\ buffer' = IF srcmod = 0 THEN buffer
                        ELSE [buffer EXCEPT ![srcmod - 1] = Call.s]
           /\ CASE ~Back(next, Call.start) ->
                     calls' = <<[Call EXCEPT !.src = next,
                                             !.s = ProgramBit(Call.s, src, csrc)]>>
                              \o Tail(calls)
                [] Back(next, Call.start) /\ Call.start < N2(Call) -> Follow(Call.start + N2(Call))
                [] OTHER -> IF left = {} THEN Goto("first")
                            ELSE Follow(CHOOSE c \in left : \A d \in left : c <= d)
    /\ UNCHANGED <<logn, pi, drawn, src_to_tgt, tgt_to_src, xs>>

\* Some of the pairs of congruent places are exchanged
SwapPairs(array, f, exchanged) ==
    [i \in DOMAIN array |->
        LET x == i - f.base
        IN  CASE x \in exchanged -> array[i + N2(f)]
              [] x - N2(f) \in exchanged -> array[i - N2(f)]
              [] OTHER -> array[i]]

FirstLayer ==
    /\ At("first")
    /\ LET exchanged == {i \in 1..(N2(Call) - 1) : buffer[i - 1]}
       IN  /\ src_to_tgt' = SwapPairs(src_to_tgt, Call, exchanged)
           /\ xs' = SwapPairs(xs, Call, exchanged)
    /\ Goto("program")
    /\ UNCHANGED <<logn, pi, drawn, tgt_to_src, visited, buffer>>

\* The upper target of two congruent ones may be in the lower half: then the
\* final layer swaps.  Both halves are permutations of their own from here on.
ProgramFinal ==
    /\ At("program")
    /\ LET tgt(i) == src_to_tgt[Call.base + i]
           writer(slot) == {i \in 0..(N2(Call) - 1) : FinalSlot(Call, modn2(tgt(i))) = slot}
       IN  /\ buffer' = [slot \in DOMAIN buffer |->
                 IF writer(slot) = {} THEN buffer[slot]
                 ELSE \E i \in writer(slot) : tgt(i) >= N2(Call)]
           /\ src_to_tgt' = [i \in DOMAIN src_to_tgt |->
                 IF i \in Call.base..(Call.base + 2 * N2(Call) - 1)
                 THEN modn2(src_to_tgt[i]) ELSE src_to_tgt[i]]
    /\ Goto("left")
    /\ UNCHANGED <<logn, pi, drawn, tgt_to_src, visited, xs>>

\* Mutant: the nested calls mark what they visited as their caller did.
NestedSame(vs) == vs

NestedVisit(vs) == ~vs

Nest(frame, pc) ==
    calls' = <<frame, [Call EXCEPT !.pc = pc]>> \o Tail(calls)

PermuteLeft ==
    /\ At("left")
    /\ Nest(Frame(Call.logn - 1, Call.base, Call.vbase,
                  NestedVisit(Call.visit_start)), "right")
    /\ UNCHANGED <<logn, pi, drawn, arrays, xs>>

PermuteRight ==
    /\ At("right")
    /\ Nest(Frame(Call.logn - 1, Call.base + N2(Call), Call.vbase + N4(Call),
                  NestedVisit(Call.visit_start)), "final")
    /\ UNCHANGED <<logn, pi, drawn, arrays, xs>>

FinalLayer ==
    /\ At("final")
    /\ xs' = SwapPairs(xs, Call, {i \in 0..(N2(Call) - 1) : buffer[FinalSlot(Call, i)]})
    /\ calls' = Tail(calls)
    /\ UNCHANGED <<logn, pi, drawn, arrays>>

permute == \/ SwapTwo \/ Invert \/ FollowStep \/ FirstLayer
           \/ ProgramFinal \/ PermuteLeft \/ PermuteRight \/ FinalLayer

Next == Draw \/ gpermute \/ permute

\* One thread runs the calls to their end.
Spec == Init /\ [][Next]_vars /\ WF_vars(Next)
-----------------------------------------------------------------------------
(* Properties *)

\* When all calls have returned, slot i holds the word that was at pi[i]
\* (the spec of the test "gpermute correct", for every permutation)
Permuted == ~Drawing /\ calls = <<>> => xs = pi

\* A call finds nothing visited, though nobody cleared what other calls marked
\* (the template parameter visit_start and the part of `visited` that is passed)
NothingVisited ==
    At("enter") /\ Call.logn > 0 =>
        \A c \in 0..(N2(Call) - 1) : visited[Call.vbase + c] = Call.visit_start

\* While nested calls run, the programming of the final layers of the calls
\* around them stays as it is ("such that it is not overwritten by recursive
\* calls")
ProgrammingKept ==
    [][\A k \in 2..Len(calls), j \in DOMAIN buffer :
          j < N2(calls[k]) =>
              buffer'[FinalSlot(calls[k], j)] = buffer[FinalSlot(calls[k], j)]]_vars

\* Whatever the permutation, following it comes back to where it began, and
\* the calls return (the do loop of follow has no other way out)
Returns == <>(~Drawing /\ calls = <<>>)
=============================================================================
