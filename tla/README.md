# TLA+ verification of Garbled Assembly with RAM

The program (CCS 2023, "VISAs") runs an assembly program as a two-party
computation.  Alice, the garbler, encrypts the run; Bob, the evaluator, executes
it on labels he cannot read; the result is revealed to him.  Neither learns
which instructions ran: in every step *all* basic blocks that may run are
executed, the garblings of the alternatives stacked on one another, and memory
is a garbled RAM (EpiGRAM).

This directory holds the TLA+ modules, the TLC configurations that check them on
small instances, and proofs for TLAPS.  `PROJECT.json` is the index: which
definition stands for which lines, which run checks what, and for each property
a mutation of the code that breaks it.

    tlc -config HalfGates.cfg MC_HalfGates     # likewise the other runs
    tlapm Garbling_proofs.tla                  # likewise Induction and the other *_proofs

## 1. Inventory

| part | source | state | operations | module |
|---|---|---|---|---|
| garbled bits | `Bit.cpp`, `Const.cpp` | offset, PRF key, `material_buffer`, `material_id`, input and output buffers with their indices | inputs, constants, AND, XOR, NOT, comparison, `Reveal` of both roles | `Labels`, `Ideal`, `HalfGates` |
| hand-over | `Const.cpp` 120-345 | two processes, one main channel, 32 data ports | `setup_garbler`, `initiate_2pc_evaluation`, `setup_evaluator` | `HandOver` over `Transfer`; one step of `HalfGates` |
| vector transfer | `Const.h` 120-186 | threads, listening sockets, connections | `transferLargeVector`, `connectionThread` | `Transfer` |
| parser, control flow | `AsParse.cpp` | `as_program`, two label maps, `CFG`, `BBPath` | `OpenAs`, `GenerateCFG`, `GenerateBBPath` | `Assembly`, `ControlFlow` |
| oblivious execution | `SGCUtils.cpp`, `Main.cpp` | `reg`, `PC`, memory budget | `GbExecuteSingleBB`, `EvExecuteSingleBB`, `PrepareAccess` | `Blocks` |
| words, instructions | `Bit32.cpp`, `SGCUtils.cpp` 1-370, `SGCUtils.h` | register file, material of a fragment | the 21 opcodes, `GetMaxLength` | `Words`, `Isa`, `Fragments` |
| stacked garbling | `SGCUtils.cpp` 15-370, 1336-3283, `SGCUtils.h` | seed tree, stacked material, junk, sessions | seed tree, split and join multiplexers, `GbJoinRegistry`, `EVSession`, the accesses of a step | `Gadgets`, `BranchTree`, `Session`, `Stacking`, `Machine` |
| EpiGRAM | `epigram/src/epigram.cc` | storage, schedules, lazy permutation, index map | `access`, `flush`, `refresh`, `shuffle`, `hide`, `gschedule` | `Ram`, `Schedule`, `EpiGram` |
| oblivious stack | `epigram/src/simplestack.cc` | levels, vacancy bits, timer | constructor, `pop` | `StackShape`, `PopStack`, `SimpleStack` |
| lazy permutation | `epigram/src/lazypermutation.hh` | a tree of stacks, a position per node | set-up of both parties, dry run, access | `LazyPermutation` |
| permutation network | `epigram/src/permute.cc` | arrays shared by nested calls | `random_permutation`, `gpermute`, `permute` | `Permutation` |
| linear scan | `epigram/src/linearscan.cc`, `linearscan.h` | none of its own | a one-hot decoder, `read_scan`, `write_scan` | `LinearScan` |
| cost counting | `epigram/src/resource.cc`, `Mode::S` | counters | dry run against garbling | none |
| NetIO, IKNP | `emp-tool`, `emp-ot` | stream buffer, `has_sent` | third party: send, receive, flush; the messages of the oblivious transfer | `Transfer`, `HandOver` |
| `zkassembler`, EpiGRAM's own CPU and stacks, baselines, analysis | | | not part of the program | none |

How they interact.  `Main.cpp` parses the program with `OpenAs`, cuts it with
`GenerateCFG`, computes the active blocks of every step with `GenerateBBPath`.
Alice then chooses her offset, builds the memory for as many accesses as the path
needs, executes every step (`GbExecuteSingleBB`), reveals GR0, GR1, GR2, GR4 and
PC, and hands over: sizes, EpiGRAM's material (several vectors), the program's
material, her input labels, Bob's by oblivious transfer, the output decoding
table.  Bob then executes the same steps.  The only link between the two
executions is position: the n-th row Bob reads must be the n-th Alice wrote.

### What is hard here

* **Position.** Buffers are consumed by counter, nowhere by name.  One early
  return of `operator&` that one party takes and the other does not shifts all
  that follows (`CountersAligned`, `LabelsEncode`).  The rows a fragment takes are
  known twice, from the circuits and from a table kept by hand (`LengthExact`).
* **Two kinds of jump target.** Jumps write *addresses* into PC; the path is
  computed over *block numbers* from another pass and another map
  (`PassesAgree`).  If PC meets the start of no block or of two, the point
  function of the step is not one (`OnePoint`, `StartsIncrease`).
* **Interleaving.** Alice's and Bob's transfers reuse their ports at once, with
  nothing between some of them.  Where a connection had nothing to carry, Bob may
  be at the next vector while Alice still listens for the last (`PortsApart`,
  `ImplementsTransfer`, `VectorIntact`, `TransfersComplete`).
* **Conversation.** The two sequences of calls on the main channel are kept together
  by nothing but their order; what is sent stays in a buffer until something flushes
  it, and the decoding table until Alice's process ends (`FieldsArrive`,
  `OneDirection`, `CompletesUnlessReset`).
* **Junk.** Bob evaluates every block of a step, all but one on rows, seeds and
  labels that are not its own.  Alice must foresee each label he gets there, for
  every node of the tree at which he may go wrong, in sessions that stop at each
  access of the memory and go on afterwards (`JunkForeseen`, `LabelsEncode`).
* **Nonces.** Alice garbles each fragment twice and writes split, fragments and join
  in one order; Bob hashes in another.  Both must go on at the same nonce and row,
  for any number of blocks (`CountersMeet`).
* **Boundaries.** Uneven chunks, empty vectors, entries of the decoding table,
  sign and borrow, constants inside circuits.
* **Two orders.** In the lazy permutation Alice writes node after node and Bob
  reads access after access, at positions that a dry run predicted (`Aligned`,
  `BothGoOn`).
* **Shared arrays.** The calls of `permute` never clear what they share
  (`NothingVisited`, `ProgrammingKept`); a refill of the oblivious stack adds
  words by exclusive or to slots that must be empty (`WordsInOrder`).
* **Budget.** The memory holds for exactly the accesses counted beforehand
  (`BudgetExact`).

Crashes are not handled by the code: a lost peer is waited for, and nothing is
persisted.  The full list of hazards, each with its line and the properties
that cover it, is in `PROJECT.json`.

### What makes each part correct

| part | properties |
|---|---|
| garbled bits | Bob's label encodes the cleartext value on every wire; both agree what is constant; counters aligned; decoded results right and in order; Bob finishes |
| transfer | chunks cover the vector; a thread talks to one of its own transfer, unless nothing keeps it from the one before; vectors arrive whole |
| hand-over | what arrives as a field is what was sent as it; nobody writes over what he has not read; both sides finish unless a connection is reset; the message of bits separates the transfers around it |
| control flow | addresses and block numbers agree; starts strictly increase; successors exist |
| execution | one block selected; the run is a run of the program; the budget is exact |
| instructions | arithmetic modulo 2^SIZE as the instruction set says; no constant left in a register; rows as counted |
| EpiGRAM | it is an array, across flushes and recursion; no leaf is used twice; the plan fits its tables; the index maps wear out in step |
| oblivious stack | it is a stack, under any sequence of conditions; the vacancy counters are right |
| lazy permutation | Bob reads what was written for the use he makes of it; both go on at the same place; each index finds its leaf |
| permutation network | it routes the permutation; nested calls are given permutations and do not disturb one another; following ends |
| stacked garbling | Bob's labels encode the machine's registers after every step; junk is what Alice foresaw; nonces and rows meet; the two parties together are the plain machine |

## 2. Plan

Written, in this order: `Labels`, `Ideal`, `HalfGates` → `Transfer` →
`Assembly`, `ControlFlow`, `Blocks` → `Words`, `Isa`, `Fragments` →
`Powers`, `Ram`, `Schedule`, `LinearScan`, `EpiGram` →
`StackShape`, `PopStack`, `SimpleStack`, `LazyPermutation`, `Permutation` → `HalfGatesInvariant` →
`Gadgets`, `BranchTree`, `Session`, `Machine`, `Stacking` → `HandOver` →
`Garbling_proofs` (of `HalfGates` and `Gadgets`), `HandOver_proofs` (which proves `Transfer`
too), `Blocks_proofs` (and `ControlFlow`) → `Induction`, `Fragments_proofs`,
`EpiGram_proofs`, `SimpleStack_proofs`, `LazyPermutation_proofs`.

What composes what: `HandOver` extends `Transfer` with the channel around it, and
shows that the channel gives `Transfer` the separation it needs.  `Stacking` puts
the gadgets and sessions together into the step `Blocks` takes as one choice, and
refines `Machine`.  `EpiGram` stands on what `LazyPermutation` and `Permutation` check,
and `LazyPermutation` on `PopStack`, which `SimpleStack` refines; `Stacking` takes the
memory as `EpiGram` shows it to be.

Left to prove, the most important first: `LookedUpOnce` of `EpiGram`, which needs the
orders of its index maps to be followed through every flush and refresh; `Permuted`.

## 3. The modules

### Labels, Ideal, HalfGates

A label is a set of bit positions; exclusive or is symmetric difference; AES is
an arbitrary function `Prf` per key.  `HalfGates` is `Bit<Garbler>` and
`Bit<Evaluator>`: Alice garbles an arbitrary circuit operation by operation
(actions `Gb*`), reveals wires (`GbReveal`), hands over (`Transfer`), and Bob runs
the same operations (`Ev*`).  Variables have the names of the globals
(`material_buffer`, `garbler_input_idx`, ...); `gb[i]`, `ev[i]` are the two parties'
`Bit` of wire i; `clear` (cleartext values) and `counters` (Alice's positions after
each operation) are history.  `Ideal` is the abstract promise: a circuit, its values, and the
list of results, nothing else.  Two operations whose operand may be a constant or
not branch as the code's early returns do.  `Reveal` and the comparison
with a bit are only applied to bits that are not constants; `Fragments` shows that
registers, to which the program applies them, never hold one (`NoConstants`).
`HalfGatesInvariant` adds the inductive invariant the proofs use, and nothing to
the model.

### Transfer

Both sides run the same list of transfers.  Per side: the loop of
`transferLargeVector` (`Spawn`, `Join`) with its `start_idx`, `offset` and clamp;
per port, the sender's thread (`Listen`, `Accept`, `CloseListener`, `Send`) and the
receiver's (`Connect`, `Receive`, `Spin`).  A listening socket queues connections
before they are accepted and resets those left when it is closed; the reader of a
reset connection loops for ever, as `recv_data_internal` does.  `Synced` lists the
transfers before which Bob waits for a message on the main channel.  A connection is
`Exposed` if it belongs to a transfer without such a message and its port carried nothing of the
vector before (`Empty`): there, and only there, Bob may connect while Alice still listens for
that vector.  `OwnTransfer` says that nothing else is ever queued, accepted or reset elsewhere.

### HandOver

Each side is a list of calls (`Garbler`, `Evaluator`, with the oblivious transfer's
own messages in `OtSender`, `OtReceiver`) and a position in it.  A stream is what its
owner has buffered (`buffer`) and what he has flushed and the other has not read
(`wire`); `SendData` may pass on any part of what is buffered, as `fwrite` does when
the buffer is full; `FlushBeforeRecv` is the flush that `has_sent` asks for.  A
message is its field and the number of a unit in it; how many units Bob waits for
is what *he* was told in `helper_variables`.  `transferLargeVector` is `Transfer`
itself.  `Apart` is `Transfer` with a message before the third transfer, and
`ImplementsTransfer` says that the conversation is such a `Transfer` whenever there is
a bit in that message, and otherwise one without it.  `PortsApart` says accordingly
which connections are disturbed.

The four vectors are gmat, gwmat, gbytes and material_buffer.  Two things about them are
always so in the program.  gbytes is empty: only `dec` of a `Byte` (`epigram/src/byte.cc:57-61`)
counts or sends bytes, and only tests decode a `Byte`.  And the message of bits between the
second and the third is empty where the memory is a linear scan, which decodes nothing: with at
most 128 words, as also in a program that never accesses it.

### Assembly, ControlFlow, Blocks

`Assembly` is the abstract program: lines and one address.  `ControlFlow` is
`GenerateCFG` (one action per kind of line and per pass) and `GenerateBBPath`.
`Blocks` extends it with the execution: `Enter` selects the active block whose start
is PC (a single one runs unchecked), `Exec` executes its instructions on PC, SP0,
SP1 and the flag bits, `Leave` ends the step.  What data instructions compute is
left open (`flag'` is any value after "set"); what they compute is `Fragments`.

### Words, Isa, Fragments

A bit is its truth value and its `isConstant` flag, because the circuits branch on
the flag; that labels carry the value is `HalfGates`.  `Words` holds the circuits of
`Bit32` with their row counts.  `Fragments` has one action per instruction over a
register file, on both paths, and counts rows next to `GetMaxLength`.  `Isa` is the
abstract instruction set over numbers.

### Gadgets, BranchTree, Session, Machine, Stacking

`Gadgets` holds each multiplexer gadget as Alice's and Bob's half: seeds, the
difference of offsets, conditional addition, splitting and joining a wire, AND over
an offset of its own.  `BranchTree` builds from them the trees over the active
blocks (`GbSeedTree`, `GbSplitMux`, `GbJoinMux` and their counterparts), filled up to
a power of two.  `Session` is a fragment over labels: `GbFragment` garbles it from a
seed, `EVSession` evaluates it and stops at every LOAD and STORE; `Step` runs up to the
next access, `Idle` is what a finished session presents, `JunkSessions` are the runs
with a wrong seed that Alice goes through to foresee Bob's labels.  `Stacking` is
`GbExecuteSingleBB` and `EvExecuteSingleBB` in stages (`GbSplit`, `GbStack`, `GbAccess`
per access, `GbJoin`; `Ev*` likewise), with the path of a single block (`GbSingle`,
`EvSingle`), over a program, its path and a memory.  Alice runs all steps, hands the
material over (`HandOver`), and Bob runs them.  `record` is history: what Alice had
after each stage.  `Machine` is the promise: registers and memory in cleartext, one block a step,
the one whose start is PC; Bob's labels decode to it (`ImplementsMachine`).
The instructions are AND0, CCOPY, XOR, IMM, COPY, LOAD, STORE and NOOP: with rows and
without, with an access and without.  `gbmaterials` of the others differ in length
only, which `LengthExact` is about.

### Ram, Schedule, LinearScan, EpiGram

`Ram` is an array with one access at a time.  `Schedule` holds what Alice plans
before any access: `gschedule` follows the slots through the permutations and writes
down, for each one-time index, when it moves where and in which language, and for
each access its dummies; `Leaf` reads these entries at a time, `hide` turns the
address into one per level.  `EpiGram` is the memory with its index maps as levels 0
to `Scan`: an access goes down (`Descend`: permute, then call the index map;
`HalfWriteScan` at the end of the recursion) and comes up again (`Ascend`: look up,
read, write back), and a level that has served its n accesses is emptied first
(`Flush`, `Collect` per level, `Refresh`).  A slot holds its word and the language it
was last garbled in; a word is read right only if the languages added up cancel.
`ram[k]` has the names of the members of `EpiGRAM`; `contents` (what reading each word
would give after the last access) and `looked` are history.  The permutations are
drawn from named ones (`Orders`).  The lazy permutation and the permutation network
are taken as the functions they compute, which the next modules check.

`LinearScan` has the calculation the recursion ends in: the table of all products of
the bits of an index, entry by entry from earlier ones, the one-hot index picked from
it, and the selections that read and write every slot.  `HalfWriteScan` uses it for
the last index map, and `AccessScan` for a memory that is small enough to be scanned
itself (`Scan` = 0), which is what a program with at most 128 words of memory gets.
It has no property of its own: a selection that is not one-hot sums up two words or
none, and `ImplementsRam` fails (one of its two mutants is in `LinearScan`).

### StackShape, PopStack, SimpleStack

`PopStack` is the test's `stack_spec`.  `SimpleStack` is the code: levels of three
slots, each level's twice as wide as those of the one above, and four vacancy bits per
level.  A query is one action `Pop(p)`.  The recursion of `pop_stack` is unrolled over
the levels: `Condition` goes down (each level's condition depends on the counter above
it), `BackFill` comes up.  A cell is the set of words whose exclusive or it holds, so
that adding to a slot that is not empty shows.  `taken` is history.

### LazyPermutation

Alice's set-up (`SetupG`, one step per node), Bob's (`SetupE`) and his dry run
(`Speculate`) interleave freely, each a list of calls to come.  Afterwards both
count accesses (`AccessG`, `Begin`), and Bob goes down the tree (`Descend`, `Leaf`).
Nodes carry where their stacks and position are in the arrays, computed as the spans
of the code are.  `gcode` records for each position what it was written for, and
`read` what it is used for.  The parts of a `Cost` grow together, so a position is
one number; what a use costs depends on the stack's timer, as in the code.

### Permutation

`Draw` is `random_permutation`, then one action per loop of `permute`, and one per
iteration of `follow`; `calls` is the stack of its calls, as the arrays they share
are what could go wrong.  Bob makes the same swaps without knowing which are real;
that a swap is garbled right is `HalfGates`' subject.

## 4. Runs

| run | shows | instance, and why it is enough |
|---|---|---|
| `halfgates` | labels encode, counters aligned, results right and in order, Bob finishes; the inductive invariant holds | all circuits of 3 operations, so that an AND feeds an AND, constants meet wires on either side, and inputs of both parties interleave; of circuits of up to 2 operations 3 outputs over entries of 2, so that a second entry is begun; 2-bit labels: one colour bit and one other; two PRFs, one with collisions |
| `handover` | every field and vector arrives whole, over reused ports; only exposed connections are disturbed; both sides finish unless one is reset; it implements `Transfer` | 3 connections; sizes 5 (last chunk short), 4 (last chunk empty), 0 (gbytes, as always in the program) and 4, so that the fourth vector is exposed on every port, the third on one if there are no bits, the second on none; 2 bits, one input of Alice's, two of Bob's, one output; 1 bit, no input at all, two outputs; and no bits, one input.  Anything from nothing to all of a message may stay in the buffer |
| `transfer_short` (violation) | after an empty vector Bob can hang | gbytes, which is empty, and a vector of 2 elements in place of material_buffer, over 2 connections |
| `transfer_assert` (violation) | the assertion of `Const.h:181` fails | size 3 over 3 connections |
| `blocks` | passes agree, one point, exact budget, successors exist, refinement | every program of up to 4 lines over one label (labels repeated, adjacent, unused, undefined, empty blocks, jumps to themselves); a loop with two exits (12 lines) and a program with doubled and undefined labels and dead code; 5 steps |
| `fragments` | instructions, constants, rows | every content of 3 registers of 3 bits, every operand choice, immediates 0, 3, 4, 9.  One instruction: the initial states are *all* register files without constants, and `NoConstants` says such a file results, so one step is the inductive step of any length |
| `fragments_mul` (violation) | MUL on the plain path, which no parsed program takes | 2 registers |
| `stacking` | labels encode the machine's registers; junk foreseen; nonces and rows meet; the machine is implemented | 8 blocks, steps with 1, 2, 4 and 5 active ones (no tree, full trees of one and two levels, a tree filled up); blocks of 0 to 3 accesses within one step, so that sessions end at different accesses; words of 3 bits, 3 registers, labels of 4 bits, 2 cells of memory with 4 contents, 2 offsets; a PRF and a generator that do not respect exclusive or |
| `epigram` | EpiGRAM is an array, whatever the permutations; the plan fits; the scan selects one word | 8 words: as a linear scan (indices of three bits, every sequence of 3 accesses); over a scan of 8 masked indices; over an index map of 4 over a scan of 4.  2 permutations for storage and 2 for masks at either level, drawn anew at each refresh.  Every sequence of accesses up to 2 (with all permutations) or 3 (with one); 5 accesses to two words with all permutations, so that the index map is flushed; 9 to one word, so that both levels are. `contents` looks at all words after each access |
| `stack` | the oblivious stack is a stack | every size up to 24 (one to four levels, full and ragged), every sequence of conditions, up to two queries per word as the tree makes |
| `lazy_permutation` | Bob's order against Alice's | 8 leaves: three levels, stacks of one and of two levels so that costs differ by use; every order of look-ups |
| `permutation` | the network routes, its calls do not interfere, it ends | 1, 2, 4, 8 and 16 words, so that calls are nested three deep and marks are read the old way round again; draws for 3 places: all permutations of 4, 2 and 1, and hundreds and thousands of 8 and 16 |

Words of 3 bits have two ordinary positions and a sign, so that a carry passes
through a position; `SIZE` is 32 in the code.  `NumConnections` is 32 and `Slots` 64.
Deadlock is checked except in `Fragments`, `SimpleStack`, `LazyPermutation` and
`Permutation`, which end (with a bound, or when all is looked up or routed); the other
specifications have an explicit `Terminated` step.

**Fairness.** `HalfGates`: weak fairness of Bob's steps, as his loop waits for
nothing once he has the data.  `Transfer` and `HandOver`: weak fairness of each side's main thread
and of each worker thread; these are operating-system threads, and `connect` is
retried in a loop.  `Permutation`: weak fairness of its one thread, in which nothing
waits.  No fairness is assumed of anything else.

## 5. Findings

* `Const.h:181`: the assertion that only the last chunk is cut is false for many
  sizes (`transfer_assert`).  The build defines `NDEBUG` only by a misspelt flag.
* `Const.h:149`: where a connection has nothing of a vector to carry, Bob's thread may be
  done with it before Alice's has closed its listening socket, and his connection for the next
  vector is queued there and reset; he then waits for ever (`transfer_short`).  The program has
  such a pair in every run: gbytes is always empty and material_buffer follows it with no message
  between them.  Two more arise by the sizes: gwmat after gmat, if gmat leaves a
  connection empty, and gbytes after gwmat, if gwmat does and there are no bits to send: Bob
  loses nothing with that connection, but Alice's thread of gbytes then accepts the one he makes
  for material_buffer.
* `SGCUtils.cpp:204` and `296`: MUL squares `src2` when a block runs without
  stacking (`fragments_mul`).  No mnemonic the parser knows (`AsParse.cpp:135-281`) is translated
  to MUL, so no program read from a file gets there.

## 6. Proofs

`Garbling_proofs` begins with **HalfGateCorrect**.  For every label width, PRF and nonce,
if Bob's labels encode a and b, what he computes from the rows is Alice's label for
a ∧ b.  The argument compares memberships position by position, over the four
values of (colour, value); it is what the AND case of `LabelsEncode` rests on.

Of the gadgets it proves, for every label width, PRF, label and choice of offsets with
bit 0 set, **TransDeltaCorrect**, **SplitWireCorrect**, **JoinNodeCorrect**, **AndCorrect**,
**SeedCorrect**.  Together they say what one node of the tree promises: the child
the condition names is given labels of the right values under its own offset and the
good seed, the other one is given junk and a bad seed that depend on the condition
alone, and the join takes just that junk off again.  The argument is again position by
position; `TranslateWire` (a label of either value moved to another offset) and
`HashWire` (Bob hashes one of the two labels Alice hashed) are used throughout.

The first half of `HandOver_proofs` is about `Transfer` alone, and proves, for every list of
sizes, number of connections and interleaving of the threads:

* **ChunksAlwaysCover**, `Spec => []ChunksCover`.  The invariant `ChunksInv` adds to the
  types where the loop is after i threads: `start_idx` is `ChunkStart(size, i)`,
  `offset` is `ChunkLen(size, i)`, and the threads started have been given the chunks
  before (`HandedOut`).  That the end is reached is `FirstOffsetBounds`:
  NumConnections rounded-up offsets are not less than the size, and one is not more.
* **TransfersKeepApart**, `Spec => []OwnTransfer`, and **VectorsArriveIntact**,
  `Spec => []VectorIntact`, both without any hypothesis on the sizes.
* **LargeVectorsFill**: no connection is `Empty` for a vector of more than
  NumConnections × (NumConnections − 1) elements, 992 with the 32 connections of the code.
  After such a vector nothing is exposed, and then `OwnTransfer` says that the threads of
  different transfers never meet.

`OwnTransfer` speaks of two sockets at a time and is far from inductive.  The invariant
`OwnInv(W)`, where W stands for the transfers Bob starts only once Alice has got to them, reduces
each thread to the phase it is in, of the transfer it belongs to (`Phase`: none, ready, listening
or connected, accepted or open, done), and says

* `ThreadsInv`: which threads exist, and in what states;
* `AwaitedInv(W)`: Bob has begun a transfer of W only after Alice;
* `ConnectionInv(W, j, p)`: the connection of port p and transfer j is there just when Bob's
  thread has connected.  While it is *queued* (`QueuedInv`), a thread of transfer j or an earlier
  one listens, and if an earlier one, the connection is exposed and that one has nothing to carry.
  Once *accepted* (`AcceptedInv`), it is by the thread of j, or exposed and by one that carries
  nothing.  If *reset*, it is exposed.  What was sent on it is j's chunk, if j's own
  thread is done with it (`Delivered`), and otherwise nothing; Bob's thread is done only if it was
  delivered or is empty, and then the cells of its chunk are Alice's;
* `ListenerInv(p)`, `BacklogInv(p)`: the listening socket of a port is that of the one thread
  that listens, and the connections queued there are in the order of their transfers.

The step that matters is Bob's `Connect` (`ReadyAndListening`): if he is ahead of the thread that
listens, he has come through connections on which nothing was delivered, as their senders are not
done; so each of them was empty, the one just before included.  An `Accept` then
takes the listener's own connection first, because it was queued first.

The second half proves of the whole conversation, for every list of sizes, every
number of bits, inputs and outputs, and however the buffers fill:

* **FieldsAlwaysArrive**, `HandOverSpec => []FieldsArrive`;
* **AlwaysOneDirection**, `HandOverSpec => []OneDirection`;
* **HandOverImplementsTransfer**, `HandOverSpec => ImplementsTransfer`: every step is a
  step of `Transfer` or a stutter, with a message before the third vector where there are bits;
* **HandedOverChunksCover**, **HandedOverApart**, **HandedOverIntact**: `ChunksCover`,
  `PortsApart` and `VectorIntact` in the conversation.

`ConversationInv` is the conjunction of types (`ChannelTypeInv`); `HelperInv`, that Bob
knows the sizes from his sixth step on; `QueuesInv`, that what has been sent and not been
read is exactly the fields sent less those read, in order, of the lengths both sides
compute; `FieldsArrive`; and `MovesInv`, that the transfers entered are those of the
steps taken.  `FieldsArrive` alone says nothing of what is under way, and `OneDirection`
follows from comparing the two scripts of calls, which `QueuesInv` makes possible.
None of these has a hypothesis on the sizes or the numbers.  That the bits keep the third
vector apart is `ThirdIsAwaited`: by `QueuesInv` Bob can have read a bit only if Alice is past her
second transfer.  `PortsInv` adds to `OwnInv(Synced)` the invariant `OwnInv({3})` for
that case.  What cannot be proved is that the fourth vector is undisturbed: after the empty
gbytes it is not (`transfer_short`).

The rest of `Garbling_proofs` proves of `HalfGates`, for every label width, PRF, set of
labels drawn, number of operations and of outputs and size of a table entry:

* **TypesAlwaysHold**, `Spec => []TypeOK`;
* **LabelsAlwaysEncode**, `Spec => []LabelsEncode`;
* **CountersAlwaysAligned**, `Spec => []CountersAligned`;
* **GarblingImplementsIdeal**, `Spec => ImplementsIdeal`: the refinement of `Ideal`,
  the results Bob decodes included.

None of these is inductive.  What Bob computes is right only if Alice left the right
thing, so **Invariance** proves `Spec => []InductiveInvariant`, the conjunction of

* `TypeOK`;
* `GarbledCircuit`: per operation (`Garbled`) its cleartext value, that a constant wire
  is the offset or zero, and what she put aside and how far her counters moved
  (`LeftFor`); her counters now.  It mentions nothing of Bob's, is kept by Alice's
  steps because her buffers only grow (`GarbledKept`), and by his because he does
  not write to them (`CircuitUnchanged`);
* `TableFilled`: the two bits of every output are where `OutputBit` says, so that
  `RevealTable` has to show that quotient and remainder name one place per output;
* `HandedOver`: Bob's labels of his inputs are those of his bits, and his counters are
  Alice's before his next operation;
* `LabelsEncode`.

One lemma per operation and party (`GbXorStep`, `EvAndStep`, ...) shows that it keeps the
invariant.  Alice's rest on `GrownInvariant`: appending an operation keeps the
invariant if `LeftFor` holds for it.  Bob's rest on `EvEmitInvariant`: a step keeps it
if the new label encodes the value and the counters move as hers did.  The AND case is
`HalfGateCorrect`; the early returns are `GbShortAndBit` and `ShortAndEncodes`.
The assumptions are those of `Labels` and `HalfGates`: KAPPA is positive, the PRF maps
labels to labels, drawn labels are labels, the bounds are naturals, an entry of the
decoding table has room for an output.

The first half of `Blocks_proofs` proves of `GenerateCFG` and `GenerateBBPath`, for every set of labels
and of programs and every number of steps:

* **StartsAlwaysIncrease**, `CfgSpec => []StartsIncrease`;
* **PassesAlwaysAgree**, `CfgSpec => []PassesAgree`;
* **SuccessorsAlwaysExist**, `CfgSpec => []SuccessorsExist`.

The first needs `StartsInv`: that a finished block starts below the next one because
the open block starts after all finished ones and `ctr` has moved past its start
when it is closed.  The others need `CfgInv`, in which each part is there for a reason:

* `ProgramInv`: the last two lines are those `OpenAs` appends, so that the last block
  never falls through;
* `CountInv`: in both passes `ctr` is the number of instructions before the line;
* `LabelsInv`: an entry of either map stands for the last definition of its label among
  the lines read (`Points`), the entry of `label_to_addr` as its address, that of
  `label_to_bbid` as the start of that block, the block being built included.  Two maps
  of the same lines then agree on every label, those without an entry too
  (`PointsAgree`), as block 0 starts at 0;
* `OpenBodyInv`: the block being built holds the instructions since its start, one for
  one, and is empty after a label;
* `FinishedInv`: a finished block is a run of instructions of the program and one of
  four endings (`Shape`), and its access count is that of its fragment;
* `SuccessorsInv`: `next_BB` is the next block, if the ending falls through, and the
  branch once it is resolved;
* `ClosedInv`: after the NOOP no label is bound to the block being built;
* `PathInv`: block 0 is in the first set of the path, and with a block its successors are
  in the next one (`Follows`); the sums of the accesses (`Counts`).

The second half proves of the execution, for every program, number of steps and path of
the data:

* **AlwaysOnePoint**, `Spec => []OnePoint`;
* **AlwaysInBudget**, `Spec => []BudgetExact`;
* **BlocksImplementAssembly**, `Spec => ImplementsAssembly`: the refinement of the program
  executed instruction by instruction;
* **RunsAgree**: `PassesAgree` and `SuccessorsExist` hold while the program runs.

`OnePoint` needs to know where PC was left by the block before.  `RunInv` adds to `CfgInv`:
`WaitInv` (nothing runs before the path is known), `BetweenInv` (between blocks PC is the
start of one of the next active blocks), `InsideInv` (the block that runs is an active
one, PC is its start until its last instruction, and then the start of a successor),
`SelectInv` (how far the selection of one of two addresses has come, after each of its five
instructions) and `CountedInv` (the accesses are the sum GenerateBBPath formed for the
steps executed).  `ExecSteps` says that whatever instruction is executed is one of five
steps in the words of the program; the invariant and the refinement both follow from it.

`Fragments_proofs` proves of the instructions, for every width of the words, all contents of
the registers, all operands and immediates, and any sequence of instructions:

* **ConstantsStayInside**, `Spec => []NoConstants`;
* **LengthsAlwaysExact**, `Spec => []LengthExact`.

Every circuit of `Words` is looked at as what it does to the flags of its bits, and a
`Wire` is a bit that is not a constant.  A gate over two wires gives a wire and an
AND of them takes two rows.  What makes the theorems less than obvious are the constants
inside the circuits: a comparison shifts constants in, a multiplication adds partial
products that are zero below the position of their round.  `PartialFrom` and `AddFrom`
follow where the wires begin: round k adds a word whose first k bits are constants, so
that its carry starts and its rows are counted from k on; `MultiplyWires` sums the
rounds, which is 2·SIZE² exactly, the number in `GetMaxLength`.  The invariant
`FragmentInv` is that every register is a word of wires and that the rows taken are those
counted.

`EpiGram_proofs` proves of EpiGRAM, for every size of the memory, every place of the
linear scan, all permutations and any sequence of accesses:

* **LevelsWearInStep**, `Spec => []LevelsInStep`;
* **AlwaysWithinPlan**, `Spec => []WithinPlan`: the time of a level stays between n and 2n,
  the times gschedule plans for.

`LevelsInStep` speaks of the moments between accesses only.  An access goes down the index
maps, flushing and refreshing those that are full, and counts on the way up, so the
invariant `WearInv` says for each pair of neighbouring levels which of three relations
they are in: `InStep` for those not reached yet, `Even` for those left on the way down
(whether the lower one was flushed no longer shows), `Counted` for the one pair whose
lower level has counted the access already (`DownInv`, `UpInv`).  That a level which is
entered has room is part of it: a level that is full is flushed before it is entered.
TLC checked `WearInv` on the instance of `epigram` first.

`SimpleStack_proofs` proves of the oblivious stack, for every number of words and every
sequence of conditions:

* **StackIsAStack**, `Spec => ImplementsPopStack`: a query under a true condition gives the
  next word, and one under a false condition nothing;
* **NoWordLost**, `Spec => []WordsInOrder`;
* **CountersTellTheTruth**, `Spec => []VacanciesTellTheTruth`.

All three follow from **StackInvariant**.  Its invariant says for some number `vacant[l]` of
empty slots and some word `first[l]` per level (`Holds`):

* a level holds the words behind `first[l]`, one per cell, in its full slots, and nothing
  in the last `vacant[l]`, and its counter says so; the next level goes on where it ends,
  and the last one reaches the end;
* a level that has another below it has no more than one slot empty, or two if the next
  query to reach it will also go to the level below and fill it up again: that is the case
  when bit l of the timer is set.  Without this bound a level might be asked while it is
  empty, or be given two slots when it has room for one.

The recursion of `pop_stack` goes down and up again.  `ConditionIs` says that the condition
which reaches a level is that of the query or false, as the level above was not empty;
`PoppedIs` and `BackFillIs` that a level visited gives away its first slot, cell by cell to
the level above, and takes the first one of the level below in return; `LevelStep` what
then is in it, and `NumbersStep` that the bounds on the empty slots hold again, from how
the timer's quotients move when it is counted up.

`LazyPermutation_proofs` proves of the lazy permutation, for every number of leaves (any
power of two from 2 on), every order of the look-ups, whatever is written before, and every
interleaving of the two parties:

* **AlwaysAligned**, `Spec => []Aligned`: all that Bob reads is what Alice wrote for this node,
  this use of it and an input in this language;
* **LeavesFound**, `Spec => []FindsItsLeaf`;
* **GoOnTogether**, `Spec => []BothGoOn`.

They are far from inductive: what Bob reads at a node hangs on positions taken down long
before, on the leaves that others of his accesses went to, and on what Alice did in an
order of her own.  The proof names a node by its depth and number (`Ids`) and gives for
each of them, by recursion on the depth, what the code passes down on the way to it:
its leaves, its places in the arrays, its languages, and the position where its
material begins (`Tree`).  The invariant `LazyInv`, **LazyInvariant**, says

* `Walk`: the calls of set-up that are to come, each with the subtree below it, are the rest of
  the tree in set-up order.  The material of the first begins at the position counted so
  far, that of each further one where the one before ends, and the last ends at `End`.  This
  is what makes the dry run's positions Alice's, though neither saw the other's calls;
* `AliceInv`: for every node whose call was made, `LeftFor` every use of it there is
  material, at its position and in its language; from `End` on, her accesses;
* `BobInv`: every stack and every position stands at the number of uses of its node so far
  (`StacksFilled`, `At`);
* `AccessInv`: the node where he is, the bits and the language he has left follow from the
  leaf looked up; behind the tree he is at `End` and his accesses.

The number of uses is not counted by a variable.  `Used(x)` is the number of leaves below x that were
looked up by accesses which have come past the depth of x, and `Handed(x)` of those that
have come past its parent.  A step down the tree raises just one of the first (`UsesGrow`), and
as a leaf is looked up once, a node is used no more often than it has leaves (`OneMore`):
so its stacks never run out, and its next use is one that Alice garbled.  That two nodes
never share a place in an array, which is what an off-by-one in the spans would break, is
`Apart`, of anything laid out as the spans and the material are (`Layout`): a node
first, then its left tree, then its right one.  The two stacks of a node are those of
`PopStack`, which `StackIsAStack` shows the levels to implement.

TLC checked the invariant first: with 4 leaves on all states, with 8 on 28,000.

`Induction` holds what the proofs of `Blocks`, `Fragments`, `EpiGram`, `SimpleStack` and
`LazyPermutation` share.  The
library's induction theorems take an operator as parameter, which the provers cannot
instantiate.  Here induction is over a set instead of a predicate (`SetInduction`, from
the well-foundedness of < on sets of naturals), and `Recursion` proves with it that a
function defined by recursion on a number from m to n satisfies its equations, and
`EndlessRecursion` the same for all numbers.  It also has
what the proofs need of powers of two, which are the recursive function of `Powers`, as the
provers cannot unfold `2^n`, and of quotients and remainders by them.

Assumptions are those the modules name and nothing else, each a type or bound of a parameter:
`KappaAssumption` and `PrfAssumption` (`Labels`), `DrawsAssumption`, `BoundsAssumption` and
`SlotsAssumption` (`HalfGates`), `ConnectionsAssumption` and its neighbours (`Transfer`,
`HandOver`), `GiantStepAssumption`, `LabelsAssumption`, `TextsAssumption` (`ControlFlow`),
`SizeAssumption` (`Words`, `EpiGram`, `LazyPermutation`), `OrderAssumption` (`EpiGram`),
`MaxWordsAssumption` (`SimpleStack`).  TLC evaluates them in the runs.

Only model-checked: liveness (`EvaluationCompletes`, `CompletesUnlessReset`, `Returns`, which
need fairness and ENABLED, outside TLAPS); the trees of `Stacking` (one node is proved,
the tree is recursive); that EpiGRAM is an array (`ImplementsRam`, `LookedUpOnce`,
`ScheduleFits`) and one of its parts a permutation (the run `permutation`), which are
about what functions that follow and swap slots compute; and the numbers the instructions give (`ImplementsIsa`, where the rows and
the constants are proved).

## 7. Not modelled

* **Vendored code.** By far the most lines of the repository are other people's: the
  tables of gates of `emp-tool` (`circuits/float32_*.cpp`, over 120,000 lines of
  numbers), the curves and ciphers of `emp-tool` and `emp-ot`.  The program calls none of
  the circuits.  Of these libraries only the network channel and the order of the
  oblivious transfer's messages are modelled.  A share of all lines of the repository
  therefore says little; of the program's own code under `src/*.cpp` and
  `epigram/src`, what is left out is listed here.
* **Dead code.** `SGCUtils.cpp` 373-1334 are earlier versions of the stacking that
  nothing calls.  EpiGRAM's own processor, stack machine and benchmarks
  (`epigram/src/cpu.cc`, `stack.cc`, `onehot.cc`, `main.cc`) and `zkassembler.cpp` are
  not called by the program.
* **Cost counting** runs the code of
  garbling with counters in the place of rows (`Mode::S`, the Speculate role).
* **Lexing**, register names, command line, input files and printing.
* **Security.** Labels are never shown to be hidden, only to be right.
* That the oblivious transfer gives Bob the label his bit selects is taken for granted.
* Byte counts of 2^31 and more, which `NetIO` narrows to `int`, are outside the bounds.
* A NOOP written inside a program: the code does not say what it should mean in a block of
  several, where it leaves PC alone.
* Crashes: a lost peer is waited for, and nothing is persisted.
