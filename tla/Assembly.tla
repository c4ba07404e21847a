------------------------------ MODULE Assembly ------------------------------
(***************************************************************************)
(* What an assembly program means, one instruction per step: the promise   *)
(* that the basic blocks of GenerateCFG and their oblivious execution have *)
(* to keep.  Addresses are those of the first pass of GenerateCFG, which   *)
(* counts the instructions and not the labels.                             *)
(*                                                                         *)
(* Of the registers only the two bits that conditional jumps look at are   *)
(* kept: bit 0 (JE, JNE, JB) and bit 1 (JL) of one flag register.          *)
(***************************************************************************)
EXTENDS Integers, Sequences, FiniteSets

CONSTANT LabelNames   \* the labels a program may use, "BB_NOOP" apart

NoopLabel == "BB_NOOP"

Conditional == {"JE", "JNE", "JB", "JL"}
Jumps == {"J"} \cup Conditional

(***************************************************************************)
(* A line: a label "l:", an instruction that sets the flag register (CMP,  *)
(* EQ, EQI), one that accesses memory (LOAD, STORE), any other one that is *)
(* local ("plain"), a jump, HALT, or the NOOP that OpenAs appends.         *)
(***************************************************************************)
Line == [op : {"label", "set", "access", "plain", "HALT", "NOOP"} \cup Jumps,
         label : LabelNames \cup {NoopLabel, ""}]

UserLine == { ln \in Line : /\ ln.op # "NOOP" /\ ln.label # NoopLabel
                            /\ ln.label = "" <=> ln.op \notin Jumps \cup {"label"} }

\* OpenAs appends the block every HALT leads to
OpenAs(user) == user \o << [op |-> "label", label |-> NoopLabel],
                           [op |-> "NOOP", label |-> ""] >>

\* The texts OpenAs can return
IsProgram(t) == LET user == SubSeq(t, 1, Len(t) - 2) IN user \in Seq(UserLine) /\ t = OpenAs(user)

IsInstruction(ln) == ln.op # "label"

\* The address of line k: how many instructions come before it
Before(t, k) == Cardinality({ j \in 1 .. k - 1 : IsInstruction(t[j]) })

Definitions(t, l) == { k \in 1 .. Len(t) : t[k].op = "label" /\ t[k].label = l }

\* The address of a label: its last definition counts; 0 for one not defined,
\* the value std::map's operator[] inserts
AddressOf(t, l) ==
  LET at == Definitions(t, l)
  IN  IF at = {} THEN 0 ELSE Before(t, CHOOSE k \in at : \A j \in at : j <= k)

Flags == BOOLEAN \X BOOLEAN

\* Is the jump taken?  JB and JE both test bit 0, JL tests bit 1
Taken(op, flag) == CASE op \in {"JE", "JB"} -> flag[1]
                     [] op = "JNE" -> ~ flag[1]
                     [] op = "JL" -> flag[2]

VARIABLES text,   \* the program
          addr,   \* the address of the next instruction
          flag    \* the flag register

assemblyVars == <<text, addr, flag>>

Init == /\ IsProgram(text)
        /\ addr = 0
        /\ flag = <<FALSE, FALSE>>

\* The line at the address
Instruction ==
  text[CHOOSE k \in 1 .. Len(text) : IsInstruction(text[k]) /\ Before(text, k) = addr]

Local == /\ Instruction.op \in {"plain", "access"}
         /\ addr' = addr + 1
         /\ UNCHANGED <<text, flag>>

SetFlag == /\ Instruction.op = "set"
           /\ flag' \in Flags
           /\ addr' = addr + 1
           /\ UNCHANGED text

Jump == /\ \/ Instruction.op = "J"
           \/ Instruction.op \in Conditional /\ Taken(Instruction.op, flag)
        /\ addr' = AddressOf(text, Instruction.label)
        /\ UNCHANGED <<text, flag>>

FallThrough == /\ Instruction.op \in Conditional
               /\ ~ Taken(Instruction.op, flag)
               /\ addr' = addr + 1
               /\ UNCHANGED <<text, flag>>

Halt == /\ Instruction.op = "HALT"
        /\ addr' = AddressOf(text, NoopLabel)
        /\ UNCHANGED <<text, flag>>

Next == Local \/ SetFlag \/ Jump \/ FallThrough \/ Halt

Spec == Init /\ [][Next]_assemblyVars
=============================================================================
