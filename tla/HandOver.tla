------------------------------ MODULE HandOver ------------------------------
(***************************************************************************)
(* The main channel (setup_garbler, initiate_2pc_evaluation and            *)
(* setup_evaluator in Const.cpp): a handshake, the key of the PRF, the     *)
(* sizes, four vectors over connections of their own (module Transfer), a  *)
(* message of bits between the second and the third of them, the garbler's *)
(* inputs, the oblivious transfer, and the table that decodes the outputs. *)
(*                                                                         *)
(* Both ends of the channel are buffered streams of stdio, used in both    *)
(* directions.  What is sent stays in the buffer until it is flushed, by   *)
(* a call, by a receive after a send, or when the process exits; Alice     *)
(* flushes nothing after the oblivious transfer.                           *)
(***************************************************************************)
EXTENDS Transfer

CONSTANT Counts   \* the numbers of bits, inputs and outputs considered

ASSUME CountsAssumption ==
  Counts \subseteq [gram_bits : Nat, garbler_inputs : Nat, evaluator_inputs : Nat, outputs : Nat]

VARIABLES
  counts,     \* Alice's numbers
  pc,         \* pc[s]: the step of side s
  buffer,     \* buffer[s]: what s has sent and not flushed
  wire,       \* wire[s]: what s has flushed and its peer has not read
  has_sent,   \* NetIO::has_sent
  helper,     \* helper[s]: helper_variables, as far as s knows them
  got         \* got[s][field]: what s has received

channelVars == <<counts, pc, buffer, wire, has_sent, helper, got>>
allVars == <<vars, channelVars>>

Peer(s) == IF s = "sender" THEN "receiver" ELSE "sender"

\* material, inputs of both, decoding table, gmat, gwmat, gbits, gbytes
HelperVariables(c) ==
  <<Size(4), c.garbler_inputs, c.evaluator_inputs, c.outputs,
    Size(1), Size(2), c.gram_bits, Size(3)>>

\* The number of units of a field, to who holds the sizes h
Units(field, h) ==
  CASE field = "gbits" -> h[7]
    [] field = "garbler_inputs" -> h[2]
    [] field \in {"extension", "evaluator_inputs"} -> h[3]
    [] field = "output_decoding_table" -> h[4]
    [] OTHER -> 1

Field == {"Y", "prf_key", "helper_variables", "gbits", "garbler_inputs", "A", "B", "base_ot",
          "extension", "s", "evaluator_inputs", "output_decoding_table"}

Message(field, h) == [k \in 1 .. Units(field, h) |-> <<field, k>>]
-----------------------------------------------------------------------------
(* What each side does, in order *)

Sends(field) == [do |-> "send", field |-> field]
Recvs(field) == [do |-> "recv", field |-> field]
Flushes == [do |-> "flush", field |-> "Y"]
Moves == [do |-> "transfer", field |-> "Y"]
Exits == [do |-> "exit", field |-> "Y"]

\* emp::IKNP, Alice as the sender: she is the receiver of the base transfers
OtSender == <<Recvs("A"), Sends("B"), Flushes, Recvs("base_ot"), Recvs("extension"),
              Sends("s"), Flushes, Sends("evaluator_inputs")>>
OtReceiver == <<Sends("A"), Recvs("B"), Flushes, Sends("base_ot"), Sends("extension"),
                Recvs("s"), Flushes, Recvs("evaluator_inputs")>>

\* Mutant: the bits are sent before the second vector
Garbler_bitsEarly ==
  <<Sends("Y"), Recvs("Y"), Flushes, Sends("prf_key"), Flushes,
    Sends("helper_variables"), Flushes, Moves, Sends("gbits"), Flushes, Moves, Moves, Moves,
    Sends("garbler_inputs")>> \o OtSender \o <<Sends("output_decoding_table"), Exits>>

\* setup_garbler, initiate_2pc_evaluation, the end of main
Garbler ==
  <<Sends("Y"), Recvs("Y"), Flushes, Sends("prf_key"), Flushes,
    Sends("helper_variables"), Flushes, Moves, Moves, Sends("gbits"), Flushes, Moves, Moves,
    Sends("garbler_inputs")>> \o OtSender \o <<Sends("output_decoding_table"), Exits>>

\* Mutant: the garbler's inputs are read after the oblivious transfer
Evaluator_otFirst ==
  <<Recvs("Y"), Sends("Y"), Flushes, Recvs("prf_key"),
    Recvs("helper_variables"), Moves, Moves, Recvs("gbits"), Moves, Moves>>
    \o OtReceiver \o <<Recvs("garbler_inputs"), Recvs("output_decoding_table")>>

\* Mutant: the key is acknowledged
Evaluator_acknowledges ==
  <<Recvs("Y"), Sends("Y"), Flushes, Recvs("prf_key"), Sends("Y"),
    Recvs("helper_variables"), Moves, Moves, Recvs("gbits"), Moves, Moves,
    Recvs("garbler_inputs")>> \o OtReceiver \o <<Recvs("output_decoding_table")>>

\* setup_evaluator
Evaluator ==
  <<Recvs("Y"), Sends("Y"), Flushes, Recvs("prf_key"),
    Recvs("helper_variables"), Moves, Moves, Recvs("gbits"), Moves, Moves,
    Recvs("garbler_inputs")>> \o OtReceiver \o <<Recvs("output_decoding_table")>>

Steps(s) == IF s = "sender" THEN Garbler ELSE Evaluator
Ended(s) == pc[s] > Len(Steps(s))
At(s, do) == ~ Ended(s) /\ Steps(s)[pc[s]].do = do
FieldAt(s) == Steps(s)[pc[s]].field
Advance(s) == pc' = [pc EXCEPT ![s] = @ + 1]
-----------------------------------------------------------------------------
(* NetIO over one stream *)

\* All that is buffered goes to the peer
FlushStream(s) ==
  /\ wire' = [wire EXCEPT ![s] = @ \o buffer[s]]
  /\ buffer' = [buffer EXCEPT ![s] = <<>>]

\* send_data: fwrite passes on what does not fit into the buffer
SendData(s) ==
  LET all == buffer[s] \o Message(FieldAt(s), helper[s])
  IN  /\ At(s, "send")
      /\ \E n \in 0 .. Len(all) :
           /\ wire' = [wire EXCEPT ![s] = @ \o SubSeq(all, 1, n)]
           /\ buffer' = [buffer EXCEPT ![s] = SubSeq(all, n + 1, Len(all))]
      /\ has_sent' = [has_sent EXCEPT ![s] = TRUE]
      /\ Advance(s)
      /\ UNCHANGED <<vars, counts, helper, got>>

Flush(s) ==
  /\ At(s, "flush")
  /\ FlushStream(s)
  /\ Advance(s)
  /\ UNCHANGED <<vars, counts, has_sent, helper, got>>

\* recv_data, before it waits
FlushBeforeRecv(s) ==
  /\ At(s, "recv") /\ has_sent[s]
  /\ FlushStream(s)
  /\ has_sent' = [has_sent EXCEPT ![s] = FALSE]
  /\ UNCHANGED <<vars, counts, pc, helper, got>>

\* recv_data returns when all the units asked for have come: at once for none
RecvData(s) ==
  LET n == Units(FieldAt(s), helper[s])
      incoming == wire[Peer(s)]
  IN  /\ At(s, "recv") /\ ~ has_sent[s]
      /\ Len(incoming) >= n
      /\ got' = [got EXCEPT ![s][FieldAt(s)] = SubSeq(incoming, 1, n)]
      /\ wire' = [wire EXCEPT ![Peer(s)] = SubSeq(@, n + 1, Len(@))]
      /\ helper' = IF FieldAt(s) = "helper_variables"
                   THEN [helper EXCEPT ![s] = HelperVariables(counts)] ELSE helper
      /\ Advance(s)
      /\ UNCHANGED <<vars, counts, buffer, has_sent>>

\* fread waits while not all of them have come
WaitForData(s) ==
  /\ At(s, "recv") /\ ~ has_sent[s]
  /\ Len(wire[Peer(s)]) < Units(FieldAt(s), helper[s])
  /\ UNCHANGED allVars

\* transferLargeVector, and its return
TransferLargeVector(s) ==
  /\ At(s, "transfer")
  /\ \/ Spawn(s) /\ UNCHANGED channelVars
     \/ /\ Join(s)
        /\ Advance(s)
        /\ UNCHANGED <<counts, buffer, wire, has_sent, helper, got>>

\* Mutant: the process is left without its streams being flushed
Exit_unflushed(s) ==
  /\ At(s, "exit")
  /\ Advance(s)
  /\ UNCHANGED <<vars, counts, buffer, wire, has_sent, helper, got>>

\* Alice's process ends: exit flushes the streams that are open
Exit(s) ==
  /\ At(s, "exit")
  /\ FlushStream(s)
  /\ Advance(s)
  /\ UNCHANGED <<vars, counts, has_sent, helper, got>>
-----------------------------------------------------------------------------
HandOverInit ==
  /\ Init
  /\ counts \in Counts
  /\ pc = [s \in Side |-> 1]
  /\ buffer = [s \in Side |-> <<>>]
  /\ wire = [s \in Side |-> <<>>]
  /\ has_sent = [s \in Side |-> FALSE]
  /\ helper = [s \in Side |-> IF s = "sender" THEN HelperVariables(counts) ELSE <<>>]
  /\ got = [s \in Side |-> [f \in Field |-> <<>>]]

HandedOver == \A s \in Side : Ended(s)

Channel(s) == SendData(s) \/ Flush(s) \/ FlushBeforeRecv(s) \/ RecvData(s) \/ WaitForData(s)
                \/ Exit(s)
Thread(p) == (SenderThread(p) \/ ReceiverThread(p)) /\ UNCHANGED channelVars
AllEnded == HandedOver /\ UNCHANGED allVars

HandOverNext == \/ \E s \in Side : Channel(s) \/ TransferLargeVector(s)
                \/ \E p \in Ports : Thread(p)
                \/ AllEnded

\* Both processes and all their threads are scheduled
HandOverSpec ==
  /\ HandOverInit /\ [][HandOverNext]_allVars
  /\ \A s \in Side : WF_allVars(Channel(s) \/ TransferLargeVector(s))
  /\ \A p \in Ports : /\ WF_allVars(SenderThread(p) /\ UNCHANGED channelVars)
                      /\ WF_allVars(ReceiverThread(p) /\ UNCHANGED channelVars)
-----------------------------------------------------------------------------
(***************************************************************************)
(* Whatever a side has received as a field is what its peer sent as that   *)
(* field, all of it: the two sequences of calls, which only the sizes Bob  *)
(* was told and the order of the code keep together, never slip.           *)
(***************************************************************************)
FieldsArrive ==
  \A s \in Side, f \in Field :
    got[s][f] \in {<<>>, Message(f, HelperVariables(counts))}

(***************************************************************************)
(* Nobody writes into his stream while there is something in it to read.   *)
(* stdio does not allow it: the stream has one buffer for both directions, *)
(* and the unread part cannot be put back into a socket.                   *)
(***************************************************************************)
OneDirection ==
  \A s \in Side : At(s, "send") /\ Units(FieldAt(s), helper[s]) > 0 => wire[Peer(s)] = <<>>

(***************************************************************************)
(* Both sides get to the end, unless a connection for a vector is reset:   *)
(* although the decoding table leaves Alice's buffer only when her process *)
(* ends, nobody waits for something that the other keeps in his buffer     *)
(* while he waits himself.  A reset does happen in the program, where      *)
(* nothing keeps the empty gbytes apart from material_buffer.              *)
(***************************************************************************)
Reset == \E j \in Transfers, p \in Ports : conn[j][p].st = "reset"
CompletesUnlessReset == <>(HandedOver \/ Reset)

\* The transfers, with a message before the third
Apart == INSTANCE Transfer WITH Synced <- {3}

(***************************************************************************)
(* What the messages of the channel are worth to the threads: with a bit   *)
(* or more to send, no connection of the first transfer and of the third   *)
(* is ever disturbed, whatever the sizes; with none, the third is exposed  *)
(* like the others.                                                        *)
(***************************************************************************)
PortsApart == IF counts.gram_bits > 0 THEN Apart!OwnTransfer ELSE OwnTransfer

(***************************************************************************)
(* The conversation is a Transfer, and where there are bits to send one in *)
(* which Bob enters the third transfer only after Alice has: his steps are *)
(* held back by the script and the messages as that module holds them.     *)
(***************************************************************************)
ImplementsTransfer ==
  Apart!Init /\ [][IF counts.gram_bits > 0 THEN Apart!Next ELSE Next]_vars
=============================================================================
