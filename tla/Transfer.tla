------------------------------ MODULE Transfer ------------------------------
(***************************************************************************)
(* transferLargeVector (Const.h): Alice (the sender) and Bob (the          *)
(* receiver) move a vector over NumConnections parallel TCP connections,   *)
(* one thread and one port each, join the threads, and go on to the next   *)
(* vector over the same ports.  The two sides run the same sequence of     *)
(* transfers but nothing synchronises them, except where the code puts a   *)
(* message on the main channel between two transfers.                      *)
(*                                                                         *)
(* A port has at most one listening socket.  emp::NetIO's server binds,    *)
(* listens, accepts one connection, then closes the listening socket,      *)
(* which resets whatever else is queued on it; its client retries until    *)
(* connect() succeeds, which it does as soon as the connection is queued.  *)
(* A reader whose connection was reset, or ends early, spins: fread keeps  *)
(* returning 0 and recv_data_internal keeps looping.                       *)
(***************************************************************************)
EXTENDS Integers, Sequences

CONSTANTS NumConnections,  \* num_connections: 32 in the code
          Sizes,           \* arrsize of each transfer, in order
          Synced,          \* transfers Bob starts only after Alice reached them
          Backlog          \* connections the kernel queues on a listening socket

ASSUME ConnectionsAssumption == NumConnections \in Nat \ {0}
ASSUME SizesAssumption == Sizes \in Seq(Nat)
ASSUME SyncedAssumption == Synced \subseteq DOMAIN Sizes
ASSUME BacklogAssumption == Backlog \in Nat \ {0}

Side == {"sender", "receiver"}
Ports == 1 .. NumConnections       \* curr_port - initial_port
Transfers == DOMAIN Sizes

VARIABLES
  xfer,        \* xfer[s]: the transfer side s is in; Len(Sizes) + 1 when finished
  idx,         \* idx[s]: threads spawned so far in it
  start_idx, offset,   \* the loop's variables, per side
  thread,      \* thread[s][p]: state and chunk of the thread on port p
  listener,    \* listener[p]: the transfer whose sender thread listens, or 0
  backlog,     \* backlog[p]: connections queued there, by the receiver's transfer
  conn,        \* conn[j][p]: the receiver's connection of transfer j on port p
  arr,         \* arr[j]: Bob's vector
  clamps       \* history: <<side, transfer, idx>> at which the last chunk was cut

loopVars == <<idx, start_idx, offset, clamps>>
netVars == <<listener, backlog, conn>>
vars == <<xfer, loopVars, thread, netVars, arr>>

Size(i) == IF i \in Transfers THEN Sizes[i] ELSE 0

\* Mutant: rounded down
FirstOffset_down(n) == n \div NumConnections

\* arrsize / num_connections, rounded up
FirstOffset(n) == n \div NumConnections + (IF n % NumConnections # 0 THEN 1 ELSE 0)

Idle == [st |-> "none", start |-> 0, len |-> 0]
NoConnection == [st |-> "none", peer |-> 0, sent |-> <<>>]

\* Element k of the vector of transfer i, and an element not yet received
Cell(i, k) == <<i, k>>
Unset == <<0, 0>>
-----------------------------------------------------------------------------
(* The loop of transferLargeVector *)

\* What the code asserts where it cuts the chunk: Const.h:181
CutAt(i) == i = NumConnections - 2

Spawn(s) ==
  LET n == Size(xfer[s])
      p == idx[s] + 1
      next == start_idx[s] + offset[s]
      cut == next + offset[s] > n
  IN  /\ xfer[s] \in Transfers
      /\ idx[s] < NumConnections
      /\ s = "receiver" /\ xfer[s] \in Synced => xfer["sender"] >= xfer[s]
      /\ thread' = [thread EXCEPT ![s][p] =
                      [st |-> "ready", start |-> start_idx[s], len |-> offset[s]]]
      /\ idx' = [idx EXCEPT ![s] = p]
      /\ start_idx' = [start_idx EXCEPT ![s] = next]
      /\ offset' = [offset EXCEPT ![s] = IF cut THEN n - next ELSE @]
      /\ clamps' = IF cut THEN clamps \cup {<<s, xfer[s], idx[s]>>} ELSE clamps
      /\ UNCHANGED <<xfer, netVars, arr>>

\* All threads joined: return, and enter the next transfer
Join(s) ==
  /\ xfer[s] \in Transfers
  /\ idx[s] = NumConnections
  /\ \A p \in Ports : thread[s][p].st = "done"
  /\ xfer' = [xfer EXCEPT ![s] = @ + 1]
  /\ idx' = [idx EXCEPT ![s] = 0]
  /\ start_idx' = [start_idx EXCEPT ![s] = 0]
  /\ offset' = [offset EXCEPT ![s] = FirstOffset(Size(xfer[s] + 1))]
  /\ thread' = [thread EXCEPT ![s] = [p \in Ports |-> Idle]]
  /\ UNCHANGED <<netVars, arr, clamps>>
-----------------------------------------------------------------------------
(* connectionThread, sender: NetIO(nullptr, port), send_data, flush, delete *)

Become(s, p, from, to) ==
  /\ thread[s][p].st = from
  /\ thread' = [thread EXCEPT ![s][p].st = to]

\* bind and listen; bind fails while another socket listens on the port
Listen(p) ==
  /\ Become("sender", p, "ready", "listening")
  /\ listener[p] = 0
  /\ listener' = [listener EXCEPT ![p] = xfer["sender"]]
  /\ UNCHANGED <<xfer, loopVars, backlog, conn, arr>>

\* Mutant: the listening socket is left open for the next transfer
Accept_keepListening(p) ==
  /\ Become("sender", p, "listening", "open")
  /\ backlog[p] # <<>>
  /\ backlog' = [backlog EXCEPT ![p] = Tail(@)]
  /\ conn' = [conn EXCEPT ![Head(backlog[p])][p] =
                [@ EXCEPT !.st = "accepted", !.peer = xfer["sender"]]]
  /\ UNCHANGED <<xfer, loopVars, listener, arr>>

Accept(p) ==
  /\ Become("sender", p, "listening", "accepted")
  /\ backlog[p] # <<>>
  /\ backlog' = [backlog EXCEPT ![p] = Tail(@)]
  /\ conn' = [conn EXCEPT ![Head(backlog[p])][p] =
                [@ EXCEPT !.st = "accepted", !.peer = xfer["sender"]]]
  /\ UNCHANGED <<xfer, loopVars, listener, arr>>

\* close(mysocket): the connections still queued are reset
CloseListener(p) ==
  /\ Become("sender", p, "accepted", "open")
  /\ listener' = [listener EXCEPT ![p] = 0]
  /\ conn' = [j \in Transfers |->
                [conn[j] EXCEPT ![p] = IF @.st = "queued"
                                       THEN [@ EXCEPT !.st = "reset"] ELSE @]]
  /\ backlog' = [backlog EXCEPT ![p] = <<>>]
  /\ UNCHANGED <<xfer, loopVars, arr>>

\* Mutant: the chunk is read one element too far
Send_shifted(p) ==
  LET i == xfer["sender"]
      chunk == thread["sender"][p]
  IN  /\ Become("sender", p, "open", "done")
      /\ conn' = [j \in Transfers |->
                    [conn[j] EXCEPT ![p] =
                       IF @.st = "accepted" /\ @.peer = i
                       THEN [@ EXCEPT !.sent = [k \in 1 .. chunk.len |->
                                                  Cell(i, chunk.start + k)]]
                       ELSE @]]
      /\ UNCHANGED <<xfer, loopVars, listener, backlog, arr>>

\* The chunk goes to the connection this thread accepted
Send(p) ==
  LET i == xfer["sender"]
      chunk == thread["sender"][p]
  IN  /\ Become("sender", p, "open", "done")
      /\ conn' = [j \in Transfers |->
                    [conn[j] EXCEPT ![p] =
                       IF @.st = "accepted" /\ @.peer = i
                       THEN [@ EXCEPT !.sent = [k \in 1 .. chunk.len |->
                                                  Cell(i, chunk.start + k - 1)]]
                       ELSE @]]
      /\ UNCHANGED <<xfer, loopVars, listener, backlog, arr>>
-----------------------------------------------------------------------------
(* connectionThread, receiver: NetIO(address, port), recv_data, flush, delete *)

Connect(p) ==
  /\ Become("receiver", p, "ready", "connected")
  /\ listener[p] # 0
  /\ Len(backlog[p]) < Backlog
  /\ backlog' = [backlog EXCEPT ![p] = Append(@, xfer["receiver"])]
  /\ conn' = [conn EXCEPT ![xfer["receiver"]][p].st = "queued"]
  /\ UNCHANGED <<xfer, loopVars, listener, arr>>

\* recv_data returns when all the elements asked for have come: at once for none
Receive(p) ==
  LET j == xfer["receiver"]
      chunk == thread["receiver"][p]
      sent == conn[j][p].sent
  IN  /\ Become("receiver", p, "connected", "done")
      /\ Len(sent) >= chunk.len
      /\ arr' = [arr EXCEPT ![j] =
                   [k \in DOMAIN @ |->
                      IF k \in chunk.start .. chunk.start + chunk.len - 1
                      THEN sent[k - chunk.start + 1] ELSE @[k]]]
      /\ UNCHANGED <<xfer, loopVars, netVars>>

\* connect() is retried while nobody listens, fread while nothing comes
Spin(p) ==
  LET t == thread["receiver"][p]
  IN  /\ \/ t.st = "ready" /\ (listener[p] = 0 \/ Len(backlog[p]) = Backlog)
         \/ t.st = "connected" /\ Len(conn[xfer["receiver"]][p].sent) < t.len
      /\ UNCHANGED vars
-----------------------------------------------------------------------------
Init ==
  /\ xfer = [s \in Side |-> 1]
  /\ idx = [s \in Side |-> 0]
  /\ start_idx = [s \in Side |-> 0]
  /\ offset = [s \in Side |-> FirstOffset(Size(1))]
  /\ thread = [s \in Side |-> [p \in Ports |-> Idle]]
  /\ listener = [p \in Ports |-> 0]
  /\ backlog = [p \in Ports |-> <<>>]
  /\ conn = [j \in Transfers |-> [p \in Ports |-> NoConnection]]
  /\ arr = [j \in Transfers |-> [k \in 0 .. Sizes[j] - 1 |-> Unset]]
  /\ clamps = {}

Finished == \A s \in Side : xfer[s] \notin Transfers

Main(s) == Spawn(s) \/ Join(s)
SenderThread(p) == Listen(p) \/ Accept(p) \/ CloseListener(p) \/ Send(p)
ReceiverThread(p) == Connect(p) \/ Receive(p) \/ Spin(p)
Terminated == Finished /\ UNCHANGED vars

Next == \/ \E s \in Side : Main(s)
        \/ \E p \in Ports : SenderThread(p) \/ ReceiverThread(p)
        \/ Terminated

Spec == Init /\ [][Next]_vars

\* Every thread that can run is scheduled, and a client's connect() is retried
FairSpec == /\ Spec
            /\ \A s \in Side : WF_vars(Main(s))
            /\ \A p \in Ports : WF_vars(SenderThread(p)) /\ WF_vars(ReceiverThread(p))
-----------------------------------------------------------------------------
(* Properties *)

(***************************************************************************)
(* The chunks handed to the threads stay inside the vector and lie end to  *)
(* end, and once the loop is over they cover all of it: whatever the size, *)
(* no element is skipped, sent twice, or addressed past the end            *)
(* (transferLargeVector's start_idx and offset, both unsigned).            *)
(***************************************************************************)
ChunksCover ==
  \A s \in Side : xfer[s] \in Transfers =>
    /\ start_idx[s] + offset[s] <= Size(xfer[s])
    /\ \A p \in 1 .. idx[s] :
         thread[s][p].start + thread[s][p].len
           = IF p = idx[s] THEN start_idx[s] ELSE thread[s][p + 1].start
    /\ idx[s] > 0 => thread[s][1].start = 0
    /\ idx[s] = NumConnections => start_idx[s] = Size(xfer[s])

\* The connection of port p carries none of a vector of n elements
Empty(n, p) == n <= (p - 1) * FirstOffset(n)

\* Nothing keeps Bob from connecting for transfer j while Alice still listens
\* for the one before: he had nothing to wait for there, and has nothing here
Exposed(j, p) == j > 1 /\ j \notin Synced /\ Empty(Size(j - 1), p)

(***************************************************************************)
(* Consecutive transfers reuse the ports.  A connection is queued at, and  *)
(* accepted by, the sender's thread of its own transfer, and is not reset, *)
(* except where it is exposed: the other connections of the transfer, and  *)
(* those of the other transfers, are never disturbed by what happens there *)
(* (connectionThread's NetIO on both sides).                               *)
(***************************************************************************)
OwnTransfer ==
  \A p \in Ports :
    /\ \A q \in 1 .. Len(backlog[p]) :
         backlog[p][q] # listener[p] => Exposed(backlog[p][q], p)
    /\ \A j \in Transfers :
         conn[j][p].st = "reset" \/ (conn[j][p].st = "accepted" /\ conn[j][p].peer # j)
           => Exposed(j, p)

\* When Bob has returned from a transfer his vector is Alice's
VectorIntact ==
  \A j \in Transfers : xfer["receiver"] > j =>
    \A k \in DOMAIN arr[j] : arr[j][k] = Cell(j, k)

\* Both sides get through all the transfers
TransfersComplete == <>Finished

\* The code's assertion: a chunk is only ever cut for the last connection
AssertedCut == \A c \in clamps : CutAt(c[3])
=============================================================================
