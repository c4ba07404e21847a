--------------------------- MODULE HandOver_proofs ---------------------------
(***************************************************************************)
(* First transferLargeVector, for every list of vectors and every number   *)
(* of connections.  The chunk arithmetic: the rounded-up offset and its    *)
(* cut make chunks that lie end to end and cover the vector.  And the      *)
(* ports: threads of different transfers meet only on a connection that    *)
(* carries nothing of the vector before, and whatever becomes of it, a     *)
(* vector Bob has returned from has arrived whole.                         *)
(*                                                                         *)
(* Then the conversation of HandOver, for every message length besides:    *)
(* the two scripts keep in step over the buffered streams, so that what is *)
(* read is what was sent, and the transfers between the messages are those *)
(* of Transfer.                                                            *)
(***************************************************************************)
EXTENDS HandOver, SequenceTheorems, TLAPS

-----------------------------------------------------------------------------
(* The invariant *)

State == {"none", "ready", "listening", "accepted", "open", "connected", "done"}
Chunk == [st : State, start : Nat, len : Nat]

LoopTypeInv ==
  /\ xfer \in [Side -> Nat]
  /\ idx \in [Side -> 0 .. NumConnections]
  /\ start_idx \in [Side -> Nat]
  /\ offset \in [Side -> Nat]
  /\ thread \in [Side -> [Ports -> Chunk]]

\* Where the chunk after the first i of a vector of n elements begins
ChunkStart(n, i) == IF i * FirstOffset(n) <= n THEN i * FirstOffset(n) ELSE n
ChunkLen(n, i) == ChunkStart(n, i + 1) - ChunkStart(n, i)

\* The first i threads have the first i chunks
HandedOut(n, i, row) ==
  \A p \in 1 .. i : row[p].start = ChunkStart(n, p - 1) /\ row[p].len = ChunkLen(n, p - 1)

\* The loop has handed out the first idx chunks, and is to hand out the next
LoopInv ==
  \A s \in Side : xfer[s] \in Transfers =>
    /\ start_idx[s] = ChunkStart(Size(xfer[s]), idx[s])
    /\ offset[s] = ChunkLen(Size(xfer[s]), idx[s])
    /\ HandedOut(Size(xfer[s]), idx[s], thread[s])

ChunksInv == LoopTypeInv /\ LoopInv

LEMMA Sides == "sender" \in Side /\ "receiver" \in Side
  BY DEF Side
-----------------------------------------------------------------------------
(* Arithmetic of the loop *)

LEMMA SizeNat == \A i : Size(i) \in Nat
  BY SizesAssumption, ElementOfSeq DEF Size, Transfers

\* Rounded up, NumConnections offsets reach the end, and one is within it
LEMMA FirstOffsetBounds ==
  ASSUME NEW n \in Nat
  PROVE  /\ FirstOffset(n) \in Nat
         /\ FirstOffset(n) <= n
         /\ n <= NumConnections * FirstOffset(n)
<1> DEFINE q == n \div NumConnections
           r == n % NumConnections
<1>1. NumConnections \in Nat /\ NumConnections > 0
  BY ConnectionsAssumption
<1>2. q \in Nat /\ r \in 0 .. NumConnections - 1 /\ n = NumConnections * q + r
  BY <1>1
<1> HIDE DEF q, r
<1>3. NumConnections * (q + 1) = NumConnections * q + NumConnections
  BY <1>1, <1>2
<1>4. q <= NumConnections * q
  BY <1>1, <1>2
<1>5. FirstOffset(n) = q + IF r # 0 THEN 1 ELSE 0
  BY DEF FirstOffset, q, r
<1>6. CASE r = 0
  BY <1>1, <1>2, <1>4, <1>5, <1>6
<1>7. CASE r # 0
  BY <1>1, <1>2, <1>3, <1>4, <1>5, <1>7
<1> QED
  BY <1>6, <1>7

\* The chunks begin at 0, come one after the other, and end with the vector
LEMMA ChunkStarts ==
  ASSUME NEW n \in Nat, NEW i \in Nat
  PROVE  /\ ChunkStart(n, 0) = 0
         /\ ChunkStart(n, NumConnections) = n
         /\ ChunkStart(n, i) \in Nat /\ ChunkLen(n, i) \in Nat
         /\ ChunkStart(n, i) + ChunkLen(n, i) = ChunkStart(n, i + 1)
         /\ ChunkStart(n, i) <= n
<1> DEFINE whole == FirstOffset(n)
<1>1. whole \in Nat /\ n <= NumConnections * whole
  BY FirstOffsetBounds
<1>2. (i + 1) * whole = i * whole + whole /\ i * whole \in Nat /\ NumConnections * whole \in Nat
  BY <1>1, ConnectionsAssumption
<1>3. 0 * whole = 0
  BY <1>1
<1> DEFINE a == i * whole
           b == NumConnections * whole
<1>4. /\ ChunkStart(n, 0) = IF 0 <= n THEN 0 ELSE n
      /\ ChunkStart(n, NumConnections) = IF b <= n THEN b ELSE n
      /\ ChunkStart(n, i) = IF a <= n THEN a ELSE n
      /\ ChunkStart(n, i + 1) = IF a + whole <= n THEN a + whole ELSE n
  BY <1>2, <1>3 DEF ChunkStart, whole
<1>5. a \in Nat /\ b \in Nat /\ n <= b
  BY <1>1, <1>2
<1> HIDE DEF a, b, whole
<1> QED
  BY <1>1, <1>4, <1>5 DEF ChunkLen

\* A loop that has not begun
LEMMA LoopBegins ==
  ASSUME NEW n \in Nat
  PROVE  ChunkLen(n, 0) = FirstOffset(n)
<1>1. 1 * FirstOffset(n) = FirstOffset(n) /\ 0 * FirstOffset(n) = 0
  BY FirstOffsetBounds
<1> QED
  BY <1>1, FirstOffsetBounds DEF ChunkLen, ChunkStart

\* One iteration of the loop: the offset is cut where it would pass the end
LEMMA LoopGoesOn ==
  ASSUME NEW n \in Nat, NEW i \in Nat
  PROVE  LET next == ChunkStart(n, i) + ChunkLen(n, i)
         IN  ChunkLen(n, i + 1) = IF next + ChunkLen(n, i) > n THEN n - next ELSE ChunkLen(n, i)
<1> DEFINE whole == FirstOffset(n)
           a == i * whole
<1>1. whole \in Nat
  BY FirstOffsetBounds
<1>2. a \in Nat /\ (i + 1) * whole = a + whole /\ (i + 2) * whole = a + whole + whole
  BY <1>1
<1> HIDE DEF whole, a
<1>3. /\ ChunkStart(n, i) = IF a <= n THEN a ELSE n
      /\ ChunkStart(n, i + 1) = IF a + whole <= n THEN a + whole ELSE n
  BY <1>2 DEF ChunkStart, whole, a
<1>4. ChunkStart(n, (i + 1) + 1) = IF a + whole + whole <= n THEN a + whole + whole ELSE n
  <2>1. (i + 1) + 1 = i + 2
    OBVIOUS
  <2> QED
    BY <1>2, <2>1 DEF ChunkStart, whole
<1> QED
  BY <1>1, <1>2, <1>3, <1>4 DEF ChunkLen

\* Threads change their state and keep their chunk
LEMMA BecomeKeeps ==
  ASSUME LoopTypeInv, NEW s \in Side, NEW p \in Ports, NEW from, NEW to \in State,
         Become(s, p, from, to)
  PROVE  /\ thread' \in [Side -> [Ports -> Chunk]]
         /\ \A t \in Side, k \in Ports : /\ thread'[t][k].start = thread[t][k].start
                                         /\ thread'[t][k].len = thread[t][k].len
<1> DEFINE new == [thread[s][p] EXCEPT !.st = to]
           row == [thread[s] EXCEPT ![p] = new]
<1>1. thread \in [Side -> [Ports -> Chunk]]
  BY DEF LoopTypeInv
<1>2. thread[s] \in [Ports -> Chunk] /\ thread[s][p] \in Chunk
  BY <1>1
<1>3. new \in Chunk /\ new.start = thread[s][p].start /\ new.len = thread[s][p].len
  BY <1>2 DEF Chunk
<1>4. thread' = [thread EXCEPT ![s] = row]
  BY DEF Become
<1> HIDE DEF new
<1>5. row \in [Ports -> Chunk]
  BY <1>2, <1>3
<1>6. \A k \in Ports : row[k].start = thread[s][k].start /\ row[k].len = thread[s][k].len
  BY <1>2, <1>3
<1> HIDE DEF row
<1>7. thread' \in [Side -> [Ports -> Chunk]]
  BY <1>1, <1>4, <1>5
<1> QED
  BY <1>1, <1>4, <1>6, <1>7

LEMMA PortsPositive == \A p \in Ports : p \in Nat /\ p > 0
  BY ConnectionsAssumption DEF Ports
-----------------------------------------------------------------------------
(* Every step keeps the invariant *)

\* Steps of the threads leave the loop alone
LEMMA ThreadStep ==
  ASSUME ChunksInv, NEW s \in Side, NEW p \in Ports, NEW from, NEW to \in State,
         Become(s, p, from, to), UNCHANGED <<xfer, loopVars>>
  PROVE  ChunksInv'
<1>1. /\ thread' \in [Side -> [Ports -> Chunk]]
      /\ \A t \in Side, k \in Ports : /\ thread'[t][k].start = thread[t][k].start
                                      /\ thread'[t][k].len = thread[t][k].len
  BY BecomeKeeps DEF ChunksInv
<1>2. LoopTypeInv'
  BY <1>1 DEF ChunksInv, LoopTypeInv, loopVars
<1>3. ASSUME NEW t \in Side, xfer'[t] \in Transfers
      PROVE  /\ start_idx'[t] = ChunkStart(Size(xfer'[t]), idx'[t])
             /\ offset'[t] = ChunkLen(Size(xfer'[t]), idx'[t])
             /\ HandedOut(Size(xfer'[t]), idx'[t], thread'[t])
  <2>1. /\ xfer[t] \in Transfers
        /\ start_idx[t] = ChunkStart(Size(xfer[t]), idx[t])
        /\ offset[t] = ChunkLen(Size(xfer[t]), idx[t])
        /\ HandedOut(Size(xfer[t]), idx[t], thread[t])
    BY <1>3 DEF ChunksInv, LoopInv, loopVars
  <2>2. \A k \in 1 .. idx[t] : k \in Ports
    BY ConnectionsAssumption DEF Ports, ChunksInv, LoopTypeInv
  <2>3. HandedOut(Size(xfer[t]), idx[t], thread'[t])
    BY <1>1, <2>1, <2>2 DEF HandedOut
  <2> QED
    BY <2>1, <2>3 DEF loopVars
<1> QED
  BY <1>2, <1>3 DEF ChunksInv, LoopInv

\* An iteration of the loop
LEMMA SpawnStep ==
  ASSUME ChunksInv, NEW s \in Side, Spawn(s)
  PROVE  ChunksInv'
<1> DEFINE n == Size(xfer[s])
           next == start_idx[s] + offset[s]
           new == IF next + offset[s] > n THEN n - next ELSE offset[s]
           chunk == [st |-> "ready", start |-> start_idx[s], len |-> offset[s]]
           row == [thread[s] EXCEPT ![idx[s] + 1] = chunk]
<1>1. /\ xfer[s] \in Transfers /\ xfer' = xfer
      /\ idx[s] < NumConnections
      /\ thread' = [thread EXCEPT ![s] = row]
      /\ idx' = [idx EXCEPT ![s] = idx[s] + 1]
      /\ start_idx' = [start_idx EXCEPT ![s] = next]
      /\ offset' = [offset EXCEPT ![s] = new]
  BY DEF Spawn
<1>2. /\ xfer \in [Side -> Nat] /\ idx \in [Side -> 0 .. NumConnections]
      /\ start_idx \in [Side -> Nat] /\ offset \in [Side -> Nat]
      /\ thread \in [Side -> [Ports -> Chunk]]
  BY DEF ChunksInv, LoopTypeInv
<1>3. /\ n \in Nat /\ idx[s] \in Nat /\ start_idx[s] \in Nat /\ offset[s] \in Nat
      /\ idx[s] + 1 \in 0 .. NumConnections /\ idx[s] + 1 \in Ports
      /\ thread[s] \in [Ports -> Chunk]
  BY <1>1, <1>2, SizeNat, ConnectionsAssumption DEF Ports
<1>4. /\ start_idx[s] = ChunkStart(n, idx[s]) /\ offset[s] = ChunkLen(n, idx[s])
      /\ HandedOut(n, idx[s], thread[s])
  BY <1>1 DEF ChunksInv, LoopInv
<1>5. /\ new \in Nat
      /\ next = ChunkStart(n, idx[s] + 1) /\ new = ChunkLen(n, idx[s] + 1)
  <2> HIDE DEF n
  <2>1. ChunkStart(n, idx[s]) + ChunkLen(n, idx[s]) = ChunkStart(n, idx[s] + 1)
    BY <1>3, ChunkStarts
  <2>2. new = ChunkLen(n, idx[s] + 1)
    BY <1>3, <1>4, LoopGoesOn
  <2>3. ChunkLen(n, idx[s] + 1) \in Nat
    <3>1. idx[s] + 1 \in Nat
      BY <1>3
    <3> QED
      BY <1>3, <3>1, ChunkStarts
  <2> QED
    BY <1>4, <2>1, <2>2, <2>3
<1>6. chunk \in Chunk /\ chunk.start = start_idx[s] /\ chunk.len = offset[s]
  BY <1>3 DEF Chunk, State
<1> HIDE DEF new, chunk, n
<1>7. row \in [Ports -> Chunk]
  BY <1>3, <1>6
<1>8. /\ row[idx[s] + 1] = chunk
      /\ \A p \in Ports : p # idx[s] + 1 => row[p] = thread[s][p]
  BY <1>3
<1> HIDE DEF row
<1>9. LoopTypeInv'
  <2>1. next \in Nat
    BY <1>3
  <2> HIDE DEF next
  <2> QED
    BY <1>1, <1>2, <1>3, <1>5, <1>7, <2>1 DEF LoopTypeInv
<1>10. HandedOut(n, idx[s] + 1, row)
  <2>1. ASSUME NEW p \in 1 .. idx[s] + 1
        PROVE  row[p].start = ChunkStart(n, p - 1) /\ row[p].len = ChunkLen(n, p - 1)
    <3>1. CASE p = idx[s] + 1
      BY <1>3, <1>4, <1>6, <1>8, <3>1
    <3>2. CASE p # idx[s] + 1
      <4>1. p \in 1 .. idx[s] /\ p \in Ports
        BY <1>3, <3>2, ConnectionsAssumption DEF Ports
      <4> QED
        BY <1>4, <1>8, <3>2, <4>1 DEF HandedOut
    <3> QED
      BY <3>1, <3>2
  <2> QED
    BY <2>1 DEF HandedOut
<1>11. ASSUME NEW t \in Side, xfer'[t] \in Transfers
       PROVE  /\ start_idx'[t] = ChunkStart(Size(xfer'[t]), idx'[t])
              /\ offset'[t] = ChunkLen(Size(xfer'[t]), idx'[t])
              /\ HandedOut(Size(xfer'[t]), idx'[t], thread'[t])
  <2> HIDE DEF next
  <2>1. CASE t = s
    BY <1>1, <1>2, <1>5, <1>10, <2>1 DEF n
  <2>2. CASE t # s
    <3>1. /\ xfer'[t] = xfer[t] /\ idx'[t] = idx[t] /\ start_idx'[t] = start_idx[t]
          /\ offset'[t] = offset[t] /\ thread'[t] = thread[t]
      BY <1>1, <1>2, <2>2
    <3> QED
      BY <1>11, <3>1 DEF ChunksInv, LoopInv
  <2> QED
    BY <2>1, <2>2
<1> QED
  BY <1>9, <1>11 DEF ChunksInv, LoopInv

\* The return, and the beginning of the next transfer
LEMMA JoinStep ==
  ASSUME ChunksInv, NEW s \in Side, Join(s)
  PROVE  ChunksInv'
<1> DEFINE n == Size(xfer[s] + 1)
           row == [p \in Ports |-> Idle]
<1>1. /\ xfer' = [xfer EXCEPT ![s] = xfer[s] + 1]
      /\ thread' = [thread EXCEPT ![s] = row]
      /\ idx' = [idx EXCEPT ![s] = 0]
      /\ start_idx' = [start_idx EXCEPT ![s] = 0]
      /\ offset' = [offset EXCEPT ![s] = FirstOffset(n)]
  BY DEF Join
<1>2. /\ xfer \in [Side -> Nat] /\ idx \in [Side -> 0 .. NumConnections]
      /\ start_idx \in [Side -> Nat] /\ offset \in [Side -> Nat]
      /\ thread \in [Side -> [Ports -> Chunk]]
  BY DEF ChunksInv, LoopTypeInv
<1>3. row \in [Ports -> Chunk]
  BY DEF Chunk, Idle, State
<1>4. n \in Nat /\ FirstOffset(n) \in Nat /\ 0 \in 0 .. NumConnections
  BY SizeNat, FirstOffsetBounds, ConnectionsAssumption
<1>5. 0 = ChunkStart(n, 0) /\ FirstOffset(n) = ChunkLen(n, 0) /\ HandedOut(n, 0, row)
  BY <1>4, ChunkStarts, LoopBegins DEF HandedOut
<1> HIDE DEF row
<1>6. LoopTypeInv'
  BY <1>1, <1>2, <1>3, <1>4 DEF LoopTypeInv
<1>7. ASSUME NEW t \in Side, xfer'[t] \in Transfers
      PROVE  /\ start_idx'[t] = ChunkStart(Size(xfer'[t]), idx'[t])
             /\ offset'[t] = ChunkLen(Size(xfer'[t]), idx'[t])
             /\ HandedOut(Size(xfer'[t]), idx'[t], thread'[t])
  <2>1. CASE t = s
    BY <1>1, <1>2, <1>5, <2>1
  <2>2. CASE t # s
    <3>1. /\ xfer'[t] = xfer[t] /\ idx'[t] = idx[t] /\ start_idx'[t] = start_idx[t]
          /\ offset'[t] = offset[t] /\ thread'[t] = thread[t]
      BY <1>1, <1>2, <2>2
    <3> QED
      BY <1>7, <3>1 DEF ChunksInv, LoopInv
  <2> QED
    BY <2>1, <2>2
<1> QED
  BY <1>6, <1>7 DEF ChunksInv, LoopInv

LEMMA ChunksInit == Init => ChunksInv
<1> SUFFICES ASSUME Init PROVE ChunksInv
  OBVIOUS
<1> DEFINE row == [p \in Ports |-> Idle]
<1>1. /\ xfer = [s \in Side |-> 1] /\ idx = [s \in Side |-> 0]
      /\ start_idx = [s \in Side |-> 0]
      /\ offset = [s \in Side |-> FirstOffset(Size(1))]
      /\ thread = [s \in Side |-> row]
  BY DEF Init
<1>2. row \in [Ports -> Chunk]
  BY DEF Chunk, Idle, State
<1>3. Size(1) \in Nat /\ FirstOffset(Size(1)) \in Nat /\ 0 \in 0 .. NumConnections
  BY SizeNat, FirstOffsetBounds, ConnectionsAssumption
<1>4. /\ 0 = ChunkStart(Size(1), 0) /\ FirstOffset(Size(1)) = ChunkLen(Size(1), 0)
      /\ HandedOut(Size(1), 0, row)
  BY <1>3, ChunkStarts, LoopBegins DEF HandedOut
<1> HIDE DEF row
<1> QED
  BY <1>1, <1>2, <1>3, <1>4 DEF ChunksInv, LoopTypeInv, LoopInv

LEMMA ChunksStep == ChunksInv /\ [Next]_vars => ChunksInv'
<1> SUFFICES ASSUME ChunksInv, [Next]_vars PROVE ChunksInv'
  OBVIOUS
<1>1. CASE UNCHANGED vars
  BY <1>1 DEF ChunksInv, LoopTypeInv, LoopInv, vars, loopVars
<1>2. ASSUME NEW s \in Side, Spawn(s) PROVE ChunksInv'
  BY <1>2, SpawnStep
<1>3. ASSUME NEW s \in Side, Join(s) PROVE ChunksInv'
  BY <1>3, JoinStep
<1>4. ASSUME NEW p \in Ports, Listen(p) PROVE ChunksInv'
  BY <1>4, ThreadStep, Sides DEF Listen, State
<1>5. ASSUME NEW p \in Ports, Accept(p) PROVE ChunksInv'
  BY <1>5, ThreadStep, Sides DEF Accept, State
<1>6. ASSUME NEW p \in Ports, CloseListener(p) PROVE ChunksInv'
  BY <1>6, ThreadStep, Sides DEF CloseListener, State
<1>7. ASSUME NEW p \in Ports, Send(p) PROVE ChunksInv'
  BY <1>7, ThreadStep, Sides DEF Send, State
<1>8. ASSUME NEW p \in Ports, Connect(p) PROVE ChunksInv'
  BY <1>8, ThreadStep, Sides DEF Connect, State
<1>9. ASSUME NEW p \in Ports, Receive(p) PROVE ChunksInv'
  BY <1>9, ThreadStep, Sides DEF Receive, State
<1>10. ASSUME NEW p \in Ports, Spin(p) PROVE ChunksInv'
  BY <1>10, <1>1 DEF Spin
<1>11. CASE Terminated
  BY <1>11, <1>1 DEF Terminated
<1> QED
  BY <1>1, <1>2, <1>3, <1>4, <1>5, <1>6, <1>7, <1>8, <1>9, <1>10, <1>11
     DEF Next, Main, SenderThread, ReceiverThread

LEMMA ChunksInvCovers == ChunksInv => ChunksCover
<1> SUFFICES ASSUME ChunksInv, NEW s \in Side, xfer[s] \in Transfers
             PROVE  /\ start_idx[s] + offset[s] <= Size(xfer[s])
                    /\ \A p \in 1 .. idx[s] :
                         thread[s][p].start + thread[s][p].len
                           = IF p = idx[s] THEN start_idx[s] ELSE thread[s][p + 1].start
                    /\ idx[s] > 0 => thread[s][1].start = 0
                    /\ idx[s] = NumConnections => start_idx[s] = Size(xfer[s])
  BY DEF ChunksCover
<1> DEFINE n == Size(xfer[s])
<1>1. /\ n \in Nat /\ idx[s] \in 0 .. NumConnections
      /\ start_idx[s] = ChunkStart(n, idx[s]) /\ offset[s] = ChunkLen(n, idx[s])
      /\ HandedOut(n, idx[s], thread[s])
  BY SizeNat DEF ChunksInv, LoopTypeInv, LoopInv
<1> HIDE DEF n
<1>2. \A i \in Nat : /\ ChunkStart(n, i) + ChunkLen(n, i) = ChunkStart(n, i + 1)
                     /\ ChunkStart(n, i + 1) <= n
  <2> TAKE i \in Nat
  <2>1. ChunkStart(n, i) + ChunkLen(n, i) = ChunkStart(n, i + 1)
    BY <1>1, ChunkStarts
  <2>2. i + 1 \in Nat
    OBVIOUS
  <2>3. ChunkStart(n, i + 1) <= n
    BY <1>1, <2>2, ChunkStarts
  <2> QED
    BY <2>1, <2>3
<1>3. ChunkStart(n, 0) = 0 /\ ChunkStart(n, NumConnections) = n
  BY <1>1, ChunkStarts
<1>4. \A p \in 1 .. idx[s] :
        thread[s][p].start + thread[s][p].len
          = IF p = idx[s] THEN start_idx[s] ELSE thread[s][p + 1].start
  <2> SUFFICES ASSUME NEW p \in 1 .. idx[s]
               PROVE  thread[s][p].start + thread[s][p].len
                        = IF p = idx[s] THEN start_idx[s] ELSE thread[s][p + 1].start
    OBVIOUS
  <2>1. p - 1 \in Nat /\ (p - 1) + 1 = p /\ (p + 1) - 1 = p
    BY <1>1
  <2>2. thread[s][p].start + thread[s][p].len = ChunkStart(n, p)
    BY <1>1, <1>2, <2>1 DEF HandedOut
  <2>3. CASE p = idx[s]
    BY <1>1, <2>2, <2>3
  <2>4. CASE p # idx[s]
    <3>1. p + 1 \in 1 .. idx[s]
      BY <1>1, <2>4
    <3> QED
      BY <1>1, <2>1, <2>2, <2>4, <3>1 DEF HandedOut
  <2> QED
    BY <2>3, <2>4
<1>5. start_idx[s] + offset[s] <= n
  BY <1>1, <1>2
<1>6. idx[s] > 0 => thread[s][1].start = 0
  BY <1>1, <1>3 DEF HandedOut
<1> QED
  BY <1>1, <1>3, <1>4, <1>5, <1>6 DEF n

(***************************************************************************)
(* For every list of sizes and number of connections, the chunks of every  *)
(* transfer lie end to end inside the vector and in the end cover it.      *)
(***************************************************************************)
THEOREM ChunksAlwaysCover == Spec => []ChunksCover
  BY ChunksInit, ChunksStep, ChunksInvCovers, PTL DEF Spec
-----------------------------------------------------------------------------
(* Consecutive transfers over the same ports *)

\* Port p carries none of the vector of transfer j
Nothing(j, p) == ChunkLen(Size(j), p - 1) = 0

\* Exposed, when the transfers of W are those that Bob starts after Alice
ExposedIn(W, j, p) == j > 1 /\ j \notin W /\ Nothing(j - 1, p)

\* How far side s is with port p of transfer j
Phase(s, j, p) ==
  IF xfer[s] > j THEN "done" ELSE IF xfer[s] = j THEN thread[s][p].st ELSE "none"

SenderState == {"none", "ready", "listening", "accepted", "open", "done"}
ReceiverState == {"none", "ready", "connected", "done"}
Listening == {"listening", "accepted"}
Accepted == {"accepted", "open", "done"}
Connected == {"connected", "done"}

Connection == [st : {"none", "queued", "accepted", "reset"}, peer : Nat, sent : Seq(Nat \X Nat)]

NetTypeInv ==
  /\ listener \in [Ports -> Nat]
  /\ backlog \in [Ports -> Seq(Nat)]
  /\ conn \in [Transfers -> [Ports -> Connection]]
  /\ DOMAIN arr = Transfers
  /\ \A j \in Transfers : DOMAIN arr[j] = 0 .. Size(j) - 1

\* Threads exist as far as the loop has come, in the states of their side
ThreadsInv ==
  /\ \A s \in Side : /\ xfer[s] >= 1
                     /\ xfer[s] \notin Transfers => idx[s] = 0
                     /\ \A p \in Ports : thread[s][p].st # "none" <=> p <= idx[s]
  /\ \A p \in Ports : /\ thread["sender"][p].st \in SenderState
                      /\ thread["receiver"][p].st \in ReceiverState

\* Bob has begun a transfer of W only after Alice got to it
AwaitedInv(W) ==
  xfer["receiver"] \in W /\ idx["receiver"] > 0 => xfer["sender"] >= xfer["receiver"]

\* What is sent on port p of transfer j
Part(j, p) ==
  [k \in 1 .. ChunkLen(Size(j), p - 1) |-> Cell(j, ChunkStart(Size(j), p - 1) + k - 1)]

\* What is received on it
PartCells(j, p) == ChunkStart(Size(j), p - 1) .. ChunkStart(Size(j), p) - 1

\* The connection of transfer j on port p, by the state it is in
QueuedInv(W, j, p) ==
  /\ listener[p] \in Transfers /\ j >= listener[p]
  /\ j > listener[p] => ExposedIn(W, j, p) /\ Nothing(listener[p], p)
  /\ Phase("sender", listener[p], p) = "accepted" => j > listener[p]

AcceptedInv(W, j, p) ==
  LET i == conn[j][p].peer
  IN  /\ i \in Transfers /\ Phase("sender", i, p) \in Accepted
      /\ i # j => ExposedIn(W, j, p) /\ Nothing(i, p)

\* Alice's thread of transfer j has sent its chunk over the connection of Bob's
Delivered(j, p) ==
  conn[j][p].st = "accepted" /\ conn[j][p].peer = j /\ Phase("sender", j, p) = "done"

ConnectionInv(W, j, p) ==
  /\ conn[j][p].st = "none" <=> Phase("receiver", j, p) \notin Connected
  /\ Phase("sender", j, p) \in Accepted => Phase("receiver", j, p) \in Connected
  /\ conn[j][p].st = "queued" => QueuedInv(W, j, p)
  /\ conn[j][p].st = "accepted" => AcceptedInv(W, j, p)
  /\ conn[j][p].st = "reset" => ExposedIn(W, j, p)
  /\ conn[j][p].sent = IF Delivered(j, p) THEN Part(j, p) ELSE <<>>
  /\ Phase("receiver", j, p) = "done" =>
       /\ Nothing(j, p) \/ Delivered(j, p)
       /\ \A k \in PartCells(j, p) : arr[j][k] = Cell(j, k)

\* A port has the listening socket of a sender's thread that has not closed it
ListenerInv(p) ==
  /\ listener[p] \in Transfers \cup {0}
  /\ \A i \in Transfers : Phase("sender", i, p) \in Listening <=> listener[p] = i

\* Queued there are the connections in that state, in the order of their transfers
BacklogInv(p) ==
  /\ \A q \in 1 .. Len(backlog[p]) :
       backlog[p][q] \in Transfers /\ conn[backlog[p][q]][p].st = "queued"
  /\ \A q, r \in 1 .. Len(backlog[p]) : q < r => backlog[p][q] < backlog[p][r]
  /\ \A j \in Transfers :
       conn[j][p].st = "queued" => \E q \in 1 .. Len(backlog[p]) : backlog[p][q] = j

PortInv(W, p) ==
  (\A j \in Transfers : ConnectionInv(W, j, p)) /\ ListenerInv(p) /\ BacklogInv(p)

OwnInv(W) ==
  NetTypeInv /\ ThreadsInv /\ AwaitedInv(W) /\ \A p \in Ports : PortInv(W, p)
-----------------------------------------------------------------------------
(* What the steps of the threads do to the phases *)

LEMMA XferNat == ChunksInv => xfer \in [Side -> Nat] /\ idx \in [Side -> 0 .. NumConnections]
  BY DEF ChunksInv, LoopTypeInv

LEMMA TransfersNat == Transfers \subseteq Nat \ {0} /\ Transfers = 1 .. Len(Sizes)
  BY SizesAssumption DEF Transfers

\* Past transfers are done, the present one is where its thread is, others have not begun
LEMMA PhaseIs ==
  ASSUME ChunksInv, NEW s \in Side, NEW j \in Transfers, NEW p \in Ports
  PROVE  /\ j \in Nat /\ xfer[s] \in Nat
         /\ j < xfer[s] => Phase(s, j, p) = "done"
         /\ j = xfer[s] => Phase(s, j, p) = thread[s][p].st
         /\ j > xfer[s] => Phase(s, j, p) = "none"
<1>1. xfer[s] \in Nat /\ j \in Nat
  BY XferNat, TransfersNat
<1> QED
  BY <1>1 DEF Phase

\* A thread that changes its state is one of the present transfer
LEMMA BecomePhase ==
  ASSUME ChunksInv, ThreadsInv, NEW s \in Side, NEW p \in Ports,
         NEW from \in State \ {"none"}, NEW to \in State,
         Become(s, p, from, to), xfer' = xfer
  PROVE  /\ xfer[s] \in Transfers /\ thread[s][p].st = from /\ p \in 1 .. idx[s]
         /\ \A t \in Side, q \in Ports :
              thread'[t][q].st = IF t = s /\ q = p THEN to ELSE thread[t][q].st
         /\ \A t \in Side, j \in Transfers, q \in Ports :
              Phase(t, j, q)' = IF t = s /\ j = xfer[s] /\ q = p THEN to ELSE Phase(t, j, q)
         /\ Phase(s, xfer[s], p) = from
<1> DEFINE new == [thread[s][p] EXCEPT !.st = to]
           row == [thread[s] EXCEPT ![p] = new]
<1>1. /\ thread \in [Side -> [Ports -> Chunk]]
      /\ xfer \in [Side -> Nat] /\ idx \in [Side -> 0 .. NumConnections]
  BY DEF ChunksInv, LoopTypeInv
<1>2. thread[s][p].st = from /\ thread' = [thread EXCEPT ![s] = row]
  BY DEF Become
<1>3. p \in 1 .. idx[s]
  BY <1>1, <1>2, PortsPositive DEF ThreadsInv
<1>4. xfer[s] \in Transfers
  BY <1>1, <1>3 DEF ThreadsInv
<1>5. thread[s] \in [Ports -> Chunk] /\ thread[s][p] \in Chunk
  BY <1>1
<1>6. new.st = to
  BY <1>5 DEF Chunk
<1> HIDE DEF new
<1>7. \A q \in Ports : row[q] = IF q = p THEN new ELSE thread[s][q]
  BY <1>5
<1> HIDE DEF row
<1>8. \A t \in Side : thread'[t] = IF t = s THEN row ELSE thread[t]
  BY <1>1, <1>2
<1>9. \A t \in Side, q \in Ports :
        thread'[t][q].st = IF t = s /\ q = p THEN to ELSE thread[t][q].st
  BY <1>6, <1>7, <1>8
<1>10. \A t \in Side, j \in Transfers, q \in Ports :
         Phase(t, j, q)' = IF t = s /\ j = xfer[s] /\ q = p THEN to ELSE Phase(t, j, q)
  <2> TAKE t \in Side, j \in Transfers, q \in Ports
  <2>1. xfer[s] \in Nat /\ xfer[t] \in Nat /\ j \in Nat
    BY <1>1, TransfersNat
  <2> QED
    BY <1>2, <1>9, <2>1 DEF Phase
<1>11. Phase(s, xfer[s], p) = from
  BY <1>1, <1>2 DEF Phase
<1> QED
  BY <1>2, <1>3, <1>4, <1>9, <1>10, <1>11

\* ... and keeps the loops and the threads in order
LEMMA BecomeThreads ==
  ASSUME NEW W, ChunksInv, ThreadsInv, AwaitedInv(W), NEW s \in Side, NEW p \in Ports,
         NEW from \in State \ {"none"}, NEW to \in State \ {"none"},
         s = "sender" => to \in SenderState, s = "receiver" => to \in ReceiverState,
         Become(s, p, from, to), UNCHANGED <<xfer, loopVars>>
  PROVE  ThreadsInv' /\ AwaitedInv(W)'
<1>1. /\ xfer' = xfer /\ idx' = idx /\ p \in 1 .. idx[s]
      /\ \A t \in Side, q \in Ports :
           thread'[t][q].st = IF t = s /\ q = p THEN to ELSE thread[t][q].st
  BY BecomePhase DEF loopVars
<1>2. ThreadsInv'
  <2>1. ASSUME NEW t \in Side, NEW q \in Ports
        PROVE  thread'[t][q].st # "none" <=> q <= idx'[t]
    BY <1>1, <2>1, XferNat DEF ThreadsInv
  <2>2. ASSUME NEW q \in Ports
        PROVE  thread'["sender"][q].st \in SenderState /\ thread'["receiver"][q].st \in ReceiverState
    BY <1>1, <2>2, Sides DEF ThreadsInv
  <2> QED
    BY <1>1, <2>1, <2>2 DEF ThreadsInv
<1> QED
  BY <1>1, <1>2 DEF AwaitedInv

\* Two phases the invariant of a port does not tell apart
SamePhase(u, v) == u = v \/ {u, v} \subseteq {"none", "ready"}

\* A port whose connections and whose listener are left alone
LEMMA PortKept ==
  ASSUME NEW W, NEW p \in Ports, PortInv(W, p),
         \A t \in Side, j \in Transfers : SamePhase(Phase(t, j, p), Phase(t, j, p)'),
         \A j \in Transfers : conn'[j][p] = conn[j][p],
         listener'[p] = listener[p], backlog'[p] = backlog[p],
         \A j \in Transfers : \A k \in PartCells(j, p) : arr'[j][k] \in {arr[j][k], Cell(j, k)}
  PROVE  PortInv(W, p)'
<1>1. \A t \in Side, j \in Transfers :
        /\ Phase(t, j, p)' \in Accepted <=> Phase(t, j, p) \in Accepted
        /\ Phase(t, j, p)' \in Listening <=> Phase(t, j, p) \in Listening
        /\ Phase(t, j, p)' \in Connected <=> Phase(t, j, p) \in Connected
        /\ Phase(t, j, p)' = "done" <=> Phase(t, j, p) = "done"
        /\ Phase(t, j, p)' = "accepted" <=> Phase(t, j, p) = "accepted"
  BY DEF SamePhase, Accepted, Listening, Connected
<1>2. ASSUME NEW j \in Transfers PROVE ConnectionInv(W, j, p)'
  <2>1. ConnectionInv(W, j, p)
    BY DEF PortInv
  <2>2. Delivered(j, p)' <=> Delivered(j, p)
    BY <1>1, Sides DEF Delivered
  <2>3. QueuedInv(W, j, p) => QueuedInv(W, j, p)'
    BY <1>1, Sides DEF QueuedInv
  <2>4. AcceptedInv(W, j, p) => AcceptedInv(W, j, p)'
    BY <1>1, Sides DEF AcceptedInv
  <2> QED
    BY <1>1, <2>1, <2>2, <2>3, <2>4, Sides DEF ConnectionInv
<1>3. ListenerInv(p)'
  BY <1>1, Sides DEF PortInv, ListenerInv
<1>4. BacklogInv(p)'
  BY DEF PortInv, BacklogInv
<1> QED
  BY <1>2, <1>3, <1>4 DEF PortInv

\* The other ports are left alone by a step of a thread
LEMMA OthersKept ==
  ASSUME NEW W, ChunksInv, OwnInv(W), NEW s \in Side, NEW p \in Ports,
         NEW from \in State \ {"none"}, NEW to \in State,
         Become(s, p, from, to), xfer' = xfer,
         NEW q \in Ports, q # p,
         \A j \in Transfers : conn'[j][q] = conn[j][q],
         listener'[q] = listener[q], backlog'[q] = backlog[q],
         \A j \in Transfers : \A k \in PartCells(j, q) : arr'[j][k] \in {arr[j][k], Cell(j, k)}
  PROVE  PortInv(W, q)'
<1>1. \A t \in Side, j \in Transfers : Phase(t, j, q)' = Phase(t, j, q)
  BY BecomePhase DEF OwnInv
<1>2. PortInv(W, q)
  BY DEF OwnInv
<1> QED
  BY <1>1, <1>2, PortKept DEF SamePhase

\* One connection changes
LEMMA ConnSet ==
  ASSUME NetTypeInv, NEW i \in Transfers, NEW p \in Ports, NEW c \in Connection,
         conn' = [conn EXCEPT ![i][p] = c]
  PROVE  /\ conn' \in [Transfers -> [Ports -> Connection]]
         /\ \A j \in Transfers, q \in Ports :
              conn'[j][q] = IF j = i /\ q = p THEN c ELSE conn[j][q]
<1> DEFINE row == [conn[i] EXCEPT ![p] = c]
<1>1. conn \in [Transfers -> [Ports -> Connection]] /\ conn' = [conn EXCEPT ![i] = row]
  BY DEF NetTypeInv
<1>2. row \in [Ports -> Connection] /\ \A q \in Ports : row[q] = IF q = p THEN c ELSE conn[i][q]
  BY <1>1
<1> HIDE DEF row
<1> QED
  BY <1>1, <1>2

\* What a port carries is a sequence of elements of the vector
LEMMA PartSeq ==
  ASSUME NEW j \in Transfers, NEW p \in Ports
  PROVE  /\ ChunkStart(Size(j), p - 1) \in Nat /\ ChunkLen(Size(j), p - 1) \in Nat
         /\ ChunkStart(Size(j), p - 1) + ChunkLen(Size(j), p - 1) = ChunkStart(Size(j), p)
         /\ Part(j, p) \in Seq(Nat \X Nat) /\ Len(Part(j, p)) = ChunkLen(Size(j), p - 1)
<1> DEFINE start == ChunkStart(Size(j), p - 1)
           len == ChunkLen(Size(j), p - 1)
<1>1. p - 1 \in Nat /\ (p - 1) + 1 = p
  BY PortsPositive
<1>2. start \in Nat /\ len \in Nat /\ start + len = ChunkStart(Size(j), p)
  <2>1. Size(j) \in Nat
    BY SizeNat
  <2>2. start \in Nat /\ len \in Nat /\ start + len = ChunkStart(Size(j), (p - 1) + 1)
    BY <1>1, <2>1, ChunkStarts
  <2> QED
    BY <1>1, <2>2
<1>3. j \in Nat
  BY TransfersNat
<1>4. Part(j, p) = [k \in 1 .. len |-> Cell(j, start + k - 1)]
  BY DEF Part
<1> HIDE DEF start, len
<1>5. Part(j, p) \in [1 .. len -> Nat \X Nat]
  BY <1>2, <1>3, <1>4 DEF Cell
<1>6. Part(j, p) \in Seq(Nat \X Nat) /\ Len(Part(j, p)) = len
  BY <1>2, <1>5
<1> QED
  BY <1>2, <1>6 DEF start, len
-----------------------------------------------------------------------------
(* The sender's threads *)
LEMMA ListenStep ==
  ASSUME NEW W, ChunksInv, OwnInv(W), NEW p \in Ports, Listen(p)
  PROVE  OwnInv(W)'
<1> DEFINE i == xfer["sender"]
<1>1. /\ Become("sender", p, "ready", "listening")
      /\ listener[p] = 0 /\ listener' = [listener EXCEPT ![p] = i]
      /\ UNCHANGED <<xfer, loopVars, backlog, conn, arr>>
  BY DEF Listen
<1>2. "ready" \in State \ {"none"} /\ "listening" \in State \ {"none"} /\ "listening" \in SenderState
  BY DEF State, SenderState
<1>3. "sender" \in Side /\ "receiver" \in Side /\ "sender" # "receiver"
  BY DEF Side
<1>4. /\ i \in Transfers /\ Phase("sender", i, p) = "ready"
      /\ \A t \in Side, j \in Transfers, q \in Ports :
           Phase(t, j, q)' = IF t = "sender" /\ j = i /\ q = p THEN "listening" ELSE Phase(t, j, q)
  BY <1>1, <1>2, <1>3, BecomePhase DEF OwnInv
<1>5. ThreadsInv' /\ AwaitedInv(W)'
  BY <1>1, <1>2, <1>3, BecomeThreads DEF OwnInv
<1>6. NetTypeInv' /\ \A q \in Ports : listener'[q] = IF q = p THEN i ELSE listener[q]
  BY <1>1, <1>4, TransfersNat DEF OwnInv, NetTypeInv
<1>7. ASSUME NEW q \in Ports, q # p PROVE PortInv(W, q)'
  BY <1>1, <1>2, <1>3, <1>6, <1>7, OthersKept
<1>8. PortInv(W, p) /\ \A j \in Transfers : j # 0
  BY TransfersNat DEF OwnInv
<1>9. ASSUME NEW j \in Transfers PROVE ConnectionInv(W, j, p)'
  <2>1. ConnectionInv(W, j, p)
    BY <1>8 DEF PortInv
  \* nobody listened, so nothing is queued
  <2>2. conn[j][p].st # "queued"
    BY <1>1, <1>8, <2>1 DEF ConnectionInv, QueuedInv
  <2>3. \A k \in Transfers : /\ Phase("sender", k, p)' \in Accepted <=> Phase("sender", k, p) \in Accepted
                             /\ Phase("sender", k, p)' = "done" <=> Phase("sender", k, p) = "done"
                             /\ Phase("receiver", k, p)' = Phase("receiver", k, p)
    BY <1>3, <1>4 DEF Accepted
  <2>4. AcceptedInv(W, j, p) => AcceptedInv(W, j, p)'
    BY <1>1, <2>3 DEF AcceptedInv
  <2>5. Delivered(j, p)' <=> Delivered(j, p)
    BY <1>1, <2>3 DEF Delivered
  <2> QED
    BY <1>1, <2>1, <2>2, <2>3, <2>4, <2>5 DEF ConnectionInv
<1>10. ListenerInv(p)'
  BY <1>1, <1>3, <1>4, <1>6, <1>8 DEF PortInv, ListenerInv, Listening
<1>11. BacklogInv(p)'
  BY <1>1, <1>8 DEF PortInv, BacklogInv
<1> QED
  BY <1>5, <1>6, <1>7, <1>9, <1>10, <1>11 DEF OwnInv, PortInv

\* Alice accepts what has been queued first: the connection of her own
\* transfer, unless Bob has gone on without it having carried anything
LEMMA AcceptStep ==
  ASSUME NEW W, ChunksInv, OwnInv(W), NEW p \in Ports, Accept(p)
  PROVE  OwnInv(W)'
<1> DEFINE i == xfer["sender"]
           k == Head(backlog[p])
           new == [conn[k][p] EXCEPT !.st = "accepted", !.peer = i]
<1>1. /\ Become("sender", p, "listening", "accepted") /\ backlog[p] # <<>>
      /\ backlog' = [backlog EXCEPT ![p] = Tail(backlog[p])]
      /\ UNCHANGED <<xfer, loopVars, listener, arr>>
  BY DEF Accept
<1>2. "listening" \in State \ {"none"} /\ "accepted" \in State \ {"none"} /\ "accepted" \in SenderState
  BY DEF State, SenderState
<1>3. "sender" \in Side /\ "receiver" \in Side /\ "sender" # "receiver"
  BY DEF Side
<1>4. /\ i \in Transfers /\ Phase("sender", i, p) = "listening"
      /\ \A t \in Side, j \in Transfers, q \in Ports :
           Phase(t, j, q)' = IF t = "sender" /\ j = i /\ q = p THEN "accepted" ELSE Phase(t, j, q)
  BY <1>1, <1>2, <1>3, BecomePhase DEF OwnInv
<1>5. ThreadsInv' /\ AwaitedInv(W)'
  BY <1>1, <1>2, <1>3, BecomeThreads DEF OwnInv
<1>6. NetTypeInv /\ PortInv(W, p) /\ Transfers \subseteq Nat
  BY TransfersNat DEF OwnInv
<1>7. listener[p] = i
  BY <1>4, <1>6 DEF PortInv, ListenerInv, Listening
<1>8. /\ backlog[p] \in Seq(Nat) /\ Len(backlog[p]) \in Nat /\ Len(backlog[p]) >= 1
      /\ k = backlog[p][1]
      /\ Tail(backlog[p]) \in Seq(Nat) /\ Len(Tail(backlog[p])) = Len(backlog[p]) - 1
      /\ \A q \in 1 .. Len(backlog[p]) - 1 : Tail(backlog[p])[q] = backlog[p][q + 1]
  <2>1. backlog[p] \in Seq(Nat)
    BY <1>6 DEF NetTypeInv
  <2> QED
    BY <1>1, <2>1
<1>9. k \in Transfers /\ conn[k][p].st = "queued" /\ ConnectionInv(W, k, p)
  BY <1>6, <1>8 DEF PortInv, BacklogInv
<1>10. k >= i /\ (k > i => ExposedIn(W, k, p) /\ Nothing(i, p)) /\ k \in Nat /\ i \in Nat
  BY <1>4, <1>6, <1>7, <1>9 DEF ConnectionInv, QueuedInv
<1>11. /\ new \in Connection /\ new.st = "accepted" /\ new.peer = i
       /\ new.sent = conn[k][p].sent /\ conn' = [conn EXCEPT ![k][p] = new]
  <2>1. conn[k][p] \in Connection
    BY <1>6, <1>9 DEF NetTypeInv
  <2>2. /\ new \in Connection /\ new.st = "accepted" /\ new.peer = i
        /\ new.sent = conn[k][p].sent
    BY <1>10, <2>1 DEF Connection
  <2>3. conn' = [conn EXCEPT ![k][p] = new]
    BY DEF Accept
  <2> QED
    BY <2>2, <2>3
<1> HIDE DEF new, k
<1>12. /\ conn' \in [Transfers -> [Ports -> Connection]]
       /\ \A j \in Transfers, q \in Ports :
            conn'[j][q] = IF j = k /\ q = p THEN new ELSE conn[j][q]
  BY <1>6, <1>9, <1>11, ConnSet
<1>13. NetTypeInv' /\ \A q \in Ports : backlog'[q] = IF q = p THEN Tail(backlog[p]) ELSE backlog[q]
  BY <1>1, <1>6, <1>8, <1>12 DEF NetTypeInv
<1>14. ASSUME NEW q \in Ports, q # p PROVE PortInv(W, q)'
  BY <1>1, <1>2, <1>3, <1>12, <1>13, <1>14, OthersKept
<1>15. \A j \in Transfers :
         /\ Phase("sender", j, p)' \in Accepted <=> Phase("sender", j, p) \in Accepted \/ j = i
         /\ Phase("sender", j, p)' = "done" <=> Phase("sender", j, p) = "done"
         /\ Phase("receiver", j, p)' = Phase("receiver", j, p)
  BY <1>3, <1>4 DEF Accepted
<1>16. Phase("receiver", k, p) \in Connected
  BY <1>9 DEF ConnectionInv
\* Bob has come to the present transfer, or past it
<1>17. Phase("receiver", i, p) \in Connected
  <2>1. CASE k = i
    BY <1>16, <2>1
  <2>2. CASE k > i
    <3>1. k <= xfer["receiver"] /\ xfer["receiver"] \in Nat
      BY <1>3, <1>9, <1>16, PhaseIs DEF Connected
    <3>2. i < xfer["receiver"]
      BY <1>10, <2>2, <3>1
    <3> QED
      BY <1>3, <1>4, <3>2, PhaseIs DEF Connected
  <2> QED
    BY <1>10, <2>1, <2>2
<1>18. ASSUME NEW j \in Transfers, conn[j][p].st = "queued", j # k
       PROVE  j > i /\ \E q \in 1 .. Len(backlog[p]) - 1 : Tail(backlog[p])[q] = j
  <2>1. PICK q \in 1 .. Len(backlog[p]) : backlog[p][q] = j
    BY <1>6, <1>18 DEF PortInv, BacklogInv
  <2>2. q > 1 /\ q - 1 \in 1 .. Len(backlog[p]) - 1 /\ (q - 1) + 1 = q /\ 1 \in 1 .. Len(backlog[p])
    BY <1>8, <1>18, <2>1
  <2>3. j > k /\ j \in Nat
    BY <1>6, <1>8, <2>1, <2>2 DEF PortInv, BacklogInv
  <2>4. Tail(backlog[p])[q - 1] = j
    BY <1>8, <2>1, <2>2
  <2> QED
    BY <1>10, <2>2, <2>3, <2>4
<1>19. ASSUME NEW j \in Transfers PROVE ConnectionInv(W, j, p)'
  <2>1. ConnectionInv(W, j, p)
    BY <1>6 DEF PortInv
  <2>2. Phase("sender", j, p)' \in Accepted => Phase("receiver", j, p)' \in Connected
    BY <1>15, <1>17, <2>1 DEF ConnectionInv
  <2>3. CASE j = k
    <3>1. conn'[j][p] = new /\ conn[j][p].st = "queued"
      BY <1>9, <1>12, <2>3
    <3>2. AcceptedInv(W, j, p)'
      BY <1>4, <1>10, <1>11, <1>15, <2>3, <3>1 DEF AcceptedInv
    <3>3. ~ Delivered(j, p) /\ ~ Delivered(j, p)'
      BY <1>3, <1>4, <1>11, <3>1 DEF Delivered
    <3> QED
      BY <1>1, <1>11, <1>15, <1>16, <2>1, <2>2, <2>3, <3>1, <3>2, <3>3 DEF ConnectionInv
  <2>4. CASE j # k
    <3>1. conn'[j][p] = conn[j][p]
      BY <1>12, <2>4
    <3>2. conn[j][p].st = "queued" => QueuedInv(W, j, p)'
      BY <1>1, <1>7, <1>18, <2>1, <2>4 DEF ConnectionInv, QueuedInv
    <3>3. AcceptedInv(W, j, p) => AcceptedInv(W, j, p)'
      BY <1>15, <3>1 DEF AcceptedInv
    <3>4. Delivered(j, p)' <=> Delivered(j, p)
      BY <1>15, <3>1 DEF Delivered
    <3> QED
      BY <1>1, <1>15, <2>1, <2>2, <3>1, <3>2, <3>3, <3>4 DEF ConnectionInv
  <2> QED
    BY <2>3, <2>4
<1>20. ListenerInv(p)'
  BY <1>1, <1>3, <1>4, <1>6, <1>7 DEF PortInv, ListenerInv, Listening
<1>21. BacklogInv(p)'
  <2>1. backlog'[p] = Tail(backlog[p]) /\ Len(backlog'[p]) = Len(backlog[p]) - 1
    BY <1>8, <1>13
  <2>2. ASSUME NEW q \in 1 .. Len(backlog[p]) - 1
        PROVE  /\ backlog'[p][q] = backlog[p][q + 1] /\ backlog'[p][q] \in Transfers
               /\ conn'[backlog'[p][q]][p].st = "queued"
    <3>1. /\ backlog'[p][q] = backlog[p][q + 1] /\ q + 1 \in 1 .. Len(backlog[p])
          /\ 1 \in 1 .. Len(backlog[p]) /\ 1 < q + 1
      BY <1>8, <2>1, <2>2
    <3>2. /\ backlog[p][q + 1] \in Transfers /\ conn[backlog[p][q + 1]][p].st = "queued"
          /\ backlog[p][1] < backlog[p][q + 1]
      BY <1>6, <3>1 DEF PortInv, BacklogInv
    <3>3. backlog[p][q + 1] # k
      BY <1>6, <1>8, <1>9, <3>2
    <3> QED
      BY <1>12, <3>1, <3>2, <3>3
  <2>3. ASSUME NEW q \in 1 .. Len(backlog[p]) - 1, NEW r \in 1 .. Len(backlog[p]) - 1, q < r
        PROVE  backlog'[p][q] < backlog'[p][r]
    <3>1. q + 1 \in 1 .. Len(backlog[p]) /\ r + 1 \in 1 .. Len(backlog[p]) /\ q + 1 < r + 1
      BY <1>8, <2>3
    <3> QED
      BY <1>6, <2>2, <3>1 DEF PortInv, BacklogInv
  <2>4. ASSUME NEW j \in Transfers, conn'[j][p].st = "queued"
        PROVE  \E q \in 1 .. Len(backlog[p]) - 1 : backlog'[p][q] = j
    <3>1. j # k
      BY <1>11, <1>12, <2>4
    <3>2. conn[j][p].st = "queued"
      BY <1>12, <2>4, <3>1
    <3> QED
      BY <1>18, <2>1, <3>1, <3>2
  <2> QED
    BY <2>1, <2>2, <2>3, <2>4 DEF BacklogInv
<1> QED
  BY <1>5, <1>13, <1>14, <1>19, <1>20, <1>21 DEF OwnInv, PortInv

\* What is still queued is of later transfers, and reset
LEMMA CloseListenerStep ==
  ASSUME NEW W, ChunksInv, OwnInv(W), NEW p \in Ports, CloseListener(p)
  PROVE  OwnInv(W)'
<1> DEFINE i == xfer["sender"]
           lost(j) == [conn[j][p] EXCEPT !.st = "reset"]
<1>1. /\ Become("sender", p, "accepted", "open")
      /\ listener' = [listener EXCEPT ![p] = 0] /\ backlog' = [backlog EXCEPT ![p] = <<>>]
      /\ UNCHANGED <<xfer, loopVars, arr>>
  BY DEF CloseListener
<1>2. "accepted" \in State \ {"none"} /\ "open" \in State \ {"none"} /\ "open" \in SenderState
  BY DEF State, SenderState
<1>3. "sender" \in Side /\ "receiver" \in Side /\ "sender" # "receiver"
  BY DEF Side
<1>4. /\ i \in Transfers /\ Phase("sender", i, p) = "accepted"
      /\ \A t \in Side, j \in Transfers, q \in Ports :
           Phase(t, j, q)' = IF t = "sender" /\ j = i /\ q = p THEN "open" ELSE Phase(t, j, q)
  BY <1>1, <1>2, <1>3, BecomePhase DEF OwnInv
<1>5. ThreadsInv' /\ AwaitedInv(W)'
  BY <1>1, <1>2, <1>3, BecomeThreads DEF OwnInv
<1>6. NetTypeInv /\ conn \in [Transfers -> [Ports -> Connection]] /\ PortInv(W, p)
      /\ Transfers \subseteq Nat \ {0}
  BY TransfersNat DEF OwnInv, NetTypeInv
<1>7. listener[p] = i
  BY <1>4, <1>6 DEF PortInv, ListenerInv, Listening
<1>8. ASSUME NEW j \in Transfers
      PROVE  /\ lost(j) \in Connection /\ lost(j).st = "reset"
             /\ lost(j).sent = conn[j][p].sent /\ lost(j).peer = conn[j][p].peer
  <2>1. conn[j][p] \in Connection
    BY <1>6
  <2> QED
    BY <2>1 DEF Connection
<1> HIDE DEF lost
<1>9. ASSUME NEW j \in Transfers
      PROVE  /\ conn'[j] \in [Ports -> Connection]
             /\ \A q \in Ports :
                  conn'[j][q] = IF q = p /\ conn[j][p].st = "queued" THEN lost(j) ELSE conn[j][q]
  <2> DEFINE c == IF conn[j][p].st = "queued" THEN lost(j) ELSE conn[j][p]
  <2>1. conn'[j] = [conn[j] EXCEPT ![p] = c]
    BY Zenon DEF CloseListener, lost
  <2>2. c \in Connection
    BY <1>6, <1>8
  <2>3. c = IF conn[j][p].st = "queued" THEN lost(j) ELSE conn[j][p]
    OBVIOUS
  <2> HIDE DEF c
  <2> QED
    BY <1>6, <2>1, <2>2, <2>3
<1>10. NetTypeInv' /\ \A q \in Ports : /\ backlog'[q] = IF q = p THEN <<>> ELSE backlog[q]
                                       /\ listener'[q] = IF q = p THEN 0 ELSE listener[q]
  <2>1. conn' = [j \in Transfers |-> conn'[j]]
    BY Zenon DEF CloseListener
  <2>2. conn' \in [Transfers -> [Ports -> Connection]]
    BY <1>9, <2>1
  <2> QED
    BY <1>1, <1>6, <2>2 DEF NetTypeInv
<1>11. ASSUME NEW q \in Ports, q # p PROVE PortInv(W, q)'
  BY <1>1, <1>2, <1>3, <1>9, <1>10, <1>11, OthersKept
<1>12. \A j \in Transfers :
         /\ Phase("sender", j, p)' \in Accepted <=> Phase("sender", j, p) \in Accepted
         /\ Phase("sender", j, p)' = "done" <=> Phase("sender", j, p) = "done"
         /\ Phase("receiver", j, p)' = Phase("receiver", j, p)
  BY <1>3, <1>4 DEF Accepted
<1>13. ASSUME NEW j \in Transfers PROVE ConnectionInv(W, j, p)'
  <2>1. ConnectionInv(W, j, p)
    BY <1>6 DEF PortInv
  <2>2. CASE conn[j][p].st = "queued"
    <3>1. conn'[j][p] = lost(j)
      BY <1>9, <2>2
    <3>2. ExposedIn(W, j, p)
      BY <1>4, <1>7, <2>1, <2>2 DEF ConnectionInv, QueuedInv
    <3>3. ~ Delivered(j, p) /\ ~ Delivered(j, p)'
      BY <1>8, <2>2, <3>1 DEF Delivered
    <3> QED
      BY <1>1, <1>8, <1>12, <2>1, <2>2, <3>1, <3>2, <3>3 DEF ConnectionInv
  <2>3. CASE conn[j][p].st # "queued"
    <3>1. conn'[j][p] = conn[j][p]
      BY <1>9, <2>3
    <3>2. AcceptedInv(W, j, p) => AcceptedInv(W, j, p)'
      BY <1>12, <3>1 DEF AcceptedInv
    <3>3. Delivered(j, p)' <=> Delivered(j, p)
      BY <1>12, <3>1 DEF Delivered
    <3> QED
      BY <1>1, <1>12, <2>1, <2>3, <3>1, <3>2, <3>3 DEF ConnectionInv
  <2> QED
    BY <2>2, <2>3
<1>14. ListenerInv(p)'
  BY <1>3, <1>4, <1>6, <1>7, <1>10 DEF PortInv, ListenerInv, Listening
<1>15. BacklogInv(p)'
  <2>1. backlog'[p] = <<>> /\ Len(<<>>) = 0
    BY <1>10
  <2>2. \A j \in Transfers : conn'[j][p].st # "queued"
    BY <1>8, <1>9
  <2> QED
    BY <2>1, <2>2 DEF BacklogInv
<1> QED
  BY <1>5, <1>10, <1>11, <1>13, <1>14, <1>15 DEF OwnInv, PortInv
\* What carries nothing for Alice's transfer gets nothing, whoever's it is
LEMMA SendStep ==
  ASSUME NEW W, ChunksInv, OwnInv(W), NEW p \in Ports, Send(p)
  PROVE  OwnInv(W)'
<1> DEFINE i == xfer["sender"]
           full(j) == [conn[j][p] EXCEPT !.sent = Part(i, p)]
           Mine(j) == conn[j][p].st = "accepted" /\ conn[j][p].peer = i
<1>1. Become("sender", p, "open", "done") /\ UNCHANGED <<xfer, loopVars, listener, backlog, arr>>
  BY DEF Send
<1>2. "open" \in State \ {"none"} /\ "done" \in State \ {"none"} /\ "done" \in SenderState
  BY DEF State, SenderState
<1>3. "sender" \in Side /\ "receiver" \in Side /\ "sender" # "receiver"
  BY DEF Side
<1>4. /\ i \in Transfers /\ Phase("sender", i, p) = "open" /\ p \in 1 .. idx["sender"]
      /\ \A t \in Side, j \in Transfers, q \in Ports :
           Phase(t, j, q)' = IF t = "sender" /\ j = i /\ q = p THEN "done" ELSE Phase(t, j, q)
  BY <1>1, <1>2, <1>3, BecomePhase DEF OwnInv
<1>5. ThreadsInv' /\ AwaitedInv(W)'
  BY <1>1, <1>2, <1>3, BecomeThreads DEF OwnInv
<1>6. NetTypeInv /\ conn \in [Transfers -> [Ports -> Connection]] /\ PortInv(W, p)
  BY DEF OwnInv, NetTypeInv
<1>7. thread["sender"][p].start = ChunkStart(Size(i), p - 1)
      /\ thread["sender"][p].len = ChunkLen(Size(i), p - 1)
  BY <1>3, <1>4 DEF ChunksInv, LoopInv, HandedOut
<1>8. ASSUME NEW j \in Transfers
      PROVE  /\ full(j) \in Connection /\ full(j).st = conn[j][p].st
             /\ full(j).peer = conn[j][p].peer /\ full(j).sent = Part(i, p)
  <2>1. Part(i, p) \in Seq(Nat \X Nat)
    BY <1>4, PartSeq
  <2>2. conn[j][p] \in Connection
    BY <1>6
  <2> QED
    BY <2>1, <2>2 DEF Connection
<1>9. ASSUME NEW j \in Transfers
      PROVE  /\ conn'[j] \in [Ports -> Connection]
             /\ \A q \in Ports : conn'[j][q] = IF q = p /\ Mine(j) THEN full(j) ELSE conn[j][q]
  <2> DEFINE old == conn[j][p]
             sent == [k \in 1 .. thread["sender"][p].len |->
                        Cell(i, thread["sender"][p].start + k - 1)]
             c == IF old.st = "accepted" /\ old.peer = i THEN [old EXCEPT !.sent = sent] ELSE old
  <2>1. conn'[j] = [conn[j] EXCEPT ![p] = c]
    BY Zenon DEF Send
  <2>2. sent = Part(i, p)
    BY <1>7, Zenon DEF Part
  <2>3. c = IF Mine(j) THEN full(j) ELSE conn[j][p]
    BY <2>2, Zenon
  <2> HIDE DEF c, full, Mine
  <2>4. c \in Connection
    BY <1>6, <1>8, <2>3
  <2> QED
    BY <1>6, <2>1, <2>3, <2>4
<1> HIDE DEF full
<1>10. NetTypeInv'
  <2>1. conn' = [j \in Transfers |-> conn'[j]]
    BY Zenon DEF Send
  <2>2. conn' \in [Transfers -> [Ports -> Connection]]
    BY <1>9, <2>1
  <2> QED
    BY <1>1, <1>6, <2>2 DEF NetTypeInv
<1>11. ASSUME NEW q \in Ports, q # p PROVE PortInv(W, q)'
  BY <1>1, <1>2, <1>3, <1>9, <1>11, OthersKept
<1>12. \A j \in Transfers :
         /\ Phase("sender", j, p)' \in Accepted <=> Phase("sender", j, p) \in Accepted
         /\ Phase("sender", j, p)' \in Listening <=> Phase("sender", j, p) \in Listening
         /\ Phase("sender", j, p)' = "accepted" <=> Phase("sender", j, p) = "accepted"
         /\ Phase("sender", j, p)' = "done" <=> Phase("sender", j, p) = "done" \/ j = i
         /\ Phase("receiver", j, p)' = Phase("receiver", j, p)
  BY <1>3, <1>4 DEF Accepted, Listening
<1>13. ASSUME NEW j \in Transfers
       PROVE  conn'[j][p].st = conn[j][p].st /\ conn'[j][p].peer = conn[j][p].peer
  BY <1>8, <1>9
<1>14. ASSUME NEW j \in Transfers PROVE ConnectionInv(W, j, p)'
  <2>1. ConnectionInv(W, j, p)
    BY <1>6 DEF PortInv
  <2>2. QueuedInv(W, j, p) => QueuedInv(W, j, p)'
    BY <1>1, <1>12 DEF QueuedInv
  <2>3. AcceptedInv(W, j, p) => AcceptedInv(W, j, p)'
    BY <1>12, <1>13 DEF AcceptedInv
  <2>4. Delivered(j, p)' <=> Delivered(j, p) \/ (j = i /\ Mine(j))
    BY <1>12, <1>13 DEF Delivered
  <2>5. conn'[j][p].sent = IF Delivered(j, p)' THEN Part(j, p) ELSE <<>>
    <3>1. CASE Mine(j)
      <4>1. conn'[j][p].sent = Part(i, p)
        BY <1>8, <1>9, <3>1
      <4>2. CASE j = i
        BY <2>4, <3>1, <4>1, <4>2
      <4>3. CASE j # i
        <5>1. ~ Delivered(j, p) /\ ~ Delivered(j, p)'
          BY <2>4, <3>1, <4>3 DEF Delivered
        <5>2. Nothing(i, p)
          BY <2>1, <3>1, <4>3 DEF ConnectionInv, AcceptedInv
        <5>3. Part(i, p) = <<>>
          <6>1. Part(i, p) \in Seq(Nat \X Nat) /\ Len(Part(i, p)) = 0
            BY <1>4, <5>2, PartSeq DEF Nothing
          <6> QED
            BY <6>1, EmptySeq
        <5> QED
          BY <4>1, <5>1, <5>3
      <4> QED
        BY <4>2, <4>3
    <3>2. CASE ~ Mine(j)
      <4>1. conn'[j][p] = conn[j][p]
        BY <1>9, <3>2
      <4>2. Delivered(j, p)' <=> Delivered(j, p)
        BY <2>4, <3>2
      <4> QED
        BY <2>1, <4>1, <4>2 DEF ConnectionInv
    <3> QED
      BY <3>1, <3>2
  <2> QED
    BY <1>1, <1>12, <1>13, <2>1, <2>2, <2>3, <2>4, <2>5 DEF ConnectionInv
<1>15. ListenerInv(p)'
  BY <1>1, <1>6, <1>12 DEF PortInv, ListenerInv
<1>16. BacklogInv(p)'
  BY <1>1, <1>6, <1>13 DEF PortInv, BacklogInv
<1> QED
  BY <1>5, <1>10, <1>11, <1>14, <1>15, <1>16 DEF OwnInv, PortInv
-----------------------------------------------------------------------------
(* The receiver's threads *)

\* Bob connects to the listener of his own transfer, or from a transfer that
\* he has come to through empty connections, with nothing to wait for
LEMMA ReadyAndListening ==
  ASSUME NEW W, ChunksInv, OwnInv(W), NEW p \in Ports,
         Phase("receiver", xfer["receiver"], p) = "ready", xfer["receiver"] \in Transfers,
         idx["receiver"] > 0, listener[p] # 0
  PROVE  LET a == listener[p]
             b == xfer["receiver"]
         IN  /\ a \in Transfers /\ b >= a
             /\ b > a => ExposedIn(W, b, p) /\ Nothing(a, p)
             /\ Phase("sender", a, p) = "accepted" => b > a
<1> DEFINE a == listener[p]
           b == xfer["receiver"]
<1>1. "sender" \in Side /\ "receiver" \in Side
  BY DEF Side
<1>2. PortInv(W, p) /\ AwaitedInv(W) /\ Transfers = 1 .. Len(Sizes)
  BY TransfersNat DEF OwnInv
<1>3. a \in Transfers /\ Phase("sender", a, p) \in Listening
  BY <1>2 DEF PortInv, ListenerInv
<1>4. a \in Nat /\ b \in Nat /\ a = xfer["sender"] /\ a >= 1
  BY <1>1, <1>2, <1>3, PhaseIs DEF Listening
<1>5. Phase("receiver", b, p) \notin Connected /\ Phase("sender", b, p) \notin Accepted
  BY <1>2 DEF PortInv, ConnectionInv, Connected
<1>6. b >= a
  BY <1>1, <1>4, <1>5, PhaseIs DEF Accepted
<1>7. ASSUME b > a PROVE ExposedIn(W, b, p) /\ Nothing(a, p)
  \* whatever Bob went through since then has carried nothing
  <2>1. ASSUME NEW j \in Transfers, a <= j, j < b PROVE Nothing(j, p)
    <3>1. Phase("receiver", j, p) = "done"
      BY <1>1, <2>1, PhaseIs
    <3>2. Phase("sender", j, p) # "done"
      BY <1>1, <1>3, <1>4, <2>1, PhaseIs DEF Listening
    <3> QED
      BY <1>2, <3>1, <3>2 DEF PortInv, ConnectionInv, Delivered
  <2>2. Nothing(a, p)
    BY <1>3, <1>4, <1>7, <2>1
  <2>3. b - 1 \in Transfers /\ a <= b - 1 /\ b - 1 < b
    BY <1>2, <1>4, <1>7
  <2>4. Nothing(b - 1, p)
    BY <2>1, <2>3
  <2>5. b \notin W /\ b > 1
    BY <1>2, <1>4, <1>7 DEF AwaitedInv
  <2> QED
    BY <2>2, <2>4, <2>5 DEF ExposedIn
<1>8. Phase("sender", a, p) = "accepted" => b # a
  BY <1>5 DEF Accepted
<1> QED
  BY <1>3, <1>4, <1>6, <1>7, <1>8

LEMMA ConnectStep ==
  ASSUME NEW W, ChunksInv, OwnInv(W), NEW p \in Ports, Connect(p)
  PROVE  OwnInv(W)'
<1> DEFINE i == xfer["receiver"]
           new == [conn[i][p] EXCEPT !.st = "queued"]
<1>1. /\ Become("receiver", p, "ready", "connected") /\ listener[p] # 0
      /\ backlog' = [backlog EXCEPT ![p] = Append(backlog[p], i)]
      /\ UNCHANGED <<xfer, loopVars, listener, arr>>
  BY DEF Connect
<1>2. "ready" \in State \ {"none"} /\ "connected" \in State \ {"none"} /\ "connected" \in ReceiverState
  BY DEF State, ReceiverState
<1>3. "sender" \in Side /\ "receiver" \in Side /\ "sender" # "receiver"
  BY DEF Side
<1>4. /\ i \in Transfers /\ Phase("receiver", i, p) = "ready" /\ p \in 1 .. idx["receiver"]
      /\ \A t \in Side, j \in Transfers, q \in Ports :
           Phase(t, j, q)' = IF t = "receiver" /\ j = i /\ q = p THEN "connected" ELSE Phase(t, j, q)
  BY <1>1, <1>2, <1>3, BecomePhase DEF OwnInv
<1>5. ThreadsInv' /\ AwaitedInv(W)'
  BY <1>1, <1>2, <1>3, BecomeThreads DEF OwnInv
<1>6. idx["receiver"] > 0
  BY <1>3, <1>4, XferNat, ConnectionsAssumption
<1>7. /\ listener[p] \in Transfers /\ i >= listener[p]
      /\ i > listener[p] => ExposedIn(W, i, p) /\ Nothing(listener[p], p)
      /\ Phase("sender", listener[p], p) = "accepted" => i > listener[p]
  BY <1>1, <1>4, <1>6, ReadyAndListening
<1>8. NetTypeInv /\ PortInv(W, p) /\ conn[i][p] \in Connection /\ backlog[p] \in Seq(Nat) /\ i \in Nat
  BY <1>4, TransfersNat DEF OwnInv, NetTypeInv
<1>9. new \in Connection /\ new.st = "queued" /\ new.sent = conn[i][p].sent
  BY <1>8 DEF Connection
<1>10. conn' = [conn EXCEPT ![i][p] = new]
  BY DEF Connect
<1> HIDE DEF new
<1>11. /\ conn' \in [Transfers -> [Ports -> Connection]]
       /\ \A j \in Transfers, q \in Ports :
            conn'[j][q] = IF j = i /\ q = p THEN new ELSE conn[j][q]
  BY <1>4, <1>8, <1>9, <1>10, ConnSet
<1>12. /\ Append(backlog[p], i) \in Seq(Nat) /\ Len(Append(backlog[p], i)) = Len(backlog[p]) + 1
       /\ Append(backlog[p], i)[Len(backlog[p]) + 1] = i /\ Len(backlog[p]) \in Nat
       /\ \A q \in 1 .. Len(backlog[p]) : Append(backlog[p], i)[q] = backlog[p][q]
  BY <1>8
<1>13. NetTypeInv' /\ \A q \in Ports : backlog'[q] = IF q = p THEN Append(backlog[p], i) ELSE backlog[q]
  BY <1>1, <1>8, <1>11, <1>12 DEF NetTypeInv
<1>14. ASSUME NEW q \in Ports, q # p PROVE PortInv(W, q)'
  BY <1>1, <1>2, <1>3, <1>11, <1>13, <1>14, OthersKept
<1>15. \A j \in Transfers :
         /\ Phase("receiver", j, p)' \in Connected <=> Phase("receiver", j, p) \in Connected \/ j = i
         /\ Phase("receiver", j, p)' = "done" <=> Phase("receiver", j, p) = "done"
         /\ Phase("sender", j, p)' = Phase("sender", j, p)
  BY <1>3, <1>4 DEF Connected
<1>16. conn[i][p].st = "none"
  BY <1>4, <1>8 DEF PortInv, ConnectionInv, Connected
<1>17. ASSUME NEW j \in Transfers PROVE ConnectionInv(W, j, p)'
  <2>1. ConnectionInv(W, j, p)
    BY <1>8 DEF PortInv
  <2>2. CASE j = i
    <3>1. conn'[j][p] = new
      BY <1>11, <2>2
    <3>2. QueuedInv(W, j, p)'
      BY <1>1, <1>7, <1>15, <2>2 DEF QueuedInv
    <3>3. ~ Delivered(j, p) /\ ~ Delivered(j, p)'
      BY <1>9, <1>16, <2>2, <3>1 DEF Delivered
    <3>4. Phase("receiver", j, p)' = "connected"
      BY <1>3, <1>4, <2>2
    <3> QED
      BY <1>9, <1>15, <2>1, <2>2, <3>1, <3>2, <3>3, <3>4 DEF ConnectionInv, Connected
  <2>3. CASE j # i
    <3>1. conn'[j][p] = conn[j][p]
      BY <1>11, <2>3
    <3>2. QueuedInv(W, j, p) => QueuedInv(W, j, p)'
      BY <1>1, <1>15 DEF QueuedInv
    <3>3. AcceptedInv(W, j, p) => AcceptedInv(W, j, p)'
      BY <1>15, <3>1 DEF AcceptedInv
    <3>4. Delivered(j, p)' <=> Delivered(j, p)
      BY <1>15, <3>1 DEF Delivered
    <3> QED
      BY <1>1, <1>15, <2>1, <2>3, <3>1, <3>2, <3>3, <3>4 DEF ConnectionInv
  <2> QED
    BY <2>2, <2>3
<1>18. ListenerInv(p)'
  BY <1>1, <1>8, <1>15 DEF PortInv, ListenerInv
<1>19. ASSUME NEW q \in 1 .. Len(backlog[p])
       PROVE  /\ backlog[p][q] \in Transfers /\ conn[backlog[p][q]][p].st = "queued"
              /\ backlog[p][q] < i
  <2>1. backlog[p][q] \in Transfers /\ conn[backlog[p][q]][p].st = "queued"
    BY <1>8 DEF PortInv, BacklogInv
  <2>2. Phase("receiver", backlog[p][q], p) \in Connected
    BY <1>8, <2>1 DEF PortInv, ConnectionInv
  <2>3. backlog[p][q] # i
    BY <1>16, <2>1
  <2> QED
    BY <1>3, <2>1, <2>2, <2>3, PhaseIs DEF Connected
<1>20. BacklogInv(p)'
  <2>1. backlog'[p] = Append(backlog[p], i) /\ Len(backlog'[p]) = Len(backlog[p]) + 1
    BY <1>12, <1>13
  <2>2. \A q \in 1 .. Len(backlog[p]) + 1 :
          backlog'[p][q] = IF q = Len(backlog[p]) + 1 THEN i ELSE backlog[p][q]
    BY <1>12, <2>1
  <2>3. ASSUME NEW q \in 1 .. Len(backlog[p]) + 1
        PROVE  backlog'[p][q] \in Transfers /\ conn'[backlog'[p][q]][p].st = "queued"
    <3>1. CASE q = Len(backlog[p]) + 1
      BY <1>4, <1>9, <1>11, <2>2, <3>1
    <3>2. CASE q \in 1 .. Len(backlog[p])
      <4>1. q # Len(backlog[p]) + 1 /\ backlog'[p][q] = backlog[p][q]
        BY <1>12, <2>2, <3>2
      <4>2. /\ backlog[p][q] \in Transfers /\ backlog[p][q] # i
            /\ conn[backlog[p][q]][p].st = "queued"
        BY <1>16, <1>19, <3>2
      <4>3. conn'[backlog[p][q]][p] = conn[backlog[p][q]][p]
        BY <1>11, <4>2
      <4> QED
        BY <4>1, <4>2, <4>3
    <3> QED
      BY <1>12, <3>1, <3>2
  <2>4. ASSUME NEW q \in 1 .. Len(backlog[p]) + 1, NEW r \in 1 .. Len(backlog[p]) + 1, q < r
        PROVE  backlog'[p][q] < backlog'[p][r]
    <3>1. q \in 1 .. Len(backlog[p]) /\ q # Len(backlog[p]) + 1
      BY <1>12, <2>4
    <3>2. CASE r = Len(backlog[p]) + 1
      BY <1>19, <2>2, <3>1, <3>2
    <3>3. CASE r # Len(backlog[p]) + 1
      <4>1. r \in 1 .. Len(backlog[p])
        BY <1>12, <3>3
      <4>2. backlog[p][q] < backlog[p][r]
        BY <1>8, <2>4, <3>1, <4>1 DEF PortInv, BacklogInv
      <4> QED
        BY <2>2, <3>1, <3>3, <4>2
    <3> QED
      BY <3>2, <3>3
  <2>5. ASSUME NEW j \in Transfers, conn'[j][p].st = "queued"
        PROVE  \E q \in 1 .. Len(backlog[p]) + 1 : backlog'[p][q] = j
    <3>1. CASE j = i
      BY <1>12, <2>2, <3>1
    <3>2. CASE j # i
      <4>1. conn[j][p].st = "queued"
        BY <1>11, <2>5, <3>2
      <4>2. PICK q \in 1 .. Len(backlog[p]) : backlog[p][q] = j
        BY <1>8, <4>1 DEF PortInv, BacklogInv
      <4>3. q \in 1 .. Len(backlog[p]) + 1 /\ q # Len(backlog[p]) + 1
        BY <1>12
      <4> QED
        BY <2>2, <4>2, <4>3
    <3> QED
      BY <3>1, <3>2
  <2> QED
    BY <2>1, <2>3, <2>4, <2>5 DEF BacklogInv
<1> QED
  BY <1>5, <1>13, <1>14, <1>17, <1>18, <1>20 DEF OwnInv, PortInv

LEMMA ReceiveStep ==
  ASSUME NEW W, ChunksInv, OwnInv(W), NEW p \in Ports, Receive(p)
  PROVE  OwnInv(W)'
<1> DEFINE i == xfer["receiver"]
           start == ChunkStart(Size(i), p - 1)
           len == ChunkLen(Size(i), p - 1)
           sent == conn[i][p].sent
           new == [k \in DOMAIN arr[i] |->
                     IF k \in start .. start + len - 1 THEN sent[k - start + 1] ELSE arr[i][k]]
<1>1. Become("receiver", p, "connected", "done") /\ UNCHANGED <<xfer, loopVars, netVars>>
  BY DEF Receive
<1>2. "connected" \in State \ {"none"} /\ "done" \in State \ {"none"} /\ "done" \in ReceiverState
  BY DEF State, ReceiverState
<1>3. "sender" \in Side /\ "receiver" \in Side /\ "sender" # "receiver"
  BY DEF Side
<1>4. /\ i \in Transfers /\ Phase("receiver", i, p) = "connected" /\ p \in 1 .. idx["receiver"]
      /\ \A t \in Side, j \in Transfers, q \in Ports :
           Phase(t, j, q)' = IF t = "receiver" /\ j = i /\ q = p THEN "done" ELSE Phase(t, j, q)
  BY <1>1, <1>2, <1>3, BecomePhase DEF OwnInv
<1>5. ThreadsInv' /\ AwaitedInv(W)'
  BY <1>1, <1>2, <1>3, BecomeThreads DEF OwnInv
<1>6. thread["receiver"][p].start = start /\ thread["receiver"][p].len = len
  BY <1>3, <1>4 DEF ChunksInv, LoopInv, HandedOut
<1>7. Len(sent) >= len /\ arr' = [arr EXCEPT ![i] = new]
  BY <1>6 DEF Receive
<1>8. /\ start \in Nat /\ len \in Nat /\ PartCells(i, p) = start .. start + len - 1
      /\ Part(i, p) = [k \in 1 .. len |-> Cell(i, start + k - 1)]
  <2>1. start \in Nat /\ len \in Nat /\ start + len = ChunkStart(Size(i), p)
    BY <1>4, PartSeq
  <2>2. Part(i, p) = [k \in 1 .. len |-> Cell(i, start + k - 1)]
    BY DEF Part
  <2>3. PartCells(i, p) = start .. ChunkStart(Size(i), p) - 1
    BY DEF PartCells
  <2> QED
    BY <2>1, <2>2, <2>3
<1>9. PortInv(W, p) /\ ConnectionInv(W, i, p)
  BY <1>4 DEF OwnInv, PortInv
<1>10. len > 0 => Delivered(i, p) /\ sent = Part(i, p)
  <2>1. Len(<<>>) = 0
    OBVIOUS
  <2> QED
    BY <1>7, <1>8, <1>9, <2>1 DEF ConnectionInv
<1>11. Nothing(i, p) \/ Delivered(i, p)
  BY <1>8, <1>10 DEF Nothing
<1>12. DOMAIN arr = Transfers /\ DOMAIN arr[i] = 0 .. Size(i) - 1
  BY <1>4 DEF OwnInv, NetTypeInv
<1> HIDE DEF start, len, sent
<1>13. ASSUME NEW k \in DOMAIN arr[i]
       PROVE  new[k] = IF k \in PartCells(i, p) THEN Cell(i, k) ELSE arr[i][k]
  <2>1. CASE k \in PartCells(i, p)
    <3>1. k \in Int /\ k - start + 1 \in 1 .. len /\ len > 0 /\ start + (k - start + 1) - 1 = k
      BY <1>8, <2>1
    <3>2. sent[k - start + 1] = Cell(i, start + (k - start + 1) - 1)
      BY <1>8, <1>10, <3>1
    <3> QED
      BY <1>8, <2>1, <3>1, <3>2
  <2>2. CASE k \notin PartCells(i, p)
    BY <1>8, <2>2
  <2> QED
    BY <2>1, <2>2
<1>14. DOMAIN new = DOMAIN arr[i]
  OBVIOUS
<1> HIDE DEF new
<1>15. /\ DOMAIN arr' = Transfers
       /\ \A j \in Transfers : arr'[j] = IF j = i THEN new ELSE arr[j]
  BY <1>7, <1>12
<1>16. NetTypeInv'
  <2>1. ASSUME NEW j \in Transfers PROVE DOMAIN arr'[j] = 0 .. Size(j) - 1
    BY <1>12, <1>14, <1>15 DEF OwnInv, NetTypeInv
  <2> QED
    BY <1>1, <1>15, <2>1 DEF OwnInv, NetTypeInv, netVars
<1>17. ASSUME NEW j \in Transfers, NEW q \in Ports, NEW k \in PartCells(j, q)
       PROVE  /\ arr'[j][k] \in {arr[j][k], Cell(j, k)}
              /\ j = i /\ q = p => arr'[j][k] = Cell(j, k)
  <2>1. CASE j = i
    <3>1. k \in DOMAIN arr[i]
      <4>1. /\ ChunkStart(Size(j), q - 1) \in Nat /\ ChunkStart(Size(j), q) <= Size(j)
            /\ Size(j) \in Nat /\ ChunkStart(Size(j), q) \in Nat
        BY PartSeq, ChunkStarts, SizeNat, PortsPositive
      <4> QED
        BY <1>12, <2>1, <4>1 DEF PartCells
    <3> QED
      BY <1>13, <1>15, <2>1, <3>1
  <2>2. CASE j # i
    BY <1>15, <2>2
  <2> QED
    BY <2>1, <2>2
<1>18. conn' = conn /\ listener' = listener /\ backlog' = backlog
  BY <1>1 DEF netVars
<1>19. ASSUME NEW q \in Ports, q # p PROVE PortInv(W, q)'
  BY <1>1, <1>2, <1>3, <1>17, <1>18, <1>19, OthersKept
<1>20. /\ \A j \in Transfers : Phase("sender", j, p)' = Phase("sender", j, p)
       /\ \A j \in Transfers : Delivered(j, p)' <=> Delivered(j, p)
  BY <1>3, <1>4, <1>18 DEF Delivered
<1>21. ASSUME NEW j \in Transfers PROVE ConnectionInv(W, j, p)'
  <2>1. ConnectionInv(W, j, p)
    BY <1>9 DEF PortInv
  <2>2. QueuedInv(W, j, p)' <=> QueuedInv(W, j, p)
    BY <1>18, <1>20 DEF QueuedInv
  <2>3. AcceptedInv(W, j, p)' <=> AcceptedInv(W, j, p)
    BY <1>18, <1>20 DEF AcceptedInv
  <2>4. Phase("receiver", j, p)' \in Connected <=> Phase("receiver", j, p) \in Connected
    BY <1>3, <1>4 DEF Connected
  <2>5. \A k \in PartCells(j, p) : arr[j][k] = Cell(j, k) => arr'[j][k] = Cell(j, k)
    BY <1>17
  <2>6. Phase("receiver", j, p)' = "done" =>
          /\ Nothing(j, p) \/ Delivered(j, p)
          /\ \A k \in PartCells(j, p) : arr'[j][k] = Cell(j, k)
    <3>1. CASE j = i
      BY <1>11, <1>17, <3>1
    <3>2. CASE j # i
      <4>1. Phase("receiver", j, p)' = Phase("receiver", j, p)
        BY <1>3, <1>4, <3>2
      <4> QED
        BY <2>1, <2>5, <4>1 DEF ConnectionInv
    <3> QED
      BY <3>1, <3>2
  <2> QED
    BY <1>18, <1>20, <2>1, <2>2, <2>3, <2>4, <2>6 DEF ConnectionInv
<1>22. ListenerInv(p)'
  BY <1>9, <1>18, <1>20 DEF PortInv, ListenerInv
<1>23. BacklogInv(p)'
  BY <1>9, <1>18 DEF PortInv, BacklogInv
<1> QED
  BY <1>5, <1>16, <1>19, <1>21, <1>22, <1>23 DEF OwnInv, PortInv
-----------------------------------------------------------------------------
(* The two main threads *)

LEMMA OwnSpawnStep ==
  ASSUME NEW W, ChunksInv, OwnInv(W), NEW s \in Side, Spawn(s),
         s = "receiver" /\ xfer["receiver"] \in W => xfer["sender"] >= xfer["receiver"]
  PROVE  OwnInv(W)'
<1> DEFINE i == xfer[s]
           p == idx[s] + 1
           chunk == [st |-> "ready", start |-> start_idx[s], len |-> offset[s]]
           row == [thread[s] EXCEPT ![p] = chunk]
<1>1. /\ i \in Transfers /\ idx[s] < NumConnections
      /\ thread' = [thread EXCEPT ![s] = row]
      /\ idx' = [idx EXCEPT ![s] = p]
      /\ UNCHANGED <<xfer, netVars, arr>>
  BY DEF Spawn
<1>2. /\ thread \in [Side -> [Ports -> Chunk]]
      /\ xfer \in [Side -> Nat] /\ idx \in [Side -> 0 .. NumConnections]
  BY DEF ChunksInv, LoopTypeInv
<1>3. p \in Ports /\ idx[s] \in Nat
  BY <1>1, <1>2, ConnectionsAssumption DEF Ports
<1>4. "sender" \in Side /\ "receiver" \in Side /\ "sender" # "receiver"
  BY DEF Side
<1>5. chunk.st = "ready"
  OBVIOUS
<1> HIDE DEF chunk
<1>6. thread[s] \in [Ports -> Chunk]
  BY <1>2
<1>7. \A q \in Ports : row[q] = IF q = p THEN chunk ELSE thread[s][q]
  BY <1>6
<1> HIDE DEF row
<1>8. \A t \in Side, q \in Ports :
        thread'[t][q].st = IF t = s /\ q = p THEN "ready" ELSE thread[t][q].st
  BY <1>1, <1>2, <1>5, <1>7
<1>9. \A t \in Side : idx'[t] = IF t = s THEN p ELSE idx[t]
  BY <1>1, <1>2
<1>10. ThreadsInv /\ thread[s][p].st = "none"
  BY <1>3 DEF OwnInv, ThreadsInv
<1>11. \A t \in Side, j \in Transfers, q \in Ports :
         Phase(t, j, q)' = IF t = s /\ j = i /\ q = p THEN "ready" ELSE Phase(t, j, q)
  <2> TAKE t \in Side, j \in Transfers, q \in Ports
  <2>1. xfer[s] \in Nat /\ xfer[t] \in Nat /\ j \in Nat
    BY <1>2, TransfersNat
  <2> QED
    BY <1>1, <1>8, <2>1 DEF Phase
<1>12. Phase(s, i, p) = "none"
  BY <1>2, <1>10 DEF Phase
<1>13. ThreadsInv'
  <2>1. ASSUME NEW t \in Side, NEW q \in Ports
        PROVE  thread'[t][q].st # "none" <=> q <= idx'[t]
    <3>1. q \in Nat /\ idx[t] \in Nat
      BY <1>2, PortsPositive
    <3> HIDE DEF p
    <3> QED
      BY <1>3, <1>8, <1>9, <1>10, <3>1 DEF ThreadsInv, p
  <2>2. ASSUME NEW q \in Ports
        PROVE  thread'["sender"][q].st \in SenderState /\ thread'["receiver"][q].st \in ReceiverState
    BY <1>4, <1>8, <1>10 DEF ThreadsInv, SenderState, ReceiverState
  <2>3. ASSUME NEW t \in Side PROVE xfer'[t] >= 1 /\ (xfer'[t] \notin Transfers => idx'[t] = 0)
    BY <1>1, <1>9, <1>10 DEF ThreadsInv
  <2> QED
    BY <2>1, <2>2, <2>3 DEF ThreadsInv
<1>14. AwaitedInv(W)'
  <2>1. CASE s = "receiver"
    BY <1>1, <2>1 DEF AwaitedInv
  <2>2. CASE s # "receiver"
    BY <1>1, <1>4, <1>9, <2>2 DEF OwnInv, AwaitedInv
  <2> QED
    BY <2>1, <2>2
<1>15. NetTypeInv'
  BY <1>1 DEF OwnInv, NetTypeInv, netVars
<1>16. ASSUME NEW q \in Ports PROVE PortInv(W, q)'
  <2>1. \A t \in Side, j \in Transfers : SamePhase(Phase(t, j, q), Phase(t, j, q)')
    BY <1>11, <1>12 DEF SamePhase
  <2>2. PortInv(W, q) /\ UNCHANGED <<conn, listener, backlog, arr>>
    BY <1>1 DEF OwnInv, netVars
  <2> QED
    BY <2>1, <2>2, PortKept
<1> QED
  BY <1>13, <1>14, <1>15, <1>16 DEF OwnInv

LEMMA OwnJoinStep ==
  ASSUME NEW W, ChunksInv, OwnInv(W), NEW s \in Side, Join(s)
  PROVE  OwnInv(W)'
<1> DEFINE i == xfer[s]
           row == [p \in Ports |-> Idle]
<1>1. /\ i \in Transfers /\ idx[s] = NumConnections
      /\ \A p \in Ports : thread[s][p].st = "done"
      /\ xfer' = [xfer EXCEPT ![s] = i + 1]
      /\ idx' = [idx EXCEPT ![s] = 0]
      /\ thread' = [thread EXCEPT ![s] = row]
      /\ UNCHANGED <<netVars, arr>>
  BY DEF Join
<1>2. /\ thread \in [Side -> [Ports -> Chunk]]
      /\ xfer \in [Side -> Nat] /\ idx \in [Side -> 0 .. NumConnections]
  BY DEF ChunksInv, LoopTypeInv
<1>3. \A q \in Ports : row[q].st = "none"
  BY DEF Idle
<1> HIDE DEF row
<1>4. "sender" \in Side /\ "receiver" \in Side /\ "sender" # "receiver"
  BY DEF Side
<1>5. \A t \in Side : /\ xfer'[t] = IF t = s THEN i + 1 ELSE xfer[t]
                      /\ idx'[t] = IF t = s THEN 0 ELSE idx[t]
                      /\ thread'[t] = IF t = s THEN row ELSE thread[t]
  BY <1>1, <1>2
<1>6. ThreadsInv /\ AwaitedInv(W)
  BY DEF OwnInv
\* nothing has changed for any port of any transfer
<1>7. \A t \in Side, j \in Transfers, q \in Ports : Phase(t, j, q)' = Phase(t, j, q)
  <2> TAKE t \in Side, j \in Transfers, q \in Ports
  <2>1. i \in Nat /\ xfer[t] \in Nat /\ j \in Nat
    BY <1>2, TransfersNat
  <2>2. CASE t = s
    <3>1. /\ xfer'[t] = xfer[t] + 1 /\ thread'[t][q].st = "none" /\ thread[t][q].st = "done"
      BY <1>1, <1>3, <1>5, <2>2
    <3> QED
      BY <2>1, <3>1 DEF Phase
  <2>3. CASE t # s
    BY <1>5, <2>3 DEF Phase
  <2> QED
    BY <2>2, <2>3
<1>8. ThreadsInv'
  <2>1. ASSUME NEW t \in Side, NEW q \in Ports
        PROVE  thread'[t][q].st # "none" <=> q <= idx'[t]
    BY <1>3, <1>5, <1>6, PortsPositive DEF ThreadsInv
  <2>2. ASSUME NEW q \in Ports
        PROVE  thread'["sender"][q].st \in SenderState /\ thread'["receiver"][q].st \in ReceiverState
    BY <1>3, <1>4, <1>5, <1>6 DEF ThreadsInv, SenderState, ReceiverState
  <2>3. ASSUME NEW t \in Side PROVE xfer'[t] >= 1 /\ (xfer'[t] \notin Transfers => idx'[t] = 0)
    BY <1>2, <1>5, <1>6 DEF ThreadsInv
  <2> QED
    BY <2>1, <2>2, <2>3 DEF ThreadsInv
<1>9. NetTypeInv'
  BY <1>1 DEF OwnInv, NetTypeInv, netVars
<1>10. AwaitedInv(W)'
  <2>1. xfer["sender"] \in Nat /\ xfer["receiver"] \in Nat
    BY <1>2, <1>4
  <2>2. CASE s = "sender"
    BY <1>4, <1>5, <1>6, <2>1, <2>2 DEF AwaitedInv
  <2>3. CASE s = "receiver"
    BY <1>5, <2>3 DEF AwaitedInv
  <2> QED
    BY <2>2, <2>3 DEF Side
<1>11. ASSUME NEW q \in Ports PROVE PortInv(W, q)'
  <2>1. PortInv(W, q) /\ UNCHANGED <<conn, listener, backlog, arr>>
    BY <1>1 DEF OwnInv, netVars
  <2> QED
    BY <1>7, <2>1, PortKept DEF SamePhase
<1> QED
  BY <1>8, <1>9, <1>10, <1>11 DEF OwnInv
-----------------------------------------------------------------------------
(* All steps together *)

LEMMA OwnInit == \A W : Init => OwnInv(W)
<1> SUFFICES ASSUME NEW W, Init PROVE OwnInv(W)
  OBVIOUS
<1>1. "sender" \in Side /\ "receiver" \in Side
  BY DEF Side
<1>2. /\ \A s \in Side : xfer[s] = 1 /\ idx[s] = 0 /\ \A p \in Ports : thread[s][p].st = "none"
      /\ \A p \in Ports : listener[p] = 0 /\ backlog[p] = <<>>
      /\ \A j \in Transfers, p \in Ports : conn[j][p] = NoConnection
  BY DEF Init, Idle
<1>3. NoConnection \in Connection /\ NoConnection.st = "none" /\ NoConnection.sent = <<>>
  <2>1. <<>> \in Seq(Nat \X Nat)
    OBVIOUS
  <2> QED
    BY <2>1 DEF NoConnection, Connection
<1>4. NetTypeInv
  <2>1. conn = [j \in Transfers |-> [p \in Ports |-> NoConnection]]
    BY DEF Init
  <2>2. conn \in [Transfers -> [Ports -> Connection]]
    BY <1>3, <2>1
  <2>3. arr = [j \in Transfers |-> [k \in 0 .. Sizes[j] - 1 |-> Unset]]
    BY DEF Init
  <2>4. DOMAIN arr = Transfers /\ \A j \in Transfers : DOMAIN arr[j] = 0 .. Size(j) - 1
    BY <2>3 DEF Size
  <2>5. listener \in [Ports -> Nat] /\ backlog \in [Ports -> Seq(Nat)]
    BY DEF Init
  <2> QED
    BY <2>2, <2>4, <2>5 DEF NetTypeInv
<1>5. ThreadsInv
  BY <1>1, <1>2, PortsPositive DEF ThreadsInv, SenderState, ReceiverState
<1>6. AwaitedInv(W)
  BY <1>1, <1>2 DEF AwaitedInv
<1>7. \A t \in Side, j \in Transfers, p \in Ports : Phase(t, j, p) = "none"
  BY <1>2, TransfersNat DEF Phase
<1>8. \A j \in Transfers, p \in Ports : ConnectionInv(W, j, p)
  BY <1>1, <1>2, <1>3, <1>7 DEF ConnectionInv, Delivered, Accepted, Connected
<1>9. ASSUME NEW p \in Ports PROVE ListenerInv(p) /\ BacklogInv(p)
  <2>1. 0 \notin Transfers
    BY TransfersNat
  <2>2. ListenerInv(p)
    BY <1>1, <1>2, <1>7, <2>1 DEF ListenerInv, Listening
  <2>3. Len(<<>>) = 0 /\ (1 .. 0) = {}
    OBVIOUS
  <2>4. BacklogInv(p)
    BY <1>2, <1>3, <2>3 DEF BacklogInv
  <2> QED
    BY <2>2, <2>4
<1> QED
  BY <1>4, <1>5, <1>6, <1>8, <1>9 DEF OwnInv, PortInv

LEMMA OwnStep ==
  ASSUME NEW W, ChunksInv, OwnInv(W), [Next]_vars,
         Spawn("receiver") /\ xfer["receiver"] \in W => xfer["sender"] >= xfer["receiver"]
  PROVE  OwnInv(W)'
<1>1. CASE UNCHANGED vars
  <2>1. \A t, j, p : Phase(t, j, p)' = Phase(t, j, p)
    BY <1>1 DEF Phase, vars
  <2>2. NetTypeInv' /\ ThreadsInv' /\ AwaitedInv(W)'
    BY <1>1 DEF OwnInv, NetTypeInv, ThreadsInv, AwaitedInv, vars, loopVars, netVars
  <2>3. ASSUME NEW p \in Ports PROVE PortInv(W, p)'
    <3>1. PortInv(W, p) /\ UNCHANGED <<conn, listener, backlog, arr>>
      BY <1>1 DEF OwnInv, vars, netVars
    <3> QED
      BY <2>1, <3>1, PortKept DEF SamePhase
  <2> QED
    BY <2>2, <2>3 DEF OwnInv
<1>2. ASSUME NEW s \in Side, Spawn(s) PROVE OwnInv(W)'
  BY <1>2, OwnSpawnStep
<1>3. ASSUME NEW s \in Side, Join(s) PROVE OwnInv(W)'
  BY <1>3, OwnJoinStep
<1>4. ASSUME NEW p \in Ports, SenderThread(p) PROVE OwnInv(W)'
  BY <1>4, ListenStep, AcceptStep, CloseListenerStep, SendStep DEF SenderThread
<1>5. ASSUME NEW p \in Ports, Spin(p) PROVE OwnInv(W)'
  BY <1>1, <1>5 DEF Spin
<1>6. ASSUME NEW p \in Ports, ReceiverThread(p) PROVE OwnInv(W)'
  BY <1>5, <1>6, ConnectStep, ReceiveStep DEF ReceiverThread
<1>7. CASE Terminated
  BY <1>1, <1>7 DEF Terminated
<1> QED
  BY <1>1, <1>2, <1>3, <1>4, <1>6, <1>7 DEF Next, Main

\* The guard of Bob's loop is what Synced stands for
LEMMA SyncedStep ==
  ASSUME ChunksInv, OwnInv(Synced), [Next]_vars
  PROVE  OwnInv(Synced)'
<1>1. Spawn("receiver") /\ xfer["receiver"] \in Synced => xfer["sender"] >= xfer["receiver"]
  BY DEF Spawn
<1> QED
  BY <1>1, OwnStep
-----------------------------------------------------------------------------
(* What the invariant says of the ports and of the vectors *)

\* The chunk of a port is empty just where it begins at the end of the vector
LEMMA EmptyChunk ==
  ASSUME NEW j, NEW p \in Ports
  PROVE  Empty(Size(j), p) <=> Nothing(j, p)
<1> DEFINE n == Size(j)
           whole == FirstOffset(n)
           a == (p - 1) * whole
<1>1. n \in Nat /\ whole \in Nat /\ whole <= n /\ n <= NumConnections * whole
  BY SizeNat, FirstOffsetBounds
<1>2. p - 1 \in Nat /\ (p - 1) + 1 = p /\ NumConnections \in Nat /\ p \in Nat /\ p <= NumConnections
  BY PortsPositive, ConnectionsAssumption DEF Ports
<1> HIDE DEF whole, n
<1>3. a \in Nat /\ ((p - 1) + 1) * whole = a + whole
  BY <1>1, <1>2
<1>4. whole = 0 => n = 0
  <2> SUFFICES ASSUME whole = 0 PROVE n = 0
    OBVIOUS
  <2>1. NumConnections * 0 = 0
    BY <1>2
  <2> QED
    BY <1>1, <2>1
<1>5. /\ ChunkStart(n, p - 1) = IF a <= n THEN a ELSE n
      /\ ChunkStart(n, (p - 1) + 1) = IF a + whole <= n THEN a + whole ELSE n
  BY <1>3 DEF ChunkStart, whole
<1>6. Empty(n, p) <=> n <= a
  BY DEF Empty, whole
<1>7. Nothing(j, p) <=> ChunkStart(n, (p - 1) + 1) - ChunkStart(n, p - 1) = 0
  BY DEF Nothing, ChunkLen, n
<1> HIDE DEF a
<1>8. Empty(n, p) <=> Nothing(j, p)
  BY <1>1, <1>3, <1>4, <1>5, <1>6, <1>7
<1> QED
  BY <1>8 DEF n

LEMMA ExposedIs ==
  ASSUME NEW j \in Transfers, NEW p \in Ports
  PROVE  ExposedIn(Synced, j, p) <=> Exposed(j, p)
  BY EmptyChunk DEF ExposedIn, Exposed

LEMMA OwnInvOwns == OwnInv(Synced) => OwnTransfer
<1> SUFFICES ASSUME OwnInv(Synced), NEW p \in Ports
             PROVE  /\ \A q \in 1 .. Len(backlog[p]) :
                         backlog[p][q] # listener[p] => Exposed(backlog[p][q], p)
                    /\ \A j \in Transfers :
                         conn[j][p].st = "reset" \/ (conn[j][p].st = "accepted" /\ conn[j][p].peer # j)
                           => Exposed(j, p)
  BY DEF OwnTransfer
<1>1. PortInv(Synced, p)
  BY DEF OwnInv
<1>2. ASSUME NEW q \in 1 .. Len(backlog[p]), backlog[p][q] # listener[p]
      PROVE  Exposed(backlog[p][q], p)
  <2> DEFINE j == backlog[p][q]
  <2>1. j \in Transfers /\ conn[j][p].st = "queued"
    BY <1>1 DEF PortInv, BacklogInv
  <2>2. QueuedInv(Synced, j, p)
    BY <1>1, <2>1 DEF PortInv, ConnectionInv
  <2>3. j \in Nat /\ listener[p] \in Nat
    BY <2>1, <2>2, TransfersNat DEF QueuedInv
  <2>4. ExposedIn(Synced, j, p)
    BY <1>2, <2>2, <2>3 DEF QueuedInv
  <2> QED
    BY <2>1, <2>4, ExposedIs
<1>3. ASSUME NEW j \in Transfers,
             conn[j][p].st = "reset" \/ (conn[j][p].st = "accepted" /\ conn[j][p].peer # j)
      PROVE  Exposed(j, p)
  <2>1. ExposedIn(Synced, j, p)
    BY <1>1, <1>3 DEF PortInv, ConnectionInv, AcceptedInv
  <2> QED
    BY <2>1, ExposedIs
<1> QED
  BY <1>2, <1>3
\* Every element of a vector is in the chunk of some port
LEMMA PartsCover ==
  ASSUME NEW j \in Transfers, NEW k \in 0 .. Size(j) - 1
  PROVE  \E p \in Ports : k \in PartCells(j, p)
<1> DEFINE n == Size(j)
           whole == FirstOffset(n)
           q == k \div whole
           r == k % whole
           a == q * whole
<1>1. n \in Nat /\ whole \in Nat /\ n <= NumConnections * whole /\ k \in Nat /\ k < n
      /\ NumConnections \in Nat
  BY SizeNat, FirstOffsetBounds, ConnectionsAssumption
<1>2. whole > 0
  <2> SUFFICES ASSUME whole = 0 PROVE FALSE
    BY <1>1
  <2>1. NumConnections * 0 = 0
    BY <1>1
  <2> HIDE DEF whole, n
  <2> QED
    BY <1>1, <2>1
<1> HIDE DEF whole, n
<1>3. q \in Nat /\ r \in 0 .. whole - 1 /\ k = whole * q + r /\ whole * q = a
  BY <1>1, <1>2
<1> HIDE DEF q, r
<1>4. a \in Nat /\ (q + 1) * whole = a + whole
  BY <1>1, <1>3
<1>5. q < NumConnections
  <2> SUFFICES ASSUME q >= NumConnections PROVE FALSE
    BY <1>1, <1>3
  <2>1. q - NumConnections \in Nat
    BY <1>1, <1>3
  <2>2. (q - NumConnections) * whole \in Nat /\ a = NumConnections * whole + (q - NumConnections) * whole
    BY <1>1, <1>3, <2>1
  <2> QED
    BY <1>1, <1>3, <2>2
<1> HIDE DEF a
<1>6. q + 1 \in Ports /\ (q + 1) - 1 = q
  BY <1>1, <1>3, <1>5 DEF Ports
<1>7. ChunkStart(n, q) = IF a <= n THEN a ELSE n
  BY DEF ChunkStart, whole, a
<1>8. ChunkStart(n, q + 1) = IF a + whole <= n THEN a + whole ELSE n
  BY <1>4 DEF ChunkStart, whole
<1>9. k \in ChunkStart(n, q) .. ChunkStart(n, q + 1) - 1
  BY <1>1, <1>3, <1>4, <1>7, <1>8
<1> QED
  BY <1>6, <1>9 DEF PartCells, n

LEMMA OwnInvIntact == \A W : ChunksInv /\ OwnInv(W) => VectorIntact
<1> SUFFICES ASSUME NEW W, ChunksInv, OwnInv(W), NEW j \in Transfers, xfer["receiver"] > j,
                    NEW k \in DOMAIN arr[j]
             PROVE  arr[j][k] = Cell(j, k)
  BY DEF VectorIntact
<1>1. k \in 0 .. Size(j) - 1
  BY DEF OwnInv, NetTypeInv
<1>2. PICK p \in Ports : k \in PartCells(j, p)
  BY <1>1, PartsCover
<1>3. Phase("receiver", j, p) = "done" /\ ConnectionInv(W, j, p)
  BY DEF Phase, OwnInv, PortInv
<1> QED
  BY <1>2, <1>3 DEF ConnectionInv

(***************************************************************************)
(* No connection carries nothing of a vector of more than NumConnections * *)
(* (NumConnections - 1) elements, which are 992 for the 32 connections of  *)
(* the code: after such a vector (transferLargeVector's chunks) nothing is *)
(* exposed.                                                                *)
(***************************************************************************)
THEOREM LargeVectorsFill ==
  ASSUME NEW n \in Nat, n > NumConnections * (NumConnections - 1), NEW p \in Ports
  PROVE  ~ Empty(n, p)
<1> DEFINE q == n \div NumConnections
           r == n % NumConnections
           w == NumConnections - 1
<1>1. NumConnections \in Nat /\ NumConnections > 0 /\ w \in Nat
  BY ConnectionsAssumption
<1>2. q \in Nat /\ r \in 0 .. NumConnections - 1 /\ n = NumConnections * q + r
  BY <1>1
<1>3. FirstOffset(n) = q + IF r # 0 THEN 1 ELSE 0
  BY DEF FirstOffset
<1> HIDE DEF q, r
<1>4. q >= w
  <2> SUFFICES ASSUME q < w PROVE FALSE
    BY <1>1, <1>2
  <2>1. w - q - 1 \in Nat
    BY <1>1, <1>2
  <2>2. /\ NumConnections * (w - q - 1) \in Nat
        /\ NumConnections * w = NumConnections * q + NumConnections * (w - q - 1) + NumConnections
    BY <1>1, <1>2, <2>1
  <2> QED
    BY <1>1, <1>2, <2>2
<1>5. NumConnections * q = w * q + q /\ w * (q + 1) = w * q + w /\ w * q \in Nat
  BY <1>1, <1>2
<1>6. ASSUME r = 0 PROVE w * FirstOffset(n) < n
  <2>1. q > 0
    <3> SUFFICES ASSUME q = 0 PROVE FALSE
      BY <1>2
    <3>1. NumConnections * 0 = 0 /\ NumConnections * w \in Nat
      BY <1>1
    <3> QED
      BY <1>2, <1>6, <3>1
  <2>2. FirstOffset(n) = q
    BY <1>2, <1>3, <1>6
  <2> QED
    BY <1>2, <1>5, <1>6, <2>1, <2>2
<1>7. ASSUME r # 0 PROVE w * FirstOffset(n) < n
  <2>1. FirstOffset(n) = q + 1
    BY <1>3, <1>7
  <2> QED
    BY <1>1, <1>2, <1>4, <1>5, <1>7, <2>1
<1>8. w * FirstOffset(n) < n
  BY <1>6, <1>7
<1>9. p - 1 \in Nat /\ w - (p - 1) \in Nat /\ FirstOffset(n) \in Nat
  BY <1>1, FirstOffsetBounds DEF Ports
<1>10. /\ (p - 1) * FirstOffset(n) \in Nat /\ (w - (p - 1)) * FirstOffset(n) \in Nat
       /\ w * FirstOffset(n) = (p - 1) * FirstOffset(n) + (w - (p - 1)) * FirstOffset(n)
  BY <1>1, <1>9
<1> QED
  BY <1>8, <1>9, <1>10 DEF Empty

(***************************************************************************)
(* However many vectors there are, whatever their sizes, and however the   *)
(* threads of both sides take turns: a connection is queued at, accepted   *)
(* by and not reset by the sender's thread of its own transfer, except     *)
(* where it is exposed.  No hypothesis is made; where the vectors are      *)
(* large, or Bob waits, nothing is exposed (connectionThread's NetIO on    *)
(* both sides).                                                            *)
(***************************************************************************)
THEOREM TransfersKeepApart == Spec => []OwnTransfer
<1>1. ChunksInv /\ OwnInv(Synced) /\ [Next]_vars => OwnInv(Synced)'
  BY SyncedStep
<1>2. Init => OwnInv(Synced)
  BY OwnInit
<1> QED
  BY <1>1, <1>2, ChunksInit, ChunksStep, OwnInvOwns, PTL DEF Spec

(***************************************************************************)
(* When the receiver has returned from transferLargeVector, his vector is  *)
(* the sender's, element by element, whatever became of the connections:   *)
(* one that was exposed and disturbed keeps him there for ever, or had     *)
(* nothing to bring.                                                       *)
(***************************************************************************)
THEOREM VectorsArriveIntact == Spec => []VectorIntact
<1>1. ChunksInv /\ OwnInv(Synced) /\ [Next]_vars => OwnInv(Synced)'
  BY SyncedStep
<1>2. Init => OwnInv(Synced)
  BY OwnInit
<1>3. ChunksInv /\ OwnInv(Synced) => VectorIntact
  BY OwnInvIntact
<1> QED
  BY <1>1, <1>2, <1>3, ChunksInit, ChunksStep, PTL DEF Spec
-----------------------------------------------------------------------------
(* The scripts, step by step *)

LEMMA GarblerSteps ==
  /\ Len(Garbler) = 24
  /\ Garbler[1] = Sends("Y") /\ Garbler[2] = Recvs("Y") /\ Garbler[3] = Flushes
  /\ Garbler[4] = Sends("prf_key") /\ Garbler[5] = Flushes
  /\ Garbler[6] = Sends("helper_variables") /\ Garbler[7] = Flushes
  /\ Garbler[8] = Moves /\ Garbler[9] = Moves
  /\ Garbler[10] = Sends("gbits") /\ Garbler[11] = Flushes
  /\ Garbler[12] = Moves /\ Garbler[13] = Moves
  /\ Garbler[14] = Sends("garbler_inputs")
  /\ Garbler[15] = Recvs("A") /\ Garbler[16] = Sends("B") /\ Garbler[17] = Flushes
  /\ Garbler[18] = Recvs("base_ot") /\ Garbler[19] = Recvs("extension")
  /\ Garbler[20] = Sends("s") /\ Garbler[21] = Flushes
  /\ Garbler[22] = Sends("evaluator_inputs")
  /\ Garbler[23] = Sends("output_decoding_table") /\ Garbler[24] = Exits
  BY DEF Garbler, OtSender

LEMMA EvaluatorSteps ==
  /\ Len(Evaluator) = 20
  /\ Evaluator[1] = Recvs("Y") /\ Evaluator[2] = Sends("Y") /\ Evaluator[3] = Flushes
  /\ Evaluator[4] = Recvs("prf_key") /\ Evaluator[5] = Recvs("helper_variables")
  /\ Evaluator[6] = Moves /\ Evaluator[7] = Moves /\ Evaluator[8] = Recvs("gbits")
  /\ Evaluator[9] = Moves /\ Evaluator[10] = Moves /\ Evaluator[11] = Recvs("garbler_inputs")
  /\ Evaluator[12] = Sends("A") /\ Evaluator[13] = Recvs("B") /\ Evaluator[14] = Flushes
  /\ Evaluator[15] = Sends("base_ot") /\ Evaluator[16] = Sends("extension")
  /\ Evaluator[17] = Recvs("s") /\ Evaluator[18] = Flushes
  /\ Evaluator[19] = Recvs("evaluator_inputs") /\ Evaluator[20] = Recvs("output_decoding_table")
  BY DEF Evaluator, OtReceiver

-----------------------------------------------------------------------------
(* How far a script has come by its step c *)

Past(c, k, u) == IF c > k THEN u ELSE 0
One(b) == IF b THEN 1 ELSE 0

\* The fields sent
NumSent(s, c) ==
  IF s = "sender"
  THEN Past(c, 1, 1) + Past(c, 4, 1) + Past(c, 6, 1) + Past(c, 10, 1) + Past(c, 14, 1)
         + Past(c, 16, 1) + Past(c, 20, 1) + Past(c, 22, 1) + Past(c, 23, 1)
  ELSE Past(c, 2, 1) + Past(c, 12, 1) + Past(c, 15, 1) + Past(c, 16, 1)

\* The fields received
NumRead(s, c) ==
  IF s = "sender"
  THEN Past(c, 2, 1) + Past(c, 15, 1) + Past(c, 18, 1) + Past(c, 19, 1)
  ELSE Past(c, 1, 1) + Past(c, 4, 1) + Past(c, 5, 1) + Past(c, 8, 1) + Past(c, 11, 1)
         + Past(c, 13, 1) + Past(c, 17, 1) + Past(c, 19, 1) + Past(c, 20, 1)

\* The vectors transferred
NumMoves(s, c) ==
  IF s = "sender"
  THEN Past(c, 8, 1) + Past(c, 9, 1) + Past(c, 12, 1) + Past(c, 13, 1)
  ELSE Past(c, 6, 1) + Past(c, 7, 1) + Past(c, 9, 1) + Past(c, 10, 1)

\* What a side sends, in order
SentFields(s) ==
  IF s = "sender"
  THEN <<"Y", "prf_key", "helper_variables", "gbits", "garbler_inputs", "B", "s",
         "evaluator_inputs", "output_decoding_table">>
  ELSE <<"Y", "A", "base_ot", "extension">>

NumFields(s) == IF s = "sender" THEN 9 ELSE 4
Last(s) == IF s = "sender" THEN 24 ELSE 20

\* The units in the first n fields
Total(s, n, h) ==
  IF s = "sender"
  THEN Past(n, 0, 1) + Past(n, 1, 1) + Past(n, 2, 1) + Past(n, 3, h[7]) + Past(n, 4, h[2])
         + Past(n, 5, 1) + Past(n, 6, 1) + Past(n, 7, h[3]) + Past(n, 8, h[4])
  ELSE Past(n, 0, 1) + Past(n, 1, 1) + Past(n, 2, 1) + Past(n, 3, h[3])

\* What step c does
DoAt(s, c) ==
  IF s = "sender"
  THEN IF c \in {1, 4, 6, 10, 14, 16, 20, 22, 23} THEN "send"
       ELSE IF c \in {2, 15, 18, 19} THEN "recv"
       ELSE IF c \in {8, 9, 12, 13} THEN "transfer"
       ELSE IF c = 24 THEN "exit" ELSE "flush"
  ELSE IF c \in {2, 12, 15, 16} THEN "send"
       ELSE IF c \in {1, 4, 5, 8, 11, 13, 17, 19, 20} THEN "recv"
       ELSE IF c \in {6, 7, 9, 10} THEN "transfer" ELSE "flush"

LEMMA StepsDo ==
  ASSUME NEW s \in Side
  PROVE  /\ Len(Steps(s)) = Last(s)
         /\ \A c \in 1 .. Last(s) : Steps(s)[c].do = DoAt(s, c)
<1>1. ASSUME NEW c \in 1 .. 24 PROVE Garbler[c].do = DoAt("sender", c)
  <2>1. c \in {1, 2, 3, 4, 5, 6, 7, 8, 9, 10, 11, 12, 13, 14, 15, 16, 17, 18, 19, 20, 21, 22, 23, 24}
    OBVIOUS
  <2> QED
    BY <2>1, GarblerSteps DEF DoAt, Sends, Recvs, Flushes, Moves, Exits
<1>2. ASSUME NEW c \in 1 .. 20 PROVE Evaluator[c].do = DoAt("receiver", c)
  <2>1. c \in {1, 2, 3, 4, 5, 6, 7, 8, 9, 10, 11, 12, 13, 14, 15, 16, 17, 18, 19, 20}
    OBVIOUS
  <2> QED
    BY <2>1, EvaluatorSteps DEF DoAt, Sends, Recvs, Flushes, Moves, Exits
<1>3. CASE s = "sender"
  BY <1>1, <1>3, GarblerSteps DEF Steps, Last
<1>4. CASE s = "receiver"
  BY <1>2, <1>4, EvaluatorSteps DEF Steps, Last
<1> QED
  BY <1>3, <1>4 DEF Side

\* A step counts for what it does
LEMMA StepsCount ==
  ASSUME NEW s \in Side, NEW c \in 1 .. 24
  PROVE  /\ NumSent(s, c + 1) = NumSent(s, c) + One(DoAt(s, c) = "send")
         /\ NumRead(s, c + 1) = NumRead(s, c) + One(DoAt(s, c) = "recv")
         /\ NumMoves(s, c + 1) = NumMoves(s, c) + One(DoAt(s, c) = "transfer")
         /\ DoAt(s, c) = "send" => NumSent(s, c) \in 0 .. NumFields(s) - 1
         /\ DoAt(s, c) = "recv" => NumRead(s, c) \in 0 .. NumFields(Peer(s)) - 1
  BY DEF DoAt, One, NumSent, NumRead, NumMoves, NumFields, Peer, Side, Past

LEMMA CountsBounded ==
  ASSUME NEW s \in Side, NEW c \in 1 .. 25
  PROVE  /\ NumSent(s, c) \in 0 .. NumFields(s)
         /\ NumRead(s, c) \in 0 .. NumFields(Peer(s))
         /\ NumMoves(s, c) \in 0 .. 4
  BY DEF NumSent, NumRead, NumMoves, NumFields, Peer, Side, Past

LEMMA SentFieldsAt ==
  /\ SentFields("sender")[1] = "Y" /\ SentFields("sender")[2] = "prf_key"
  /\ SentFields("sender")[3] = "helper_variables" /\ SentFields("sender")[4] = "gbits"
  /\ SentFields("sender")[5] = "garbler_inputs" /\ SentFields("sender")[6] = "B"
  /\ SentFields("sender")[7] = "s" /\ SentFields("sender")[8] = "evaluator_inputs"
  /\ SentFields("sender")[9] = "output_decoding_table" /\ SentFields("receiver")[1] = "Y"
  /\ SentFields("receiver")[2] = "A" /\ SentFields("receiver")[3] = "base_ot"
  /\ SentFields("receiver")[4] = "extension"
  BY DEF SentFields

LEMMA NumbersAt ==
  /\ NumSent("sender", 1) = 0 /\ NumSent("sender", 4) = 1 /\ NumSent("sender", 6) = 2
  /\ NumSent("sender", 10) = 3 /\ NumSent("sender", 14) = 4 /\ NumSent("sender", 16) = 5
  /\ NumSent("sender", 20) = 6 /\ NumSent("sender", 22) = 7 /\ NumSent("sender", 23) = 8
  /\ NumRead("sender", 2) = 0 /\ NumRead("sender", 15) = 1 /\ NumRead("sender", 18) = 2
  /\ NumRead("sender", 19) = 3 /\ NumSent("receiver", 2) = 0 /\ NumSent("receiver", 12) = 1
  /\ NumSent("receiver", 15) = 2 /\ NumSent("receiver", 16) = 3
  /\ NumRead("receiver", 1) = 0 /\ NumRead("receiver", 4) = 1 /\ NumRead("receiver", 5) = 2
  /\ NumRead("receiver", 8) = 3 /\ NumRead("receiver", 11) = 4
  /\ NumRead("receiver", 13) = 5 /\ NumRead("receiver", 17) = 6
  /\ NumRead("receiver", 19) = 7 /\ NumRead("receiver", 20) = 8
  BY DEF NumSent, NumRead, Past

\* The fields are sent and received in the order of SentFields
LEMMA StepsFields ==
  ASSUME NEW s \in Side, NEW c \in 1 .. Last(s)
  PROVE  /\ DoAt(s, c) = "send" => Steps(s)[c].field = SentFields(s)[NumSent(s, c) + 1]
         /\ DoAt(s, c) = "recv" => Steps(s)[c].field = SentFields(Peer(s))[NumRead(s, c) + 1]
<1>1. ASSUME NEW d \in {1, 4, 6, 10, 14, 16, 20, 22, 23}
      PROVE  Garbler[d].field = SentFields("sender")[NumSent("sender", d) + 1]
  BY <1>1, GarblerSteps, SentFieldsAt, NumbersAt, SMTT(60) DEF Sends
<1>2. ASSUME NEW d \in {2, 15, 18, 19}
      PROVE  Garbler[d].field = SentFields("receiver")[NumRead("sender", d) + 1]
  BY <1>2, GarblerSteps, SentFieldsAt, NumbersAt, SMTT(60) DEF Recvs
<1>3. ASSUME NEW d \in {2, 12, 15, 16}
      PROVE  Evaluator[d].field = SentFields("receiver")[NumSent("receiver", d) + 1]
  BY <1>3, EvaluatorSteps, SentFieldsAt, NumbersAt, SMTT(60) DEF Sends
<1>4. ASSUME NEW d \in {1, 4, 5, 8, 11, 13, 17, 19, 20}
      PROVE  Evaluator[d].field = SentFields("sender")[NumRead("receiver", d) + 1]
  BY <1>4, EvaluatorSteps, SentFieldsAt, NumbersAt, SMTT(60) DEF Recvs
<1>5. CASE s = "sender"
  BY <1>1, <1>2, <1>5 DEF DoAt, Peer, Steps
<1>6. CASE s = "receiver"
  BY <1>3, <1>4, <1>6 DEF DoAt, Peer, Steps
<1> QED
  BY <1>5, <1>6 DEF Side

\* While s is to send a field, its peer, who waits for it, has sent no more than
\* s has read
LEMMA PeerWaits ==
  ASSUME NEW s \in Side, NEW c \in 1 .. 24, NEW d \in 1 .. 25,
         DoAt(s, c) = "send", NumRead(Peer(s), d) <= NumSent(s, c)
  PROVE  NumSent(Peer(s), d) <= NumRead(s, c)
  BY DEF DoAt, NumSent, NumRead, Peer, Side, Past

\* Bob is told the sizes in his fifth step, and needs none before
LEMMA SizesTold ==
  /\ \A c \in {1, 2, 4, 5} : Evaluator[c].field \in {"Y", "prf_key", "helper_variables"}
  /\ Evaluator[5].field = "helper_variables"
  /\ \A c \in {1, 4, 8, 11, 13, 17, 19, 20} : Evaluator[c].field # "helper_variables"
  /\ \A c \in {2, 15, 18, 19} : Garbler[c].field # "helper_variables"
  BY EvaluatorSteps, GarblerSteps DEF Sends, Recvs
-----------------------------------------------------------------------------
(* The streams *)

LEMMA UnitsOf ==
  ASSUME NEW h
  PROVE  /\ Units("gbits", h) = h[7]
         /\ Units("garbler_inputs", h) = h[2]
         /\ Units("extension", h) = h[3] /\ Units("evaluator_inputs", h) = h[3]
         /\ Units("output_decoding_table", h) = h[4]
         /\ \A f \in {"Y", "prf_key", "helper_variables", "A", "B", "base_ot", "s"} : Units(f, h) = 1
  BY ZenonT(30) DEF Units

SizesKnown(h) == h[2] \in Nat /\ h[3] \in Nat /\ h[4] \in Nat /\ h[7] \in Nat

LEMMA Totals ==
  ASSUME NEW s \in Side, NEW h, SizesKnown(h)
  PROVE  /\ \A n \in 0 .. NumFields(s) : Total(s, n, h) \in Nat
         /\ \A n \in 0 .. NumFields(s) - 1 :
              Total(s, n + 1, h) = Total(s, n, h) + Units(SentFields(s)[n + 1], h)
         /\ \A m, n \in 0 .. NumFields(s) : m <= n => Total(s, m, h) <= Total(s, n, h)
<1>1. CASE s = "sender"
  <2>1. \A m, n \in 0 .. 9 : /\ Total(s, n, h) \in Nat
                             /\ m <= n => Total(s, m, h) <= Total(s, n, h)
    BY <1>1 DEF Total, Past, SizesKnown
  <2>2. ASSUME NEW n \in 0 .. 8
        PROVE  Total(s, n + 1, h) = Total(s, n, h) + Units(SentFields(s)[n + 1], h)
    <3>1. n \in {0, 1, 2, 3, 4, 5, 6, 7, 8}
      OBVIOUS
    <3> QED
      BY <1>1, <3>1, UnitsOf, SentFieldsAt, SMTT(60) DEF Total, Past, SizesKnown
  <2>3. NumFields(s) = 9 /\ 0 .. NumFields(s) - 1 = 0 .. 8
    BY <1>1 DEF NumFields
  <2> QED
    BY <2>1, <2>2, <2>3, Zenon
<1>2. CASE s = "receiver"
  <2>1. \A m, n \in 0 .. 4 : /\ Total(s, n, h) \in Nat
                             /\ m <= n => Total(s, m, h) <= Total(s, n, h)
    BY <1>2 DEF Total, Past, SizesKnown
  <2>2. ASSUME NEW n \in 0 .. 3
        PROVE  Total(s, n + 1, h) = Total(s, n, h) + Units(SentFields(s)[n + 1], h)
    <3>1. n \in {0, 1, 2, 3}
      OBVIOUS
    <3> QED
      BY <1>2, <3>1, UnitsOf, SentFieldsAt, SMTT(60) DEF Total, Past, SizesKnown
  <2>3. NumFields(s) = 4 /\ 0 .. NumFields(s) - 1 = 0 .. 3
    BY <1>2 DEF NumFields
  <2> QED
    BY <2>1, <2>2, <2>3, Zenon
<1> QED
  BY <1>1, <1>2 DEF Side

LEMMA FieldUnits ==
  ASSUME NEW s \in Side, NEW n \in 0 .. NumFields(s) - 1, NEW h, SizesKnown(h)
  PROVE  /\ SentFields(s)[n + 1] \in Field
         /\ Units(SentFields(s)[n + 1], h) \in Nat
         /\ Message(SentFields(s)[n + 1], h) \in Seq(Field \X Nat)
         /\ Len(Message(SentFields(s)[n + 1], h)) = Units(SentFields(s)[n + 1], h)
<1> DEFINE f == SentFields(s)[n + 1]
           u == Units(f, h)
<1>1. f \in Field
  <2>1. CASE s = "sender"
    <3>1. n \in {0, 1, 2, 3, 4, 5, 6, 7, 8}
      BY <2>1 DEF NumFields
    <3> QED
      BY <2>1, <3>1, SentFieldsAt, SMTT(30) DEF Field
  <2>2. CASE s = "receiver"
    <3>1. n \in {0, 1, 2, 3}
      BY <2>2 DEF NumFields
    <3> QED
      BY <2>2, <3>1, SentFieldsAt, SMTT(30) DEF Field
  <2> QED
    BY <2>1, <2>2 DEF Side
<1> HIDE DEF f
<1>2. u \in Nat
  BY <1>1, UnitsOf, SMTT(30) DEF Field, SizesKnown
<1>3. Message(f, h) = [k \in 1 .. u |-> <<f, k>>]
  BY DEF Message
<1> HIDE DEF u
<1>4. Message(f, h) \in [1 .. u -> Field \X Nat]
  BY <1>1, <1>2, <1>3
<1>5. Message(f, h) \in Seq(Field \X Nat) /\ Len(Message(f, h)) = u
  BY <1>2, <1>4
<1> QED
  BY <1>1, <1>2, <1>5 DEF f, u

Unit == Field \X Nat

\* q holds the fields of s from the r-th, which are read, to the n-th, which are sent
Carries(q, s, r, n, h) ==
  /\ q \in Seq(Unit)
  /\ Len(q) = Total(s, n, h) - Total(s, r, h)
  /\ \A m \in r + 1 .. n : \A k \in 1 .. Units(SentFields(s)[m], h) :
       q[Total(s, m - 1, h) - Total(s, r, h) + k] = <<SentFields(s)[m], k>>

\* q is p with msg added to it
Added(q, p, msg) == q = p \o msg

LEMMA Within ==
  ASSUME NEW a \in Nat, NEW b \in Nat, NEW c \in Nat, NEW v \in Nat, NEW k \in 1 .. v,
         b <= a, a + v <= c
  PROVE  a - b + k \in 1 .. c - b
  OBVIOUS

LEMMA CarriesSent ==
  ASSUME NEW s \in Side, NEW h, SizesKnown(h), NEW q,
         NEW r \in 0 .. NumFields(s), NEW n \in 0 .. NumFields(s) - 1, Carries(q, s, r, n, h),
         NEW new, Added(new, q, Message(SentFields(s)[n + 1], h))
  PROVE  Carries(new, s, r, n + 1, h)
<1> DEFINE f == SentFields(s)[n + 1]
           msg == Message(f, h)
           T(m) == Total(s, m, h)
<1>1. /\ n \in Nat /\ r \in Nat /\ n + 1 \in 0 .. NumFields(s) /\ n \in 0 .. NumFields(s)
      /\ NumFields(s) \in Nat
  BY DEF NumFields
<1>2. \A m \in 0 .. NumFields(s) : T(m) \in Nat
  BY Totals
<1>3. T(n + 1) = T(n) + Units(f, h)
  BY Totals
<1>4. msg \in Seq(Unit) /\ Len(msg) = Units(f, h) /\ Units(f, h) \in Nat
  BY FieldUnits DEF Unit
<1>5. \A k \in 1 .. Units(f, h) : msg[k] = <<f, k>>
  BY DEF Message
<1>6. /\ q \in Seq(Unit) /\ Len(q) = T(n) - T(r)
      /\ \A m \in r + 1 .. n : \A k \in 1 .. Units(SentFields(s)[m], h) :
           q[T(m - 1) - T(r) + k] = <<SentFields(s)[m], k>>
  BY DEF Carries
<1>7. /\ new \in Seq(Unit) /\ Len(new) = Len(q) + Len(msg)
      /\ \A i \in 1 .. Len(q) + Len(msg) :
           new[i] = IF i <= Len(q) THEN q[i] ELSE msg[i - Len(q)]
  BY <1>4, <1>6, ConcatProperties DEF Added
<1>8. T(n) \in Nat /\ T(r) \in Nat /\ Len(q) \in Nat
  BY <1>1, <1>2, <1>6, LenProperties
<1>9. ASSUME NEW m \in r + 1 .. n + 1, NEW k \in 1 .. Units(SentFields(s)[m], h)
      PROVE  new[T(m - 1) - T(r) + k] = <<SentFields(s)[m], k>>
  <2>1. CASE m = n + 1
    <3>1. SentFields(s)[m] = f /\ m - 1 = n /\ k \in 1 .. Units(f, h)
      BY <1>1, <2>1
    <3> HIDE DEF f, msg, T
    <3>2. T(m - 1) - T(r) + k = Len(q) + k
      BY <1>6, <3>1
    <3>3. new[Len(q) + k] = msg[k]
      <4>1. Len(q) + k \in 1 .. Len(q) + Len(msg) /\ ~ (Len(q) + k <= Len(q)) /\ Len(q) + k - Len(q) = k
        BY <1>4, <1>8, <3>1
      <4> QED
        BY <1>7, <4>1
    <3> QED
      BY <1>5, <3>1, <3>2, <3>3
  <2>2. CASE m # n + 1
    <3> DEFINE g == SentFields(s)[m]
    <3>1. m \in r + 1 .. n /\ m - 1 \in 0 .. NumFields(s) - 1 /\ (m - 1) + 1 = m /\ m \in 0 .. NumFields(s)
      BY <1>1, <2>2
    <3>2. T(m) = T(m - 1) + Units(g, h) /\ T(m - 1) \in Nat /\ Units(g, h) \in Nat
      <4>1. T((m - 1) + 1) = T(m - 1) + Units(SentFields(s)[(m - 1) + 1], h)
        BY <3>1, Totals
      <4>2. Units(SentFields(s)[(m - 1) + 1], h) \in Nat
        BY <3>1, FieldUnits
      <4>3. T(m - 1) \in Nat
        BY <1>1, <1>2, <3>1
      <4> QED
        BY <3>1, <4>1, <4>2, <4>3
    <3>3. T(r) <= T(m - 1) /\ T(m) <= T(n)
      <4>1. r <= m - 1 /\ m <= n /\ m - 1 \in 0 .. NumFields(s)
        BY <1>1, <3>1
      <4> QED
        BY <1>1, <3>1, <4>1, Totals
    <3>4. q[T(m - 1) - T(r) + k] = <<g, k>>
      BY <1>6, <3>1
    <3> HIDE DEF f, msg, T, g
    <3>5. k \in 1 .. Units(g, h)
      BY DEF g
    <3> DEFINE i == T(m - 1) - T(r) + k
    <3>6. i \in 1 .. T(n) - T(r)
      BY <1>8, <3>2, <3>3, <3>5, Within
    <3>7. i \in 1 .. Len(q) /\ i \in 1 .. Len(q) + Len(msg) /\ i <= Len(q)
      <4> HIDE DEF i
      <4> QED
        BY <1>4, <1>6, <1>8, <3>6
    <3> QED
      BY <1>7, <3>4, <3>7 DEF g
  <2> QED
    BY <2>1, <2>2
<1>10. Len(new) = T(n + 1) - T(r)
  <2> HIDE DEF T, msg, f
  <2> QED
    BY <1>3, <1>4, <1>6, <1>7, <1>8
<1> QED
  BY <1>7, <1>9, <1>10 DEF Carries

\* What is read is the next field, and what is left carries those after it
LEMMA CarriesRead ==
  ASSUME NEW s \in Side, NEW h, SizesKnown(h), NEW q,
         NEW r \in 0 .. NumFields(s) - 1, NEW n \in 0 .. NumFields(s), Carries(q, s, r, n, h),
         Len(q) >= Units(SentFields(s)[r + 1], h)
  PROVE  LET u == Units(SentFields(s)[r + 1], h)
         IN  /\ SubSeq(q, 1, u) = Message(SentFields(s)[r + 1], h)
             /\ Carries(SubSeq(q, u + 1, Len(q)), s, r + 1, n, h)
<1> DEFINE f == SentFields(s)[r + 1]
           u == Units(f, h)
           msg == Message(f, h)
           rest == SubSeq(q, u + 1, Len(q))
           T(m) == Total(s, m, h)
<1>1. /\ n \in Nat /\ r \in Nat /\ r + 1 \in 0 .. NumFields(s) /\ r \in 0 .. NumFields(s)
      /\ NumFields(s) \in Nat
  BY DEF NumFields
<1>2. \A m \in 0 .. NumFields(s) : T(m) \in Nat
  BY Totals
<1>3. T(r + 1) = T(r) + u
  BY Totals
<1>4. msg \in Seq(Unit) /\ Len(msg) = u /\ u \in Nat
  BY FieldUnits DEF Unit
<1>5. \A k \in 1 .. u : msg[k] = <<f, k>>
  BY DEF Message
<1>6. /\ q \in Seq(Unit) /\ Len(q) = T(n) - T(r)
      /\ \A m \in r + 1 .. n : \A k \in 1 .. Units(SentFields(s)[m], h) :
           q[T(m - 1) - T(r) + k] = <<SentFields(s)[m], k>>
  BY DEF Carries
<1>7. T(n) \in Nat /\ T(r) \in Nat /\ Len(q) \in Nat /\ u <= Len(q)
  BY <1>1, <1>2, <1>6, LenProperties
<1>8. \A i \in 1 .. Len(q) : q[i] \in Unit
  BY <1>6, ElementOfSeq
<1>9. /\ SubSeq(q, 1, u) \in Seq(Unit) /\ Len(SubSeq(q, 1, u)) = u
      /\ \A i \in 1 .. u : SubSeq(q, 1, u)[i] = q[i]
  <2> HIDE DEF u
  <2>1. 1 \in Int /\ u \in Int /\ \A i \in 1 .. u : q[i] \in Unit
    BY <1>4, <1>7, <1>8
  <2>2. /\ SubSeq(q, 1, u) \in Seq(Unit)
        /\ Len(SubSeq(q, 1, u)) = IF 1 <= u THEN u - 1 + 1 ELSE 0
        /\ \A i \in 1 .. u - 1 + 1 : SubSeq(q, 1, u)[i] = q[1 + i - 1]
    BY <2>1, SubSeqProperties
  <2> QED
    BY <1>4, <2>2
<1>10. /\ rest \in Seq(Unit) /\ Len(rest) = Len(q) - u
       /\ \A i \in 1 .. Len(q) - u : rest[i] = q[u + i]
  <2> HIDE DEF u
  <2>1. u + 1 \in Int /\ Len(q) \in Int /\ \A i \in u + 1 .. Len(q) : q[i] \in Unit
    BY <1>4, <1>7, <1>8
  <2>2. /\ rest \in Seq(Unit)
        /\ Len(rest) = IF u + 1 <= Len(q) THEN Len(q) - (u + 1) + 1 ELSE 0
        /\ \A i \in 1 .. Len(q) - (u + 1) + 1 : rest[i] = q[(u + 1) + i - 1]
    BY <2>1, SubSeqProperties
  <2> HIDE DEF rest
  <2> QED
    BY <1>4, <1>7, <2>2
\* a field of units can only have come if it has been sent
<1>11. u > 0 => r + 1 <= n
  <2> SUFFICES ASSUME u > 0, n <= r PROVE FALSE
    BY <1>1
  <2>1. T(n) <= T(r)
    BY <1>1, Totals
  <2> HIDE DEF u, T
  <2> QED
    BY <1>4, <1>6, <1>7, <2>1
<1>12. SubSeq(q, 1, u) = msg
  <2>1. ASSUME NEW i \in 1 .. u PROVE SubSeq(q, 1, u)[i] = msg[i]
    <3>1. r + 1 \in r + 1 .. n /\ (r + 1) - 1 = r
      BY <1>1, <1>4, <1>11
    <3>2. q[T((r + 1) - 1) - T(r) + i] = <<f, i>>
      BY <1>6, <3>1
    <3>3. T((r + 1) - 1) - T(r) + i = i
      <4> HIDE DEF T
      <4> QED
        BY <1>4, <1>7, <3>1
    <3> QED
      BY <1>5, <1>9, <3>2, <3>3
  <2> HIDE DEF u, msg
  <2> QED
    BY <1>4, <1>9, <2>1, SeqEqual
<1>13. ASSUME NEW m \in (r + 1) + 1 .. n, NEW k \in 1 .. Units(SentFields(s)[m], h)
       PROVE  rest[T(m - 1) - T(r + 1) + k] = <<SentFields(s)[m], k>>
  <2> DEFINE g == SentFields(s)[m]
  <2>1. m \in r + 1 .. n /\ m - 1 \in 0 .. NumFields(s) - 1 /\ (m - 1) + 1 = m /\ m \in 0 .. NumFields(s)
    BY <1>1
  <2>2. T(m) = T(m - 1) + Units(g, h) /\ T(m - 1) \in Nat /\ Units(g, h) \in Nat
    <3>1. T((m - 1) + 1) = T(m - 1) + Units(SentFields(s)[(m - 1) + 1], h)
      BY <2>1, Totals
    <3>2. Units(SentFields(s)[(m - 1) + 1], h) \in Nat
      BY <2>1, FieldUnits
    <3>3. T(m - 1) \in Nat
      BY <1>1, <1>2, <2>1
    <3> QED
      BY <2>1, <3>1, <3>2, <3>3
  <2>3. T(r + 1) <= T(m - 1) /\ T(m) <= T(n)
    <3>1. r + 1 <= m - 1 /\ m <= n /\ m - 1 \in 0 .. NumFields(s)
      BY <1>1, <2>1
    <3> QED
      BY <1>1, <2>1, <3>1, Totals
  <2>4. q[T(m - 1) - T(r) + k] = <<g, k>>
    BY <1>6, <2>1
  <2>5. k \in 1 .. Units(g, h)
    OBVIOUS
  <2> DEFINE i == T(m - 1) - T(r + 1) + k
  <2> HIDE DEF u, T, g, rest
  <2>6. i \in 1 .. T(n) - T(r + 1)
    <3>1. T(r + 1) \in Nat
      BY <1>3, <1>4, <1>7
    <3> QED
      BY <1>7, <2>2, <2>3, <2>5, <3>1, Within
  <2>7. i \in 1 .. Len(q) - u
    <3> HIDE DEF i
    <3> QED
      BY <1>3, <1>4, <1>6, <1>7, <2>6
  <2>8. u + i = T(m - 1) - T(r) + k
    <3>1. k \in Int
      BY <2>2, <2>5
    <3> QED
      BY <1>3, <1>4, <1>7, <2>2, <3>1
  <2> QED
    BY <1>10, <2>4, <2>7, <2>8 DEF g
<1>14. Len(rest) = T(n) - T(r + 1)
  <2> HIDE DEF T, u, rest
  <2> QED
    BY <1>3, <1>4, <1>6, <1>7, <1>10
<1> QED
  BY <1>10, <1>12, <1>13, <1>14 DEF Carries

LEMMA Regroup == \A u, v, w \in Seq(Unit) : (u \o v) \o w = u \o (v \o w)
  BY ConcatAssociative

\* fwrite passes a part of what there is on: all of it stays in order
LEMMA PassedOn ==
  ASSUME NEW w \in Seq(Unit), NEW b \in Seq(Unit), NEW msg \in Seq(Unit),
         NEW all, all = b \o msg, NEW n \in 0 .. Len(all)
  PROVE  /\ SubSeq(all, 1, n) \in Seq(Unit) /\ SubSeq(all, n + 1, Len(all)) \in Seq(Unit)
         /\ Added((w \o SubSeq(all, 1, n)) \o SubSeq(all, n + 1, Len(all)), w \o b, msg)
<1>1. all \in Seq(Unit)
  BY ConcatProperties
<1>2. Len(all) \in Nat /\ n \in Nat /\ n <= Len(all) /\ \A i \in 1 .. Len(all) : all[i] \in Unit
  BY <1>1, LenProperties, ElementOfSeq
<1>3. SubSeq(all, 1, n) \in Seq(Unit)
  <2>1. n \in Int /\ \A i \in 1 .. n : all[i] \in Unit
    BY <1>2
  <2> QED
    BY <2>1, SubSeqProperties
<1>4. SubSeq(all, n + 1, Len(all)) \in Seq(Unit)
  <2>1. n + 1 \in Int /\ Len(all) \in Int /\ \A i \in n + 1 .. Len(all) : all[i] \in Unit
    BY <1>2
  <2> QED
    BY <2>1, SubSeqProperties
<1>5. SubSeq(all, 1, n) \o SubSeq(all, n + 1, Len(all)) = SubSeq(all, 1, Len(all))
  <2>1. 1 \in 1 .. Len(all) + 1 /\ n \in 1 - 1 .. Len(all) /\ Len(all) \in n .. Len(all)
    BY <1>2
  <2> QED
    BY <1>1, <2>1, ConcatAdjacentSubSeq
<1>6. SubSeq(all, 1, Len(all)) = all
  BY <1>1, SubSeqFull
<1>7. (w \o SubSeq(all, 1, n)) \o SubSeq(all, n + 1, Len(all)) = w \o all
  <2> DEFINE x == SubSeq(all, 1, n)
             y == SubSeq(all, n + 1, Len(all))
  <2>1. x \in Seq(Unit) /\ y \in Seq(Unit)
    BY <1>3, <1>4
  <2>2. x \o y = all
    BY <1>5, <1>6
  <2> HIDE DEF x, y
  <2>3. (w \o x) \o y = w \o (x \o y)
    BY <2>1, Regroup
  <2> QED
    BY <2>2, <2>3 DEF x, y
<1>8. w \o (b \o msg) = (w \o b) \o msg
  BY Regroup
<1> QED
  BY <1>3, <1>4, <1>7, <1>8 DEF Added

\* fread takes from the front
LEMMA TakenOff ==
  ASSUME NEW w \in Seq(Unit), NEW b \in Seq(Unit), NEW n \in 0 .. Len(w)
  PROVE  /\ SubSeq(w, 1, n) = SubSeq(w \o b, 1, n)
         /\ SubSeq(w, n + 1, Len(w)) \in Seq(Unit)
         /\ SubSeq(w, n + 1, Len(w)) \o b = SubSeq(w \o b, n + 1, Len(w \o b))
<1> DEFINE q == w \o b
           rest == SubSeq(w, n + 1, Len(w))
<1>1. /\ q \in Seq(Unit) /\ Len(q) = Len(w) + Len(b)
      /\ \A i \in 1 .. Len(w) + Len(b) : q[i] = IF i <= Len(w) THEN w[i] ELSE b[i - Len(w)]
  BY ConcatProperties
<1>2. /\ Len(w) \in Nat /\ Len(b) \in Nat /\ n \in Nat /\ n <= Len(w)
      /\ \A i \in 1 .. Len(w) : w[i] \in Unit
      /\ \A i \in 1 .. Len(q) : q[i] \in Unit
  BY <1>1, LenProperties, ElementOfSeq
<1> HIDE DEF q
<1>3. SubSeq(w, 1, n) = SubSeq(q, 1, n)
  <2>1. n \in Int /\ (\A i \in 1 .. n : w[i] \in Unit) /\ (\A i \in 1 .. n : q[i] \in Unit)
    BY <1>1, <1>2
  <2>2. /\ SubSeq(w, 1, n) \in Seq(Unit) /\ Len(SubSeq(w, 1, n)) = IF 1 <= n THEN n - 1 + 1 ELSE 0
        /\ \A i \in 1 .. n - 1 + 1 : SubSeq(w, 1, n)[i] = w[1 + i - 1]
    BY <2>1, SubSeqProperties
  <2>3. /\ SubSeq(q, 1, n) \in Seq(Unit) /\ Len(SubSeq(q, 1, n)) = IF 1 <= n THEN n - 1 + 1 ELSE 0
        /\ \A i \in 1 .. n - 1 + 1 : SubSeq(q, 1, n)[i] = q[1 + i - 1]
    BY <2>1, SubSeqProperties
  <2>4. ASSUME NEW i \in 1 .. Len(SubSeq(w, 1, n)) PROVE SubSeq(w, 1, n)[i] = SubSeq(q, 1, n)[i]
    <3>1. i \in 1 .. n /\ i \in 1 .. n - 1 + 1 /\ 1 + i - 1 = i /\ i \in 1 .. Len(w) + Len(b) /\ i <= Len(w)
      BY <1>2, <2>2
    <3> QED
      BY <1>1, <2>2, <2>3, <3>1
  <2>5. Len(SubSeq(w, 1, n)) = Len(SubSeq(q, 1, n))
    BY <2>2, <2>3
  <2> QED
    BY <2>2, <2>3, <2>4, <2>5, SeqEqual
<1>4. /\ rest \in Seq(Unit) /\ Len(rest) = Len(w) - n
      /\ \A i \in 1 .. Len(w) - n : rest[i] = w[n + i]
  <2>1. n + 1 \in Int /\ Len(w) \in Int /\ \A i \in n + 1 .. Len(w) : w[i] \in Unit
    BY <1>2
  <2>2. /\ rest \in Seq(Unit) /\ Len(rest) = IF n + 1 <= Len(w) THEN Len(w) - (n + 1) + 1 ELSE 0
        /\ \A i \in 1 .. Len(w) - (n + 1) + 1 : rest[i] = w[(n + 1) + i - 1]
    BY <2>1, SubSeqProperties
  <2> HIDE DEF rest
  <2>3. Len(w) \in Nat /\ n \in Nat /\ n <= Len(w)
    BY <1>2
  <2> QED
    BY <2>2, <2>3
<1>5. /\ SubSeq(q, n + 1, Len(q)) \in Seq(Unit) /\ Len(SubSeq(q, n + 1, Len(q))) = Len(q) - n
      /\ \A i \in 1 .. Len(q) - n : SubSeq(q, n + 1, Len(q))[i] = q[n + i]
  <2> DEFINE tail == SubSeq(q, n + 1, Len(q))
  <2>1. n + 1 \in Int /\ Len(q) \in Int /\ \A i \in n + 1 .. Len(q) : q[i] \in Unit
    BY <1>1, <1>2
  <2>2. /\ tail \in Seq(Unit) /\ Len(tail) = IF n + 1 <= Len(q) THEN Len(q) - (n + 1) + 1 ELSE 0
        /\ \A i \in 1 .. Len(q) - (n + 1) + 1 : tail[i] = q[(n + 1) + i - 1]
    BY <2>1, SubSeqProperties
  <2> HIDE DEF tail
  <2>3. tail \in Seq(Unit) /\ Len(tail) = Len(q) - n /\ \A i \in 1 .. Len(q) - n : tail[i] = q[n + i]
    BY <1>1, <1>2, <2>2
  <2> QED
    BY <2>3 DEF tail
<1> HIDE DEF rest
<1>6. /\ rest \o b \in Seq(Unit) /\ Len(rest \o b) = Len(rest) + Len(b)
      /\ \A i \in 1 .. Len(rest) + Len(b) :
           (rest \o b)[i] = IF i <= Len(rest) THEN rest[i] ELSE b[i - Len(rest)]
  BY <1>4, ConcatProperties
<1>7. Len(rest \o b) = Len(SubSeq(q, n + 1, Len(q)))
  BY <1>1, <1>2, <1>4, <1>5, <1>6
<1>8. ASSUME NEW i \in 1 .. Len(rest \o b) PROVE (rest \o b)[i] = SubSeq(q, n + 1, Len(q))[i]
  <2>1. /\ i \in 1 .. Len(rest) + Len(b) /\ i \in 1 .. Len(q) - n /\ n + i \in 1 .. Len(w) + Len(b)
        /\ n + i <= Len(w) <=> i <= Len(rest)
        /\ n + i - Len(w) = i - Len(rest)
    BY <1>1, <1>2, <1>4, <1>6
  <2>2. SubSeq(q, n + 1, Len(q))[i] = IF i <= Len(rest) THEN w[n + i] ELSE b[i - Len(rest)]
    BY <1>1, <1>5, <2>1
  <2>3. (rest \o b)[i] = IF i <= Len(rest) THEN rest[i] ELSE b[i - Len(rest)]
    BY <1>6, <2>1
  <2>4. i <= Len(rest) => rest[i] = w[n + i]
    BY <1>2, <1>4, <2>1
  <2> QED
    BY <2>2, <2>3, <2>4
<1>9. rest \o b = SubSeq(q, n + 1, Len(q))
  BY <1>5, <1>6, <1>7, <1>8, SeqEqual
<1> QED
  BY <1>3, <1>4, <1>9 DEF q, rest
-----------------------------------------------------------------------------
(* The invariant of the conversation *)

H == HelperVariables(counts)
Queue(s) == wire[s] \o buffer[s]   \* all that s has sent and its peer has not read
Sent(s) == NumSent(s, pc[s])
Read(s) == NumRead(s, pc[s])
Moved(s) == NumMoves(s, pc[s])

ChannelTypeInv ==
  /\ counts \in Counts
  /\ pc \in [Side -> Nat] /\ \A s \in Side : pc[s] \in 1 .. Last(s) + 1
  /\ wire \in [Side -> Seq(Unit)]
  /\ buffer \in [Side -> Seq(Unit)]
  /\ got \in [Side -> [Field -> Seq(Unit)]]

\* Bob knows the sizes once he is past his fifth step
HelperInv ==
  /\ DOMAIN helper = Side
  /\ helper["sender"] = H
  /\ helper["receiver"] = IF pc["receiver"] > 5 THEN H ELSE <<>>

\* What is under way is what one side has sent and the other has not read
QueuesInv == \A s \in Side : Carries(Queue(s), s, Read(Peer(s)), Sent(s), H)

MovesInv == \A s \in Side : xfer[s] = 1 + Moved(s)

ConversationInv == ChannelTypeInv /\ HelperInv /\ QueuesInv /\ FieldsArrive /\ MovesInv

LEMMA SidesDiffer ==
  /\ "sender" \in Side /\ "receiver" \in Side /\ "sender" # "receiver"
  /\ \A s \in Side : Peer(s) \in Side /\ Peer(s) # s /\ Peer(Peer(s)) = s
  /\ \A s, t \in Side : t = s \/ t = Peer(s)
  BY DEF Side, Peer

LEMMA SizesAreKnown == counts \in Counts => SizesKnown(H)
<1> SUFFICES ASSUME counts \in Counts PROVE SizesKnown(H)
  OBVIOUS
<1>1. counts \in [gram_bits : Nat, garbler_inputs : Nat, evaluator_inputs : Nat, outputs : Nat]
  BY CountsAssumption
<1>2. /\ H[2] = counts.garbler_inputs /\ H[3] = counts.evaluator_inputs
      /\ H[4] = counts.outputs /\ H[7] = counts.gram_bits
  BY DEF H, HelperVariables
<1> QED
  BY <1>1, <1>2 DEF SizesKnown

\* What a step does is what the table says
LEMMA AtStep ==
  ASSUME ChannelTypeInv, NEW s \in Side, NEW do, At(s, do)
  PROVE  pc[s] \in 1 .. Last(s) /\ pc[s] \in 1 .. 24 /\ DoAt(s, pc[s]) = do
<1>1. pc[s] \in 1 .. Last(s) + 1 /\ Last(s) \in {24, 20} /\ pc[s] \in Nat
  BY DEF ChannelTypeInv, Last
<1>2. ~ (pc[s] > Len(Steps(s))) /\ Steps(s)[pc[s]].do = do
  BY DEF At, Ended
<1>3. pc[s] \in 1 .. Last(s)
  BY <1>1, <1>2, StepsDo
<1>4. pc[s] \in 1 .. 24
  BY <1>1, <1>3
<1> QED
  BY <1>2, <1>3, <1>4, StepsDo

\* The field that is sent or read next
LEMMA AtField ==
  ASSUME ChannelTypeInv, NEW s \in Side
  PROVE  /\ At(s, "send") => /\ Sent(s) \in 0 .. NumFields(s) - 1
                             /\ FieldAt(s) = SentFields(s)[Sent(s) + 1]
         /\ At(s, "recv") => /\ Read(s) \in 0 .. NumFields(Peer(s)) - 1
                             /\ FieldAt(s) = SentFields(Peer(s))[Read(s) + 1]
<1>1. CASE At(s, "send")
  <2>1. pc[s] \in 1 .. Last(s) /\ pc[s] \in 1 .. 24 /\ DoAt(s, pc[s]) = "send"
    BY <1>1, AtStep
  <2>2. ~ At(s, "recv")
    BY <1>1 DEF At
  <2> QED
    BY <2>1, <2>2, StepsCount, StepsFields DEF Sent, FieldAt
<1>2. CASE At(s, "recv")
  <2>1. pc[s] \in 1 .. Last(s) /\ pc[s] \in 1 .. 24 /\ DoAt(s, pc[s]) = "recv"
    BY <1>2, AtStep
  <2>2. ~ At(s, "send")
    BY <1>2 DEF At
  <2> QED
    BY <2>1, <2>2, StepsCount, StepsFields DEF Read, FieldAt
<1> QED
  BY <1>1, <1>2

\* Both sides know how long it is
LEMMA UnitsAgree ==
  ASSUME ChannelTypeInv, HelperInv, NEW s \in Side, At(s, "send") \/ At(s, "recv")
  PROVE  /\ Units(FieldAt(s), helper[s]) = Units(FieldAt(s), H)
         /\ Message(FieldAt(s), helper[s]) = Message(FieldAt(s), H)
<1>1. Units(FieldAt(s), helper[s]) = Units(FieldAt(s), H)
  <2>1. CASE s = "sender" \/ pc["receiver"] > 5
    BY <2>1 DEF HelperInv, Side
  <2>2. CASE s = "receiver" /\ ~ (pc["receiver"] > 5)
    <3>1. pc[s] \in 1 .. Last(s) /\ DoAt(s, pc[s]) \in {"send", "recv"}
      BY AtStep
    <3>2. pc[s] \in {1, 2, 3, 4, 5}
      BY <2>2, <3>1 DEF Last
    <3>3. pc[s] \in {1, 2, 4, 5}
      BY <2>2, <3>1, <3>2 DEF DoAt
    <3>4. FieldAt(s) \in {"Y", "prf_key", "helper_variables"}
      BY <2>2, <3>3, SizesTold DEF FieldAt, Steps
    <3>5. \A h : Units(FieldAt(s), h) = 1
      BY <3>4, UnitsOf
    <3> QED
      BY <3>5
  <2> QED
    BY <2>1, <2>2, SidesDiffer DEF Side
<1> QED
  BY <1>1 DEF Message

LEMMA Advances ==
  ASSUME ChannelTypeInv, NEW s \in Side, NEW do, At(s, do), Advance(s)
  PROVE  /\ pc' \in [Side -> Nat] /\ \A t \in Side : pc'[t] \in 1 .. Last(t) + 1
         /\ \A t \in Side : /\ Sent(t)' = Sent(t) + One(t = s /\ do = "send")
                            /\ Read(t)' = Read(t) + One(t = s /\ do = "recv")
                            /\ Moved(t)' = Moved(t) + One(t = s /\ do = "transfer")
         /\ do # "recv" => (pc'["receiver"] > 5 <=> pc["receiver"] > 5)
<1>1. pc[s] \in 1 .. Last(s) /\ pc[s] \in 1 .. 24 /\ DoAt(s, pc[s]) = do
  BY AtStep
<1>2. pc \in [Side -> Nat] /\ \A t \in Side : pc[t] \in 1 .. Last(t) + 1
  BY DEF ChannelTypeInv
<1>3. \A t \in Side : pc'[t] = IF t = s THEN pc[s] + 1 ELSE pc[t]
  BY <1>2 DEF Advance
<1>4. pc' \in [Side -> Nat]
  BY <1>2 DEF Advance
<1>5. ASSUME NEW t \in Side PROVE pc'[t] \in 1 .. Last(t) + 1
  <2>1. Last(t) \in Nat /\ Last(s) \in Nat
    BY DEF Last
  <2> QED
    BY <1>1, <1>2, <1>3, <2>1
<1>6. ASSUME NEW t \in Side
      PROVE  /\ Sent(t)' = Sent(t) + One(t = s /\ do = "send")
             /\ Read(t)' = Read(t) + One(t = s /\ do = "recv")
             /\ Moved(t)' = Moved(t) + One(t = s /\ do = "transfer")
  <2>1. CASE t = s
    BY <1>1, <1>3, <2>1, StepsCount DEF Sent, Read, Moved, One
  <2>2. CASE t # s
    <3>1. pc'[t] = pc[t] /\ pc[t] \in 1 .. 25
      <4>1. Last(t) \in {20, 24} /\ pc[t] \in 1 .. Last(t) + 1
        BY <1>2 DEF Last
      <4> QED
        BY <1>3, <2>2, <4>1
    <3>2. Sent(t) \in Nat /\ Read(t) \in Nat /\ Moved(t) \in Nat
      <4>1. NumFields(t) \in Nat /\ NumFields(Peer(t)) \in Nat
        BY DEF NumFields
      <4> QED
        BY <3>1, <4>1, CountsBounded DEF Sent, Read, Moved
    <3> QED
      BY <2>2, <3>1, <3>2 DEF Sent, Read, Moved, One
  <2> QED
    BY <2>1, <2>2
<1>7. ASSUME do # "recv" PROVE pc'["receiver"] > 5 <=> pc["receiver"] > 5
  <2>1. CASE s = "receiver"
    <3>1. pc[s] # 5
      BY <1>1, <1>7, <2>1 DEF DoAt
    <3> QED
      BY <1>1, <1>3, <2>1, <3>1
  <2>2. CASE s # "receiver"
    BY <1>3, <2>2, SidesDiffer
  <2> QED
    BY <2>1, <2>2
<1> QED
  BY <1>4, <1>5, <1>6, <1>7

LEMMA NumbersInRange ==
  ASSUME ChannelTypeInv, NEW s \in Side
  PROVE  /\ Sent(s) \in 0 .. NumFields(s) /\ Read(s) \in 0 .. NumFields(Peer(s))
         /\ Moved(s) \in 0 .. 4 /\ pc[s] \in 1 .. 25
<1>1. Last(s) \in {20, 24} /\ pc[s] \in 1 .. Last(s) + 1
  BY DEF ChannelTypeInv, Last
<1>2. pc[s] \in 1 .. 25
  BY <1>1
<1> QED
  BY <1>2, CountsBounded DEF Sent, Read, Moved
-----------------------------------------------------------------------------
(* The steps of the channel *)

\* Flushing moves what is buffered and loses nothing
LEMMA FlushKeeps ==
  ASSUME ChannelTypeInv, NEW s \in Side, FlushStream(s)
  PROVE  /\ wire' \in [Side -> Seq(Unit)] /\ buffer' \in [Side -> Seq(Unit)]
         /\ \A t \in Side : Queue(t)' = Queue(t)
<1>1. wire \in [Side -> Seq(Unit)] /\ buffer \in [Side -> Seq(Unit)]
  BY DEF ChannelTypeInv
<1>2. wire[s] \in Seq(Unit) /\ buffer[s] \in Seq(Unit)
  BY <1>1
<1>3. /\ wire[s] \o buffer[s] \in Seq(Unit) /\ <<>> \in Seq(Unit)
      /\ (wire[s] \o buffer[s]) \o <<>> = wire[s] \o buffer[s]
  BY <1>2, ConcatProperties, ConcatEmptySeq, EmptySeq
<1>4. /\ wire' = [wire EXCEPT ![s] = wire[s] \o buffer[s]]
      /\ buffer' = [buffer EXCEPT ![s] = <<>>]
  BY DEF FlushStream
<1>5. wire' \in [Side -> Seq(Unit)] /\ buffer' \in [Side -> Seq(Unit)]
  BY <1>1, <1>3, <1>4
<1>6. ASSUME NEW t \in Side PROVE wire'[t] \o buffer'[t] = wire[t] \o buffer[t]
  <2>1. CASE t = s
    BY <1>1, <1>3, <1>4, <2>1
  <2>2. CASE t # s
    <3>1. wire'[t] = wire[t] /\ buffer'[t] = buffer[t]
      BY <1>1, <1>4, <2>2
    <3> QED
      BY <3>1
  <2> QED
    BY <2>1, <2>2
<1> QED
  BY <1>5, <1>6 DEF Queue

\* A step that sends and receives nothing
LEMMA QuietStep ==
  ASSUME ConversationInv, NEW s \in Side, FlushStream(s),
         UNCHANGED <<xfer, counts, helper, got>>,
         pc' = pc \/ \E do \in {"flush", "exit"} : At(s, do) /\ Advance(s)
  PROVE  ConversationInv'
<1>1. ChannelTypeInv /\ HelperInv /\ QueuesInv /\ FieldsArrive /\ MovesInv
  BY DEF ConversationInv
<1>2. /\ pc' \in [Side -> Nat] /\ \A t \in Side : pc'[t] \in 1 .. Last(t) + 1
      /\ \A t \in Side : Sent(t)' = Sent(t) /\ Read(t)' = Read(t) /\ Moved(t)' = Moved(t)
      /\ pc'["receiver"] > 5 <=> pc["receiver"] > 5
  <2>1. CASE pc' = pc
    BY <1>1, <2>1 DEF ChannelTypeInv, Sent, Read, Moved
  <2>2. CASE \E do \in {"flush", "exit"} : At(s, do) /\ Advance(s)
    <3>1. PICK do \in {"flush", "exit"} : At(s, do) /\ Advance(s)
      BY <2>2
    <3>2. \A t \in Side : Sent(t) \in Nat /\ Read(t) \in Nat /\ Moved(t) \in Nat
      <4>1. \A t \in Side : NumFields(t) \in Nat /\ NumFields(Peer(t)) \in Nat
        BY DEF NumFields
      <4> QED
        BY <1>1, <4>1, NumbersInRange
    <3> QED
      BY <1>1, <3>1, <3>2, Advances DEF One
  <2> QED
    BY <2>1, <2>2
<1>3. /\ wire' \in [Side -> Seq(Unit)] /\ buffer' \in [Side -> Seq(Unit)]
      /\ \A t \in Side : Queue(t)' = Queue(t)
  BY <1>1, FlushKeeps
<1>4. ChannelTypeInv'
  BY <1>1, <1>2, <1>3 DEF ChannelTypeInv
<1>5. H' = H
  BY DEF H, HelperVariables
<1>6. HelperInv'
  BY <1>1, <1>2, <1>5 DEF HelperInv
<1>7. ASSUME NEW t \in Side PROVE Carries(Queue(t), t, Read(Peer(t)), Sent(t), H)'
  <2>1. Carries(Queue(t), t, Read(Peer(t)), Sent(t), H)
    BY <1>1 DEF QueuesInv
  <2>2. Queue(t)' = Queue(t) /\ Read(Peer(t))' = Read(Peer(t)) /\ Sent(t)' = Sent(t)
    BY <1>2, <1>3, SidesDiffer
  <2> QED
    BY <1>5, <2>1, <2>2 DEF Carries
<1>8. FieldsArrive'
  BY <1>1, <1>5 DEF FieldsArrive, H
<1>9. MovesInv'
  BY <1>1, <1>2 DEF MovesInv
<1> QED
  BY <1>4, <1>6, <1>7, <1>8, <1>9 DEF ConversationInv, QueuesInv

\* A send adds its field to what is under way
LEMMA SendDataStep ==
  ASSUME ConversationInv, NEW s \in Side, SendData(s)
  PROVE  ConversationInv'
<1> DEFINE f == SentFields(s)[Sent(s) + 1]
           msg == Message(f, H)
           all == buffer[s] \o msg
<1>1. ChannelTypeInv /\ HelperInv /\ QueuesInv /\ FieldsArrive /\ MovesInv
  BY DEF ConversationInv
<1>2. At(s, "send") /\ Advance(s) /\ UNCHANGED <<xfer, counts, helper, got>>
  BY DEF SendData, vars
<1>3. Sent(s) \in 0 .. NumFields(s) - 1 /\ FieldAt(s) = f /\ Message(FieldAt(s), helper[s]) = msg
  BY <1>1, <1>2, AtField, UnitsAgree
<1>4. SizesKnown(H) /\ H' = H
  BY <1>1, <1>2, SizesAreKnown DEF ChannelTypeInv, H, HelperVariables
<1>5. msg \in Seq(Unit)
  BY <1>3, <1>4, FieldUnits DEF Unit
<1>6. PICK n \in 0 .. Len(all) :
        /\ wire' = [wire EXCEPT ![s] = wire[s] \o SubSeq(all, 1, n)]
        /\ buffer' = [buffer EXCEPT ![s] = SubSeq(all, n + 1, Len(all))]
  BY <1>3, Zenon DEF SendData
<1> HIDE DEF msg, f
<1>7. wire \in [Side -> Seq(Unit)] /\ buffer \in [Side -> Seq(Unit)]
  BY <1>1 DEF ChannelTypeInv
<1>8. wire[s] \in Seq(Unit) /\ buffer[s] \in Seq(Unit)
  BY <1>7
<1>9. /\ SubSeq(all, 1, n) \in Seq(Unit) /\ SubSeq(all, n + 1, Len(all)) \in Seq(Unit)
      /\ Added((wire[s] \o SubSeq(all, 1, n)) \o SubSeq(all, n + 1, Len(all)),
               wire[s] \o buffer[s], msg)
  <2>1. all = buffer[s] \o msg
    OBVIOUS
  <2> HIDE DEF all
  <2> QED
    BY <1>5, <1>8, <2>1, PassedOn
<1>10. wire[s] \o SubSeq(all, 1, n) \in Seq(Unit)
  BY <1>8, <1>9, ConcatProperties
<1> DEFINE a == wire[s] \o SubSeq(all, 1, n)
           b == SubSeq(all, n + 1, Len(all))
<1>11. a \in Seq(Unit) /\ b \in Seq(Unit) /\ Added(a \o b, Queue(s), msg)
  BY <1>9, <1>10 DEF Queue
<1>12. wire' = [wire EXCEPT ![s] = a] /\ buffer' = [buffer EXCEPT ![s] = b]
  BY <1>6
<1> HIDE DEF a, b, all
<1>13. /\ wire' \in [Side -> Seq(Unit)] /\ buffer' \in [Side -> Seq(Unit)]
       /\ wire'[s] = a /\ buffer'[s] = b
       /\ \A t \in Side : t # s => wire'[t] = wire[t] /\ buffer'[t] = buffer[t]
  BY <1>7, <1>11, <1>12
<1>14. Added(Queue(s)', Queue(s), msg) /\ \A t \in Side : t # s => Queue(t)' = Queue(t)
  BY <1>11, <1>13 DEF Queue
<1>15. \A t \in Side : Sent(t) \in Nat /\ Read(t) \in Nat /\ Moved(t) \in Nat
  <2>1. \A t \in Side : NumFields(t) \in Nat /\ NumFields(Peer(t)) \in Nat
    BY DEF NumFields
  <2> QED
    BY <1>1, <2>1, NumbersInRange
<1>16. /\ pc' \in [Side -> Nat] /\ \A t \in Side : pc'[t] \in 1 .. Last(t) + 1
       /\ \A t \in Side : /\ Sent(t)' = IF t = s THEN Sent(t) + 1 ELSE Sent(t)
                          /\ Read(t)' = Read(t) /\ Moved(t)' = Moved(t)
       /\ pc'["receiver"] > 5 <=> pc["receiver"] > 5
  BY <1>1, <1>2, <1>15, Advances DEF One
<1>17. ChannelTypeInv' /\ HelperInv'
  BY <1>1, <1>2, <1>4, <1>13, <1>16 DEF ChannelTypeInv, HelperInv
<1>18. ASSUME NEW t \in Side PROVE Carries(Queue(t), t, Read(Peer(t)), Sent(t), H)'
  <2>1. Carries(Queue(t), t, Read(Peer(t)), Sent(t), H)
    BY <1>1 DEF QueuesInv
  <2>2. Read(Peer(t))' = Read(Peer(t))
    BY <1>16, SidesDiffer
  <2>3. CASE t = s
    <3>1. Read(Peer(t)) \in 0 .. NumFields(t)
      BY <1>1, NumbersInRange, SidesDiffer
    <3>2. Added(Queue(t)', Queue(t), Message(SentFields(t)[Sent(t) + 1], H))
      BY <1>14, <2>3 DEF msg, f
    <3>3. Carries(Queue(t)', t, Read(Peer(t)), Sent(t) + 1, H)
      BY <1>3, <1>4, <2>1, <2>3, <3>1, <3>2, CarriesSent
    <3>4. Sent(t)' = Sent(t) + 1
      BY <1>16, <2>3
    <3> QED
      BY <1>4, <2>2, <3>3, <3>4 DEF Carries
  <2>4. CASE t # s
    <3>1. Queue(t)' = Queue(t) /\ Sent(t)' = Sent(t)
      BY <1>14, <1>16, <2>4
    <3> QED
      BY <1>4, <2>1, <2>2, <3>1 DEF Carries
  <2> QED
    BY <2>3, <2>4
<1>19. FieldsArrive'
  BY <1>1, <1>2, <1>4 DEF FieldsArrive, H
<1>20. MovesInv'
  BY <1>1, <1>2, <1>16 DEF MovesInv
<1> QED
  BY <1>17, <1>18, <1>19, <1>20 DEF ConversationInv, QueuesInv

\* Bob learns the sizes in the step that brings them, and only there
LEMMA HelperTold ==
  ASSUME ChannelTypeInv, HelperInv, NEW s \in Side, At(s, "recv"), Advance(s),
         UNCHANGED counts,
         helper' = IF FieldAt(s) = "helper_variables"
                   THEN [helper EXCEPT ![s] = HelperVariables(counts)] ELSE helper
  PROVE  HelperInv'
<1>1. pc[s] \in 1 .. Last(s) /\ pc[s] \in 1 .. 24 /\ DoAt(s, pc[s]) = "recv"
  BY AtStep
<1>2. pc'[s] = pc[s] + 1 /\ \A t \in Side : t # s => pc'[t] = pc[t]
  BY DEF Advance, ChannelTypeInv
<1>3. H' = H
  BY DEF H, HelperVariables
<1>4. DOMAIN helper = Side /\ helper["sender"] = H
      /\ helper["receiver"] = IF pc["receiver"] > 5 THEN H ELSE <<>>
  BY DEF HelperInv
<1>5. FieldAt(s) = "helper_variables" <=> s = "receiver" /\ pc[s] = 5
  <2>1. CASE s = "sender"
    <3>1. pc[s] \in {2, 15, 18, 19}
      BY <1>1, <2>1 DEF DoAt
    <3>2. Garbler[pc[s]].field # "helper_variables"
      BY <3>1, SizesTold
    <3> QED
      BY <2>1, <3>2, SidesDiffer DEF FieldAt, Steps
  <2>2. CASE s = "receiver"
    <3>1. pc[s] \in {1, 4, 5, 8, 11, 13, 17, 19, 20}
      BY <1>1, <2>2 DEF DoAt
    <3>2. Evaluator[pc[s]].field = "helper_variables" <=> pc[s] = 5
      BY <3>1, SizesTold
    <3> QED
      BY <2>2, <3>2, SidesDiffer DEF FieldAt, Steps
  <2> QED
    BY <2>1, <2>2 DEF Side
<1>6. CASE s = "receiver" /\ pc[s] = 5
  <2>1. helper' = [helper EXCEPT ![s] = H]
    BY <1>5, <1>6 DEF H
  <2>2. DOMAIN helper' = Side /\ helper'["receiver"] = H /\ helper'["sender"] = H
    BY <1>4, <1>6, <2>1, SidesDiffer, Zenon
  <2>3. pc'["receiver"] > 5
    BY <1>2, <1>6
  <2> QED
    BY <1>3, <2>2, <2>3 DEF HelperInv
<1>7. CASE ~ (s = "receiver" /\ pc[s] = 5)
  <2>1. helper' = helper
    BY <1>5, <1>7
  <2>2. pc'["receiver"] > 5 <=> pc["receiver"] > 5
    <3>1. CASE s = "receiver"
      BY <1>1, <1>2, <1>7, <3>1
    <3>2. CASE s # "receiver"
      BY <1>2, <3>2, SidesDiffer
    <3> QED
      BY <3>1, <3>2
  <2> QED
    BY <1>3, <1>4, <2>1, <2>2 DEF HelperInv
<1> QED
  BY <1>6, <1>7

\* A receive takes the next field, whole, from what is under way
LEMMA RecvDataStep ==
  ASSUME ConversationInv, NEW s \in Side, RecvData(s)
  PROVE  ConversationInv'
<1> DEFINE f == FieldAt(s)
           u == Units(f, H)
           w == wire[Peer(s)]
           b == buffer[Peer(s)]
           q == Queue(Peer(s))
           rest == SubSeq(w, u + 1, Len(w))
<1>1. ChannelTypeInv /\ HelperInv /\ QueuesInv /\ FieldsArrive /\ MovesInv
  BY DEF ConversationInv
<1>2. At(s, "recv") /\ Advance(s) /\ UNCHANGED <<xfer, counts, buffer>>
  BY DEF RecvData, vars
<1>3. Peer(s) \in Side /\ Peer(s) # s /\ Peer(Peer(s)) = s
  BY SidesDiffer
<1>4. Units(f, helper[s]) = u
  BY <1>1, <1>2, UnitsAgree
<1>5. /\ Len(w) >= u
      /\ got' = [got EXCEPT ![s][f] = SubSeq(w, 1, u)]
      /\ wire' = [wire EXCEPT ![Peer(s)] = rest]
  BY <1>4 DEF RecvData
<1>6. Read(s) \in 0 .. NumFields(Peer(s)) - 1 /\ f = SentFields(Peer(s))[Read(s) + 1]
  BY <1>1, <1>2, AtField
<1>7. SizesKnown(H) /\ H' = H
  BY <1>1, <1>2, SizesAreKnown DEF ChannelTypeInv, H, HelperVariables
<1>8. f \in Field /\ u \in Nat /\ Message(f, H) \in Seq(Unit)
  BY <1>3, <1>6, <1>7, FieldUnits DEF Unit
<1>9. /\ wire \in [Side -> Seq(Unit)] /\ buffer \in [Side -> Seq(Unit)]
      /\ got \in [Side -> [Field -> Seq(Unit)]]
  BY <1>1 DEF ChannelTypeInv
<1>10. w \in Seq(Unit) /\ b \in Seq(Unit) /\ Len(w) \in Nat /\ Len(b) \in Nat
  BY <1>3, <1>9, LenProperties
<1>11. Carries(q, Peer(s), Read(s), Sent(Peer(s)), H)
  BY <1>1, <1>3 DEF QueuesInv
<1>12. Sent(Peer(s)) \in 0 .. NumFields(Peer(s))
  BY <1>1, <1>3, NumbersInRange
<1>13. q = w \o b /\ Len(q) = Len(w) + Len(b)
  BY <1>10, ConcatProperties DEF Queue
<1> HIDE DEF f, u, w, b, q
<1>14. u \in 0 .. Len(w) /\ Len(q) >= u
  BY <1>5, <1>8, <1>10, <1>13
<1>15. /\ SubSeq(q, 1, u) = Message(f, H)
       /\ Carries(SubSeq(q, u + 1, Len(q)), Peer(s), Read(s) + 1, Sent(Peer(s)), H)
  <2>1. Len(q) >= Units(SentFields(Peer(s))[Read(s) + 1], H)
    BY <1>6, <1>14 DEF u
  <2>2. LET v == Units(SentFields(Peer(s))[Read(s) + 1], H)
        IN  /\ SubSeq(q, 1, v) = Message(SentFields(Peer(s))[Read(s) + 1], H)
            /\ Carries(SubSeq(q, v + 1, Len(q)), Peer(s), Read(s) + 1, Sent(Peer(s)), H)
    BY <1>3, <1>6, <1>7, <1>11, <1>12, <2>1, CarriesRead
  <2> QED
    BY <1>6, <2>2 DEF u
<1>16. /\ SubSeq(w, 1, u) = SubSeq(w \o b, 1, u)
       /\ rest \in Seq(Unit)
       /\ rest \o b = SubSeq(w \o b, u + 1, Len(w \o b))
  BY <1>10, <1>14, TakenOff
<1> HIDE DEF rest
<1>17. SubSeq(w, 1, u) = Message(f, H) /\ rest \o b = SubSeq(q, u + 1, Len(q))
  BY <1>13, <1>15, <1>16
<1>18. /\ wire' \in [Side -> Seq(Unit)] /\ wire'[Peer(s)] = rest
       /\ \A t \in Side : t # Peer(s) => wire'[t] = wire[t]
  BY <1>3, <1>5, <1>9, <1>16
<1>19. got' = [got EXCEPT ![s][f] = Message(f, H)]
  BY <1>5, <1>17
<1>20. /\ got' \in [Side -> [Field -> Seq(Unit)]]
       /\ \A t \in Side, g \in Field :
            got'[t][g] = IF t = s /\ g = f THEN Message(f, H) ELSE got[t][g]
  BY <1>8, <1>9, <1>19
<1>21. \A t \in Side : Sent(t) \in Nat /\ Read(t) \in Nat /\ Moved(t) \in Nat
  <2>1. \A t \in Side : NumFields(t) \in Nat /\ NumFields(Peer(t)) \in Nat
    BY DEF NumFields
  <2> QED
    BY <1>1, <2>1, NumbersInRange
<1>22. /\ pc' \in [Side -> Nat] /\ \A t \in Side : pc'[t] \in 1 .. Last(t) + 1
       /\ \A t \in Side : /\ Read(t)' = IF t = s THEN Read(t) + 1 ELSE Read(t)
                          /\ Sent(t)' = Sent(t) /\ Moved(t)' = Moved(t)
  BY <1>1, <1>2, <1>21, Advances DEF One
<1>23. ChannelTypeInv'
  BY <1>1, <1>2, <1>18, <1>20, <1>22 DEF ChannelTypeInv
<1>24. HelperInv'
  BY <1>1, <1>2, HelperTold DEF RecvData
<1>25. ASSUME NEW t \in Side PROVE Carries(Queue(t), t, Read(Peer(t)), Sent(t), H)'
  <2>1. CASE t = Peer(s)
    <3>1. Queue(t)' = SubSeq(q, u + 1, Len(q))
      BY <1>2, <1>17, <1>18, <2>1 DEF Queue, b
    <3>2. Read(Peer(t))' = Read(s) + 1 /\ Sent(t)' = Sent(Peer(s))
      <4>1. Peer(t) = s
        BY <1>3, <2>1
      <4> QED
        BY <1>22, <2>1, <4>1
    <3> QED
      BY <1>7, <1>15, <2>1, <3>1, <3>2 DEF Carries
  <2>2. CASE t # Peer(s)
    <3>1. t = s /\ Peer(t) # s /\ Peer(t) \in Side
      BY <1>3, <2>2, SidesDiffer
    <3>2. Queue(t)' = Queue(t)
      BY <1>2, <1>18, <2>2 DEF Queue
    <3>3. Read(Peer(t))' = Read(Peer(t)) /\ Sent(t)' = Sent(t)
      BY <1>22, <3>1
    <3>4. Carries(Queue(t), t, Read(Peer(t)), Sent(t), H)
      BY <1>1 DEF QueuesInv
    <3> QED
      BY <1>7, <3>2, <3>3, <3>4 DEF Carries
  <2> QED
    BY <2>1, <2>2
<1>26. FieldsArrive'
  BY <1>1, <1>2, <1>20 DEF FieldsArrive, H
<1>27. MovesInv'
  BY <1>1, <1>2, <1>22 DEF MovesInv
<1> QED
  BY <1>23, <1>24, <1>25, <1>26, <1>27 DEF ConversationInv, QueuesInv
-----------------------------------------------------------------------------
(* The invariant holds *)

\* What a step leaves alone it keeps
LEMMA StandStill ==
  ASSUME ConversationInv, UNCHANGED <<counts, pc, buffer, wire, helper, got>>,
         UNCHANGED xfer
  PROVE  ConversationInv'
<1>1. ChannelTypeInv /\ HelperInv /\ QueuesInv /\ FieldsArrive /\ MovesInv
  BY DEF ConversationInv
<1>2. H' = H /\ \A t \in Side : Queue(t)' = Queue(t) /\ Sent(t)' = Sent(t) /\ Read(t)' = Read(t)
                                /\ Moved(t)' = Moved(t)
  BY DEF H, HelperVariables, Queue, Sent, Read, Moved
<1>3. QueuesInv'
  BY <1>1, <1>2, SidesDiffer DEF QueuesInv, Carries
<1> QED
  BY <1>1, <1>2, <1>3
     DEF ConversationInv, ChannelTypeInv, HelperInv, FieldsArrive, MovesInv, H

LEMMA ConversationBegins == HandOverInit => ConversationInv
<1> SUFFICES ASSUME HandOverInit PROVE ConversationInv
  OBVIOUS
<1>1. /\ counts \in Counts /\ pc = [s \in Side |-> 1]
      /\ buffer = [s \in Side |-> <<>>] /\ wire = [s \in Side |-> <<>>]
      /\ helper = [s \in Side |-> IF s = "sender" THEN HelperVariables(counts) ELSE <<>>]
      /\ got = [s \in Side |-> [f \in Field |-> <<>>]]
      /\ xfer = [s \in Side |-> 1]
  BY DEF HandOverInit, Init
<1>2. ChannelTypeInv
  BY <1>1, EmptySeq DEF ChannelTypeInv, Last
<1>3. HelperInv
  BY <1>1, SidesDiffer DEF HelperInv, H
<1>4. \A s \in Side : Sent(s) = 0 /\ Read(s) = 0 /\ Moved(s) = 0
  BY <1>1 DEF Sent, Read, Moved, NumSent, NumRead, NumMoves, Past
<1>5. ASSUME NEW s \in Side PROVE Carries(Queue(s), s, Read(Peer(s)), Sent(s), H)
  <2>1. Queue(s) = <<>>
    BY <1>1 DEF Queue
  <2>2. Read(Peer(s)) = 0 /\ Sent(s) = 0
    BY <1>4, SidesDiffer
  <2>3. Total(s, 0, H) \in Nat
    <3>1. 0 \in 0 .. NumFields(s)
      BY DEF NumFields
    <3>2. SizesKnown(H)
      BY <1>2, SizesAreKnown DEF ChannelTypeInv
    <3> QED
      BY <3>1, <3>2, Totals
  <2> QED
    BY <2>1, <2>2, <2>3, EmptySeq DEF Carries
<1>6. FieldsArrive
  BY <1>1 DEF FieldsArrive
<1>7. MovesInv
  BY <1>1, <1>4 DEF MovesInv
<1> QED
  BY <1>2, <1>3, <1>5, <1>6, <1>7 DEF ConversationInv, QueuesInv

\* The transfers are counted by both
LEMMA TransferStep ==
  ASSUME ConversationInv, ChunksInv, NEW s \in Side, TransferLargeVector(s)
  PROVE  ConversationInv'
<1>1. At(s, "transfer")
  BY DEF TransferLargeVector
<1>2. CASE Spawn(s) /\ UNCHANGED channelVars
  BY <1>2, StandStill DEF Spawn, channelVars
<1>3. CASE /\ Join(s) /\ Advance(s)
           /\ UNCHANGED <<counts, buffer, wire, has_sent, helper, got>>
  <2>1. ChannelTypeInv /\ HelperInv /\ QueuesInv /\ FieldsArrive /\ MovesInv
    BY DEF ConversationInv
  <2>2. \A t \in Side : Sent(t) \in Nat /\ Read(t) \in Nat /\ Moved(t) \in Nat
    <3>1. \A t \in Side : NumFields(t) \in Nat /\ NumFields(Peer(t)) \in Nat
      BY DEF NumFields
    <3> QED
      BY <2>1, <3>1, NumbersInRange
  <2>3. /\ pc' \in [Side -> Nat] /\ \A t \in Side : pc'[t] \in 1 .. Last(t) + 1
        /\ \A t \in Side : /\ Moved(t)' = IF t = s THEN Moved(t) + 1 ELSE Moved(t)
                           /\ Sent(t)' = Sent(t) /\ Read(t)' = Read(t)
        /\ pc'["receiver"] > 5 <=> pc["receiver"] > 5
    BY <1>1, <1>3, <2>1, <2>2, Advances DEF One
  <2>4. H' = H /\ \A t \in Side : Queue(t)' = Queue(t)
    BY <1>3 DEF H, HelperVariables, Queue
  <2>5. ChannelTypeInv' /\ HelperInv' /\ FieldsArrive'
    BY <1>3, <2>1, <2>3, <2>4 DEF ChannelTypeInv, HelperInv, FieldsArrive, H
  <2>6. QueuesInv'
    <3>1. \A t \in Side : Read(Peer(t))' = Read(Peer(t))
      BY <2>3, SidesDiffer
    <3> QED
      BY <2>1, <2>3, <2>4, <3>1 DEF QueuesInv, Carries
  <2>7. \A t \in Side : xfer'[t] = IF t = s THEN xfer[t] + 1 ELSE xfer[t]
    BY <1>3, XferNat DEF Join
  <2>8. MovesInv'
    <3>1. \A t \in Side : xfer[t] = 1 + Moved(t)
      BY <2>1 DEF MovesInv
    <3>2. ASSUME NEW t \in Side PROVE xfer'[t] = 1 + Moved(t)'
      BY <2>2, <2>3, <2>7, <3>1
    <3> QED
      BY <3>2 DEF MovesInv
  <2> QED
    BY <2>5, <2>6, <2>8 DEF ConversationInv
<1> QED
  BY <1>2, <1>3 DEF TransferLargeVector

LEMMA ConversationKept ==
  ASSUME ConversationInv, ChunksInv, [HandOverNext]_allVars
  PROVE  ConversationInv'
<1>1. ASSUME NEW s \in Side, Flush(s) PROVE ConversationInv'
  BY <1>1, QuietStep DEF Flush, vars
<1>2. ASSUME NEW s \in Side, Exit(s) PROVE ConversationInv'
  BY <1>2, QuietStep DEF Exit, vars
<1>3. ASSUME NEW s \in Side, FlushBeforeRecv(s) PROVE ConversationInv'
  BY <1>3, QuietStep DEF FlushBeforeRecv, vars
<1>4. ASSUME UNCHANGED allVars PROVE ConversationInv'
  BY <1>4, StandStill DEF allVars, vars, channelVars
<1>5. ASSUME NEW s \in Side, WaitForData(s) PROVE ConversationInv'
  BY <1>4, <1>5 DEF WaitForData
<1>6. ASSUME NEW s \in Side, Channel(s) PROVE ConversationInv'
  BY <1>1, <1>2, <1>3, <1>5, <1>6, SendDataStep, RecvDataStep DEF Channel
<1>7. ASSUME NEW p \in Ports, Thread(p) PROVE ConversationInv'
  <2>1. UNCHANGED xfer
    BY <1>7 DEF Thread, SenderThread, ReceiverThread, Listen, Accept, CloseListener, Send,
                Connect, Receive, Spin, vars
  <2> QED
    BY <1>7, <2>1, StandStill DEF Thread, channelVars
<1>8. ASSUME AllEnded PROVE ConversationInv'
  BY <1>4, <1>8 DEF AllEnded
<1> QED
  BY <1>4, <1>6, <1>7, <1>8, TransferStep DEF HandOverNext

\* The rest of the conversation leaves the transfers alone
LEMMA ConversationStep == HandOverNext => [Next]_vars
<1> SUFFICES ASSUME HandOverNext PROVE [Next]_vars
  OBVIOUS
<1>1. ASSUME NEW s \in Side, Channel(s) PROVE UNCHANGED vars
  BY <1>1 DEF Channel, SendData, Flush, FlushBeforeRecv, RecvData, WaitForData, Exit, allVars
<1>2. ASSUME NEW s \in Side, TransferLargeVector(s) PROVE Main(s)
  BY <1>2 DEF TransferLargeVector, Main
<1>3. ASSUME NEW p \in Ports, Thread(p) PROVE SenderThread(p) \/ ReceiverThread(p)
  BY <1>3 DEF Thread
<1>4. ASSUME AllEnded PROVE UNCHANGED vars
  BY <1>4 DEF AllEnded, allVars
<1> QED
  BY <1>1, <1>2, <1>3, <1>4 DEF HandOverNext, Next

LEMMA HandOverInvariant == HandOverSpec => [](ChunksInv /\ ConversationInv)
<1>1. HandOverInit => Init
  BY DEF HandOverInit
<1>2. [HandOverNext]_allVars => [Next]_vars
  BY ConversationStep DEF allVars
<1>3. ConversationInv /\ ChunksInv /\ [HandOverNext]_allVars => ConversationInv'
  BY ConversationKept
<1> QED
  BY <1>1, <1>2, <1>3, ConversationBegins, ChunksInit, ChunksStep, PTL DEF HandOverSpec

(***************************************************************************)
(* Whatever is sent, and however the main channel and the threads take     *)
(* turns, the chunks of the four vectors cover them.                       *)
(***************************************************************************)
THEOREM HandedOverChunksCover == HandOverSpec => []ChunksCover
  BY HandOverInvariant, ChunksInvCovers, PTL

(***************************************************************************)
(* Whatever the numbers of bits, inputs and outputs, and however the       *)
(* buffers are filled and flushed, each field is received whole and as     *)
(* what it was sent.                                                       *)
(***************************************************************************)
THEOREM FieldsAlwaysArrive == HandOverSpec => []FieldsArrive
<1>1. ConversationInv => FieldsArrive
  BY DEF ConversationInv
<1> QED
  BY <1>1, HandOverInvariant, PTL

\* Who is about to send has read all that his peer has sent, which has nothing
\* to send until he does
LEMMA NothingToRead == ConversationInv => OneDirection
<1> SUFFICES ASSUME ConversationInv, NEW s \in Side, At(s, "send"),
                    Units(FieldAt(s), helper[s]) > 0
             PROVE  wire[Peer(s)] = <<>>
  BY DEF OneDirection
<1> DEFINE p == Peer(s)
           u == Units(FieldAt(s), H)
           n == Sent(s)
           r == Read(p)
           m == Sent(p)
           k == Read(s)
<1>1. ChannelTypeInv /\ HelperInv /\ QueuesInv
  BY DEF ConversationInv
<1>2. p \in Side /\ Peer(p) = s
  BY SidesDiffer
<1>3. SizesKnown(H)
  BY <1>1, SizesAreKnown DEF ChannelTypeInv
<1>4. n \in 0 .. NumFields(s) - 1 /\ FieldAt(s) = SentFields(s)[n + 1]
  BY <1>1, AtField
<1>5. u > 0
  BY <1>1, UnitsAgree
<1>6. /\ r \in 0 .. NumFields(s) /\ m \in 0 .. NumFields(p) /\ k \in 0 .. NumFields(p)
      /\ pc[p] \in 1 .. 25
  BY <1>1, <1>2, NumbersInRange
<1>7. NumFields(s) \in Nat /\ NumFields(p) \in Nat
  BY DEF NumFields
<1>8. /\ Queue(s) \in Seq(Unit) /\ Len(Queue(s)) = Total(s, n, H) - Total(s, r, H)
      /\ Queue(p) \in Seq(Unit) /\ Len(Queue(p)) = Total(p, m, H) - Total(p, k, H)
  BY <1>1, <1>2 DEF QueuesInv, Carries
<1>9. r <= n
  <2> SUFFICES ASSUME r > n PROVE FALSE
    BY <1>4, <1>6, <1>7
  <2>1. n + 1 \in 0 .. NumFields(s) /\ n \in 0 .. NumFields(s) /\ n + 1 <= r
    BY <1>4, <1>6, <1>7
  <2>2. Total(s, n + 1, H) = Total(s, n, H) + u
    BY <1>3, <1>4, Totals
  <2>3. /\ Total(s, n + 1, H) <= Total(s, r, H)
        /\ Total(s, n, H) \in Nat /\ Total(s, r, H) \in Nat /\ Total(s, n + 1, H) \in Nat
    BY <1>3, <1>6, <2>1, Totals
  <2>4. Len(Queue(s)) \in Nat
    BY <1>8, LenProperties
  <2>5. u \in Nat
    BY <1>3, <1>4, FieldUnits
  <2> HIDE DEF u, r, n
  <2> QED
    BY <1>5, <1>8, <2>2, <2>3, <2>4, <2>5
<1>10. m <= k
  <2>1. pc[s] \in 1 .. 24 /\ DoAt(s, pc[s]) = "send"
    BY <1>1, AtStep
  <2> QED
    BY <1>6, <1>9, <2>1, PeerWaits DEF Sent, Read
<1>11. Total(p, m, H) <= Total(p, k, H) /\ Total(p, m, H) \in Nat /\ Total(p, k, H) \in Nat
  BY <1>2, <1>3, <1>6, <1>10, Totals
<1>12. wire[p] \in Seq(Unit) /\ buffer[p] \in Seq(Unit)
  BY <1>1, <1>2 DEF ChannelTypeInv
<1>13. Len(Queue(p)) = Len(wire[p]) + Len(buffer[p])
  BY <1>12, ConcatProperties DEF Queue
<1>14. Len(wire[p]) = 0
  <2>1. Len(wire[p]) \in Nat /\ Len(buffer[p]) \in Nat
    BY <1>12, LenProperties
  <2>2. \A x, y, a, b \in Nat : x <= y /\ a + b = x - y => a = 0
    OBVIOUS
  <2>3. Len(wire[p]) + Len(buffer[p]) = Total(p, m, H) - Total(p, k, H)
    BY <1>8, <1>13
  <2> HIDE DEF m, k, p
  <2> QED
    BY <1>11, <2>1, <2>2, <2>3
<1> QED
  BY <1>12, <1>14, EmptySeq

(***************************************************************************)
(* Neither side ever writes something into the stream while there is       *)
(* something to read in it, whatever the numbers and the buffering.        *)
(***************************************************************************)
THEOREM AlwaysOneDirection == HandOverSpec => []OneDirection
  BY HandOverInvariant, NothingToRead, PTL
-----------------------------------------------------------------------------
(* The transfers within the conversation *)

\* Bob has the bits before his third transfer, and Alice sends them after her second
LEMMA ThirdIsAwaited ==
  ASSUME counts.gram_bits > 0, ConversationInv, At("receiver", "transfer"), xfer["receiver"] = 3
  PROVE  xfer["sender"] >= 3
<1>1. ChannelTypeInv /\ QueuesInv /\ MovesInv
  BY DEF ConversationInv
<1>2. pc["receiver"] \in 1 .. 24 /\ DoAt("receiver", pc["receiver"]) = "transfer"
  BY <1>1, AtStep, SidesDiffer
<1>3. Moved("receiver") = 2
  <2>1. 3 = 1 + Moved("receiver") /\ Moved("receiver") \in 0 .. 4
    BY <1>1, NumbersInRange, SidesDiffer DEF MovesInv
  <2> QED
    BY <2>1
<1>4. pc["receiver"] = 9
  <2>1. pc["receiver"] \in {6, 7, 9, 10}
    BY <1>2, SidesDiffer DEF DoAt
  <2> QED
    BY <1>3, <2>1, SidesDiffer DEF Moved, NumMoves, Past
<1>5. Read("receiver") = 4
  BY <1>4, SidesDiffer DEF Read, NumRead, Past
<1> DEFINE n == Sent("sender")
<1>6. /\ Carries(Queue("sender"), "sender", 4, n, H)
      /\ n \in 0 .. NumFields("sender") /\ NumFields("sender") = 9
  <2>1. Peer("sender") = "receiver"
    BY DEF Peer
  <2> QED
    BY <1>1, <1>5, <2>1, NumbersInRange, SidesDiffer DEF QueuesInv, NumFields
<1>7. SizesKnown(H)
  BY <1>1, SizesAreKnown DEF ChannelTypeInv
<1>8. H[7] > 0 /\ H[7] \in Nat
  <2>1. counts \in Counts
    BY <1>1 DEF ChannelTypeInv
  <2>2. H[7] = counts.gram_bits
    BY DEF H, HelperVariables
  <2> QED
    BY <1>7, <2>1, <2>2 DEF SizesKnown
<1>9. Total("sender", 4, H) = Total("sender", 3, H) + H[7]
  <2>1. SentFields("sender")[3 + 1] = "gbits" /\ Units("gbits", H) = H[7]
    BY SentFieldsAt, UnitsOf
  <2>2. 3 \in 0 .. NumFields("sender") - 1 /\ 3 + 1 = 4
    BY <1>6
  <2> QED
    BY <1>7, <2>1, <2>2, Totals, SidesDiffer
<1>10. n >= 4
  <2> SUFFICES ASSUME n <= 3 PROVE FALSE
    BY <1>6
  <2>1. 3 \in 0 .. NumFields("sender") /\ 4 \in 0 .. NumFields("sender")
    BY <1>6
  <2>2. /\ Total("sender", n, H) <= Total("sender", 3, H) /\ Total("sender", n, H) \in Nat
        /\ Total("sender", 3, H) \in Nat /\ Total("sender", 4, H) \in Nat
    BY <1>6, <1>7, <2>1, Totals, SidesDiffer
  <2>3. /\ Queue("sender") \in Seq(Unit)
        /\ Len(Queue("sender")) = Total("sender", n, H) - Total("sender", 4, H)
    BY <1>6 DEF Carries
  <2>4. Len(Queue("sender")) \in Nat
    BY <2>3, LenProperties
  <2> HIDE DEF n
  <2> QED
    BY <1>8, <1>9, <2>2, <2>3, <2>4
<1>11. pc["sender"] > 10
  <2>1. pc["sender"] \in 1 .. 25
    BY <1>1, NumbersInRange, SidesDiffer
  <2> QED
    BY <1>10, <2>1 DEF Sent, NumSent, Past
<1>12. Moved("sender") >= 2 /\ Moved("sender") \in Nat
  <2>1. pc["sender"] \in 1 .. 25
    BY <1>1, NumbersInRange, SidesDiffer
  <2> QED
    BY <1>11, <2>1 DEF Moved, NumMoves, Past
<1> QED
  BY <1>1, <1>12, SidesDiffer DEF MovesInv

\* Bob spawns a thread only where his script has a transfer
LEMMA SpawnedByTransfer ==
  ASSUME ChunksInv, [HandOverNext]_allVars, Spawn("receiver")
  PROVE  At("receiver", "transfer")
<1>1. idx \in [Side -> 0 .. NumConnections] /\ "receiver" \in Side
  BY XferNat, SidesDiffer
<1>2. idx'["receiver"] = idx["receiver"] + 1 /\ idx["receiver"] \in Nat
  BY <1>1, ConnectionsAssumption DEF Spawn
<1>3. idx'["receiver"] # idx["receiver"]
  BY <1>2
<1>4. ASSUME NEW s \in Side, Channel(s) PROVE FALSE
  BY <1>3, <1>4 DEF Channel, SendData, Flush, FlushBeforeRecv, RecvData, WaitForData, Exit,
                    allVars, vars, loopVars
<1>5. ASSUME NEW p \in Ports, Thread(p) PROVE FALSE
  BY <1>3, <1>5 DEF Thread, SenderThread, ReceiverThread, Listen, Accept, CloseListener, Send,
                    Connect, Receive, Spin, vars, loopVars
<1>6. ASSUME UNCHANGED allVars PROVE FALSE
  BY <1>3, <1>6 DEF allVars, vars, loopVars
<1>7. ASSUME TransferLargeVector("sender") PROVE FALSE
  <2>1. idx'["receiver"] = idx["receiver"]
    BY <1>1, <1>7, SidesDiffer DEF TransferLargeVector, Spawn, Join
  <2> QED
    BY <1>3, <2>1
<1>8. ~ AllEnded
  BY <1>6 DEF AllEnded
<1>9. PICK s \in Side : TransferLargeVector(s)
  BY <1>4, <1>5, <1>6, <1>8 DEF HandOverNext
<1>10. s = "receiver"
  BY <1>7, <1>9 DEF Side
<1> QED
  BY <1>9, <1>10 DEF TransferLargeVector

LEMMA ApartSame ==
  /\ Apart!vars = vars
  /\ Apart!Side = Side /\ Apart!Ports = Ports /\ Apart!Transfers = Transfers
  BY DEF Apart!vars, Apart!loopVars, Apart!netVars, vars, loopVars, netVars, Apart!Side, Side,
         Apart!Ports, Ports, Apart!Transfers, Transfers

\* The numbers are Alice's from the beginning
LEMMA CountsStay ==
  ASSUME [HandOverNext]_allVars
  PROVE  counts' = counts
<1>1. ASSUME NEW s \in Side, Channel(s) PROVE counts' = counts
  BY <1>1 DEF Channel, SendData, Flush, FlushBeforeRecv, RecvData, WaitForData, Exit, allVars,
              channelVars
<1>2. ASSUME NEW s \in Side, TransferLargeVector(s) PROVE counts' = counts
  BY <1>2 DEF TransferLargeVector, channelVars
<1>3. ASSUME NEW p \in Ports, Thread(p) PROVE counts' = counts
  BY <1>3 DEF Thread, channelVars
<1>4. ASSUME UNCHANGED allVars PROVE counts' = counts
  BY <1>4 DEF allVars, channelVars
<1> QED
  BY <1>1, <1>2, <1>3, <1>4 DEF HandOverNext, AllEnded

\* Of the transfers the script keeps apart the third, where there are bits
PortsInv == OwnInv(Synced) /\ (counts.gram_bits > 0 => OwnInv({3}))

LEMMA PortsStep ==
  ASSUME ChunksInv, ConversationInv, PortsInv, [HandOverNext]_allVars
  PROVE  PortsInv'
<1>1. [Next]_vars
  BY ConversationStep DEF allVars
<1>2. OwnInv(Synced)'
  BY <1>1, SyncedStep DEF PortsInv
<1>3. ASSUME counts.gram_bits > 0 PROVE OwnInv({3})'
  <2>1. ASSUME Spawn("receiver"), xfer["receiver"] = 3 PROVE xfer["sender"] >= 3
    <3>1. At("receiver", "transfer")
      BY <2>1, SpawnedByTransfer
    <3> QED
      BY <1>3, <2>1, <3>1, ThirdIsAwaited
  <2>2. Spawn("receiver") /\ xfer["receiver"] \in {3} => xfer["sender"] >= xfer["receiver"]
    BY <2>1
  <2>3. OwnInv({3})
    BY <1>3 DEF PortsInv
  <2> QED
    BY <1>1, <2>2, <2>3, OwnStep
<1>4. counts' = counts
  BY CountsStay
<1> QED
  BY <1>2, <1>3, <1>4 DEF PortsInv

LEMMA PortsInvariant == HandOverSpec => [](ChunksInv /\ PortsInv)
<1>1. HandOverInit => PortsInv
  BY OwnInit DEF HandOverInit, PortsInv
<1>2. ChunksInv /\ ConversationInv /\ PortsInv /\ [HandOverNext]_allVars => PortsInv'
  BY PortsStep
<1> QED
  BY <1>1, <1>2, HandOverInvariant, PTL DEF HandOverSpec

\* With the third awaited, nothing is exposed in it
LEMMA ThirdUndisturbed == OwnInv({3}) => Apart!OwnTransfer
<1>1. ASSUME NEW j \in Transfers, NEW p \in Ports, ExposedIn({3}, j, p)
      PROVE  Apart!Exposed(j, p)
  <2>1. j > 1 /\ j \notin {3} /\ Empty(Size(j - 1), p)
    BY <1>1, EmptyChunk DEF ExposedIn
  <2>2. Apart!Size(j - 1) = Size(j - 1)
    BY DEF Apart!Size, Size, Apart!Transfers, Transfers
  <2>3. Apart!Empty(Apart!Size(j - 1), p)
    BY <2>1, <2>2 DEF Apart!Empty, Empty, Apart!FirstOffset, FirstOffset
  <2> QED
    BY <2>1, <2>3 DEF Apart!Exposed
<1> SUFFICES ASSUME OwnInv({3}), NEW p \in Ports
             PROVE  /\ \A q \in 1 .. Len(backlog[p]) :
                         backlog[p][q] # listener[p] => Apart!Exposed(backlog[p][q], p)
                    /\ \A j \in Transfers :
                         conn[j][p].st = "reset" \/ (conn[j][p].st = "accepted" /\ conn[j][p].peer # j)
                           => Apart!Exposed(j, p)
  BY ApartSame DEF Apart!OwnTransfer
<1>2. PortInv({3}, p)
  BY DEF OwnInv
<1>3. ASSUME NEW q \in 1 .. Len(backlog[p]), backlog[p][q] # listener[p]
      PROVE  Apart!Exposed(backlog[p][q], p)
  <2> DEFINE j == backlog[p][q]
  <2>1. j \in Transfers /\ conn[j][p].st = "queued"
    BY <1>2 DEF PortInv, BacklogInv
  <2>2. QueuedInv({3}, j, p)
    BY <1>2, <2>1 DEF PortInv, ConnectionInv
  <2>3. j \in Nat /\ listener[p] \in Nat
    BY <2>1, <2>2, TransfersNat DEF QueuedInv
  <2>4. ExposedIn({3}, j, p)
    BY <1>3, <2>2, <2>3 DEF QueuedInv
  <2> QED
    BY <1>1, <2>1, <2>4
<1>4. ASSUME NEW j \in Transfers,
             conn[j][p].st = "reset" \/ (conn[j][p].st = "accepted" /\ conn[j][p].peer # j)
      PROVE  Apart!Exposed(j, p)
  <2>1. ExposedIn({3}, j, p)
    BY <1>2, <1>4 DEF PortInv, ConnectionInv, AcceptedInv
  <2> QED
    BY <1>1, <2>1
<1> QED
  BY <1>3, <1>4

(***************************************************************************)
(* Whatever the sizes of the four vectors of the conversation              *)
(* (setup_garbler, setup_evaluator), a connection is disturbed only where  *)
(* it is exposed; and where there are bits to send after the second        *)
(* vector, none of the third is.  In the program the third is always       *)
(* empty, so that every connection of the fourth is exposed, and nothing   *)
(* more can be said of them.                                               *)
(***************************************************************************)
THEOREM HandedOverApart == HandOverSpec => []PortsApart
<1>1. PortsInv => PortsApart
  BY OwnInvOwns, ThirdUndisturbed DEF PortsInv, PortsApart
<1> QED
  BY <1>1, PortsInvariant, PTL

(***************************************************************************)
(* Bob has Alice's vectors, element by element, each time he goes on,      *)
(* whatever their sizes and whatever happened to the connections           *)
(* (transferLargeVector, four times in setup_evaluator).                   *)
(***************************************************************************)
THEOREM HandedOverIntact == HandOverSpec => []VectorIntact
<1>1. ChunksInv /\ PortsInv => VectorIntact
  BY OwnInvIntact DEF PortsInv
<1> QED
  BY <1>1, PortsInvariant, PTL
-----------------------------------------------------------------------------
(* The conversation implements the transfers *)

LEMMA ApartInit == Init => Apart!Init
  BY DEF Init, Apart!Init, Apart!Side, Side, Apart!Ports, Ports, Apart!Transfers, Transfers,
         Apart!FirstOffset, FirstOffset, Apart!Size, Size, Apart!Idle, Idle, Apart!Unset, Unset,
         Apart!NoConnection, NoConnection

LEMMA ApartThreads ==
  ASSUME NEW p \in Ports, SenderThread(p) \/ ReceiverThread(p)
  PROVE  Apart!SenderThread(p) \/ Apart!ReceiverThread(p)
<1>1. CASE Listen(p)
  BY <1>1 DEF Listen, Apart!Listen, Become, Apart!Become, loopVars, Apart!loopVars,
              Apart!SenderThread
<1>2. CASE Accept(p)
  BY <1>2 DEF Accept, Apart!Accept, Become, Apart!Become, loopVars, Apart!loopVars,
              Apart!SenderThread
<1>3. CASE CloseListener(p)
  BY <1>3 DEF CloseListener, Apart!CloseListener, Become, Apart!Become, loopVars,
              Apart!loopVars, Apart!SenderThread, Transfers, Apart!Transfers
<1>4. CASE Send(p)
  BY <1>4 DEF Send, Apart!Send, Become, Apart!Become, loopVars, Apart!loopVars,
              Apart!SenderThread, Transfers, Apart!Transfers, Cell, Apart!Cell
<1>5. CASE Connect(p)
  BY <1>5 DEF Connect, Apart!Connect, Become, Apart!Become, loopVars, Apart!loopVars,
              Apart!ReceiverThread
<1>6. CASE Receive(p)
  BY <1>6 DEF Receive, Apart!Receive, Become, Apart!Become, loopVars, Apart!loopVars,
              netVars, Apart!netVars, Apart!ReceiverThread
<1>7. CASE Spin(p)
  BY <1>7 DEF Spin, Apart!Spin, Apart!ReceiverThread, vars, loopVars, netVars, Apart!vars,
              Apart!loopVars, Apart!netVars
<1> QED
  BY <1>1, <1>2, <1>3, <1>4, <1>5, <1>6, <1>7 DEF SenderThread, ReceiverThread

LEMMA ApartJoin ==
  ASSUME NEW s \in Side, Join(s)
  PROVE  Apart!Main(s)
  BY DEF Join, Apart!Join, Apart!Main, Transfers, Apart!Transfers, Ports, Apart!Ports,
         FirstOffset, Apart!FirstOffset, Size, Apart!Size, Idle, Apart!Idle, netVars, Apart!netVars

LEMMA ApartSpawn ==
  ASSUME NEW s \in Side, Spawn(s),
         s = "receiver" /\ xfer[s] = 3 => xfer["sender"] >= 3
  PROVE  Apart!Main(s)
<1>1. s = "receiver" /\ xfer[s] \in {3} => xfer["sender"] >= xfer[s]
  OBVIOUS
<1>2. Apart!Spawn(s)
  BY <1>1 DEF Spawn, Apart!Spawn, Transfers, Apart!Transfers, Size, Apart!Size, netVars,
              Apart!netVars
<1> QED
  BY <1>2 DEF Apart!Main

(***************************************************************************)
(* The transfers of the conversation are those of module Transfer, and     *)
(* where there are bits to send, those in which Bob enters the third only  *)
(* once Alice has: the bits he reads before it are sent after her second.  *)
(***************************************************************************)
THEOREM HandOverImplementsTransfer == HandOverSpec => ImplementsTransfer
<1>1. HandOverInit => Apart!Init
  BY ApartInit DEF HandOverInit
<1>2. ChunksInv /\ ConversationInv /\ [HandOverNext]_allVars
        => [IF counts.gram_bits > 0 THEN Apart!Next ELSE Next]_vars
  <2> SUFFICES ASSUME ChunksInv, ConversationInv, [HandOverNext]_allVars
               PROVE  [IF counts.gram_bits > 0 THEN Apart!Next ELSE Next]_vars
    OBVIOUS
  <2>1. [Next]_vars
    BY ConversationStep DEF allVars
  <2>2. ASSUME counts.gram_bits > 0 PROVE [Apart!Next]_vars
    <3>1. ASSUME NEW s \in Side, Channel(s) PROVE UNCHANGED vars
      BY <3>1 DEF Channel, SendData, Flush, FlushBeforeRecv, RecvData, WaitForData, Exit, allVars
    <3>2. ASSUME NEW s \in Side, TransferLargeVector(s) PROVE Apart!Next
      <4>1. Apart!Main(s)
        BY <2>2, <3>2, ApartJoin, ApartSpawn, ThirdIsAwaited DEF TransferLargeVector
      <4> QED
        BY <4>1, ApartSame DEF Apart!Next
    <3>3. ASSUME NEW p \in Ports, Thread(p) PROVE Apart!Next
      <4>1. Apart!SenderThread(p) \/ Apart!ReceiverThread(p)
        BY <3>3, ApartThreads DEF Thread
      <4> QED
        BY <4>1, ApartSame DEF Apart!Next
    <3>4. ASSUME UNCHANGED allVars PROVE UNCHANGED vars
      BY <3>4 DEF allVars
    <3> QED
      BY <3>1, <3>2, <3>3, <3>4 DEF HandOverNext, AllEnded
  <2> QED
    BY <2>1, <2>2
<1> QED
  BY <1>1, <1>2, HandOverInvariant, PTL DEF HandOverSpec, ImplementsTransfer
=============================================================================
