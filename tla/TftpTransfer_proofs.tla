------------------------- MODULE TftpTransfer_proofs -------------------------
(***************************************************************************)
(* Proofs about TftpTransfer, for every file length, window, number of     *)
(* wire block numbers and retry budget that TransferAssumption allows.     *)
(* TransferInv is inductive; the heart of the argument is that a packet    *)
(* that is still alive and matches a wire number the receiver waits for is *)
(* about that very block (SameBlock), however often the numbers wrapped.   *)
(***************************************************************************)
EXTENDS TftpTransfer, TLAPS

USE DEF NoBlock, NoOption

(* Division with remainder, as the provers know it. *)
LEMMA DivMod ==
    ASSUME NEW m \in Nat \ {0}, NEW a \in Nat
    PROVE  /\ a = m * (a \div m) + (a % m)
           /\ a % m \in 0..(m - 1)
           /\ a \div m \in Int
OBVIOUS

(* Two multiples of m less than m apart are the same multiple. *)
LEMMA CloseMultiples ==
    ASSUME NEW m \in Nat \ {0}, NEW x \in Int, NEW y \in Int,
           m * x - m * y < m, m * y - m * x < m
    PROVE  x = y
<1>1. CASE x >= y + 1
  <2>1. m * x >= m * (y + 1)
    BY <1>1
  <2>2. m * (y + 1) = m * y + m
    OBVIOUS
  <2> QED
    BY <2>1, <2>2
<1>2. CASE y >= x + 1
  <2>1. m * y >= m * (x + 1)
    BY <1>2
  <2>2. m * (x + 1) = m * x + m
    OBVIOUS
  <2> QED
    BY <2>1, <2>2
<1> QED
  BY <1>1, <1>2

(* Numbers less than m apart with the same remainder modulo m are equal. *)
LEMMA CloseRemainders ==
    ASSUME NEW m \in Nat \ {0}, NEW a \in Nat, NEW b \in Nat,
           a % m = b % m, a - b < m, b - a < m
    PROVE  a = b
<1> DEFINE x == a \div m
<1> DEFINE y == b \div m
<1>1. a = m * x + (a % m) /\ x \in Int
  BY DivMod
<1>2. b = m * y + (b % m) /\ y \in Int
  BY DivMod
<1>3. m * x \in Int /\ m * y \in Int /\ a % m \in Int
  BY <1>1, <1>2, DivMod
<1> HIDE DEF x, y
<1>4. m * x - m * y < m /\ m * y - m * x < m
  BY <1>1, <1>2, <1>3
<1>5. x = y
  BY <1>1, <1>2, <1>4, CloseMultiples
<1> QED
  BY <1>1, <1>2, <1>5

(* Two blocks less than WireMod apart with one wire number are the same. *)
LEMMA SameBlock ==
    ASSUME NEW a \in Nat, NEW b \in Nat, wire_of(a) = wire_of(b),
           a - b < WireMod, b - a < WireMod
    PROVE  a = b
<1>1. WireMod \in Nat \ {0}
  BY TransferAssumption
<1> QED
  BY <1>1, CloseRemainders DEF wire_of

(* An ACK that is alive can only stand for the block the client meant by   *)
(* it: the candidates RecvAck searches are at most that one.               *)
LEMMA AckMeansItsBlock ==
    ASSUME TransferInv, NEW ack \in acks, Alive(ack),
           Matches(wire_of(ack)) # {}
    PROVE  /\ First(Matches(wire_of(ack))) = ack
           /\ ack \in base..(next_to_send - 1)
<1> USE DEF TransferInv, TypeOK
<1>1. ack \in Nat /\ ack <= Len(received) /\ Len(received) \in Nat
  BY DEF Bookkeeping
<1>2. ASSUME NEW b \in Matches(wire_of(ack))
      PROVE  b = ack
  <2>1. b \in Nat /\ base <= b /\ b <= next_to_send - 1 /\ wire_of(b) = wire_of(ack)
    BY DEF Matches
  <2>2. b - ack < WireMod
    BY <1>1, <2>1, TransferAssumption DEF Alive, Bookkeeping
  <2>3. ack - b < WireMod
    BY <1>1, <2>1, TransferAssumption DEF BufferIsWindow, Bookkeeping
  <2> QED
    BY <1>1, <2>1, <2>2, <2>3, SameBlock
<1>3. Matches(wire_of(ack)) = {ack}
  BY <1>2
<1>4. ack \in base..(next_to_send - 1)
  BY <1>3 DEF Matches
<1>5. ack <= ack
  BY <1>1
<1>6. First({ack}) = ack
  BY <1>5 DEF First
<1> QED
  BY <1>3, <1>4, <1>6

(* A DATA packet that is alive and has the wire number the client waits    *)
(* for carries the block it waits for.                                     *)
LEMMA DataIsNextBlock ==
    ASSUME TransferInv, NEW p \in datas, Alive(p.abs),
           wire_of(p.abs) = wire_of(Len(received) + 1)
    PROVE  p.blk = Len(received) + 1 /\ Len(received) + 1 <= filepos
<1> USE DEF TransferInv, TypeOK
<1>1. p.abs \in Nat /\ 1 <= p.abs /\ p.abs <= filepos /\ p.blk = p.abs
  BY DEF Bookkeeping
<1>2. Len(received) \in Nat
  OBVIOUS
<1>3. p.abs - (Len(received) + 1) < WireMod
  BY <1>1, <1>2, TransferAssumption DEF RetiredIsReceived, BufferIsWindow
<1>4. (Len(received) + 1) - p.abs < WireMod
  BY <1>1, <1>2, TransferAssumption DEF Alive, Bookkeeping
<1>5. p.abs = Len(received) + 1
  BY <1>1, <1>2, <1>3, <1>4, SameBlock
<1> QED
  BY <1>1, <1>5
-----------------------------------------------------------------------------
(* The initial states satisfy the invariant. *)
LEMMA InitInv == Init => TransferInv
<1> SUFFICES ASSUME Init PROVE TransferInv
  OBVIOUS
<1> USE TransferAssumption DEF Init
<1>1. TypeOK
  <2>1. DOMAIN buffered \subseteq Nat /\ received \in Seq(Nat)
    OBVIOUS
  <2>2. expired \in BOOLEAN /\ aborted \in BOOLEAN /\ oacks \in BOOLEAN
    OBVIOUS
  <2>3. datas \subseteq [abs: Nat, blk: Nat] /\ acks \subseteq Nat
    OBVIOUS
  <2>4. window \in 1..MaxWindow /\ retries \in 0..MaxRetries
    OBVIOUS
  <2> QED
    BY <2>1, <2>2, <2>3, <2>4 DEF TypeOK
<1>2. ReceivesPrefix /\ CompletedIsDelivered /\ RetiredIsReceived
  BY DEF ReceivesPrefix, CompletedIsDelivered, RetiredIsReceived
<1>3. BufferIsWindow
  BY DEF BufferIsWindow
<1>4. Bookkeeping
  BY DEF Bookkeeping
<1> QED
  BY <1>1, <1>2, <1>3, <1>4 DEF TransferInv

(* Ending the transfer other than by completing it preserves it. *)
LEMMA FinishInv ==
    ASSUME TransferInv, NEW status \in {verdict, "Failed"}, Finish(status)
    PROVE  TransferInv'
<1> USE DEF Finish, cursor, client, network
<1>1. status \in {"none", "Completed", "Failed"}
  BY DEF TransferInv, TypeOK
<1>2. TypeOK'
  BY <1>1 DEF TransferInv, TypeOK
<1>3. ReceivesPrefix' /\ CompletedIsDelivered' /\ RetiredIsReceived' /\ BufferIsWindow'
  BY DEF TransferInv, ReceivesPrefix, CompletedIsDelivered, RetiredIsReceived,
         BufferIsWindow
<1>4. Bookkeeping'
  BY DEF TransferInv, Bookkeeping
<1> QED
  BY <1>2, <1>3, <1>4 DEF TransferInv

(* Negotiation, and the exchange of the OACK. *)
LEMMA NegotiateInv ==
    ASSUME TransferInv, Negotiate
    PROVE  TransferInv'
<1> USE DEF Negotiate, cursor, client, network
<1>1. window' \in 1..MaxWindow
  BY TransferAssumption DEF TransferInv, TypeOK, Requests, Clamp
<1>2. filepos = 0 /\ verdict = "none" /\ base = 1
  BY DEF TransferInv, Bookkeeping, TypeOK
<1>3. TypeOK'
  BY <1>1 DEF TransferInv, TypeOK
<1>4. ReceivesPrefix' /\ CompletedIsDelivered' /\ RetiredIsReceived'
  BY DEF TransferInv, ReceivesPrefix, CompletedIsDelivered, RetiredIsReceived
<1>5. BufferIsWindow'
  BY <1>1, <1>2 DEF TransferInv, BufferIsWindow
<1>6. Bookkeeping'
  BY DEF TransferInv, Bookkeeping
<1> QED
  BY <1>3, <1>4, <1>5, <1>6 DEF TransferInv

(* The option phase sends the OACK, again too, and touches no block. *)
LEMMA OackInv ==
    ASSUME TransferInv, SendOack \/ OackAcked \/ OackRetry
    PROVE  TransferInv'
<1> USE DEF SendOack, OackAcked, OackRetry, MayRetry, cursor, client, network
<1>1. TypeOK'
  <2>1. retries' \in 0..MaxRetries
    BY TransferAssumption DEF TransferInv, TypeOK, Bookkeeping
  <2>2. oacks' \in BOOLEAN
    BY DEF TransferInv, TypeOK
  <2> QED
    BY <2>1, <2>2 DEF TransferInv, TypeOK
<1>2. ReceivesPrefix' /\ CompletedIsDelivered' /\ RetiredIsReceived' /\ BufferIsWindow'
  BY DEF TransferInv, ReceivesPrefix, CompletedIsDelivered, RetiredIsReceived,
         BufferIsWindow
<1>3. Bookkeeping'
  BY DEF TransferInv, Bookkeeping
<1> QED
  BY <1>1, <1>2, <1>3 DEF TransferInv

(* Resending a block from the buffer. *)
LEMMA SendBufferedInv ==
    ASSUME TransferInv, SendBuffered
    PROVE  TransferInv'
<1> USE DEF SendBuffered, Transmit, client
<1>1. /\ next_to_send \in Nat /\ base \in Nat /\ filepos \in Nat
      /\ next_to_send \in base..filepos /\ 1 <= base
      /\ buffered[next_to_send] = next_to_send
  BY DEF TransferInv, TypeOK, BufferIsWindow, Bookkeeping
<1>2. \A q \in datas' :
        \/ q \in datas
        \/ q = [abs |-> next_to_send, blk |-> next_to_send]
  BY <1>1
<1>3. TypeOK'
  <2>1. datas' \subseteq [abs: Nat, blk: Nat]
    BY <1>1, <1>2 DEF TransferInv, TypeOK
  <2> QED
    BY <1>1, <2>1 DEF TransferInv, TypeOK
<1>4. ReceivesPrefix' /\ CompletedIsDelivered' /\ RetiredIsReceived' /\ BufferIsWindow'
  BY DEF TransferInv, ReceivesPrefix, CompletedIsDelivered, RetiredIsReceived,
         BufferIsWindow
<1>5. Bookkeeping'
  <2>1. \A q \in datas' : q.abs \in 1..filepos /\ q.blk = q.abs
    BY <1>1, <1>2 DEF TransferInv, Bookkeeping
  <2> QED
    BY <1>1, <2>1 DEF TransferInv, Bookkeeping
<1> QED
  BY <1>3, <1>4, <1>5 DEF TransferInv

(* A new block is read exactly when the buffer is used up; it is the block *)
(* after the last one read, and the file is not at its end.                *)
LEMMA ReadsNextBlock ==
    ASSUME TransferInv, CanFill, next_to_send \notin DOMAIN buffered
    PROVE  next_to_send = filepos + 1 /\ filepos < NBlocks
<1>1. /\ next_to_send \in Nat /\ base \in Nat /\ filepos \in Nat
      /\ next_to_send \notin base..filepos
      /\ base <= next_to_send /\ next_to_send <= filepos + 1
  BY DEF TransferInv, TypeOK, BufferIsWindow, Bookkeeping
<1>2. next_to_send = filepos + 1
  BY <1>1
<1>3. filepos # NBlocks
  BY <1>1, <1>2, TransferAssumption DEF TransferInv, Bookkeeping, CanFill
<1> QED
  BY <1>1, <1>2, <1>3, TransferAssumption DEF TransferInv, Bookkeeping

(* A block that is read is sent and kept for replay. *)
LEMMA ReadAndSendInv ==
    ASSUME TransferInv, ReadAndSend
    PROVE  TransferInv'
<1> USE DEF ReadAndSend, Transmit, ReadBlock, client
<1>1. next_to_send = filepos + 1 /\ filepos < NBlocks
  BY ReadsNextBlock
<1>2. /\ next_to_send \in Nat /\ base \in Nat /\ filepos \in Nat /\ window \in Nat
      /\ 1 <= base /\ base <= filepos + 1 /\ filepos + 1 < base + window
  BY <1>1 DEF TransferInv, TypeOK, Bookkeeping, CanFill
<1>3. \A q \in datas' :
        \/ q \in datas
        \/ q = [abs |-> filepos + 1, blk |-> filepos + 1]
  BY <1>1
<1>4. /\ DOMAIN buffered' = base..(filepos + 1)
      /\ \A k \in DOMAIN buffered' : buffered'[k] = k
  BY <1>1, <1>2 DEF TransferInv, BufferIsWindow
<1>5. TypeOK'
  <2>1. datas' \subseteq [abs: Nat, blk: Nat]
    BY <1>2, <1>3 DEF TransferInv, TypeOK
  <2>2. DOMAIN buffered' \subseteq Nat
    BY <1>2, <1>4
  <2>3. last_block' \in Nat /\ next_to_send' \in Nat /\ filepos' \in Nat
    BY <1>2 DEF TransferInv, TypeOK
  <2> QED
    BY <2>1, <2>2, <2>3 DEF TransferInv, TypeOK
<1>6. ReceivesPrefix' /\ CompletedIsDelivered'
  BY DEF TransferInv, ReceivesPrefix, CompletedIsDelivered
<1>7. RetiredIsReceived'
  <2>1. Len(received) \in Nat /\ base <= Len(received) + 1 /\ Len(received) <= filepos
    BY DEF TransferInv, TypeOK, RetiredIsReceived, Bookkeeping
  <2> QED
    BY <1>2, <1>4, <2>1 DEF RetiredIsReceived
<1>8. BufferIsWindow'
  BY <1>2, <1>4 DEF BufferIsWindow
<1>9. Bookkeeping'
  <2>1. \A q \in datas' : q.abs \in 1..(filepos + 1) /\ q.blk = q.abs
    BY <1>2, <1>3 DEF TransferInv, Bookkeeping
  <2>2. last_block' = IF filepos' = NBlocks THEN NBlocks ELSE NoBlock
    BY <1>1, <1>2, TransferAssumption DEF TransferInv, Bookkeeping, IsLast
  <2>3. Len(received) \in Nat /\ Len(received) <= filepos
    BY DEF TransferInv, TypeOK, Bookkeeping
  <2> QED
    BY <1>1, <1>2, <2>1, <2>2, <2>3, TransferAssumption DEF TransferInv, Bookkeeping
<1> QED
  BY <1>5, <1>6, <1>7, <1>8, <1>9 DEF TransferInv

(* Waiting, and the receives that bring no progress. *)
LEMMA NoProgressInv ==
    ASSUME TransferInv, Await \/ RecvStaleAck \/ RecvGarbage \/ AckTimeout
    PROVE  TransferInv'
<1> USE DEF Await, RecvStaleAck, RecvGarbage, AckTimeout, CountRetry, MayRetry,
            cursor, client, network
<1>1. /\ base \in Nat /\ next_to_send \in Nat /\ filepos \in Nat
      /\ retries \in 0..MaxRetries
      /\ 1 <= base /\ base <= next_to_send /\ next_to_send <= filepos + 1
  BY DEF TransferInv, TypeOK, Bookkeeping
<1>2. retries' \in 0..MaxRetries /\ (pc' = "wait" => retries' < MaxRetries)
  BY <1>1, TransferAssumption DEF TransferInv, Bookkeeping
<1>3. next_to_send' \in {next_to_send, base}
  OBVIOUS
<1>4. /\ pc' \in {"fill", "wait"} /\ pc # "done"
      /\ UNCHANGED <<request, window, base, last_block, buffered, filepos,
                     expired, verdict, received, aborted, oacks, datas, acks>>
  OBVIOUS
<1> HIDE DEF Await, RecvStaleAck, RecvGarbage, AckTimeout, CountRetry, MayRetry,
             cursor, client, network
<1>5. TypeOK'
  BY <1>1, <1>2, <1>3, <1>4 DEF TransferInv, TypeOK
<1>6. ReceivesPrefix' /\ CompletedIsDelivered' /\ RetiredIsReceived' /\ BufferIsWindow'
  BY <1>4 DEF TransferInv, ReceivesPrefix, CompletedIsDelivered,
              RetiredIsReceived, BufferIsWindow
<1>7. Bookkeeping'
  BY <1>1, <1>2, <1>3, <1>4 DEF TransferInv, Bookkeeping
<1> QED
  BY <1>5, <1>6, <1>7 DEF TransferInv

(* An ACK that moves the window: it is the client's word that it holds     *)
(* every block up to the one acknowledged.                                 *)
LEMMA RecvAckInv ==
    ASSUME TransferInv, RecvAck
    PROVE  TransferInv'
<1>1. PICK ack \in acks :
        /\ Alive(ack) /\ Matches(wire_of(ack)) # {}
        /\ LET abs == First(Matches(wire_of(ack)))
               whole == last_block # NoBlock /\ abs + 1 > last_block
           IN  /\ base' = abs + 1
               /\ buffered' = retain(abs + 1)
               /\ retries' = 0
               /\ pc' = IF whole THEN "done" ELSE "fill"
               /\ verdict' = IF whole THEN "Completed" ELSE verdict
               /\ next_to_send' = IF ~whole /\ abs + 1 < next_to_send
                                  THEN abs + 1 ELSE next_to_send
  BY DEF RecvAck
<1>2. /\ pc = "wait"
      /\ UNCHANGED <<request, window, last_block, filepos, expired, received,
                     aborted, oacks, datas, acks>>
  BY DEF RecvAck, client, network
<1>3. First(Matches(wire_of(ack))) = ack /\ ack \in base..(next_to_send - 1)
  BY <1>1, AckMeansItsBlock
<1>4. /\ ack \in Nat /\ ack <= Len(received) /\ Len(received) \in Nat
      /\ base \in Nat /\ next_to_send \in Nat /\ filepos \in Nat /\ window \in Nat
      /\ 1 <= base /\ base <= ack /\ ack < next_to_send
      /\ next_to_send <= filepos + 1 /\ filepos < base + window
      /\ Len(received) <= filepos /\ filepos <= NBlocks
  BY <1>3 DEF TransferInv, TypeOK, Bookkeeping, BufferIsWindow
<1> DEFINE whole == last_block # NoBlock /\ ack + 1 > last_block
<1>5. /\ base' = ack + 1 /\ retries' = 0
      /\ pc' = IF whole THEN "done" ELSE "fill"
      /\ verdict' = IF whole THEN "Completed" ELSE verdict
      /\ next_to_send' \in {next_to_send, ack + 1}
  BY <1>1, <1>3
<1>6. /\ DOMAIN buffered' = (ack + 1)..filepos
      /\ \A k \in DOMAIN buffered' : buffered'[k] = k
  BY <1>1, <1>3, <1>4 DEF TransferInv, BufferIsWindow, retain, Restrict
<1>7. whole => Len(received) = NBlocks
  BY <1>4, TransferAssumption DEF TransferInv, Bookkeeping
<1> HIDE DEF whole
<1>8. TypeOK'
  <2>1. DOMAIN buffered' \subseteq Nat
    BY <1>4, <1>6
  <2>2. base' \in Nat /\ next_to_send' \in Nat /\ retries' \in 0..MaxRetries
    BY <1>4, <1>5, TransferAssumption
  <2>3. verdict' \in {"none", "Completed", "Failed"} /\ pc' \in {"done", "fill"}
    BY <1>5 DEF TransferInv, TypeOK
  <2> QED
    BY <1>2, <2>1, <2>2, <2>3 DEF TransferInv, TypeOK
<1>9. ReceivesPrefix'
  BY <1>2 DEF TransferInv, ReceivesPrefix
<1>10. CompletedIsDelivered'
  BY <1>2, <1>5, <1>7 DEF TransferInv, CompletedIsDelivered
<1>11. RetiredIsReceived'
  BY <1>2, <1>4, <1>5, <1>6 DEF RetiredIsReceived
<1>12. BufferIsWindow'
  BY <1>2, <1>4, <1>5, <1>6 DEF BufferIsWindow
<1>13. Bookkeeping'
  <2>1. pc' # "done" => verdict' = "none"
    BY <1>2, <1>5 DEF TransferInv, Bookkeeping
  <2>2. 1 <= base' /\ base' <= next_to_send' /\ next_to_send' <= filepos' + 1
    BY <1>2, <1>4, <1>5
  <2>3. pc' \in {"done", "fill"}
    BY <1>5
  <2> QED
    BY <1>2, <2>1, <2>2, <2>3 DEF TransferInv, Bookkeeping
<1> QED
  BY <1>8, <1>9, <1>10, <1>11, <1>12, <1>13 DEF TransferInv

(* The client accepts a block. *)
LEMMA ClientRecvInv ==
    ASSUME TransferInv, ClientRecv
    PROVE  TransferInv'
<1>1. PICK p \in datas :
        /\ Alive(p.abs)
        /\ wire_of(p.abs) = wire_of(Len(received) + 1)
        /\ received' = Append(received, p.blk)
  BY DEF ClientRecv
<1>2. UNCHANGED <<pc, request, window, base, next_to_send, last_block, buffered,
                 filepos, retries, expired, verdict, aborted, oacks, datas, acks>>
  BY DEF ClientRecv, server, network
<1>3. p.blk = Len(received) + 1 /\ Len(received) + 1 <= filepos
  BY <1>1, DataIsNextBlock
<1>4. received \in Seq(Nat) /\ Len(received) \in Nat
  BY DEF TransferInv, TypeOK
<1>5. /\ received' \in Seq(Nat) /\ Len(received') = Len(received) + 1
      /\ \A i \in 1..Len(received) : received'[i] = received[i]
      /\ received'[Len(received) + 1] = Len(received) + 1
  BY <1>1, <1>3, <1>4
<1>6. TypeOK'
  BY <1>2, <1>5 DEF TransferInv, TypeOK
<1>7. ReceivesPrefix'
  <2>1. \A i \in 1..(Len(received) + 1) :
            i \in 1..Len(received) \/ i = Len(received) + 1
    BY <1>4
  <2>2. \A i \in 1..Len(received) : received'[i] = i
    BY <1>5 DEF TransferInv, ReceivesPrefix
  <2>3. Len(received') <= NBlocks
    BY <1>3, <1>4, <1>5, TransferAssumption DEF TransferInv, TypeOK, Bookkeeping
  <2> QED
    BY <1>5, <2>1, <2>2, <2>3 DEF ReceivesPrefix
<1>8. CompletedIsDelivered'
  <2>1. Len(received) < NBlocks
    BY <1>3, <1>4, TransferAssumption DEF TransferInv, TypeOK, Bookkeeping
  <2> QED
    BY <1>2, <2>1, TransferAssumption, <1>4 DEF TransferInv, CompletedIsDelivered
<1>9. RetiredIsReceived' /\ BufferIsWindow'
  <2>1. base \in Nat /\ filepos \in Nat /\ base <= Len(received) + 1
    BY DEF TransferInv, TypeOK, RetiredIsReceived
  <2>2. BufferIsWindow'
    BY <1>2 DEF TransferInv, BufferIsWindow
  <2>3. RetiredIsReceived'
    BY <1>2, <1>4, <1>5, <2>1 DEF TransferInv, BufferIsWindow, RetiredIsReceived
  <2> QED
    BY <2>2, <2>3
<1>10. Bookkeeping'
  <2>1. \A a \in acks' : a <= Len(received')
    BY <1>2, <1>4, <1>5 DEF TransferInv, TypeOK, Bookkeeping
  <2> QED
    BY <1>2, <1>3, <1>5, <2>1 DEF TransferInv, Bookkeeping
<1> QED
  BY <1>6, <1>7, <1>8, <1>9, <1>10 DEF TransferInv

(* The client acknowledges or gives up, or the deadline passes. *)
LEMMA EnvironmentInv ==
    ASSUME TransferInv, ClientAck \/ ClientAbort \/ DeadlinePasses
    PROVE  TransferInv'
<1>1. /\ UNCHANGED <<pc, request, window, base, next_to_send, last_block, buffered,
                     filepos, retries, verdict, received, oacks, datas>>
      /\ \A a \in acks' : a \in acks \/ a = Len(received)
  BY DEF ClientAck, ClientAbort, DeadlinePasses, server, client, network, cursor
<1>2. expired' \in BOOLEAN /\ aborted' \in BOOLEAN
  BY DEF TransferInv, TypeOK, ClientAck, ClientAbort, DeadlinePasses, server,
         client, network
<1>3. Len(received) \in Nat
  BY DEF TransferInv, TypeOK
<1>4. TypeOK'
  BY <1>1, <1>2, <1>3 DEF TransferInv, TypeOK
<1>5. ReceivesPrefix' /\ CompletedIsDelivered' /\ RetiredIsReceived' /\ BufferIsWindow'
  BY <1>1 DEF TransferInv, ReceivesPrefix, CompletedIsDelivered,
              RetiredIsReceived, BufferIsWindow
<1>6. Bookkeeping'
  BY <1>1, <1>3 DEF TransferInv, Bookkeeping
<1> QED
  BY <1>4, <1>5, <1>6 DEF TransferInv

(* Every step preserves the invariant. *)
LEMMA NextInv == TransferInv /\ [Next]_vars => TransferInv'
<1> SUFFICES ASSUME TransferInv, [Next]_vars
             PROVE  TransferInv'
  OBVIOUS
<1>1. CASE UNCHANGED vars
  BY <1>1 DEF vars, server, client, network, TransferInv, TypeOK, ReceivesPrefix,
              CompletedIsDelivered, RetiredIsReceived, BufferIsWindow, Bookkeeping
<1>2. CASE RejectMode \/ OpenFails \/ ReadFails
  BY <1>2, FinishInv DEF RejectMode, OpenFails, ReadFails, ReturnUnmarked
<1>3. CASE \/ OackSendFails \/ OackGaveUp \/ SendFails \/ GiveUp
           \/ RecvFails \/ RecvError
  BY <1>3, FinishInv DEF OackSendFails, OackGaveUp, SendFails, GiveUp, RecvFails,
                         RecvError, mark_tftp_failed
<1>4. CASE Negotiate
  BY <1>4, NegotiateInv
<1>5. CASE SendOack \/ OackAcked \/ OackRetry
  BY <1>5, OackInv
<1>6. CASE SendBuffered
  BY <1>6, SendBufferedInv
<1>7. CASE ReadAndSend
  BY <1>7, ReadAndSendInv
<1>8. CASE Await \/ RecvStaleAck \/ RecvGarbage \/ AckTimeout
  BY <1>8, NoProgressInv
<1>9. CASE RecvAck
  BY <1>9, RecvAckInv
<1>10. CASE ClientRecv
  BY <1>10, ClientRecvInv
<1>11. CASE ClientAck \/ ClientAbort \/ DeadlinePasses
  BY <1>11, EnvironmentInv
<1> QED
  BY <1>1, <1>2, <1>3, <1>4, <1>5, <1>6, <1>7, <1>8, <1>9, <1>10, <1>11
  DEF Next, ServerStep, ClientStep

-----------------------------------------------------------------------------
(* TransferInv holds in every reachable state of the transfer task, its    *)
(* client and the network.                                                 *)
THEOREM TransferInvariant == Safety => []TransferInv
<1> QED
  BY InitInv, NextInv, PTL DEF Safety

(* Type correctness of the transfer's state. *)
THEOREM TypeCorrect == Safety => []TypeOK
<1>1. TransferInv => TypeOK
  BY DEF TransferInv
<1> QED
  BY <1>1, TransferInvariant, PTL

(* The client's copy is always the beginning of the file, for every file   *)
(* length, window and number of wire block numbers above the window.       *)
THEOREM Integrity == Safety => []ReceivesPrefix
<1>1. TransferInv => ReceivesPrefix
  BY DEF TransferInv
<1> QED
  BY <1>1, TransferInvariant, PTL

(* A boot reported as Completed was delivered in full. *)
THEOREM Completion == Safety => []CompletedIsDelivered
<1>1. TransferInv => CompletedIsDelivered
  BY DEF TransferInv
<1> QED
  BY <1>1, TransferInvariant, PTL

(* The window never retires a block the client lacks, and its buffer holds *)
(* exactly the unacknowledged blocks, at most a window of them.            *)
THEOREM WindowSafety == Safety => [](RetiredIsReceived /\ BufferIsWindow)
<1>1. TransferInv => RetiredIsReceived /\ BufferIsWindow
  BY DEF TransferInv
<1> QED
  BY <1>1, TransferInvariant, PTL

(* The file is read strictly forward, up to and including its short block. *)
THEOREM ForwardReading == Safety => ReadsForward
<1>1. ASSUME TransferInv, [Next]_vars, filepos' # filepos
      PROVE  /\ filepos' = filepos + 1 /\ filepos' <= NBlocks
             /\ next_to_send = filepos'
  <2>1. ReadAndSend
    BY <1>1 DEF Next, ServerStep, ClientStep, RejectMode, OpenFails, Negotiate,
         SendOack, OackSendFails, OackGaveUp, OackAcked, OackRetry, SendBuffered,
         ReadFails, SendFails, GiveUp, Await, RecvAck, RecvStaleAck, RecvGarbage,
         AckTimeout, RecvFails, RecvError, ClientRecv, ClientAck, ClientAbort,
         DeadlinePasses, mark_tftp_failed, ReturnUnmarked, Finish, vars, server,
         cursor, client, network
  <2>2. next_to_send = filepos + 1 /\ filepos < NBlocks /\ filepos' = filepos + 1
    BY <1>1, <2>1, ReadsNextBlock DEF ReadAndSend, ReadBlock
  <2>3. filepos \in Nat /\ NBlocks \in Nat
    BY <1>1, TransferAssumption DEF TransferInv, TypeOK
  <2> QED
    BY <2>2, <2>3
<1>2. TransferInv /\ [Next]_vars =>
        [filepos' # filepos =>
            /\ filepos' = filepos + 1 /\ filepos' <= NBlocks
            /\ next_to_send = filepos']_vars
  BY <1>1
<1> QED
  BY <1>2, TransferInvariant, PTL DEF Safety, ReadsForward

(* An ordinary end of the transfer is the abstract Finish. *)
LEMMA FinishIsAbstract ==
    ASSUME TransferInv, pc # "done", NEW status \in {verdict, "Failed"},
           Finish(status)
    PROVE  Abstract!Finish
<1>1. verdict = "none"
  BY DEF TransferInv, Bookkeeping
<1>2. Outcome = "running" /\ Outcome' \in {"Failed", "Unreported"}
  BY <1>1 DEF Outcome, Finish
<1> QED
  BY <1>2 DEF Abstract!Finish, Finish, client

(* The transfer implements the safety part of FileTransfer: in-order       *)
(* delivery, each block once, one final report, Completed only when whole. *)
THEOREM Refinement == Safety => Abstract!Safe
<1>1. Init => Abstract!Init
  BY DEF Init, Abstract!Init, Outcome
<1>2. ASSUME TransferInv, TransferInv', [Next]_vars
      PROVE  [Abstract!Next]_(Abstract!ftvars)
  <2> USE DEF Abstract!ftvars
  <2>1. CASE RejectMode \/ OpenFails \/ ReadFails
    <3>1. pc # "done" /\ Finish(verdict)
      BY <2>1 DEF RejectMode, OpenFails, ReadFails, ReturnUnmarked
    <3> QED
      BY <1>2, <3>1, FinishIsAbstract DEF Abstract!Next
  <2>2. CASE \/ OackSendFails \/ OackGaveUp \/ SendFails \/ GiveUp
             \/ RecvFails \/ RecvError
    <3>1. pc # "done" /\ Finish("Failed")
      BY <2>2 DEF OackSendFails, OackGaveUp, SendFails, GiveUp, RecvFails,
                  RecvError, mark_tftp_failed
    <3> QED
      BY <1>2, <3>1, FinishIsAbstract DEF Abstract!Next
  <2>3. CASE \/ Negotiate \/ SendOack \/ OackAcked \/ OackRetry
             \/ SendBuffered \/ ReadAndSend \/ Await
             \/ RecvStaleAck \/ RecvGarbage \/ AckTimeout
    <3>1. pc # "done" /\ pc' # "done" /\ received' = received
      BY <2>3 DEF Negotiate, SendOack, OackAcked, OackRetry, SendBuffered,
                  ReadAndSend, Await, RecvStaleAck, RecvGarbage, AckTimeout,
                  CountRetry, client
    <3> QED
      BY <3>1 DEF Outcome
  <2>4. CASE RecvAck
    <3>1. pc = "wait" /\ received' = received
      BY <2>4 DEF RecvAck, client
    <3>2. verdict = "none"
      BY <1>2, <3>1 DEF TransferInv, Bookkeeping
    <3>3. \/ pc' = "done" /\ verdict' = "Completed"
          \/ pc' = "fill" /\ verdict' = "none"
      BY <2>4, <3>2 DEF RecvAck
    <3>4. CASE pc' = "fill"
      BY <3>1, <3>4 DEF Outcome
    <3>5. CASE pc' = "done" /\ verdict' = "Completed"
      <4>1. Len(received) = NBlocks
        BY <1>2, <3>1, <3>5 DEF TransferInv, CompletedIsDelivered
      <4> QED
        BY <3>1, <3>5, <4>1 DEF Outcome, Abstract!Next, Abstract!Finish
    <3> QED
      BY <3>3, <3>4, <3>5
  <2>5. CASE ClientRecv
    <3>1. PICK p \in datas :
            /\ Alive(p.abs)
            /\ wire_of(p.abs) = wire_of(Len(received) + 1)
            /\ received' = Append(received, p.blk)
      BY <2>5 DEF ClientRecv
    <3>2. p.blk = Len(received) + 1 /\ Len(received) + 1 <= filepos
      BY <1>2, <3>1, DataIsNextBlock
    <3>3. Len(received) < NBlocks
      BY <1>2, <3>2, TransferAssumption DEF TransferInv, TypeOK, Bookkeeping
    <3>4. Outcome' = Outcome
      BY <2>5 DEF ClientRecv, server, Outcome
    <3> QED
      BY <3>1, <3>2, <3>3, <3>4 DEF Abstract!Next, Abstract!Deliver
  <2>6. CASE ClientAck \/ ClientAbort \/ DeadlinePasses \/ UNCHANGED vars
    BY <2>6 DEF ClientAck, ClientAbort, DeadlinePasses, vars, server, client, Outcome
  <2> QED
    BY <1>2, <2>1, <2>2, <2>3, <2>4, <2>5, <2>6 DEF Next, ServerStep, ClientStep
<1> QED
  BY <1>1, <1>2, TransferInvariant, PTL DEF Safety, Abstract!Safe
-----------------------------------------------------------------------------
(* How far the task has got, in lexicographic order: the part of the       *)
(* protocol, the blocks acknowledged, the receives without progress, and   *)
(* the blocks transmitted since the last receive.                          *)
Part ==
    IF pc = "start" THEN 0 ELSE IF pc \in {"oack", "oackWait"} THEN 1
    ELSE IF pc \in {"fill", "wait"} THEN 2 ELSE 3

Sent == IF pc \in {"oackWait", "wait"} THEN NBlocks + 2 ELSE next_to_send

Further ==
    \/ Part < Part'
    \/ Part = Part' /\ base < base'
    \/ Part = Part' /\ base = base' /\ retries < retries'
    \/ Part = Part' /\ base = base' /\ retries = retries' /\ Sent < Sent'

(* The variant of the transfer: every step of the task goes further, and   *)
(* nothing that the client, the network or the clock does takes it back.   *)
GoesFurther ==
    [][IF ServerStep THEN Further ELSE UNCHANGED <<Part, base, retries, Sent>>]_vars

(* There is an end to it. *)
Bounded ==
    /\ Part \in 0..3 /\ base \in 1..(NBlocks + 1)
    /\ retries \in 0..MaxRetries /\ Sent \in 1..(NBlocks + 2)

(* Where a task ends, it has gone further. *)
LEMMA FinishIsFurther ==
    ASSUME pc \in {"start", "oack", "oackWait", "fill", "wait"}, NEW status, Finish(status)
    PROVE  Further
<1>1. pc' = "done"
  BY DEF Finish
<1>2. Part \in 0..2 /\ Part' = 3
  BY <1>1 DEF Part
<1> QED
  BY <1>2 DEF Further

(* Every step of the task goes further. *)
LEMMA ServerGoesFurther ==
    ASSUME TransferInv, ServerStep
    PROVE  Further
<1> USE TransferAssumption
<1>1. /\ base \in Nat /\ next_to_send \in Nat /\ retries \in Nat
      /\ next_to_send <= NBlocks + 1
  BY DEF TransferInv, TypeOK, Bookkeeping
<1>2. CASE RejectMode \/ OpenFails
  BY <1>2, FinishIsFurther DEF RejectMode, OpenFails, ReturnUnmarked
<1>3. CASE Negotiate
  <2>1. Part = 0 /\ Part' \in {1, 2}
    BY <1>3 DEF Negotiate, Part
  <2> QED
    BY <2>1 DEF Further
<1>4. CASE SendOack
  <2>1. /\ pc = "oack" /\ pc' = "oackWait" /\ base' = base /\ retries' = retries
        /\ next_to_send' = next_to_send
    BY <1>4 DEF SendOack, cursor
  <2>2. Part = 1 /\ Part' = 1 /\ Sent = next_to_send /\ Sent' = NBlocks + 2
    BY <2>1 DEF Part, Sent
  <2> QED
    BY <1>1, <2>1, <2>2 DEF Further
<1>5. CASE OackSendFails \/ OackGaveUp
  BY <1>5, FinishIsFurther DEF OackSendFails, OackGaveUp, mark_tftp_failed
<1>6. CASE OackAcked
  <2>1. Part = 1 /\ Part' = 2
    BY <1>6 DEF OackAcked, Part
  <2> QED
    BY <2>1 DEF Further
<1>7. CASE OackRetry
  <2>1. Part = 1 /\ Part' = 1 /\ base' = base /\ retries' = retries + 1
    BY <1>7 DEF OackRetry, Part, cursor
  <2> QED
    BY <1>1, <2>1 DEF Further
<1>8. CASE SendBuffered \/ ReadAndSend
  <2>1. /\ pc = "fill" /\ pc' = "fill" /\ base' = base /\ retries' = retries
        /\ next_to_send' = next_to_send + 1
    BY <1>8 DEF SendBuffered, ReadAndSend, Transmit
  <2>2. Part = 2 /\ Part' = 2 /\ Sent = next_to_send /\ Sent' = next_to_send + 1
    BY <2>1 DEF Part, Sent
  <2> QED
    BY <1>1, <2>1, <2>2 DEF Further
<1>9. CASE ReadFails \/ SendFails \/ GiveUp
  BY <1>9, FinishIsFurther DEF ReadFails, SendFails, GiveUp, ReturnUnmarked, mark_tftp_failed
<1>10. CASE Await
  <2>1. /\ pc = "fill" /\ pc' = "wait" /\ base' = base /\ retries' = retries
    BY <1>10 DEF Await, cursor
  <2>2. Part = 2 /\ Part' = 2 /\ Sent = next_to_send /\ Sent' = NBlocks + 2
    BY <2>1 DEF Part, Sent
  <2> QED
    BY <1>1, <2>1, <2>2 DEF Further
<1>11. CASE RecvAck
  <2>1. PICK ack \in acks :
            /\ Alive(ack) /\ Matches(wire_of(ack)) # {}
            /\ base' = First(Matches(wire_of(ack))) + 1
    BY <1>11 DEF RecvAck
  <2>2. base' = ack + 1 /\ ack \in base..(next_to_send - 1)
    BY <2>1, AckMeansItsBlock
  <2>3. base < base'
    BY <1>1, <2>2
  <2>4. pc = "wait" /\ pc' \in {"done", "fill"}
    BY <1>11 DEF RecvAck
  <2>5. Part = 2 /\ Part' \in {2, 3}
    BY <2>4 DEF Part
  <2> QED
    BY <2>3, <2>5 DEF Further
<1>12. CASE RecvStaleAck \/ RecvGarbage \/ AckTimeout
  <2>1. pc = "wait" /\ pc' = "fill" /\ base' = base /\ retries' = retries + 1
    BY <1>12 DEF RecvStaleAck, RecvGarbage, AckTimeout, CountRetry, cursor
  <2>2. Part = 2 /\ Part' = 2
    BY <2>1 DEF Part
  <2> QED
    BY <1>1, <2>1, <2>2 DEF Further
<1>13. CASE RecvFails \/ RecvError
  BY <1>13, FinishIsFurther DEF RecvFails, RecvError, mark_tftp_failed
<1> QED
  BY <1>2, <1>3, <1>4, <1>5, <1>6, <1>7, <1>8, <1>9, <1>10, <1>11, <1>12, <1>13
  DEF ServerStep

(* A transfer takes finitely many steps, whatever the client and the       *)
(* network do (the safety half of Terminates, for every file, window and   *)
(* budget): every step of the task goes further, in an order with at most  *)
(* 4 * (NBlocks + 1) * (MaxRetries + 1) * (NBlocks + 2) places, and        *)
(* duplicate ACKs, garbage, rollbacks and the clock never take it back.    *)
THEOREM StepsAreCounted == Safety => []Bounded /\ GoesFurther
<1>1. TransferInv => Bounded
  <2> SUFFICES ASSUME TransferInv PROVE Bounded
    OBVIOUS
  <2> USE TransferAssumption
  <2>1. /\ base \in Nat /\ next_to_send \in Nat /\ retries \in 0..MaxRetries
        /\ 1 <= base /\ base <= next_to_send /\ next_to_send <= NBlocks + 1
    BY DEF TransferInv, TypeOK, Bookkeeping
  <2>2. Part \in 0..3
    BY DEF Part
  <2>3. Sent \in 1..(NBlocks + 2)
    BY <2>1 DEF Sent
  <2>4. base \in 1..(NBlocks + 1)
    BY <2>1
  <2> QED
    BY <2>1, <2>2, <2>3, <2>4 DEF Bounded
<1>2. TransferInv /\ [Next]_vars =>
        [IF ServerStep THEN Further ELSE UNCHANGED <<Part, base, retries, Sent>>]_vars
  <2> SUFFICES ASSUME TransferInv, Next
               PROVE  IF ServerStep THEN Further ELSE UNCHANGED <<Part, base, retries, Sent>>
    OBVIOUS
  <2>1. CASE ServerStep
    BY <2>1, ServerGoesFurther
  <2>2. CASE ~ServerStep
    <3>1. ClientStep \/ DeadlinePasses
      BY <2>2 DEF Next
    <3>2. UNCHANGED <<pc, base, retries, next_to_send>>
      BY <3>1 DEF ClientStep, ClientRecv, ClientAck, ClientAbort, DeadlinePasses, server, cursor
    <3> QED
      BY <2>2, <3>2 DEF Part, Sent
  <2> QED
    BY <2>1, <2>2
<1> QED
  BY <1>1, <1>2, TransferInvariant, PTL DEF Safety, GoesFurther
=============================================================================
