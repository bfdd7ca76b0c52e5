---------------------------- MODULE TftpTransfer ----------------------------
(***************************************************************************)
(* One TFTP read transfer: the task handle_tftp_transfer of                *)
(* bootycall-tftp/src/server.rs (OACK negotiation, RFC 7440 sliding window *)
(* with go-back-N, retry budget, deadline), a standard client, and a       *)
(* network that loses, duplicates and reorders packets.                    *)
(*                                                                         *)
(* The file is the sequence of its blocks 1..NBlocks as read_fill cuts it: *)
(* every block but the last is full, the last is short (possibly empty).   *)
(* Blocks travel under their number modulo WireMod (65536 in the code).    *)
(***************************************************************************)
EXTENDS Integers, Sequences, Functions

CONSTANTS
    NBlocks,            \* blocks of the file, the short terminating one included
    MaxWindow,          \* MAX_WINDOWSIZE
    WireMod,            \* number of wire block numbers, 2^16 in the code
    MaxRetries          \* MAX_RETRIES

ASSUME TransferAssumption ==
    /\ NBlocks \in Nat \ {0}
    /\ MaxWindow \in Nat \ {0}
    /\ MaxRetries \in Nat \ {0}
    /\ WireMod \in Nat
    /\ MaxWindow < WireMod

NoOption == -1          \* an option the client did not ask for
NoBlock == 0            \* last_block = None (block numbers start at 1)

VARIABLES
    (* the transfer task *)
    pc,                 \* where the task is
    request,            \* the RRQ: mode, windowsize option, any other option
    window,             \* negotiated window size
    base,               \* first unacknowledged block
    next_to_send,       \* next block to transmit
    last_block,         \* number of the short block once it has been read
    buffered,           \* the blocks that can be resent without reading
    filepos,            \* blocks read from the file so far
    retries,            \* receives without progress since the last progress
    expired,            \* TRUE once the transfer's deadline has passed
    verdict,            \* what the task wrote as the host's status
    (* the client *)
    received,           \* blocks the client accepted, in order
    aborted,            \* the client gave up and sent an ERROR packet
    (* packets sent so far; each may be received never, once or repeatedly *)
    oacks,              \* an OACK has been sent
    datas,              \* DATA packets, with the absolute number as ghost
    acks                \* ACK packets, by absolute block number

server == <<pc, request, window, base, next_to_send, last_block, buffered,
            filepos, retries, expired, verdict>>
cursor == <<base, next_to_send, last_block, buffered, filepos>>
client == <<received, aborted>>
network == <<oacks, datas, acks>>
vars == <<server, client, network>>

Requests == [octet: BOOLEAN, windowsize: {NoOption} \cup 0..(MaxWindow + 1),
             others: BOOLEAN]

(* Mutant: the block number is cut to fewer bits than the packet has. *)
wire_of_narrow(abs) == abs % MaxWindow

wire_of(abs) == abs % WireMod

(* Network assumption: a packet is gone by the time the sender is          *)
(* WireMod - 1 blocks past it, so no wire number is in the network for two *)
(* different blocks.  (65535 blocks take far longer than a LAN keeps one.) *)
Alive(abs) == filepos - abs < WireMod - 1

Init ==
    /\ pc = "start"
    /\ request \in Requests
    /\ window = 1
    /\ base = 1 /\ next_to_send = 1 /\ last_block = NoBlock
    /\ buffered = <<>> /\ filepos = 0
    /\ retries = 0 /\ expired = FALSE /\ verdict = "none"
    /\ received = <<>> /\ aborted = FALSE
    /\ oacks = FALSE /\ datas = {} /\ acks = {}
-----------------------------------------------------------------------------
(* How the task ends.  mark_tftp_failed and the completion report are the  *)
(* only places where it writes the host's status.                          *)
Finish(status) ==
    /\ pc' = "done"
    /\ verdict' = status
    /\ UNCHANGED <<request, window, cursor, retries, expired, client, network>>

mark_tftp_failed == Finish("Failed")
ReturnUnmarked == Finish(verdict)

(* Not octet mode: an ERROR packet, and the task is over. *)
RejectMode ==
    /\ pc = "start" /\ ~request.octet
    /\ ReturnUnmarked

(* The file cannot be opened, or its size cannot be read. *)
OpenFails ==
    /\ pc = "start" /\ request.octet
    /\ ReturnUnmarked

Clamp(x, lo, hi) == IF x < lo THEN lo ELSE IF x > hi THEN hi ELSE x

HasOptions(r) == r.windowsize # NoOption \/ r.others

Negotiate ==
    /\ pc = "start" /\ request.octet
    /\ window' = IF request.windowsize = NoOption THEN 1
                 ELSE Clamp(request.windowsize, 1, MaxWindow)
    /\ pc' = IF HasOptions(request) THEN "oack" ELSE "fill"
    /\ UNCHANGED <<request, cursor, retries, expired, verdict, client, network>>
-----------------------------------------------------------------------------
MayRetry == retries < MaxRetries /\ ~expired

SendOack ==
    /\ pc = "oack" /\ MayRetry
    /\ oacks' = TRUE
    /\ pc' = "oackWait"
    /\ UNCHANGED <<request, window, cursor, retries, expired, verdict, client,
                   datas, acks>>

OackSendFails == pc = "oack" /\ MayRetry /\ mark_tftp_failed

OackGaveUp == pc = "oack" /\ ~MayRetry /\ mark_tftp_failed

(* ACK 0: the data loop starts with a retry count of its own. *)
OackAcked ==
    /\ pc = "oackWait" /\ \E abs \in acks : Alive(abs) /\ wire_of(abs) = 0
    /\ pc' = "fill"
    /\ retries' = 0
    /\ UNCHANGED <<request, window, cursor, expired, verdict, client, network>>

(* Timeout, another packet, or an ACK of another block. *)
OackRetry ==
    /\ pc = "oackWait"
    /\ pc' = "oack"
    /\ retries' = retries + 1
    /\ UNCHANGED <<request, window, cursor, expired, verdict, client, network>>
-----------------------------------------------------------------------------
(* The data loop.  "fill" is the inner loop that transmits the window, one *)
(* block per step; "wait" is the receive.                                  *)
(* Mutant: one block more than the window. *)
CanOverfill ==
    /\ next_to_send <= base + window
    /\ ~(last_block # NoBlock /\ next_to_send > last_block)

CanFill ==
    /\ next_to_send < base + window
    /\ ~(last_block # NoBlock /\ next_to_send > last_block)

(* read_fill: the next unread block, and whether it is the short one. *)
ReadBlock == filepos + 1

(* Mutant: the end of the file is noticed one read late. *)
IsPastLast(blk) == blk > NBlocks

IsLast(blk) == blk >= NBlocks

Transmit(abs, blk) ==
    /\ datas' = {p \in datas : Alive(p.abs)} \cup {[abs |-> abs, blk |-> blk]}
    /\ next_to_send' = abs + 1

SendBuffered ==
    /\ pc = "fill" /\ CanFill /\ next_to_send \in DOMAIN buffered
    /\ Transmit(next_to_send, buffered[next_to_send])
    /\ UNCHANGED <<pc, request, window, base, last_block, buffered, filepos,
                   retries, expired, verdict, client, oacks, acks>>

ReadAndSend ==
    /\ pc = "fill" /\ CanFill /\ next_to_send \notin DOMAIN buffered
    /\ filepos' = ReadBlock
    /\ buffered' = [k \in DOMAIN buffered \cup {next_to_send} |->
                        IF k = next_to_send THEN ReadBlock ELSE buffered[k]]
    /\ last_block' = IF IsLast(ReadBlock) THEN next_to_send ELSE last_block
    /\ Transmit(next_to_send, ReadBlock)
    /\ UNCHANGED <<pc, request, window, base, retries, expired, verdict, client,
                   oacks, acks>>

(* The `?` on read_fill. *)
ReadFails ==
    /\ pc = "fill" /\ CanFill /\ next_to_send \notin DOMAIN buffered
    /\ ReturnUnmarked

SendFails == pc = "fill" /\ CanFill /\ mark_tftp_failed

GiveUp == pc = "fill" /\ ~CanFill /\ ~MayRetry /\ mark_tftp_failed

Await ==
    /\ pc = "fill" /\ ~CanFill /\ MayRetry
    /\ pc' = "wait"
    /\ UNCHANGED <<request, window, cursor, retries, expired, verdict, client,
                   network>>

(* Mutant: any ACK is taken for the last block sent. *)
MatchesLast(wire) == {next_to_send - 1}

(* The blocks in flight that a wire ACK number can stand for. *)
Matches(wire) == {a \in base..(next_to_send - 1) : wire_of(a) = wire}

(* Iterator::find: the first of them. *)
First(S) == CHOOSE a \in S : \A b \in S : a <= b

(* Mutant: the buffer also drops the first block not acknowledged. *)
retain_after(from) ==
    Restrict(buffered, {k \in DOMAIN buffered : k > from})

(* The buffer keeps what is not acknowledged. *)
retain(from) ==
    Restrict(buffered, {k \in DOMAIN buffered : k >= from})

(* A cumulative ACK of a block in flight. *)
RecvAck ==
    /\ pc = "wait"
    /\ \E ack \in acks :
        /\ Alive(ack) /\ Matches(wire_of(ack)) # {}
        /\ LET abs == First(Matches(wire_of(ack)))
               whole == last_block # NoBlock /\ abs + 1 > last_block
           IN  /\ base' = abs + 1
               /\ buffered' = retain(abs + 1)
               /\ retries' = 0
               /\ pc' = IF whole THEN "done" ELSE "fill"
               /\ verdict' = IF whole THEN "Completed" ELSE verdict
               /\ next_to_send' = IF ~whole /\ abs + 1 < next_to_send
                                  THEN abs + 1 ELSE next_to_send
    /\ UNCHANGED <<request, window, last_block, filepos, expired, client, network>>

(* Mutant: what brings no progress is not counted. *)
IgnoreRetry == UNCHANGED retries /\ pc' = "fill"

CountRetry ==
    /\ retries' = retries + 1
    /\ pc' = "fill"

(* An old or duplicate ACK: nothing is resent. *)
RecvStaleAck ==
    /\ pc = "wait"
    /\ \E ack \in acks : Alive(ack) /\ Matches(wire_of(ack)) = {}
    /\ CountRetry
    /\ UNCHANGED <<request, window, cursor, expired, verdict, client, network>>

(* A packet that is neither an ACK nor an ERROR. *)
RecvGarbage ==
    /\ pc = "wait"
    /\ CountRetry
    /\ UNCHANGED <<request, window, cursor, expired, verdict, client, network>>

(* Go back to base and resend the whole window. *)
AckTimeout ==
    /\ pc = "wait"
    /\ CountRetry
    /\ next_to_send' = base
    /\ UNCHANGED <<request, window, base, last_block, buffered, filepos, expired,
                   verdict, client, network>>

(* The receive fails, or brings the client's ERROR packet. *)
RecvFails == pc \in {"oackWait", "wait"} /\ mark_tftp_failed

RecvError == pc \in {"oackWait", "wait"} /\ aborted /\ mark_tftp_failed

DeadlinePasses ==
    /\ pc \notin {"start", "done"} /\ ~expired
    /\ expired' = TRUE
    /\ UNCHANGED <<pc, request, window, cursor, retries, verdict, client, network>>
-----------------------------------------------------------------------------
(* The client (external): accepts the next block in order and no other,    *)
(* acknowledges cumulatively whenever it likes, and may give up.           *)
Whole == Len(received) > 0 /\ received[Len(received)] = NBlocks

ClientRecv ==
    /\ ~aborted /\ ~Whole
    /\ \E p \in datas :
        /\ Alive(p.abs)
        /\ wire_of(p.abs) = wire_of(Len(received) + 1)
        /\ received' = Append(received, p.blk)
    /\ UNCHANGED <<server, aborted, network>>

ClientAck ==
    /\ ~aborted
    /\ Len(received) = 0 => oacks
    /\ acks' = {a \in acks : Alive(a)} \cup {Len(received)}
    /\ UNCHANGED <<server, client, oacks, datas>>

ClientAbort ==
    /\ ~aborted
    /\ aborted' = TRUE
    /\ UNCHANGED <<server, received, network>>
-----------------------------------------------------------------------------
ServerStep ==
    \/ RejectMode \/ OpenFails \/ Negotiate
    \/ SendOack \/ OackSendFails \/ OackGaveUp \/ OackAcked \/ OackRetry
    \/ SendBuffered \/ ReadAndSend \/ ReadFails \/ SendFails \/ GiveUp \/ Await
    \/ RecvAck \/ RecvStaleAck \/ RecvGarbage \/ AckTimeout
    \/ RecvFails \/ RecvError

ClientStep == ClientRecv \/ ClientAck \/ ClientAbort

Next == ServerStep \/ ClientStep \/ DeadlinePasses

Safety == Init /\ [][Next]_vars

(* The runtime keeps polling the task, and every receive has a timeout: a  *)
(* task that can take a step takes one.  Nothing is assumed of the client. *)
Spec == Safety /\ WF_vars(ServerStep)
-----------------------------------------------------------------------------
(* Every variable has its type. *)
Blocks == 1..NBlocks

TypeOK ==
    /\ pc \in {"start", "oack", "oackWait", "fill", "wait", "done"}
    /\ request \in Requests
    /\ window \in 1..MaxWindow
    /\ base \in Nat /\ next_to_send \in Nat /\ filepos \in Nat
    /\ last_block \in Nat
    /\ DOMAIN buffered \subseteq Nat
    /\ retries \in 0..MaxRetries /\ expired \in BOOLEAN
    /\ verdict \in {"none", "Completed", "Failed"}
    /\ received \in Seq(Nat) /\ aborted \in BOOLEAN
    /\ oacks \in BOOLEAN
    /\ datas \subseteq [abs: Nat, blk: Nat]
    /\ acks \subseteq Nat

(* What the client accepted is the beginning of the file: no block is      *)
(* skipped, repeated or taken for another one after the 16-bit block       *)
(* number wraps, whatever is lost, duplicated or reordered.                *)
ReceivesPrefix ==
    /\ Len(received) <= NBlocks
    /\ \A i \in 1..Len(received) : received[i] = i

(* The task reports the boot as Completed only when the client holds the   *)
(* whole file: a stale or wrapped ACK is never taken for the final one.    *)
CompletedIsDelivered == verdict = "Completed" => Len(received) = NBlocks

(* The window retires a block (base moves past it, and the buffer drops    *)
(* it) only when the client has it; the next block the client needs is     *)
(* still buffered, or has not been read yet.                               *)
RetiredIsReceived ==
    /\ base <= Len(received) + 1
    /\ Len(received) < filepos => Len(received) + 1 \in DOMAIN buffered

(* The replay buffer holds exactly the unacknowledged blocks read so far,  *)
(* each under its own number, and never more than the negotiated window.   *)
BufferIsWindow ==
    /\ DOMAIN buffered = base..filepos
    /\ filepos < base + window
    /\ \A k \in DOMAIN buffered : buffered[k] = k

(* What the cursors, the packets in the network and the report have to do  *)
(* with each other: the rest of the inductive invariant.  Every packet is  *)
(* about a block read, an ACK only about one received; last_block is known *)
(* exactly when the whole file was read; a block above filepos is unsent.  *)
Bookkeeping ==
    /\ 1 <= base /\ base <= next_to_send /\ next_to_send <= filepos + 1
    /\ Len(received) <= filepos /\ filepos <= NBlocks
    /\ last_block = IF filepos = NBlocks THEN NBlocks ELSE NoBlock
    /\ \A p \in datas : p.abs \in 1..filepos /\ p.blk = p.abs
    /\ \A a \in acks : a <= Len(received)
    /\ pc \in {"start", "oack", "oackWait"} => filepos = 0
    /\ pc \in {"oackWait", "wait"} => retries < MaxRetries
    /\ pc # "done" => verdict = "none"

(* The inductive invariant of the transfer: the properties above together. *)
TransferInv ==
    /\ TypeOK
    /\ ReceivesPrefix
    /\ CompletedIsDelivered
    /\ RetiredIsReceived
    /\ BufferIsWindow
    /\ Bookkeeping

(* Reads go strictly forward and stop at the short block: a rollback       *)
(* replays from the buffer, a new read continues where the last ended.     *)
ReadsForward ==
    [][filepos' # filepos =>
        /\ filepos' = filepos + 1 /\ filepos' <= NBlocks
        /\ next_to_send = filepos']_vars

(* The transfer ends, whatever the client and the network do: duplicate    *)
(* ACKs, garbage and silence all use up the retry budget.                  *)
Terminates == <>(pc = "done")

(* The transfer implements FileTransfer. *)
Outcome ==
    IF pc # "done" THEN "running"
    ELSE IF verdict = "none" THEN "Unreported" ELSE verdict

Abstract == INSTANCE FileTransfer WITH delivered <- received, outcome <- Outcome

(* Blocks are delivered in order and once, Completed means all of them,    *)
(* and the task's one report is final and always comes.                    *)
ImplementsFileTransfer == Abstract!Spec

(* The comment on mark_tftp_failed: it is called from every TFTP failure   *)
(* path, so that a host does not stay in Booting forever.                  *)
EndIsReported == pc = "done" /\ request.octet => verdict # "none"
=============================================================================
