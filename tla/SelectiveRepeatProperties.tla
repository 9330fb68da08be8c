---------------------- MODULE SelectiveRepeatProperties ----------------------
(***************************************************************************)
(* What a transfer of SelectiveRepeat keeps, and the inductive invariant   *)
(* SelectiveRepeatProofs proves it with.                                   *)
(***************************************************************************)
EXTENDS SelectiveRepeat

DataPacket == [seq : SSlots, left : 0 .. N, pkt : 1 .. N]
AckPacket == [seq : SSlots \cup {SEQ_NUM_ERROR}, size : 0 .. N, write : 0 .. N]

\* The variables keep their types; datagrams are those the two ends send.
TypeOK ==
  /\ sPc \in {"start", "wait", "drain", "done"}
  /\ sWin \in [SSlots -> [pkt : 1 .. N, left : 0 .. N, ack : BOOLEAN]]
  /\ base \in Nat /\ (N > 0 => base \in SSlots)
  /\ counter \in 0 .. N /\ noPackets \in 0 .. N /\ lastAck \in 0 .. N
  /\ maxErrors \in 0 .. MaxErrors /\ ret \in 0 .. N
  /\ sPc \in {"start", "wait"} => maxErrors < MaxErrors
  /\ sResult \in {"running", "EXIT_SUCCESS", "TRANSFER_ERROR"}
  /\ rWin \in [RSlots -> [pkt : 0 .. N, received : BOOLEAN]]
  /\ rNext \in RSlots /\ sizeReceived \in 0 .. N
  /\ isFirst \in BOOLEAN /\ noRecv \in Int
  /\ file \in Seq(0 .. N)
  /\ rResult \in {"running", "EXIT_SUCCESS", "TRANSFER_ERROR"}
  /\ IsABag(toReceiver) /\ BagToSet(toReceiver) \subseteq DataPacket \cup {ErrorPacket}
  /\ IsABag(toSender) /\ BagToSet(toSender) \subseteq AckPacket

\* When receive_data_from_sender returns with EXIT_SUCCESS the file is the
\* source, packet by packet, although a slot number is all the receiver has to
\* tell packets apart by and it counts packets without naming them.
Integrity == rResult = "EXIT_SUCCESS" => file = [p \in 1 .. N |-> p]

\* main_sender reports success only for a file main_receiver reported complete.
SenderSuccessIsReal == sResult = "EXIT_SUCCESS" => rResult = "EXIT_SUCCESS"

\* A slot is only ever written with newer packets: window[seq_num] rejects, by
\* size_received and its stale no_bytes_to_send, every packet it already gave to
\* the file, however late or often a copy of it arrives.
SlotsAdvance ==
  \A n \in DOMAIN file : n > W => file[n] > file[n - W]

\* A slot the sender counts as acknowledged holds a packet the receiver has:
\* waiting in its window or written.  An acknowledgement carries the slot, not
\* the packet, so that one for the slot's previous packet would do as well.
AckedIsReceived ==
  rResult = "running" =>
    \A s \in SSlots : sWin[s].ack =>
      \/ rWin[s].received /\ rWin[s].pkt = sWin[s].pkt
      \/ \E n \in DOMAIN file : file[n] = sWin[s].pkt

\* The file is written in order: what is in it is a beginning of the source.
WrittenInOrder == \A n \in DOMAIN file : file[n] = n

\* Once both ends returned, no acknowledgement is left in the sender's socket,
\* where the dialogue of commands would read it: that is what main_sender's last
\* loop is for.  (The receiver has no such loop.)
SenderSocketIsClean == Over => toSender = EmptyBag

\* Once both ends returned, they returned the same.
OutcomesAgree == Over => sResult = rResult

\* Every transfer ends, at both ends.
Termination == <>Over

\* The inductive invariant of SelectiveRepeatProofs.

\* The packet slot n % W gave to the file before it waits for the n-th.
Previous(n) == IF n > W THEN file[n - W] ELSE 0

SenderInv ==
  /\ N > 0 => base = counter % WS
  /\ \A s \in SSlots : (sWin[s].pkt - 1) % WS = s
  /\ sPc # "done" <=> sResult = "running"
  /\ sPc \in {"drain", "done"} /\ maxErrors < MaxErrors => rResult = "EXIT_SUCCESS"
  /\ sResult = "EXIT_SUCCESS" => maxErrors < MaxErrors

NetworkInv ==
  /\ \A m \in BagToSet(toReceiver) :
       IF m.seq = SEQ_NUM_ERROR THEN sResult = "TRANSFER_ERROR"
                                ELSE (m.pkt - 1) % W = m.seq
  /\ \A m \in BagToSet(toSender) : m.seq = SEQ_NUM_ERROR => rResult = "EXIT_SUCCESS"

\* Before the receiver has its first packet all packets carry the same count.
FirstInv ==
  isFirst =>
    /\ BagToSet(toSender) = {}
    /\ \A s \in SSlots : sWin[s].left = N
    /\ \A m \in BagToSet(toReceiver) : m.seq # SEQ_NUM_ERROR => m.left = N
    /\ rResult # "EXIT_SUCCESS"

\* The n-th packet of the file is the n-th or a later one of the same slot, ...
FileInv ==
  \A n \in DOMAIN file :
    /\ file[n] >= n
    /\ (file[n] - 1) % W = (n - 1) % W
    /\ file[n] > Previous(n)

\* ... a right one has only right ones before it in its slot, ...
ExactInv ==
  \A m \in DOMAIN file : file[m] = m =>
    \A n \in 1 .. m : (n - 1) % W = (m - 1) % W => file[n] = n

\* ... and each slot holds what it wrote last, or a later packet.
Awaits(slot, n) ==
  IF slot.received
  THEN slot.pkt > Previous(n) /\ (slot.pkt - 1) % W = (n - 1) % W
  ELSE slot.pkt = Previous(n)

WindowInv ==
  \A n \in Len(file) + 1 .. Len(file) + W : Awaits(rWin[(n - 1) % W], n)

ReceiverInv ==
  ~WritesFail /\ rResult # "TRANSFER_ERROR" =>
    /\ rNext = Len(file) % W
    /\ FileInv /\ ExactInv /\ WindowInv
    /\ isFirst => Len(file) = 0
    /\ rResult = "running" /\ ~isFirst => noRecv = N - Len(file) /\ noRecv > 0
    /\ rResult = "EXIT_SUCCESS" => Len(file) = N

IInv == TypeOK /\ SenderInv /\ NetworkInv /\ FirstInv /\ ReceiverInv

-----------------------------------------------------------------------------
\* The inductive invariants of LoopbackProofs, for timeouts that are never early.

\* Packets p that the receiver has are in the file if p <= Len(file), or wait in
\* their slot.
Held(s) ==
  \/ sWin[s].pkt <= Len(file)
  \/ s \in RSlots /\ rWin[s].received /\ rWin[s].pkt = sWin[s].pkt

\* The receiver's slots that wait hold packets of the window after the file, and the
\* next one to write does not wait.
OrderInv ==
  /\ WrittenInOrder
  /\ rResult = "running" =>
       /\ sizeReceived = Len(file) /\ rNext = Len(file) % W
       /\ ~rWin[rNext].received
       /\ \A s \in RSlots :
            IF rWin[s].received
            THEN rWin[s].pkt \in Len(file) + 1 .. Len(file) + W /\ (rWin[s].pkt - 1) % W = s
            ELSE rWin[s].pkt <= Len(file)

\* The sender's window is the last WS packets it has read; all before it are in the
\* file, and those acknowledged are with the receiver.
SentInv ==
  /\ counter >= WS
  /\ \A s \in SSlots : sWin[s].pkt \in counter - WS + 1 .. counter
  /\ rResult = "running" =>
       /\ Len(file) >= counter - WS
       /\ \A s \in SSlots : sWin[s].ack => Held(s) /\ sWin[s].pkt <= lastAck

\* A bag with one copy of each.
IsSingle(B) == B = SetToBag(BagToSet(B))

\* While the receiver runs a slot that is not acknowledged has one datagram in flight at
\* most, of the packet that is in it: the packet, or its acknowledgement, which the
\* receiver sent when it had the packet.  Others have none.
LoneInv ==
  /\ sPc = "start" =>
       /\ toReceiver = EmptyBag /\ toSender = EmptyBag /\ rResult = "running"
       /\ \A s \in SSlots : ~sWin[s].ack
  /\ rResult = "running" =>
       /\ IsSingle(toReceiver) /\ IsSingle(toSender)
       /\ \A m \in BagToSet(toReceiver) : m.seq # SEQ_NUM_ERROR =>
            /\ ~sWin[m.seq].ack
            /\ m.pkt = sWin[m.seq].pkt /\ m.left = sWin[m.seq].left
            /\ \A a \in BagToSet(toSender) : a.seq # m.seq
       /\ \A a \in BagToSet(toSender) :
            /\ a.seq \in SSlots /\ ~sWin[a.seq].ack
            /\ a.size = sWin[a.seq].pkt /\ Held(a.seq)
            /\ \A b \in BagToSet(toSender) : b.seq = a.seq => b = a

LoopbackInv == OrderInv /\ SentInv /\ LoneInv

\* What is in flight after the sender returned is no more than the error packet.
CleanInv ==
  sPc = "done" =>
    /\ toSender = EmptyBag
    /\ rResult = "running" => BagToSet(toReceiver) \subseteq {ErrorPacket}

\* A network without losses: the receiver's success is in flight until the sender has
\* it, the sender in its last loop has given up because nothing was, and the receiver
\* gives up only when it is told to.
QuietInv ==
  /\ sPc = "wait" /\ rResult = "EXIT_SUCCESS" =>
       \E a \in BagToSet(toSender) : a.seq = SEQ_NUM_ERROR
  /\ sPc = "drain" /\ maxErrors >= MaxErrors =>
       rResult = "running" /\ toReceiver = EmptyBag /\ toSender = EmptyBag
  /\ sResult = "TRANSFER_ERROR" => rResult # "EXIT_SUCCESS"
  /\ rResult = "TRANSFER_ERROR" => sResult = "TRANSFER_ERROR"

-----------------------------------------------------------------------------
\* The transfer as its callers see it.
Transfer == INSTANCE FileTransfer WITH
  sent <- sResult,
  received <- rResult,
  kept <- IF rResult = "EXIT_SUCCESS" THEN file ELSE << >>

\* Whatever the network does, the transfer keeps what FileTransfer promises.
ImplementsFileTransfer == Transfer!TSpec
=============================================================================
