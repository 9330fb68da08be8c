--------------------------- MODULE SelectiveRepeat ---------------------------
(***************************************************************************)
(* One file transfer of spqr: main_sender and main_receiver of             *)
(* src/protocol.c, the two ends of the Selective Repeat protocol, and the  *)
(* datagram service between them.                                          *)
(*                                                                         *)
(* The file is N packets of at most PACKET_SIZE bytes.  The code identifies *)
(* a packet by the number of bytes sent up to its end (no_bytes_to_send);  *)
(* that number grows by one packet at a time, so packet p stands for it    *)
(* here, 0 stands for "no bytes yet", and the file is <<1, 2, ..., N>>.    *)
(*                                                                         *)
(* Left out: print_progress, the `sent' flags (never read), the            *)
(* receiver's `ack' flags (never read), the error returns of sendto (they  *)
(* only log), and the branch of the receiver for seq_num >= WINDOW_SIZE,   *)
(* which no packet of main_sender takes.                                   *)
(***************************************************************************)
EXTENDS Integers, Sequences, FiniteSets, Bags

CONSTANTS
  N,              \* packets in the file
  W,              \* WINDOW_SIZE
  MaxErrors,      \* MAX_ERRORS: consecutive timeouts before the sender gives up
  MaxRetries,     \* MAX_RETRIES: copies of the last acknowledgement
  EarlyTimeouts,  \* may a recvfrom time out while datagrams are in flight?
  NetworkLoses,   \* may the network lose a datagram that sendto accepted?
  WritesFail,     \* may the receiver's fwrite fail?
  MaxInFlight     \* bound: no early timeout above this many datagrams in flight

ASSUME NAssumption == N \in Nat
ASSUME WAssumption == W \in Nat \ {0}
ASSUME LimitAssumption == /\ MaxErrors \in Nat \ {0}
                          /\ MaxRetries \in Nat \ {0}
                          /\ MaxInFlight \in Nat
ASSUME ModeAssumption == {EarlyTimeouts, NetworkLoses, WritesFail} \subseteq BOOLEAN

\* spqr_msg_t
SEQ_NUM_ERROR == -2
WRITE_BYTE_ERROR == -3

VARIABLES
  sPc,          \* where main_sender is: "start", "wait" (wait_ack), "drain", "done"
  sWin,         \* the sender's window: packet, its no_packets_to_send, acked?
  base,         \* i of wait_ack: the next slot to refill
  counter,      \* packets read from the file so far
  noPackets,    \* no_packets_to_send
  lastAck,      \* last_ack_confirmed_bytes
  maxErrors,    \* max_errors
  ret,          \* ret: write_byte of the last datagram drained
  sResult,      \* what main_sender returned
  rWin,         \* the receiver's window: last packet stored, waiting to be written?
  rNext,        \* i of receive_data_from_sender: the next slot to write
  sizeReceived, \* size_received: the packet written last
  isFirst,      \* is_first
  noRecv,       \* no_packets_to_receive
  file,         \* the packets written to the receiver's file
  rResult,      \* what main_receiver returned
  toReceiver,   \* datagrams in flight to the receiver (a bag: any order)
  toSender      \* datagrams in flight to the sender

sVars == <<sPc, sWin, base, counter, noPackets, lastAck, maxErrors, ret, sResult>>
rVars == <<rWin, rNext, sizeReceived, isFirst, noRecv, file, rResult>>
vars == <<sVars, rVars, toReceiver, toSender>>

-----------------------------------------------------------------------------
(* The window and the datagrams                                            *)

Least(a, b) == IF a <= b THEN a ELSE b

WS == Least(N, W)              \* window_size of main_sender
SSlots == 0 .. WS-1
RSlots == 0 .. W-1

Packet(seq, left, pkt) == [seq |-> seq, left |-> left, pkt |-> pkt]
ErrorPacket == Packet(SEQ_NUM_ERROR, 0, 0)
Ack(seq, size, write) == [seq |-> seq, size |-> size, write |-> write]
FinalAck(write) == Ack(SEQ_NUM_ERROR, 0, write)

\* The datagrams of the slots S of window win.
Datagrams(win, S) == SetToBag({Packet(s, win[s].left, win[s].pkt) : s \in S})

\* can_send_packet(): the sender itself discards any of the datagrams.
Survivors(S) == SUBSET S

\* How many copies of an acknowledgement leave the receiver: none if
\* can_send_packet() discards it.
OneOrNone(m) == {EmptyBag, SetToBag({m})}

\* Nothing is in flight that the sender may still get an answer to.
IsQuiet == toSender = EmptyBag /\ (rResult = "running" => toReceiver = EmptyBag)

\* The sender's recvfrom times out: always possible once it is quiet, and with
\* EarlyTimeouts whenever the network and the receiver are slower than that.
CanTimeout ==
  \/ IsQuiet
  \/ EarlyTimeouts /\ BagCardinality(toReceiver) + BagCardinality(toSender) <= MaxInFlight

-----------------------------------------------------------------------------
Init ==
  /\ sPc = "start"
  /\ sWin = [s \in SSlots |-> [pkt |-> s + 1, left |-> N, ack |-> FALSE]]
  /\ base = 0 /\ counter = WS /\ noPackets = N
  /\ lastAck = 0 /\ maxErrors = 0 /\ ret = 0 /\ sResult = "running"
  /\ rWin = [s \in RSlots |-> [pkt |-> 0, received |-> FALSE]]
  /\ rNext = 0 /\ sizeReceived = 0 /\ isFirst = TRUE /\ noRecv = 0
  /\ file = << >> /\ rResult = "running"
  /\ toReceiver = EmptyBag /\ toSender = EmptyBag

-----------------------------------------------------------------------------
(* The sender                                                              *)

\* send_data_to_receiver: the first transmission of the window.
SendWindow ==
  /\ sPc = "start"
  /\ sPc' = "wait"
  /\ \E S \in Survivors(SSlots) :
       toReceiver' = toReceiver (+) Datagrams(sWin, S)
  /\ UNCHANGED <<sWin, base, counter, noPackets, lastAck, maxErrors, ret, sResult,
                 rVars, toSender>>

\* Mutant: the timeouts are not counted.
ErrorsNotCounted == 0

ErrorsAfterTimeout == maxErrors + 1

\* What is not known to have arrived.
ToResend == {s \in SSlots : ~sWin[s].ack \/ sWin[s].pkt > lastAck}

\* wait_ack, recvfrom timed out: give up after MAX_ERRORS timeouts in a row,
\* otherwise send again.
Timeout ==
  /\ sPc = "wait"
  /\ CanTimeout
  /\ maxErrors' = ErrorsAfterTimeout
  /\ IF maxErrors' >= MaxErrors
     THEN sPc' = "drain" /\ UNCHANGED toReceiver
     ELSE /\ \E S \in Survivors(ToResend) :
               toReceiver' = toReceiver (+) Datagrams(sWin, S)
          /\ UNCHANGED sPc
  /\ UNCHANGED <<sWin, base, counter, noPackets, lastAck, ret, sResult, rVars, toSender>>

\* Mutant: >= for >, an acknowledgement of the last byte ends the transfer.
IsTerminalAtLastByte(m) ==
  m.seq = SEQ_NUM_ERROR \/ m.write >= N \/ m.write = WRITE_BYTE_ERROR

\* wait_ack returns on these: the final acknowledgement of the receiver, or one
\* whose write_byte cannot be right.
IsTerminal(m) ==
  m.seq = SEQ_NUM_ERROR \/ m.write > N \/ m.write = WRITE_BYTE_ERROR

\* win has exactly k acknowledged slots in a row from slot base on.
AckedRun(win, k) ==
  /\ \A j \in 0 .. k-1 : win[(base + j) % WS].ack
  /\ k < WS => ~win[(base + k) % WS].ack

\* Mutant: the end of the file does not stop the loop.
RefillsPastTheEnd(k) == Least(k, noPackets)

\* How many of k acknowledged slots get a new packet before the packet count or
\* fread stops the loop.
Refills(k) == Least(k, Least(noPackets, N - counter))

\* Distance of slot s from base, around the window.
Offset(s) == (s - base + WS) % WS

\* Mutant: the packet read last goes into its slot with the old slot's ack flag.
RefilledKeepsAck(win, r) ==
  [s \in SSlots |-> IF Offset(s) < r
                    THEN [win[s] EXCEPT !.pkt = counter + Offset(s) + 1,
                                        !.left = noPackets - Offset(s) - 1]
                    ELSE win[s]]

\* The window once the r slots from base on hold the next r packets.
Refilled(win, r) ==
  [s \in SSlots |-> IF Offset(s) < r
                    THEN [pkt |-> counter + Offset(s) + 1,
                          left |-> noPackets - Offset(s) - 1,
                          ack |-> FALSE]
                    ELSE win[s]]

\* Mutant: i is not moved on.
BaseStays(r) == base

\* The slot to refill after r more.
NextBase(r) == IF r = 0 THEN base ELSE (base + r) % WS

\* The loop of wait_ack that moves the window over its k acknowledged slots.
Slide(win, k) ==
  LET r == Refills(k)
  IN  /\ sWin' = Refilled(win, r)
      /\ base' = NextBase(r)
      /\ counter' = counter + r
      \* the fread that finds the end of the file has already taken one packet off
      /\ noPackets' = noPackets - r - (IF r < k /\ noPackets > r THEN 1 ELSE 0)
      /\ \E S \in Survivors({s \in SSlots : Offset(s) < r}) :
           toReceiver' = toReceiver (+) Datagrams(Refilled(win, r), S)

\* wait_ack, a datagram arrived.
ReceiveAck(m) ==
  /\ sPc = "wait"
  /\ m \in BagToSet(toSender)
  /\ toSender' = toSender (-) SetToBag({m})
  /\ maxErrors' = 0
  /\ IF IsTerminal(m)
     THEN /\ sPc' = "drain"
          /\ UNCHANGED <<sWin, base, counter, noPackets, lastAck, toReceiver>>
     ELSE /\ lastAck' = IF m.size > lastAck THEN m.size ELSE lastAck
          /\ UNCHANGED sPc
          /\ IF sWin[m.seq].ack
             THEN UNCHANGED <<sWin, base, counter, noPackets, toReceiver>>
             ELSE LET win == [sWin EXCEPT ![m.seq].ack = TRUE]
                  IN  \E k \in 0 .. WS : AckedRun(win, k) /\ Slide(win, k)
  /\ UNCHANGED <<ret, sResult, rVars>>

\* main_sender reads what is left in its socket, until a timeout ...
Drain(m) ==
  /\ sPc = "drain"
  /\ m \in BagToSet(toSender)
  /\ toSender' = toSender (-) SetToBag({m})
  /\ ret' = m.write
  /\ UNCHANGED <<sPc, sWin, base, counter, noPackets, lastAck, maxErrors, sResult,
                 rVars, toReceiver>>

\* Mutant: main_sender returns without emptying its socket.
DrainSkipped == TRUE

\* The last loop of main_sender ends.
DrainEnds == CanTimeout

\* ... and returns, telling the receiver if it gave up.
SenderReturn ==
  /\ sPc = "drain"
  /\ DrainEnds
  /\ sPc' = "done"
  /\ sResult' = IF ret = WRITE_BYTE_ERROR \/ maxErrors >= MaxErrors
                THEN "TRANSFER_ERROR" ELSE "EXIT_SUCCESS"
  /\ toReceiver' = IF ret # WRITE_BYTE_ERROR /\ maxErrors >= MaxErrors
                   THEN toReceiver (+) SetToBag({ErrorPacket}) ELSE toReceiver
  /\ UNCHANGED <<sWin, base, counter, noPackets, lastAck, maxErrors, ret, rVars, toSender>>

-----------------------------------------------------------------------------
(* The receiver                                                            *)

\* Mutant: can_send_packet() discards the last acknowledgements, too.
NoFinalAcks(write) == EmptyBag

\* main_receiver sends its last acknowledgement MAX_RETRIES times.
FinalAcks(write) == [m \in {FinalAck(write)} |-> MaxRetries]

\* Mutants: a test of the condition is missing.
IsDuplicateOfStored(m) == rWin[m.seq].received \/ m.pkt <= sizeReceived
IsDuplicateInSlot(m) == rWin[m.seq].received \/ sizeReceived < rWin[m.seq].pkt

\* The packet is acknowledged and not stored: its slot still waits to be written,
\* or was written after what was written last, or the file is past the packet.
IsDuplicate(m) ==
  \/ rWin[m.seq].received
  \/ sizeReceived < rWin[m.seq].pkt
  \/ m.pkt <= sizeReceived

\* Slot that is k places after the next one to write.
RSlot(k) == (rNext + k) % W

\* win has exactly k stored packets in a row from slot rNext on.
ReceivedRun(win, k) ==
  /\ \A j \in 0 .. k-1 : win[RSlot(j)].received
  /\ k < W => ~win[RSlot(k)].received

\* The packets of the first k slots from rNext on, in the order they are written.
Run(win, k) == [j \in 1 .. k |-> win[RSlot(j - 1)].pkt]

\* no_packets_to_receive once m is stored and k packets are written.
LeftAfter(k, m) == (IF isFirst THEN m.left ELSE noRecv) - k

\* Mutant: the loop ends one packet early.
IsCompleteEarly(left) == left <= 1

\* The condition of the do loop is false.
IsComplete(left) == left <= 0

\* Writes the k packets in a row from slot rNext on, acknowledges m and returns
\* if the file is complete.
WriteRun(win, k, m) ==
  LET size == IF k = 0 THEN sizeReceived ELSE win[RSlot(k - 1)].pkt
      left == LeftAfter(k, m)
  IN  /\ rWin' = [s \in RSlots |->
                    IF \E j \in 0 .. k-1 : RSlot(j) = s
                    THEN [win[s] EXCEPT !.received = FALSE] ELSE win[s]]
      /\ rNext' = RSlot(k)
      /\ sizeReceived' = size
      /\ noRecv' = left
      /\ file' = file \o Run(win, k)
      /\ rResult' = IF IsComplete(left) THEN "EXIT_SUCCESS" ELSE "running"
      /\ \E a \in OneOrNone(Ack(m.seq, m.pkt, size)) :
           toSender' = toSender (+) a (+) (IF IsComplete(left) THEN FinalAcks(size) ELSE EmptyBag)

\* The fwrite of the f-th packet of the run fails: receive_data_from_sender returns
\* WRITE_BYTE_ERROR, which main_receiver treats as a success.  (The window is
\* gone with it: what it holds no longer matters.)
WriteFails(win, f) ==
  /\ rWin' = win
  /\ rNext' = RSlot(f - 1)
  /\ sizeReceived' = win[RSlot(f - 1)].pkt
  /\ noRecv' = noRecv
  /\ file' = file \o Run(win, f - 1)
  /\ rResult' = "EXIT_SUCCESS"
  /\ toSender' = toSender (+) FinalAcks(win[RSlot(f - 1)].pkt)

\* receive_data_from_sender, a datagram arrived.
ReceiveError(m) ==
  /\ m.seq = SEQ_NUM_ERROR
  /\ rResult' = "TRANSFER_ERROR"
  /\ file' = << >>                 \* main_receiver removes the file
  /\ UNCHANGED <<rWin, rNext, sizeReceived, isFirst, noRecv, toSender>>

ReceiveDuplicate(m) ==
  /\ m.seq # SEQ_NUM_ERROR
  /\ IsDuplicate(m)
  /\ isFirst' = FALSE
  /\ noRecv' = IF isFirst THEN m.left ELSE noRecv
  /\ \E a \in OneOrNone(Ack(m.seq, m.pkt, sizeReceived)) : toSender' = toSender (+) a
  /\ UNCHANGED <<rWin, rNext, sizeReceived, file, rResult>>

ReceiveNew(m) ==
  /\ m.seq # SEQ_NUM_ERROR
  /\ ~IsDuplicate(m)
  /\ isFirst' = FALSE
  /\ LET win == [rWin EXCEPT ![m.seq] = [pkt |-> m.pkt, received |-> TRUE]]
     IN  \E k \in 0 .. W :
           /\ ReceivedRun(win, k)
           /\ \/ WriteRun(win, k, m)
              \/ WritesFail /\ \E f \in 1 .. k : WriteFails(win, f)

ReceivePacket(m) ==
  /\ rResult = "running"
  /\ m \in BagToSet(toReceiver)
  /\ toReceiver' = toReceiver (-) SetToBag({m})
  /\ ReceiveError(m) \/ ReceiveDuplicate(m) \/ ReceiveNew(m)
  /\ UNCHANGED sVars

-----------------------------------------------------------------------------
(* The network and the specification                                       *)

\* The network loses a datagram (final acknowledgements and the error packet
\* are not spared as they are by can_send_packet).
Lose ==
  /\ NetworkLoses
  /\ \/ \E m \in BagToSet(toReceiver) :
          toReceiver' = toReceiver (-) SetToBag({m}) /\ UNCHANGED toSender
     \/ \E m \in BagToSet(toSender) :
          toSender' = toSender (-) SetToBag({m}) /\ UNCHANGED toReceiver
  /\ UNCHANGED <<sVars, rVars>>

SenderStep ==
  \/ SendWindow
  \/ Timeout
  \/ \E m \in BagToSet(toSender) : ReceiveAck(m)
  \/ \E m \in BagToSet(toSender) : Drain(m)
  \/ SenderReturn

ReceiverStep == \E m \in BagToSet(toReceiver) : ReceivePacket(m)

\* Both ends returned: the transfer is over and nothing more is due.
Over == sPc = "done" /\ rResult # "running"
Finished == Over /\ UNCHANGED vars

Next == SenderStep \/ ReceiverStep \/ Lose \/ Finished

Spec == Init /\ [][Next]_vars

\* Both programs keep running, and recvfrom's timeout fires once it is due; the
\* network owes nothing.
Fairness == WF_vars(SenderStep) /\ WF_vars(ReceiverStep)
FairSpec == Spec /\ Fairness
=============================================================================
