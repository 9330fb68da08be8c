------------------------ MODULE SelectiveRepeatProofs ------------------------
(***************************************************************************)
(* Theorems about SelectiveRepeat, for every file, window and retry limit. *)
(***************************************************************************)
EXTENDS SelectiveRepeatProperties, SpqrLemmas, SequenceTheorems, TLAPS

USE NAssumption, WAssumption, LimitAssumption, ModeAssumption

\* The sender's windows.
WindowType == [SSlots -> [pkt : 1 .. N, left : 0 .. N, ack : BOOLEAN]]

-----------------------------------------------------------------------------
(* The operators of the model                                              *)

\* The sender's slots are slots of the receiver.
LEMMA Slots ==
  /\ WS \in Nat /\ WS <= N /\ WS <= W
  /\ SSlots \subseteq RSlots /\ SSlots \subseteq Nat
  /\ N > 0 => WS \in Nat \ {0} /\ 0 \in SSlots
  /\ 0 \in RSlots
BY DEF WS, Least, SSlots, RSlots

\* Datagrams made from slots of the window are data packets of these slots.
LEMMA DatagramsType ==
  ASSUME NEW win \in WindowType, NEW S \in SUBSET SSlots
  PROVE  /\ IsABag(Datagrams(win, S))
         /\ BagToSet(Datagrams(win, S)) = {Packet(s, win[s].left, win[s].pkt) : s \in S}
         /\ BagToSet(Datagrams(win, S)) \subseteq DataPacket
<1>1. {Packet(s, win[s].left, win[s].pkt) : s \in S} \subseteq DataPacket
  BY DEF Packet, DataPacket, WindowType
<1> QED  BY <1>1, SetBag DEF Datagrams

\* Sending datagrams of the window keeps the type of the network.
LEMMA SendType ==
  ASSUME NEW win \in WindowType, NEW S \in Survivors(SSlots), TypeOK
  PROVE  LET B == toReceiver (+) Datagrams(win, S)
         IN  /\ IsABag(B) /\ BagToSet(B) \subseteq DataPacket \cup {ErrorPacket}
             /\ BagToSet(B) = BagToSet(toReceiver)
                                \cup {Packet(s, win[s].left, win[s].pkt) : s \in S}
<1>1. S \in SUBSET SSlots  BY DEF Survivors
<1> QED  BY <1>1, DatagramsType, BagSum DEF TypeOK

\* The refilled window has r new packets, none past the end of the file.
LEMMA RefillsType ==
  ASSUME TypeOK, NEW k \in Nat
  PROVE  Refills(k) \in Nat /\ Refills(k) <= k /\ Refills(k) <= noPackets
                            /\ Refills(k) <= N - counter
BY DEF Refills, Least, TypeOK

\* The distance from base is a number of slots, and leads back to the slot.
LEMMA OffsetType ==
  ASSUME TypeOK, N > 0, NEW s \in SSlots
  PROVE  Offset(s) \in 0 .. WS-1 /\ (base + Offset(s)) % WS = s
<1>1. WS \in Nat \ {0} /\ base \in 0 .. WS-1 /\ s \in 0 .. WS-1
  BY Slots DEF TypeOK, SSlots
<1> QED  BY <1>1, RingDistance DEF Offset

\* A window stays one when slots are refilled.
LEMMA RefilledType ==
  ASSUME TypeOK, N > 0, NEW win \in WindowType, NEW k \in 0 .. WS
  PROVE  Refilled(win, Refills(k)) \in WindowType
<1> DEFINE r == Refills(k)
<1>1. r \in Nat /\ r <= noPackets /\ r <= N - counter  BY RefillsType, Slots
<1>2. ASSUME NEW s \in SSlots, Offset(s) < r
      PROVE  counter + Offset(s) + 1 \in 1 .. N /\ noPackets - Offset(s) - 1 \in 0 .. N
  <2>1. Offset(s) \in Nat  BY OffsetType, Slots
  <2>2. counter \in 0 .. N /\ noPackets \in 0 .. N  BY DEF TypeOK
  <2> HIDE DEF r
  <2> QED  BY <1>1, <1>2, <2>1, <2>2
<1> HIDE DEF r
<1>3. Refilled(win, r) \in WindowType  BY <1>2 DEF Refilled, WindowType
<1> QED  BY <1>3 DEF r

\* Acknowledgements sent are acknowledgements.
LEMMA AckType ==
  ASSUME TypeOK, NEW seq \in SSlots, NEW size \in 0 .. N, NEW write \in 0 .. N,
         NEW a \in OneOrNone(Ack(seq, size, write))
  PROVE  /\ IsABag(a) /\ BagToSet(a) \subseteq {Ack(seq, size, write)}
         /\ Ack(seq, size, write) \in AckPacket /\ Ack(seq, size, write).seq = seq
<1>1. Ack(seq, size, write) \in AckPacket /\ Ack(seq, size, write).seq = seq
  BY DEF Ack, AckPacket
<1>2. a = EmptyBag \/ a = SetToBag({Ack(seq, size, write)})  BY DEF OneOrNone
<1>3. IsABag(a) /\ BagToSet(a) \subseteq {Ack(seq, size, write)}
  BY <1>2, SetBag, NoBag
<1> QED  BY <1>1, <1>3

\* The final acknowledgements are a bag of acknowledgements.
LEMMA FinalAcksType ==
  ASSUME TypeOK, NEW write \in 0 .. N
  PROVE  /\ IsABag(FinalAcks(write)) /\ BagToSet(FinalAcks(write)) = {FinalAck(write)}
         /\ FinalAck(write) \in AckPacket /\ FinalAck(write).seq = SEQ_NUM_ERROR
<1>1. FinalAck(write) \in AckPacket /\ FinalAck(write).seq = SEQ_NUM_ERROR
  BY DEF FinalAck, Ack, AckPacket
<1>2. IsABag(FinalAcks(write)) /\ BagToSet(FinalAcks(write)) = {FinalAck(write)}
  BY DEF FinalAcks, IsABag, BagToSet
<1> QED  BY <1>1, <1>2

\* A data packet is not an error packet.
LEMMA DataType ==
  ASSUME TypeOK, NEW m \in BagToSet(toReceiver), m.seq # SEQ_NUM_ERROR
  PROVE  m \in DataPacket
BY DEF TypeOK, ErrorPacket, Packet

\* The k packets of a run, appended to the file.
LEMMA RunType ==
  ASSUME TypeOK, NEW win \in [RSlots -> [pkt : 0 .. N, received : BOOLEAN]],
         NEW k \in 0 .. W
  PROVE  /\ \A j \in Nat : RSlot(j) \in RSlots
         /\ Run(win, k) \in Seq(0 .. N) /\ Len(Run(win, k)) = k
         /\ \A j \in 1 .. k : Run(win, k)[j] = win[RSlot(j - 1)].pkt
<1>1. \A j \in Nat : RSlot(j) \in RSlots
  <2> TAKE j \in Nat
  <2>1. rNext + j \in Nat  BY DEF TypeOK, RSlots
  <2> QED  BY <2>1, DivMod DEF RSlot, RSlots
<1>2. Run(win, k) \in [1 .. k -> 0 .. N]  BY <1>1 DEF Run
<1>3. Run(win, k) \in Seq(0 .. N) /\ Len(Run(win, k)) = k  BY <1>2
<1> QED  BY <1>1, <1>3 DEF Run

-----------------------------------------------------------------------------
(* Type correctness                                                        *)

\* The types hold in the beginning, ...
LEMMA InitType == Init => TypeOK
<1> SUFFICES ASSUME Init PROVE TypeOK
  OBVIOUS
<1>1. /\ WS \in 0 .. N /\ SSlots \subseteq RSlots /\ 0 \in RSlots
      /\ \A s \in SSlots : s + 1 \in 1 .. N
      /\ N > 0 => 0 \in SSlots
  BY Slots DEF SSlots
<1>2. IsABag(EmptyBag) /\ BagToSet(EmptyBag) = {}  BY NoBag
<1>3. sWin \in [SSlots -> [pkt : 1 .. N, left : 0 .. N, ack : BOOLEAN]]
  BY <1>1 DEF Init
<1>4. rWin \in [RSlots -> [pkt : 0 .. N, received : BOOLEAN]]  BY DEF Init
<1>5. file \in Seq(0 .. N)  BY DEF Init
<1> QED  BY <1>1, <1>2, <1>3, <1>4, <1>5 DEF Init, TypeOK

\* ... and each step of the sender keeps them: the first transmission, ...
LEMMA SendWindowType == TypeOK /\ SendWindow => TypeOK'
<1> SUFFICES ASSUME TypeOK, SendWindow PROVE TypeOK'
  OBVIOUS
<1>1. PICK S \in Survivors(SSlots) : toReceiver' = toReceiver (+) Datagrams(sWin, S)
  BY DEF SendWindow
<1>2. IsABag(toReceiver') /\ BagToSet(toReceiver') \subseteq DataPacket \cup {ErrorPacket}
  BY <1>1, SendType DEF TypeOK, WindowType
<1> QED  BY <1>2 DEF TypeOK, SendWindow, rVars

\* ... a timeout, ...
LEMMA TimeoutType == TypeOK /\ Timeout => TypeOK'
<1> SUFFICES ASSUME TypeOK, Timeout PROVE TypeOK'
  OBVIOUS
<1>1. /\ sPc' \in {"start", "wait", "drain", "done"} /\ maxErrors' \in 0 .. MaxErrors
      /\ sPc' \in {"start", "wait"} => maxErrors' < MaxErrors
  BY DEF TypeOK, Timeout, ErrorsAfterTimeout
<1>2. IsABag(toReceiver') /\ BagToSet(toReceiver') \subseteq DataPacket \cup {ErrorPacket}
  <2>1. CASE toReceiver' = toReceiver  BY <2>1 DEF TypeOK
  <2>2. CASE \E S \in Survivors(ToResend) : toReceiver' = toReceiver (+) Datagrams(sWin, S)
    <3>1. PICK S \in Survivors(ToResend) : toReceiver' = toReceiver (+) Datagrams(sWin, S)
      BY <2>2
    <3>2. S \in Survivors(SSlots)  BY DEF Survivors, ToResend
    <3> QED  BY <3>1, <3>2, SendType DEF TypeOK, WindowType
  <2> QED  BY <2>1, <2>2 DEF Timeout
<1> QED  BY <1>1, <1>2 DEF TypeOK, Timeout, rVars

\* What one acknowledgement that is not a last one does to the window.
LEMMA SlideType ==
  ASSUME TypeOK, N > 0, NEW win \in WindowType, NEW k \in 0 .. WS, Slide(win, k)
  PROVE  /\ sWin' \in WindowType /\ base' \in SSlots
         /\ counter' \in 0 .. N /\ noPackets' \in 0 .. N
         /\ IsABag(toReceiver')
         /\ BagToSet(toReceiver') \subseteq DataPacket \cup {ErrorPacket}
<1> DEFINE r == Refills(k)
<1>1. r \in Nat /\ r <= k /\ r <= noPackets /\ r <= N - counter  BY RefillsType, Slots
<1>2. Refilled(win, r) \in WindowType  BY RefilledType
<1> HIDE DEF r
<1>3. sWin' \in WindowType  BY <1>2 DEF Slide, r
<1>4. base' \in SSlots
  <2>1. WS \in Nat \ {0} /\ base + r \in Nat /\ base \in SSlots
    BY <1>1, Slots DEF TypeOK, SSlots
  <2>2. (base + r) % WS \in SSlots  BY <2>1, DivMod DEF SSlots
  <2> QED  BY <2>1, <2>2 DEF Slide, NextBase, r
<1>5. counter' = counter + r
      /\ noPackets' = noPackets - r - (IF r < k /\ noPackets > r THEN 1 ELSE 0)
  BY DEF Slide, r
<1>6. counter' \in 0 .. N /\ noPackets' \in 0 .. N  BY <1>1, <1>5 DEF TypeOK
<1>7. PICK S \in Survivors({s \in SSlots : Offset(s) < r}) :
        toReceiver' = toReceiver (+) Datagrams(Refilled(win, r), S)
  BY DEF Slide, r
<1>8. S \in Survivors(SSlots)  BY DEF Survivors
<1>9. /\ IsABag(toReceiver')
      /\ BagToSet(toReceiver') \subseteq DataPacket \cup {ErrorPacket}
  BY <1>2, <1>7, <1>8, SendType
<1> QED  BY <1>3, <1>4, <1>6, <1>9

\* ... an acknowledgement, ...
LEMMA ReceiveAckType ==
  ASSUME TypeOK, NEW m \in BagToSet(toSender), ReceiveAck(m)
  PROVE  TypeOK'
<1>1. m \in AckPacket  BY DEF TypeOK
<1>2. IsABag(toSender') /\ BagToSet(toSender') \subseteq AckPacket
  BY BagLess DEF ReceiveAck, TypeOK
<1>3. maxErrors' \in 0 .. MaxErrors /\ maxErrors' < MaxErrors  BY DEF ReceiveAck
<1>4. CASE IsTerminal(m)
  BY <1>2, <1>3, <1>4 DEF TypeOK, ReceiveAck, rVars
<1>5. CASE ~IsTerminal(m)
  <2>1. m.seq \in SSlots /\ N > 0  BY <1>1, <1>5, Slots DEF IsTerminal, AckPacket, SSlots
  <2>2. lastAck' \in 0 .. N /\ sPc' = sPc  BY <1>1, <1>5 DEF ReceiveAck, AckPacket, TypeOK
  <2>3. CASE sWin[m.seq].ack
    BY <1>2, <1>3, <1>5, <2>2, <2>3 DEF TypeOK, ReceiveAck, rVars
  <2>4. CASE ~sWin[m.seq].ack
    <3> DEFINE win == [sWin EXCEPT ![m.seq].ack = TRUE]
    <3>1. win \in WindowType  BY <2>1 DEF TypeOK, WindowType
    <3>2. PICK k \in 0 .. WS : Slide(win, k)  BY <1>5, <2>4 DEF ReceiveAck
    <3> HIDE DEF win
    <3>3. /\ sWin' \in WindowType /\ base' \in SSlots
          /\ counter' \in 0 .. N /\ noPackets' \in 0 .. N
          /\ IsABag(toReceiver')
          /\ BagToSet(toReceiver') \subseteq DataPacket \cup {ErrorPacket}
      BY <2>1, <3>1, <3>2, SlideType
    <3> QED  BY <1>2, <1>3, <2>2, <3>3, Slots DEF TypeOK, ReceiveAck, rVars, WindowType
  <2> QED  BY <2>3, <2>4
<1> QED  BY <1>4, <1>5

\* ... a datagram drained, ...
LEMMA DrainType ==
  ASSUME TypeOK, NEW m \in BagToSet(toSender), Drain(m)
  PROVE  TypeOK'
<1>1. m.write \in 0 .. N  BY DEF TypeOK, AckPacket
<1>2. IsABag(toSender') /\ BagToSet(toSender') \subseteq AckPacket
  BY BagLess DEF Drain, TypeOK
<1> QED  BY <1>1, <1>2 DEF TypeOK, Drain, rVars

\* ... and the return.
LEMMA SenderReturnType == TypeOK /\ SenderReturn => TypeOK'
<1> SUFFICES ASSUME TypeOK, SenderReturn PROVE TypeOK'
  OBVIOUS
<1>1. IsABag(SetToBag({ErrorPacket})) /\ BagToSet(SetToBag({ErrorPacket})) = {ErrorPacket}
  BY SetBag
<1>2. IsABag(toReceiver') /\ BagToSet(toReceiver') \subseteq DataPacket \cup {ErrorPacket}
  BY <1>1, BagSum DEF TypeOK, SenderReturn
<1>3. sResult' \in {"EXIT_SUCCESS", "TRANSFER_ERROR"}  BY DEF SenderReturn
<1> QED  BY <1>2, <1>3 DEF TypeOK, SenderReturn, rVars

\* What the receiver's store-and-write step does to its window and file.
LEMMA StoredType ==
  ASSUME TypeOK, NEW m \in DataPacket
  PROVE  [rWin EXCEPT ![m.seq] = [pkt |-> m.pkt, received |-> TRUE]]
           \in [RSlots -> [pkt : 0 .. N, received : BOOLEAN]]
<1>1. m.seq \in RSlots /\ m.pkt \in 0 .. N
  <2>1. m.seq \in SSlots /\ m.pkt \in 1 .. N  BY DEF DataPacket
  <2>2. m.seq \in RSlots  BY <2>1, Slots
  <2> QED  BY <2>1, <2>2
<1>2. rWin \in [RSlots -> [pkt : 0 .. N, received : BOOLEAN]]  BY DEF TypeOK
<1>3. [pkt |-> m.pkt, received |-> TRUE] \in [pkt : 0 .. N, received : BOOLEAN]
  BY <1>1
<1> QED  BY <1>1, <1>2, <1>3

\* So does the receiver, whether it writes its run of packets ...
LEMMA WriteRunType ==
  ASSUME TypeOK, NEW m \in DataPacket, NEW k \in 0 .. W,
         NEW win \in [RSlots -> [pkt : 0 .. N, received : BOOLEAN]], WriteRun(win, k, m)
  PROVE  /\ rWin' \in [RSlots -> [pkt : 0 .. N, received : BOOLEAN]]
         /\ rNext' \in RSlots /\ sizeReceived' \in 0 .. N /\ noRecv' \in Int
         /\ file' \in Seq(0 .. N)
         /\ rResult' \in {"running", "EXIT_SUCCESS"}
         /\ IsABag(toSender') /\ BagToSet(toSender') \subseteq AckPacket
<1> DEFINE size == IF k = 0 THEN sizeReceived ELSE win[RSlot(k - 1)].pkt
           left == LeftAfter(k, m)
           more == IF IsComplete(left) THEN FinalAcks(size) ELSE EmptyBag
<1>1. \A j \in Nat : RSlot(j) \in RSlots  BY RunType
<1>2. Run(win, k) \in Seq(0 .. N)  BY RunType
<1>3. rWin' \in [RSlots -> [pkt : 0 .. N, received : BOOLEAN]]  BY DEF WriteRun
<1>4. rNext' \in RSlots  BY <1>1 DEF WriteRun
<1>5. size \in 0 .. N
  <2>1. k # 0 => win[RSlot(k - 1)].pkt \in 0 .. N  BY <1>1
  <2> QED  BY <2>1 DEF TypeOK
<1>6. left \in Int  BY DEF LeftAfter, DataPacket, TypeOK
<1>7. file' \in Seq(0 .. N)  BY <1>2 DEF WriteRun, TypeOK
<1>8. PICK a \in OneOrNone(Ack(m.seq, m.pkt, size)) : toSender' = toSender (+) a (+) more
  BY DEF WriteRun
<1>9. /\ sizeReceived' = size /\ noRecv' = left
      /\ rResult' \in {"running", "EXIT_SUCCESS"}
  BY DEF WriteRun
<1>10. m.seq \in SSlots /\ m.pkt \in 0 .. N  BY DEF DataPacket
<1> HIDE DEF size, left
<1>11. IsABag(more) /\ BagToSet(more) \subseteq AckPacket
  BY <1>5, FinalAcksType, NoBag
<1>12. IsABag(a) /\ BagToSet(a) \subseteq AckPacket  BY <1>5, <1>10, AckType
<1> HIDE DEF more
<1>13. IsABag(toSender (+) a) /\ BagToSet(toSender (+) a) \subseteq AckPacket
  BY <1>12, BagSum DEF TypeOK
<1>14. IsABag(toSender') /\ BagToSet(toSender') \subseteq AckPacket
  BY <1>8, <1>11, <1>13, BagSum
<1> QED  BY <1>3, <1>4, <1>5, <1>6, <1>7, <1>9, <1>14

\* ... or fails to, ...
LEMMA WriteFailsType ==
  ASSUME TypeOK, NEW f \in 1 .. W,
         NEW win \in [RSlots -> [pkt : 0 .. N, received : BOOLEAN]], WriteFails(win, f)
  PROVE  /\ rWin' \in [RSlots -> [pkt : 0 .. N, received : BOOLEAN]]
         /\ rNext' \in RSlots /\ sizeReceived' \in 0 .. N /\ noRecv' \in Int
         /\ file' \in Seq(0 .. N)
         /\ rResult' \in {"running", "EXIT_SUCCESS"}
         /\ IsABag(toSender') /\ BagToSet(toSender') \subseteq AckPacket
<1>1. f - 1 \in 0 .. W  OBVIOUS
<1>2. RSlot(f - 1) \in RSlots /\ Run(win, f - 1) \in Seq(0 .. N)  BY <1>1, RunType
<1>3. win[RSlot(f - 1)].pkt \in 0 .. N  BY <1>2
<1>4. IsABag(toSender') /\ BagToSet(toSender') \subseteq AckPacket
  BY <1>3, FinalAcksType, BagSum DEF WriteFails, TypeOK
<1>5. file' \in Seq(0 .. N)  BY <1>2 DEF WriteFails, TypeOK
<1> QED  BY <1>2, <1>3, <1>4, <1>5 DEF WriteFails, TypeOK

\* ... and with every datagram it takes.
LEMMA ReceivePacketType ==
  ASSUME TypeOK, NEW m \in BagToSet(toReceiver), ReceivePacket(m)
  PROVE  TypeOK'
<1>1. /\ IsABag(toReceiver')
      /\ BagToSet(toReceiver') \subseteq DataPacket \cup {ErrorPacket}
  BY BagLess DEF ReceivePacket, TypeOK
<1>2. CASE ReceiveError(m)
  <2>1. file' \in Seq(0 .. N)  BY <1>2 DEF ReceiveError
  <2> QED  BY <1>1, <1>2, <2>1 DEF TypeOK, ReceiveError, ReceivePacket, sVars
<1>3. CASE ReceiveDuplicate(m)
  <2>1. m \in DataPacket  BY <1>3, DataType DEF ReceiveDuplicate
  <2>2. m.seq \in SSlots /\ m.pkt \in 0 .. N /\ m.left \in 0 .. N  BY <2>1 DEF DataPacket
  <2>3. IsABag(toSender') /\ BagToSet(toSender') \subseteq AckPacket
    <3>1. PICK a \in OneOrNone(Ack(m.seq, m.pkt, sizeReceived)) : toSender' = toSender (+) a
          BY <1>3 DEF ReceiveDuplicate
    <3>2. sizeReceived \in 0 .. N /\ IsABag(toSender) /\ BagToSet(toSender) \subseteq AckPacket
          BY DEF TypeOK
    <3>3. IsABag(a) /\ BagToSet(a) \subseteq AckPacket  BY <2>2, <3>1, <3>2, AckType
    <3>4. BagToSet(toSender (+) a) = BagToSet(toSender) \cup BagToSet(a) /\ IsABag(toSender (+) a)
          BY <3>2, <3>3, BagSum
    <3> QED  BY <3>1, <3>2, <3>3, <3>4
  <2>4. isFirst' \in BOOLEAN /\ noRecv' \in Int
    <3>1. noRecv \in Int /\ m.left \in Int  BY <2>2 DEF TypeOK
    <3>2. noRecv' = m.left \/ noRecv' = noRecv  BY <1>3 DEF ReceiveDuplicate
    <3> QED  BY <1>3, <3>1, <3>2 DEF ReceiveDuplicate
  <2> QED  BY <1>1, <1>3, <2>3, <2>4 DEF TypeOK, ReceiveDuplicate, ReceivePacket, sVars
<1>4. CASE ReceiveNew(m)
  <2> DEFINE win == [rWin EXCEPT ![m.seq] = [pkt |-> m.pkt, received |-> TRUE]]
  <2>1. m \in DataPacket  BY <1>4, DataType DEF ReceiveNew
  <2>2. win \in [RSlots -> [pkt : 0 .. N, received : BOOLEAN]]  BY <2>1, StoredType
  <2>3. PICK k \in 0 .. W : WriteRun(win, k, m) \/ \E f \in 1 .. k : WriteFails(win, f)
    BY <1>4 DEF ReceiveNew
  <2>4. isFirst' \in BOOLEAN  BY <1>4 DEF ReceiveNew
  <2> HIDE DEF win
  <2>5. /\ rWin' \in [RSlots -> [pkt : 0 .. N, received : BOOLEAN]]
        /\ rNext' \in RSlots /\ sizeReceived' \in 0 .. N /\ noRecv' \in Int
        /\ file' \in Seq(0 .. N)
        /\ rResult' \in {"running", "EXIT_SUCCESS"}
        /\ IsABag(toSender') /\ BagToSet(toSender') \subseteq AckPacket
    <3>1. CASE WriteRun(win, k, m)  BY <2>1, <2>2, <3>1, WriteRunType
    <3>2. CASE \E f \in 1 .. k : WriteFails(win, f)
      <4>1. PICK f \in 1 .. k : WriteFails(win, f)  BY <3>2
      <4>2. f \in 1 .. W  OBVIOUS
      <4> QED  BY <2>2, <4>1, <4>2, WriteFailsType
    <3> QED  BY <2>3, <3>1, <3>2
  <2> QED  BY <1>1, <2>4, <2>5 DEF TypeOK, ReceivePacket, sVars
<1> QED  BY <1>2, <1>3, <1>4 DEF ReceivePacket

\* So does the network.
LEMMA LoseType == TypeOK /\ Lose => TypeOK'
<1> SUFFICES ASSUME TypeOK, Lose PROVE TypeOK'
  OBVIOUS
<1>1. CASE \E m \in BagToSet(toReceiver) :
             toReceiver' = toReceiver (-) SetToBag({m}) /\ UNCHANGED toSender
  <2>1. /\ IsABag(toReceiver')
        /\ BagToSet(toReceiver') \subseteq DataPacket \cup {ErrorPacket}
    <3>1. PICK m : toReceiver' = toReceiver (-) SetToBag({m})  BY <1>1
    <3> QED  BY <3>1, BagLess DEF TypeOK
  <2> QED  BY <1>1, <2>1 DEF TypeOK, Lose, sVars, rVars
<1>2. CASE \E m \in BagToSet(toSender) :
             toSender' = toSender (-) SetToBag({m}) /\ UNCHANGED toReceiver
  <2>1. IsABag(toSender') /\ BagToSet(toSender') \subseteq AckPacket
    <3>1. PICK m : toSender' = toSender (-) SetToBag({m})  BY <1>2
    <3> QED  BY <3>1, BagLess DEF TypeOK
  <2> QED  BY <1>2, <2>1 DEF TypeOK, Lose, sVars, rVars
<1> QED  BY <1>1, <1>2 DEF Lose

\* Every step keeps the types.
LEMMA TypeStep == TypeOK /\ [Next]_vars => TypeOK'
<1> SUFFICES ASSUME TypeOK, [Next]_vars PROVE TypeOK'
  OBVIOUS
<1>1. CASE SendWindow  BY <1>1, SendWindowType
<1>2. CASE Timeout  BY <1>2, TimeoutType
<1>3. ASSUME NEW m \in BagToSet(toSender), ReceiveAck(m) PROVE TypeOK'
  BY <1>3, ReceiveAckType
<1>4. ASSUME NEW m \in BagToSet(toSender), Drain(m) PROVE TypeOK'
  BY <1>4, DrainType
<1>5. CASE SenderReturn  BY <1>5, SenderReturnType
<1>6. ASSUME NEW m \in BagToSet(toReceiver), ReceivePacket(m) PROVE TypeOK'
  BY <1>6, ReceivePacketType
<1>7. CASE Lose  BY <1>7, LoseType
<1>8. CASE UNCHANGED vars  BY <1>8 DEF TypeOK, vars, sVars, rVars
<1> QED  BY <1>1, <1>2, <1>3, <1>4, <1>5, <1>6, <1>7, <1>8
         DEF Next, SenderStep, ReceiverStep, Finished

\* The state of both ends keeps its types, whatever the network does and however
\* large the file: window indices stay in the windows, and no count leaves 0..N.
THEOREM TypeCorrect == Spec => []TypeOK
<1>1. Init => TypeOK  BY InitType
<1>2. TypeOK /\ [Next]_vars => TypeOK'  BY TypeStep
<1> QED  BY <1>1, <1>2, PTL DEF Spec

-----------------------------------------------------------------------------
(* The sender and the network                                              *)

\* The window of a short file numbers its packets as the receiver's window does.
LEMMA SlotOfPacket ==
  ASSUME NEW s \in SSlots, NEW p \in 1 .. N, (p - 1) % WS = s
  PROVE  (p - 1) % W = s
<1>1. p - 1 \in Nat /\ p - 1 < N  OBVIOUS
<1>2. CASE N <= W
  <2>1. WS = N /\ N \in Nat \ {0}  BY <1>1, <1>2 DEF WS, Least
  <2>2. p - 1 \in 0 .. WS-1 /\ p - 1 \in 0 .. W-1  BY <1>1, <1>2, <2>1
  <2> QED  BY <2>1, <2>2, ModSmall
<1>3. CASE W < N
  BY <1>3 DEF WS, Least
<1> QED  BY <1>2, <1>3

\* The packets of a window are in their slots, and before the receiver has one
\* of them they carry the count of all packets.
Placed(win) ==
  /\ \A s \in SSlots : (win[s].pkt - 1) % WS = s
  /\ isFirst => \A s \in SSlots : win[s].left = N

\* Sending packets of a window whose packets are in their slots keeps NetworkInv.
LEMMA SendInv ==
  ASSUME IInv, NEW win \in WindowType, Placed(win), NEW S \in Survivors(SSlots),
         toReceiver' = toReceiver (+) Datagrams(win, S),
         UNCHANGED <<rVars, sResult>>
  PROVE  /\ \A m \in BagToSet(toReceiver') :
              IF m.seq = SEQ_NUM_ERROR THEN sResult' = "TRANSFER_ERROR"
                                       ELSE (m.pkt - 1) % W = m.seq
         /\ isFirst' => \A m \in BagToSet(toReceiver') : m.seq # SEQ_NUM_ERROR => m.left = N
<1> SUFFICES ASSUME NEW m \in BagToSet(toReceiver')
             PROVE  /\ IF m.seq = SEQ_NUM_ERROR THEN sResult' = "TRANSFER_ERROR"
                                                ELSE (m.pkt - 1) % W = m.seq
                    /\ isFirst' => (m.seq # SEQ_NUM_ERROR => m.left = N)
  OBVIOUS
<1>1. BagToSet(toReceiver') = BagToSet(toReceiver)
                                \cup {Packet(s, win[s].left, win[s].pkt) : s \in S}
  BY SendType DEF IInv
<1>2. CASE m \in BagToSet(toReceiver)
  BY <1>2 DEF IInv, NetworkInv, FirstInv, rVars
<1>3. CASE m \in {Packet(s, win[s].left, win[s].pkt) : s \in S}
  <2>1. PICK s \in S : m = Packet(s, win[s].left, win[s].pkt)  BY <1>3
  <2>2. s \in SSlots /\ m.seq = s /\ m.left = win[s].left /\ m.pkt = win[s].pkt
    BY <2>1 DEF Survivors, Packet
  <2>3. win[s].pkt \in 1 .. N /\ (win[s].pkt - 1) % WS = s
    BY <2>2 DEF WindowType, Placed
  <2>4. (m.pkt - 1) % W = m.seq  BY <2>2, <2>3, SlotOfPacket
  <2>5. m.seq # SEQ_NUM_ERROR  BY <2>2 DEF SSlots, SEQ_NUM_ERROR
  <2>6. isFirst' => m.left = N  BY <2>2 DEF Placed, rVars
  <2> QED  BY <2>4, <2>5, <2>6
<1> QED  BY <1>1, <1>2, <1>3

\* IInv is kept by the first transmission, ...
LEMMA SendWindowInv == IInv /\ SendWindow => IInv'
<1> SUFFICES ASSUME IInv, SendWindow PROVE IInv'
  OBVIOUS
<1>1. TypeOK'  BY SendWindowType DEF IInv
<1>2. PICK S \in Survivors(SSlots) : toReceiver' = toReceiver (+) Datagrams(sWin, S)
  BY DEF SendWindow
<1>3. sWin \in WindowType /\ Placed(sWin)
  BY DEF IInv, TypeOK, WindowType, SenderInv, FirstInv, Placed
<1>4. UNCHANGED <<rVars, sResult>>  BY DEF SendWindow
<1>5. /\ \A m \in BagToSet(toReceiver') :
              IF m.seq = SEQ_NUM_ERROR THEN sResult' = "TRANSFER_ERROR"
                                       ELSE (m.pkt - 1) % W = m.seq
      /\ isFirst' => \A m \in BagToSet(toReceiver') : m.seq # SEQ_NUM_ERROR => m.left = N
  BY <1>2, <1>3, <1>4, SendInv
<1>6. NetworkInv'  BY <1>5 DEF NetworkInv, SendWindow, rVars, IInv
<1>7. FirstInv'  BY <1>5 DEF FirstInv, SendWindow, rVars, IInv
<1>8. SenderInv'  BY DEF SenderInv, SendWindow, rVars, IInv
<1>9. ReceiverInv'
  BY DEF ReceiverInv, FileInv, ExactInv, WindowInv, Awaits, Previous, SendWindow, rVars, IInv
<1> QED  BY <1>1, <1>6, <1>7, <1>8, <1>9 DEF IInv

\* ... by a timeout, ...
LEMMA TimeoutInv == IInv /\ Timeout => IInv'
<1> SUFFICES ASSUME IInv, Timeout PROVE IInv'
  OBVIOUS
<1>1. TypeOK'  BY TimeoutType DEF IInv
<1>2. NetworkInv' /\ FirstInv'
  <2>1. CASE toReceiver' = toReceiver
    BY <2>1 DEF NetworkInv, FirstInv, Timeout, rVars, IInv
  <2>2. CASE \E S \in Survivors(ToResend) : toReceiver' = toReceiver (+) Datagrams(sWin, S)
    <3>1. PICK S \in Survivors(ToResend) : toReceiver' = toReceiver (+) Datagrams(sWin, S)
      BY <2>2
    <3>2. S \in Survivors(SSlots)  BY DEF Survivors, ToResend
    <3>3. sWin \in WindowType /\ Placed(sWin)
      BY DEF IInv, TypeOK, WindowType, SenderInv, FirstInv, Placed
    <3>4. UNCHANGED <<rVars, sResult>>  BY DEF Timeout
    <3>5. /\ \A m \in BagToSet(toReceiver') :
                IF m.seq = SEQ_NUM_ERROR THEN sResult' = "TRANSFER_ERROR"
                                         ELSE (m.pkt - 1) % W = m.seq
          /\ isFirst' => \A m \in BagToSet(toReceiver') : m.seq # SEQ_NUM_ERROR => m.left = N
      BY <3>1, <3>2, <3>3, <3>4, SendInv
    <3> QED  BY <3>5 DEF NetworkInv, FirstInv, Timeout, rVars, IInv
  <2> QED  BY <2>1, <2>2 DEF Timeout
<1>3. SenderInv'
  <2>1. sPc' = "drain" => ~(maxErrors' < MaxErrors)
    BY DEF Timeout, ErrorsAfterTimeout, IInv, TypeOK
  <2> QED  BY <2>1 DEF SenderInv, Timeout, rVars, IInv
<1>4. ReceiverInv'
  BY DEF ReceiverInv, FileInv, ExactInv, WindowInv, Awaits, Previous, Timeout, rVars, IInv
<1> QED  BY <1>1, <1>2, <1>3, <1>4 DEF IInv

\* The slots the sender refills get the packets that belong there.
LEMMA SlidePlaced ==
  ASSUME IInv, N > 0, ~isFirst, NEW win \in WindowType, Placed(win), NEW k \in 0 .. WS
  PROVE  /\ Placed(Refilled(win, Refills(k)))
         /\ NextBase(Refills(k)) = (counter + Refills(k)) % WS
<1> DEFINE r == Refills(k)
<1>1. TypeOK /\ base = counter % WS /\ WS \in Nat \ {0} /\ counter \in Nat
  <2>1. TypeOK /\ base = counter % WS  BY DEF IInv, SenderInv
  <2>2. counter \in Nat  BY DEF IInv, TypeOK
  <2> QED  BY <2>1, <2>2, Slots
<1>2. r \in Nat  BY <1>1, RefillsType, Slots
<1> HIDE DEF r
<1>3. ASSUME NEW s \in SSlots PROVE (Refilled(win, r)[s].pkt - 1) % WS = s
  <2>1. CASE Offset(s) < r
    <3>1. Offset(s) \in Nat /\ (base + Offset(s)) % WS = s  BY <1>1, OffsetType, Slots
    <3>2. (counter + Offset(s)) % WS = s  BY <1>1, <3>1, ModAdd
    <3>3. Refilled(win, r)[s].pkt = counter + Offset(s) + 1  BY <2>1 DEF Refilled
    <3>4. (counter + Offset(s) + 1) - 1 = counter + Offset(s)  BY <1>1, <3>1
    <3>5. Refilled(win, r)[s].pkt - 1 = counter + Offset(s)  BY <3>3, <3>4
    <3> QED  BY <3>2, <3>5
  <2>2. CASE ~(Offset(s) < r)
    BY <2>2 DEF Refilled, Placed
  <2> QED  BY <2>1, <2>2
<1>4. Placed(Refilled(win, r))  BY <1>3 DEF Placed
<1>5. NextBase(r) = (counter + r) % WS
  <2>1. CASE r = 0  BY <1>1, <2>1 DEF NextBase
  <2>2. CASE r # 0  BY <1>1, <1>2, <2>2, ModAdd DEF NextBase
  <2> QED  BY <2>1, <2>2
<1> QED  BY <1>4, <1>5 DEF r

\* ... by an acknowledgement, ...
LEMMA ReceiveAckInv ==
  ASSUME IInv, NEW m \in BagToSet(toSender), ReceiveAck(m)
  PROVE  IInv'
<1>1. TypeOK'  BY ReceiveAckType DEF IInv
<1>2. m \in AckPacket  BY DEF IInv, TypeOK
<1>3. ~isFirst /\ UNCHANGED rVars /\ UNCHANGED sResult
  BY DEF IInv, FirstInv, ReceiveAck
<1>4. FirstInv'  BY <1>3 DEF FirstInv, rVars
<1>5. ReceiverInv'
  BY <1>3 DEF ReceiverInv, FileInv, ExactInv, WindowInv, Awaits, Previous, rVars, IInv
<1>6. \A a \in BagToSet(toSender') : a.seq = SEQ_NUM_ERROR => rResult' = "EXIT_SUCCESS"
  <2>1. BagToSet(toSender') \subseteq BagToSet(toSender)
    BY BagLess DEF ReceiveAck, IInv, TypeOK
  <2> QED  BY <1>3, <2>1 DEF IInv, NetworkInv, rVars
<1>7. CASE IsTerminal(m)
  <2>1. m.seq = SEQ_NUM_ERROR
    BY <1>2, <1>7 DEF IsTerminal, AckPacket, WRITE_BYTE_ERROR
  <2>2. rResult' = "EXIT_SUCCESS"  BY <1>3, <2>1 DEF IInv, NetworkInv, rVars
  <2>3. SenderInv'  BY <1>7, <2>2 DEF SenderInv, ReceiveAck, IInv
  <2>4. NetworkInv'  BY <1>6, <1>7 DEF NetworkInv, ReceiveAck, IInv
  <2> QED  BY <1>1, <1>4, <1>5, <2>3, <2>4 DEF IInv
<1>8. CASE ~IsTerminal(m) /\ sWin[m.seq].ack
  <2>1. SenderInv'  BY <1>3, <1>8 DEF SenderInv, ReceiveAck, IInv
  <2>2. NetworkInv'  BY <1>6, <1>8 DEF NetworkInv, ReceiveAck, IInv
  <2> QED  BY <1>1, <1>4, <1>5, <2>1, <2>2 DEF IInv
<1>9. CASE ~IsTerminal(m) /\ ~sWin[m.seq].ack
  <2> DEFINE win == [sWin EXCEPT ![m.seq].ack = TRUE]
  <2>1. m.seq \in SSlots /\ N > 0  BY <1>2, <1>9, Slots DEF IsTerminal, AckPacket, SSlots
  <2>2. win \in WindowType  BY <2>1 DEF IInv, TypeOK, WindowType
  <2>3. Placed(win)
    <3>1. \A s \in SSlots : win[s].pkt = sWin[s].pkt  BY <2>1 DEF IInv, TypeOK
    <3> QED  BY <1>3, <3>1 DEF Placed, IInv, SenderInv
  <2>4. PICK k \in 0 .. WS : Slide(win, k)  BY <1>9 DEF ReceiveAck
  <2> HIDE DEF win
  <2> DEFINE r == Refills(k)
  <2>5. Placed(Refilled(win, r)) /\ NextBase(r) = (counter + r) % WS
    BY <1>3, <2>1, <2>2, <2>3, SlidePlaced
  <2>6. Refilled(win, r) \in WindowType  BY <2>1, <2>2, RefilledType DEF IInv
  <2> HIDE DEF r
  <2>7. sWin' = Refilled(win, r) /\ base' = NextBase(r) /\ counter' = counter + r
    BY <2>4 DEF Slide, r
  <2>8. SenderInv'
    <3>1. sPc' = sPc  BY <1>9 DEF ReceiveAck
    <3> QED  BY <1>3, <2>5, <2>7, <3>1 DEF SenderInv, Placed, IInv, ReceiveAck
  <2>9. NetworkInv'
    <3>1. PICK S \in Survivors({s \in SSlots : Offset(s) < r}) :
            toReceiver' = toReceiver (+) Datagrams(Refilled(win, r), S)
      BY <2>4 DEF Slide, r
    <3>2. S \in Survivors(SSlots)  BY DEF Survivors
    <3>3. \A d \in BagToSet(toReceiver') :
            IF d.seq = SEQ_NUM_ERROR THEN sResult' = "TRANSFER_ERROR"
                                     ELSE (d.pkt - 1) % W = d.seq
      BY <1>3, <2>5, <2>6, <3>1, <3>2, SendInv
    <3> QED  BY <1>6, <3>3 DEF NetworkInv
  <2> QED  BY <1>1, <1>4, <1>5, <2>8, <2>9 DEF IInv
<1> QED  BY <1>7, <1>8, <1>9

\* ... by a datagram drained, ...
LEMMA DrainInv ==
  ASSUME IInv, NEW m \in BagToSet(toSender), Drain(m)
  PROVE  IInv'
<1>1. TypeOK'  BY DrainType DEF IInv
<1>2. BagToSet(toSender') \subseteq BagToSet(toSender)
  BY BagLess DEF Drain, IInv, TypeOK
<1>3. SenderInv'  BY DEF SenderInv, Drain, rVars, IInv
<1>4. NetworkInv' /\ FirstInv'  BY <1>2 DEF NetworkInv, FirstInv, Drain, rVars, IInv
<1>5. ReceiverInv'
  BY DEF ReceiverInv, FileInv, ExactInv, WindowInv, Awaits, Previous, Drain, rVars, IInv
<1> QED  BY <1>1, <1>3, <1>4, <1>5 DEF IInv

\* ... by the sender's return, ...
LEMMA SenderReturnInv == IInv /\ SenderReturn => IInv'
<1> SUFFICES ASSUME IInv, SenderReturn PROVE IInv'
  OBVIOUS
<1>1. TypeOK'  BY SenderReturnType DEF IInv
<1>2. ret # WRITE_BYTE_ERROR  BY DEF IInv, TypeOK, WRITE_BYTE_ERROR
<1>3. sResult' = IF maxErrors >= MaxErrors THEN "TRANSFER_ERROR" ELSE "EXIT_SUCCESS"
  BY <1>2 DEF SenderReturn
<1>4. maxErrors' = maxErrors /\ maxErrors \in Nat /\ MaxErrors \in Nat
  BY DEF SenderReturn, IInv, TypeOK
<1>5. SenderInv'
  BY <1>3, <1>4 DEF SenderInv, SenderReturn, rVars, IInv
<1>6. ASSUME NEW m \in BagToSet(toReceiver'), m \notin BagToSet(toReceiver)
      PROVE  m = ErrorPacket /\ sResult' = "TRANSFER_ERROR"
  <2>1. toReceiver' = toReceiver (+) SetToBag({ErrorPacket}) /\ maxErrors >= MaxErrors
    BY <1>6 DEF SenderReturn
  <2>2. m \in {ErrorPacket}  BY <1>6, <2>1, SetBag, BagSum DEF IInv, TypeOK
  <2> QED  BY <1>3, <2>1, <2>2
<1>7. ErrorPacket.seq = SEQ_NUM_ERROR  BY DEF ErrorPacket, Packet
<1>8. NetworkInv' /\ FirstInv'
  <2>1. sPc = "drain" /\ sResult = "running"  BY DEF SenderReturn, IInv, SenderInv
  <2>2. \A m \in BagToSet(toReceiver) : m.seq # SEQ_NUM_ERROR
    BY <2>1 DEF IInv, NetworkInv
  <2> QED  BY <1>6, <1>7, <2>2 DEF NetworkInv, FirstInv, SenderReturn, rVars, IInv
<1>9. ReceiverInv'
  BY DEF ReceiverInv, FileInv, ExactInv, WindowInv, Awaits, Previous, SenderReturn, rVars, IInv
<1> QED  BY <1>1, <1>5, <1>8, <1>9 DEF IInv

\* ... by a loss, ...
LEMMA LoseInv == IInv /\ Lose => IInv'
<1> SUFFICES ASSUME IInv, Lose PROVE IInv'
  OBVIOUS
<1>1. TypeOK'  BY LoseType DEF IInv
<1>2. /\ BagToSet(toReceiver') \subseteq BagToSet(toReceiver)
      /\ BagToSet(toSender') \subseteq BagToSet(toSender)
  <2>1. CASE \E m \in BagToSet(toReceiver) :
               toReceiver' = toReceiver (-) SetToBag({m}) /\ UNCHANGED toSender
    <3>1. PICK m : toReceiver' = toReceiver (-) SetToBag({m}) /\ UNCHANGED toSender
      BY <2>1
    <3> QED  BY <3>1, BagLess DEF IInv, TypeOK
  <2>2. CASE \E m \in BagToSet(toSender) :
               toSender' = toSender (-) SetToBag({m}) /\ UNCHANGED toReceiver
    <3>1. PICK m : toSender' = toSender (-) SetToBag({m}) /\ UNCHANGED toReceiver
      BY <2>2
    <3> QED  BY <3>1, BagLess DEF IInv, TypeOK
  <2> QED  BY <2>1, <2>2 DEF Lose
<1>3. SenderInv'  BY DEF SenderInv, Lose, sVars, rVars, IInv
<1>4. NetworkInv' /\ FirstInv'
  BY <1>2 DEF NetworkInv, FirstInv, Lose, sVars, rVars, IInv
<1>5. ReceiverInv'
  BY DEF ReceiverInv, FileInv, ExactInv, WindowInv, Awaits, Previous, Lose, rVars, IInv
<1> QED  BY <1>1, <1>3, <1>4, <1>5 DEF IInv

-----------------------------------------------------------------------------
(* The receiver                                                            *)

\* The receiver's windows.
RWindowType == [RSlots -> [pkt : 0 .. N, received : BOOLEAN]]

\* ReceiverInv's parts, without its condition.
LEMMA Running ==
  ASSUME IInv, ~WritesFail, rResult = "running"
  PROVE  /\ rNext = Len(file) % W /\ FileInv /\ ExactInv /\ WindowInv
         /\ isFirst => Len(file) = 0
         /\ ~isFirst => noRecv = N - Len(file) /\ noRecv > 0
         /\ Len(file) \in Nat /\ file \in Seq(0 .. N)
BY DEF IInv, ReceiverInv, TypeOK

\* The slot k places after the next one to write waits for packet Len(file)+1+k.
LEMMA SlotOfPosition ==
  ASSUME IInv, ~WritesFail, rResult = "running", NEW k \in Nat
  PROVE  RSlot(k) = (Len(file) + k) % W
BY Running, ModAdd DEF RSlot

\* A packet that is not a duplicate is newer than what its slot wrote last.
LEMMA StoredAwaits ==
  ASSUME IInv, ~WritesFail, rResult = "running",
         NEW m \in BagToSet(toReceiver), m.seq # SEQ_NUM_ERROR, ~IsDuplicate(m),
         NEW win, win = [rWin EXCEPT ![m.seq] = [pkt |-> m.pkt, received |-> TRUE]],
         NEW n \in Len(file) + 1 .. Len(file) + W
  PROVE  Awaits(win[(n - 1) % W], n)
<1>1. m \in DataPacket  BY DataType DEF IInv
<1>2. m.seq \in SSlots /\ m.pkt \in 1 .. N  BY <1>1 DEF DataPacket
<1>3. m.seq \in RSlots  BY <1>2, Slots
<1>4. rWin \in RWindowType /\ sizeReceived \in 0 .. N  BY DEF IInv, TypeOK, RWindowType
<1>5. n \in Nat /\ n - 1 \in Nat  BY Running
<1>6. Awaits(rWin[(n - 1) % W], n)  BY Running DEF WindowInv
<1>7. CASE (n - 1) % W = m.seq
  <2>1. win[(n - 1) % W] = [pkt |-> m.pkt, received |-> TRUE]
    BY <1>3, <1>4, <1>7 DEF RWindowType
  <2>2. ~rWin[m.seq].received /\ ~(sizeReceived < rWin[m.seq].pkt) /\ ~(m.pkt <= sizeReceived)
    BY DEF IsDuplicate
  <2>3. rWin[m.seq].pkt = Previous(n)  BY <1>6, <1>7, <2>2 DEF Awaits
  <2>4. rWin[m.seq].pkt \in 0 .. N  BY <1>3, <1>4 DEF RWindowType
  <2>5. m.pkt > Previous(n)  BY <1>2, <1>4, <2>2, <2>3, <2>4
  <2>6. (m.pkt - 1) % W = (n - 1) % W  BY <1>7 DEF IInv, NetworkInv
  <2> QED  BY <2>1, <2>5, <2>6 DEF Awaits
<1>8. CASE (n - 1) % W # m.seq
  <2>1. win[(n - 1) % W] = rWin[(n - 1) % W]
    <3>1. (n - 1) % W \in RSlots  BY <1>5, DivMod DEF RSlots
    <3> QED  BY <1>3, <1>4, <1>8, <3>1 DEF RWindowType
  <2> QED  BY <1>6, <2>1
<1> QED  BY <1>7, <1>8

\* A packet newer than what its slot wrote last is at or after its place.
LEMMA AtOrAfter ==
  ASSUME IInv, ~WritesFail, rResult = "running",
         NEW n \in Len(file) + 1 .. Len(file) + W, NEW p \in 0 .. N,
         p > Previous(n), (p - 1) % W = (n - 1) % W
  PROVE  /\ p >= n
         /\ p = n /\ n > W => file[n - W] = n - W
<1>1. n \in Nat \ {0} /\ n - 1 \in Nat  BY Running
<1>2. CASE n <= W
  <2>1. Previous(n) = 0 /\ p - 1 \in Nat  BY <1>2 DEF Previous
  <2>2. ASSUME p < n PROVE FALSE
    <3> DEFINE a == p - 1
               b == n - 1
    <3>1. a \in Nat /\ b \in Nat /\ a < b /\ a % W = b % W  BY <1>1, <2>1, <2>2
    <3>2. b < W  BY <1>1, <1>2
    <3> HIDE DEF a, b
    <3>3. b >= a + W  BY <3>1, ModGap
    <3> QED  BY <3>1, <3>2, <3>3
  <2> QED  BY <1>1, <1>2, <2>2
<1>3. CASE n > W
  <2> DEFINE q == file[n - W]
  <2>1. n - W \in 1 .. Len(file) /\ n - W \in DOMAIN file  BY <1>3, Running
  <2>2. Previous(n) = q  BY <1>3 DEF Previous
  <2>3. q \in 0 .. N /\ q >= n - W /\ (q - 1) % W = ((n - W) - 1) % W
    <3>1. q \in 0 .. N  BY <2>1, Running
    <3>2. FileInv  BY Running
    <3> QED  BY <2>1, <3>1, <3>2 DEF FileInv
  <2> HIDE DEF q
  <2> DEFINE c == (n - W) - 1
  <2>4. c \in Nat /\ n - 1 = c + W * 1  BY <1>1, <2>1
  <2>5. (n - 1) % W = ((n - W) - 1) % W
    <3> HIDE DEF c
    <3>1. (c + W * 1) % W = c % W  BY <2>4, ModShift
    <3> QED  BY <2>4, <3>1 DEF c
  <2>6. q - 1 \in Nat /\ p - 1 \in Nat /\ q - 1 < p - 1
    BY <2>1, <2>2, <2>3
  <2>7. p - 1 >= (q - 1) + W  BY <2>3, <2>5, <2>6, ModGap
  <2>8. p >= n /\ (p = n => q = n - W)
    BY <1>1, <2>1, <2>3, <2>6, <2>7
  <2> QED  BY <2>8 DEF q
<1> QED  BY <1>1, <1>2, <1>3

\* Two positions of the file less than W apart are in different slots.
LEMMA DifferentSlots ==
  ASSUME NEW a \in Nat, NEW b \in Nat, a < b, b < a + W
  PROVE  a % W # b % W
<1> SUFFICES ASSUME a % W = b % W PROVE FALSE
  OBVIOUS
<1>1. b >= a + W  BY ModGap
<1> QED  BY <1>1

\* Writing a run keeps everything the receiver's state promises.
LEMMA WriteRunInv ==
  ASSUME IInv, ~WritesFail, rResult = "running",
         NEW win \in RWindowType,
         \A n \in Len(file) + 1 .. Len(file) + W : Awaits(win[(n - 1) % W], n),
         NEW k \in 0 .. W, ReceivedRun(win, k),
         NEW m \in DataPacket, isFirst => m.left = N,
         WriteRun(win, k, m), isFirst' = FALSE
  PROVE  ReceiverInv'
<1> DEFINE L == Len(file)
<1>1. /\ L \in Nat /\ file \in Seq(0 .. N) /\ TypeOK
      /\ rNext = L % W /\ FileInv /\ ExactInv
      /\ isFirst => L = 0
      /\ ~isFirst => noRecv = N - L /\ noRecv > 0
  BY Running DEF IInv
<1>2. ASSUME NEW j \in Nat PROVE RSlot(j) = (L + j) % W /\ RSlot(j) \in RSlots
  <2>1. win \in [RSlots -> [pkt : 0 .. N, received : BOOLEAN]]  BY DEF RWindowType
  <2> QED  BY <1>1, <2>1, SlotOfPosition, RunType
<1>3. /\ file' \in Seq(0 .. N) /\ Len(file') = L + k
      /\ \A n \in 1 .. L : file'[n] = file[n]
      /\ \A n \in L + 1 .. L + k : file'[n] = win[RSlot(n - 1 - L)].pkt
  <2> DEFINE run == Run(win, k)
  <2>1. /\ run \in Seq(0 .. N) /\ Len(run) = k
        /\ \A j \in 1 .. k : run[j] = win[RSlot(j - 1)].pkt
    BY <1>1, RunType DEF RWindowType
  <2>2. file' = file \o run  BY DEF WriteRun
  <2> HIDE DEF run
  <2>3. /\ file' \in Seq(0 .. N) /\ Len(file') = L + k
        /\ \A n \in 1 .. L + k : file'[n] = IF n <= L THEN file[n] ELSE run[n - L]
    BY <1>1, <2>1, <2>2, ConcatProperties
  <2>0. L \in Nat  BY <1>1
  <2> HIDE DEF L
  <2>4. ASSUME NEW n \in 1 .. L PROVE file'[n] = file[n]
    <3>1. n \in 1 .. L + k /\ n <= L  BY <2>0
    <3> QED  BY <2>3, <3>1
  <2>5. ASSUME NEW n \in L + 1 .. L + k PROVE file'[n] = run[n - L]
    <3>1. n \in 1 .. L + k /\ ~(n <= L)  BY <2>0
    <3> QED  BY <2>3, <3>1
  <2>6. ASSUME NEW n \in L + 1 .. L + k PROVE file'[n] = win[RSlot(n - 1 - L)].pkt
    <3>1. n - L \in 1 .. k /\ (n - L) - 1 = n - 1 - L  BY <2>0
    <3>2. run[n - L] = win[RSlot((n - L) - 1)].pkt  BY <2>1, <3>1
    <3> QED  BY <2>5, <3>1, <3>2
  <2> QED  BY <2>3, <2>4, <2>6
<1> HIDE DEF L
<1>4. ASSUME NEW n \in L + 1 .. L + k
      PROVE  /\ n - 1 \in Nat /\ n - 1 - L \in 0 .. k-1 /\ n \in L + 1 .. L + W
             /\ RSlot(n - 1 - L) = (n - 1) % W
             /\ file'[n] = win[(n - 1) % W].pkt /\ file'[n] \in 0 .. N
             /\ file'[n] > Previous(n)
             /\ (file'[n] - 1) % W = (n - 1) % W
             /\ file'[n] >= n
             /\ file'[n] = n /\ n > W => file[n - W] = n - W
  <2>1. n - 1 \in Nat /\ n - 1 - L \in 0 .. k-1 /\ n \in L + 1 .. L + W
    BY <1>1
  <2>2. RSlot(n - 1 - L) = (n - 1) % W /\ RSlot(n - 1 - L) \in RSlots
    <3>1. L + (n - 1 - L) = n - 1  BY <1>1
    <3> QED  BY <1>2, <2>1, <3>1
  <2>3. file'[n] = win[(n - 1) % W].pkt  BY <1>3, <2>2
  <2>4. win[(n - 1) % W].received  BY <2>1, <2>2 DEF ReceivedRun
  <2>5. Awaits(win[(n - 1) % W], n)  BY <2>1 DEF L
  <2>6. file'[n] > Previous(n) /\ (file'[n] - 1) % W = (n - 1) % W
    BY <2>3, <2>4, <2>5 DEF Awaits
  <2>7. file'[n] \in 0 .. N  BY <2>2, <2>3 DEF RWindowType
  <2>8. file'[n] >= n /\ (file'[n] = n /\ n > W => file[n - W] = n - W)
    BY <2>1, <2>6, <2>7, AtOrAfter DEF L
  <2> QED  BY <2>1, <2>2, <2>3, <2>6, <2>7, <2>8
<1>5. ASSUME NEW n \in 1 .. L + W PROVE Previous(n)' = Previous(n)
  <2>1. n > W => n - W \in 1 .. L  BY <1>1
  <2> QED  BY <1>3, <2>1 DEF Previous
<1>6. DOMAIN file = 1 .. L /\ DOMAIN file' = 1 .. L + k
  BY <1>1, <1>3 DEF L
<1>7. FileInv'
  <2> SUFFICES ASSUME NEW n \in 1 .. L + k
               PROVE  /\ file'[n] >= n /\ (file'[n] - 1) % W = (n - 1) % W
                      /\ file'[n] > Previous(n)'
    BY <1>6 DEF FileInv
  <2>1. Previous(n)' = Previous(n)  BY <1>1, <1>5
  <2>2. CASE n \in 1 .. L
    BY <1>1, <1>3, <1>6, <2>1, <2>2 DEF FileInv
  <2>3. CASE n \in L + 1 .. L + k
    BY <1>4, <2>1, <2>3
  <2> QED  BY <1>1, <2>2, <2>3
<1>8. ExactInv'
  <2> SUFFICES ASSUME NEW i \in 1 .. L + k, file'[i] = i,
                      NEW n \in 1 .. i, (n - 1) % W = (i - 1) % W
               PROVE  file'[n] = n
    BY <1>6 DEF ExactInv
  <2>1. CASE i \in 1 .. L
    <3>1. n \in 1 .. L /\ file[i] = i  BY <1>1, <1>3, <2>1
    <3>2. file[n] = n  BY <1>1, <1>6, <2>1, <3>1 DEF ExactInv
    <3> QED  BY <1>3, <3>1, <3>2
  <2>2. CASE i \in L + 1 .. L + k
    <3>1. CASE i < n + W
      <4>1. n = i
        <5> DEFINE a == n - 1
                   b == i - 1
        <5>1. a \in Nat /\ b \in Nat /\ a % W = b % W /\ a < b + W /\ b < a + W
          BY <1>1, <3>1
        <5> HIDE DEF a, b
        <5>2. a = b  BY <5>1, ModSame
        <5> QED  BY <5>2, <1>1 DEF a, b
      <4> QED  BY <4>1
    <3>2. CASE ~(i < n + W)
      <4>1. i > W /\ i - W \in 1 .. L /\ n \in 1 .. i - W  BY <1>1, <3>2
      <4>2. file[i - W] = i - W  BY <1>4, <2>2, <4>1
      <4>3. ((i - W) - 1) % W = (i - 1) % W
        <5> DEFINE c == (i - W) - 1
        <5>1. c \in Nat /\ i - 1 = c + W * 1  BY <1>1, <4>1
        <5> HIDE DEF c
        <5>2. (c + W * 1) % W = c % W  BY <5>1, ModShift
        <5> QED  BY <5>1, <5>2 DEF c
      <4>4. file[n] = n  BY <1>1, <1>6, <4>1, <4>2, <4>3 DEF ExactInv
      <4>5. n \in 1 .. L  BY <1>1, <4>1
      <4> QED  BY <1>3, <4>4, <4>5
    <3> QED  BY <3>1, <3>2
  <2> QED  BY <1>1, <2>1, <2>2
<1>9. ASSUME NEW n \in L + k + 1 .. L + k + W
      PROVE  Awaits(rWin[(n - 1) % W], n)'
  <2>1. n - 1 \in Nat /\ (n - 1) % W \in RSlots  BY <1>1, DivMod DEF RSlots
  <2>2. rWin'[(n - 1) % W] = IF \E j \in 0 .. k-1 : RSlot(j) = (n - 1) % W
                             THEN [win[(n - 1) % W] EXCEPT !.received = FALSE]
                             ELSE win[(n - 1) % W]
    BY <2>1 DEF WriteRun
  <2>3. CASE n <= L + W
    <3>1. ASSUME NEW j \in 0 .. k-1 PROVE RSlot(j) # (n - 1) % W
      <4> DEFINE a == L + j
                 b == n - 1
      <4>1. a \in Nat /\ b \in Nat /\ a < b /\ b < a + W  BY <1>1, <2>3
      <4>2. RSlot(j) = a % W  BY <1>2
      <4> HIDE DEF a, b
      <4>3. a % W # b % W  BY <4>1, DifferentSlots
      <4> QED  BY <4>2, <4>3 DEF b
    <3>2. rWin'[(n - 1) % W] = win[(n - 1) % W]  BY <2>2, <3>1
    <3>3. n \in L + 1 .. L + W /\ n \in 1 .. L + W  BY <1>1, <2>3
    <3>4. Awaits(win[(n - 1) % W], n)  BY <3>3 DEF L
    <3>5. Previous(n)' = Previous(n)  BY <1>5, <3>3
    <3> QED  BY <3>2, <3>4, <3>5 DEF Awaits
  <2>4. CASE n > L + W
    <3> DEFINE i == n - W
    <3>1. i \in L + 1 .. L + k /\ n = i + W /\ n > W  BY <1>1, <2>4
    <3>2. (n - 1) % W = (i - 1) % W
      <4> DEFINE c == i - 1
      <4>1. c \in Nat /\ n - 1 = c + W * 1  BY <1>1, <3>1
      <4> HIDE DEF c, i
      <4>2. (c + W * 1) % W = c % W  BY <4>1, ModShift
      <4> QED  BY <4>1, <4>2 DEF c
    <3> HIDE DEF i
    <3>3. /\ i - 1 - L \in 0 .. k-1 /\ RSlot(i - 1 - L) = (i - 1) % W
          /\ file'[i] = win[(i - 1) % W].pkt
      BY <1>4, <3>1
    <3>4. rWin'[(n - 1) % W] = [win[(n - 1) % W] EXCEPT !.received = FALSE]
      BY <2>2, <3>2, <3>3
    <3>5. win[(n - 1) % W] \in [pkt : 0 .. N, received : BOOLEAN]
      BY <2>1 DEF RWindowType
    <3>6. ~rWin'[(n - 1) % W].received /\ rWin'[(n - 1) % W].pkt = file'[i]
      BY <3>2, <3>3, <3>4, <3>5
    <3>7. Previous(n)' = file'[i]
      <4>1. n - W = i  BY <1>1, <3>1
      <4> QED  BY <3>1, <4>1 DEF Previous
    <3> QED  BY <3>6, <3>7 DEF Awaits
  <2> QED  BY <1>1, <2>3, <2>4
<1>10. WindowInv'  BY <1>3, <1>9 DEF WindowInv
<1>11. rNext' = Len(file') % W  BY <1>2, <1>3 DEF WriteRun
<1>12. noRecv' = N - Len(file') /\ (IsComplete(noRecv') <=> Len(file') = N)
  <2>1. L < N /\ noRecv' = (N - L) - k
    <3>1. m.left \in 0 .. N /\ N > 0  BY DEF DataPacket
    <3>2. noRecv' = (IF isFirst THEN m.left ELSE noRecv) - k
      BY DEF WriteRun, LeftAfter
    <3> QED  BY <1>1, <3>1, <3>2
  <2>2. L + k <= N
    <3>1. CASE k = 0  BY <1>1, <2>1, <3>1
    <3>2. CASE k > 0
      <4>1. L + k \in L + 1 .. L + k  BY <1>1, <3>2
      <4>2. file'[L + k] >= L + k /\ file'[L + k] \in 0 .. N  BY <1>4, <4>1
      <4> QED  BY <1>1, <4>2
    <3> QED  BY <3>1, <3>2
  <2> QED  BY <1>1, <1>3, <2>1, <2>2 DEF IsComplete
<1>13. /\ rResult' = "running" => noRecv' = N - Len(file') /\ noRecv' > 0
       /\ rResult' = "EXIT_SUCCESS" => Len(file') = N
  <2>1. rResult' = IF IsComplete(noRecv') THEN "EXIT_SUCCESS" ELSE "running"
    BY DEF WriteRun
  <2>2. noRecv' \in Int  BY <1>1, <1>3, <1>12
  <2> QED  BY <1>12, <2>1, <2>2 DEF IsComplete
<1> QED  BY <1>7, <1>8, <1>10, <1>11, <1>13 DEF ReceiverInv

\* ... and by every datagram the receiver takes.
LEMMA ReceivePacketInv ==
  ASSUME IInv, NEW m \in BagToSet(toReceiver), ReceivePacket(m)
  PROVE  IInv'
<1>1. TypeOK'  BY ReceivePacketType DEF IInv
<1>2. rResult = "running" /\ UNCHANGED sVars  BY DEF ReceivePacket
<1>3. BagToSet(toReceiver') \subseteq BagToSet(toReceiver)
  BY BagLess DEF ReceivePacket, IInv, TypeOK
<1>4. SenderInv'  BY <1>2 DEF SenderInv, sVars, IInv
<1>5. \A d \in BagToSet(toReceiver') :
        IF d.seq = SEQ_NUM_ERROR THEN sResult' = "TRANSFER_ERROR"
                                 ELSE (d.pkt - 1) % W = d.seq
  BY <1>2, <1>3 DEF IInv, NetworkInv, sVars
<1>6. \A a \in BagToSet(toSender) : a.seq # SEQ_NUM_ERROR
  BY <1>2 DEF IInv, NetworkInv
<1>7. CASE ReceiveError(m)
  <2>1. rResult' = "TRANSFER_ERROR" /\ toSender' = toSender /\ isFirst' = isFirst
    BY <1>7 DEF ReceiveError
  <2>2. NetworkInv'  BY <1>5, <1>6, <2>1 DEF NetworkInv
  <2>3. FirstInv'  BY <1>2, <1>3, <2>1 DEF FirstInv, IInv, sVars
  <2>4. ReceiverInv'  BY <2>1 DEF ReceiverInv
  <2> QED  BY <1>1, <1>4, <2>2, <2>3, <2>4 DEF IInv
<1>8. CASE ReceiveDuplicate(m)
  <2>1. m \in DataPacket  BY <1>8, DataType DEF ReceiveDuplicate, IInv
  <2>2. /\ UNCHANGED <<rWin, rNext, sizeReceived, file, rResult>>
        /\ isFirst' = FALSE /\ noRecv' = IF isFirst THEN m.left ELSE noRecv
    BY <1>8 DEF ReceiveDuplicate
  <2>3. FirstInv'  BY <2>2 DEF FirstInv
  <2>4. NetworkInv'
    <3>1. m.seq \in SSlots /\ m.pkt \in 0 .. N /\ sizeReceived \in 0 .. N
      BY <2>1 DEF DataPacket, IInv, TypeOK
    <3>2. PICK a \in OneOrNone(Ack(m.seq, m.pkt, sizeReceived)) : toSender' = toSender (+) a
      BY <1>8 DEF ReceiveDuplicate
    <3>3. IsABag(a) /\ \A d \in BagToSet(a) : d.seq = m.seq
      BY <3>1, <3>2, AckType DEF IInv
    <3>4. m.seq # SEQ_NUM_ERROR  BY <1>8 DEF ReceiveDuplicate
    <3>5. \A d \in BagToSet(toSender') : d.seq # SEQ_NUM_ERROR
      BY <1>6, <3>2, <3>3, <3>4, BagSum DEF IInv, TypeOK
    <3> QED  BY <1>5, <3>5 DEF NetworkInv
  <2>5. ReceiverInv'
    <3> SUFFICES ASSUME ~WritesFail PROVE ReceiverInv'
      BY DEF ReceiverInv
    <3>1. /\ rNext' = Len(file') % W /\ FileInv' /\ ExactInv' /\ WindowInv'
      BY <1>2, <2>2, Running DEF FileInv, ExactInv, WindowInv, Awaits, Previous
    <3>2. noRecv' = N - Len(file') /\ noRecv' > 0
      <4>1. CASE isFirst
        <5>1. m.left = N /\ N > 0
          BY <1>8, <2>1, <4>1 DEF ReceiveDuplicate, IInv, FirstInv, DataPacket
        <5> QED  BY <1>2, <2>2, <4>1, <5>1, Running
      <4>2. CASE ~isFirst  BY <1>2, <2>2, <4>2, Running
      <4> QED  BY <4>1, <4>2
    <3> QED  BY <1>2, <2>2, <3>1, <3>2 DEF ReceiverInv
  <2> QED  BY <1>1, <1>4, <2>3, <2>4, <2>5 DEF IInv
<1>9. CASE ReceiveNew(m)
  <2> DEFINE win == [rWin EXCEPT ![m.seq] = [pkt |-> m.pkt, received |-> TRUE]]
  <2>1. m \in DataPacket /\ m.seq # SEQ_NUM_ERROR /\ ~IsDuplicate(m) /\ isFirst' = FALSE
    BY <1>9, DataType DEF ReceiveNew, IInv
  <2>2. win \in RWindowType  BY <2>1, StoredType DEF IInv, RWindowType
  <2>3. PICK k \in 0 .. W :
          /\ ReceivedRun(win, k)
          /\ WriteRun(win, k, m) \/ (WritesFail /\ \E f \in 1 .. k : WriteFails(win, f))
    BY <1>9 DEF ReceiveNew
  <2>4. ~WritesFail => \A n \in Len(file) + 1 .. Len(file) + W : Awaits(win[(n - 1) % W], n)
    BY <1>2, <2>1, StoredAwaits
  <2> HIDE DEF win
  <2>5. FirstInv'  BY <2>1 DEF FirstInv
  <2>6. NetworkInv'
    <3>1. m.seq \in SSlots /\ m.pkt \in 0 .. N  BY <2>1 DEF DataPacket
    <3>2. \A j \in Nat : win[RSlot(j)].pkt \in 0 .. N
      BY <2>2, RunType DEF RWindowType, IInv
    <3>3. CASE WriteRun(win, k, m)
      <4> DEFINE size == IF k = 0 THEN sizeReceived ELSE win[RSlot(k - 1)].pkt
                 more == IF IsComplete(noRecv') THEN FinalAcks(size) ELSE EmptyBag
      <4>1. PICK a \in OneOrNone(Ack(m.seq, m.pkt, size)) : toSender' = toSender (+) a (+) more
        BY <3>3 DEF WriteRun
      <4>2. IsComplete(noRecv') => rResult' = "EXIT_SUCCESS"  BY <3>3 DEF WriteRun
      <4>3. size \in 0 .. N
        <5>1. k # 0 => k - 1 \in Nat  OBVIOUS
        <5> QED  BY <3>2, <5>1 DEF IInv, TypeOK
      <4> HIDE DEF size
      <4>4. IsABag(more) /\ (~IsComplete(noRecv') => BagToSet(more) = {})
        BY <4>3, FinalAcksType, NoBag DEF IInv
      <4>5. IsABag(a) /\ \A d \in BagToSet(a) : d.seq # SEQ_NUM_ERROR
        BY <2>1, <3>1, <4>1, <4>3, AckType DEF IInv
      <4> HIDE DEF more
      <4>6. IsABag(toSender (+) a) /\ \A d \in BagToSet(toSender (+) a) : d.seq # SEQ_NUM_ERROR
        BY <1>6, <4>5, BagSum DEF IInv, TypeOK
      <4>7. \A d \in BagToSet(toSender') : d.seq = SEQ_NUM_ERROR => IsComplete(noRecv')
        BY <4>1, <4>4, <4>6, BagSum
      <4> QED  BY <1>5, <4>2, <4>7 DEF NetworkInv
    <3>4. CASE \E f \in 1 .. k : WriteFails(win, f)
      <4>1. rResult' = "EXIT_SUCCESS"  BY <3>4 DEF WriteFails
      <4> QED  BY <1>5, <4>1 DEF NetworkInv
    <3> QED  BY <2>3, <3>3, <3>4
  <2>7. ReceiverInv'
    <3> SUFFICES ASSUME ~WritesFail PROVE ReceiverInv'
      BY DEF ReceiverInv
    <3>1. isFirst => m.left = N  BY <2>1 DEF IInv, FirstInv
    <3> QED  BY <1>2, <2>1, <2>2, <2>3, <2>4, <3>1, WriteRunInv
  <2> QED  BY <1>1, <1>4, <2>5, <2>6, <2>7 DEF IInv
<1> QED  BY <1>7, <1>8, <1>9 DEF ReceivePacket

-----------------------------------------------------------------------------
(* The theorems                                                            *)

\* IInv holds in the beginning, ...
LEMMA InitInv == Init => IInv
<1> SUFFICES ASSUME Init PROVE IInv
  OBVIOUS
<1>1. TypeOK  BY InitType
<1>2. SenderInv
  <2>1. N > 0 => WS % WS = 0
    <3>1. SUFFICES ASSUME N > 0 PROVE WS % WS = 0
      OBVIOUS
    <3>2. WS \in Nat \ {0}  BY <3>1, Slots
    <3>3. WS = WS * 1 + 0 /\ 0 \in 0 .. WS-1  BY <3>2
    <3> QED  BY <3>2, <3>3, ModUnique
  <2>2. \A s \in SSlots : (sWin[s].pkt - 1) % WS = s
    <3> SUFFICES ASSUME NEW s \in SSlots PROVE (sWin[s].pkt - 1) % WS = s
      OBVIOUS
    <3>1. s \in 0 .. WS-1 /\ WS \in Nat \ {0}  BY Slots DEF SSlots
    <3>2. sWin[s].pkt - 1 = s  BY <3>1 DEF Init
    <3> QED  BY <3>1, <3>2, ModSmall
  <2> QED  BY <2>1, <2>2 DEF Init, SenderInv
<1>3. NetworkInv /\ FirstInv  BY NoBag DEF Init, NetworkInv, FirstInv
<1>4. ReceiverInv
  <2>1. Len(file) = 0 /\ DOMAIN file = {}  BY DEF Init
  <2>2. 0 % W = 0  BY ModSmall
  <2>3. WindowInv
    <3> SUFFICES ASSUME NEW n \in 1 .. W PROVE Awaits(rWin[(n - 1) % W], n)
      BY <2>1 DEF WindowInv
    <3>1. (n - 1) % W \in RSlots  BY DivMod DEF RSlots
    <3>2. Previous(n) = 0  BY DEF Previous
    <3> QED  BY <3>1, <3>2 DEF Init, Awaits
  <2> QED  BY <2>1, <2>2, <2>3 DEF Init, ReceiverInv, FileInv, ExactInv
<1> QED  BY <1>1, <1>2, <1>3, <1>4 DEF IInv

\* ... and every step keeps it.
LEMMA StepInv == IInv /\ [Next]_vars => IInv'
<1> SUFFICES ASSUME IInv, [Next]_vars PROVE IInv'
  OBVIOUS
<1>1. CASE SendWindow  BY <1>1, SendWindowInv
<1>2. CASE Timeout  BY <1>2, TimeoutInv
<1>3. ASSUME NEW m \in BagToSet(toSender), ReceiveAck(m) PROVE IInv'
  BY <1>3, ReceiveAckInv
<1>4. ASSUME NEW m \in BagToSet(toSender), Drain(m) PROVE IInv'
  BY <1>4, DrainInv
<1>5. CASE SenderReturn  BY <1>5, SenderReturnInv
<1>6. ASSUME NEW m \in BagToSet(toReceiver), ReceivePacket(m) PROVE IInv'
  BY <1>6, ReceivePacketInv
<1>7. CASE Lose  BY <1>7, LoseInv
<1>8. CASE UNCHANGED vars
  <2>1. TypeOK'  BY <1>8 DEF IInv, TypeOK, vars, sVars, rVars
  <2>2. SenderInv' /\ NetworkInv' /\ FirstInv'
    BY <1>8 DEF IInv, SenderInv, NetworkInv, FirstInv, vars, sVars, rVars
  <2>3. ReceiverInv'
    BY <1>8 DEF IInv, ReceiverInv, FileInv, ExactInv, WindowInv, Awaits, Previous,
                vars, rVars
  <2> QED  BY <2>1, <2>2, <2>3 DEF IInv
<1> QED  BY <1>1, <1>2, <1>3, <1>4, <1>5, <1>6, <1>7, <1>8
         DEF Next, SenderStep, ReceiverStep, Finished

\* The inductive invariant holds in every mode of the network and the disk.
THEOREM Invariance == Spec => []IInv
<1>1. Init => IInv  BY InitInv
<1>2. IInv /\ [Next]_vars => IInv'  BY StepInv
<1> QED  BY <1>1, <1>2, PTL DEF Spec

\* A receiver that was told of a failed transfer removed its file.
Removed == rResult = "TRANSFER_ERROR" => file = << >>

\* Every step keeps it: a receiver that returned does nothing more.
LEMMA RemovedStep == Removed /\ [Next]_vars => Removed'
<1> SUFFICES ASSUME Removed, [Next]_vars  PROVE Removed'  OBVIOUS
<1>1. CASE SenderStep
  <2>1. UNCHANGED rVars
        BY <1>1 DEF SenderStep, SendWindow, Timeout, ReceiveAck, Drain, SenderReturn
  <2> QED  BY <2>1 DEF Removed, rVars
<1>2. CASE Lose \/ UNCHANGED vars  BY <1>2 DEF Removed, Lose, rVars, vars
<1>3. ASSUME NEW m \in BagToSet(toReceiver), ReceivePacket(m)  PROVE Removed'
  <2>1. rResult = "running"  BY <1>3 DEF ReceivePacket
  <2>2. CASE ReceiveError(m)  BY <2>2 DEF ReceiveError, Removed
  <2>3. CASE ReceiveDuplicate(m)  BY <2>1, <2>3 DEF ReceiveDuplicate, Removed
  <2>4. CASE ReceiveNew(m)
    <3>1. rResult' \in {"EXIT_SUCCESS", "running"}
          BY <2>4 DEF ReceiveNew, WriteRun, WriteFails
    <3> QED  BY <3>1 DEF Removed
  <2> QED  BY <1>3, <2>2, <2>3, <2>4 DEF ReceivePacket
<1> QED  BY <1>1, <1>2, <1>3 DEF Next, ReceiverStep, Finished

\* When writes do not fail, no slot ever gives the file a packet that is not newer
\* than the last one it gave, however late or often copies of a packet arrive.
THEOREM SlotsAdvanceHolds ==
  ASSUME ~WritesFail
  PROVE  Spec => []SlotsAdvance
<1>1. Init => Removed  BY DEF Init, Removed
<1>2. IInv /\ Removed => SlotsAdvance
  <2> SUFFICES ASSUME IInv, Removed, NEW n \in DOMAIN file, n > W
               PROVE  file[n] > file[n - W]
      BY DEF SlotsAdvance
  <2>1. rResult # "TRANSFER_ERROR"  BY DEF Removed
  <2>2. file[n] > Previous(n)  BY <2>1 DEF IInv, ReceiverInv, FileInv
  <2> QED  BY <2>2 DEF Previous
<1> QED  BY <1>1, <1>2, Invariance, RemovedStep, PTL DEF Spec

\* A file as long as the source whose packets are all at or after their places
\* is the source: the last packet of each slot can only be the right one.
LEMMA ExactFile ==
  ASSUME IInv, ~WritesFail
  PROVE  Integrity
<1> SUFFICES ASSUME rResult = "EXIT_SUCCESS" PROVE file = [p \in 1 .. N |-> p]
  BY DEF Integrity
<1>1. Len(file) = N /\ file \in Seq(0 .. N) /\ FileInv /\ ExactInv
  BY DEF IInv, ReceiverInv, TypeOK
<1>2. DOMAIN file = 1 .. N  BY <1>1
<1>3. ASSUME NEW n \in 1 .. N PROVE file[n] = n
  <2> DEFINE q == (N - n) \div W
             r == (N - n) % W
             i == N - r
  <2>1. q \in Nat /\ r \in 0 .. W-1 /\ N - n = W * q + r  BY DivMod
  <2>2. W * q \in Nat
    <3> HIDE DEF q
    <3> QED  BY <2>1, SMT
  <2>3. i \in n .. N /\ N - i < W /\ i - 1 = (n - 1) + W * q
    <3> HIDE DEF q, r
    <3> QED  BY <2>1, <2>2
  <2> HIDE DEF q, r, i
  <2>4. (i - 1) % W = (n - 1) % W
    <3>1. n - 1 \in Nat  OBVIOUS
    <3>2. ((n - 1) + W * q) % W = (n - 1) % W  BY <2>1, <3>1, ModShift
    <3> QED  BY <2>3, <3>2
  <2>5. i \in 1 .. N /\ n \in 1 .. i  BY <2>3
  <2>6. file[i] = i
    <3>1. file[i] \in 0 .. N /\ file[i] >= i /\ (file[i] - 1) % W = (i - 1) % W
      <4>1. i \in DOMAIN file /\ file[i] \in 0 .. N  BY <1>1, <1>2, <2>5
      <4> QED  BY <1>1, <4>1 DEF FileInv
    <3> DEFINE a == file[i] - 1
               b == i - 1
    <3>2. a \in Nat /\ b \in Nat /\ a % W = b % W /\ a < b + W /\ b < a + W
      BY <2>3, <2>5, <3>1
    <3> HIDE DEF a, b
    <3>3. a = b  BY <3>2, ModSame
    <3> QED  BY <2>5, <3>1, <3>3 DEF a, b
  <2> QED  BY <1>1, <1>2, <2>4, <2>5, <2>6 DEF ExactInv
<1> QED  BY <1>1, <1>2, <1>3

\* For every file, window and network (loss, duplication by early timeouts,
\* reordering), when no write fails a receiver that returns EXIT_SUCCESS has
\* exactly the source in its file.
THEOREM IntegrityHolds == ASSUME ~WritesFail PROVE Spec => []Integrity
<1>1. IInv => Integrity  BY ExactFile
<1> QED  BY <1>1, Invariance, PTL

\* For every network and disk, main_sender returns EXIT_SUCCESS only after
\* main_receiver did.
THEOREM SenderSuccess == Spec => []SenderSuccessIsReal
<1>1. IInv => SenderSuccessIsReal
  BY DEF IInv, SenderInv, TypeOK, SenderSuccessIsReal
<1> QED  BY <1>1, Invariance, PTL

-----------------------------------------------------------------------------
(* The refinement                                                          *)

\* A step of the receiver is a step of FileTransfer's receiver, or none.
LEMMA ReceiverRefines ==
  ASSUME IInv, IInv', ~WritesFail, NEW m \in BagToSet(toReceiver), ReceivePacket(m)
  PROVE  [Transfer!TNext]_(Transfer!tvars)
<1> USE DEF Transfer!TNext, Transfer!tvars
<1>1. rResult = "running" /\ sResult' = sResult  BY DEF ReceivePacket, sVars
<1>2. CASE ReceiveError(m)
  <2>1. rResult' = "TRANSFER_ERROR" /\ sResult = "TRANSFER_ERROR"
    BY <1>2 DEF ReceiveError, IInv, NetworkInv
  <2> QED  BY <1>1, <2>1 DEF Transfer!ReceiverFails
<1>3. CASE ReceiveDuplicate(m)
  <2>1. rResult' = rResult  BY <1>3 DEF ReceiveDuplicate
  <2> QED  BY <1>1, <2>1
<1>4. CASE ReceiveNew(m)
  <2>1. rResult' = "running" \/ rResult' = "EXIT_SUCCESS"
    BY <1>4 DEF ReceiveNew, WriteRun
  <2>2. CASE rResult' = "running"  BY <1>1, <2>2
  <2>3. CASE rResult' = "EXIT_SUCCESS"
    <3>1. Integrity'
      BY ExactFile, PTL
    <3> QED  BY <1>1, <2>3, <3>1 DEF Integrity, Transfer!ReceiverSucceeds, Transfer!Source
  <2> QED  BY <2>1, <2>2, <2>3
<1> QED  BY <1>2, <1>3, <1>4 DEF ReceivePacket

\* Whatever the network does, when no write fails the transfer implements
\* FileTransfer: success at the receiver means the whole file, success at the
\* sender means success at the receiver, and the receiver fails only after the
\* sender.
THEOREM Refinement == ASSUME ~WritesFail PROVE Spec => ImplementsFileTransfer
<1> USE DEF ImplementsFileTransfer
<1>1. Init => Transfer!TInit  BY DEF Init, Transfer!TInit
<1>2. ASSUME IInv, IInv', [Next]_vars PROVE [Transfer!TNext]_(Transfer!tvars)
  <2> USE DEF Transfer!TNext, Transfer!tvars
  <2>1. CASE UNCHANGED <<sResult, rVars>>  BY <2>1 DEF rVars
  <2>2. CASE SenderReturn
    <3>1. UNCHANGED <<rResult, file>> /\ sResult = "running"
      BY <1>2, <2>2 DEF SenderReturn, rVars, IInv, SenderInv
    <3>2. sResult' = "TRANSFER_ERROR" \/ (sResult' = "EXIT_SUCCESS" /\ rResult = "EXIT_SUCCESS")
      BY <1>2, <2>2, <3>1 DEF SenderReturn, IInv, SenderInv, TypeOK
    <3> QED  BY <3>1, <3>2 DEF Transfer!SenderSucceeds, Transfer!SenderFails
  <2>3. ASSUME NEW m \in BagToSet(toReceiver), ReceivePacket(m)
        PROVE  [Transfer!TNext]_(Transfer!tvars)
    BY <1>2, <2>3, ReceiverRefines
  <2> QED
    BY <1>2, <2>1, <2>2, <2>3
    DEF Next, SenderStep, ReceiverStep, Finished, Lose, SendWindow, Timeout, ReceiveAck,
        Drain, vars, sVars
<1> QED  BY <1>1, <1>2, Invariance, PTL DEF Spec, Transfer!TSpec
=============================================================================
