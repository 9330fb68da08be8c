---------------------------- MODULE LoopbackProofs ----------------------------
(***************************************************************************)
(* Theorems about SelectiveRepeat when no timeout is early: a recvfrom of  *)
(* the sender times out only if nothing is in flight any more.  Then the   *)
(* transfer is Selective Repeat, for every file, window and retry limit.   *)
(***************************************************************************)
EXTENDS SelectiveRepeatProofs

USE NAssumption, WAssumption, LimitAssumption, ModeAssumption

-----------------------------------------------------------------------------
(* Bags with one copy of each datagram                                     *)

\* The bag of a set has one copy of each of its elements.
LEMMA SetBagSingle == ASSUME NEW S  PROVE IsSingle(SetToBag(S)) /\ BagToSet(SetToBag(S)) = S
BY SetBag DEF IsSingle

\* Two such bags that have nothing in common make one.
LEMMA SinglePlus ==
  ASSUME NEW B, IsSingle(B), NEW T, T \cap BagToSet(B) = {}
  PROVE  IsSingle(B (+) SetToBag(T)) /\ BagToSet(B (+) SetToBag(T)) = BagToSet(B) \cup T
<1> DEFINE S == BagToSet(B)
<1>1. B = SetToBag(S)  BY DEF IsSingle
<1> HIDE DEF S
<1>2. S \cap T = {}  BY DEF S
<1>3. SetToBag(S) (+) SetToBag(T) = SetToBag(S \cup T)  BY <1>2 DEF SetToBag, (+)
<1>4. BagToSet(B (+) SetToBag(T)) = S \cup T  BY <1>1, <1>3, SetBag
<1>5. IsSingle(B (+) SetToBag(T))  BY <1>1, <1>3, <1>4 DEF IsSingle
<1> QED  BY <1>4, <1>5 DEF S

\* What is taken out of one is gone.
LEMMA SingleMinus ==
  ASSUME NEW B, IsSingle(B), NEW m
  PROVE  IsSingle(B (-) SetToBag({m})) /\ BagToSet(B (-) SetToBag({m})) = BagToSet(B) \ {m}
<1> DEFINE S == BagToSet(B)
<1>1. B = SetToBag(S)  BY DEF IsSingle
<1> HIDE DEF S
<1>2. SetToBag(S) (-) SetToBag({m}) = SetToBag(S \ {m})  BY DEF SetToBag, (-)
<1>3. BagToSet(B (-) SetToBag({m})) = S \ {m}  BY <1>1, <1>2, SetBag
<1>4. IsSingle(B (-) SetToBag({m}))  BY <1>1, <1>2, <1>3 DEF IsSingle
<1> QED  BY <1>3, <1>4 DEF S

\* What is not taken out stays.
LEMMA OthersStay ==
  ASSUME NEW B, IsABag(B), NEW m, NEW a \in BagToSet(B), a # m
  PROVE  a \in BagToSet(B (-) SetToBag({m}))
BY DEF IsABag, BagToSet, SetToBag, (-)

LEMMA EmptySingle == IsSingle(EmptyBag) /\ BagToSet(EmptyBag) = {}
BY SetBagSingle DEF EmptyBag

-----------------------------------------------------------------------------
(* The sender                                                              *)

\* The packets of the window in their order, from base on.
LEMMA Exact ==
  ASSUME IInv, SentInv, NEW s \in SSlots
  PROVE  sWin[s].pkt = counter - WS + 1 + Offset(s)
<1>1. N > 0 /\ WS \in Nat \ {0}  BY Slots DEF SSlots
<1>2. TypeOK /\ counter \in Nat /\ base = counter % WS /\ (sWin[s].pkt - 1) % WS = s
  <2>1. TypeOK /\ SenderInv  BY DEF IInv
  <2>2. counter \in Nat  BY <2>1 DEF TypeOK
  <2> QED  BY <1>1, <2>1, <2>2 DEF SenderInv
<1>3. Offset(s) \in 0 .. WS-1 /\ (base + Offset(s)) % WS = s  BY <1>1, <1>2, OffsetType
<1>4. counter >= WS /\ sWin[s].pkt \in counter - WS + 1 .. counter  BY DEF SentInv
<1> DEFINE a == sWin[s].pkt - 1
           j == a + WS - counter
           o == Offset(s)
<1>5. a \in Nat /\ j \in 0 .. WS-1 /\ a + WS * 1 = counter + j  BY <1>1, <1>2, <1>4
<1>6. a % WS = s /\ o \in 0 .. WS-1 /\ ((counter % WS) + o) % WS = s  BY <1>2, <1>3
<1>7. sWin[s].pkt = a + 1  BY <1>2, <1>4
<1> HIDE DEF a, j, o
<1>8. (counter + j) % WS = s
  <2>1. (a + WS * 1) % WS = a % WS  BY <1>1, <1>5, ModShift
  <2> QED  BY <1>5, <1>6, <2>1
<1>9. (counter + o) % WS = s
  <2>1. o \in Nat  BY <1>1, <1>6
  <2>2. ((counter % WS) + o) % WS = (counter + o) % WS  BY <1>1, <1>2, <2>1, ModAdd
  <2> QED  BY <1>6, <2>2
<1>10. counter + j = counter + o
  <2>1. counter + j \in Nat /\ counter + o \in Nat /\ counter + j < counter + o + WS
        /\ counter + o < counter + j + WS
        BY <1>1, <1>2, <1>5, <1>6
  <2> QED  BY <1>1, <1>8, <1>9, <2>1, ModSame
<1>11. sWin[s].pkt = counter - WS + 1 + o
  <2>1. j = o /\ a = counter + o - WS  BY <1>1, <1>2, <1>5, <1>6, <1>10
  <2> QED  BY <1>1, <1>2, <1>6, <1>7, <2>1
<1> QED  BY <1>11 DEF o

\* win is the window of which slot x has been acknowledged.
Marked(win, x) ==
  \A s \in SSlots : win[s].pkt = sWin[s].pkt /\ (win[s].ack => sWin[s].ack \/ s = x)

\* A slot that is refilled was acknowledged; the others keep what they have; all hold
\* the last WS packets.
LEMMA SlideSent ==
  ASSUME IInv, SentInv, N > 0, NEW x \in SSlots, NEW win \in WindowType, Marked(win, x),
         NEW k \in 0 .. WS, AckedRun(win, k), Slide(win, k)
  PROVE  /\ counter' = counter + Refills(k) /\ counter' >= WS
         /\ \A s \in SSlots : sWin'[s].pkt \in counter' - WS + 1 .. counter'
         /\ \A s \in SSlots : Offset(s) < Refills(k) =>
              /\ sWin[s].ack \/ s = x
              /\ ~sWin'[s].ack
         /\ \A s \in SSlots : ~(Offset(s) < Refills(k)) => sWin'[s] = win[s]
         /\ Refills(k) \in Nat
<1> DEFINE r == Refills(k)
<1>1. TypeOK /\ counter \in Nat /\ counter >= WS /\ WS \in Nat \ {0} /\ sWin \in WindowType
  <2>1. TypeOK  BY DEF IInv
  <2>2. counter \in Nat /\ sWin \in WindowType  BY <2>1 DEF TypeOK, WindowType
  <2> QED  BY <2>1, <2>2, Slots DEF SentInv
<1>2. r \in Nat /\ r <= k  BY <1>1, RefillsType
<1>3. counter' = counter + r /\ sWin' = Refilled(win, r)  BY DEF Slide
<1>4. \A s \in SSlots : win[s].pkt = sWin[s].pkt /\ (win[s].ack => sWin[s].ack \/ s = x)
  BY DEF Marked
<1>5. \A s \in SSlots : Offset(s) \in 0 .. WS-1 /\ (base + Offset(s)) % WS = s
  BY <1>1, OffsetType
<1> HIDE DEF r
<1>6. \A s \in SSlots : sWin[s].pkt = counter - WS + 1 + Offset(s)  BY Exact
<1>7. ASSUME NEW s \in SSlots
      PROVE  /\ sWin'[s].pkt \in counter' - WS + 1 .. counter'
             /\ Offset(s) < r => (sWin[s].ack \/ s = x) /\ ~sWin'[s].ack
             /\ ~(Offset(s) < r) => sWin'[s] = win[s]
  <2> DEFINE o == Offset(s)
  <2>1. o \in 0 .. WS-1 /\ (base + o) % WS = s /\ sWin[s].pkt = counter - WS + 1 + o
        BY <1>5, <1>6
  <2>2. sWin'[s] = IF o < r THEN [pkt |-> counter + o + 1, left |-> noPackets - o - 1, ack |-> FALSE]
                            ELSE win[s]
        BY <1>3 DEF Refilled
  <2> HIDE DEF o
  <2>3. CASE o < r
    <3>1. win[(base + o) % WS].ack  BY <1>2, <2>1, <2>3 DEF AckedRun
    <3>2. sWin'[s].pkt = counter + o + 1 /\ ~sWin'[s].ack  BY <2>2, <2>3
    <3>3. sWin'[s].pkt \in counter' - WS + 1 .. counter'
          BY <1>1, <1>2, <1>3, <2>1, <2>3, <3>2
    <3> QED  BY <1>4, <2>1, <2>3, <3>1, <3>2, <3>3 DEF o
  <2>4. CASE ~(o < r)
    <3>1. sWin'[s] = win[s] /\ sWin'[s].pkt = counter - WS + 1 + o  BY <1>4, <2>1, <2>2, <2>4
    <3>2. sWin'[s].pkt \in counter' - WS + 1 .. counter'
          BY <1>1, <1>2, <1>3, <2>1, <2>4, <3>1
    <3> QED  BY <2>4, <3>1, <3>2 DEF o
  <2> QED  BY <2>3, <2>4
<1>8. counter' >= WS
  <2>1. WS \in Nat  BY <1>1
  <2> QED  BY <1>1, <1>2, <1>3, <2>1
<1>9. /\ counter' = counter + Refills(k)
      /\ Refills(k) \in Nat
  BY <1>2, <1>3 DEF r
<1>10. \A s \in SSlots :
         /\ sWin'[s].pkt \in counter' - WS + 1 .. counter'
         /\ Offset(s) < Refills(k) => (sWin[s].ack \/ s = x) /\ ~sWin'[s].ack
         /\ ~(Offset(s) < Refills(k)) => sWin'[s] = win[s]
  BY <1>7 DEF r
<1> QED  BY <1>8, <1>9, <1>10

\* The slot q places after base holds the packet q places after the window's first.
LEMMA ExactAt ==
  ASSUME IInv, SentInv, N > 0, NEW q \in 0 .. WS-1
  PROVE  (base + q) % WS \in SSlots /\ sWin[(base + q) % WS].pkt = counter - WS + 1 + q
<1> DEFINE s == (base + q) % WS
<1>1. WS \in Nat \ {0} /\ base \in Nat /\ TypeOK  BY Slots DEF IInv, TypeOK
<1>2. s \in SSlots
  <2>1. base + q \in Nat  BY <1>1
  <2> QED  BY <1>1, <2>1, DivMod DEF SSlots
<1> HIDE DEF s
<1>3. Offset(s) \in 0 .. WS-1 /\ (base + Offset(s)) % WS = s  BY <1>1, <1>2, OffsetType
<1>4. sWin[s].pkt = counter - WS + 1 + Offset(s)  BY <1>2, Exact
<1>5. Offset(s) = q
  <2> DEFINE o == Offset(s)
  <2>1. o \in 0 .. WS-1 /\ (base + o) % WS = (base + q) % WS  BY <1>3 DEF s
  <2> HIDE DEF o
  <2>2. base + o \in Nat /\ base + q \in Nat /\ base + o < base + q + WS
        /\ base + q < base + o + WS
    BY <1>1, <2>1
  <2>3. base + o = base + q  BY <1>1, <2>1, <2>2, ModSame
  <2>4. o = q  BY <1>1, <2>1, <2>3
  <2> QED  BY <2>4 DEF o
<1> QED  BY <1>2, <1>4, <1>5 DEF s

-----------------------------------------------------------------------------
(* The datagrams in flight                                                 *)

\* The two halves of LoneInv.
LonePackets ==
  /\ IsSingle(toReceiver)
  /\ \A m \in BagToSet(toReceiver) : m.seq # SEQ_NUM_ERROR =>
       /\ ~sWin[m.seq].ack
       /\ m.pkt = sWin[m.seq].pkt /\ m.left = sWin[m.seq].left
       /\ \A a \in BagToSet(toSender) : a.seq # m.seq

LoneAcks ==
  /\ IsSingle(toSender)
  /\ \A a \in BagToSet(toSender) :
       /\ a.seq \in SSlots /\ ~sWin[a.seq].ack
       /\ a.size = sWin[a.seq].pkt /\ Held(a.seq)
       /\ \A b \in BagToSet(toSender) : b.seq = a.seq => b = a

\* Sending packets of slots that have nothing in flight keeps the first one.
LEMMA SendLone ==
  ASSUME TypeOK, sWin' \in WindowType, IsSingle(toReceiver),
         NEW S \in SUBSET SSlots, toReceiver' = toReceiver (+) Datagrams(sWin', S),
         \A m \in BagToSet(toReceiver) : m.seq # SEQ_NUM_ERROR =>
           /\ m.seq \notin S /\ ~sWin'[m.seq].ack
           /\ m.pkt = sWin'[m.seq].pkt /\ m.left = sWin'[m.seq].left
           /\ \A a \in BagToSet(toSender') : a.seq # m.seq,
         \A s \in S : ~sWin'[s].ack /\ \A a \in BagToSet(toSender') : a.seq # s
  PROVE  LonePackets'
<1> DEFINE T == {Packet(s, sWin'[s].left, sWin'[s].pkt) : s \in S}
<1>1. \A m \in T : m.seq \in S /\ m.seq # SEQ_NUM_ERROR
                   /\ m.pkt = sWin'[m.seq].pkt /\ m.left = sWin'[m.seq].left
  BY DEF Packet, SSlots, SEQ_NUM_ERROR
<1>2. T \cap BagToSet(toReceiver) = {}  BY <1>1
<1>3. toReceiver' = toReceiver (+) SetToBag(T)  BY DEF Datagrams
<1> HIDE DEF T
<1>4. IsSingle(toReceiver') /\ BagToSet(toReceiver') = BagToSet(toReceiver) \cup T
  BY <1>2, <1>3, SinglePlus
<1>5. ASSUME NEW m \in BagToSet(toReceiver'), m.seq # SEQ_NUM_ERROR
      PROVE  /\ ~sWin'[m.seq].ack
             /\ m.pkt = sWin'[m.seq].pkt /\ m.left = sWin'[m.seq].left
             /\ \A a \in BagToSet(toSender') : a.seq # m.seq
  <2>1. CASE m \in BagToSet(toReceiver)  BY <1>5, <2>1
  <2>2. CASE m \in T  BY <1>1, <2>2
  <2> QED  BY <1>4, <2>1, <2>2
<1>6. IsSingle(toReceiver)'  BY <1>4 DEF IsSingle
<1> QED  BY <1>5, <1>6 DEF LonePackets

\* So does taking something out of the network.
LEMMA FewerLone ==
  ASSUME LoneInv, rResult = "running", UNCHANGED <<sWin, rWin, file>>, sPc' # "start",
         IsSingle(toReceiver'), BagToSet(toReceiver') \subseteq BagToSet(toReceiver),
         IsSingle(toSender'), BagToSet(toSender') \subseteq BagToSet(toSender)
  PROVE  LoneInv'
<1>1. LonePackets /\ LoneAcks  BY DEF LoneInv, LonePackets, LoneAcks
<1>2. IsSingle(toReceiver)' /\ IsSingle(toSender)'  BY DEF IsSingle
<1>3. \A s : Held(s)' = Held(s)  BY DEF Held
<1>4. LonePackets'  BY <1>1, <1>2 DEF LonePackets
<1>5. LoneAcks'  BY <1>1, <1>2, <1>3 DEF LoneAcks
<1> QED  BY <1>4, <1>5 DEF LoneInv, LonePackets, LoneAcks

-----------------------------------------------------------------------------
(* Each step of the sender keeps the invariant                             *)

LEMMA InitLoopback == Init => LoopbackInv
<1> SUFFICES ASSUME Init PROVE LoopbackInv
  OBVIOUS
<1>1. BagToSet(EmptyBag) = {} /\ IsSingle(EmptyBag)  BY EmptySingle
<1>2. Len(file) = 0 /\ DOMAIN file = {}  BY DEF Init
<1>3. OrderInv
  <2>1. WrittenInOrder  BY <1>2 DEF WrittenInOrder
  <2>2. rNext = 0 % W /\ 0 \in RSlots /\ W \in Nat \ {0}  BY Slots, ModSmall DEF Init, RSlots
  <2>3. \A s \in RSlots : ~rWin[s].received /\ rWin[s].pkt <= 0  BY DEF Init
  <2>4. sizeReceived = 0 /\ rNext = 0  BY DEF Init
  <2> QED  BY <1>2, <2>1, <2>2, <2>3, <2>4 DEF OrderInv
<1>4. SentInv
  <2>1. WS \in Nat /\ counter = WS /\ \A s \in SSlots : sWin[s].pkt = s + 1 /\ ~sWin[s].ack
    BY Slots DEF Init
  <2>2. \A s \in SSlots : s + 1 \in counter - WS + 1 .. counter  BY <2>1 DEF SSlots
  <2>3. Len(file) >= counter - WS  BY <1>2, <2>1
  <2> QED  BY <2>1, <2>2, <2>3 DEF SentInv
<1>5. LoneInv  BY <1>1 DEF LoneInv, Init
<1> QED  BY <1>3, <1>4, <1>5 DEF LoopbackInv

\* The first transmission: nothing is in flight.
LEMMA SendWindowLoopback == IInv /\ LoopbackInv /\ SendWindow => LoopbackInv'
<1> SUFFICES ASSUME IInv, LoopbackInv, SendWindow PROVE LoopbackInv'
  OBVIOUS
<1>1. OrderInv'  BY DEF LoopbackInv, OrderInv, WrittenInOrder, SendWindow, rVars
<1>2. SentInv'  BY DEF LoopbackInv, SentInv, Held, SendWindow, rVars
<1>3. /\ sPc = "start" /\ toReceiver = EmptyBag /\ toSender = EmptyBag
      /\ rResult = "running" /\ \A s \in SSlots : ~sWin[s].ack
  BY DEF SendWindow, LoopbackInv, LoneInv
<1>4. BagToSet(toReceiver) = {} /\ BagToSet(toSender') = {} /\ IsSingle(toReceiver)
      /\ IsSingle(toSender)'
  BY <1>3, EmptySingle DEF SendWindow, IsSingle
<1>5. PICK S \in SUBSET SSlots : toReceiver' = toReceiver (+) Datagrams(sWin', S)
  BY DEF SendWindow, Survivors
<1>6. TypeOK /\ sWin' \in WindowType /\ \A s \in SSlots : ~sWin'[s].ack
  BY <1>3 DEF SendWindow, IInv, TypeOK, WindowType
<1>7. LonePackets'  BY <1>4, <1>5, <1>6, SendLone
<1>8. LoneInv'  BY <1>4, <1>7 DEF LonePackets, LoneInv, SendWindow
<1> QED  BY <1>1, <1>2, <1>8 DEF LoopbackInv

\* A timeout: nothing is in flight, or the receiver has returned.
LEMMA TimeoutLoopback == IInv /\ LoopbackInv /\ ~EarlyTimeouts /\ Timeout => LoopbackInv'
<1> SUFFICES ASSUME IInv, LoopbackInv, ~EarlyTimeouts, Timeout PROVE LoopbackInv'
  OBVIOUS
<1>1. OrderInv'  BY DEF LoopbackInv, OrderInv, WrittenInOrder, Timeout, rVars
<1>2. SentInv'  BY DEF LoopbackInv, SentInv, Held, Timeout, rVars
<1>3. sPc' # "start" /\ rResult' = rResult /\ toSender' = toSender /\ sWin' = sWin
      /\ file' = file /\ rWin' = rWin
  BY DEF Timeout, rVars
<1>4. rResult # "running" => LoneInv'  BY <1>3 DEF LoneInv
<1>5. ASSUME rResult = "running" PROVE LoneInv'
  <2>1. toReceiver = EmptyBag /\ toSender = EmptyBag
    BY <1>5 DEF Timeout, CanTimeout, IsQuiet
  <2>2. BagToSet(toReceiver) = {} /\ BagToSet(toSender) = {} /\ IsSingle(toReceiver)
        /\ IsSingle(toSender)' /\ BagToSet(toSender') = {}
    BY <1>3, <2>1, EmptySingle DEF IsSingle
  <2>3. CASE toReceiver' = toReceiver
    BY <1>3, <2>2, <2>3 DEF LoneInv, IsSingle
  <2>4. CASE \E S \in Survivors(ToResend) : toReceiver' = toReceiver (+) Datagrams(sWin, S)
    <3>1. PICK S \in SUBSET ToResend : toReceiver' = toReceiver (+) Datagrams(sWin', S)
      BY <1>3, <2>4 DEF Survivors
    <3>2. TypeOK /\ sWin' \in WindowType  BY <1>3 DEF IInv, TypeOK, WindowType
    <3>3. S \in SUBSET SSlots /\ \A s \in S : ~sWin'[s].ack
      <4>1. \A s \in SSlots : sWin[s].pkt \in Int /\ lastAck \in Int
        BY DEF IInv, TypeOK
      <4>2. \A s \in SSlots : sWin[s].ack => sWin[s].pkt <= lastAck
        BY <1>5 DEF LoopbackInv, SentInv
      <4>3. \A s \in ToResend : s \in SSlots /\ ~sWin[s].ack
        BY <4>1, <4>2 DEF ToResend
      <4> QED  BY <1>3, <4>3
    <3>4. LonePackets'  BY <2>2, <3>1, <3>2, <3>3, SendLone
    <3> QED  BY <1>3, <2>2, <3>4 DEF LonePackets, LoneInv
  <2> QED  BY <2>3, <2>4 DEF Timeout
<1> QED  BY <1>1, <1>2, <1>4, <1>5 DEF LoopbackInv

\* A datagram drained.
LEMMA DrainLoopback ==
  ASSUME IInv, LoopbackInv, NEW m \in BagToSet(toSender), Drain(m)
  PROVE  LoopbackInv'
<1>1. OrderInv'  BY DEF LoopbackInv, OrderInv, WrittenInOrder, Drain, rVars
<1>2. SentInv'  BY DEF LoopbackInv, SentInv, Held, Drain, rVars
<1>3. sPc' # "start" /\ rResult' = rResult /\ toReceiver' = toReceiver /\ sWin' = sWin
      /\ file' = file /\ rWin' = rWin /\ toSender' = toSender (-) SetToBag({m})
  BY DEF Drain, rVars
<1>4. rResult # "running" => LoneInv'  BY <1>3 DEF LoneInv
<1>5. ASSUME rResult = "running" PROVE LoneInv'
  <2>1. LoneInv /\ IsSingle(toSender) /\ IsSingle(toReceiver')
    BY <1>3, <1>5 DEF LoopbackInv, LoneInv
  <2>2. IsSingle(toSender') /\ BagToSet(toSender') \subseteq BagToSet(toSender)
    BY <1>3, <2>1, SingleMinus
  <2> QED  BY <1>3, <1>5, <2>1, <2>2, FewerLone
<1> QED  BY <1>1, <1>2, <1>4, <1>5 DEF LoopbackInv

\* The return: the error packet is the only one of its kind.
LEMMA SenderReturnLoopback == IInv /\ LoopbackInv /\ SenderReturn => LoopbackInv'
<1> SUFFICES ASSUME IInv, LoopbackInv, SenderReturn PROVE LoopbackInv'
  OBVIOUS
<1>1. OrderInv'  BY DEF LoopbackInv, OrderInv, WrittenInOrder, SenderReturn, rVars
<1>2. SentInv'  BY DEF LoopbackInv, SentInv, Held, SenderReturn, rVars
<1>3. sPc' # "start" /\ rResult' = rResult /\ toSender' = toSender /\ sWin' = sWin
      /\ file' = file /\ rWin' = rWin
  BY DEF SenderReturn, rVars
<1>4. rResult # "running" => LoneInv'  BY <1>3 DEF LoneInv
<1>5. ASSUME rResult = "running" PROVE LoneInv'
  <2>1. CASE toReceiver' = toReceiver
    BY <1>3, <1>5, <2>1 DEF LoopbackInv, LoneInv, Held, IsSingle
  <2>2. CASE toReceiver' = toReceiver (+) SetToBag({ErrorPacket})
    <3>1. ErrorPacket.seq = SEQ_NUM_ERROR  BY DEF ErrorPacket, Packet
    <3>2. {ErrorPacket} \cap BagToSet(toReceiver) = {}
      BY <3>1 DEF SenderReturn, IInv, SenderInv, NetworkInv
    <3>3. IsSingle(toReceiver) /\ IsSingle(toSender)  BY <1>5 DEF LoopbackInv, LoneInv
    <3>4. IsSingle(toReceiver') /\ BagToSet(toReceiver') = BagToSet(toReceiver) \cup {ErrorPacket}
      BY <2>2, <3>2, <3>3, SinglePlus
    <3>5. IsSingle(toReceiver)' /\ IsSingle(toSender)'
      BY <1>3, <3>3, <3>4 DEF IsSingle
    <3> QED  BY <1>3, <1>5, <3>1, <3>4, <3>5 DEF LoopbackInv, LoneInv, Held
  <2> QED  BY <2>1, <2>2 DEF SenderReturn
<1> QED  BY <1>1, <1>2, <1>4, <1>5 DEF LoopbackInv

\* A loss.
LEMMA LoseLoopback == IInv /\ LoopbackInv /\ Lose => LoopbackInv'
<1> SUFFICES ASSUME IInv, LoopbackInv, Lose PROVE LoopbackInv'
  OBVIOUS
<1>1. UNCHANGED <<sVars, rVars>>  BY DEF Lose
<1>2. OrderInv'  BY <1>1 DEF LoopbackInv, OrderInv, WrittenInOrder, rVars
<1>3. SentInv'  BY <1>1 DEF LoopbackInv, SentInv, Held, sVars, rVars
<1>4. BagToSet(toReceiver) # {} \/ BagToSet(toSender) # {}  BY DEF Lose
<1>5. sPc' = sPc /\ sPc # "start"
  BY <1>1, <1>4, EmptySingle DEF sVars, LoopbackInv, LoneInv
<1>6. rResult # "running" => LoneInv'  BY <1>1, <1>5 DEF LoneInv, rVars
<1>7. ASSUME rResult = "running" PROVE LoneInv'
  <2>1. IsSingle(toReceiver) /\ IsSingle(toSender)  BY <1>7 DEF LoopbackInv, LoneInv
  <2>2. /\ IsSingle(toReceiver') /\ BagToSet(toReceiver') \subseteq BagToSet(toReceiver)
        /\ IsSingle(toSender') /\ BagToSet(toSender') \subseteq BagToSet(toSender)
    <3>1. CASE \E m \in BagToSet(toReceiver) :
                 toReceiver' = toReceiver (-) SetToBag({m}) /\ UNCHANGED toSender
      <4>1. PICK m : toReceiver' = toReceiver (-) SetToBag({m}) /\ UNCHANGED toSender
        BY <3>1
      <4> QED  BY <2>1, <4>1, SingleMinus
    <3>2. CASE \E m \in BagToSet(toSender) :
                 toSender' = toSender (-) SetToBag({m}) /\ UNCHANGED toReceiver
      <4>1. PICK m : toSender' = toSender (-) SetToBag({m}) /\ UNCHANGED toReceiver
        BY <3>2
      <4> QED  BY <2>1, <4>1, SingleMinus
    <3> QED  BY <3>1, <3>2 DEF Lose
  <2>3. UNCHANGED <<sWin, rWin, file>> /\ LoneInv  BY <1>1 DEF sVars, rVars, LoopbackInv
  <2> QED  BY <1>5, <1>7, <2>2, <2>3, FewerLone
<1> QED  BY <1>2, <1>3, <1>6, <1>7 DEF LoopbackInv

\* While the receiver runs, the refills leave only packets behind that are in the file.
LEMMA RefilledAreWritten ==
  ASSUME IInv, OrderInv, SentInv, N > 0, rResult = "running", NEW x \in SSlots, Held(x),
         NEW win \in WindowType, Marked(win, x), NEW k \in 0 .. WS, AckedRun(win, k)
  PROVE  Len(file) >= counter + Refills(k) - WS
<1> DEFINE r == Refills(k)
           q == Len(file) + WS - counter
           s == (base + q) % WS
<1>1. TypeOK /\ WS \in Nat \ {0} /\ counter \in Nat /\ Len(file) \in Nat
  <2>1. TypeOK  BY DEF IInv
  <2>2. counter \in Nat /\ file \in Seq(0 .. N)  BY <2>1 DEF TypeOK
  <2> QED  BY <2>1, <2>2, Slots
<1>2. Len(file) >= counter - WS  BY DEF SentInv
<1>3. r \in Nat /\ r <= k /\ k <= WS  BY <1>1, RefillsType
<1> SUFFICES ASSUME Len(file) < counter + r - WS PROVE FALSE
  BY <1>1, <1>3
<1> HIDE DEF r
<1>4. q \in 0 .. WS-1 /\ q \in 0 .. k-1  BY <1>1, <1>2, <1>3
<1>5. counter - WS + 1 + q = Len(file) + 1  BY <1>1
<1> HIDE DEF q
<1>6. s \in SSlots /\ sWin[s].pkt = Len(file) + 1  BY <1>4, <1>5, ExactAt
<1>7. win[s].ack  BY <1>4 DEF AckedRun
<1> HIDE DEF s
<1>8. sWin[s].ack \/ s = x  BY <1>6, <1>7 DEF Marked
<1>9. Held(s)  BY <1>6, <1>8 DEF SentInv
<1>10. ~(Len(file) + 1 <= Len(file))  BY <1>1
<1>11. s \in RSlots /\ rWin[s].received /\ rWin[s].pkt = Len(file) + 1
  BY <1>6, <1>9, <1>10 DEF Held
<1>12. (Len(file) + 1 - 1) % W = s  BY <1>11 DEF OrderInv
<1>13. s = rNext
  <2>1. Len(file) + 1 - 1 = Len(file)  BY <1>1
  <2> QED  BY <1>12, <2>1 DEF OrderInv
<1> QED  BY <1>11, <1>13 DEF OrderInv

\* An acknowledgement.
LEMMA ReceiveAckLoopback ==
  ASSUME IInv, LoopbackInv, NEW m \in BagToSet(toSender), ReceiveAck(m)
  PROVE  LoopbackInv'
<1>1. UNCHANGED rVars  BY DEF ReceiveAck
<1>2. OrderInv'  BY <1>1 DEF LoopbackInv, OrderInv, WrittenInOrder, rVars
<1>3. m \in AckPacket /\ TypeOK  BY DEF IInv, TypeOK
<1>4. sPc' # "start" /\ toSender' = toSender (-) SetToBag({m})  BY DEF ReceiveAck
<1>5. ASSUME rResult = "running"
      PROVE  /\ m.seq \in SSlots /\ ~sWin[m.seq].ack /\ m.size = sWin[m.seq].pkt
             /\ Held(m.seq) /\ ~IsTerminal(m)
  <2>1. m.seq \in SSlots /\ ~sWin[m.seq].ack /\ m.size = sWin[m.seq].pkt /\ Held(m.seq)
    BY <1>5 DEF LoopbackInv, LoneInv
  <2>2. m.seq # SEQ_NUM_ERROR  BY <2>1 DEF SSlots, SEQ_NUM_ERROR
  <2>3. ~IsTerminal(m)  BY <1>3, <2>2 DEF IsTerminal, AckPacket, WRITE_BYTE_ERROR
  <2> QED  BY <2>1, <2>3
<1>6. CASE IsTerminal(m) \/ sWin[m.seq].ack
  <2>1. rResult # "running" /\ rResult' # "running"  BY <1>1, <1>5, <1>6 DEF rVars
  <2>2. sWin' = sWin /\ counter' = counter  BY <1>6 DEF ReceiveAck
  <2>3. SentInv' /\ LoneInv'
    BY <1>4, <2>1, <2>2 DEF LoopbackInv, SentInv, LoneInv
  <2> QED  BY <1>2, <2>3 DEF LoopbackInv
<1>7. CASE ~IsTerminal(m) /\ ~sWin[m.seq].ack
  <2> DEFINE x == m.seq
             win == [sWin EXCEPT ![x].ack = TRUE]
  <2>1. x \in SSlots /\ N > 0  BY <1>3, <1>7, Slots DEF IsTerminal, AckPacket, SSlots
  <2>2. PICK k \in 0 .. WS : AckedRun(win, k) /\ Slide(win, k)  BY <1>7 DEF ReceiveAck
  <2>3. sWin \in WindowType /\ sWin' \in WindowType
    <3>1. TypeOK'  BY ReceiveAckType DEF IInv
    <3> QED  BY <1>3, <3>1 DEF TypeOK, WindowType
  <2>4. /\ win \in WindowType /\ Marked(win, x)
        /\ \A s \in SSlots : s # x => win[s] = sWin[s]
    <3> HIDE DEF x
    <3>1. win \in WindowType
      <4>1. sWin[x] \in [pkt : 1 .. N, left : 0 .. N, ack : BOOLEAN]
        BY <2>1, <2>3 DEF WindowType
      <4>2. [sWin[x] EXCEPT !.ack = TRUE] \in [pkt : 1 .. N, left : 0 .. N, ack : BOOLEAN]
        BY <4>1
      <4> QED  BY <2>1, <2>3, <4>2 DEF WindowType
    <3>2. \A s \in SSlots : /\ win[s].pkt = sWin[s].pkt
                            /\ s # x => win[s] = sWin[s]
      BY <2>1, <2>3 DEF WindowType
    <3> HIDE DEF win
    <3> QED  BY <3>1, <3>2 DEF Marked
  <2>5. SentInv  BY DEF LoopbackInv
  <2> HIDE DEF win
  <2> DEFINE r == Refills(k)
             New == {s \in SSlots : Offset(s) < r}
  <2>6. /\ counter' = counter + r /\ counter' >= WS
        /\ \A s \in SSlots : sWin'[s].pkt \in counter' - WS + 1 .. counter'
        /\ \A s \in New : (sWin[s].ack \/ s = x) /\ ~sWin'[s].ack
        /\ \A s \in SSlots \ New : sWin'[s] = win[s]
    <3>1. /\ counter' = counter + r /\ counter' >= WS
          /\ \A s \in SSlots : sWin'[s].pkt \in counter' - WS + 1 .. counter'
          /\ \A s \in SSlots : Offset(s) < r =>
               /\ sWin[s].ack \/ s = x
               /\ ~sWin'[s].ack
          /\ \A s \in SSlots : ~(Offset(s) < r) => sWin'[s] = win[s]
      <4> HIDE DEF x
      <4> QED  BY <2>1, <2>2, <2>4, <2>5, SlideSent
    <3> HIDE DEF r
    <3> QED  BY <3>1
  <2>7. PICK S \in SUBSET New : toReceiver' = toReceiver (+) Datagrams(sWin', S)
    BY <2>2 DEF Slide, Survivors
  <2> HIDE DEF r, New
  <2>8. \A s \in SSlots : Held(s) /\ sWin'[s].pkt = sWin[s].pkt => Held(s)'
    BY <1>1 DEF Held, rVars
  <2>9. ASSUME rResult = "running" PROVE SentInv'
    <3>1. Held(x)  BY <1>5, <2>9
    <3>2. Len(file') >= counter' - WS
      <4>1. Len(file) >= counter + r - WS
        BY <2>1, <2>2, <2>4, <2>5, <2>9, <3>1, RefilledAreWritten DEF LoopbackInv, r
      <4>2. file' = file /\ counter' = counter + r  BY <1>1, <2>6 DEF rVars
      <4>3. Len(file) \in Nat /\ counter \in Nat /\ r \in Nat /\ WS \in Nat
        <5>1. file \in Seq(0 .. N) /\ counter \in Nat  BY <1>3 DEF TypeOK
        <5>2. WS \in Nat  BY Slots
        <5>3. k \in Nat  BY <5>2
        <5>4. r \in Nat  BY <1>3, <5>3, RefillsType DEF r
        <5> QED  BY <5>1, <5>2, <5>4
      <4> QED  BY <4>1, <4>2, <4>3
    <3>3. lastAck' \in Int /\ lastAck' >= lastAck /\ lastAck' >= m.size /\ lastAck \in Int
      <4>1. lastAck \in Int /\ m.size \in Int  BY <1>3 DEF TypeOK, AckPacket
      <4>2. lastAck' = IF m.size > lastAck THEN m.size ELSE lastAck
        BY <1>7 DEF ReceiveAck
      <4> QED  BY <4>1, <4>2
    <3>4. ASSUME NEW s \in SSlots, sWin'[s].ack
          PROVE  Held(s)' /\ sWin'[s].pkt <= lastAck'
      <4>1. s \notin New /\ sWin'[s] = win[s] /\ sWin'[s].pkt = sWin[s].pkt
        BY <2>4, <2>6, <3>4 DEF Marked
      <4>2. CASE s = x
        <5>1. m.size = sWin[s].pkt  BY <1>5, <2>9, <4>2
        <5> QED  BY <2>8, <3>1, <3>3, <4>1, <4>2, <5>1
      <4>3. CASE s # x
        <5>1. sWin[s].ack  BY <2>4, <3>4, <4>1, <4>3 DEF Marked
        <5>2. Held(s) /\ sWin[s].pkt <= lastAck  BY <2>5, <2>9, <5>1 DEF SentInv
        <5>3. sWin[s].pkt \in Int  BY <2>3 DEF WindowType
        <5> QED  BY <2>8, <3>3, <4>1, <5>2, <5>3
      <4> QED  BY <4>2, <4>3
    <3> QED  BY <2>6, <3>2, <3>4 DEF SentInv
  <2>10. rResult # "running" => SentInv'  BY <1>1, <2>6 DEF SentInv, rVars
  <2>11. ASSUME rResult = "running" PROVE LoneInv'
    <3>1. LonePackets /\ LoneAcks  BY <2>11 DEF LoopbackInv, LoneInv, LonePackets, LoneAcks
    <3>2. IsSingle(toSender') /\ BagToSet(toSender') = BagToSet(toSender) \ {m}
      BY <1>4, <3>1, SingleMinus DEF LoneAcks
    <3>3. \A a \in BagToSet(toSender') : a.seq # x  BY <3>1, <3>2 DEF LoneAcks
    <3>4. \A s \in SSlots : ~sWin[s].ack /\ s # x => s \notin New /\ sWin'[s] = sWin[s]
      BY <2>4, <2>6
    <3>5. ASSUME NEW d \in BagToSet(toReceiver), d.seq # SEQ_NUM_ERROR
          PROVE  /\ d.seq \notin S /\ ~sWin'[d.seq].ack
                 /\ d.pkt = sWin'[d.seq].pkt /\ d.left = sWin'[d.seq].left
                 /\ \A a \in BagToSet(toSender') : a.seq # d.seq
      <4>1. d.seq \in SSlots  BY <1>3, <3>5, DataType DEF DataPacket
      <4>2. ~sWin[d.seq].ack /\ d.seq # x  BY <3>1, <3>5 DEF LonePackets
      <4>3. d.seq \notin New /\ sWin'[d.seq] = sWin[d.seq]  BY <3>4, <4>1, <4>2
      <4> QED  BY <3>1, <3>2, <3>5, <4>2, <4>3 DEF LonePackets
    <3>6. \A s \in S : ~sWin'[s].ack /\ \A a \in BagToSet(toSender') : a.seq # s
      <4>1. \A a \in BagToSet(toSender') : ~sWin[a.seq].ack /\ a.seq # x
        BY <3>1, <3>2, <3>3 DEF LoneAcks
      <4> QED  BY <2>6, <4>1
    <3>7. LonePackets'
      <4>1. S \in SUBSET SSlots  BY DEF New
      <4>2. IsSingle(toReceiver)  BY <3>1 DEF LonePackets
      <4> QED  BY <1>3, <2>3, <2>7, <3>5, <3>6, <4>1, <4>2, SendLone
    <3>8. LoneAcks'
      <4>1. IsSingle(toSender)'  BY <3>2 DEF IsSingle
      <4>2. ASSUME NEW a \in BagToSet(toSender')
            PROVE  /\ a.seq \in SSlots /\ ~sWin'[a.seq].ack
                   /\ a.size = sWin'[a.seq].pkt /\ Held(a.seq)'
                   /\ \A b \in BagToSet(toSender') : b.seq = a.seq => b = a
        <5>1. a.seq \in SSlots /\ ~sWin[a.seq].ack /\ a.size = sWin[a.seq].pkt /\ Held(a.seq)
              /\ \A b \in BagToSet(toSender') : b.seq = a.seq => b = a
          BY <3>1, <3>2 DEF LoneAcks
        <5>2. sWin'[a.seq] = sWin[a.seq]  BY <3>3, <3>4, <5>1
        <5> QED  BY <2>8, <5>1, <5>2
      <4> QED  BY <4>1, <4>2 DEF LoneAcks
    <3> QED  BY <1>4, <3>7, <3>8 DEF LoneInv, LonePackets, LoneAcks
  <2>12. rResult # "running" => LoneInv'  BY <1>1, <1>4 DEF LoneInv, rVars
  <2> QED  BY <1>2, <2>9, <2>10, <2>11, <2>12 DEF LoopbackInv
<1> QED  BY <1>6, <1>7

-----------------------------------------------------------------------------
(* Each step of the receiver keeps the invariant                           *)

\* A packet that arrives while the receiver runs is that of its slot, at most W past
\* the file.
LEMMA InReach ==
  ASSUME IInv, LoopbackInv, rResult = "running",
         NEW m \in BagToSet(toReceiver), m.seq # SEQ_NUM_ERROR
  PROVE  /\ m \in DataPacket /\ m.seq \in SSlots /\ m.seq \in RSlots
         /\ m.pkt \in 1 .. Len(file) + W /\ (m.pkt - 1) % W = m.seq
         /\ m.pkt = sWin[m.seq].pkt /\ m.left = sWin[m.seq].left /\ ~sWin[m.seq].ack
<1>1. TypeOK  BY DEF IInv
<1>2. m \in DataPacket  BY <1>1, DataType
<1>3. m.seq \in SSlots /\ m.pkt \in 1 .. N  BY <1>2 DEF DataPacket
<1>4. (m.pkt - 1) % W = m.seq  BY DEF IInv, NetworkInv
<1>5. m.pkt = sWin[m.seq].pkt /\ m.left = sWin[m.seq].left /\ ~sWin[m.seq].ack
  BY DEF LoopbackInv, LoneInv
<1>6. m.pkt <= Len(file) + W
  <2>1. m.pkt \in counter - WS + 1 .. counter /\ Len(file) >= counter - WS
    BY <1>3, <1>5 DEF LoopbackInv, SentInv
  <2>2. counter \in Nat /\ file \in Seq(0 .. N)  BY <1>1 DEF TypeOK
  <2> QED  BY <2>1, <2>2, Slots
<1>7. Len(file) \in Nat  BY <1>1 DEF TypeOK
<1> QED  BY <1>2, <1>3, <1>4, <1>5, <1>6, <1>7, Slots

\* A slot that waits in win holds a packet of the W after the file, its own.
InOrder(win) ==
  \A s \in RSlots :
    IF win[s].received
    THEN win[s].pkt \in Len(file) + 1 .. Len(file) + W /\ (win[s].pkt - 1) % W = s
    ELSE win[s].pkt <= Len(file)

\* The slot j places after the next one to write waits for packet Len(file) + 1 + j.
LEMMA InPlace ==
  ASSUME IInv, OrderInv, rResult = "running", NEW j \in 0 .. W-1, NEW p \in Nat,
         p \in Len(file) + 1 .. Len(file) + W, (p - 1) % W = RSlot(j)
  PROVE  p = Len(file) + 1 + j
<1>1. Len(file) \in Nat /\ j \in Nat
  <2>1. file \in Seq(0 .. N)  BY DEF IInv, TypeOK
  <2> QED  BY <2>1
<1>2. RSlot(j) = (Len(file) + j) % W
  <2>1. rNext = Len(file) % W  BY DEF OrderInv
  <2> QED  BY <1>1, <2>1, ModAdd DEF RSlot
<1>3. p - 1 = Len(file) + j
  <2>1. p - 1 \in Nat /\ Len(file) + j \in Nat /\ p - 1 < Len(file) + j + W
        /\ Len(file) + j < p - 1 + W
    BY <1>1
  <2> QED  BY <1>2, <2>1, ModSame
<1> QED  BY <1>1, <1>3

\* A run that waits to be written holds the packets after the file in their order.
LEMMA RunInOrder ==
  ASSUME IInv, OrderInv, rResult = "running", NEW win \in RWindowType, InOrder(win),
         NEW k \in 0 .. W, ReceivedRun(win, k)
  PROVE  /\ \A j \in 0 .. k-1 : RSlot(j) \in RSlots /\ win[RSlot(j)].received
                                /\ win[RSlot(j)].pkt = Len(file) + 1 + j
         /\ \A n \in 0 .. k :
              LET f == file \o Run(win, n)
              IN  f \in Seq(0 .. N) /\ Len(f) = Len(file) + n /\ \A i \in DOMAIN f : f[i] = i
<1>1. TypeOK  BY DEF IInv
<1>2. file \in Seq(0 .. N)  BY <1>1 DEF TypeOK
<1>3. ASSUME NEW j \in 0 .. k-1
      PROVE  RSlot(j) \in RSlots /\ win[RSlot(j)].received /\ win[RSlot(j)].pkt = Len(file) + 1 + j
  <2>1. RSlot(j) \in RSlots  BY <1>1, RunType DEF RWindowType
  <2>2. win[RSlot(j)].received  BY DEF ReceivedRun
  <2>3. win[RSlot(j)].pkt \in Len(file) + 1 .. Len(file) + W
        /\ (win[RSlot(j)].pkt - 1) % W = RSlot(j)
    BY <2>1, <2>2 DEF InOrder
  <2>4. win[RSlot(j)].pkt \in Nat  BY <2>1 DEF RWindowType
  <2>5. j \in 0 .. W-1  OBVIOUS
  <2> QED  BY <2>1, <2>2, <2>3, <2>4, <2>5, InPlace
<1>4. ASSUME NEW n \in 0 .. k
      PROVE  LET f == file \o Run(win, n)
             IN  f \in Seq(0 .. N) /\ Len(f) = Len(file) + n /\ \A i \in DOMAIN f : f[i] = i
  <2> DEFINE run == Run(win, n)
  <2>1. /\ run \in Seq(0 .. N) /\ Len(run) = n
        /\ \A i \in 1 .. n : run[i] = win[RSlot(i - 1)].pkt
    <3>1. n \in 0 .. W  OBVIOUS
    <3> QED  BY <1>1, <3>1, RunType DEF RWindowType
  <2>2. \A i \in 1 .. n : run[i] = Len(file) + i
    <3> TAKE i \in 1 .. n
    <3>1. i - 1 \in 0 .. k-1 /\ Len(file) + 1 + (i - 1) = Len(file) + i  BY <1>2
    <3>2. win[RSlot(i - 1)].pkt = Len(file) + 1 + (i - 1)  BY <1>3, <3>1
    <3> QED  BY <2>1, <3>1, <3>2
  <2>3. \A i \in 1 .. Len(file) : file[i] = i  BY <1>2 DEF OrderInv, WrittenInOrder
  <2> HIDE DEF run
  <2> DEFINE f == file \o run
  <2>4. f \in Seq(0 .. N) /\ Len(f) = Len(file) + n  BY <1>2, <2>1, ConcatProperties
  <2>5. \A i \in 1 .. Len(f) : f[i] = i
    <3> TAKE i \in 1 .. Len(f)
    <3>1. i \in 1 .. Len(file) + n /\ i \in Nat /\ Len(file) \in Nat  BY <1>2, <2>4
    <3>2. CASE i <= Len(file)
      <4>1. i \in 1 .. Len(file) /\ f[i] = file[i]  BY <1>2, <2>1, <3>1, <3>2
      <4> QED  BY <2>3, <4>1
    <3>3. CASE i > Len(file)
      <4>1. i - Len(file) \in 1 .. n /\ f[i] = run[i - Len(file)]  BY <1>2, <2>1, <3>1, <3>3
      <4>2. run[i - Len(file)] = Len(file) + (i - Len(file))  BY <2>2, <4>1
      <4> QED  BY <3>1, <4>1, <4>2
    <3> QED  BY <3>1, <3>2, <3>3
  <2> QED  BY <2>4, <2>5 DEF run
<1> QED  BY <1>3, <1>4

\* The receiver has the packet of a slot of the sender once it is a duplicate.
LEMMA DuplicateIsHeld ==
  ASSUME IInv, LoopbackInv, rResult = "running",
         NEW m \in BagToSet(toReceiver), m.seq # SEQ_NUM_ERROR, IsDuplicate(m)
  PROVE  Held(m.seq)
<1>1. /\ m.seq \in RSlots /\ m.pkt \in 1 .. Len(file) + W /\ (m.pkt - 1) % W = m.seq
      /\ m.pkt = sWin[m.seq].pkt
  BY InReach
<1>2. Len(file) \in Nat /\ rWin[m.seq].pkt \in Nat /\ sizeReceived = Len(file)
  <2>1. file \in Seq(0 .. N) /\ rWin[m.seq].pkt \in Nat  BY <1>1 DEF IInv, TypeOK
  <2> QED  BY <2>1 DEF LoopbackInv, OrderInv
<1>3. CASE m.pkt <= Len(file)  BY <1>1, <1>3 DEF Held
<1>4. CASE m.pkt > Len(file)
  <2>1. rWin[m.seq].received
    <3>1. ~rWin[m.seq].received => rWin[m.seq].pkt <= Len(file)
      BY <1>1 DEF LoopbackInv, OrderInv
    <3> QED  BY <1>1, <1>2, <1>4, <3>1 DEF IsDuplicate
  <2>2. rWin[m.seq].pkt \in Len(file) + 1 .. Len(file) + W /\ (rWin[m.seq].pkt - 1) % W = m.seq
    BY <1>1, <2>1 DEF LoopbackInv, OrderInv
  <2>3. rWin[m.seq].pkt = m.pkt
    <3> DEFINE a == rWin[m.seq].pkt - 1
               b == m.pkt - 1
    <3>1. a \in Len(file) .. Len(file) + W - 1
      <4>1. rWin[m.seq].pkt \in Len(file) + 1 .. Len(file) + W  BY <2>2
      <4> QED  BY <1>2, <4>1
    <3>2. b \in Len(file) .. Len(file) + W - 1
      <4>1. m.pkt \in 1 .. Len(file) + W  BY <1>1
      <4> QED  BY <1>2, <1>4, <4>1
    <3>3. a % W = b % W  BY <1>1, <2>2
    <3> HIDE DEF a, b
    <3>4. a \in Nat /\ b \in Nat /\ a < b + W /\ b < a + W  BY <1>2, <3>1, <3>2
    <3>5. a = b  BY <3>3, <3>4, ModSame
    <3>6. m.pkt \in Int /\ rWin[m.seq].pkt \in Int  BY <1>1, <1>2
    <3> QED  BY <3>5, <3>6 DEF a, b
  <2> QED  BY <1>1, <2>1, <2>3 DEF Held
<1> QED  BY <1>1, <1>2, <1>3, <1>4

\* An acknowledgement of a packet the receiver has takes the packet's place.
LEMMA AckLone ==
  ASSUME IInv, LoopbackInv, rResult = "running", UNCHANGED sVars,
         NEW m \in BagToSet(toReceiver), m.seq # SEQ_NUM_ERROR,
         toReceiver' = toReceiver (-) SetToBag({m}),
         NEW size, NEW a \in OneOrNone(Ack(m.seq, m.pkt, size)), toSender' = toSender (+) a,
         \A s \in SSlots : Held(s) \/ s = m.seq => Held(s)'
  PROVE  LoneInv'
<1>1. LonePackets /\ LoneAcks  BY DEF LoopbackInv, LoneInv, LonePackets, LoneAcks
<1>2. sWin' = sWin /\ sPc' # "start"
  <2>1. sPc # "start"  BY EmptySingle DEF LoopbackInv, LoneInv
  <2> QED  BY <2>1 DEF sVars
<1>3. /\ m \in DataPacket /\ m.seq \in SSlots
      /\ m.pkt = sWin[m.seq].pkt /\ m.left = sWin[m.seq].left /\ ~sWin[m.seq].ack
  BY InReach
<1>4. IsSingle(toReceiver') /\ BagToSet(toReceiver') = BagToSet(toReceiver) \ {m}
  BY <1>1, SingleMinus DEF LonePackets
<1> DEFINE ack == Ack(m.seq, m.pkt, size)
<1>5. ack.seq = m.seq /\ ack.size = m.pkt  BY DEF Ack
<1>6. \A b \in BagToSet(toSender) : b.seq # m.seq  BY <1>1 DEF LonePackets
<1> HIDE DEF ack
<1>7. IsSingle(toSender') /\ BagToSet(toSender') \subseteq BagToSet(toSender) \cup {ack}
  <2>1. PICK T \in SUBSET {ack} : a = SetToBag(T)
    <3>1. a = SetToBag({}) \/ a = SetToBag({ack})  BY DEF OneOrNone, ack, EmptyBag
    <3> QED  BY <3>1
  <2>2. T \cap BagToSet(toSender) = {}  BY <1>5, <1>6, <2>1
  <2>3. IsSingle(toSender)  BY <1>1 DEF LoneAcks
  <2> QED  BY <2>1, <2>2, <2>3, SinglePlus
<1>8. LonePackets'
  <2>1. ASSUME NEW d \in BagToSet(toReceiver'), d.seq # SEQ_NUM_ERROR
        PROVE  d.seq # m.seq
    <3>1. d \in BagToSet(toReceiver) /\ d # m  BY <1>4
    <3>2. d \in DataPacket /\ d.pkt = sWin[d.seq].pkt /\ d.left = sWin[d.seq].left
      BY <2>1, <3>1, InReach
    <3> QED  BY <1>3, <3>1, <3>2 DEF DataPacket
  <2>2. IsSingle(toReceiver)'  BY <1>4 DEF IsSingle
  <2>3. ASSUME NEW d \in BagToSet(toReceiver'), d.seq # SEQ_NUM_ERROR
        PROVE  /\ ~sWin'[d.seq].ack
               /\ d.pkt = sWin'[d.seq].pkt /\ d.left = sWin'[d.seq].left
               /\ \A b \in BagToSet(toSender') : b.seq # d.seq
    <3>1. d \in BagToSet(toReceiver)  BY <1>4
    <3>2. /\ ~sWin[d.seq].ack
          /\ d.pkt = sWin[d.seq].pkt /\ d.left = sWin[d.seq].left
          /\ \A b \in BagToSet(toSender) : b.seq # d.seq
      BY <1>1, <2>3, <3>1 DEF LonePackets
    <3> QED  BY <1>2, <1>5, <1>7, <2>1, <2>3, <3>2
  <2> QED  BY <2>2, <2>3 DEF LonePackets
<1>9. LoneAcks'
  <2>1. IsSingle(toSender)'  BY <1>7 DEF IsSingle
  <2>2. ASSUME NEW b \in BagToSet(toSender')
        PROVE  /\ b.seq \in SSlots /\ ~sWin'[b.seq].ack
               /\ b.size = sWin'[b.seq].pkt /\ Held(b.seq)'
    <3>1. CASE b \in BagToSet(toSender)  BY <1>1, <1>2, <3>1 DEF LoneAcks
    <3>2. CASE b = ack  BY <1>2, <1>3, <1>5, <3>2
    <3> QED  BY <1>7, <3>1, <3>2
  <2>3. \A b, c \in BagToSet(toSender') : c.seq = b.seq => c = b
    BY <1>1, <1>5, <1>6, <1>7 DEF LoneAcks
  <2> QED  BY <2>1, <2>2, <2>3 DEF LoneAcks
<1> QED  BY <1>2, <1>8, <1>9 DEF LoneInv, LonePackets, LoneAcks

\* SentInv is about packets the receiver has: it keeps them.
LEMMA ReceivedSent ==
  ASSUME IInv, LoopbackInv, UNCHANGED sVars,
         rResult' = "running" =>
           /\ rResult = "running" /\ file' \in Seq(0 .. N) /\ Len(file') >= Len(file)
           /\ \A s \in SSlots : Held(s) => Held(s)'
  PROVE  SentInv'
<1>1. SentInv /\ sWin' = sWin /\ counter' = counter /\ lastAck' = lastAck
  BY DEF LoopbackInv, sVars
<1>2. counter \in Nat /\ WS \in Nat /\ Len(file) \in Nat
  <2>1. file \in Seq(0 .. N) /\ counter \in Nat  BY DEF IInv, TypeOK
  <2> QED  BY <2>1, Slots
<1>3. rResult' = "running" => Len(file') >= counter' - WS
  <2>1. rResult' = "running" => Len(file') \in Nat  OBVIOUS
  <2> QED  BY <1>1, <1>2, <2>1 DEF SentInv
<1> QED  BY <1>1, <1>3 DEF SentInv

\* The packet is a duplicate.
LEMMA DuplicateLoopback ==
  ASSUME IInv, LoopbackInv, NEW m \in BagToSet(toReceiver), ReceivePacket(m),
         ReceiveDuplicate(m)
  PROVE  LoopbackInv'
<1>1. /\ UNCHANGED <<rWin, rNext, sizeReceived, file, rResult>> /\ UNCHANGED sVars
      /\ rResult = "running" /\ m.seq # SEQ_NUM_ERROR
      /\ toReceiver' = toReceiver (-) SetToBag({m})
  BY DEF ReceivePacket, ReceiveDuplicate
<1>2. OrderInv'  BY <1>1 DEF LoopbackInv, OrderInv, WrittenInOrder
<1>3. \A s : Held(s)' = Held(s)  BY <1>1 DEF Held, sVars
<1>4. SentInv'
  <2>1. file' \in Seq(0 .. N) /\ Len(file') >= Len(file)
    <3>1. file \in Seq(0 .. N)  BY DEF IInv, TypeOK
    <3> QED  BY <1>1, <3>1
  <2> QED  BY <1>1, <1>3, <2>1, ReceivedSent
<1>5. Held(m.seq)  BY <1>1, DuplicateIsHeld DEF ReceiveDuplicate
<1>6. PICK a \in OneOrNone(Ack(m.seq, m.pkt, sizeReceived)) : toSender' = toSender (+) a
  BY DEF ReceiveDuplicate
<1>7. LoneInv'  BY <1>1, <1>3, <1>5, <1>6, AckLone
<1> QED  BY <1>2, <1>4, <1>7 DEF LoopbackInv

\* The window once m is stored.
Stored(m) == [rWin EXCEPT ![m.seq] = [pkt |-> m.pkt, received |-> TRUE]]

\* The window once a new packet is stored is in order, too.
LEMMA StoredInOrder ==
  ASSUME IInv, LoopbackInv, rResult = "running", NEW m \in BagToSet(toReceiver),
         m.seq # SEQ_NUM_ERROR, ~IsDuplicate(m)
  PROVE  /\ Stored(m) \in RWindowType /\ InOrder(Stored(m))
         /\ \A s \in SSlots : Held(s) \/ s = m.seq =>
              sWin[s].pkt <= Len(file) \/ (s \in RSlots /\ Stored(m)[s].received
                                                        /\ Stored(m)[s].pkt = sWin[s].pkt)
<1> DEFINE win == Stored(m)
<1>1. /\ m \in DataPacket /\ m.seq \in RSlots
      /\ m.pkt \in 1 .. Len(file) + W /\ (m.pkt - 1) % W = m.seq
      /\ m.pkt = sWin[m.seq].pkt
  BY InReach
<1>2. TypeOK /\ OrderInv  BY DEF IInv, LoopbackInv
<1>3. win \in RWindowType  BY <1>1, <1>2, StoredType DEF RWindowType, Stored
<1>4. rWin \in RWindowType  BY <1>2 DEF TypeOK, RWindowType
<1>5. win[m.seq].pkt = m.pkt /\ win[m.seq].received
      /\ \A s \in RSlots : s # m.seq => win[s] = rWin[s]
  BY <1>1, <1>4 DEF RWindowType, Stored
<1> HIDE DEF win
<1>6. ~rWin[m.seq].received /\ m.pkt \in Len(file) + 1 .. Len(file) + W
  <2>1. sizeReceived = Len(file) /\ file \in Seq(0 .. N)  BY <1>2 DEF OrderInv, TypeOK
  <2> QED  BY <1>1, <2>1 DEF IsDuplicate
<1>7. InOrder(win)
  <2>1. \A s \in RSlots :
          IF rWin[s].received
          THEN rWin[s].pkt \in Len(file) + 1 .. Len(file) + W /\ (rWin[s].pkt - 1) % W = s
          ELSE rWin[s].pkt <= Len(file)
    BY <1>2 DEF OrderInv
  <2> QED  BY <1>1, <1>5, <1>6, <2>1 DEF InOrder
<1> QED  BY <1>1, <1>3, <1>5, <1>6, <1>7 DEF Held, win

\* The receiver's window after a run is in order with the longer file.
LEMMA WrittenRun ==
  ASSUME IInv, LoopbackInv, rResult = "running", NEW m, NEW win \in RWindowType, InOrder(win),
         NEW k \in 0 .. W, ReceivedRun(win, k), WriteRun(win, k, m)
  PROVE  /\ OrderInv' /\ file' \in Seq(0 .. N) /\ Len(file') = Len(file) + k
         /\ \A s \in RSlots : win[s].received =>
              (rWin'[s].received /\ rWin'[s].pkt = win[s].pkt) \/ win[s].pkt <= Len(file')
<1>1. TypeOK /\ OrderInv  BY DEF IInv, LoopbackInv
<1>2. Len(file) \in Nat /\ rNext = Len(file) % W /\ rNext \in Nat
  <2>1. file \in Seq(0 .. N) /\ rNext \in Nat  BY <1>1 DEF TypeOK, RSlots
  <2> QED  BY <1>1, <2>1 DEF OrderInv
<1>3. \A j \in 0 .. k-1 : RSlot(j) \in RSlots /\ win[RSlot(j)].received
                          /\ win[RSlot(j)].pkt = Len(file) + 1 + j
  BY <1>1, RunInOrder
<1>4. file' \in Seq(0 .. N) /\ Len(file') = Len(file) + k /\ \A i \in DOMAIN file' : file'[i] = i
  <2>1. k \in 0 .. k /\ file' = file \o Run(win, k)  BY DEF WriteRun
  <2> QED  BY <1>1, <2>1, RunInOrder
<1>5. /\ rNext' = RSlot(k)
      /\ sizeReceived' = IF k = 0 THEN sizeReceived ELSE win[RSlot(k - 1)].pkt
      /\ \A s \in RSlots : rWin'[s] = IF \E j \in 0 .. k-1 : RSlot(j) = s
                                      THEN [win[s] EXCEPT !.received = FALSE] ELSE win[s]
  BY DEF WriteRun
<1>6. \A s \in RSlots :
        /\ win[s].pkt \in Nat /\ win[s].received \in BOOLEAN
        /\ rWin'[s].pkt = win[s].pkt
        /\ (\E j \in 0 .. k-1 : RSlot(j) = s) =>
             ~rWin'[s].received /\ win[s].pkt \in Len(file) + 1 .. Len(file) + k
        /\ ~(\E j \in 0 .. k-1 : RSlot(j) = s) => rWin'[s].received = win[s].received
  <2> TAKE s \in RSlots
  <2>1. win[s] \in [pkt : 0 .. N, received : BOOLEAN]  BY DEF RWindowType
  <2>2. ASSUME NEW j \in 0 .. k-1, RSlot(j) = s
        PROVE  win[s].pkt \in Len(file) + 1 .. Len(file) + k
    <3>1. win[s].pkt = Len(file) + 1 + j  BY <1>3, <2>2
    <3> QED  BY <1>2, <3>1
  <2>3. CASE \E j \in 0 .. k-1 : RSlot(j) = s
    <3>1. rWin'[s] = [win[s] EXCEPT !.received = FALSE]  BY <1>5, <2>3
    <3>2. rWin'[s].pkt = win[s].pkt /\ ~rWin'[s].received  BY <2>1, <3>1
    <3>3. win[s].pkt \in Len(file) + 1 .. Len(file) + k  BY <2>2, <2>3
    <3> QED  BY <2>1, <2>3, <3>2, <3>3
  <2>4. CASE ~\E j \in 0 .. k-1 : RSlot(j) = s
    <3>1. rWin'[s] = win[s]  BY <1>5, <2>4
    <3> QED  BY <2>1, <2>4, <3>1
  <2> QED  BY <2>3, <2>4
<1>7. sizeReceived' = Len(file')
  <2>1. CASE k = 0
    BY <1>1, <1>2, <1>4, <1>5, <2>1 DEF OrderInv
  <2>2. CASE k # 0
    <3>1. k - 1 \in 0 .. k-1 /\ Len(file) + 1 + (k - 1) = Len(file) + k  BY <1>2, <2>2
    <3>2. win[RSlot(k - 1)].pkt = Len(file) + 1 + (k - 1)  BY <1>3, <3>1
    <3> QED  BY <1>4, <1>5, <2>2, <3>1, <3>2
  <2> QED  BY <2>1, <2>2
<1>8. rNext' = Len(file') % W /\ rNext' \in RSlots
  <2>1. rNext' \in RSlots  BY <1>1, <1>5, RunType DEF RWindowType
  <2>2. (rNext + k) % W = (Len(file) + k) % W
    <3>1. k \in Nat  OBVIOUS
    <3>2. ((Len(file) % W) + k) % W = (Len(file) + k) % W  BY <1>2, <3>1, ModAdd
    <3> QED  BY <1>2, <3>2
  <2> QED  BY <1>4, <1>5, <2>1, <2>2 DEF RSlot
<1>9. ~rWin'[rNext'].received
  <2>1. CASE k < W
    <3>1. ~win[RSlot(k)].received  BY <2>1 DEF ReceivedRun
    <3> QED  BY <1>5, <1>6, <1>8, <3>1
  <2>2. CASE k = W
    <3>1. rNext \in 0 .. W-1 /\ W \in Nat \ {0}  BY <1>1 DEF TypeOK, RSlots
    <3>2. (rNext + W * 1) % W = rNext % W  BY <3>1, <1>2, ModShift
    <3>3. rNext + W * 1 = rNext + W /\ rNext + 0 = rNext  BY <1>2, <3>1
    <3>4. RSlot(W) = RSlot(0)  BY <3>2, <3>3 DEF RSlot
    <3>5. 0 \in 0 .. k-1 /\ RSlot(0) = rNext'  BY <1>5, <2>2, <3>1, <3>4
    <3>6. \E j \in 0 .. k-1 : RSlot(j) = rNext'  BY <3>5
    <3> QED  BY <1>6, <1>8, <3>6
  <2> QED  BY <2>1, <2>2
<1>10. ASSUME NEW s \in RSlots
       PROVE  IF rWin'[s].received
              THEN rWin'[s].pkt \in Len(file') + 1 .. Len(file') + W /\ (rWin'[s].pkt - 1) % W = s
              ELSE rWin'[s].pkt <= Len(file')
  <2>1. CASE rWin'[s].received
    <3>1. win[s].received /\ ~\E j \in 0 .. k-1 : RSlot(j) = s  BY <1>6, <2>1
    <3>2. win[s].pkt \in Len(file) + 1 .. Len(file) + W /\ (win[s].pkt - 1) % W = s
      BY <3>1 DEF InOrder
    <3>3. win[s].pkt > Len(file) + k
      <4> SUFFICES ASSUME ~(win[s].pkt > Len(file) + k) PROVE FALSE
        OBVIOUS
      <4> DEFINE j == win[s].pkt - 1 - Len(file)
      <4>1. win[s].pkt \in Nat /\ win[s].pkt > Len(file)  BY <1>6, <3>2
      <4>2. j \in Nat /\ j <= k - 1 /\ Len(file) + j = win[s].pkt - 1
        <5>1. Len(file) \in Nat  BY <1>2
        <5> QED  BY <4>1, <5>1
      <4> HIDE DEF j
      <4>3. j \in 0 .. k-1  BY <4>2
      <4>4. ((Len(file) % W) + j) % W = (Len(file) + j) % W  BY <1>2, <4>2, ModAdd
      <4>5. RSlot(j) = s  BY <1>2, <3>2, <4>2, <4>4 DEF RSlot
      <4> QED  BY <3>1, <4>3, <4>5
    <3>4. win[s].pkt \in Len(file') + 1 .. Len(file') + W
      <4>1. win[s].pkt \in Len(file) + 1 .. Len(file) + W  BY <3>2
      <4>2. Len(file) \in Nat  BY <1>2
      <4>3. Len(file') = Len(file) + k  BY <1>4
      <4> QED  BY <3>3, <4>1, <4>2, <4>3
    <3> QED  BY <1>6, <2>1, <3>2, <3>4
  <2>2. CASE ~rWin'[s].received
    <3>1. CASE \E j \in 0 .. k-1 : RSlot(j) = s
      <4>1. win[s].pkt <= Len(file')  BY <1>2, <1>4, <1>6, <3>1
      <4> QED  BY <1>6, <2>2, <4>1
    <3>2. CASE ~\E j \in 0 .. k-1 : RSlot(j) = s
      <4>1. ~win[s].received  BY <1>6, <2>2, <3>2
      <4>2. win[s].pkt <= Len(file)  BY <4>1 DEF InOrder
      <4>3. win[s].pkt <= Len(file')  BY <1>2, <1>4, <1>6, <4>2
      <4> QED  BY <1>6, <2>2, <4>3
    <3> QED  BY <3>1, <3>2
  <2> QED  BY <2>1, <2>2
<1>11. OrderInv'  BY <1>4, <1>7, <1>8, <1>9, <1>10 DEF OrderInv, WrittenInOrder
<1>12. \A s \in RSlots : win[s].received =>
         (rWin'[s].received /\ rWin'[s].pkt = win[s].pkt) \/ win[s].pkt <= Len(file')
  <2> TAKE s \in RSlots
  <2>1. CASE \E j \in 0 .. k-1 : RSlot(j) = s
    <3>1. win[s].pkt \in Len(file) + 1 .. Len(file) + k  BY <1>6, <2>1
    <3>2. Len(file) \in Nat  BY <1>2
    <3>3. Len(file') = Len(file) + k  BY <1>4
    <3> QED  BY <3>1, <3>2, <3>3
  <2>2. CASE ~\E j \in 0 .. k-1 : RSlot(j) = s
    BY <1>6, <2>2
  <2> QED  BY <2>1, <2>2
<1> QED  BY <1>4, <1>11, <1>12

\* The packet is new.
LEMMA NewLoopback ==
  ASSUME IInv, LoopbackInv, NEW m \in BagToSet(toReceiver), ReceivePacket(m), ReceiveNew(m)
  PROVE  LoopbackInv'
<1> DEFINE win == Stored(m)
<1>1. /\ UNCHANGED sVars /\ rResult = "running" /\ m.seq # SEQ_NUM_ERROR /\ ~IsDuplicate(m)
      /\ toReceiver' = toReceiver (-) SetToBag({m})
  BY DEF ReceivePacket, ReceiveNew
<1>2. /\ win \in RWindowType /\ InOrder(win)
      /\ \A s \in SSlots : Held(s) \/ s = m.seq =>
           sWin[s].pkt <= Len(file) \/ (s \in RSlots /\ win[s].received
                                                     /\ win[s].pkt = sWin[s].pkt)
  BY <1>1, StoredInOrder
<1>3. PICK k \in 0 .. W :
        /\ ReceivedRun(win, k)
        /\ \/ WriteRun(win, k, m)
           \/ \E f \in 1 .. k : WriteFails(win, f)
  BY DEF ReceiveNew, Stored
<1> HIDE DEF win
<1>4. sPc # "start" /\ sPc' = sPc
  BY <1>1, EmptySingle DEF LoopbackInv, LoneInv, sVars
<1>5. CASE \E f \in 1 .. k : WriteFails(win, f)
  <2>1. PICK f \in 1 .. k : WriteFails(win, f)  BY <1>5
  <2>2. rResult' # "running" /\ file' = file \o Run(win, f - 1)  BY <2>1 DEF WriteFails
  <2>3. f - 1 \in 0 .. k  OBVIOUS
  <2>4. \A i \in DOMAIN file' : file'[i] = i
    BY <1>1, <1>2, <1>3, <2>2, <2>3, RunInOrder DEF LoopbackInv
  <2>5. OrderInv'  BY <2>2, <2>4 DEF OrderInv, WrittenInOrder
  <2>6. SentInv'  BY <1>1, <2>2, ReceivedSent
  <2>7. LoneInv'  BY <1>4, <2>2 DEF LoneInv
  <2> QED  BY <2>5, <2>6, <2>7 DEF LoopbackInv
<1>6. CASE WriteRun(win, k, m)
  <2>1. /\ OrderInv' /\ file' \in Seq(0 .. N) /\ Len(file') = Len(file) + k
        /\ \A s \in RSlots : win[s].received =>
             (rWin'[s].received /\ rWin'[s].pkt = win[s].pkt) \/ win[s].pkt <= Len(file')
    BY <1>1, <1>2, <1>3, <1>6, WrittenRun
  <2>2. Len(file) \in Nat /\ sWin \in WindowType /\ sWin' = sWin
    <3>1. file \in Seq(0 .. N) /\ sWin \in WindowType  BY DEF IInv, TypeOK, WindowType
    <3> QED  BY <1>1, <3>1 DEF sVars
  <2>3. \A s \in SSlots : Held(s) \/ s = m.seq => Held(s)'
    <3> SUFFICES ASSUME NEW s \in SSlots, Held(s) \/ s = m.seq PROVE Held(s)'
      OBVIOUS
    <3>1. sWin'[s].pkt = sWin[s].pkt /\ sWin[s].pkt \in Nat  BY <2>2 DEF WindowType
    <3>2. CASE sWin[s].pkt <= Len(file)
      <4>1. sWin[s].pkt <= Len(file')  BY <2>1, <2>2, <3>1, <3>2
      <4> QED  BY <3>1, <4>1 DEF Held
    <3>3. CASE s \in RSlots /\ win[s].received /\ win[s].pkt = sWin[s].pkt
      BY <2>1, <3>1, <3>3 DEF Held
    <3> QED  BY <1>2, <3>2, <3>3
  <2>4. SentInv'  BY <1>1, <2>1, <2>2, <2>3, ReceivedSent
  <2>5. CASE rResult' # "running"
    <3>1. LoneInv'  BY <1>4, <2>5 DEF LoneInv
    <3> QED  BY <2>1, <2>4, <3>1 DEF LoopbackInv
  <2>6. CASE rResult' = "running"
    <3> DEFINE size == IF k = 0 THEN sizeReceived ELSE win[RSlot(k - 1)].pkt
    <3>1. PICK a \in OneOrNone(Ack(m.seq, m.pkt, size)) : toSender' = toSender (+) a (+) EmptyBag
      BY <1>6, <2>6 DEF WriteRun
    <3> HIDE DEF size
    <3>2. IsSingle(toSender) /\ \A b \in BagToSet(toSender) : b.seq # m.seq
      BY <1>1 DEF LoopbackInv, LoneInv
    <3>3. IsSingle(toSender (+) a)
      <4>1. Ack(m.seq, m.pkt, size).seq = m.seq  BY DEF Ack
      <4>2. a = SetToBag({}) \/ a = SetToBag({Ack(m.seq, m.pkt, size)})
        BY DEF OneOrNone, EmptyBag
      <4>3. {Ack(m.seq, m.pkt, size)} \cap BagToSet(toSender) = {}  BY <3>2, <4>1
      <4> QED  BY <3>2, <4>2, <4>3, SinglePlus
    <3>4. toSender' = toSender (+) a
      <4> DEFINE B == toSender (+) a
      <4>1. EmptyBag = SetToBag({})  BY DEF EmptyBag
      <4> HIDE DEF B
      <4>2. IsSingle(B)  BY <3>3 DEF B
      <4>3. IsSingle(B (+) EmptyBag) /\ BagToSet(B (+) EmptyBag) = BagToSet(B)
        BY <4>1, <4>2, SinglePlus
      <4>4. B (+) EmptyBag = B  BY <4>2, <4>3 DEF IsSingle
      <4> QED  BY <3>1, <4>4 DEF B
    <3>5. LoneInv'  BY <1>1, <2>3, <3>1, <3>4, AckLone
    <3> QED  BY <2>1, <2>4, <3>5 DEF LoopbackInv
  <2> QED  BY <2>5, <2>6
<1> QED  BY <1>3, <1>5, <1>6

\* Whatever the receiver gets.
LEMMA ReceivePacketLoopback ==
  ASSUME IInv, LoopbackInv, NEW m \in BagToSet(toReceiver), ReceivePacket(m)
  PROVE  LoopbackInv'
<1>1. CASE ReceiveError(m)
  <2>1. rResult' # "running" /\ file' = << >> /\ UNCHANGED sVars /\ sPc # "start"
    BY <1>1, EmptySingle DEF ReceiveError, ReceivePacket, LoopbackInv, LoneInv
  <2>2. OrderInv'  BY <2>1 DEF OrderInv, WrittenInOrder
  <2>3. SentInv'  BY <2>1, ReceivedSent
  <2>4. LoneInv'  BY <2>1 DEF LoneInv, sVars
  <2> QED  BY <2>2, <2>3, <2>4 DEF LoopbackInv
<1>2. CASE ReceiveDuplicate(m)  BY <1>2, DuplicateLoopback
<1>3. CASE ReceiveNew(m)  BY <1>3, NewLoopback
<1> QED  BY <1>1, <1>2, <1>3 DEF ReceivePacket

LEMMA LoopbackStep ==
  ASSUME ~EarlyTimeouts
  PROVE  IInv /\ LoopbackInv /\ [Next]_vars => LoopbackInv'
<1> SUFFICES ASSUME IInv, LoopbackInv, [Next]_vars PROVE LoopbackInv'
  OBVIOUS
<1>1. CASE SendWindow  BY <1>1, SendWindowLoopback
<1>2. CASE Timeout  BY <1>2, TimeoutLoopback
<1>3. ASSUME NEW m \in BagToSet(toSender), ReceiveAck(m) PROVE LoopbackInv'
  BY <1>3, ReceiveAckLoopback
<1>4. ASSUME NEW m \in BagToSet(toSender), Drain(m) PROVE LoopbackInv'
  BY <1>4, DrainLoopback
<1>5. CASE SenderReturn  BY <1>5, SenderReturnLoopback
<1>6. ASSUME NEW m \in BagToSet(toReceiver), ReceivePacket(m) PROVE LoopbackInv'
  BY <1>6, ReceivePacketLoopback
<1>7. CASE Lose  BY <1>7, LoseLoopback
<1>8. CASE UNCHANGED vars
  BY <1>8 DEF LoopbackInv, OrderInv, WrittenInOrder, SentInv, LoneInv, Held, IsSingle,
              vars, sVars, rVars
<1> QED  BY <1>1, <1>2, <1>3, <1>4, <1>5, <1>6, <1>7, <1>8
         DEF Next, SenderStep, ReceiverStep, Finished

-----------------------------------------------------------------------------
(* The two ends                                                            *)

\* What is in flight once the sender has returned.
LEMMA CleanStep ==
  ASSUME ~EarlyTimeouts
  PROVE  IInv /\ CleanInv /\ [Next]_vars => CleanInv'
<1> SUFFICES ASSUME IInv, CleanInv, [Next]_vars PROVE CleanInv'
  OBVIOUS
<1>1. CASE SenderReturn
  <2>1. toSender = EmptyBag /\ (rResult = "running" => toReceiver = EmptyBag)
    BY <1>1 DEF SenderReturn, DrainEnds, CanTimeout, IsQuiet
  <2>2. toSender' = toSender /\ rResult' = rResult  BY <1>1 DEF SenderReturn, rVars
  <2>3. rResult = "running" => BagToSet(toReceiver') \subseteq {ErrorPacket}
    <3>1. CASE toReceiver' = toReceiver  BY <2>1, <3>1, NoBag
    <3>2. CASE toReceiver' = toReceiver (+) SetToBag({ErrorPacket})
      BY <2>1, <3>2, NoBag, SetBag, BagSum
    <3> QED  BY <1>1, <3>1, <3>2 DEF SenderReturn
  <2> QED  BY <2>1, <2>2, <2>3 DEF CleanInv
<1>2. ASSUME NEW m \in BagToSet(toReceiver), ReceivePacket(m) PROVE CleanInv'
  <2> SUFFICES ASSUME sPc = "done"
               PROVE  toSender' = EmptyBag /\ rResult' # "running"
    BY <1>2 DEF CleanInv, ReceivePacket, sVars
  <2>1. rResult = "running" /\ m = ErrorPacket /\ toSender = EmptyBag
    BY <1>2 DEF ReceivePacket, CleanInv
  <2>2. ReceiveError(m)
    BY <1>2, <2>1 DEF ReceivePacket, ReceiveDuplicate, ReceiveNew, ErrorPacket, Packet
  <2> QED  BY <2>1, <2>2 DEF ReceiveError
<1>3. CASE Lose
  <2> SUFFICES ASSUME sPc = "done"
               PROVE  /\ toSender' = EmptyBag
                      /\ BagToSet(toReceiver') \subseteq BagToSet(toReceiver)
    BY <1>3 DEF CleanInv, Lose, sVars, rVars
  <2>1. BagToSet(toSender) = {} /\ toSender = EmptyBag  BY NoBag DEF CleanInv
  <2>2. PICK m : toReceiver' = toReceiver (-) SetToBag({m}) /\ toSender' = toSender
    BY <1>3, <2>1 DEF Lose
  <2> QED  BY <2>1, <2>2, BagLess DEF IInv, TypeOK
<1>4. CASE SendWindow \/ Timeout
  BY <1>4 DEF SendWindow, Timeout, CleanInv
<1>5. ASSUME NEW m \in BagToSet(toSender), ReceiveAck(m) \/ Drain(m) PROVE CleanInv'
  BY <1>5 DEF ReceiveAck, Drain, CleanInv
<1>6. CASE UNCHANGED vars  BY <1>6 DEF CleanInv, vars, sVars, rVars
<1> QED  BY <1>1, <1>2, <1>3, <1>4, <1>5, <1>6 DEF Next, SenderStep, ReceiverStep, Finished

\* The receiver that is done has sent its final acknowledgements.
LEMMA FinalAckSent ==
  ASSUME TypeOK, NEW m \in DataPacket, NEW win \in RWindowType, NEW k \in 0 .. W,
         \/ WriteRun(win, k, m)
         \/ \E f \in 1 .. k : WriteFails(win, f),
         rResult' = "EXIT_SUCCESS"
  PROVE  \E a \in BagToSet(toSender') : a.seq = SEQ_NUM_ERROR
<1> SUFFICES \E B, write : /\ IsABag(B) /\ write \in 0 .. N
                           /\ toSender' = B (+) FinalAcks(write)
  <2>1. ASSUME NEW B, IsABag(B), NEW write \in 0 .. N, toSender' = B (+) FinalAcks(write)
        PROVE  \E a \in BagToSet(toSender') : a.seq = SEQ_NUM_ERROR
    <3>1. FinalAck(write) \in BagToSet(toSender') /\ FinalAck(write).seq = SEQ_NUM_ERROR
      BY <2>1, FinalAcksType, BagSum
    <3> QED  BY <3>1
  <2> QED  BY <2>1
<1>1. IsABag(toSender) /\ \A j \in Nat : win[RSlot(j)].pkt \in 0 .. N
  <2>1. \A j \in Nat : RSlot(j) \in RSlots  BY RunType DEF RWindowType
  <2> QED  BY <2>1 DEF TypeOK, RWindowType
<1>2. CASE WriteRun(win, k, m)
  <2> DEFINE size == IF k = 0 THEN sizeReceived ELSE win[RSlot(k - 1)].pkt
  <2>1. size \in 0 .. N  BY <1>1 DEF TypeOK
  <2>2. PICK a \in OneOrNone(Ack(m.seq, m.pkt, size)) :
          toSender' = toSender (+) a (+) FinalAcks(size)
    BY <1>2 DEF WriteRun
  <2> HIDE DEF size
  <2>3. IsABag(a)
    <3>1. m.seq \in SSlots /\ m.pkt \in 0 .. N  BY DEF DataPacket
    <3> QED  BY <2>1, <3>1, AckType
  <2>4. IsABag(toSender (+) a)  BY <1>1, <2>3, BagSum
  <2> QED  BY <2>1, <2>2, <2>4
<1>3. CASE \E f \in 1 .. k : WriteFails(win, f)
  <2>1. PICK f \in 1 .. k : WriteFails(win, f)  BY <1>3
  <2>2. f - 1 \in Nat /\ toSender' = toSender (+) FinalAcks(win[RSlot(f - 1)].pkt)
    BY <2>1 DEF WriteFails
  <2> QED  BY <1>1, <2>2
<1> QED  BY <1>2, <1>3

\* What the two ends know of each other if the network loses nothing.
LEMMA QuietStep ==
  ASSUME ~EarlyTimeouts, ~NetworkLoses
  PROVE  IInv /\ LoopbackInv /\ CleanInv /\ QuietInv /\ [Next]_vars => QuietInv'
<1> SUFFICES ASSUME IInv, LoopbackInv, CleanInv, QuietInv, [Next]_vars PROVE QuietInv'
  OBVIOUS
<1> USE DEF QuietInv
<1>1. maxErrors \in Nat /\ MaxErrors \in Nat \ {0} /\ TypeOK  BY DEF IInv, TypeOK
<1>2. CASE SendWindow
  <2>1. rResult = "running"  BY <1>2 DEF SendWindow, LoopbackInv, LoneInv
  <2> QED  BY <1>2, <2>1 DEF SendWindow, rVars
<1>3. CASE Timeout
  <2>1. IsQuiet /\ sPc = "wait"  BY <1>3 DEF Timeout, CanTimeout
  <2>2. BagToSet(toSender) = {}  BY <2>1, NoBag DEF IsQuiet
  <2>3. sResult = "running"  BY <2>1 DEF IInv, SenderInv
  <2>4. rResult = "running"  BY <1>1, <2>1, <2>2, <2>3 DEF TypeOK
  <2>5. toSender = EmptyBag /\ toReceiver = EmptyBag  BY <2>1, <2>4 DEF IsQuiet
  <2>6. UNCHANGED <<rVars, sResult, toSender>>
        /\ (sPc' = "drain" => toReceiver' = toReceiver)
    BY <1>3, <2>1 DEF Timeout
  <2> QED  BY <2>3, <2>4, <2>5, <2>6 DEF rVars
<1>4. ASSUME NEW m \in BagToSet(toSender), ReceiveAck(m) PROVE QuietInv'
  <2>1. maxErrors' = 0 /\ UNCHANGED <<rVars, sResult>> /\ sPc = "wait"
        /\ toSender' = toSender (-) SetToBag({m})
    BY <1>4 DEF ReceiveAck
  <2>2. ASSUME sPc' = "wait", rResult' = "EXIT_SUCCESS"
        PROVE  \E a \in BagToSet(toSender') : a.seq = SEQ_NUM_ERROR
    <3>1. m.seq # SEQ_NUM_ERROR  BY <1>4, <2>2 DEF ReceiveAck, IsTerminal
    <3>2. PICK a \in BagToSet(toSender) : a.seq = SEQ_NUM_ERROR
      BY <2>1, <2>2 DEF rVars
    <3>3. a \in BagToSet(toSender')
      BY <2>1, <3>1, <3>2, OthersStay DEF IInv, TypeOK
    <3> QED  BY <3>2, <3>3
  <2>3. sResult = "running"  BY <2>1 DEF IInv, SenderInv
  <2> QED  BY <1>1, <2>1, <2>2, <2>3 DEF rVars
<1>5. ASSUME NEW m \in BagToSet(toSender), Drain(m) PROVE QuietInv'
  <2>1. BagToSet(toSender) # {}  OBVIOUS
  <2>2. toSender # EmptyBag  BY <2>1, NoBag
  <2> QED  BY <1>5, <2>2 DEF Drain, rVars
<1>6. CASE SenderReturn
  <2>1. sPc = "drain" /\ sPc' = "done" /\ UNCHANGED <<rVars, maxErrors>>
        /\ sResult = "running"
    BY <1>6 DEF SenderReturn, IInv, SenderInv
  <2>2. sResult' = "TRANSFER_ERROR" => maxErrors >= MaxErrors
    BY <1>1, <1>6 DEF SenderReturn, TypeOK, WRITE_BYTE_ERROR
  <2>3. rResult # "TRANSFER_ERROR"  BY <2>1
  <2>4. sResult' = "TRANSFER_ERROR" => rResult = "running"  BY <2>1, <2>2
  <2> QED  BY <2>1, <2>3, <2>4 DEF rVars
<1>7. ASSUME NEW m \in BagToSet(toReceiver), ReceivePacket(m) PROVE QuietInv'
  <2>1. rResult = "running" /\ UNCHANGED sVars  BY <1>7 DEF ReceivePacket
  <2>2. ~(sPc = "drain" /\ maxErrors >= MaxErrors)
    <3>1. BagToSet(toReceiver) # {}  OBVIOUS
    <3> QED  BY <3>1, NoBag
  <2>3. CASE ReceiveError(m)
    <3>1. rResult' = "TRANSFER_ERROR" /\ sResult = "TRANSFER_ERROR"
      BY <2>3 DEF ReceiveError, IInv, NetworkInv
    <3> QED  BY <2>1, <2>2, <3>1 DEF sVars
  <2>4. CASE ReceiveDuplicate(m)
    <3>1. rResult' = "running"  BY <2>1, <2>4 DEF ReceiveDuplicate
    <3> QED  BY <2>1, <2>2, <3>1 DEF sVars
  <2>5. CASE ReceiveNew(m)
    <3>1. rResult' \in {"running", "EXIT_SUCCESS"}
      BY <2>5 DEF ReceiveNew, WriteRun, WriteFails
    <3>2. rResult' = "EXIT_SUCCESS" => \E a \in BagToSet(toSender') : a.seq = SEQ_NUM_ERROR
      <4> DEFINE win == Stored(m)
      <4>1. m \in DataPacket  BY <1>1, <2>5, DataType DEF ReceiveNew
      <4>2. win \in RWindowType  BY <1>1, <4>1, StoredType DEF RWindowType, Stored
      <4>3. PICK k \in 0 .. W : \/ WriteRun(win, k, m)
                              \/ \E f \in 1 .. k : WriteFails(win, f)
        BY <2>5 DEF ReceiveNew, Stored
      <4> HIDE DEF win
      <4> QED  BY <1>1, <4>1, <4>2, <4>3, FinalAckSent
    <3>3. sResult # "TRANSFER_ERROR"
      <4>1. m.seq # SEQ_NUM_ERROR  BY <2>5 DEF ReceiveNew
      <4>2. sPc # "done"  BY <2>1, <4>1 DEF CleanInv, ErrorPacket, Packet
      <4> QED  BY <4>2 DEF IInv, SenderInv
    <3> QED  BY <2>1, <2>2, <3>1, <3>2, <3>3 DEF sVars
  <2> QED  BY <1>7, <2>3, <2>4, <2>5 DEF ReceivePacket
<1>8. CASE UNCHANGED vars  BY <1>8 DEF vars, sVars, rVars
<1> QED  BY <1>2, <1>3, <1>4, <1>5, <1>6, <1>7, <1>8
         DEF Next, SenderStep, ReceiverStep, Finished, Lose

-----------------------------------------------------------------------------
(* The theorems                                                            *)

\* A timeout that is never early leaves one copy of each datagram, of the packet that is
\* in its slot.
LEMMA LoopbackHolds ==
  ASSUME ~EarlyTimeouts
  PROVE  Spec => [](IInv /\ LoopbackInv /\ CleanInv)
<1>1. Init => IInv /\ LoopbackInv /\ CleanInv
  BY InitInv, InitLoopback DEF Init, CleanInv
<1>2. IInv /\ LoopbackInv /\ CleanInv /\ [Next]_vars => (IInv /\ LoopbackInv /\ CleanInv)'
  BY StepInv, LoopbackStep, CleanStep
<1> QED  BY <1>1, <1>2, PTL DEF Spec

\* wait_ack counts an acknowledgement for its slot whatever the packet in it: without
\* early timeouts no acknowledgement ever counts for another packet.
THEOREM AckedIsReceivedHolds ==
  ASSUME ~EarlyTimeouts
  PROVE  Spec => []AckedIsReceived
<1>1. IInv /\ LoopbackInv => AckedIsReceived
  <2> SUFFICES ASSUME IInv, LoopbackInv, rResult = "running", NEW s \in SSlots, sWin[s].ack
               PROVE  \/ rWin[s].received /\ rWin[s].pkt = sWin[s].pkt
                      \/ \E n \in DOMAIN file : file[n] = sWin[s].pkt
    BY DEF AckedIsReceived
  <2>1. Held(s)  BY DEF LoopbackInv, SentInv
  <2>2. CASE sWin[s].pkt <= Len(file)
    <3>1. file \in Seq(0 .. N) /\ sWin[s].pkt \in 1 .. N  BY DEF IInv, TypeOK
    <3>2. sWin[s].pkt \in DOMAIN file  BY <2>2, <3>1
    <3> QED  BY <3>2 DEF LoopbackInv, OrderInv, WrittenInOrder
  <2> QED  BY <2>1, <2>2 DEF Held
<1> QED  BY <1>1, LoopbackHolds, PTL

\* receive_data_from_sender writes the file in the order of the source, even if its fwrite
\* fails or the network loses datagrams.
THEOREM WrittenInOrderHolds ==
  ASSUME ~EarlyTimeouts
  PROVE  Spec => []WrittenInOrder
<1>1. LoopbackInv => WrittenInOrder  BY DEF LoopbackInv, OrderInv
<1> QED  BY <1>1, LoopbackHolds, PTL

\* main_sender's last loop leaves its socket empty for the dialogue of commands.
THEOREM SenderSocketIsCleanHolds ==
  ASSUME ~EarlyTimeouts
  PROVE  Spec => []SenderSocketIsClean
<1>1. CleanInv => SenderSocketIsClean  BY DEF CleanInv, SenderSocketIsClean, Over
<1> QED  BY <1>1, LoopbackHolds, PTL

\* main_sender and main_receiver return the same, if the network loses nothing.
THEOREM OutcomesAgreeHolds ==
  ASSUME ~EarlyTimeouts, ~NetworkLoses
  PROVE  Spec => []OutcomesAgree
<1>1. Init => QuietInv  BY NoBag DEF Init, QuietInv
<1>2. IInv /\ LoopbackInv /\ CleanInv /\ QuietInv /\ [Next]_vars => QuietInv'
  BY QuietStep
<1>3. IInv /\ QuietInv => OutcomesAgree
  <2> SUFFICES ASSUME IInv, QuietInv, sPc = "done", rResult # "running"
               PROVE  sResult = rResult
    BY DEF OutcomesAgree, Over
  <2>1. /\ sResult \in {"EXIT_SUCCESS", "TRANSFER_ERROR"}
        /\ rResult \in {"EXIT_SUCCESS", "TRANSFER_ERROR"}
    BY DEF IInv, TypeOK, SenderInv
  <2>2. sResult = "EXIT_SUCCESS" => rResult = "EXIT_SUCCESS"  BY DEF IInv, SenderInv
  <2> QED  BY <2>1, <2>2 DEF QuietInv
<1> QED  BY <1>1, <1>2, <1>3, LoopbackHolds, PTL DEF Spec
=============================================================================
