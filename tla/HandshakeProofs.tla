---------------------------- MODULE HandshakeProofs ----------------------------
(***************************************************************************)
(* Proofs about Handshake, for any number of clients, slots and mishaps.   *)
(***************************************************************************)
EXTENDS HandshakeProperties, ServerPoolProofs, SequenceTheorems, TLAPS

Request == Clients \X Texts

\* Sequences: what is left without the head, ...
LEMMA TailOf ==
  ASSUME NEW S, NEW s \in Seq(S), s # << >>
  PROVE  /\ Tail(s) \in Seq(S) /\ Head(s) \in S /\ Head(s) = s[1] /\ 1 \in DOMAIN s
         /\ Len(Tail(s)) = Len(s) - 1
         /\ \A i \in DOMAIN Tail(s) : i + 1 \in DOMAIN s /\ Tail(s)[i] = s[i + 1]
<1>1. /\ Tail(s) \in Seq(S) /\ Len(Tail(s)) = Len(s) - 1 /\ Head(s) \in S /\ Head(s) = s[1]
      /\ \A i \in 1 .. Len(Tail(s)) : Tail(s)[i] = s[i + 1]
      BY HeadTailProperties
<1>2. Len(s) \in Nat \ {0} /\ DOMAIN s = 1 .. Len(s)  BY EmptySeq, LenProperties
<1>3. DOMAIN Tail(s) = 1 .. Len(Tail(s))  BY <1>1, LenProperties
<1> QED  BY <1>1, <1>2, <1>3

\* ... and what a sequence is after another.
LEMMA ConcatOf ==
  ASSUME NEW S, NEW s \in Seq(S), NEW t \in Seq(S)
  PROVE  /\ s \o t \in Seq(S) /\ Len(s \o t) = Len(s) + Len(t)
         /\ \A i \in DOMAIN s : i \in DOMAIN (s \o t) /\ (s \o t)[i] = s[i]
         /\ \A i \in DOMAIN (s \o t) : \/ i \in DOMAIN s /\ (s \o t)[i] = s[i]
                                      \/ /\ i \notin DOMAIN s /\ i - Len(s) \in DOMAIN t
                                         /\ (s \o t)[i] = t[i - Len(s)]
<1>1. /\ s \o t \in Seq(S) /\ Len(s \o t) = Len(s) + Len(t)
      /\ \A i \in 1 .. Len(s) + Len(t) :
           (s \o t)[i] = IF i <= Len(s) THEN s[i] ELSE t[i - Len(s)]
      BY ConcatProperties
<1>2. /\ DOMAIN s = 1 .. Len(s) /\ DOMAIN t = 1 .. Len(t) /\ Len(s) \in Nat /\ Len(t) \in Nat
      /\ DOMAIN (s \o t) = 1 .. Len(s \o t)
      BY <1>1, LenProperties
<1> QED  BY <1>1, <1>2

\* Short sequences.
LEMMA ShortSeq ==
  ASSUME NEW S, NEW x \in S, NEW y \in S
  PROVE  /\ <<x>> \in Seq(S) /\ <<x, y>> \in Seq(S) /\ <<x>> \o <<y>> = <<x, y>>
         /\ Len(<<x>>) = 1 /\ <<x>>[1] = x /\ DOMAIN <<x>> = {1}
         /\ Len(<<x, y>>) = 2 /\ DOMAIN <<x, y>> = {1, 2}
<1>1. <<x>> \in Seq(S) /\ <<x, y>> \in Seq(S)  OBVIOUS
<1>2. Len(<<x>>) = 1 /\ <<x>>[1] = x /\ DOMAIN <<x>> = {1}  OBVIOUS
<1>3. Len(<<x, y>>) = 2 /\ DOMAIN <<x, y>> = {1, 2}  OBVIOUS
<1>4. <<x>> \o <<y>> = <<x, y>>
  <2>1. /\ <<x>> \o <<y>> \in Seq(S) /\ Len(<<x>> \o <<y>>) = 2
        /\ (<<x>> \o <<y>>)[1] = x /\ (<<x>> \o <<y>>)[2] = y
        BY <1>1, <1>2, ConcatProperties
  <2>2. \A i \in 1 .. 2 : (<<x>> \o <<y>>)[i] = <<x, y>>[i]  BY <2>1
  <2> QED  BY <1>1, <1>3, <2>1, <2>2, SeqEqual
<1> QED  BY <1>1, <1>2, <1>3, <1>4

\* What the two sides send is of the right type.
LEMMA Texting ==
  /\ <<"SYN">> \in Seq(Texts) /\ <<"ACK">> \in Seq(Texts) /\ <<"EXIT", "FIN">> \in Seq(Texts)
  /\ <<SynAck>> \in Seq(Replies)
  /\ \A p \in Ports : <<PortText(p)>> \in Seq(Replies)
  /\ BusyText \in Seq(Replies)
  /\ <<Busy>> \o <<PortText(MaxClients)>> = <<Busy, PortText(MaxClients)>>
<1>1. MaxClients \in Ports  BY SlotsAssumption DEF Ports
<1>2. SynAck \in Replies /\ Busy \in Replies /\ \A p \in Ports : PortText(p) \in Replies
      BY DEF Replies
<1>3. "SYN" \in Texts /\ "ACK" \in Texts /\ "EXIT" \in Texts /\ "FIN" \in Texts  BY DEF Texts
<1>4. <<"SYN">> \in Seq(Texts) /\ <<"ACK">> \in Seq(Texts) /\ <<"EXIT", "FIN">> \in Seq(Texts)
      BY <1>3, ShortSeq
<1>5. /\ <<SynAck>> \in Seq(Replies) /\ \A p \in Ports : <<PortText(p)>> \in Seq(Replies)
      /\ <<Busy>> \in Seq(Replies)
      /\ <<Busy>> \o <<PortText(MaxClients)>> = <<Busy, PortText(MaxClients)>>
      BY <1>1, <1>2, ShortSeq
<1> QED  BY <1>4, <1>5 DEF BusyText

\* The texts of the parent differ.
LEMMA Different ==
  /\ SynAck # Busy /\ \A p, q \in Ports : PortText(p) # SynAck /\ PortText(p) # Busy
                                       /\ (PortText(p) = PortText(q) => p = q)
  /\ SynAck[2] = NoPort /\ Busy[2] = NoPort /\ \A p \in Ports : PortText(p)[2] = p
  /\ NoPort \notin Ports
BY SlotsAssumption DEF SynAck, Busy, PortText, NoPort, Ports

\* A client's datagrams come after those that are in the parent's socket.
LEMMA Sent ==
  ASSUME toServer \in Seq(Request), NEW c \in Clients, NEW ms \in Seq(Texts), SendToServer(c, ms)
  PROVE  /\ toServer' \in Seq(Request)
         /\ \A i \in DOMAIN toServer' :
              \/ i \in DOMAIN toServer /\ toServer'[i] = toServer[i]
              \/ /\ i \notin DOMAIN toServer /\ i - Len(toServer) \in DOMAIN ms
                 /\ toServer'[i] = <<c, ms[i - Len(toServer)]>>
<1> DEFINE qs == [i \in DOMAIN ms |-> <<c, ms[i]>>]
<1>1. DOMAIN ms = 1 .. Len(ms) /\ Len(ms) \in Nat /\ \A i \in DOMAIN ms : ms[i] \in Texts
      BY LenProperties, ElementOfSeq
<1>2. qs \in [1 .. Len(ms) -> Request]  BY <1>1 DEF Request
<1>3. qs \in Seq(Request) /\ DOMAIN qs = DOMAIN ms  BY <1>1, <1>2, SeqDef
<1>4. toServer' = toServer \/ toServer' = toServer \o qs  BY DEF SendToServer
<1> HIDE DEF qs
<1>5. /\ toServer \o qs \in Seq(Request)
      /\ \A i \in DOMAIN (toServer \o qs) :
           \/ i \in DOMAIN toServer /\ (toServer \o qs)[i] = toServer[i]
           \/ /\ i \notin DOMAIN toServer /\ i - Len(toServer) \in DOMAIN qs
              /\ (toServer \o qs)[i] = qs[i - Len(toServer)]
      BY <1>3, ConcatOf
<1>6. \A j \in DOMAIN ms : qs[j] = <<c, ms[j]>>  BY DEF qs
<1>7. CASE toServer' = toServer  BY <1>7
<1>8. CASE toServer' = toServer \o qs  BY <1>3, <1>5, <1>6, <1>8
<1> QED  BY <1>4, <1>7, <1>8

\* The parent's datagrams reach a client that has its first socket.
LEMMA Replied ==
  ASSUME toClient \in [Clients -> Seq(Replies)], NEW c \in Clients,
         NEW ms \in Seq(Replies), SendToClient(c, ms)
  PROVE  /\ toClient' \in [Clients -> Seq(Replies)]
         /\ \A d \in Clients \ {c} : toClient'[d] = toClient[d]
         /\ IF HasSocket(c) THEN toClient'[c] = toClient[c] \o ms ELSE toClient'[c] = toClient[c]
<1>1. toClient[c] \o ms \in Seq(Replies)  BY ConcatOf
<1> QED  BY <1>1 DEF SendToClient

\* A client, or the network, takes the first datagram out of a client's socket.
LEMMA Consumed ==
  ASSUME toClient \in [Clients -> Seq(Replies)], NEW c \in Clients, toClient[c] # << >>, Consume(c)
  PROVE  /\ toClient' \in [Clients -> Seq(Replies)]
         /\ \A d \in Clients \ {c} : toClient'[d] = toClient[d]
         /\ Head(toClient[c]) \in Replies /\ 1 \in DOMAIN toClient[c]
         /\ Head(toClient[c]) = toClient[c][1]
         /\ \A i \in DOMAIN toClient'[c] :
              i + 1 \in DOMAIN toClient[c] /\ toClient'[c][i] = toClient[c][i + 1]
<1>1. toClient'[c] = Tail(toClient[c]) /\ \A d \in Clients \ {c} : toClient'[d] = toClient[d]
      BY DEF Consume
<1>2. toClient[c] \in Seq(Replies)  OBVIOUS
<1>3. /\ Tail(toClient[c]) \in Seq(Replies)
      /\ Head(toClient[c]) \in Replies /\ Head(toClient[c]) = toClient[c][1]
      /\ 1 \in DOMAIN toClient[c]
      /\ \A i \in DOMAIN Tail(toClient[c]) :
           i + 1 \in DOMAIN toClient[c] /\ Tail(toClient[c])[i] = toClient[c][i + 1]
      BY <1>2, TailOf
<1>4. toClient' \in [Clients -> Seq(Replies)]  BY <1>3 DEF Consume
<1> QED  BY <1>1, <1>3, <1>4

\* A socket is closed.
LEMMA Emptied ==
  ASSUME toClient \in [Clients -> Seq(Replies)], NEW c \in Clients, Close(c)
  PROVE  /\ toClient' \in [Clients -> Seq(Replies)]
         /\ \A d \in Clients \ {c} : toClient'[d] = toClient[d]
         /\ toClient'[c] = << >>
<1>1. << >> \in Seq(Replies)  BY EmptySeq
<1> QED  BY <1>1 DEF Close

\* The parent takes the first datagram out of its socket.
LEMMA Taken ==
  ASSUME toServer \in Seq(Request), ParentReads
  PROVE  /\ toServer' \in Seq(Request) /\ toServer' = Tail(toServer) /\ toServer # << >>
         /\ Sender \in Clients /\ Text \in Texts
         /\ 1 \in DOMAIN toServer /\ toServer[1] = <<Sender, Text>>
         /\ \A i \in DOMAIN toServer' :
              i + 1 \in DOMAIN toServer /\ toServer'[i] = toServer[i + 1]
<1>1. /\ Tail(toServer) \in Seq(Request) /\ Head(toServer) \in Request
      /\ Head(toServer) = toServer[1] /\ 1 \in DOMAIN toServer
      /\ \A i \in DOMAIN Tail(toServer) :
           i + 1 \in DOMAIN toServer /\ Tail(toServer)[i] = toServer[i + 1]
      BY TailOf DEF ParentReads
<1>2. toServer' = Tail(toServer) /\ toServer # << >>  BY DEF ParentReads
<1>3. Sender \in Clients /\ Text \in Texts /\ Head(toServer) = <<Sender, Text>>
      BY <1>1 DEF Request, Sender, Text
<1> QED  BY <1>1, <1>2, <1>3

ClientStates == {"start", "synack", "port", "connected", "served", "closing", "stuck", "refused",
           "busy", "failed", "left"}

-----------------------------------------------------------------------------
\* A failed attempt keeps the types.
LEMMA RetryType ==
  ASSUME HandshakeTypeOK, NEW c \in Clients, cPc[c] = "synack", Retry(c)
  PROVE  /\ attempts' \in [Clients -> 0 .. Attempts] /\ cPc' \in [Clients -> ClientStates]
         /\ \A d \in Clients \ {c} : attempts'[d] = attempts[d] /\ cPc'[d] = cPc[d]
         /\ attempts'[c] = 0 <=> cPc'[c] = "refused"
         /\ cPc'[c] \in {"synack", "refused"}
         /\ toServer' \in Seq(Request)
<1>1. attempts[c] \in 1 .. Attempts  BY AttemptsAssumption DEF HandshakeTypeOK
<1>2. /\ attempts' \in [Clients -> 0 .. Attempts]
      /\ \A d \in Clients \ {c} : attempts'[d] = attempts[d]
      BY <1>1, AttemptsAssumption DEF HandshakeTypeOK, Retry, LeftAfter
<1>3. \/ attempts'[c] = 0 /\ Proceed(c, "refused") /\ UNCHANGED toServer
      \/ attempts'[c] # 0 /\ Proceed(c, "synack") /\ SendToServer(c, <<"SYN">>)
      BY DEF Retry, IsExhausted
<1>4. toServer' \in Seq(Request)  BY <1>3, Sent, Texting DEF HandshakeTypeOK, Request
<1>5. cPc \in [Clients -> ClientStates]  BY DEF HandshakeTypeOK, ClientStates
<1> QED  BY <1>2, <1>3, <1>4, <1>5 DEF Proceed, ClientStates
-----------------------------------------------------------------------------
(* Every step is one of the server's processes, or leaves them alone       *)

\* What a client does to the server's processes: its session ends, or nothing.
LEMMA ClientPool ==
  ASSUME NEW c \in Clients, Connect(c) \/ ClientStep(c) \/ Leave(c) \/ InterruptClient(c)
  PROVE  /\ UNCHANGED addr
         /\ \/ Leave(c) /\ \E p \in Procs : p \in Bound(port[c]) /\ SessionEnds(p)
            \/ ~Leave(c) /\ UNCHANGED vars
<1>1. CASE Leave(c)  BY <1>1 DEF Leave, Bound
<1>2. CASE ~Leave(c)
  BY <1>2 DEF Connect, ClientStep, SynAckRead, SynAckTimesOut, PortRead, FirstCommand, Closed,
              InterruptClient, server
<1> QED  BY <1>1, <1>2 DEF Leave

LEMMA PoolStep == [HandshakeNext]_handshakeVars => [Next]_vars
<1> SUFFICES ASSUME [HandshakeNext]_handshakeVars  PROVE [Next]_vars  OBVIOUS
<1>1. ASSUME NEW c \in Clients, Connect(c) \/ ClientStep(c) \/ Leave(c) \/ InterruptClient(c)
      PROVE  [Next]_vars
  BY <1>1, ClientPool DEF Next, Environment
<1>2. CASE ServerStep
  <2>1. SynArrives \/ NoSyn \/ AckArrives \/ NoAck \/ Scan \/ Fork \/ Inside
    BY <1>2 DEF ServerStep, SynRead, NothingRead, AckRead, SearchSlot, ForkChild
  <2> QED  BY <2>1 DEF Inside, Next, ParentStep, Environment
<1>3. CASE \E p \in Clients : ChildWorks(p)
  BY <1>3 DEF Clients, ChildWorks, Next, ChildStep
<1>4. CASE Lose \/ UNCHANGED handshakeVars  BY <1>4 DEF Lose, server, handshakeVars
<1> QED  BY <1>1, <1>2, <1>3, <1>4 DEF HandshakeNext

\* No signal comes.
LEMMA NoSignal == ~Stopping /\ [HandshakeNext]_handshakeVars => ~Stopping'
<1> SUFFICES ASSUME ~Stopping, [HandshakeNext]_handshakeVars  PROVE ~Stopping'  OBVIOUS
<1>1. ASSUME NEW c \in Clients, Connect(c) \/ ClientStep(c) \/ Leave(c) \/ InterruptClient(c)
      PROVE  UNCHANGED pPc
  BY <1>1, ClientPool DEF SessionEnds, vars
<1>2. CASE ServerStep
  <2>1. SynArrives \/ NoSyn \/ AckArrives \/ NoAck \/ Scan \/ Fork \/ Inside
    BY <1>2 DEF ServerStep, SynRead, NothingRead, AckRead, SearchSlot, ForkChild
  <2> QED
    BY <2>1 DEF Inside, SynArrives, NoSyn, AckArrives, NoAck, Scan, Fork, ParentLoads,
                ParentStores, Record, Reap, Forget, NothingToReap, Stopping
<1>3. CASE \E p \in Clients : ChildWorks(p)
  BY <1>3 DEF ChildWorks, Start, ChildLoads, ChildStores, Stopping
<1>4. CASE Lose \/ UNCHANGED handshakeVars
  BY <1>4 DEF Lose, server, handshakeVars, vars, Stopping
<1> QED  BY <1>1, <1>2, <1>3, <1>4 DEF HandshakeNext, Stopping

-----------------------------------------------------------------------------
\* Every step keeps the types.
LEMMA HandshakeTypeStep ==
  HandshakeTypeOK /\ PortInv /\ [HandshakeNext]_handshakeVars => HandshakeTypeOK'
<1> SUFFICES ASSUME HandshakeTypeOK, PortInv, [HandshakeNext]_handshakeVars  PROVE HandshakeTypeOK'  OBVIOUS
<1>pool. TypeOK' /\ ~Stopping'  BY PoolStep, NextType, NoSignal DEF HandshakeTypeOK
<1>0. cPc \in [Clients -> ClientStates] /\ toServer \in Seq(Request) /\ toClient \in [Clients -> Seq(Replies)]
      BY DEF HandshakeTypeOK, ClientStates, Request
<1>1. ASSUME NEW c \in Clients, Connect(c)  PROVE HandshakeTypeOK'
  <2>1. toServer' \in Seq(Request)  BY <1>0, <1>1, Sent, Texting DEF Connect
  <2> QED  BY <1>pool, <1>1, <2>1 DEF HandshakeTypeOK, Connect, Proceed, Request, server
<1>2. ASSUME NEW c \in Clients, SynAckRead(c)  PROVE HandshakeTypeOK'
  <2>1. toClient' \in [Clients -> Seq(Replies)]  BY <1>0, <1>2, Consumed DEF SynAckRead
  <2>2. CASE Head(toClient[c]) = SynAck
    <3>1. toServer' \in Seq(Request)
          BY <1>0, <1>2, <2>2, Sent, Texting DEF SynAckRead, AnswerToSynAck
    <3>2. /\ cPc' = [cPc EXCEPT ![c] = "port"] /\ attempts' = [attempts EXCEPT ![c] = Attempts]
          /\ UNCHANGED <<port, addr, mishaps>>
          BY <1>2, <2>2 DEF SynAckRead, Proceed, EndAttempts, server
    <3> QED  BY <1>pool, <2>1, <3>1, <3>2, AttemptsAssumption DEF HandshakeTypeOK, Request
  <2>3. CASE Head(toClient[c]) # SynAck
    <3>1. Retry(c) /\ cPc[c] = "synack"  BY <1>2, <2>3 DEF SynAckRead
    <3>2. UNCHANGED <<port, server, mishaps>>  BY <1>2 DEF SynAckRead
    <3> QED  BY <1>pool, <2>1, <3>1, <3>2, RetryType DEF HandshakeTypeOK, Request, server, ClientStates
  <2> QED  BY <2>2, <2>3
<1>3. ASSUME NEW c \in Clients, SynAckTimesOut(c)  PROVE HandshakeTypeOK'
  <2>1. toClient' \in [Clients -> Seq(Replies)]
    <3>1. Close(c) \/ UNCHANGED toClient  BY <1>3 DEF SynAckTimesOut
    <3> QED  BY <1>0, <3>1, Emptied
  <2>2. Retry(c) /\ cPc[c] = "synack" /\ UNCHANGED <<port, server>>  BY <1>3 DEF SynAckTimesOut
  <2>3. mishaps' \subseteq AllMishaps
        BY <1>3, MishapsAssumption DEF SynAckTimesOut, Suffer, HandshakeTypeOK
  <2> QED  BY <1>pool, <2>1, <2>2, <2>3, RetryType DEF HandshakeTypeOK, Request, server, ClientStates
<1>4. ASSUME NEW c \in Clients, PortRead(c)  PROVE HandshakeTypeOK'
  <2>1. toClient' \in [Clients -> Seq(Replies)]  BY <1>0, <1>4, Emptied DEF PortRead
  <2>2. Head(toClient[c]) \in Replies  BY <1>0, <1>4, TailOf DEF PortRead
  <2>3. /\ Head(toClient[c])[2] \in Ports \cup {NoPort}
        /\ Head(toClient[c]) \notin {Busy, SynAck} => Head(toClient[c])[2] \in Ports
        BY <2>2, Different DEF Replies
  <2>4. /\ cPc' \in [Clients -> ClientStates] /\ cPc'[c] \in {"busy", "failed", "connected"}
        /\ cPc'[c] = "connected" => Head(toClient[c]) \notin {Busy, SynAck}
        /\ \A d \in Clients \ {c} : cPc'[d] = cPc[d]
        BY <1>0, <1>4 DEF PortRead, Proceed, ClientStates
  <2>5. /\ port' = [port EXCEPT ![c] = Head(toClient[c])[2]] /\ cPc[c] = "port"
        /\ UNCHANGED <<attempts, toServer, server, mishaps>>
        BY <1>4 DEF PortRead
  <2> QED  BY <1>pool, <2>1, <2>3, <2>4, <2>5 DEF HandshakeTypeOK, server, ClientStates
<1>5. ASSUME NEW c \in Clients, FirstCommand(c)  PROVE HandshakeTypeOK'
  BY <1>pool, <1>5, MishapsAssumption DEF HandshakeTypeOK, FirstCommand, Proceed, Suffer, server
<1>6. ASSUME NEW c \in Clients, Leave(c)  PROVE HandshakeTypeOK'
  BY <1>pool, <1>6 DEF HandshakeTypeOK, Leave, Proceed
<1>7. ASSUME NEW c \in Clients, InterruptClient(c)  PROVE HandshakeTypeOK'
  <2>1. toServer' \in Seq(Request)  BY <1>0, <1>7, Sent, Texting DEF InterruptClient
  <2> QED  BY <1>pool, <1>7, <2>1, MishapsAssumption, AttemptsAssumption
           DEF HandshakeTypeOK, InterruptClient, EndAttempts, Proceed, Suffer, Request, server
<1>8. ASSUME NEW c \in Clients, Closed(c)  PROVE HandshakeTypeOK'
  <2>1. toClient' \in [Clients -> Seq(Replies)]  BY <1>0, <1>8, Emptied DEF Closed
  <2> QED  BY <1>pool, <1>8, <2>1 DEF HandshakeTypeOK, Closed, Proceed, server
<1>9. CASE SynRead
  <2>1. toServer' \in Seq(Request) /\ Sender \in Clients  BY <1>0, <1>9, Taken DEF SynRead
  <2>2. toClient' \in [Clients -> Seq(Replies)]
        BY <1>0, <1>9, <2>1, Replied, Texting DEF SynRead
  <2> QED  BY <1>pool, <1>9, <2>1, <2>2 DEF HandshakeTypeOK, SynRead, clients, Request
<1>10. CASE AckRead
  <2>1. toServer' \in Seq(Request) /\ Sender \in Clients  BY <1>0, <1>10, Taken DEF AckRead
  <2> QED  BY <1>pool, <1>10, <2>1 DEF HandshakeTypeOK, AckRead, Recipient, clients, Request
<1>11. CASE SearchSlot \/ ForkChild
  <2>1. addr \in Clients
    <3>1. CASE SearchSlot
      <4>1. pPc = "scan"  BY <3>1 DEF SearchSlot, Scan
      <4> QED  BY <4>1 DEF PortInv, AddrInv, Accepting
    <3>2. CASE ForkChild
      <4>1. pPc = "fork"  BY <3>2 DEF ForkChild, Fork
      <4> QED  BY <4>1 DEF PortInv, AddrInv, Accepting
    <3> QED  BY <1>11, <3>1, <3>2
  <2>2. toClient' \in [Clients -> Seq(Replies)]
    <3>1. noClient \in Ports  BY DEF HandshakeTypeOK, TypeOK, Ports
    <3>2. UNCHANGED toClient \/ SendToClient(addr, BusyText) \/ SendToClient(addr, <<PortText(noClient)>>)
          BY <1>11 DEF SearchSlot, ForkChild
    <3> QED  BY <1>0, <2>1, <3>1, <3>2, Replied, Texting
  <2> QED  BY <1>pool, <1>11, <2>2 DEF HandshakeTypeOK, SearchSlot, ForkChild, clients
<1>12. CASE NothingRead \/ Inside \/ \E p \in Clients : ChildWorks(p)
  BY <1>pool, <1>12 DEF HandshakeTypeOK, NothingRead, Inside, ChildWorks, clients
<1>13. CASE Lose
  <2>1. toServer' \in Seq(Request) /\ toClient' \in [Clients -> Seq(Replies)]
    <3>1. CASE toServer # << >> /\ toServer' = Tail(toServer) /\ UNCHANGED toClient
      BY <1>0, <3>1, TailOf
    <3>2. CASE \E c \in Clients : toClient[c] # << >> /\ Consume(c) /\ UNCHANGED toServer
      BY <1>0, <3>2, Consumed
    <3> QED  BY <1>13, <3>1, <3>2 DEF Lose
  <2> QED  BY <1>pool, <1>13, <2>1, MishapsAssumption DEF HandshakeTypeOK, Lose, Suffer, clients, server, Request
<1>14. CASE UNCHANGED handshakeVars  BY <1>pool, <1>14 DEF HandshakeTypeOK, handshakeVars, clients, server
<1> QED  BY <1>1, <1>2, <1>3, <1>4, <1>5, <1>6, <1>7, <1>8, <1>9, <1>10, <1>11, <1>12, <1>13, <1>14
         DEF HandshakeNext, ClientStep, ServerStep

-----------------------------------------------------------------------------
\* A step of a client that learns nothing new about ports, and sends an ACK only when
\* it begins to wait for one, keeps the invariant.
LEMMA ClientInv ==
  ASSUME HandshakeTypeOK, PortInv, NEW c \in Clients,
         \A d \in Clients \ {c} : /\ cPc'[d] = cPc[d] /\ port'[d] = port[d]
                                  /\ toClient'[d] = toClient[d],
         \A i \in DOMAIN toClient'[c] : \E j \in DOMAIN toClient[c] : toClient'[c][i] = toClient[c][j],
         HasSocket(c)' \/ toClient'[c] = << >>,
         \A i \in DOMAIN toServer' :
           \/ i \in DOMAIN toServer /\ toServer'[i] = toServer[i]
           \/ /\ toServer'[i][1] = c
              /\ \/ toServer'[i][2] # "ACK"
                 \/ i = Len(toServer) + 1 /\ cPc[c] = "synack" /\ cPc'[c] = "port",
         OnlySynAcks(c) /\ cPc[c] \in AckSent => cPc'[c] \in AckSent,
         ~OnlySynAcks(c)' => cPc'[c] \in {"port", "stuck"},
         cPc[c] \in Answering /\ NoPortYet(c) => cPc'[c] \in Answering,
         Told(c)' \subseteq Told(c), UNCHANGED <<pPc, addr>>
  PROVE  /\ AckInv' /\ SocketInv' /\ PortGoesToWhoWaits' /\ AddrInv'
         /\ \A d \in Clients : Told(d)' \subseteq Told(d)
<1>1. \A d \in Clients \ {c} : /\ Told(d)' = Told(d) /\ HasSocket(d)' = HasSocket(d)
                              /\ OnlySynAcks(d)' = OnlySynAcks(d)
      BY DEF Told, HasSocket, OnlySynAcks
<1>2. OnlySynAcks(c) => OnlySynAcks(c)'  BY DEF OnlySynAcks
<1>3. \A i \in DOMAIN toServer : toServer[i][1] \in Clients
      BY ElementOfSeq DEF HandshakeTypeOK, Request
<1>4. cPc[c] = "synack" => OnlySynAcks(c)  BY DEF PortInv, PortGoesToWhoWaits, OnlySynAcks
<1>5. AckInv'
  <2>1. ASSUME NEW i \in DOMAIN toServer, toServer[i][2] = "ACK", toServer[i][1] = c
        PROVE  cPc[c] \in AckSent /\ OnlySynAcks(c)
        BY <2>1 DEF PortInv, AckInv, AckSent
  <2>2. ASSUME NEW i \in DOMAIN toServer', NEW j \in DOMAIN toServer',
               toServer'[i] = toServer'[j], toServer'[i][2] = "ACK"
        PROVE  i = j
    <3>1. CASE i \in DOMAIN toServer /\ toServer'[i] = toServer[i]
      <4>1. CASE j \in DOMAIN toServer /\ toServer'[j] = toServer[j]
        <5>1. AckInv  BY DEF PortInv
        <5>2. toServer[i] = toServer[j] /\ toServer[i][2] = "ACK"  BY <2>2, <3>1, <4>1
        <5> QED  BY <3>1, <4>1, <5>1, <5>2 DEF AckInv
      <4>2. CASE ~(j \in DOMAIN toServer /\ toServer'[j] = toServer[j])
        <5>1. toServer'[j][1] = c /\ cPc[c] = "synack"  BY <2>2, <4>2
        <5>2. toServer[i][1] = c /\ toServer[i][2] = "ACK"  BY <2>2, <3>1, <5>1
        <5> QED  BY <2>1, <3>1, <5>1, <5>2 DEF AckSent
      <4> QED  BY <4>1, <4>2
    <3>2. CASE ~(i \in DOMAIN toServer /\ toServer'[i] = toServer[i])
      BY <2>1, <2>2, <3>2 DEF AckSent
    <3> QED  BY <3>1, <3>2
  <2>3. ASSUME NEW i \in DOMAIN toServer', NEW d \in Clients, toServer'[i][1] = d,
               toServer'[i][2] = "ACK"
        PROVE  cPc'[d] \in AckSent /\ OnlySynAcks(d)'
    <3>1. CASE i \in DOMAIN toServer /\ toServer'[i] = toServer[i]
      <4>1. cPc[d] \in AckSent /\ OnlySynAcks(d)
            BY <2>3, <3>1 DEF PortInv, AckInv, AckSent
      <4>2. CASE d = c  BY <1>2, <4>1, <4>2
      <4>3. CASE d # c  BY <1>1, <4>1, <4>3
      <4> QED  BY <4>2, <4>3
    <3>2. CASE ~(i \in DOMAIN toServer /\ toServer'[i] = toServer[i])
      <4>1. d = c /\ cPc[c] = "synack" /\ cPc'[c] = "port"  BY <2>3, <3>2
      <4> QED  BY <1>2, <1>4, <4>1 DEF AckSent
    <3> QED  BY <3>1, <3>2
  <2>4. \A i \in DOMAIN toServer' : toServer'[i][1] \in Clients
    <3>1. ASSUME NEW i \in DOMAIN toServer'  PROVE toServer'[i][1] \in Clients
      BY <1>3, <3>1
    <3> QED  BY <3>1
  <2>5. \A i, j \in DOMAIN toServer' :
          toServer'[i] = toServer'[j] /\ toServer'[i][2] = "ACK" => i = j
        BY <2>2
  <2>6. \A i \in DOMAIN toServer' : toServer'[i][2] = "ACK" =>
          /\ cPc'[toServer'[i][1]] \in AckSent
          /\ \A k \in DOMAIN toClient'[toServer'[i][1]] : toClient'[toServer'[i][1]][k] = SynAck
        BY <2>3, <2>4 DEF OnlySynAcks
  <2> QED  BY <2>5, <2>6 DEF AckInv, AckSent, OnlySynAcks
<1>6. SocketInv'
  <2> SUFFICES ASSUME NEW d \in Clients, ~HasSocket(d)'  PROVE toClient'[d] = << >>
      BY DEF SocketInv
  <2> QED  BY <1>1 DEF PortInv, SocketInv
<1>7. PortGoesToWhoWaits'
  <2> SUFFICES ASSUME NEW d \in Clients, NEW i \in DOMAIN toClient'[d], toClient'[d][i] # SynAck
               PROVE  cPc'[d] \in {"port", "stuck"}
      BY DEF PortGoesToWhoWaits
  <2>1. CASE d = c  BY <2>1 DEF OnlySynAcks
  <2>2. CASE d # c  BY <2>2 DEF PortInv, PortGoesToWhoWaits
  <2> QED  BY <2>1, <2>2
<1>8. \A d \in Clients : Told(d)' \subseteq Told(d)  BY <1>1
<1>9. AddrInv'
  <2> SUFFICES ASSUME Accepting'  PROVE AddrInv'  BY DEF AddrInv
  <2>1. /\ addr \in Clients /\ cPc[addr] \in Answering /\ NoPortYet(addr)
        /\ \A i \in DOMAIN toServer : toServer[i] # <<addr, "ACK">>
        BY DEF PortInv, AddrInv, Accepting
  <2>2. cPc'[addr] \in Answering /\ NoPortYet(addr)'
    <3>1. CASE addr = c  BY <2>1, <3>1 DEF NoPortYet
    <3>2. CASE addr # c  BY <2>1, <3>2 DEF NoPortYet
    <3> QED  BY <3>1, <3>2
  <2>3. ASSUME NEW i \in DOMAIN toServer', toServer'[i] = <<addr, "ACK">>
        PROVE  FALSE
    <3>1. toServer'[i][1] = addr /\ toServer'[i][2] = "ACK"  BY <2>3
    <3>2. cPc[addr] = "synack"  BY <2>1, <2>3, <3>1
    <3> QED  BY <2>1, <3>2 DEF Answering, AckSent
  <2> QED  BY <2>1, <2>2, <2>3 DEF AddrInv
<1> QED  BY <1>5, <1>6, <1>7, <1>8, <1>9

\* A datagram that is gone from the parent's socket leaves each ACK alone.
LEMMA Shifted ==
  ASSUME HandshakeTypeOK, AckInv, toServer # << >>, toServer' = Tail(toServer)
  PROVE  /\ \A i \in DOMAIN toServer' : i + 1 \in DOMAIN toServer /\ toServer'[i] = toServer[i + 1]
         /\ \A i, j \in DOMAIN toServer' :
              toServer'[i] = toServer'[j] /\ toServer'[i][2] = "ACK" => i = j
         /\ \A i \in DOMAIN toServer' : toServer'[i] = toServer[1] => toServer[1][2] # "ACK"
<1>1. /\ 1 \in DOMAIN toServer
      /\ \A i \in DOMAIN toServer' : i + 1 \in DOMAIN toServer /\ toServer'[i] = toServer[i + 1]
      BY TailOf DEF HandshakeTypeOK
<1>2. toServer' \in Seq(Request)  BY TailOf DEF HandshakeTypeOK, Request
<1>3. DOMAIN toServer' \subseteq Nat \ {0}  BY <1>2, LenProperties
<1>4. ASSUME NEW i \in DOMAIN toServer', NEW j \in DOMAIN toServer',
             toServer'[i] = toServer'[j], toServer'[i][2] = "ACK"
      PROVE  i = j
  <2>1. i + 1 = j + 1  BY <1>1, <1>4 DEF AckInv
  <2> QED  BY <1>3, <2>1
<1>5. ASSUME NEW i \in DOMAIN toServer', toServer'[i] = toServer[1], toServer[1][2] = "ACK"
      PROVE  FALSE
  <2>1. i + 1 = 1  BY <1>1, <1>5 DEF AckInv
  <2> QED  BY <1>3, <2>1
<1> QED  BY <1>1, <1>4, <1>5

\* A step of the parent, or the network, that sends nothing but SYNACKs to all but the
\* client in hand.
LEMMA ServerInv ==
  ASSUME HandshakeTypeOK, PortInv, UNCHANGED cPc,
         \A i, j \in DOMAIN toServer' :
           toServer'[i] = toServer'[j] /\ toServer'[i][2] = "ACK" => i = j,
         \A i \in DOMAIN toServer' : \E k \in DOMAIN toServer : toServer'[i] = toServer[k],
         \A d \in Clients : \A i \in DOMAIN toClient'[d] :
           \/ toClient'[d][i] = SynAck
           \/ \E j \in DOMAIN toClient[d] : toClient'[d][i] = toClient[d][j]
           \/ Accepting /\ d = addr /\ HasSocket(d),
         \A d \in Clients : ~HasSocket(d) => toClient'[d] = toClient[d]
  PROVE  AckInv' /\ SocketInv' /\ PortGoesToWhoWaits'
<1>1. \A i \in DOMAIN toServer : toServer[i] \in Request
      BY ElementOfSeq DEF HandshakeTypeOK, Request
<1>2. \A d \in Clients : OnlySynAcks(d) /\ ~(Accepting /\ d = addr) => OnlySynAcks(d)'
      BY DEF OnlySynAcks
<1>3. AckInv'
  <2>1. ASSUME NEW i \in DOMAIN toServer', toServer'[i][2] = "ACK"
        PROVE  /\ cPc'[toServer'[i][1]] \in AckSent
               /\ \A k \in DOMAIN toClient'[toServer'[i][1]] : toClient'[toServer'[i][1]][k] = SynAck
    <3>1. PICK j \in DOMAIN toServer : toServer'[i] = toServer[j]  OBVIOUS
    <3>2. PICK d \in Clients : toServer[j] = <<d, "ACK">>  BY <1>1, <2>1, <3>1 DEF Request
    <3>3. cPc[d] \in AckSent /\ OnlySynAcks(d)  BY <3>2 DEF PortInv, AckInv
    <3>4. ~(Accepting /\ d = addr)  BY <3>2 DEF PortInv, AddrInv
    <3>5. \A k \in DOMAIN toClient'[d] : toClient'[d][k] = SynAck
          BY <1>2, <3>3, <3>4 DEF OnlySynAcks
    <3>6. toServer'[i][1] = d  BY <3>1, <3>2
    <3> QED  BY <3>3, <3>5, <3>6
  <2> QED  BY <2>1 DEF AckInv, OnlySynAcks
<1>4. SocketInv'
  <2> SUFFICES ASSUME NEW d \in Clients, ~HasSocket(d)'  PROVE toClient'[d] = << >>
      BY DEF SocketInv
  <2>1. ~HasSocket(d)  BY DEF HasSocket
  <2> QED  BY <2>1 DEF PortInv, SocketInv
<1>5. PortGoesToWhoWaits'
  <2> SUFFICES ASSUME NEW d \in Clients, NEW i \in DOMAIN toClient'[d], toClient'[d][i] # SynAck
               PROVE  cPc[d] \in {"port", "stuck"}
      BY DEF PortGoesToWhoWaits
  <2>1. CASE \E j \in DOMAIN toClient[d] : toClient'[d][i] = toClient[d][j]
    BY <2>1 DEF PortInv, PortGoesToWhoWaits
  <2>2. CASE Accepting /\ d = addr /\ HasSocket(d)
    BY <2>2 DEF PortInv, AddrInv, HasSocket, Answering, AckSent
  <2> QED  BY <2>1, <2>2
<1> QED  BY <1>3, <1>4, <1>5

\* What is not told is not known.
LEMMA NothingTold ==
  ASSUME HandshakeTypeOK, UNCHANGED <<cPc, port>>, NEW d \in Clients,
         \A i \in DOMAIN toClient'[d] :
           \/ toClient'[d][i] \in {SynAck, Busy}
           \/ \E j \in DOMAIN toClient[d] : toClient'[d][i] = toClient[d][j]
  PROVE  Told(d)' \subseteq Told(d)
<1>1. \A s \in Slots : PortText(s) \notin {SynAck, Busy}
      BY Different, SlotsAssumption DEF Slots, Ports
<1> SUFFICES ASSUME NEW s \in Told(d)'  PROVE s \in Told(d)  OBVIOUS
<1>2. s \in Slots /\ (\/ cPc[d] \in {"connected", "served"} /\ port[d] = s
                     \/ \E i \in DOMAIN toClient'[d] : toClient'[d][i] = PortText(s))
      BY DEF Told
<1> QED  BY <1>1, <1>2 DEF Told

\* The client in hand stays in hand.
LEMMA AddrStep ==
  ASSUME AddrInv, Accepting' => Accepting, UNCHANGED <<cPc, addr>>,
         \A i \in DOMAIN toServer' : \E k \in DOMAIN toServer : toServer'[i] = toServer[k],
         \A d \in Clients : \A i \in DOMAIN toClient'[d] :
           \/ toClient'[d][i] \in {SynAck, Busy}
           \/ \E j \in DOMAIN toClient[d] : toClient'[d][i] = toClient[d][j]
  PROVE  AddrInv'
<1> SUFFICES ASSUME Accepting'  PROVE AddrInv'  BY DEF AddrInv
<1>1. /\ addr \in Clients /\ cPc[addr] \in Answering /\ NoPortYet(addr)
      /\ \A i \in DOMAIN toServer : toServer[i] # <<addr, "ACK">>
      BY DEF AddrInv
<1>2. NoPortYet(addr)'  BY <1>1 DEF NoPortYet
<1> QED  BY <1>1, <1>2 DEF AddrInv

\* Of the client in hand nobody has a port.
LEMMA InHand ==
  ASSUME HandshakeTypeOK, PortInv, Accepting
  PROVE  addr \in Clients /\ Told(addr) = {}
<1>1. addr \in Clients /\ cPc[addr] \in Answering /\ NoPortYet(addr)
      BY DEF PortInv, AddrInv
<1>2. \A s \in Slots : PortText(s) \notin {SynAck, Busy}
      BY Different, SlotsAssumption DEF Slots, Ports
<1> QED  BY <1>1, <1>2 DEF Told, NoPortYet, Answering, AckSent

\* What a client does to itself and to nobody else.
LEMMA Own ==
  ASSUME HandshakeTypeOK, NEW c \in Clients, NEW p, Proceed(c, p)
  PROVE  cPc'[c] = p /\ \A d \in Clients \ {c} : cPc'[d] = cPc[d]
BY DEF Proceed, HandshakeTypeOK

\* A datagram that is no ACK is added to the parent's socket, or nothing is.
LEMMA Added ==
  ASSUME HandshakeTypeOK, NEW c \in Clients,
         \/ SendToServer(c, <<"SYN">>) \/ SendToServer(c, <<"EXIT", "FIN">>) \/ UNCHANGED toServer
  PROVE  \A i \in DOMAIN toServer' :
           \/ i \in DOMAIN toServer /\ toServer'[i] = toServer[i]
           \/ toServer'[i][1] = c /\ toServer'[i][2] # "ACK"
<1>1. toServer \in Seq(Request)  BY DEF HandshakeTypeOK, Request
<1>2. \A k \in DOMAIN <<"SYN">> : <<"SYN">>[k] # "ACK"  OBVIOUS
<1>3. \A k \in DOMAIN <<"EXIT", "FIN">> : <<"EXIT", "FIN">>[k] # "ACK"  OBVIOUS
<1>4. CASE SendToServer(c, <<"SYN">>)
  <2>1. \A i \in DOMAIN toServer' :
          \/ i \in DOMAIN toServer /\ toServer'[i] = toServer[i]
          \/ /\ i - Len(toServer) \in DOMAIN <<"SYN">>
             /\ toServer'[i] = <<c, <<"SYN">>[i - Len(toServer)]>>
        BY <1>1, <1>4, Sent, Texting
  <2> QED  BY <1>2, <2>1
<1>5. CASE SendToServer(c, <<"EXIT", "FIN">>)
  <2>1. \A i \in DOMAIN toServer' :
          \/ i \in DOMAIN toServer /\ toServer'[i] = toServer[i]
          \/ /\ i - Len(toServer) \in DOMAIN <<"EXIT", "FIN">>
             /\ toServer'[i] = <<c, <<"EXIT", "FIN">>[i - Len(toServer)]>>
        BY <1>1, <1>5, Sent, Texting
  <2> QED  BY <1>3, <2>1
<1> QED  BY <1>4, <1>5

\* A client that goes on with what is in its socket, or a part of it, and has not
\* connected, keeps the invariant.
LEMMA QuietInv ==
  ASSUME HandshakeTypeOK, PortInv, NEW c \in Clients,
         \A d \in Clients \ {c} : cPc'[d] = cPc[d] /\ toClient'[d] = toClient[d],
         UNCHANGED <<port, pPc, addr>>, cPc[c] # "busy",
         \A i \in DOMAIN toClient'[c] : \E j \in DOMAIN toClient[c] : toClient'[c][i] = toClient[c][j],
         HasSocket(c)' \/ toClient'[c] = << >>,
         \A i \in DOMAIN toServer' :
           \/ i \in DOMAIN toServer /\ toServer'[i] = toServer[i]
           \/ /\ toServer'[i][1] = c
              /\ \/ toServer'[i][2] # "ACK"
                 \/ i = Len(toServer) + 1 /\ cPc[c] = "synack" /\ cPc'[c] = "port",
         cPc[c] \in AckSent => cPc'[c] \in AckSent,
         cPc[c] \in {"port", "stuck"} => cPc'[c] \in {"port", "stuck"} \/ toClient'[c] = << >>,
         cPc'[c] \notin {"connected", "served"}
  PROVE  /\ AckInv' /\ SocketInv' /\ PortGoesToWhoWaits' /\ AddrInv'
         /\ \A d \in Clients : Told(d)' \subseteq Told(d)
<1>1. ~OnlySynAcks(c)' => cPc'[c] \in {"port", "stuck"}
  <2> SUFFICES ASSUME NEW i \in DOMAIN toClient'[c], toClient'[c][i] # SynAck
               PROVE  cPc'[c] \in {"port", "stuck"}
      BY DEF OnlySynAcks
  <2>1. PICK j \in DOMAIN toClient[c] : toClient[c][j] # SynAck  OBVIOUS
  <2>2. cPc[c] \in {"port", "stuck"}  BY <2>1 DEF PortInv, PortGoesToWhoWaits
  <2>3. toClient'[c] # << >>  OBVIOUS
  <2> QED  BY <2>2, <2>3
<1>2. Told(c)' \subseteq Told(c)  BY DEF Told
<1> QED  BY <1>1, <1>2, ClientInv DEF Answering

\* A failed attempt keeps the invariant.
LEMMA RetryInv ==
  ASSUME HandshakeTypeOK, PortInv, NEW c \in Clients, cPc[c] = "synack", Retry(c),
         UNCHANGED <<port, server>>,
         \A d \in Clients \ {c} : toClient'[d] = toClient[d],
         \A i \in DOMAIN toClient'[c] : \E j \in DOMAIN toClient[c] : toClient'[c][i] = toClient[c][j],
         IsExhausted(attempts'[c]) => toClient'[c] = << >>
  PROVE  /\ AckInv' /\ SocketInv' /\ PortGoesToWhoWaits' /\ AddrInv'
         /\ \A d \in Clients : Told(d)' \subseteq Told(d)
<1>1. /\ cPc'[c] \in {"synack", "refused"} /\ \A d \in Clients \ {c} : cPc'[d] = cPc[d]
      BY RetryType
<1>2. SendToServer(c, <<"SYN">>) \/ UNCHANGED toServer  BY DEF Retry
<1>3. cPc'[c] = "synack" \/ toClient'[c] = << >>  BY <1>1, RetryType DEF IsExhausted
<1>4. \A i \in DOMAIN toServer' :
        \/ i \in DOMAIN toServer /\ toServer'[i] = toServer[i]
        \/ toServer'[i][1] = c /\ toServer'[i][2] # "ACK"
      BY <1>2, Added
<1>5. HasSocket(c)' \/ toClient'[c] = << >>  BY <1>3 DEF HasSocket
<1> QED  BY <1>1, <1>4, <1>5, QuietInv DEF server, vars, AckSent

\* In the state "synack" nothing but SYNACKs can come.
LEMMA SynAckFirst ==
  ASSUME HandshakeTypeOK, PortInv, NEW c \in Clients, cPc[c] = "synack", toClient[c] # << >>
  PROVE  Head(toClient[c]) = SynAck
<1>1. toClient[c] \in Seq(Replies)  BY DEF HandshakeTypeOK
<1>2. 1 \in DOMAIN toClient[c] /\ Head(toClient[c]) = toClient[c][1]  BY <1>1, TailOf
<1> QED  BY <1>2 DEF PortInv, PortGoesToWhoWaits

\* A client's one datagram is the last in the parent's socket.
LEMMA OneAdded ==
  ASSUME HandshakeTypeOK, NEW c \in Clients, NEW t \in Texts, SendToServer(c, <<t>>)
  PROVE  \A i \in DOMAIN toServer' :
           \/ i \in DOMAIN toServer /\ toServer'[i] = toServer[i]
           \/ toServer'[i][1] = c /\ i = Len(toServer) + 1 /\ toServer'[i] = <<c, t>>
<1>1. toServer \in Seq(Request) /\ <<t>> \in Seq(Texts)
      BY ShortSeq DEF HandshakeTypeOK, Request
<1>2. \A i \in DOMAIN toServer' :
        \/ i \in DOMAIN toServer /\ toServer'[i] = toServer[i]
        \/ /\ i - Len(toServer) \in DOMAIN <<t>>
           /\ toServer'[i] = <<c, <<t>>[i - Len(toServer)]>>
      BY <1>1, Sent
<1>3. toServer' \in Seq(Request) /\ DOMAIN toServer' = 1 .. Len(toServer')
      BY <1>1, Sent, LenProperties
<1>4. Len(toServer) \in Nat /\ Len(toServer') \in Nat  BY <1>1, <1>3, LenProperties
<1>5. DOMAIN <<t>> = {1} /\ <<t>>[1] = t  OBVIOUS
<1> QED  BY <1>2, <1>3, <1>4, <1>5

\* Steps of clients keep the invariant, and tell nobody a port, ...
LEMMA ClientPorts ==
  ASSUME HandshakeTypeOK, PortInv, NEW c \in Clients,
         Connect(c) \/ ClientStep(c) \/ Leave(c) \/ InterruptClient(c)
  PROVE  /\ AckInv' /\ SocketInv' /\ PortGoesToWhoWaits' /\ AddrInv'
         /\ \A d \in Clients : Told(d)' \subseteq Told(d)
<1>0. toClient \in [Clients -> Seq(Replies)] /\ toServer \in Seq(Request)  BY DEF HandshakeTypeOK, Request
<1>1. CASE Connect(c)
  <2>1. cPc[c] = "start" /\ cPc'[c] = "synack" /\ \A d \in Clients \ {c} : cPc'[d] = cPc[d]
        BY <1>1, Own DEF Connect
  <2>2. SendToServer(c, <<"SYN">>) /\ UNCHANGED <<port, toClient, pPc, addr>>
        BY <1>1 DEF Connect, server, vars
  <2>3. HasSocket(c)'  BY <2>1 DEF HasSocket
  <2> QED  BY <2>1, <2>2, <2>3, Added, QuietInv DEF AckSent
<1>2. CASE SynAckRead(c)
  <2>1. cPc[c] = "synack" /\ toClient[c] # << >> /\ Consume(c) /\ UNCHANGED <<port, pPc, addr>>
        BY <1>2 DEF SynAckRead, server, vars
  <2>2. Proceed(c, "port") /\ SendToServer(c, <<"ACK">>)
        BY <1>2, <2>1, SynAckFirst DEF SynAckRead, AnswerToSynAck
  <2>3. cPc'[c] = "port" /\ \A d \in Clients \ {c} : cPc'[d] = cPc[d]  BY <2>2, Own
  <2>4. /\ \A d \in Clients \ {c} : toClient'[d] = toClient[d]
        /\ \A i \in DOMAIN toClient'[c] : \E j \in DOMAIN toClient[c] : toClient'[c][i] = toClient[c][j]
        BY <1>0, <2>1, Consumed
  <2>5. \A i \in DOMAIN toServer' :
          \/ i \in DOMAIN toServer /\ toServer'[i] = toServer[i]
          \/ toServer'[i][1] = c /\ i = Len(toServer) + 1
        BY <2>2, OneAdded DEF Texts
  <2>6. HasSocket(c)'  BY <2>3 DEF HasSocket
  <2> QED  BY <2>1, <2>3, <2>4, <2>5, <2>6, QuietInv DEF AckSent
<1>3. CASE SynAckTimesOut(c)
  <2>1. /\ cPc[c] = "synack" /\ Retry(c) /\ UNCHANGED <<port, server>>
        /\ IF IsExhausted(attempts'[c]) THEN Close(c) ELSE UNCHANGED toClient
        BY <1>3 DEF SynAckTimesOut
  <2>2. /\ \A d \in Clients \ {c} : toClient'[d] = toClient[d]
        /\ IF IsExhausted(attempts'[c]) THEN toClient'[c] = << >> ELSE toClient'[c] = toClient[c]
        BY <1>0, <2>1, Emptied
  <2>3. DOMAIN << >> = {}  OBVIOUS
  <2> QED  BY <2>1, <2>2, <2>3, RetryInv
<1>4. CASE PortRead(c)
  <2> DEFINE m == Head(toClient[c])
  <2>1. /\ cPc[c] = "port" /\ toClient[c] # << >> /\ Close(c) /\ UNCHANGED <<toServer, pPc, addr>>
        /\ port' = [port EXCEPT ![c] = m[2]]
        /\ Proceed(c, CASE m = Busy -> "busy" [] m = SynAck -> "failed" [] OTHER -> "connected")
        BY <1>4 DEF PortRead, server, vars
  <2>2. /\ cPc'[c] \in {"busy", "failed", "connected"} /\ (m = SynAck => cPc'[c] = "failed")
        /\ (cPc'[c] = "connected" => m \notin {Busy, SynAck})
        /\ \A d \in Clients \ {c} : cPc'[d] = cPc[d]
        BY <2>1, Own, Different
  <2>3. toClient'[c] = << >> /\ \A d \in Clients \ {c} : toClient'[d] = toClient[d]
        BY <1>0, <2>1, Emptied
  <2>4. m \in Replies /\ 1 \in DOMAIN toClient[c] /\ m = toClient[c][1]
        BY <1>0, <2>1, TailOf
  <2>5. OnlySynAcks(c) => m = SynAck  BY <2>4 DEF OnlySynAcks
  <2>6. \A d \in Clients \ {c} : port'[d] = port[d]  BY <2>1 DEF HandshakeTypeOK
  <2>7. port'[c] = m[2]  BY <2>1 DEF HandshakeTypeOK
  <2>8. Told(c)' \subseteq Told(c)
    <3> SUFFICES ASSUME NEW s \in Slots,
                        \/ cPc'[c] \in {"connected", "served"} /\ port'[c] = s
                        \/ \E i \in DOMAIN toClient'[c] : toClient'[c][i] = PortText(s)
                 PROVE  \E i \in DOMAIN toClient[c] : toClient[c][i] = PortText(s)
        BY DEF Told
    <3>1. cPc'[c] = "connected" /\ m[2] = s  BY <2>2, <2>3, <2>7
    <3>2. PICK p \in Ports : m = PortText(p)  BY <2>2, <2>4, <3>1 DEF Replies
    <3>3. p = s  BY <3>1, <3>2, Different
    <3> QED  BY <2>4, <3>2, <3>3
  <2>9. ~OnlySynAcks(c)' => FALSE  BY <2>3 DEF OnlySynAcks
  <2>10. NoPortYet(c) => cPc'[c] \in Answering
         BY <2>2, <2>4 DEF NoPortYet, Answering, AckSent
  <2> HIDE DEF m
  <2> QED  BY <2>1, <2>2, <2>3, <2>5, <2>6, <2>8, <2>9, <2>10, ClientInv DEF AckSent
<1>5. CASE FirstCommand(c)
  <2>1. /\ cPc[c] = "connected" /\ cPc'[c] \in {"served", "left"}
        /\ \A d \in Clients \ {c} : cPc'[d] = cPc[d]
        /\ UNCHANGED <<port, toClient, toServer, pPc, addr>>
        BY <1>5, Own DEF FirstCommand, server, vars
  <2>2. toClient[c] = << >>  BY <2>1 DEF PortInv, SocketInv, HasSocket
  <2>3. Told(c)' \subseteq Told(c) /\ OnlySynAcks(c)'  BY <2>1, <2>2 DEF Told, OnlySynAcks
  <2> QED  BY <2>1, <2>2, <2>3, ClientInv DEF Answering, AckSent
<1>6. CASE Leave(c)
  <2>1. /\ cPc[c] = "served" /\ cPc'[c] = "left" /\ \A d \in Clients \ {c} : cPc'[d] = cPc[d]
        /\ UNCHANGED <<port, toClient, toServer, pPc, addr>>
        BY <1>6, Own DEF Leave, SessionEnds
  <2>2. toClient[c] = << >>  BY <2>1 DEF PortInv, SocketInv, HasSocket
  <2>3. Told(c)' = {} /\ OnlySynAcks(c)'  BY <2>1, <2>2 DEF Told, OnlySynAcks
  <2> QED  BY <2>1, <2>2, <2>3, ClientInv DEF Answering, AckSent
<1>7. CASE InterruptClient(c)
  <2>1. /\ cPc[c] \in {"synack", "port"} /\ cPc'[c] = (IF cPc[c] = "synack" THEN "closing" ELSE "stuck")
        /\ \A d \in Clients \ {c} : cPc'[d] = cPc[d]
        /\ SendToServer(c, <<"EXIT", "FIN">>) /\ UNCHANGED <<port, toClient, pPc, addr>>
        BY <1>7, Own DEF InterruptClient, server, vars
  <2>2. HasSocket(c)'  BY <2>1 DEF HasSocket
  <2> QED  BY <2>1, <2>2, Added, QuietInv DEF AckSent
<1>8. CASE Closed(c)
  <2>1. /\ cPc[c] # "busy" /\ cPc'[c] = "left" /\ \A d \in Clients \ {c} : cPc'[d] = cPc[d]
        /\ UNCHANGED <<port, toServer, pPc, addr>>
        BY <1>8, Own DEF Closed, server, vars
  <2>2. toClient'[c] = << >> /\ \A d \in Clients \ {c} : toClient'[d] = toClient[d]
        BY <1>0, <1>8, Emptied DEF Closed
  <2> QED  BY <2>1, <2>2, QuietInv DEF AckSent
<1> QED  BY <1>1, <1>2, <1>3, <1>4, <1>5, <1>6, <1>7, <1>8 DEF ClientStep

\* What one datagram of the parent changes.
LEMMA RepliedOne ==
  ASSUME HandshakeTypeOK, NEW a \in Clients, NEW m \in Replies, SendToClient(a, <<m>>)
  PROVE  /\ \A d \in Clients : ~HasSocket(d) => toClient'[d] = toClient[d]
         /\ \A d \in Clients \ {a} : toClient'[d] = toClient[d]
         /\ HasSocket(a) => toClient'[a] = toClient[a] \o <<m>>
         /\ \A d \in Clients : \A i \in DOMAIN toClient'[d] :
              \/ \E j \in DOMAIN toClient[d] : toClient'[d][i] = toClient[d][j]
              \/ d = a /\ HasSocket(d) /\ toClient'[d][i] = m
<1>1. toClient \in [Clients -> Seq(Replies)] /\ <<m>> \in Seq(Replies)
      BY ShortSeq DEF HandshakeTypeOK
<1>2. /\ \A d \in Clients \ {a} : toClient'[d] = toClient[d]
      /\ IF HasSocket(a) THEN toClient'[a] = toClient[a] \o <<m>> ELSE toClient'[a] = toClient[a]
      BY <1>1, Replied
<1>3. \A i \in DOMAIN (toClient[a] \o <<m>>) :
        \/ i \in DOMAIN toClient[a] /\ (toClient[a] \o <<m>>)[i] = toClient[a][i]
        \/ (toClient[a] \o <<m>>)[i] = m
  <2>1. toClient[a] \in Seq(Replies)  BY <1>1
  <2>2. \A k \in DOMAIN <<m>> : <<m>>[k] = m  OBVIOUS
  <2> QED  BY <1>1, <2>1, <2>2, ConcatOf
<1>4. ASSUME NEW d \in Clients, NEW i \in DOMAIN toClient'[d]
      PROVE  \/ \E j \in DOMAIN toClient[d] : toClient'[d][i] = toClient[d][j]
             \/ d = a /\ HasSocket(d) /\ toClient'[d][i] = m
  <2>1. CASE toClient'[d] = toClient[d]  BY <2>1
  <2>2. CASE toClient'[d] # toClient[d]
    <3>1. d = a /\ HasSocket(a) /\ toClient'[a] = toClient[a] \o <<m>>  BY <1>2, <2>2
    <3> QED  BY <1>3, <3>1
  <2> QED  BY <2>1, <2>2
<1> QED  BY <1>2, <1>4

\* The parent's steps that leave its socket and its clients' alone.
LEMMA InsideHand ==
  ASSUME HandshakeTypeOK, Inside \/ \E p \in Clients : ChildWorks(p)
  PROVE  /\ UNCHANGED <<clients, toClient, toServer, addr, mishaps>>
         /\ Accepting' => Accepting /\ noClient' = noClient
<1>1. CASE Inside
  BY <1>1 DEF Inside, ParentLoads, ParentStores, Record, Reap, Forget, NothingToReap, Accepting
<1>2. CASE \E p \in Clients : ChildWorks(p)
  BY <1>2 DEF ChildWorks, Start, ChildLoads, ChildStores, Accepting
<1> QED  BY <1>1, <1>2

\* What the server and the network may tell.
LEMMA ServerPorts ==
  ASSUME HandshakeTypeOK, PortInv, ServerStep \/ (\E p \in Clients : ChildWorks(p)) \/ Lose
  PROVE  /\ AckInv' /\ SocketInv' /\ PortGoesToWhoWaits' /\ AddrInv'
         /\ \A d \in Clients : \/ Told(d)' \subseteq Told(d)
                               \/ ForkChild /\ d = addr /\ Told(d)' \subseteq {noClient}
<1>0. /\ toClient \in [Clients -> Seq(Replies)] /\ toServer \in Seq(Request)
      /\ \A i, j \in DOMAIN toServer : toServer[i] = toServer[j] /\ toServer[i][2] = "ACK" => i = j
      /\ SynAck \in Replies /\ Busy \in Replies
      BY DEF HandshakeTypeOK, Request, PortInv, AckInv, Replies
<1>1. ASSUME ParentReads
      PROVE  /\ \A i, j \in DOMAIN toServer' :
                  toServer'[i] = toServer'[j] /\ toServer'[i][2] = "ACK" => i = j
             /\ \A i \in DOMAIN toServer' : \E k \in DOMAIN toServer : toServer'[i] = toServer[k]
  BY <1>1, Shifted DEF ParentReads, PortInv
<1>2. CASE SynRead
  <2>1. /\ ParentReads /\ UNCHANGED <<cPc, port>>
        /\ ~Accepting' /\ Sender \in Clients
        BY <1>0, <1>2, Taken DEF SynRead, clients, SynArrives, NoSyn, Accepting
  <2>2. \A d \in Clients : /\ \A i \in DOMAIN toClient'[d] :
                                \/ toClient'[d][i] = SynAck
                                \/ \E j \in DOMAIN toClient[d] : toClient'[d][i] = toClient[d][j]
                           /\ ~HasSocket(d) => toClient'[d] = toClient[d]
    <3>1. CASE UNCHANGED toClient  BY <3>1
    <3>2. CASE SendToClient(Sender, <<SynAck>>)
      <4>1. PICK a \in Clients : a = Sender  BY <2>1
      <4> QED  BY <1>0, <3>2, <4>1, RepliedOne
    <3> QED  BY <1>2, <3>1, <3>2 DEF SynRead
  <2>3. \A d \in Clients : Told(d)' \subseteq Told(d)  BY <2>1, <2>2, NothingTold
  <2>4. AddrInv'  BY <2>1 DEF AddrInv
  <2> QED  BY <1>1, <2>1, <2>2, <2>3, <2>4, ServerInv
<1>3. CASE NothingRead
  <2>1. UNCHANGED <<cPc, port, toServer, toClient>> /\ ~Accepting'
        BY <1>3 DEF NothingRead, NoSyn, clients, Accepting
  <2>2. \A d \in Clients : Told(d)' \subseteq Told(d)  BY <2>1, NothingTold
  <2>3. AddrInv'  BY <2>1 DEF AddrInv
  <2> QED  BY <1>0, <2>1, <2>2, <2>3, ServerInv
<1>4. CASE AckRead
  <2>1. ParentReads /\ UNCHANGED <<cPc, port, toClient>>  BY <1>4 DEF AckRead, clients
  <2>2. AckInv' /\ SocketInv' /\ PortGoesToWhoWaits'  BY <1>1, <2>1, ServerInv
  <2>3. \A d \in Clients : Told(d)' \subseteq Told(d)  BY <2>1, NothingTold
  <2>4. CASE Text = "ACK" /\ addr' = Sender
    <3>1. /\ Sender \in Clients /\ 1 \in DOMAIN toServer /\ toServer[1] = <<Sender, "ACK">>
          /\ toServer' = Tail(toServer) /\ toServer # << >>
          BY <1>0, <2>1, <2>4, Taken
    <3>2. PICK a \in Clients : a = Sender  BY <3>1
    <3>3. cPc[a] \in AckSent /\ OnlySynAcks(a)  BY <3>1, <3>2 DEF PortInv, AckInv
    <3>4. \A i \in DOMAIN toServer' : toServer'[i] # <<a, "ACK">>
          BY <3>1, <3>2, Shifted DEF PortInv
    <3>5. addr' = a /\ cPc'[a] \in Answering
          /\ \A k \in DOMAIN toClient'[a] : toClient'[a][k] \in {SynAck, Busy}
          BY <2>1, <2>4, <3>2, <3>3 DEF Answering, OnlySynAcks
    <3>6. AddrInv'  BY <3>4, <3>5 DEF AddrInv, NoPortYet
    <3> QED  BY <2>2, <2>3, <3>6
  <2>5. CASE NoAck
    <3>1. AddrInv'  BY <2>5 DEF NoAck, AddrInv, Accepting
    <3> QED  BY <2>2, <2>3, <3>1
  <2> QED  BY <1>4, <2>4, <2>5 DEF AckRead, IsAck, Recipient
<1>5. CASE SearchSlot
  <2>1. UNCHANGED <<cPc, port, toServer, addr>> /\ Accepting
        BY <1>5 DEF SearchSlot, Scan, clients, Accepting
  <2>2. addr \in Clients  BY <2>1, InHand
  <2>3. \A d \in Clients : /\ \A i \in DOMAIN toClient'[d] :
                                \/ \E j \in DOMAIN toClient[d] : toClient'[d][i] = toClient[d][j]
                                \/ d = addr /\ HasSocket(d) /\ toClient'[d][i] = Busy
                           /\ ~HasSocket(d) => toClient'[d] = toClient[d]
    <3>1. CASE UNCHANGED toClient  BY <3>1
    <3>2. CASE SendToClient(addr, <<Busy>>)  BY <1>0, <2>2, <3>2, RepliedOne
    <3> QED  BY <1>5, <3>1, <3>2 DEF SearchSlot, BusyText
  <2>4. \A d \in Clients : Told(d)' \subseteq Told(d)  BY <2>1, <2>3, NothingTold
  <2>5. AddrInv'  BY <2>1, <2>3, AddrStep DEF PortInv
  <2> QED  BY <1>0, <2>1, <2>3, <2>4, <2>5, ServerInv
<1>6. CASE ForkChild
  <2>1. /\ UNCHANGED <<cPc, port, toServer>> /\ Accepting /\ ~Accepting'
        /\ SendToClient(addr, <<PortText(noClient)>>)
        BY <1>6 DEF ForkChild, Fork, clients, Accepting
  <2>2. addr \in Clients /\ Told(addr) = {}  BY <2>1, InHand
  <2>3. noClient \in Ports /\ PortText(noClient) \in Replies
        BY DEF HandshakeTypeOK, TypeOK, Ports, Replies
  <2>4. /\ \A d \in Clients : ~HasSocket(d) => toClient'[d] = toClient[d]
        /\ \A d \in Clients \ {addr} : toClient'[d] = toClient[d]
        /\ \A d \in Clients : \A i \in DOMAIN toClient'[d] :
             \/ \E j \in DOMAIN toClient[d] : toClient'[d][i] = toClient[d][j]
             \/ d = addr /\ HasSocket(d) /\ toClient'[d][i] = PortText(noClient)
        BY <2>1, <2>2, <2>3, RepliedOne
  <2>5. AddrInv'  BY <2>1 DEF AddrInv
  <2>6. \A d \in Clients \ {addr} : Told(d)' \subseteq Told(d)  BY <2>1, <2>4 DEF Told
  <2>7. \A d \in Clients : d = addr => Told(d)' \subseteq {noClient}
    <3> SUFFICES ASSUME NEW d \in Clients, d = addr, NEW s \in Slots,
                        \/ cPc'[d] \in {"connected", "served"} /\ port'[d] = s
                        \/ \E i \in DOMAIN toClient'[d] : toClient'[d][i] = PortText(s)
                 PROVE  s = noClient
        BY DEF Told
    <3>1. s \notin Told(d) /\ s \in Ports  BY <2>2, SlotsAssumption DEF Slots, Ports
    <3>2. CASE cPc'[d] \in {"connected", "served"} /\ port'[d] = s
      BY <2>1, <3>1, <3>2 DEF Told
    <3>3. CASE \E i \in DOMAIN toClient'[d] : toClient'[d][i] = PortText(s)
      <4>1. PortText(s) = PortText(noClient)  BY <2>4, <3>1, <3>3 DEF Told
      <4> QED  BY <2>3, <3>1, <4>1, Different
    <3> QED  BY <3>2, <3>3
  <2> QED  BY <1>0, <1>6, <2>1, <2>4, <2>5, <2>6, <2>7, ServerInv
<1>7. CASE Inside \/ \E p \in Clients : ChildWorks(p)
  <2>1. UNCHANGED <<cPc, port, toClient, toServer, addr>> /\ (Accepting' => Accepting)
        BY <1>7, InsideHand DEF clients
  <2>2. \A d \in Clients : Told(d)' \subseteq Told(d)  BY <2>1, NothingTold
  <2>3. AddrInv'  BY <2>1, AddrStep DEF PortInv
  <2> QED  BY <1>0, <2>1, <2>2, <2>3, ServerInv
<1>8. CASE Lose
  <2>1. UNCHANGED <<cPc, port, addr, pPc>>  BY <1>8 DEF Lose, clients, server, vars
  <2>2. /\ \A i, j \in DOMAIN toServer' :
             toServer'[i] = toServer'[j] /\ toServer'[i][2] = "ACK" => i = j
        /\ \A i \in DOMAIN toServer' : \E k \in DOMAIN toServer : toServer'[i] = toServer[k]
    <3>1. CASE toServer # << >> /\ toServer' = Tail(toServer)  BY <3>1, Shifted DEF PortInv
    <3>2. CASE UNCHANGED toServer  BY <1>0, <3>2
    <3> QED  BY <1>8, <3>1, <3>2 DEF Lose
  <2>3. \A d \in Clients : /\ \A i \in DOMAIN toClient'[d] :
                                \E j \in DOMAIN toClient[d] : toClient'[d][i] = toClient[d][j]
                           /\ ~HasSocket(d) => toClient'[d] = toClient[d]
    <3>1. CASE UNCHANGED toClient  BY <3>1
    <3>2. CASE \E c \in Clients : toClient[c] # << >> /\ Consume(c)
      <4>1. PICK c \in Clients : toClient[c] # << >> /\ Consume(c)  BY <3>2
      <4>2. /\ \A d \in Clients \ {c} : toClient'[d] = toClient[d]
            /\ \A i \in DOMAIN toClient'[c] :
                 i + 1 \in DOMAIN toClient[c] /\ toClient'[c][i] = toClient[c][i + 1]
            BY <1>0, <4>1, Consumed
      <4>3. HasSocket(c)  BY <4>1 DEF PortInv, SocketInv
      <4> SUFFICES ASSUME NEW d \in Clients
                   PROVE  /\ \A i \in DOMAIN toClient'[d] :
                               \E j \in DOMAIN toClient[d] : toClient'[d][i] = toClient[d][j]
                          /\ ~HasSocket(d) => toClient'[d] = toClient[d]
          OBVIOUS
      <4> QED  BY <4>2, <4>3
    <3> QED  BY <1>8, <3>1, <3>2 DEF Lose
  <2>4. \A d \in Clients : Told(d)' \subseteq Told(d)  BY <2>1, <2>3, NothingTold
  <2>5. AddrInv'  BY <2>1, <2>2, <2>3, AddrStep DEF PortInv, Accepting
  <2> QED  BY <2>1, <2>2, <2>3, <2>4, <2>5, ServerInv
<1> QED  BY <1>2, <1>3, <1>4, <1>5, <1>6, <1>7, <1>8 DEF ServerStep

-----------------------------------------------------------------------------
(* A slot whose port is known is held by the child of the client           *)

\* Children whose clients know a slot go on, and nobody learns another.
LEMMA ToldKept ==
  ASSUME ToldInv, ~lost,
         \A d \in Clients : Told(d)' \subseteq Told(d),
         \A d \in Clients : Told(d)' # {} /\ proc[d].pc \in {"forked", "serving"} =>
           proc'[d].pc \in {"forked", "serving"} /\ proc'[d].slot = proc[d].slot
  PROVE  ToldInv'
<1> SUFFICES ASSUME NEW d \in Clients, NEW s \in Told(d)'
             PROVE  proc'[d].pc \in {"forked", "serving"} /\ proc'[d].slot = s
    BY DEF ToldInv
<1>1. s \in Told(d) /\ Told(d)' # {}  OBVIOUS
<1> QED  BY <1>1 DEF ToldInv

\* The child whose session a client ends is its own, if it has a slot's port.
LEMMA OwnChild ==
  ASSUME PortInv, OrphansUnlessLost, ~lost, NEW c \in Clients, cPc[c] = "served",
         port[c] \in Slots, NEW p \in Procs, p \in Bound(port[c]), proc[p].pc = "serving"
  PROVE  p = c
<1>1. port[c] \in Told(c)  BY DEF Told
<1>2. proc[c].pc \in {"forked", "serving"} /\ proc[c].slot = port[c]
      BY <1>1 DEF PortInv, ToldInv
<1>3. Holds(c, port[c]) /\ Holds(p, port[c])  BY <1>2 DEF Holds, Bound
<1> QED  BY <1>3 DEF OrphansUnlessLost, SlotsUnlessLost, SlotInv, Clients

LEMMA ClientTold ==
  ASSUME HandshakeTypeOK, PortInv, OrphansUnlessLost, ~lost', NEW c \in Clients,
         Connect(c) \/ ClientStep(c) \/ Leave(c) \/ InterruptClient(c)
  PROVE  ToldInv'
<1>0. proc \in [Procs -> Child]  BY ProcType DEF HandshakeTypeOK
<1>1. \A d \in Clients : Told(d)' \subseteq Told(d)  BY ClientPorts
<1>2. ~lost /\ ToldInv  BY ClientPool DEF PortInv, SessionEnds, vars
<1>3. CASE UNCHANGED vars
  <2>1. UNCHANGED proc  BY <1>3 DEF vars
  <2> QED  BY <1>1, <1>2, <2>1, ToldKept
<1>4. CASE Leave(c)
  <2>1. PICK p \in Procs : p \in Bound(port[c]) /\ SessionEnds(p)  BY <1>4, ClientPool
  <2>2. proc[p].pc = "serving" /\ proc[p].slot = port[c]
        /\ \A q \in Procs \ {p} : proc'[q] = proc[q]
        BY <1>0, <2>1 DEF SessionEnds, Move, Bound
  <2>3. cPc[c] = "served" /\ cPc'[c] = "left" /\ UNCHANGED <<port, toClient>>
        BY <1>4, Own DEF Leave
  <2>4. Told(c)' = {}
    <3>1. toClient[c] = << >>  BY <2>3 DEF PortInv, SocketInv, HasSocket
    <3> QED  BY <2>3, <3>1 DEF Told
  <2>5. ASSUME NEW d \in Clients, Told(d)' # {}  PROVE proc'[d] = proc[d]
    <3>1. PICK s \in Slots : s \in Told(d)  BY <1>1, <2>5 DEF Told
    <3>2. proc[d].slot = s  BY <1>2, <3>1 DEF ToldInv
    <3>3. d # p
      <4>1. CASE port[c] \in Slots  BY <1>2, <2>1, <2>2, <2>3, <2>4, <2>5, <4>1, OwnChild
      <4>2. CASE port[c] \notin Slots  BY <2>2, <3>1, <3>2, <4>2
      <4> QED  BY <4>1, <4>2
    <3> QED  BY <2>2, <3>3 DEF Clients
  <2> QED  BY <1>1, <1>2, <2>5, ToldKept
<1> QED  BY <1>3, <1>4, ClientPool

\* A child that has begun to give its slot back, or has ended, has no client.
LEMMA ServerTold ==
  ASSUME HandshakeTypeOK, PortInv, OrphansUnlessLost, ~lost, ~lost',
         ServerStep \/ (\E p \in Clients : ChildWorks(p)) \/ Lose
  PROVE  ToldInv'
<1>0. proc \in [Procs -> Child] /\ ToldInv /\ Clients = Procs
      BY ProcType DEF HandshakeTypeOK, PortInv, Clients
<1>1. \A d \in Clients : \/ Told(d)' \subseteq Told(d)
                         \/ ForkChild /\ d = addr /\ Told(d)' \subseteq {noClient}
      BY ServerPorts
<1>2. \A d \in Clients : proc[d].pc \notin {"forked", "serving"} => Told(d) = {}
      BY <1>0 DEF ToldInv
<1>3. CASE ForkChild
  <2>1. addr \in Clients /\ Told(addr) = {}
    <3>1. Accepting  BY <1>3 DEF ForkChild, Fork, Accepting
    <3> QED  BY <3>1, InHand
  <2>2. proc' = [proc EXCEPT ![addr] = Forked(noClient)]  BY <1>3 DEF ForkChild, Fork
  <2>3. proc'[addr].pc = "forked" /\ proc'[addr].slot = noClient
        /\ \A d \in Clients \ {addr} : proc'[d] = proc[d]
        BY <1>0, <2>1, <2>2 DEF Forked
  <2> SUFFICES ASSUME NEW d \in Clients, NEW s \in Told(d)'
               PROVE  proc'[d].pc \in {"forked", "serving"} /\ proc'[d].slot = s
      BY DEF ToldInv
  <2>4. CASE d = addr  BY <1>1, <2>1, <2>3, <2>4
  <2>5. CASE d # addr
    <3>1. s \in Told(d) /\ proc'[d] = proc[d]  BY <1>1, <2>3, <2>5
    <3> QED  BY <1>0, <3>1 DEF ToldInv
  <2> QED  BY <2>4, <2>5
<1>4. CASE Inside /\ Reap
  <2>1. PICK p \in Zombies : proc' = [proc EXCEPT ![p] = NoProc]  BY <1>4 DEF Reap
  <2>2. /\ p \in Procs /\ proc[p].pc = "zombie"
        /\ \A q \in Procs \ {p} : proc'[q] = proc[q]
        BY <1>0, <2>1 DEF Zombies
  <2>3. \A d \in Clients : Told(d)' \subseteq Told(d)
        BY <1>1, <1>4 DEF ForkChild, Fork, Reap
  <2> QED  BY <1>0, <2>2, <2>3, ToldKept
<1>5. CASE \E p \in Clients : ChildWorks(p)
  <2>1. PICK p \in Clients : Start(p) \/ ChildLoads(p) \/ ChildStores(p)
        BY <1>5 DEF ChildWorks
  <2>2. \A d \in Clients : Told(d)' \subseteq Told(d)
        BY <1>1, <2>1 DEF ForkChild, Fork, Start, ChildLoads, ChildStores
  <2>3. \A q \in Clients \ {p} : proc'[q] = proc[q]
        BY <1>0, <2>1 DEF Start, ChildLoads, ChildStores, Move, End
  <2>4. CASE ChildLoads(p) \/ ChildStores(p)
    <3>1. proc[p].pc \notin {"forked", "serving"}  BY <2>4 DEF ChildLoads, ChildStores
    <3> QED  BY <1>0, <2>2, <2>3, <3>1, ToldKept
  <2>5. CASE Start(p)
    <3>1. proc[p].pc = "forked"  BY <2>5 DEF Start
    <3>2. ASSUME Told(p) # {}
          PROVE  Bound(proc[p].slot) = {}
      <4>1. PICK s \in Slots : s \in Told(p)  BY <3>2 DEF Told
      <4>2. proc[p].slot = s /\ Holds(p, s)  BY <1>0, <3>1, <4>1 DEF ToldInv, Holds
      <4>3. ASSUME NEW q \in Bound(s)  PROVE FALSE
        <5>1. q \in Procs /\ proc[q].slot = s /\ proc[q].pc \in {"serving", "closing"}
              BY DEF Bound
        <5>2. proc[q].pc # "closing"
              BY <5>1 DEF HandshakeTypeOK, OrphansUnlessLost, OrphanInv
        <5>3. Holds(q, s)  BY <5>1, <5>2 DEF Holds
        <5>4. q = p  BY <1>0, <4>2, <5>1, <5>3 DEF OrphansUnlessLost, SlotsUnlessLost, SlotInv
        <5> QED  BY <3>1, <5>1, <5>2, <5>4
      <4> QED  BY <4>2, <4>3
    <3>3. Told(p) # {} => proc'[p].pc = "serving" /\ proc'[p].slot = proc[p].slot
          BY <1>0, <2>5, <3>2 DEF Start, Move, Child
    <3> QED  BY <1>0, <2>2, <2>3, <3>3, ToldKept
  <2> QED  BY <2>1, <2>4, <2>5
<1>6. CASE SynRead \/ NothingRead \/ AckRead \/ SearchSlot \/ Lose \/ (Inside /\ ~Reap)
  <2>1. UNCHANGED proc
    BY <1>6 DEF SynRead, NothingRead, AckRead, SearchSlot, Lose, server, vars, Inside,
                SynArrives, NoSyn, AckArrives, NoAck, Scan, ParentLoads, ParentStores,
                Record, Forget, NothingToReap
  <2>2. CASE ForkChild  BY <1>3, <2>2
  <2>3. CASE ~ForkChild
    <3>1. \A d \in Clients : Told(d)' \subseteq Told(d)  BY <1>1, <2>3
    <3> QED  BY <1>0, <2>1, <3>1, ToldKept
  <2> QED  BY <2>2, <2>3
<1> QED  BY <1>3, <1>4, <1>5, <1>6 DEF ServerStep

-----------------------------------------------------------------------------
PortsOK == HandshakeTypeOK /\ PortInv /\ OrphansUnlessLost

\* At first nothing is under way.
LEMMA InitPorts == HandshakeInit => PortsOK
<1> SUFFICES ASSUME HandshakeInit  PROVE PortsOK  OBVIOUS
<1>1. Init /\ pPc = "select"  BY DEF HandshakeInit, Init
<1>2. HandshakeTypeOK
  <2>1. TypeOK /\ ~Stopping  BY <1>1, InitType DEF Stopping
  <2>2. << >> \in Seq(Replies) /\ << >> \in Seq(Clients \X Texts)  BY EmptySeq
  <2>3. mishaps \subseteq AllMishaps  BY MishapsAssumption DEF HandshakeInit
  <2>4. Attempts \in 0 .. Attempts /\ Attempts # 0  BY AttemptsAssumption
  <2> QED  BY <2>1, <2>2, <2>3, <2>4 DEF HandshakeInit, HandshakeTypeOK
<1>3. DOMAIN toServer = {} /\ \A c \in Clients : toClient[c] = << >> /\ DOMAIN toClient[c] = {}
      BY DEF HandshakeInit
<1>4. \A c \in Clients : Told(c) = {}  BY <1>3 DEF HandshakeInit, Told
<1> QED  BY <1>1, <1>2, <1>3, <1>4, OrphansInvariant
         DEF PortsOK, PortInv, AckInv, SocketInv, PortGoesToWhoWaits, AddrInv, Accepting, ToldInv

LEMMA NextPorts == PortsOK /\ [HandshakeNext]_handshakeVars => PortsOK'
<1> SUFFICES ASSUME PortsOK, [HandshakeNext]_handshakeVars  PROVE PortInv'
    BY HandshakeTypeStep, PoolStep, OrphansInvariant DEF PortsOK
<1> USE DEF PortsOK
<1>1. lost => lost'  BY PoolStep, LostForEver
<1>2. lost' => ToldInv'  BY DEF ToldInv
<1>3. ASSUME NEW c \in Clients, Connect(c) \/ ClientStep(c) \/ Leave(c) \/ InterruptClient(c)
      PROVE  PortInv'
  BY <1>2, <1>3, ClientPorts, ClientTold DEF PortInv
<1>4. CASE ServerStep \/ (\E p \in Clients : ChildWorks(p)) \/ Lose
  BY <1>1, <1>2, <1>4, ServerPorts, ServerTold DEF PortInv
<1>5. CASE UNCHANGED handshakeVars
  <2>1. /\ UNCHANGED <<cPc, port, toServer, toClient, addr>>
        /\ UNCHANGED <<pPc, proc, lost>>
        BY <1>5 DEF handshakeVars, clients, server, vars
  <2> QED
    BY <2>1 DEF PortInv, AckInv, OnlySynAcks, SocketInv, HasSocket, PortGoesToWhoWaits,
                AddrInv, Accepting, NoPortYet, ToldInv, Told
<1> QED  BY <1>3, <1>4, <1>5 DEF HandshakeNext

LEMMA PortsInvariance == HandshakeSpec => []PortsOK
BY InitPorts, NextPorts, PTL DEF HandshakeSpec

\* Every variable keeps its type: what is sent is a message of the protocol, a client that
\* has connected knows a port, and one without attempts left has given up.
THEOREM HandshakeTypeCorrect == HandshakeSpec => []HandshakeTypeOK
<1>1. PortsOK => HandshakeTypeOK  BY DEF PortsOK
<1> QED  BY <1>1, PortsInvariance, PTL

\* Whatever is lost, late or interrupted, and however the handshakes of any number of
\* clients overlap in the parent's one socket, a port or BUSY only comes to a client
\* that waits for it: server_open_connection_with_client sends it to who sent an ACK.
THEOREM PortGoesToWhoWaitsHolds == HandshakeSpec => []PortGoesToWhoWaits
<1>1. PortsOK => PortGoesToWhoWaits  BY DEF PortsOK, PortInv
<1> QED  BY <1>1, PortsInvariance, PTL

\* ... and two clients never come to know the same slot's port, unless a store of set_bit
\* has undone another process's: neither datagrams nor children in any order, nor a slot
\* taken while another is given back, are enough for that.
THEOREM ToldApartHolds == HandshakeSpec => []ToldApart
<1>1. PortsOK => ToldApart
  <2> SUFFICES ASSUME PortsOK, ~lost, NEW c \in Clients, NEW d \in Clients,
                      NEW s \in Told(c) \cap Told(d)
               PROVE  c = d
      BY DEF ToldApart
  <2>1. s \in Slots /\ Holds(c, s) /\ Holds(d, s)
        BY DEF PortsOK, PortInv, ToldInv, Told, Holds
  <2> QED  BY <2>1 DEF PortsOK, OrphansUnlessLost, SlotsUnlessLost, SlotInv, Clients
<1> QED  BY <1>1, PortsInvariance, PTL

-----------------------------------------------------------------------------
(* As long as nothing goes wrong                                           *)

\* What one client, or the parent with one client, may do to what is under way.
LEMMA CleanStep ==
  ASSUME Clean, NEW c \in Clients,
         \A d \in Clients \ {c} : cPc'[d] = cPc[d] /\ toClient'[d] = toClient[d],
         \A i, j \in DOMAIN toServer' : toServer'[i][1] = toServer'[j][1] => i = j,
         \A i \in DOMAIN toServer' :
           IF toServer'[i][1] = c
           THEN /\ toClient'[c] = << >>
                /\ <<toServer'[i][2], cPc'[c]>> \in {<<"SYN", "synack">>, <<"ACK", "port">>}
           ELSE \E k \in DOMAIN toServer : toServer'[i] = toServer[k],
         \/ toClient'[c] = << >>
         \/ cPc'[c] = "synack" /\ toClient'[c] = <<SynAck>>
         \/ cPc'[c] = "port" /\ \E s \in Slots : toClient'[c] = <<PortText(s)>>
         \/ cPc'[c] = "port" /\ toClient'[c] \in {<<Busy>>, <<Busy, PortText(MaxClients)>>}
  PROVE  Clean'
<1>1. ASSUME NEW d \in Clients, NEW i \in DOMAIN toServer', toServer'[i][1] = d
      PROVE  /\ toClient'[d] = << >>
             /\ <<toServer'[i][2], cPc'[d]>> \in {<<"SYN", "synack">>, <<"ACK", "port">>}
  <2>1. CASE d = c  BY <1>1, <2>1
  <2>2. CASE d # c
    <3>1. PICK k \in DOMAIN toServer : toServer'[i] = toServer[k]  BY <1>1, <2>2
    <3> QED  BY <1>1, <2>2, <3>1 DEF Clean
  <2> QED  BY <2>1, <2>2
<1>2. ASSUME NEW d \in Clients
      PROVE  \/ toClient'[d] = << >>
             \/ cPc'[d] = "synack" /\ toClient'[d] = <<SynAck>>
             \/ cPc'[d] = "port" /\ \E s \in Slots : toClient'[d] = <<PortText(s)>>
             \/ cPc'[d] = "port" /\ toClient'[d] \in {<<Busy>>, <<Busy, PortText(MaxClients)>>}
  <2>1. CASE d = c  BY <2>1
  <2>2. CASE d # c  BY <2>2 DEF Clean
  <2> QED  BY <2>1, <2>2
<1> QED  BY <1>1, <1>2 DEF Clean

\* A client with nothing under way goes on, and sends one datagram at most.
LEMMA CleanClient ==
  ASSUME HandshakeTypeOK, Clean, NEW c \in Clients,
         \A d \in Clients \ {c} : cPc'[d] = cPc[d] /\ toClient'[d] = toClient[d],
         \A i \in DOMAIN toServer : toServer[i][1] # c,
         \A i \in DOMAIN toServer' :
           \/ i \in DOMAIN toServer /\ toServer'[i] = toServer[i]
           \/ /\ i = Len(toServer) + 1 /\ toServer'[i][1] = c
              /\ <<toServer'[i][2], cPc'[c]>> \in {<<"SYN", "synack">>, <<"ACK", "port">>},
         toClient'[c] = << >>
  PROVE  Clean'
<1>1. \A i, j \in DOMAIN toServer' : toServer'[i][1] = toServer'[j][1] => i = j  BY DEF Clean
<1>2. \A i \in DOMAIN toServer' :
        IF toServer'[i][1] = c
        THEN /\ toClient'[c] = << >>
             /\ <<toServer'[i][2], cPc'[c]>> \in {<<"SYN", "synack">>, <<"ACK", "port">>}
        ELSE \E k \in DOMAIN toServer : toServer'[i] = toServer[k]
      OBVIOUS
<1> QED  BY <1>1, <1>2, CleanStep

\* The parent takes the one datagram of a client.
LEMMA CleanTaken ==
  ASSUME HandshakeTypeOK, Clean, ParentReads
  PROVE  /\ Sender \in Clients /\ toClient[Sender] = << >>
         /\ <<Text, cPc[Sender]>> \in {<<"SYN", "synack">>, <<"ACK", "port">>}
         /\ \A i, j \in DOMAIN toServer' : toServer'[i][1] = toServer'[j][1] => i = j
         /\ \A i \in DOMAIN toServer' :
              toServer'[i][1] # Sender /\ \E k \in DOMAIN toServer : toServer'[i] = toServer[k]
<1>1. /\ toServer' \in Seq(Request) /\ Sender \in Clients
      /\ 1 \in DOMAIN toServer /\ toServer[1] = <<Sender, Text>>
      /\ \A i \in DOMAIN toServer' : i + 1 \in DOMAIN toServer /\ toServer'[i] = toServer[i + 1]
      BY Taken DEF HandshakeTypeOK, Request
<1>2. toServer[1][1] = Sender /\ toServer[1][2] = Text  BY <1>1
<1>3. DOMAIN toServer' \subseteq Nat \ {0}  BY <1>1, LenProperties
<1>4. ASSUME NEW i \in DOMAIN toServer', NEW j \in DOMAIN toServer', toServer'[i][1] = toServer'[j][1]
      PROVE  i = j
  <2>1. i + 1 = j + 1  BY <1>1, <1>4 DEF Clean
  <2> QED  BY <1>3, <2>1
<1>5. ASSUME NEW i \in DOMAIN toServer', toServer'[i][1] = Sender
      PROVE  FALSE
  <2>1. i + 1 = 1  BY <1>1, <1>2, <1>5 DEF Clean
  <2> QED  BY <1>3, <2>1
<1>6. PICK a \in Clients : a = Sender  BY <1>1
<1>7. /\ toClient[a] = << >>
      /\ <<toServer[1][2], cPc[a]>> \in {<<"SYN", "synack">>, <<"ACK", "port">>}
      BY <1>1, <1>2, <1>6 DEF Clean
<1> QED  BY <1>1, <1>4, <1>5, <1>6, <1>7

\* A client that does not forget a port, or whose child ends, keeps the slots known.
LEMMA CoveredStep ==
  ASSUME Covered, NEW c \in Clients,
         Told(c) \subseteq Told(c)' \/ proc'[c].pc \notin {"forked", "serving"}
                                    \/ proc'[c].slot \notin Slots,
         \A d \in Clients \ {c} : /\ cPc'[d] = cPc[d] /\ port'[d] = port[d]
                                  /\ toClient'[d] = toClient[d],
         \A p \in Clients :
           proc'[p].pc \in {"forked", "serving"} /\ proc'[p].slot \in Slots =>
             \/ proc[p].pc \in {"forked", "serving"} /\ proc'[p].slot = proc[p].slot
             \/ proc'[p].slot \in Told(p)'
  PROVE  Covered'
<1>1. \A d \in Clients \ {c} : Told(d)' = Told(d)  BY DEF Told
<1> SUFFICES ASSUME NEW p \in Clients, proc'[p].pc \in {"forked", "serving"},
                    proc'[p].slot \in Slots, proc'[p].slot \notin Told(p)'
             PROVE  FALSE
    BY DEF Covered
<1>2. proc[p].pc \in {"forked", "serving"} /\ proc'[p].slot = proc[p].slot  OBVIOUS
<1>3. proc'[p].slot \in Told(p)  BY <1>2 DEF Covered
<1> QED  BY <1>1, <1>3

\* Where a client is tells what it knows.
LEMMA ToldOf ==
  ASSUME HandshakeTypeOK, Clean, NEW c \in Clients
  PROVE  /\ cPc[c] \notin {"synack", "port"} => toClient[c] = << >>
         /\ cPc[c] \notin {"port", "connected", "served"} => Told(c) = {}
         /\ toClient[c] = << >> /\ cPc[c] \notin {"connected", "served"} => Told(c) = {}
         /\ cPc[c] \in {"connected", "served"} => Told(c) = {port[c]} \cap Slots
         /\ cPc[c] \notin {"synack", "port"} \/ toClient[c] # << >> =>
              \A i \in DOMAIN toServer : toServer[i][1] # c
<1>1. cPc[c] \notin {"synack", "port"} => toClient[c] = << >>  BY DEF Clean
<1>2. toClient[c] = << >> => \A s \in Slots : ~\E i \in DOMAIN toClient[c] : toClient[c][i] = PortText(s)
      OBVIOUS
<1>3. cPc[c] \notin {"synack", "port"} \/ toClient[c] # << >> =>
        \A i \in DOMAIN toServer : toServer[i][1] # c
      BY DEF Clean
<1>4. \A s \in Slots : PortText(s) # SynAck
      BY Different, SlotsAssumption DEF Slots, Ports
<1>5. cPc[c] = "synack" => Told(c) = {}
  <2> SUFFICES ASSUME cPc[c] = "synack", NEW s \in Slots, NEW i \in DOMAIN toClient[c],
                      toClient[c][i] = PortText(s)
               PROVE  FALSE
      BY DEF Told
  <2>1. toClient[c] = <<SynAck>>  BY <1>2 DEF Clean
  <2>2. DOMAIN <<SynAck>> = {1} /\ <<SynAck>>[1] = SynAck  OBVIOUS
  <2> QED  BY <1>4, <2>1, <2>2
<1>6. toClient[c] = << >> /\ cPc[c] \notin {"connected", "served"} => Told(c) = {}
      BY <1>2 DEF Told
<1>7. cPc[c] \in {"connected", "served"} => Told(c) = {port[c]} \cap Slots
  <2> SUFFICES ASSUME cPc[c] \in {"connected", "served"}  PROVE Told(c) = {port[c]} \cap Slots
      OBVIOUS
  <2>1. toClient[c] = << >>  BY <1>1
  <2> QED  BY <1>2, <2>1 DEF Told
<1> QED  BY <1>1, <1>3, <1>5, <1>6, <1>7

\* Steps of clients, ...
LEMMA ClientClean ==
  ASSUME HandshakeTypeOK, Clean, NEW c \in Clients,
         Connect(c) \/ ClientStep(c) \/ Leave(c) \/ InterruptClient(c), mishaps' = {}
  PROVE  Clean' /\ (~Leave(c) => Told(c) \subseteq Told(c)')
<1>0. toClient \in [Clients -> Seq(Replies)] /\ toServer \in Seq(Request)  BY DEF HandshakeTypeOK, Request
<1>1. CASE Connect(c)
  <2>1. cPc[c] = "start" /\ cPc'[c] = "synack" /\ \A d \in Clients \ {c} : cPc'[d] = cPc[d]
        BY <1>1, Own DEF Connect
  <2>2. SendToServer(c, <<"SYN">>) /\ UNCHANGED <<port, toClient>>
        BY <1>1 DEF Connect
  <2>3. toClient'[c] = << >> /\ Told(c) = {} /\ \A i \in DOMAIN toServer : toServer[i][1] # c
        BY <2>1, <2>2, ToldOf
  <2>4. \A i \in DOMAIN toServer' :
          \/ i \in DOMAIN toServer /\ toServer'[i] = toServer[i]
          \/ toServer'[i][1] = c /\ i = Len(toServer) + 1 /\ toServer'[i] = <<c, "SYN">>
        BY <2>2, OneAdded DEF Texts
  <2>5. Clean'  BY <2>1, <2>2, <2>3, <2>4, CleanClient
  <2> QED  BY <2>1, <2>2, <2>3, <2>5
<1>2. CASE SynAckRead(c)
  <2>1. cPc[c] = "synack" /\ toClient[c] # << >> /\ Consume(c) /\ UNCHANGED port
        BY <1>2 DEF SynAckRead
  <2>2. toClient[c] = <<SynAck>> /\ Head(toClient[c]) = SynAck /\ Tail(toClient[c]) = << >>
    <3>1. toClient[c] = <<SynAck>>  BY <2>1 DEF Clean
    <3>2. Head(<<SynAck>>) = SynAck /\ Tail(<<SynAck>>) = << >>  OBVIOUS
    <3> QED  BY <3>1, <3>2
  <2>3. Proceed(c, "port") /\ SendToServer(c, <<"ACK">>)
        BY <1>2, <2>2 DEF SynAckRead, AnswerToSynAck
  <2>4. cPc'[c] = "port" /\ \A d \in Clients \ {c} : cPc'[d] = cPc[d]  BY <2>3, Own
  <2>5. toClient'[c] = << >> /\ \A d \in Clients \ {c} : toClient'[d] = toClient[d]
        BY <1>0, <2>1, <2>2 DEF Consume
  <2>6. \A i \in DOMAIN toServer' :
          \/ i \in DOMAIN toServer /\ toServer'[i] = toServer[i]
          \/ toServer'[i][1] = c /\ i = Len(toServer) + 1 /\ toServer'[i] = <<c, "ACK">>
        BY <2>3, OneAdded DEF Texts
  <2>7. Told(c) = {} /\ \A i \in DOMAIN toServer : toServer[i][1] # c  BY <2>1, ToldOf
  <2>8. Clean'  BY <2>4, <2>5, <2>6, <2>7, CleanClient
  <2> QED  BY <2>1, <2>4, <2>5, <2>7, <2>8
<1>3. CASE SynAckTimesOut(c)
  <2>1. /\ cPc[c] = "synack" /\ Retry(c) /\ UNCHANGED port
        /\ Unanswered(c) /\ (Close(c) \/ UNCHANGED toClient)
        BY <1>3 DEF SynAckTimesOut, Suffer
  <2>2. toClient[c] = << >> /\ \A i \in DOMAIN toServer : toServer[i][1] # c
        BY <2>1 DEF Unanswered
  <2>3. toClient'[c] = << >> /\ \A d \in Clients \ {c} : toClient'[d] = toClient[d]
        BY <1>0, <2>1, <2>2, Emptied
  <2>4. \/ Proceed(c, "refused") /\ UNCHANGED toServer
        \/ Proceed(c, "synack") /\ SendToServer(c, <<"SYN">>)
        BY <2>1 DEF Retry
  <2>5. /\ \A d \in Clients \ {c} : cPc'[d] = cPc[d]
        /\ \/ cPc'[c] = "refused" /\ UNCHANGED toServer
           \/ cPc'[c] = "synack" /\ SendToServer(c, <<"SYN">>)
        BY <2>4, Own
  <2>6. \A i \in DOMAIN toServer' :
          \/ i \in DOMAIN toServer /\ toServer'[i] = toServer[i]
          \/ cPc'[c] = "synack" /\ toServer'[i][1] = c /\ i = Len(toServer) + 1 /\ toServer'[i] = <<c, "SYN">>
        BY <2>5, OneAdded DEF Texts
  <2>7. Told(c) = {}  BY <2>1, ToldOf
  <2>8. Clean'  BY <2>2, <2>3, <2>5, <2>6, CleanClient
  <2> QED  BY <2>1, <2>3, <2>5, <2>7, <2>8
<1>4. CASE PortRead(c)
  <2> DEFINE m == Head(toClient[c])
  <2>1. /\ cPc[c] = "port" /\ toClient[c] # << >> /\ Close(c) /\ UNCHANGED toServer
        /\ port' = [port EXCEPT ![c] = m[2]]
        /\ Proceed(c, CASE m = Busy -> "busy" [] m = SynAck -> "failed" [] OTHER -> "connected")
        BY <1>4 DEF PortRead
  <2>2. /\ m \notin {Busy, SynAck} => cPc'[c] = "connected"
        /\ \A d \in Clients \ {c} : cPc'[d] = cPc[d]
        BY <2>1, Own
  <2>3. toClient'[c] = << >> /\ \A d \in Clients \ {c} : toClient'[d] = toClient[d]
        BY <1>0, <2>1, Emptied
  <2>4. port'[c] = m[2] /\ \A d \in Clients \ {c} : port'[d] = port[d]  BY <2>1 DEF HandshakeTypeOK
  <2>5. \A i \in DOMAIN toServer : toServer[i][1] # c  BY <2>1, ToldOf
  <2>6. Clean'  BY <2>1, <2>2, <2>3, <2>5, CleanClient
  <2>7. Told(c) \subseteq Told(c)'
    <3> SUFFICES ASSUME NEW s \in Slots, NEW i \in DOMAIN toClient[c], toClient[c][i] = PortText(s)
                 PROVE  cPc'[c] = "connected" /\ port'[c] = s
        BY <2>1 DEF Told
    <3>1. s \in Ports /\ s # MaxClients /\ MaxClients \in Ports
          BY SlotsAssumption DEF Slots, Ports
    <3>2. PortText(s) \notin {SynAck, Busy, PortText(MaxClients)} /\ PortText(s)[2] = s
          BY <3>1, Different
    <3>3. CASE toClient[c] = <<Busy, PortText(MaxClients)>>
      <4>1. DOMAIN <<Busy, PortText(MaxClients)>> = {1, 2}  OBVIOUS
      <4> QED  BY <3>2, <3>3, <4>1
    <3>4. CASE \E t \in Slots : toClient[c] = <<PortText(t)>>
      <4>1. PICK t \in Slots : toClient[c] = <<PortText(t)>>  BY <3>4
      <4>2. DOMAIN <<PortText(t)>> = {1} /\ Head(<<PortText(t)>>) = PortText(t)  OBVIOUS
      <4>3. m = PortText(s)  BY <4>1, <4>2
      <4> QED  BY <2>2, <2>4, <3>2, <4>3
    <3> QED  BY <2>1, <3>3, <3>4 DEF Clean
  <2> QED  BY <2>1, <2>2, <2>3, <2>4, <2>6, <2>7
<1>5. CASE FirstCommand(c)
  <2>1. /\ cPc[c] = "connected" /\ cPc'[c] = "served" /\ \A d \in Clients \ {c} : cPc'[d] = cPc[d]
        /\ UNCHANGED <<port, toClient, toServer>>
        BY <1>5, Own DEF FirstCommand, Suffer
  <2>2. toClient[c] = << >> /\ \A i \in DOMAIN toServer : toServer[i][1] # c  BY <2>1, ToldOf
  <2>3. Clean'  BY <2>1, <2>2, CleanClient
  <2>4. Told(c) \subseteq Told(c)'  BY <2>1 DEF Told
  <2> QED  BY <2>1, <2>3, <2>4
<1>6. CASE Leave(c)
  <2>1. /\ cPc[c] = "served" /\ cPc'[c] = "left" /\ \A d \in Clients \ {c} : cPc'[d] = cPc[d]
        /\ UNCHANGED <<port, toClient, toServer>>
        BY <1>6, Own DEF Leave
  <2>2. toClient[c] = << >> /\ \A i \in DOMAIN toServer : toServer[i][1] # c  BY <2>1, ToldOf
  <2>3. Clean'  BY <2>1, <2>2, CleanClient
  <2> QED  BY <1>6, <2>3
<1>7. CASE InterruptClient(c)
  BY <1>7 DEF InterruptClient, Suffer
<1>8. CASE Closed(c)
  <2>1. /\ cPc[c] \in {"closing", "stuck"} /\ cPc'[c] = "left"
        /\ \A d \in Clients \ {c} : cPc'[d] = cPc[d]
        /\ UNCHANGED <<port, toServer>>
        BY <1>8, Own DEF Closed
  <2>2. toClient'[c] = << >> /\ \A d \in Clients \ {c} : toClient'[d] = toClient[d]
        BY <1>0, <1>8, Emptied DEF Closed
  <2>3. Told(c) = {} /\ \A i \in DOMAIN toServer : toServer[i][1] # c  BY <2>1, ToldOf
  <2>4. Clean'  BY <2>1, <2>2, <2>3, CleanClient
  <2> QED  BY <2>1, <2>2, <2>3, <2>4
<1> QED  BY <1>1, <1>2, <1>3, <1>4, <1>5, <1>6, <1>7, <1>8 DEF ClientStep

\* What a client does concerns itself.
LEMMA ClientOwn ==
  ASSUME HandshakeTypeOK, NEW c \in Clients,
         Connect(c) \/ ClientStep(c) \/ Leave(c) \/ InterruptClient(c)
  PROVE  /\ \A d \in Clients \ {c} : /\ cPc'[d] = cPc[d] /\ port'[d] = port[d]
                                     /\ toClient'[d] = toClient[d]
         /\ \A i \in DOMAIN toServer' : \/ i \in DOMAIN toServer /\ toServer'[i] = toServer[i]
                                       \/ toServer'[i][1] = c
<1>0. toClient \in [Clients -> Seq(Replies)] /\ toServer \in Seq(Request)
      BY DEF HandshakeTypeOK, Request
<1>1. ASSUME NEW ms \in Seq(Texts), SendToServer(c, ms)
      PROVE  \A i \in DOMAIN toServer' : \/ i \in DOMAIN toServer /\ toServer'[i] = toServer[i]
                                        \/ toServer'[i][1] = c
  BY <1>0, <1>1, Sent
<1>2. \A i \in DOMAIN toServer' : \/ i \in DOMAIN toServer /\ toServer'[i] = toServer[i]
                                 \/ toServer'[i][1] = c
  <2>1. \/ SendToServer(c, <<"SYN">>) \/ SendToServer(c, <<"ACK">>)
        \/ SendToServer(c, <<"EXIT", "FIN">>) \/ UNCHANGED toServer
    BY DEF Connect, ClientStep, SynAckRead, SynAckTimesOut, PortRead, FirstCommand, Closed,
           Leave, InterruptClient, Retry, AnswerToSynAck
  <2> QED  BY <1>1, <2>1, Texting
<1>3. \A d \in Clients \ {c} : toClient'[d] = toClient[d]
  <2>1. \/ UNCHANGED toClient \/ Close(c) \/ Consume(c)
    BY DEF Connect, ClientStep, SynAckRead, SynAckTimesOut, PortRead, FirstCommand, Closed,
           Leave, InterruptClient
  <2> QED  BY <1>0, <2>1 DEF Close, Consume
<1>4. \A d \in Clients \ {c} : port'[d] = port[d]
  <2>1. UNCHANGED port \/ PortRead(c)
    BY DEF Connect, ClientStep, SynAckRead, SynAckTimesOut, FirstCommand, Closed, Leave,
           InterruptClient
  <2> QED  BY <2>1 DEF PortRead, HandshakeTypeOK
<1>5. \A d \in Clients \ {c} : cPc'[d] = cPc[d]
  <2>1. \E pc : Proceed(c, pc)
    BY DEF Connect, ClientStep, SynAckRead, SynAckTimesOut, PortRead, FirstCommand, Closed,
           Leave, InterruptClient, Retry
  <2> QED  BY <2>1, Own
<1> QED  BY <1>2, <1>3, <1>4, <1>5

\* The client in hand waits, and may only learn that the server is busy.
LEMMA ClientHand ==
  ASSUME HandshakeTypeOK, PortInv, CleanHand, mishaps' = {}, NEW c \in Clients,
         Connect(c) \/ ClientStep(c) \/ Leave(c) \/ InterruptClient(c)
  PROVE  CleanHand'
<1>1. UNCHANGED <<pPc, addr, noClient>>  BY ClientPool DEF SessionEnds, vars
<1> SUFFICES ASSUME Accepting'  PROVE CleanHand'  BY DEF CleanHand
<1>2. /\ addr \in Clients /\ \A i \in DOMAIN toServer : toServer[i][1] # addr
      /\ IF noClient \in Slots
         THEN cPc[addr] = "port" /\ toClient[addr] = << >>
         ELSE \/ cPc[addr] = "port" /\ toClient[addr] = <<Busy>>
              \/ cPc[addr] = "busy"
      BY <1>1 DEF CleanHand, Accepting, PortInv, AddrInv
<1>3. CASE c # addr
  <2>1. /\ cPc'[addr] = cPc[addr] /\ toClient'[addr] = toClient[addr]
        /\ \A i \in DOMAIN toServer' : toServer'[i][1] # addr
        BY <1>2, <1>3, ClientOwn
  <2> QED  BY <1>1, <1>2, <2>1 DEF CleanHand
<1>4. CASE c = addr
  <2>1. PortRead(c)
    BY <1>2, <1>4 DEF ClientStep, Connect, SynAckRead, SynAckTimesOut, FirstCommand, Closed,
                      Leave, InterruptClient, Suffer
  <2>2. toClient[c] = <<Busy>> /\ noClient \notin Slots  BY <1>2, <1>4, <2>1 DEF PortRead
  <2>3. Head(toClient[c]) = Busy
    <3>1. Head(<<Busy>>) = Busy  OBVIOUS
    <3> QED  BY <2>2, <3>1
  <2>4. /\ Proceed(c, CASE Busy = Busy -> "busy" [] Busy = SynAck -> "failed" [] OTHER -> "connected")
        /\ UNCHANGED toServer
        BY <2>1, <2>3 DEF PortRead
  <2>5. cPc'[c] = "busy"  BY <2>4, Own, Different
  <2> QED  BY <1>1, <1>2, <1>4, <2>2, <2>4, <2>5 DEF CleanHand
<1> QED  BY <1>3, <1>4

\* The child of a client that leaves gives its slot back.
LEMMA ClientCovered ==
  ASSUME PortsOK, Clean, Covered, mishaps' = {}, ~lost, NEW c \in Clients,
         Connect(c) \/ ClientStep(c) \/ Leave(c) \/ InterruptClient(c)
  PROVE  Covered'
<1>0. HandshakeTypeOK /\ proc \in [Procs -> Child] /\ Clients = Procs
      BY ProcType DEF PortsOK, HandshakeTypeOK, Clients
<1>1. \A d \in Clients \ {c} : /\ cPc'[d] = cPc[d] /\ port'[d] = port[d]
                               /\ toClient'[d] = toClient[d]
      BY <1>0, ClientOwn
<1>2. CASE ~Leave(c)
  <2>1. Told(c) \subseteq Told(c)'  BY <1>0, <1>2, ClientClean
  <2>2. UNCHANGED proc  BY <1>2, ClientPool DEF vars
  <2> QED  BY <1>1, <2>1, <2>2, CoveredStep
<1>3. CASE Leave(c)
  <2>1. PICK p \in Procs : p \in Bound(port[c]) /\ SessionEnds(p)  BY <1>3, ClientPool
  <2>2. /\ proc[p].pc = "serving" /\ proc'[p].pc = "setFree"
        /\ \A q \in Procs \ {p} : proc'[q] = proc[q]
        BY <1>0, <2>1 DEF SessionEnds, Move, Child
  <2>3. cPc[c] = "served"  BY <1>3 DEF Leave
  <2>4. proc'[c].pc \notin {"forked", "serving"} \/ proc'[c].slot \notin Slots
    <3>1. CASE port[c] \in Slots
      <4>1. p = c  BY <2>1, <2>2, <2>3, <3>1, OwnChild DEF PortsOK
      <4> QED  BY <2>2, <4>1
    <3>2. CASE port[c] \notin Slots
      <4>1. Told(c) = {}  BY <1>0, <2>3, <3>2, ToldOf
      <4> QED  BY <1>0, <2>2, <4>1 DEF Covered
    <3> QED  BY <3>1, <3>2
  <2> QED  BY <1>0, <1>1, <2>2, <2>4, CoveredStep
<1> QED  BY <1>2, <1>3

CleanOK == Clean /\ CleanHand /\ (~lost => Covered)

\* A client goes on.
LEMMA ClientCleanOK ==
  ASSUME PortsOK, CleanOK, mishaps' = {}, NEW c \in Clients,
         Connect(c) \/ ClientStep(c) \/ Leave(c) \/ InterruptClient(c)
  PROVE  CleanOK'
<1>1. UNCHANGED lost  BY ClientPool DEF SessionEnds, vars
<1> QED  BY <1>1, ClientClean, ClientHand, ClientCovered DEF PortsOK, CleanOK

-----------------------------------------------------------------------------
\* The parent reads a datagram and answers a SYN, or goes on with an ACK.
LEMMA ReadClean ==
  ASSUME PortsOK, CleanOK, SynRead \/ AckRead
  PROVE  CleanOK'
<1>0. HandshakeTypeOK /\ Clean /\ ParentReads /\ Sender \in Clients
  <2>1. ParentReads  BY DEF SynRead, AckRead
  <2> QED  BY <2>1, CleanTaken DEF PortsOK, CleanOK
<1>1. /\ toClient[Sender] = << >>
      /\ <<Text, cPc[Sender]>> \in {<<"SYN", "synack">>, <<"ACK", "port">>}
      /\ \A i, j \in DOMAIN toServer' : toServer'[i][1] = toServer'[j][1] => i = j
      /\ \A i \in DOMAIN toServer' :
           toServer'[i][1] # Sender /\ \E k \in DOMAIN toServer : toServer'[i] = toServer[k]
      BY <1>0, CleanTaken
<1>2. UNCHANGED <<cPc, port, proc, lost>>
      BY DEF SynRead, AckRead, clients, SynArrives, NoSyn, AckArrives, NoAck
<1>3. PICK a \in Clients : a = Sender  BY <1>0
<1>4. Told(a) = {}  BY <1>0, <1>1, <1>3, ToldOf
<1>5. \A d \in Clients \ {a} : toClient'[d] = toClient[d]
  <2>1. UNCHANGED toClient \/ SendToClient(a, <<SynAck>>)  BY <1>3 DEF SynRead, AckRead
  <2> QED  BY <1>0, <2>1, RepliedOne DEF Replies
<1>6. ~lost => Covered'  BY <1>2, <1>4, <1>5, CoveredStep DEF CleanOK
<1>7. CASE SynRead
  <2>1. ~Accepting'  BY <1>7 DEF SynRead, SynArrives, NoSyn, Accepting
  <2>2. toClient'[a] = << >> \/ (cPc[a] = "synack" /\ toClient'[a] = <<SynAck>>)
    <3>1. CASE UNCHANGED toClient  BY <1>1, <1>3, <3>1
    <3>2. CASE Text = "SYN" /\ SendToClient(a, <<SynAck>>)
      <4>1. cPc[a] = "synack"  BY <1>1, <1>3, <3>2
      <4>2. HasSocket(a)  BY <4>1 DEF HasSocket
      <4>3. toClient'[a] = << >> \o <<SynAck>>
            BY <1>0, <1>1, <1>3, <3>2, <4>2, RepliedOne DEF Replies
      <4> QED  BY <4>1, <4>3, Texting, ConcatEmptySeq
    <3> QED  BY <1>3, <1>7, <3>1, <3>2 DEF SynRead
  <2>3. Clean'  BY <1>0, <1>1, <1>2, <1>3, <1>5, <2>2, CleanStep
  <2> QED  BY <1>2, <1>6, <2>1, <2>3 DEF CleanOK, CleanHand
<1>8. CASE AckRead
  <2>1. UNCHANGED toClient  BY <1>8 DEF AckRead
  <2>2. Clean'  BY <1>0, <1>1, <1>2, <1>3, <2>1, CleanStep
  <2>3. CleanHand'
    <3>1. CASE Text = "ACK" /\ addr' = Sender /\ noClient' = 0
      <4>1. 0 \in Slots  BY SlotsAssumption DEF Slots
      <4> QED  BY <1>1, <1>2, <2>1, <3>1, <4>1 DEF CleanHand
    <3>2. CASE NoAck  BY <3>2 DEF NoAck, CleanHand, Accepting
    <3> QED  BY <1>8, <3>1, <3>2 DEF AckRead, IsAck, Recipient, AckArrives
  <2> QED  BY <1>2, <1>6, <2>2, <2>3 DEF CleanOK
<1> QED  BY <1>7, <1>8

\* What is told to the client in hand.
LEMMA HandClean ==
  ASSUME PortsOK, Clean, CleanHand, Accepting, UNCHANGED <<cPc, toServer>>,
         NEW m \in Replies, SendToClient(addr, <<m>>),
         IF noClient \in Slots THEN m = Busy \/ \E s \in Slots : m = PortText(s)
                               ELSE m = PortText(MaxClients)
  PROVE  /\ Clean' /\ addr \in Clients
         /\ \A d \in Clients \ {addr} : toClient'[d] = toClient[d]
         /\ noClient \in Slots => cPc[addr] = "port" /\ toClient'[addr] = <<m>>
<1>0. HandshakeTypeOK /\ toClient \in [Clients -> Seq(Replies)]  BY DEF PortsOK, HandshakeTypeOK
<1>1. PICK a \in Clients : a = addr  BY DEF PortsOK, PortInv, AddrInv
<1>2. /\ \A d \in Clients \ {a} : toClient'[d] = toClient[d]
      /\ HasSocket(a) => toClient'[a] = toClient[a] \o <<m>>
      /\ ~HasSocket(a) => toClient'[a] = toClient[a]
      BY <1>0, <1>1, RepliedOne
<1>3. \A i \in DOMAIN toServer : toServer[i][1] # a  BY <1>1 DEF CleanHand
<1>4. CASE noClient \in Slots
  <2>1. cPc[a] = "port" /\ toClient[a] = << >>  BY <1>1, <1>4 DEF CleanHand
  <2>2. toClient'[a] = << >> \o <<m>>  BY <1>2, <2>1 DEF HasSocket
  <2>3. toClient'[a] = <<m>>
    <3>1. <<m>> \in Seq(Replies)  BY ShortSeq
    <3> QED  BY <2>2, <3>1, ConcatEmptySeq
  <2>4. \/ \E s \in Slots : toClient'[a] = <<PortText(s)>>
        \/ toClient'[a] = <<Busy>>
        BY <1>4, <2>3
  <2>5. Clean'  BY <1>2, <1>3, <2>1, <2>4, CleanStep DEF Clean
  <2> QED  BY <1>1, <1>2, <2>1, <2>3, <2>5
<1>5. CASE noClient \notin Slots
  <2>1. \/ cPc[a] = "port" /\ toClient[a] = <<Busy>>
        \/ cPc[a] = "busy" /\ toClient[a] = << >>
        BY <1>1, <1>5 DEF CleanHand, Clean
  <2>2. \/ cPc[a] = "port" /\ toClient'[a] = <<Busy, PortText(MaxClients)>>
        \/ toClient'[a] = << >>
    <3>1. CASE cPc[a] = "port" /\ toClient[a] = <<Busy>>
      <4>1. toClient'[a] = <<Busy>> \o <<PortText(MaxClients)>>
            BY <1>2, <1>5, <3>1 DEF HasSocket
      <4> QED  BY <3>1, <4>1, Texting
    <3>2. CASE cPc[a] = "busy" /\ toClient[a] = << >>  BY <1>2, <3>2 DEF HasSocket
    <3> QED  BY <2>1, <3>1, <3>2
  <2>3. \/ toClient'[a] = << >>
        \/ cPc[a] = "port" /\ toClient'[a] \in {<<Busy>>, <<Busy, PortText(MaxClients)>>}
        BY <2>2
  <2>4. Clean'  BY <1>2, <1>3, <2>3, CleanStep DEF Clean
  <2> QED  BY <1>1, <1>2, <1>5, <2>4
<1> QED  BY <1>4, <1>5

\* The parent searches a slot ...
LEMMA SearchClean ==
  ASSUME PortsOK, CleanOK, SearchSlot, TypeOK'
  PROVE  CleanOK'
<1>0. HandshakeTypeOK /\ Clean /\ CleanHand /\ Accepting
      BY DEF PortsOK, CleanOK, SearchSlot, Scan, Accepting
<1>1. /\ UNCHANGED <<cPc, port, toServer, addr, proc, lost>> /\ noClient \in Slots
      /\ pPc' \in {"setBusy", "scan", "fork"}
      BY <1>0 DEF SearchSlot, Scan, clients, HandshakeTypeOK, TypeOK
<1>2. addr \in Clients /\ Told(addr) = {}  BY <1>0, InHand DEF PortsOK
<1>3. cPc[addr] = "port" /\ toClient[addr] = << >>
      /\ \A i \in DOMAIN toServer : toServer[i][1] # addr
      BY <1>0, <1>1 DEF CleanHand
<1>4. CASE pPc' # "fork"
  <2>1. UNCHANGED toClient /\ noClient' \in Slots
    BY <1>1, <1>4 DEF SearchSlot, TypeOK
  <2>2. Clean' /\ CleanHand'  BY <1>0, <1>1, <1>3, <2>1 DEF Clean, CleanHand
  <2>3. ~lost => Covered'  BY <1>1, <1>2, <2>1, CoveredStep DEF CleanOK
  <2> QED  BY <1>1, <2>2, <2>3 DEF CleanOK
<1>5. CASE pPc' = "fork"
  <2>1. SendToClient(addr, <<Busy>>) /\ Busy \in Replies
        BY <1>5 DEF SearchSlot, BusyText, Replies
  <2>2. noClient' \notin Slots
        BY <1>1, <1>5, SlotsAssumption DEF SearchSlot, Scan, IsLast, Slots
  <2>3. /\ Clean' /\ toClient'[addr] = <<Busy>>
        /\ \A d \in Clients \ {addr} : toClient'[d] = toClient[d]
        BY <1>0, <1>1, <2>1, HandClean
  <2>4. CleanHand'  BY <1>1, <1>3, <2>2, <2>3 DEF CleanHand
  <2>5. ~lost => Covered'  BY <1>1, <1>2, <2>3, CoveredStep DEF CleanOK
  <2> QED  BY <1>1, <2>3, <2>4, <2>5 DEF CleanOK
<1> QED  BY <1>4, <1>5

\* ... and forks a child that the client is told of.
LEMMA ForkClean ==
  ASSUME PortsOK, CleanOK, ForkChild
  PROVE  CleanOK'
<1>0. /\ HandshakeTypeOK /\ Clean /\ CleanHand /\ Accepting /\ ~Accepting'
      /\ proc \in [Procs -> Child] /\ Clients = Procs
      BY ProcType DEF PortsOK, CleanOK, ForkChild, Fork, Accepting, HandshakeTypeOK, Clients
<1>1. /\ UNCHANGED <<cPc, port, toServer, lost>> /\ SendToClient(addr, <<PortText(noClient)>>)
      /\ proc' = [proc EXCEPT ![addr] = Forked(noClient)]
      BY DEF ForkChild, Fork, clients
<1>2. addr \in Clients /\ Told(addr) = {}  BY <1>0, InHand DEF PortsOK
<1>3. noClient \in 0 .. MaxClients /\ PortText(noClient) \in Replies
      BY <1>0 DEF HandshakeTypeOK, TypeOK, Ports, Replies
<1>4. noClient \notin Slots => noClient = MaxClients  BY <1>3, SlotsAssumption DEF Slots
<1>5. /\ Clean' /\ \A d \in Clients \ {addr} : toClient'[d] = toClient[d]
      /\ noClient \in Slots => toClient'[addr] = <<PortText(noClient)>>
      BY <1>0, <1>1, <1>3, <1>4, HandClean
<1>6. \A d \in Clients : d = addr /\ noClient \in Slots => noClient \in Told(d)'
  <2>1. DOMAIN <<PortText(noClient)>> = {1} /\ <<PortText(noClient)>>[1] = PortText(noClient)
        OBVIOUS
  <2> QED  BY <1>5, <2>1 DEF Told
<1>7. /\ proc'[addr].slot = noClient
      /\ \A p \in Clients \ {addr} : proc'[p] = proc[p]
      BY <1>0, <1>1, <1>2 DEF Forked
<1>8. ~lost => Covered'
  <2>1. PICK a \in Clients : a = addr  BY <1>2
  <2> QED  BY <1>1, <1>2, <1>5, <1>6, <1>7, <2>1, CoveredStep DEF CleanOK
<1> QED  BY <1>0, <1>1, <1>5, <1>8 DEF CleanOK, CleanHand

\* Children that end, or give their slot back, need no client.
LEMMA InsideClean ==
  ASSUME PortsOK, CleanOK, Inside \/ \E p \in Clients : ChildWorks(p), lost => lost'
  PROVE  CleanOK'
<1>0. /\ HandshakeTypeOK /\ Clean /\ CleanHand /\ proc \in [Procs -> Child] /\ Clients = Procs
      BY ProcType DEF PortsOK, CleanOK, HandshakeTypeOK, Clients
<1>1. /\ UNCHANGED <<cPc, port, toClient, toServer, addr>>
      /\ Accepting' => Accepting /\ noClient' = noClient
      BY <1>0, InsideHand DEF clients
<1>2. Clean' /\ CleanHand'  BY <1>0, <1>1 DEF Clean, CleanHand
<1>3. \A p \in Clients : proc'[p].pc \in {"forked", "serving"} =>
        proc[p].pc \in {"forked", "serving"} /\ proc'[p].slot = proc[p].slot
  <2>1. CASE Inside
    <3>1. UNCHANGED proc \/ \E p \in Procs : proc' = [proc EXCEPT ![p] = NoProc]
          BY <2>1 DEF Inside, ParentLoads, ParentStores, Record, Reap, Forget, NothingToReap, Zombies
    <3>2. NoProc.pc = "none"  BY DEF NoProc
    <3> QED  BY <1>0, <3>1, <3>2
  <2>2. CASE \E p \in Clients : ChildWorks(p)
    <3>1. PICK p \in Clients : Start(p) \/ ChildLoads(p) \/ ChildStores(p)
          BY <2>2 DEF ChildWorks
    <3>2. \A q \in Clients \ {p} : proc'[q] = proc[q]
          BY <1>0, <3>1 DEF Start, ChildLoads, ChildStores, Move, End
    <3>3. CASE Start(p)
      BY <1>0, <3>2, <3>3 DEF Start, Move, End, NoProc, Child
    <3>4. CASE ChildLoads(p) \/ ChildStores(p)
      <4>1. proc'[p].pc \in {"storeFree", "zombie"}
            BY <1>0, <3>4 DEF ChildLoads, ChildStores, End, NoProc, Child
      <4> QED  BY <3>2, <4>1
    <3> QED  BY <3>1, <3>3, <3>4
  <2> QED  BY <2>1, <2>2
<1>4. ASSUME NEW c \in Clients, ~lost  PROVE Covered'
  <2>1. Told(c)' = Told(c)  BY <1>1 DEF Told
  <2> QED  BY <1>1, <1>3, <1>4, <2>1, CoveredStep DEF CleanOK
<1>5. ~lost => Covered'
  <2>1. CASE Clients = {}  BY <2>1 DEF Covered
  <2> QED  BY <1>4, <2>1
<1> QED  BY <1>2, <1>5 DEF CleanOK

\* The parent looks for children only, or nothing happens.
LEMMA IdleClean ==
  ASSUME PortsOK, CleanOK, NothingRead \/ UNCHANGED handshakeVars
  PROVE  CleanOK'
<1>1. UNCHANGED <<cPc, port, toClient, toServer, addr, proc, lost>>
  BY DEF NothingRead, NoSyn, clients, server, handshakeVars, vars
<1>2. Accepting' => Accepting /\ noClient' = noClient
  BY DEF NothingRead, NoSyn, server, handshakeVars, vars, Accepting
<1> QED  BY <1>1, <1>2 DEF CleanOK, Clean, CleanHand, Covered, Told

LEMMA NextClean == PortsOK /\ CleanInv /\ [HandshakeNext]_handshakeVars => CleanInv'
<1> SUFFICES ASSUME PortsOK, CleanInv, [HandshakeNext]_handshakeVars, mishaps' = {}
             PROVE  CleanOK'
    BY DEF CleanInv, CleanOK
<1>1. mishaps = {}
  <2>1. mishaps \subseteq mishaps'
    BY DEF HandshakeNext, handshakeVars, ClientStep, ServerStep, Suffer, Connect, SynAckRead,
           SynAckTimesOut, PortRead, FirstCommand, Leave, InterruptClient, Closed, SynRead,
           NothingRead, AckRead, SearchSlot, ForkChild, Inside, ChildWorks, Lose
  <2> QED  BY <2>1
<1>2. CleanOK  BY <1>1 DEF CleanInv, CleanOK
<1>3. TypeOK' /\ (lost => lost')  BY PoolStep, NextType, LostForEver DEF PortsOK, HandshakeTypeOK
<1>4. ASSUME NEW c \in Clients, Connect(c) \/ ClientStep(c) \/ Leave(c) \/ InterruptClient(c)
      PROVE  CleanOK'
  BY <1>2, <1>4, ClientCleanOK
<1>5. CASE ServerStep \/ \E p \in Clients : ChildWorks(p)
  <2>1. CASE NothingRead \/ UNCHANGED handshakeVars  BY <1>2, <2>1, IdleClean
  <2> QED  BY <1>2, <1>3, <1>5, <2>1, ReadClean, SearchClean, ForkClean, InsideClean DEF ServerStep
<1>6. CASE Lose  BY <1>6 DEF Lose, Suffer
<1>7. CASE UNCHANGED handshakeVars  BY <1>2, <1>7, IdleClean
<1> QED  BY <1>4, <1>5, <1>6, <1>7 DEF HandshakeNext

LEMMA CleanInvariance == HandshakeSpec => [](PortsOK /\ CleanInv)
<1>1. HandshakeInit => CleanInv
  <2> SUFFICES ASSUME HandshakeInit  PROVE Clean /\ CleanHand /\ Covered  BY DEF CleanInv
  <2>1. DOMAIN toServer = {} /\ \A c \in Clients : toClient[c] = << >>  BY DEF HandshakeInit
  <2>2. \A p \in Clients : proc[p].pc = "none"  BY DEF HandshakeInit, Init, NoProc, Clients
  <2>3. ~Accepting  BY DEF HandshakeInit, Init, Accepting
  <2> QED  BY <2>1, <2>2, <2>3 DEF Clean, CleanHand, Covered
<1> QED  BY <1>1, InitPorts, NextPorts, NextClean, PTL DEF HandshakeSpec

\* As long as nothing is lost or late and nobody is interrupted, the parent takes no slot
\* for a client that does not come to know it, however many clients connect at once and
\* whosever datagram server_open_connection_with_client takes for the ACK.
THEOREM NoSlotWithoutClientHolds == HandshakeSpec => []NoSlotWithoutClient
<1>1. CleanInv => NoSlotWithoutClient  BY DEF CleanInv, Covered, NoSlotWithoutClient
<1> QED  BY <1>1, CleanInvariance, PTL
=============================================================================
