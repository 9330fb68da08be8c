------------------------------- MODULE Handshake -------------------------------
(***************************************************************************)
(* How clients connect: client_establish_connection_with_server and        *)
(* client_open_connection_with_server (src/spqr_client.c), and on the      *)
(* server's side server_open_connection_with_client (src/spqr_server.c),   *)
(* with the processes and the bitmask of ServerPool.                       *)
(*                                                                         *)
(* All clients write to one socket of the parent, which serves them one    *)
(* after the other: a SYN, then whatever comes next.  The port of a slot   *)
(* is told to the sender of an ACK before its child exists.                *)
(*                                                                         *)
(* Every step of the server is one of ServerPool's, with the datagrams it  *)
(* reads and sends.  Signals to the server are left to ServerPool, what    *)
(* follows the first command to Session.  A client that starts again is    *)
(* another client.                                                         *)
(***************************************************************************)
EXTENDS ServerPool, Sequences

CONSTANTS
  Attempts,       \* CONNECTION_ATTEMPTS
  Mishaps,        \* what may go wrong, a subset of AllMishaps
  MaxMishaps      \* bound: how many of them do

AllMishaps ==
  {"loss",        \* the network loses a datagram
   "late",        \* a SYNACK takes longer than the 3 s a client waits for it
   "early",       \* a user's first command finds no child on its port yet
   "SIGINT",      \* a client is interrupted
   "down"}        \* the server does not run

ASSUME AttemptsAssumption == Attempts \in Nat \ {0}
ASSUME MishapsAssumption == Mishaps \subseteq AllMishaps /\ MaxMishaps \in Nat

\* A client has a number, which is the pid of the child forked for it.
Clients == Procs

Ports == 0 .. MaxClients            \* relative to PORT
NoPort == -1
NoClient == -1
Texts == {"SYN", "ACK", "EXIT", "FIN"}

\* What the parent sends: a text, which is PORT for the number that follows.
SynAck == <<"SYNACK", NoPort>>
Busy == <<"BUSY", NoPort>>
PortText(p) == <<"PORT", p>>
Replies == {SynAck, Busy} \cup {PortText(p) : p \in Ports}

VARIABLES
  cPc,            \* where each client is
  attempts,       \* connection_attempts
  port,           \* the port it was told
  toClient,       \* datagrams for each client
  toServer,       \* datagrams for the parent's socket, with their senders
  addr,           \* client_addr, whom the parent sends to, during a handshake
  mishaps         \* what went wrong so far

clients == <<cPc, attempts, port>>
server == <<addr, vars>>
handshakeVars == <<clients, toClient, toServer, server, mishaps>>

HandshakeInit ==
  /\ cPc = [c \in Clients |-> "start"]
  /\ attempts = [c \in Clients |-> Attempts]
  /\ port = [c \in Clients |-> NoPort]
  /\ toClient = [c \in Clients |-> << >>] /\ toServer = << >>
  /\ addr = NoClient
  /\ Init
  /\ \/ mishaps = {}
     \/ mishaps = {"down"} /\ "down" \in Mishaps

IsUp == "down" \notin mishaps

Suffer(m) ==
  /\ m \in Mishaps \ mishaps /\ Cardinality(mishaps) < MaxMishaps
  /\ mishaps' = mishaps \cup {m}

-----------------------------------------------------------------------------
(* Datagrams                                                               *)

SendToServer(c, ms) ==
  toServer' = IF IsUp THEN toServer \o [i \in DOMAIN ms |-> <<c, ms[i]>>] ELSE toServer

\* Has the client its first socket still?  When the process ends, or has a socket for
\* its child instead, the first is closed, and what is in it lost.
HasSocket(c) == cPc[c] \in {"synack", "port", "closing", "stuck"}

SendToClient(c, ms) ==
  toClient' = IF HasSocket(c) THEN [toClient EXCEPT ![c] = @ \o ms] ELSE toClient

\* The client goes on at pc.
Proceed(c, pc) == cPc' = [cPc EXCEPT ![c] = pc]
Consume(c) == toClient' = [toClient EXCEPT ![c] = Tail(@)]
Close(c) == toClient' = [toClient EXCEPT ![c] = << >>]

\* The answer to c's SYN is not on its way: the parent read the SYN in the place of
\* an ACK, or it was lost.
Unanswered(c) == toClient[c] = << >> /\ \A i \in DOMAIN toServer : toServer[i][1] # c

-----------------------------------------------------------------------------
(* The client                                                              *)

Connect(c) ==
  /\ cPc[c] = "start" /\ Proceed(c, "synack")
  /\ SendToServer(c, <<"SYN">>)
  /\ UNCHANGED <<attempts, port, toClient, server, mishaps>>

\* Mutant: the answer is not confirmed.
NoAnswer == << >>

\* What the client sends when it has read the SYNACK.
AnswerToSynAck == <<"ACK">>

\* An attempt has failed.
LeftAfter(n) == n - 1

\* Mutant: >= for >.
IsNegative(n) == n < 0

IsExhausted(n) == n = 0

\* The loop over the attempts is left, and its local counter gone.
EndAttempts(c) == attempts' = [attempts EXCEPT ![c] = Attempts]

Retry(c) ==
  /\ attempts' = [attempts EXCEPT ![c] = LeftAfter(@)]
  /\ IF IsExhausted(attempts'[c]) THEN Proceed(c, "refused") /\ UNCHANGED toServer
                                   ELSE Proceed(c, "synack") /\ SendToServer(c, <<"SYN">>)

\* An answer came.  There is no timeout for the port.
SynAckRead(c) ==
  /\ cPc[c] = "synack" /\ toClient[c] # << >> /\ Consume(c)
  /\ IF Head(toClient[c]) = SynAck
     THEN Proceed(c, "port") /\ SendToServer(c, AnswerToSynAck) /\ EndAttempts(c)
     ELSE Retry(c)
  /\ UNCHANGED <<port, server, mishaps>>

\* None came within 3 s.
SynAckTimesOut(c) ==
  /\ cPc[c] = "synack"
  /\ \/ Unanswered(c) /\ UNCHANGED mishaps
     \/ ~Unanswered(c) /\ Suffer("late")
  /\ Retry(c)
  /\ IF IsExhausted(attempts'[c]) THEN Close(c) ELSE UNCHANGED toClient
  /\ UNCHANGED <<port, server>>

\* After the ACK: a port, or that the server is busy.  A second SYNACK is no port.
PortRead(c) ==
  /\ cPc[c] = "port" /\ toClient[c] # << >>
  /\ LET m == Head(toClient[c])
     IN  /\ Proceed(c, CASE m = Busy -> "busy" [] m = SynAck -> "failed" [] OTHER -> "connected")
         /\ port' = [port EXCEPT ![c] = m[2]]
  /\ Close(c)
  /\ UNCHANGED <<attempts, toServer, server, mishaps>>

\* The first command arrives if the child has bound its socket.  Without an answer
\* the client says good-bye to a child that waits for a command.
FirstCommand(c) ==
  /\ cPc[c] = "connected"
  /\ \/ Bound(port[c]) # {} /\ Proceed(c, "served") /\ UNCHANGED mishaps
     \/ Bound(port[c]) = {} /\ Suffer("early") /\ Proceed(c, "left")
  /\ UNCHANGED <<attempts, port, toClient, toServer, server>>

\* The session ends, for the child as well, which goes on to clear its bit.  A client
\* whose child another client has ended stays where it is.
Leave(c) ==
  /\ cPc[c] = "served" /\ Proceed(c, "left")
  /\ \E p \in Bound(port[c]) : SessionEnds(p)
  /\ UNCHANGED <<attempts, port, toClient, toServer, addr, mishaps>>

\* client_signal_handler says good-bye, to the parent, and waits for an answer; with
\* a timeout if the client waited for the SYNACK.
InterruptClient(c) ==
  /\ cPc[c] \in {"synack", "port"} /\ Suffer("SIGINT")
  /\ Proceed(c, IF cPc[c] = "synack" THEN "closing" ELSE "stuck")
  /\ SendToServer(c, <<"EXIT", "FIN">>) /\ EndAttempts(c)
  /\ UNCHANGED <<port, toClient, server>>

\* None of the parent's datagrams is a FINACK.
Closed(c) ==
  /\ \/ cPc[c] \in {"closing", "stuck"} /\ toClient[c] # << >>
     \/ cPc[c] = "closing"
  /\ Proceed(c, "left") /\ Close(c)
  /\ UNCHANGED <<attempts, port, toServer, server, mishaps>>

-----------------------------------------------------------------------------
(* The server                                                              *)

ParentReads == IsUp /\ toServer # << >> /\ toServer' = Tail(toServer)

Sender == Head(toServer)[1]
Text == Head(toServer)[2]

\* select reports a datagram.  A SYN is answered and its sender's ACK expected next,
\* without a timeout; anything else is dropped.
SynRead ==
  /\ ParentReads
  /\ \/ Text = "SYN" /\ SynArrives /\ addr' = Sender /\ SendToClient(Sender, <<SynAck>>)
     \/ Text # "SYN" /\ NoSyn /\ UNCHANGED <<addr, toClient>>
  /\ UNCHANGED <<clients, mishaps>>

\* select's second is over; the parent looks for children that have ended.  Without one
\* it only comes back to select.
NothingRead ==
  /\ IsUp /\ toServer = << >> /\ Zombies # {}
  /\ NoSyn
  /\ UNCHANGED <<clients, toClient, toServer, addr, mishaps>>

\* Mutant: any second datagram will do.
IsAnything(m) == TRUE

IsAck(m) == m = "ACK"

\* Mutant: the server that is full does not say so.
NothingSaid == << >>

BusyText == <<Busy>>

\* Mutant: the port is sent to the sender of the SYN.
FirstSender(syn, ack) == syn

\* client_addr is that of the last datagram, not of the last SYN.
Recipient(syn, ack) == ack

\* The next datagram, whoever sent it: an ACK is accepted, anything else ends the
\* handshake.
AckRead ==
  /\ ParentReads
  /\ \/ IsAck(Text) /\ AckArrives /\ addr' = Recipient(addr, Sender)
     \/ ~IsAck(Text) /\ NoAck /\ addr' = NoClient
  /\ UNCHANGED <<clients, toClient, mishaps>>

\* The first free slot is taken.  A server that is full says so, and goes on.
SearchSlot ==
  /\ Scan
  /\ IF pPc' = "fork" THEN SendToClient(addr, BusyText) ELSE UNCHANGED toClient
  /\ UNCHANGED <<clients, toServer, addr, mishaps>>

\* The client is told its port, the number after the last for one that was told that
\* the server is full; its child is forked.
ForkChild ==
  /\ Fork /\ pid' = addr
  /\ SendToClient(addr, <<PortText(noClient)>>) /\ addr' = NoClient
  /\ UNCHANGED <<clients, toServer, mishaps>>

\* What sends and reads nothing.
Inside ==
  /\ \/ ParentLoads \/ ParentStores \/ Record
     \/ Reap \/ Forget \/ NothingToReap
  /\ UNCHANGED <<clients, toClient, toServer, addr, mishaps>>

ChildWorks(p) ==
  /\ Start(p) \/ ChildLoads(p) \/ ChildStores(p)
  /\ UNCHANGED <<clients, toClient, toServer, addr, mishaps>>

-----------------------------------------------------------------------------
Lose ==
  /\ Suffer("loss")
  /\ \/ toServer # << >> /\ toServer' = Tail(toServer) /\ UNCHANGED toClient
     \/ \E c \in Clients : toClient[c] # << >> /\ Consume(c) /\ UNCHANGED toServer
  /\ UNCHANGED <<clients, server>>

ClientStep(c) ==
  SynAckRead(c) \/ SynAckTimesOut(c) \/ PortRead(c) \/ FirstCommand(c) \/ Closed(c)

ServerStep == SynRead \/ NothingRead \/ AckRead \/ SearchSlot \/ ForkChild \/ Inside

HandshakeNext ==
  \/ \E c \in Clients : Connect(c) \/ ClientStep(c) \/ Leave(c) \/ InterruptClient(c)
  \/ ServerStep \/ \E p \in Clients : ChildWorks(p)
  \/ Lose

HandshakeSpec == HandshakeInit /\ [][HandshakeNext]_handshakeVars

\* Parent, children and clients are scheduled, what was sent and not lost arrives,
\* a timeout ends, and a user who is connected types a first command.  No process can
\* keep the others waiting for ever: all behaviours end.
HandshakeFairness ==
  WF_handshakeVars((\E c \in Clients : ClientStep(c)) \/ ServerStep \/ (\E p \in Clients : ChildWorks(p)))

HandshakeFairSpec == HandshakeSpec /\ HandshakeFairness
=============================================================================
