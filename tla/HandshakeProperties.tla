-------------------------- MODULE HandshakeProperties --------------------------
(***************************************************************************)
(* Who is told which port, and who is left waiting.                        *)
(***************************************************************************)
EXTENDS Handshake, ServerPoolProperties

\* The variables keep their types.
HandshakeTypeOK ==
  /\ TypeOK /\ ~Stopping
  /\ cPc \in [Clients -> {"start", "synack", "port", "connected", "served", "closing", "stuck",
                          "refused", "busy", "failed", "left"}]
  /\ attempts \in [Clients -> 0 .. Attempts]
  /\ \A c \in Clients : attempts[c] = 0 => cPc[c] = "refused"
  /\ port \in [Clients -> Ports \cup {NoPort}]
  /\ \A c \in Clients : cPc[c] \in {"connected", "served"} => port[c] \in Ports
  /\ toClient \in [Clients -> Seq(Replies)]
  /\ toServer \in Seq(Clients \X Texts)
  /\ addr \in Clients \cup {NoClient} /\ mishaps \subseteq AllMishaps

\* The slots whose port client c knows, or will know when it reads on.
Told(c) ==
  {s \in Slots : \/ cPc[c] \in {"connected", "served"} /\ port[c] = s
                 \/ \E i \in DOMAIN toClient[c] : toClient[c][i] = PortText(s)}

\* A port is only ever told to a client that waits for one, although handshakes of
\* several clients overlap in one socket and a SYN may be repeated.
PortGoesToWhoWaits ==
  \A c \in Clients : \A i \in DOMAIN toClient[c] :
    toClient[c][i] # SynAck => cPc[c] \in {"port", "stuck"}

\* Two clients never know the same slot's port, whatever goes wrong on the network and
\* with the clients, unless a store of set_bit has undone another process's.
ToldApart ==
  ~lost => \A c, d \in Clients : c # d => Told(c) \cap Told(d) = {}

\* As long as nothing goes wrong and no update is lost, no child has a slot of which no
\* client knows, however handshakes overlap.
NoSlotWithoutClient ==
  mishaps = {} /\ ~lost =>
    \A p \in Clients : proc[p].pc \in {"forked", "serving"} /\ proc[p].slot \in Slots =>
       \E c \in Clients : proc[p].slot \in Told(c)

-----------------------------------------------------------------------------
Alone == Cardinality({c \in Clients : cPc[c] \in {"synack", "port"}}) <= 1

\* The client did not start, was told that it cannot be served, or its first command
\* reached a child on the port of a slot; it gave up if the server does not run.
IsSettled(c) ==
  \/ cPc[c] \in {"start", "busy"}
  \/ cPc[c] \in {"served", "left"} /\ port[c] \in Slots
  \/ cPc[c] = "refused" /\ ~IsUp

\* A client that connects while no other does is not left waiting, nor sent away by
\* a server that runs.
AloneIsServed ==
  [](mishaps \subseteq {"down"} /\ ~lost /\ Alone) => <>[](\A c \in Clients : IsSettled(c))

\* The parent is not kept waiting for an ACK, however many clients there are.
KeepsAccepting == [](mishaps = {}) => []<>(pPc = "select")

\* A client whose SYN was answered learns its port, or that there is none.
EveryoneIsAnswered == \A c \in Clients : (cPc[c] = "port" ~> cPc[c] # "port")

-----------------------------------------------------------------------------
\* The inductive invariants of HandshakeProofs: PortInv, and CleanInv with
\* NoSlotWithoutClient.

OnlySynAcks(c) == \A k \in DOMAIN toClient[c] : toClient[c][k] = SynAck
NoPortYet(c) == \A k \in DOMAIN toClient[c] : toClient[c][k] \in {SynAck, Busy}

\* Where a client can be that has sent its ACK and was told no port.
AckSent == {"port", "stuck", "failed", "left"}
Answering == AckSent \cup {"busy"}

\* A client sends one ACK, and has not got the answer while it is under way.
AckInv ==
  /\ \A i, j \in DOMAIN toServer : toServer[i] = toServer[j] /\ toServer[i][2] = "ACK" => i = j
  /\ \A i \in DOMAIN toServer : toServer[i][2] = "ACK" =>
       /\ cPc[toServer[i][1]] \in AckSent
       /\ OnlySynAcks(toServer[i][1])

\* From the ACK to the fork the parent has one client in hand, which waits for its port
\* or was told that the server is busy.
Accepting == pPc \in {"scan", "setBusy", "storeBusy", "fork"}

AddrInv ==
  Accepting =>
    /\ addr \in Clients /\ cPc[addr] \in Answering /\ NoPortYet(addr)
    /\ \A i \in DOMAIN toServer : toServer[i] # <<addr, "ACK">>

\* Nothing arrives at a socket that is closed.
SocketInv == \A c \in Clients : ~HasSocket(c) => toClient[c] = << >>

\* The slot whose port a client knows is held by its child.
ToldInv ==
  ~lost => \A c \in Clients : \A s \in Told(c) :
             proc[c].pc \in {"forked", "serving"} /\ proc[c].slot = s

\* The invariant whatever goes wrong.
PortInv == AckInv /\ SocketInv /\ PortGoesToWhoWaits /\ AddrInv /\ ToldInv

\* As long as nothing goes wrong, a client has one datagram under way, or the answer.
Clean ==
  /\ \A i, j \in DOMAIN toServer : toServer[i][1] = toServer[j][1] => i = j
  /\ \A c \in Clients : \A i \in DOMAIN toServer : toServer[i][1] = c =>
       /\ toClient[c] = << >>
       /\ <<toServer[i][2], cPc[c]>> \in {<<"SYN", "synack">>, <<"ACK", "port">>}
  /\ \A c \in Clients :
       \/ toClient[c] = << >>
       \/ cPc[c] = "synack" /\ toClient[c] = <<SynAck>>
       \/ cPc[c] = "port" /\ \E s \in Slots : toClient[c] = <<PortText(s)>>
       \/ cPc[c] = "port" /\ toClient[c] \in {<<Busy>>, <<Busy, PortText(MaxClients)>>}

\* The client in hand has nothing under way but BUSY.
CleanHand ==
  Accepting =>
    /\ \A i \in DOMAIN toServer : toServer[i][1] # addr
    /\ IF noClient \in Slots
       THEN cPc[addr] = "port" /\ toClient[addr] = << >>
       ELSE \/ cPc[addr] = "port" /\ toClient[addr] = <<Busy>>
            \/ cPc[addr] = "busy"

\* A child that has a slot serves the client that knows it.
Covered ==
  \A p \in Clients : proc[p].pc \in {"forked", "serving"} /\ proc[p].slot \in Slots =>
                       proc[p].slot \in Told(p)

CleanInv == mishaps = {} => Clean /\ CleanHand /\ (~lost => Covered)
==============================================================================
