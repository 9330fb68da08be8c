-------------------------------- MODULE Session --------------------------------
(***************************************************************************)
(* One client and its child of the server, from the first command to the   *)
(* end: client_manage_server_commands, client_close_connection_with_server *)
(* and client_signal_handler (src/spqr_client.c),                          *)
(* server_manage_client_commands, server_close_connection_with_client and  *)
(* child_server_signal_handler (src/spqr_server.c).  The two exchange text *)
(* datagrams over the sockets the files travel on, so that each side only  *)
(* knows from its place in the dialogue what the next datagram means.      *)
(*                                                                         *)
(* A file transfer is FileTransfer: its packets are not in the queues.     *)
(* What an environment may do wrong is in Mishaps; `mishaps' remembers     *)
(* what it did.  Datagrams that are not lost arrive in order.              *)
(*                                                                         *)
(* Left out: the hour-long alarm (its handler does what SIGINT's does), a  *)
(* second signal in a handler, a timeout kept by a failed fopen when the   *)
(* next text makes the client wait for a PUT unasked, upper and lower      *)
(* case, the video command.                                                *)
(***************************************************************************)
EXTENDS Integers, Sequences, FiniteSets

CONSTANTS
  Names,          \* the file names a user may type
  NameLength,     \* strlen of each
  ClientFiles,    \* the names in client-files/
  ServerFiles,    \* the names in server-files/ at the beginning
  ListParts,      \* how many datagrams a LIST may take
  Mishaps,        \* what may go wrong, a subset of AllMishaps
  MaxMishaps,     \* bound: how many of them do so in one session
  MaxUnread       \* bound: the user types no command while more datagrams are unread

Commands == {"LIST", "GET", "PUT", "CLOSE", "EXIT"}
Feedback == {"START_TRANSFER", "TRANSFER_COMPLETED", "TRANSFER_ERROR", "ABORT", "EXIST",
             "NOT_EXIST", "FIN", "FINACK"}
Answers == {"LISTING", "INSERT_FILENAME", "FILENAME_NOT_FOUND", "COMMAND_NOT_FOUND"}

\* A packet or an acknowledgement of a transfer, where a text is expected; the path
\* of a file name that never arrived.
Stray == "a packet"
NoName == ""

Texts == Names \cup Commands \cup Feedback \cup Answers \cup {Stray, NoName}

AllMishaps ==
  {"loss",        \* the network loses a datagram of the dialogue
   "late",        \* an answer takes longer than the timeout that waits for it
   "stray",       \* a packet or an acknowledgement arrives after its transfer
   "disagree",    \* the sender gives up although the receiver has everything
   "open",        \* fopen fails
   "SIGINT", "SIGQUIT", "SIGTERM"}

ASSUME NamesAssumption ==
  /\ Names \cap (Commands \cup Feedback \cup Answers \cup {Stray, NoName}) = {}
  /\ NameLength \in [Names -> Nat]
  /\ ClientFiles \subseteq Names /\ ServerFiles \subseteq Names
ASSUME EnvironmentAssumption ==
  /\ ListParts \subseteq Nat \ {0} /\ Mishaps \subseteq AllMishaps
  /\ MaxMishaps \in Nat /\ MaxUnread \in Nat

VARIABLES
  cPc, cRequest,  \* the client: where it is, `request'
  cPath,          \* the file of its transfer
  cRet,           \* what its main_receiver returned
  sPc, sPath,     \* the child: where it is, the file of its transfer
  timed,          \* ends whose socket has kept the timeout of something else
  soiled,         \* ends whose buffer for the outcome holds the rest of a longer text
  toChild,        \* datagrams on their way to the child, or in its socket
  toClient,       \* and to the client
  sent, received, kept,   \* the transfer: see FileTransfer
  begun,          \* has its sender sent packets?
  spoilt,         \* was the receiver's first packet a text?
  files,          \* the names in server-files/ ...
  whole,          \* ... and those whose file is complete
  stored,         \* the files the client's main_sender reported as sent
  mishaps,        \* what went wrong so far
  struck          \* where the client and the child were at the last signal

client == <<cPc, cRequest, cPath, cRet>>
child == <<sPc, sPath>>
sockets == <<timed, soiled>>
queues == <<toChild, toClient>>
transfer == <<sent, received, kept, begun, spoilt>>
disk == <<files, whole>>
history == <<stored, mishaps, struck>>
vars == <<client, child, sockets, queues, transfer, disk, history>>

T == INSTANCE FileTransfer WITH N <- 1

Init ==
  /\ cPc = "prompt" /\ cRequest = NoName /\ cPath = NoName
  /\ cRet = "EXIT_SUCCESS"
  /\ sPc = "command" /\ sPath = NoName
  /\ timed = {} /\ soiled = {}
  /\ toChild = << >> /\ toClient = << >>
  /\ T!TInit /\ begun = FALSE /\ spoilt = FALSE
  /\ files = ServerFiles /\ whole = ServerFiles
  /\ stored = {} /\ mishaps = {} /\ struck = <<"none", "none">>

-----------------------------------------------------------------------------
(* Datagrams.  A socket that was closed receives nothing.                  *)

ChildReads(m) == toChild # << >> /\ m = Head(toChild) /\ toChild' = Tail(toChild)
ClientReads(m) == toClient # << >> /\ m = Head(toClient) /\ toClient' = Tail(toClient)

SendToChild(ms) == toChild' = IF sPc = "ended" THEN << >> ELSE toChild \o ms
SendToClient(ms) == toClient' = IF cPc = "ended" THEN << >> ELSE toClient \o ms

\* A receiver has not read its sender's error packet yet.
ErrorOnItsWay ==
  /\ "receiving" \in {cPc, sPc} /\ sent = "TRANSFER_ERROR" /\ received = "running"
  /\ "loss" \notin mishaps

\* Nothing is on its way: whoever waits now waits in vain.
Idle == toChild = << >> /\ toClient = << >> /\ ~ErrorOnItsWay

\* Something goes wrong, once.
Suffer(m) ==
  /\ m \in Mishaps \ mishaps /\ Cardinality(mishaps) < MaxMishaps
  /\ mishaps' = mishaps \cup {m}

\* A timeout of the dialogue is long enough for an answer that is on its way,
\* unless something made it late.
TimesOut ==
  \/ Idle /\ UNCHANGED mishaps
  \/ ~Idle /\ Suffer("late")

\* A call of fopen, and what it returns.
Opens == UNCHANGED mishaps
OpenFails == Suffer("open")

\* main_receiver begins: a new transfer.
NewTransfer ==
  /\ sent' = "running" /\ received' = "running" /\ kept' = << >>
  /\ begun' = FALSE /\ spoilt' = FALSE

\* One end succeeds although the other has given up, or gives up although the other
\* has succeeded.
Disagrees(ended, with) ==
  IF ended = with THEN Suffer("disagree") ELSE UNCHANGED mishaps

\* What was under way when the sender was misled has arrived before.
Receives ==
  /\ begun /\ ~spoilt /\ sent # "EXIT_SUCCESS"
  /\ T!ReceiverSucceeds /\ Disagrees(sent, "TRANSFER_ERROR")
GivesUp == T!SenderFails /\ Disagrees(received, "EXIT_SUCCESS")

\* main_sender succeeds: the receiver has, or the sender was misled and no datagram
\* is left in its socket.
Succeeds(queue) ==
  /\ \/ T!SenderSucceeds
     \/ sent = "EXIT_SUCCESS" /\ queue = << >> /\ UNCHANGED <<sent, received, kept>>
  /\ UNCHANGED mishaps

\* A text in the place of the first packet spoils the count of the packets: the next
\* one is taken for the last.
ReceivesOne ==
  /\ begun /\ spoilt /\ received = "running" /\ sent # "EXIT_SUCCESS"
  /\ received' = "EXIT_SUCCESS" /\ UNCHANGED <<sent, kept, mishaps>>

-----------------------------------------------------------------------------
(* The client                                                              *)

\* The client sends ms and is at the top of its loop, with `request' r: CLOSE sends
\* FIN, GET and PUT ask the user for a file name, anything else for a command.
SendAndLoop(ms, r) ==
  /\ cRequest' = r
  /\ cPc' = CASE r = "CLOSE" -> "finack"
              [] r = "GET" -> "getName"
              [] r = "PUT" -> "putName"
              [] OTHER -> "prompt"
  /\ SendToChild(IF r = "CLOSE" THEN Append(ms, "FIN") ELSE ms)

LoopWith(r) == SendAndLoop(<< >>, r)

\* The process ends and closes its socket.
ClientEnds == cPc' = "ended" /\ toClient' = << >>

\* get_user_input: what was typed is sent; a name is no command.
TypeCommand ==
  /\ cPc = "prompt" /\ cPc' = "answer"
  /\ Len(toChild) + Len(toClient) <= MaxUnread
  /\ \E r \in Commands \cup Names : cRequest' = r /\ SendToChild(<<r>>)
  /\ timed' = timed \ {"client"}
  /\ UNCHANGED <<cPath, cRet, soiled, child, toClient, transfer, disk, history>>

\* After the answer, or without one: EXIT closes the connection, too.
AfterAnswer(r) ==
  IF r = "EXIT" THEN cRequest' = r /\ cPc' = "finack" /\ SendToChild(<<"FIN">>)
                ELSE LoopWith(r)

\* The answer is shown; it does not matter which one it is.
Answered ==
  /\ cPc = "answer"
  /\ \E m \in Texts : ClientReads(m)
  /\ AfterAnswer(cRequest)
  /\ UNCHANGED <<cPath, cRet, sockets, child, transfer, disk, history>>

\* None within a second: the session is over.
AnswerTimesOut ==
  /\ cPc = "answer" /\ TimesOut
  /\ AfterAnswer("EXIT")
  /\ UNCHANGED <<cPath, cRet, sockets, child, toClient, transfer, disk, stored, struck>>

TypeGetName ==
  /\ cPc = "getName" /\ cPc' = "getAnswer"
  /\ \E n \in Names : cRequest' = n /\ SendToChild(<<n>>)
  /\ timed' = timed \ {"client"}
  /\ UNCHANGED <<cPath, cRet, soiled, child, toClient, transfer, disk, history>>

\* main_receiver creates the file and sends START_TRANSFER; without a file it
\* returns at once, and the other end is not told.
ClientReceiverStarts(name) ==
  /\ cPath' = name
  /\ \/ /\ name # NoName /\ Opens
        /\ cPc' = "receiving" /\ UNCHANGED cRet
        /\ SendToChild(<<"START_TRANSFER">>) /\ NewTransfer
     \/ /\ IF name = NoName THEN UNCHANGED mishaps ELSE OpenFails
        /\ cPc' = "getOutcome" /\ cRet' = "TRANSFER_ERROR"
        /\ UNCHANGED <<toChild, transfer>>

\* What the server answers is the name of the file to write.
NameAnswered ==
  /\ cPc = "getAnswer"
  /\ \/ /\ ClientReads("FILENAME_NOT_FOUND")
        /\ LoopWith(NoName)
        /\ UNCHANGED <<cPath, cRet, transfer, mishaps>>
     \/ \E m \in Texts \ {"FILENAME_NOT_FOUND"} :
          /\ ClientReads(m) /\ ClientReceiverStarts(m)
          /\ UNCHANGED cRequest
  /\ UNCHANGED <<sockets, child, disk, stored, struck>>

\* Without an answer `request' is EXIT, which nothing looks at, and the path is that
\* of the directory.
NameTimesOut ==
  /\ cPc = "getAnswer" /\ TimesOut
  /\ cRequest' = "EXIT" /\ cPath' = NoName
  /\ cPc' = "getOutcome" /\ cRet' = "TRANSFER_ERROR"
  /\ UNCHANGED <<sockets, child, queues, transfer, disk, stored, struck>>

\* Mutant: the return value is taken for success.
AlwaysSuccess(ret) == "EXIT_SUCCESS"

ReturnOf(ret) == ret

\* main_receiver returns.
ClientReceived ==
  /\ cPc = "receiving" /\ cPc' = "getOutcome"
  /\ Receives \/ ReceivesOne \/ (T!ReceiverFails /\ UNCHANGED mishaps)
  /\ cRet' = ReturnOf(received')
  /\ UNCHANGED <<cRequest, cPath, child, sockets, queues, begun, spoilt, disk, stored, struck>>

\* A text longer than the one expected leaves its end in the buffer, which is not
\* cleared, so that the next text seems longer than it is.
Soils(end, m) ==
  IF m \in Names \cup Answers \cup {Stray} THEN soiled' \in {soiled \ {end}, soiled \cup {end}}
                                         ELSE UNCHANGED soiled

\* The text is read with the length of the one expected: TRANSFER_COMPLETED is cut
\* where TRANSFER_ERROR is.
Recognized(m, ret) ==
  \/ m = "TRANSFER_ERROR" /\ (ret = "EXIT_SUCCESS" => "client" \notin soiled)
  \/ m = "TRANSFER_COMPLETED" /\ ret = "EXIT_SUCCESS"

\* The client reads until it reads an outcome.  `request' is the file name now.
OutcomeRead ==
  /\ cPc = "getOutcome"
  /\ \E m \in Texts :
       /\ ClientReads(m)
       /\ \/ Recognized(m, cRet) /\ LoopWith(cRequest) /\ soiled' = soiled \ {"client"}
          \/ ~Recognized(m, cRet) /\ Soils("client", m) /\ UNCHANGED <<cPc, cRequest, toChild>>
  /\ UNCHANGED <<cPath, cRet, child, timed, transfer, disk, history>>

\* Mutant: any file may be sent.
AnyName == Names

\* filename_cmp: those that readdir finds.
Sendable == ClientFiles

\* A file the client does not have is not sent, and the server told so.
TypePutName ==
  /\ cPc = "putName"
  /\ \/ \E n \in Sendable :
          /\ cPc' = "putAnswer" /\ cPath' = n /\ cRequest' = NoName
          /\ SendToChild(<<n>>)
     \/ /\ Names \ Sendable # {}
        /\ cPc' = "prompt" /\ cRequest' = NoName /\ SendToChild(<<"ABORT">>)
        /\ UNCHANGED cPath
  /\ UNCHANGED <<cRet, sockets, child, toClient, transfer, disk, history>>

\* The answer is waited for without a timeout.
PutAnswered ==
  /\ cPc = "putAnswer"
  /\ \/ ClientReads("EXIST") /\ LoopWith(NoName)
     \/ /\ \E m \in Texts \ {"EXIST"} : ClientReads(m) /\ cRequest' = m
        /\ cPc' = "putStart" /\ UNCHANGED toChild
  /\ UNCHANGED <<cPath, cRet, sockets, child, transfer, disk, history>>

\* So is START_TRANSFER.  Anything else is followed by TRANSFER_COMPLETED; a file
\* that cannot be read is not, nor is the server told, and main_sender returns
\* without resetting the timeout.
PutStarted ==
  /\ cPc = "putStart"
  /\ \/ /\ ClientReads("START_TRANSFER")
        /\ \/ Opens /\ cPc' = "sending" /\ begun' = TRUE /\ UNCHANGED <<cRequest, toChild, timed>>
           \/ OpenFails /\ LoopWith(cRequest) /\ timed' = timed \cup {"client"} /\ UNCHANGED begun
     \/ /\ \E m \in Texts \ {"START_TRANSFER"} : ClientReads(m)
        /\ SendAndLoop(<<"TRANSFER_COMPLETED">>, cRequest)
        /\ UNCHANGED <<begun, mishaps, timed>>
  /\ UNCHANGED <<cPath, cRet, soiled, child, sent, received, kept, spoilt, disk, stored, struck>>

\* main_sender returns; its success is reported.
ClientSent ==
  /\ cPc = "sending"
  /\ \/ /\ Succeeds(toClient) /\ stored' = stored \cup {cPath}
        /\ SendAndLoop(<<"TRANSFER_COMPLETED">>, cRequest)
     \/ GivesUp /\ LoopWith(cRequest) /\ UNCHANGED stored
  /\ UNCHANGED <<cPath, cRet, sockets, child, toClient, begun, spoilt, disk, struck>>

\* client_close_connection_with_server, FIN being sent: the answer must be FINACK ...
CloseAnswered ==
  /\ cPc = "finack"
  /\ \/ ClientReads("FINACK") /\ cPc' = "fin"
     \/ (\E m \in Texts \ {"FINACK"} : ClientReads(m)) /\ ClientEnds
  /\ UNCHANGED <<cRequest, cPath, cRet, sockets, child, toChild, transfer, disk, history>>

\* Mutant: it is not confirmed.
NoReply == << >>

LastReply == <<"FINACK">>

\* ... and FIN the next, which is confirmed.
FinArrives ==
  /\ cPc = "fin" /\ ClientEnds
  /\ \/ toClient # << >> /\ Head(toClient) = "FIN" /\ SendToChild(LastReply)
     \/ toClient # << >> /\ Head(toClient) # "FIN" /\ UNCHANGED toChild
  /\ UNCHANGED <<cRequest, cPath, cRet, sockets, child, transfer, disk, history>>

\* In the handler the socket may still have the timeout of what was interrupted.
CloseTimesOut ==
  /\ cPc \in {"finack", "fin"} /\ "client" \in timed /\ TimesOut
  /\ ClientEnds
  /\ UNCHANGED <<cRequest, cPath, cRet, sockets, child, toChild, transfer, disk,
                 stored, struck>>

\* Mutant: the child is not told what the FIN is for.
FinOnly == <<"FIN">>

ExitAndFin == <<"EXIT", "FIN">>

\* client_signal_handler: SIGINT sends EXIT and closes the connection, whatever the
\* server is waiting for; SIGQUIT does not wait.
Strikes(signal) ==
  /\ cPc # "ended" /\ mishaps \cap {"SIGINT", "SIGQUIT"} = {} /\ Suffer(signal)
  /\ struck' = <<cPc, sPc>>

Interrupt ==
  /\ Strikes("SIGINT")
  /\ cPc' = "finack" /\ SendToChild(ExitAndFin)
  /\ timed' = IF cPc \in {"answer", "getAnswer", "getOutcome", "sending"}
               THEN timed \cup {"client"} ELSE timed
  /\ UNCHANGED <<cRequest, cPath, cRet, child, soiled, toClient, transfer, disk, stored>>

Quit ==
  /\ Strikes("SIGQUIT")
  /\ ClientEnds /\ SendToChild(<<"EXIT">>)
  /\ UNCHANGED <<cRequest, cPath, cRet, sockets, child, transfer, disk, stored>>

-----------------------------------------------------------------------------
(* The child                                                               *)

ChildEnds == sPc' = "ended" /\ toChild' = << >>

Replies(ms, pc) == SendToClient(ms) /\ sPc' = pc

\* The next command, and the answer.  EXIT is not answered.
Serve ==
  /\ sPc = "command"
  /\ \/ /\ ChildReads("LIST")
        /\ \E k \in ListParts : Replies([i \in 1 .. k |-> "LISTING"], "command")
     \/ ChildReads("GET") /\ Replies(<<"INSERT_FILENAME">>, "getName")
     \/ ChildReads("PUT") /\ Replies(<<"PUT">>, "putName")
     \/ ChildReads("CLOSE") /\ Replies(<<"CLOSE">>, "fin")
     \/ ChildReads("EXIT") /\ Replies(<< >>, "fin")
     \/ \E m \in Texts \ Commands : ChildReads(m) /\ Replies(<<"COMMAND_NOT_FOUND">>, "command")
  /\ UNCHANGED <<client, sockets, sPath, transfer, disk, history>>

\* GET: the name is sent back if there is such a file.
LookUp ==
  /\ sPc = "getName"
  /\ \E m \in Texts :
       /\ ChildReads(m)
       /\ \/ m \in files /\ sPath' = m /\ Replies(<<m>>, "getStart")
          \/ m \notin files /\ Replies(<<"FILENAME_NOT_FOUND">>, "command") /\ UNCHANGED sPath
  /\ UNCHANGED <<client, sockets, transfer, disk, history>>

\* START_TRANSFER starts main_sender; anything else, or a file that cannot be read,
\* is a failed transfer.
StartRead ==
  /\ sPc = "getStart"
  /\ \/ /\ ChildReads("START_TRANSFER")
        /\ \/ Opens /\ Replies(<< >>, "sending") /\ begun' = TRUE
           \/ OpenFails /\ Replies(<<"TRANSFER_ERROR">>, "command") /\ UNCHANGED begun
     \/ /\ \E m \in Texts \ {"START_TRANSFER"} : ChildReads(m)
        /\ Replies(<<"TRANSFER_ERROR">>, "command") /\ UNCHANGED <<begun, mishaps>>
  /\ UNCHANGED <<client, sockets, sPath, sent, received, kept, spoilt, disk, stored, struck>>

\* MAX_TIMEOUT is over: recvfrom fails, and spqr_assert ends the process.
StartTimesOut ==
  /\ sPc = "getStart" /\ TimesOut
  /\ ChildEnds
  /\ UNCHANGED <<client, sockets, sPath, toClient, transfer, disk, stored, struck>>

\* Mutant: a failure is not told.
CompletedOnly(ret) == IF ret = "EXIT_SUCCESS" THEN <<"TRANSFER_COMPLETED">> ELSE << >>

Outcome(ret) == IF ret = "EXIT_SUCCESS" THEN <<"TRANSFER_COMPLETED">> ELSE <<"TRANSFER_ERROR">>

\* main_sender returns, and the outcome is sent, once.
ChildSent ==
  /\ sPc = "sending"
  /\ Succeeds(toChild) \/ GivesUp
  /\ Replies(Outcome(sent'), "command")
  /\ UNCHANGED <<client, sockets, sPath, toChild, begun, spoilt, disk, stored, struck>>

\* Mutant: a file that exists is received all the same.
IsNeverThere(name) == FALSE

\* get_server_files(true), when no other child creates or removes the file.
IsThere(name) == name \in files

\* PUT: a new name is answered, and main_receiver creates the file and sends
\* START_TRANSFER, or returns at once, without a word.
PutName ==
  /\ sPc = "putName"
  /\ \E m \in Texts :
       /\ ChildReads(m)
       /\ \/ /\ m = "ABORT" /\ Replies(<< >>, "command")
             /\ UNCHANGED <<sPath, transfer, disk, mishaps>>
          \/ /\ m # "ABORT" /\ IsThere(m) /\ Replies(<<"EXIST">>, "command")
             /\ UNCHANGED <<sPath, transfer, disk, mishaps>>
          \/ /\ m # "ABORT" /\ ~IsThere(m) /\ Opens /\ sPath' = m /\ NewTransfer
             /\ Replies(<<"NOT_EXIST", "START_TRANSFER">>, "receiving")
             /\ files' = files \cup {m} /\ whole' = whole \ {m}
          \/ /\ m # "ABORT" /\ ~IsThere(m) /\ OpenFails /\ Replies(<<"NOT_EXIST">>, "command")
             /\ UNCHANGED <<sPath, transfer, disk>>
  /\ UNCHANGED <<client, sockets, stored, struck>>

\* main_receiver returns: a file that failed is removed, and the client not told.
ChildReceived ==
  /\ sPc = "receiving"
  /\ \/ Receives /\ sPc' = "putOutcome" /\ whole' = whole \cup {sPath} /\ UNCHANGED files
     \/ ReceivesOne /\ sPc' = "putOutcome" /\ UNCHANGED disk
     \/ /\ T!ReceiverFails /\ sPc' = "command" /\ files' = files \ {sPath}
        /\ UNCHANGED <<whole, mishaps>>
  /\ UNCHANGED <<client, sockets, sPath, queues, begun, spoilt, stored, struck>>

\* TRANSFER_COMPLETED is read into the memory of the path, server-files/ (13) and the
\* name and a zero byte, which must hold its 18 characters.  If they fill it, strcmp
\* reads on after its end.  (A text that is no name is taken to be
\* as long as EXIT, with which either may happen.)
PathSize(n) == 13 + (IF n \in Names THEN NameLength[n] ELSE 4) + 1
MayMatch(n) == PathSize(n) >= 18 /\ "child" \notin soiled
MayMiss(n) == PathSize(n) <= 18 \/ "child" \in soiled

\* The child reads until it reads TRANSFER_COMPLETED.
CompletedRead ==
  /\ sPc = "putOutcome"
  /\ \E m \in Texts :
       /\ ChildReads(m)
       /\ \/ m = "TRANSFER_COMPLETED" /\ MayMatch(sPath) /\ sPc' = "command" /\ soiled' = soiled \ {"child"}
          \/ /\ m = "TRANSFER_COMPLETED" => MayMiss(sPath)
             /\ IF PathSize(sPath) > 18 THEN Soils("child", m) ELSE UNCHANGED soiled
             /\ UNCHANGED sPc
  /\ UNCHANGED <<client, timed, sPath, toClient, transfer, disk, history>>

\* Mutant: one answer is forgotten.
FinAckOnly == <<"FINACK">>

FinAckAndFin == <<"FINACK", "FIN">>

\* server_close_connection_with_client: FIN is answered twice ...
FinRead ==
  /\ sPc = "fin" /\ toChild # << >>
  /\ \/ ChildReads("FIN") /\ Replies(FinAckAndFin, "finack")
     \/ Head(toChild) # "FIN" /\ ChildEnds /\ UNCHANGED toClient
  /\ UNCHANGED <<client, sockets, sPath, transfer, disk, history>>

\* ... and after the next datagram the process ends, with a status that tells
\* whether it was FINACK.
FinAckRead ==
  /\ sPc = "finack" /\ toChild # << >>
  /\ ChildEnds
  /\ UNCHANGED <<client, sockets, sPath, toClient, transfer, disk, history>>

\* Mutant: FIN is expected at once.
StraightToFin == "fin"

SigtermHandler == "dummy"

\* child_server_signal_handler: a datagram is read, whatever it is, and the
\* connection closed ...
Terminate ==
  /\ sPc # "ended" /\ Suffer("SIGTERM") /\ struck' = <<cPc, sPc>>
  /\ sPc' = SigtermHandler
  /\ timed' = IF sPc \in {"getStart", "sending", "putOutcome"} THEN timed \cup {"child"} ELSE timed
  /\ UNCHANGED <<client, soiled, sPath, queues, transfer, disk, stored>>

DummyRead ==
  /\ sPc = "dummy" /\ sPc' = "fin"
  /\ \E m \in Texts : ChildReads(m)
  /\ UNCHANGED <<client, sockets, sPath, toClient, transfer, disk, history>>

\* ... unless the socket has the timeout of what was interrupted, which is over.
HandlerTimesOut ==
  /\ sPc \in {"dummy", "fin", "finack"} /\ "child" \in timed /\ TimesOut
  /\ ChildEnds
  /\ UNCHANGED <<client, sockets, sPath, toClient, transfer, disk, stored, struck>>

-----------------------------------------------------------------------------
(* Texts and packets that meet the wrong reader                            *)

\* A text that is as long as an ack_packet_t up to its write_byte.
IsLong(m) ==
  \/ m \in Answers \cup {"TRANSFER_COMPLETED", Stray}
  \/ m \in Names /\ NameLength[m] >= 17

SenderReads(m) ==
  \/ sPc = "sending" /\ ChildReads(m) /\ UNCHANGED toClient
  \/ cPc = "sending" /\ ClientReads(m) /\ UNCHANGED toChild

\* wait_ack takes a text for an acknowledgement, and its first letters for the number
\* of a packet far beyond the window: what it finds there is taken for one that is
\* acknowledged; or the text comes after the last acknowledgement, and nothing is done.
TextForSender ==
  /\ \E m \in Texts : SenderReads(m)
  /\ UNCHANGED <<client, child, sockets, transfer, disk, history>>

\* Or there is no memory, and the process ends.
SenderCrashes ==
  /\ sent = "running"
  /\ \/ /\ sPc = "sending" /\ toChild # << >>
        /\ ChildEnds /\ UNCHANGED <<client, sPath, toClient>>
     \/ /\ cPc = "sending" /\ toClient # << >>
        /\ ClientEnds /\ UNCHANGED <<cRequest, cPath, cRet, child, toChild>>
  /\ UNCHANGED <<sockets, transfer, disk, history>>

\* Or the letters in write_byte are more than the size of the file, and that is the end
\* of the transfer; a late last acknowledgement of another transfer is so, too.
SenderMisled ==
  /\ sent = "running" /\ sent' = "EXIT_SUCCESS"
  /\ \E m \in Texts : IsLong(m) /\ SenderReads(m)
  /\ UNCHANGED <<client, child, sockets, received, kept, begun, spoilt, disk, history>>

\* The receiver takes it for a packet it has, and confirms it, if can_send_packet
\* lets it.  Before the first packet it spoils the count of packets to receive.
TextForReceiver ==
  /\ ~ErrorOnItsWay
  /\ spoilt' \in {spoilt, TRUE}
  /\ \E ack \in {<< >>, <<Stray>>} :
       \/ /\ sPc = "receiving" /\ SendToClient(IF cPc = "sending" THEN << >> ELSE ack)
          /\ \E m \in Texts : ChildReads(m)
       \/ /\ cPc = "receiving" /\ SendToChild(IF sPc = "sending" THEN << >> ELSE ack)
          /\ \E m \in Texts : ClientReads(m)
  /\ UNCHANGED <<client, child, sockets, sent, received, kept, begun, disk, history>>

\* A packet or an acknowledgement that was sent again, or one of the last ten
\* acknowledgements, arrives after the end it was sent to has returned.
StrayArrives ==
  /\ Suffer("stray")
  /\ \/ /\ received = "EXIT_SUCCESS" /\ sent # "running"
     \/ received # "running"
  /\ \/ SendToChild(<<Stray>>) /\ UNCHANGED toClient
     \/ SendToClient(<<Stray>>) /\ UNCHANGED toChild
  /\ UNCHANGED <<client, child, sockets, transfer, disk, stored, struck>>

\* The network loses a datagram, or it may have lost the error packet.
Lose ==
  /\ Suffer("loss")
  /\ \/ ErrorOnItsWay /\ UNCHANGED queues
     \/ toChild # << >> /\ toChild' = Tail(toChild) /\ UNCHANGED toClient
     \/ toClient # << >> /\ toClient' = Tail(toClient) /\ UNCHANGED toChild
  /\ UNCHANGED <<client, child, sockets, transfer, disk, stored, struck>>

-----------------------------------------------------------------------------
ClientStep ==
  \/ Answered \/ AnswerTimesOut \/ TypeGetName \/ NameAnswered \/ NameTimesOut
  \/ ClientReceived \/ OutcomeRead \/ TypePutName \/ PutAnswered \/ PutStarted
  \/ ClientSent \/ CloseAnswered \/ FinArrives \/ CloseTimesOut

ChildStep ==
  \/ Serve \/ LookUp \/ StartRead \/ StartTimesOut \/ ChildSent \/ PutName
  \/ ChildReceived \/ CompletedRead \/ FinRead \/ FinAckRead \/ DummyRead
  \/ HandlerTimesOut

Astray == TextForSender \/ SenderCrashes \/ SenderMisled \/ TextForReceiver

Environment == Interrupt \/ Quit \/ Terminate \/ StrayArrives \/ Lose

Next == TypeCommand \/ ClientStep \/ ChildStep \/ Astray \/ Environment

Spec == Init /\ [][Next]_vars

\* Both processes are scheduled, what was sent and not lost arrives, and the user
\* answers when asked for a file name - but need not type another command.
Fairness == WF_vars(ClientStep) /\ WF_vars(ChildStep) /\ WF_vars(Astray)

FairSpec == Spec /\ Fairness
=============================================================================
