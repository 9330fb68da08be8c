--------------------------- MODULE SessionProperties ---------------------------
(***************************************************************************)
(* How the two ends of a session stay in step, what a user may believe     *)
(* about a file, and when a session ends.                                  *)
(***************************************************************************)
EXTENDS Session

\* Values of NameLength: the path of a name of five characters has room for the
\* outcome and one character more.
Five == [n \in Names |-> 5]
Three == [n \in Names |-> 3]

\* The variables keep their types; a client only ever reports files of its own.
TypeOK ==
  /\ cPc \in {"prompt", "answer", "getName", "getAnswer", "receiving", "getOutcome", "putName",
              "putAnswer", "putStart", "sending", "finack", "fin", "ended"}
  /\ cRequest \in Texts /\ cPath \in Texts /\ cRet \in {"EXIT_SUCCESS", "TRANSFER_ERROR"}
  /\ sPc \in {"command", "getName", "getStart", "sending", "putName", "receiving", "putOutcome",
              "dummy", "fin", "finack", "ended"}
  /\ sPath \in Texts
  /\ timed \subseteq {"client", "child"} /\ soiled \subseteq {"client", "child"}
  /\ toChild \in Seq(Texts) /\ toClient \in Seq(Texts)
  /\ sent \in {"running", "EXIT_SUCCESS", "TRANSFER_ERROR"}
  /\ received \in {"running", "EXIT_SUCCESS", "TRANSFER_ERROR"}
  /\ kept \in {<< >>, T!Source}
  /\ begun \in BOOLEAN /\ spoilt \in BOOLEAN
  /\ files \subseteq Texts /\ whole \subseteq files
  /\ stored \subseteq ClientFiles
  /\ mishaps \subseteq AllMishaps

\* What the client sends to be stored is its own; what the child receives is not complete.
FilesInv ==
  /\ cPc \in {"putAnswer", "putStart", "sending"} => cPath \in ClientFiles
  /\ sPc = "receiving" => sPath \in files \ whole

-----------------------------------------------------------------------------
Calm == mishaps = {}

\* The child will be at its next command once it has read what the last one left
\* for it; q comes after that.
Ready(q) ==
  \/ sPc = "command" /\ toChild = q
  \/ sPc = "putName" /\ toChild = <<"ABORT">> \o q
  \/ sPc = "putOutcome" /\ toChild = <<"TRANSFER_COMPLETED">> \o q
  \/ sPc = "receiving" /\ sent = "TRANSFER_ERROR" /\ received = "running" /\ toChild = q

\* The child is at pc, ms is on its way to it and cs to the client.
Child(pc, ms, cs) == sPc = pc /\ toChild = ms /\ toClient = cs

SameFile == sPath = cPath

Transferring == SameFile /\ sent = "running"

\* Where the child is, and what is on its way, for each place of the client.
AtPrompt == toClient = << >> /\ Ready(<< >>)
AtAnswer ==
  \/ toClient = << >> /\ Ready(<<cRequest>>)
  \/ cRequest \in Names /\ Child("command", << >>, <<"COMMAND_NOT_FOUND">>)
  \/ cRequest = "LIST" /\ Child("command", << >>, <<"LISTING">>)
  \/ cRequest = "GET" /\ Child("getName", << >>, <<"INSERT_FILENAME">>)
  \/ cRequest = "PUT" /\ Child("putName", << >>, <<"PUT">>)
  \/ cRequest = "CLOSE" /\ Child("fin", << >>, <<"CLOSE">>)
  \/ cRequest = "EXIT" /\ Child("fin", << >>, << >>)
AtGetName == Child("getName", << >>, << >>)
AtGetAnswer ==
  \/ Child("getName", <<cRequest>>, << >>)
  \/ Child("command", << >>, <<"FILENAME_NOT_FOUND">>)
  \/ Child("getStart", << >>, <<sPath>>) /\ sPath = cRequest
AtReceiving ==
  /\ SameFile /\ received = "running" /\ ~spoilt
  /\ \/ Child("getStart", <<"START_TRANSFER">>, << >>) /\ sent = "running"
     \/ Child("sending", << >>, << >>) /\ sent = "running"
     \/ Child("command", << >>, <<"TRANSFER_ERROR">>) /\ sent = "TRANSFER_ERROR"
AtGetOutcome ==
  /\ SameFile
  /\ \/ /\ cRet = "EXIT_SUCCESS" /\ received = "EXIT_SUCCESS" /\ kept = T!Source
        /\ \/ Child("sending", << >>, << >>) /\ sent = "running"
           \/ Child("command", << >>, <<"TRANSFER_COMPLETED">>)
     \/ cRet = "TRANSFER_ERROR" /\ Child("command", << >>, <<"TRANSFER_ERROR">>)
AtPutName == Child("putName", << >>, << >>)
AtPutAnswer ==
  \/ Child("putName", <<cPath>>, << >>)
  \/ Child("command", << >>, <<"EXIST">>) /\ cPath \in files
  \/ /\ Child("receiving", << >>, <<"NOT_EXIST", "START_TRANSFER">>)
     /\ Transferring /\ received = "running"
AtPutStart ==
  Child("receiving", << >>, <<"START_TRANSFER">>) /\ Transferring /\ received = "running"
AtSending ==
  /\ Transferring
  /\ \/ Child("receiving", << >>, << >>) /\ received = "running"
     \/ Child("putOutcome", << >>, << >>) /\ received = "EXIT_SUCCESS"
AtFinAck ==
  \/ Child("fin", <<"FIN">>, << >>)
  \/ Child("finack", << >>, <<"FINACK", "FIN">>)
AtFin == Child("finack", << >>, <<"FIN">>)
AtEnd ==
  \/ Child("finack", <<"FINACK">>, << >>)
  \/ Child("ended", << >>, << >>)

\* The dialogue has no tags, lengths or numbers, but as long as nothing goes wrong
\* the two ends agree on what every datagram means: for each place of the client
\* there are few places of the child, each with one content of the two sockets.  It
\* takes names whose path holds the outcome, and lists of one datagram.
InStep ==
  Calm =>
    /\ cPc = "prompt" => AtPrompt
    /\ cPc = "answer" => AtAnswer
    /\ cPc = "getName" => AtGetName
    /\ cPc = "getAnswer" => AtGetAnswer
    /\ cPc = "receiving" => AtReceiving
    /\ cPc = "getOutcome" => AtGetOutcome
    /\ cPc = "putName" => AtPutName
    /\ cPc = "putAnswer" => AtPutAnswer
    /\ cPc = "putStart" => AtPutStart
    /\ cPc = "sending" => AtSending
    /\ cPc = "finack" => AtFinAck
    /\ cPc = "fin" => AtFin
    /\ cPc = "ended" => AtEnd

\* InStep is inductive together with what the two ends remember meanwhile.
CalmInv ==
  Calm =>
    /\ timed = {} /\ soiled = {} /\ ~spoilt
    /\ cPc = "answer" => cRequest \in Commands \cup Names
    /\ cPc \in {"getAnswer", "receiving", "getOutcome"} => cRequest \in Names
    /\ cPc = "putAnswer" => cPath \in Names /\ cRequest = NoName
    /\ cPc \in {"putStart", "sending"} => cRequest = "NOT_EXIST"
    /\ sPc \in {"receiving", "putOutcome"} => sPath \in Names
    /\ sPc = "receiving" /\ cPc \in {"putAnswer", "putStart"} => ~begun
    /\ sPc = "getStart" /\ cPc = "receiving" => ~begun

\* A file that the client reports as sent is complete on the server, although the
\* ends may disagree on the outcome, fopen fail, answers be late, and either end be
\* interrupted or stopped at any point.  (Lost or stray datagrams are another matter:
\* a text read in the place of the first packet spoils the receiver's count.)
PutIsStored == mishaps \cap {"loss", "stray"} = {} => stored \subseteq whole

\* When the receiver of a GET succeeds, it was the file the child sends, complete.
\* (If the child cannot open the file, its error text is taken for a packet, and
\* the receiver does not succeed.)
GotIsRight ==
  mishaps \cap {"loss", "stray"} = {} =>
    (cPc = "getOutcome" /\ cRet = "EXIT_SUCCESS" => SameFile /\ kept = T!Source)

-----------------------------------------------------------------------------
\* While nothing goes wrong, every command ends: the user is back at the prompt,
\* or has left.
BackToPrompt == [](mishaps = {}) => []<>(cPc \in {"prompt", "ended"})

\* While nothing goes wrong, the child ends when its client has.
EndTogether == [](mishaps = {}) => (cPc = "ended" ~> sPc = "ended")

\* A user who interrupts the client at the command prompt ends both, even when the
\* child has not read yet what the last command left for it.
InterruptedAtPrompt ==
  [](mishaps \subseteq {"SIGINT"}) => (struck[1] = "prompt" ~> cPc = "ended" /\ sPc = "ended")

\* A server that stops while its client's user is at the prompt and its child waits
\* for a command: both end, once the user types something, whatever it is.
ShutdownAtPrompt ==
  [](mishaps \subseteq {"SIGTERM"}) /\ []<>(cPc # "prompt")
    => (struck = <<"prompt", "command">> ~> cPc = "ended" /\ sPc = "ended")

\* The loop that waits for TRANSFER_COMPLETED reads over packets that were sent
\* again, and ends when the text has arrived.
DuplicatesAreConsumed ==
  [](mishaps \subseteq {"stray"}) => (sPc = "putOutcome" ~> sPc = "command")
=============================================================================
