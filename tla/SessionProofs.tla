----------------------------- MODULE SessionProofs -----------------------------
(***************************************************************************)
(* Proofs about Session, for any names and files: as long as nothing goes  *)
(* wrong, client and child agree on what each datagram means; whatever     *)
(* goes wrong, but for lost and stray datagrams, no success is reported    *)
(* that is not one.                                                        *)
(***************************************************************************)
EXTENDS SessionProperties, SequenceTheorems, TLAPS

\* The path of a name has room for the outcome, and a list fits one datagram.
LongNames == \A n \in Names : NameLength[n] >= 5
ShortLists == ListParts \subseteq {1}

\* The queues never hold more than two datagrams.
LEMMA Heads ==
  ASSUME NEW x, NEW y
  PROVE  /\ Head(<<x>>) = x /\ Tail(<<x>>) = << >> /\ <<x>> # << >>
         /\ Head(<<x, y>>) = x /\ Tail(<<x, y>>) = <<y>> /\ <<x, y>> # << >>
OBVIOUS

LEMMA Joined ==
  ASSUME NEW x, NEW y
  PROVE  /\ << >> \o <<x>> = <<x>> /\ << >> \o <<x, y>> = <<x, y>> /\ << >> \o << >> = << >>
         /\ <<x>> \o << >> = <<x>> /\ <<x>> \o <<y>> = <<x, y>>
         /\ Append(<< >>, x) = <<x>>
<1> DEFINE S == {x, y}
<1>1. << >> \in Seq(S) /\ <<x>> \in Seq(S) /\ <<y>> \in Seq(S) /\ <<x, y>> \in Seq(S)
  <2>1. x \in S /\ y \in S  OBVIOUS
  <2> QED  BY <2>1
<1>2. << >> \o <<x>> = <<x>> /\ << >> \o <<x, y>> = <<x, y>> /\ << >> \o << >> = << >>
      /\ <<x>> \o << >> = <<x>>
      BY <1>1, ConcatEmptySeq
<1>3. <<x>> \o <<y>> = <<x, y>>
  <2>1. /\ <<x>> \o <<y>> \in Seq(S) /\ Len(<<x>> \o <<y>>) = 2
        /\ (<<x>> \o <<y>>)[1] = x /\ (<<x>> \o <<y>>)[2] = y
        BY <1>1, ConcatProperties
  <2>2. \A i \in 1 .. 2 : (<<x>> \o <<y>>)[i] = <<x, y>>[i]  BY <2>1
  <2>3. Len(<<x, y>>) = 2  OBVIOUS
  <2> QED  BY <1>1, <2>1, <2>2, <2>3, SeqEqual
<1>4. Append(<< >>, x) = <<x>>  OBVIOUS
<1> QED  BY <1>2, <1>3, <1>4

\* A file name is none of the texts of the dialogue.
LEMMA NoNames ==
  \A n \in Names : n \notin Commands \cup Feedback \cup Answers \cup {Stray, NoName}
BY NamesAssumption

-----------------------------------------------------------------------------
(* Types                                                                   *)

Types == TypeOK /\ FilesInv

LEMMA TextsAre ==
  /\ Commands \subseteq Texts /\ Feedback \subseteq Texts /\ Answers \subseteq Texts
  /\ Names \subseteq Texts /\ Stray \in Texts /\ NoName \in Texts
  /\ ClientFiles \subseteq Texts /\ ServerFiles \subseteq Texts
BY NamesAssumption DEF Texts

\* What is sent is text.
LEMMA Sequences ==
  /\ << >> \in Seq(Texts) /\ \A m \in Texts : <<m>> \in Seq(Texts)
  /\ \A m, n \in Texts : <<m, n>> \in Seq(Texts)
  /\ \A ms \in Seq(Texts), m \in Texts : Append(ms, m) \in Seq(Texts)
OBVIOUS

LEMMA ToChild ==
  ASSUME TypeOK, NEW ms \in Seq(Texts), SendToChild(ms)
  PROVE  toChild' \in Seq(Texts)
BY Sequences, ConcatProperties DEF TypeOK, SendToChild

LEMMA ToClient ==
  ASSUME TypeOK, NEW ms \in Seq(Texts), SendToClient(ms)
  PROVE  toClient' \in Seq(Texts)
BY Sequences, ConcatProperties DEF TypeOK, SendToClient

LEMMA ChildHas ==
  ASSUME TypeOK, NEW m, ChildReads(m)
  PROVE  m \in Texts /\ toChild' \in Seq(Texts)
BY HeadTailProperties DEF TypeOK, ChildReads

LEMMA ClientHas ==
  ASSUME TypeOK, NEW m, ClientReads(m)
  PROVE  m \in Texts /\ toClient' \in Seq(Texts)
BY HeadTailProperties DEF TypeOK, ClientReads

\* The top of the client's loop.
LEMMA Looped ==
  ASSUME TypeOK, NEW ms \in Seq(Texts), NEW r \in Texts, SendAndLoop(ms, r)
  PROVE  /\ cRequest' = r /\ toChild' \in Seq(Texts)
         /\ cPc' \in {"finack", "getName", "putName", "prompt"}
<1>1. "FIN" \in Texts  BY TextsAre DEF Feedback
<1>2. (IF r = "CLOSE" THEN Append(ms, "FIN") ELSE ms) \in Seq(Texts)  BY <1>1, Sequences
<1>3. toChild' \in Seq(Texts)  BY <1>2, ToChild DEF SendAndLoop
<1> QED  BY <1>3 DEF SendAndLoop

LEMMA Suffered == ASSUME TypeOK, NEW m, Suffer(m)  PROVE mishaps' \subseteq AllMishaps
BY EnvironmentAssumption DEF TypeOK, Suffer

\* Steps of the client, ...
LEMMA ClientTypes ==
  ASSUME Types, TypeCommand \/ ClientStep \/ Interrupt \/ Quit
  PROVE  Types'
<1> USE DEF Types
<1>0. /\ Commands \subseteq Texts /\ Feedback \subseteq Texts /\ Names \subseteq Texts
      /\ NoName \in Texts /\ ClientFiles \subseteq Names
      BY TextsAre, NamesAssumption
<1>a. /\ "FIN" \in Texts /\ "FINACK" \in Texts /\ "EXIT" \in Texts /\ "START_TRANSFER" \in Texts
      /\ "ABORT" \in Texts /\ "TRANSFER_COMPLETED" \in Texts
      BY <1>0 DEF Feedback, Commands
<1>1. CASE TypeCommand
  <2>1. toChild' \in Seq(Texts)  BY <1>0, <1>1, Sequences, ToChild DEF TypeCommand
  <2>2. cRequest' \in Texts  BY <1>0, <1>1 DEF TypeCommand
  <2> QED  BY <1>1, <2>1, <2>2 DEF TypeCommand, TypeOK, FilesInv, child, transfer, disk, history
<1>2. CASE Answered
  <2>1. toClient' \in Seq(Texts)  BY <1>2, ClientHas DEF Answered
  <2>2. /\ cRequest' \in Texts /\ toChild' \in Seq(Texts)
        /\ cPc' \in {"finack", "getName", "putName", "prompt"}
    <3>1. AfterAnswer(cRequest) /\ cRequest \in Texts  BY <1>2 DEF Answered, TypeOK
    <3> QED  BY <1>a, <3>1, Looped, Sequences, ToChild DEF AfterAnswer, LoopWith
  <2> QED  BY <1>2, <2>1, <2>2 DEF Answered, TypeOK, FilesInv, child, sockets, transfer, disk, history
<1>3. CASE AnswerTimesOut
  <2>1. /\ cRequest' = "EXIT" /\ cPc' = "finack" /\ SendToChild(<<"FIN">>)
        /\ UNCHANGED <<cPath, cRet, sockets, child, toClient, transfer, disk, stored, struck>>
        BY <1>3 DEF AnswerTimesOut, AfterAnswer
  <2>2. mishaps' \subseteq AllMishaps
        BY <1>3, Suffered DEF AnswerTimesOut, TimesOut, TypeOK
  <2>3. toChild' \in Seq(Texts)  BY <1>a, <2>1, Sequences, ToChild
  <2> QED  BY <1>a, <2>1, <2>2, <2>3 DEF TypeOK, FilesInv, child, sockets, transfer, disk
<1>4. CASE TypeGetName
  <2>1. toChild' \in Seq(Texts)  BY <1>0, <1>4, Sequences, ToChild DEF TypeGetName
  <2>2. cRequest' \in Texts  BY <1>0, <1>4 DEF TypeGetName
  <2> QED  BY <1>4, <2>1, <2>2 DEF TypeGetName, TypeOK, FilesInv, child, transfer, disk, history
<1>5. CASE NameAnswered
  <2>1. UNCHANGED <<sockets, child, disk, stored, struck>>  BY <1>5 DEF NameAnswered
  <2>2. CASE ClientReads("FILENAME_NOT_FOUND") /\ LoopWith(NoName) /\ UNCHANGED <<cPath, cRet, transfer, mishaps>>
    <3>1. toClient' \in Seq(Texts)  BY <2>2, ClientHas
    <3>2. /\ cRequest' = NoName /\ toChild' \in Seq(Texts)
          /\ cPc' \in {"finack", "getName", "putName", "prompt"}
          BY <1>0, <2>2, Looped, Sequences DEF LoopWith
    <3> QED  BY <1>0, <2>1, <2>2, <3>1, <3>2 DEF TypeOK, FilesInv, child, sockets, transfer, disk
  <2>3. CASE \E m \in Texts \ {"FILENAME_NOT_FOUND"} :
               ClientReads(m) /\ ClientReceiverStarts(m) /\ UNCHANGED cRequest
    <3>1. PICK m \in Texts : ClientReads(m) /\ ClientReceiverStarts(m) /\ UNCHANGED cRequest  BY <2>3
    <3>2. toClient' \in Seq(Texts)  BY <3>1, ClientHas
    <3>3. cPath' = m /\ cPc' \in {"receiving", "getOutcome"} /\ cRet' \in {cRet, "TRANSFER_ERROR"}
          BY <3>1 DEF ClientReceiverStarts
    <3>4. toChild' \in Seq(Texts)
      <4>1. SendToChild(<<"START_TRANSFER">>) \/ UNCHANGED toChild  BY <3>1 DEF ClientReceiverStarts
      <4> QED  BY <1>a, <4>1, Sequences, ToChild DEF TypeOK
    <3>5. mishaps' \subseteq AllMishaps
          BY <3>1, Suffered DEF ClientReceiverStarts, Opens, OpenFails, TypeOK
    <3>6. /\ sent' \in {"running", "EXIT_SUCCESS", "TRANSFER_ERROR"}
          /\ received' \in {"running", "EXIT_SUCCESS", "TRANSFER_ERROR"}
          /\ kept' \in {<< >>, T!Source} /\ begun' \in BOOLEAN /\ spoilt' \in BOOLEAN
      <4>1. NewTransfer \/ UNCHANGED transfer  BY <3>1 DEF ClientReceiverStarts
      <4> QED  BY <4>1 DEF NewTransfer, transfer, TypeOK
    <3> QED  BY <2>1, <3>1, <3>2, <3>3, <3>4, <3>5, <3>6
             DEF TypeOK, FilesInv, child, sockets, disk
  <2> QED  BY <1>5, <2>2, <2>3 DEF NameAnswered
<1>6. CASE NameTimesOut
  <2>1. mishaps' \subseteq AllMishaps
        BY <1>6, Suffered DEF NameTimesOut, TimesOut, TypeOK
  <2> QED  BY <1>0, <1>a, <1>6, <2>1
           DEF NameTimesOut, TypeOK, FilesInv, child, sockets, queues, transfer, disk
<1>7. CASE ClientReceived
  <2>1. /\ received' \in {"EXIT_SUCCESS", "TRANSFER_ERROR"} /\ kept' \in {kept, T!Source}
        /\ sent' = sent /\ mishaps' \subseteq AllMishaps
        BY <1>7, Suffered DEF ClientReceived, Receives, ReceivesOne, Disagrees, T!ReceiverSucceeds,
                              T!ReceiverFails, TypeOK
  <2> QED  BY <1>7, <2>1 DEF ClientReceived, ReturnOf, TypeOK, FilesInv, child, sockets, queues, disk
<1>8. CASE OutcomeRead
  <2>1. PICK m \in Texts :
          /\ ClientReads(m)
          /\ \/ Recognized(m, cRet) /\ LoopWith(cRequest) /\ soiled' = soiled \ {"client"}
             \/ ~Recognized(m, cRet) /\ Soils("client", m) /\ UNCHANGED <<cPc, cRequest, toChild>>
        BY <1>8 DEF OutcomeRead
  <2>2. /\ cPc = "getOutcome"
        /\ UNCHANGED <<cPath, cRet, child, timed, transfer, disk, history>>
        BY <1>8 DEF OutcomeRead
  <2>3. toClient' \in Seq(Texts)  BY <2>1, ClientHas
  <2>4. /\ cRequest' = cRequest /\ toChild' \in Seq(Texts)
        /\ cPc' \in {"finack", "getName", "putName", "prompt", "getOutcome"}
    <3>1. cRequest \in Texts  BY DEF TypeOK
    <3> QED  BY <2>1, <2>2, <3>1, Looped, Sequences DEF LoopWith, TypeOK
  <2>5. soiled' \subseteq {"client", "child"}  BY <2>1 DEF Soils, TypeOK
  <2> QED  BY <2>2, <2>3, <2>4, <2>5 DEF TypeOK, FilesInv, child, transfer, disk, history
<1>9. CASE TypePutName
  <2>1. /\ toChild' \in Seq(Texts) /\ cRequest' = NoName
        /\ \/ cPc' = "putAnswer" /\ cPath' \in ClientFiles
           \/ cPc' = "prompt" /\ cPath' = cPath
    <3>1. \A n \in ClientFiles : n \in Texts  BY <1>0
    <3> QED  BY <1>a, <1>9, <3>1, Sequences, ToChild DEF TypePutName, Sendable
  <2> QED  BY <1>0, <1>9, <2>1 DEF TypePutName, TypeOK, FilesInv, child, sockets, transfer, disk, history
<1>10. CASE PutAnswered
  <2>1. UNCHANGED <<cPath, cRet, sockets, child, transfer, disk, history>> /\ cPc = "putAnswer"
        BY <1>10 DEF PutAnswered
  <2>2. CASE ClientReads("EXIST") /\ LoopWith(NoName)
    <3>1. toClient' \in Seq(Texts)  BY <2>2, ClientHas
    <3>2. /\ cRequest' = NoName /\ toChild' \in Seq(Texts)
          /\ cPc' \in {"finack", "getName", "putName", "prompt"}
          BY <1>0, <2>2, Looped, Sequences DEF LoopWith
    <3> QED  BY <1>0, <2>1, <3>1, <3>2 DEF TypeOK, FilesInv, child, sockets, transfer, disk, history
  <2>3. CASE /\ \E m \in Texts : ClientReads(m) /\ cRequest' = m
             /\ cPc' = "putStart" /\ UNCHANGED toChild
    <3>1. toClient' \in Seq(Texts) /\ cRequest' \in Texts  BY <2>3, ClientHas
    <3> QED  BY <2>1, <2>3, <3>1 DEF TypeOK, FilesInv, child, sockets, transfer, disk, history
  <2> QED  BY <1>10, <2>2, <2>3 DEF PutAnswered
<1>11. CASE PutStarted
  <2>1. /\ UNCHANGED <<cPath, cRet, soiled, child, sent, received, kept, spoilt, disk, stored, struck>>
        /\ cPc = "putStart"
        BY <1>11 DEF PutStarted
  <2>2. toClient' \in Seq(Texts)  BY <1>11, ClientHas DEF PutStarted
  <2>3. /\ begun' \in BOOLEAN /\ mishaps' \subseteq AllMishaps /\ timed' \subseteq {"client", "child"}
        BY <1>11, Suffered DEF PutStarted, Opens, OpenFails, TypeOK
  <2>4. /\ cRequest' = cRequest /\ toChild' \in Seq(Texts)
        /\ cPc' \in {"finack", "getName", "putName", "prompt", "sending"}
    <3>1. \/ cPc' = "sending" /\ UNCHANGED <<cRequest, toChild>>
          \/ SendAndLoop(<< >>, cRequest) \/ SendAndLoop(<<"TRANSFER_COMPLETED">>, cRequest)
          BY <1>11 DEF PutStarted, LoopWith
    <3>2. cRequest \in Texts  BY DEF TypeOK
    <3> QED  BY <1>a, <3>1, <3>2, Looped, Sequences DEF TypeOK
  <2> QED  BY <2>1, <2>2, <2>3, <2>4 DEF TypeOK, FilesInv, child, disk
<1>12. CASE ClientSent
  <2>1. /\ UNCHANGED <<cPath, cRet, sockets, child, toClient, begun, spoilt, disk, struck>>
        /\ cPc = "sending"
        BY <1>12 DEF ClientSent
  <2>2. /\ sent' \in {"EXIT_SUCCESS", "TRANSFER_ERROR"} /\ UNCHANGED <<received, kept>>
        /\ stored' \subseteq ClientFiles /\ mishaps' \subseteq AllMishaps
        BY <1>12, Suffered DEF ClientSent, Succeeds, GivesUp, Disagrees, T!SenderSucceeds, T!SenderFails,
                               TypeOK, FilesInv
  <2>3. /\ cRequest' = cRequest /\ toChild' \in Seq(Texts)
        /\ cPc' \in {"finack", "getName", "putName", "prompt"}
    <3>1. SendAndLoop(<< >>, cRequest) \/ SendAndLoop(<<"TRANSFER_COMPLETED">>, cRequest)
          BY <1>12 DEF ClientSent, LoopWith
    <3>2. cRequest \in Texts  BY DEF TypeOK
    <3> QED  BY <1>a, <3>1, <3>2, Looped, Sequences DEF TypeOK
  <2> QED  BY <2>1, <2>2, <2>3 DEF TypeOK, FilesInv, child, sockets, disk
<1>13. CASE CloseAnswered
  <2>1. toClient' \in Seq(Texts) /\ cPc' \in {"fin", "ended"}
        BY <1>13, ClientHas, Sequences DEF CloseAnswered, ClientEnds
  <2> QED  BY <1>13, <2>1 DEF CloseAnswered, TypeOK, FilesInv, child, sockets, transfer, disk, history
<1>14. CASE FinArrives
  <2>1. toChild' \in Seq(Texts)
        BY <1>a, <1>14, Sequences, ToChild DEF FinArrives, LastReply, TypeOK
  <2>2. toClient' \in Seq(Texts) /\ cPc' = "ended"  BY <1>14, Sequences DEF FinArrives, ClientEnds
  <2> QED  BY <1>14, <2>1, <2>2 DEF FinArrives, TypeOK, FilesInv, child, sockets, transfer, disk, history
<1>15. CASE CloseTimesOut
  <2>1. mishaps' \subseteq AllMishaps  BY <1>15, Suffered DEF CloseTimesOut, TimesOut, TypeOK
  <2>2. toClient' \in Seq(Texts) /\ cPc' = "ended"  BY <1>15, Sequences DEF CloseTimesOut, ClientEnds
  <2> QED  BY <1>15, <2>1, <2>2 DEF CloseTimesOut, TypeOK, FilesInv, child, sockets, transfer, disk
<1>16. CASE Interrupt
  <2>1. mishaps' \subseteq AllMishaps  BY <1>16, Suffered DEF Interrupt, Strikes
  <2>2. toChild' \in Seq(Texts)  BY <1>a, <1>16, Sequences, ToChild DEF Interrupt, ExitAndFin
  <2> QED  BY <1>16, <2>1, <2>2 DEF Interrupt, TypeOK, FilesInv, child, transfer, disk
<1>17. CASE Quit
  <2>1. mishaps' \subseteq AllMishaps  BY <1>17, Suffered DEF Quit, Strikes
  <2>2. toChild' \in Seq(Texts)  BY <1>a, <1>17, Sequences, ToChild DEF Quit
  <2>3. toClient' \in Seq(Texts) /\ cPc' = "ended"  BY <1>17, Sequences DEF Quit, ClientEnds
  <2> QED  BY <1>17, <2>1, <2>2, <2>3 DEF Quit, TypeOK, FilesInv, child, sockets, transfer, disk
<1> QED  BY <1>1, <1>2, <1>3, <1>4, <1>5, <1>6, <1>7, <1>8, <1>9, <1>10, <1>11, <1>12, <1>13,
            <1>14, <1>15, <1>16, <1>17 DEF ClientStep

\* ... of the child, ...
LEMMA ChildTypes ==
  ASSUME Types, ChildStep \/ Terminate
  PROVE  Types'
<1> USE DEF Types
<1>0. Commands \subseteq Texts /\ Feedback \subseteq Texts /\ Answers \subseteq Texts
      BY TextsAre
<1>a. /\ "FIN" \in Texts /\ "FINACK" \in Texts /\ "LISTING" \in Texts /\ "INSERT_FILENAME" \in Texts
      /\ "PUT" \in Texts /\ "CLOSE" \in Texts /\ "COMMAND_NOT_FOUND" \in Texts
      /\ "FILENAME_NOT_FOUND" \in Texts /\ "TRANSFER_ERROR" \in Texts /\ "NOT_EXIST" \in Texts
      /\ "TRANSFER_COMPLETED" \in Texts /\ "EXIST" \in Texts /\ "START_TRANSFER" \in Texts
      BY <1>0 DEF Feedback, Commands, Answers
<1>1. CASE Serve
  <2>1. toChild' \in Seq(Texts)  BY <1>1, ChildHas DEF Serve
  <2>2. /\ toClient' \in Seq(Texts)
        /\ sPc' \in {"command", "getName", "putName", "fin"}
    <3>1. CASE \E k \in ListParts : Replies([i \in 1 .. k |-> "LISTING"], "command")
      <4>1. PICK k \in Nat : Replies([i \in 1 .. k |-> "LISTING"], "command")
            BY <3>1, EnvironmentAssumption
      <4>2. [i \in 1 .. k |-> "LISTING"] \in Seq(Texts)  BY <1>a, SeqDef
      <4> QED  BY <4>1, <4>2, ToClient DEF Replies
    <3>2. CASE \/ Replies(<<"INSERT_FILENAME">>, "getName") \/ Replies(<<"PUT">>, "putName")
               \/ Replies(<<"CLOSE">>, "fin") \/ Replies(<< >>, "fin")
               \/ Replies(<<"COMMAND_NOT_FOUND">>, "command")
      BY <1>a, <3>2, Sequences, ToClient DEF Replies
    <3> QED  BY <1>1, <3>1, <3>2 DEF Serve
  <2> QED  BY <1>1, <2>1, <2>2 DEF Serve, TypeOK, FilesInv, client, sockets, transfer, disk, history
<1>2. CASE LookUp
  <2>1. PICK m \in Texts :
          /\ ChildReads(m)
          /\ \/ m \in files /\ sPath' = m /\ Replies(<<m>>, "getStart")
             \/ m \notin files /\ Replies(<<"FILENAME_NOT_FOUND">>, "command") /\ UNCHANGED sPath
        BY <1>2 DEF LookUp
  <2>2. /\ toChild' \in Seq(Texts) /\ toClient' \in Seq(Texts)
        /\ sPc' \in {"getStart", "command"} /\ sPath' \in Texts
        BY <1>a, <2>1, ChildHas, Sequences, ToClient DEF Replies, TypeOK
  <2> QED  BY <1>2, <2>2 DEF LookUp, TypeOK, FilesInv, client, sockets, transfer, disk, history
<1>3. CASE StartRead
  <2>1. toChild' \in Seq(Texts)  BY <1>3, ChildHas DEF StartRead
  <2>2. /\ toClient' \in Seq(Texts) /\ sPc' \in {"sending", "command"}
        /\ begun' \in BOOLEAN /\ mishaps' \subseteq AllMishaps
        BY <1>a, <1>3, Sequences, ToClient, Suffered DEF StartRead, Replies, Opens, OpenFails, TypeOK
  <2> QED  BY <1>3, <2>1, <2>2 DEF StartRead, TypeOK, FilesInv, client, sockets, disk
<1>4. CASE StartTimesOut
  <2>1. mishaps' \subseteq AllMishaps  BY <1>4, Suffered DEF StartTimesOut, TimesOut, TypeOK
  <2>2. toChild' \in Seq(Texts) /\ sPc' = "ended"  BY <1>4, Sequences DEF StartTimesOut, ChildEnds
  <2> QED  BY <1>4, <2>1, <2>2 DEF StartTimesOut, TypeOK, FilesInv, client, sockets, transfer, disk
<1>5. CASE ChildSent
  <2>1. /\ sent' \in {"EXIT_SUCCESS", "TRANSFER_ERROR"} /\ UNCHANGED <<received, kept>>
        /\ mishaps' \subseteq AllMishaps
        BY <1>5, Suffered DEF ChildSent, Succeeds, GivesUp, Disagrees, T!SenderSucceeds, T!SenderFails,
                              TypeOK
  <2>2. toClient' \in Seq(Texts) /\ sPc' = "command"
        BY <1>a, <1>5, Sequences, ToClient DEF ChildSent, Replies, Outcome
  <2> QED  BY <1>5, <2>1, <2>2 DEF ChildSent, TypeOK, FilesInv, client, sockets, disk
<1>6. CASE PutName
  <2>1. PICK m \in Texts :
       /\ ChildReads(m)
       /\ \/ /\ m = "ABORT" /\ Replies(<< >>, "command")
             /\ UNCHANGED <<sPath, transfer, disk, mishaps>>
          \/ /\ m # "ABORT" /\ IsThere(m) /\ Replies(<<"EXIST">>, "command")
             /\ UNCHANGED <<sPath, transfer, disk, mishaps>>
          \/ /\ m # "ABORT" /\ ~IsThere(m) /\ Opens /\ sPath' = m /\ NewTransfer
             /\ Replies(<<"NOT_EXIST", "START_TRANSFER">>, "receiving")
             /\ files' = files \cup {m} /\ whole' = whole \ {m}
          \/ /\ m # "ABORT" /\ ~IsThere(m) /\ OpenFails /\ Replies(<<"NOT_EXIST">>, "command")
             /\ UNCHANGED <<sPath, transfer, disk>>
        BY <1>6 DEF PutName
  <2>2. UNCHANGED <<client, sockets, stored, struck>>  BY <1>6 DEF PutName
  <2>3. toChild' \in Seq(Texts)  BY <2>1, ChildHas
  <2>4. toClient' \in Seq(Texts)  BY <1>a, <2>1, Sequences, ToClient DEF Replies
  <2>5. mishaps' \subseteq AllMishaps  BY <2>1, Suffered DEF Opens, OpenFails, TypeOK
  <2>6. \/ sPc' = "command" /\ UNCHANGED <<sPath, transfer, disk>>
        \/ /\ sPc' = "receiving" /\ sPath' = m /\ NewTransfer
           /\ files' = files \cup {m} /\ whole' = whole \ {m}
        BY <2>1 DEF Replies
  <2>7. CASE sPc' = "command" /\ UNCHANGED <<sPath, transfer, disk>>
    BY <2>2, <2>3, <2>4, <2>5, <2>7 DEF TypeOK, FilesInv, client, sockets, transfer, disk
  <2>8. CASE /\ sPc' = "receiving" /\ sPath' = m /\ NewTransfer
             /\ files' = files \cup {m} /\ whole' = whole \ {m}
    <3>1. files' \subseteq Texts /\ whole' \subseteq files' /\ m \in files' \ whole'
          BY <2>8 DEF TypeOK
    <3>2. /\ sent' = "running" /\ received' = "running" /\ kept' = << >> /\ begun' \in BOOLEAN
          /\ spoilt' \in BOOLEAN
          BY <2>8 DEF NewTransfer
    <3> QED  BY <2>1, <2>2, <2>3, <2>4, <2>5, <2>8, <3>1, <3>2 DEF TypeOK, FilesInv, client, sockets
  <2> QED  BY <2>6, <2>7, <2>8
<1>7. CASE ChildReceived
  <2>1. /\ received' \in {"EXIT_SUCCESS", "TRANSFER_ERROR"} /\ kept' \in {kept, T!Source}
        /\ sent' = sent /\ mishaps' \subseteq AllMishaps
        BY <1>7, Suffered DEF ChildReceived, Receives, ReceivesOne, Disagrees, T!ReceiverSucceeds,
                              T!ReceiverFails, TypeOK
  <2>2. /\ files' \subseteq Texts /\ whole' \subseteq files' /\ sPc' \in {"putOutcome", "command"}
        BY <1>7 DEF ChildReceived, TypeOK, FilesInv, disk
  <2> QED  BY <1>7, <2>1, <2>2 DEF ChildReceived, TypeOK, FilesInv, client, sockets, queues
<1>8. CASE CompletedRead
  <2>1. toChild' \in Seq(Texts)  BY <1>8, ChildHas DEF CompletedRead
  <2>2. soiled' \subseteq {"client", "child"}  BY <1>8 DEF CompletedRead, Soils, TypeOK
  <2>3. sPc' \in {"command", sPc} /\ sPc = "putOutcome"  BY <1>8 DEF CompletedRead
  <2> QED  BY <1>8, <2>1, <2>2, <2>3 DEF CompletedRead, TypeOK, FilesInv, client, transfer, disk, history
<1>9. CASE FinRead
  <2>1. toChild' \in Seq(Texts)  BY <1>9, ChildHas, Sequences DEF FinRead, ChildEnds
  <2>2. toClient' \in Seq(Texts)
        BY <1>a, <1>9, Sequences, ToClient DEF FinRead, Replies, FinAckAndFin, TypeOK
  <2>3. sPc' \in {"finack", "ended"}  BY <1>9 DEF FinRead, Replies, ChildEnds
  <2> QED  BY <1>9, <2>1, <2>2, <2>3 DEF FinRead, TypeOK, FilesInv, client, sockets, transfer, disk, history
<1>10. CASE FinAckRead
  <2>1. toChild' \in Seq(Texts) /\ sPc' = "ended"  BY <1>10, Sequences DEF FinAckRead, ChildEnds
  <2> QED  BY <1>10, <2>1 DEF FinAckRead, TypeOK, FilesInv, client, sockets, transfer, disk, history
<1>11. CASE DummyRead
  <2>1. toChild' \in Seq(Texts) /\ sPc' = "fin"  BY <1>11, ChildHas DEF DummyRead
  <2> QED  BY <1>11, <2>1 DEF DummyRead, TypeOK, FilesInv, client, sockets, transfer, disk, history
<1>12. CASE HandlerTimesOut
  <2>1. mishaps' \subseteq AllMishaps  BY <1>12, Suffered DEF HandlerTimesOut, TimesOut, TypeOK
  <2>2. toChild' \in Seq(Texts) /\ sPc' = "ended"  BY <1>12, Sequences DEF HandlerTimesOut, ChildEnds
  <2> QED  BY <1>12, <2>1, <2>2 DEF HandlerTimesOut, TypeOK, FilesInv, client, sockets, transfer, disk
<1>13. CASE Terminate
  <2>1. mishaps' \subseteq AllMishaps  BY <1>13, Suffered DEF Terminate
  <2>2. sPc' = "dummy"  BY <1>13 DEF Terminate, SigtermHandler
  <2> QED  BY <1>13, <2>1, <2>2 DEF Terminate, TypeOK, FilesInv, client, queues, transfer, disk
<1> QED  BY <1>1, <1>2, <1>3, <1>4, <1>5, <1>6, <1>7, <1>8, <1>9, <1>10, <1>11, <1>12, <1>13
         DEF ChildStep

\* ... and of what goes astray, keep the types.
LEMMA AstrayTypes ==
  ASSUME Types, Astray \/ StrayArrives \/ Lose
  PROVE  Types'
<1> USE DEF Types
<1>0. Stray \in Texts  BY TextsAre
<1>1. CASE TextForSender \/ SenderMisled
  <2>1. \E m \in Texts : SenderReads(m)  BY <1>1 DEF TextForSender, SenderMisled
  <2>2. toChild' \in Seq(Texts) /\ toClient' \in Seq(Texts)
        BY <2>1, ChildHas, ClientHas DEF SenderReads, TypeOK
  <2>3. sent' \in {sent, "EXIT_SUCCESS"}  BY <1>1 DEF TextForSender, SenderMisled, transfer
  <2>4. UNCHANGED <<client, child, sockets, received, kept, begun, spoilt, disk, history>>
        BY <1>1 DEF TextForSender, SenderMisled, transfer
  <2> QED  BY <2>2, <2>3, <2>4 DEF TypeOK, FilesInv, client, child, sockets, disk, history
<1>5. CASE SenderCrashes
  <2>1. toChild' \in Seq(Texts) /\ toClient' \in Seq(Texts)
        BY <1>5, Sequences DEF SenderCrashes, ChildEnds, ClientEnds, TypeOK
  <2>2. cPc' \in {cPc, "ended"} /\ sPc' \in {sPc, "ended"}
        BY <1>5 DEF SenderCrashes, ChildEnds, ClientEnds, client, child
  <2> QED  BY <1>5, <2>1, <2>2
           DEF SenderCrashes, TypeOK, FilesInv, client, child, sockets, transfer, disk, history
<1>2. CASE TextForReceiver
  <2>1. PICK ack \in {<< >>, <<Stray>>} :
          \/ /\ SendToClient(IF cPc = "sending" THEN << >> ELSE ack)
             /\ \E m \in Texts : ChildReads(m)
          \/ /\ SendToChild(IF sPc = "sending" THEN << >> ELSE ack)
             /\ \E m \in Texts : ClientReads(m)
        BY <1>2 DEF TextForReceiver
  <2>2. /\ (IF cPc = "sending" THEN << >> ELSE ack) \in Seq(Texts)
        /\ (IF sPc = "sending" THEN << >> ELSE ack) \in Seq(Texts)
        BY <1>0, Sequences
  <2>3. toChild' \in Seq(Texts) /\ toClient' \in Seq(Texts)
        BY <2>1, <2>2, ChildHas, ClientHas, ToChild, ToClient
  <2>4. spoilt' \in BOOLEAN  BY <1>2 DEF TextForReceiver, TypeOK
  <2> QED  BY <1>2, <2>3, <2>4
           DEF TextForReceiver, TypeOK, FilesInv, client, child, sockets, disk, history
<1>3. CASE StrayArrives
  <2>1. mishaps' \subseteq AllMishaps  BY <1>3, Suffered DEF StrayArrives
  <2>2. toChild' \in Seq(Texts) /\ toClient' \in Seq(Texts)
        BY <1>0, <1>3, Sequences, ToChild, ToClient DEF StrayArrives, TypeOK
  <2> QED  BY <1>3, <2>1, <2>2 DEF StrayArrives, TypeOK, FilesInv, client, child, sockets, transfer, disk
<1>4. CASE Lose
  <2>1. mishaps' \subseteq AllMishaps  BY <1>4, Suffered DEF Lose
  <2>2. toChild' \in Seq(Texts) /\ toClient' \in Seq(Texts)
        BY <1>4, HeadTailProperties DEF Lose, queues, TypeOK
  <2> QED  BY <1>4, <2>1, <2>2 DEF Lose, TypeOK, FilesInv, client, child, sockets, transfer, disk
<1> QED  BY <1>1, <1>2, <1>3, <1>4, <1>5 DEF Astray

LEMMA TypesInvariance == Spec => []Types
<1>1. Init => Types
  <2> SUFFICES ASSUME Init  PROVE Types  OBVIOUS
  <2>1. ServerFiles \subseteq Texts /\ NoName \in Texts /\ << >> \in Seq(Texts)
        BY TextsAre, Sequences
  <2> QED  BY <2>1 DEF Init, T!TInit, Types, TypeOK, FilesInv
<1>2. Types /\ [Next]_vars => Types'
  <2> SUFFICES ASSUME Types, [Next]_vars  PROVE Types'  OBVIOUS
  <2>1. CASE Next  BY <2>1, ClientTypes, ChildTypes, AstrayTypes DEF Next, Environment
  <2>2. CASE UNCHANGED vars
    BY <2>2 DEF Types, TypeOK, FilesInv, vars, client, child, sockets, queues, transfer, disk, history
  <2> QED  BY <2>1, <2>2
<1> QED  BY <1>1, <1>2, PTL DEF Spec

\* The variables of a session keep their types, whatever goes wrong: no text is read but
\* one that was sent, the client reports only files of its own as sent, and a file that
\* main_receiver gives up was never complete.
THEOREM SessionTypeCorrect == Spec => []TypeOK
<1>1. Types => TypeOK  BY DEF Types
<1> QED  BY <1>1, TypesInvariance, PTL

-----------------------------------------------------------------------------
(* As long as nothing goes wrong                                           *)

\* The two ends are where InStep has them.
Agreed == InStep /\ CalmInv

LEMMA Places ==
  ASSUME TypeOK, InStep, Calm
  PROVE  \/ cPc = "prompt" /\ AtPrompt
         \/ cPc = "answer" /\ AtAnswer
         \/ cPc = "getName" /\ AtGetName
         \/ cPc = "getAnswer" /\ AtGetAnswer
         \/ cPc = "receiving" /\ AtReceiving
         \/ cPc = "getOutcome" /\ AtGetOutcome
         \/ cPc = "putName" /\ AtPutName
         \/ cPc = "putAnswer" /\ AtPutAnswer
         \/ cPc = "putStart" /\ AtPutStart
         \/ cPc = "sending" /\ AtSending
         \/ cPc = "finack" /\ AtFinAck
         \/ cPc = "fin" /\ AtFin
         \/ cPc = "ended" /\ AtEnd
<1>1. cPc \in {"prompt", "answer", "getName", "getAnswer", "receiving", "getOutcome", "putName",
                "putAnswer", "putStart", "sending", "finack", "fin", "ended"}
      BY DEF TypeOK
<1> QED  BY <1>1 DEF InStep, Calm

LEMMA Waits ==
  ASSUME Calm', TimesOut
  PROVE  toChild = << >> /\ toClient = << >> /\ ~ErrorOnItsWay
BY DEF TimesOut, Suffer, Calm, Idle

\* A client at the top of its loop, with nothing to send.
LEMMA Loops ==
  ASSUME NEW r, LoopWith(r), toChild = << >>, sPc # "ended"
  PROVE  /\ cRequest' = r /\ toChild' = (IF r = "CLOSE" THEN <<"FIN">> ELSE << >>)
         /\ cPc' = CASE r = "CLOSE" -> "finack" [] r = "GET" -> "getName"
                     [] r = "PUT" -> "putName" [] OTHER -> "prompt"
BY Joined DEF LoopWith, SendAndLoop, SendToChild

\* A user at the prompt types a command.
LEMMA TypeCommandStep ==
  ASSUME Agreed, Calm, TypeCommand  PROVE Agreed'
<1> USE DEF Agreed
<1>1. AtPrompt /\ cPc = "prompt"  BY DEF TypeCommand, InStep
<1>2. PICK r \in Commands \cup Names : cRequest' = r /\ SendToChild(<<r>>)  BY DEF TypeCommand
<1>3. UNCHANGED <<cPath, cRet, soiled, child, toClient, transfer, disk, history>> /\ cPc' = "answer"
      /\ timed' = timed \ {"client"}
      BY DEF TypeCommand
<1>4. /\ toChild' = toChild \o <<r>> /\ sPc' = sPc /\ toClient' = << >>
      /\ sent' = sent /\ received' = received
  <2>1. sPc # "ended" /\ toClient = << >>  BY <1>1 DEF AtPrompt, Ready
  <2> QED  BY <1>2, <1>3, <2>1 DEF SendToChild, child, transfer
<1>5. AtAnswer'
  <2>1. CASE sPc = "command" /\ toChild = << >>
    BY <1>2, <1>4, <2>1, Joined DEF AtAnswer, Ready
  <2>2. CASE sPc = "putName" /\ toChild = <<"ABORT">> \o << >>
    <3>1. toChild' = <<"ABORT">> \o <<r>>  BY <1>4, <2>2, Joined
    <3> QED  BY <1>2, <1>4, <2>2, <3>1 DEF AtAnswer, Ready
  <2>3. CASE sPc = "putOutcome" /\ toChild = <<"TRANSFER_COMPLETED">> \o << >>
    <3>1. toChild' = <<"TRANSFER_COMPLETED">> \o <<r>>  BY <1>4, <2>3, Joined
    <3> QED  BY <1>2, <1>4, <2>3, <3>1 DEF AtAnswer, Ready
  <2>4. CASE sPc = "receiving" /\ sent = "TRANSFER_ERROR" /\ received = "running" /\ toChild = << >>
    BY <1>2, <1>4, <2>4, Joined DEF AtAnswer, Ready
  <2> QED  BY <1>1, <2>1, <2>2, <2>3, <2>4 DEF AtPrompt, Ready
<1>6. InStep'  BY <1>3, <1>5 DEF InStep
<1>7. CalmInv'  BY <1>2, <1>3 DEF CalmInv, Calm, child, transfer, history
<1> QED  BY <1>6, <1>7

\* The other steps of the client: a command, ...
LEMMA AnswerStep ==
  ASSUME Types, Agreed, Calm, Calm', Answered \/ AnswerTimesOut  PROVE Agreed'
<1> USE DEF Agreed
<1>0. cPc = "answer" /\ AtAnswer /\ cRequest \in Commands \cup Names
      /\ timed = {} /\ soiled = {} /\ ~spoilt
      BY DEF Answered, AnswerTimesOut, InStep, CalmInv
<1>1. CASE Answered
  <2>1. PICK m \in Texts : ClientReads(m)  BY <1>1 DEF Answered
  <2>2. AfterAnswer(cRequest) /\ UNCHANGED <<cPath, cRet, sockets, child, transfer, disk, history>>
        BY <1>1 DEF Answered
  <2>3. /\ toChild = << >> /\ sPc # "ended" /\ cRequest # "EXIT" /\ toClient' = << >>
        /\ \/ sPc = "command" /\ cRequest \in Names \cup {"LIST"}
           \/ sPc = "getName" /\ cRequest = "GET"
           \/ sPc = "putName" /\ cRequest = "PUT"
           \/ sPc = "fin" /\ cRequest = "CLOSE"
    <3>1. toClient # << >> /\ toClient' = Tail(toClient)  BY <2>1 DEF ClientReads
    <3>2. \A n \in Names : n # "EXIT"  BY NoNames DEF Commands
    <3>3. \/ cRequest \in Names /\ Child("command", << >>, <<"COMMAND_NOT_FOUND">>)
          \/ cRequest = "LIST" /\ Child("command", << >>, <<"LISTING">>)
          \/ cRequest = "GET" /\ Child("getName", << >>, <<"INSERT_FILENAME">>)
          \/ cRequest = "PUT" /\ Child("putName", << >>, <<"PUT">>)
          \/ cRequest = "CLOSE" /\ Child("fin", << >>, <<"CLOSE">>)
          BY <1>0, <3>1 DEF AtAnswer, Child
    <3>4. PICK x : toClient = <<x>>  BY <3>3 DEF Child
    <3>5. toClient' = << >>  BY <3>1, <3>4, Heads
    <3> QED  BY <3>2, <3>3, <3>5 DEF Child
  <2>4. LoopWith(cRequest)  BY <2>2, <2>3 DEF AfterAnswer
  <2>5. \/ sPc = "command" /\ cPc' = "prompt" /\ toChild' = << >>
        \/ sPc = "getName" /\ cPc' = "getName" /\ toChild' = << >>
        \/ sPc = "putName" /\ cPc' = "putName" /\ toChild' = << >>
        \/ sPc = "fin" /\ cPc' = "finack" /\ toChild' = <<"FIN">>
        BY <2>3, <2>4, Loops, NoNames DEF Commands
  <2>6. UNCHANGED <<sPc, sPath, timed, soiled, spoilt, begun>>
        BY <2>2 DEF child, sockets, transfer
  <2>7. InStep'  BY <2>3, <2>5, <2>6 DEF InStep, AtPrompt, Ready, AtGetName, AtPutName, AtFinAck, Child
  <2>8. CalmInv'  BY <1>0, <2>3, <2>5, <2>6 DEF CalmInv
  <2> QED  BY <2>7, <2>8
<1>2. CASE AnswerTimesOut
  <2>1. toChild = << >> /\ toClient = << >>  BY <1>2, Waits DEF AnswerTimesOut
  <2>2. sPc = "fin"  BY <1>0, <2>1, Heads, Joined DEF AtAnswer, Ready, Child
  <2>3. /\ cPc' = "finack" /\ SendToChild(<<"FIN">>)
        /\ UNCHANGED <<cPath, cRet, sockets, child, toClient, transfer, disk, stored, struck>>
        BY <1>2 DEF AnswerTimesOut, AfterAnswer
  <2>4. toChild' = <<"FIN">> /\ sPc' = "fin" /\ toClient' = << >>
        BY <2>1, <2>2, <2>3, Joined DEF SendToChild, child
  <2>5. InStep'  BY <2>3, <2>4 DEF InStep, AtFinAck, Child
  <2>6. CalmInv'  BY <1>0, <2>3, <2>4 DEF CalmInv, child, sockets, transfer
  <2> QED  BY <2>5, <2>6
<1> QED  BY <1>1, <1>2

\* ... a GET, ...
LEMMA GetStep ==
  ASSUME Types, Agreed, Calm, Calm',
         TypeGetName \/ NameAnswered \/ NameTimesOut \/ ClientReceived \/ OutcomeRead
  PROVE  Agreed'
<1> USE DEF Agreed
<1>0. timed = {} /\ soiled = {} /\ ~spoilt /\ mishaps = {} /\ mishaps' = {}  BY DEF CalmInv, Calm
<1>1. CASE TypeGetName
  <2>1. PICK n \in Names : cRequest' = n /\ SendToChild(<<n>>)  BY <1>1 DEF TypeGetName
  <2>2. sPc = "getName" /\ toChild = << >> /\ toClient = << >>
        BY <1>1 DEF TypeGetName, InStep, AtGetName, Child
  <2>3. /\ cPc' = "getAnswer" /\ timed' = {} /\ UNCHANGED <<soiled, sPc, sPath, toClient, spoilt, begun>>
        BY <1>0, <1>1 DEF TypeGetName, child, transfer
  <2>4. toChild' = <<n>>  BY <2>1, <2>2, Joined DEF SendToChild
  <2>5. InStep'  BY <2>1, <2>2, <2>3, <2>4 DEF InStep, AtGetAnswer, Child
  <2>6. CalmInv'  BY <1>0, <2>1, <2>2, <2>3 DEF CalmInv
  <2> QED  BY <2>5, <2>6
<1>2. CASE NameAnswered
  <2>1. AtGetAnswer /\ cRequest \in Names /\ cPc = "getAnswer"
        BY <1>2 DEF NameAnswered, InStep, CalmInv
  <2>2. UNCHANGED <<sPc, sPath, timed, soiled>>  BY <1>2 DEF NameAnswered, child, sockets
  <2>3. CASE sPc = "command"
    <3>1. toChild = << >> /\ toClient = <<"FILENAME_NOT_FOUND">>
          BY <2>1, <2>3 DEF AtGetAnswer, Child
    <3>2. LoopWith(NoName) /\ UNCHANGED transfer /\ toClient' = << >>
          BY <1>2, <3>1, Heads DEF NameAnswered, ClientReads
    <3>3. cPc' = "prompt" /\ toChild' = << >>
      <4>1. NoName \notin {"CLOSE", "GET", "PUT"}  BY DEF NoName
      <4> QED  BY <2>3, <3>1, <3>2, <4>1, Loops
    <3>4. InStep'  BY <2>2, <2>3, <3>2, <3>3 DEF InStep, AtPrompt, Ready
    <3>5. CalmInv'  BY <1>0, <2>2, <2>3, <3>2, <3>3 DEF CalmInv, transfer
    <3> QED  BY <3>4, <3>5
  <2>4. CASE sPc = "getStart"
    <3>1. toChild = << >> /\ toClient = <<sPath>> /\ sPath = cRequest
          BY <2>1, <2>4 DEF AtGetAnswer, Child
    <3>2. sPath # "FILENAME_NOT_FOUND" /\ sPath # NoName
          BY <2>1, <3>1, NoNames DEF Answers
    <3>3. ClientReceiverStarts(sPath) /\ UNCHANGED cRequest /\ toClient' = << >>
          BY <1>2, <3>1, <3>2, Heads DEF NameAnswered, ClientReads
    <3>4. cPath' = sPath /\ cPc' = "receiving" /\ SendToChild(<<"START_TRANSFER">>) /\ NewTransfer
          BY <1>0, <3>2, <3>3 DEF ClientReceiverStarts, OpenFails, Suffer
    <3>5. toChild' = <<"START_TRANSFER">>  BY <2>4, <3>1, <3>4, Joined DEF SendToChild
    <3>6. InStep'
          BY <2>2, <2>4, <3>3, <3>4, <3>5 DEF InStep, AtReceiving, SameFile, Child, NewTransfer
    <3>7. CalmInv'  BY <1>0, <2>1, <2>2, <2>4, <3>3, <3>4 DEF CalmInv, NewTransfer
    <3> QED  BY <3>6, <3>7
  <2>5. CASE sPc = "getName"
    <3>1. toClient = << >>  BY <2>1, <2>5 DEF AtGetAnswer, Child
    <3> QED  BY <1>2, <3>1 DEF NameAnswered, ClientReads
  <2> QED  BY <2>1, <2>3, <2>4, <2>5 DEF AtGetAnswer, Child
<1>3. CASE NameTimesOut
  <2>1. toChild = << >> /\ toClient = << >>  BY <1>3, Waits DEF NameTimesOut
  <2>2. AtGetAnswer  BY <1>3 DEF NameTimesOut, InStep
  <2> QED  BY <2>1, <2>2, Heads DEF AtGetAnswer, Child
<1>4. CASE ClientReceived
  <2>1. AtReceiving /\ cPc = "receiving" /\ cRequest \in Names
        BY <1>4 DEF ClientReceived, InStep, CalmInv
  <2>2. /\ cPc' = "getOutcome" /\ cRet' = received'
        /\ UNCHANGED <<cRequest, cPath, sPc, sPath, timed, soiled, toChild, toClient, begun, spoilt>>
        BY <1>4 DEF ClientReceived, ReturnOf, child, sockets, queues
  <2>3. CASE Receives
    <3>1. begun /\ sent # "TRANSFER_ERROR" /\ received' = "EXIT_SUCCESS" /\ kept' = T!Source /\ sent' = sent
          BY <1>0, <2>3 DEF Receives, Disagrees, Suffer, T!ReceiverSucceeds
    <3>2. sPc # "getStart"  BY <2>1, <3>1 DEF CalmInv
    <3>3. Child("sending", << >>, << >>) /\ sent = "running" /\ SameFile
          BY <2>1, <3>1, <3>2 DEF AtReceiving, Child
    <3>4. InStep'  BY <2>2, <3>1, <3>3 DEF InStep, AtGetOutcome, SameFile, Child
    <3>5. CalmInv'  BY <1>0, <2>1, <2>2, <3>3 DEF CalmInv, Child
    <3> QED  BY <3>4, <3>5
  <2>4. CASE T!ReceiverFails
    <3>1. sent = "TRANSFER_ERROR" /\ received' = "TRANSFER_ERROR" /\ sent' = sent
          BY <2>4 DEF T!ReceiverFails
    <3>2. Child("command", << >>, <<"TRANSFER_ERROR">>) /\ SameFile
          BY <2>1, <3>1 DEF AtReceiving
    <3>3. InStep'  BY <2>2, <3>1, <3>2 DEF InStep, AtGetOutcome, SameFile, Child
    <3>4. CalmInv'  BY <1>0, <2>1, <2>2, <3>2 DEF CalmInv, Child
    <3> QED  BY <3>3, <3>4
  <2> QED  BY <1>0, <1>4, <2>3, <2>4 DEF ClientReceived, ReceivesOne
<1>5. CASE OutcomeRead
  <2>1. PICK m \in Texts :
          /\ ClientReads(m)
          /\ \/ Recognized(m, cRet) /\ LoopWith(cRequest) /\ soiled' = soiled \ {"client"}
             \/ ~Recognized(m, cRet) /\ Soils("client", m) /\ UNCHANGED <<cPc, cRequest, toChild>>
        BY <1>5 DEF OutcomeRead
  <2>2. AtGetOutcome /\ cRequest \in Names  BY <1>5 DEF OutcomeRead, InStep, CalmInv
  <2>3. /\ sPc = "command" /\ toChild = << >> /\ toClient' = << >>
        /\ \/ m = "TRANSFER_COMPLETED" /\ cRet = "EXIT_SUCCESS"
           \/ m = "TRANSFER_ERROR" /\ cRet = "TRANSFER_ERROR"
        BY <2>1, <2>2, Heads DEF AtGetOutcome, Child, ClientReads
  <2>4. Recognized(m, cRet)  BY <2>3 DEF Recognized
  <2>5. cPc' = "prompt" /\ toChild' = << >> /\ soiled' = {}
        BY <1>0, <2>1, <2>2, <2>3, <2>4, Loops, NoNames DEF Commands
  <2>6. UNCHANGED <<sPc, sPath, timed, spoilt, begun>>  BY <1>5 DEF OutcomeRead, child, transfer
  <2>7. InStep'  BY <2>3, <2>5, <2>6 DEF InStep, AtPrompt, Ready
  <2>8. CalmInv'  BY <1>0, <2>3, <2>5, <2>6 DEF CalmInv
  <2> QED  BY <2>7, <2>8
<1> QED  BY <1>1, <1>2, <1>3, <1>4, <1>5

\* ... a PUT ...
LEMMA PutStep ==
  ASSUME Types, Agreed, Calm, Calm', TypePutName \/ PutAnswered \/ PutStarted \/ ClientSent
  PROVE  Agreed'
<1> USE DEF Agreed
<1>0. timed = {} /\ soiled = {} /\ ~spoilt /\ mishaps = {} /\ mishaps' = {}  BY DEF CalmInv, Calm
<1>1. CASE TypePutName
  <2>1. sPc = "putName" /\ toChild = << >> /\ toClient = << >>
        BY <1>1 DEF TypePutName, InStep, AtPutName, Child
  <2>2. UNCHANGED <<sPc, sPath, timed, soiled, toClient, spoilt, begun>>
        BY <1>1 DEF TypePutName, child, sockets, transfer
  <2>3. CASE \E n \in Sendable :
               cPc' = "putAnswer" /\ cPath' = n /\ cRequest' = NoName /\ SendToChild(<<n>>)
    <3>1. PICK n \in Names :
            cPc' = "putAnswer" /\ cPath' = n /\ cRequest' = NoName /\ SendToChild(<<n>>)
          BY <2>3, NamesAssumption DEF Sendable
    <3>2. toChild' = <<n>>  BY <2>1, <3>1, Joined DEF SendToChild
    <3>3. InStep'  BY <2>1, <2>2, <3>1, <3>2 DEF InStep, AtPutAnswer, Child
    <3>4. CalmInv'  BY <1>0, <2>1, <2>2, <3>1 DEF CalmInv
    <3> QED  BY <3>3, <3>4
  <2>4. CASE cPc' = "prompt" /\ SendToChild(<<"ABORT">>)
    <3>1. toChild' = <<"ABORT">> \o << >>  BY <2>1, <2>4, Joined DEF SendToChild
    <3>2. InStep'  BY <2>1, <2>2, <2>4, <3>1 DEF InStep, AtPrompt, Ready
    <3>3. CalmInv'  BY <1>0, <2>1, <2>2, <2>4 DEF CalmInv
    <3> QED  BY <3>2, <3>3
  <2> QED  BY <1>1, <2>3, <2>4 DEF TypePutName
<1>2. CASE PutAnswered
  <2>1. AtPutAnswer /\ cPc = "putAnswer"  BY <1>2 DEF PutAnswered, InStep
  <2>2. UNCHANGED <<cPath, sPc, sPath, timed, soiled, sent, received, spoilt, begun>>
        BY <1>2 DEF PutAnswered, child, sockets, transfer
  <2>3. CASE sPc = "command"
    <3>1. toChild = << >> /\ toClient = <<"EXIST">>  BY <2>1, <2>3 DEF AtPutAnswer, Child
    <3>2. LoopWith(NoName) /\ toClient' = << >>
          BY <1>2, <3>1, Heads DEF PutAnswered, ClientReads
    <3>3. cPc' = "prompt" /\ toChild' = << >>
      <4>1. NoName \notin {"CLOSE", "GET", "PUT"}  BY DEF NoName
      <4> QED  BY <2>3, <3>1, <3>2, <4>1, Loops
    <3>4. InStep'  BY <2>2, <2>3, <3>2, <3>3 DEF InStep, AtPrompt, Ready
    <3>5. CalmInv'  BY <1>0, <2>2, <2>3, <3>3 DEF CalmInv
    <3> QED  BY <3>4, <3>5
  <2>4. CASE sPc = "receiving"
    <3>1. /\ toChild = << >> /\ toClient = <<"NOT_EXIST", "START_TRANSFER">>
          /\ Transferring /\ received = "running"
          BY <2>1, <2>4 DEF AtPutAnswer, Child
    <3>2. /\ cPc' = "putStart" /\ cRequest' = "NOT_EXIST" /\ toChild' = << >>
          /\ toClient' = <<"START_TRANSFER">>
      <4>1. Head(toClient) = "NOT_EXIST" /\ Tail(toClient) = <<"START_TRANSFER">>  BY <3>1, Heads
      <4> QED  BY <1>2, <3>1, <4>1 DEF PutAnswered, ClientReads
    <3>3. InStep'
          BY <2>2, <2>4, <3>1, <3>2 DEF InStep, AtPutStart, Transferring, SameFile, Child
    <3>4. CalmInv'  BY <1>0, <2>1, <2>2, <2>4, <3>2 DEF CalmInv
    <3> QED  BY <3>3, <3>4
  <2>5. CASE sPc = "putName"
    <3>1. toClient = << >>  BY <2>1, <2>5 DEF AtPutAnswer, Child
    <3> QED  BY <1>2, <3>1 DEF PutAnswered, ClientReads
  <2> QED  BY <2>1, <2>3, <2>4, <2>5 DEF AtPutAnswer, Child
<1>3. CASE PutStarted
  <2>1. /\ Transferring /\ received = "running" /\ sPc = "receiving" /\ toChild = << >>
        /\ toClient = <<"START_TRANSFER">> /\ cPc = "putStart" /\ cRequest = "NOT_EXIST"
        BY <1>3 DEF PutStarted, InStep, CalmInv, AtPutStart, Child
  <2>2. /\ cPc' = "sending" /\ begun' = TRUE /\ UNCHANGED <<cRequest, toChild, timed>>
        /\ toClient' = << >>
        BY <1>0, <1>3, <2>1, Heads DEF PutStarted, OpenFails, Suffer, ClientReads
  <2>3. UNCHANGED <<cPath, sPc, sPath, soiled, sent, received, spoilt>>
        BY <1>3 DEF PutStarted, child
  <2>4. InStep'  BY <2>1, <2>2, <2>3 DEF InStep, AtSending, Transferring, SameFile, Child
  <2>5. sPath \in Names  BY <2>1 DEF CalmInv
  <2>6. CalmInv'  BY <1>0, <2>1, <2>2, <2>3, <2>5 DEF CalmInv
  <2> QED  BY <2>4, <2>6
<1>4. CASE ClientSent
  <2>1. AtSending /\ cRequest = "NOT_EXIST" /\ (sPc \in {"receiving", "putOutcome"} => sPath \in Names)
        BY <1>4 DEF ClientSent, InStep, CalmInv
  <2>2. UNCHANGED <<cPath, sPc, sPath, timed, soiled, toClient, begun, spoilt>>
        BY <1>4 DEF ClientSent, child, sockets
  <2>a. sent = "running"  BY <2>1 DEF AtSending, Transferring
  <2>3. CASE Succeeds(toClient) /\ SendAndLoop(<<"TRANSFER_COMPLETED">>, cRequest)
    <3>0. T!SenderSucceeds  BY <2>a, <2>3 DEF Succeeds
    <3>1. received = "EXIT_SUCCESS"  BY <3>0 DEF T!SenderSucceeds
    <3>2. sPc = "putOutcome" /\ toChild = << >> /\ toClient = << >>
          BY <2>1, <3>1 DEF AtSending, Child
    <3>3. cPc' = "prompt" /\ toChild' = <<"TRANSFER_COMPLETED">> \o << >>
          BY <2>1, <2>3, <3>2, Joined DEF SendAndLoop, SendToChild
    <3>4. InStep'  BY <2>2, <3>2, <3>3 DEF InStep, AtPrompt, Ready
    <3>5. CalmInv'  BY <1>0, <2>1, <2>2, <3>2, <3>3 DEF CalmInv
    <3> QED  BY <3>4, <3>5
  <2>4. CASE GivesUp /\ LoopWith(cRequest)
    <3>1. received # "EXIT_SUCCESS" /\ sent' = "TRANSFER_ERROR" /\ received' = received
          BY <1>0, <2>4 DEF GivesUp, Disagrees, Suffer, T!SenderFails
    <3>2. sPc = "receiving" /\ toChild = << >> /\ toClient = << >> /\ received = "running"
          BY <2>1, <3>1 DEF AtSending, Child
    <3>3. cPc' = "prompt" /\ toChild' = << >>  BY <2>1, <2>4, <3>2, Loops
    <3>4. InStep'  BY <2>2, <3>1, <3>2, <3>3 DEF InStep, AtPrompt, Ready
    <3>5. CalmInv'  BY <1>0, <2>1, <2>2, <3>2, <3>3 DEF CalmInv
    <3> QED  BY <3>4, <3>5
  <2> QED  BY <1>4, <2>3, <2>4 DEF ClientSent
<1> QED  BY <1>1, <1>2, <1>3, <1>4

\* ... and the end.
LEMMA CloseStep ==
  ASSUME Types, Agreed, Calm, Calm', CloseAnswered \/ FinArrives \/ CloseTimesOut
  PROVE  Agreed'
<1> USE DEF Agreed
<1>0. timed = {} /\ soiled = {} /\ ~spoilt  BY DEF CalmInv
<1>1. CASE CloseAnswered
  <2>1. AtFinAck  BY <1>1 DEF CloseAnswered, InStep
  <2>2. UNCHANGED <<sPc, sPath, timed, soiled, toChild, spoilt, begun>>
        BY <1>1 DEF CloseAnswered, child, sockets, transfer
  <2>3. toClient # << >>  BY <1>1 DEF CloseAnswered, ClientReads
  <2>4. sPc = "finack" /\ toChild = << >> /\ toClient = <<"FINACK", "FIN">>
        BY <2>1, <2>3 DEF AtFinAck, Child
  <2>5. cPc' = "fin" /\ toClient' = <<"FIN">>
    <3>1. Head(toClient) = "FINACK" /\ Tail(toClient) = <<"FIN">>  BY <2>4, Heads
    <3> QED  BY <1>1, <3>1 DEF CloseAnswered, ClientReads
  <2>6. InStep'  BY <2>2, <2>4, <2>5 DEF InStep, AtFin, Child
  <2>7. CalmInv'  BY <1>0, <2>2, <2>4, <2>5 DEF CalmInv
  <2> QED  BY <2>6, <2>7
<1>2. CASE FinArrives
  <2>1. sPc = "finack" /\ toChild = << >> /\ toClient = <<"FIN">>
        BY <1>2 DEF FinArrives, InStep, AtFin, Child
  <2>2. cPc' = "ended" /\ toClient' = << >> /\ SendToChild(<<"FINACK">>)
        BY <1>2, <2>1, Heads DEF FinArrives, ClientEnds, LastReply
  <2>3. toChild' = <<"FINACK">>  BY <2>1, <2>2, Joined DEF SendToChild
  <2>4. UNCHANGED <<sPc, sPath, timed, soiled, spoilt, begun>>
        BY <1>2 DEF FinArrives, child, sockets, transfer
  <2>5. InStep'  BY <2>1, <2>2, <2>3, <2>4 DEF InStep, AtEnd, Child
  <2>6. CalmInv'  BY <1>0, <2>1, <2>2, <2>4 DEF CalmInv
  <2> QED  BY <2>5, <2>6
<1>3. CASE CloseTimesOut
  BY <1>0, <1>3 DEF CloseTimesOut
<1> QED  BY <1>1, <1>2, <1>3

\* The child serves a command, ...
LEMMA ServeStep ==
  ASSUME ShortLists, Types, Agreed, Calm, Serve  PROVE Agreed'
<1> USE DEF Agreed
<1>1. /\ sPc = "command" /\ toChild # << >> /\ timed = {} /\ soiled = {} /\ ~spoilt
      /\ UNCHANGED <<cPc, cRequest, cPath, cRet, timed, soiled, sPath, spoilt, begun, mishaps>>
      BY DEF Serve, ChildReads, CalmInv, client, sockets, transfer, history
<1>2. cPc = "answer" /\ AtAnswer
  <2>1. /\ ~AtPrompt /\ ~AtGetName /\ ~AtGetAnswer /\ ~AtReceiving /\ ~AtGetOutcome /\ ~AtPutName
        /\ ~AtPutAnswer /\ ~AtPutStart /\ ~AtSending /\ ~AtFinAck /\ ~AtFin /\ ~AtEnd
        BY <1>1 DEF AtPrompt, Ready, Child, AtGetName, AtGetAnswer, AtReceiving, AtGetOutcome, AtPutName,
                    AtPutAnswer, AtPutStart, AtSending, AtFinAck, AtFin, AtEnd
  <2> QED  BY <2>1, Places DEF Types
<1>3. toChild = <<cRequest>> /\ toClient = << >>  BY <1>1, <1>2 DEF AtAnswer, Ready, Child
<1>4. cRequest \in Commands \cup Names  BY <1>2 DEF CalmInv
<1>5. Head(toChild) = cRequest /\ toChild' = << >>
  <2>1. toChild' = Tail(toChild)  BY DEF Serve, ChildReads
  <2> QED  BY <1>3, <2>1, Heads
<1>6. \/ cRequest = "LIST" /\ \E k \in ListParts : Replies([i \in 1 .. k |-> "LISTING"], "command")
      \/ cRequest = "GET" /\ Replies(<<"INSERT_FILENAME">>, "getName")
      \/ cRequest = "PUT" /\ Replies(<<"PUT">>, "putName")
      \/ cRequest = "CLOSE" /\ Replies(<<"CLOSE">>, "fin")
      \/ cRequest = "EXIT" /\ Replies(<< >>, "fin")
      \/ cRequest \in Names /\ Replies(<<"COMMAND_NOT_FOUND">>, "command")
  BY <1>4, <1>5 DEF Serve, ChildReads, Commands
<1>7. [i \in 1 .. 1 |-> "LISTING"] = <<"LISTING">>  OBVIOUS
<1>8. \/ cRequest = "LIST" /\ Replies(<<"LISTING">>, "command")
      \/ cRequest = "GET" /\ Replies(<<"INSERT_FILENAME">>, "getName")
      \/ cRequest = "PUT" /\ Replies(<<"PUT">>, "putName")
      \/ cRequest = "CLOSE" /\ Replies(<<"CLOSE">>, "fin")
      \/ cRequest = "EXIT" /\ Replies(<< >>, "fin")
      \/ cRequest \in Names /\ Replies(<<"COMMAND_NOT_FOUND">>, "command")
      BY <1>6, <1>7 DEF ShortLists
<1>9. AtAnswer'
  <2>1. \A m : << >> \o <<m>> = <<m>> /\ << >> \o << >> = << >>  BY Joined
  <2> QED  BY <1>1, <1>2, <1>3, <1>5, <1>8, <2>1 DEF AtAnswer, Child, Replies, SendToClient
<1>10. sPc' \in {"command", "getName", "putName", "fin"}  BY <1>8 DEF Replies
<1>11. InStep'  BY <1>1, <1>2, <1>9 DEF InStep
<1>12. CalmInv'  BY <1>1, <1>2, <1>4, <1>10 DEF CalmInv
<1> QED  BY <1>11, <1>12

\* ... a GET, ...
LEMMA ChildGetStep ==
  ASSUME Types, Agreed, Calm, Calm', LookUp \/ StartRead \/ StartTimesOut \/ ChildSent
  PROVE  Agreed'
<1> USE DEF Agreed
<1>0. timed = {} /\ soiled = {} /\ ~spoilt /\ mishaps = {} /\ mishaps' = {}  BY DEF CalmInv, Calm
<1>1. CASE LookUp
  <2>1. /\ sPc = "getName" /\ toChild # << >>
        /\ UNCHANGED <<cPc, cRequest, cPath, timed, soiled, spoilt, begun>>
        BY <1>1 DEF LookUp, ChildReads, client, sockets, transfer
  <2>2. cPc = "getAnswer" /\ AtGetAnswer
    <3>1. /\ ~AtPrompt /\ ~AtAnswer /\ ~AtGetName /\ ~AtReceiving /\ ~AtGetOutcome /\ ~AtPutName
          /\ ~AtPutAnswer /\ ~AtPutStart /\ ~AtSending /\ ~AtFinAck /\ ~AtFin /\ ~AtEnd
          BY <2>1 DEF AtPrompt, Ready, Child, AtAnswer, AtGetName, AtReceiving, AtGetOutcome,
                      AtPutName, AtPutAnswer, AtPutStart, AtSending, AtFinAck, AtFin, AtEnd
    <3> QED  BY <3>1, Places DEF Types
  <2>3. toChild = <<cRequest>> /\ toClient = << >>  BY <2>1, <2>2 DEF AtGetAnswer, Child
  <2>4. Head(toChild) = cRequest /\ toChild' = << >>
    <3>1. toChild' = Tail(toChild)  BY <1>1 DEF LookUp, ChildReads
    <3> QED  BY <2>3, <3>1, Heads
  <2>5. \/ sPath' = cRequest /\ Replies(<<cRequest>>, "getStart")
        \/ Replies(<<"FILENAME_NOT_FOUND">>, "command")
        BY <1>1, <2>4 DEF LookUp, ChildReads
  <2>6. AtGetAnswer'
    <3>1. \A m : << >> \o <<m>> = <<m>>  BY Joined
    <3> QED  BY <2>1, <2>2, <2>3, <2>4, <2>5, <3>1 DEF AtGetAnswer, Child, Replies, SendToClient
  <2>7. sPc' \in {"getStart", "command"}  BY <2>5 DEF Replies
  <2>8. InStep'  BY <2>1, <2>2, <2>6 DEF InStep
  <2>9. cRequest \in Names  BY <2>2 DEF CalmInv
  <2>10. CalmInv'  BY <1>0, <2>1, <2>2, <2>7, <2>9 DEF CalmInv
  <2> QED  BY <2>8, <2>10
<1>2. CASE StartRead
  <2>1. /\ sPc = "getStart" /\ toChild # << >>
        /\ UNCHANGED <<cPc, cRequest, cPath, timed, soiled, sPath, spoilt, sent, received>>
        BY <1>2 DEF StartRead, ChildReads, client, sockets
  <2>2. cPc = "receiving" /\ AtReceiving
    <3>1. /\ ~AtPrompt /\ ~AtAnswer /\ ~AtGetName /\ ~AtGetAnswer /\ ~AtGetOutcome /\ ~AtPutName
          /\ ~AtPutAnswer /\ ~AtPutStart /\ ~AtSending /\ ~AtFinAck /\ ~AtFin /\ ~AtEnd
          BY <2>1 DEF AtPrompt, Ready, Child, AtAnswer, AtGetName, AtGetAnswer, AtGetOutcome,
                      AtPutName, AtPutAnswer, AtPutStart, AtSending, AtFinAck, AtFin, AtEnd
    <3> QED  BY <3>1, Places DEF Types
  <2>3. /\ toChild = <<"START_TRANSFER">> /\ toClient = << >> /\ sent = "running"
        /\ SameFile /\ received = "running"
        BY <2>1, <2>2 DEF AtReceiving, Child
  <2>4. Head(toChild) = "START_TRANSFER" /\ Tail(toChild) = << >>  BY <2>3, Heads
  <2>5. toChild' = << >> /\ Replies(<< >>, "sending") /\ begun' = TRUE
        BY <1>0, <1>2, <2>4 DEF StartRead, ChildReads, OpenFails, Suffer
  <2>6. toClient' = << >> /\ sPc' = "sending"
        BY <2>2, <2>3, <2>5, Joined DEF Replies, SendToClient
  <2>7. AtReceiving'
        BY <1>0, <2>1, <2>3, <2>5, <2>6 DEF AtReceiving, SameFile, Child
  <2>8. InStep'  BY <2>1, <2>2, <2>7 DEF InStep
  <2>9. cRequest \in Names  BY <2>2 DEF CalmInv
  <2>10. CalmInv'  BY <1>0, <2>1, <2>2, <2>6, <2>9 DEF CalmInv
  <2> QED  BY <2>8, <2>10
<1>3. CASE StartTimesOut
  <2>1. sPc = "getStart" /\ toChild = << >> /\ toClient = << >>
        BY <1>3, Waits DEF StartTimesOut
  <2>2. /\ ~AtPrompt /\ ~AtAnswer /\ ~AtGetName /\ ~AtGetAnswer /\ ~AtReceiving /\ ~AtGetOutcome
        /\ ~AtPutName /\ ~AtPutAnswer /\ ~AtPutStart /\ ~AtSending /\ ~AtFinAck /\ ~AtFin /\ ~AtEnd
        BY <2>1, Heads DEF AtPrompt, Ready, Child, AtAnswer, AtGetName, AtGetAnswer, AtReceiving,
           AtGetOutcome, AtPutName, AtPutAnswer, AtPutStart, AtSending, AtFinAck, AtFin, AtEnd
  <2> QED  BY <2>2, Places DEF Types
<1>4. CASE ChildSent
  <2>1. /\ sPc = "sending"
        /\ UNCHANGED <<cPc, cRequest, cPath, cRet, timed, soiled, sPath, toChild, spoilt, begun>>
        BY <1>4 DEF ChildSent, client, sockets
  <2>2. \/ cPc = "receiving" /\ AtReceiving
        \/ cPc = "getOutcome" /\ AtGetOutcome
    <3>1. /\ ~AtPrompt /\ ~AtAnswer /\ ~AtGetName /\ ~AtGetAnswer /\ ~AtPutName
          /\ ~AtPutAnswer /\ ~AtPutStart /\ ~AtSending /\ ~AtFinAck /\ ~AtFin /\ ~AtEnd
          BY <2>1 DEF AtPrompt, Ready, Child, AtAnswer, AtGetName, AtGetAnswer,
                      AtPutName, AtPutAnswer, AtPutStart, AtSending, AtFinAck, AtFin, AtEnd
    <3> QED  BY <3>1, Places DEF Types
  <2>3. toChild = << >> /\ toClient = << >> /\ SameFile /\ cRequest \in Names /\ cPc # "ended"
        BY <2>1, <2>2 DEF AtReceiving, AtGetOutcome, Child, CalmInv
  <2>4. CASE Succeeds(toChild)
    <3>1. sent' = "EXIT_SUCCESS" /\ UNCHANGED <<received, kept>>
          BY <2>4 DEF Succeeds, T!SenderSucceeds
    <3>0. received = "EXIT_SUCCESS"
          BY <2>1, <2>2, <2>4 DEF Succeeds, T!SenderSucceeds, AtReceiving, AtGetOutcome, Child
    <3>2. cPc = "getOutcome" /\ cRet = "EXIT_SUCCESS" /\ kept = T!Source
          BY <2>1, <2>2, <3>0 DEF AtReceiving, AtGetOutcome, Child
    <3>3. toClient' = <<"TRANSFER_COMPLETED">> /\ sPc' = "command"
          BY <1>4, <2>3, <3>1, Joined DEF ChildSent, Replies, Outcome, SendToClient
    <3>4. AtGetOutcome'
          BY <2>1, <2>3, <3>0, <3>1, <3>2, <3>3 DEF AtGetOutcome, SameFile, Child
    <3>5. InStep'  BY <2>1, <3>2, <3>4 DEF InStep
    <3>6. CalmInv'  BY <1>0, <2>1, <2>3, <3>2, <3>3 DEF CalmInv
    <3> QED  BY <3>5, <3>6
  <2>5. CASE GivesUp
    <3>1. sent' = "TRANSFER_ERROR" /\ received # "EXIT_SUCCESS" /\ UNCHANGED <<received, kept>>
          BY <1>0, <2>5 DEF GivesUp, Disagrees, Suffer, T!SenderFails
    <3>2. cPc = "receiving" /\ received = "running"
          BY <2>1, <2>2, <3>1 DEF AtReceiving, AtGetOutcome, Child
    <3>3. toClient' = <<"TRANSFER_ERROR">> /\ sPc' = "command"
          BY <1>4, <2>3, <3>1, Joined DEF ChildSent, Replies, Outcome, SendToClient
    <3>4. AtReceiving'
          BY <1>0, <2>1, <2>3, <3>1, <3>2, <3>3 DEF AtReceiving, SameFile, Child
    <3>5. InStep'  BY <2>1, <3>2, <3>4 DEF InStep
    <3>6. CalmInv'  BY <1>0, <2>1, <2>3, <3>2, <3>3 DEF CalmInv
    <3> QED  BY <3>5, <3>6
  <2> QED  BY <1>4, <2>4, <2>5 DEF ChildSent
<1> QED  BY <1>1, <1>2, <1>3, <1>4

\* The child has read what the last command left for it.
LEMMA NowReady ==
  ASSUME NEW q, (cPc = "prompt" /\ q = << >>) \/ (cPc = "answer" /\ q = <<cRequest>>),
         toClient = << >>, UNCHANGED <<cPc, cRequest, toClient>>,
         sPc' = "command", toChild' = q
  PROVE  InStep'
BY DEF InStep, AtPrompt, AtAnswer, Ready

\* ... a PUT, ...
LEMMA PutNameStep ==
  ASSUME Types, Agreed, Calm, Calm', PutName  PROVE Agreed'
<1> USE DEF Agreed
<1>0. timed = {} /\ soiled = {} /\ ~spoilt /\ mishaps = {} /\ mishaps' = {}  BY DEF CalmInv, Calm
<1>1. /\ sPc = "putName" /\ toChild # << >> /\ toChild' = Tail(toChild)
      /\ UNCHANGED <<cPc, cRequest, cPath, timed, soiled>>
      BY DEF PutName, ChildReads, client, sockets
<1>2. \/ cPc = "prompt" /\ AtPrompt
      \/ cPc = "answer" /\ AtAnswer
      \/ cPc = "putAnswer" /\ AtPutAnswer
  <2>1. /\ ~AtGetName /\ ~AtGetAnswer /\ ~AtReceiving /\ ~AtGetOutcome /\ ~AtPutName
        /\ ~AtPutStart /\ ~AtSending /\ ~AtFinAck /\ ~AtFin /\ ~AtEnd
        BY <1>1 DEF Child, AtGetName, AtGetAnswer, AtReceiving, AtGetOutcome, AtPutName,
                    AtPutStart, AtSending, AtFinAck, AtFin, AtEnd
  <2> QED  BY <2>1, Places DEF Types
<1>3. CASE cPc \in {"prompt", "answer"}
  <2>1. PICK q : /\ (cPc = "prompt" /\ q = << >>) \/ (cPc = "answer" /\ q = <<cRequest>>)
                 /\ toClient = << >> /\ toChild = <<"ABORT">> \o q
        BY <1>1, <1>2, <1>3 DEF AtPrompt, AtAnswer, Ready, Child
  <2>2. Head(toChild) = "ABORT" /\ Tail(toChild) = q
    <3>1. CASE q = << >>  BY <2>1, <3>1, Joined, Heads
    <3>2. CASE q = <<cRequest>>
      <4>1. toChild = <<"ABORT", cRequest>>  BY <2>1, <3>2, Joined
      <4> QED  BY <3>2, <4>1, Heads
    <3> QED  BY <2>1, <3>1, <3>2
  <2>3. Replies(<< >>, "command") /\ UNCHANGED <<sPath, transfer, disk, mishaps>>
        BY <2>2 DEF PutName, ChildReads
  <2>4. toClient' = << >> /\ sPc' = "command"
        BY <2>1, <2>3, Joined DEF Replies, SendToClient
  <2>5. InStep'  BY <1>1, <2>1, <2>2, <2>4, NowReady
  <2>6. CalmInv'  BY <1>0, <1>1, <1>3, <2>3, <2>4 DEF CalmInv, transfer
  <2> QED  BY <2>5, <2>6
<1>4. CASE cPc = "putAnswer"
  <2>1. toChild = <<cPath>> /\ toClient = << >> /\ cPath \in Names /\ cRequest = NoName
        BY <1>1, <1>2, <1>4 DEF AtPutAnswer, Child, CalmInv
  <2>2. Head(toChild) = cPath /\ toChild' = << >> /\ cPath # "ABORT"
        BY <1>1, <2>1, Heads, NoNames DEF Feedback
  <2>3. CASE /\ IsThere(cPath) /\ Replies(<<"EXIST">>, "command")
             /\ UNCHANGED <<sPath, transfer, disk>>
    <3>1. toClient' = <<"EXIST">> /\ sPc' = "command" /\ cPath \in files'
          BY <1>4, <2>1, <2>3, Joined DEF Replies, SendToClient, IsThere, disk
    <3>2. InStep'  BY <1>1, <1>4, <2>2, <3>1 DEF InStep, AtPutAnswer, Child
    <3>3. CalmInv'  BY <1>0, <1>1, <1>4, <2>1, <2>3, <3>1 DEF CalmInv, transfer
    <3> QED  BY <3>2, <3>3
  <2>4. CASE /\ sPath' = cPath /\ NewTransfer
             /\ Replies(<<"NOT_EXIST", "START_TRANSFER">>, "receiving")
    <3>1. toClient' = <<"NOT_EXIST", "START_TRANSFER">> /\ sPc' = "receiving"
          BY <1>4, <2>1, <2>4, Joined DEF Replies, SendToClient
    <3>2. sent' = "running" /\ received' = "running" /\ ~begun' /\ ~spoilt'
          BY <2>4 DEF NewTransfer
    <3>3. InStep'
          BY <1>1, <1>4, <2>2, <2>4, <3>1, <3>2 DEF InStep, AtPutAnswer, Transferring, SameFile, Child
    <3>4. CalmInv'  BY <1>0, <1>1, <1>4, <2>1, <2>4, <3>1, <3>2 DEF CalmInv
    <3> QED  BY <3>3, <3>4
  <2> QED  BY <1>0, <2>2, <2>3, <2>4 DEF PutName, ChildReads, OpenFails, Suffer
<1> QED  BY <1>2, <1>3, <1>4

LEMMA ChildReceivedStep ==
  ASSUME Types, Agreed, Calm, Calm', ChildReceived  PROVE Agreed'
<1> USE DEF Agreed
<1>0. timed = {} /\ soiled = {} /\ ~spoilt /\ mishaps = {} /\ mishaps' = {}  BY DEF CalmInv, Calm
<1>1. /\ sPc = "receiving" /\ sPath \in Names
      /\ UNCHANGED <<cPc, cRequest, cPath, cRet, timed, soiled, sPath, toChild, toClient, begun, spoilt>>
      BY DEF ChildReceived, client, sockets, queues, CalmInv
<1>2. \/ cPc = "prompt" /\ AtPrompt
      \/ cPc = "answer" /\ AtAnswer
      \/ cPc = "putAnswer" /\ AtPutAnswer
      \/ cPc = "putStart" /\ AtPutStart
      \/ cPc = "sending" /\ AtSending
  <2>1. /\ ~AtGetName /\ ~AtGetAnswer /\ ~AtReceiving /\ ~AtGetOutcome /\ ~AtPutName
        /\ ~AtFinAck /\ ~AtFin /\ ~AtEnd
        BY <1>1 DEF Child, AtGetName, AtGetAnswer, AtReceiving, AtGetOutcome, AtPutName,
                    AtFinAck, AtFin, AtEnd
  <2> QED  BY <2>1, Places DEF Types
<1>3. CASE Receives
  <2>1. begun /\ sent # "TRANSFER_ERROR" /\ received' = "EXIT_SUCCESS" /\ sent' = sent
        BY <1>0, <1>3 DEF Receives, Disagrees, Suffer, T!ReceiverSucceeds
  <2>2. cPc = "sending" /\ AtSending
        BY <1>1, <1>2, <2>1 DEF AtPrompt, AtAnswer, Ready, Child, CalmInv
  <2>3. sPc' = "putOutcome"
        BY <1>0, <1>1, <2>1, <1>3 DEF ChildReceived, ReceivesOne, T!ReceiverFails
  <2>4. InStep'
        BY <1>1, <2>1, <2>2, <2>3 DEF InStep, AtSending, Transferring, SameFile, Child
  <2>5. CalmInv'  BY <1>0, <1>1, <2>2, <2>3 DEF CalmInv
  <2> QED  BY <2>4, <2>5
<1>4. CASE T!ReceiverFails /\ sPc' = "command"
  <2>1. sent = "TRANSFER_ERROR"  BY <1>4 DEF T!ReceiverFails
  <2>2. PICK q : /\ (cPc = "prompt" /\ q = << >>) \/ (cPc = "answer" /\ q = <<cRequest>>)
                 /\ toClient = << >> /\ toChild = q
        BY <1>1, <1>2, <2>1 DEF AtPrompt, AtAnswer, Ready, Child, AtPutAnswer, AtPutStart, AtSending,
                                Transferring
  <2>3. InStep'  BY <1>1, <1>4, <2>2, NowReady
  <2>4. CalmInv'  BY <1>0, <1>1, <1>4, <2>2 DEF CalmInv
  <2> QED  BY <2>3, <2>4
<1> QED  BY <1>0, <1>3, <1>4 DEF ChildReceived, ReceivesOne

LEMMA CompletedReadStep ==
  ASSUME LongNames, Types, Agreed, Calm, CompletedRead  PROVE Agreed'
<1> USE DEF Agreed
<1>0. timed = {} /\ soiled = {} /\ ~spoilt /\ mishaps = {}  BY DEF CalmInv, Calm
<1>1. /\ sPc = "putOutcome" /\ toChild # << >> /\ toChild' = Tail(toChild) /\ sPath \in Names
      /\ UNCHANGED <<cPc, cRequest, cPath, cRet, timed, sPath, toClient, begun, spoilt, mishaps>>
      BY DEF CompletedRead, ChildReads, client, transfer, history, CalmInv
<1>2. \/ cPc = "prompt" /\ AtPrompt
      \/ cPc = "answer" /\ AtAnswer
  <2>1. /\ ~AtGetName /\ ~AtGetAnswer /\ ~AtReceiving /\ ~AtGetOutcome /\ ~AtPutName
        /\ ~AtPutAnswer /\ ~AtPutStart /\ ~AtSending /\ ~AtFinAck /\ ~AtFin /\ ~AtEnd
        BY <1>1 DEF Child, AtGetName, AtGetAnswer, AtReceiving, AtGetOutcome, AtPutName,
                    AtPutAnswer, AtPutStart, AtSending, AtFinAck, AtFin, AtEnd
  <2> QED  BY <2>1, Places DEF Types
<1>3. PICK q : /\ (cPc = "prompt" /\ q = << >>) \/ (cPc = "answer" /\ q = <<cRequest>>)
               /\ toClient = << >> /\ toChild = <<"TRANSFER_COMPLETED">> \o q
      BY <1>1, <1>2 DEF AtPrompt, AtAnswer, Ready, Child
<1>4. Head(toChild) = "TRANSFER_COMPLETED" /\ Tail(toChild) = q
  <2>1. CASE q = << >>  BY <1>3, <2>1, Joined, Heads
  <2>2. CASE q = <<cRequest>>
    <3>1. toChild = <<"TRANSFER_COMPLETED", cRequest>>  BY <1>3, <2>2, Joined
    <3> QED  BY <2>2, <3>1, Heads
  <2> QED  BY <1>3, <2>1, <2>2
<1>5. ~MayMiss(sPath)
  <2>1. NameLength[sPath] >= 5 /\ NameLength[sPath] \in Nat
        BY <1>1, NamesAssumption DEF LongNames
  <2>2. PathSize(sPath) > 18  BY <1>1, <2>1 DEF PathSize
  <2>3. PathSize(sPath) \in Nat  BY <1>1, <2>1 DEF PathSize
  <2> QED  BY <1>0, <2>2, <2>3 DEF MayMiss
<1>6. sPc' = "command" /\ soiled' = soiled \ {"child"}
      BY <1>4, <1>5 DEF CompletedRead, ChildReads
<1>7. InStep'  BY <1>1, <1>3, <1>4, <1>6, NowReady
<1>8. CalmInv'  BY <1>0, <1>1, <1>2, <1>6 DEF CalmInv
<1> QED  BY <1>7, <1>8

\* ... and the end.
LEMMA ChildCloseStep ==
  ASSUME Types, Agreed, Calm, FinRead \/ FinAckRead \/ DummyRead \/ HandlerTimesOut
  PROVE  Agreed'
<1> USE DEF Agreed
<1>0. timed = {} /\ soiled = {} /\ ~spoilt  BY DEF CalmInv
<1>1. CASE FinRead
  <2>1. /\ sPc = "fin" /\ toChild # << >>
        /\ UNCHANGED <<cPc, cRequest, cPath, cRet, timed, soiled, sPath, begun, spoilt>>
        BY <1>1 DEF FinRead, client, sockets, transfer
  <2>2. cPc = "finack" /\ AtFinAck
    <3>1. /\ ~AtPrompt /\ ~AtAnswer /\ ~AtGetName /\ ~AtGetAnswer /\ ~AtReceiving /\ ~AtGetOutcome
          /\ ~AtPutName /\ ~AtPutAnswer /\ ~AtPutStart /\ ~AtSending /\ ~AtFin /\ ~AtEnd
          BY <2>1 DEF AtPrompt, Ready, Child, AtAnswer, AtGetName, AtGetAnswer, AtReceiving,
             AtGetOutcome, AtPutName, AtPutAnswer, AtPutStart, AtSending, AtFin, AtEnd
    <3> QED  BY <3>1, Places DEF Types
  <2>3. toChild = <<"FIN">> /\ toClient = << >>  BY <2>1, <2>2 DEF AtFinAck, Child
  <2>4. Head(toChild) = "FIN" /\ Tail(toChild) = << >>  BY <2>3, Heads
  <2>5. toChild' = << >> /\ Replies(<<"FINACK", "FIN">>, "finack")
        BY <1>1, <2>4 DEF FinRead, ChildReads, FinAckAndFin
  <2>6. toClient' = <<"FINACK", "FIN">> /\ sPc' = "finack"
        BY <2>2, <2>3, <2>5, Joined DEF Replies, SendToClient
  <2>7. InStep'  BY <2>1, <2>2, <2>5, <2>6 DEF InStep, AtFinAck, Child
  <2>8. CalmInv'  BY <1>0, <2>1, <2>2, <2>6 DEF CalmInv
  <2> QED  BY <2>7, <2>8
<1>2. CASE FinAckRead
  <2>1. /\ sPc = "finack" /\ toChild # << >> /\ sPc' = "ended" /\ toChild' = << >>
        /\ UNCHANGED <<cPc, cRequest, cPath, cRet, timed, soiled, sPath, toClient, begun, spoilt>>
        BY <1>2 DEF FinAckRead, ChildEnds, client, sockets, transfer
  <2>2. cPc = "ended" /\ AtEnd
    <3>1. /\ ~AtPrompt /\ ~AtAnswer /\ ~AtGetName /\ ~AtGetAnswer /\ ~AtReceiving /\ ~AtGetOutcome
          /\ ~AtPutName /\ ~AtPutAnswer /\ ~AtPutStart /\ ~AtSending /\ ~AtFinAck /\ ~AtFin
          BY <2>1 DEF AtPrompt, Ready, Child, AtAnswer, AtGetName, AtGetAnswer, AtReceiving,
             AtGetOutcome, AtPutName, AtPutAnswer, AtPutStart, AtSending, AtFinAck, AtFin
    <3> QED  BY <3>1, Places DEF Types
  <2>3. toClient = << >>  BY <2>2 DEF AtEnd, Child
  <2>4. InStep'  BY <2>1, <2>2, <2>3 DEF InStep, AtEnd, Child
  <2>5. CalmInv'  BY <1>0, <2>1, <2>2 DEF CalmInv
  <2> QED  BY <2>4, <2>5
<1>3. CASE DummyRead
  <2>1. sPc = "dummy"  BY <1>3 DEF DummyRead
  <2>2. /\ ~AtPrompt /\ ~AtAnswer /\ ~AtGetName /\ ~AtGetAnswer /\ ~AtReceiving /\ ~AtGetOutcome
        /\ ~AtPutName /\ ~AtPutAnswer /\ ~AtPutStart /\ ~AtSending /\ ~AtFinAck /\ ~AtFin /\ ~AtEnd
        BY <2>1 DEF AtPrompt, Ready, Child, AtAnswer, AtGetName, AtGetAnswer, AtReceiving,
           AtGetOutcome, AtPutName, AtPutAnswer, AtPutStart, AtSending, AtFinAck, AtFin, AtEnd
  <2> QED  BY <2>2, Places DEF Types
<1>4. CASE HandlerTimesOut
  BY <1>0, <1>4 DEF HandlerTimesOut
<1> QED  BY <1>1, <1>2, <1>3, <1>4

\* A text that a sender takes for an acknowledgement was in its socket, ...
LEMMA SenderReadsWhat ==
  ASSUME TextForSender \/ SenderCrashes \/ SenderMisled
  PROVE  \/ sPc = "sending" /\ toChild # << >>
         \/ cPc = "sending" /\ toClient # << >>
BY DEF TextForSender, SenderCrashes, SenderMisled, SenderReads, ChildReads, ClientReads

\* ... and no file is changed by it, nor by one that a receiver takes for a packet.
LEMMA AstrayKeeps ==
  ASSUME Astray
  PROVE  UNCHANGED <<cRequest, cPath, cRet, sPath, received, kept, begun, files, whole, stored, mishaps>>
BY DEF Astray, TextForSender, SenderCrashes, SenderMisled, TextForReceiver, client, child, transfer, disk,
       history

\* No text meets the wrong reader.
LEMMA AstrayStep ==
  ASSUME Types, Agreed, Calm, Astray  PROVE FALSE
<1> USE DEF Agreed
<1>1. \/ sPc = "sending" /\ toChild # << >>
      \/ cPc = "sending" /\ toClient # << >>
      \/ sPc = "receiving" /\ toChild # << >> /\ ~ErrorOnItsWay
      \/ cPc = "receiving" /\ toClient # << >> /\ ~ErrorOnItsWay
      BY SenderReadsWhat DEF Astray, TextForReceiver, ChildReads, ClientReads
<1>2. /\ ~(sPc = "sending" /\ toChild # << >>)
      /\ ~(cPc = "sending" /\ toClient # << >>)
      BY Places DEF Types, AtPrompt, Ready, Child, AtAnswer, AtGetName, AtGetAnswer, AtReceiving,
         AtGetOutcome, AtPutName, AtPutAnswer, AtPutStart, AtSending, AtFinAck, AtFin, AtEnd
<1>3. CASE sPc = "receiving" /\ toChild # << >> /\ ~ErrorOnItsWay
  <2>1. ~(sent = "TRANSFER_ERROR" /\ received = "running")
        BY <1>3 DEF ErrorOnItsWay, Calm
  <2> QED
        BY <1>3, <2>1, Places DEF Types, AtPrompt, Ready, Child, AtAnswer, AtGetName, AtGetAnswer,
           AtReceiving, AtGetOutcome, AtPutName, AtPutAnswer, AtPutStart, AtSending, AtFinAck, AtFin, AtEnd
<1>4. CASE cPc = "receiving" /\ toClient # << >> /\ ~ErrorOnItsWay
  <2>1. ~(sent = "TRANSFER_ERROR" /\ received = "running")
        BY <1>4 DEF ErrorOnItsWay, Calm
  <2>2. AtReceiving  BY <1>4 DEF InStep
  <2> QED  BY <1>4, <2>1, <2>2 DEF AtReceiving, Child
<1> QED  BY <1>1, <1>2, <1>3, <1>4

\* What goes wrong is not forgotten.
LEMMA Remembered == Next => mishaps \subseteq mishaps'
<1> USE DEF Suffer, history
<1>1. TypeCommand => mishaps \subseteq mishaps'  BY DEF TypeCommand
<1>2. ClientStep => mishaps \subseteq mishaps'
      BY DEF ClientStep, Answered, AnswerTimesOut, TypeGetName, NameAnswered, NameTimesOut,
         ClientReceived, OutcomeRead, TypePutName, PutAnswered, PutStarted, ClientSent,
         CloseAnswered, FinArrives, CloseTimesOut, TimesOut, ClientReceiverStarts, Opens, OpenFails,
         Receives, ReceivesOne, Succeeds, GivesUp, Disagrees
<1>3. ChildStep => mishaps \subseteq mishaps'
      BY DEF ChildStep, Serve, LookUp, StartRead, StartTimesOut, ChildSent, PutName, ChildReceived,
         CompletedRead, FinRead, FinAckRead, DummyRead, HandlerTimesOut, TimesOut, Opens, OpenFails,
         Receives, ReceivesOne, Succeeds, GivesUp, Disagrees
<1>4. Astray => mishaps \subseteq mishaps'  BY AstrayKeeps
<1>5. Environment => mishaps \subseteq mishaps'
      BY DEF Environment, Interrupt, Quit, Strikes, Terminate, StrayArrives, Lose
<1> QED  BY <1>1, <1>2, <1>3, <1>4, <1>5 DEF Next

LEMMA AgreedStep ==
  ASSUME LongNames, ShortLists, Types, Agreed, Next  PROVE Agreed'
<1>1. CASE ~Calm'
  BY <1>1 DEF Agreed, InStep, CalmInv, Calm
<1>2. CASE Calm'
  <2>1. Calm  BY <1>2, Remembered DEF Calm
  <2>2. CASE TypeCommand  BY <2>1, <2>2, TypeCommandStep
  <2>3. CASE ClientStep
    BY <1>2, <2>1, <2>3, AnswerStep, GetStep, PutStep, CloseStep DEF ClientStep
  <2>4. CASE ChildStep
    BY <1>2, <2>1, <2>4, ServeStep, ChildGetStep, PutNameStep, ChildReceivedStep,
       CompletedReadStep, ChildCloseStep DEF ChildStep
  <2>5. CASE Astray  BY <2>1, <2>5, AstrayStep
  <2>6. CASE Environment
    BY <1>2, <2>6 DEF Calm, Environment, Interrupt, Quit, Strikes, Terminate, StrayArrives, Lose, Suffer
  <2> QED  BY <2>2, <2>3, <2>4, <2>5, <2>6 DEF Next
<1> QED  BY <1>1, <1>2

\* The dialogue of client and child has no tags, lengths or numbers, but as long as
\* nothing goes wrong the two agree on what every datagram means, whatever the user
\* types and whoever gives up a transfer, if names have five characters and a list
\* takes one datagram.
THEOREM InStepHolds == ASSUME LongNames, ShortLists  PROVE Spec => []InStep
<1>1. Init => Agreed
  <2> SUFFICES ASSUME Init  PROVE Agreed  OBVIOUS
  <2>1. InStep  BY DEF Init, InStep, AtPrompt, Ready
  <2>2. CalmInv  BY DEF Init, CalmInv
  <2> QED  BY <2>1, <2>2 DEF Agreed
<1>2. Types /\ Agreed /\ [Next]_vars => Agreed'
  <2> SUFFICES ASSUME Types, Agreed, [Next]_vars  PROVE Agreed'  OBVIOUS
  <2>1. CASE Next  BY <2>1, AgreedStep
  <2>2. CASE UNCHANGED vars
    <3>1. UNCHANGED <<cPc, cRequest, cPath, cRet, sPc, sPath, timed, soiled, toChild, toClient,
                      sent, received, kept, begun, spoilt, files, mishaps>>
          BY <2>2 DEF vars, client, child, sockets, queues, transfer, disk, history
    <3>2. InStep'
          BY <3>1 DEF Agreed, InStep, Calm, Ready, Child, SameFile, Transferring, AtPrompt, AtAnswer,
             AtGetName, AtGetAnswer, AtReceiving, AtGetOutcome, AtPutName, AtPutAnswer, AtPutStart,
             AtSending, AtFinAck, AtFin, AtEnd
    <3>3. CalmInv'  BY <3>1 DEF Agreed, CalmInv, Calm
    <3> QED  BY <3>2, <3>3 DEF Agreed
  <2> QED  BY <2>1, <2>2
<1>3. Agreed => InStep  BY DEF Agreed
<1> QED  BY <1>1, <1>2, <1>3, TypesInvariance, PTL DEF Spec

-----------------------------------------------------------------------------
(* Whatever goes wrong, but for lost and stray datagrams                   *)

Sound == mishaps \cap {"loss", "stray"} = {}

\* A client that closes the connection has nothing more to report.
Playing == cPc \notin {"finack", "fin", "ended"}

\* Until then it sends no FIN, and a child that goes does not answer.
NoFin == toChild \in Seq(Texts \ {"FIN"})
Gone == sPc \in {"dummy", "fin", "finack", "ended"}

\* The child has gone; the client may still be waiting, for texts that are on their
\* way, or in a transfer.
Uninvited == toClient \in Seq(Texts \ {"START_TRANSFER"})
Dead ==
  /\ Gone
  /\ \/ Uninvited
     \/ /\ cPc = "putAnswer" /\ toClient = <<"NOT_EXIST", "START_TRANSFER">>
        /\ sent = "running" /\ received = "running"
     \/ /\ cPc = "putStart" /\ toClient = <<"START_TRANSFER">>
        /\ sent = "running" /\ received = "running"
  /\ cPc = "sending" =>
       /\ sent = "running" /\ toClient = << >>
       /\ received = "EXIT_SUCCESS" => cPath \in whole
  /\ cPc = "receiving" /\ begun =>
       /\ SameFile /\ ~spoilt /\ received = "running"
       /\ toClient = << >> \/ sent = "TRANSFER_ERROR"
  /\ cPc = "getOutcome" /\ cRet = "EXIT_SUCCESS" => SameFile /\ kept = T!Source

\* The client could not open the file it was to send: the child takes all that the
\* client says for packets, and the client its acknowledgements for answers.
Deaf ==
  /\ sPc = "receiving" /\ ~begun /\ sent = "running" /\ received = "running"
  /\ toClient \in Seq({Stray})
  /\ cPc # "sending" /\ (cPc = "getOutcome" => cRet = "TRANSFER_ERROR")

\* The two are where InStep has them, or one of them waits for what does not come:
\* the child for an outcome it was not sent or did not recognize, ...
Waiting(q) ==
  /\ toClient = << >>
  /\ \/ Ready(q)
     \/ sPc = "putOutcome" /\ toChild \in {<< >>, q}
OnAnswer ==
  /\ cRequest \in Commands \cup Names
  /\ \/ Waiting(<<cRequest>>)
     \/ cRequest \in Names /\ Child("command", << >>, <<"COMMAND_NOT_FOUND">>)
     \/ cRequest = "LIST" /\ Child("command", << >>, <<"LISTING">>)
     \/ cRequest = "GET" /\ Child("getName", << >>, <<"INSERT_FILENAME">>)
     \/ cRequest = "PUT" /\ Child("putName", << >>, <<"PUT">>)
OnGetAnswer == cRequest \in Names /\ AtGetAnswer
\* ... the client for a file that the child cannot open, ...
Unheard ==
  /\ ~begun /\ sent = "running"
  /\ sPc = "command" /\ toChild \in Seq({Stray}) /\ Uninvited
OnReceiving ==
  /\ received = "running"
  /\ \/ /\ SameFile /\ ~spoilt /\ cRequest \in Names
        /\ \/ Child("getStart", <<"START_TRANSFER">>, << >>) /\ sent = "running" /\ ~begun
           \/ Child("sending", << >>, << >>) /\ sent = "running"
           \/ Child("command", << >>, <<"TRANSFER_ERROR">>) /\ sent = "TRANSFER_ERROR"
     \/ Unheard
\* ... or for the outcome of a transfer that did not begin, ...
NoTransfer ==
  \/ \E n \in Names : Child("getName", <<n>>, << >>)
  \/ /\ sPc \in {"getStart", "command"} /\ toChild = << >>
     /\ toClient = << >> \/ \E m \in Names \cup Answers : toClient = <<m>>
OnGetOutcome ==
  \/ /\ cRequest \in Names /\ SameFile /\ cRet = "EXIT_SUCCESS"
     /\ received = "EXIT_SUCCESS" /\ kept = T!Source
     /\ \/ Child("sending", << >>, << >>) /\ sent = "running"
        \/ /\ sPc = "command" /\ toChild = << >>
           /\ toClient \in {<< >>, <<"TRANSFER_COMPLETED">>, <<"TRANSFER_ERROR">>}
  \/ /\ cRequest \in Names /\ cRet = "TRANSFER_ERROR"
     /\ Child("command", << >>, <<"TRANSFER_ERROR">>)
  \/ cRet = "TRANSFER_ERROR" /\ NoTransfer
\* ... or for the START_TRANSFER of a child that could not create the file.
OnPutAnswer ==
  /\ cPath \in Names
  /\ \/ Child("putName", <<cPath>>, << >>)
     \/ \E m \in {"EXIST", "NOT_EXIST"} : Child("command", << >>, <<m>>)
     \/ /\ Child("receiving", << >>, <<"NOT_EXIST", "START_TRANSFER">>)
        /\ Transferring /\ received = "running" /\ ~begun /\ ~spoilt
OnPutStart ==
  /\ cRequest = "NOT_EXIST"
  /\ \/ Child("command", << >>, << >>)
     \/ AtPutStart /\ ~begun /\ ~spoilt
OnSending ==
  /\ cRequest = "NOT_EXIST" /\ Transferring /\ ~spoilt
  /\ \/ Child("receiving", << >>, << >>) /\ received = "running"
     \/ Child("putOutcome", << >>, << >>) /\ received = "EXIT_SUCCESS" /\ cPath \in whole

Together ==
  \/ cPc = "prompt" /\ Waiting(<< >>)
  \/ cPc = "answer" /\ OnAnswer
  \/ cPc = "getName" /\ AtGetName
  \/ cPc = "getAnswer" /\ OnGetAnswer
  \/ cPc = "receiving" /\ OnReceiving
  \/ cPc = "getOutcome" /\ OnGetOutcome
  \/ cPc = "putName" /\ AtPutName
  \/ cPc = "putAnswer" /\ OnPutAnswer
  \/ cPc = "putStart" /\ OnPutStart
  \/ cPc = "sending" /\ OnSending

Placed == Dead \/ Deaf \/ Together
Settled ==
  Sound =>
    /\ stored \subseteq whole
    /\ Playing => NoFin /\ Placed

-----------------------------------------------------------------------------
LEMMA Queued ==
  ASSUME NEW S, NEW q \in Seq(S)
  PROVE  /\ q # << >> => Head(q) \in S /\ Tail(q) \in Seq(S)
         /\ \A ms \in Seq(S) : q \o ms \in Seq(S)
BY HeadTailProperties, ConcatProperties

\* A client that loops and does not close the connection.
LEMMA LoopsOn ==
  ASSUME NEW ms, NEW r, SendAndLoop(ms, r), Playing'
  PROVE  /\ r # "CLOSE" /\ cRequest' = r /\ SendToChild(ms)
         /\ cPc' = IF r = "GET" THEN "getName" ELSE IF r = "PUT" THEN "putName" ELSE "prompt"
BY DEF SendAndLoop, Playing

\* Once the client closes the connection, it does nothing else.
LEMMA PlayingSteps ==
  ASSUME Next, Playing'
  PROVE  /\ Playing
         /\ \/ TypeCommand \/ Answered \/ TypeGetName \/ NameAnswered \/ NameTimesOut
            \/ ClientReceived \/ OutcomeRead \/ TypePutName \/ PutAnswered \/ PutStarted
            \/ ClientSent
            \/ (ChildStep \/ Astray \/ Terminate \/ StrayArrives \/ Lose) /\ UNCHANGED client
<1>1. ~AnswerTimesOut /\ ~CloseAnswered /\ ~FinArrives /\ ~CloseTimesOut /\ ~Interrupt /\ ~Quit
  BY DEF Playing, AnswerTimesOut, AfterAnswer, CloseAnswered, FinArrives, CloseTimesOut, ClientEnds,
         Interrupt, Quit
<1>2. ASSUME \/ TypeCommand \/ Answered \/ TypeGetName \/ NameAnswered \/ NameTimesOut
             \/ ClientReceived \/ OutcomeRead \/ TypePutName \/ PutAnswered \/ PutStarted
             \/ ClientSent
      PROVE  Playing
  BY <1>2 DEF Playing, TypeCommand, Answered, TypeGetName, NameAnswered, NameTimesOut, ClientReceived,
              OutcomeRead, TypePutName, PutAnswered, PutStarted, ClientSent
<1>3. ASSUME ChildStep  PROVE UNCHANGED client
  BY <1>3 DEF ChildStep, Serve, LookUp, StartRead, StartTimesOut, ChildSent, PutName, ChildReceived,
              CompletedRead, FinRead, FinAckRead, DummyRead, HandlerTimesOut
<1>4. ASSUME Astray \/ Terminate \/ StrayArrives \/ Lose  PROVE UNCHANGED client
  BY <1>4 DEF Astray, TextForSender, SenderCrashes, SenderMisled, TextForReceiver, Terminate,
              StrayArrives, Lose, ClientEnds, Playing
<1>5. UNCHANGED client => (Playing' => Playing)  BY DEF client, Playing
<1> QED  BY <1>1, <1>2, <1>3, <1>4, <1>5 DEF Next, ClientStep, Environment

\* A client that goes on sends no FIN.
LEMMA NoFinStep ==
  ASSUME NoFin, Next, Playing', Sound'
  PROVE  NoFin'
<1> DEFINE S == Texts \ {"FIN"}
<1>a. Names \subseteq S /\ Commands \subseteq S
      BY TextsAre, NoNames DEF Commands, Feedback
<1>b. Stray \in S /\ "START_TRANSFER" \in S /\ "ABORT" \in S /\ "TRANSFER_COMPLETED" \in S
      BY TextsAre DEF Feedback, Stray
<1> SUFFICES toChild' \in Seq(S)  BY DEF NoFin
<1> HIDE DEF S
<1>0. << >> \in Seq(S) /\ \A m \in S : <<m>> \in Seq(S)  OBVIOUS
<1>1. toChild \in Seq(S)  BY DEF NoFin, S
<1>2. ASSUME NEW ms \in Seq(S), SendToChild(ms)  PROVE toChild' \in Seq(S)
  BY <1>0, <1>1, <1>2, Queued DEF SendToChild
<1>3. ASSUME NEW m, ChildReads(m)  PROVE toChild' \in Seq(S)
  BY <1>1, <1>3, Queued DEF ChildReads
<1>4. ASSUME NEW ms \in Seq(S), NEW r, SendAndLoop(ms, r)  PROVE toChild' \in Seq(S)
  BY <1>2, <1>4, LoopsOn
<1>5. CASE \/ TypeCommand \/ TypeGetName \/ TypePutName
  <2>1. ClientFiles \subseteq Names  BY NamesAssumption
  <2>2. \E ms \in Seq(S) : SendToChild(ms)
        BY <1>0, <1>a, <1>b, <1>5, <2>1 DEF TypeCommand, TypeGetName, TypePutName, Sendable
  <2> QED  BY <1>2, <2>2
<1>6. CASE Answered
  <2>1. LoopWith(cRequest)  BY <1>6 DEF Answered, AfterAnswer, Playing
  <2> QED  BY <1>0, <1>4, <2>1 DEF LoopWith
<1>7. CASE NameAnswered
  BY <1>0, <1>b, <1>1, <1>2, <1>4, <1>7 DEF NameAnswered, ClientReceiverStarts, LoopWith
<1>8. CASE NameTimesOut \/ ClientReceived
  BY <1>1, <1>8 DEF NameTimesOut, ClientReceived, queues
<1>9. CASE OutcomeRead \/ PutAnswered \/ PutStarted \/ ClientSent
  <2>1. \/ UNCHANGED toChild
        \/ \E ms \in {<< >>, <<"TRANSFER_COMPLETED">>}, r \in {cRequest, NoName} : SendAndLoop(ms, r)
        BY <1>9 DEF OutcomeRead, PutAnswered, PutStarted, ClientSent, LoopWith
  <2> QED  BY <1>0, <1>b, <1>1, <1>4, <2>1
<1>10. CASE ChildStep
  <2>1. \/ UNCHANGED toChild
        \/ toChild' = << >>
        \/ \E m : ChildReads(m)
        BY <1>10 DEF ChildStep, Serve, LookUp, StartRead, StartTimesOut, ChildSent, PutName,
           ChildReceived, CompletedRead, FinRead, FinAckRead, DummyRead, HandlerTimesOut, ChildEnds, queues
  <2> QED  BY <1>0, <1>1, <1>3, <2>1
<1>11. CASE Astray \/ Terminate
  <2>1. \/ UNCHANGED toChild
        \/ \E m : ChildReads(m)
        \/ toChild' = << >>
        \/ \E ms \in {<< >>, <<Stray>>} : SendToChild(ms)
        BY <1>11 DEF Astray, TextForSender, SenderCrashes, SenderMisled, SenderReads, TextForReceiver,
                     Terminate, ChildEnds, queues
  <2> QED  BY <1>0, <1>b, <1>1, <1>2, <1>3, <2>1
<1>12. ~StrayArrives /\ ~Lose  BY DEF StrayArrives, Lose, Suffer, Sound
<1> QED
  BY <1>5, <1>6, <1>7, <1>8, <1>9, <1>10, <1>11, <1>12, PlayingSteps

-----------------------------------------------------------------------------
\* A child that goes says nothing.
LEMMA GoneChild ==
  ASSUME NoFin, Gone, ChildStep \/ Terminate
  PROVE  Gone' /\ UNCHANGED <<sPath, toClient, transfer, disk>>
<1>1. CASE FinRead
  <2>1. toChild # << >> /\ Head(toChild) # "FIN"  BY <1>1, Queued DEF FinRead, NoFin
  <2> QED  BY <1>1, <2>1 DEF FinRead, ChildReads, ChildEnds, Gone, transfer, disk
<1>2. CASE FinAckRead \/ DummyRead \/ HandlerTimesOut
  BY <1>2 DEF FinAckRead, DummyRead, HandlerTimesOut, ChildEnds, Gone, transfer, disk
<1>3. CASE Terminate
  BY <1>3 DEF Terminate, SigtermHandler, queues, Gone, transfer, disk
<1>4. ~Serve /\ ~LookUp /\ ~StartRead /\ ~StartTimesOut /\ ~ChildSent /\ ~PutName /\ ~ChildReceived
      /\ ~CompletedRead
  BY DEF Gone, Serve, LookUp, StartRead, StartTimesOut, ChildSent, PutName, ChildReceived, CompletedRead
<1> QED  BY <1>1, <1>2, <1>3, <1>4 DEF ChildStep

\* What the client may still do without the child.
LEMMA DeadStep ==
  ASSUME NoFin, Dead, Next, Sound, Sound', Playing'
  PROVE  Dead'
<1>0. Gone  BY DEF Dead
<1>1. ASSUME Uninvited, NEW m, ClientReads(m)  PROVE Uninvited' /\ m # "START_TRANSFER"
  BY <1>1, Queued DEF Uninvited, ClientReads
<1>2. CASE (ChildStep \/ Terminate) /\ UNCHANGED client
  <2>1. Gone' /\ UNCHANGED <<sPath, toClient, transfer, disk>>  BY <1>0, <1>2, GoneChild
  <2>2. UNCHANGED <<cPc, cPath, cRet, sPath, toClient, sent, received, kept, begun, spoilt, whole>>
        BY <1>2, <2>1 DEF client, transfer, disk
  <2> QED  BY <2>1, <2>2 DEF Dead, Uninvited, SameFile
<1>3. CASE TypeCommand \/ TypeGetName \/ TypePutName
  <2>1. cPc' \in {"answer", "getAnswer", "putAnswer", "prompt"}
        /\ cPc \notin {"putAnswer", "putStart"} /\ UNCHANGED <<sPc, toClient>>
        BY <1>3 DEF TypeCommand, TypeGetName, TypePutName, child
  <2> QED  BY <2>1 DEF Dead, Gone, Uninvited
<1>4. CASE Answered
  <2>1. PICK m : ClientReads(m)  BY <1>4 DEF Answered
  <2>2. cPc = "answer" /\ LoopWith(cRequest) /\ sPc' = sPc
        BY <1>4 DEF Answered, AfterAnswer, Playing, child
  <2>3. Uninvited'  BY <1>1, <2>1, <2>2 DEF Dead
  <2>4. cPc' \in {"getName", "putName", "prompt"}  BY <2>2, LoopsOn DEF LoopWith
  <2> QED  BY <2>2, <2>3, <2>4 DEF Dead, Gone
<1>5. CASE NameAnswered
  <2>1. PICK m : ClientReads(m)  BY <1>5 DEF NameAnswered
  <2>2. cPc = "getAnswer" /\ sPc' = sPc  BY <1>5 DEF NameAnswered, child
  <2>3. Uninvited'  BY <1>1, <2>1, <2>2 DEF Dead
  <2>4. \/ LoopWith(NoName)
        \/ cPc' = "receiving" /\ ~begun'
        \/ cPc' = "getOutcome" /\ cRet' = "TRANSFER_ERROR"
        BY <1>5 DEF NameAnswered, ClientReceiverStarts, NewTransfer
  <2>5. LoopWith(NoName) => cPc' \in {"getName", "putName", "prompt"}  BY LoopsOn DEF LoopWith
  <2> QED  BY <2>2, <2>3, <2>4, <2>5 DEF Dead, Gone
<1>6. CASE NameTimesOut
  <2>1. cPc = "getAnswer" /\ cPc' = "getOutcome" /\ cRet' = "TRANSFER_ERROR" /\ UNCHANGED <<sPc, toClient>>
        BY <1>6 DEF NameTimesOut, child, queues
  <2> QED  BY <2>1 DEF Dead, Gone, Uninvited
<1>7. CASE ClientReceived
  <2>1. /\ cPc = "receiving" /\ cPc' = "getOutcome" /\ cRet' = received'
        /\ UNCHANGED <<sPc, sPath, cPath, toClient>>
        BY <1>7 DEF ClientReceived, ReturnOf, child, queues
  <2>2. Uninvited'  BY <2>1 DEF Dead, Uninvited
  <2>3. CASE Receives
    BY <2>1, <2>2, <2>3 DEF Receives, T!ReceiverSucceeds, Dead, Gone, SameFile
  <2>4. CASE T!ReceiverFails
    BY <2>1, <2>2, <2>4 DEF T!ReceiverFails, Dead, Gone
  <2>5. ~ReceivesOne  BY <2>1 DEF ReceivesOne, Dead
  <2> QED  BY <1>7, <2>3, <2>4, <2>5 DEF ClientReceived
<1>8. CASE OutcomeRead
  <2>1. PICK m : ClientReads(m)  BY <1>8 DEF OutcomeRead
  <2>2. /\ cPc = "getOutcome" /\ UNCHANGED <<sPc, sPath, cPath, cRet, kept>>
        /\ LoopWith(cRequest) \/ cPc' = cPc
        BY <1>8 DEF OutcomeRead, child, transfer
  <2>3. Uninvited'  BY <1>1, <2>1, <2>2 DEF Dead
  <2>4. LoopWith(cRequest) => cPc' \in {"getName", "putName", "prompt"}  BY LoopsOn DEF LoopWith
  <2> QED  BY <2>2, <2>3, <2>4 DEF Dead, Gone, SameFile
<1>9. CASE PutAnswered
  <2>1. PICK m : ClientReads(m)  BY <1>9 DEF PutAnswered
  <2>2. cPc = "putAnswer" /\ UNCHANGED <<sPc, sent, received>>  BY <1>9 DEF PutAnswered, child, transfer
  <2>3. cPc' \in {"getName", "putName", "prompt", "putStart"}
        BY <1>9, LoopsOn DEF PutAnswered, LoopWith
  <2>4. CASE Uninvited
    <3>1. Uninvited'  BY <1>1, <2>1, <2>4
    <3> QED  BY <2>2, <2>3, <3>1 DEF Dead, Gone
  <2>5. CASE /\ toClient = <<"NOT_EXIST", "START_TRANSFER">>
             /\ sent = "running" /\ received = "running"
    <3>1. Head(toClient) = "NOT_EXIST" /\ Tail(toClient) = <<"START_TRANSFER">>  BY <2>5, Heads
    <3>2. toClient' = <<"START_TRANSFER">> /\ cPc' = "putStart"
          BY <1>9, <3>1 DEF PutAnswered, ClientReads
    <3> QED  BY <2>2, <2>5, <3>2 DEF Dead, Gone
  <2> QED  BY <2>2, <2>4, <2>5 DEF Dead
<1>10. CASE PutStarted
  <2>1. PICK m : ClientReads(m)  BY <1>10 DEF PutStarted
  <2>2. cPc = "putStart" /\ UNCHANGED <<sPc, sent, received>>  BY <1>10 DEF PutStarted, child
  <2>3. \/ cPc' \in {"getName", "putName", "prompt"}
        \/ cPc' = "sending" /\ ClientReads("START_TRANSFER")
        BY <1>10, LoopsOn DEF PutStarted, LoopWith
  <2>4. CASE Uninvited
    <3>1. Uninvited' /\ ~ClientReads("START_TRANSFER")  BY <1>1, <2>1, <2>4
    <3> QED  BY <2>2, <2>3, <3>1 DEF Dead, Gone
  <2>5. CASE toClient = <<"START_TRANSFER">> /\ sent = "running" /\ received = "running"
    <3>1. toClient' = << >>  BY <2>1, <2>5, Heads DEF ClientReads
    <3>2. Uninvited'  BY <3>1 DEF Uninvited
    <3> QED  BY <2>2, <2>3, <2>5, <3>1, <3>2 DEF Dead, Gone
  <2> QED  BY <2>2, <2>4, <2>5 DEF Dead
<1>11. CASE ClientSent
  <2>1. cPc = "sending" /\ cPc' \in {"getName", "putName", "prompt"} /\ UNCHANGED <<sPc, toClient>>
        BY <1>11, LoopsOn DEF ClientSent, LoopWith, child
  <2> QED  BY <2>1 DEF Dead, Gone, Uninvited
<1>12. CASE Astray /\ UNCHANGED client
  <2>1. sPc \notin {"sending", "receiving"}  BY <1>0 DEF Gone
  <2>2. ~(TextForSender \/ SenderCrashes \/ SenderMisled)  BY <2>1, SenderReadsWhat DEF Dead
  <2>3. UNCHANGED <<cPc, cPath, cRet, sPc, sPath, sent, received, kept, begun, whole>>
        BY <1>12, <2>2 DEF client, Astray, TextForReceiver, child, disk
  <2>4. CASE TextForReceiver
    <3>1. cPc = "receiving" /\ toClient # << >> /\ \E m : ClientReads(m)
          BY <2>1, <2>4 DEF TextForReceiver, ClientReads
    <3>2. ~(sent = "TRANSFER_ERROR" /\ received = "running")
          BY <2>4, <3>1 DEF TextForReceiver, ErrorOnItsWay, Sound
    <3>3. ~begun  BY <3>1, <3>2 DEF Dead
    <3>4. Uninvited'  BY <1>1, <3>1 DEF Dead
    <3> QED  BY <2>3, <3>1, <3>3, <3>4 DEF Dead, Gone
  <2> QED  BY <1>12, <2>2, <2>4 DEF Astray
<1>13. ~StrayArrives /\ ~Lose  BY DEF StrayArrives, Lose, Suffer, Sound
<1> QED
  BY <1>2, <1>3, <1>4, <1>5, <1>6, <1>7, <1>8, <1>9, <1>10, <1>11, <1>12, <1>13, PlayingSteps

\* A child that receives what is not sent, does so until it is stopped.
LEMMA DeafStep ==
  ASSUME Deaf, Next, Sound', Playing'
  PROVE  Deaf' \/ Dead'
<1>0. sPc = "receiving" /\ ~begun /\ sent = "running" /\ received = "running" /\ cPc # "sending"
      BY DEF Deaf
<1>1. ASSUME NEW m, ClientReads(m)  PROVE toClient' \in Seq({Stray}) /\ m = Stray
  BY <1>1, Queued DEF Deaf, ClientReads
<1>2. CASE Terminate /\ UNCHANGED client
  <2>1. /\ Gone' /\ Uninvited'
    <3>1. toClient' = toClient /\ sPc' = "dummy"  BY <1>2 DEF Terminate, SigtermHandler, queues
    <3>2. Stray \in Texts \ {"START_TRANSFER"}  BY TextsAre DEF Stray
    <3>3. \A S : Stray \in S => Seq({Stray}) \subseteq Seq(S)  OBVIOUS
    <3> QED  BY <3>1, <3>2, <3>3 DEF Deaf, Gone, Uninvited
  <2>2. UNCHANGED <<cPc, cRet, begun>>  BY <1>2 DEF Terminate, client, transfer
  <2> QED  BY <2>1, <2>2 DEF Deaf, Dead
<1>3. ~ChildStep
  <2>1. ~Receives /\ ~ReceivesOne /\ ~T!ReceiverFails
        BY <1>0 DEF Receives, ReceivesOne, T!ReceiverFails
  <2> QED  BY <1>0, <2>1 DEF ChildStep, Serve, LookUp, StartRead, StartTimesOut, ChildSent, PutName,
              ChildReceived, CompletedRead, FinRead, FinAckRead, DummyRead, HandlerTimesOut
<1>4. CASE TypeCommand \/ TypeGetName \/ TypePutName \/ NameTimesOut
  <2>1. \/ cPc' \in {"answer", "getAnswer", "putAnswer", "prompt"}
        \/ cPc' = "getOutcome" /\ cRet' = "TRANSFER_ERROR"
        BY <1>4 DEF TypeCommand, TypeGetName, TypePutName, NameTimesOut
  <2>2. UNCHANGED <<child, toClient, transfer>>
        BY <1>4 DEF TypeCommand, TypeGetName, TypePutName, NameTimesOut, queues
  <2> QED  BY <2>1, <2>2 DEF Deaf, child, transfer
<1>5. CASE Answered
  <2>1. LoopWith(cRequest) /\ UNCHANGED <<sPc, begun, sent, received>> /\ \E m : ClientReads(m)
        BY <1>5 DEF Answered, AfterAnswer, Playing, child, transfer
  <2>2. cPc' \in {"getName", "putName", "prompt"}  BY <2>1, LoopsOn DEF LoopWith
  <2> QED  BY <1>1, <2>1, <2>2 DEF Deaf
<1>6. CASE NameAnswered
  <2>1. sPc' = sPc /\ \E m : ClientReads(m)  BY <1>6 DEF NameAnswered, child
  <2>2. /\ \/ LoopWith(NoName)
           \/ cPc' = "receiving"
           \/ cPc' = "getOutcome" /\ cRet' = "TRANSFER_ERROR"
        /\ NewTransfer \/ UNCHANGED transfer
        BY <1>6 DEF NameAnswered, ClientReceiverStarts
  <2>3. ~begun' /\ sent' = "running" /\ received' = "running"
        BY <1>0, <2>2 DEF NewTransfer, transfer
  <2>4. LoopWith(NoName) => cPc' \in {"getName", "putName", "prompt"}  BY LoopsOn DEF LoopWith
  <2> QED  BY <1>1, <2>1, <2>2, <2>3, <2>4 DEF Deaf
<1>7. ~ClientReceived
  BY <1>0 DEF ClientReceived, Receives, ReceivesOne, T!ReceiverFails
<1>8. CASE OutcomeRead
  <2>1. /\ UNCHANGED <<sPc, begun, sent, received, cRet>> /\ \E m : ClientReads(m)
        /\ LoopWith(cRequest) \/ cPc' = cPc
        BY <1>8 DEF OutcomeRead, child, transfer
  <2>2. LoopWith(cRequest) => cPc' \in {"getName", "putName", "prompt"}  BY LoopsOn DEF LoopWith
  <2> QED  BY <1>1, <2>1, <2>2 DEF Deaf
<1>9. CASE PutAnswered \/ PutStarted
  <2>1. \E m : ClientReads(m)  BY <1>9 DEF PutAnswered, PutStarted
  <2>2. ~ClientReads("START_TRANSFER")
    <3>1. Stray # "START_TRANSFER"  BY DEF Stray
    <3> QED  BY <1>1, <3>1
  <2>3. /\ cPc' \in {"getName", "putName", "prompt", "putStart"}
        /\ UNCHANGED <<sPc, begun, sent, received>>
        BY <1>9, <2>2, LoopsOn DEF PutAnswered, PutStarted, LoopWith, child, transfer
  <2> QED  BY <1>1, <2>1, <2>3 DEF Deaf
<1>10. ~ClientSent  BY <1>0 DEF ClientSent
<1>11. CASE Astray /\ UNCHANGED client
  <2>1. TextForReceiver  BY <1>0, <1>11, SenderReadsWhat DEF Astray
  <2>2. UNCHANGED <<cPc, cRet, sPc, begun, sent, received>>
        BY <2>1 DEF TextForReceiver, client, child
  <2>3. \/ \E m : ClientReads(m)
        \/ SendToClient(<< >>)
        \/ SendToClient(<<Stray>>)
        BY <2>1 DEF TextForReceiver
  <2>4. toClient' \in Seq({Stray})
    <3>1. << >> \in Seq({Stray}) /\ <<Stray>> \in Seq({Stray})  OBVIOUS
    <3> QED  BY <1>1, <2>3, <3>1, Queued DEF SendToClient, Deaf
  <2> QED  BY <2>2, <2>4 DEF Deaf
<1>12. ~StrayArrives /\ ~Lose  BY DEF StrayArrives, Lose, Suffer, Sound
<1> QED
  BY <1>2, <1>3, <1>4, <1>5, <1>6, <1>7, <1>8, <1>9, <1>10, <1>11, <1>12, PlayingSteps

LEMMA TypeCommandTogether ==
  ASSUME Together, TypeCommand  PROVE Together'
<1>1. cPc = "prompt" /\ Waiting(<< >>)  BY DEF TypeCommand, Together
<1>2. PICK r \in Commands \cup Names : cRequest' = r /\ SendToChild(<<r>>)  BY DEF TypeCommand
<1>3. UNCHANGED <<sPc, toClient, sent, received>> /\ cPc' = "answer"
      BY DEF TypeCommand, child, transfer
<1>4. toClient = << >> /\ sPc # "ended"  BY <1>1 DEF Waiting, Ready
<1>5. toChild' = toChild \o <<r>>  BY <1>2, <1>4 DEF SendToChild
<1>6. Waiting(<<r>>)'
  <2>1. CASE sPc = "command" /\ toChild = << >>
    BY <1>3, <1>4, <1>5, <2>1, Joined DEF Waiting, Ready
  <2>2. CASE sPc = "putName" /\ toChild = <<"ABORT">> \o << >>
    BY <1>3, <1>4, <1>5, <2>2, Joined DEF Waiting, Ready
  <2>3. CASE sPc = "putOutcome" /\ toChild = <<"TRANSFER_COMPLETED">> \o << >>
    BY <1>3, <1>4, <1>5, <2>3, Joined DEF Waiting, Ready
  <2>4. CASE sPc = "receiving" /\ sent = "TRANSFER_ERROR" /\ received = "running" /\ toChild = << >>
    BY <1>3, <1>4, <1>5, <2>4, Joined DEF Waiting, Ready
  <2>5. CASE sPc = "putOutcome" /\ toChild = << >>
    BY <1>3, <1>4, <1>5, <2>5, Joined DEF Waiting, Ready
  <2> QED  BY <1>1, <2>1, <2>2, <2>3, <2>4, <2>5 DEF Waiting, Ready
<1>7. OnAnswer'  BY <1>2, <1>6 DEF OnAnswer, Waiting, Ready
<1> QED  BY <1>3, <1>7 DEF Together

LEMMA AnsweredTogether ==
  ASSUME Together, Answered, Playing'  PROVE Together'
<1>1. cPc = "answer" /\ OnAnswer  BY DEF Answered, Together
<1>2. PICK m : ClientReads(m)  BY DEF Answered
<1>3. LoopWith(cRequest) /\ UNCHANGED child  BY DEF Answered, AfterAnswer, Playing
<1>4. toClient # << >> /\ toClient' = Tail(toClient)  BY <1>2 DEF ClientReads
<1>5. \/ cRequest \in Names /\ Child("command", << >>, <<"COMMAND_NOT_FOUND">>)
      \/ cRequest = "LIST" /\ Child("command", << >>, <<"LISTING">>)
      \/ cRequest = "GET" /\ Child("getName", << >>, <<"INSERT_FILENAME">>)
      \/ cRequest = "PUT" /\ Child("putName", << >>, <<"PUT">>)
      BY <1>1, <1>4 DEF OnAnswer, Waiting
<1>6. toClient' = << >>
  <2>1. PICK x : toClient = <<x>>  BY <1>5 DEF Child
  <2> QED  BY <1>4, <2>1, Heads
<1>7. toChild = << >> /\ sPc # "ended"  BY <1>5 DEF Child
<1>8. toChild' = << >> /\ sPc' = sPc
  <2>1. SendToChild(<< >>)  BY <1>3, LoopsOn DEF LoopWith
  <2> QED  BY <1>3, <1>7, <2>1, Joined DEF SendToChild, child
<1>9. /\ cPc' = IF cRequest = "GET" THEN "getName" ELSE IF cRequest = "PUT" THEN "putName" ELSE "prompt"
      BY <1>3, LoopsOn DEF LoopWith
<1>10. \/ sPc = "command" /\ cPc' = "prompt"
       \/ sPc = "getName" /\ cPc' = "getName"
       \/ sPc = "putName" /\ cPc' = "putName"
  <2>1. "GET" \notin Names /\ "PUT" \notin Names  BY NoNames DEF Commands
  <2> QED  BY <1>5, <1>9, <2>1 DEF Child
<1> QED  BY <1>6, <1>8, <1>10 DEF Together, Waiting, Ready, AtGetName, AtPutName, Child

\* GET
LEMMA NameTogether ==
  ASSUME Types, Together, TypeGetName \/ NameAnswered \/ NameTimesOut, Playing'
  PROVE  Together'
<1>1. CASE TypeGetName
  <2>1. PICK n \in Names : cRequest' = n /\ SendToChild(<<n>>)  BY <1>1 DEF TypeGetName
  <2>2. Child("getName", << >>, << >>)  BY <1>1 DEF TypeGetName, Together, AtGetName
  <2>3. cPc' = "getAnswer" /\ UNCHANGED <<sPc, toClient>>  BY <1>1 DEF TypeGetName, child
  <2>4. toChild' = <<n>>  BY <2>1, <2>2, Joined DEF SendToChild, Child
  <2> QED  BY <2>1, <2>2, <2>3, <2>4 DEF Together, OnGetAnswer, AtGetAnswer, Child
<1>2. CASE NameAnswered
  <2>1. cPc = "getAnswer" /\ cRequest \in Names /\ AtGetAnswer
        BY <1>2 DEF NameAnswered, Together, OnGetAnswer
  <2>2. UNCHANGED <<sPc, sPath>> /\ toClient # << >>
        BY <1>2 DEF NameAnswered, ClientReads, child
  <2>3. CASE sPc = "command"
    <3>1. toChild = << >> /\ toClient = <<"FILENAME_NOT_FOUND">>
          BY <2>1, <2>3 DEF AtGetAnswer, Child
    <3>2. LoopWith(NoName) /\ toClient' = << >>
          BY <1>2, <3>1, Heads DEF NameAnswered, ClientReads
    <3>3. cPc' = "prompt" /\ toChild' = << >>
      <4>1. cPc' = "prompt" /\ SendToChild(<< >>)
        <5>1. NoName \notin {"GET", "PUT"}  BY DEF NoName
        <5> QED  BY <3>2, <5>1, LoopsOn DEF LoopWith
      <4> QED  BY <2>3, <3>1, <4>1, Joined DEF SendToChild
    <3> QED  BY <2>2, <2>3, <3>2, <3>3 DEF Together, Waiting, Ready
  <2>4. CASE sPc = "getStart"
    <3>1. toChild = << >> /\ toClient = <<sPath>> /\ sPath = cRequest
          BY <2>1, <2>4 DEF AtGetAnswer, Child
    <3>2. sPath # "FILENAME_NOT_FOUND" /\ sPath # NoName
          BY <2>1, <3>1, NoNames DEF Answers
    <3>3. ClientReceiverStarts(sPath) /\ UNCHANGED cRequest /\ toClient' = << >>
          BY <1>2, <3>1, <3>2, Heads DEF NameAnswered, ClientReads
    <3>4. CASE cPc' = "receiving" /\ SendToChild(<<"START_TRANSFER">>) /\ NewTransfer
      <4>1. cPath' = sPath  BY <3>3 DEF ClientReceiverStarts
      <4>2. toChild' = <<"START_TRANSFER">>  BY <2>4, <3>1, <3>4, Joined DEF SendToChild
      <4> QED  BY <2>1, <2>2, <2>4, <3>3, <3>4, <4>1, <4>2
               DEF Together, OnReceiving, SameFile, Child, NewTransfer
    <3>5. CASE cPc' = "getOutcome" /\ cRet' = "TRANSFER_ERROR" /\ UNCHANGED toChild
      BY <2>2, <2>4, <3>1, <3>3, <3>5 DEF Together, OnGetOutcome, NoTransfer
    <3> QED  BY <3>3, <3>4, <3>5 DEF ClientReceiverStarts
  <2> QED  BY <2>1, <2>2, <2>3, <2>4 DEF AtGetAnswer, Child
<1>3. CASE NameTimesOut
  <2>1. /\ cPc = "getAnswer" /\ cPc' = "getOutcome" /\ cRet' = "TRANSFER_ERROR"
        /\ UNCHANGED <<sPc, toChild, toClient>>
        BY <1>3 DEF NameTimesOut, child, queues
  <2>2. cRequest \in Names /\ AtGetAnswer  BY <2>1 DEF Together, OnGetAnswer
  <2>3. NoTransfer
    <3>1. "FILENAME_NOT_FOUND" \in Answers  BY DEF Answers
    <3> QED  BY <2>2, <3>1 DEF AtGetAnswer, NoTransfer, Child
  <2>4. NoTransfer'  BY <2>1, <2>3 DEF NoTransfer, Child
  <2> QED  BY <2>1, <2>4 DEF Together, OnGetOutcome
<1> QED  BY <1>1, <1>2, <1>3

LEMMA ClientReceivedTogether ==
  ASSUME Types, Together, ClientReceived  PROVE Together'
<1>1. /\ cPc' = "getOutcome" /\ cRet' = received'
      /\ UNCHANGED <<cRequest, cPath, sPc, sPath, toChild, toClient>>
      BY DEF ClientReceived, ReturnOf, child, queues
<1>2. OnReceiving  BY DEF ClientReceived, Together
<1>3. CASE Receives
  <2>1. begun /\ received' = "EXIT_SUCCESS" /\ kept' = T!Source /\ sent' = sent
        BY <1>3 DEF Receives, T!ReceiverSucceeds
  <2>2. OnGetOutcome'
        BY <1>1, <1>2, <2>1 DEF OnReceiving, Unheard, OnGetOutcome, SameFile, Child
  <2> QED  BY <1>1, <2>2 DEF Together
<1>4. CASE T!ReceiverFails
  <2>1. sent = "TRANSFER_ERROR" /\ received' = "TRANSFER_ERROR"  BY <1>4 DEF T!ReceiverFails
  <2>2. OnGetOutcome'  BY <1>1, <1>2, <2>1 DEF OnReceiving, Unheard, OnGetOutcome, Child
  <2> QED  BY <1>1, <2>2 DEF Together
<1>5. ~ReceivesOne  BY <1>2 DEF ReceivesOne, OnReceiving, Unheard
<1> QED  BY <1>3, <1>4, <1>5 DEF ClientReceived

LEMMA OutcomeReadTogether ==
  ASSUME Types, Together, OutcomeRead, Playing'  PROVE Together'
<1>1. PICK m :
        /\ ClientReads(m)
        /\ \/ Recognized(m, cRet) /\ LoopWith(cRequest)
           \/ ~Recognized(m, cRet) /\ UNCHANGED <<cPc, cRequest, toChild>>
      BY DEF OutcomeRead
<1>2. cPc = "getOutcome" /\ UNCHANGED <<cPath, cRet, sPc, sPath, sent, received, kept>>
      BY DEF OutcomeRead, child, transfer
<1>3. OnGetOutcome  BY <1>2 DEF Together
<1>4. toClient # << >> /\ m = Head(toClient) /\ toClient' = Tail(toClient)  BY <1>1 DEF ClientReads
<1>5. ASSUME cRequest \in Names, LoopWith(cRequest), sPc = "command", toChild = << >>, toClient' = << >>
      PROVE  Together'
  <2>1. "GET" \notin Names /\ "PUT" \notin Names  BY NoNames DEF Commands
  <2>2. cPc' = "prompt" /\ SendToChild(<< >>)  BY <1>5, <2>1, LoopsOn DEF LoopWith
  <2>3. toChild' = << >>  BY <1>5, <2>2, Joined DEF SendToChild
  <2> QED  BY <1>2, <1>5, <2>2, <2>3 DEF Together, Waiting, Ready
<1>6. CASE /\ cRequest \in Names /\ SameFile /\ cRet = "EXIT_SUCCESS"
           /\ received = "EXIT_SUCCESS" /\ kept = T!Source
           /\ sPc = "command" /\ toChild = << >>
           /\ toClient \in {<<"TRANSFER_COMPLETED">>, <<"TRANSFER_ERROR">>}
  <2>1. toClient' = << >>  BY <1>4, <1>6, Heads
  <2>2. CASE LoopWith(cRequest)  BY <1>5, <1>6, <2>1, <2>2
  <2>3. CASE UNCHANGED <<cPc, cRequest, toChild>>
    BY <1>2, <1>6, <2>1, <2>3 DEF Together, OnGetOutcome, SameFile
  <2> QED  BY <1>1, <2>2, <2>3
<1>7. CASE cRequest \in Names /\ cRet = "TRANSFER_ERROR" /\ Child("command", << >>, <<"TRANSFER_ERROR">>)
  <2>1. toClient' = << >> /\ m = "TRANSFER_ERROR"  BY <1>4, <1>7, Heads DEF Child
  <2>2. Recognized(m, cRet)  BY <1>7, <2>1 DEF Recognized
  <2> QED  BY <1>1, <1>5, <1>7, <2>1, <2>2 DEF Child
<1>8. CASE cRet = "TRANSFER_ERROR" /\ NoTransfer
  <2>1. sPc \in {"getStart", "command"} /\ toChild = << >> /\ \E n \in Names \cup Answers : toClient = <<n>>
        BY <1>4, <1>8 DEF NoTransfer, Child
  <2>2. m \in Names \cup Answers /\ toClient' = << >>  BY <1>4, <2>1, Heads
  <2>3. m # "TRANSFER_ERROR"  BY <2>2, NoNames DEF Feedback, Answers
  <2>4. ~Recognized(m, cRet)  BY <1>8, <2>3 DEF Recognized
  <2>5. NoTransfer' /\ cRet' = "TRANSFER_ERROR" /\ cPc' = cPc
        BY <1>1, <1>2, <1>8, <2>1, <2>2, <2>4 DEF NoTransfer
  <2> QED  BY <1>2, <2>5 DEF Together, OnGetOutcome
<1> QED  BY <1>3, <1>4, <1>6, <1>7, <1>8 DEF OnGetOutcome, Child

-----------------------------------------------------------------------------
\* PUT
LEMMA PutTogether ==
  ASSUME Types, Together, TypePutName \/ PutAnswered, Playing'
  PROVE  Together'
<1>1. CASE TypePutName
  <2>1. sPc = "putName" /\ toChild = << >> /\ toClient = << >>
        BY <1>1 DEF TypePutName, Together, AtPutName, Child
  <2>2. UNCHANGED <<sPc, toClient>>  BY <1>1 DEF TypePutName, child
  <2>3. CASE \E n \in Sendable : cPc' = "putAnswer" /\ cPath' = n /\ SendToChild(<<n>>)
    <3>1. PICK n \in Names : cPc' = "putAnswer" /\ cPath' = n /\ SendToChild(<<n>>)
          BY <2>3, NamesAssumption DEF Sendable
    <3>2. toChild' = <<n>>  BY <2>1, <3>1, Joined DEF SendToChild
    <3> QED  BY <2>1, <2>2, <3>1, <3>2 DEF Together, OnPutAnswer, Child
  <2>4. CASE cPc' = "prompt" /\ SendToChild(<<"ABORT">>)
    <3>1. toChild' = <<"ABORT">> \o << >>  BY <2>1, <2>4, Joined DEF SendToChild
    <3> QED  BY <2>1, <2>2, <2>4, <3>1 DEF Together, Waiting, Ready
  <2> QED  BY <1>1, <2>3, <2>4 DEF TypePutName
<1>2. CASE PutAnswered
  <2>1. cPc = "putAnswer" /\ OnPutAnswer  BY <1>2 DEF PutAnswered, Together
  <2>2. UNCHANGED <<cPath, sPc, sPath, sent, received, begun, spoilt>> /\ toClient # << >>
        BY <1>2 DEF PutAnswered, child, transfer, ClientReads
  <2>3. CASE Child("command", << >>, <<"EXIST">>)
    <3>1. LoopWith(NoName) /\ toClient' = << >>
          BY <1>2, <2>3, Heads DEF PutAnswered, ClientReads, Child
    <3>2. NoName \notin {"GET", "PUT"}  BY DEF NoName
    <3>3. cPc' = "prompt" /\ SendToChild(<< >>)  BY <3>1, <3>2, LoopsOn DEF LoopWith
    <3>4. toChild' = << >>  BY <2>3, <3>3, Joined DEF SendToChild, Child
    <3> QED  BY <2>2, <2>3, <3>1, <3>3, <3>4 DEF Together, Waiting, Ready, Child
  <2>4. CASE Child("command", << >>, <<"NOT_EXIST">>)
    <3>1. /\ cPc' = "putStart" /\ cRequest' = "NOT_EXIST" /\ toChild' = << >> /\ toClient' = << >>
          BY <1>2, <2>4, Heads DEF PutAnswered, ClientReads, Child
    <3> QED  BY <2>2, <2>4, <3>1 DEF Together, OnPutStart, Child
  <2>5. CASE /\ Child("receiving", << >>, <<"NOT_EXIST", "START_TRANSFER">>)
             /\ Transferring /\ received = "running" /\ ~begun /\ ~spoilt
    <3>1. Head(toClient) = "NOT_EXIST" /\ Tail(toClient) = <<"START_TRANSFER">>
          BY <2>5, Heads DEF Child
    <3>2. /\ cPc' = "putStart" /\ cRequest' = "NOT_EXIST" /\ toChild' = << >>
          /\ toClient' = <<"START_TRANSFER">>
          BY <1>2, <2>5, <3>1 DEF PutAnswered, ClientReads, Child
    <3> QED  BY <2>2, <2>5, <3>2
             DEF Together, OnPutStart, AtPutStart, Transferring, SameFile, Child
  <2> QED  BY <2>1, <2>2, <2>3, <2>4, <2>5 DEF OnPutAnswer, Child
<1> QED  BY <1>1, <1>2

LEMMA PutStartedPlaced ==
  ASSUME Types, Together, PutStarted, Playing'  PROVE Together' \/ Deaf'
<1>1. cPc = "putStart" /\ OnPutStart /\ toClient # << >>
      BY DEF PutStarted, ClientReads, Together
<1>2. /\ sPc = "receiving" /\ toChild = << >> /\ toClient = <<"START_TRANSFER">>
      /\ Transferring /\ received = "running" /\ ~begun /\ ~spoilt /\ cRequest = "NOT_EXIST"
      BY <1>1 DEF OnPutStart, AtPutStart, Child
<1>3. UNCHANGED <<cPath, sPc, sPath, sent, received, spoilt>>  BY DEF PutStarted, child
<1>4. Head(toClient) = "START_TRANSFER" /\ Tail(toClient) = << >>  BY <1>2, Heads
<1>5. toClient' = << >>  BY <1>4 DEF PutStarted, ClientReads
<1>6. CASE cPc' = "sending" /\ begun' = TRUE /\ UNCHANGED <<cRequest, toChild>>
  BY <1>2, <1>3, <1>5, <1>6 DEF Together, OnSending, Transferring, SameFile, Child
<1>7. CASE LoopWith(cRequest) /\ UNCHANGED begun
  <2>1. cPc' = "prompt"  BY <1>2, <1>7, LoopsOn DEF LoopWith
  <2> QED  BY <1>2, <1>3, <1>5, <1>7, <2>1 DEF Deaf, Transferring
<1> QED  BY <1>4, <1>6, <1>7 DEF PutStarted, ClientReads

LEMMA ClientSentTogether ==
  ASSUME Types, Together, ClientSent, Playing'  PROVE Together'
<1>1. OnSending  BY DEF ClientSent, Together
<1>2. UNCHANGED <<sPc, sPath, toClient>> /\ sPc # "ended" /\ toChild = << >> /\ toClient = << >>
      BY <1>1 DEF ClientSent, child, OnSending, Child
<1>3. CASE Succeeds(toClient) /\ SendAndLoop(<<"TRANSFER_COMPLETED">>, cRequest)
  <2>1. sPc = "putOutcome"
        BY <1>1, <1>3 DEF Succeeds, T!SenderSucceeds, OnSending, Transferring, Child
  <2>2. cPc' = "prompt" /\ SendToChild(<<"TRANSFER_COMPLETED">>)  BY <1>1, <1>3, LoopsOn DEF OnSending
  <2>3. toChild' = <<"TRANSFER_COMPLETED">> \o << >>  BY <1>2, <2>2, Joined DEF SendToChild
  <2> QED  BY <1>2, <2>1, <2>2, <2>3 DEF Together, Waiting, Ready
<1>4. CASE GivesUp /\ LoopWith(cRequest)
  <2>1. sent' = "TRANSFER_ERROR" /\ received' = received  BY <1>4 DEF GivesUp, T!SenderFails
  <2>2. cPc' = "prompt" /\ SendToChild(<< >>)  BY <1>1, <1>4, LoopsOn DEF LoopWith, OnSending
  <2>3. toChild' = << >>  BY <1>2, <2>2, Joined DEF SendToChild
  <2>4. (sPc = "receiving" /\ received = "running") \/ sPc = "putOutcome"
        BY <1>1 DEF OnSending, Child
  <2> QED  BY <1>2, <2>1, <2>2, <2>3, <2>4 DEF Together, Waiting, Ready
<1> QED  BY <1>3, <1>4 DEF ClientSent

\* The child serves a command, or reads what was to confirm its error text.
LEMMA ServePlaced ==
  ASSUME ShortLists, Types, Together, Serve  PROVE Together' \/ Dead'
<1>1. sPc = "command" /\ toChild # << >> /\ UNCHANGED <<client, sPath, transfer>>
      BY DEF Serve, ChildReads
<1>2. UNCHANGED <<cPc, cRequest, cPath, cRet, begun, sent, received>>
      BY <1>1 DEF client, transfer
<1>3. \/ cPc = "answer" /\ cRequest \in Commands \cup Names /\ toChild = <<cRequest>> /\ toClient = << >>
      \/ cPc = "receiving" /\ received = "running" /\ Unheard
      BY <1>1 DEF Together, Waiting, Ready, OnAnswer, AtGetName, OnGetAnswer, AtGetAnswer, OnReceiving,
                  OnGetOutcome, NoTransfer, AtPutName, OnPutAnswer, OnPutStart, AtPutStart, OnSending, Child
<1>4. CASE cPc = "answer" /\ cRequest \in Commands \cup Names /\ toChild = <<cRequest>> /\ toClient = << >>
  <2>1. Head(toChild) = cRequest /\ toChild' = << >>
    <3>1. toChild' = Tail(toChild)  BY DEF Serve, ChildReads
    <3> QED  BY <1>4, <3>1, Heads
  <2>2. [i \in 1 .. 1 |-> "LISTING"] = <<"LISTING">>  OBVIOUS
  <2>3. \/ cRequest = "LIST" /\ \E k \in ListParts : Replies([i \in 1 .. k |-> "LISTING"], "command")
        \/ cRequest = "GET" /\ Replies(<<"INSERT_FILENAME">>, "getName")
        \/ cRequest = "PUT" /\ Replies(<<"PUT">>, "putName")
        \/ cRequest = "CLOSE" /\ Replies(<<"CLOSE">>, "fin")
        \/ cRequest = "EXIT" /\ Replies(<< >>, "fin")
        \/ cRequest \in Names /\ Replies(<<"COMMAND_NOT_FOUND">>, "command")
    BY <1>4, <2>1 DEF Serve, ChildReads, Commands
  <2>4. \A m : << >> \o <<m>> = <<m>> /\ << >> \o << >> = << >>  BY Joined
  <2>5. CASE cRequest \in {"CLOSE", "EXIT"}
    <3>1. sPc' = "fin" /\ (toClient' = <<"CLOSE">> \/ toClient' = << >>)
      <4>1. "CLOSE" \notin Names /\ "EXIT" \notin Names  BY NoNames DEF Commands
      <4> QED  BY <1>4, <2>3, <2>4, <2>5, <4>1 DEF Replies, SendToClient
    <3>2. Uninvited'
      <4>1. "CLOSE" \in Texts \ {"START_TRANSFER"}  BY TextsAre DEF Commands
      <4>2. <<"CLOSE">> \in Seq(Texts \ {"START_TRANSFER"}) /\ << >> \in Seq(Texts \ {"START_TRANSFER"})
            BY <4>1
      <4> QED  BY <3>1, <4>2 DEF Uninvited
    <3> QED  BY <1>2, <1>4, <3>1, <3>2 DEF Dead, Gone
  <2>6. CASE cRequest \notin {"CLOSE", "EXIT"}
    <3>1. \/ cRequest = "LIST" /\ Replies(<<"LISTING">>, "command")
          \/ cRequest = "GET" /\ Replies(<<"INSERT_FILENAME">>, "getName")
          \/ cRequest = "PUT" /\ Replies(<<"PUT">>, "putName")
          \/ cRequest \in Names /\ Replies(<<"COMMAND_NOT_FOUND">>, "command")
          BY <2>2, <2>3, <2>6 DEF ShortLists
    <3>2. OnAnswer'
          BY <1>2, <1>4, <2>1, <2>4, <3>1 DEF OnAnswer, Child, Replies, SendToClient
    <3> QED  BY <1>2, <1>4, <3>2 DEF Together
  <2> QED  BY <2>5, <2>6
<1>5. CASE cPc = "receiving" /\ received = "running" /\ Unheard
  <2>1. Head(toChild) = Stray /\ toChild' \in Seq({Stray})
    <3>1. toChild' = Tail(toChild)  BY DEF Serve, ChildReads
    <3> QED  BY <1>1, <1>5, <3>1, Queued DEF Unheard
  <2>2. Stray \notin Commands  BY DEF Stray, Commands
  <2>3. Replies(<<"COMMAND_NOT_FOUND">>, "command")  BY <2>1, <2>2 DEF Serve, ChildReads, Commands
  <2>4. Uninvited'
    <3>1. "COMMAND_NOT_FOUND" \in Texts \ {"START_TRANSFER"}  BY TextsAre DEF Answers
    <3>2. <<"COMMAND_NOT_FOUND">> \in Seq(Texts \ {"START_TRANSFER"})  BY <3>1
    <3> QED  BY <1>5, <2>3, <3>2, Queued DEF Unheard, Uninvited, Replies, SendToClient
  <2> QED  BY <1>2, <1>5, <2>1, <2>3, <2>4 DEF Together, OnReceiving, Unheard, Replies
<1> QED  BY <1>3, <1>4, <1>5

LEMMA LookUpTogether ==
  ASSUME Types, Together, LookUp  PROVE Together'
<1>1. /\ sPc = "getName" /\ toChild # << >>
      /\ UNCHANGED <<cPc, cRequest, cPath, cRet>>
      BY DEF LookUp, ChildReads, client
<1>2. \/ cPc = "getAnswer" /\ cRequest \in Names /\ toChild = <<cRequest>> /\ toClient = << >>
      \/ /\ cPc = "getOutcome" /\ cRet = "TRANSFER_ERROR"
         /\ \E n \in Names : toChild = <<n>> /\ toClient = << >>
      BY <1>1 DEF Together, Waiting, Ready, OnAnswer, AtGetName, OnGetAnswer, AtGetAnswer, OnReceiving,
         Unheard, OnGetOutcome, NoTransfer, AtPutName, OnPutAnswer, OnPutStart, AtPutStart, OnSending, Child
<1>3. PICK n \in Names :
        /\ toChild = <<n>> /\ toClient = << >>
        /\ \/ cPc = "getAnswer" /\ n = cRequest
           \/ cPc = "getOutcome" /\ cRet = "TRANSFER_ERROR"
  <2>1. CASE cPc = "getAnswer"
    <3>1. cRequest \in Names /\ toChild = <<cRequest>> /\ toClient = << >>  BY <1>2, <2>1
    <3> QED  BY <2>1, <3>1
  <2>2. CASE cPc = "getOutcome"
    <3>1. PICK n \in Names : toChild = <<n>> /\ toClient = << >>  BY <1>2, <2>2
    <3> QED  BY <1>2, <2>2, <3>1
  <2> QED  BY <1>2, <2>1, <2>2
<1>4. Head(toChild) = n /\ toChild' = << >>
  <2>1. toChild' = Tail(toChild)  BY DEF LookUp, ChildReads
  <2> QED  BY <1>3, <2>1, Heads
<1>5. \/ sPath' = n /\ Replies(<<n>>, "getStart")
      \/ Replies(<<"FILENAME_NOT_FOUND">>, "command")
      BY <1>4 DEF LookUp, ChildReads
<1>6. \/ sPath' = n /\ Child("getStart", << >>, <<n>>)'
      \/ Child("command", << >>, <<"FILENAME_NOT_FOUND">>)'
  <2>1. \A m : << >> \o <<m>> = <<m>>  BY Joined
  <2> QED  BY <1>3, <1>4, <1>5, <2>1 DEF Child, Replies, SendToClient
<1>7. CASE cPc = "getAnswer" /\ n = cRequest
  BY <1>1, <1>6, <1>7 DEF Together, OnGetAnswer, AtGetAnswer, Child
<1>8. CASE cPc = "getOutcome" /\ cRet = "TRANSFER_ERROR"
  <2>1. "FILENAME_NOT_FOUND" \in Answers  BY DEF Answers
  <2>2. NoTransfer'  BY <1>6, <2>1 DEF NoTransfer, Child
  <2> QED  BY <1>1, <1>8, <2>2 DEF Together, OnGetOutcome
<1> QED  BY <1>3, <1>7, <1>8

LEMMA StartReadTogether ==
  ASSUME Types, Together, StartRead  PROVE Together'
<1>1. /\ sPc = "getStart" /\ toChild # << >>
      /\ UNCHANGED <<cPc, cRequest, cPath, sPath, spoilt, sent, received>>
      BY DEF StartRead, ChildReads, client
<1>2. /\ cPc = "receiving" /\ received = "running" /\ SameFile /\ ~spoilt /\ cRequest \in Names
      /\ toChild = <<"START_TRANSFER">> /\ toClient = << >> /\ sent = "running" /\ ~begun
      BY <1>1 DEF Together, Waiting, Ready, OnAnswer, AtGetName, OnGetAnswer, AtGetAnswer, OnReceiving,
         Unheard, OnGetOutcome, NoTransfer, AtPutName, OnPutAnswer, OnPutStart, AtPutStart, OnSending, Child
<1>3. Head(toChild) = "START_TRANSFER" /\ Tail(toChild) = << >>  BY <1>2, Heads
<1>4. toChild' = << >>  BY <1>3 DEF StartRead, ChildReads
<1>5. CASE Replies(<< >>, "sending")
  <2>1. toClient' = << >> /\ sPc' = "sending"
        BY <1>2, <1>5, Joined DEF Replies, SendToClient
  <2> QED  BY <1>1, <1>2, <1>4, <2>1 DEF Together, OnReceiving, SameFile, Child
<1>6. CASE Replies(<<"TRANSFER_ERROR">>, "command") /\ UNCHANGED begun
  <2>1. toClient' = <<"TRANSFER_ERROR">> /\ sPc' = "command"
        BY <1>2, <1>6, Joined DEF Replies, SendToClient
  <2>2. "TRANSFER_ERROR" \in Texts \ {"START_TRANSFER"}  BY TextsAre DEF Feedback
  <2>3. Uninvited' /\ toChild' \in Seq({Stray})
    <3>1. <<"TRANSFER_ERROR">> \in Seq(Texts \ {"START_TRANSFER"})  BY <2>2
    <3> QED  BY <1>4, <2>1, <3>1 DEF Uninvited
  <2> QED  BY <1>1, <1>2, <1>6, <2>1, <2>3 DEF Together, OnReceiving, Unheard
<1> QED  BY <1>3, <1>5, <1>6 DEF StartRead, ChildReads

LEMMA ChildSentTogether ==
  ASSUME Types, Together, ChildSent  PROVE Together'
<1>1. /\ sPc = "sending"
      /\ UNCHANGED <<cPc, cRequest, cPath, cRet, sPath, toChild, spoilt, begun>>
      BY DEF ChildSent, client
<1>2. /\ toChild = << >> /\ toClient = << >> /\ SameFile /\ cRequest \in Names
      /\ sent = "running"
      /\ \/ cPc = "receiving" /\ received = "running" /\ ~spoilt
         \/ /\ cPc = "getOutcome" /\ cRet = "EXIT_SUCCESS" /\ received = "EXIT_SUCCESS"
            /\ kept = T!Source
      BY <1>1 DEF Together, Waiting, Ready, OnAnswer, AtGetName, OnGetAnswer, AtGetAnswer, OnReceiving,
         Unheard, OnGetOutcome, NoTransfer, AtPutName, OnPutAnswer, OnPutStart, AtPutStart, OnSending, Child
<1>3. /\ sPc' = "command" /\ UNCHANGED <<received, kept>>
      /\ \/ sent' = "EXIT_SUCCESS" /\ received = "EXIT_SUCCESS" /\ toClient' = <<"TRANSFER_COMPLETED">>
         \/ sent' = "TRANSFER_ERROR" /\ toClient' = <<"TRANSFER_ERROR">>
  <2>1. /\ UNCHANGED <<received, kept>>
        /\ \/ sent' = "EXIT_SUCCESS" /\ received = "EXIT_SUCCESS"
           \/ sent' = "TRANSFER_ERROR"
        BY <1>2 DEF ChildSent, Succeeds, GivesUp, T!SenderSucceeds, T!SenderFails
  <2>2. Replies(Outcome(sent'), "command")  BY DEF ChildSent
  <2>3. \A m : << >> \o <<m>> = <<m>>  BY Joined
  <2>4. cPc # "ended"  BY <1>2
  <2> QED  BY <1>2, <2>1, <2>2, <2>3, <2>4 DEF Replies, Outcome, SendToClient
<1>4. CASE cPc = "receiving" /\ received = "running" /\ ~spoilt
  BY <1>1, <1>2, <1>3, <1>4 DEF Together, OnReceiving, SameFile, Child
<1>5. CASE /\ cPc = "getOutcome" /\ cRet = "EXIT_SUCCESS" /\ received = "EXIT_SUCCESS"
           /\ kept = T!Source
  BY <1>1, <1>2, <1>3, <1>5 DEF Together, OnGetOutcome, SameFile
<1> QED  BY <1>2, <1>4, <1>5

\* Whoever waits for a command has the rest of the last one, ...
LEMMA NowWaiting ==
  ASSUME NEW q, \/ cPc = "prompt" /\ q = << >>
                \/ cPc = "answer" /\ q = <<cRequest>> /\ cRequest \in Commands \cup Names,
         toClient' = << >>, UNCHANGED <<cPc, cRequest>>,
         \/ sPc' = "command" /\ toChild' = q
         \/ sPc' = "putOutcome" /\ toChild' \in {<< >>, q}
  PROVE  Together'
<1>1. CASE cPc = "prompt"  BY <1>1 DEF Together, Waiting, Ready
<1>2. CASE cPc = "answer" /\ q = <<cRequest>> /\ cRequest \in Commands \cup Names
  <2>1. OnAnswer'  BY <1>2 DEF OnAnswer, Waiting, Ready
  <2> QED  BY <1>2, <2>1 DEF Together
<1> QED  BY <1>1, <1>2

LEMMA PutNameTogether ==
  ASSUME Types, Together, PutName  PROVE Together'
<1>1. /\ sPc = "putName" /\ toChild # << >> /\ toChild' = Tail(toChild)
      /\ UNCHANGED <<cPc, cRequest, cPath>>
      BY DEF PutName, ChildReads, client
<1>2. /\ toClient = << >>
      /\ \/ cPc = "prompt" /\ toChild = <<"ABORT">> \o << >>
         \/ cPc = "answer" /\ cRequest \in Commands \cup Names /\ toChild = <<"ABORT">> \o <<cRequest>>
         \/ cPc = "putAnswer" /\ cPath \in Names /\ toChild = <<cPath>>
      BY <1>1 DEF Together, Waiting, Ready, OnAnswer, AtGetName, OnGetAnswer, AtGetAnswer, OnReceiving,
         Unheard, OnGetOutcome, NoTransfer, AtPutName, OnPutAnswer, OnPutStart, AtPutStart, OnSending, Child
<1>3. CASE cPc \in {"prompt", "answer"}
  <2>1. PICK q : /\ \/ cPc = "prompt" /\ q = << >>
                    \/ cPc = "answer" /\ q = <<cRequest>> /\ cRequest \in Commands \cup Names
                 /\ toChild = <<"ABORT">> \o q
        BY <1>2, <1>3
  <2>2. Head(toChild) = "ABORT" /\ Tail(toChild) = q
    <3>1. CASE q = << >>  BY <2>1, <3>1, Joined, Heads
    <3>2. CASE q = <<cRequest>>
      <4>1. toChild = <<"ABORT", cRequest>>  BY <2>1, <3>2, Joined
      <4> QED  BY <3>2, <4>1, Heads
    <3> QED  BY <2>1, <3>1, <3>2
  <2>3. Replies(<< >>, "command")  BY <2>2 DEF PutName, ChildReads
  <2>4. toClient' = << >> /\ sPc' = "command"
        BY <1>2, <2>3, Joined DEF Replies, SendToClient
  <2> QED  BY <1>1, <2>1, <2>2, <2>4, NowWaiting
<1>4. CASE cPc = "putAnswer" /\ cPath \in Names /\ toChild = <<cPath>>
  <2>1. Head(toChild) = cPath /\ toChild' = << >> /\ cPath # "ABORT"
        BY <1>1, <1>4, Heads, NoNames DEF Feedback
  <2>2. CASE \E m \in {"EXIST", "NOT_EXIST"} : Replies(<<m>>, "command")
    <3>1. \E m \in {"EXIST", "NOT_EXIST"} : Child("command", << >>, <<m>>)'
          BY <1>2, <1>4, <2>1, <2>2, Joined DEF Replies, SendToClient, Child
    <3> QED  BY <1>1, <1>4, <3>1 DEF Together, OnPutAnswer, Child
  <2>3. CASE /\ sPath' = cPath /\ NewTransfer
             /\ Replies(<<"NOT_EXIST", "START_TRANSFER">>, "receiving")
    <3>1. toClient' = <<"NOT_EXIST", "START_TRANSFER">> /\ sPc' = "receiving"
          BY <1>2, <1>4, <2>3, Joined DEF Replies, SendToClient
    <3> QED  BY <1>1, <1>4, <2>1, <2>3, <3>1
             DEF Together, OnPutAnswer, Transferring, SameFile, Child, NewTransfer
  <2> QED  BY <2>1, <2>2, <2>3 DEF PutName, ChildReads
<1> QED  BY <1>2, <1>3, <1>4

LEMMA ChildReceivedTogether ==
  ASSUME Types, Together, ChildReceived  PROVE Together'
<1>1. /\ sPc = "receiving"
      /\ UNCHANGED <<cPc, cRequest, cPath, sPath, toChild, toClient, spoilt>>
      BY DEF ChildReceived, client, queues
<1>2. \/ /\ toClient = << >>
         /\ \/ cPc = "prompt" /\ toChild = << >>
            \/ cPc = "answer" /\ toChild = <<cRequest>> /\ cRequest \in Commands \cup Names
      \/ ~begun /\ sent = "running"
      \/ cPc = "sending" /\ OnSending
      BY <1>1 DEF Together, Waiting, Ready, OnAnswer, AtGetName, OnGetAnswer, AtGetAnswer, OnReceiving,
         Unheard, OnGetOutcome, NoTransfer, AtPutName, OnPutAnswer, OnPutStart, AtPutStart, Child,
         Transferring
<1>3. sPc' \in {"putOutcome", "command"} /\ sent' = sent
      BY DEF ChildReceived, Receives, ReceivesOne, T!ReceiverSucceeds, T!ReceiverFails
<1>4. CASE /\ toClient = << >>
           /\ \/ cPc = "prompt" /\ toChild = << >>
              \/ cPc = "answer" /\ toChild = <<cRequest>> /\ cRequest \in Commands \cup Names
  BY <1>1, <1>3, <1>4, NowWaiting
<1>5. ~(~begun /\ sent = "running")
      BY DEF ChildReceived, Receives, ReceivesOne, T!ReceiverFails
<1>6. CASE cPc = "sending" /\ OnSending
  <2>1. begun /\ received' = "EXIT_SUCCESS" /\ sPc' = "putOutcome" /\ whole' = whole \cup {sPath}
        BY <1>6 DEF OnSending, Transferring, ChildReceived, Receives, ReceivesOne, T!ReceiverSucceeds,
                    T!ReceiverFails
  <2>2. cPath \in whole'  BY <1>6, <2>1 DEF OnSending, Transferring, SameFile
  <2>3. toChild = << >> /\ toClient = << >>  BY <1>6 DEF OnSending, Child
  <2>4. OnSending'
        BY <1>1, <1>3, <1>6, <2>1, <2>2, <2>3 DEF OnSending, Transferring, SameFile, Child
  <2> QED  BY <1>1, <1>6, <2>4 DEF Together
<1> QED  BY <1>2, <1>4, <1>5, <1>6

LEMMA CompletedReadTogether ==
  ASSUME Types, Together, CompletedRead  PROVE Together'
<1>1. /\ sPc = "putOutcome" /\ toChild # << >> /\ toChild' = Tail(toChild)
      /\ UNCHANGED <<cPc, cRequest, toClient>>
      BY DEF CompletedRead, ChildReads, client
<1>2. /\ toClient = << >>
      /\ \/ cPc = "prompt" /\ toChild = <<"TRANSFER_COMPLETED">> \o << >>
         \/ /\ cPc = "answer" /\ cRequest \in Commands \cup Names
            /\ toChild \in {<<"TRANSFER_COMPLETED">> \o <<cRequest>>, <<cRequest>>}
      BY <1>1 DEF Together, Waiting, Ready, OnAnswer, AtGetName, OnGetAnswer, AtGetAnswer, OnReceiving,
         Unheard, OnGetOutcome, NoTransfer, AtPutName, OnPutAnswer, OnPutStart, AtPutStart, OnSending, Child
<1>3. (sPc' = "command" /\ Head(toChild) = "TRANSFER_COMPLETED") \/ sPc' = "putOutcome"
      BY <1>1 DEF CompletedRead, ChildReads
<1>4. CASE cPc = "prompt" /\ toChild = <<"TRANSFER_COMPLETED">> \o << >>
  <2>1. toChild' = << >>  BY <1>1, <1>4, Joined, Heads
  <2> QED  BY <1>1, <1>2, <1>3, <1>4, <2>1, NowWaiting
<1>5. CASE /\ cPc = "answer" /\ cRequest \in Commands \cup Names
           /\ toChild = <<"TRANSFER_COMPLETED">> \o <<cRequest>>
  <2>1. toChild = <<"TRANSFER_COMPLETED", cRequest>>  BY <1>5, Joined
  <2>2. toChild' = <<cRequest>>  BY <1>1, <2>1, Heads
  <2> QED  BY <1>1, <1>2, <1>3, <1>5, <2>2, NowWaiting
<1>6. CASE cPc = "answer" /\ cRequest \in Commands \cup Names /\ toChild = <<cRequest>>
  <2>1. toChild' = << >> /\ Head(toChild) = cRequest  BY <1>1, <1>6, Heads
  <2>2. cRequest # "TRANSFER_COMPLETED"  BY <1>6, NoNames DEF Commands, Feedback
  <2> QED  BY <1>1, <1>2, <1>3, <1>6, <2>1, <2>2, NowWaiting
<1> QED  BY <1>2, <1>4, <1>5, <1>6

\* ... and a child that stops leaves the client what is on its way.
LEMMA GoesTogether ==
  ASSUME Types, Together, StartTimesOut \/ Terminate  PROVE Dead'
<1>1. /\ UNCHANGED <<cPc, cRequest, cPath, cRet, sPath, toClient, sent, received, kept, begun, spoilt, whole>>
      /\ Gone'
  BY DEF StartTimesOut, Terminate, SigtermHandler, ChildEnds, Gone, client, queues, transfer, disk
<1>2. DEFINE S == Texts \ {"START_TRANSFER"}
<1>3. Names \subseteq S /\ Answers \subseteq S /\ "PUT" \in S
      BY TextsAre, NoNames DEF Commands, Feedback, Answers
<1>4. /\ "TRANSFER_COMPLETED" \in S /\ "TRANSFER_ERROR" \in S /\ "EXIST" \in S /\ "NOT_EXIST" \in S
      BY TextsAre DEF Feedback
<1>5. Answers = {"LISTING", "INSERT_FILENAME", "FILENAME_NOT_FOUND", "COMMAND_NOT_FOUND"}
      BY DEF Answers
<1>6. \/ toClient = << >>
      \/ \E m \in S : toClient = <<m>>
      \/ Uninvited
      \/ /\ cPc = "putAnswer" /\ toClient = <<"NOT_EXIST", "START_TRANSFER">>
         /\ sent = "running" /\ received = "running"
      \/ /\ cPc = "putStart" /\ toClient = <<"START_TRANSFER">>
         /\ sent = "running" /\ received = "running"
  <2> HIDE DEF S
  <2>1. CASE cPc \in {"prompt", "getName", "putName", "sending"}
    BY <2>1 DEF Together, Waiting, AtGetName, AtPutName, OnSending, Child
  <2>2. CASE cPc = "answer"
    BY <1>3, <1>5, <2>2 DEF Together, OnAnswer, Waiting, Child
  <2>3. CASE cPc = "getAnswer"
    BY <1>3, <1>5, <2>3 DEF Together, OnGetAnswer, AtGetAnswer, Child
  <2>4. CASE cPc = "receiving"
    BY <1>4, <2>4 DEF Together, OnReceiving, Unheard, Child
  <2>5. CASE cPc = "getOutcome"
    BY <1>3, <1>4, <2>5 DEF Together, OnGetOutcome, NoTransfer, Child
  <2>6. CASE cPc = "putAnswer"
    BY <1>4, <2>6 DEF Together, OnPutAnswer, Transferring, Child
  <2>7. CASE cPc = "putStart"
    BY <2>7 DEF Together, OnPutStart, AtPutStart, Transferring, Child
  <2> QED  BY <2>1, <2>2, <2>3, <2>4, <2>5, <2>6, <2>7 DEF Together
<1>7. \/ Uninvited
      \/ /\ cPc = "putAnswer" /\ toClient = <<"NOT_EXIST", "START_TRANSFER">>
         /\ sent = "running" /\ received = "running"
      \/ /\ cPc = "putStart" /\ toClient = <<"START_TRANSFER">>
         /\ sent = "running" /\ received = "running"
  <2> HIDE DEF S
  <2>1. \A m \in S : <<m>> \in Seq(S)  OBVIOUS
  <2>2. << >> \in Seq(S)  OBVIOUS
  <2> QED  BY <1>6, <2>1, <2>2 DEF Uninvited, S
<1>8. cPc = "sending" =>
        /\ sent = "running" /\ toClient = << >>
        /\ received = "EXIT_SUCCESS" => cPath \in whole
  BY DEF Together, OnSending, Transferring, Child
<1>9. cPc = "receiving" /\ begun =>
       /\ SameFile /\ ~spoilt /\ received = "running"
       /\ toClient = << >> \/ sent = "TRANSFER_ERROR"
  BY DEF Together, OnReceiving, Unheard, Child
<1>10. cPc = "getOutcome" /\ cRet = "EXIT_SUCCESS" => SameFile /\ kept = T!Source
  BY DEF Together, OnGetOutcome
<1>11. Uninvited' = Uninvited /\ SameFile' = SameFile  BY <1>1 DEF Uninvited, SameFile
<1>12. \/ Uninvited'
       \/ /\ cPc' = "putAnswer" /\ toClient' = <<"NOT_EXIST", "START_TRANSFER">>
          /\ sent' = "running" /\ received' = "running"
       \/ /\ cPc' = "putStart" /\ toClient' = <<"START_TRANSFER">>
          /\ sent' = "running" /\ received' = "running"
  <2>1. CASE Uninvited  BY <1>11, <2>1
  <2>2. CASE ~Uninvited  BY <1>1, <1>7, <2>2
  <2> QED  BY <2>1, <2>2
<1>13. ASSUME cPc' = "sending"
       PROVE  /\ sent' = "running" /\ toClient' = << >>
              /\ received' = "EXIT_SUCCESS" => cPath' \in whole'
  <2>1. cPc = "sending"  BY <1>1, <1>13
  <2> QED  BY <1>1, <1>8, <2>1
<1>14. cPc' = "receiving" /\ begun' =>
         /\ SameFile' /\ ~spoilt' /\ received' = "running"
         /\ toClient' = << >> \/ sent' = "TRANSFER_ERROR"
       BY <1>1, <1>9, <1>11
<1>15. cPc' = "getOutcome" /\ cRet' = "EXIT_SUCCESS" => SameFile' /\ kept' = T!Source
       BY <1>1, <1>10, <1>11
<1> QED  BY <1>1, <1>12, <1>13, <1>14, <1>15 DEF Dead

\* A text meets the wrong reader only where nobody hears.
LEMMA AstrayTogether ==
  ASSUME Types, Together, Sound, Astray, UNCHANGED client  PROVE Together'
<1>1. ~(TextForSender \/ SenderCrashes \/ SenderMisled)
  <2>1. sPc = "sending" => toChild = << >>
        BY DEF Together, Waiting, Ready, OnAnswer, AtGetName, OnGetAnswer, AtGetAnswer, OnReceiving,
           Unheard, OnGetOutcome, NoTransfer, AtPutName, OnPutAnswer, OnPutStart, AtPutStart, OnSending, Child
  <2>2. cPc = "sending" => toClient = << >>  BY DEF Together, OnSending, Child
  <2> QED  BY <2>1, <2>2, SenderReadsWhat
<1>2. UNCHANGED <<cPc, cRequest, cPath, cRet, sPc, sPath, begun, sent, received>>
      BY <1>1 DEF Astray, TextForReceiver, client, child
<1>3. TextForReceiver /\ ~(/\ "receiving" \in {cPc, sPc} /\ sent = "TRANSFER_ERROR"
                           /\ received = "running")
      BY <1>1 DEF Astray, TextForReceiver, ErrorOnItsWay, Sound
<1>4. sPc = "receiving" => toChild = << >>
      BY <1>3 DEF Together, Waiting, Ready, OnAnswer, AtGetName, OnGetAnswer, AtGetAnswer, OnReceiving,
         Unheard, OnGetOutcome, NoTransfer, AtPutName, OnPutAnswer, OnPutStart, AtPutStart, OnSending, Child
<1>5. cPc = "receiving" /\ toClient # << >> /\ toClient' = Tail(toClient)
      /\ \E ack \in {<< >>, <<Stray>>} : SendToChild(ack)
  <2>1. ~(sPc = "receiving" /\ \E m : ChildReads(m))  BY <1>4 DEF ChildReads
  <2>2. cPc = "receiving" /\ \E m : ClientReads(m)  BY <1>3, <2>1 DEF TextForReceiver
  <2>3. sPc # "sending"
    <3>1. OnReceiving /\ toClient # << >>  BY <2>2 DEF Together, ClientReads
    <3> QED  BY <3>1 DEF OnReceiving, Unheard, Child
  <2> QED  BY <1>3, <2>1, <2>2, <2>3 DEF TextForReceiver, ClientReads
<1>6. Unheard /\ received = "running"
  <2>1. OnReceiving  BY <1>5 DEF Together
  <2> QED  BY <1>3, <1>5, <2>1 DEF OnReceiving, Child
<1>7. toChild' \in Seq({Stray})
  <2>1. << >> \in Seq({Stray}) /\ <<Stray>> \in Seq({Stray})  OBVIOUS
  <2>2. PICK ack \in Seq({Stray}) : SendToChild(ack)  BY <1>5, <2>1
  <2>3. toChild' = toChild \o ack  BY <1>6, <2>2 DEF SendToChild, Unheard
  <2> QED  BY <1>6, <2>3, Queued DEF Unheard
<1>8. Uninvited'  BY <1>5, <1>6, Queued DEF Unheard, Uninvited
<1> QED  BY <1>2, <1>5, <1>6, <1>7, <1>8 DEF Together, OnReceiving, Unheard

LEMMA TogetherStep ==
  ASSUME ShortLists, Types, Together, Next, Sound, Sound', Playing'
  PROVE  Placed'
<1>1. CASE \/ TypeCommand \/ Answered \/ TypeGetName \/ NameAnswered \/ NameTimesOut
           \/ ClientReceived \/ OutcomeRead \/ TypePutName \/ PutAnswered \/ PutStarted
           \/ ClientSent
  BY <1>1, TypeCommandTogether, AnsweredTogether, NameTogether, ClientReceivedTogether,
     OutcomeReadTogether, PutTogether, PutStartedPlaced, ClientSentTogether DEF Placed
<1>2. CASE ChildStep
  <2>1. ~FinRead /\ ~FinAckRead /\ ~DummyRead /\ ~HandlerTimesOut
    <3>1. sPc \notin {"dummy", "fin", "finack", "ended"}
          BY DEF Together, Waiting, Ready, OnAnswer, AtGetName, OnGetAnswer, AtGetAnswer, OnReceiving,
             Unheard, OnGetOutcome, NoTransfer, AtPutName, OnPutAnswer, OnPutStart, AtPutStart,
             OnSending, Child
    <3> QED  BY <3>1 DEF FinRead, FinAckRead, DummyRead, HandlerTimesOut
  <2> QED  BY <1>2, <2>1, ServePlaced, LookUpTogether, StartReadTogether, ChildSentTogether,
              PutNameTogether, ChildReceivedTogether, CompletedReadTogether, GoesTogether
           DEF ChildStep, Placed
<1>3. CASE Astray /\ UNCHANGED client  BY <1>3, AstrayTogether DEF Placed
<1>4. CASE Terminate  BY <1>4, GoesTogether DEF Placed
<1>5. ~StrayArrives /\ ~Lose  BY DEF StrayArrives, Lose, Suffer, Sound
<1> QED  BY <1>1, <1>2, <1>3, <1>4, <1>5, PlayingSteps

\* A file that is complete stays so, and the client reports no other.
LEMMA StoredStep ==
  ASSUME Types, Next, stored \subseteq whole, Placed \/ ~Playing
  PROVE  stored' \subseteq whole'
<1>1. CASE ClientSent
  <2>1. cPc = "sending" /\ whole' = whole  BY <1>1 DEF ClientSent, disk
  <2>2. CASE stored' = stored  BY <2>1, <2>2
  <2>3. CASE Succeeds(toClient) /\ stored' = stored \cup {cPath}
    <3>0. Placed /\ sent = "running"
          BY <2>1 DEF Playing, Placed, Dead, Deaf, Together, OnSending, Transferring
    <3>1. received = "EXIT_SUCCESS"  BY <2>3, <3>0 DEF Succeeds, T!SenderSucceeds
    <3>2. cPath \in whole
          BY <2>1, <3>0, <3>1 DEF Placed, Dead, Deaf, Together, OnSending, Child
    <3> QED  BY <2>1, <2>3, <3>2
  <2> QED  BY <1>1, <2>2, <2>3 DEF ClientSent
<1>2. CASE PutName
  BY <1>2 DEF PutName, IsThere, Types, TypeOK, disk
<1>3. CASE ChildReceived
  BY <1>3 DEF ChildReceived, disk
<1>4. CASE TypeCommand \/ (ClientStep /\ ~ClientSent)
  BY <1>4 DEF TypeCommand, ClientStep, Answered, AnswerTimesOut, TypeGetName, NameAnswered, NameTimesOut,
     ClientReceived, OutcomeRead, TypePutName, PutAnswered, PutStarted, CloseAnswered, FinArrives,
     CloseTimesOut, disk, history
<1>5. CASE ChildStep /\ ~PutName /\ ~ChildReceived
  BY <1>5 DEF ChildStep, Serve, LookUp, StartRead, StartTimesOut, ChildSent, CompletedRead, FinRead,
     FinAckRead, DummyRead, HandlerTimesOut, disk, history
<1>6. CASE Astray \/ Environment
  BY <1>6, AstrayKeeps DEF Environment, Interrupt, Quit, Terminate, StrayArrives, Lose, disk, history
<1> QED  BY <1>1, <1>2, <1>3, <1>4, <1>5, <1>6 DEF Next

LEMMA SettledInvariance == ASSUME ShortLists  PROVE Spec => []Settled
<1>1. Init => Settled
  <2> SUFFICES ASSUME Init  PROVE Settled  OBVIOUS
  <2>1. NoFin  BY DEF Init, NoFin
  <2>2. Together  BY DEF Init, Together, Waiting, Ready
  <2> QED  BY <2>1, <2>2 DEF Init, Settled, Placed
<1>2. Types /\ Settled /\ [Next]_vars => Settled'
  <2> SUFFICES ASSUME Types, Settled, [Next]_vars  PROVE Settled'  OBVIOUS
  <2>1. CASE Next
    <3> SUFFICES ASSUME Sound'  PROVE stored' \subseteq whole' /\ (Playing' => NoFin' /\ Placed')
        BY DEF Settled
    <3>1. Sound  BY <2>1, Remembered DEF Sound
    <3>2. stored' \subseteq whole'  BY <2>1, <3>1, StoredStep DEF Settled
    <3>3. ASSUME Playing'  PROVE NoFin' /\ Placed'
      <4>1. Playing  BY <2>1, <3>3, PlayingSteps
      <4>2. NoFin /\ Placed  BY <3>1, <4>1 DEF Settled
      <4>3. NoFin'  BY <2>1, <3>3, <4>2, NoFinStep
      <4>4. Placed'
            BY <2>1, <3>1, <3>3, <4>2, DeadStep, DeafStep, TogetherStep DEF Placed
      <4> QED  BY <4>3, <4>4
    <3> QED  BY <3>2, <3>3
  <2>2. CASE UNCHANGED vars
    <3>1. UNCHANGED <<cPc, cRequest, cPath, cRet, sPc, sPath, toChild, toClient, sent, received, kept,
                      begun, spoilt, files, whole, stored, mishaps>>
          BY <2>2 DEF vars, client, child, queues, transfer, disk, history
    <3>2. Sound' = Sound /\ Playing' = Playing /\ NoFin' = NoFin
          BY <3>1 DEF Sound, Playing, NoFin
    <3>3. Dead' = Dead /\ Deaf' = Deaf
          BY <3>1 DEF Dead, Deaf, Gone, Uninvited, SameFile
    <3>4. Together' = Together
          BY <3>1 DEF Together, Waiting, Ready, OnAnswer, AtGetName, OnGetAnswer, AtGetAnswer, OnReceiving,
             Unheard, Uninvited, OnGetOutcome, NoTransfer, AtPutName, OnPutAnswer, OnPutStart, AtPutStart,
             OnSending, Transferring, SameFile, Child
    <3> QED  BY <3>1, <3>2, <3>3, <3>4 DEF Settled, Placed
  <2> QED  BY <2>1, <2>2
<1> QED  BY <1>1, <1>2, TypesInvariance, PTL DEF Spec

\* A file that the client reports as sent is complete on the server, whoever gives up,
\* cannot open a file, answers late, is interrupted or stopped, at any point, for any
\* names and files, if a list takes one datagram and no datagram is lost or stray.
THEOREM PutIsStoredHolds == ASSUME ShortLists  PROVE Spec => []PutIsStored
<1>1. Settled => PutIsStored  BY DEF Settled, Sound, PutIsStored
<1> QED  BY <1>1, SettledInvariance, PTL

\* So is a file that the client's main_receiver reports as received the one that the
\* child sends, as it was.
THEOREM GotIsRightHolds == ASSUME ShortLists  PROVE Spec => []GotIsRight
<1>1. Settled => GotIsRight
  BY DEF Settled, Sound, Playing, Placed, Dead, Deaf, Together, OnGetOutcome, GotIsRight
<1> QED  BY <1>1, SettledInvariance, PTL
==============================================================================
