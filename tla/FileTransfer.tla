----------------------------- MODULE FileTransfer -----------------------------
(***************************************************************************)
(* What one file transfer promises, without packets, windows or timeouts:  *)
(* the values main_sender and main_receiver return (src/protocol.c) and    *)
(* the file the receiver keeps.  SelectiveRepeat implements it.            *)
(***************************************************************************)
EXTENDS Integers, Sequences

CONSTANT N        \* packets in the file

VARIABLES
  sent,           \* what main_sender returned, or "running"
  received,       \* what main_receiver returned, or "running"
  kept            \* the file of a receiver that succeeded, else empty

tvars == <<sent, received, kept>>

Source == [p \in 1 .. N |-> p]

TInit == sent = "running" /\ received = "running" /\ kept = << >>

\* The receiver succeeds with the whole file, and only with it.
ReceiverSucceeds ==
  /\ received = "running"
  /\ received' = "EXIT_SUCCESS"
  /\ kept' = Source
  /\ UNCHANGED sent

\* The receiver fails only after the sender gave up; it keeps nothing.
ReceiverFails ==
  /\ received = "running" /\ sent = "TRANSFER_ERROR"
  /\ received' = "TRANSFER_ERROR"
  /\ UNCHANGED <<sent, kept>>

\* The sender succeeds only after the receiver did.
SenderSucceeds ==
  /\ sent = "running" /\ received = "EXIT_SUCCESS"
  /\ sent' = "EXIT_SUCCESS"
  /\ UNCHANGED <<received, kept>>

\* The sender may give up at any time, even after the receiver succeeded.
SenderFails ==
  /\ sent = "running"
  /\ sent' = "TRANSFER_ERROR"
  /\ UNCHANGED <<received, kept>>

TNext == ReceiverSucceeds \/ ReceiverFails \/ SenderSucceeds \/ SenderFails

TSpec == TInit /\ [][TNext]_tvars
=============================================================================
