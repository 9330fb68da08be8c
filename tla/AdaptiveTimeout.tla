--------------------------- MODULE AdaptiveTimeout ---------------------------
(***************************************************************************)
(* The receive timeout of a server child's socket, from command to command: *)
(* get_timeout, set_timeout, increase_timeout and decrease_timeout of       *)
(* src/common.c, where server_manage_client_commands (src/spqr_server.c)    *)
(* sets it, and how main_sender and wait_ack (src/protocol.c) adapt it.     *)
(* Times are in microseconds; 0 means that recvfrom waits for ever.        *)
(*                                                                         *)
(* The commands without a timeout (LIST, CLOSE) are left out, and what is  *)
(* transferred: SelectiveRepeat has that.                                  *)
(***************************************************************************)
EXTENDS Integers

CONSTANTS
  TIMEOUT,        \* at the start of a transfer
  MIN_TIMEOUT,
  MAX_TIMEOUT,
  TIME_UNIT,      \* step of the adaptation
  MAX_ERRORS,     \* timeouts in a row before the sender gives up
  Tick            \* the kernel keeps a timeout as a number of ticks

\* What settings.h leaves to its editor and the code relies on; set_timeout has no
\* tv_sec, so that a second or more would be an error of setsockopt.
ASSUME RangeAssumption ==
  /\ {TIMEOUT, MIN_TIMEOUT, MAX_TIMEOUT, TIME_UNIT, Tick} \subseteq Nat \ {0}
  /\ MIN_TIMEOUT <= TIMEOUT /\ TIMEOUT <= MAX_TIMEOUT
ASSUME SecondAssumption == MAX_TIMEOUT < 1000000
ASSUME ErrorsAssumption == MAX_ERRORS \in Nat \ {0}

VARIABLES
  phase,          \* what the child waits for
  timeout,        \* SO_RCVTIMEO of child_sockfd
  errors,         \* max_errors of main_sender
  silence         \* history: time since the last datagram, or since the start

vars == <<phase, timeout, errors, silence>>

Least(a, b) == IF a <= b THEN a ELSE b

\* What setsockopt makes of t: whole ticks, rounded up.
Ticks(t) == ((t + Tick - 1) \div Tick) * Tick

\* Mutant: > for <=.
IncreasedPastMax(t) == IF t > MAX_TIMEOUT - TIME_UNIT THEN Ticks(t + TIME_UNIT) ELSE t

Increased(t) == IF t <= MAX_TIMEOUT - TIME_UNIT THEN Ticks(t + TIME_UNIT) ELSE t

\* Mutant: the test is against zero.
DecreasedBelowMin(t) == IF t >= TIME_UNIT THEN Ticks(t - TIME_UNIT) ELSE t

Decreased(t) == IF t >= MIN_TIMEOUT + TIME_UNIT THEN Ticks(t - TIME_UNIT) ELSE t

Init == phase = "command" /\ timeout = 0 /\ errors = 0 /\ silence = 0

-----------------------------------------------------------------------------
(* GET                                                                     *)

\* The name of a file arrived: START_TRANSFER has to follow soon.
Get ==
  /\ phase = "command"
  /\ phase' = "start" /\ timeout' = Ticks(MAX_TIMEOUT)
  /\ UNCHANGED <<errors, silence>>

\* It does not: spqr_assert ends the child.
StartTimesOut ==
  /\ phase = "start"
  /\ phase' = "dead"
  /\ UNCHANGED <<timeout, errors, silence>>

\* Mutant: main_sender alone resets the timeout, where it gets that far.
TimeoutLeftBehind == Ticks(TIMEOUT)

\* set_timeout(child_sockfd, 0) after main_sender, which leaves TIMEOUT behind if
\* it cannot open the file.
AfterTransfer == 0

\* Something else arrives, or the file cannot be opened any more.
NoTransfer ==
  /\ phase = "start"
  /\ phase' = "command" /\ timeout' = AfterTransfer
  /\ UNCHANGED <<errors, silence>>

\* main_sender begins.
StartArrives ==
  /\ phase = "start"
  /\ phase' = "sending" /\ timeout' = Ticks(TIMEOUT)
  /\ errors' = 0 /\ silence' = 0

\* Mutant: *max_errors = 0 is missing.
ErrorsKept == errors

\* An acknowledgement ends the row of timeouts.
ErrorsAfterAck == 0

\* wait_ack: no acknowledgement in time ...
AckTimesOut ==
  /\ phase = "sending"
  /\ errors' = errors + 1
  /\ silence' = silence + timeout
  /\ IF errors' >= MAX_ERRORS
     THEN phase' = "draining" /\ UNCHANGED timeout
     ELSE timeout' = Increased(timeout) /\ UNCHANGED phase

\* ... or one that is not the last, ...
AckArrives ==
  /\ phase = "sending"
  /\ errors' = ErrorsAfterAck
  /\ silence' = 0
  /\ timeout' = Decreased(timeout)
  /\ UNCHANGED phase

\* ... or the last.
LastAckArrives ==
  /\ phase = "sending"
  /\ phase' = "draining"
  /\ errors' = ErrorsAfterAck /\ silence' = 0
  /\ UNCHANGED timeout

\* The socket is empty for one timeout; main_sender resets it and returns.
DrainEnds ==
  /\ phase = "draining"
  /\ phase' = "command" /\ timeout' = AfterTransfer
  /\ errors' = 0 /\ silence' = 0

-----------------------------------------------------------------------------
(* PUT                                                                     *)

\* main_receiver begins, without a timeout.
Put ==
  /\ phase = "command"
  /\ phase' = "receiving"
  /\ UNCHANGED <<timeout, errors, silence>>

\* The transfer failed.
ReceiveFails ==
  /\ phase = "receiving"
  /\ phase' = "command"
  /\ UNCHANGED <<timeout, errors, silence>>

\* The file is complete: the child waits for TRANSFER_COMPLETED, again and again,
\* with a timeout its recvfrom may run into.
ReceiveEnds ==
  /\ phase = "receiving"
  /\ phase' = "completed" /\ timeout' = Ticks(TIMEOUT)
  /\ UNCHANGED <<errors, silence>>

CompletedArrives ==
  /\ phase = "completed"
  /\ phase' = "command" /\ timeout' = 0
  /\ UNCHANGED <<errors, silence>>

Dead == phase = "dead" /\ UNCHANGED vars

Next ==
  \/ Get \/ StartTimesOut \/ NoTransfer \/ StartArrives
  \/ AckTimesOut \/ AckArrives \/ LastAckArrives \/ DrainEnds
  \/ Put \/ ReceiveFails \/ ReceiveEnds \/ CompletedArrives
  \/ Dead

Spec == Init /\ [][Next]_vars

-----------------------------------------------------------------------------
(* Properties                                                              *)

\* There is no timeout where recvfrom must not have one, whichever way the last
\* transfer ended: server_receive_packet would end the child, and
\* receive_data_from_sender would go on with a packet that is all zeros.
CommandsWaitForever == phase \in {"command", "receiving"} => timeout = 0

\* While acknowledgements are due the timeout stays between MIN_TIMEOUT and
\* MAX_TIMEOUT (in ticks); it is never 0, with which the sender would block.
TimeoutInRange ==
  phase \in {"sending", "draining"} =>
    MIN_TIMEOUT <= timeout /\ timeout < MAX_TIMEOUT + Tick

\* How long recvfrom waits after e timeouts in a row, at least.
Expected(e) == Least(MIN_TIMEOUT + e * TIME_UNIT, MAX_TIMEOUT - TIME_UNIT + 1)

\* The timeout grows with every timeout in a row, up to the last step before
\* MAX_TIMEOUT, whatever acknowledgements made of it before.
TimeoutFollowsErrors == phase = "sending" => timeout >= Expected(errors)

\* The patience of a sender: it gives up only after a silence of this length.
Patience[e \in Nat] == IF e = 0 THEN 0 ELSE Patience[e-1] + Expected(e - 1)

\* Timeouts in a row are silence: a receiver that answers within the sender's
\* patience is not given up, and one that does not is, within MAX_ERRORS times
\* the longest timeout.
SilenceIsBounded ==
  phase \in {"sending", "draining"} =>
    /\ silence >= Patience[errors]
    /\ silence <= errors * Ticks(MAX_TIMEOUT)

\* The variables keep their types; a sender that waits has errors to spare.
TypeOK ==
  /\ phase \in {"command", "start", "sending", "draining", "receiving", "completed", "dead"}
  /\ timeout \in Nat /\ silence \in Nat
  /\ errors \in 0 .. MAX_ERRORS
  /\ phase = "sending" => errors < MAX_ERRORS

\* The inductive invariant of AdaptiveTimeoutProofs: without the whole ticks a
\* timeout beyond MAX_TIMEOUT could grow when it is decreased.
WholeTicks == timeout % Tick = 0
TimeoutInv == TypeOK /\ WholeTicks /\ CommandsWaitForever /\ TimeoutInRange /\ TimeoutFollowsErrors
=============================================================================
