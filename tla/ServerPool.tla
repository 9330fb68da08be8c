------------------------------ MODULE ServerPool ------------------------------
(***************************************************************************)
(* The server's processes: server_manage_client_connections, set_bit,      *)
(* get_bit and the signal handlers of src/spqr_server.c.  The parent       *)
(* accepts clients one after the other, takes a free slot of the bitmask   *)
(* for each and forks a child that serves it on port PORT + slot.  The     *)
(* bitmask is in shared memory: the child clears its bit when it ends.     *)
(*                                                                         *)
(* set_bit is |= or &= on a byte: a load and a store, two steps here, as   *)
(* nothing orders them with those of another process.                      *)
(*                                                                         *)
(* Left out: what a session does (it ends, or its process dies), signals   *)
(* before child_pids is initialised, and a terminal's SIGINT to the whole  *)
(* process group: a child blocks it once it serves, and before that it     *)
(* runs the parent's handler, which does what its parent does, and dies.   *)
(***************************************************************************)
EXTENDS Integers, FiniteSets

CONSTANTS
  MaxClients,     \* MAX_CLIENTS
  CharBit,        \* CHAR_BIT: slots per byte of the bitmask
  Procs,          \* process ids; bound: a client is accepted only if one is unused
  Masks           \* the sets sigprocmask may find in the parent's `set'

ASSUME SlotsAssumption == MaxClients \in Nat \ {0} /\ CharBit \in Nat \ {0}
ASSUME ProcsAssumption == Procs \subseteq Nat
ASSUME MasksAssumption == Masks \subseteq SUBSET {"SIGINT", "SIGTERM"}

INVALID_PID == -1
Slots == 0 .. MaxClients-1

VARIABLES
  busy,           \* shm_bitmask: the slots whose bit is set
  childPids,      \* child_pids
  pPc,            \* where the parent is
  noClient,       \* no_client, or the slot whose child was reaped
  pCopy,          \* the byte set_bit loaded, as the slots set in it, until its store
  pid,            \* pid or wpid: what fork or waitpid returned, until it is used
  proc,           \* the children: where, on which slot, byte loaded, SIGTERM pending?
  blocked,        \* the signals setup_signal_handling(PARENT) blocks
  lost            \* history: has a store of set_bit undone that of another process?

vars == <<busy, childPids, pPc, noClient, pCopy, pid, proc, blocked, lost>>

-----------------------------------------------------------------------------
(* The bitmask                                                             *)

ByteOf(s) == {t \in 0 .. MaxClients : t \div CharBit = s \div CharBit}

\* Mutant: get_bit looks one bit too far.
IsFreeNext(s) == s + 1 \notin busy

IsFree(s) == s \notin busy                                      \* get_bit

Load(s) == busy \cap ByteOf(s)
WithBusy(byte, s) == (busy \ ByteOf(s)) \cup byte \cup {s}      \* set_bit, BUSY
WithFree(byte, s) == (busy \ ByteOf(s)) \cup (byte \ {s})       \* set_bit, FREE

\* A store changes the bit of s, and restores others that changed since the load.
Undoes(byte, s) == byte \ {s} # Load(s) \ {s}

-----------------------------------------------------------------------------
(* The processes                                                           *)

NoProc == [pc |-> "none", slot |-> 0, copy |-> {}, term |-> FALSE]
Forked(s) == [pc |-> "forked", slot |-> s, copy |-> {}, term |-> FALSE]

\* The processes whose socket is bound to the port of slot s.
Bound(s) == {p \in Procs : proc[p].slot = s /\ proc[p].pc \in {"serving", "closing"}}

\* The process ids nobody has.
Unused == {p \in Procs : proc[p].pc = "none"}

Move(p, pc) == proc' = [proc EXCEPT ![p].pc = pc]

\* p exits; what it knew is gone with it.
End(p) == proc' = [proc EXCEPT ![p] = [NoProc EXCEPT !.pc = "zombie"]]

Init ==
  /\ busy = {}
  /\ childPids = [s \in Slots |-> INVALID_PID]
  /\ pPc = "select" /\ noClient = 0 /\ pCopy = {} /\ pid = INVALID_PID
  /\ proc = [p \in Procs |-> NoProc]
  \* sigprocmask is given a set nothing was stored in
  /\ blocked \in Masks
  /\ lost = FALSE

-----------------------------------------------------------------------------
(* The parent                                                              *)

\* select reports a datagram: server_open_connection_with_client reads a SYN and
\* answers, and waits for the client's next datagram without a timeout.
SynArrives ==
  /\ pPc = "select"
  /\ pPc' = "handshake"
  /\ UNCHANGED <<busy, childPids, noClient, pCopy, pid, proc, blocked, lost>>

\* select times out, or the datagram is no SYN.
NoSyn ==
  /\ pPc = "select"
  /\ pPc' = "reap"
  /\ UNCHANGED <<busy, childPids, noClient, pCopy, pid, proc, blocked, lost>>

\* The next datagram is an ACK: the search for a slot begins.
AckArrives ==
  /\ pPc = "handshake" /\ Unused # {}
  /\ pPc' = "scan" /\ noClient' = 0
  /\ UNCHANGED <<busy, childPids, pCopy, pid, proc, blocked, lost>>

\* It is something else, another client's SYN for instance.
NoAck ==
  /\ pPc = "handshake"
  /\ pPc' = "reap"
  /\ UNCHANGED <<busy, childPids, noClient, pCopy, pid, proc, blocked, lost>>

\* Mutant: <= for <.
IsLastOfAll(s) == s = MaxClients

IsLast(s) == s = MaxClients - 1

\* One round of the search.  After the last slot the client is told that the
\* server is busy, and the code goes on with no_client = MAX_CLIENTS.
Scan ==
  /\ pPc = "scan"
  /\ IF IsFree(noClient)
     THEN pPc' = "setBusy" /\ UNCHANGED noClient
     ELSE /\ noClient' = noClient + 1
          /\ pPc' = IF IsLast(noClient) THEN "fork" ELSE "scan"
  /\ UNCHANGED <<busy, childPids, pCopy, pid, proc, blocked, lost>>

\* The load of the parent's set_bit, for a new client or a reaped child ...
ParentLoads ==
  /\ pPc \in {"setBusy", "setFree"}
  /\ pPc' = IF pPc = "setBusy" THEN "storeBusy" ELSE "storeFree"
  /\ pCopy' = Load(noClient)
  /\ UNCHANGED <<busy, childPids, noClient, pid, proc, blocked, lost>>

\* ... and its store.
ParentStores ==
  /\ \/ /\ pPc = "storeBusy" /\ pPc' = "fork"
        /\ busy' = WithBusy(pCopy, noClient)
     \/ /\ pPc = "storeFree" /\ pPc' = "reap"
        /\ busy' = WithFree(pCopy, noClient)
  /\ lost' = (lost \/ Undoes(pCopy, noClient))
  /\ pCopy' = {}
  /\ UNCHANGED <<childPids, noClient, pid, proc, blocked>>

\* The client is told its port and the child is forked.
Fork ==
  /\ pPc = "fork"
  /\ pPc' = "record"
  /\ \E p \in Unused : pid' = p /\ proc' = [proc EXCEPT ![p] = Forked(noClient)]
  /\ UNCHANGED <<busy, childPids, noClient, pCopy, blocked, lost>>

\* child_pids[no_client] = pid.  For no_client = MAX_CLIENTS the store is out of
\* bounds: it lands on padding (gcc -O0) or on child_sockfd, which the parent does
\* not use (-O2), and the pid is not recorded.
Record ==
  /\ pPc = "record"
  /\ pPc' = "reap"
  /\ childPids' = IF noClient \in Slots THEN [childPids EXCEPT ![noClient] = pid]
                                        ELSE childPids
  /\ pid' = INVALID_PID
  /\ UNCHANGED <<busy, noClient, pCopy, proc, blocked, lost>>

\* The children waitpid(-1, ..., WNOHANG) may return.
Zombies == {p \in Procs : proc[p].pc = "zombie"}

\* Mutant: the search for the pid finds nothing.
NoSlotOf(p) == {}

\* The slots whose child is p.
SlotsOf(p) == {s \in Slots : childPids[s] = p}

\* waitpid returns a child ...
Reap ==
  /\ pPc = "reap"
  /\ pPc' = "forget"
  /\ \E p \in Zombies : pid' = p /\ proc' = [proc EXCEPT ![p] = NoProc]
  /\ UNCHANGED <<busy, childPids, noClient, pCopy, blocked, lost>>

\* ... that is taken out of child_pids; its slot, if it has one still, becomes free.
Forget ==
  /\ pPc = "forget"
  /\ IF SlotsOf(pid) = {}
     THEN pPc' = "reap" /\ UNCHANGED <<childPids, noClient>>
     ELSE \E i \in SlotsOf(pid) :
            /\ \A s \in SlotsOf(pid) : i <= s
            /\ childPids' = [childPids EXCEPT ![i] = INVALID_PID]
            /\ noClient' = i
            /\ pPc' = "setFree"
  /\ pid' = INVALID_PID
  /\ UNCHANGED <<busy, pCopy, proc, blocked, lost>>

\* waitpid returns 0: there is nothing to reap.
NothingToReap ==
  /\ pPc = "reap" /\ Zombies = {}
  /\ pPc' = "select" /\ noClient' = 0
  /\ UNCHANGED <<busy, childPids, pCopy, pid, proc, blocked, lost>>

Stopping == pPc \in {"waiting", "exited"}

\* Mutant: the loop begins with slot 1.
RecordedFromOne == {s \in Slots : s > 0 /\ childPids[s] # INVALID_PID}

\* The slots parent_server_signal_handler finds a child for.
Recorded == {s \in Slots : childPids[s] # INVALID_PID}

\* SIGINT or SIGQUIT, anywhere in the loop: every recorded child gets a SIGTERM.
Interrupt ==
  /\ ~Stopping /\ "SIGINT" \notin blocked
  /\ pPc' = "waiting"
  /\ proc' = [p \in Procs |->
                [proc[p] EXCEPT !.term =
                   @ \/ (p \notin Unused /\ \E s \in Recorded : childPids[s] = p)]]
  /\ UNCHANGED <<busy, childPids, noClient, pCopy, pid, blocked, lost>>

\* The handler waits for the first recorded child left, unless it is gone ...
WaitForChild ==
  /\ pPc = "waiting"
  /\ \E s \in Slots :
       /\ childPids[s] # INVALID_PID
       /\ \A t \in 0 .. s-1 : childPids[t] = INVALID_PID
       /\ proc[childPids[s]].pc \in {"zombie", "none"}
       /\ proc' = [proc EXCEPT ![childPids[s]] = NoProc]
       /\ childPids' = [childPids EXCEPT ![s] = INVALID_PID]
  /\ UNCHANGED <<busy, pPc, noClient, pCopy, pid, blocked, lost>>

\* ... until none is left, and exits.
ParentExits ==
  /\ pPc = "waiting" /\ \A s \in Slots : childPids[s] = INVALID_PID
  /\ pPc' = "exited"
  /\ UNCHANGED <<busy, childPids, noClient, pCopy, pid, proc, blocked, lost>>

-----------------------------------------------------------------------------
(* A child                                                                 *)

\* The child binds its socket, or dies if another process has the port.
Start(p) ==
  /\ proc[p].pc = "forked"
  /\ IF Bound(proc[p].slot) = {} THEN Move(p, "serving") ELSE End(p)
  /\ UNCHANGED <<busy, childPids, pPc, noClient, pCopy, pid, blocked, lost>>

\* server_manage_client_commands closes the socket and returns.
SessionEnds(p) ==
  /\ proc[p].pc = "serving"
  /\ Move(p, "setFree")
  /\ UNCHANGED <<busy, childPids, pPc, noClient, pCopy, pid, blocked, lost>>

\* spqr_assert ends the process in the middle of the session.
Dies(p) ==
  /\ proc[p].pc = "serving"
  /\ End(p)
  /\ UNCHANGED <<busy, childPids, pPc, noClient, pCopy, pid, blocked, lost>>

\* The load of the child's set_bit ...
ChildLoads(p) ==
  /\ proc[p].pc = "setFree"
  /\ proc' = [proc EXCEPT ![p].pc = "storeFree", ![p].copy = Load(proc[p].slot)]
  /\ UNCHANGED <<busy, childPids, pPc, noClient, pCopy, pid, blocked, lost>>

\* ... and its store; the child exits.
ChildStores(p) ==
  /\ proc[p].pc = "storeFree"
  /\ busy' = WithFree(proc[p].copy, proc[p].slot)
  /\ lost' = (lost \/ Undoes(proc[p].copy, proc[p].slot))
  /\ End(p)
  /\ UNCHANGED <<childPids, pPc, noClient, pCopy, pid, blocked>>

\* SIGTERM: a serving child waits for its client in child_server_signal_handler;
\* one that has no socket yet, or no more, dies.
Terminate(p) ==
  /\ proc[p].term /\ "SIGTERM" \notin blocked
  /\ proc[p].pc \in {"forked", "serving", "setFree", "storeFree"}
  /\ IF proc[p].pc = "serving" THEN Move(p, "closing") ELSE End(p)
  /\ UNCHANGED <<busy, childPids, pPc, noClient, pCopy, pid, blocked, lost>>

\* The client's next datagrams let the handler close the connection and exit.
ClientAnswers(p) ==
  /\ proc[p].pc = "closing"
  /\ End(p)
  /\ UNCHANGED <<busy, childPids, pPc, noClient, pCopy, pid, blocked, lost>>

-----------------------------------------------------------------------------
ParentStep ==
  \/ NoSyn \/ Scan \/ ParentLoads \/ ParentStores \/ Fork \/ Record
  \/ Reap \/ Forget \/ NothingToReap \/ WaitForChild \/ ParentExits

ChildStep(p) == Start(p) \/ ChildLoads(p) \/ ChildStores(p) \/ Terminate(p)

Environment ==
  \/ SynArrives \/ AckArrives \/ NoAck \/ Interrupt
  \/ \E p \in Procs : SessionEnds(p) \/ Dies(p) \/ ClientAnswers(p)

\* The parent exited; children it did not wait for may go on.
Exited == pPc = "exited" /\ UNCHANGED vars

Next == ParentStep \/ (\E p \in Procs : ChildStep(p)) \/ Environment \/ Exited

Spec == Init /\ [][Next]_vars

\* The system schedules every process; select's timeout ends a wait for a SYN.
Fairness == WF_vars(ParentStep) /\ \A p \in Procs : WF_vars(ChildStep(p))

\* Clients that began a handshake, or are asked to close, answer in the end.
ClientsAnswer ==
  /\ WF_vars(AckArrives \/ NoAck)
  /\ \A p \in Procs : WF_vars(ClientAnswers(p))

FairSpec == Spec /\ Fairness
AnsweredSpec == FairSpec /\ ClientsAnswer
=============================================================================
