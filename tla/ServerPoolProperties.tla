------------------------- MODULE ServerPoolProperties -------------------------
(***************************************************************************)
(* What the server's processes keep, and what only looks as if they did.   *)
(***************************************************************************)
EXTENDS ServerPool

Alive(p) == proc[p].pc \notin {"none", "zombie"}

\* The variables keep their types; a slot that set_bit is called for is one of
\* the server's.
TypeOK ==
  /\ busy \subseteq 0 .. MaxClients
  /\ childPids \in [Slots -> Procs \cup {INVALID_PID}]
  /\ pPc \in {"select", "handshake", "scan", "setBusy", "storeBusy", "fork", "record",
              "reap", "forget", "setFree", "storeFree", "waiting", "exited"}
  /\ noClient \in 0 .. MaxClients
  /\ pPc \in {"scan", "setBusy", "storeBusy", "setFree", "storeFree"} => noClient \in Slots
  /\ pCopy \subseteq 0 .. MaxClients
  /\ pid \in Procs \cup {INVALID_PID}
  /\ pPc \in {"record", "forget"} => pid \in Procs
  /\ proc \in [Procs -> [pc : {"none", "forked", "serving", "setFree", "storeFree",
                               "closing", "zombie"},
                         slot : 0 .. MaxClients, copy : SUBSET (0 .. MaxClients),
                         term : BOOLEAN]]
  /\ blocked \subseteq {"SIGINT", "SIGTERM"} /\ lost \in BOOLEAN

\* A pid of child_pids is that of a child not yet waited for, although slots are
\* given away before their last child is reaped: the handler's kill() cannot hit a
\* process that is not the server's.  The exception is the child just reaped, if
\* the signal arrives between waitpid and the store that forgets it.
PidsAreCurrent ==
  \A s \in Slots : childPids[s] \notin {INVALID_PID, pid} => proc[childPids[s]].pc # "none"

\* Two clients are never sent to the same port while both have a child that is
\* about to serve, or serves them.  The race of set_bit breaks this.
PortsAreExclusive ==
  \A p, q \in Procs :
    /\ proc[p].pc \in {"forked", "serving"} /\ proc[q].pc \in {"forked", "serving"}
    /\ proc[p].slot = proc[q].slot /\ proc[p].slot \in Slots
    => p = q

\* Nothing else does: not a slot freed before its child is reaped, and freed again by
\* the parent, nor set_bit and get_bit that overlap without undoing an update.
ExclusiveUnlessLost == ~lost => PortsAreExclusive

\* Bound: behaviours are followed until an update is lost.
UntilLost == ~lost

\* No more than MAX_CLIENTS clients have a process.
AtMostMaxClients == Cardinality({p \in Procs : proc[p].pc = "serving"}) <= MaxClients

\* A slot is not busy for ever without a client: whatever way its child ended,
\* its bit is cleared, if no update of the bitmask is lost.
SlotsComeBack ==
  [](~lost) =>
    \A s \in Slots :
      []<>(\/ Stopping
           \/ s \notin busy
           \/ \E p \in Procs : proc[p].slot = s /\ proc[p].pc \in {"forked", "serving"})

\* The server that got SIGINT exits.
ShutdownEnds == pPc = "waiting" ~> pPc = "exited"

\* The server that has exited leaves no child behind, although slots are reused and
\* children end while the handler goes through child_pids - but for the one it had
\* forked and not recorded yet when the signal came, those it has no slot for, and
\* those whose slot a lost update gave away.
NoOrphans ==
  pPc = "exited" /\ ~lost => \A p \in Procs : Alive(p) => p = pid \/ proc[p].slot = MaxClients

\* The inductive invariants of ServerPoolProofs.

\* child_pids names each child at most once, and not yet the one just forked; the
\* one just reaped is gone.
PidInv ==
  /\ \A s, t \in Slots : childPids[s] = childPids[t] /\ childPids[s] # INVALID_PID => s = t
  /\ pPc = "record" => proc[pid].pc # "none" /\ \A s \in Slots : childPids[s] # pid
  /\ pPc = "forget" => proc[pid].pc = "none"
  /\ pPc \notin {"record", "forget"} /\ ~Stopping => pid = INVALID_PID

\* p holds slot s: it serves there, or has not given the slot back.
Holds(p, s) ==
  /\ proc[p].pc \in {"forked", "serving", "setFree", "storeFree"}
  /\ proc[p].slot = s

\* A slot is held by one child, which child_pids names, and its bit is set; the
\* parent takes slots nobody holds and frees slots nobody holds any more.
SlotInv ==
  /\ \A p \in Procs : \A s \in Slots : Holds(p, s) =>
       /\ s \in busy
       /\ \A q \in Procs : Holds(q, s) => q = p
       /\ \/ Stopping
          \/ childPids[s] = p
          \/ pPc = "record" /\ pid = p /\ noClient = s
  /\ pPc \in {"setBusy", "storeBusy"} => noClient \notin busy
  /\ pPc = "fork" /\ noClient \in Slots =>
       noClient \in busy /\ \A p \in Procs : ~Holds(p, noClient)
  /\ pPc = "record" /\ noClient \in Slots =>
       \A p \in Procs : Holds(p, noClient) => p = pid
  /\ pPc \in {"setFree", "storeFree"} => \A p \in Procs : ~Holds(p, noClient)
  /\ pPc \in {"storeBusy", "storeFree"} => pCopy \subseteq ByteOf(noClient)
  /\ \A p \in Procs : proc[p].pc = "storeFree" => proc[p].copy \subseteq ByteOf(proc[p].slot)

\* Before a signal no child is asked to end; after it the handler knows each child
\* that lives, but for one the parent had in hand; it exits when it knows none.
OrphanInv ==
  /\ ~Stopping => \A p \in Procs : proc[p].pc # "closing" /\ ~proc[p].term
  /\ Stopping => \A p \in Procs : Alive(p) /\ proc[p].slot \in Slots =>
                    p = pid \/ childPids[proc[p].slot] = p
  /\ pPc = "exited" => \A s \in Slots : childPids[s] = INVALID_PID
=============================================================================
