--------------------------- MODULE ServerPoolProofs ---------------------------
(***************************************************************************)
(* Proofs about ServerPool, for any number of slots and processes.         *)
(***************************************************************************)
EXTENDS ServerPoolProperties, TLAPS

States == {"none", "forked", "serving", "setFree", "storeFree", "closing", "zombie"}
Child == [pc : States, slot : 0 .. MaxClients, copy : SUBSET (0 .. MaxClients),
          term : BOOLEAN]

\* A process that does not run, and one just forked, are children.
LEMMA ChildType == NoProc \in Child /\ \A s \in 0 .. MaxClients : Forked(s) \in Child
<1>1. NoProc \in Child  BY SlotsAssumption DEF NoProc, Child, States
<1>2. ASSUME NEW s \in 0 .. MaxClients  PROVE Forked(s) \in Child
      BY DEF Forked, Child, States
<1> QED  BY <1>1, <1>2

\* What TypeOK says of proc.
LEMMA ProcType == TypeOK => proc \in [Procs -> Child]
BY DEF TypeOK, Child, States

\* A child stays one when it moves, ends, or is told to.
LEMMA ChildMoves ==
  ASSUME TypeOK, NEW p \in Procs
  PROVE  /\ \A pc \in States : Move(p, pc) => proc' \in [Procs -> Child]
         /\ End(p) => proc' \in [Procs -> Child]
<1>1. proc \in [Procs -> Child]  BY ProcType
<1>2. ASSUME NEW pc \in States, Move(p, pc)  PROVE proc' \in [Procs -> Child]
  <2>1. [proc[p] EXCEPT !.pc = pc] \in Child  BY <1>1 DEF Child
  <2> QED  BY <1>1, <1>2, <2>1 DEF Move
<1>3. [NoProc EXCEPT !.pc = "zombie"] \in Child  BY ChildType DEF Child, States
<1> QED  BY <1>1, <1>2, <1>3 DEF End

\* A byte holds slots, and what is written of it leaves slots.
LEMMA BitmaskType ==
  ASSUME TypeOK, NEW s \in 0 .. MaxClients, NEW byte \in SUBSET (0 .. MaxClients)
  PROVE  /\ Load(s) \subseteq 0 .. MaxClients
         /\ WithBusy(byte, s) \subseteq 0 .. MaxClients
         /\ WithFree(byte, s) \subseteq 0 .. MaxClients
BY DEF TypeOK, Load, WithBusy, WithFree, ByteOf

-----------------------------------------------------------------------------
\* A step of the parent keeps the types.
LEMMA ParentType ==
  ASSUME TypeOK, \/ SynArrives \/ NoSyn \/ AckArrives \/ NoAck \/ Scan \/ ParentLoads
                 \/ ParentStores \/ Fork \/ Record
  PROVE  TypeOK'
<1> USE SlotsAssumption
<1>1. CASE SynArrives \/ NoSyn \/ NoAck  BY <1>1 DEF TypeOK, SynArrives, NoSyn, NoAck
<1>2. CASE AckArrives  BY <1>2 DEF TypeOK, AckArrives, Slots
<1>3. CASE Scan  BY <1>3 DEF TypeOK, Scan, IsFree, IsLast, Slots
<1>4. CASE ParentLoads
  <2>1. Load(noClient) \subseteq 0 .. MaxClients  BY BitmaskType DEF TypeOK
  <2> QED  BY <1>4, <2>1 DEF TypeOK, ParentLoads
<1>5. CASE ParentStores
  <2>1. busy' \subseteq 0 .. MaxClients  BY <1>5, BitmaskType DEF TypeOK, ParentStores
  <2> QED  BY <1>5, <2>1 DEF TypeOK, ParentStores
<1>6. CASE Fork
  <2>1. PICK p \in Procs : pid' = p /\ proc' = [proc EXCEPT ![p] = Forked(noClient)]
        BY <1>6 DEF Fork, Unused
  <2>2. proc' \in [Procs -> Child]  BY <2>1, ChildType, ProcType DEF TypeOK
  <2> QED  BY <1>6, <2>1, <2>2 DEF TypeOK, Fork, Child, States
<1>7. CASE Record  BY <1>7 DEF TypeOK, Record
<1> QED  BY <1>1, <1>2, <1>3, <1>4, <1>5, <1>6, <1>7

\* So does one that reaps or signals children, ...
LEMMA ReapType ==
  ASSUME TypeOK, Reap \/ Forget \/ NothingToReap \/ Interrupt \/ WaitForChild \/ ParentExits
  PROVE  TypeOK'
<1>0. CASE Reap
  <2>1. PICK p \in Zombies : pid' = p /\ proc' = [proc EXCEPT ![p] = NoProc]
        BY <1>0 DEF Reap
  <2>2. proc' \in [Procs -> Child] /\ p \in Procs
        BY <2>1, ChildType, ProcType DEF Zombies
  <2> QED  BY <1>0, <2>1, <2>2 DEF TypeOK, Reap, Child, States
<1>1. CASE Forget
  <2>1. CASE SlotsOf(pid) = {}  BY <1>1, <2>1 DEF TypeOK, Forget
  <2>2. CASE SlotsOf(pid) # {}
    <3>1. PICK i \in Slots : /\ childPids' = [childPids EXCEPT ![i] = INVALID_PID]
                             /\ noClient' = i /\ pPc' = "setFree"
          BY <1>1, <2>2 DEF Forget, SlotsOf
    <3>2. i \in 0 .. MaxClients  BY SlotsAssumption DEF Slots
    <3> QED  BY <1>1, <3>1, <3>2 DEF TypeOK, Forget
  <2> QED  BY <2>1, <2>2
<1>2. CASE NothingToReap  BY <1>2, SlotsAssumption DEF TypeOK, NothingToReap
<1>3. CASE Interrupt
  <2>1. proc' \in [Procs -> Child]  BY <1>3, ProcType DEF Interrupt, Child
  <2> QED  BY <1>3, <2>1 DEF TypeOK, Interrupt, Child, States
<1>4. CASE WaitForChild
  <2>1. PICK s \in Slots : /\ childPids[s] # INVALID_PID
                           /\ proc' = [proc EXCEPT ![childPids[s]] = NoProc]
                           /\ childPids' = [childPids EXCEPT ![s] = INVALID_PID]
        BY <1>4 DEF WaitForChild
  <2>2. proc' \in [Procs -> Child]  BY <2>1, ChildType, ProcType
  <2> QED  BY <1>4, <2>1, <2>2 DEF TypeOK, WaitForChild, Child, States
<1>5. CASE ParentExits  BY <1>5 DEF TypeOK, ParentExits
<1> QED  BY <1>0, <1>1, <1>2, <1>3, <1>4, <1>5

\* ... and one of a child.
LEMMA ChildTypeStep ==
  ASSUME TypeOK, NEW p \in Procs,
         ChildStep(p) \/ SessionEnds(p) \/ Dies(p) \/ ClientAnswers(p)
  PROVE  TypeOK'
<1>1. proc' \in [Procs -> Child]
  <2>1. CASE Start(p)  BY <2>1, ChildMoves DEF Start, States
  <2>2. CASE ChildLoads(p)
    <3>1. proc[p] \in Child  BY ProcType
    <3>2. Load(proc[p].slot) \subseteq 0 .. MaxClients
          BY <3>1, BitmaskType DEF Child
    <3>3. [proc[p] EXCEPT !.pc = "storeFree", !.copy = Load(proc[p].slot)] \in Child
          BY <3>1, <3>2 DEF Child, States
    <3> QED  BY <2>2, <3>3, ProcType DEF ChildLoads
  <2>3. CASE ChildStores(p)  BY <2>3, ChildMoves DEF ChildStores
  <2>4. CASE Terminate(p)  BY <2>4, ChildMoves DEF Terminate, States
  <2>5. CASE SessionEnds(p)  BY <2>5, ChildMoves DEF SessionEnds, States
  <2>6. CASE Dies(p)  BY <2>6, ChildMoves DEF Dies
  <2>7. CASE ClientAnswers(p)  BY <2>7, ChildMoves DEF ClientAnswers
  <2> QED  BY <2>1, <2>2, <2>3, <2>4, <2>5, <2>6, <2>7 DEF ChildStep
<1>2. busy' \subseteq 0 .. MaxClients
  <2>1. CASE ChildStores(p)
    <3>1. proc[p] \in Child  BY ProcType
    <3> QED  BY <2>1, <3>1, BitmaskType DEF ChildStores, Child
  <2>2. CASE ~ChildStores(p)
    BY <2>2 DEF TypeOK, ChildStep, Start, ChildLoads, Terminate, SessionEnds, Dies,
                ClientAnswers
  <2> QED  BY <2>1, <2>2
<1>3. UNCHANGED <<childPids, pPc, noClient, pCopy, pid, blocked>>
      BY DEF ChildStep, Start, ChildLoads, ChildStores, Terminate, SessionEnds, Dies,
             ClientAnswers
<1>4. lost' \in BOOLEAN
  BY DEF TypeOK, ChildStep, Start, ChildLoads, ChildStores, Terminate, SessionEnds, Dies,
         ClientAnswers
<1> QED  BY <1>1, <1>2, <1>3, <1>4 DEF TypeOK, Child, States

\* The types are kept by every step, ...
LEMMA NextType == TypeOK /\ [Next]_vars => TypeOK'
<1> SUFFICES ASSUME TypeOK, [Next]_vars  PROVE TypeOK'  OBVIOUS
<1>1. CASE UNCHANGED vars  BY <1>1 DEF vars, TypeOK
<1>2. CASE ParentStep  BY <1>2, ParentType, ReapType DEF ParentStep
<1>3. CASE \E p \in Procs : ChildStep(p)  BY <1>3, ChildTypeStep
<1>4. CASE Environment
  <2>1. CASE SynArrives \/ AckArrives \/ NoAck  BY <2>1, ParentType
  <2>2. CASE Interrupt  BY <2>2, ReapType
  <2>3. CASE \E p \in Procs : SessionEnds(p) \/ Dies(p) \/ ClientAnswers(p)
    BY <2>3, ChildTypeStep
  <2> QED  BY <1>4, <2>1, <2>2, <2>3 DEF Environment
<1>5. CASE Exited  BY <1>5 DEF Exited, vars, TypeOK
<1> QED  BY <1>1, <1>2, <1>3, <1>4, <1>5 DEF Next

\* ... and hold in the beginning.
LEMMA InitType == Init => TypeOK
<1> SUFFICES ASSUME Init  PROVE TypeOK  OBVIOUS
<1>1. proc \in [Procs -> Child]  BY ChildType DEF Init
<1>2. blocked \subseteq {"SIGINT", "SIGTERM"}  BY MasksAssumption DEF Init
<1>3. lost \in BOOLEAN  BY DEF Init
<1> QED  BY <1>1, <1>2, <1>3, SlotsAssumption DEF Init, TypeOK, Child, States

\* The server's variables keep their types, and set_bit is called for slots of
\* the server only.
THEOREM PoolTypeCorrect == Spec => []TypeOK
<1> QED  BY InitType, NextType, PTL DEF Spec

-----------------------------------------------------------------------------
\* A step of a child neither reaps nor revives one.
LEMMA ChildStays ==
  ASSUME TypeOK, NEW p \in Procs,
         ChildStep(p) \/ SessionEnds(p) \/ Dies(p) \/ ClientAnswers(p),
         NEW q \in Procs
  PROVE  proc[q].pc # "none" <=> proc'[q].pc # "none"
<1>0. proc \in [Procs -> Child]  BY ProcType
<1>1. CASE q # p
  <2>1. proc'[q] = proc[q]
    BY <1>0, <1>1 DEF ChildStep, Start, ChildLoads, ChildStores, Terminate, SessionEnds,
                      Dies, ClientAnswers, Move, End
  <2> QED  BY <2>1
<1>2. CASE q = p
  <2>1. \A pc : Move(p, pc) => proc'[p].pc = pc  BY <1>0 DEF Move, Child
  <2>2. End(p) => proc'[p].pc = "zombie"  BY <1>0 DEF End, NoProc
  <2>3. ChildLoads(p) => proc'[p].pc = "storeFree"  BY <1>0 DEF ChildLoads, Child
  <2>4. proc[p].pc # "none"
    BY DEF ChildStep, Start, ChildLoads, ChildStores, Terminate, SessionEnds, Dies,
           ClientAnswers
  <2> QED  BY <1>2, <2>1, <2>2, <2>3, <2>4
           DEF ChildStep, Start, ChildStores, Terminate, SessionEnds, Dies, ClientAnswers
<1> QED  BY <1>1, <1>2

PidsOK == TypeOK /\ PidsAreCurrent /\ PidInv

\* Every step keeps child_pids pointing at unreaped children, once each.
LEMMA NextPids == PidsOK /\ [Next]_vars => PidsOK'
<1> SUFFICES ASSUME PidsOK, [Next]_vars  PROVE PidsAreCurrent' /\ PidInv'
    BY NextType DEF PidsOK
<1> USE DEF PidsOK
<1>0. proc \in [Procs -> Child] /\ INVALID_PID \notin Procs
      BY ProcType, ProcsAssumption DEF INVALID_PID
<1>1. CASE UNCHANGED vars \/ Exited
  BY <1>1 DEF vars, Exited, PidsAreCurrent, PidInv, Stopping
<1>2. CASE \/ SynArrives \/ NoSyn \/ AckArrives \/ NoAck \/ Scan \/ ParentLoads
           \/ ParentStores \/ NothingToReap \/ ParentExits
  <2>1. /\ UNCHANGED <<childPids, proc, pid>> /\ pPc' \notin {"record", "forget"}
        /\ Stopping' \/ (pPc \notin {"record", "forget"} /\ ~Stopping)
    BY <1>2 DEF SynArrives, NoSyn, AckArrives, NoAck, Scan, ParentLoads, ParentStores,
                NothingToReap, ParentExits, Stopping
  <2> QED  BY <2>1 DEF PidsAreCurrent, PidInv
<1>3. CASE Fork
  <2>1. PICK p \in Unused : pid' = p /\ proc' = [proc EXCEPT ![p] = Forked(noClient)]
        BY <1>3 DEF Fork
  <2>2. /\ proc[p].pc = "none" /\ p \in Procs /\ UNCHANGED childPids
        /\ pid = INVALID_PID /\ pPc' = "record"
        BY <1>3, <2>1 DEF Fork, Unused, PidInv, Stopping
  <2>3. proc'[p].pc # "none" /\ \A q \in Procs : q # p => proc'[q] = proc[q]
        BY <1>0, <2>1, <2>2 DEF Forked
  <2>4. \A s \in Slots : childPids[s] # p
        BY <1>0, <2>2 DEF PidsAreCurrent
  <2> QED  BY <2>1, <2>2, <2>3, <2>4 DEF PidsAreCurrent, PidInv, TypeOK
<1>4. CASE Record
  <2>1. /\ proc' = proc /\ pPc' = "reap" /\ pPc = "record" /\ pid \in Procs
        /\ pid' = INVALID_PID
        BY <1>4 DEF Record, TypeOK
  <2>2. \/ childPids' = childPids
        \/ noClient \in Slots /\ childPids' = [childPids EXCEPT ![noClient] = pid]
        BY <1>4 DEF Record
  <2> QED  BY <2>1, <2>2 DEF PidsAreCurrent, PidInv, TypeOK
<1>9. CASE Reap
  <2>1. PICK p \in Zombies : pid' = p /\ proc' = [proc EXCEPT ![p] = NoProc]
        BY <1>9 DEF Reap
  <2>2. /\ p \in Procs /\ proc'[p].pc = "none"
        /\ \A q \in Procs : q # p => proc'[q] = proc[q]
        BY <1>0, <2>1 DEF Zombies, NoProc
  <2>3. UNCHANGED childPids /\ pPc' = "forget" /\ pid = INVALID_PID
        BY <1>9 DEF Reap, PidInv, Stopping
  <2> QED  BY <2>1, <2>2, <2>3 DEF PidsAreCurrent, PidInv, TypeOK
<1>5. CASE Forget
  <2>1. /\ UNCHANGED proc /\ pPc' \in {"reap", "setFree"} /\ pid' = INVALID_PID
        /\ pid \in Procs
        BY <1>5 DEF Forget, TypeOK
  <2>2. CASE SlotsOf(pid) = {}
    <3>1. UNCHANGED childPids /\ \A s \in Slots : childPids[s] # pid
          BY <1>5, <2>2 DEF Forget, SlotsOf
    <3> QED  BY <2>1, <3>1 DEF PidsAreCurrent, PidInv
  <2>3. CASE SlotsOf(pid) # {}
    <3>1. PICK i \in Slots : /\ childPids[i] = pid
                             /\ childPids' = [childPids EXCEPT ![i] = INVALID_PID]
          BY <1>5, <2>3 DEF Forget, SlotsOf
    <3>2. \A s \in Slots : s # i => childPids[s] # pid
          BY <1>0, <2>1, <3>1 DEF PidInv
    <3> QED  BY <2>1, <3>1, <3>2 DEF PidsAreCurrent, PidInv, TypeOK
  <2> QED  BY <2>2, <2>3
<1>6. CASE Interrupt
  <2>1. \A q \in Procs : proc'[q].pc = proc[q].pc  BY <1>0, <1>6 DEF Interrupt, Child
  <2>2. UNCHANGED <<childPids, pid>> /\ pPc' = "waiting"  BY <1>6 DEF Interrupt
  <2> QED  BY <2>1, <2>2 DEF PidsAreCurrent, PidInv, TypeOK, Stopping
<1>7. CASE WaitForChild
  <2>1. PICK s \in Slots : /\ childPids[s] # INVALID_PID
                           /\ proc' = [proc EXCEPT ![childPids[s]] = NoProc]
                           /\ childPids' = [childPids EXCEPT ![s] = INVALID_PID]
        BY <1>7 DEF WaitForChild
  <2>2. pPc' = "waiting" /\ childPids[s] \in Procs /\ UNCHANGED pid
        BY <1>7, <2>1 DEF WaitForChild, TypeOK
  <2>3. \A t \in Slots : t # s => childPids[t] # childPids[s]  BY <2>1 DEF PidInv
  <2>4. \A q \in Procs : q # childPids[s] => proc'[q] = proc[q]  BY <1>0, <2>1
  <2> QED  BY <2>1, <2>2, <2>3, <2>4 DEF PidsAreCurrent, PidInv, TypeOK, Stopping
<1>8. CASE \E p \in Procs : ChildStep(p) \/ SessionEnds(p) \/ Dies(p) \/ ClientAnswers(p)
  <2>1. UNCHANGED <<childPids, pPc, pid>>
    BY <1>8 DEF ChildStep, Start, ChildLoads, ChildStores, Terminate, SessionEnds, Dies,
                ClientAnswers
  <2>2. \A q \in Procs : proc[q].pc # "none" <=> proc'[q].pc # "none"
    BY <1>8, ChildStays
  <2> QED  BY <2>1, <2>2 DEF PidsAreCurrent, PidInv, TypeOK, Stopping
<1> QED  BY <1>1, <1>2, <1>3, <1>4, <1>5, <1>6, <1>7, <1>8, <1>9
         DEF Next, ParentStep, Environment

\* child_pids names unreaped children of the server only, for any number of
\* slots, however bytes are shared: a slot given away before its last child is
\* reaped does not leave that child's pid behind.
THEOREM PidsStayCurrent == Spec => []PidsAreCurrent
<1>1. Init => PidsOK
  BY InitType DEF Init, PidsOK, PidsAreCurrent, PidInv
<1>2. PidsOK => PidsAreCurrent  BY DEF PidsOK
<1> QED  BY <1>1, <1>2, NextPids, PTL DEF Spec

-----------------------------------------------------------------------------
\* A store that undoes nothing changes the bit of its slot and no other.
LEMMA NothingUndone ==
  ASSUME NEW s \in 0 .. MaxClients, NEW byte \in SUBSET ByteOf(s), ~Undoes(byte, s)
  PROVE  WithBusy(byte, s) = busy \cup {s} /\ WithFree(byte, s) = busy \ {s}
<1>1. s \in ByteOf(s)  BY DEF ByteOf
<1> QED  BY <1>1 DEF Undoes, Load, WithBusy, WithFree

SlotsOK == PidsOK /\ SlotInv

\* A step of a child keeps its hold on its slot or gives it up.
LEMMA ChildHolds ==
  ASSUME TypeOK, NEW p \in Procs,
         ChildStep(p) \/ SessionEnds(p) \/ Dies(p) \/ ClientAnswers(p)
  PROVE  /\ \A q \in Procs : \A s \in Slots : Holds(q, s)' => Holds(q, s)
         /\ \A q \in Procs : q # p => proc'[q] = proc[q]
         /\ End(p) => \A s \in Slots : ~Holds(p, s)'
<1>0. proc \in [Procs -> Child]  BY ProcType
<1>1. \A q \in Procs : q # p => proc'[q] = proc[q]
  BY <1>0 DEF ChildStep, Start, ChildLoads, ChildStores, Terminate, SessionEnds, Dies,
              ClientAnswers, Move, End
<1>2. \A q \in Procs : q # p => \A s \in Slots : Holds(q, s)' => Holds(q, s)
  BY <1>1 DEF Holds
<1>3. End(p) => \A s \in Slots : ~Holds(p, s)'
  BY <1>0 DEF End, NoProc, Holds
<1>4. \A pc : Move(p, pc) => proc'[p].pc = pc /\ proc'[p].slot = proc[p].slot
  BY <1>0 DEF Move, Child
<1>5. ChildLoads(p) => proc'[p].slot = proc[p].slot
  BY <1>0 DEF ChildLoads, Child
<1>6. \A s \in Slots : Holds(p, s)' => Holds(p, s)
  <2>1. CASE Start(p)  BY <2>1, <1>3, <1>4 DEF Start, Holds
  <2>2. CASE ChildLoads(p)  BY <2>2, <1>5 DEF ChildLoads, Holds
  <2>3. CASE ChildStores(p) \/ Dies(p) \/ ClientAnswers(p)
    BY <2>3, <1>3 DEF ChildStores, Dies, ClientAnswers
  <2>4. CASE Terminate(p)
    <3>1. CASE proc[p].pc = "serving"  BY <2>4, <3>1, <1>4 DEF Terminate, Holds
    <3>2. CASE proc[p].pc # "serving"  BY <2>4, <3>2, <1>3 DEF Terminate
    <3> QED  BY <3>1, <3>2
  <2>5. CASE SessionEnds(p)  BY <2>5, <1>4 DEF SessionEnds, Holds
  <2> QED  BY <2>1, <2>2, <2>3, <2>4, <2>5 DEF ChildStep
<1> QED  BY <1>1, <1>2, <1>3, <1>6

\* The children keep SlotInv.
LEMMA ChildSlots ==
  ASSUME SlotsOK, ~lost', NEW p \in Procs,
         ChildStep(p) \/ SessionEnds(p) \/ Dies(p) \/ ClientAnswers(p)
  PROVE  SlotInv'
<1> USE DEF SlotsOK, PidsOK
<1>0. proc \in [Procs -> Child] /\ proc[p] \in Child  BY ProcType
<1>1. UNCHANGED <<childPids, pPc, noClient, pCopy, pid>>
  BY DEF ChildStep, Start, ChildLoads, ChildStores, Terminate, SessionEnds, Dies,
         ClientAnswers
<1>2. /\ \A q \in Procs : \A s \in Slots : Holds(q, s)' => Holds(q, s)
      /\ \A q \in Procs : q # p => proc'[q] = proc[q]
  BY ChildHolds
<1>3. \A q \in Procs : proc'[q].pc = "storeFree" => proc'[q].copy \subseteq ByteOf(proc'[q].slot)
  <2>1. CASE ChildLoads(p)
    <3>1. proc'[p].copy = Load(proc[p].slot) /\ proc'[p].slot = proc[p].slot
      BY <1>0, <2>1 DEF ChildLoads, Child
    <3>2. Load(proc[p].slot) \subseteq ByteOf(proc[p].slot)  BY DEF Load
    <3> QED  BY <1>2, <3>1, <3>2 DEF SlotInv
  <2>2. CASE ~ChildLoads(p)
    <3>1. proc'[p].pc # "storeFree"
      BY <1>0, <2>2 DEF ChildStep, Start, ChildStores, Terminate, SessionEnds, Dies,
                        ClientAnswers, Move, End, NoProc, Child
    <3> QED  BY <1>2, <3>1 DEF SlotInv
  <2> QED  BY <2>1, <2>2
<1>4. \A q \in Procs : \A s \in Slots : Holds(q, s)' => s \in busy'
  <2>1. CASE ChildStores(p)
    <3>1. busy' = busy \ {proc[p].slot}
      <4>1. proc[p].copy \in SUBSET ByteOf(proc[p].slot)
        BY <2>1 DEF ChildStores, SlotInv
      <4>2. ~Undoes(proc[p].copy, proc[p].slot)  BY <2>1 DEF ChildStores
      <4> QED  BY <1>0, <2>1, <4>1, <4>2, NothingUndone DEF ChildStores, Child
    <3>2. \A s \in Slots : ~Holds(p, s)'  BY <2>1, ChildHolds DEF ChildStores
    <3>3. proc[p].slot \in Slots => Holds(p, proc[p].slot)
      BY <2>1 DEF ChildStores, Holds
    <3> QED  BY <1>2, <3>1, <3>2, <3>3 DEF SlotInv
  <2>2. CASE ~ChildStores(p)
    <3>1. busy' = busy
      BY <2>2 DEF ChildStep, Start, ChildLoads, Terminate, SessionEnds, Dies, ClientAnswers
    <3> QED  BY <1>2, <3>1 DEF SlotInv
  <2> QED  BY <2>1, <2>2
<1>5. /\ busy' \subseteq busy
      /\ pPc = "fork" /\ noClient \in Slots => noClient \in busy'
  <2>1. CASE ChildStores(p)
    <3>1. busy' = busy \ {proc[p].slot}
      <4>1. proc[p].copy \in SUBSET ByteOf(proc[p].slot)
        BY <2>1 DEF ChildStores, SlotInv
      <4>2. ~Undoes(proc[p].copy, proc[p].slot)  BY <2>1 DEF ChildStores
      <4> QED  BY <1>0, <2>1, <4>1, <4>2, NothingUndone DEF ChildStores, Child
    <3>3. proc[p].slot \in Slots => Holds(p, proc[p].slot)
      BY <2>1 DEF ChildStores, Holds
    <3> QED  BY <3>1, <3>3 DEF SlotInv
  <2>2. CASE ~ChildStores(p)
    <3>1. busy' = busy
      BY <2>2 DEF ChildStep, Start, ChildLoads, Terminate, SessionEnds, Dies, ClientAnswers
    <3> QED  BY <3>1 DEF SlotInv
  <2> QED  BY <2>1, <2>2
<1>6. /\ \A q \in Procs : \A s \in Slots : Holds(q, s)' =>
           /\ \A r \in Procs : Holds(r, s)' => r = q
           /\ Stopping' \/ childPids'[s] = q \/ (pPc' = "record" /\ pid' = q /\ noClient' = s)
      /\ noClient \in Slots /\ pPc' \in {"fork", "setFree", "storeFree"} =>
           \A q \in Procs : ~Holds(q, noClient)'
      /\ pPc' = "record" /\ noClient \in Slots =>
           \A q \in Procs : Holds(q, noClient)' => q = pid
  BY <1>1, <1>2 DEF SlotInv, Stopping
<1>7. pPc \in {"setFree", "storeFree"} => noClient \in Slots  BY DEF TypeOK
<1> QED  BY <1>1, <1>3, <1>4, <1>5, <1>6, <1>7 DEF SlotInv, ByteOf, Holds

\* The parent, looking for a slot and setting or clearing a bit, keeps SlotInv, ...
LEMMA SearchSlots ==
  ASSUME SlotsOK, ~lost',
         \/ SynArrives \/ NoSyn \/ AckArrives \/ NoAck \/ Scan \/ ParentLoads
         \/ ParentStores \/ NothingToReap \/ ParentExits
  PROVE  SlotInv'
<1> USE DEF SlotsOK, PidsOK
<1>1. UNCHANGED <<childPids, proc>> /\ (Stopping => Stopping')
  BY DEF SynArrives, NoSyn, AckArrives, NoAck, Scan, ParentLoads, ParentStores,
         NothingToReap, ParentExits, Stopping
<1>2. CASE \/ SynArrives \/ NoSyn \/ AckArrives \/ NoAck \/ NothingToReap \/ ParentExits
  <2>1. /\ UNCHANGED busy
        /\ pPc' \notin {"setBusy", "storeBusy", "fork", "record", "setFree", "storeFree"}
        /\ pPc # "record"
    BY <1>2 DEF SynArrives, NoSyn, AckArrives, NoAck, NothingToReap, ParentExits
  <2> QED  BY <1>1, <2>1 DEF SlotInv, Holds, ByteOf
<1>3. CASE Scan
  <2>1. UNCHANGED busy /\ pPc = "scan" /\ pPc' \in {"setBusy", "scan", "fork"}  BY <1>3 DEF Scan
  <2>2. pPc' = "setBusy" => noClient' \notin busy  BY <1>3 DEF Scan, IsFree
  <2>3. pPc' = "fork" => noClient' \notin Slots
    BY <1>3, SlotsAssumption DEF Scan, IsLast, Slots
  <2> QED  BY <1>1, <2>1, <2>2, <2>3 DEF SlotInv, Holds, ByteOf
<1>4. CASE ParentLoads
  <2>1. UNCHANGED <<busy, noClient>> /\ pPc \in {"setBusy", "setFree"}
        /\ pPc' = (IF pPc = "setBusy" THEN "storeBusy" ELSE "storeFree")
        /\ pCopy' \subseteq ByteOf(noClient)
    BY <1>4 DEF ParentLoads, Load
  <2> QED  BY <1>1, <2>1 DEF SlotInv, Holds, ByteOf
<1>5. CASE ParentStores
  <2>1. noClient \in Slots /\ noClient \in 0 .. MaxClients
    BY <1>5, SlotsAssumption DEF ParentStores, TypeOK, Slots
  <2>2. UNCHANGED noClient /\ pPc # "record" /\ ~Undoes(pCopy, noClient)
    BY <1>5 DEF ParentStores
  <2>3. CASE pPc = "storeBusy"
    <3>1. busy' = busy \cup {noClient} /\ pPc' = "fork"
      <4>1. pCopy \in SUBSET ByteOf(noClient)  BY <2>3 DEF SlotInv
      <4> QED  BY <1>5, <2>1, <2>2, <2>3, <4>1, NothingUndone DEF ParentStores
    <3>2. \A p \in Procs : ~Holds(p, noClient)  BY <2>1, <2>3 DEF SlotInv
    <3> QED  BY <1>1, <2>2, <3>1, <3>2 DEF SlotInv, Holds, ByteOf
  <2>4. CASE pPc = "storeFree"
    <3>1. busy' = busy \ {noClient} /\ pPc' = "reap"
      <4>1. pCopy \in SUBSET ByteOf(noClient)  BY <2>4 DEF SlotInv
      <4> QED  BY <1>5, <2>1, <2>2, <2>4, <4>1, NothingUndone DEF ParentStores
    <3>2. \A p \in Procs : ~Holds(p, noClient)  BY <2>4 DEF SlotInv
    <3> QED  BY <1>1, <2>2, <3>1, <3>2 DEF SlotInv, Holds, ByteOf
  <2> QED  BY <1>5, <2>3, <2>4 DEF ParentStores
<1> QED  BY <1>2, <1>3, <1>4, <1>5

\* ... and so it does when it forks, reaps or signals a child.
LEMMA ForkSlots ==
  ASSUME SlotsOK, Fork \/ Record \/ Reap \/ Forget \/ Interrupt \/ WaitForChild
  PROVE  SlotInv'
<1> USE DEF SlotsOK, PidsOK
<1>0. proc \in [Procs -> Child] /\ INVALID_PID \notin Procs
      BY ProcType, ProcsAssumption DEF INVALID_PID
<1>1. CASE Fork
  <2>1. PICK p \in Unused : pid' = p /\ proc' = [proc EXCEPT ![p] = Forked(noClient)]
        BY <1>1 DEF Fork
  <2>2. /\ p \in Procs /\ UNCHANGED <<childPids, busy, noClient>>
        /\ pPc = "fork" /\ pPc' = "record"
        BY <1>1, <2>1 DEF Fork, Unused
  <2>3. \A q \in Procs : q # p => proc'[q] = proc[q]  BY <1>0, <2>1
  <2>4. \A s \in Slots : Holds(p, s)' => s = noClient
        BY <1>0, <2>1, <2>2 DEF Forked, Holds
  <2>5. proc'[p].pc # "storeFree"  BY <1>0, <2>1, <2>2 DEF Forked
  <2>6. \A q \in Procs : q # p => \A s \in Slots : Holds(q, s)' => Holds(q, s)
        BY <2>3 DEF Holds
  <2>7. noClient \in Slots => noClient \in busy /\ \A q \in Procs : ~Holds(q, noClient)
        BY <2>2 DEF SlotInv
  <2>8. ~Stopping  BY <2>2 DEF Stopping
  <2> QED  BY <2>1, <2>2, <2>3, <2>4, <2>5, <2>6, <2>7, <2>8 DEF SlotInv, ByteOf
<1>2. CASE Record
  <2>1. /\ UNCHANGED <<proc, busy, noClient>> /\ pPc' = "reap" /\ pPc = "record"
        /\ pid \in Procs
        BY <1>2 DEF Record, TypeOK
  <2>2. \A q \in Procs : \A s \in Slots : Holds(q, s) => childPids'[s] = q
        BY <1>2, <2>1 DEF Record, SlotInv, TypeOK, Stopping
  <2> QED  BY <2>1, <2>2 DEF SlotInv, Holds, ByteOf
<1>6. CASE Reap
  <2>1. PICK p \in Zombies : pid' = p /\ proc' = [proc EXCEPT ![p] = NoProc]
        BY <1>6 DEF Reap
  <2>2. /\ p \in Procs /\ \A q \in Procs : q # p => proc'[q] = proc[q]
        /\ proc'[p].pc = "none" /\ UNCHANGED <<busy, childPids>>
        /\ pPc = "reap" /\ pPc' = "forget"
        BY <1>0, <1>6, <2>1 DEF Zombies, NoProc, Reap
  <2>3. \A q \in Procs : \A s \in Slots : Holds(q, s)' => Holds(q, s)
        BY <2>2 DEF Holds
  <2> QED  BY <2>2, <2>3 DEF SlotInv, ByteOf, Stopping
<1>3. CASE Forget
  <2>1. /\ UNCHANGED <<proc, busy>> /\ pPc = "forget"
        /\ pid \in Procs /\ pPc' \in {"reap", "setFree"}
        BY <1>3 DEF Forget, TypeOK
  <2>2. \A q \in Procs : \A s \in Slots : Holds(q, s) => childPids[s] = q /\ q # pid
        BY <2>1 DEF SlotInv, Stopping, PidInv, Holds
  <2>3. CASE SlotsOf(pid) = {}
    <3>1. UNCHANGED <<childPids, noClient>> /\ pPc' = "reap"  BY <1>3, <2>3 DEF Forget
    <3> QED  BY <2>1, <2>2, <3>1 DEF SlotInv, Holds, ByteOf, Stopping
  <2>4. CASE SlotsOf(pid) # {}
    <3>1. PICK i \in Slots : /\ childPids[i] = pid /\ noClient' = i /\ pPc' = "setFree"
                             /\ childPids' = [childPids EXCEPT ![i] = INVALID_PID]
          BY <1>3, <2>4 DEF Forget, SlotsOf
    <3>2. \A q \in Procs : \A s \in Slots : Holds(q, s) => childPids'[s] = q /\ s # i
          BY <2>2, <3>1 DEF TypeOK
    <3> QED  BY <2>1, <3>1, <3>2 DEF SlotInv, Holds, ByteOf
  <2> QED  BY <2>3, <2>4
<1>4. CASE Interrupt
  <2>1. \A q \in Procs : /\ proc'[q].pc = proc[q].pc /\ proc'[q].slot = proc[q].slot
                         /\ proc'[q].copy = proc[q].copy
        BY <1>0, <1>4 DEF Interrupt, Child
  <2>2. UNCHANGED busy /\ pPc' = "waiting"  BY <1>4 DEF Interrupt
  <2> QED  BY <2>1, <2>2 DEF SlotInv, Holds, ByteOf, Stopping
<1>5. CASE WaitForChild
  <2>1. PICK s \in Slots : /\ childPids[s] # INVALID_PID
                           /\ proc' = [proc EXCEPT ![childPids[s]] = NoProc]
        BY <1>5 DEF WaitForChild
  <2>2. UNCHANGED busy /\ pPc' = "waiting" /\ childPids[s] \in Procs
        BY <1>5, <2>1 DEF WaitForChild, TypeOK
  <2>3. /\ \A q \in Procs : q # childPids[s] => proc'[q] = proc[q]
        /\ proc'[childPids[s]].pc = "none"
        BY <1>0, <2>1, <2>2 DEF NoProc
  <2> QED  BY <2>2, <2>3 DEF SlotInv, Holds, ByteOf, Stopping
<1> QED  BY <1>1, <1>2, <1>3, <1>4, <1>5, <1>6

SlotsUnlessLost == PidsOK /\ (~lost => SlotInv)

\* What is lost stays lost.
LEMMA LostForEver == [Next]_vars /\ lost => lost'
BY DEF Next, ParentStep, ChildStep, Environment, Exited, vars, SynArrives, NoSyn, AckArrives,
       NoAck, Scan, ParentLoads, ParentStores, Fork, Record, Reap, Forget, NothingToReap,
       Interrupt, WaitForChild, ParentExits, Start, SessionEnds, Dies, ChildLoads,
       ChildStores, Terminate, ClientAnswers

\* As long as no update is lost the slots are held as SlotInv says.
LEMMA NextSlots == SlotsOK /\ ~lost' /\ [Next]_vars => SlotInv'
<1> SUFFICES ASSUME SlotsOK, ~lost', [Next]_vars  PROVE SlotInv'  OBVIOUS
<1>1. CASE UNCHANGED vars \/ Exited
  BY <1>1 DEF vars, Exited, SlotsOK, SlotInv, Holds, Stopping, ByteOf
<1>2. CASE ParentStep  BY <1>2, SearchSlots, ForkSlots DEF ParentStep
<1>3. CASE \E p \in Procs : ChildStep(p)  BY <1>3, ChildSlots
<1>4. CASE Environment  BY <1>4, SearchSlots, ForkSlots, ChildSlots DEF Environment
<1> QED  BY <1>1, <1>2, <1>3, <1>4 DEF Next

LEMMA SlotsInvariant ==
  /\ Init => SlotsOK
  /\ SlotsUnlessLost /\ [Next]_vars => SlotsUnlessLost'
<1>1. Init => SlotsOK
  <2> SUFFICES ASSUME Init  PROVE SlotsOK  OBVIOUS
  <2>1. PidsOK  BY InitType DEF Init, PidsOK, PidsAreCurrent, PidInv
  <2>2. \A p \in Procs : proc[p].pc = "none"  BY DEF Init, NoProc
  <2> QED  BY <2>1, <2>2 DEF Init, SlotsOK, SlotInv, Holds
<1>2. SlotsUnlessLost /\ [Next]_vars => SlotsUnlessLost'
  BY NextPids, NextSlots, LostForEver DEF SlotsOK, SlotsUnlessLost
<1> QED  BY <1>1, <1>2

\* Two clients are never sent to the same port while both have a child, unless a store
\* of set_bit has undone another process's: what breaks the exclusion is the lost update
\* and nothing else in the accept loop, the order of reaping and reuse included, however
\* loads and stores overlap and for any number of slots per byte.
THEOREM ExclusiveUnlessLostHolds == Spec => []ExclusiveUnlessLost
<1>1. Init => SlotsUnlessLost  BY SlotsInvariant DEF SlotsOK, SlotsUnlessLost
<1>2. SlotsUnlessLost => ExclusiveUnlessLost
  BY DEF SlotsUnlessLost, SlotInv, ExclusiveUnlessLost, PortsAreExclusive, Holds
<1> QED  BY <1>1, <1>2, SlotsInvariant, PTL DEF Spec

-----------------------------------------------------------------------------
\* A step of a child neither gives it another slot, nor asks it to end, nor makes it
\* live again; it waits for its client only if it was asked to end.
LEMMA ChildLives ==
  ASSUME TypeOK, NEW p \in Procs,
         ChildStep(p) \/ SessionEnds(p) \/ Dies(p) \/ ClientAnswers(p),
         NEW q \in Procs
  PROVE  /\ Alive(q)' => Alive(q) /\ proc'[q].slot = proc[q].slot
         /\ proc'[q].term => proc[q].term
         /\ proc'[q].pc = "closing" => proc[q].pc = "closing" \/ proc[q].term
<1>0. proc \in [Procs -> Child]  BY ProcType
<1>1. CASE q # p
  <2>1. proc'[q] = proc[q]
    BY <1>0, <1>1 DEF ChildStep, Start, ChildLoads, ChildStores, Terminate, SessionEnds,
                      Dies, ClientAnswers, Move, End
  <2> QED  BY <2>1 DEF Alive
<1>2. CASE q = p
  <2>1. Alive(p)
    BY DEF ChildStep, Start, ChildLoads, ChildStores, Terminate, SessionEnds, Dies,
           ClientAnswers, Alive
  <2>2. \A pc : Move(p, pc) =>
          proc'[p].pc = pc /\ proc'[p].slot = proc[p].slot /\ proc'[p].term = proc[p].term
    BY <1>0 DEF Move, Child
  <2>3. End(p) => proc'[p].pc = "zombie" /\ ~proc'[p].term  BY <1>0 DEF End, NoProc
  <2>4. ChildLoads(p) => /\ proc'[p].pc = "storeFree" /\ proc'[p].slot = proc[p].slot
                         /\ proc'[p].term = proc[p].term
    BY <1>0 DEF ChildLoads, Child
  <2>5. CASE End(p)  BY <1>2, <2>1, <2>3, <2>5 DEF Alive
  <2>6. CASE Move(p, "serving") \/ Move(p, "setFree")  BY <1>2, <2>1, <2>2, <2>6 DEF Alive
  <2>7. CASE ChildLoads(p)  BY <1>2, <2>1, <2>4, <2>7 DEF Alive
  <2>8. CASE Move(p, "closing") /\ proc[p].term  BY <1>2, <2>1, <2>2, <2>8 DEF Alive
  <2> QED  BY <2>5, <2>6, <2>7, <2>8
           DEF ChildStep, Start, ChildStores, Terminate, SessionEnds, Dies, ClientAnswers
<1> QED  BY <1>1, <1>2

\* Every step keeps the handler's knowledge of the children.
LEMMA NextOrphans ==
  ASSUME SlotsOK, OrphanInv, [Next]_vars
  PROVE  OrphanInv'
<1> USE DEF SlotsOK, PidsOK
<1>0. proc \in [Procs -> Child] /\ INVALID_PID \notin Procs
      BY ProcType, ProcsAssumption DEF INVALID_PID
<1>1. CASE UNCHANGED vars \/ Exited
  BY <1>1 DEF vars, Exited, OrphanInv, Stopping, Alive
<1>2. CASE SynArrives \/ NoSyn \/ AckArrives \/ NoAck \/ Scan \/ ParentLoads \/ ParentStores
             \/ Record \/ Forget \/ NothingToReap
  <2>1. UNCHANGED proc /\ ~Stopping /\ pPc' \notin {"waiting", "exited"}
        BY <1>2 DEF SynArrives, NoSyn, AckArrives, NoAck, Scan, ParentLoads, ParentStores,
                    Record, Forget, NothingToReap, Stopping
  <2> QED  BY <2>1 DEF OrphanInv, Stopping
<1>3. CASE Fork \/ Reap
  <2>1. PICK p \in Procs : \/ proc' = [proc EXCEPT ![p] = Forked(noClient)]
                          \/ proc' = [proc EXCEPT ![p] = NoProc]
        BY <1>3 DEF Fork, Reap, Unused, Zombies
  <2>2. proc'[p].pc # "closing" /\ ~proc'[p].term
        BY <1>0, <2>1 DEF Forked, NoProc
  <2>3. \A q \in Procs \ {p} : proc'[q] = proc[q]  BY <1>0, <2>1
  <2>4. ~Stopping /\ pPc' \notin {"waiting", "exited"}  BY <1>3 DEF Fork, Reap, Stopping
  <2> QED  BY <2>2, <2>3, <2>4 DEF OrphanInv, Stopping
<1>4. CASE Interrupt
  <2>1. \A q \in Procs : proc'[q].pc = proc[q].pc /\ proc'[q].slot = proc[q].slot
        BY <1>0, <1>4 DEF Interrupt, Child
  <2>2. ~Stopping /\ pPc' = "waiting" /\ UNCHANGED <<childPids, pid>>
        BY <1>4 DEF Interrupt
  <2>3. ASSUME NEW p \in Procs, Alive(p), proc[p].slot \in Slots
        PROVE  p = pid \/ childPids[proc[p].slot] = p
    <3>1. Holds(p, proc[p].slot)
          BY <1>0, <2>2, <2>3 DEF Holds, Alive, OrphanInv, Child, States
    <3> QED  BY <2>2, <2>3, <3>1 DEF SlotInv
  <2> QED  BY <2>1, <2>2, <2>3 DEF OrphanInv, Stopping, Alive
<1>5. CASE WaitForChild
  <2>1. PICK s \in Slots :
          /\ childPids[s] # INVALID_PID
          /\ proc[childPids[s]].pc \in {"zombie", "none"}
          /\ proc' = [proc EXCEPT ![childPids[s]] = NoProc]
          /\ childPids' = [childPids EXCEPT ![s] = INVALID_PID]
        BY <1>5 DEF WaitForChild
  <2>2. pPc = "waiting" /\ pPc' = "waiting" /\ UNCHANGED pid  BY <1>5 DEF WaitForChild
  <2>3. ASSUME NEW p \in Procs, Alive(p)', proc'[p].slot \in Slots
        PROVE  p = pid \/ childPids'[proc'[p].slot] = p
    <3>1. p # childPids[s]  BY <1>0, <2>1, <2>3 DEF Alive, NoProc
    <3>2. proc'[p] = proc[p] /\ Alive(p)  BY <1>0, <2>1, <2>3, <3>1 DEF Alive
    <3>3. p = pid \/ childPids[proc[p].slot] = p
          BY <2>2, <2>3, <3>2 DEF OrphanInv, Stopping
    <3> QED  BY <2>1, <3>1, <3>2, <3>3 DEF TypeOK
  <2> QED  BY <2>2, <2>3 DEF OrphanInv, Stopping
<1>6. CASE ParentExits
  BY <1>6 DEF ParentExits, OrphanInv, Stopping, Alive
<1>7. ASSUME NEW p \in Procs, ChildStep(p) \/ SessionEnds(p) \/ Dies(p) \/ ClientAnswers(p)
      PROVE  OrphanInv'
  <2>1. UNCHANGED <<pPc, pid, childPids>>
        BY <1>7 DEF ChildStep, Start, ChildLoads, ChildStores, Terminate, SessionEnds, Dies,
                    ClientAnswers
  <2>2. \A q \in Procs :
          /\ Alive(q)' => Alive(q) /\ proc'[q].slot = proc[q].slot
          /\ proc'[q].term => proc[q].term
          /\ proc'[q].pc = "closing" => proc[q].pc = "closing" \/ proc[q].term
        BY <1>7, ChildLives
  <2> QED  BY <2>1, <2>2 DEF OrphanInv, Stopping
<1> QED  BY <1>1, <1>2, <1>3, <1>4, <1>5, <1>6, <1>7 DEF Next, ParentStep, Environment

OrphansUnlessLost == SlotsUnlessLost /\ (~lost => OrphanInv)

LEMMA OrphansInvariant ==
  /\ Init => OrphansUnlessLost
  /\ OrphansUnlessLost /\ [Next]_vars => OrphansUnlessLost'
<1>1. Init => OrphansUnlessLost
  <2>1. Init => OrphanInv  BY DEF Init, OrphanInv, Stopping, NoProc
  <2> QED  BY <2>1, SlotsInvariant DEF SlotsOK, SlotsUnlessLost, OrphansUnlessLost
<1>2. OrphansUnlessLost /\ [Next]_vars => OrphansUnlessLost'
  BY SlotsInvariant, NextOrphans, LostForEver DEF SlotsOK, SlotsUnlessLost, OrphansUnlessLost
<1> QED  BY <1>1, <1>2

\* A server that exits on a signal leaves no child behind, wherever the signal came and
\* however slots were reused, but for a child that was not recorded yet, those there was
\* no slot for, and those whose slot a lost update gave away.
THEOREM NoOrphansHolds == Spec => []NoOrphans
<1>1. OrphansUnlessLost => NoOrphans
  <2> SUFFICES ASSUME OrphansUnlessLost, ~lost, pPc = "exited", NEW p \in Procs, Alive(p)
               PROVE  p = pid \/ proc[p].slot = MaxClients
      BY DEF NoOrphans
  <2>1. proc[p].slot \in 0 .. MaxClients /\ INVALID_PID \notin Procs
        BY ProcType, ProcsAssumption
        DEF OrphansUnlessLost, SlotsUnlessLost, PidsOK, Child, INVALID_PID
  <2>2. proc[p].slot \in Slots => p = pid
        BY <2>1 DEF OrphansUnlessLost, OrphanInv, Stopping
  <2> QED  BY <2>1, <2>2, SlotsAssumption DEF Slots
<1> QED  BY <1>1, OrphansInvariant, PTL DEF Spec
=============================================================================
