------------------------------- MODULE FileStore -------------------------------
(***************************************************************************)
(* The directory server-files/, which all children of the server share     *)
(* without a lock: get_server_files and the file operations of GET and PUT *)
(* in server_manage_client_commands (src/spqr_server.c), main_receiver and *)
(* main_sender (src/protocol.c).                                           *)
(*                                                                         *)
(* A name refers to an inode, which lives on without it as long as it is   *)
(* open.  A file is a sequence of blocks; a block is known by the child    *)
(* that wrote it.  How blocks travel is SelectiveRepeat's matter: here a   *)
(* transfer goes on, succeeds or fails.  The blocks of LIST are lines.     *)
(***************************************************************************)
EXTENDS Integers, Sequences, FiniteSets

CONSTANTS
  Kids,           \* the children of the server
  Names,          \* file names
  Blocks,         \* blocks of a file, the same for all
  Inodes,         \* bound: a file is created only if one is unused
  HeaderLength,   \* bytes of the header of LIST
  LineLength,     \* bytes of the line it has for each name
  MAX_READ_LINE   \* bytes of its buffer

None == "none"

ASSUME FilesAssumption == Blocks \in Nat \ {0} /\ None \notin Inodes \cup Kids \cup Names
\* A name has at most NAME_MAX bytes.
ASSUME NamesAssumption == IsFiniteSet(Names)
ASSUME LinesAssumption ==
  /\ MAX_READ_LINE \in Nat /\ HeaderLength \in Nat \ {0}
  /\ HeaderLength < MAX_READ_LINE - 1
  /\ LineLength \in [Names -> Nat \ {0}]

VARIABLES
  dir,            \* the inode of each name, or None
  data,           \* the blocks of each inode; None is a hole
  pc, name, fd,   \* each child: where it is, the name it works on, the open file
  size,           \* st_size when a GET opened its file
  got,            \* the blocks the child has read, or written, so far
  list,           \* the LIST of each child: see NoList
  alone,          \* has no other child PUT the name at the same time?
  kept,           \* the child that alone PUT each name, or None
  partial         \* names a child died writing

files == <<dir, data>>
child == <<pc, name, fd, size, got>>
history == <<alone, kept, partial>>
vars == <<files, child, list, history>>

\* The offset in the buffer, the names whole in it, those sent whole, those cut off;
\* those readdir returned; those that were there all the time, or some of it; was
\* anything sent?
NoList == [offset |-> 0, buffer |-> {}, shown |-> {}, cut |-> {}, read |-> {},
           always |-> {}, ever |-> {}, sent |-> FALSE]

Init ==
  /\ dir = [n \in Names |-> None] /\ data = [i \in Inodes |-> << >>]
  /\ pc = [p \in Kids |-> "command"] /\ name = [p \in Kids |-> None]
  /\ fd = [p \in Kids |-> None]
  /\ size = [p \in Kids |-> 0] /\ got = [p \in Kids |-> << >>]
  /\ list = [p \in Kids |-> NoList]
  /\ alone = [p \in Kids |-> FALSE] /\ kept = [n \in Names |-> None] /\ partial = {}

-----------------------------------------------------------------------------
(* The file system                                                         *)

Present == {n \in Names : dir[n] # None}
Used == {dir[n] : n \in Names} \cup {fd[p] : p \in Kids}
NewInode == CHOOSE i \in Inodes : i \notin Used

\* A block at the place of the k-th; what lies between it and the end is a hole.
Written(blocks, k, b) ==
  [j \in 1 .. (IF k > Len(blocks) THEN k ELSE Len(blocks)) |->
     IF j = k THEN b ELSE IF j <= Len(blocks) THEN blocks[j] ELSE None]

\* What a LIST in progress may or must return changes with the directory.
Appears(n) ==
  list' = [p \in Kids |-> IF pc[p] = "listing"
                          THEN [list[p] EXCEPT !.ever = @ \cup {n}, !.read = @ \ {n}] ELSE list[p]]
Disappears(n) ==
  list' = [p \in Kids |-> IF pc[p] = "listing" THEN [list[p] EXCEPT !.always = @ \ {n}] ELSE list[p]]

Goto(p, place) == pc' = [pc EXCEPT ![p] = place]

\* The child closes its file, if it has one open, leaves the names as newDir, and is
\* at its next command.  An inode that has no name and is not open is freed.
Closes(p, newDir) ==
  /\ Goto(p, "command")
  /\ name' = [name EXCEPT ![p] = None] /\ fd' = [fd EXCEPT ![p] = None]
  /\ dir' = newDir
  /\ data' = [i \in Inodes |->
       IF (\E n \in Names : newDir[n] = i) \/ (\E q \in Kids \ {p} : fd[q] = i) THEN data[i] ELSE << >>]
  /\ got' = [got EXCEPT ![p] = << >>] /\ size' = [size EXCEPT ![p] = 0]
  /\ alone' = [alone EXCEPT ![p] = FALSE]

-----------------------------------------------------------------------------
(* PUT                                                                     *)

Putting(n) == {p \in Kids : pc[p] \in {"create", "writing"} /\ name[p] = n}
Getting(n) == {p \in Kids : pc[p] \in {"open", "reading"} /\ name[p] = n}

\* Mutant: no name is taken to exist.
NotFound(n) == FALSE

Found(n) == n \in Present

\* get_server_files(true): the name is looked up, and refused if it is there.
TestPut(p, n) ==
  /\ pc[p] = "command" /\ ~Found(n)
  /\ Goto(p, "create") /\ name' = [name EXCEPT ![p] = n]
  /\ alone' = [q \in Kids |-> IF q = p THEN Putting(n) = {} ELSE alone[q] /\ q \notin Putting(n) \cup Getting(n)]
  /\ UNCHANGED <<files, fd, size, got, list, kept, partial>>

\* main_receiver opens it for writing: if it is there by now, it is emptied.
Create(p) ==
  /\ pc[p] = "create" /\ ~(Inodes \subseteq Used) /\ Goto(p, "writing")
  /\ LET n == name[p]
     IN  IF dir[n] = None
         THEN LET i == NewInode
              IN  /\ dir' = [dir EXCEPT ![n] = i] /\ data' = [data EXCEPT ![i] = << >>]
                  /\ fd' = [fd EXCEPT ![p] = i] /\ Appears(n)
         ELSE /\ data' = [data EXCEPT ![dir[n]] = << >>]
              /\ fd' = [fd EXCEPT ![p] = dir[n]]
              /\ UNCHANGED <<dir, list>>
  /\ UNCHANGED <<name, size, got, history>>

CreateFails(p) ==
  /\ pc[p] = "create" /\ Closes(p, dir)
  /\ UNCHANGED <<list, kept, partial>>

MoreToWrite(k) == k < Blocks

\* A block reaches the file, at the place this child has got to.
Write(p) ==
  /\ pc[p] = "writing" /\ MoreToWrite(Len(got[p]))
  /\ got' = [got EXCEPT ![p] = Append(@, p)]
  /\ data' = [data EXCEPT ![fd[p]] = Written(@, Len(got[p]) + 1, p)]
  /\ UNCHANGED <<dir, pc, name, fd, size, list, history>>

PutEnds(p) ==
  /\ pc[p] = "writing" /\ Len(got[p]) = Blocks
  /\ Closes(p, dir)
  /\ kept' = IF alone[p] THEN [kept EXCEPT ![name[p]] = p] ELSE kept
  /\ UNCHANGED <<list, partial>>

\* Mutant: the file of a failed transfer stays.
NotRemoved(n) == dir

Removed(n) == [dir EXCEPT ![n] = None]

\* The transfer fails: whatever the name refers to now is removed.  If that is
\* nothing, spqr_assert ends the process, and a new one serves the next client.
PutFails(p) ==
  /\ pc[p] = "writing" /\ Len(got[p]) < Blocks
  /\ Closes(p, Removed(name[p])) /\ Disappears(name[p])
  /\ UNCHANGED <<kept, partial>>

\* The process ends in the middle: SIGTERM, or a failed call.
Dies(p) ==
  /\ pc[p] = "writing" /\ Closes(p, dir)
  /\ partial' = partial \cup {name[p]}
  /\ UNCHANGED <<list, kept>>

-----------------------------------------------------------------------------
(* GET                                                                     *)

TestGet(p, n) ==
  /\ pc[p] = "command" /\ n \in Present
  /\ Goto(p, "open") /\ name' = [name EXCEPT ![p] = n]
  /\ alone' = [alone EXCEPT ![p] = Putting(n) = {}]
  /\ UNCHANGED <<files, fd, size, got, list, kept, partial>>

\* Mutant: the last packet, which need not be full, is not counted.
FullPackets(blocks) == IF blocks = << >> THEN 0 ELSE Len(blocks) - 1

Packets(blocks) == Len(blocks)

\* main_sender opens it, if it is still there, and takes its size.
Open(p) ==
  /\ pc[p] = "open"
  /\ LET i == dir[name[p]]
     IN  IF i = None
         THEN Closes(p, dir)
         ELSE /\ Goto(p, "reading") /\ fd' = [fd EXCEPT ![p] = i]
              /\ size' = [size EXCEPT ![p] = Packets(data[i])]
              /\ UNCHANGED <<files, name, got, alone>>
  /\ UNCHANGED <<list, kept, partial>>

\* The next block, if it is still there.
Read(p) ==
  /\ pc[p] = "reading" /\ Len(got[p]) < size[p] /\ Len(got[p]) < Len(data[fd[p]])
  /\ got' = [got EXCEPT ![p] = Append(@, data[fd[p]][Len(@) + 1])]
  /\ UNCHANGED <<files, pc, name, fd, size, list, history>>

GetEnds(p) ==
  /\ pc[p] = "reading" /\ Closes(p, dir)
  /\ UNCHANGED <<list, kept, partial>>

-----------------------------------------------------------------------------
(* LIST                                                                    *)

ListStarts(p) ==
  /\ pc[p] = "command" /\ Goto(p, "listing")
  /\ list' = [list EXCEPT ![p] =
       [NoList EXCEPT !.offset = HeaderLength, !.always = Present, !.ever = Present]]
  /\ UNCHANGED <<files, name, fd, size, got, history>>

Fits(offset, n) == offset + LineLength[n] <= MAX_READ_LINE - 1

\* Mutant: a buffer with room for no more than the zero byte is not full.
IsOverfull(offset) == offset >= MAX_READ_LINE

IsFull(offset) == offset >= MAX_READ_LINE - 1

SentOff(l) == [l EXCEPT !.shown = @ \cup l.buffer, !.sent = TRUE, !.buffer = {}, !.offset = 0]

\* snprintf writes what fits and returns what it wanted to write.
Line(l, n) ==
  LET added == [l EXCEPT !.offset = @ + LineLength[n], !.read = @ \cup {n},
                         !.buffer = IF Fits(l.offset, n) THEN @ \cup {n} ELSE @,
                         !.cut = IF Fits(l.offset, n) THEN @ ELSE @ \cup {n}]
  IN  IF IsFull(added.offset) THEN SentOff(added) ELSE added

\* readdir returns a name.  Whether it returns one that was created or removed since
\* opendir is not said.
ReadDir(p) ==
  /\ pc[p] = "listing"
  /\ \E n \in list[p].ever \ list[p].read : list' = [list EXCEPT ![p] = Line(@, n)]
  /\ UNCHANGED <<files, child, history>>

\* Mutant: the last datagram is only sent if a line is in it.
HasLines(l) == l.buffer # {}

HasText(l) == l.offset > 0

\* readdir has no more: what is left is sent ...
ListEnds(p) ==
  /\ pc[p] = "listing" /\ list[p].always \subseteq list[p].read
  /\ Goto(p, "listed")
  /\ list' = [list EXCEPT ![p] = IF HasText(@) THEN SentOff(@) ELSE @]
  /\ UNCHANGED <<files, name, fd, size, got, history>>

\* ... and the function returns.
ListReturns(p) ==
  /\ pc[p] = "listed" /\ Goto(p, "command")
  /\ list' = [list EXCEPT ![p] = NoList]
  /\ UNCHANGED <<files, name, fd, size, got, history>>

-----------------------------------------------------------------------------
Put(p) ==
  \/ \E n \in Names : TestPut(p, n)
  \/ Create(p) \/ CreateFails(p) \/ Write(p) \/ PutEnds(p) \/ PutFails(p) \/ Dies(p)

Get(p) == (\E n \in Names : TestGet(p, n)) \/ Open(p) \/ Read(p) \/ GetEnds(p)

List(p) == ListStarts(p) \/ ReadDir(p) \/ ListEnds(p) \/ ListReturns(p)

Next == \E p \in Kids : Put(p) \/ Get(p) \/ List(p)

Spec == Init /\ [][Next]_vars
=============================================================================
