---------------------------- MODULE FileStoreProofs ----------------------------
(***************************************************************************)
(* Proofs about FileStore, for any number of children, names and blocks.   *)
(***************************************************************************)
EXTENDS FileStoreProperties, SpqrLemmas, SequenceTheorems, FiniteSetTheorems, TLAPS

Block == Kids \cup {None}

\* What TypeOK says of the blocks of an inode, and of those a child has read.
LEMMA SequenceTypes ==
  ASSUME TypeOK
  PROVE  /\ \A i \in Inodes : data[i] \in Seq(Block) /\ Len(data[i]) \in 0 .. Blocks
         /\ \A p \in Kids : got[p] \in Seq(Block) /\ Len(got[p]) \in 0 .. Blocks
BY LenProperties DEF TypeOK, Block

\* A function on a beginning of the numbers is a sequence.
LEMMA SequenceOf ==
  ASSUME NEW S, NEW n \in Nat, NEW f \in [1 .. n -> S]
  PROVE  f \in Seq(S) /\ Len(f) = n
BY SeqDef

\* A block at a place from 1 to Blocks keeps the type of a file ...
LEMMA WrittenType ==
  ASSUME NEW blocks \in Seq(Block), Len(blocks) <= Blocks,
         NEW k \in 1 .. Blocks, NEW b \in Block, FilesAssumption
  PROVE  /\ Written(blocks, k, b) \in Seq(Block)
         /\ Len(Written(blocks, k, b)) = (IF k > Len(blocks) THEN k ELSE Len(blocks))
         /\ Len(Written(blocks, k, b)) \in 0 .. Blocks
<1> DEFINE n == IF k > Len(blocks) THEN k ELSE Len(blocks)
<1>1. Len(blocks) \in Nat /\ \A j \in 1 .. Len(blocks) : blocks[j] \in Block
      BY LenProperties, ElementOfSeq
<1>2. n \in 0 .. Blocks /\ n \in Nat  BY <1>1 DEF FilesAssumption
<1>3. Written(blocks, k, b) \in [1 .. n -> Block]  BY <1>1, <1>2 DEF Written, Block
<1> HIDE DEF n
<1>4. Written(blocks, k, b) \in Seq(Block) /\ Len(Written(blocks, k, b)) = n
      BY <1>2, <1>3, SequenceOf
<1> QED  BY <1>2, <1>4 DEF n

\* ... and leaves its other blocks.
LEMMA WrittenBlocks ==
  ASSUME NEW blocks \in Seq(Block), Len(blocks) <= Blocks,
         NEW k \in 1 .. Blocks, NEW b \in Block, FilesAssumption
  PROVE  /\ Written(blocks, k, b)[k] = b
         /\ \A j \in 1 .. Len(blocks) : j # k => Written(blocks, k, b)[j] = blocks[j]
<1>1. Len(blocks) \in Nat  BY LenProperties
<1> QED  BY <1>1 DEF Written, FilesAssumption

-----------------------------------------------------------------------------
\* Closing a file keeps the types; its inode keeps its blocks while it has a name or
\* another child has it open.
LEMMA ClosesType ==
  ASSUME TypeOK, NEW p \in Kids, NEW d \in [Names -> Inodes \cup {None}], Closes(p, d)
  PROVE  /\ dir' \in [Names -> Inodes \cup {None}]
         /\ DOMAIN data' = Inodes
         /\ \A i \in Inodes : data'[i] \in Seq(Kids \cup {None}) /\ Len(data'[i]) <= Blocks
         /\ pc' \in [Kids -> {"command", "create", "writing", "open", "reading", "listing", "listed"}]
         /\ name' \in [Kids -> Names \cup {None}]
         /\ fd' \in [Kids -> Inodes \cup {None}]
         /\ \A q \in Kids : pc'[q] = "listing" => pc[q] = "listing"
         /\ \A q \in Kids : pc'[q] \in {"writing", "reading"} <=> fd'[q] # None
         /\ size' \in [Kids -> 0 .. Blocks]
         /\ DOMAIN got' = Kids
         /\ \A q \in Kids : got'[q] \in Seq(Kids \cup {None}) /\ Len(got'[q]) <= Blocks
         /\ alone' \in [Kids -> BOOLEAN]
<1>1. << >> \in Seq(Kids \cup {None}) /\ Len(<< >>) = 0 /\ 0 <= Blocks
      BY FilesAssumption, EmptySeq
<1>2. pc' = [pc EXCEPT ![p] = "command"]  BY DEF Closes, Goto
<1>3. \A i \in Inodes : data'[i] = data[i] \/ data'[i] = << >>  BY DEF Closes
<1>4. \A q \in Kids : got'[q] = got[q] \/ got'[q] = << >>  BY DEF Closes, TypeOK
<1> QED  BY <1>1, <1>2, <1>3, <1>4, FilesAssumption DEF Closes, TypeOK

\* The directory changes: LIST's records keep their types and offsets.
LEMMA ListTypes ==
  ASSUME TypeOK, NEW n \in Names, Appears(n) \/ Disappears(n)
  PROVE  list' \in [Kids -> Lists] /\ \A p \in Kids : list'[p].offset = list[p].offset
<1>1. \A p \in Kids : list[p] \in Lists  BY DEF TypeOK
<1>2. \A p \in Kids :
        /\ [list[p] EXCEPT !.ever = @ \cup {n}, !.read = @ \ {n}] \in Lists
        /\ [list[p] EXCEPT !.ever = @ \cup {n}, !.read = @ \ {n}].offset = list[p].offset
        /\ [list[p] EXCEPT !.always = @ \ {n}] \in Lists
        /\ [list[p] EXCEPT !.always = @ \ {n}].offset = list[p].offset
      BY <1>1 DEF Lists
<1>3. ASSUME NEW p \in Kids
      PROVE  list'[p] \in Lists /\ list'[p].offset = list[p].offset
  <2>1. \/ list'[p] = list[p]
        \/ list'[p] = [list[p] EXCEPT !.ever = @ \cup {n}, !.read = @ \ {n}]
        \/ list'[p] = [list[p] EXCEPT !.always = @ \ {n}]
        BY DEF Appears, Disappears
  <2> QED  BY <1>1, <1>2, <2>1
<1>4. DOMAIN list' = Kids /\ list' = [p \in Kids |-> list'[p]]  BY DEF Appears, Disappears
<1> QED  BY <1>3, <1>4

\* PUT keeps the types, ...
LEMMA PutType ==
  ASSUME TypeOK, NameInv, NEW p \in Kids, Put(p)
  PROVE  TypeOK'
<1> USE FilesAssumption
<1>1. ASSUME NEW n \in Names, TestPut(p, n)  PROVE TypeOK'
  BY <1>1 DEF TypeOK, TestPut, Goto, files
<1>2. CASE Create(p)
  <2>1. name[p] \in Names  BY <1>2 DEF NameInv, Create
  <2>2. NewInode \in Inodes  BY <1>2 DEF Create, NewInode
  <2>3. << >> \in Seq(Kids \cup {None}) /\ Len(<< >>) = 0  BY EmptySeq
  <2>4. CASE dir[name[p]] = None
    <3>1. Appears(name[p]) /\ UNCHANGED <<name, size, got, history>>
          /\ dir' = [dir EXCEPT ![name[p]] = NewInode] /\ data' = [data EXCEPT ![NewInode] = << >>]
          /\ fd' = [fd EXCEPT ![p] = NewInode] /\ pc' = [pc EXCEPT ![p] = "writing"]
          BY <1>2, <2>4 DEF Create, Goto
    <3>2. list' \in [Kids -> Lists] /\ \A q \in Kids : list'[q].offset = list[q].offset
          BY <2>1, <3>1, ListTypes
    <3>3. NewInode # None /\ fd' \in [Kids -> Inodes \cup {None}]
          BY <2>2, <3>1 DEF TypeOK
    <3>4. \A q \in Kids : pc'[q] \in {"writing", "reading"} <=> fd'[q] # None
          BY <3>1, <3>3 DEF TypeOK
    <3>5. /\ dir' \in [Names -> Inodes \cup {None}] /\ DOMAIN data' = Inodes
          /\ \A i \in Inodes : data'[i] \in Seq(Kids \cup {None}) /\ Len(data'[i]) <= Blocks
          BY <2>1, <2>2, <2>3, <3>1 DEF TypeOK
    <3>6. /\ pc' \in [Kids -> {"command", "create", "writing", "open", "reading", "listing", "listed"}]
          /\ \A q \in Kids : pc'[q] = "listing" => list'[q].offset \in 0 .. MAX_READ_LINE - 2
          BY <3>1, <3>2 DEF TypeOK
    <3> QED  BY <3>1, <3>2, <3>3, <3>4, <3>5, <3>6 DEF TypeOK, history
  <2>5. CASE dir[name[p]] # None
    <3>1. UNCHANGED <<name, size, got, history, dir, list>>
          /\ data' = [data EXCEPT ![dir[name[p]]] = << >>]
          /\ fd' = [fd EXCEPT ![p] = dir[name[p]]] /\ pc' = [pc EXCEPT ![p] = "writing"]
          BY <1>2, <2>5 DEF Create, Goto
    <3>2. dir[name[p]] \in Inodes  BY <2>1, <2>5 DEF TypeOK
    <3> QED  BY <2>3, <3>1, <3>2 DEF TypeOK, history
  <2> QED  BY <2>4, <2>5
<1>3. CASE CreateFails(p)
  <2>1. Closes(p, dir) /\ UNCHANGED <<list, kept, partial>>  BY <1>3 DEF CreateFails
  <2> QED  BY <2>1, ClosesType DEF TypeOK
<1>4. CASE Write(p)
  <2>1. fd[p] \in Inodes  BY <1>4 DEF Write, TypeOK
  <2>2. Len(got[p]) + 1 \in 1 .. Blocks  BY <1>4, SequenceTypes DEF Write, MoreToWrite
  <2>3. Append(got[p], p) \in Seq(Kids \cup {None}) /\ Len(Append(got[p], p)) <= Blocks
        BY <2>2, SequenceTypes, AppendProperties DEF Block
  <2>a. p \in Block /\ data[fd[p]] \in Seq(Block) /\ Len(data[fd[p]]) <= Blocks
        BY <2>1, SequenceTypes DEF Block
  <2>b. /\ Written(data[fd[p]], Len(got[p]) + 1, p) \in Seq(Block)
        /\ Len(Written(data[fd[p]], Len(got[p]) + 1, p)) \in 0 .. Blocks
        BY <2>2, <2>a, WrittenType
  <2>4. /\ Written(data[fd[p]], Len(got[p]) + 1, p) \in Seq(Kids \cup {None})
        /\ Len(Written(data[fd[p]], Len(got[p]) + 1, p)) <= Blocks
        BY <2>b DEF Block
  <2>5. /\ got' = [got EXCEPT ![p] = Append(got[p], p)]
        /\ data' = [data EXCEPT ![fd[p]] = Written(data[fd[p]], Len(got[p]) + 1, p)]
        /\ UNCHANGED <<dir, pc, name, fd, size, list, history>>
        BY <1>4 DEF Write
  <2> QED  BY <2>1, <2>3, <2>4, <2>5 DEF TypeOK, history
<1>5. CASE PutEnds(p)
  <2>1. Closes(p, dir) /\ UNCHANGED <<list, partial>>
        /\ kept' = IF alone[p] THEN [kept EXCEPT ![name[p]] = p] ELSE kept
        BY <1>5 DEF PutEnds
  <2> QED  BY <2>1, ClosesType DEF TypeOK
<1>6. CASE PutFails(p)
  <2>1. Closes(p, Removed(name[p])) /\ Disappears(name[p]) /\ UNCHANGED <<kept, partial>>
        BY <1>6 DEF PutFails
  <2>2. name[p] \in Names  BY <1>6 DEF NameInv, PutFails
  <2>3. Removed(name[p]) \in [Names -> Inodes \cup {None}]  BY DEF Removed, TypeOK
  <2>4. list' \in [Kids -> Lists] /\ \A q \in Kids : list'[q].offset = list[q].offset
        BY <2>1, <2>2, ListTypes
  <2> QED  BY <2>1, <2>3, <2>4, ClosesType DEF TypeOK
<1>7. CASE Dies(p)
  <2>1. Closes(p, dir) /\ UNCHANGED <<list, kept>> /\ partial' = partial \cup {name[p]}
        BY <1>7 DEF Dies
  <2>2. name[p] \in Names  BY <1>7 DEF NameInv, Dies
  <2> QED  BY <2>1, <2>2, ClosesType DEF TypeOK
<1> QED  BY <1>1, <1>2, <1>3, <1>4, <1>5, <1>6, <1>7 DEF Put

\* ... and so does GET, ...
LEMMA GetType ==
  ASSUME TypeOK, NameInv, NEW p \in Kids, Get(p)
  PROVE  TypeOK'
<1> USE FilesAssumption
<1>1. ASSUME NEW n \in Names, TestGet(p, n)  PROVE TypeOK'
  BY <1>1 DEF TypeOK, TestGet, Goto, files
<1>2. CASE Open(p)
  <2>1. name[p] \in Names  BY <1>2 DEF NameInv, Open
  <2>2. CASE dir[name[p]] = None
    <3>1. Closes(p, dir) /\ UNCHANGED <<list, kept, partial>>  BY <1>2, <2>2 DEF Open
    <3> QED  BY <3>1, ClosesType DEF TypeOK
  <2>3. CASE dir[name[p]] # None
    <3>1. dir[name[p]] \in Inodes  BY <2>1, <2>3 DEF TypeOK
    <3>2. Packets(data[dir[name[p]]]) \in 0 .. Blocks  BY <3>1, SequenceTypes DEF Packets
    <3>3. /\ pc' = [pc EXCEPT ![p] = "reading"] /\ fd' = [fd EXCEPT ![p] = dir[name[p]]]
          /\ size' = [size EXCEPT ![p] = Packets(data[dir[name[p]]])]
          /\ UNCHANGED <<files, name, got, alone, list, kept, partial>>
          BY <1>2, <2>3 DEF Open, Goto
    <3> QED  BY <3>1, <3>2, <3>3 DEF TypeOK, files
  <2> QED  BY <2>2, <2>3
<1>3. CASE Read(p)
  <2>1. fd[p] \in Inodes /\ size[p] \in 0 .. Blocks  BY <1>3 DEF Read, TypeOK
  <2>2. Len(got[p]) + 1 \in 1 .. Len(data[fd[p]]) /\ Len(got[p]) + 1 <= Blocks
        BY <1>3, <2>1, SequenceTypes DEF Read
  <2>3. data[fd[p]][Len(got[p]) + 1] \in Block  BY <2>1, <2>2, SequenceTypes, ElementOfSeq
  <2>4. /\ Append(got[p], data[fd[p]][Len(got[p]) + 1]) \in Seq(Kids \cup {None})
        /\ Len(Append(got[p], data[fd[p]][Len(got[p]) + 1])) <= Blocks
        BY <2>2, <2>3, SequenceTypes, AppendProperties DEF Block
  <2>5. /\ got' = [got EXCEPT ![p] = Append(got[p], data[fd[p]][Len(got[p]) + 1])]
        /\ UNCHANGED <<files, pc, name, fd, size, list, history>>
        BY <1>3 DEF Read
  <2> QED  BY <2>4, <2>5 DEF TypeOK, files, history
<1>4. CASE GetEnds(p)
  <2>1. Closes(p, dir) /\ UNCHANGED <<list, kept, partial>>  BY <1>4 DEF GetEnds
  <2> QED  BY <2>1, ClosesType DEF TypeOK
<1> QED  BY <1>1, <1>2, <1>3, <1>4 DEF Get

\* Sending a buffer leaves it empty.
LEMMA SentOffType ==
  ASSUME NEW l \in Lists
  PROVE  SentOff(l) \in Lists /\ SentOff(l).offset = 0
BY DEF Lists, SentOff

\* A line is added to the buffer, which is sent if it is full then.
LEMMA LineType ==
  ASSUME NEW l \in Lists, NEW n \in Names
  PROVE  Line(l, n) \in Lists /\ Line(l, n).offset \in 0 .. MAX_READ_LINE - 2
<1> USE LinesAssumption
<1> DEFINE b == IF Fits(l.offset, n) THEN l.buffer \cup {n} ELSE l.buffer
           c == IF Fits(l.offset, n) THEN l.cut ELSE l.cut \cup {n}
           o == l.offset + LineLength[n]
           r == l.read \cup {n}
           added == [l EXCEPT !.offset = o, !.read = r, !.buffer = b, !.cut = c]
<1>1. o \in Nat /\ r \in SUBSET Names /\ b \in SUBSET Names /\ c \in SUBSET Names
      BY DEF Lists
<1>b. Line(l, n) = IF IsFull(added.offset) THEN SentOff(added) ELSE added  BY DEF Line
<1> HIDE DEF b, c, o, r
<1>2. added \in Lists /\ added.offset = o /\ added.offset \in Nat
      BY <1>1 DEF Lists
<1>3. Line(l, n) = IF IsFull(added.offset) THEN SentOff(added) ELSE added  BY <1>b
<1> HIDE DEF added
<1>4. SentOff(added) \in Lists /\ SentOff(added).offset = 0  BY <1>2, SentOffType
<1>5. 0 \in 0 .. MAX_READ_LINE - 2  OBVIOUS
<1>6. ~IsFull(added.offset) => added.offset \in 0 .. MAX_READ_LINE - 2
      BY <1>2 DEF IsFull
<1> QED  BY <1>2, <1>3, <1>4, <1>5, <1>6

\* ... and LIST.
LEMMA ListType ==
  ASSUME TypeOK, NEW p \in Kids, List(p)
  PROVE  TypeOK'
<1> USE LinesAssumption
<1>0. NoList \in Lists  BY DEF NoList, Lists
<1>1. CASE ListStarts(p)
  <2> DEFINE l == [NoList EXCEPT !.offset = HeaderLength, !.always = Present, !.ever = Present]
  <2>1. l \in Lists /\ l.offset = HeaderLength  BY <1>0 DEF Lists, NoList, Present
  <2>2. HeaderLength \in 0 .. MAX_READ_LINE - 2  OBVIOUS
  <2>3. /\ pc[p] = "command" /\ pc' = [pc EXCEPT ![p] = "listing"] /\ list' = [list EXCEPT ![p] = l]
        /\ UNCHANGED <<files, name, fd, size, got, history>>
        BY <1>1 DEF ListStarts, Goto
  <2> HIDE DEF l
  <2> QED  BY <2>1, <2>2, <2>3 DEF TypeOK, files, history
<1>2. CASE ReadDir(p)
  <2>1. PICK n \in list[p].ever \ list[p].read : list' = [list EXCEPT ![p] = Line(@, n)]
        BY <1>2 DEF ReadDir
  <2>2. list[p] \in Lists /\ n \in Names  BY <2>1 DEF TypeOK, Lists
  <2>3. Line(list[p], n) \in Lists /\ Line(list[p], n).offset \in 0 .. MAX_READ_LINE - 2
        BY <2>2, LineType
  <2>4. UNCHANGED <<files, child, history>>  BY <1>2 DEF ReadDir
  <2> QED  BY <2>1, <2>3, <2>4 DEF TypeOK, files, child, history
<1>3. CASE ListEnds(p)
  <2>0. list[p] \in Lists  BY DEF TypeOK
  <2>1. SentOff(list[p]) \in Lists  BY <2>0, SentOffType
  <2>2. /\ pc[p] = "listing" /\ pc' = [pc EXCEPT ![p] = "listed"]
        /\ list' = [list EXCEPT ![p] = IF HasText(list[p]) THEN SentOff(list[p]) ELSE list[p]]
        /\ UNCHANGED <<files, name, fd, size, got, history>>
        BY <1>3 DEF ListEnds, Goto
  <2> QED  BY <2>0, <2>1, <2>2 DEF TypeOK, files, history
<1>4. CASE ListReturns(p)
  <2>1. /\ pc[p] = "listed" /\ pc' = [pc EXCEPT ![p] = "command"]
        /\ list' = [list EXCEPT ![p] = NoList]
        /\ UNCHANGED <<files, name, fd, size, got, history>>
        BY <1>4 DEF ListReturns, Goto
  <2> QED  BY <1>0, <2>1 DEF TypeOK, files, history
<1> QED  BY <1>1, <1>2, <1>3, <1>4 DEF List

-----------------------------------------------------------------------------
\* What an inode holds while a file is closed.
LEMMA ClosesData ==
  ASSUME TypeOK, NEW p \in Kids, NEW d, Closes(p, d), NEW i \in Inodes,
         (\E n \in Names : d[n] = i) \/ (\E q \in Kids \ {p} : fd[q] = i)
  PROVE  data'[i] = data[i]
BY DEF Closes

\* What becomes of the children when one closes its file.
LEMMA ClosesChildren ==
  ASSUME TypeOK, NEW p \in Kids, NEW d, Closes(p, d)
  PROVE  /\ dir' = d
         /\ pc'[p] = "command" /\ fd'[p] = None /\ alone'[p] = FALSE
         /\ \A q \in Kids \ {p} :
              /\ pc'[q] = pc[q] /\ name'[q] = name[q] /\ fd'[q] = fd[q]
              /\ size'[q] = size[q] /\ got'[q] = got[q] /\ alone'[q] = alone[q]
         /\ \A n \in Names : Putting(n)' = Putting(n) \ {p}
<1>1. /\ dir' = d /\ pc'[p] = "command" /\ fd'[p] = None /\ alone'[p] = FALSE
      /\ \A q \in Kids \ {p} :
           /\ pc'[q] = pc[q] /\ name'[q] = name[q] /\ fd'[q] = fd[q]
           /\ size'[q] = size[q] /\ got'[q] = got[q] /\ alone'[q] = alone[q]
      BY DEF Closes, Goto, TypeOK
<1>2. ASSUME NEW n \in Names  PROVE Putting(n)' = Putting(n) \ {p}
  BY <1>1 DEF Putting
<1> QED  BY <1>1, <1>2

\* What does not touch the directory or who puts a name keeps the files.
LEMMA KeptUnchanged ==
  ASSUME KeptInv, UNCHANGED <<dir, data, kept>>, \A m \in Names : Putting(m)' = Putting(m)
  PROVE  KeptInv'
<1>1. ASSUME NEW n \in Names, kept'[n] # None
      PROVE  Putting(n)' = {} /\ dir'[n] # None /\ data'[dir'[n]] = [k \in 1 .. Blocks |-> kept'[n]]
  <2>1. Putting(n) = {} /\ dir[n] # None /\ data[dir[n]] = [k \in 1 .. Blocks |-> kept[n]]
        BY <1>1 DEF KeptInv
  <2> HIDE DEF Putting
  <2>2. Putting(n)' = {}  BY <2>1
  <2> QED  BY <2>1, <2>2
<1> QED  BY <1>1 DEF KeptInv

\* Nor does what leaves those who write where they are.
LEMMA BlocksUnchanged ==
  ASSUME BlockInv, UNCHANGED <<dir, data, partial>>,
         \A q \in Kids : pc[q] = "writing" => pc'[q] = "writing" /\ fd'[q] = fd[q] /\ got'[q] = got[q]
  PROVE  BlockInv'
<1>1. ASSUME NEW n \in Names, dir[n] # None, n \notin partial, NEW k \in 1 .. Blocks
      PROVE  \/ k <= Len(data[dir[n]]) /\ data[dir[n]][k] \in Kids
             \/ \E q \in Kids : pc'[q] = "writing" /\ fd'[q] = dir[n] /\ Len(got'[q]) < k
  <2>1. CASE k <= Len(data[dir[n]]) /\ data[dir[n]][k] \in Kids  BY <2>1
  <2>2. CASE ~(k <= Len(data[dir[n]]) /\ data[dir[n]][k] \in Kids)
    <3>1. PICK q \in Kids : pc[q] = "writing" /\ fd[q] = dir[n] /\ Len(got[q]) < k
          BY <1>1, <2>2 DEF BlockInv
    <3> QED  BY <3>1
  <2> QED  BY <2>1, <2>2
<1> QED  BY <1>1 DEF BlockInv

\* A child closes its file and takes its name with it if it must: the invariant holds
\* for the others, whose files keep their blocks.
LEMMA ClosesInv ==
  ASSUME TypeOK, StoreInv, NEW p \in Kids, NEW d, Closes(p, d),
         d = dir \/ (d = Removed(name[p]) /\ pc[p] = "writing"),
         \A n \in Names : \/ kept'[n] = kept[n]
                          \/ /\ n = name[p] /\ alone[p] /\ kept'[n] = p
                             /\ pc[p] = "writing" /\ Len(got[p]) = Blocks /\ d = dir,
         partial \subseteq partial',
         pc[p] = "writing" =>
           Len(got[p]) = Blocks \/ d = Removed(name[p]) \/ name[p] \in partial'
  PROVE  StoreInv'
<1> USE FilesAssumption
<1>1. /\ dir' = d /\ pc'[p] = "command" /\ fd'[p] = None /\ alone'[p] = FALSE
      /\ \A q \in Kids \ {p} :
           /\ pc'[q] = pc[q] /\ name'[q] = name[q] /\ fd'[q] = fd[q]
           /\ size'[q] = size[q] /\ got'[q] = got[q] /\ alone'[q] = alone[q]
      /\ \A n \in Names : Putting(n)' = Putting(n) \ {p}
      BY ClosesChildren
<1>2. got'[p] = << >>  BY DEF Closes, TypeOK
<1>3. \A n \in Names : d[n] = dir[n] \/ (n = name[p] /\ pc[p] = "writing" /\ d[n] = None)
      BY DEF Removed, TypeOK
<1>4. \A n \in Names : d[n] # None => d[n] = dir[n] /\ dir[n] \in Inodes /\ data'[d[n]] = data[d[n]]
  <2>1. ASSUME NEW n \in Names, d[n] # None
        PROVE  d[n] = dir[n] /\ dir[n] \in Inodes  BY <1>3, <2>1 DEF TypeOK
  <2> QED  BY <2>1, ClosesData
<1>5. \A q \in Kids \ {p} : fd[q] # None => data'[fd[q]] = data[fd[q]]
  <2>1. \A q \in Kids : fd[q] # None => fd[q] \in Inodes  BY DEF TypeOK
  <2> QED  BY <2>1, ClosesData
<1>6. \A n \in Names : n = name[p] /\ pc[p] = "writing" => p \in Putting(n)  BY DEF Putting
<1>7. NameInv'  BY <1>1, <1>2, <1>3, <1>4 DEF NameInv, StoreInv
<1>8. SoleWriter'
  <2> SUFFICES ASSUME NEW q \in Kids \ {p}, alone[q], pc[q] \in {"create", "writing"}
               PROVE  /\ Putting(name[q])' = {q}
                      /\ pc[q] = "create" => d[name[q]] = None
                      /\ pc[q] = "writing" =>
                           d[name[q]] = fd[q] /\ data'[fd[q]] = [k \in 1 .. Len(got[q]) |-> q]
      BY <1>1 DEF SoleWriter, Putting
  <2>1. name[q] \in Names /\ Putting(name[q]) = {q}  BY DEF StoreInv, NameInv, SoleWriter
  <2>2. d[name[q]] = dir[name[q]]  BY <1>3, <1>6, <2>1
  <2>3. pc[q] = "writing" => fd[q] # None  BY DEF TypeOK
  <2>4. /\ pc[q] = "create" => dir[name[q]] = None
        /\ pc[q] = "writing" =>
             dir[name[q]] = fd[q] /\ data[fd[q]] = [k \in 1 .. Len(got[q]) |-> q]
        BY DEF StoreInv, SoleWriter
  <2> QED  BY <1>1, <1>5, <2>1, <2>2, <2>3, <2>4
<1>9. SoleReader'
  <2> SUFFICES ASSUME NEW q \in Kids \ {p}, alone[q], pc[q] \in {"open", "reading"}
               PROVE  /\ Putting(name[q])' = {} /\ d[name[q]] # None
                      /\ pc[q] = "reading" =>
                           /\ d[name[q]] = fd[q] /\ size[q] = Len(data'[fd[q]]) /\ Len(got[q]) <= size[q]
                           /\ \A k \in 1 .. Len(got[q]) : got[q][k] = data'[fd[q]][k]
      BY <1>1 DEF SoleReader, Putting
  <2>1. name[q] \in Names /\ Putting(name[q]) = {} /\ dir[name[q]] # None
        BY DEF StoreInv, NameInv, SoleReader
  <2>2. d[name[q]] = dir[name[q]]  BY <1>3, <1>6, <2>1
  <2>3. pc[q] = "reading" => fd[q] # None  BY DEF TypeOK
  <2>4. pc[q] = "reading" =>
          /\ dir[name[q]] = fd[q] /\ size[q] = Len(data[fd[q]]) /\ Len(got[q]) <= size[q]
          /\ \A k \in 1 .. Len(got[q]) : got[q][k] = data[fd[q]][k]
        BY DEF StoreInv, SoleReader
  <2>5. pc[q] = "reading" => data'[fd[q]] = data[fd[q]]  BY <1>5, <2>3
  <2> QED  BY <1>1, <2>1, <2>2, <2>4, <2>5
<1>10. KeptInv'
  <2> SUFFICES ASSUME NEW n \in Names, kept'[n] # None
               PROVE  /\ Putting(n)' = {} /\ d[n] # None
                      /\ data'[d[n]] = [k \in 1 .. Blocks |-> kept'[n]]
      BY <1>1 DEF KeptInv, Putting
  <2>1. CASE kept'[n] = kept[n]
    <3>1. Putting(n) = {} /\ dir[n] # None /\ data[dir[n]] = [k \in 1 .. Blocks |-> kept[n]]
          BY <2>1 DEF StoreInv, KeptInv
    <3>2. d[n] = dir[n]  BY <1>3, <1>6, <3>1
    <3> QED  BY <1>1, <1>4, <2>1, <3>1, <3>2
  <2>2. CASE /\ n = name[p] /\ alone[p] /\ kept'[n] = p
             /\ pc[p] = "writing" /\ Len(got[p]) = Blocks /\ d = dir
    <3>1. Putting(n) = {p} /\ dir[n] = fd[p] /\ data[fd[p]] = [k \in 1 .. Blocks |-> p]
          BY <2>2 DEF StoreInv, SoleWriter
    <3>2. fd[p] # None  BY <2>2 DEF TypeOK
    <3>3. Putting(n)' = {}  BY <1>1, <3>1
    <3>4. d[n] # None /\ data'[d[n]] = [k \in 1 .. Blocks |-> p]  BY <1>4, <2>2, <3>1, <3>2
    <3> QED  BY <2>2, <3>3, <3>4
  <2> QED  BY <2>1, <2>2
<1>11. BlockInv'
  <2> SUFFICES ASSUME NEW n \in Names, d[n] # None, n \notin partial', NEW k \in 1 .. Blocks
               PROVE  \/ k <= Len(data'[d[n]]) /\ data'[d[n]][k] \in Kids
                      \/ \E q \in Kids : pc'[q] = "writing" /\ fd'[q] = d[n] /\ Len(got'[q]) < k
      BY <1>1 DEF BlockInv
  <2>1. d[n] = dir[n] /\ data'[d[n]] = data[dir[n]] /\ dir[n] # None /\ n \notin partial
        BY <1>4
  <2>2. \/ k <= Len(data[dir[n]]) /\ data[dir[n]][k] \in Kids
        \/ \E q \in Kids : pc[q] = "writing" /\ fd[q] = dir[n] /\ Len(got[q]) < k
        BY <2>1 DEF StoreInv, BlockInv
  <2>3. ASSUME pc[p] = "writing", fd[p] = dir[n], Len(got[p]) < k  PROVE FALSE
    <3>1. n = name[p]  BY <2>1, <2>3 DEF StoreInv, NameInv
    <3>2. Len(got[p]) # Blocks  BY <2>3, SequenceTypes
    <3>3. d = Removed(name[p])  BY <2>3, <3>1, <3>2
    <3>4. d[n] = None  BY <3>1, <3>3 DEF Removed, TypeOK
    <3> QED  BY <3>4
  <2> QED  BY <1>1, <2>1, <2>2, <2>3
<1> QED  BY <1>7, <1>8, <1>9, <1>10, <1>11 DEF StoreInv

\* LIST reads the directory and changes no file.
LEMMA ListInv ==
  ASSUME TypeOK, StoreInv, NEW p \in Kids, List(p)
  PROVE  StoreInv'
<1>1. UNCHANGED <<dir, data, name, fd, size, got, alone, kept, partial>>
      BY DEF List, ListStarts, ReadDir, ListEnds, ListReturns, files, child, history
<1>2. \A q \in Kids : \A s \in {"create", "writing", "open", "reading"} : pc'[q] = s <=> pc[q] = s
      BY DEF List, ListStarts, ReadDir, ListEnds, ListReturns, child, Goto, TypeOK
<1>3. \A n \in Names \cup {None} : Putting(n)' = Putting(n)  BY <1>1, <1>2 DEF Putting
<1>4. \A q \in Kids : name[q] \in Names \cup {None}  BY DEF TypeOK
<1>5. NameInv'  BY <1>1, <1>2 DEF NameInv, StoreInv
<1>6. SoleWriter'  BY <1>1, <1>2, <1>3, <1>4 DEF SoleWriter, StoreInv
<1>7. SoleReader'  BY <1>1, <1>2, <1>3, <1>4 DEF SoleReader, StoreInv
<1>8. KeptInv'  BY <1>1, <1>3 DEF KeptInv, StoreInv
<1>9. BlockInv'  BY <1>1, <1>2 DEF BlockInv, StoreInv
<1> QED  BY <1>5, <1>6, <1>7, <1>8, <1>9 DEF StoreInv

\* A PUT that begins is alone unless another has the name, and ends that of others.
LEMMA TestPutInv ==
  ASSUME TypeOK, StoreInv, NEW p \in Kids, NEW n \in Names, TestPut(p, n)
  PROVE  StoreInv'
<1>1. /\ pc[p] = "command" /\ dir[n] = None /\ fd[p] = None
      /\ UNCHANGED <<dir, data, fd, size, got, kept, partial>>
      BY DEF TestPut, Found, Present, files, TypeOK
<1>2. pc'[p] = "create" /\ name'[p] = n /\ (alone'[p] <=> Putting(n) = {})
      BY DEF TestPut, Goto, TypeOK
<1>3. \A q \in Kids \ {p} :
        /\ pc'[q] = pc[q] /\ name'[q] = name[q]
        /\ alone'[q] => alone[q] /\ q \notin Putting(n) \cup Getting(n)
      BY DEF TestPut, Goto, TypeOK
<1>4. \A m \in Names : Putting(m)' = IF m = n THEN Putting(m) \cup {p} ELSE Putting(m)
      BY <1>1, <1>2, <1>3 DEF Putting
<1>5. NameInv'  BY <1>1, <1>2, <1>3 DEF NameInv, StoreInv
<1>6. SoleWriter'
  <2>2. ASSUME NEW q \in Kids \ {p}, alone'[q], pc[q] \in {"create", "writing"}
        PROVE  alone[q] /\ name[q] \in Names /\ name[q] # n
        BY <1>3, <2>2 DEF Putting, StoreInv, NameInv
  <2>3. alone'[p] => Putting(n)' = {p}  BY <1>2, <1>4
  <2>4. ASSUME NEW q \in Kids \ {p}, alone'[q], pc[q] \in {"create", "writing"}
        PROVE  /\ Putting(name[q])' = {q}
               /\ pc[q] = "create" => dir[name[q]] = None
               /\ pc[q] = "writing" =>
                    dir[name[q]] = fd[q] /\ data[fd[q]] = [k \in 1 .. Len(got[q]) |-> q]
    <3>1. name'[q] \in Names /\ name'[q] = name[q] /\ name'[q] # n  BY <1>3, <2>2, <2>4
    <3>2. Putting(name[q]) = {q}  BY <2>2, <2>4 DEF StoreInv, SoleWriter
    <3>3. Putting(name[q])' = {q}  BY <1>4, <3>1, <3>2
    <3> QED  BY <2>2, <2>4, <3>3 DEF StoreInv, SoleWriter
  <2> QED  BY <1>1, <1>2, <1>3, <2>3, <2>4 DEF SoleWriter
<1>7. SoleReader'
  <2>1. ASSUME NEW q \in Kids \ {p}, alone'[q], pc[q] \in {"open", "reading"}
        PROVE  /\ Putting(name[q])' = {} /\ dir[name[q]] # None
               /\ pc[q] = "reading" =>
                    /\ dir[name[q]] = fd[q] /\ size[q] = Len(data[fd[q]]) /\ Len(got[q]) <= size[q]
                    /\ \A k \in 1 .. Len(got[q]) : got[q][k] = data[fd[q]][k]
    <3>1. alone[q] /\ name[q] \in Names /\ name[q] # n /\ name'[q] = name[q]
          BY <1>3, <2>1 DEF Getting, StoreInv, NameInv
    <3>2. Putting(name[q]) = {}  BY <2>1, <3>1 DEF StoreInv, SoleReader
    <3>3. Putting(name[q])' = {}  BY <1>4, <3>1, <3>2
    <3> QED  BY <2>1, <3>1, <3>3 DEF StoreInv, SoleReader
  <2> QED  BY <1>1, <1>2, <1>3, <2>1 DEF SoleReader
<1>8. KeptInv'  BY <1>1, <1>4 DEF KeptInv, StoreInv
<1>9. BlockInv'
  <2>1. \A q \in Kids : pc[q] = "writing" => pc'[q] = "writing"  BY <1>1, <1>3
  <2>2. BlockInv /\ UNCHANGED <<dir, data, fd, got, partial>>  BY <1>1 DEF StoreInv
  <2> QED  BY <2>1, <2>2, BlocksUnchanged
<1> QED  BY <1>5, <1>6, <1>7, <1>8, <1>9 DEF StoreInv

\* A child that opens its file for writing makes it, or empties it: then it has a
\* rival, and no file that others rely on has that name.
LEMMA CreateInv ==
  ASSUME TypeOK, StoreInv, NEW p \in Kids, Create(p)
  PROVE  StoreInv'
<1> USE FilesAssumption
<1> DEFINE n == name[p]
           i == fd'[p]
<1>1. /\ pc[p] = "create" /\ n \in Names /\ fd[p] = None /\ got[p] = << >>
      /\ p \in Putting(n)
      BY DEF Create, StoreInv, NameInv, TypeOK, Putting
<1>2. /\ pc'[p] = "writing" /\ UNCHANGED <<name, size, got, alone, kept, partial>>
      /\ \A q \in Kids \ {p} : pc'[q] = pc[q] /\ fd'[q] = fd[q]
      BY DEF Create, Goto, history, TypeOK
<1>3. /\ i \in Inodes /\ i # None /\ data'[i] = << >> /\ dir'[n] = i
      /\ \A m \in Names \ {n} : dir'[m] = dir[m] /\ dir[m] # i
      /\ \A j \in Inodes \ {i} : data'[j] = data[j]
      /\ dir[n] = None => i \notin Used
      /\ dir[n] # None => i = dir[n]
  <2>1. CASE dir[n] = None
    <3>1. NewInode \in Inodes \ Used  BY DEF Create, NewInode
    <3>2. /\ dir' = [dir EXCEPT ![n] = NewInode] /\ data' = [data EXCEPT ![NewInode] = << >>]
          /\ fd' = [fd EXCEPT ![p] = NewInode]
          BY <2>1 DEF Create
    <3>3. i = NewInode  BY <3>2 DEF TypeOK
    <3> HIDE DEF i
    <3> QED  BY <1>1, <2>1, <3>1, <3>2, <3>3 DEF TypeOK, Used
  <2>2. CASE dir[n] # None
    <3>1. UNCHANGED dir /\ data' = [data EXCEPT ![dir[n]] = << >>] /\ fd' = [fd EXCEPT ![p] = dir[n]]
          BY <2>2 DEF Create
    <3>2. dir[n] \in Inodes /\ \A m \in Names \ {n} : dir[m] # dir[n]
          BY <1>1, <2>2 DEF TypeOK, StoreInv, NameInv
    <3>3. i = dir[n]  BY <3>1 DEF TypeOK
    <3> HIDE DEF i
    <3> QED  BY <1>1, <2>2, <3>1, <3>2, <3>3 DEF TypeOK
  <2> QED  BY <2>1, <2>2
<1> HIDE DEF i
<1>4. \A m \in Names : Putting(m)' = Putting(m)  BY <1>1, <1>2 DEF Putting
<1>5. \A j \in Inodes, q \in Kids \ {p} : fd[q] = j => j \in Used  BY DEF Used
<1>6. NameInv'
  <2>1. \A m \in Names : dir[m] # None => dir[m] \in Used  BY DEF Used
  <2>2. ASSUME NEW q \in Kids, NEW m \in Names, fd'[q] # None, dir'[m] = fd'[q]
        PROVE  m = name[q]
    <3>1. CASE q = p  BY <1>3, <2>2, <3>1 DEF i
    <3>2. CASE q # p
      <4>1. fd[q] \in Inodes /\ fd'[q] = fd[q]  BY <1>2, <2>2, <3>2 DEF TypeOK
      <4>2. CASE m # n  BY <1>3, <2>2, <4>1, <4>2 DEF StoreInv, NameInv
      <4>3. CASE m = n  BY <1>3, <1>5, <2>2, <3>2, <4>1, <4>3 DEF StoreInv, NameInv
      <4> QED  BY <4>2, <4>3
    <3> QED  BY <3>1, <3>2
  <2>3. ASSUME NEW l \in Names, NEW m \in Names, dir'[l] = dir'[m], dir'[l] # None  PROVE l = m
        BY <1>3, <2>3 DEF StoreInv, NameInv
  <2>4. /\ \A q \in Kids : pc'[q] \in {"create", "writing", "open", "reading"} => name'[q] \in Names
        /\ \A q \in Kids : fd'[q] = None => got'[q] = << >>
        BY <1>1, <1>2 DEF StoreInv, NameInv
  <2> QED  BY <1>2, <2>2, <2>3, <2>4 DEF NameInv
<1>7. \A m \in Names : Putting(m) = {} \/ (\E q \in Kids \ {p} : Putting(m) = {q}) => m # n
      BY <1>1
<1>8. ASSUME NEW q \in Kids \ {p}, fd[q] # None, name[q] # n, dir[name[q]] = fd[q], name[q] \in Names
      PROVE  data'[fd[q]] = data[fd[q]] /\ dir'[name[q]] = fd[q]
      BY <1>3, <1>8 DEF TypeOK
<1>9. SoleWriter'
  <2>1. ASSUME alone[p]
        PROVE  /\ Putting(n) = {p} /\ dir'[n] = fd'[p]
               /\ data'[fd'[p]] = [k \in 1 .. Len(got[p]) |-> p]
    <3>1. << >> = [k \in 1 .. Len(got[p]) |-> p]  BY <1>1
    <3> QED  BY <1>1, <1>3, <2>1, <3>1 DEF i, StoreInv, SoleWriter
  <2>2. ASSUME NEW q \in Kids \ {p}, alone[q], pc[q] \in {"create", "writing"}
        PROVE  /\ name[q] \in Names /\ Putting(name[q]) = {q}
               /\ pc[q] = "create" => dir'[name[q]] = None
               /\ pc[q] = "writing" =>
                    dir'[name[q]] = fd[q] /\ data'[fd[q]] = [k \in 1 .. Len(got[q]) |-> q]
    <3>1. name[q] \in Names /\ Putting(name[q]) = {q} /\ name[q] # n
          BY <1>7, <2>2 DEF StoreInv, NameInv, SoleWriter
    <3>2. /\ pc[q] = "create" => dir[name[q]] = None
          /\ pc[q] = "writing" =>
               dir[name[q]] = fd[q] /\ data[fd[q]] = [k \in 1 .. Len(got[q]) |-> q]
          BY <2>2 DEF StoreInv, SoleWriter
    <3>3. pc[q] = "writing" => fd[q] # None  BY DEF TypeOK
    <3>4. pc[q] = "create" => dir'[name[q]] = None  BY <1>3, <3>1, <3>2
    <3>5. pc[q] = "writing" => data'[fd[q]] = data[fd[q]] /\ dir'[name[q]] = fd[q]
          BY <1>8, <3>1, <3>2, <3>3
    <3> QED  BY <3>1, <3>2, <3>4, <3>5
  <2>3. \A q \in Kids : Putting(name[q]) = {q} /\ name[q] \in Names => Putting(name[q])' = {q}
        BY <1>2, <1>4
  <2>4. ASSUME NEW q \in Kids, alone'[q]
        PROVE  /\ pc'[q] \in {"create", "writing"} => Putting(name[q])' = {q}
               /\ pc'[q] = "create" => dir'[name'[q]] = None
               /\ pc'[q] = "writing" =>
                    dir'[name'[q]] = fd'[q] /\ data'[fd'[q]] = [k \in 1 .. Len(got'[q]) |-> q]
    <3>0. alone[q] /\ name'[q] = name[q] /\ got'[q] = got[q]  BY <1>2, <2>4
    <3>1. CASE q = p
      <4>1. alone[p] /\ Putting(n)' = {p}  BY <1>1, <2>1, <2>3, <3>0, <3>1
      <4>2. /\ pc'[p] = "writing" /\ dir'[n] = fd'[p]
            /\ data'[fd'[p]] = [k \in 1 .. Len(got[p]) |-> p]
            BY <1>2, <2>1, <4>1
      <4> QED  BY <3>0, <3>1, <4>1, <4>2
    <3>2. CASE q # p
      <4>1. pc'[q] = pc[q] /\ fd'[q] = fd[q]  BY <1>2, <3>2
      <4>2. pc[q] \in {"create", "writing"} => Putting(name[q])' = {q}
            BY <2>2, <2>3, <3>0, <3>2
      <4>3. /\ pc[q] = "create" => dir'[name[q]] = None
            /\ pc[q] = "writing" =>
                 dir'[name[q]] = fd[q] /\ data'[fd[q]] = [k \in 1 .. Len(got[q]) |-> q]
            BY <2>2, <3>0, <3>2
      <4> QED  BY <3>0, <4>1, <4>2, <4>3
    <3> QED  BY <3>1, <3>2
  <2> QED  BY <2>4 DEF SoleWriter
<1>10. SoleReader'
  <2>1. ASSUME NEW q \in Kids \ {p}, alone[q], pc[q] \in {"open", "reading"}
        PROVE  /\ name[q] \in Names /\ Putting(name[q]) = {} /\ dir'[name[q]] # None
               /\ pc[q] = "reading" =>
                    /\ dir'[name[q]] = fd[q] /\ size[q] = Len(data'[fd[q]]) /\ Len(got[q]) <= size[q]
                    /\ \A k \in 1 .. Len(got[q]) : got[q][k] = data'[fd[q]][k]
    <3>1. name[q] \in Names /\ Putting(name[q]) = {} /\ name[q] # n
          BY <1>7, <2>1 DEF StoreInv, NameInv, SoleReader
    <3>2. /\ dir[name[q]] # None
          /\ pc[q] = "reading" =>
               /\ dir[name[q]] = fd[q] /\ size[q] = Len(data[fd[q]]) /\ Len(got[q]) <= size[q]
               /\ \A k \in 1 .. Len(got[q]) : got[q][k] = data[fd[q]][k]
          BY <2>1 DEF StoreInv, SoleReader
    <3>3. pc[q] = "reading" => fd[q] # None  BY DEF TypeOK
    <3>4. dir'[name[q]] # None  BY <1>3, <3>1, <3>2
    <3>5. pc[q] = "reading" => data'[fd[q]] = data[fd[q]] /\ dir'[name[q]] = fd[q]
          BY <1>8, <3>1, <3>2, <3>3
    <3> QED  BY <3>1, <3>2, <3>4, <3>5
  <2>2. ASSUME NEW q \in Kids, alone'[q], pc'[q] \in {"open", "reading"}
        PROVE  /\ Putting(name[q])' = {} /\ dir'[name'[q]] # None
               /\ pc'[q] = "reading" =>
                    /\ dir'[name'[q]] = fd'[q] /\ size'[q] = Len(data'[fd'[q]]) /\ Len(got'[q]) <= size'[q]
                    /\ \A k \in 1 .. Len(got'[q]) : got'[q][k] = data'[fd'[q]][k]
    <3>1. /\ q \in Kids \ {p} /\ alone[q] /\ pc'[q] = pc[q] /\ fd'[q] = fd[q] /\ name'[q] = name[q]
          /\ size'[q] = size[q] /\ got'[q] = got[q]
          BY <1>2, <2>2
    <3>2. Putting(name[q])' = {}  BY <1>4, <2>1, <2>2, <3>1
    <3> QED  BY <2>1, <2>2, <3>1, <3>2
  <2> QED  BY <2>2 DEF SoleReader
<1>11. KeptInv'
  <2>1. ASSUME NEW m \in Names, kept[m] # None
        PROVE  Putting(m) = {} /\ dir'[m] # None /\ data'[dir'[m]] = [k \in 1 .. Blocks |-> kept[m]]
    <3>1. Putting(m) = {} /\ dir[m] # None /\ data[dir[m]] = [k \in 1 .. Blocks |-> kept[m]]
          BY <2>1 DEF StoreInv, KeptInv
    <3>2. m # n  BY <1>1, <3>1
    <3>3. dir[m] \in Inodes /\ dir'[m] = dir[m] /\ dir[m] # i  BY <1>3, <3>1, <3>2 DEF TypeOK
    <3>4. data'[dir[m]] = data[dir[m]]  BY <1>3, <3>3
    <3> QED  BY <3>1, <3>3, <3>4
  <2>2. ASSUME NEW m \in Names, kept'[m] # None
        PROVE  /\ Putting(m)' = {} /\ dir'[m] # None
               /\ data'[dir'[m]] = [k \in 1 .. Blocks |-> kept'[m]]
    <3>1. kept'[m] = kept[m]  BY <1>2
    <3>2. Putting(m)' = {}  BY <1>4, <2>1, <2>2, <3>1
    <3> QED  BY <2>1, <2>2, <3>1, <3>2
  <2> QED  BY <2>2 DEF KeptInv
<1>12. BlockInv'
  <2> SUFFICES ASSUME NEW m \in Names, dir'[m] # None, m \notin partial, NEW k \in 1 .. Blocks
               PROVE  \/ k <= Len(data'[dir'[m]]) /\ data'[dir'[m]][k] \in Kids
                      \/ \E q \in Kids : pc'[q] = "writing" /\ fd'[q] = dir'[m] /\ Len(got[q]) < k
      BY <1>2 DEF BlockInv
  <2>1. CASE m = n  BY <1>1, <1>2, <1>3, <2>1 DEF i
  <2>2. CASE m # n
    <3>1. dir'[m] = dir[m] /\ data'[dir'[m]] = data[dir[m]]  BY <1>3, <2>2 DEF TypeOK
    <3>2. \/ k <= Len(data[dir[m]]) /\ data[dir[m]][k] \in Kids
          \/ \E q \in Kids \ {p} : pc[q] = "writing" /\ fd[q] = dir[m] /\ Len(got[q]) < k
          BY <1>1, <3>1 DEF StoreInv, BlockInv
    <3> QED  BY <1>2, <3>1, <3>2
  <2> QED  BY <2>1, <2>2
<1> QED  BY <1>6, <1>9, <1>10, <1>11, <1>12 DEF StoreInv

\* A block that is written belongs to a file no other child relies on.
LEMMA WriteInv ==
  ASSUME TypeOK, StoreInv, NEW p \in Kids, Write(p)
  PROVE  StoreInv'
<1> USE FilesAssumption
<1> DEFINE n == name[p]
           f == fd[p]
           k == Len(got[p]) + 1
<1>1. /\ pc[p] = "writing" /\ n \in Names /\ f \in Inodes /\ f # None /\ p \in Putting(n)
      /\ UNCHANGED <<dir, pc, name, fd, size, alone, kept, partial>>
      BY DEF Write, history, TypeOK, Putting, StoreInv, NameInv
<1>2. k \in 1 .. Blocks /\ p \in Block /\ data[f] \in Seq(Block) /\ Len(data[f]) \in 0 .. Blocks
      BY <1>1, SequenceTypes DEF Write, MoreToWrite, Block
<1>3. /\ \A q \in Kids \ {p} : got'[q] = got[q]
      /\ Len(got'[p]) = k
      /\ \A j \in Inodes \ {f} : data'[j] = data[j]
      /\ data'[f] = Written(data[f], k, p)
      BY <1>1, <1>2, SequenceTypes, AppendProperties DEF Write, TypeOK, Block
<1>4. /\ Len(data'[f]) = (IF k > Len(data[f]) THEN k ELSE Len(data[f]))
      /\ data'[f][k] = p
      /\ \A j \in 1 .. Len(data[f]) : j # k => data'[f][j] = data[f][j]
  <2>1. Len(data[f]) <= Blocks  BY <1>2
  <2>2. Len(Written(data[f], k, p)) = (IF k > Len(data[f]) THEN k ELSE Len(data[f]))
        BY <1>2, <2>1, WrittenType
  <2>3. /\ Written(data[f], k, p)[k] = p
        /\ \A j \in 1 .. Len(data[f]) : j # k => Written(data[f], k, p)[j] = data[f][j]
        BY <1>2, <2>1, WrittenBlocks
  <2> QED  BY <1>3, <2>2, <2>3
<1>5. \A m \in Names : dir[m] = f => m = n  BY <1>1 DEF StoreInv, NameInv
<1>6. \A m \in Names : Putting(m)' = Putting(m)  BY <1>1 DEF Putting
<1>7. NameInv'  BY <1>1, <1>3 DEF NameInv, StoreInv
<1>8. SoleWriter'
  <2>1. ASSUME alone[p]
        PROVE  /\ Putting(n) = {p} /\ dir[n] = f
               /\ data'[f] = [j \in 1 .. Len(got'[p]) |-> p]
    <3>1. Putting(n) = {p} /\ dir[n] = f /\ data[f] = [j \in 1 .. Len(got[p]) |-> p]
          BY <1>1, <2>1 DEF StoreInv, SoleWriter
    <3>2. Len(data[f]) = Len(got[p])  BY <1>2, <3>1, SequenceTypes, LenProperties
    <3>3. data'[f] = [j \in 1 .. k |-> p]
          BY <1>2, <1>3, <3>1, <3>2, SequenceTypes DEF Written
    <3> QED  BY <1>3, <3>1, <3>3
  <2>2. ASSUME NEW q \in Kids \ {p}, alone[q], pc[q] \in {"create", "writing"}
        PROVE  /\ Putting(name[q]) = {q} /\ name[q] \in Names
               /\ pc[q] = "create" => dir[name[q]] = None
               /\ pc[q] = "writing" =>
                    dir[name[q]] = fd[q] /\ data'[fd[q]] = [j \in 1 .. Len(got[q]) |-> q]
    <3>1. /\ name[q] \in Names /\ Putting(name[q]) = {q}
          /\ pc[q] = "create" => dir[name[q]] = None
          /\ pc[q] = "writing" =>
               dir[name[q]] = fd[q] /\ data[fd[q]] = [j \in 1 .. Len(got[q]) |-> q]
          BY <2>2 DEF StoreInv, NameInv, SoleWriter
    <3>2. pc[q] = "writing" => fd[q] \in Inodes \ {f}  BY <1>1, <1>5, <3>1 DEF TypeOK
    <3> QED  BY <1>3, <3>1, <3>2
  <2>3. ASSUME NEW q \in Kids, alone'[q]
        PROVE  /\ pc'[q] \in {"create", "writing"} => Putting(name[q])' = {q}
               /\ pc'[q] = "create" => dir'[name'[q]] = None
               /\ pc'[q] = "writing" =>
                    dir'[name'[q]] = fd'[q] /\ data'[fd'[q]] = [j \in 1 .. Len(got'[q]) |-> q]
    <3>0. alone[q] /\ name'[q] = name[q] /\ pc'[q] = pc[q] /\ fd'[q] = fd[q] /\ dir' = dir
          BY <1>1, <2>3
    <3>1. CASE q = p
      <4>1. alone[p] /\ Putting(n)' = {p}  BY <1>1, <1>6, <2>1, <3>0, <3>1
      <4> QED  BY <1>1, <2>1, <3>0, <3>1, <4>1
    <3>2. CASE q # p
      <4>1. pc[q] \in {"create", "writing"} => Putting(name[q])' = {q}
            BY <1>6, <2>2, <3>0, <3>2
      <4>2. got'[q] = got[q]  BY <1>3, <3>2
      <4>3. /\ pc[q] = "create" => dir[name[q]] = None
            /\ pc[q] = "writing" =>
                 dir[name[q]] = fd[q] /\ data'[fd[q]] = [j \in 1 .. Len(got[q]) |-> q]
            BY <2>2, <3>0, <3>2
      <4> QED  BY <3>0, <4>1, <4>2, <4>3
    <3> QED  BY <3>1, <3>2
  <2> QED  BY <2>3 DEF SoleWriter
<1>9. SoleReader'
  <2>1. ASSUME NEW q \in Kids, alone[q], pc[q] \in {"open", "reading"}
        PROVE  /\ name[q] \in Names /\ Putting(name[q]) = {} /\ dir[name[q]] # None
               /\ pc[q] = "reading" =>
                    /\ dir[name[q]] = fd[q] /\ size[q] = Len(data'[fd[q]]) /\ Len(got[q]) <= size[q]
                    /\ \A j \in 1 .. Len(got[q]) : got[q][j] = data'[fd[q]][j]
    <3>1. /\ name[q] \in Names /\ Putting(name[q]) = {} /\ dir[name[q]] # None
          /\ pc[q] = "reading" =>
               /\ dir[name[q]] = fd[q] /\ size[q] = Len(data[fd[q]]) /\ Len(got[q]) <= size[q]
               /\ \A j \in 1 .. Len(got[q]) : got[q][j] = data[fd[q]][j]
          BY <2>1 DEF StoreInv, NameInv, SoleReader
    <3>2. pc[q] = "reading" => fd[q] \in Inodes \ {f}  BY <1>1, <1>5, <3>1 DEF TypeOK
    <3> QED  BY <1>3, <3>1, <3>2
  <2>2. ASSUME NEW q \in Kids, alone'[q], pc'[q] \in {"open", "reading"}
        PROVE  /\ Putting(name[q])' = {} /\ dir'[name'[q]] # None
               /\ pc'[q] = "reading" =>
                    /\ dir'[name'[q]] = fd'[q] /\ size'[q] = Len(data'[fd'[q]]) /\ Len(got'[q]) <= size'[q]
                    /\ \A j \in 1 .. Len(got'[q]) : got'[q][j] = data'[fd'[q]][j]
    <3>0. /\ alone[q] /\ name'[q] = name[q] /\ pc'[q] = pc[q] /\ fd'[q] = fd[q] /\ dir' = dir
          /\ size'[q] = size[q] /\ got'[q] = got[q]
          BY <1>1, <1>3, <2>2
    <3>1. Putting(name[q])' = {}  BY <1>6, <2>1, <2>2, <3>0
    <3> QED  BY <2>1, <2>2, <3>0, <3>1
  <2> QED  BY <2>2 DEF SoleReader
<1>10. KeptInv'
  <2>1. ASSUME NEW m \in Names, kept'[m] # None
        PROVE  /\ Putting(m)' = {} /\ dir'[m] # None
               /\ data'[dir'[m]] = [j \in 1 .. Blocks |-> kept'[m]]
    <3>1. /\ kept'[m] = kept[m] /\ Putting(m) = {} /\ dir[m] # None /\ dir' = dir
          /\ data[dir[m]] = [j \in 1 .. Blocks |-> kept[m]]
          BY <1>1, <2>1 DEF StoreInv, KeptInv
    <3>2. dir[m] \in Inodes \ {f}  BY <1>1, <1>5, <3>1 DEF TypeOK
    <3>3. Putting(m)' = {}  BY <1>6, <3>1
    <3> QED  BY <1>3, <3>1, <3>2, <3>3
  <2> QED  BY <2>1 DEF KeptInv
<1>11. BlockInv'
  <2> SUFFICES ASSUME NEW m \in Names, dir[m] # None, m \notin partial, NEW j \in 1 .. Blocks
               PROVE  \/ j <= Len(data'[dir[m]]) /\ data'[dir[m]][j] \in Kids
                      \/ \E q \in Kids : pc[q] = "writing" /\ fd[q] = dir[m] /\ Len(got'[q]) < j
      BY <1>1 DEF BlockInv
  <2>1. \/ j <= Len(data[dir[m]]) /\ data[dir[m]][j] \in Kids
        \/ \E q \in Kids : pc[q] = "writing" /\ fd[q] = dir[m] /\ Len(got[q]) < j
        BY DEF StoreInv, BlockInv
  <2>2. CASE dir[m] # f
    <3>1. data'[dir[m]] = data[dir[m]]  BY <1>3, <2>2 DEF TypeOK
    <3> QED  BY <1>3, <2>1, <2>2, <3>1
  <2>3. CASE dir[m] = f
    <3>1. CASE j = k  BY <1>2, <1>4, <2>3, <3>1
    <3>2. CASE j # k /\ j <= Len(data[f]) /\ data[f][j] \in Kids  BY <1>2, <1>4, <2>3, <3>2
    <3>3. ASSUME NEW q \in Kids, pc[q] = "writing", fd[q] = f, Len(got[q]) < j, j # k
          PROVE  Len(got'[q]) < j
          BY <1>2, <1>3, <3>3, SequenceTypes
    <3> QED  BY <2>1, <2>3, <3>1, <3>2, <3>3
  <2> QED  BY <2>2, <2>3
<1> QED  BY <1>7, <1>8, <1>9, <1>10, <1>11 DEF StoreInv

\* A GET relies on the file its name had when it was opened, if it meets no PUT.
LEMMA GetInv ==
  ASSUME TypeOK, StoreInv, NEW p \in Kids, Get(p)
  PROVE  StoreInv'
<1> USE FilesAssumption
<1>1. ASSUME NEW n \in Names, TestGet(p, n)  PROVE StoreInv'
  <2>1. /\ pc[p] = "command" /\ dir[n] # None
        /\ UNCHANGED <<dir, data, fd, size, got, kept, partial>>
        BY <1>1 DEF TestGet, Present, files
  <2>2. pc'[p] = "open" /\ name'[p] = n /\ (alone'[p] <=> Putting(n) = {})
        BY <1>1 DEF TestGet, Goto, TypeOK
  <2>3. \A q \in Kids \ {p} : pc'[q] = pc[q] /\ name'[q] = name[q] /\ alone'[q] = alone[q]
        BY <1>1 DEF TestGet, Goto, TypeOK
  <2>4. \A m \in Names : Putting(m)' = Putting(m)  BY <2>1, <2>2, <2>3 DEF Putting
  <2>5. \A q \in Kids \ {p} : name[q] \in Names => Putting(name[q])' = Putting(name[q])
        BY <2>3, <2>4
  <2>6. fd[p] = None  BY <2>1 DEF TypeOK
  <2>7. NameInv'  BY <2>1, <2>2, <2>3, <2>6 DEF NameInv, StoreInv
  <2>8. SoleWriter'
    <3>1. ASSUME NEW q \in Kids \ {p}, alone[q], pc[q] \in {"create", "writing"}
          PROVE  Putting(name[q])' = {q}
          BY <2>5, <3>1 DEF StoreInv, NameInv, SoleWriter
    <3> QED  BY <2>1, <2>2, <2>3, <3>1 DEF SoleWriter, StoreInv
  <2>9. SoleReader'
    <3>1. ASSUME NEW q \in Kids \ {p}, alone[q], pc[q] \in {"open", "reading"}
          PROVE  Putting(name[q])' = {}
          BY <2>5, <3>1 DEF StoreInv, NameInv, SoleReader
    <3>2. alone'[p] => Putting(n)' = {}  BY <2>2, <2>4
    <3> QED  BY <2>1, <2>2, <2>3, <3>1, <3>2 DEF SoleReader, StoreInv
  <2>10. KeptInv'
    <3>1. UNCHANGED <<dir, data, kept>>  BY <2>1
    <3>2. KeptInv  BY DEF StoreInv
    <3> QED  BY <2>4, <3>1, <3>2, KeptUnchanged
  <2>11. BlockInv'
    <3>1. \A q \in Kids : pc[q] = "writing" => pc'[q] = "writing"  BY <2>1, <2>3
    <3>2. BlockInv /\ UNCHANGED <<dir, data, fd, got, partial>>  BY <2>1 DEF StoreInv
    <3> QED  BY <3>1, <3>2, BlocksUnchanged
  <2> QED  BY <2>7, <2>8, <2>9, <2>10, <2>11 DEF StoreInv
<1>2. CASE Open(p) /\ dir[name[p]] = None
  <2>1. Closes(p, dir) /\ pc[p] = "open" /\ UNCHANGED <<kept, partial>>  BY <1>2 DEF Open
  <2> QED  BY <2>1, ClosesInv
<1>3. CASE Open(p) /\ dir[name[p]] # None
  <2> DEFINE n == name[p]
             i == dir[n]
  <2>1. /\ pc[p] = "open" /\ i # None /\ n \in Names /\ fd[p] = None /\ got[p] = << >>
        /\ UNCHANGED <<dir, data, name, got, alone, kept, partial>>
        BY <1>3 DEF Open, files, StoreInv, NameInv, TypeOK
  <2>2. pc'[p] = "reading" /\ fd'[p] = i /\ size'[p] = Len(data[i])
        BY <1>3 DEF Open, Goto, Packets, TypeOK
  <2>3. \A q \in Kids \ {p} : pc'[q] = pc[q] /\ fd'[q] = fd[q] /\ size'[q] = size[q]
        BY <1>3 DEF Open, Goto, TypeOK
  <2>4. \A m \in Names : Putting(m)' = Putting(m)  BY <2>1, <2>2, <2>3 DEF Putting
  <2>5. \A q \in Kids : name[q] \in Names => Putting(name[q])' = Putting(name[q])  BY <2>1, <2>4
  <2>6. Len(got[p]) = 0 /\ Len(data[i]) \in Nat  BY <2>1, SequenceTypes DEF TypeOK
  <2>7. NameInv'  BY <2>1, <2>2, <2>3 DEF NameInv, StoreInv
  <2>8. SoleWriter'
    <3>1. ASSUME NEW q \in Kids \ {p}, alone[q], pc[q] \in {"create", "writing"}
          PROVE  Putting(name[q])' = {q}
          BY <2>5, <3>1 DEF StoreInv, NameInv, SoleWriter
    <3> QED  BY <2>1, <2>2, <2>3, <3>1 DEF SoleWriter, StoreInv
  <2>9. SoleReader'
    <3>1. ASSUME NEW q \in Kids, alone[q], pc[q] \in {"open", "reading"}
          PROVE  Putting(name[q])' = {} /\ dir[name[q]] # None
          BY <2>5, <3>1 DEF StoreInv, NameInv, SoleReader
    <3>2. /\ dir'[n] = fd'[p] /\ size'[p] = Len(data'[fd'[p]]) /\ Len(got'[p]) <= size'[p]
          /\ \A k \in 1 .. Len(got'[p]) : got'[p][k] = data'[fd'[p]][k]
          BY <2>1, <2>2, <2>6
    <3>3. ASSUME NEW q \in Kids, alone'[q], pc'[q] \in {"open", "reading"}
          PROVE  /\ Putting(name[q])' = {} /\ dir'[name'[q]] # None
                 /\ pc'[q] = "reading" =>
                      /\ dir'[name'[q]] = fd'[q] /\ size'[q] = Len(data'[fd'[q]]) /\ Len(got'[q]) <= size'[q]
                      /\ \A k \in 1 .. Len(got'[q]) : got'[q][k] = data'[fd'[q]][k]
      <4>0. alone[q] /\ name' = name /\ got' = got /\ dir' = dir /\ data' = data  BY <2>1, <3>3
      <4>1. CASE q = p  BY <2>1, <3>1, <3>2, <4>0, <4>1
      <4>2. CASE q # p
        <5>1. pc'[q] = pc[q] /\ fd'[q] = fd[q] /\ size'[q] = size[q]  BY <2>3, <4>2
        <5> QED  BY <3>1, <3>3, <4>0, <5>1 DEF SoleReader, StoreInv
      <4> QED  BY <4>1, <4>2
    <3> QED  BY <3>3 DEF SoleReader
  <2>10. KeptInv'
    <3>1. UNCHANGED <<dir, data, kept>>  BY <2>1
    <3>2. KeptInv  BY DEF StoreInv
    <3> QED  BY <2>4, <3>1, <3>2, KeptUnchanged
  <2>11. BlockInv'
    <3>1. \A q \in Kids : pc[q] = "writing" => pc'[q] = "writing" /\ fd'[q] = fd[q]
          BY <2>1, <2>3
    <3>2. BlockInv /\ UNCHANGED <<dir, data, got, partial>>  BY <2>1 DEF StoreInv
    <3> QED  BY <3>1, <3>2, BlocksUnchanged
  <2> QED  BY <2>7, <2>8, <2>9, <2>10, <2>11 DEF StoreInv
<1>4. CASE Read(p)
  <2> DEFINE b == data[fd[p]][Len(got[p]) + 1]
  <2>1. /\ pc[p] = "reading" /\ fd[p] \in Inodes /\ fd[p] # None /\ size[p] \in Nat
        /\ Len(got[p]) < size[p] /\ Len(got[p]) < Len(data[fd[p]])
        /\ UNCHANGED <<dir, data, pc, name, fd, size, alone, kept, partial>>
        BY <1>4 DEF Read, files, history, TypeOK
  <2>2. b \in Block  BY <2>1, SequenceTypes, ElementOfSeq
  <2>3. /\ got'[p] = Append(got[p], b) /\ \A q \in Kids \ {p} : got'[q] = got[q]
        BY <1>4 DEF Read, TypeOK
  <2>4. /\ Len(got'[p]) = Len(got[p]) + 1 /\ Len(got[p]) \in Nat
        /\ got'[p][Len(got[p]) + 1] = b
        /\ \A k \in 1 .. Len(got[p]) : got'[p][k] = got[p][k]
        BY <2>2, <2>3, SequenceTypes, AppendProperties
  <2>5. \A m \in Names : Putting(m)' = Putting(m)  BY <2>1 DEF Putting
  <2>6. \A q \in Kids : name[q] \in Names => Putting(name[q])' = Putting(name[q])  BY <2>1, <2>5
  <2>7. NameInv'  BY <2>1, <2>3 DEF NameInv, StoreInv
  <2>8. SoleWriter'
    <3>1. ASSUME NEW q \in Kids, alone[q], pc[q] \in {"create", "writing"}
          PROVE  Putting(name[q])' = {q}
          BY <2>6, <3>1 DEF StoreInv, NameInv, SoleWriter
    <3>2. ASSUME NEW q \in Kids, alone'[q]
          PROVE  /\ pc'[q] \in {"create", "writing"} => Putting(name[q])' = {q}
                 /\ pc'[q] = "create" => dir'[name'[q]] = None
                 /\ pc'[q] = "writing" =>
                      dir'[name'[q]] = fd'[q] /\ data'[fd'[q]] = [k \in 1 .. Len(got'[q]) |-> q]
      <4>1. /\ alone[q] /\ pc' = pc /\ name' = name /\ fd' = fd /\ dir' = dir /\ data' = data
            /\ pc[q] = "writing" => got'[q] = got[q]
            BY <2>1, <2>3, <3>2
      <4>2. /\ pc[q] = "create" => dir[name[q]] = None
            /\ pc[q] = "writing" =>
                 dir[name[q]] = fd[q] /\ data[fd[q]] = [k \in 1 .. Len(got[q]) |-> q]
            BY <4>1 DEF SoleWriter, StoreInv
      <4> QED  BY <3>1, <4>1, <4>2
    <3> QED  BY <3>2 DEF SoleWriter
  <2>9. SoleReader'
    <3>1. ASSUME NEW q \in Kids, alone[q], pc[q] \in {"open", "reading"}
          PROVE  Putting(name[q])' = {} /\ dir[name[q]] # None
          BY <2>6, <3>1 DEF StoreInv, NameInv, SoleReader
    <3>2. ASSUME alone[p]
          PROVE  /\ dir[name[p]] = fd[p] /\ size[p] = Len(data[fd[p]]) /\ Len(got'[p]) <= size[p]
                 /\ \A k \in 1 .. Len(got'[p]) : got'[p][k] = data[fd[p]][k]
      <4>1. /\ dir[name[p]] = fd[p] /\ size[p] = Len(data[fd[p]])
            /\ \A k \in 1 .. Len(got[p]) : got[p][k] = data[fd[p]][k]
            BY <2>1, <3>2 DEF StoreInv, SoleReader
      <4>2. Len(got'[p]) <= size[p]  BY <2>1, <2>4
      <4>3. ASSUME NEW k \in 1 .. Len(got'[p])  PROVE got'[p][k] = data[fd[p]][k]
        <5>1. k = Len(got[p]) + 1 \/ k \in 1 .. Len(got[p])  BY <2>4
        <5> QED  BY <2>4, <4>1, <5>1
      <4> QED  BY <4>1, <4>2, <4>3
    <3>3. ASSUME NEW q \in Kids, alone'[q], pc'[q] \in {"open", "reading"}
          PROVE  /\ Putting(name[q])' = {} /\ dir'[name'[q]] # None
                 /\ pc'[q] = "reading" =>
                      /\ dir'[name'[q]] = fd'[q] /\ size'[q] = Len(data'[fd'[q]]) /\ Len(got'[q]) <= size'[q]
                      /\ \A k \in 1 .. Len(got'[q]) : got'[q][k] = data'[fd'[q]][k]
      <4>0. /\ alone[q] /\ pc'[q] = pc[q] /\ name' = name /\ fd' = fd /\ size' = size
            /\ dir' = dir /\ data' = data
            BY <2>1, <3>3
      <4>1. CASE q = p  BY <3>1, <3>2, <3>3, <4>0, <4>1
      <4>2. CASE q # p
        <5>1. got'[q] = got[q]  BY <2>3, <4>2
        <5>2. pc[q] = "reading" =>
                /\ dir[name[q]] = fd[q] /\ size[q] = Len(data[fd[q]]) /\ Len(got[q]) <= size[q]
                /\ \A k \in 1 .. Len(got[q]) : got[q][k] = data[fd[q]][k]
              BY <4>0 DEF SoleReader, StoreInv
        <5> QED  BY <3>1, <3>3, <4>0, <5>1, <5>2
      <4> QED  BY <4>1, <4>2
    <3> QED  BY <3>3 DEF SoleReader
  <2>10. KeptInv'
    <3>1. UNCHANGED <<dir, data, kept>>  BY <2>1
    <3>2. KeptInv  BY DEF StoreInv
    <3> QED  BY <2>5, <3>1, <3>2, KeptUnchanged
  <2>11. BlockInv'
    <3>1. \A q \in Kids : pc[q] = "writing" => got'[q] = got[q]  BY <2>1, <2>3
    <3>2. BlockInv /\ UNCHANGED <<dir, data, pc, fd, partial>>  BY <2>1 DEF StoreInv
    <3> QED  BY <3>1, <3>2, BlocksUnchanged
  <2> QED  BY <2>7, <2>8, <2>9, <2>10, <2>11 DEF StoreInv
<1>5. CASE GetEnds(p)
  <2>1. Closes(p, dir) /\ pc[p] = "reading" /\ UNCHANGED <<kept, partial>>  BY <1>5 DEF GetEnds
  <2> QED  BY <2>1, ClosesInv
<1> QED  BY <1>1, <1>2, <1>3, <1>4, <1>5 DEF Get

-----------------------------------------------------------------------------
\* Nobody has done anything yet.
LEMMA InitInv ==
  ASSUME Init, FilesAssumption, LinesAssumption
  PROVE  TypeOK /\ StoreInv
<1>1. << >> \in Seq(Kids \cup {None}) /\ Len(<< >>) = 0 /\ 0 <= Blocks
      BY FilesAssumption, EmptySeq
<1>2. NoList \in Lists  BY DEF NoList, Lists
<1>3. TypeOK  BY <1>1, <1>2, FilesAssumption DEF Init, TypeOK
<1>4. StoreInv
      BY FilesAssumption DEF Init, StoreInv, NameInv, SoleWriter, SoleReader, KeptInv, BlockInv
<1> QED  BY <1>3, <1>4

\* Every step keeps the types and the invariant.
LEMMA NextInv ==
  ASSUME TypeOK, StoreInv, [Next]_vars, FilesAssumption, LinesAssumption
  PROVE  TypeOK' /\ StoreInv'
<1>1. ASSUME NEW p \in Kids, Put(p)  PROVE TypeOK' /\ StoreInv'
  <2>1. TypeOK'  BY <1>1, PutType DEF StoreInv
  <2>2. CASE \E n \in Names : TestPut(p, n)  BY <2>1, <2>2, TestPutInv
  <2>3. CASE Create(p)  BY <2>1, <2>3, CreateInv
  <2>4. CASE CreateFails(p)
    <3>1. Closes(p, dir) /\ pc[p] = "create" /\ UNCHANGED <<kept, partial>>  BY <2>4 DEF CreateFails
    <3> QED  BY <2>1, <3>1, ClosesInv
  <2>5. CASE Write(p)  BY <2>1, <2>5, WriteInv
  <2>6. CASE PutEnds(p)
    <3>1. /\ Closes(p, dir) /\ pc[p] = "writing" /\ Len(got[p]) = Blocks /\ UNCHANGED partial
          /\ kept' = IF alone[p] THEN [kept EXCEPT ![name[p]] = p] ELSE kept
          BY <2>6 DEF PutEnds
    <3>2. \A n \in Names : kept'[n] = kept[n] \/ (n = name[p] /\ alone[p] /\ kept'[n] = p)
          BY <3>1 DEF TypeOK
    <3> QED  BY <2>1, <3>1, <3>2, ClosesInv
  <2>7. CASE PutFails(p)
    <3>1. Closes(p, Removed(name[p])) /\ pc[p] = "writing" /\ UNCHANGED <<kept, partial>>
          BY <2>7 DEF PutFails
    <3> QED  BY <2>1, <3>1, ClosesInv
  <2>8. CASE Dies(p)
    <3>1. /\ Closes(p, dir) /\ pc[p] = "writing" /\ UNCHANGED kept
          /\ partial' = partial \cup {name[p]}
          BY <2>8 DEF Dies
    <3> QED  BY <2>1, <3>1, ClosesInv
  <2> QED  BY <1>1, <2>1, <2>2, <2>3, <2>4, <2>5, <2>6, <2>7, <2>8 DEF Put
<1>2. ASSUME NEW p \in Kids, Get(p)  PROVE TypeOK' /\ StoreInv'
  BY <1>2, GetType, GetInv DEF StoreInv
<1>3. ASSUME NEW p \in Kids, List(p)  PROVE TypeOK' /\ StoreInv'
  BY <1>3, ListType, ListInv
<1>4. CASE UNCHANGED vars
  <2>1. UNCHANGED <<dir, data, pc, name, fd, size, got, list, alone, kept, partial>>
        BY <1>4 DEF vars, files, child, history
  <2>2. TypeOK'  BY <2>1 DEF TypeOK
  <2>3. NameInv' /\ BlockInv'  BY <2>1 DEF StoreInv, NameInv, BlockInv
  <2>4. SoleWriter'  BY <2>1 DEF StoreInv, SoleWriter, Putting
  <2>5. SoleReader'  BY <2>1 DEF StoreInv, SoleReader, Putting
  <2>6. KeptInv'
    <3>1. \A n \in Names : Putting(n)' = Putting(n)  BY <2>1 DEF Putting
    <3>2. UNCHANGED <<dir, data, kept>>  BY <2>1
    <3> QED  BY <3>1, <3>2 DEF StoreInv, KeptInv
  <2> QED  BY <2>2, <2>3, <2>4, <2>5, <2>6 DEF StoreInv
<1> QED  BY <1>1, <1>2, <1>3, <1>4 DEF Next

\* The types and the invariant hold in every state of the shared directory.
LEMMA Invariant == Spec => [](TypeOK /\ StoreInv)
<1>1. Init => TypeOK /\ StoreInv  BY InitInv, FilesAssumption, LinesAssumption
<1>2. TypeOK /\ StoreInv /\ [Next]_vars => (TypeOK /\ StoreInv)'
      BY NextInv, FilesAssumption, LinesAssumption
<1> QED  BY <1>1, <1>2, PTL DEF Spec

\* The variables keep their types; no file grows beyond what was sent; LIST always
\* leaves room for a character in its buffer, whatever the lengths of the names.
THEOREM StoreTypeCorrect == Spec => []TypeOK
BY Invariant, PTL

\* Whatever any number of children do to any number of names, a PUT without a rival
\* writes the file its name refers to, and the file it leaves stays as it is.
THEOREM PutIsKeptHolds == Spec => []PutIsKept
<1>1. TypeOK /\ StoreInv => PutIsKept
  <2> SUFFICES ASSUME TypeOK, StoreInv  PROVE PutIsKept  OBVIOUS
  <2>1. \A p \in Kids : pc[p] = "writing" /\ alone[p] => dir[name[p]] = fd[p]
        BY DEF StoreInv, SoleWriter
  <2>2. \A n \in Names : kept[n] # None =>
          dir[n] # None /\ data[dir[n]] = [k \in 1 .. Blocks |-> kept[n]]
        BY DEF StoreInv, KeptInv
  <2> QED  BY <2>1, <2>2 DEF PutIsKept
<1> QED  BY <1>1, Invariant, PTL

\* A file that is not complete has a child that writes it, or lost it.
THEOREM NoPartialFileHolds == Spec => []NoPartialFile
<1>1. TypeOK /\ StoreInv => NoPartialFile
  <2> SUFFICES ASSUME TypeOK, StoreInv, NEW n \in Names, dir[n] # None, n \notin partial,
                      ~Whole(data[dir[n]])
               PROVE  \E p \in Kids : pc[p] = "writing" /\ fd[p] = dir[n]
      BY DEF NoPartialFile
  <2>1. Len(data[dir[n]]) \in 0 .. Blocks /\ Blocks \in Nat \ {0}
        BY SequenceTypes, FilesAssumption DEF TypeOK
  <2>2. PICK k \in 1 .. Blocks : ~(k <= Len(data[dir[n]]) /\ data[dir[n]][k] \in Kids)
        BY <2>1 DEF Whole
  <2> QED  BY <2>2 DEF StoreInv, BlockInv
<1> QED  BY <1>1, Invariant, PTL

\* A GET that reads as many blocks as it found, and met no PUT, has the whole file.
THEOREM GetIsWholeHolds == Spec => []GetIsWhole
<1>1. TypeOK /\ StoreInv => GetIsWhole
  <2> SUFFICES ASSUME TypeOK, StoreInv, NEW p \in Kids, pc[p] = "reading",
                      Len(got[p]) = size[p], alone[p], name[p] \notin partial
               PROVE  Whole(got[p])
      BY DEF GetIsWhole
  <2> DEFINE n == name[p]
  <2>1. /\ n \in Names /\ Putting(n) = {} /\ dir[n] = fd[p] /\ dir[n] # None
        /\ Len(got[p]) = Len(data[fd[p]])
        /\ \A k \in 1 .. Len(got[p]) : got[p][k] = data[fd[p]][k]
        BY DEF StoreInv, NameInv, SoleReader
  <2>2. Len(data[fd[p]]) \in 0 .. Blocks /\ Blocks \in Nat \ {0}
        BY <2>1, SequenceTypes, FilesAssumption DEF TypeOK
  <2>3. \A q \in Kids : ~(pc[q] = "writing" /\ fd[q] = dir[n])
    <3>1. ASSUME NEW q \in Kids, pc[q] = "writing", fd[q] = dir[n]  PROVE FALSE
      <4>1. n = name[q]  BY <2>1, <3>1 DEF StoreInv, NameInv
      <4> QED  BY <2>1, <3>1, <4>1 DEF Putting
    <3> QED  BY <3>1
  <2>4. \A k \in 1 .. Blocks : k <= Len(data[fd[p]]) /\ data[fd[p]][k] \in Kids
        BY <2>1, <2>3 DEF StoreInv, BlockInv
  <2>5. Len(data[fd[p]]) = Blocks  BY <2>2, <2>4
  <2> QED  BY <2>1, <2>2, <2>4, <2>5 DEF Whole
<1> QED  BY <1>1, Invariant, PTL

-----------------------------------------------------------------------------
(* Sums over a finite set: how long the lines of a LIST are.               *)

\* A property of the subsets of a finite set that holds of a set when it holds of those
\* with one element less, holds of all.
LEMMA SubsetsOf ==
  ASSUME NEW U, IsFiniteSet(U), NEW P,
         \A s \in SUBSET U : (\A x \in s : s \ {x} \in P) => s \in P
  PROVE  SUBSET U \subseteq P
<1> DEFINE S == {k \in Nat : \A s \in SUBSET U : Cardinality(s) = k => s \in P}
<1>1. \A s \in SUBSET U : IsFiniteSet(s) /\ Cardinality(s) \in Nat
      BY FS_Subset, FS_CardinalityType
<1>2. 0 \in S
  <2>1. \A s \in SUBSET U : Cardinality(s) = 0 => s = {}  BY <1>1, FS_EmptySet
  <2> QED  BY <2>1
<1>3. ASSUME NEW k \in Nat, k \in S  PROVE k + 1 \in S
  <2>1. ASSUME NEW s \in SUBSET U, Cardinality(s) = k + 1, NEW x \in s  PROVE s \ {x} \in P
    <3>1. Cardinality(s \ {x}) = k  BY <1>1, <2>1, FS_RemoveElement
    <3>2. s \ {x} \in SUBSET U  OBVIOUS
    <3> QED  BY <1>3, <3>1, <3>2
  <2> QED  BY <2>1
<1>4. Nat \subseteq S
  <2> HIDE DEF S
  <2> QED  BY <1>2, <1>3, NaturalsOf
<1> QED  BY <1>1, <1>4

\* The element a sum over s begins with.
First(s) == CHOOSE x \in s : TRUE

\* f[s] is the sum of the weights w of the elements of s.
Sums(f, w, U) ==
  f = [s \in SUBSET U |-> IF s = {} THEN 0 ELSE w[First(s)] + f[s \ {First(s)}]]

LEMMA SumsOf ==
  ASSUME NEW U, NEW w, NEW f, Sums(f, w, U)
  PROVE  /\ f[{}] = 0
         /\ \A s \in SUBSET U : s # {} =>
              /\ First(s) \in s /\ s \ {First(s)} \in SUBSET U
              /\ f[s] = w[First(s)] + f[s \ {First(s)}]
BY DEF Sums, First

\* The definition of a sum over a finite set has a solution.
LEMMA SumsOverSetsExist ==
  ASSUME NEW U, IsFiniteSet(U), NEW w \in [U -> Nat]
  PROVE  \E f : Sums(f, w, U)
<1> DEFINE Value(f, s) == IF s = {} THEN 0 ELSE w[First(s)] + f[s \ {First(s)}]
           Upto(f, k) == \A s \in SUBSET U : Cardinality(s) <= k => f[s] = Value(f, s)
           S == {k \in Nat : \E f \in [SUBSET U -> Nat] : Upto(f, k)}
<1>1. \A s \in SUBSET U : IsFiniteSet(s) /\ Cardinality(s) \in Nat
      BY FS_Subset, FS_CardinalityType
<1>2. \A s \in SUBSET U : s # {} =>
        /\ First(s) \in s /\ s \ {First(s)} \in SUBSET U
        /\ Cardinality(s \ {First(s)}) = Cardinality(s) - 1
  <2> TAKE s \in SUBSET U
  <2> HAVE s # {}
  <2>1. First(s) \in s  BY DEF First
  <2>2. Cardinality(s \ {First(s)}) = Cardinality(s) - 1  BY <1>1, <2>1, FS_RemoveElement
  <2> QED  BY <2>1, <2>2
<1>3. 0 \in S
  <2>1. \A s \in SUBSET U : Cardinality(s) <= 0 => s = {}  BY <1>1, FS_EmptySet
  <2> DEFINE f == [s \in SUBSET U |-> 0]
  <2>2. f \in [SUBSET U -> Nat]  OBVIOUS
  <2>3. Upto(f, 0)  BY <2>1
  <2> HIDE DEF f, Upto
  <2> QED  BY <2>2, <2>3
<1>4. ASSUME NEW k \in Nat, k \in S  PROVE k + 1 \in S
  <2>1. PICK f \in [SUBSET U -> Nat] : Upto(f, k)  BY <1>4
  <2> DEFINE g == [s \in SUBSET U |-> IF Cardinality(s) = k + 1 THEN Value(f, s) ELSE f[s]]
  <2>2. g \in [SUBSET U -> Nat]
    <3>1. \A s \in SUBSET U : Value(f, s) \in Nat  BY <1>2
    <3> HIDE DEF Value
    <3> QED  BY <3>1
  <2>3. ASSUME NEW s \in SUBSET U, Cardinality(s) <= k + 1  PROVE g[s] = Value(g, s)
    <3>1. s # {} => g[s \ {First(s)}] = f[s \ {First(s)}]
      <4> HAVE s # {}
      <4>1. Cardinality(s \ {First(s)}) # k + 1 /\ s \ {First(s)} \in SUBSET U
            BY <1>1, <1>2, <2>3
      <4> QED  BY <4>1
    <3>2. Value(g, s) = Value(f, s)
      <4> HIDE DEF g
      <4> QED  BY <3>1
    <3>3. CASE Cardinality(s) = k + 1
      <4>1. g[s] = Value(f, s)  BY <3>3
      <4> HIDE DEF g, Value
      <4> QED  BY <3>2, <4>1
    <3>4. CASE Cardinality(s) # k + 1
      <4>1. g[s] = f[s] /\ Cardinality(s) <= k  BY <1>1, <2>3, <3>4
      <4> HIDE DEF g, Value
      <4> QED  BY <2>1, <3>2, <4>1
    <3> QED  BY <3>3, <3>4
  <2>4. Upto(g, k + 1)
    <3> HIDE DEF g, Value
    <3> QED  BY <2>3
  <2> HIDE DEF g, Upto
  <2> QED  BY <2>2, <2>4
<1>5. Nat \subseteq S
  <2> HIDE DEF S
  <2> QED  BY <1>3, <1>4, NaturalsOf
<1>6. PICK f \in [SUBSET U -> Nat] : Upto(f, Cardinality(U))
  <2>1. Cardinality(U) \in S  BY <1>1, <1>5
  <2> QED  BY <2>1
<1>7. \A s \in SUBSET U : Cardinality(s) <= Cardinality(U)  BY FS_Subset
<1>8. \A s \in SUBSET U : f[s] = Value(f, s)
  <2> HIDE DEF Value
  <2> QED  BY <1>6, <1>7
<1>9. f = [s \in SUBSET U |-> Value(f, s)]
  <2> HIDE DEF Value
  <2> QED  BY <1>6, <1>8
<1> QED  BY <1>9 DEF Sums

\* Sums over a set and over a part of it agree.
LEMMA SumsAgree ==
  ASSUME NEW U, IsFiniteSet(U), NEW V \in SUBSET U, NEW w, NEW f, NEW g,
         Sums(f, w, U), Sums(g, w, V)
  PROVE  g[V] = f[V]
<1> DEFINE P == {s \in SUBSET V : g[s] = f[s]}
<1>1. IsFiniteSet(V)  BY FS_Subset
<1>2. ASSUME NEW s \in SUBSET V, \A x \in s : s \ {x} \in P  PROVE s \in P
  <2>1. CASE s = {}  BY <2>1, SumsOf
  <2>2. CASE s # {}
    <3>1. /\ First(s) \in s /\ f[s] = w[First(s)] + f[s \ {First(s)}]
          /\ g[s] = w[First(s)] + g[s \ {First(s)}]
          BY <2>2, SumsOf
    <3>2. g[s \ {First(s)}] = f[s \ {First(s)}]  BY <1>2, <3>1
    <3> QED  BY <3>1, <3>2
  <2> QED  BY <2>1, <2>2
<1>3. SUBSET V \subseteq P
  <2> HIDE DEF P
  <2> QED  BY <1>1, <1>2, SubsetsOf
<1> QED  BY <1>3

\* A sum is a natural number, and any element may be taken from it.
LEMMA SumsAnyOrder ==
  ASSUME NEW U, IsFiniteSet(U), NEW w \in [U -> Nat], NEW f, Sums(f, w, U)
  PROVE  \A s \in SUBSET U : f[s] \in Nat /\ \A x \in s : f[s] = w[x] + f[s \ {x}]
<1> DEFINE N == {s \in SUBSET U : f[s] \in Nat}
           P == {s \in SUBSET U : \A x \in s : f[s] = w[x] + f[s \ {x}]}
<1>1. SUBSET U \subseteq N
  <2>1. ASSUME NEW s \in SUBSET U, \A x \in s : s \ {x} \in N  PROVE s \in N
    <3>1. CASE s = {}  BY <3>1, SumsOf
    <3>2. CASE s # {}
      <4>1. First(s) \in s /\ f[s] = w[First(s)] + f[s \ {First(s)}]  BY <3>2, SumsOf
      <4>2. w[First(s)] \in Nat /\ f[s \ {First(s)}] \in Nat  BY <2>1, <4>1
      <4> QED  BY <4>1, <4>2
    <3> QED  BY <3>1, <3>2
  <2> HIDE DEF N
  <2> QED  BY <2>1, SubsetsOf
<1>2. SUBSET U \subseteq P
  <2>1. ASSUME NEW s \in SUBSET U, \A x \in s : s \ {x} \in P, NEW x \in s
        PROVE  f[s] = w[x] + f[s \ {x}]
    <3>0. First(s) \in s /\ f[s] = w[First(s)] + f[s \ {First(s)}]  BY SumsOf
    <3>1. PICK c \in s : f[s] = w[c] + f[s \ {c}]  BY <3>0
    <3>2. CASE x = c  BY <3>1, <3>2
    <3>3. CASE x # c
      <4>1. f[s \ {c}] = w[x] + f[(s \ {c}) \ {x}]  BY <2>1, <3>3
      <4>2. f[s \ {x}] = w[c] + f[(s \ {x}) \ {c}]  BY <2>1, <3>3
      <4>3. (s \ {c}) \ {x} = (s \ {x}) \ {c}  OBVIOUS
      <4>4. w[x] \in Nat /\ w[c] \in Nat /\ f[(s \ {c}) \ {x}] \in Nat  BY <1>1
      <4> QED  BY <3>1, <4>1, <4>2, <4>3, <4>4
    <3> QED  BY <3>2, <3>3
  <2>2. \A s \in SUBSET U : (\A x \in s : s \ {x} \in P) => s \in P
    <3> SUFFICES ASSUME NEW s \in SUBSET U, \A x \in s : s \ {x} \in P  PROVE s \in P  OBVIOUS
    <3> QED  BY <2>1
  <2> HIDE DEF P
  <2> QED  BY <2>2, SubsetsOf
<1> QED  BY <1>1, <1>2

\* The weights of the elements of V together.
Weight(w, V) == MapThenSumSet(LAMBDA n : w[n], V)

\* The sum of the weights of V is one of the sums over a set that V is a part of.
LEMMA SumIs ==
  ASSUME NEW U, IsFiniteSet(U), NEW w \in [U -> Nat], NEW f, Sums(f, w, U), NEW V \in SUBSET U
  PROVE  Weight(w, V) = f[V]
<1> DEFINE wv == [x \in V |-> w[x]]
<1>1. IsFiniteSet(V) /\ wv \in [V -> Nat]  BY FS_Subset
<1>2. \E h : Sums(h, wv, V)
  <2> HIDE DEF wv
  <2> QED  BY <1>1, SumsOverSetsExist
<1>3. PICK h : Sums(h, wv, V)  BY <1>2
<1>4. \A s \in SUBSET V : s # {} => wv[First(s)] = w[First(s)]  BY DEF First
<1>5. h = [s \in SUBSET V |-> IF s = {} THEN 0 ELSE w[First(s)] + h[s \ {First(s)}]]
  <2> HIDE DEF wv
  <2> QED  BY <1>3, <1>4 DEF Sums
<1> DEFINE g == CHOOSE g : g = [s \in SUBSET V |->
                   IF s = {} THEN 0 ELSE w[CHOOSE x \in s : TRUE] + g[s \ {CHOOSE x \in s : TRUE}]]
<1>6. g = [s \in SUBSET V |->
             IF s = {} THEN 0 ELSE w[CHOOSE x \in s : TRUE] + g[s \ {CHOOSE x \in s : TRUE}]]
      BY <1>5 DEF First
<1>7. Weight(w, V) = g[V]  BY DEF Weight, MapThenSumSet, MapThenFoldSet
<1> HIDE DEF g
<1>8. Sums(g, w, V)  BY <1>6 DEF Sums, First
<1>9. g[V] = f[V]  BY <1>8, SumsAgree
<1> QED  BY <1>7, <1>9

\* More elements, more weight.
LEMMA SumsGrow ==
  ASSUME NEW U, IsFiniteSet(U), NEW w \in [U -> Nat \ {0}], NEW f, Sums(f, w, U),
         NEW s \in SUBSET U, NEW r \in SUBSET s
  PROVE  f[r] <= f[s] /\ (r # s => f[r] < f[s])
<1> DEFINE P == {t \in SUBSET U : \A q \in SUBSET t : f[q] <= f[t] /\ (q # t => f[q] < f[t])}
<1>1. \A t \in SUBSET U : f[t] \in Nat /\ \A x \in t : f[t] = w[x] + f[t \ {x}]
      BY SumsAnyOrder
<1>2. ASSUME NEW t \in SUBSET U, \A x \in t : t \ {x} \in P  PROVE t \in P
  <2>1. ASSUME NEW q \in SUBSET t, q # t  PROVE f[q] < f[t]
    <3>1. PICK x \in t : x \notin q  BY <2>1
    <3>2. q \in SUBSET (t \ {x}) /\ t \ {x} \in SUBSET U /\ q \in SUBSET U /\ x \in U  BY <3>1
    <3>3. f[q] <= f[t \ {x}]  BY <1>2, <3>2
    <3>4. f[t] = w[x] + f[t \ {x}] /\ f[t] \in Nat /\ f[t \ {x}] \in Nat /\ f[q] \in Nat
          BY <1>1, <3>2
    <3>5. w[x] \in Nat \ {0}  BY <3>2
    <3> QED  BY <3>3, <3>4, <3>5
  <2>2. f[t] \in Nat  BY <1>1
  <2>3. \A q \in SUBSET t : f[q] \in Nat  BY <1>1
  <2> QED  BY <2>1, <2>2, <2>3
<1>3. SUBSET U \subseteq P
  <2> HIDE DEF P
  <2> QED  BY <1>2, SubsetsOf
<1> QED  BY <1>3

\* What follows for the weights themselves.
LEMMA Weights ==
  ASSUME NEW U, IsFiniteSet(U), NEW w \in [U -> Nat \ {0}]
  PROVE  /\ Weight(w, {}) = 0
         /\ \A s \in SUBSET U :
              /\ Weight(w, s) \in Nat
              /\ \A x \in U \ s : Weight(w, s \cup {x}) = w[x] + Weight(w, s)
              /\ \A r \in SUBSET s :
                   Weight(w, r) <= Weight(w, s) /\ (r # s => Weight(w, r) < Weight(w, s))
<1>1. w \in [U -> Nat]  OBVIOUS
<1>2. PICK f : Sums(f, w, U)  BY <1>1, SumsOverSetsExist
<1>3. \A s \in SUBSET U : Weight(w, s) = f[s]  BY <1>1, <1>2, SumIs
<1>4. f[{}] = 0  BY <1>2, SumsOf
<1>5. \A s \in SUBSET U : f[s] \in Nat /\ \A x \in s : f[s] = w[x] + f[s \ {x}]
      BY <1>1, <1>2, SumsAnyOrder
<1>6. \A s \in SUBSET U : \A r \in SUBSET s : f[r] <= f[s] /\ (r # s => f[r] < f[s])
      BY <1>2, SumsGrow
<1>7. ASSUME NEW s \in SUBSET U, NEW x \in U \ s  PROVE f[s \cup {x}] = w[x] + f[s]
  <2>1. s \cup {x} \in SUBSET U /\ x \in s \cup {x} /\ (s \cup {x}) \ {x} = s  OBVIOUS
  <2> QED  BY <1>5, <2>1
<1>8. Weight(w, {}) = 0  BY <1>3, <1>4
<1>9. ASSUME NEW s \in SUBSET U
      PROVE  /\ Weight(w, s) \in Nat
             /\ \A x \in U \ s : Weight(w, s \cup {x}) = w[x] + Weight(w, s)
             /\ \A r \in SUBSET s :
                  Weight(w, r) <= Weight(w, s) /\ (r # s => Weight(w, r) < Weight(w, s))
  <2>1. \A x \in U \ s : s \cup {x} \in SUBSET U  OBVIOUS
  <2>2. \A r \in SUBSET s : r \in SUBSET U  OBVIOUS
  <2> QED  BY <1>3, <1>5, <1>6, <1>7, <2>1, <2>2
<1> QED  BY <1>8, <1>9

-----------------------------------------------------------------------------
(* LIST                                                                    *)

\* The bytes of the lines of some names.
Total(names) == Weight(LineLength, names)

LEMMA Totals ==
  /\ Total({}) = 0
  /\ \A s \in SUBSET Names :
       /\ Total(s) \in Nat
       /\ \A n \in Names \ s : Total(s \cup {n}) = LineLength[n] + Total(s)
       /\ \A r \in SUBSET s : Total(r) <= Total(s) /\ (r # s => Total(r) < Total(s))
BY NamesAssumption, LinesAssumption, Weights DEF Total

\* The directory did not change, and its lines fit into one buffer with the header.
Small(l) == l.always = l.ever /\ HeaderLength + Total(l.ever) < MAX_READ_LINE

\* What holds of a LIST in progress, when `there' are the names in the directory.
Listing(l, there) ==
  /\ l.always \subseteq l.ever /\ l.always \subseteq there /\ l.read \subseteq l.ever
  /\ l.shown \cup l.cut \cup l.buffer \subseteq l.ever
  /\ l.always \cap l.read \subseteq l.shown \cup l.cut \cup l.buffer
  /\ l.offset = 0 => l.sent /\ l.buffer = {}
  /\ Small(l) =>
       /\ l.cut = {}
       /\ \/ l.offset = HeaderLength + Total(l.read) /\ l.buffer = l.read /\ l.shown = {}
          \/ l.shown = l.ever /\ l.read = l.ever /\ l.buffer = {}

Listed(l) ==
  /\ l.sent /\ l.always \subseteq l.shown \cup l.cut /\ l.shown \cup l.cut \subseteq l.ever
  /\ Small(l) => l.shown = l.ever /\ l.cut = {}

ListsInv ==
  \A p \in Kids :
    /\ pc[p] = "listing" => Listing(list[p], Present)
    /\ pc[p] = "listed" => Listed(list[p])

\* A LIST begins with its header.
LEMMA ListingBegins ==
  ASSUME NEW there \in SUBSET Names
  PROVE  Listing([NoList EXCEPT !.offset = HeaderLength, !.always = there, !.ever = there], there)
<1> DEFINE l == [NoList EXCEPT !.offset = HeaderLength, !.always = there, !.ever = there]
<1>1. /\ l.offset = HeaderLength /\ l.always = there /\ l.ever = there /\ l.buffer = {}
      /\ l.shown = {} /\ l.cut = {} /\ l.read = {}
      BY DEF NoList
<1> HIDE DEF l
<1>2. HeaderLength \in Nat \ {0} /\ Total({}) = 0  BY LinesAssumption, Totals
<1>3. l.offset # 0 /\ l.offset = HeaderLength + Total(l.read)  BY <1>1, <1>2
<1>4. Listing(l, there)  BY <1>1, <1>3 DEF Listing
<1> QED  BY <1>4 DEF l

\* The directory changes under it.
LEMMA ListingChanges ==
  ASSUME NEW l \in Lists, NEW there \in SUBSET Names, Listing(l, there), NEW n \in Names
  PROVE  /\ n \notin there =>
              Listing([l EXCEPT !.ever = @ \cup {n}, !.read = @ \ {n}], there \cup {n})
         /\ Listing([l EXCEPT !.always = @ \ {n}], there \ {n})
<1>1. ASSUME n \notin there
      PROVE  Listing([l EXCEPT !.ever = @ \cup {n}, !.read = @ \ {n}], there \cup {n})
  <2> DEFINE m == [l EXCEPT !.ever = @ \cup {n}, !.read = @ \ {n}]
  <2>1. /\ m.offset = l.offset /\ m.always = l.always /\ m.ever = l.ever \cup {n}
        /\ m.buffer = l.buffer /\ m.shown = l.shown /\ m.cut = l.cut /\ m.read = l.read \ {n}
        /\ m.sent = l.sent
        BY DEF Lists
  <2> HIDE DEF m
  <2>2. ~Small(m)
    <3>1. n \notin m.always /\ n \in m.ever  BY <1>1, <2>1 DEF Listing
    <3> QED  BY <3>1 DEF Small
  <2>3. Listing(m, there \cup {n})  BY <2>1, <2>2 DEF Listing
  <2> QED  BY <2>3 DEF m
<1>2. Listing([l EXCEPT !.always = @ \ {n}], there \ {n})
  <2> DEFINE m == [l EXCEPT !.always = @ \ {n}]
  <2>1. /\ m.offset = l.offset /\ m.always = l.always \ {n} /\ m.ever = l.ever
        /\ m.buffer = l.buffer /\ m.shown = l.shown /\ m.cut = l.cut /\ m.read = l.read
        /\ m.sent = l.sent
        BY DEF Lists
  <2> HIDE DEF m
  <2>2. Small(m) => Small(l)
    <3>1. m.always = m.ever => l.always = l.ever  BY <2>1 DEF Listing
    <3> QED  BY <2>1, <3>1 DEF Small
  <2>3. Listing(m, there \ {n})  BY <2>1, <2>2 DEF Listing
  <2> QED  BY <2>3 DEF m
<1> QED  BY <1>1, <1>2

\* A line is added, and the buffer is sent if it is full then.  In a small directory
\* that happens with the last line only.
LEMMA ListingGrows ==
  ASSUME NEW l \in Lists, NEW there, Listing(l, there), NEW n \in l.ever \ l.read
  PROVE  Listing(Line(l, n), there)
<1> DEFINE b == IF Fits(l.offset, n) THEN l.buffer \cup {n} ELSE l.buffer
           c == IF Fits(l.offset, n) THEN l.cut ELSE l.cut \cup {n}
           o == l.offset + LineLength[n]
           r == l.read \cup {n}
           added == [l EXCEPT !.offset = o, !.read = r, !.buffer = b, !.cut = c]
           m == Line(l, n)
<1>0. /\ l.offset \in Nat /\ n \in Names /\ l.ever \in SUBSET Names /\ l.read \in SUBSET l.ever
      /\ LineLength[n] \in Nat \ {0} /\ MAX_READ_LINE \in Nat /\ HeaderLength \in Nat
      BY LinesAssumption DEF Lists, Listing
<1>1. o \in Nat /\ o # 0  BY <1>0
<1>2. m = IF IsFull(added.offset) THEN SentOff(added) ELSE added  BY DEF Line
<1>3. /\ b \subseteq l.buffer \cup {n} /\ l.buffer \subseteq b /\ l.cut \subseteq c
      /\ c \subseteq l.cut \cup {n} /\ n \in b \cup c
      OBVIOUS
<1>4. Fits(l.offset, n) => b = l.buffer \cup {n} /\ c = l.cut  OBVIOUS
<1> HIDE DEF b, c, r
<1>5. /\ added.offset = o /\ added.always = l.always /\ added.ever = l.ever /\ added.buffer = b
      /\ added.shown = l.shown /\ added.cut = c /\ added.read = r /\ added.sent = l.sent
      BY DEF Lists
<1>6. added \in [offset : {o}, buffer : {b}, shown : {l.shown}, cut : {c}, read : {r},
                 always : {l.always}, ever : {l.ever}, sent : {l.sent}]
      BY DEF Lists
<1> HIDE DEF added, m, o
<1>7. IF IsFull(o)
      THEN /\ m.offset = 0 /\ m.always = l.always /\ m.ever = l.ever /\ m.buffer = {}
           /\ m.shown = l.shown \cup b /\ m.cut = c /\ m.read = r /\ m.sent
      ELSE /\ m.offset = o /\ m.always = l.always /\ m.ever = l.ever /\ m.buffer = b
           /\ m.shown = l.shown /\ m.cut = c /\ m.read = r /\ m.sent = l.sent
      BY <1>2, <1>5, <1>6 DEF SentOff
<1>8. /\ m.always \subseteq m.ever /\ m.always \subseteq there /\ m.read \subseteq m.ever
      /\ m.shown \cup m.cut \cup m.buffer \subseteq m.ever
      /\ m.always \cap m.read \subseteq m.shown \cup m.cut \cup m.buffer
      BY <1>3, <1>7 DEF Listing, r
<1>9. m.offset = 0 => m.sent /\ m.buffer = {}  BY <1>1, <1>7
<1>10. ASSUME Small(m)
       PROVE  /\ m.cut = {}
              /\ \/ m.offset = HeaderLength + Total(m.read) /\ m.buffer = m.read /\ m.shown = {}
                 \/ m.shown = m.ever /\ m.read = m.ever /\ m.buffer = {}
  <2>1. Small(l)  BY <1>7, <1>10 DEF Small
  <2>2. l.read # l.ever  BY <1>0
  <2>3. /\ l.cut = {} /\ l.offset = HeaderLength + Total(l.read) /\ l.buffer = l.read
        /\ l.shown = {}
        BY <2>1, <2>2 DEF Listing
  <2>4. r \in SUBSET l.ever /\ l.read \in SUBSET Names  BY <1>0 DEF r
  <2>5. /\ Total(r) = LineLength[n] + Total(l.read) /\ Total(l.read) \in Nat /\ Total(l.ever) \in Nat
        /\ Total(r) <= Total(l.ever) /\ (r # l.ever => Total(r) < Total(l.ever))
        BY <1>0, <2>4, Totals DEF r
  <2>6. HeaderLength + Total(l.ever) < MAX_READ_LINE  BY <2>1 DEF Small
  <2>7. o = HeaderLength + Total(r)  BY <1>0, <2>3, <2>5 DEF o
  <2>8. Fits(l.offset, n)  BY <1>0, <2>5, <2>6, <2>7 DEF Fits, o
  <2>9. b = r /\ c = {}  BY <1>4, <2>3, <2>8 DEF r
  <2>10. IsFull(o) => r = l.ever  BY <1>0, <2>5, <2>6, <2>7 DEF IsFull
  <2>11. CASE IsFull(o)  BY <1>7, <2>3, <2>9, <2>10, <2>11
  <2>12. CASE ~IsFull(o)  BY <1>7, <2>3, <2>7, <2>9, <2>12
  <2> QED  BY <2>11, <2>12
<1>11. Listing(m, there)  BY <1>8, <1>9, <1>10 DEF Listing
<1> QED  BY <1>11 DEF m

\* readdir has no more.
LEMMA ListingEnds ==
  ASSUME NEW l \in Lists, NEW there, Listing(l, there), l.always \subseteq l.read
  PROVE  Listed(IF HasText(l) THEN SentOff(l) ELSE l)
<1>1. l.offset \in Nat /\ l.ever \in SUBSET Names  BY DEF Lists
<1>2. CASE l.offset > 0
  <2> DEFINE m == SentOff(l)
  <2>1. /\ m.always = l.always /\ m.ever = l.ever /\ m.shown = l.shown \cup l.buffer
        /\ m.cut = l.cut /\ m.sent
        BY DEF SentOff, Lists
  <2> HIDE DEF m
  <2>2. Small(m) => m.shown = m.ever /\ m.cut = {}
    <3> HAVE Small(m)
    <3>1. Small(l) /\ l.always = l.ever  BY <2>1 DEF Small
    <3>2. l.read = l.ever  BY <3>1 DEF Listing
    <3> QED  BY <2>1, <3>1, <3>2 DEF Listing
  <2>3. Listed(m)  BY <2>1, <2>2 DEF Listed, Listing
  <2> QED  BY <1>2, <2>3 DEF HasText, m
<1>3. CASE ~(l.offset > 0)
  <2>1. l.offset = 0 /\ l.sent /\ l.buffer = {}  BY <1>1, <1>3 DEF Listing
  <2>2. Small(l) => l.shown = l.ever /\ l.cut = {}
    <3> HAVE Small(l)
    <3>1. l.always = l.ever  BY DEF Small
    <3>2. l.read = l.ever  BY <3>1 DEF Listing
    <3> QED  BY <2>1, <3>2 DEF Listing
  <2>3. Listed(l)  BY <2>1, <2>2 DEF Listed, Listing
  <2> QED  BY <1>3, <2>3 DEF HasText
<1> QED  BY <1>2, <1>3

\* Every step keeps what holds of the LISTs in progress.
LEMMA NextLists ==
  ASSUME TypeOK, NameInv, ListsInv, [Next]_vars
  PROVE  ListsInv'
<1>0. /\ \A q \in Kids : list[q] \in Lists
      /\ Present \in SUBSET Names
      BY DEF TypeOK, Present
<1>1. ASSUME NEW p \in Kids, List(p)  PROVE ListsInv'
  <2>1. Present' = Present  BY <1>1 DEF List, ListStarts, ReadDir, ListEnds, ListReturns, files, Present
  <2>2. \A q \in Kids \ {p} : list'[q] = list[q] /\ pc'[q] = pc[q]
        BY <1>1 DEF List, ListStarts, ReadDir, ListEnds, ListReturns, Goto, child, TypeOK
  <2>3. /\ pc'[p] = "listing" => Listing(list'[p], Present)
        /\ pc'[p] = "listed" => Listed(list'[p])
    <3>1. CASE ListStarts(p)
      <4>1. /\ pc'[p] = "listing"
            /\ list'[p] = [NoList EXCEPT !.offset = HeaderLength, !.always = Present, !.ever = Present]
            BY <3>1 DEF ListStarts, Goto, TypeOK
      <4> QED  BY <1>0, <4>1, ListingBegins
    <3>2. CASE ReadDir(p)
      <4>1. pc[p] = "listing" /\ pc'[p] = "listing"  BY <3>2 DEF ReadDir, child
      <4>2. PICK n \in list[p].ever \ list[p].read : list'[p] = Line(list[p], n)
            BY <3>2 DEF ReadDir, TypeOK
      <4>3. Listing(Line(list[p], n), Present)  BY <1>0, <4>1, ListingGrows DEF ListsInv
      <4> QED  BY <4>1, <4>2, <4>3
    <3>3. CASE ListEnds(p)
      <4>1. /\ pc[p] = "listing" /\ list[p].always \subseteq list[p].read /\ pc'[p] = "listed"
            /\ list'[p] = IF HasText(list[p]) THEN SentOff(list[p]) ELSE list[p]
            BY <3>3 DEF ListEnds, Goto, TypeOK
      <4>2. Listed(IF HasText(list[p]) THEN SentOff(list[p]) ELSE list[p])
            BY <1>0, <4>1, ListingEnds DEF ListsInv
      <4> QED  BY <4>1, <4>2
    <3>4. CASE ListReturns(p)
      <4>1. pc'[p] = "command"  BY <3>4 DEF ListReturns, Goto, TypeOK
      <4> QED  BY <4>1
    <3> QED  BY <1>1, <3>1, <3>2, <3>3, <3>4 DEF List
  <2>4. ASSUME NEW q \in Kids
        PROVE  /\ pc'[q] = "listing" => Listing(list'[q], Present')
               /\ pc'[q] = "listed" => Listed(list'[q])
    BY <2>1, <2>2, <2>3 DEF ListsInv
  <2> QED  BY <2>4 DEF ListsInv
<1>2. ASSUME NEW p \in Kids, \/ Put(p)
                             \/ Get(p)
      PROVE  ListsInv'
  <2>1. \A q \in Kids : pc'[q] \in {"listing", "listed"} => pc'[q] = pc[q]
        BY <1>2 DEF Put, Get, TestPut, Create, CreateFails, Write, PutEnds, PutFails, Dies, TestGet,
                    Open, Read, GetEnds, Closes, Goto, TypeOK
  <2>2. \/ UNCHANGED <<dir, list>>
        \/ \E n \in Names : Appears(n) /\ Present' = Present \cup {n} /\ n \notin Present
        \/ \E n \in Names : Disappears(n) /\ Present' = Present \ {n}
    <3>1. CASE Create(p) /\ dir[name[p]] = None
      <4>1. name[p] \in Names /\ NewInode \in Inodes
            BY <3>1 DEF NameInv, Create, NewInode
      <4>2. dir' = [dir EXCEPT ![name[p]] = NewInode] /\ Appears(name[p])
            BY <3>1 DEF Create
      <4>3. NewInode # None  BY <4>1, FilesAssumption
      <4>4. Present' = Present \cup {name[p]} /\ name[p] \notin Present
            BY <3>1, <4>1, <4>2, <4>3 DEF Present, TypeOK
      <4> QED  BY <4>1, <4>2, <4>4
    <3>2. CASE Create(p) /\ dir[name[p]] # None
      BY <3>2 DEF Create
    <3>3. CASE PutFails(p)
      <4>1. name[p] \in Names  BY <3>3 DEF NameInv, PutFails
      <4>2. dir' = [dir EXCEPT ![name[p]] = None] /\ Disappears(name[p])
            BY <3>3 DEF PutFails, Closes, Removed
      <4>3. Present' = Present \ {name[p]}  BY <4>1, <4>2 DEF Present, TypeOK
      <4> QED  BY <4>1, <4>2, <4>3
    <3>4. ASSUME \/ \E n \in Names : TestPut(p, n)
                 \/ CreateFails(p)
                 \/ Write(p)
                 \/ PutEnds(p)
                 \/ Dies(p)
                 \/ Get(p)
          PROVE  UNCHANGED <<dir, list>>
      BY <3>4 DEF TestPut, CreateFails, Write, PutEnds, Dies, Get, TestGet, Open, Read, GetEnds,
                  Closes, files
    <3> QED  BY <1>2, <3>1, <3>2, <3>3, <3>4 DEF Put
  <2>3. ASSUME NEW q \in Kids, pc[q] = "listing"  PROVE Listing(list'[q], Present')
    <3>1. Listing(list[q], Present)  BY <2>3 DEF ListsInv
    <3>2. CASE UNCHANGED <<dir, list>>  BY <3>1, <3>2 DEF Present
    <3>3. ASSUME NEW n \in Names, Appears(n), Present' = Present \cup {n}, n \notin Present
          PROVE  Listing(list'[q], Present')
      <4>1. list'[q] = [list[q] EXCEPT !.ever = @ \cup {n}, !.read = @ \ {n}]
            BY <2>3, <3>3 DEF Appears
      <4>2. Listing([list[q] EXCEPT !.ever = @ \cup {n}, !.read = @ \ {n}], Present \cup {n})
        <5>1. list[q] \in Lists /\ Present \in SUBSET Names  BY <1>0, <2>3
        <5> QED  BY <5>1, <3>1, <3>3, ListingChanges
      <4> QED  BY <3>3, <4>1, <4>2
    <3>4. ASSUME NEW n \in Names, Disappears(n), Present' = Present \ {n}
          PROVE  Listing(list'[q], Present')
      <4>1. list'[q] = [list[q] EXCEPT !.always = @ \ {n}]  BY <2>3, <3>4 DEF Disappears
      <4>2. Listing([list[q] EXCEPT !.always = @ \ {n}], Present \ {n})
        <5>1. list[q] \in Lists /\ Present \in SUBSET Names  BY <1>0, <2>3
        <5> QED  BY <5>1, <3>1, <3>4, ListingChanges
      <4> QED  BY <3>4, <4>1, <4>2
    <3> QED  BY <2>2, <3>2, <3>3, <3>4
  <2>4. \A q \in Kids : pc[q] = "listed" => list'[q] = list[q]
        BY <2>2 DEF Appears, Disappears
  <2> QED  BY <2>1, <2>3, <2>4 DEF ListsInv
<1>3. CASE UNCHANGED vars
  BY <1>3 DEF vars, files, child, ListsInv, Present
<1> QED  BY <1>1, <1>2, <1>3 DEF Next

\* A LIST that has ended sent every name that was there all the time, whole or cut at the
\* end of a buffer, and no other; in a small directory that did not change, every name
\* whole: for any number of names of any length, whatever PUTs do meanwhile.
THEOREM ListIsCompleteHolds == Spec => []ListIsComplete
<1>1. Init => ListsInv  BY DEF Init, ListsInv
<1>2. TypeOK /\ StoreInv /\ ListsInv /\ [Next]_vars => ListsInv'
      BY NextLists DEF StoreInv
<1>3. ListsInv => ListIsComplete
  BY DEF ListsInv, Listed, Small, Total, Weight, ListIsComplete
<1> QED  BY <1>1, <1>2, <1>3, Invariant, PTL DEF Spec
=============================================================================
