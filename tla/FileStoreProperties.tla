-------------------------- MODULE FileStoreProperties --------------------------
(***************************************************************************)
(* What children that share a directory can rely on, and when.             *)
(***************************************************************************)
EXTENDS FileStore, FiniteSetsExt, TLC

KidSymmetry == Permutations(Kids)

\* Values of LineLength: either fits into the buffer with the header; not both.
Lines == [n \in Names |-> IF n = "x" THEN 4 ELSE 3]

Whole(blocks) == Len(blocks) = Blocks /\ \A k \in 1 .. Blocks : blocks[k] \in Kids

Lists ==
  [offset : Nat, buffer : SUBSET Names, shown : SUBSET Names, cut : SUBSET Names,
   read : SUBSET Names, always : SUBSET Names, ever : SUBSET Names, sent : BOOLEAN]

\* The variables keep their types; no file is longer than what was sent; and between
\* two lines of LIST the buffer has room for a character and the zero byte, so that the
\* size given to snprintf stays positive.
TypeOK ==
  /\ dir \in [Names -> Inodes \cup {None}]
  /\ DOMAIN data = Inodes
  /\ \A i \in Inodes : data[i] \in Seq(Kids \cup {None}) /\ Len(data[i]) <= Blocks
  /\ pc \in [Kids -> {"command", "create", "writing", "open", "reading", "listing", "listed"}]
  /\ name \in [Kids -> Names \cup {None}]
  /\ fd \in [Kids -> Inodes \cup {None}]
  /\ \A p \in Kids : pc[p] \in {"writing", "reading"} <=> fd[p] # None
  /\ size \in [Kids -> 0 .. Blocks]
  /\ DOMAIN got = Kids /\ \A p \in Kids : got[p] \in Seq(Kids \cup {None}) /\ Len(got[p]) <= Blocks
  /\ list \in [Kids -> Lists]
  /\ \A p \in Kids : pc[p] = "listing" => list[p].offset \in 0 .. MAX_READ_LINE - 2
  /\ alone \in [Kids -> BOOLEAN] /\ kept \in [Names -> Kids \cup {None}]
  /\ partial \subseteq Names

\* A PUT that no other PUT of the name overlaps writes the file the name refers to,
\* so that it can remove no other and its remove() cannot fail; and once it has
\* succeeded that file is there, complete and unchanged, for ever: GET and LIST,
\* later PUTs of the name, and failures and deaths of other children do not touch it.
PutIsKept ==
  /\ \A p \in Kids : pc[p] = "writing" /\ alone[p] => dir[name[p]] = fd[p]
  /\ \A n \in Names : kept[n] # None =>
       dir[n] # None /\ data[dir[n]] = [k \in 1 .. Blocks |-> kept[n]]

\* A file that is not complete is being written, or its child died: this holds even
\* when several children write one file, cut it, or remove it under each other.
NoPartialFile ==
  \A n \in Names : dir[n] # None /\ n \notin partial /\ ~Whole(data[dir[n]]) =>
    \E p \in Kids : pc[p] = "writing" /\ fd[p] = dir[n]

\* A GET that succeeds without a PUT of the name meanwhile has the whole file.
GetIsWhole ==
  \A p \in Kids :
    pc[p] = "reading" /\ Len(got[p]) = size[p] /\ alone[p] /\ name[p] \notin partial => Whole(got[p])

\* A LIST that has ended sent something, even if there was no file, or the last line
\* filled the buffer.  It sent each name that was there all the time, unless the line
\* crossed the end of the buffer, and none that never was.  If the directory did not
\* change and its lines fit into one buffer with the header, no name is missing.
ListIsComplete ==
  \A p \in Kids : LET l == list[p] IN pc[p] = "listed" =>
    /\ l.sent /\ l.always \subseteq l.shown \cup l.cut /\ l.shown \cup l.cut \subseteq l.ever
    /\ l.always = l.ever /\ HeaderLength + MapThenSumSet(LAMBDA n : LineLength[n], l.ever) < MAX_READ_LINE
       => l.shown = l.ever /\ l.cut = {}

-----------------------------------------------------------------------------
\* The inductive invariant of FileStoreProofs.

\* Children at work on a file know its name; with no file open, a child has read and
\* written nothing.  An inode has one name, and an open one no other than that it was
\* opened by.
NameInv ==
  /\ \A p \in Kids : pc[p] \in {"create", "writing", "open", "reading"} => name[p] \in Names
  /\ \A p \in Kids : fd[p] = None => got[p] = << >>
  /\ \A m, n \in Names : dir[m] = dir[n] /\ dir[m] # None => m = n
  /\ \A p \in Kids : \A n \in Names : fd[p] # None /\ dir[n] = fd[p] => n = name[p]

\* A PUT that has no rival made the file and wrote all that is in it.
SoleWriter ==
  \A p \in Kids : alone[p] =>
    /\ pc[p] \in {"create", "writing"} => Putting(name[p]) = {p}
    /\ pc[p] = "create" => dir[name[p]] = None
    /\ pc[p] = "writing" =>
         dir[name[p]] = fd[p] /\ data[fd[p]] = [k \in 1 .. Len(got[p]) |-> p]

\* What a GET that meets no PUT has read so far is the beginning of the file.
SoleReader ==
  \A p \in Kids : alone[p] =>
    /\ pc[p] \in {"open", "reading"} => Putting(name[p]) = {} /\ dir[name[p]] # None
    /\ pc[p] = "reading" =>
         /\ dir[name[p]] = fd[p] /\ size[p] = Len(data[fd[p]]) /\ Len(got[p]) <= size[p]
         /\ \A k \in 1 .. Len(got[p]) : got[p][k] = data[fd[p]][k]

\* Nobody works on a file that was kept.
KeptInv ==
  \A n \in Names : kept[n] # None =>
    /\ Putting(n) = {} /\ dir[n] # None
    /\ data[dir[n]] = [k \in 1 .. Blocks |-> kept[n]]

\* A block that is missing in a file is one that a child has still to write.
BlockInv ==
  \A n \in Names : dir[n] # None /\ n \notin partial =>
    \A k \in 1 .. Blocks :
      \/ k <= Len(data[dir[n]]) /\ data[dir[n]][k] \in Kids
      \/ \E q \in Kids : pc[q] = "writing" /\ fd[q] = dir[n] /\ Len(got[q]) < k

StoreInv == NameInv /\ SoleWriter /\ SoleReader /\ KeptInv /\ BlockInv
=============================================================================
