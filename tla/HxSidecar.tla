----------------------------- MODULE HxSidecar ------------------------------
(***************************************************************************)
(* A file's AppleDouble sidecar (hxhfs): metadata written in place entry by  *)
(* entry, or as a whole to a scratch file that replaces it, and the resource *)
(* fork at its end, written through a handle. Any call may fail, and the    *)
(* program stop, between any two writes. Offsets are cells: the header one, *)
(* a descriptor one, and dates and Finder info one each.                   *)
(***************************************************************************)
EXTENDS Naturals, Sequences, SequencesExt

CONSTANTS
  Containers,   \* what may be at the sidecar's path at first
  MaxComment,   \* MAX_COMMENT
  MaxEntries,   \* HDR_MAX
  MaxLength,    \* u32::MAX: the longest fork a descriptor can say
  MaxOffset,    \* u32::MAX: the farthest an entry can be
  MaxWrites,    \* bound: how many times metadata is written
  MaxForkWrites \* bound: and how many times the fork is

ASSUME SidecarAssumption ==
  /\ MaxComment \in Nat /\ MaxLength \in Nat /\ MaxOffset \in Nat
  /\ MaxEntries \in Nat /\ MaxEntries >= 4      \* those of a new table
  /\ MaxWrites \in Nat /\ MaxForkWrites \in Nat

VARIABLES
  container,  \* the file at the sidecar's path
  writer,     \* hfsinfo_write in progress
  scratch,    \* the scratch file of a rewrite
  fork,       \* a ResourceFork, and whether its file is still at the path
  writes,     \* how many metadata writes there have been
  forkWrites, \* and fork writes
  cut,        \* history: the first write of a container was cut short
  raced       \* history: the fork was written during a rewrite

vars == <<container, writer, scratch, fork, writes, forkWrites, cut, raced>>

----------------------------------------------------------------------------
(* Containers.                                                             *)

Descr(id, offset, length) == [id |-> id, offset |-> offset, length |-> length]
TableEnd(table) == 1 + Len(table)
EndOf(d) == d.offset + d.length

\* Entries by what is made of them, and bytes by what they are of.
Ids == {"comment", "dates", "finfo", "fork", "other"}
Kinds == Ids \cup {"head", "zero"}

\* A file: its table, once there is a header, and its bytes. One that is not there
\* is as an empty one: whoever opens it finds no record, or makes it.
File(table, bytes) == [table |-> table, bytes |-> bytes]
NoTable == <<>>
EmptyFile == File(NoTable, <<>>)

\* A byte: what it is of, which write wrote it, and which of that it is.
Byte(kind, write, k) == <<kind, write, k>>
Zero == Byte("zero", 0, 0)
HeadOf(table) == [k \in 1 .. TableEnd(table) |-> Byte("head", 0, k)]

\* bytes, with cells written at an offset; a gap before them is zeros.
Overwritten(bytes, offset, cells) ==
  LET end == IF cells = <<>> THEN 0 ELSE offset + Len(cells)
  IN  [j \in 1 .. IF end > Len(bytes) THEN end ELSE Len(bytes) |->
         IF offset < j /\ j <= end THEN cells[j - offset]
         ELSE IF j <= Len(bytes) THEN bytes[j] ELSE Zero]

Has(table, id) == \E j \in DOMAIN table : table[j].id = id
FirstOf(table, id) == table[SelectInSeq(table, LAMBDA d : d.id = id)]
LastOf(table, id) == table[SelectLastInSeq(table, LAMBDA d : d.id = id)]

\* Valid, were entries not held against each other.
MutValid(table, size) ==
  \A j \in DOMAIN table :
    table[j].length > 0 => TableEnd(table) <= table[j].offset /\ EndOf(table[j]) <= size

\* validate_descrs(): what the readers take is there, and no two entries share a byte.
Valid(table, size) ==
  /\ \A j \in DOMAIN table : table[j].id \in {"dates", "finfo"} => table[j].length >= 1
  /\ \A j \in DOMAIN table :
       table[j].length > 0 => TableEnd(table) <= table[j].offset /\ EndOf(table[j]) <= size
  /\ \A j, k \in DOMAIN table :
       j # k /\ table[j].length > 0 /\ table[k].length > 0 =>
         EndOf(table[j]) <= table[k].offset \/ EndOf(table[k]) <= table[j].offset

\* read_dbl_descrs(): no record, a table, or nothing to be trusted.
Descrs(file) ==
  CASE file.bytes = <<>> -> "none"
    [] /\ file.table # NoTable /\ Len(file.table) <= MaxEntries
       /\ TableEnd(file.table) <= Len(file.bytes)
       /\ Valid(file.table, Len(file.bytes)) -> "some"
    [] OTHER -> "bad"

Contents(file, d) == SubSeq(file.bytes, d.offset + 1, EndOf(d))

\* The bytes that are the header's, or an entry's that is no fork.
NotFork(table, j) ==
  \/ j <= TableEnd(table)
  \/ \E k \in DOMAIN table :
       table[k].id # "fork" /\ table[k].offset < j /\ j <= EndOf(table[k])

\* Where a record can be read, what is of no entry is of a fork that was, or nothing.
ASSUME ContainersAssumption ==
  \A file \in Containers :
    /\ file.table \in Seq([id : Ids, offset : Nat, length : Nat])
    /\ file.bytes \in Seq(Kinds \X Nat \X Nat)
    /\ file = File(file.table, file.bytes)
    /\ file.bytes = <<>> => file.table = NoTable
    /\ Descrs(file) = "some" =>
         \A j \in DOMAIN file.bytes :
           NotFork(file.table, j) \/ file.bytes[j][1] \in {"fork", "zero"}

----------------------------------------------------------------------------
(* Metadata.                                                               *)

\* HfsInfo: which write it is, its comment's length and its fork's. What is
\* written of it for each entry.
Info(write, comment, length) == [write |-> write, comment |-> comment, length |-> length]
CommentLen(fi) == IF fi.comment < MaxComment THEN fi.comment ELSE MaxComment
Payload(id, fi) ==
  CASE id = "comment" -> [k \in 1 .. CommentLen(fi) |-> Byte("comment", fi.write, k)]
    [] id \in {"dates", "finfo"} -> <<Byte(id, fi.write, 1)>>
    [] OTHER -> <<>>

\* FreshTable, were the header not counted in its base.
MutFreshTable(comment) ==
  <<Descr("comment", 4, comment), Descr("dates", 4 + comment, 1),
    Descr("finfo", 5 + comment, 1), Descr("fork", 6 + comment, 0)>>

\* fresh_dbl_descrs()
FreshTable(comment) ==
  <<Descr("comment", 5, comment), Descr("dates", 5 + comment, 1),
    Descr("finfo", 6 + comment, 1), Descr("fork", 7 + comment, 0)>>

\* The entries, with the fork as long as it is said to be.
WithFork(table, length) ==
  [j \in DOMAIN table |-> IF table[j].id = "fork" THEN [table[j] EXCEPT !.length = length]
                          ELSE table[j]]

\* Where entries of these lengths end when they are packed from base: next, in the code.
Packed(base, lengths) ==
  LET end[j \in 0 .. Len(lengths)] == IF j = 0 THEN base ELSE end[j - 1] + lengths[j]
  IN  end

\* Relaid, were the entries left in the order they are in.
MutRelaid(table, comment) ==
  LET sized(j) == IF table[j].id = "comment" THEN comment ELSE table[j].length
      ends == Packed(TableEnd(table), [j \in DOMAIN table |-> sized(j)])
  IN  [j \in DOMAIN table |-> Descr(table[j].id, ends[j - 1], sized(j))]

\* relayout_dbl(): packed in the table's order, the fork last, the comment as long
\* as it will be.
Relaid(table, comment) ==
  LET sized(j)   == IF table[j].id = "comment" THEN comment ELSE table[j].length
      share(yes) == [j \in DOMAIN table |-> IF (table[j].id = "fork") = yes THEN sized(j) ELSE 0]
      others     == Packed(TableEnd(table), share(FALSE))
      forks      == Packed(others[Len(table)], share(TRUE))
      ends(j)    == IF table[j].id = "fork" THEN forks ELSE others
  IN  [j \in DOMAIN table |-> Descr(table[j].id, ends(j)[j - 1], sized(j))]

----------------------------------------------------------------------------
(* hfsinfo_write                                                           *)

\* Where the write is, what it writes and how, the tables it goes from and to, and
\* the next entry.
Writing(at, how, fi, from, to, next) ==
  [at |-> at, how |-> how, fi |-> fi, from |-> from, to |-> to, next |-> next]
NoWriter == Writing("idle", "none", Info(0, 0, 0), <<>>, <<>>, 0)

\* How, were a comment longer than the stored one written over it.
MutHow(file, fi) ==
  LET table == WithFork(file.table, fi.length)
  IN  CASE Descrs(file) = "bad" -> "refuse"
        [] Descrs(file) = "none" -> IF fi.length = 0 THEN "fresh" ELSE "refuse"
        [] Descrs(file) = "some" ->
             IF \/ fi.length # 0 /\ ~Has(table, "fork")
                \/ ~Valid(table, Len(file.bytes)) THEN "refuse"
             ELSE IF \E j \in DOMAIN table :
                       table[j].id = "comment" /\ table[j].length > CommentLen(fi) THEN "rewrite"
             ELSE "in place"

\* What write_dbl_info() does with what it finds: write a container's first record,
\* write in place, rewrite, or refuse.
How(file, fi) ==
  LET table == WithFork(file.table, fi.length)
  IN  CASE Descrs(file) = "bad" -> "refuse"
        [] Descrs(file) = "none" -> IF fi.length = 0 THEN "fresh" ELSE "refuse"
        [] Descrs(file) = "some" ->
             IF \/ fi.length # 0 /\ ~Has(table, "fork")
                \/ ~Valid(table, Len(file.bytes)) THEN "refuse"
             ELSE IF \E j \in DOMAIN table :
                       table[j].id = "comment" /\ table[j].length # CommentLen(fi) THEN "rewrite"
             ELSE "in place"

\* write_dbl_info(), up to the first write: what cannot be written is refused.
WriteBegin(comment, length) ==
  LET fi    == Info(writes + 1, comment, length)
      how   == How(container, fi)
      table == WithFork(container.table, length)
      to    == CASE how = "fresh"   -> FreshTable(CommentLen(fi))
                 [] how = "rewrite" -> Relaid(table, CommentLen(fi))
                 [] OTHER           -> table
      at    == IF how = "rewrite" THEN "scratch" ELSE "entries"
  IN  /\ writer.at = "idle" /\ writes < MaxWrites
      /\ writes' = writes + 1
      /\ writer' = IF \/ length > MaxLength \/ how = "refuse"
                      \/ \E j \in DOMAIN to : to[j].offset > MaxOffset
                   THEN NoWriter ELSE Writing(at, how, fi, table, to, 1)
      /\ raced' = FALSE
      /\ UNCHANGED <<container, scratch, fork, forkWrites, cut>>

\* The scratch file, made new.
MakeScratch ==
  /\ writer.at = "scratch"
  /\ scratch' = EmptyFile
  /\ writer' = [writer EXCEPT !.at = "copy"]
  /\ UNCHANGED <<container, fork, writes, forkWrites, cut, raced>>

\* The file that entries are written to.
Target == IF writer.how = "rewrite" THEN scratch ELSE container
WriteTarget(file) ==
  IF writer.how = "rewrite" THEN scratch' = file /\ UNCHANGED container
  ELSE container' = file /\ UNCHANGED scratch

\* The writer after an entry: at the next, or past the last of them.
Onward(past) ==
  IF writer.next < Len(writer.to) THEN [writer EXCEPT !.next = @ + 1]
  ELSE [writer EXCEPT !.at = past, !.next = 1]

\* CopyEntry, were the old file not sought to the entry.
MutCopyEntry ==
  LET to == writer.to[writer.next]
      from == Descr(to.id, TableEnd(writer.from), to.length)
      cells == IF to.id = "comment" THEN <<>> ELSE Contents(container, from)
  IN  /\ writer.at = "copy"
      /\ scratch' = [scratch EXCEPT !.bytes = Overwritten(@, to.offset, cells)]
      /\ writer' = Onward("entries")
      /\ UNCHANGED <<container, fork, writes, forkWrites, cut, raced>>

\* One entry from the old file to the scratch: all but the comment.
CopyEntry ==
  LET from == writer.from[writer.next]
      to   == writer.to[writer.next]
      cells == IF to.id = "comment" THEN <<>> ELSE Contents(container, from)
  IN  /\ writer.at = "copy"
      /\ scratch' = [scratch EXCEPT !.bytes = Overwritten(@, to.offset, cells)]
      /\ writer' = Onward("entries")
      /\ UNCHANGED <<container, fork, writes, forkWrites, cut, raced>>

\* write_dbl_entries(): one entry's payload.
WriteEntry ==
  LET to == writer.to[writer.next]
      cells == Payload(to.id, writer.fi)
  IN  /\ writer.at = "entries"
      /\ WriteTarget([Target EXCEPT !.bytes = Overwritten(@, to.offset, cells)])
      /\ writer' = Onward("header")
      /\ UNCHANGED <<fork, writes, forkWrites, cut, raced>>

\* And the header, last, and the file synced.
WriteHeader ==
  /\ writer.at = "header"
  /\ WriteTarget(File(writer.to, Overwritten(Target.bytes, 0, HeadOf(writer.to))))
  /\ writer' = IF writer.how = "rewrite" THEN [writer EXCEPT !.at = "rename"] ELSE NoWriter
  /\ UNCHANGED <<fork, writes, forkWrites, cut, raced>>

\* The scratch file takes the container's place; a fork's handle keeps the old one.
Rename ==
  /\ writer.at = "rename"
  /\ container' = scratch /\ scratch' = EmptyFile
  /\ fork' = [fork EXCEPT !.held = FALSE]
  /\ writer' = NoWriter
  /\ UNCHANGED <<writes, forkWrites, cut, raced>>

\* A call of the write fails. A scratch file is removed. (That a seek within a file
\* fails, which skips an entry's data and goes on, is left out.)
Fail ==
  /\ writer.at # "idle"
  /\ writer' = NoWriter /\ scratch' = EmptyFile
  /\ cut' = (cut \/ writer.how = "fresh")
  /\ UNCHANGED <<container, fork, writes, forkWrites, raced>>

----------------------------------------------------------------------------
(* The resource fork's handle.                                             *)

Closed == [open |-> FALSE, held |-> FALSE, start |-> 0, position |-> 0, length |-> 0, max |-> 0]

\* Room, were every fork thought to be the last entry.
MutRoom(file, d) == MaxLength

\* How long the fork may become: only at the file's end may it grow.
Room(file, d) == IF EndOf(d) = Len(file.bytes) THEN MaxLength ELSE d.length

\* resource_open(), for reading and writing.
ForkOpen ==
  /\ ~fork.open /\ Descrs(container) = "some" /\ Has(container.table, "fork")
  /\ LET d == FirstOf(container.table, "fork")
     IN  fork' = [open |-> TRUE, held |-> TRUE, start |-> d.offset, position |-> 0,
                  length |-> d.length, max |-> Room(container, d)]
  /\ UNCHANGED <<container, writer, scratch, writes, forkWrites, cut, raced>>

\* ResourceFork::write, of n bytes as far as there is room.
ForkWrite(n) ==
  LET count == IF n < fork.max - fork.position THEN n ELSE fork.max - fork.position
      to    == fork.position + count
      cells == [k \in 1 .. count |-> Byte("fork", forkWrites + 1, k)]
  IN  /\ fork.open /\ forkWrites < MaxForkWrites /\ fork.position < fork.max
      /\ container' =
           IF ~fork.held THEN container
           ELSE [container EXCEPT !.bytes = Overwritten(@, fork.start + fork.position, cells)]
      /\ fork' = [fork EXCEPT !.position = to, !.length = IF to > @ THEN to ELSE @]
      /\ forkWrites' = forkWrites + 1
      /\ raced' = (raced \/ writer.how = "rewrite")
      /\ UNCHANGED <<writer, scratch, writes, cut>>

\* ResourceFork::seek, past the end too.
ForkSeek(to) ==
  /\ fork.open /\ to <= fork.max /\ to # fork.position
  /\ fork' = [fork EXCEPT !.position = to]
  /\ UNCHANGED <<container, writer, scratch, writes, forkWrites, cut, raced>>

ForkClose ==
  /\ fork.open /\ fork' = Closed
  /\ UNCHANGED <<container, writer, scratch, writes, forkWrites, cut, raced>>

\* The program stops. What it wrote stays written.
Stop ==
  /\ writer.at # "idle" \/ fork.open
  /\ writer' = NoWriter /\ scratch' = EmptyFile /\ fork' = Closed
  /\ cut' = (cut \/ writer.how = "fresh")
  /\ UNCHANGED <<container, writes, forkWrites, raced>>

----------------------------------------------------------------------------
Init ==
  /\ container \in Containers
  /\ writer = NoWriter /\ scratch = EmptyFile /\ fork = Closed
  /\ writes = 0 /\ forkWrites = 0 /\ cut = FALSE /\ raced = FALSE

Next ==
  \/ \E comment \in 0 .. MaxComment + 1, length \in 0 .. MaxLength + 1 :
       WriteBegin(comment, length)
  \/ MakeScratch \/ CopyEntry \/ WriteEntry \/ WriteHeader \/ Rename \/ Fail
  \/ ForkOpen \/ ForkClose \/ Stop
  \/ \E n \in 1 .. MaxLength : ForkWrite(n)
  \/ \E to \in 0 .. MaxLength : ForkSeek(to)

Spec == Init /\ [][Next]_vars

----------------------------------------------------------------------------
(* What a reader finds.                                                    *)

Owned == {"comment", "dates", "finfo"}
Nowhere == <<>>

\* read_dbl_info(): what the record says of an entry, as much of it as is read.
ReadLength(d) ==
  CASE d.id = "comment" -> IF d.length < MaxComment THEN d.length ELSE MaxComment
    [] d.id \in {"dates", "finfo"} -> 1
    [] OTHER -> d.length
Found(file, id) ==
  IF Descrs(file) # "some" \/ ~Has(file.table, id) THEN Nowhere
  ELSE LET d == LastOf(file.table, id)
       IN  Contents(file, [d EXCEPT !.length = ReadLength(d)])

\* What this module does not own: other entries, and the tails of its own.
NotOwned(file) ==
  IF Descrs(file) # "some" THEN {}
  ELSE {<<d.id, Contents(file, IF d.id = "other" THEN d
                               ELSE [d EXCEPT !.offset = @ + 1, !.length = @ - 1])>> :
          d \in {d \in ToSet(file.table) :
                   d.id = "other" \/ (d.id \in {"dates", "finfo"} /\ d.length > 1)}}

Entries(table) == {table[j].id : j \in DOMAIN table}

----------------------------------------------------------------------------
(* Properties.                                                             *)

NotWanted == [to |-> [id \in Owned |-> Nowhere], whole |-> FALSE, has |-> {}]

\* HxRecord of this sidecar: a reader, whenever it comes, finds each field as some
\* write wanted it, and of a first write or a rewrite all or nothing
\* (write_dbl_entries, relayout_dbl: "a failure leaves the original untouched").
Record == INSTANCE HxRecord WITH
  NoWrite <- NotWanted,
  shown <- [id \in Owned |-> Found(container, id)],
  wanted <- IF writer.at = "idle" THEN NotWanted
            ELSE [to |-> [id \in Owned |-> Payload(id, writer.fi)],
                  whole |-> writer.how # "in place",
                  has |-> Owned \cap Entries(writer.to)]

ReadsAsRecord == Record!Spec

\* Writing metadata, or giving it up anywhere, changes no byte of the fork that is
\* recorded before and after, unless a handle writes to it during the rewrite.
ForkKept ==
  [][LET was == Found(container, "fork")
         is  == Found(container', "fork")
         both == IF Len(was) < Len(is) THEN Len(was) ELSE Len(is)
     IN  forkWrites' = forkWrites /\ ~raced => SubSeq(is, 1, both) = SubSeq(was, 1, both)]_vars

\* What hxhfs does not own is kept byte for byte by every write of metadata or of a
\* fork, by every rewrite, and where they stop (relayout_dbl, Room).
OthersKept == [][NotOwned(container') = NotOwned(container)]_vars

\* A recorded fork is never longer than what was written as one: none of its bytes
\* are of another entry or of the header (validate_descrs in write_dbl_info).
ForkBytesAreForks ==
  \A j \in DOMAIN Found(container, "fork") :
    Found(container, "fork")[j][1] \in {"fork", "zero"}

\* Only a container's very first write, cut short before its header, leaves one that
\* cannot be read (nor written again: write_dbl_info refuses it).
UnreadableOnlyIfCut ==
  Descrs(container) = "bad" => cut \/ writer.how = "fresh" \/ container \in Containers

\* A fork that a rewrite has placed can grow, wherever it was (relayout_dbl).
RewrittenCanGrow ==
  [][Rename /\ Has(container'.table, "fork") =>
       Room(container', FirstOf(container'.table, "fork")) = MaxLength]_vars
=============================================================================
