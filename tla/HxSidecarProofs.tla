-------------------------- MODULE HxSidecarProofs --------------------------
(***************************************************************************)
(* Theorems about a sidecar, whatever it was, whatever is written and       *)
(* wherever a write is given up: a fork has no byte of another entry, a     *)
(* record that could be read stays readable, and a reader finds each field  *)
(* as a write wanted it.                                                   *)
(***************************************************************************)
EXTENDS HxSidecar, HxFoldProofs

\* Types.
Entry == [id : Ids, offset : Nat, length : Nat]
ByteSet == Kinds \X Nat \X Nat
Files == [table : Seq(Entry), bytes : Seq(ByteSet)]

----------------------------------------------------------------------------
(* Bytes.                                                                  *)

\* What a write makes of a file: its cells where they were to go, zeros in a gap
\* before them, and everything else as it was.
IsWritten(new, bytes, offset, cells) ==
  /\ new \in Seq(ByteSet) /\ Len(new) \in Nat
  /\ Len(bytes) <= Len(new)
  /\ cells # <<>> => offset + Len(cells) <= Len(new)
  /\ Len(new) = Len(bytes) \/ (cells # <<>> /\ Len(new) = offset + Len(cells))
  /\ \A j \in 1 .. Len(new) :
       new[j] = IF offset < j /\ j <= offset + Len(cells) THEN cells[j - offset]
                ELSE IF j <= Len(bytes) THEN bytes[j] ELSE Zero

\* Overwritten() is such a write.
LEMMA OverwrittenProperties ==
  ASSUME NEW bytes \in Seq(ByteSet), NEW offset \in Nat, NEW cells \in Seq(ByteSet)
  PROVE  IsWritten(Overwritten(bytes, offset, cells), bytes, offset, cells)
<1>. DEFINE new == Overwritten(bytes, offset, cells)
            l == Len(bytes)
            c == Len(cells)
            end == IF cells = <<>> THEN 0 ELSE offset + c
            size == IF end > l THEN end ELSE l
            byte(j) == IF offset < j /\ j <= end THEN cells[j - offset]
                       ELSE IF j <= l THEN bytes[j] ELSE Zero
<1>1. /\ l \in Nat /\ c \in Nat /\ (cells = <<>> <=> c = 0)
      /\ \A j \in 1 .. l : bytes[j] \in ByteSet
      /\ \A j \in 1 .. c : cells[j] \in ByteSet
      /\ Zero \in ByteSet
  <2>1. Zero \in ByteSet
    BY DEF ByteSet, Zero, Byte, Kinds
  <2>. QED  BY <2>1, EmptySeq, SMT
<1>2. new = [j \in 1 .. size |-> byte(j)]
  BY DEF Overwritten
<1>. HIDE DEF l, c
<1>3. size \in Nat /\ l <= size /\ (cells # <<>> => offset + c <= size)
      /\ (size = l \/ (cells # <<>> /\ size = offset + c))
  BY <1>1, SMT
<1>4. ASSUME NEW j \in 1 .. size
      PROVE  /\ byte(j) \in ByteSet
             /\ byte(j) = IF offset < j /\ j <= offset + c THEN cells[j - offset]
                          ELSE IF j <= l THEN bytes[j] ELSE Zero
  <2>1. CASE offset < j /\ j <= end
    <3>1. j - offset \in 1 .. c /\ j <= offset + c
      BY <1>1, <2>1, SMT
    <3>. QED  BY <1>1, <2>1, <3>1
  <2>2. CASE ~(offset < j /\ j <= end)
    <3>1. ~(offset < j /\ j <= offset + c)
      BY <1>1, <2>2, SMT
    <3>2. j <= l => j \in 1 .. l
      BY <1>1, SMT
    <3>. QED  BY <1>1, <2>2, <3>1, <3>2, Zenon
  <2>. QED  BY <2>1, <2>2
<1>. HIDE DEF size, byte, new
<1>5. new \in Seq(ByteSet) /\ Len(new) = size
  BY <1>2, <1>3, <1>4
<1>. QED  BY <1>2, <1>3, <1>4, <1>5, Zenon DEF l, c, new, IsWritten

\* And a write of nothing makes nothing of it.
LEMMA NothingWritten ==
  ASSUME NEW bytes \in Seq(ByteSet), NEW offset \in Nat
  PROVE  Overwritten(bytes, offset, <<>>) = bytes
<1>. DEFINE none == <<>>
            new == Overwritten(bytes, offset, none)
<1>1. none \in Seq(ByteSet) /\ Len(none) = 0 /\ Len(bytes) \in Nat /\ none = <<>>
  BY EmptySeq
<1>. HIDE DEF none
<1>2. IsWritten(new, bytes, offset, none)
  BY <1>1, OverwrittenProperties
<1>. HIDE DEF new
<1>3. /\ new \in Seq(ByteSet) /\ Len(new) = Len(bytes)
      /\ \A j \in 1 .. Len(bytes) : new[j] = bytes[j]
  BY <1>1, <1>2, SMT DEF IsWritten
<1>4. new = bytes
  BY <1>3, SeqEqual
<1>. QED  BY <1>1, <1>4 DEF new

----------------------------------------------------------------------------
(* Tables.                                                                 *)

\* A table whose entries share no byte with each other or the header.
Apart(table) ==
  /\ \A j \in DOMAIN table : table[j].id \in {"dates", "finfo"} => table[j].length >= 1
  /\ \A j \in DOMAIN table : table[j].length > 0 => TableEnd(table) <= table[j].offset
  /\ \A j, k \in DOMAIN table :
       j # k /\ table[j].length > 0 /\ table[k].length > 0 =>
         EndOf(table[j]) <= table[k].offset \/ EndOf(table[k]) <= table[j].offset

\* An entry that a file of this size has all of.
Reached(d, size) == d.length > 0 => EndOf(d) <= size

\* validate_descrs() wants just that of every entry.
LEMMA ValidIsApart ==
  ASSUME NEW table, NEW size
  PROVE  Valid(table, size) <=> Apart(table) /\ \A j \in DOMAIN table : Reached(table[j], size)
BY DEF Valid, Apart, Reached

\* A file that a record can be read of.
Readable(file) == Descrs(file) = "some"

\* An entry of a table.
LEMMA EntryProperties ==
  ASSUME NEW table \in Seq(Entry)
  PROVE  /\ Len(table) \in Nat /\ DOMAIN table = 1 .. Len(table) /\ TableEnd(table) \in Nat
         /\ \A j \in DOMAIN table :
              /\ table[j] \in Entry /\ table[j].id \in Ids
              /\ table[j].offset \in Nat /\ table[j].length \in Nat
              /\ EndOf(table[j]) = table[j].offset + table[j].length
              /\ EndOf(table[j]) \in Nat
<1>1. Len(table) \in Nat /\ DOMAIN table = 1 .. Len(table) /\ \A j \in DOMAIN table : table[j] \in Entry
  OBVIOUS
<1>2. ASSUME NEW d \in Entry
      PROVE  d.id \in Ids /\ d.offset \in Nat /\ d.length \in Nat /\ EndOf(d) = d.offset + d.length
             /\ EndOf(d) \in Nat
  BY DEF Entry, EndOf
<1>3. TableEnd(table) \in Nat
  BY <1>1 DEF TableEnd
<1>. QED  BY <1>1, <1>2, <1>3

\* What read_dbl_descrs() takes for a record.
LEMMA ReadableProperties ==
  ASSUME NEW file \in Files
  PROVE  Readable(file) <=>
           /\ file.bytes # <<>> /\ file.table # NoTable /\ Len(file.table) <= MaxEntries
           /\ TableEnd(file.table) <= Len(file.bytes)
           /\ Apart(file.table)
           /\ \A j \in DOMAIN file.table : Reached(file.table[j], Len(file.bytes))
<1>. DEFINE empty == file.bytes = <<>>
            record == /\ file.table # NoTable /\ Len(file.table) <= MaxEntries
                      /\ TableEnd(file.table) <= Len(file.bytes)
                      /\ Valid(file.table, Len(file.bytes))
<1>1. Descrs(file) = CASE empty -> "none" [] record -> "some" [] OTHER -> "bad"
  BY DEF Descrs
<1>2. ~(empty /\ record)
  <2>1. SUFFICES ASSUME empty PROVE ~(TableEnd(file.table) <= Len(file.bytes))
    OBVIOUS
  <2>2. Len(file.bytes) = 0
    BY <2>1, EmptySeq
  <2>3. Len(file.table) \in Nat
    BY DEF Files
  <2>. QED  BY <2>2, <2>3 DEF TableEnd
<1>. HIDE DEF empty, record
<1>3. Readable(file) <=> ~empty /\ record
  BY <1>1, <1>2 DEF Readable
<1>. QED  BY <1>3, ValidIsApart, Zenon DEF empty, record

\* Tables that place the same entries, whatever they say of the forks' lengths.
SameButForks(t, u) ==
  /\ Len(t) = Len(u)
  /\ \A j \in DOMAIN t :
       /\ t[j].id = u[j].id /\ t[j].offset = u[j].offset
       /\ t[j].id # "fork" => t[j] = u[j]

\* have the same bytes that are no fork's.
LEMMA SameNotFork ==
  ASSUME NEW t \in Seq(Entry), NEW u \in Seq(Entry), SameButForks(t, u)
  PROVE  /\ TableEnd(t) = TableEnd(u) /\ \A j : NotFork(t, j) <=> NotFork(u, j)
         /\ \A id : Has(t, id) <=> Has(u, id)
<1>1. DOMAIN t = DOMAIN u /\ TableEnd(t) = TableEnd(u)
  BY EntryProperties DEF SameButForks, TableEnd
<1>2. \A k \in DOMAIN t : t[k].id = u[k].id /\ (t[k].id # "fork" => t[k] = u[k])
  BY DEF SameButForks
<1>. QED  BY <1>1, <1>2, Zenon DEF NotFork, Has

\* The new length of a fork changes nothing else.
LEMMA WithForkProperties ==
  ASSUME NEW table \in Seq(Entry), NEW length \in Nat
  PROVE  /\ WithFork(table, length) \in Seq(Entry)
         /\ SameButForks(table, WithFork(table, length))
         /\ SameButForks(WithFork(table, length), table)
<1>. DEFINE new == WithFork(table, length)
            entry(j) == IF table[j].id = "fork" THEN [table[j] EXCEPT !.length = length] ELSE table[j]
<1>1. new = [j \in 1 .. Len(table) |-> entry(j)] /\ Len(table) \in Nat
  BY EntryProperties DEF WithFork
<1>2. ASSUME NEW j \in 1 .. Len(table)
      PROVE  /\ entry(j) \in Entry /\ entry(j).id = table[j].id /\ entry(j).offset = table[j].offset
             /\ table[j].id # "fork" => entry(j) = table[j]
  <2>1. table[j] \in Entry
    OBVIOUS
  <2>. QED  BY <2>1 DEF Entry
<1>. HIDE DEF entry, new
<1>3. new \in Seq(Entry) /\ Len(new) = Len(table)
  BY <1>1, <1>2
<1>4. DOMAIN table = 1 .. Len(table) /\ DOMAIN new = 1 .. Len(table)
  BY <1>1
<1>. QED  BY <1>1, <1>2, <1>3, <1>4, Zenon DEF new, SameButForks

\* The first and the last entry of a kind.
LEMMA FirstOfProperties ==
  ASSUME NEW table \in Seq(Entry), NEW id, Has(table, id)
  PROVE  \E j \in DOMAIN table :
           /\ table[j].id = id /\ FirstOf(table, id) = table[j]
           /\ \A k \in DOMAIN table : table[k].id = id => j <= k
<1>. DEFINE I == {i \in 1 .. Len(table) : table[i].id = id}
<1>1. I # {} /\ I \subseteq Nat /\ I \subseteq DOMAIN table
  <2>1. DOMAIN table = 1 .. Len(table)
    BY EntryProperties
  <2>2. I # {} /\ I \subseteq 1 .. Len(table)
    BY <2>1 DEF Has
  <2>. QED  BY <2>1, <2>2
<1>2. FirstOf(table, id) = table[IF I # {} THEN Min(I) ELSE 0]
  BY DEF FirstOf, SelectInSeq
<1>3. \A j \in DOMAIN table : table[j].id = id <=> j \in I
  BY EntryProperties
<1>. HIDE DEF I
<1>4. PICK n \in I : \A m \in I : n <= m
  BY <1>1, LeastNat
<1>5. Min(I) \in I /\ \A m \in I : Min(I) <= m
  BY <1>4 DEF Min
<1>. QED  BY <1>1, <1>2, <1>3, <1>5, Zenon

\* The last entry of a kind, which is at the same place in any table with those ids.
LEMMA LastOfProperties ==
  ASSUME NEW table \in Seq(Entry), NEW id, Has(table, id)
  PROVE  \E j \in DOMAIN table :
           /\ table[j].id = id /\ LastOf(table, id) = table[j]
           /\ \A u \in Seq(Entry) :
                /\ Len(u) = Len(table)
                /\ \A k \in DOMAIN table : u[k].id = table[k].id
                => LastOf(u, id) = u[j]
           /\ \A k \in DOMAIN table : table[k].id = id => k <= j
<1>. DEFINE I(t) == {i \in 1 .. Len(t) : t[i].id = id}
<1>1. I(table) # {} /\ I(table) \subseteq 1 .. Len(table) /\ I(table) \subseteq DOMAIN table
  BY EntryProperties DEF Has
<1>2. \A t : LastOf(t, id) = t[IF I(t) # {} THEN Max(I(t)) ELSE 0]
  BY DEF LastOf, SelectLastInSeq
<1>3. \A j \in DOMAIN table : table[j].id = id <=> j \in I(table)
  BY EntryProperties
<1>4. ASSUME NEW u \in Seq(Entry), Len(u) = Len(table),
             \A k \in DOMAIN table : u[k].id = table[k].id
      PROVE  I(u) = I(table)
  BY <1>4, EntryProperties
<1>. HIDE DEF I
<1>5. Max(I(table)) \in I(table) /\ \A m \in I(table) : m <= Max(I(table))
  BY <1>1, MaxOf, EntryProperties
<1>. QED  BY <1>1, <1>2, <1>3, <1>4, <1>5, Zenon

\* Of the last entry of a kind, that it is one.
LEMMA LastOne ==
  \A table \in Seq(Entry) : \A id : Has(table, id) =>
    \E j \in DOMAIN table : table[j].id = id /\ LastOf(table, id) = table[j]
BY LastOfProperties

\* Where packed entries end: each where the one before it did, and its own length on.
LEMMA PackedProperties ==
  ASSUME NEW base \in Nat, NEW lengths \in Seq(Nat), NEW n, n = Len(lengths)
  PROVE  /\ Packed(base, lengths)[0] = base
         /\ \A j \in 0 .. n : Packed(base, lengths)[j] \in Nat
         /\ \A j \in 1 .. n : Packed(base, lengths)[j] = Packed(base, lengths)[j - 1] + lengths[j]
         /\ \A i, j \in 0 .. n : i <= j => Packed(base, lengths)[i] <= Packed(base, lengths)[j]
<1>. DEFINE end == CHOOSE end : end = [j \in 0 .. n |-> IF j = 0 THEN base ELSE end[j - 1] + lengths[j]]
            G == [k \in 1 .. n |-> [v \in Nat |-> v + lengths[k]]]
<1>1. Packed(base, lengths) = end
  BY DEF Packed
<1>2. n \in Nat /\ (\A k \in 1 .. n : lengths[k] \in Nat) /\ G \in [1 .. n -> [Nat -> Nat]]
  <2>1. n \in Nat /\ \A k \in 1 .. n : lengths[k] \in Nat
    OBVIOUS
  <2>2. ASSUME NEW k \in 1 .. n, NEW v \in Nat PROVE v + lengths[k] \in Nat
    BY <2>1
  <2>. QED  BY <2>1, <2>2
<1>3. PICK h : Steps(h, Nat, base, n, G)
  <2>. HIDE DEF G
  <2>. QED  BY <1>2, StepByStep
<1>4. h = [j \in 0 .. n |-> IF j = 0 THEN base ELSE h[j - 1] + lengths[j]]
  <2>1. ASSUME NEW j \in 0 .. n PROVE h[j] = IF j = 0 THEN base ELSE h[j - 1] + lengths[j]
    <3>1. CASE j = 0  BY <1>3, <3>1 DEF Steps
    <3>2. CASE j # 0
      <4>1. j \in 1 .. n /\ j - 1 \in 0 .. n
        BY <1>2, <3>2
      <4>. QED  BY <1>3, <3>2, <4>1 DEF Steps
    <3>. QED  BY <3>1, <3>2
  <2>2. h = [j \in 0 .. n |-> h[j]]
    BY <1>3 DEF Steps
  <2>. QED  BY <2>1, <2>2
<1>5. end = [j \in 0 .. n |-> IF j = 0 THEN base ELSE end[j - 1] + lengths[j]]
  BY <1>4, Zenon
<1>. HIDE DEF end, G
<1>6. end[0] = base /\ \A j \in 1 .. n : end[j] = end[j - 1] + lengths[j]
  <2>1. ASSUME NEW j \in 1 .. n PROVE j \in 0 .. n /\ j # 0
    BY <1>2
  <2>. QED  BY <1>2, <1>5, <2>1, 0 \in 0 .. n
<1>7. \A j \in 0 .. n : end[j] \in Nat
  <2>. DEFINE T == {j \in 0 .. n : end[j] \in Nat}
  <2>1. 0 \in T
    BY <1>2, <1>6
  <2>2. ASSUME NEW k \in 1 .. n, k - 1 \in T PROVE k \in T
    BY <1>2, <1>6, <2>2
  <2>. HIDE DEF T
  <2>3. 0 .. n \subseteq T
    BY <1>2, <2>1, <2>2, UpTo
  <2>. QED  BY <2>3 DEF T
<1>8. ASSUME NEW i \in 0 .. n, NEW j \in 0 .. n, i <= j PROVE end[i] <= end[j]
  <2>. DEFINE T == {k \in 0 .. n : i <= k => end[i] <= end[k]}
  <2>1. 0 \in T
    BY <1>2, <1>7
  <2>2. ASSUME NEW k \in 1 .. n, k - 1 \in T PROVE k \in T
    <3>1. /\ k \in 0 .. n /\ k - 1 \in 0 .. n /\ end[k] = end[k - 1] + lengths[k]
          /\ lengths[k] \in Nat /\ end[k - 1] \in Nat /\ end[i] \in Nat /\ end[k] \in Nat
      BY <1>2, <1>6, <1>7
    <3>2. CASE i = k  BY <3>1, <3>2
    <3>3. CASE i # k
      <4>1. i <= k => end[i] <= end[k - 1]
        BY <2>2, <3>3
      <4>. QED  BY <3>1, <4>1
    <3>. QED  BY <3>2, <3>3
  <2>. HIDE DEF T
  <2>3. 0 .. n \subseteq T
    BY <1>2, <2>1, <2>2, UpTo
  <2>. QED  BY <1>8, <2>3 DEF T
<1>. QED  BY <1>1, <1>6, <1>7, <1>8, Zenon

\* fresh_dbl_descrs() packs what it is to write, with nothing in the fork.
LEMMA FreshTableProperties ==
  ASSUME NEW comment \in Nat
  PROVE  /\ FreshTable(comment) \in Seq(Entry) /\ Len(FreshTable(comment)) = 4
         /\ Apart(FreshTable(comment))
         /\ FreshTable(comment)[1].id = "comment" /\ FreshTable(comment)[2].id = "dates"
         /\ FreshTable(comment)[3].id = "finfo" /\ FreshTable(comment)[4].id = "fork"
         /\ \A j \in DOMAIN FreshTable(comment) :
              /\ FreshTable(comment)[j].id \in {"comment", "dates", "finfo", "fork"}
              /\ FreshTable(comment)[j].id = "comment" => FreshTable(comment)[j].length = comment
              /\ FreshTable(comment)[j].id = "fork" => FreshTable(comment)[j].length = 0
              /\ FreshTable(comment)[j].id \in {"dates", "finfo"} => FreshTable(comment)[j].length = 1
<1>. DEFINE t == FreshTable(comment)
<1>1. t \in Seq(Entry) /\ Len(t) = 4 /\ DOMAIN t = 1 .. 4
  BY DEF FreshTable, Entry, Descr, Ids
<1>2. /\ t[1] = Descr("comment", 5, comment) /\ t[2] = Descr("dates", 5 + comment, 1)
      /\ t[3] = Descr("finfo", 6 + comment, 1) /\ t[4] = Descr("fork", 7 + comment, 0)
  BY DEF FreshTable
<1>3. TableEnd(t) = 5
  BY <1>1 DEF TableEnd
<1>. HIDE DEF t
<1>4. /\ t[1].id = "comment" /\ t[1].offset = 5 /\ t[1].length = comment /\ EndOf(t[1]) = 5 + comment
      /\ t[2].id = "dates" /\ t[2].offset = 5 + comment /\ t[2].length = 1 /\ EndOf(t[2]) = 6 + comment
      /\ t[3].id = "finfo" /\ t[3].offset = 6 + comment /\ t[3].length = 1 /\ EndOf(t[3]) = 7 + comment
      /\ t[4].id = "fork" /\ t[4].offset = 7 + comment /\ t[4].length = 0
  BY <1>2 DEF Descr, EndOf
<1>5. \A j \in DOMAIN t : j = 1 \/ j = 2 \/ j = 3 \/ j = 4
  BY <1>1
<1>6. Apart(t)
  <2>1. \A j \in DOMAIN t : t[j].id \in {"dates", "finfo"} => t[j].length >= 1
    BY <1>4, <1>5
  <2>2. \A j \in DOMAIN t : t[j].length > 0 => TableEnd(t) <= t[j].offset
    BY <1>3, <1>4, <1>5
  <2>3. ASSUME NEW j \in DOMAIN t, NEW k \in DOMAIN t, j # k, t[j].length > 0, t[k].length > 0
        PROVE  EndOf(t[j]) <= t[k].offset \/ EndOf(t[k]) <= t[j].offset
    BY <1>4, <1>5, <2>3
  <2>. QED  BY <2>1, <2>2, <2>3 DEF Apart
<1>7. \A j \in DOMAIN t :
        /\ t[j].id \in {"comment", "dates", "finfo", "fork"}
        /\ t[j].id = "comment" => t[j].length = comment
        /\ t[j].id = "fork" => t[j].length = 0
        /\ t[j].id \in {"dates", "finfo"} => t[j].length = 1
  BY <1>4, <1>5
<1>. QED  BY <1>1, <1>4, <1>6, <1>7 DEF t

\* relayout_dbl() places every entry where the one before it ends: first those that
\* are no fork, which end at others[j], then the forks, which end at forks[j].
Laid(table, new, others, forks) ==
  /\ \A j \in 0 .. Len(table) : others[j] \in Nat /\ forks[j] \in Nat
  /\ others[0] = TableEnd(table) /\ forks[0] = others[Len(table)]
  /\ \A i, j \in 0 .. Len(table) : i <= j => others[i] <= others[j] /\ forks[i] <= forks[j]
  /\ \A j \in 1 .. Len(table) :
       /\ new[j].id # "fork" =>
            /\ new[j].offset = others[j - 1] /\ EndOf(new[j]) = others[j] /\ forks[j] = forks[j - 1]
       /\ new[j].id = "fork" =>
            /\ new[j].offset = forks[j - 1] /\ EndOf(new[j]) = forks[j] /\ others[j] = others[j - 1]

\* relayout_dbl() keeps the order of the entries and all lengths but the comment's.
LEMMA RelaidPlaces ==
  ASSUME NEW table \in Seq(Entry), NEW comment \in Nat, NEW new, new = Relaid(table, comment)
  PROVE  /\ new \in Seq(Entry) /\ Len(new) = Len(table)
         /\ \A j \in DOMAIN table :
              /\ new[j].id = table[j].id
              /\ new[j].length = IF table[j].id = "comment" THEN comment ELSE table[j].length
         /\ \E others, forks : Laid(table, new, others, forks)
<1>. DEFINE n == Len(table)
            last(j) == table[j].id = "fork"
            sized(j) == IF table[j].id = "comment" THEN comment ELSE table[j].length
            share(yes) == [j \in 1 .. n |-> IF (table[j].id = "fork") = yes THEN sized(j) ELSE 0]
            others == Packed(TableEnd(table), share(FALSE))
            forks == Packed(others[n], share(TRUE))
            ends(j) == IF table[j].id = "fork" THEN forks ELSE others
<1>1. /\ n \in Nat /\ DOMAIN table = 1 .. n /\ TableEnd(table) \in Nat
      /\ \A j \in 1 .. n : table[j].id \in Ids /\ sized(j) \in Nat
  BY EntryProperties
<1>2. new = [j \in 1 .. n |-> Descr(table[j].id, ends(j)[j - 1], sized(j))]
  BY <1>1 DEF Relaid
<1>. HIDE DEF n, sized
<1>3. /\ share(FALSE) \in Seq(Nat) /\ Len(share(FALSE)) = n
      /\ share(TRUE) \in Seq(Nat) /\ Len(share(TRUE)) = n
      /\ \A j \in 1 .. n : /\ last(j) => share(FALSE)[j] = 0 /\ share(TRUE)[j] = sized(j)
                           /\ ~last(j) => share(FALSE)[j] = sized(j) /\ share(TRUE)[j] = 0
  <2>1. ASSUME NEW yes \in BOOLEAN PROVE share(yes) \in Seq(Nat) /\ Len(share(yes)) = n
    <3>1. \A j \in 1 .. n : (IF (table[j].id = "fork") = yes THEN sized(j) ELSE 0) \in Nat
      BY <1>1
    <3>. QED  BY <1>1, <3>1
  <2>. QED  BY <2>1
<1>. HIDE DEF share
<1>4. /\ others[0] = TableEnd(table)
      /\ \A j \in 0 .. n : others[j] \in Nat
      /\ \A j \in 1 .. n : others[j] = others[j - 1] + share(FALSE)[j]
      /\ \A i, j \in 0 .. n : i <= j => others[i] <= others[j]
  BY <1>1, <1>3, PackedProperties
<1>. HIDE DEF others
<1>5. /\ forks[0] = others[n]
      /\ \A j \in 0 .. n : forks[j] \in Nat
      /\ \A j \in 1 .. n : forks[j] = forks[j - 1] + share(TRUE)[j]
      /\ \A i, j \in 0 .. n : i <= j => forks[i] <= forks[j]
  <2>1. others[n] \in Nat
    BY <1>1, <1>4, n \in 0 .. n
  <2>. QED  BY <1>3, <2>1, PackedProperties
<1>. HIDE DEF forks
<1>6. ASSUME NEW j \in 1 .. n
      PROVE  /\ new[j] = Descr(table[j].id, ends(j)[j - 1], sized(j)) /\ new[j] \in Entry
             /\ new[j].id = table[j].id /\ new[j].offset = ends(j)[j - 1] /\ new[j].length = sized(j)
             /\ EndOf(new[j]) = ends(j)[j - 1] + sized(j)
  <2>1. j - 1 \in 0 .. n
    BY <1>1
  <2>2. ends(j)[j - 1] \in Nat
    BY <1>4, <1>5, <2>1
  <2>. HIDE DEF ends
  <2>3. new[j] = Descr(table[j].id, ends(j)[j - 1], sized(j))
    BY <1>2
  <2>. QED  BY <1>1, <2>2, <2>3 DEF Descr, Entry, EndOf
<1>7. new \in Seq(Entry) /\ Len(new) = n
  <2>. HIDE DEF ends
  <2>1. \A j \in 1 .. n : Descr(table[j].id, ends(j)[j - 1], sized(j)) \in Entry
    BY <1>6
  <2>. QED  BY <1>1, <1>2, <2>1
<1>8. ASSUME NEW j \in 1 .. n
      PROVE  /\ ~last(j) => /\ new[j].offset = others[j - 1] /\ EndOf(new[j]) = others[j]
                            /\ forks[j] = forks[j - 1]
             /\ last(j) => /\ new[j].offset = forks[j - 1] /\ EndOf(new[j]) = forks[j]
                           /\ others[j] = others[j - 1]
  <2>1. j - 1 \in 0 .. n /\ j \in 0 .. n
    BY <1>1
  <2>2. /\ others[j] = others[j - 1] + share(FALSE)[j] /\ others[j - 1] \in Nat
        /\ forks[j] = forks[j - 1] + share(TRUE)[j] /\ forks[j - 1] \in Nat
    BY <1>4, <1>5, <2>1
  <2>3. CASE last(j)
    <3>1. share(FALSE)[j] = 0 /\ share(TRUE)[j] = sized(j)
      BY <1>3, <2>3
    <3>2. ends(j) = forks
      BY <2>3
    <3>3. new[j].offset = forks[j - 1] /\ EndOf(new[j]) = forks[j - 1] + sized(j)
      BY <1>6, <3>2, Zenon
    <3>4. EndOf(new[j]) = forks[j]
      BY <2>2, <3>1, <3>3, Zenon
    <3>5. others[j] = others[j - 1] + 0
      BY <2>2, <3>1, Zenon
    <3>6. others[j] = others[j - 1]
      <4>1. others[j - 1] \in Nat
        BY <2>2
      <4>2. \A i \in Nat : i + 0 = i
        OBVIOUS
      <4>. QED  BY <3>5, <4>1, <4>2, Zenon
    <3>. QED  BY <2>3, <3>3, <3>4, <3>6, Zenon
  <2>4. CASE ~last(j)
    <3>1. share(FALSE)[j] = sized(j) /\ share(TRUE)[j] = 0
      BY <1>3, <2>4
    <3>2. ends(j) = others
      BY <2>4
    <3>3. new[j].offset = others[j - 1] /\ EndOf(new[j]) = others[j - 1] + sized(j)
      BY <1>6, <3>2, Zenon
    <3>4. EndOf(new[j]) = others[j]
      BY <2>2, <3>1, <3>3, Zenon
    <3>5. forks[j] = forks[j - 1] + 0
      BY <2>2, <3>1, Zenon
    <3>6. forks[j] = forks[j - 1]
      <4>1. forks[j - 1] \in Nat
        BY <2>2
      <4>2. \A i \in Nat : i + 0 = i
        OBVIOUS
      <4>. QED  BY <3>5, <4>1, <4>2, Zenon
    <3>. QED  BY <2>4, <3>3, <3>4, <3>6, Zenon
  <2>. QED  BY <2>3, <2>4
<1>9. Laid(table, new, others, forks)
  BY <1>4, <1>5, <1>6, <1>8, Zenon DEF Laid, n
<1>. QED  BY <1>1, <1>6, <1>7, <1>9, Zenon DEF n, sized

\* So what a rewrite places shares no byte, and none begins in the header.
LEMMA RelaidProperties ==
  ASSUME NEW table \in Seq(Entry), NEW comment \in Nat, NEW new, new = Relaid(table, comment),
         Apart(table)
  PROVE  Apart(new)
<1>. DEFINE n == Len(table)
<1>1. /\ new \in Seq(Entry) /\ Len(new) = n /\ n \in Nat
      /\ DOMAIN new = 1 .. n /\ DOMAIN table = 1 .. n /\ TableEnd(new) = TableEnd(table)
  BY RelaidPlaces, EntryProperties DEF TableEnd
<1>2. PICK others, forks : Laid(table, new, others, forks)
  BY RelaidPlaces, Zenon
<1>. HIDE DEF n
<1>3. /\ \A j \in 0 .. n : others[j] \in Nat /\ forks[j] \in Nat
      /\ others[0] = TableEnd(new) /\ forks[0] = others[n]
      /\ \A i, j \in 0 .. n : i <= j => others[i] <= others[j] /\ forks[i] <= forks[j]
      /\ \A j \in 1 .. n :
           /\ new[j].id # "fork" => new[j].offset = others[j - 1] /\ EndOf(new[j]) = others[j]
           /\ new[j].id = "fork" => new[j].offset = forks[j - 1] /\ EndOf(new[j]) = forks[j]
  BY <1>1, <1>2, Zenon DEF Laid, n
<1>4. ASSUME NEW j \in 1 .. n PROVE TableEnd(new) <= new[j].offset
  <2>1. j - 1 \in 0 .. n /\ 0 <= j - 1 /\ 0 \in 0 .. n /\ n \in 0 .. n /\ 0 <= n
    BY <1>1
  <2>2. others[0] <= others[j - 1] /\ others[0] <= others[n] /\ forks[0] <= forks[j - 1]
    BY <1>3, <2>1
  <2>3. others[0] \in Nat /\ others[n] \in Nat /\ forks[j - 1] \in Nat /\ others[j - 1] \in Nat
    BY <1>3, <2>1
  <2>. QED  BY <1>3, <2>2, <2>3
<1>5. ASSUME NEW j \in 1 .. n, NEW k \in 1 .. n, j < k
      PROVE  EndOf(new[j]) <= new[k].offset \/ EndOf(new[k]) <= new[j].offset
  <2>1. /\ j \in 0 .. n /\ k - 1 \in 0 .. n /\ j <= k - 1 /\ 0 \in 0 .. n /\ n \in 0 .. n
        /\ k \in 0 .. n /\ j - 1 \in 0 .. n /\ j <= n /\ k <= n /\ 0 <= k - 1 /\ 0 <= j - 1
    BY <1>1, <1>5
  <2>2. /\ others[j] <= others[k - 1] /\ forks[j] <= forks[k - 1]
        /\ others[j] <= others[n] /\ others[k] <= others[n]
        /\ forks[0] <= forks[k - 1] /\ forks[0] <= forks[j - 1]
    BY <1>3, <2>1
  <2>3. /\ others[j] \in Nat /\ others[n] \in Nat /\ others[k] \in Nat
        /\ forks[k - 1] \in Nat /\ forks[j - 1] \in Nat
    BY <1>3, <2>1
  <2>4. others[j] <= forks[k - 1] /\ others[k] <= forks[j - 1]
    BY <1>3, <2>2, <2>3
  <2>5. CASE new[j].id = "fork"
    BY <1>3, <2>2, <2>4, <2>5
  <2>6. CASE new[j].id # "fork"
    BY <1>3, <2>2, <2>4, <2>6
  <2>. QED  BY <2>5, <2>6
<1>6. ASSUME NEW j \in 1 .. n, NEW k \in 1 .. n, j # k
      PROVE  EndOf(new[j]) <= new[k].offset \/ EndOf(new[k]) <= new[j].offset
  <2>1. j < k \/ k < j
    BY <1>1, <1>6
  <2>. QED  BY <1>5, <2>1
<1>7. \A j \in 1 .. n : new[j].id \in {"dates", "finfo"} => new[j].length >= 1
  <2>1. \A j \in 1 .. n : new[j].id = table[j].id /\ (table[j].id # "comment" => new[j].length = table[j].length)
    BY <1>1, RelaidPlaces
  <2>2. \A j \in 1 .. n : table[j].id \in {"dates", "finfo"} => table[j].length >= 1
    BY <1>1 DEF Apart
  <2>. QED  BY <2>1, <2>2
<1>. QED  BY <1>1, <1>4, <1>6, <1>7, Zenon DEF Apart

----------------------------------------------------------------------------
(* What holds at every step.                                               *)

\* What of a file's bytes is of no entry, or a fork's, is a fork's or nothing.
Parted(bytes, table) ==
  \A j \in DOMAIN bytes : NotFork(table, j) \/ bytes[j][1] \in {"fork", "zero"}

\* A table whose comment is n long.
Commented(table, n) == \A j \in DOMAIN table : table[j].id = "comment" => table[j].length = n

\* The type invariant.
Writers == [at : {"idle", "scratch", "copy", "entries", "header", "rename"},
            how : {"none", "fresh", "rewrite", "in place"},
            fi : [write : Nat, comment : Nat, length : Nat],
            from : Seq(Entry), to : Seq(Entry), next : Nat]
Handles == [open : BOOLEAN, held : BOOLEAN, start : Nat, position : Nat, length : Nat, max : Nat]

TypeOK ==
  /\ container \in Files /\ scratch \in Files
  /\ writer \in Writers /\ fork \in Handles
  /\ writes \in Nat /\ forkWrites \in Nat /\ cut \in BOOLEAN /\ raced \in BOOLEAN

\* A container that can be read is parted.
ContainerOK(c) ==
  /\ c.bytes = <<>> => c.table = NoTable
  /\ Readable(c) => Parted(c.bytes, c.table)

\* A handle of the container has its fork to itself as far as it may write.
HandleOK(f, c) ==
  f.held =>
    /\ Readable(c)
    /\ \A j \in f.start + 1 .. f.start + f.max : ~NotFork(c.table, j)

\* A write is of what it found: it goes over a record, makes one where there is none,
\* or moves one.
WriterOK(w, c) ==
  /\ w.at = "idle" <=> w.how = "none"
  /\ w.at \in {"scratch", "copy", "rename"} => w.how = "rewrite"
  /\ w.at = "scratch" => w.next = 1
  /\ w.at \in {"copy", "entries"} => w.next \in DOMAIN w.to
  /\ w.how # "none" => Commented(w.to, CommentLen(w.fi))
  /\ w.how = "in place" =>
       /\ Readable(c)
       /\ w.to = WithFork(c.table, w.fi.length) /\ Valid(w.to, Len(c.bytes))
  /\ w.how = "fresh" => c.table = NoTable /\ w.to = FreshTable(CommentLen(w.fi))
  /\ w.how = "rewrite" =>
       /\ Readable(c)
       /\ w.from = WithFork(c.table, w.fi.length) /\ Valid(w.from, Len(c.bytes))
       /\ w.to = Relaid(w.from, CommentLen(w.fi))

\* The entries that a write has copied and written so far, and those there are.
CopiedTo(w, k) == (w.at = "copy" /\ k < w.next) \/ w.at \in {"entries", "header", "rename"}
WrittenTo(w, k) == (w.at = "entries" /\ k < w.next) \/ w.at \in {"header", "rename"}
MadeTo(w, k) ==
  IF w.how = "fresh" \/ w.to[k].id = "comment" THEN WrittenTo(w, k) ELSE CopiedTo(w, k)

\* A file that is made has each of them, and is parted by the table to come.
Making(w, bytes) ==
  /\ Apart(w.to) /\ w.to # NoTable /\ Len(w.to) <= MaxEntries
  /\ Parted(bytes, w.to)
  /\ \A k \in DOMAIN w.to : MadeTo(w, k) => Reached(w.to[k], Len(bytes))

\* A first write makes its container, a rewrite its scratch file.
MadeOK(w, c, s) ==
  /\ w.how = "fresh" => Making(w, c.bytes)
  /\ w.how = "rewrite" /\ w.at # "scratch" => Making(w, s.bytes)
  /\ w.at = "rename" => s.table = w.to /\ TableEnd(w.to) <= Len(s.bytes)

\* The inductive invariant.
SidecarInv ==
  /\ TypeOK
  /\ ContainerOK(container) /\ UnreadableOnlyIfCut
  /\ HandleOK(fork, container)
  /\ WriterOK(writer, container) /\ MadeOK(writer, container, scratch)

----------------------------------------------------------------------------
(* What a write of cells keeps.                                            *)

\* Cells that go where no fork is, or are a fork's, leave a file parted.
LEMMA KeepsParted ==
  ASSUME NEW bytes \in Seq(ByteSet), NEW table, Parted(bytes, table),
         NEW offset \in Nat, NEW cells \in Seq(ByteSet),
         NEW new, IsWritten(new, bytes, offset, cells),
         \A i \in 1 .. Len(cells) : NotFork(table, offset + i) \/ cells[i][1] \in {"fork", "zero"}
  PROVE  Parted(new, table)
<1>1. /\ new \in Seq(ByteSet) /\ Len(new) \in Nat /\ Len(bytes) \in Nat /\ Len(cells) \in Nat
      /\ DOMAIN new = 1 .. Len(new) /\ DOMAIN bytes = 1 .. Len(bytes)
  BY DEF IsWritten
<1>2. \A j \in 1 .. Len(new) :
        new[j] = IF offset < j /\ j <= offset + Len(cells) THEN cells[j - offset]
                 ELSE IF j <= Len(bytes) THEN bytes[j] ELSE Zero
  BY DEF IsWritten
<1>3. SUFFICES ASSUME NEW j \in 1 .. Len(new)
      PROVE  NotFork(table, j) \/ new[j][1] \in {"fork", "zero"}
  BY <1>1 DEF Parted
<1>4. CASE offset < j /\ j <= offset + Len(cells)
  <2>1. j - offset \in 1 .. Len(cells) /\ offset + (j - offset) = j
    BY <1>1, <1>4
  <2>2. NotFork(table, j) \/ cells[j - offset][1] \in {"fork", "zero"}
    BY <2>1
  <2>. QED  BY <1>2, <1>4, <2>2
<1>5. CASE ~(offset < j /\ j <= offset + Len(cells)) /\ j <= Len(bytes)
  <2>1. j \in 1 .. Len(bytes)
    BY <1>1, <1>5
  <2>2. NotFork(table, j) \/ bytes[j][1] \in {"fork", "zero"}
    BY <1>1, <2>1 DEF Parted
  <2>. QED  BY <1>2, <1>5, <2>2
<1>6. CASE ~(offset < j /\ j <= offset + Len(cells)) /\ ~(j <= Len(bytes))
  <2>1. new[j] = Zero
    BY <1>2, <1>6
  <2>. QED  BY <2>1 DEF Zero, Byte
<1>. QED  BY <1>4, <1>5, <1>6

\* A file that only grows goes on being readable, and its entries being there.
LEMMA GrownReadable ==
  ASSUME NEW file \in Files, NEW new \in Files, new.table = file.table,
         Len(file.bytes) <= Len(new.bytes)
  PROVE  /\ Readable(file) => Readable(new)
         /\ \A t \in Seq(Entry) : Valid(t, Len(file.bytes)) => Valid(t, Len(new.bytes))
<1>1. /\ file.table \in Seq(Entry) /\ file.bytes \in Seq(ByteSet) /\ new.bytes \in Seq(ByteSet)
  BY DEF Files
<1>2. /\ Len(file.bytes) \in Nat /\ Len(new.bytes) \in Nat /\ TableEnd(file.table) \in Nat
      /\ (file.bytes # <<>> <=> Len(file.bytes) # 0) /\ (new.bytes # <<>> <=> Len(new.bytes) # 0)
  <2>1. TableEnd(file.table) \in Nat
    BY <1>1, EntryProperties
  <2>. QED  BY <1>1, <2>1, EmptySeq
<1>3. \A t \in Seq(Entry) : \A j \in DOMAIN t :
        Reached(t[j], Len(file.bytes)) => Reached(t[j], Len(new.bytes))
  BY <1>2, EntryProperties DEF Reached
<1>4. \A t \in Seq(Entry) : Valid(t, Len(file.bytes)) => Valid(t, Len(new.bytes))
  BY <1>3, ValidIsApart
<1>5. ASSUME Readable(file) PROVE Readable(new)
  <2>1. /\ file.bytes # <<>> /\ file.table # NoTable /\ Len(file.table) <= MaxEntries
        /\ TableEnd(file.table) <= Len(file.bytes) /\ Apart(file.table)
        /\ \A j \in DOMAIN file.table : Reached(file.table[j], Len(file.bytes))
    BY <1>5, ReadableProperties
  <2>2. TableEnd(new.table) <= Len(new.bytes) /\ new.bytes # <<>>
    BY <1>2, <2>1
  <2>. QED  BY <1>1, <1>3, <2>1, <2>2, ReadableProperties
<1>. QED  BY <1>4, <1>5

\* No byte of a fork that is where its table says is anything else's.
LEMMA ForkApart ==
  ASSUME NEW table \in Seq(Entry), Apart(table), NEW j \in DOMAIN table, table[j].id = "fork",
         NEW i \in 1 .. table[j].length
  PROVE  ~NotFork(table, table[j].offset + i)
<1>1. /\ table[j].offset \in Nat /\ table[j].length \in Nat /\ table[j].length > 0 /\ i >= 1
      /\ i <= table[j].length /\ i \in Nat
      /\ EndOf(table[j]) = table[j].offset + table[j].length /\ TableEnd(table) \in Nat
  BY EntryProperties
<1>2. TableEnd(table) <= table[j].offset
  BY <1>1 DEF Apart
<1>3. ASSUME NEW k \in DOMAIN table, table[k].id # "fork", table[k].offset < table[j].offset + i,
             table[j].offset + i <= EndOf(table[k])
      PROVE  FALSE
  <2>1. /\ table[k].offset \in Nat /\ table[k].length \in Nat
        /\ EndOf(table[k]) = table[k].offset + table[k].length
    BY EntryProperties
  <2>2. k # j /\ table[k].length > 0
    BY <1>1, <1>3, <2>1
  <2>3. EndOf(table[j]) <= table[k].offset \/ EndOf(table[k]) <= table[j].offset
    BY <1>1, <2>2 DEF Apart
  <2>. QED  BY <1>1, <1>3, <2>1, <2>3
<1>4. ~(table[j].offset + i <= TableEnd(table))
  BY <1>1, <1>2
<1>. QED  BY <1>3, <1>4 DEF NotFork

\* What is read of an entry that is all there.
LEMMA ContentsProperties ==
  ASSUME NEW file \in Files, NEW d \in Entry, Reached(d, Len(file.bytes))
  PROVE  /\ Contents(file, d) \in Seq(ByteSet) /\ Len(Contents(file, d)) = d.length
         /\ \A i \in 1 .. d.length :
              /\ d.offset + i \in 1 .. Len(file.bytes)
              /\ Contents(file, d)[i] = file.bytes[d.offset + i]
<1>1. /\ file.bytes \in Seq(ByteSet) /\ Len(file.bytes) \in Nat
      /\ d.offset \in Nat /\ d.length \in Nat /\ EndOf(d) = d.offset + d.length
      /\ d.length > 0 => EndOf(d) <= Len(file.bytes)
  BY DEF Files, Entry, EndOf, Reached
<1>. DEFINE m == d.offset + 1
            n == EndOf(d)
<1>2. /\ m \in Int /\ n \in Int /\ n - m + 1 = d.length /\ (m <= n <=> d.length # 0)
      /\ \A i \in m .. n : i \in 1 .. Len(file.bytes)
      /\ \A i \in 1 .. d.length : m + i - 1 = d.offset + i /\ d.offset + i \in m .. n
  <2>1. m \in Int /\ n \in Int /\ n - m + 1 = d.length /\ (m <= n <=> d.length # 0)
    BY <1>1
  <2>2. ASSUME NEW i \in m .. n PROVE i \in 1 .. Len(file.bytes)
    BY <1>1
  <2>3. ASSUME NEW i \in 1 .. d.length
        PROVE  m + i - 1 = d.offset + i /\ d.offset + i \in m .. n
    BY <1>1
  <2>. QED  BY <2>1, <2>2, <2>3
<1>3. \A i \in m .. n : file.bytes[i] \in ByteSet
  BY <1>1, <1>2
<1>. HIDE DEF m, n
<1>4. /\ SubSeq(file.bytes, m, n) \in Seq(ByteSet)
      /\ Len(SubSeq(file.bytes, m, n)) = IF m <= n THEN n - m + 1 ELSE 0
      /\ \A i \in 1 .. n - m + 1 : SubSeq(file.bytes, m, n)[i] = file.bytes[m + i - 1]
  BY <1>2, <1>3, SubSeqProperties
<1>5. Contents(file, d) = SubSeq(file.bytes, m, n)
  BY DEF Contents, m, n
<1>6. Len(SubSeq(file.bytes, m, n)) = d.length
  BY <1>1, <1>2, <1>4
<1>. QED  BY <1>2, <1>4, <1>5, <1>6

\* What is written for an entry fits it, whoever made the table.
LEMMA PayloadProperties ==
  ASSUME NEW table \in Seq(Entry), Apart(table), NEW j \in DOMAIN table,
         NEW fi, fi.write \in Nat, fi.comment \in Nat, Commented(table, CommentLen(fi))
  PROVE  /\ Payload(table[j].id, fi) \in Seq(ByteSet)
         /\ Len(Payload(table[j].id, fi)) =
              IF table[j].id = "comment" THEN table[j].length
              ELSE IF table[j].id \in {"dates", "finfo"} THEN 1 ELSE 0
         /\ Len(Payload(table[j].id, fi)) <= table[j].length
         /\ \A i \in 1 .. Len(Payload(table[j].id, fi)) : NotFork(table, table[j].offset + i)
<1>. DEFINE id == table[j].id
            cells == Payload(id, fi)
            comment == [k \in 1 .. CommentLen(fi) |-> Byte("comment", fi.write, k)]
<1>1. /\ id \in Ids /\ table[j].offset \in Nat /\ table[j].length \in Nat
      /\ EndOf(table[j]) = table[j].offset + table[j].length
      /\ CommentLen(fi) \in Nat
      /\ id = "comment" => table[j].length = CommentLen(fi)
      /\ id \in {"dates", "finfo"} => table[j].length >= 1
  <2>1. CommentLen(fi) \in Nat
    BY SidecarAssumption DEF CommentLen
  <2>2. id = "comment" => table[j].length = CommentLen(fi)
    BY DEF Commented
  <2>3. id \in {"dates", "finfo"} => table[j].length >= 1
    BY DEF Apart
  <2>. QED  BY <2>1, <2>2, <2>3, EntryProperties
<1>2. cells = CASE id = "comment" -> comment
                [] id \in {"dates", "finfo"} -> <<Byte(id, fi.write, 1)>>
                [] OTHER -> <<>>
  BY DEF Payload
<1>3. comment \in Seq(ByteSet) /\ Len(comment) = CommentLen(fi)
  <2>1. \A k \in 1 .. CommentLen(fi) : Byte("comment", fi.write, k) \in ByteSet
    BY <1>1 DEF Byte, ByteSet, Kinds, Ids
  <2>. QED  BY <1>1, <2>1
<1>4. id \in {"dates", "finfo"} =>
        <<Byte(id, fi.write, 1)>> \in Seq(ByteSet) /\ Len(<<Byte(id, fi.write, 1)>>) = 1
  <2>1. id \in {"dates", "finfo"} => Byte(id, fi.write, 1) \in ByteSet
    BY DEF Byte, ByteSet, Kinds, Ids
  <2>. QED  BY <2>1
<1>. HIDE DEF id, cells, comment
<1>5. /\ cells \in Seq(ByteSet)
      /\ Len(cells) = IF id = "comment" THEN table[j].length
                      ELSE IF id \in {"dates", "finfo"} THEN 1 ELSE 0
  <2>1. CASE id = "comment"
    BY <1>1, <1>2, <1>3, <2>1
  <2>2. CASE id \in {"dates", "finfo"}
    <3>1. cells = <<Byte(id, fi.write, 1)>>
      BY <1>2, <2>2
    <3>. QED  BY <1>4, <2>2, <3>1
  <2>3. CASE id \notin {"comment", "dates", "finfo"}
    <3>1. cells = <<>>
      BY <1>2, <2>3
    <3>. QED  BY <2>3, <3>1, EmptySeq
  <2>. QED  BY <2>1, <2>2, <2>3
<1>6. Len(cells) <= table[j].length
  BY <1>1, <1>5
<1>7. ASSUME NEW i \in 1 .. Len(cells) PROVE NotFork(table, table[j].offset + i)
  <2>1. id # "fork"
    BY <1>5
  <2>2. table[j].offset < table[j].offset + i /\ table[j].offset + i <= EndOf(table[j])
    BY <1>1, <1>5, <1>6
  <2>. QED  BY <2>1, <2>2 DEF NotFork, id
<1>. QED  BY <1>5, <1>6, <1>7 DEF id, cells

\* A table's header is its own bytes.
LEMMA HeadProperties ==
  ASSUME NEW table \in Seq(Entry)
  PROVE  /\ HeadOf(table) \in Seq(ByteSet) /\ Len(HeadOf(table)) = TableEnd(table)
         /\ TableEnd(table) \in Nat /\ TableEnd(table) >= 1 /\ HeadOf(table) # <<>>
         /\ \A i \in 1 .. Len(HeadOf(table)) : NotFork(table, 0 + i)
<1>1. TableEnd(table) \in Nat /\ TableEnd(table) >= 1
  BY EntryProperties DEF TableEnd
<1>2. \A k \in 1 .. TableEnd(table) : Byte("head", 0, k) \in ByteSet
  BY <1>1 DEF Byte, ByteSet, Kinds
<1>3. HeadOf(table) \in Seq(ByteSet) /\ Len(HeadOf(table)) = TableEnd(table)
  BY <1>1, <1>2 DEF HeadOf
<1>4. HeadOf(table) # <<>>
  BY <1>1, <1>3, EmptySeq
<1>5. \A i \in 1 .. TableEnd(table) : 0 + i <= TableEnd(table)
  BY <1>1
<1>. QED  BY <1>1, <1>3, <1>4, <1>5 DEF NotFork

\* resource_open() finds a fork that no other entry shares as far as it has room.
LEMMA RoomProperties ==
  ASSUME NEW file \in Files, Readable(file), Has(file.table, "fork"),
         NEW d, d = FirstOf(file.table, "fork")
  PROVE  /\ d \in Entry /\ Room(file, d) \in Nat
         /\ \A x \in d.offset + 1 .. d.offset + Room(file, d) : ~NotFork(file.table, x)
<1>. DEFINE t == file.table
            size == Len(file.bytes)
<1>1. t \in Seq(Entry) /\ size \in Nat /\ TableEnd(t) \in Nat /\ TableEnd(t) <= size
      /\ Apart(t) /\ \A j \in DOMAIN t : Reached(t[j], size)
  BY ReadableProperties, EntryProperties DEF Files
<1>2. PICK j \in DOMAIN t : t[j].id = "fork" /\ d = t[j]
  BY <1>1, FirstOfProperties
<1>. HIDE DEF t, size
<1>3. /\ d \in Entry /\ d.offset \in Nat /\ d.length \in Nat /\ EndOf(d) = d.offset + d.length
      /\ Reached(d, size)
  BY <1>1, <1>2, EntryProperties
<1>4. Room(file, d) = IF EndOf(d) = size THEN MaxLength ELSE d.length
  BY DEF Room, size
<1>5. ASSUME NEW x \in d.offset + 1 .. d.offset + Room(file, d) PROVE ~NotFork(t, x)
  <2>1. CASE x <= EndOf(d)
    <3>1. x - d.offset \in 1 .. t[j].length /\ t[j].offset + (x - d.offset) = x
      BY <1>2, <1>3, <1>4, <2>1, SidecarAssumption
    <3>2. ~NotFork(t, t[j].offset + (x - d.offset))
      BY <1>1, <1>2, <3>1, ForkApart
    <3>. QED  BY <3>1, <3>2
  <2>2. CASE ~(x <= EndOf(d))
    <3>1. EndOf(d) = size /\ size < x
      BY <1>1, <1>3, <1>4, <2>2, SidecarAssumption
    <3>2. ~(x <= TableEnd(t))
      BY <1>1, <3>1
    <3>3. ASSUME NEW k \in DOMAIN t, t[k].offset < x, x <= EndOf(t[k]) PROVE FALSE
      <4>1. /\ t[k].offset \in Nat /\ t[k].length \in Nat /\ EndOf(t[k]) = t[k].offset + t[k].length
            /\ Reached(t[k], size)
        BY <1>1, EntryProperties
      <4>2. t[k].length > 0
        BY <3>3, <4>1
      <4>3. EndOf(t[k]) <= size
        BY <4>1, <4>2 DEF Reached
      <4>. QED  BY <1>1, <3>1, <3>3, <4>1, <4>3
    <3>. QED  BY <3>2, <3>3 DEF NotFork
  <2>. QED  BY <1>1, <1>3, <2>1, <2>2
<1>6. Room(file, d) \in Nat
  BY <1>3, <1>4, SidecarAssumption
<1>. QED  BY <1>3, <1>5, <1>6 DEF t

\* The writer goes on to the next entry, or past the last of them.
LEMMA OnwardProperties ==
  ASSUME writer \in Writers, writer.next \in DOMAIN writer.to,
         NEW past \in {"entries", "header"}, NEW w, w = Onward(past)
  PROVE  /\ w \in Writers
         /\ w.how = writer.how /\ w.fi = writer.fi /\ w.from = writer.from /\ w.to = writer.to
         /\ w.next \in DOMAIN w.to
         /\ \/ w.at = writer.at /\ w.next = writer.next + 1
            \/ w.at = past /\ w.next = 1 /\ writer.next = Len(writer.to)
<1>1. /\ writer.to \in Seq(Entry) /\ Len(writer.to) \in Nat /\ writer.next \in 1 .. Len(writer.to)
      /\ DOMAIN writer.to = 1 .. Len(writer.to)
  <2>1. writer.to \in Seq(Entry)
    BY DEF Writers
  <2>. QED  BY <2>1, LenProperties
<1>2. CASE writer.next < Len(writer.to)
  <2>1. w = [writer EXCEPT !.next = @ + 1]
    BY <1>2 DEF Onward
  <2>2. writer.next + 1 \in 1 .. Len(writer.to) /\ writer.next + 1 \in Nat
    BY <1>1, <1>2
  <2>. QED  BY <1>1, <2>1, <2>2 DEF Writers
<1>3. CASE ~(writer.next < Len(writer.to))
  <2>1. w = [writer EXCEPT !.at = past, !.next = 1]
    BY <1>3 DEF Onward
  <2>2. 1 \in DOMAIN writer.to /\ writer.next = Len(writer.to)
    BY <1>1, <1>3
  <2>3. /\ w.at = past /\ w.how = writer.how /\ w.fi = writer.fi /\ w.from = writer.from
        /\ w.to = writer.to /\ w.next = 1
    BY <2>1 DEF Writers
  <2>4. w \in Writers
    <3>1. past \in {"idle", "scratch", "copy", "entries", "header", "rename"} /\ 1 \in Nat
      OBVIOUS
    <3>. HIDE DEF Onward
    <3>. QED  BY <2>1, <3>1, Zenon DEF Writers
  <2>. QED  BY <2>2, <2>3, <2>4
<1>. QED  BY <1>2, <1>3

\* One entry more of a file that is made.
LEMMA EntryMade ==
  ASSUME writer \in Writers, writer.next \in DOMAIN writer.to,
         NEW past, \/ writer.at = "copy" /\ past = "entries"
                   \/ writer.at = "entries" /\ past = "header",
         NEW bytes \in Seq(ByteSet), Making(writer, bytes),
         NEW cells \in Seq(ByteSet), NEW new,
         IsWritten(new, bytes, writer.to[writer.next].offset, cells),
         \A i \in 1 .. Len(cells) : \/ NotFork(writer.to, writer.to[writer.next].offset + i)
                                    \/ cells[i][1] \in {"fork", "zero"},
         \/ writer.to[writer.next].length <= Len(cells)
         \/ ~MadeTo(Onward(past), writer.next)
         \/ MadeTo(writer, writer.next)
  PROVE  Making(Onward(past), new)
<1>. DEFINE w == Onward(past)
            to == writer.to
            next == writer.next
<1>1. /\ w.how = writer.how /\ w.to = to /\ w.next \in DOMAIN w.to
      /\ \/ w.at = writer.at /\ w.next = next + 1
         \/ w.at = past /\ w.next = 1 /\ next = Len(to)
  BY OnwardProperties
<1>2. /\ to \in Seq(Entry) /\ next \in 1 .. Len(to) /\ Len(to) \in Nat /\ DOMAIN to = 1 .. Len(to)
      /\ \A k \in DOMAIN to : /\ to[k].offset \in Nat /\ to[k].length \in Nat
                              /\ EndOf(to[k]) = to[k].offset + to[k].length
  <2>1. to \in Seq(Entry)
    BY DEF Writers
  <2>. QED  BY <2>1, EntryProperties
<1>3. /\ Apart(to) /\ to # NoTable /\ Len(to) <= MaxEntries /\ Parted(bytes, to)
      /\ \A k \in DOMAIN to : MadeTo(writer, k) => Reached(to[k], Len(bytes))
  BY DEF Making
<1>4. /\ new \in Seq(ByteSet) /\ Len(new) \in Nat /\ Len(bytes) \in Nat /\ Len(cells) \in Nat
      /\ Len(bytes) <= Len(new) /\ (Len(cells) # 0 => to[next].offset + Len(cells) <= Len(new))
  <2>1. Len(cells) # 0 => cells # <<>>
    BY EmptySeq
  <2>. QED  BY <2>1 DEF IsWritten
<1>. HIDE DEF w, to, next
<1>5. Parted(new, to)
  <2>1. to[next].offset \in Nat
    BY <1>2
  <2>2. IsWritten(new, bytes, to[next].offset, cells)
    BY DEF to, next
  <2>3. \A i \in 1 .. Len(cells) : NotFork(to, to[next].offset + i) \/ cells[i][1] \in {"fork", "zero"}
    BY Zenon DEF to, next
  <2>. QED  BY <1>3, <2>1, <2>2, <2>3, KeepsParted
<1>6. ASSUME NEW k \in DOMAIN to, MadeTo(w, k) PROVE MadeTo(writer, k) \/ k = next
  <2>0. k \in 1 .. Len(to) /\ next \in 1 .. Len(to) /\ Len(to) \in Nat
    BY <1>2
  <2>1. /\ k < next + 1 => k < next \/ k = next
        /\ next = Len(to) => k < next \/ k = next
        /\ ~(k < 1)
    BY <2>0, SMT
  <2>2. /\ CopiedTo(w, k) => CopiedTo(writer, k) \/ k = next
        /\ WrittenTo(w, k) => WrittenTo(writer, k) \/ k = next
    BY <1>1, <2>1 DEF CopiedTo, WrittenTo, next
  <2>. QED  BY <1>1, <1>6, <2>2, Zenon DEF MadeTo, to
<1>7. ASSUME NEW k \in DOMAIN to, MadeTo(w, k) PROVE Reached(to[k], Len(new))
  <2>1. CASE MadeTo(writer, k)
    <3>1. to[k].length \in Nat /\ EndOf(to[k]) \in Nat
      BY <1>2
    <3>2. Reached(to[k], Len(bytes))
      BY <1>3, <2>1
    <3>. QED  BY <1>4, <3>1, <3>2 DEF Reached
  <2>2. CASE ~MadeTo(writer, k)
    <3>1. k = next
      BY <1>6, <1>7, <2>2
    <3>2. to[next].length <= Len(cells)
      BY <1>7, <2>2, <3>1 DEF w, to, next
    <3>. QED  BY <1>2, <1>4, <3>1, <3>2 DEF Reached
  <2>. QED  BY <2>1, <2>2
<1>. QED  BY <1>1, <1>3, <1>5, <1>7, Zenon DEF Making, w

\* What is at the sidecar's path at first.
LEMMA SidecarInit == Init => SidecarInv
<1>. SUFFICES ASSUME Init PROVE SidecarInv
  OBVIOUS
<1>1. /\ container \in Containers /\ writer = NoWriter /\ scratch = EmptyFile /\ fork = Closed
      /\ writes = 0 /\ forkWrites = 0 /\ cut = FALSE /\ raced = FALSE
  BY DEF Init
<1>2. container \in Files /\ ContainerOK(container)
  <2>1. /\ container.table \in Seq(Entry) /\ container.bytes \in Seq(ByteSet)
        /\ container = File(container.table, container.bytes)
        /\ container.bytes = <<>> => container.table = NoTable
        /\ Descrs(container) = "some" =>
             \A j \in DOMAIN container.bytes :
               NotFork(container.table, j) \/ container.bytes[j][1] \in {"fork", "zero"}
    BY <1>1, ContainersAssumption, Zenon DEF Entry, ByteSet
  <2>2. container \in Files
    BY <2>1 DEF File, Files
  <2>. QED  BY <2>1, <2>2, Zenon DEF ContainerOK, Readable, Parted
<1>3. scratch \in Files
  BY <1>1, EmptySeq DEF Files, EmptyFile, File, NoTable
<1>4. writer \in Writers /\ writer.at = "idle" /\ writer.how = "none"
  BY <1>1, EmptySeq DEF Writers, NoWriter, Writing, Info
<1>5. fork \in Handles /\ ~fork.held
  BY <1>1 DEF Handles, Closed
<1>6. TypeOK
  BY <1>1, <1>2, <1>3, <1>4, <1>5 DEF TypeOK
<1>7. HandleOK(fork, container) /\ WriterOK(writer, container) /\ MadeOK(writer, container, scratch)
  BY <1>4, <1>5, Zenon DEF HandleOK, WriterOK, MadeOK
<1>. QED  BY <1>1, <1>2, <1>6, <1>7 DEF SidecarInv, UnreadableOnlyIfCut

----------------------------------------------------------------------------
(* Each step.                                                              *)

\* What write_dbl_info() has made sure of before it goes on one way or another.
LEMMA HowProperties ==
  ASSUME NEW file \in Files, NEW fi, NEW how, how = How(file, fi)
  PROVE  /\ how \in {"fresh", "rewrite", "in place", "refuse"}
         /\ how = "fresh" => file.bytes = <<>>
         /\ how \in {"rewrite", "in place"} =>
              Readable(file) /\ Valid(WithFork(file.table, fi.length), Len(file.bytes))
         /\ how = "in place" => Commented(WithFork(file.table, fi.length), CommentLen(fi))
<1>. DEFINE table == WithFork(file.table, fi.length)
            bad == (fi.length # 0 /\ ~Has(table, "fork")) \/ ~Valid(table, Len(file.bytes))
            moved == \E j \in DOMAIN table : table[j].id = "comment" /\ table[j].length # CommentLen(fi)
<1>1. how = CASE Descrs(file) = "bad" -> "refuse"
              [] Descrs(file) = "none" -> IF fi.length = 0 THEN "fresh" ELSE "refuse"
              [] Descrs(file) = "some" ->
                   IF bad THEN "refuse" ELSE IF moved THEN "rewrite" ELSE "in place"
  BY DEF How
<1>2. /\ Descrs(file) \in {"none", "some", "bad"} /\ (Descrs(file) = "none" => file.bytes = <<>>)
  <2>. DEFINE empty == file.bytes = <<>>
              record == /\ file.table # NoTable /\ Len(file.table) <= MaxEntries
                        /\ TableEnd(file.table) <= Len(file.bytes)
                        /\ Valid(file.table, Len(file.bytes))
  <2>1. Descrs(file) = CASE empty -> "none" [] record -> "some" [] OTHER -> "bad"
    BY DEF Descrs
  <2>. HIDE DEF empty, record
  <2>2. Descrs(file) \in {"none", "some", "bad"} /\ (Descrs(file) = "none" => empty)
    BY <2>1
  <2>. QED  BY <2>2 DEF empty
<1>3. ~moved => Commented(table, CommentLen(fi))
  BY DEF Commented
<1>4. ~bad => Valid(table, Len(file.bytes))
  OBVIOUS
<1>. HIDE DEF table, bad, moved
<1>. QED  BY <1>1, <1>2, <1>3, <1>4 DEF Readable, table

\* A write begins, or is refused.
LEMMA WriteBeginKeeps ==
  ASSUME SidecarInv, NEW comment \in Nat, NEW length \in Nat, WriteBegin(comment, length)
  PROVE  SidecarInv'
<1>. DEFINE fi == Info(writes + 1, comment, length)
            how == How(container, fi)
            table == WithFork(container.table, length)
            to == CASE how = "fresh" -> FreshTable(CommentLen(fi))
                    [] how = "rewrite" -> Relaid(table, CommentLen(fi))
                    [] OTHER -> table
            at == IF how = "rewrite" THEN "scratch" ELSE "entries"
            w == Writing(at, how, fi, table, to, 1)
<1>1. /\ writer.at = "idle" /\ writes' = writes + 1 /\ raced' = FALSE
      /\ writer' = NoWriter \/ (writer' = w /\ how # "refuse")
      /\ UNCHANGED <<container, scratch, fork, forkWrites, cut>>
  BY DEF WriteBegin
<1>2. /\ TypeOK /\ ContainerOK(container) /\ UnreadableOnlyIfCut /\ HandleOK(fork, container)
      /\ writer.how # "fresh"
  BY <1>1 DEF SidecarInv, WriterOK
<1>3. /\ fi.write = writes + 1 /\ fi.comment = comment /\ fi.length = length
      /\ fi \in [write : Nat, comment : Nat, length : Nat] /\ CommentLen(fi) \in Nat
  BY <1>2, SidecarAssumption DEF TypeOK, Info, CommentLen
<1>4. container \in Files /\ container.table \in Seq(Entry) /\ table \in Seq(Entry)
  BY <1>2, WithForkProperties DEF TypeOK, Files
<1>5. /\ how \in {"fresh", "rewrite", "in place", "refuse"}
      /\ how = "fresh" => container.bytes = <<>>
      /\ how \in {"rewrite", "in place"} => Readable(container) /\ Valid(table, Len(container.bytes))
      /\ how = "in place" => Commented(table, CommentLen(fi))
  BY <1>3, <1>4, HowProperties
<1>6. /\ w.at = at /\ w.how = how /\ w.fi = fi /\ w.from = table /\ w.to = to /\ w.next = 1
  BY DEF Writing
<1>7. /\ how = "fresh" => to = FreshTable(CommentLen(fi)) /\ at = "entries"
      /\ how = "rewrite" => to = Relaid(table, CommentLen(fi)) /\ at = "scratch"
      /\ how = "in place" => to = table /\ at = "entries"
  OBVIOUS
<1>. HIDE DEF how, table, fi, to, at, w
<1>8. /\ FreshTable(CommentLen(fi)) \in Seq(Entry) /\ Apart(FreshTable(CommentLen(fi)))
      /\ Commented(FreshTable(CommentLen(fi)), CommentLen(fi))
      /\ Len(FreshTable(CommentLen(fi))) = 4
  BY <1>3, FreshTableProperties DEF Commented
<1>9. /\ Relaid(table, CommentLen(fi)) \in Seq(Entry)
      /\ Commented(Relaid(table, CommentLen(fi)), CommentLen(fi))
  <2>. DEFINE new == Relaid(table, CommentLen(fi))
  <2>1. /\ new \in Seq(Entry) /\ Len(new) = Len(table)
        /\ \A j \in DOMAIN table :
             /\ new[j].id = table[j].id
             /\ new[j].length = IF table[j].id = "comment" THEN CommentLen(fi) ELSE table[j].length
    BY <1>3, <1>4, RelaidPlaces
  <2>2. DOMAIN new = DOMAIN table
    BY <1>4, <2>1, EntryProperties
  <2>. HIDE DEF new
  <2>3. Commented(new, CommentLen(fi))
    BY <2>1, <2>2 DEF Commented
  <2>. QED  BY <2>1, <2>3 DEF new
<1>10. ASSUME how # "refuse"
       PROVE  /\ w \in Writers /\ w.at \in {"scratch", "entries"} /\ (w.at = "scratch" <=> how = "rewrite")
              /\ Commented(to, CommentLen(fi))
  <2>1. to \in Seq(Entry) /\ Commented(to, CommentLen(fi)) /\ at \in {"scratch", "entries"}
        /\ (at = "scratch" <=> how = "rewrite")
    BY <1>4, <1>5, <1>7, <1>8, <1>9, <1>10
  <2>2. w = [at |-> at, how |-> how, fi |-> fi, from |-> table, to |-> to, next |-> 1]
    BY DEF w, Writing
  <2>3. w \in Writers
    BY <1>3, <1>4, <1>5, <1>10, <2>1, <2>2 DEF Writers
  <2>. QED  BY <1>6, <2>1, <2>3
<1>11. how \in {"fresh", "in place"} => 1 \in DOMAIN to
  <2>1. CASE how = "fresh"
    BY <1>7, <1>8, <2>1
  <2>2. CASE how = "in place"
    <3>1. container.table # <<>> /\ Len(table) = Len(container.table)
      BY <1>3, <1>4, <1>5, <2>2, ReadableProperties, WithForkProperties
         DEF NoTable, SameButForks, table
    <3>2. 1 \in DOMAIN table
      BY <1>4, <3>1, EmptySeq
    <3>. QED  BY <1>7, <2>2, <3>2
  <2>. QED  BY <2>1, <2>2
<1>12. how = "fresh" => container.table = NoTable
  BY <1>2, <1>5 DEF ContainerOK
<1>13. how # "refuse" => WriterOK(w, container)
  <2>. SUFFICES ASSUME how # "refuse" PROVE WriterOK(w, container)
    OBVIOUS
  <2>1. /\ w.at # "idle" /\ w.how # "none"
        /\ w.at \in {"scratch", "copy", "rename"} => w.how = "rewrite"
        /\ w.at = "scratch" => w.next = 1
        /\ w.at \in {"copy", "entries"} => w.next \in DOMAIN w.to
    BY <1>5, <1>6, <1>10, <1>11
  <2>. QED  BY <1>3, <1>5, <1>6, <1>7, <1>10, <1>12, <2>1, Zenon DEF WriterOK, table
<1>14. how # "refuse" => MadeOK(w, container, scratch)
  <2>. SUFFICES ASSUME how = "fresh" PROVE Making(w, container.bytes)
    BY <1>6, <1>10 DEF MadeOK
  <2>1. w.at = "entries" /\ w.next = 1 /\ w.how = "fresh" /\ w.to = FreshTable(CommentLen(fi))
    BY <1>6, <1>7
  <2>2. Parted(container.bytes, w.to)
    BY <1>5, EmptySeq DEF Parted
  <2>3. ASSUME NEW k \in DOMAIN w.to PROVE ~MadeTo(w, k)
    <3>1. k \in Nat /\ ~(k < 1)
      BY <1>8, <2>1, EntryProperties
    <3>. QED  BY <2>1, <3>1 DEF MadeTo, WrittenTo
  <2>4. w.to # NoTable /\ Len(w.to) <= MaxEntries
    <3>1. Len(w.to) = 4 /\ Len(<<>>) = 0
      BY <1>8, <2>1, EmptySeq
    <3>2. w.to # <<>>
      BY <3>1
    <3>. QED  BY <3>1, <3>2, SidecarAssumption DEF NoTable
  <2>. QED  BY <1>8, <2>1, <2>2, <2>3, <2>4 DEF Making
<1>15. /\ NoWriter \in Writers /\ WriterOK(NoWriter, container) /\ MadeOK(NoWriter, container, scratch)
  <2>1. NoWriter \in Writers /\ NoWriter.at = "idle" /\ NoWriter.how = "none"
    BY EmptySeq DEF Writers, NoWriter, Writing, Info
  <2>. QED  BY <2>1, Zenon DEF WriterOK, MadeOK
<1>16. /\ writer' \in Writers /\ WriterOK(writer', container) /\ MadeOK(writer', container, scratch)
  BY <1>1, <1>10, <1>13, <1>14, <1>15
<1>17. TypeOK'
  <2>1. writes' \in Nat
    BY <1>1, <1>2 DEF TypeOK
  <2>. QED  BY <1>1, <1>2, <1>16, <2>1, Zenon DEF TypeOK
<1>18. UnreadableOnlyIfCut'
  BY <1>1, <1>2 DEF UnreadableOnlyIfCut
<1>. QED  BY <1>1, <1>2, <1>16, <1>17, <1>18 DEF SidecarInv

\* What a rewrite moves, and where to.
LEMMA RewriteProperties ==
  ASSUME TypeOK, WriterOK(writer, container), writer.how = "rewrite"
  PROVE  /\ writer.from \in Seq(Entry) /\ writer.to \in Seq(Entry) /\ container.table \in Seq(Entry)
         /\ Len(writer.from) = Len(container.table) /\ Len(writer.to) = Len(container.table)
         /\ DOMAIN writer.from = DOMAIN container.table /\ DOMAIN writer.to = DOMAIN container.table
         /\ 1 \in DOMAIN writer.to /\ Len(writer.to) <= MaxEntries
         /\ SameButForks(container.table, writer.from) /\ SameButForks(writer.from, container.table)
         /\ Apart(writer.from) /\ Apart(writer.to)
         /\ \A j \in DOMAIN writer.to :
              /\ Reached(writer.from[j], Len(container.bytes))
              /\ writer.to[j].id = writer.from[j].id
              /\ writer.to[j].id # "comment" => writer.to[j].length = writer.from[j].length
<1>1. /\ Readable(container) /\ writer.from = WithFork(container.table, writer.fi.length)
      /\ Valid(writer.from, Len(container.bytes))
      /\ writer.to = Relaid(writer.from, CommentLen(writer.fi))
  BY DEF WriterOK
<1>2. /\ container \in Files /\ container.table \in Seq(Entry)
      /\ writer.fi.length \in Nat /\ CommentLen(writer.fi) \in Nat
  BY SidecarAssumption DEF TypeOK, Files, Writers, CommentLen
<1>3. /\ writer.from \in Seq(Entry)
      /\ SameButForks(container.table, writer.from) /\ SameButForks(writer.from, container.table)
  BY <1>1, <1>2, WithForkProperties
<1>4. Apart(writer.from) /\ \A j \in DOMAIN writer.from : Reached(writer.from[j], Len(container.bytes))
  BY <1>1, ValidIsApart
<1>5. Apart(writer.to)
  BY <1>1, <1>2, <1>3, <1>4, RelaidProperties
<1>6. /\ writer.to \in Seq(Entry) /\ Len(writer.to) = Len(writer.from)
      /\ \A j \in DOMAIN writer.from :
           /\ writer.to[j].id = writer.from[j].id
           /\ writer.to[j].length = IF writer.from[j].id = "comment" THEN CommentLen(writer.fi)
                                    ELSE writer.from[j].length
  BY <1>1, <1>2, <1>3, RelaidPlaces
<1>7. Len(writer.from) = Len(container.table)
  BY <1>3 DEF SameButForks
<1>8. /\ DOMAIN writer.from = DOMAIN container.table /\ DOMAIN writer.to = DOMAIN container.table
      /\ DOMAIN writer.to = 1 .. Len(container.table) /\ Len(container.table) \in Nat
  BY <1>2, <1>3, <1>6, <1>7, EntryProperties
<1>9. container.table # <<>> /\ Len(container.table) <= MaxEntries
  BY <1>1, <1>2, ReadableProperties DEF NoTable
<1>10. Len(container.table) # 0
  BY <1>2, <1>9, EmptySeq
<1>11. 1 \in DOMAIN writer.to
  BY <1>8, <1>10
<1>. QED  BY <1>2, <1>3, <1>4, <1>5, <1>6, <1>7, <1>8, <1>9, <1>11

\* A scratch file begins with nothing.
LEMMA MakeScratchKeeps ==
  ASSUME SidecarInv, MakeScratch
  PROVE  SidecarInv'
<1>1. /\ writer.at = "scratch" /\ scratch' = EmptyFile /\ writer' = [writer EXCEPT !.at = "copy"]
      /\ UNCHANGED <<container, fork, writes, forkWrites, cut, raced>>
  BY DEF MakeScratch
<1>2. /\ TypeOK /\ ContainerOK(container) /\ UnreadableOnlyIfCut /\ HandleOK(fork, container)
      /\ WriterOK(writer, container)
  BY DEF SidecarInv
<1>3. /\ writer.how = "rewrite" /\ writer.next = 1
  BY <1>1, <1>2 DEF WriterOK
<1>4. /\ writer' \in Writers /\ writer'.at = "copy" /\ writer'.how = writer.how /\ writer'.fi = writer.fi
      /\ writer'.from = writer.from /\ writer'.to = writer.to /\ writer'.next = writer.next
  BY <1>1, <1>2 DEF TypeOK, Writers
<1>5. EmptyFile \in Files /\ EmptyFile.bytes = <<>>
  BY EmptySeq DEF Files, EmptyFile, File, NoTable
<1>6. TypeOK'
  BY <1>1, <1>2, <1>4, <1>5 DEF TypeOK
<1>7. /\ 1 \in DOMAIN writer.to /\ Apart(writer.to) /\ Len(writer.to) <= MaxEntries
      /\ writer.to \in Seq(Entry)
  BY <1>2, <1>3, RewriteProperties
<1>8. WriterOK(writer', container')
  BY <1>1, <1>2, <1>3, <1>4, <1>7 DEF WriterOK
<1>9. Making(writer', scratch'.bytes)
  <2>1. Parted(scratch'.bytes, writer.to)
    BY <1>1, <1>5, EmptySeq DEF Parted
  <2>2. writer.to # NoTable
    BY <1>7, EmptySeq DEF NoTable
  <2>3. ASSUME NEW k \in DOMAIN writer.to PROVE ~MadeTo(writer', k)
    <3>1. k \in Nat /\ ~(k < 1)
      BY <1>7, EntryProperties
    <3>. QED  BY <1>3, <1>4, <3>1 DEF MadeTo, WrittenTo, CopiedTo
  <2>. QED  BY <1>4, <1>7, <2>1, <2>2, <2>3 DEF Making
<1>10. MadeOK(writer', container', scratch')
  BY <1>3, <1>4, <1>9 DEF MadeOK
<1>11. UnreadableOnlyIfCut'
  BY <1>1, <1>2, <1>4 DEF UnreadableOnlyIfCut
<1>. QED  BY <1>1, <1>2, <1>6, <1>8, <1>10, <1>11 DEF SidecarInv

\* An entry is copied as it was.
LEMMA CopyEntryKeeps ==
  ASSUME SidecarInv, CopyEntry
  PROVE  SidecarInv'
<1>. DEFINE next == writer.next
            from == writer.from[next]
            to == writer.to[next]
            cells == IF to.id = "comment" THEN <<>> ELSE Contents(container, from)
            new == Overwritten(scratch.bytes, to.offset, cells)
<1>1. /\ writer.at = "copy" /\ scratch' = [scratch EXCEPT !.bytes = new]
      /\ writer' = Onward("entries")
      /\ UNCHANGED <<container, fork, writes, forkWrites, cut, raced>>
  BY DEF CopyEntry
<1>2. /\ TypeOK /\ ContainerOK(container) /\ UnreadableOnlyIfCut /\ HandleOK(fork, container)
      /\ WriterOK(writer, container) /\ MadeOK(writer, container, scratch)
  BY DEF SidecarInv
<1>3. /\ writer.how = "rewrite" /\ next \in DOMAIN writer.to /\ Making(writer, scratch.bytes)
      /\ Readable(container)
  BY <1>1, <1>2 DEF WriterOK, MadeOK
<1>4. /\ container \in Files /\ scratch \in Files /\ writer \in Writers
      /\ container.bytes \in Seq(ByteSet) /\ scratch.bytes \in Seq(ByteSet)
  BY <1>2 DEF TypeOK, Files
<1>5. /\ writer' \in Writers
      /\ writer'.how = writer.how /\ writer'.fi = writer.fi
      /\ writer'.from = writer.from /\ writer'.to = writer.to
      /\ writer'.next \in DOMAIN writer'.to
      /\ writer'.at \in {"copy", "entries"}
  BY <1>1, <1>3, <1>4, OnwardProperties
<1>6. /\ writer.from \in Seq(Entry) /\ writer.to \in Seq(Entry) /\ container.table \in Seq(Entry)
      /\ DOMAIN writer.from = DOMAIN container.table /\ DOMAIN writer.to = DOMAIN container.table
      /\ SameButForks(container.table, writer.from)
      /\ Apart(writer.from) /\ Apart(writer.to)
      /\ Reached(from, Len(container.bytes))
      /\ to.id = from.id /\ (to.id # "comment" => to.length = from.length)
  BY <1>2, <1>3, RewriteProperties
<1>7. /\ to \in Entry /\ from \in Entry /\ to.offset \in Nat /\ to.length \in Nat
      /\ EndOf(to) = to.offset + to.length
  BY <1>3, <1>6, EntryProperties
<1>8. /\ cells \in Seq(ByteSet)
      /\ to.id = "comment" => cells = <<>>
      /\ to.id # "comment" =>
           /\ Len(cells) = to.length
           /\ \A i \in 1 .. to.length :
                from.offset + i \in 1 .. Len(container.bytes) /\ cells[i] = container.bytes[from.offset + i]
  <2>1. CASE to.id = "comment"
    BY <2>1, EmptySeq
  <2>2. CASE to.id # "comment"
    <3>1. cells = Contents(container, from)
      BY <2>2
    <3>. HIDE DEF cells, from, to
    <3>. QED  BY <1>4, <1>6, <1>7, <2>2, <3>1, ContentsProperties
  <2>. QED  BY <2>1, <2>2
<1>9. IsWritten(new, scratch.bytes, to.offset, cells)
  BY <1>4, <1>7, <1>8, OverwrittenProperties
<1>. HIDE DEF cells, new
<1>10. ASSUME NEW i \in 1 .. Len(cells)
       PROVE  NotFork(writer.to, to.offset + i) \/ cells[i][1] \in {"fork", "zero"}
  <2>1. to.id # "comment" /\ i \in 1 .. to.length
    BY <1>8, EmptySeq
  <2>2. CASE to.id # "fork"
    <3>1. to.offset < to.offset + i /\ to.offset + i <= EndOf(to)
      BY <1>7, <2>1
    <3>. QED  BY <1>3, <2>2, <3>1 DEF NotFork
  <2>3. CASE to.id = "fork"
    <3>1. ~NotFork(writer.from, from.offset + i)
      BY <1>3, <1>6, <2>1, <2>3, ForkApart
    <3>2. ~NotFork(container.table, from.offset + i)
      BY <1>6, <3>1, SameNotFork
    <3>3. from.offset + i \in DOMAIN container.bytes
      BY <1>4, <1>8, <2>1
    <3>4. container.bytes[from.offset + i][1] \in {"fork", "zero"}
      BY <1>2, <1>3, <3>2, <3>3 DEF ContainerOK, Parted
    <3>. QED  BY <1>8, <2>1, <3>4
  <2>. QED  BY <2>2, <2>3
<1>11. Making(writer', new)
  <2>1. to.length <= Len(cells) \/ ~MadeTo(writer', next)
    <3>1. CASE to.id = "comment"
      <4>1. ~WrittenTo(writer', next)
        <5>1. \/ writer'.at = "copy"
              \/ writer'.at = "entries" /\ writer'.next = 1
          BY <1>1, <1>3, <1>4, OnwardProperties
        <5>2. next \in Nat /\ ~(next < 1)
          BY <1>3, <1>6, EntryProperties
        <5>. QED  BY <5>1, <5>2 DEF WrittenTo
      <4>. QED  BY <1>5, <3>1, <4>1 DEF MadeTo
    <3>2. CASE to.id # "comment"
      BY <1>7, <1>8, <3>2
    <3>. QED  BY <3>1, <3>2
  <2>. QED  BY <1>1, <1>3, <1>4, <1>8, <1>9, <1>10, <2>1, EntryMade
<1>12. scratch' \in Files /\ scratch'.bytes = new
  BY <1>1, <1>4, <1>9 DEF Files, IsWritten
<1>13. TypeOK'
  BY <1>1, <1>2, <1>5, <1>12 DEF TypeOK
<1>14. WriterOK(writer', container')
  BY <1>1, <1>2, <1>3, <1>5 DEF WriterOK
<1>15. MadeOK(writer', container', scratch')
  BY <1>3, <1>5, <1>11, <1>12 DEF MadeOK
<1>16. UnreadableOnlyIfCut'
  BY <1>1, <1>2, <1>5 DEF UnreadableOnlyIfCut
<1>. QED  BY <1>1, <1>2, <1>13, <1>14, <1>15, <1>16 DEF SidecarInv

\* Cells that go where no fork is, as far as the container's own table says, keep it
\* what it was.
LEMMA OverRecord ==
  ASSUME NEW file \in Files, NEW new \in Files, new.table = file.table, ContainerOK(file),
         NEW offset \in Nat, NEW cells \in Seq(ByteSet),
         IsWritten(new.bytes, file.bytes, offset, cells), Readable(file),
         \A i \in 1 .. Len(cells) : \/ NotFork(file.table, offset + i)
                                    \/ cells[i][1] \in {"fork", "zero"}
  PROVE  ContainerOK(new) /\ Readable(new)
         /\ \A f : HandleOK(f, file) => HandleOK(f, new)
<1>1. Len(file.bytes) <= Len(new.bytes) /\ file.bytes \in Seq(ByteSet)
  BY DEF IsWritten, Files
<1>2. Readable(new)
  BY <1>1, GrownReadable
<1>3. Parted(file.bytes, file.table)
  BY DEF ContainerOK
<1>4. Parted(new.bytes, file.table)
  BY <1>1, <1>3, KeepsParted
<1>5. new.bytes # <<>>
  BY <1>2, ReadableProperties
<1>. QED  BY <1>2, <1>4, <1>5 DEF ContainerOK, HandleOK

\* An entry is written.
LEMMA WriteEntryKeeps ==
  ASSUME SidecarInv, WriteEntry
  PROVE  SidecarInv'
<1>. DEFINE next == writer.next
            to == writer.to[next]
            cells == Payload(to.id, writer.fi)
            new == Overwritten(Target.bytes, to.offset, cells)
            file == [Target EXCEPT !.bytes = new]
<1>1. /\ writer.at = "entries" /\ WriteTarget(file) /\ writer' = Onward("header")
      /\ UNCHANGED <<fork, writes, forkWrites, cut, raced>>
  BY DEF WriteEntry
<1>2. /\ TypeOK /\ ContainerOK(container) /\ UnreadableOnlyIfCut /\ HandleOK(fork, container)
      /\ WriterOK(writer, container) /\ MadeOK(writer, container, scratch)
  BY DEF SidecarInv
<1>3. /\ next \in DOMAIN writer.to /\ writer.how # "none" /\ Commented(writer.to, CommentLen(writer.fi))
  BY <1>1, <1>2 DEF WriterOK
<1>4. /\ container \in Files /\ scratch \in Files /\ writer \in Writers
      /\ Target \in Files /\ Target.bytes \in Seq(ByteSet)
      /\ writer.to \in Seq(Entry) /\ writer.how \in {"none", "fresh", "rewrite", "in place"}
      /\ writer.fi.write \in Nat /\ writer.fi.comment \in Nat /\ writer.fi.length \in Nat
  BY <1>2 DEF TypeOK, Files, Target, Writers
<1>5. /\ writer' \in Writers
      /\ writer'.how = writer.how /\ writer'.fi = writer.fi
      /\ writer'.from = writer.from /\ writer'.to = writer.to
      /\ writer'.next \in DOMAIN writer'.to
      /\ writer'.at \in {"entries", "header"}
  BY <1>1, <1>3, <1>4, OnwardProperties
<1>6. Apart(writer.to)
  <2>1. CASE writer.how = "in place"
    BY <1>2, <2>1, ValidIsApart DEF WriterOK
  <2>2. CASE writer.how \in {"fresh", "rewrite"}
    BY <1>1, <1>2, <2>2 DEF MadeOK, Making
  <2>. QED  BY <1>3, <1>4, <2>1, <2>2
<1>7. to \in Entry /\ to.offset \in Nat /\ to.length \in Nat
  BY <1>3, <1>4, EntryProperties
<1>8. /\ cells \in Seq(ByteSet)
      /\ Len(cells) <= to.length
      /\ to.id = "comment" => Len(cells) = to.length
      /\ \A i \in 1 .. Len(cells) : NotFork(writer.to, to.offset + i)
  BY <1>3, <1>4, <1>6, PayloadProperties
<1>9. IsWritten(new, Target.bytes, to.offset, cells)
  BY <1>4, <1>7, <1>8, OverwrittenProperties
<1>. HIDE DEF cells, new
<1>10. file \in Files /\ file.bytes = new /\ file.table = Target.table
  BY <1>4, <1>9 DEF Files, IsWritten
<1>. HIDE DEF file
<1>11. IF writer.how = "rewrite" THEN scratch' = file /\ container' = container
       ELSE container' = file /\ scratch' = scratch
  BY <1>1 DEF WriteTarget
<1>12. TypeOK'
  <2>1. container' \in Files /\ scratch' \in Files
    BY <1>4, <1>10, <1>11, Zenon
  <2>. QED  BY <1>1, <1>2, <1>5, <2>1 DEF TypeOK
<1>13. writer.how \in {"fresh", "rewrite"} => Making(writer', new)
  <2>. SUFFICES ASSUME writer.how \in {"fresh", "rewrite"} PROVE Making(writer', new)
    OBVIOUS
  <2>1. Making(writer, Target.bytes)
    BY <1>1, <1>2 DEF MadeOK, Target
  <2>2. to.length <= Len(cells) \/ ~MadeTo(writer', next) \/ MadeTo(writer, next)
    <3>1. CASE writer.how = "fresh" \/ to.id = "comment"
      <4>1. CASE to.id = "comment"
        BY <1>7, <1>8, <4>1
      <4>2. CASE writer.how = "fresh" /\ to.id # "comment"
        <5>1. writer.to = FreshTable(CommentLen(writer.fi)) /\ CommentLen(writer.fi) \in Nat
          BY <1>2, <1>4, <4>2, SidecarAssumption DEF WriterOK, CommentLen
        <5>2. /\ to.id = "fork" => to.length = 0
              /\ to.id \in {"dates", "finfo"} => to.length = 1
              /\ to.id \in {"comment", "dates", "finfo", "fork"}
          <6>1. to.id \in {"comment", "dates", "finfo", "fork"}
            BY <1>3, <5>1, FreshTableProperties
          <6>. QED  BY <1>3, <5>1, <6>1, FreshTableProperties
        <5>3. to.id \in {"dates", "finfo"} => Len(cells) = 1
          BY <1>3, <1>4, <1>6, PayloadProperties DEF cells
        <5>4. Len(cells) \in Nat
          BY <1>8, LenProperties
        <5>5. CASE to.id = "fork"
          BY <1>7, <5>2, <5>4, <5>5
        <5>6. CASE to.id \in {"dates", "finfo"}
          BY <1>7, <5>2, <5>3, <5>6
        <5>7. to.id = "fork" \/ to.id \in {"dates", "finfo"}
          BY <4>2, <5>2
        <5>. QED  BY <5>5, <5>6, <5>7, Zenon
      <4>. QED  BY <3>1, <4>1, <4>2
    <3>2. CASE ~(writer.how = "fresh" \/ to.id = "comment")
      <4>1. MadeTo(writer, next)
        BY <1>1, <3>2 DEF MadeTo, CopiedTo
      <4>. QED  BY <4>1
    <3>. QED  BY <3>1, <3>2
  <2>. QED  BY <1>1, <1>3, <1>4, <1>8, <1>9, <2>1, <2>2, EntryMade
<1>14. CASE writer.how = "rewrite"
  <2>1. scratch' = file /\ container' = container
    BY <1>11, <1>14
  <2>2. WriterOK(writer', container')
    BY <1>1, <1>2, <1>3, <1>5, <1>14, <2>1 DEF WriterOK
  <2>3. MadeOK(writer', container', scratch')
    BY <1>5, <1>10, <1>13, <1>14, <2>1 DEF MadeOK
  <2>4. UnreadableOnlyIfCut'
    BY <1>1, <1>2, <1>5, <2>1 DEF UnreadableOnlyIfCut
  <2>. QED  BY <1>1, <1>2, <1>12, <2>1, <2>2, <2>3, <2>4 DEF SidecarInv
<1>15. CASE writer.how = "fresh"
  <2>1. container' = file /\ scratch' = scratch /\ Target = container
    BY <1>11, <1>15 DEF Target
  <2>2. container.table = NoTable /\ container'.table = NoTable
        /\ writer.to = FreshTable(CommentLen(writer.fi))
    BY <1>2, <1>10, <1>15, <2>1 DEF WriterOK
  <2>3. ~Readable(container) /\ ~Readable(container')
    BY <1>4, <1>12, <2>2, ReadableProperties DEF TypeOK
  <2>4. ContainerOK(container') /\ ~fork.held /\ HandleOK(fork', container')
    BY <1>1, <1>2, <2>2, <2>3 DEF ContainerOK, HandleOK
  <2>5. WriterOK(writer', container')
    BY <1>3, <1>5, <1>15, <2>2 DEF WriterOK
  <2>6. MadeOK(writer', container', scratch')
    BY <1>5, <1>10, <1>13, <1>15, <2>1 DEF MadeOK
  <2>7. UnreadableOnlyIfCut'
    BY <1>5, <1>15 DEF UnreadableOnlyIfCut
  <2>. QED  BY <1>12, <2>4, <2>5, <2>6, <2>7 DEF SidecarInv
<1>16. CASE writer.how = "in place"
  <2>1. container' = file /\ scratch' = scratch /\ Target = container
    BY <1>11, <1>16 DEF Target
  <2>2. /\ Readable(container) /\ container.table \in Seq(Entry)
        /\ writer.to = WithFork(container.table, writer.fi.length)
        /\ Valid(writer.to, Len(container.bytes))
    BY <1>2, <1>4, <1>16 DEF WriterOK, Files
  <2>3. \A i \in 1 .. Len(cells) : NotFork(container.table, to.offset + i)
    <3>1. SameButForks(container.table, writer.to)
      BY <1>4, <2>2, WithForkProperties
    <3>. QED  BY <1>4, <1>8, <2>2, <3>1, SameNotFork
  <2>4. ContainerOK(container') /\ Readable(container') /\ HandleOK(fork, container')
    BY <1>2, <1>4, <1>7, <1>8, <1>9, <1>10, <2>1, <2>2, <2>3, OverRecord
  <2>5. Valid(writer.to, Len(container'.bytes)) /\ container'.table = container.table
    BY <1>4, <1>9, <1>10, <2>1, <2>2, GrownReadable DEF IsWritten
  <2>6. WriterOK(writer', container')
    BY <1>3, <1>5, <1>16, <2>2, <2>4, <2>5 DEF WriterOK
  <2>7. MadeOK(writer', container', scratch')
    BY <1>5, <1>16 DEF MadeOK
  <2>8. UnreadableOnlyIfCut'
    BY <2>4 DEF UnreadableOnlyIfCut, Readable
  <2>. QED  BY <1>1, <1>12, <2>4, <2>6, <2>7, <2>8 DEF SidecarInv
<1>. QED  BY <1>3, <1>4, <1>14, <1>15, <1>16

\* A header makes a record of a file that has all that its table says.
LEMMA HeaderMade ==
  ASSUME NEW file \in Files, NEW to \in Seq(Entry), Apart(to), to # NoTable,
         Len(to) <= MaxEntries, Parted(file.bytes, to),
         \A j \in DOMAIN to : Reached(to[j], Len(file.bytes)),
         NEW new, new = File(to, Overwritten(file.bytes, 0, HeadOf(to)))
  PROVE  /\ new \in Files /\ new.table = to /\ Readable(new) /\ ContainerOK(new)
         /\ TableEnd(to) <= Len(new.bytes) /\ Len(file.bytes) <= Len(new.bytes)
         /\ Parted(new.bytes, to)
         /\ \A j \in DOMAIN to : Reached(to[j], Len(new.bytes))
<1>. DEFINE bytes == Overwritten(file.bytes, 0, HeadOf(to))
<1>1. /\ HeadOf(to) \in Seq(ByteSet) /\ Len(HeadOf(to)) = TableEnd(to)
      /\ TableEnd(to) \in Nat /\ TableEnd(to) >= 1 /\ HeadOf(to) # <<>>
      /\ \A i \in 1 .. Len(HeadOf(to)) : NotFork(to, 0 + i)
  BY HeadProperties
<1>2. file.bytes \in Seq(ByteSet) /\ Len(file.bytes) \in Nat
  BY DEF Files
<1>3. IsWritten(bytes, file.bytes, 0, HeadOf(to))
  BY <1>1, <1>2, OverwrittenProperties
<1>. HIDE DEF bytes
<1>4. /\ new.table = to /\ new.bytes = bytes /\ new = [table |-> to, bytes |-> bytes]
  BY DEF File, bytes
<1>5. /\ bytes \in Seq(ByteSet) /\ Len(bytes) \in Nat /\ Len(file.bytes) <= Len(bytes)
      /\ 0 + Len(HeadOf(to)) <= Len(bytes)
  BY <1>1, <1>3 DEF IsWritten
<1>6. new \in Files
  BY <1>4, <1>5 DEF Files
<1>7. TableEnd(to) <= Len(bytes) /\ Len(bytes) # 0
  BY <1>1, <1>5
<1>8. Parted(bytes, to)
  BY <1>1, <1>2, <1>3, KeepsParted
<1>9. \A j \in DOMAIN to : Reached(to[j], Len(bytes))
  BY <1>2, <1>5, EntryProperties DEF Reached
<1>10. bytes # <<>>
  BY <1>7, EmptySeq
<1>11. Readable(new)
  BY <1>4, <1>6, <1>7, <1>9, <1>10, ReadableProperties
<1>. QED  BY <1>4, <1>5, <1>6, <1>7, <1>8, <1>9, <1>10, <1>11 DEF ContainerOK

\* The file that is being made becomes a record.
LEMMA HeaderFile ==
  ASSUME SidecarInv, WriteHeader, NEW new,
         new = File(writer.to, Overwritten(Target.bytes, 0, HeadOf(writer.to)))
  PROVE  /\ Apart(writer.to) /\ writer.to # NoTable /\ Len(writer.to) <= MaxEntries
         /\ \A j \in DOMAIN writer.to : Reached(writer.to[j], Len(Target.bytes))
         /\ new \in Files /\ new.table = writer.to /\ Readable(new) /\ ContainerOK(new)
         /\ TableEnd(writer.to) <= Len(new.bytes) /\ Len(Target.bytes) <= Len(new.bytes)
         /\ Parted(new.bytes, writer.to)
         /\ \A j \in DOMAIN writer.to : Reached(writer.to[j], Len(new.bytes))
         /\ IsWritten(new.bytes, Target.bytes, 0, HeadOf(writer.to))
<1>. DEFINE to == writer.to
            file == File(to, Overwritten(Target.bytes, 0, HeadOf(to)))
<1>1. /\ writer.at = "header" /\ WriteTarget(file)
      /\ writer' = IF writer.how = "rewrite" THEN [writer EXCEPT !.at = "rename"] ELSE NoWriter
      /\ UNCHANGED <<fork, writes, forkWrites, cut, raced>>
  BY DEF WriteHeader
<1>2. /\ TypeOK /\ ContainerOK(container) /\ UnreadableOnlyIfCut /\ HandleOK(fork, container)
      /\ WriterOK(writer, container) /\ MadeOK(writer, container, scratch)
  BY DEF SidecarInv
<1>3. /\ container \in Files /\ scratch \in Files /\ writer \in Writers /\ Target \in Files
      /\ to \in Seq(Entry) /\ writer.how \in {"fresh", "rewrite", "in place"}
      /\ writer.fi.length \in Nat
  BY <1>1, <1>2 DEF TypeOK, Target, Writers, WriterOK
<1>4. IF writer.how = "rewrite" THEN scratch' = file /\ container' = container
      ELSE container' = file /\ scratch' = scratch
  BY <1>1 DEF WriteTarget
<1>5. /\ Apart(to) /\ to # NoTable /\ Len(to) <= MaxEntries /\ Parted(Target.bytes, to)
      /\ \A j \in DOMAIN to : Reached(to[j], Len(Target.bytes))
  <2>1. CASE writer.how \in {"fresh", "rewrite"}
    <3>1. Making(writer, Target.bytes)
      BY <1>1, <1>2, <2>1 DEF MadeOK, Target
    <3>2. \A k \in DOMAIN to : MadeTo(writer, k)
      BY <1>1 DEF MadeTo, WrittenTo, CopiedTo
    <3>. QED  BY <3>1, <3>2 DEF Making
  <2>2. CASE writer.how = "in place"
    <3>1. /\ Target = container /\ Readable(container) /\ container.table \in Seq(Entry)
          /\ to = WithFork(container.table, writer.fi.length) /\ Valid(to, Len(container.bytes))
      BY <1>2, <1>3, <2>2 DEF WriterOK, Target, Files
    <3>2. SameButForks(container.table, to)
      BY <1>3, <3>1, WithForkProperties
    <3>3. /\ container.table # NoTable /\ Len(container.table) <= MaxEntries
          /\ Len(to) = Len(container.table)
      BY <1>3, <3>1, <3>2, ReadableProperties DEF SameButForks
    <3>4. to # NoTable
      BY <1>3, <3>1, <3>3, EmptySeq DEF NoTable
    <3>5. Parted(container.bytes, to)
      BY <1>2, <1>3, <3>1, <3>2, SameNotFork DEF ContainerOK, Parted
    <3>. QED  BY <3>1, <3>3, <3>4, <3>5, ValidIsApart
  <2>. QED  BY <1>3, <2>1, <2>2
<1>6. IsWritten(file.bytes, Target.bytes, 0, HeadOf(to))
  <2>1. Target.bytes \in Seq(ByteSet)
    BY <1>3 DEF Files
  <2>2. file.bytes = Overwritten(Target.bytes, 0, HeadOf(to))
    BY DEF File
  <2>. QED  BY <1>3, <2>1, <2>2, HeadProperties, OverwrittenProperties
<1>. HIDE DEF to
<1>7. /\ file \in Files /\ file.table = to /\ Readable(file) /\ ContainerOK(file)
      /\ TableEnd(to) <= Len(file.bytes) /\ Len(Target.bytes) <= Len(file.bytes)
      /\ Parted(file.bytes, to)
      /\ \A j \in DOMAIN to : Reached(to[j], Len(file.bytes))
  BY <1>3, <1>5, HeaderMade
<1>8. new = file
  BY DEF to
<1>. HIDE DEF file
<1>. QED  BY <1>5, <1>6, <1>7, <1>8 DEF to

\* The header is written, last of all.
LEMMA WriteHeaderKeeps ==
  ASSUME SidecarInv, WriteHeader
  PROVE  SidecarInv'
<1>. DEFINE to == writer.to
            file == File(to, Overwritten(Target.bytes, 0, HeadOf(to)))
<1>1. /\ writer.at = "header" /\ WriteTarget(file)
      /\ writer' = IF writer.how = "rewrite" THEN [writer EXCEPT !.at = "rename"] ELSE NoWriter
      /\ UNCHANGED <<fork, writes, forkWrites, cut, raced>>
  BY DEF WriteHeader
<1>2. /\ TypeOK /\ ContainerOK(container) /\ UnreadableOnlyIfCut /\ HandleOK(fork, container)
      /\ WriterOK(writer, container) /\ MadeOK(writer, container, scratch)
  BY DEF SidecarInv
<1>3. /\ container \in Files /\ scratch \in Files /\ writer \in Writers /\ Target \in Files
      /\ to \in Seq(Entry) /\ writer.how \in {"fresh", "rewrite", "in place"}
      /\ writer.fi.length \in Nat
  BY <1>1, <1>2 DEF TypeOK, Target, Writers, WriterOK
<1>4. IF writer.how = "rewrite" THEN scratch' = file /\ container' = container
      ELSE container' = file /\ scratch' = scratch
  BY <1>1 DEF WriteTarget
<1>5. /\ Apart(to) /\ to # NoTable /\ Len(to) <= MaxEntries
      /\ file \in Files /\ file.table = to /\ Readable(file) /\ ContainerOK(file)
      /\ TableEnd(to) <= Len(file.bytes) /\ Parted(file.bytes, to)
      /\ \A j \in DOMAIN to : Reached(to[j], Len(file.bytes))
  BY HeaderFile
<1>. HIDE DEF to
<1>. HIDE DEF file
<1>7. CASE writer.how = "rewrite"
  <2>1. scratch' = file /\ container' = container
    BY <1>4, <1>7
  <2>2. writer' = [writer EXCEPT !.at = "rename"]
    BY <1>1, <1>7
  <2>3. /\ writer' \in Writers /\ writer'.at = "rename" /\ writer'.how = "rewrite"
        /\ writer'.fi = writer.fi /\ writer'.from = writer.from /\ writer'.to = to
    BY <1>3, <1>7, <2>2 DEF Writers, to
  <2>4. TypeOK'
    BY <1>1, <1>2, <1>5, <2>1, <2>3 DEF TypeOK
  <2>5. WriterOK(writer', container')
    BY <1>2, <1>7, <2>1, <2>3 DEF WriterOK, to
  <2>6. Making(writer', scratch'.bytes)
    BY <1>5, <2>1, <2>3 DEF Making
  <2>7. MadeOK(writer', container', scratch')
    BY <1>5, <2>1, <2>3, <2>6 DEF MadeOK
  <2>8. UnreadableOnlyIfCut'
    BY <1>1, <1>2, <1>7, <2>1, <2>3 DEF UnreadableOnlyIfCut
  <2>. QED  BY <1>1, <1>2, <2>1, <2>4, <2>5, <2>7, <2>8 DEF SidecarInv
<1>8. CASE writer.how \in {"fresh", "in place"}
  <2>1. container' = file /\ scratch' = scratch /\ writer' = NoWriter
    BY <1>1, <1>4, <1>8
  <2>2. NoWriter \in Writers /\ NoWriter.at = "idle" /\ NoWriter.how = "none"
    BY EmptySeq DEF Writers, NoWriter, Writing, Info
  <2>3. TypeOK'
    BY <1>1, <1>2, <1>5, <2>1, <2>2 DEF TypeOK
  <2>4. WriterOK(writer', container') /\ MadeOK(writer', container', scratch')
    BY <2>1, <2>2, Zenon DEF WriterOK, MadeOK
  <2>5. UnreadableOnlyIfCut'
    BY <1>5, <2>1 DEF UnreadableOnlyIfCut, Readable
  <2>6. HandleOK(fork, container')
    <3>1. CASE writer.how = "fresh"
      <4>1. ~Readable(container)
        BY <1>2, <1>3, <3>1, ReadableProperties DEF WriterOK
      <4>. QED  BY <1>2, <4>1 DEF HandleOK
    <3>2. CASE writer.how = "in place"
      <4>1. container.table \in Seq(Entry) /\ to = WithFork(container.table, writer.fi.length)
        BY <1>2, <1>3, <3>2 DEF WriterOK, Files, to
      <4>2. \A j : NotFork(container.table, j) <=> NotFork(to, j)
        BY <1>3, <4>1, WithForkProperties, SameNotFork
      <4>. QED  BY <1>2, <1>5, <2>1, <4>2 DEF HandleOK
    <3>. QED  BY <1>8, <3>1, <3>2
  <2>. QED  BY <1>1, <1>5, <2>1, <2>3, <2>4, <2>5, <2>6 DEF SidecarInv
<1>. QED  BY <1>3, <1>7, <1>8

\* The scratch file is a record as the one it replaces was.
LEMMA HandedOver ==
  ASSUME SidecarInv, Rename
  PROVE  scratch \in Files /\ Readable(scratch) /\ ContainerOK(scratch)
<1>1. writer.at = "rename"
  BY DEF Rename
<1>2. TypeOK /\ WriterOK(writer, container) /\ MadeOK(writer, container, scratch)
  BY DEF SidecarInv
<1>3. /\ writer.how = "rewrite" /\ Making(writer, scratch.bytes)
      /\ scratch.table = writer.to /\ TableEnd(writer.to) <= Len(scratch.bytes)
      /\ scratch \in Files
  BY <1>1, <1>2 DEF WriterOK, MadeOK, TypeOK
<1>4. \A k \in DOMAIN writer.to : MadeTo(writer, k)
  BY <1>1 DEF MadeTo, WrittenTo, CopiedTo
<1>5. TableEnd(writer.to) \in Nat /\ TableEnd(writer.to) >= 1
  BY <1>3, HeadProperties DEF Files
<1>6. scratch.bytes # <<>>
  <2>1. Len(scratch.bytes) \in Nat
    BY <1>3 DEF Files
  <2>. QED  BY <1>3, <1>5, <2>1, EmptySeq
<1>7. Readable(scratch) /\ ContainerOK(scratch)
  BY <1>3, <1>4, <1>6, ReadableProperties DEF Making, ContainerOK
<1>. QED  BY <1>3, <1>7

\* And it takes its place.
LEMMA RenameKeeps ==
  ASSUME SidecarInv, Rename
  PROVE  SidecarInv'
<1>1. /\ writer.at = "rename" /\ container' = scratch /\ scratch' = EmptyFile
      /\ fork' = [fork EXCEPT !.held = FALSE] /\ writer' = NoWriter
      /\ UNCHANGED <<writes, forkWrites, cut, raced>>
  BY DEF Rename
<1>2. TypeOK
  BY DEF SidecarInv
<1>7. scratch \in Files /\ Readable(scratch) /\ ContainerOK(scratch)
  BY HandedOver
<1>8. /\ NoWriter \in Writers /\ NoWriter.at = "idle" /\ NoWriter.how = "none"
      /\ EmptyFile \in Files
  BY EmptySeq DEF Writers, NoWriter, Writing, Info, Files, EmptyFile, File, NoTable
<1>9. fork' \in Handles /\ ~fork'.held
  BY <1>1, <1>2 DEF TypeOK, Handles
<1>10. TypeOK'
  BY <1>1, <1>2, <1>7, <1>8, <1>9 DEF TypeOK
<1>11. WriterOK(writer', container') /\ MadeOK(writer', container', scratch')
  BY <1>1, <1>8, Zenon DEF WriterOK, MadeOK
<1>12. UnreadableOnlyIfCut'
  BY <1>1, <1>7 DEF UnreadableOnlyIfCut, Readable
<1>. QED  BY <1>1, <1>7, <1>9, <1>10, <1>11, <1>12 DEF SidecarInv, HandleOK

\* A write that is given up, by itself or with the program, leaves its container be.
LEMMA GivenUpKeeps ==
  ASSUME SidecarInv, Fail \/ Stop
  PROVE  SidecarInv'
<1>1. /\ writer' = NoWriter /\ scratch' = EmptyFile /\ cut' = (cut \/ writer.how = "fresh")
      /\ fork' = fork \/ fork' = Closed
      /\ UNCHANGED <<container, writes, forkWrites, raced>>
  BY DEF Fail, Stop
<1>2. TypeOK /\ ContainerOK(container) /\ UnreadableOnlyIfCut /\ HandleOK(fork, container)
  BY DEF SidecarInv
<1>3. /\ NoWriter \in Writers /\ NoWriter.at = "idle" /\ NoWriter.how = "none"
      /\ EmptyFile \in Files
  BY EmptySeq DEF Writers, NoWriter, Writing, Info, Files, EmptyFile, File, NoTable
<1>4. Closed \in Handles /\ ~Closed.held
  BY DEF Handles, Closed
<1>5. TypeOK'
  <2>1. cut' \in BOOLEAN
    BY <1>1, <1>2 DEF TypeOK
  <2>2. fork' \in Handles
    BY <1>1, <1>2, <1>4 DEF TypeOK
  <2>. QED  BY <1>1, <1>2, <1>3, <2>1, <2>2 DEF TypeOK
<1>6. WriterOK(writer', container') /\ MadeOK(writer', container', scratch')
  BY <1>1, <1>3, Zenon DEF WriterOK, MadeOK
<1>7. UnreadableOnlyIfCut'
  BY <1>1, <1>2 DEF UnreadableOnlyIfCut
<1>8. HandleOK(fork', container')
  BY <1>1, <1>2, <1>4 DEF HandleOK
<1>. QED  BY <1>1, <1>2, <1>5, <1>6, <1>7, <1>8 DEF SidecarInv

\* A handle is opened on a fork, moved in it or closed.
LEMMA HandleKeeps ==
  ASSUME SidecarInv, ForkOpen \/ ForkClose \/ \E to \in 0 .. MaxLength : ForkSeek(to)
  PROVE  SidecarInv'
<1>1. TypeOK /\ ContainerOK(container) /\ UnreadableOnlyIfCut /\ HandleOK(fork, container)
  BY DEF SidecarInv
<1>2. UNCHANGED <<container, writer, scratch, writes, forkWrites, cut, raced>>
  BY DEF ForkOpen, ForkClose, ForkSeek
<1>3. SUFFICES fork' \in Handles /\ HandleOK(fork', container)
  BY <1>1, <1>2 DEF SidecarInv, TypeOK, UnreadableOnlyIfCut
<1>4. CASE ForkOpen
  <2>. DEFINE d == FirstOf(container.table, "fork")
  <2>1. /\ Readable(container) /\ Has(container.table, "fork")
        /\ fork' = [open |-> TRUE, held |-> TRUE, start |-> d.offset, position |-> 0,
                    length |-> d.length, max |-> Room(container, d)]
    BY <1>4 DEF ForkOpen, Readable
  <2>2. /\ d \in Entry /\ Room(container, d) \in Nat
        /\ \A x \in d.offset + 1 .. d.offset + Room(container, d) : ~NotFork(container.table, x)
    BY <1>1, <2>1, RoomProperties DEF TypeOK
  <2>. HIDE DEF d
  <2>3. fork' \in Handles /\ fork'.start = d.offset /\ fork'.max = Room(container, d)
    BY <2>1, <2>2 DEF Handles, Entry
  <2>. QED  BY <2>1, <2>2, <2>3 DEF HandleOK
<1>5. CASE ForkClose
  BY <1>5 DEF ForkClose, Closed, Handles, HandleOK
<1>6. CASE \E to \in 0 .. MaxLength : ForkSeek(to)
  <2>1. PICK to \in 0 .. MaxLength : fork' = [fork EXCEPT !.position = to]
    BY <1>6 DEF ForkSeek
  <2>2. to \in Nat
    BY SidecarAssumption
  <2>3. /\ fork' \in Handles /\ fork'.held = fork.held /\ fork'.start = fork.start
        /\ fork'.max = fork.max
    BY <1>1, <2>1, <2>2 DEF TypeOK, Handles
  <2>. QED  BY <1>1, <2>3 DEF HandleOK
<1>. QED  BY <1>4, <1>5, <1>6

\* What is written to a fork goes where nothing else is.
LEMMA ForkWriteKeeps ==
  ASSUME SidecarInv, NEW n \in Nat, ForkWrite(n)
  PROVE  SidecarInv'
<1>. DEFINE count == IF n < fork.max - fork.position THEN n ELSE fork.max - fork.position
            to == fork.position + count
            at == fork.start + fork.position
            cells == [k \in 1 .. count |-> Byte("fork", forkWrites + 1, k)]
            new == Overwritten(container.bytes, at, cells)
<1>1. /\ fork.position < fork.max
      /\ container' = IF ~fork.held THEN container ELSE [container EXCEPT !.bytes = new]
      /\ fork' = [fork EXCEPT !.position = to, !.length = IF to > @ THEN to ELSE @]
      /\ forkWrites' = forkWrites + 1 /\ raced' = (raced \/ writer.how = "rewrite")
      /\ UNCHANGED <<writer, scratch, writes, cut>>
  BY DEF ForkWrite
<1>2. /\ TypeOK /\ ContainerOK(container) /\ UnreadableOnlyIfCut /\ HandleOK(fork, container)
      /\ WriterOK(writer, container) /\ MadeOK(writer, container, scratch)
  BY DEF SidecarInv
<1>3. /\ container \in Files /\ container.bytes \in Seq(ByteSet) /\ forkWrites \in Nat
      /\ fork \in Handles
      /\ fork.position \in Nat /\ fork.max \in Nat /\ fork.start \in Nat /\ fork.length \in Nat
  BY <1>2 DEF TypeOK, Files, Handles
<1>4. count \in Nat /\ at \in Nat /\ to \in Nat
  BY <1>1, <1>3
<1>5. cells \in Seq(ByteSet) /\ \A i \in 1 .. Len(cells) : cells[i][1] = "fork"
  <2>1. \A k \in 1 .. count : /\ Byte("fork", forkWrites + 1, k) \in ByteSet
                              /\ Byte("fork", forkWrites + 1, k)[1] = "fork"
    BY <1>3, <1>4 DEF Byte, ByteSet, Kinds, Ids
  <2>. HIDE DEF count
  <2>2. cells \in Seq(ByteSet) /\ Len(cells) = count
    BY <1>4, <2>1
  <2>3. \A i \in 1 .. count : cells[i] = Byte("fork", forkWrites + 1, i)
    OBVIOUS
  <2>. HIDE DEF cells
  <2>. QED  BY <2>1, <2>2, <2>3
<1>6. fork' \in Handles /\ fork'.held = fork.held /\ fork'.start = fork.start /\ fork'.max = fork.max
  <2>. HIDE DEF to
  <2>1. (IF to > fork.length THEN to ELSE fork.length) \in Nat
    BY <1>3, <1>4
  <2>2. fork' = [fork EXCEPT !.position = to, !.length = IF to > fork.length THEN to ELSE fork.length]
    BY <1>1
  <2>. QED  BY <1>3, <1>4, <2>1, <2>2 DEF Handles
<1>. HIDE DEF count, to, cells
<1>7. CASE ~fork.held
  <2>1. container' = container
    BY <1>1, <1>7
  <2>2. TypeOK'
    <3>1. forkWrites' \in Nat /\ raced' \in BOOLEAN
      BY <1>1, <1>2, <1>3 DEF TypeOK
    <3>. QED  BY <1>1, <1>2, <1>6, <2>1, <3>1 DEF TypeOK
  <2>3. HandleOK(fork', container')
    BY <1>6, <1>7 DEF HandleOK
  <2>4. UnreadableOnlyIfCut'
    BY <1>1, <1>2, <2>1 DEF UnreadableOnlyIfCut
  <2>. QED  BY <1>1, <1>2, <2>1, <2>2, <2>3, <2>4 DEF SidecarInv
<1>8. CASE fork.held
  <2>1. container' = [container EXCEPT !.bytes = new]
    BY <1>1, <1>8
  <2>2. IsWritten(new, container.bytes, at, cells)
    BY <1>3, <1>4, <1>5, OverwrittenProperties
  <2>. HIDE DEF new, at
  <2>3. container' \in Files /\ container'.table = container.table /\ container'.bytes = new
    BY <1>3, <2>1, <2>2 DEF Files, IsWritten
  <2>4. Readable(container)
    BY <1>2, <1>8 DEF HandleOK
  <2>5. Len(container.bytes) <= Len(new)
    BY <2>2 DEF IsWritten
  <2>6. /\ ContainerOK(container') /\ Readable(container') /\ HandleOK(fork, container')
    BY <1>2, <1>3, <1>4, <1>5, <2>2, <2>3, <2>4, OverRecord
  <2>7. \A t \in Seq(Entry) : Valid(t, Len(container.bytes)) => Valid(t, Len(container'.bytes))
    BY <1>3, <2>3, <2>5, GrownReadable
  <2>8. writer.to \in Seq(Entry) /\ writer.from \in Seq(Entry)
    BY <1>2 DEF TypeOK, Writers
  <2>9. writer.how # "fresh"
    <3>1. container.table # NoTable
      BY <1>3, <2>4, ReadableProperties
    <3>. QED  BY <1>2, <3>1 DEF WriterOK
  <2>10. WriterOK(writer', container')
    BY <1>1, <1>2, <2>3, <2>6, <2>7, <2>8, <2>9 DEF WriterOK
  <2>11. MadeOK(writer', container', scratch')
    BY <1>1, <1>2, <2>9 DEF MadeOK
  <2>12. TypeOK'
    <3>1. forkWrites' \in Nat /\ raced' \in BOOLEAN
      BY <1>1, <1>2, <1>3 DEF TypeOK
    <3>. QED  BY <1>1, <1>2, <1>6, <2>3, <3>1 DEF TypeOK
  <2>13. HandleOK(fork', container')
    BY <1>6, <2>6 DEF HandleOK
  <2>14. UnreadableOnlyIfCut'
    BY <2>6 DEF UnreadableOnlyIfCut, Readable
  <2>. QED  BY <2>6, <2>10, <2>11, <2>12, <2>13, <2>14 DEF SidecarInv
<1>. QED  BY <1>7, <1>8

\* Every step keeps it.
LEMMA SidecarNext == SidecarInv /\ [Next]_vars => SidecarInv'
<1>. SUFFICES ASSUME SidecarInv, [Next]_vars PROVE SidecarInv'
  OBVIOUS
<1>1. CASE \E comment \in 0 .. MaxComment + 1, length \in 0 .. MaxLength + 1 :
             WriteBegin(comment, length)
  BY <1>1, WriteBeginKeeps, SidecarAssumption
<1>2. CASE \E n \in 1 .. MaxLength : ForkWrite(n)
  BY <1>2, ForkWriteKeeps, SidecarAssumption
<1>3. CASE UNCHANGED vars
  BY <1>3 DEF vars, SidecarInv, TypeOK, UnreadableOnlyIfCut
<1>. QED  BY <1>1, <1>2, <1>3, MakeScratchKeeps, CopyEntryKeeps, WriteEntryKeeps,
             WriteHeaderKeeps, RenameKeeps, GivenUpKeeps, HandleKeeps DEF Next

----------------------------------------------------------------------------
(* Theorems.                                                               *)

\* Whatever is at the sidecar's path, and however its writes and its fork's interleave
\* and stop, what holds at every step holds.
THEOREM SidecarAlways == Spec => []SidecarInv
<1>1. Init => SidecarInv
  BY SidecarInit
<1>2. SidecarInv /\ [Next]_vars => SidecarInv'
  BY SidecarNext
<1>. QED  BY <1>1, <1>2, PTL DEF Spec

\* A container that could be read can be read: only its very first write, cut short,
\* leaves one that cannot (write_dbl_info).
THEOREM AlwaysUnreadableOnlyIfCut == Spec => []UnreadableOnlyIfCut
<1>1. SidecarInv => UnreadableOnlyIfCut
  BY DEF SidecarInv
<1>. QED  BY <1>1, SidecarAlways, PTL

\* Whatever length a fork is recorded with, and whatever was written in what order, it
\* is read as bytes that were written as a fork's, or never written (validate_descrs).
THEOREM AlwaysForkBytesAreForks == Spec => []ForkBytesAreForks
<1>1. SidecarInv => ForkBytesAreForks
  <2>. SUFFICES ASSUME SidecarInv, NEW j \in DOMAIN Found(container, "fork")
                PROVE  Found(container, "fork")[j][1] \in {"fork", "zero"}
    BY DEF ForkBytesAreForks
  <2>1. TypeOK /\ ContainerOK(container)
    BY DEF SidecarInv
  <2>2. Readable(container) /\ Has(container.table, "fork")
    <3>1. CASE ~(Readable(container) /\ Has(container.table, "fork"))
      <4>1. Found(container, "fork") = <<>>
        BY <3>1 DEF Found, Readable, Nowhere
      <4>. QED  BY <4>1, EmptySeq
    <3>. QED  BY <3>1
  <2>3. /\ container \in Files /\ container.table \in Seq(Entry) /\ container.bytes \in Seq(ByteSet)
    BY <2>1 DEF TypeOK, Files
  <2>4. PICK k \in DOMAIN container.table :
          container.table[k].id = "fork" /\ LastOf(container.table, "fork") = container.table[k]
    BY <2>2, <2>3, LastOfProperties
  <2>. DEFINE d == container.table[k]
  <2>5. d \in Entry /\ Reached(d, Len(container.bytes)) /\ Apart(container.table)
    BY <2>2, <2>3, EntryProperties, ReadableProperties
  <2>6. [d EXCEPT !.length = ReadLength(d)] = d
    BY <2>4, <2>5 DEF ReadLength, Entry
  <2>7. Found(container, "fork") = Contents(container, d)
    BY <2>2, <2>4, <2>6 DEF Found, Readable
  <2>8. /\ Contents(container, d) \in Seq(ByteSet) /\ Len(Contents(container, d)) = d.length
        /\ \A i \in 1 .. d.length :
             /\ d.offset + i \in 1 .. Len(container.bytes)
             /\ Contents(container, d)[i] = container.bytes[d.offset + i]
    BY <2>3, <2>5, ContentsProperties
  <2>9. j \in 1 .. d.length
    BY <2>7, <2>8
  <2>10. ~NotFork(container.table, d.offset + j)
    BY <2>3, <2>4, <2>5, <2>9, ForkApart
  <2>11. container.bytes[d.offset + j][1] \in {"fork", "zero"}
    <3>1. d.offset + j \in DOMAIN container.bytes
      BY <2>3, <2>8, <2>9
    <3>. QED  BY <2>1, <2>2, <2>10, <3>1 DEF ContainerOK, Parted
  <2>. QED  BY <2>7, <2>8, <2>9, <2>11
<1>. QED  BY <1>1, SidecarAlways, PTL

----------------------------------------------------------------------------
(* What a write has of what it is to keep and to write.                    *)

\* Bytes with cells at an offset.
Holds(bytes, offset, cells) ==
  \A i \in 1 .. Len(cells) : offset + i \in 1 .. Len(bytes) /\ bytes[offset + i] = cells[i]

\* The bytes of an entry that writing metadata keeps: an entry's that is none of its
\* own, the tails of its own, and a fork's that is written by nobody else.
Kept(id, i, changed) ==
  \/ id = "other" \/ (id \in {"dates", "finfo"} /\ i > 1) \/ (id = "fork" /\ ~changed)

\* What a write has written is there.
WrittenOK(w, bytes) ==
  \A k \in DOMAIN w.to :
    WrittenTo(w, k) => Holds(bytes, w.to[k].offset, Payload(w.to[k].id, w.fi))

\* And what it has copied is as it was.
CopiedOK(w, c, s, changed) ==
  \A k \in DOMAIN w.to : CopiedTo(w, k) =>
    \A i \in 1 .. w.to[k].length : Kept(w.to[k].id, i, changed) =>
      s.bytes[w.to[k].offset + i] = c.bytes[w.from[k].offset + i]

\* Inductive with SidecarInv.
MovedInv ==
  /\ writer.how = "fresh" => WrittenOK(writer, container.bytes)
  /\ writer.how = "rewrite" =>
       WrittenOK(writer, scratch.bytes) /\ CopiedOK(writer, container, scratch, raced)

\* A byte that is not where the cells go.
LEMMA Untouched ==
  ASSUME NEW bytes \in Seq(ByteSet), NEW offset \in Nat, NEW cells \in Seq(ByteSet),
         NEW new, IsWritten(new, bytes, offset, cells)
  PROVE  \A x \in 1 .. Len(bytes) :
           x <= offset \/ offset + Len(cells) < x => x \in 1 .. Len(new) /\ new[x] = bytes[x]
<1>. SUFFICES ASSUME NEW x \in 1 .. Len(bytes), x <= offset \/ offset + Len(cells) < x
              PROVE  x \in 1 .. Len(new) /\ new[x] = bytes[x]
  OBVIOUS
<1>1. Len(bytes) \in Nat /\ Len(new) \in Nat /\ Len(cells) \in Nat /\ Len(bytes) <= Len(new)
  BY DEF IsWritten
<1>2. x \in 1 .. Len(new) /\ x <= Len(bytes) /\ ~(offset < x /\ x <= offset + Len(cells))
  BY <1>1
<1>3. new[x] = IF offset < x /\ x <= offset + Len(cells) THEN cells[x - offset]
               ELSE IF x <= Len(bytes) THEN bytes[x] ELSE Zero
  BY <1>2 DEF IsWritten
<1>. QED  BY <1>2, <1>3, Zenon

\* The cells are where they go.
LEMMA WrittenHolds ==
  ASSUME NEW bytes \in Seq(ByteSet), NEW offset \in Nat, NEW cells \in Seq(ByteSet),
         NEW new, IsWritten(new, bytes, offset, cells)
  PROVE  Holds(new, offset, cells)
<1>. SUFFICES ASSUME NEW i \in 1 .. Len(cells)
              PROVE  offset + i \in 1 .. Len(new) /\ new[offset + i] = cells[i]
  BY DEF Holds
<1>1. Len(new) \in Nat /\ Len(cells) \in Nat /\ offset + Len(cells) <= Len(new)
  <2>1. cells # <<>>
    BY EmptySeq
  <2>. QED  BY <2>1 DEF IsWritten
<1>2. /\ offset + i \in 1 .. Len(new) /\ offset < offset + i /\ offset + i <= offset + Len(cells)
      /\ (offset + i) - offset = i
  BY <1>1
<1>3. new[offset + i] = IF offset < offset + i /\ offset + i <= offset + Len(cells)
                        THEN cells[(offset + i) - offset]
                        ELSE IF offset + i <= Len(bytes) THEN bytes[offset + i] ELSE Zero
  BY <1>2 DEF IsWritten
<1>. QED  BY <1>2, <1>3, Zenon

\* What goes into one entry touches no other, nor what of it lies beyond.
LEMMA OtherEntryUntouched ==
  ASSUME NEW bytes \in Seq(ByteSet), NEW table \in Seq(Entry), Apart(table),
         NEW j \in DOMAIN table, NEW cells \in Seq(ByteSet), Len(cells) <= table[j].length,
         NEW new, IsWritten(new, bytes, table[j].offset, cells)
  PROVE  \A k \in DOMAIN table : \A i \in 1 .. table[k].length :
           (k # j \/ Len(cells) < i) /\ table[k].offset + i \in 1 .. Len(bytes) =>
             /\ table[k].offset + i \in 1 .. Len(new)
             /\ new[table[k].offset + i] = bytes[table[k].offset + i]
<1>. SUFFICES ASSUME NEW k \in DOMAIN table, NEW i \in 1 .. table[k].length, k # j \/ Len(cells) < i,
                     table[k].offset + i \in 1 .. Len(bytes)
              PROVE  /\ table[k].offset + i \in 1 .. Len(new)
                     /\ new[table[k].offset + i] = bytes[table[k].offset + i]
  OBVIOUS
<1>. DEFINE x == table[k].offset + i
            n == Len(cells)
            at == table[j].offset
<1>1. /\ table[k].offset \in Nat /\ table[k].length \in Nat /\ at \in Nat
      /\ table[j].length \in Nat /\ i \in Nat /\ 1 <= i /\ i <= table[k].length
      /\ EndOf(table[j]) = at + table[j].length
      /\ EndOf(table[k]) = table[k].offset + table[k].length
  BY EntryProperties
<1>2. n \in Nat /\ n <= table[j].length
  BY LenProperties
<1>3. x <= at \/ at + n < x => x \in 1 .. Len(new) /\ new[x] = bytes[x]
  <2>1. at \in Nat
    BY <1>1
  <2>. HIDE DEF at, x
  <2>2. IsWritten(new, bytes, at, cells)
    BY DEF at
  <2>3. \A y \in 1 .. Len(bytes) :
          y <= at \/ at + n < y => y \in 1 .. Len(new) /\ new[y] = bytes[y]
    BY <2>1, <2>2, Untouched
  <2>4. x \in 1 .. Len(bytes)
    BY DEF x
  <2>. QED  BY <2>3, <2>4
<1>4. k # j \/ n < i
  OBVIOUS
<1>5. k # j /\ table[j].length > 0 /\ table[k].length > 0 =>
        EndOf(table[j]) <= table[k].offset \/ EndOf(table[k]) <= at
  BY DEF Apart
<1>. HIDE DEF n, at
<1>6. x <= at \/ at + n < x
  <2>1. CASE n = 0
    BY <1>1, <2>1
  <2>2. CASE n # 0 /\ k # j
    <3>1. table[j].length > 0 /\ table[k].length > 0
      BY <1>1, <1>2, <2>2
    <3>2. EndOf(table[j]) <= table[k].offset \/ EndOf(table[k]) <= at
      BY <1>5, <2>2, <3>1
    <3>3. \/ at + table[j].length <= table[k].offset
          \/ table[k].offset + table[k].length <= at
      BY <1>1, <3>2, Zenon
    <3>4. /\ n \in Nat /\ at \in Nat /\ table[j].length \in Nat /\ table[k].length \in Nat
          /\ table[k].offset \in Nat /\ i \in Nat /\ 1 <= i /\ i <= table[k].length
          /\ n <= table[j].length
      BY <1>1, <1>2, Zenon
    <3>5. \A a, b, c, d, e, f \in Nat :
            e <= b /\ 1 <= f /\ f <= d /\ (a + b <= c \/ c + d <= a) => c + f <= a \/ a + e < c + f
      OBVIOUS
    <3>. QED  BY <3>3, <3>4, <3>5, Zenon
  <2>3. CASE n < i /\ k = j
    BY <1>1, <1>2, <2>3 DEF at
  <2>. QED  BY <1>4, <2>1, <2>2, <2>3, Zenon
<1>. QED  BY <1>3, <1>6

\* And what goes into the header touches none.
LEMMA EntryUntouched ==
  ASSUME NEW bytes \in Seq(ByteSet), NEW table \in Seq(Entry), Apart(table),
         NEW new, IsWritten(new, bytes, 0, HeadOf(table))
  PROVE  \A k \in DOMAIN table : \A i \in 1 .. table[k].length :
           table[k].offset + i \in 1 .. Len(bytes) =>
             /\ table[k].offset + i \in 1 .. Len(new)
             /\ new[table[k].offset + i] = bytes[table[k].offset + i]
<1>. SUFFICES ASSUME NEW k \in DOMAIN table, NEW i \in 1 .. table[k].length,
                     table[k].offset + i \in 1 .. Len(bytes)
              PROVE  /\ table[k].offset + i \in 1 .. Len(new)
                     /\ new[table[k].offset + i] = bytes[table[k].offset + i]
  OBVIOUS
<1>1. /\ table[k].offset \in Nat /\ table[k].length \in Nat /\ table[k].length > 0 /\ i >= 1 /\ i \in Nat
      /\ TableEnd(table) \in Nat
  BY EntryProperties
<1>2. TableEnd(table) <= table[k].offset
  BY <1>1 DEF Apart
<1>3. HeadOf(table) \in Seq(ByteSet) /\ Len(HeadOf(table)) = TableEnd(table)
  BY HeadProperties
<1>4. 0 + Len(HeadOf(table)) < table[k].offset + i
  BY <1>1, <1>2, <1>3
<1>5. \A y \in 1 .. Len(bytes) :
        y <= 0 \/ 0 + Len(HeadOf(table)) < y => y \in 1 .. Len(new) /\ new[y] = bytes[y]
  BY <1>3, Untouched
<1>. QED  BY <1>4, <1>5

\* A fork's handle touches nothing that is no fork's.
LEMMA ForkWritten ==
  ASSUME SidecarInv, NEW n \in Nat, ForkWrite(n)
  PROVE  /\ container'.table = container.table /\ Len(container.bytes) <= Len(container'.bytes)
         /\ \A x \in 1 .. Len(container.bytes) :
              NotFork(container.table, x) => container'.bytes[x] = container.bytes[x]
         /\ Readable(container) <=> Readable(container')
         /\ container' = container \/ (writer.how # "fresh" /\ Readable(container))
<1>. DEFINE count == IF n < fork.max - fork.position THEN n ELSE fork.max - fork.position
            at == fork.start + fork.position
            cells == [k \in 1 .. count |-> Byte("fork", forkWrites + 1, k)]
            new == Overwritten(container.bytes, at, cells)
<1>1. /\ fork.position < fork.max
      /\ container' = IF ~fork.held THEN container ELSE [container EXCEPT !.bytes = new]
  BY DEF ForkWrite
<1>2. /\ TypeOK /\ HandleOK(fork, container) /\ WriterOK(writer, container)
  BY DEF SidecarInv
<1>3. /\ container \in Files /\ container.bytes \in Seq(ByteSet) /\ Len(container.bytes) \in Nat
      /\ forkWrites \in Nat /\ fork.position \in Nat /\ fork.max \in Nat /\ fork.start \in Nat
  BY <1>2 DEF TypeOK, Files, Handles
<1>4. count \in Nat /\ at \in Nat /\ at + count <= fork.start + fork.max /\ fork.start <= at
  BY <1>1, <1>3
<1>5. cells \in Seq(ByteSet) /\ Len(cells) = count
  <2>1. \A k \in 1 .. count : Byte("fork", forkWrites + 1, k) \in ByteSet
    BY <1>3, <1>4 DEF Byte, ByteSet, Kinds, Ids
  <2>. HIDE DEF count
  <2>. QED  BY <1>4, <2>1
<1>. HIDE DEF count, at, cells
<1>6. CASE ~fork.held
  <2>1. container' = container
    BY <1>1, <1>6
  <2>. QED  BY <1>3, <2>1
<1>7. CASE fork.held
  <2>1. container' = [container EXCEPT !.bytes = new]
    BY <1>1, <1>7
  <2>2. IsWritten(new, container.bytes, at, cells)
    BY <1>3, <1>4, <1>5, OverwrittenProperties
  <2>. HIDE DEF new
  <2>3. container' \in Files /\ container'.table = container.table /\ container'.bytes = new
    BY <1>3, <2>1, <2>2 DEF Files, IsWritten
  <2>4. /\ Readable(container)
        /\ \A j \in fork.start + 1 .. fork.start + fork.max : ~NotFork(container.table, j)
    BY <1>2, <1>7 DEF HandleOK
  <2>5. Len(container.bytes) <= Len(new)
    BY <2>2 DEF IsWritten
  <2>6. Readable(container')
    BY <1>3, <2>3, <2>4, <2>5, GrownReadable
  <2>7. ASSUME NEW x \in 1 .. Len(container.bytes), NotFork(container.table, x)
        PROVE  new[x] = container.bytes[x]
    <3>1. ~(x \in fork.start + 1 .. fork.start + fork.max)
      BY <2>4, <2>7
    <3>2. x <= at \/ at + Len(cells) < x
      BY <1>3, <1>4, <1>5, <3>1
    <3>3. \A y \in 1 .. Len(container.bytes) :
            y <= at \/ at + Len(cells) < y => y \in 1 .. Len(new) /\ new[y] = container.bytes[y]
      BY <1>3, <1>4, <1>5, <2>2, Untouched
    <3>. QED  BY <3>2, <3>3
  <2>8. writer.how # "fresh"
    <3>1. container.table # NoTable
      BY <1>3, <2>4, ReadableProperties
    <3>. QED  BY <1>2, <3>1 DEF WriterOK
  <2>. QED  BY <2>3, <2>4, <2>5, <2>6, <2>7, <2>8
<1>. QED  BY <1>6, <1>7

\* An entry that is all there has each of its bytes.
LEMMA PlaceProperties ==
  ASSUME NEW table \in Seq(Entry), NEW k \in DOMAIN table, NEW size \in Nat,
         Reached(table[k], size), NEW i \in 1 .. table[k].length
  PROVE  /\ table[k].offset + i \in 1 .. size
         /\ table[k].id # "fork" => NotFork(table, table[k].offset + i)
<1>1. /\ table[k].offset \in Nat /\ table[k].length \in Nat /\ i \in Nat /\ 1 <= i /\ i <= table[k].length
      /\ EndOf(table[k]) = table[k].offset + table[k].length
  BY EntryProperties
<1>2. EndOf(table[k]) <= size
  BY <1>1 DEF Reached
<1>3. table[k].offset + i \in 1 .. size /\ table[k].offset < table[k].offset + i
      /\ table[k].offset + i <= EndOf(table[k])
  BY <1>1, <1>2
<1>. QED  BY <1>3 DEF NotFork

\* The entries that have been copied, or written, after one more of them has been.
LEMMA OneMore ==
  ASSUME writer \in Writers, writer.next \in DOMAIN writer.to,
         NEW past, \/ writer.at = "copy" /\ past = "entries"
                   \/ writer.at = "entries" /\ past = "header",
         NEW k \in DOMAIN writer.to
  PROVE  /\ CopiedTo(Onward(past), k) => CopiedTo(writer, k) \/ k = writer.next
         /\ WrittenTo(Onward(past), k) =>
              writer.at = "entries" /\ (WrittenTo(writer, k) \/ k = writer.next)
<1>. DEFINE w == Onward(past)
            next == writer.next
<1>1. \/ w.at = writer.at /\ w.next = next + 1
      \/ w.at = past /\ w.next = 1 /\ next = Len(writer.to)
  BY OnwardProperties
<1>2. k \in 1 .. Len(writer.to) /\ next \in 1 .. Len(writer.to) /\ Len(writer.to) \in Nat
  <2>1. writer.to \in Seq(Entry)
    BY DEF Writers
  <2>. QED  BY <2>1, EntryProperties
<1>. HIDE DEF w, next
<1>3. /\ k < next + 1 => k < next \/ k = next
      /\ next = Len(writer.to) => k < next \/ k = next
      /\ ~(k < 1)
  BY <1>2, SMT
<1>4. CopiedTo(w, k) => CopiedTo(writer, k) \/ k = next
  BY <1>1, <1>3 DEF CopiedTo, next
<1>5. WrittenTo(w, k) => writer.at = "entries" /\ (WrittenTo(writer, k) \/ k = next)
  BY <1>1, <1>3 DEF WrittenTo, next
<1>. QED  BY <1>4, <1>5 DEF w, next

\* A write that has come to nothing yet.
LEMMA NothingMoved ==
  ASSUME NEW w \in Writers, w.at \in {"scratch", "copy", "entries"}, w.next = 1,
         w.how = "rewrite" => w.at # "entries",
         NEW c, NEW s, NEW changed
  PROVE  /\ WrittenOK(w, c.bytes) /\ WrittenOK(w, s.bytes)
         /\ w.how = "rewrite" => CopiedOK(w, c, s, changed)
<1>1. \A k \in DOMAIN w.to : ~(k < 1)
  <2>1. w.to \in Seq(Entry)
    BY DEF Writers
  <2>. QED  BY <2>1, EntryProperties
<1>2. \A k \in DOMAIN w.to : ~WrittenTo(w, k) /\ (w.how = "rewrite" => ~CopiedTo(w, k))
  BY <1>1 DEF WrittenTo, CopiedTo
<1>. QED  BY <1>2 DEF WrittenOK, CopiedOK

\* A write that begins, or begins its scratch file, has come to nothing yet.
LEMMA BeginMoves ==
  ASSUME SidecarInv', (\E comment \in Nat, length \in Nat : WriteBegin(comment, length)) \/ MakeScratch,
         SidecarInv
  PROVE  MovedInv'
<1>1. writer' \in Writers
  BY DEF SidecarInv, TypeOK
<1>2. \/ writer' = NoWriter
      \/ /\ writer'.at \in {"scratch", "copy", "entries"} /\ writer'.next = 1
         /\ writer'.how = "rewrite" => writer'.at # "entries"
  <2>1. CASE MakeScratch
    <3>1. writer.next = 1 /\ writer \in Writers /\ writer' = [writer EXCEPT !.at = "copy"]
      BY <2>1 DEF SidecarInv, WriterOK, MakeScratch, TypeOK
    <3>2. writer'.at = "copy" /\ writer'.next = 1
      BY <3>1 DEF Writers
    <3>. QED  BY <3>2
  <2>2. CASE \E comment \in Nat, length \in Nat : WriteBegin(comment, length)
    <3>1. PICK comment \in Nat, length \in Nat : WriteBegin(comment, length)
      BY <2>2
    <3>. DEFINE how == How(container, Info(writes + 1, comment, length))
                at == IF how = "rewrite" THEN "scratch" ELSE "entries"
    <3>2. writer' = NoWriter \/ \E fi, from, to : writer' = Writing(at, how, fi, from, to, 1)
      BY <3>1 DEF WriteBegin
    <3>. HIDE DEF how
    <3>3. \A fi, from, to : /\ Writing(at, how, fi, from, to, 1).at = at
                            /\ Writing(at, how, fi, from, to, 1).how = how
                            /\ Writing(at, how, fi, from, to, 1).next = 1
      BY DEF Writing
    <3>. QED  BY <3>2, <3>3
  <2>. QED  BY <2>1, <2>2
<1>3. CASE writer' = NoWriter
  BY <1>3 DEF MovedInv, NoWriter, Writing
<1>4. CASE writer' # NoWriter
  BY <1>1, <1>2, <1>4, NothingMoved DEF MovedInv
<1>. QED  BY <1>3, <1>4

\* What is copied is what was there, and what was copied before stays.
LEMMA CopyEntryMoves ==
  ASSUME SidecarInv, MovedInv, CopyEntry
  PROVE  MovedInv'
<1>. DEFINE next == writer.next
            from == writer.from[next]
            to == writer.to[next]
            cells == IF to.id = "comment" THEN <<>> ELSE Contents(container, from)
            new == Overwritten(scratch.bytes, to.offset, cells)
<1>1. /\ writer.at = "copy" /\ scratch' = [scratch EXCEPT !.bytes = new]
      /\ writer' = Onward("entries")
      /\ UNCHANGED <<container, fork, writes, forkWrites, cut, raced>>
  BY DEF CopyEntry
<1>2. /\ TypeOK /\ WriterOK(writer, container) /\ MadeOK(writer, container, scratch)
  BY DEF SidecarInv
<1>3. /\ writer.how = "rewrite" /\ next \in DOMAIN writer.to /\ Making(writer, scratch.bytes)
      /\ CopiedOK(writer, container, scratch, raced)
  BY <1>1, <1>2 DEF WriterOK, MadeOK, MovedInv
<1>4. /\ container \in Files /\ scratch \in Files /\ writer \in Writers
      /\ scratch.bytes \in Seq(ByteSet) /\ Len(scratch.bytes) \in Nat
  BY <1>2 DEF TypeOK, Files
<1>5. /\ writer'.how = writer.how /\ writer'.fi = writer.fi
      /\ writer'.from = writer.from /\ writer'.to = writer.to
  BY <1>1, <1>3, <1>4, OnwardProperties
<1>6. /\ writer.from \in Seq(Entry) /\ writer.to \in Seq(Entry)
      /\ DOMAIN writer.from = DOMAIN container.table /\ DOMAIN writer.to = DOMAIN container.table
      /\ Apart(writer.to) /\ Reached(from, Len(container.bytes))
      /\ to.id = from.id /\ (to.id # "comment" => to.length = from.length)
  BY <1>2, <1>3, RewriteProperties
<1>7. /\ to \in Entry /\ from \in Entry /\ to.offset \in Nat /\ to.length \in Nat
  BY <1>3, <1>6, EntryProperties
<1>8. /\ cells \in Seq(ByteSet) /\ Len(cells) \in Nat /\ Len(cells) <= to.length
      /\ to.id # "comment" =>
           /\ Len(cells) = to.length
           /\ \A i \in 1 .. to.length : cells[i] = container.bytes[from.offset + i]
  <2>1. CASE to.id = "comment"
    BY <1>7, <2>1, EmptySeq
  <2>2. CASE to.id # "comment"
    <3>1. cells = Contents(container, from)
      BY <2>2
    <3>. HIDE DEF cells, from, to
    <3>2. /\ cells \in Seq(ByteSet) /\ Len(cells) = from.length
          /\ \A i \in 1 .. from.length : cells[i] = container.bytes[from.offset + i]
      BY <1>4, <1>6, <1>7, <3>1, ContentsProperties
    <3>. QED  BY <1>6, <1>7, <2>2, <3>2
  <2>. QED  BY <2>1, <2>2
<1>9. IsWritten(new, scratch.bytes, to.offset, cells)
  BY <1>4, <1>7, <1>8, OverwrittenProperties
<1>10. Holds(new, to.offset, cells)
  BY <1>4, <1>7, <1>8, <1>9, WrittenHolds
<1>. HIDE DEF cells, new
<1>11. scratch'.bytes = new
  BY <1>1, <1>4 DEF Files
<1>12. \A k \in DOMAIN writer.to : \A i \in 1 .. writer.to[k].length :
         /\ k # next \/ Len(cells) < i
         /\ writer.to[k].offset + i \in 1 .. Len(scratch.bytes)
         => new[writer.to[k].offset + i] = scratch.bytes[writer.to[k].offset + i]
  <2>1. /\ writer.to \in Seq(Entry) /\ Apart(writer.to) /\ next \in DOMAIN writer.to
        /\ cells \in Seq(ByteSet) /\ Len(cells) <= to.length
    BY <1>3, <1>6, <1>8
  <2>. HIDE DEF next
  <2>. QED  BY <1>4, <1>9, <2>1, OtherEntryUntouched
<1>13. ASSUME NEW k \in DOMAIN writer.to, CopiedTo(writer', k), NEW i \in 1 .. writer.to[k].length,
              Kept(writer.to[k].id, i, raced)
       PROVE  new[writer.to[k].offset + i] = container.bytes[writer.from[k].offset + i]
  <2>1. writer.to[k].id # "comment"
    BY <1>13 DEF Kept
  <2>2. CASE k = next
    BY <1>8, <1>10, <2>1, <2>2 DEF Holds
  <2>3. CASE k # next
    <3>1. CopiedTo(writer, k)
      BY <1>1, <1>3, <1>4, <1>13, <2>3, OneMore
    <3>2. MadeTo(writer, k)
      BY <1>3, <2>1, <3>1 DEF MadeTo
    <3>3. writer.to[k].offset + i \in 1 .. Len(scratch.bytes)
      BY <1>3, <1>4, <1>6, <3>2, PlaceProperties DEF Making
    <3>4. new[writer.to[k].offset + i] = scratch.bytes[writer.to[k].offset + i]
      BY <1>12, <2>3, <3>3
    <3>. QED  BY <1>3, <1>13, <3>1, <3>4 DEF CopiedOK
  <2>. QED  BY <2>2, <2>3
<1>14. CopiedOK(writer', container', scratch', raced')
  BY <1>1, <1>5, <1>11, <1>13 DEF CopiedOK
<1>15. WrittenOK(writer', scratch'.bytes)
  <2>1. \A k \in DOMAIN writer.to : ~WrittenTo(writer', k)
    BY <1>1, <1>3, <1>4, OneMore
  <2>. QED  BY <1>5, <2>1 DEF WrittenOK
<1>. QED  BY <1>3, <1>5, <1>14, <1>15 DEF MovedInv

\* What is written is what was to be, and what was written and copied before stays.
LEMMA WriteEntryMoves ==
  ASSUME SidecarInv, MovedInv, WriteEntry
  PROVE  MovedInv'
<1>. DEFINE next == writer.next
            to == writer.to[next]
            cells == Payload(to.id, writer.fi)
            old == Target.bytes
            new == Overwritten(old, to.offset, cells)
            file == [Target EXCEPT !.bytes = new]
<1>1. /\ writer.at = "entries" /\ WriteTarget(file) /\ writer' = Onward("header")
      /\ UNCHANGED <<fork, writes, forkWrites, cut, raced>>
  BY DEF WriteEntry
<1>2. /\ TypeOK /\ WriterOK(writer, container) /\ MadeOK(writer, container, scratch)
  BY DEF SidecarInv
<1>3. next \in DOMAIN writer.to /\ Commented(writer.to, CommentLen(writer.fi))
  BY <1>1, <1>2 DEF WriterOK
<1>4. /\ writer \in Writers /\ Target \in Files /\ old \in Seq(ByteSet) /\ Len(old) \in Nat
      /\ writer.to \in Seq(Entry) /\ writer.fi.write \in Nat /\ writer.fi.comment \in Nat
  <2>1. writer \in Writers /\ Target \in Files
    BY <1>2 DEF TypeOK, Target
  <2>2. old \in Seq(ByteSet)
    BY <2>1 DEF Files
  <2>3. writer.to \in Seq(Entry) /\ writer.fi.write \in Nat /\ writer.fi.comment \in Nat
    BY <2>1 DEF Writers
  <2>. QED  BY <2>1, <2>2, <2>3, LenProperties
<1>5. /\ writer'.how = writer.how /\ writer'.fi = writer.fi
      /\ writer'.from = writer.from /\ writer'.to = writer.to
  BY <1>1, <1>3, <1>4, OnwardProperties
<1>6. SUFFICES ASSUME writer.how \in {"fresh", "rewrite"} PROVE MovedInv'
  BY <1>5 DEF MovedInv
<1>7. Making(writer, old) /\ WrittenOK(writer, old) /\ Apart(writer.to)
  BY <1>1, <1>2, <1>6 DEF MadeOK, Target, MovedInv, Making
<1>8. \A k \in DOMAIN writer.to :
        /\ Payload(writer.to[k].id, writer.fi) \in Seq(ByteSet)
        /\ Len(Payload(writer.to[k].id, writer.fi)) \in Nat
        /\ Len(Payload(writer.to[k].id, writer.fi)) <= writer.to[k].length
        /\ writer.to[k].id \in {"dates", "finfo"} => Len(Payload(writer.to[k].id, writer.fi)) = 1
        /\ writer.to[k].id \notin {"comment", "dates", "finfo"} =>
             Len(Payload(writer.to[k].id, writer.fi)) = 0
        /\ writer.to[k].offset \in Nat /\ writer.to[k].length \in Nat
  <2>. SUFFICES ASSUME NEW k \in DOMAIN writer.to
                PROVE  /\ Payload(writer.to[k].id, writer.fi) \in Seq(ByteSet)
                       /\ Len(Payload(writer.to[k].id, writer.fi)) \in Nat
                       /\ Len(Payload(writer.to[k].id, writer.fi)) <= writer.to[k].length
                       /\ writer.to[k].id \in {"dates", "finfo"} =>
                            Len(Payload(writer.to[k].id, writer.fi)) = 1
                       /\ writer.to[k].id \notin {"comment", "dates", "finfo"} =>
                            Len(Payload(writer.to[k].id, writer.fi)) = 0
                       /\ writer.to[k].offset \in Nat /\ writer.to[k].length \in Nat
    OBVIOUS
  <2>. DEFINE p == Payload(writer.to[k].id, writer.fi)
              id == writer.to[k].id
  <2>1. /\ p \in Seq(ByteSet) /\ Len(p) <= writer.to[k].length
        /\ Len(p) = IF id = "comment" THEN writer.to[k].length
                    ELSE IF id \in {"dates", "finfo"} THEN 1 ELSE 0
    BY <1>3, <1>4, <1>7, PayloadProperties
  <2>2. writer.to[k].offset \in Nat /\ writer.to[k].length \in Nat
    BY <1>4, EntryProperties
  <2>. HIDE DEF p, id
  <2>3. Len(p) \in Nat
    BY <2>1, LenProperties
  <2>4. /\ id \in {"dates", "finfo"} => Len(p) = 1
        /\ id \notin {"comment", "dates", "finfo"} => Len(p) = 0
    BY <2>1
  <2>. QED  BY <2>1, <2>2, <2>3, <2>4 DEF p, id
<1>9. cells \in Seq(ByteSet) /\ Len(cells) <= to.length /\ to.offset \in Nat
  BY <1>3, <1>8
<1>10. IsWritten(new, old, to.offset, cells)
  BY <1>4, <1>9, OverwrittenProperties
<1>11. Holds(new, to.offset, cells)
  BY <1>4, <1>9, <1>10, WrittenHolds
<1>12. \A k \in DOMAIN writer.to : \A i \in 1 .. writer.to[k].length :
         (k # next \/ Len(cells) < i) /\ writer.to[k].offset + i \in 1 .. Len(old) =>
           /\ writer.to[k].offset + i \in 1 .. Len(new)
           /\ new[writer.to[k].offset + i] = old[writer.to[k].offset + i]
  <2>1. /\ writer.to \in Seq(Entry) /\ Apart(writer.to) /\ next \in DOMAIN writer.to
        /\ cells \in Seq(ByteSet) /\ Len(cells) <= to.length /\ old \in Seq(ByteSet)
    BY <1>3, <1>4, <1>7, <1>9
  <2>. HIDE DEF next, cells, new, old
  <2>2. IsWritten(new, old, writer.to[next].offset, cells) /\ Len(cells) <= writer.to[next].length
    BY <1>10, <2>1
  <2>. HIDE DEF to
  <2>. QED  BY <2>1, <2>2, OtherEntryUntouched
<1>13. file.bytes = new
  BY <1>4 DEF Files
<1>14. WrittenOK(writer', new)
  <2>. SUFFICES ASSUME NEW k \in DOMAIN writer.to, WrittenTo(writer', k)
                PROVE  Holds(new, writer.to[k].offset, Payload(writer.to[k].id, writer.fi))
    BY <1>5 DEF WrittenOK
  <2>1. CASE k = next
    BY <1>11, <2>1
  <2>2. CASE k # next
    <3>. DEFINE p == Payload(writer.to[k].id, writer.fi)
    <3>1. WrittenTo(writer, k)
      BY <1>1, <1>3, <1>4, <2>2, OneMore
    <3>2. \A i \in 1 .. Len(p) : /\ writer.to[k].offset + i \in 1 .. Len(old)
                                 /\ old[writer.to[k].offset + i] = p[i]
      BY <1>7, <3>1 DEF WrittenOK, Holds
    <3>. HIDE DEF p, new, old, next
    <3>3. \A i \in 1 .. Len(p) : i \in 1 .. writer.to[k].length
      BY <1>8 DEF p
    <3>4. \A i \in 1 .. Len(p) : /\ writer.to[k].offset + i \in 1 .. Len(new)
                                 /\ new[writer.to[k].offset + i] = p[i]
      BY <1>12, <2>2, <3>2, <3>3
    <3>. QED  BY <3>4 DEF Holds, p
  <2>. QED  BY <2>1, <2>2
<1>15. CASE writer.how = "fresh"
  <2>1. container' = file
    BY <1>1, <1>15 DEF WriteTarget
  <2>. HIDE DEF new, file
  <2>. QED  BY <1>5, <1>13, <1>14, <1>15, <2>1 DEF MovedInv
<1>16. CASE writer.how = "rewrite"
  <2>1. scratch' = file /\ container' = container /\ old = scratch.bytes
    BY <1>1, <1>16 DEF WriteTarget, Target
  <2>2. CopiedOK(writer, container, scratch, raced)
    BY <1>16 DEF MovedInv
  <2>. HIDE DEF file, new, old
  <2>3. ASSUME NEW k \in DOMAIN writer.to, NEW i \in 1 .. writer.to[k].length,
               Kept(writer.to[k].id, i, raced)
        PROVE  new[writer.to[k].offset + i] = container.bytes[writer.from[k].offset + i]
    <3>1. CopiedTo(writer, k) /\ writer.to[k].id # "comment"
      BY <1>1, <2>3 DEF CopiedTo, Kept
    <3>2. MadeTo(writer, k)
      BY <1>16, <3>1 DEF MadeTo
    <3>3. writer.to[k].offset + i \in 1 .. Len(old)
      BY <1>4, <1>7, <3>2, PlaceProperties DEF Making
    <3>4. k # next \/ Len(cells) < i
      <4>1. CASE k = next
        <5>1. /\ to.id = "other" \/ to.id = "fork" => Len(cells) = 0
              /\ to.id \in {"dates", "finfo"} => Len(cells) = 1
          BY <1>3, <1>8
        <5>2. \/ to.id = "other" \/ to.id = "fork"
              \/ to.id \in {"dates", "finfo"} /\ i > 1
          BY <2>3, <4>1 DEF Kept
        <5>3. i \in Nat /\ i >= 1
          BY <1>8
        <5>. DEFINE n == Len(cells)
                    id == to.id
        <5>4. /\ id = "other" \/ id = "fork" => n = 0
              /\ id \in {"dates", "finfo"} => n = 1
              /\ id = "other" \/ id = "fork" \/ (id \in {"dates", "finfo"} /\ i > 1)
          BY <5>1, <5>2
        <5>. HIDE DEF n, id
        <5>5. n < i
          BY <5>3, <5>4
        <5>. QED  BY <5>5 DEF n
      <4>. QED  BY <4>1
    <3>5. new[writer.to[k].offset + i] = old[writer.to[k].offset + i]
      BY <1>12, <3>3, <3>4
    <3>. QED  BY <2>1, <2>2, <2>3, <3>1, <3>5 DEF CopiedOK
  <2>4. CopiedOK(writer', container', scratch', raced')
    BY <1>1, <1>5, <1>13, <2>1, <2>3 DEF CopiedOK
  <2>. QED  BY <1>5, <1>13, <1>14, <1>16, <2>1, <2>4 DEF MovedInv
<1>. QED  BY <1>6, <1>15, <1>16

\* The header touches nothing that was written or copied.
LEMMA WriteHeaderMoves ==
  ASSUME SidecarInv, MovedInv, WriteHeader
  PROVE  MovedInv'
<1>. DEFINE to == writer.to
            new == Overwritten(scratch.bytes, 0, HeadOf(to))
<1>1. /\ writer.at = "header"
      /\ writer' = IF writer.how = "rewrite" THEN [writer EXCEPT !.at = "rename"] ELSE NoWriter
      /\ writer.how = "rewrite" => container' = container /\ scratch' = File(to, new)
      /\ UNCHANGED <<fork, writes, forkWrites, cut, raced>>
  BY DEF WriteHeader, WriteTarget, Target
<1>2. /\ TypeOK /\ WriterOK(writer, container) /\ MadeOK(writer, container, scratch)
  BY DEF SidecarInv
<1>3. CASE writer.how # "rewrite"
  BY <1>1, <1>3 DEF MovedInv, NoWriter, Writing
<1>4. CASE writer.how = "rewrite"
  <2>1. /\ writer \in Writers /\ writer' = [writer EXCEPT !.at = "rename"] /\ to \in Seq(Entry)
        /\ scratch.bytes \in Seq(ByteSet) /\ Len(scratch.bytes) \in Nat
    <3>1. writer \in Writers /\ scratch \in Files
      BY <1>2 DEF TypeOK
    <3>2. to \in Seq(Entry) /\ scratch.bytes \in Seq(ByteSet)
      BY <3>1 DEF Files, Writers
    <3>. QED  BY <1>1, <1>4, <3>1, <3>2, LenProperties
  <2>2. /\ writer'.how = "rewrite" /\ writer'.at = "rename" /\ writer'.fi = writer.fi
        /\ writer'.from = writer.from /\ writer'.to = to
    BY <1>4, <2>1 DEF Writers
  <2>3. /\ Making(writer, scratch.bytes) /\ WrittenOK(writer, scratch.bytes)
        /\ CopiedOK(writer, container, scratch, raced) /\ Apart(to)
        /\ Commented(to, CommentLen(writer.fi))
    BY <1>1, <1>2, <1>4 DEF MadeOK, MovedInv, Making, WriterOK
  <2>4. \A k \in DOMAIN to : WrittenTo(writer, k) /\ CopiedTo(writer, k) /\ MadeTo(writer, k)
    BY <1>1 DEF MadeTo, WrittenTo, CopiedTo
  <2>5. IsWritten(new, scratch.bytes, 0, HeadOf(to))
    BY <2>1, HeadProperties, OverwrittenProperties
  <2>6. scratch'.bytes = new
    BY <1>1, <1>4 DEF File
  <2>. HIDE DEF new, to
  <2>7. \A k \in DOMAIN to : \A i \in 1 .. to[k].length :
          to[k].offset + i \in 1 .. Len(scratch.bytes) =>
            to[k].offset + i \in 1 .. Len(new) /\ new[to[k].offset + i] = scratch.bytes[to[k].offset + i]
    BY <2>1, <2>3, <2>5, EntryUntouched
  <2>8. \A k \in DOMAIN to : \A i \in 1 .. to[k].length :
          /\ to[k].offset + i \in 1 .. Len(new)
          /\ new[to[k].offset + i] = scratch.bytes[to[k].offset + i]
    <3>1. \A k \in DOMAIN to : Reached(to[k], Len(scratch.bytes))
      BY <2>3, <2>4 DEF Making, to
    <3>2. \A k \in DOMAIN to : \A i \in 1 .. to[k].length : to[k].offset + i \in 1 .. Len(scratch.bytes)
      BY <2>1, <3>1, PlaceProperties
    <3>. QED  BY <2>7, <3>2
  <2>9. WrittenOK(writer', new)
    <3>. SUFFICES ASSUME NEW k \in DOMAIN to
                  PROVE  Holds(new, to[k].offset, Payload(to[k].id, writer.fi))
      BY <2>2 DEF WrittenOK
    <3>. DEFINE p == Payload(to[k].id, writer.fi)
    <3>1. Holds(scratch.bytes, to[k].offset, p)
      BY <2>3, <2>4 DEF WrittenOK, to
    <3>2. /\ Len(p) \in Nat /\ Len(p) <= to[k].length /\ to[k].length \in Nat
      <4>1. writer.fi.write \in Nat /\ writer.fi.comment \in Nat
        BY <2>1 DEF Writers
      <4>2. p \in Seq(ByteSet) /\ Len(p) <= to[k].length
        BY <2>1, <2>3, <4>1, PayloadProperties
      <4>3. to[k].length \in Nat
        BY <2>1, EntryProperties
      <4>. HIDE DEF p
      <4>. QED  BY <4>2, <4>3, LenProperties
    <3>. HIDE DEF p
    <3>3. \A i \in 1 .. Len(p) : i \in 1 .. to[k].length
      BY <3>2
    <3>4. \A i \in 1 .. Len(p) : to[k].offset + i \in 1 .. Len(new) /\ new[to[k].offset + i] = p[i]
      BY <2>8, <3>1, <3>3 DEF Holds
    <3>. QED  BY <3>4 DEF Holds, p
  <2>10. CopiedOK(writer', container', scratch', raced')
    <3>1. \A k \in DOMAIN to : \A i \in 1 .. to[k].length : Kept(to[k].id, i, raced) =>
            scratch.bytes[to[k].offset + i] = container.bytes[writer.from[k].offset + i]
      BY <2>3, <2>4 DEF CopiedOK, to
    <3>. QED  BY <1>1, <1>4, <2>2, <2>6, <2>8, <3>1 DEF CopiedOK
  <2>. QED  BY <2>2, <2>6, <2>9, <2>10 DEF MovedInv
<1>. QED  BY <1>3, <1>4

\* A fork that is written to while it is moved may be moved as it was: raced says so.
LEMMA ForkWriteMoves ==
  ASSUME SidecarInv, MovedInv, NEW n \in Nat, ForkWrite(n)
  PROVE  MovedInv'
<1>1. /\ writer' = writer /\ scratch' = scratch /\ raced' = (raced \/ writer.how = "rewrite")
  BY DEF ForkWrite
<1>2. /\ container'.table = container.table
      /\ \A x \in 1 .. Len(container.bytes) :
           NotFork(container.table, x) => container'.bytes[x] = container.bytes[x]
      /\ writer.how = "fresh" => container' = container
  BY ForkWritten
<1>3. CASE writer.how # "rewrite"
  BY <1>1, <1>2, <1>3 DEF MovedInv
<1>4. CASE writer.how = "rewrite"
  <2>. DEFINE from == writer.from
              to == writer.to
              table == container.table
  <2>1. /\ TypeOK /\ WriterOK(writer, container)
        /\ WrittenOK(writer, scratch.bytes) /\ CopiedOK(writer, container, scratch, raced)
    BY <1>4 DEF SidecarInv, MovedInv
  <2>2. /\ from \in Seq(Entry) /\ to \in Seq(Entry) /\ table \in Seq(Entry)
        /\ DOMAIN from = DOMAIN table /\ DOMAIN to = DOMAIN table
        /\ SameButForks(table, from)
        /\ \A j \in DOMAIN to :
             /\ Reached(from[j], Len(container.bytes))
             /\ to[j].id = from[j].id
             /\ to[j].id # "comment" => to[j].length = from[j].length
    BY <1>4, <2>1, RewriteProperties
  <2>3. Len(container.bytes) \in Nat
    BY <2>1 DEF TypeOK, Files
  <2>. HIDE DEF from, to, table
  <2>4. ASSUME NEW k \in DOMAIN to, CopiedTo(writer, k), NEW i \in 1 .. to[k].length,
               Kept(to[k].id, i, TRUE)
        PROVE  scratch.bytes[to[k].offset + i] = container'.bytes[from[k].offset + i]
    <3>1. /\ to[k].id # "fork" /\ to[k].id # "comment" /\ Kept(to[k].id, i, raced)
      BY <2>4 DEF Kept
    <3>2. i \in 1 .. from[k].length /\ from[k].id # "fork"
      BY <2>2, <3>1
    <3>3. from[k].offset + i \in 1 .. Len(container.bytes) /\ NotFork(from, from[k].offset + i)
      BY <2>2, <2>3, <3>2, PlaceProperties
    <3>4. NotFork(table, from[k].offset + i)
      BY <2>2, <3>3, SameNotFork
    <3>5. container'.bytes[from[k].offset + i] = container.bytes[from[k].offset + i]
      BY <1>2, <3>3, <3>4 DEF table
    <3>6. scratch.bytes[to[k].offset + i] = container.bytes[from[k].offset + i]
      BY <2>1, <2>4, <3>1 DEF CopiedOK, to, from
    <3>. QED  BY <3>5, <3>6
  <2>5. CopiedOK(writer', container', scratch', raced')
    BY <1>1, <1>4, <2>4 DEF CopiedOK, to, from
  <2>. QED  BY <1>1, <1>4, <2>1, <2>5 DEF MovedInv
<1>. QED  BY <1>3, <1>4

\* Every step keeps what has been written and moved.
LEMMA MovedNext == SidecarInv /\ MovedInv /\ [Next]_vars => MovedInv'
<1>. SUFFICES ASSUME SidecarInv, MovedInv, [Next]_vars PROVE MovedInv'
  OBVIOUS
<1>0. SidecarInv'
  BY SidecarNext
<1>1. CASE \E comment \in 0 .. MaxComment + 1, length \in 0 .. MaxLength + 1 :
             WriteBegin(comment, length)
  BY <1>0, <1>1, BeginMoves, SidecarAssumption
<1>2. CASE \E n \in 1 .. MaxLength : ForkWrite(n)
  BY <1>2, ForkWriteMoves, SidecarAssumption
<1>3. CASE Rename \/ Fail \/ Stop
  BY <1>3 DEF Rename, Fail, Stop, NoWriter, Writing, MovedInv
<1>4. CASE \/ ForkOpen \/ ForkClose \/ UNCHANGED vars \/ \E to \in 0 .. MaxLength : ForkSeek(to)
  <2>1. UNCHANGED <<container, writer, scratch, raced>>
    BY <1>4 DEF ForkOpen, ForkClose, ForkSeek, vars
  <2>. QED  BY <2>1 DEF MovedInv
<1>5. CASE MakeScratch
  BY <1>0, <1>5, BeginMoves
<1>. QED  BY <1>1, <1>2, <1>3, <1>4, <1>5, CopyEntryMoves, WriteEntryMoves, WriteHeaderMoves DEF Next

\* Whatever is written, moved and stopped, what has been is as it was to be.
THEOREM MovedAlways == Spec => [](SidecarInv /\ MovedInv)
<1>1. Init => SidecarInv /\ MovedInv
  BY SidecarInit DEF Init, MovedInv, NoWriter, Writing
<1>2. SidecarInv /\ MovedInv /\ [Next]_vars => (SidecarInv /\ MovedInv)'
  BY SidecarNext, MovedNext
<1>. QED  BY <1>1, <1>2, PTL DEF Spec

----------------------------------------------------------------------------
(* What a reader finds of it.                                              *)

\* What read_dbl_info() finds of an entry: as much as it reads of its bytes.
FoundIs(file, id, k) ==
  /\ ReadLength(file.table[k]) \in Nat /\ ReadLength(file.table[k]) <= file.table[k].length
  /\ Found(file, id) \in Seq(ByteSet) /\ Len(Found(file, id)) = ReadLength(file.table[k])
  /\ \A i \in 1 .. ReadLength(file.table[k]) :
       /\ i \in 1 .. file.table[k].length
       /\ file.table[k].offset + i \in 1 .. Len(file.bytes)
       /\ Found(file, id)[i] = file.bytes[file.table[k].offset + i]

\* Found() is just that, of the last entry of the kind in a record that can be read.
LEMMA FoundProperties ==
  ASSUME NEW file \in Files, Readable(file), NEW id, NEW k \in DOMAIN file.table,
         file.table[k].id = id, LastOf(file.table, id) = file.table[k]
  PROVE  FoundIs(file, id, k)
<1>. DEFINE e == file.table[k]
            d == [e EXCEPT !.length = ReadLength(e)]
<1>1. file.table \in Seq(Entry) /\ file.bytes \in Seq(ByteSet) /\ Len(file.bytes) \in Nat
  BY LenProperties DEF Files
<1>2. /\ e \in Entry /\ e.offset \in Nat /\ e.length \in Nat
      /\ EndOf(e) = e.offset + e.length /\ Reached(e, Len(file.bytes))
      /\ e.id \in {"dates", "finfo"} => e.length >= 1
  <2>1. Apart(file.table) /\ Reached(e, Len(file.bytes))
    BY ReadableProperties
  <2>. QED  BY <1>1, <2>1, EntryProperties DEF Apart
<1>. HIDE DEF e
<1>3. ReadLength(e) \in Nat /\ ReadLength(e) <= e.length
  <2>1. CASE e.id = "comment"
    BY <1>2, <2>1, SidecarAssumption DEF ReadLength
  <2>2. CASE e.id \in {"dates", "finfo"}
    BY <1>2, <2>2 DEF ReadLength
  <2>3. CASE e.id \notin {"comment", "dates", "finfo"}
    BY <1>2, <2>3 DEF ReadLength
  <2>. QED  BY <2>1, <2>2, <2>3
<1>4. d \in Entry /\ d.offset = e.offset /\ d.length = ReadLength(e)
  BY <1>2, <1>3 DEF Entry
<1>. HIDE DEF d
<1>5. Reached(d, Len(file.bytes))
  <2>1. EndOf(d) = e.offset + ReadLength(e)
    BY <1>4 DEF EndOf
  <2>. QED  BY <1>1, <1>2, <1>3, <1>4, <2>1 DEF Reached
<1>6. Has(file.table, id)
  BY DEF Has
<1>7. Found(file, id) = Contents(file, d)
  BY <1>6 DEF Found, Readable, d, e
<1>8. /\ Contents(file, d) \in Seq(ByteSet) /\ Len(Contents(file, d)) = d.length
      /\ \A i \in 1 .. d.length : /\ d.offset + i \in 1 .. Len(file.bytes)
                                  /\ Contents(file, d)[i] = file.bytes[d.offset + i]
  BY <1>4, <1>5, ContentsProperties
<1>9. \A i \in 1 .. ReadLength(e) : i \in 1 .. e.length
  BY <1>2, <1>3
<1>. QED  BY <1>3, <1>4, <1>7, <1>8, <1>9 DEF FoundIs, e

\* And of one that is not there, nothing.
LEMMA FoundSeq ==
  ASSUME NEW file \in Files, NEW id
  PROVE  Found(file, id) \in Seq(ByteSet)
<1>1. CASE Readable(file) /\ Has(file.table, id)
  <2>1. file.table \in Seq(Entry)
    BY DEF Files
  <2>2. PICK k \in DOMAIN file.table :
          file.table[k].id = id /\ LastOf(file.table, id) = file.table[k]
    BY <1>1, <2>1, LastOfProperties
  <2>. QED  BY <1>1, <2>2, FoundProperties DEF FoundIs
<1>2. CASE ~(Readable(file) /\ Has(file.table, id))
  BY <1>2, EmptySeq DEF Found, Readable, Nowhere
<1>. QED  BY <1>1, <1>2

\* In tables with the same entries in the same places, the same one is the last of a kind.
LEMMA SameLast ==
  ASSUME NEW t \in Seq(Entry), NEW u \in Seq(Entry), Len(u) = Len(t),
         \A j \in DOMAIN t : u[j].id = t[j].id, NEW id
  PROVE  /\ DOMAIN u = DOMAIN t /\ (Has(u, id) <=> Has(t, id))
         /\ Has(t, id) => \E k \in DOMAIN t :
              t[k].id = id /\ LastOf(t, id) = t[k] /\ u[k].id = id /\ LastOf(u, id) = u[k]
<1>1. DOMAIN u = DOMAIN t
  BY EntryProperties
<1>2. Has(u, id) <=> Has(t, id)
  BY <1>1 DEF Has
<1>3. ASSUME Has(t, id)
      PROVE  \E k \in DOMAIN t :
               t[k].id = id /\ LastOf(t, id) = t[k] /\ u[k].id = id /\ LastOf(u, id) = u[k]
  <2>1. PICK k \in DOMAIN t : /\ t[k].id = id /\ LastOf(t, id) = t[k]
                              /\ \A v \in Seq(Entry) :
                                   /\ Len(v) = Len(t)
                                   /\ \A j \in DOMAIN t : v[j].id = t[j].id
                                   => LastOf(v, id) = v[k]
    BY <1>3, LastOfProperties
  <2>. QED  BY <2>1
<1>. QED  BY <1>1, <1>2, <1>3

\* Sequences that agree as far as n have the same first n.
LEMMA SamePrefix ==
  ASSUME NEW S, NEW s \in Seq(S), NEW t \in Seq(S), NEW n \in Nat, n <= Len(s), n <= Len(t),
         \A i \in 1 .. n : s[i] = t[i]
  PROVE  SubSeq(s, 1, n) = SubSeq(t, 1, n)
<1>1. Len(s) \in Nat /\ Len(t) \in Nat /\ 1 \in Int /\ n \in Int /\ n - 1 + 1 = n
      /\ (IF 1 <= n THEN n - 1 + 1 ELSE 0) = n
      /\ \A i \in 1 .. n : 1 + i - 1 = i
  BY LenProperties
<1>2. \A i \in 1 .. n : s[i] \in S /\ t[i] \in S
  <2>1. \A i \in 1 .. n : i \in 1 .. Len(s) /\ i \in 1 .. Len(t)
    BY <1>1
  <2>. QED  BY <2>1
<1>3. /\ SubSeq(s, 1, n) \in Seq(S) /\ Len(SubSeq(s, 1, n)) = n
      /\ \A i \in 1 .. n : SubSeq(s, 1, n)[i] = s[i]
  BY <1>1, <1>2, SubSeqProperties
<1>4. /\ SubSeq(t, 1, n) \in Seq(S) /\ Len(SubSeq(t, 1, n)) = n
      /\ \A i \in 1 .. n : SubSeq(t, 1, n)[i] = t[i]
  BY <1>1, <1>2, SubSeqProperties
<1>. QED  BY <1>3, <1>4, SeqEqual

\* A record that has carried on what another had: entry for entry, the bytes that are
\* kept of it.
Carried(old, new, changed) ==
  /\ Readable(old) /\ Readable(new) /\ Len(new.table) = Len(old.table)
  /\ \A k \in DOMAIN old.table :
       /\ new.table[k].id = old.table[k].id
       /\ old.table[k].id \in {"dates", "finfo", "other"} =>
            new.table[k].length = old.table[k].length
       /\ \A i \in 1 .. old.table[k].length :
            i <= new.table[k].length /\ Kept(old.table[k].id, i, changed) =>
              new.bytes[new.table[k].offset + i] = old.bytes[old.table[k].offset + i]

\* The fork of one is the other's as far as both go.
LEMMA CarriedFork ==
  ASSUME NEW old \in Files, NEW new \in Files, Carried(old, new, FALSE)
  PROVE  LET was == Found(old, "fork")
             is == Found(new, "fork")
             both == IF Len(was) < Len(is) THEN Len(was) ELSE Len(is)
         IN  SubSeq(is, 1, both) = SubSeq(was, 1, both)
<1>. DEFINE was == Found(old, "fork")
            is == Found(new, "fork")
            both == IF Len(was) < Len(is) THEN Len(was) ELSE Len(is)
<1>1. /\ old.table \in Seq(Entry) /\ new.table \in Seq(Entry)
      /\ Readable(old) /\ Readable(new) /\ Len(new.table) = Len(old.table)
      /\ \A k \in DOMAIN old.table : new.table[k].id = old.table[k].id
  BY DEF Files, Carried
<1>2. /\ DOMAIN new.table = DOMAIN old.table
      /\ Has(new.table, "fork") <=> Has(old.table, "fork")
      /\ Has(old.table, "fork") => \E k \in DOMAIN old.table :
           /\ old.table[k].id = "fork" /\ LastOf(old.table, "fork") = old.table[k]
           /\ new.table[k].id = "fork" /\ LastOf(new.table, "fork") = new.table[k]
  <2>. DEFINE t == old.table
              u == new.table
  <2>1. t \in Seq(Entry) /\ u \in Seq(Entry) /\ Len(u) = Len(t) /\ \A k \in DOMAIN t : u[k].id = t[k].id
    BY <1>1
  <2>. HIDE DEF t, u
  <2>2. /\ DOMAIN u = DOMAIN t /\ (Has(u, "fork") <=> Has(t, "fork"))
        /\ Has(t, "fork") => \E k \in DOMAIN t :
             t[k].id = "fork" /\ LastOf(t, "fork") = t[k] /\ u[k].id = "fork" /\ LastOf(u, "fork") = u[k]
    BY <2>1, SameLast
  <2>. QED  BY <2>2, Zenon DEF t, u
<1>3. CASE ~Has(old.table, "fork")
  BY <1>2, <1>3 DEF Found, Nowhere
<1>4. CASE Has(old.table, "fork")
  <2>1. PICK k \in DOMAIN old.table :
          /\ old.table[k].id = "fork" /\ LastOf(old.table, "fork") = old.table[k]
          /\ new.table[k].id = "fork" /\ LastOf(new.table, "fork") = new.table[k]
    BY <1>2, <1>4
  <2>2. FoundIs(old, "fork", k) /\ FoundIs(new, "fork", k)
    BY <1>1, <1>2, <2>1, FoundProperties
  <2>. DEFINE a == ReadLength(old.table[k])
              b == ReadLength(new.table[k])
  <2>3. /\ a \in Nat /\ b \in Nat /\ Len(was) = a /\ Len(is) = b
        /\ was \in Seq(ByteSet) /\ is \in Seq(ByteSet)
        /\ \A i \in 1 .. a : /\ i \in 1 .. old.table[k].length
                             /\ was[i] = old.bytes[old.table[k].offset + i]
        /\ \A i \in 1 .. b : /\ i \in 1 .. new.table[k].length
                             /\ is[i] = new.bytes[new.table[k].offset + i]
    BY <2>2 DEF FoundIs
  <2>. HIDE DEF a, b, was, is
  <2>4. /\ both \in Nat /\ both <= Len(was) /\ both <= Len(is)
        /\ \A i \in 1 .. both : i \in 1 .. a /\ i \in 1 .. b
    BY <2>3
  <2>. HIDE DEF both
  <2>5. ASSUME NEW i \in 1 .. both PROVE is[i] = was[i]
    <3>1. i \in 1 .. old.table[k].length /\ i <= new.table[k].length
      <4>1. i \in 1 .. old.table[k].length /\ i \in 1 .. new.table[k].length
        BY <2>3, <2>4
      <4>2. new.table[k].length \in Nat
        BY <1>1, <1>2, EntryProperties
      <4>. QED  BY <4>1, <4>2
    <3>2. new.bytes[new.table[k].offset + i] = old.bytes[old.table[k].offset + i]
      BY <2>1, <3>1 DEF Carried, Kept
    <3>. QED  BY <2>3, <2>4, <3>2
  <2>6. SubSeq(is, 1, both) = SubSeq(was, 1, both)
    BY <2>3, <2>4, <2>5, SamePrefix
  <2>. QED  BY <2>6 DEF both, is, was
<1>. QED  BY <1>3, <1>4

\* The entries that have something hxhfs does not own, what of one that is, and how
\* much of it is hxhfs's.
Theirs(table) ==
  {k \in DOMAIN table :
     table[k].id = "other" \/ (table[k].id \in {"dates", "finfo"} /\ table[k].length > 1)}
Their(d) == IF d.id = "other" THEN d ELSE [d EXCEPT !.offset = @ + 1, !.length = @ - 1]
Own(d) == IF d.id = "other" THEN 0 ELSE 1

\* What is not owned of a record is what its table says is theirs.
LEMMA NotOwnedEntries ==
  ASSUME NEW file, Readable(file)
  PROVE  NotOwned(file) =
           {<<file.table[k].id, Contents(file, Their(file.table[k]))>> : k \in Theirs(file.table)}
<1>. DEFINE t == file.table
            of(d) == d.id = "other" \/ (d.id \in {"dates", "finfo"} /\ d.length > 1)
<1>1. NotOwned(file) = {<<d.id, Contents(file, Their(d))>> : d \in {d \in ToSet(t) : of(d)}}
  BY Zenon DEF NotOwned, Readable, Their
<1>2. {d \in ToSet(t) : of(d)} = {t[k] : k \in Theirs(t)}
  BY DEF ToSet, Theirs
<1>. QED  BY <1>1, <1>2

\* What is theirs of an entry is the entry from behind what is owned of it.
LEMMA TheirProperties ==
  ASSUME NEW file \in Files, Readable(file), NEW k \in Theirs(file.table)
  PROVE  /\ Own(file.table[k]) \in Nat /\ file.table[k].offset \in Nat
         /\ file.table[k].length \in Nat /\ Own(file.table[k]) <= file.table[k].length
         /\ Contents(file, Their(file.table[k])) \in Seq(ByteSet)
         /\ Len(Contents(file, Their(file.table[k]))) = file.table[k].length - Own(file.table[k])
         /\ \A i \in 1 .. file.table[k].length - Own(file.table[k]) :
              Contents(file, Their(file.table[k]))[i] =
                file.bytes[file.table[k].offset + (Own(file.table[k]) + i)]
<1>. DEFINE e == file.table[k]
            d == Their(e)
            own == Own(e)
<1>1. file.table \in Seq(Entry) /\ k \in DOMAIN file.table /\ Len(file.bytes) \in Nat
  BY LenProperties DEF Files, Theirs
<1>2. /\ e \in Entry /\ e.offset \in Nat /\ e.length \in Nat
      /\ EndOf(e) = e.offset + e.length /\ Reached(e, Len(file.bytes))
      /\ e.id = "other" \/ e.length > 1
  <2>1. Reached(e, Len(file.bytes))
    BY <1>1, ReadableProperties
  <2>2. e.id = "other" \/ e.length > 1
    BY DEF Theirs
  <2>. QED  BY <1>1, <2>1, <2>2, EntryProperties
<1>. HIDE DEF e
<1>3. /\ own \in Nat /\ own <= e.length
      /\ d \in Entry /\ d.offset = e.offset + own /\ d.length = e.length - own
  <2>1. CASE e.id = "other"
    BY <1>2, <2>1 DEF Own, Their
  <2>2. CASE e.id # "other"
    <3>1. d = [e EXCEPT !.offset = e.offset + 1, !.length = e.length - 1] /\ own = 1
      BY <2>2 DEF Their, Own
    <3>2. e.length - 1 \in Nat /\ e.offset + 1 \in Nat /\ 1 <= e.length
      BY <1>2, <2>2
    <3>. HIDE DEF d, own
    <3>3. d \in Entry /\ d.offset = e.offset + 1 /\ d.length = e.length - 1
      BY <1>2, <3>1, <3>2 DEF Entry
    <3>. QED  BY <3>1, <3>2, <3>3
  <2>. QED  BY <2>1, <2>2
<1>. HIDE DEF d, own
<1>4. Reached(d, Len(file.bytes))
  <2>1. EndOf(d) = (e.offset + own) + (e.length - own)
    BY <1>3 DEF EndOf
  <2>2. EndOf(d) = EndOf(e)
    BY <1>2, <1>3, <2>1
  <2>. QED  BY <1>2, <1>3, <2>2 DEF Reached
<1>5. /\ Contents(file, d) \in Seq(ByteSet) /\ Len(Contents(file, d)) = d.length
      /\ \A i \in 1 .. d.length : Contents(file, d)[i] = file.bytes[d.offset + i]
  BY <1>3, <1>4, ContentsProperties
<1>6. \A i \in 1 .. d.length : d.offset + i = e.offset + (own + i)
  BY <1>2, <1>3
<1>. QED  BY <1>2, <1>3, <1>5, <1>6 DEF d, own, e

\* What is not owned of the one is what is not owned of the other.
LEMMA CarriedNotOwned ==
  ASSUME NEW old \in Files, NEW new \in Files, NEW changed, Carried(old, new, changed)
  PROVE  NotOwned(new) = NotOwned(old)
<1>. DEFINE t == old.table
            u == new.table
<1>1. /\ t \in Seq(Entry) /\ u \in Seq(Entry) /\ Readable(old) /\ Readable(new) /\ Len(u) = Len(t)
      /\ \A k \in DOMAIN t :
           /\ u[k].id = t[k].id
           /\ t[k].id \in {"dates", "finfo", "other"} => u[k].length = t[k].length
           /\ \A i \in 1 .. t[k].length :
                i <= u[k].length /\ Kept(t[k].id, i, changed) =>
                  new.bytes[u[k].offset + i] = old.bytes[t[k].offset + i]
  BY DEF Carried, Files
<1>2. DOMAIN u = DOMAIN t
  BY <1>1, EntryProperties
<1>3. /\ NotOwned(old) = {<<t[k].id, Contents(old, Their(t[k]))>> : k \in Theirs(t)}
      /\ NotOwned(new) = {<<u[k].id, Contents(new, Their(u[k]))>> : k \in Theirs(u)}
  BY <1>1, NotOwnedEntries
<1>4. Theirs(u) = Theirs(t)
  <2>. HIDE DEF t, u
  <2>. QED  BY <1>1, <1>2 DEF Theirs
<1>5. ASSUME NEW k \in Theirs(t) PROVE Contents(new, Their(u[k])) = Contents(old, Their(t[k]))
  <2>1. k \in DOMAIN t /\ t[k].id \in {"dates", "finfo", "other"}
    BY DEF Theirs
  <2>2. u[k].id = t[k].id /\ u[k].length = t[k].length
    BY <1>1, <2>1
  <2>. DEFINE own == Own(t[k])
              a == Contents(old, Their(t[k]))
              b == Contents(new, Their(u[k]))
              n == t[k].length - own
  <2>3. Own(u[k]) = own
    BY <2>2 DEF Own
  <2>4. /\ own \in Nat /\ t[k].length \in Nat /\ own <= t[k].length
        /\ a \in Seq(ByteSet) /\ Len(a) = n
        /\ \A i \in 1 .. n : a[i] = old.bytes[t[k].offset + (own + i)]
    BY <1>1, TheirProperties
  <2>5. /\ b \in Seq(ByteSet) /\ Len(b) = u[k].length - Own(u[k])
        /\ \A i \in 1 .. u[k].length - Own(u[k]) : b[i] = new.bytes[u[k].offset + (Own(u[k]) + i)]
    BY <1>1, <1>4, TheirProperties
  <2>6. /\ b \in Seq(ByteSet) /\ Len(b) = n
        /\ \A i \in 1 .. n : b[i] = new.bytes[u[k].offset + (own + i)]
    BY <2>2, <2>3, <2>5
  <2>7. own = 0 \/ own = 1
    BY DEF Own
  <2>8. t[k].id = "other" \/ own = 1
    BY DEF Own
  <2>. HIDE DEF own, a, b, t, u
  <2>9. ASSUME NEW i \in 1 .. n PROVE a[i] = b[i]
    <3>1. own + i \in 1 .. t[k].length /\ own + i <= t[k].length /\ (own = 1 => own + i > 1)
      BY <2>4, <2>7
    <3>2. Kept(t[k].id, own + i, changed)
      BY <2>1, <2>8, <3>1 DEF Kept
    <3>3. own + i <= u[k].length
      BY <2>2, <3>1
    <3>4. new.bytes[u[k].offset + (own + i)] = old.bytes[t[k].offset + (own + i)]
      BY <1>1, <2>1, <3>1, <3>2, <3>3
    <3>. QED  BY <2>4, <2>6, <3>4
  <2>. HIDE DEF n
  <2>10. a = b
    BY <2>4, <2>6, <2>9, SeqEqual
  <2>. QED  BY <2>10 DEF a, b
<1>6. \A k \in Theirs(t) : u[k].id = t[k].id
  BY <1>1 DEF Theirs
<1>. HIDE DEF t, u
<1>. QED  BY <1>3, <1>4, <1>5, <1>6

----------------------------------------------------------------------------
(* What each write of the container carries on.                            *)

\* An entry that is what it was, and has the bytes it had.
SameEntry(k, old, new) ==
  /\ new.table[k] = old.table[k]
  /\ \A i \in 1 .. old.table[k].length :
       new.bytes[old.table[k].offset + i] = old.bytes[old.table[k].offset + i]

\* A fork's handle writes no entry but forks.
LEMMA ForkWriteCarries ==
  ASSUME SidecarInv, NEW n \in Nat, ForkWrite(n), container' # container
  PROVE  /\ Carried(container, container', TRUE)
         /\ \A k \in DOMAIN container.table :
              container.table[k].id # "fork" => SameEntry(k, container, container')
<1>. DEFINE t == container.table
<1>1. /\ container'.table = t /\ Readable(container) /\ Readable(container')
      /\ \A x \in 1 .. Len(container.bytes) :
           NotFork(t, x) => container'.bytes[x] = container.bytes[x]
  BY ForkWritten
<1>2. /\ t \in Seq(Entry) /\ Len(container.bytes) \in Nat /\ container \in Files
  <2>1. container \in Files
    BY DEF SidecarInv, TypeOK
  <2>. QED  BY <2>1, LenProperties DEF Files
<1>3. \A k \in DOMAIN t : Reached(t[k], Len(container.bytes))
  BY <1>1, <1>2, ReadableProperties
<1>. HIDE DEF t
<1>4. ASSUME NEW k \in DOMAIN t, NEW i \in 1 .. t[k].length, t[k].id # "fork"
      PROVE  container'.bytes[t[k].offset + i] = container.bytes[t[k].offset + i]
  <2>1. t[k].offset + i \in 1 .. Len(container.bytes) /\ NotFork(t, t[k].offset + i)
    BY <1>2, <1>3, <1>4, PlaceProperties
  <2>. QED  BY <1>1, <2>1
<1>5. \A id, i : Kept(id, i, TRUE) => id # "fork"
  BY DEF Kept
<1>6. Carried(container, container', TRUE)
  BY <1>1, <1>4, <1>5 DEF Carried, t
<1>. QED  BY <1>1, <1>4, <1>6 DEF SameEntry, t

\* Cells that go only where no fork is, and a table of which a file has all.
Elsewhere(table, offset, cells) == \A j \in 1 .. Len(cells) : NotFork(table, offset + j)
AllReached(table, size) == \A j \in DOMAIN table : Reached(table[j], size)

\* What is to be kept of the entries where they are.
KeptThere(t, old, new, changed) ==
  \A k \in DOMAIN t : \A i \in 1 .. t[k].length : Kept(t[k].id, i, changed) =>
    new[t[k].offset + i] = old[t[k].offset + i]

\* And what is of the others.
OthersThere(t, old, new, next) ==
  \A k \in DOMAIN t : \A i \in 1 .. t[k].length : k # next /\ t[k].id # "fork" =>
    new[t[k].offset + i] = old[t[k].offset + i]

\* What goes only where no fork is touches no byte that may be a fork's.
LEMMA ElsewhereUntouched ==
  ASSUME NEW table, NEW bytes \in Seq(ByteSet), NEW offset \in Nat, NEW cells \in Seq(ByteSet),
         NEW new, IsWritten(new, bytes, offset, cells), Elsewhere(table, offset, cells)
  PROVE  \A x \in 1 .. Len(bytes) : ~NotFork(table, x) => new[x] = bytes[x]
<1>. SUFFICES ASSUME NEW x \in 1 .. Len(bytes), ~NotFork(table, x) PROVE new[x] = bytes[x]
  OBVIOUS
<1>1. x \in Nat /\ Len(cells) \in Nat
  BY LenProperties
<1>2. \A j \in 1 .. Len(cells) : offset + j # x
  BY DEF Elsewhere
<1>3. x <= offset \/ offset + Len(cells) < x
  <2>1. SUFFICES ASSUME offset < x, x <= offset + Len(cells) PROVE FALSE
    BY <1>1
  <2>2. x - offset \in 1 .. Len(cells) /\ offset + (x - offset) = x
    BY <1>1, <2>1
  <2>. QED  BY <1>2, <2>2
<1>. QED  BY <1>3, Untouched

\* What is written for an entry keeps what is of no payload, and every fork.
LEMMA PayloadKeeps ==
  ASSUME NEW t \in Seq(Entry), NEW to \in Seq(Entry), SameButForks(t, to), Apart(t), Apart(to),
         NEW old \in Seq(ByteSet), AllReached(t, Len(old)),
         NEW next \in DOMAIN to, NEW cells \in Seq(ByteSet), Len(cells) <= to[next].length,
         to[next].id \in {"dates", "finfo"} => Len(cells) = 1,
         to[next].id = "other" => Len(cells) = 0,
         Elsewhere(to, to[next].offset, cells),
         NEW new, IsWritten(new, old, to[next].offset, cells)
  PROVE  KeptThere(t, old, new, FALSE) /\ OthersThere(t, old, new, next)
<1>1. IsWritten(new, old, to[next].offset, cells) /\ to[next].offset \in Nat
  BY EntryProperties
<1>2. \A k \in DOMAIN to : \A i \in 1 .. to[k].length :
        (k # next \/ Len(cells) < i) /\ to[k].offset + i \in 1 .. Len(old) =>
          to[k].offset + i \in 1 .. Len(new) /\ new[to[k].offset + i] = old[to[k].offset + i]
  BY <1>1, OtherEntryUntouched
<1>3. \A x \in 1 .. Len(old) : ~NotFork(to, x) => new[x] = old[x]
  BY <1>1, ElsewhereUntouched
<1>4. ASSUME NEW k \in DOMAIN t, NEW i \in 1 .. t[k].length
      PROVE  Len(old) \in Nat /\ i \in Nat /\ 1 <= i /\ t[k].offset + i \in 1 .. Len(old)
  <2>1. Len(old) \in Nat /\ t[k].length \in Nat
    BY LenProperties, EntryProperties
  <2>2. t[k].offset + i \in 1 .. Len(old)
    BY <2>1, PlaceProperties DEF AllReached
  <2>. QED  BY <2>1, <2>2
<1>5. ASSUME NEW k \in DOMAIN t, NEW i \in 1 .. t[k].length, t[k].id # "fork",
             k # next \/ Len(cells) < i
      PROVE  new[t[k].offset + i] = old[t[k].offset + i]
  <2>1. to[k] = t[k] /\ k \in DOMAIN to
    BY <1>5, EntryProperties DEF SameButForks
  <2>. QED  BY <1>2, <1>4, <1>5, <2>1
<1>6. ASSUME NEW k \in DOMAIN t, NEW i \in 1 .. t[k].length, Kept(t[k].id, i, FALSE)
      PROVE  new[t[k].offset + i] = old[t[k].offset + i]
  <2>1. CASE t[k].id = "fork"
    <3>1. ~NotFork(t, t[k].offset + i)
      BY <2>1, ForkApart
    <3>2. ~NotFork(to, t[k].offset + i)
      BY <3>1, SameNotFork
    <3>. QED  BY <1>3, <1>4, <3>2
  <2>2. CASE t[k].id # "fork"
    <3>1. k # next \/ Len(cells) < i
      <4>1. SUFFICES ASSUME k = next PROVE Len(cells) < i
        OBVIOUS
      <4>2. t[k].id = "other" \/ (t[k].id \in {"dates", "finfo"} /\ i > 1)
        BY <1>6, <2>2 DEF Kept
      <4>3. to[k] = t[k]
        BY <2>2 DEF SameButForks
      <4>4. Len(cells) = 0 \/ (Len(cells) = 1 /\ i > 1)
        BY <4>1, <4>2, <4>3, Zenon
      <4>5. \A n, m \in Nat : 1 <= m /\ (n = 0 \/ (n = 1 /\ m > 1)) => n < m
        OBVIOUS
      <4>6. Len(cells) \in Nat
        BY LenProperties
      <4>. QED  BY <1>4, <4>4, <4>5, <4>6, Zenon
    <3>. QED  BY <1>5, <2>2, <3>1
  <2>. QED  BY <2>1, <2>2
<1>. QED  BY <1>5, <1>6 DEF KeptThere, OthersThere

\* Where a fork is, nothing is written of an entry.
LEMMA EntryCarries ==
  ASSUME SidecarInv, WriteEntry, writer.how = "in place"
  PROVE  /\ Carried(container, container', FALSE) /\ container'.table = container.table
         /\ SameButForks(container.table, writer.to) /\ writer.next \in DOMAIN container.table
         /\ \A k \in DOMAIN container.table :
              k # writer.next /\ container.table[k].id # "fork" => SameEntry(k, container, container')
         /\ Holds(container'.bytes, writer.to[writer.next].offset,
                  Payload(writer.to[writer.next].id, writer.fi))
<1>. DEFINE next == writer.next
            t == container.table
            to == writer.to
            at == to[next].offset
            cells == Payload(to[next].id, writer.fi)
            old == container.bytes
            new == Overwritten(old, at, cells)
<1>1. /\ writer.at = "entries" /\ container' = [container EXCEPT !.bytes = new]
  BY DEF WriteEntry, WriteTarget, Target
<1>2. /\ TypeOK /\ WriterOK(writer, container) /\ SidecarInv'
  BY SidecarNext DEF SidecarInv, Next
<1>3. /\ next \in DOMAIN to /\ Commented(to, CommentLen(writer.fi)) /\ Readable(container)
      /\ to = WithFork(t, writer.fi.length) /\ Valid(to, Len(old))
  BY <1>1, <1>2 DEF WriterOK
<1>4. /\ container \in Files /\ old \in Seq(ByteSet) /\ t \in Seq(Entry) /\ to \in Seq(Entry)
      /\ writer.fi.write \in Nat /\ writer.fi.comment \in Nat /\ writer.fi.length \in Nat
  <2>1. container \in Files /\ writer \in Writers
    BY <1>2 DEF TypeOK
  <2>2. to \in Seq(Entry) /\ writer.fi.write \in Nat /\ writer.fi.comment \in Nat
        /\ writer.fi.length \in Nat
    BY <2>1 DEF Writers
  <2>. QED  BY <2>1, <2>2 DEF Files
<1>5. /\ container'.bytes = new /\ container'.table = t
  BY <1>1, <1>4 DEF Files
<1>6. /\ Apart(to) /\ Apart(t) /\ SameButForks(t, to) /\ Len(to) = Len(t) /\ DOMAIN to = DOMAIN t
      /\ \A j \in DOMAIN t : Reached(t[j], Len(old))
  <2>1. Apart(to)
    BY <1>3, ValidIsApart
  <2>2. SameButForks(t, to)
    BY <1>3, <1>4, WithForkProperties
  <2>3. Apart(t) /\ \A j \in DOMAIN t : Reached(t[j], Len(old))
    BY <1>3, <1>4, ReadableProperties
  <2>4. Len(to) = Len(t) /\ DOMAIN to = DOMAIN t
    BY <1>4, <2>2, EntryProperties DEF SameButForks
  <2>. QED  BY <2>1, <2>2, <2>3, <2>4
<1>. HIDE DEF t, to, next
<1>7. /\ cells \in Seq(ByteSet) /\ Len(cells) <= to[next].length /\ at \in Nat
      /\ \A i \in 1 .. Len(cells) : NotFork(to, at + i)
      /\ to[next].id \in {"dates", "finfo"} => Len(cells) = 1
      /\ to[next].id \notin {"comment", "dates", "finfo"} => Len(cells) = 0
  <2>1. at \in Nat
    BY <1>3, <1>4, EntryProperties
  <2>2. /\ cells \in Seq(ByteSet) /\ Len(cells) <= to[next].length
        /\ \A i \in 1 .. Len(cells) : NotFork(to, at + i)
        /\ Len(cells) = IF to[next].id = "comment" THEN to[next].length
                        ELSE IF to[next].id \in {"dates", "finfo"} THEN 1 ELSE 0
    BY <1>3, <1>4, <1>6, PayloadProperties
  <2>. HIDE DEF cells, at
  <2>. QED  BY <2>1, <2>2
<1>. HIDE DEF cells
<1>8. IsWritten(new, old, at, cells)
  BY <1>4, <1>7, OverwrittenProperties
<1>. HIDE DEF old, new
<1>9. Readable(container')
  <2>1. container' \in Files
    BY <1>2 DEF SidecarInv, TypeOK
  <2>2. Len(old) <= Len(new)
    BY <1>8 DEF IsWritten
  <2>. QED  BY <1>3, <1>4, <1>5, <2>1, <2>2, GrownReadable DEF old, t
<1>10. KeptThere(t, old, new, FALSE) /\ OthersThere(t, old, new, next)
  <2>1. /\ t \in Seq(Entry) /\ to \in Seq(Entry) /\ old \in Seq(ByteSet) /\ next \in DOMAIN to
        /\ at = to[next].offset
    BY <1>3, <1>4, Zenon
  <2>2. /\ to[next].id \in {"dates", "finfo"} => Len(cells) = 1
        /\ to[next].id = "other" => Len(cells) = 0
    BY <1>7
  <2>3. /\ SameButForks(t, to) /\ Apart(t) /\ Apart(to) /\ AllReached(t, Len(old))
        /\ cells \in Seq(ByteSet) /\ Len(cells) <= to[next].length
    BY <1>6, <1>7 DEF AllReached
  <2>. HIDE DEF at
  <2>4. Elsewhere(to, to[next].offset, cells) /\ IsWritten(new, old, to[next].offset, cells)
    BY <1>7, <1>8, <2>1, Zenon DEF Elsewhere
  <2>. QED  BY <2>1, <2>2, <2>3, <2>4, PayloadKeeps
<1>11. Carried(container, container', FALSE)
  BY <1>3, <1>5, <1>9, <1>10 DEF Carried, KeptThere, t, old
<1>12. \A k \in DOMAIN t : k # next /\ t[k].id # "fork" => SameEntry(k, container, container')
  BY <1>5, <1>10 DEF SameEntry, OthersThere, t, old
<1>13. Holds(new, at, cells)
  BY <1>4, <1>7, <1>8, WrittenHolds
<1>. QED  BY <1>3, <1>5, <1>6, <1>11, <1>12, <1>13 DEF t, to, next, at, cells

\* A position that is in both of two lengths.
LEMMA Within ==
  /\ \A a, b \in Nat : \A x \in 1 .. a : x <= b => x \in 1 .. b
  /\ \A a \in Nat : \A x \in 1 .. a : x \in Nat /\ x <= a
OBVIOUS

\* What tables with the same entries say of each.
LEMMA SameEntries ==
  ASSUME NEW t \in Seq(Entry), NEW u \in Seq(Entry), SameButForks(t, u)
  PROVE  /\ Len(u) = Len(t) /\ DOMAIN u = DOMAIN t
         /\ \A k \in DOMAIN t :
              /\ u[k].id = t[k].id /\ u[k].offset = t[k].offset
              /\ u[k].length \in Nat /\ t[k].length \in Nat
              /\ t[k].id \in {"dates", "finfo", "other"} => u[k].length = t[k].length
<1>1. Len(u) = Len(t) /\ DOMAIN u = DOMAIN t
  BY EntryProperties DEF SameButForks
<1>2. ASSUME NEW k \in DOMAIN t
      PROVE  /\ u[k].id = t[k].id /\ u[k].offset = t[k].offset
             /\ u[k].length \in Nat /\ t[k].length \in Nat
             /\ t[k].id \in {"dates", "finfo", "other"} => u[k].length = t[k].length
  <2>1. /\ u[k].id = t[k].id /\ u[k].offset = t[k].offset
        /\ t[k].id # "fork" => t[k] = u[k]
    BY DEF SameButForks
  <2>2. u[k].length \in Nat /\ t[k].length \in Nat
    BY <1>1, EntryProperties
  <2>. QED  BY <2>1, <2>2
<1>. QED  BY <1>1, <1>2

\* A header in place says of every entry but a fork what the last one did.
LEMMA HeaderCarries ==
  ASSUME SidecarInv, WriteHeader, writer.how = "in place"
  PROVE  /\ Carried(container, container', FALSE)
         /\ \A k \in DOMAIN container.table :
              container.table[k].id # "fork" => SameEntry(k, container, container')
<1>. DEFINE t == container.table
            to == writer.to
            old == container.bytes
            new == container'.bytes
<1>1. Target = container /\ container' = File(to, Overwritten(old, 0, HeadOf(to)))
  BY DEF WriteHeader, WriteTarget, Target
<1>2. /\ Apart(to) /\ container'.table = to /\ Readable(container')
      /\ IsWritten(new, old, 0, HeadOf(to))
  BY <1>1, HeaderFile
<1>3. /\ container \in Files /\ Readable(container) /\ to = WithFork(t, writer.fi.length)
      /\ old \in Seq(ByteSet) /\ t \in Seq(Entry) /\ to \in Seq(Entry) /\ writer.fi.length \in Nat
  <2>1. container \in Files /\ writer \in Writers /\ WriterOK(writer, container)
    BY DEF SidecarInv, TypeOK
  <2>2. to \in Seq(Entry) /\ writer.fi.length \in Nat
    BY <2>1 DEF Writers
  <2>. QED  BY <2>1, <2>2 DEF Files, WriterOK
<1>4. SameButForks(t, to) /\ AllReached(t, Len(old)) /\ Len(old) \in Nat
  BY <1>3, WithForkProperties, ReadableProperties, LenProperties DEF AllReached
<1>. HIDE DEF t, to, old, new
<1>5. /\ Len(to) = Len(t) /\ DOMAIN to = DOMAIN t
      /\ \A k \in DOMAIN t :
           /\ to[k].id = t[k].id /\ to[k].offset = t[k].offset
           /\ to[k].length \in Nat /\ t[k].length \in Nat
           /\ t[k].id \in {"dates", "finfo", "other"} => to[k].length = t[k].length
  BY <1>3, <1>4, SameEntries
<1>7. \A k \in DOMAIN to : \A i \in 1 .. to[k].length :
        to[k].offset + i \in 1 .. Len(old) =>
          to[k].offset + i \in 1 .. Len(new) /\ new[to[k].offset + i] = old[to[k].offset + i]
  BY <1>2, <1>3, EntryUntouched
<1>8. ASSUME NEW k \in DOMAIN t, NEW i \in 1 .. t[k].length, i <= to[k].length
      PROVE  new[to[k].offset + i] = old[t[k].offset + i]
  <2>1. t[k].offset + i \in 1 .. Len(old)
    BY <1>3, <1>4, PlaceProperties DEF AllReached
  <2>2. i \in 1 .. to[k].length
    BY <1>5, <1>8, Within, Zenon
  <2>3. to[k].offset + i \in 1 .. Len(old) /\ to[k].offset + i = t[k].offset + i
    BY <1>5, <2>1, Zenon
  <2>. QED  BY <1>5, <1>7, <2>2, <2>3, Zenon
<1>9. Carried(container, container', FALSE)
  BY <1>2, <1>3, <1>5, <1>8, Zenon DEF Carried, t, to, old, new
<1>10. ASSUME NEW k \in DOMAIN t, t[k].id # "fork"
       PROVE  to[k] = t[k] /\ \A i \in 1 .. t[k].length : new[t[k].offset + i] = old[t[k].offset + i]
  <2>1. to[k] = t[k] /\ t[k].length \in Nat
    BY <1>4, <1>5, <1>10 DEF SameButForks
  <2>. QED  BY <1>8, <2>1, Within, Zenon
<1>. QED  BY <1>2, <1>9, <1>10, Zenon DEF SameEntry, t, to, old, new

\* A file that a rewrite has made has all that it was to keep.
LEMMA RenameCarries ==
  ASSUME SidecarInv, MovedInv, Rename
  PROVE  Carried(container, container', raced)
<1>. DEFINE t == container.table
            from == writer.from
            to == writer.to
<1>1. writer.at = "rename" /\ container' = scratch
  BY DEF Rename
<1>2. /\ TypeOK /\ WriterOK(writer, container) /\ MadeOK(writer, container, scratch) /\ SidecarInv'
  BY SidecarNext DEF SidecarInv, Next
<1>3. /\ writer.how = "rewrite" /\ Readable(container) /\ scratch.table = to
      /\ CopiedOK(writer, container, scratch, raced) /\ \A k \in DOMAIN to : CopiedTo(writer, k)
  BY <1>1, <1>2 DEF WriterOK, MadeOK, MovedInv, CopiedTo
<1>4. /\ t \in Seq(Entry) /\ from \in Seq(Entry) /\ to \in Seq(Entry)
      /\ Len(to) = Len(t) /\ DOMAIN to = DOMAIN t
      /\ SameButForks(t, from)
      /\ \A j \in DOMAIN to :
           /\ to[j].id = from[j].id
           /\ to[j].id # "comment" => to[j].length = from[j].length
  BY <1>2, <1>3, RewriteProperties
<1>5. Readable(scratch)
  BY <1>1, HandedOver
<1>. HIDE DEF t, from, to
<1>6. \A k \in DOMAIN t :
        /\ from[k].id = t[k].id /\ from[k].offset = t[k].offset
        /\ from[k].length \in Nat /\ t[k].length \in Nat
        /\ t[k].id \in {"dates", "finfo", "other"} => from[k].length = t[k].length
  BY <1>4, SameEntries
<1>7. \A k \in DOMAIN to : \A i \in 1 .. to[k].length : Kept(to[k].id, i, raced) =>
        scratch.bytes[to[k].offset + i] = container.bytes[from[k].offset + i]
  BY <1>3 DEF CopiedOK, to, from
<1>8. ASSUME NEW k \in DOMAIN t, NEW i \in 1 .. t[k].length, i <= to[k].length,
             Kept(t[k].id, i, raced)
      PROVE  scratch.bytes[to[k].offset + i] = container.bytes[t[k].offset + i]
  <2>1. to[k].length \in Nat
    BY <1>4, EntryProperties
  <2>2. i \in 1 .. to[k].length
    BY <1>6, <1>8, <2>1, Within, Zenon
  <2>3. to[k].id = t[k].id /\ from[k].offset = t[k].offset
    BY <1>4, <1>6, Zenon
  <2>. QED  BY <1>4, <1>7, <1>8, <2>2, <2>3, Zenon
<1>9. ASSUME NEW k \in DOMAIN t
      PROVE  /\ to[k].id = t[k].id
             /\ t[k].id \in {"dates", "finfo", "other"} => to[k].length = t[k].length
  <2>1. to[k].id = t[k].id
    BY <1>4, <1>6, Zenon
  <2>2. t[k].id \in {"dates", "finfo", "other"} => t[k].id # "comment"
    OBVIOUS
  <2>. QED  BY <1>4, <1>6, <2>1, <2>2, Zenon
<1>10. container'.table = to /\ container'.bytes = scratch.bytes /\ Readable(container')
  BY <1>1, <1>3, <1>5, Zenon
<1>. QED  BY <1>3, <1>4, <1>8, <1>9, <1>10, Zenon DEF Carried, t, to

\* A table with no more than one fork.
OneFork(table) ==
  \A j, k \in DOMAIN table : table[j].id = "fork" /\ table[k].id = "fork" => j = k

\* A first write makes a record of nothing that is not its own.
LEMMA FreshCarries ==
  ASSUME SidecarInv, WriteEntry \/ WriteHeader, writer.how = "fresh"
  PROVE  ~Readable(container) /\ NotOwned(container') = {} /\ OneFork(container'.table)
<1>1. /\ container \in Files /\ writer \in Writers /\ container.table = NoTable
      /\ writer.to = FreshTable(CommentLen(writer.fi)) /\ CommentLen(writer.fi) \in Nat
      /\ container' \in Files
  <2>1. TypeOK /\ WriterOK(writer, container) /\ SidecarInv'
    BY SidecarNext DEF SidecarInv, Next
  <2>2. CommentLen(writer.fi) \in Nat
    BY <2>1, SidecarAssumption DEF TypeOK, Writers, CommentLen
  <2>. QED  BY <2>1, <2>2 DEF TypeOK, WriterOK, SidecarInv
<1>2. \A file \in Files : file.table = NoTable => ~Readable(file)
  BY ReadableProperties
<1>3. ~Readable(container)
  BY <1>1, <1>2
<1>4. CASE WriteEntry
  <2>1. \E bytes : container' = [container EXCEPT !.bytes = bytes]
    BY <1>4, Zenon DEF WriteEntry, WriteTarget, Target
  <2>2. container'.table = NoTable
    BY <1>1, <2>1 DEF Files
  <2>3. ~Readable(container')
    BY <1>1, <1>2, <2>2
  <2>4. OneFork(container'.table)
    BY <2>2 DEF OneFork, NoTable
  <2>. QED  BY <1>3, <2>3, <2>4 DEF NotOwned, Readable
<1>5. CASE WriteHeader
  <2>. DEFINE t == container'.table
  <2>1. t = FreshTable(CommentLen(writer.fi))
    BY <1>1, <1>5 DEF WriteHeader, WriteTarget, Target, File
  <2>2. \A k \in DOMAIN t : /\ t[k].id \in {"comment", "dates", "finfo", "fork"}
                            /\ t[k].id \in {"dates", "finfo"} => t[k].length = 1
    BY <1>1, <2>1, FreshTableProperties
  <2>. HIDE DEF t
  <2>3. Theirs(t) = {}
    <3>1. ASSUME NEW k \in Theirs(t) PROVE FALSE
      <4>1. /\ k \in DOMAIN t
            /\ t[k].id = "other" \/ (t[k].id \in {"dates", "finfo"} /\ t[k].length > 1)
        BY DEF Theirs
      <4>2. t[k].id # "other" /\ (t[k].id \in {"dates", "finfo"} => ~(t[k].length > 1))
        BY <2>2, <4>1
      <4>. QED  BY <4>1, <4>2, Zenon
    <3>. QED  BY <3>1
  <2>4. NotOwned(container') = {}
    <3>1. CASE ~Readable(container')
      BY <3>1 DEF NotOwned, Readable
    <3>2. CASE Readable(container')
      BY <2>3, <3>2, NotOwnedEntries DEF t
    <3>. QED  BY <3>1, <3>2
  <2>5. OneFork(t)
    <3>. DEFINE n == CommentLen(writer.fi)
    <3>1. n \in Nat /\ t = FreshTable(n)
      BY <1>1, <2>1
    <3>. HIDE DEF n
    <3>2. t \in Seq(Entry) /\ Len(t) = 4 /\ t[1].id = "comment" /\ t[2].id = "dates" /\ t[3].id = "finfo"
      BY <3>1, FreshTableProperties
    <3>3. DOMAIN t = 1 .. 4
      BY <3>2, EntryProperties
    <3>4. \A j \in 1 .. 4 : j = 1 \/ j = 2 \/ j = 3 \/ j = 4
      OBVIOUS
    <3>5. \A j \in DOMAIN t : t[j].id = "fork" => j = 4
      BY <3>2, <3>3, <3>4
    <3>. QED  BY <3>5 DEF OneFork
  <2>. QED  BY <1>3, <2>4, <2>5 DEF t
<1>. QED  BY <1>4, <1>5

\* Whatever a step does to the container, it carries on what was there.
LEMMA StepCarries ==
  ASSUME SidecarInv, MovedInv, [Next]_vars
  PROVE  \/ container' = container
         \/ ~Readable(container) /\ NotOwned(container') = {} /\ OneFork(container'.table)
         \/ \E changed \in BOOLEAN : /\ Carried(container, container', changed)
                                     /\ changed => raced \/ forkWrites' # forkWrites
<1>1. CASE WriteEntry \/ WriteHeader
  <2>1. CASE writer.how = "rewrite"
    BY <1>1, <2>1 DEF WriteEntry, WriteHeader, WriteTarget
  <2>2. CASE writer.how = "fresh"
    BY <1>1, <2>2, FreshCarries
  <2>3. CASE writer.how = "in place"
    <3>1. Carried(container, container', FALSE)
      BY <1>1, <2>3, EntryCarries, HeaderCarries
    <3>. QED  BY <3>1
  <2>4. writer.how \in {"fresh", "rewrite", "in place"}
    <3>1. TypeOK /\ WriterOK(writer, container) /\ writer.at # "idle"
      BY <1>1 DEF SidecarInv, WriteEntry, WriteHeader
    <3>. QED  BY <3>1 DEF TypeOK, Writers, WriterOK
  <2>. QED  BY <2>1, <2>2, <2>3, <2>4
<1>2. CASE \E n \in 1 .. MaxLength : ForkWrite(n)
  <2>1. PICK n \in 1 .. MaxLength : ForkWrite(n)
    BY <1>2
  <2>2. n \in Nat /\ forkWrites \in Nat
    BY SidecarAssumption DEF SidecarInv, TypeOK
  <2>3. forkWrites' # forkWrites
    BY <2>1, <2>2 DEF ForkWrite
  <2>. QED  BY <2>1, <2>2, <2>3, ForkWriteCarries
<1>3. CASE Rename
  <2>1. Carried(container, container', raced)
    BY <1>3, RenameCarries
  <2>2. raced \in BOOLEAN
    BY DEF SidecarInv, TypeOK
  <2>. QED  BY <2>1, <2>2
<1>4. CASE \/ MakeScratch \/ CopyEntry \/ Fail \/ Stop \/ ForkOpen \/ ForkClose \/ UNCHANGED vars
           \/ \E to \in 0 .. MaxLength : ForkSeek(to)
           \/ \E comment \in 0 .. MaxComment + 1, length \in 0 .. MaxLength + 1 :
                WriteBegin(comment, length)
  <2>1. container' = container
    BY <1>4 DEF MakeScratch, CopyEntry, Fail, Stop, ForkOpen, ForkClose, ForkSeek, WriteBegin, vars
  <2>. QED  BY <2>1
<1>. QED  BY <1>1, <1>2, <1>3, <1>4 DEF Next

\* What hxhfs does not own is kept byte for byte by every write of metadata or of a
\* fork, by every rewrite, and where they stop (relayout_dbl, Room).
THEOREM AlwaysOthersKept == Spec => OthersKept
<1>1. SidecarInv /\ MovedInv /\ [Next]_vars => [NotOwned(container') = NotOwned(container)]_vars
  <2>. SUFFICES ASSUME SidecarInv, MovedInv, [Next]_vars
                PROVE  NotOwned(container') = NotOwned(container)
    OBVIOUS
  <2>1. CASE container' = container
    BY <2>1
  <2>2. CASE ~Readable(container) /\ NotOwned(container') = {}
    BY <2>2 DEF NotOwned, Readable
  <2>3. CASE \E changed \in BOOLEAN : /\ Carried(container, container', changed)
                                      /\ changed => raced \/ forkWrites' # forkWrites
    <3>1. container \in Files /\ container' \in Files
      BY SidecarNext DEF SidecarInv, TypeOK
    <3>. QED  BY <2>3, <3>1, CarriedNotOwned
  <2>. QED  BY <2>1, <2>2, <2>3, StepCarries
<1>. QED  BY <1>1, MovedAlways, PTL DEF OthersKept, Spec

\* Writing metadata, or giving it up anywhere, changes no byte of the fork that is
\* recorded before and after, unless a handle writes to it during the rewrite.
THEOREM AlwaysForkKept == Spec => ForkKept
<1>. DEFINE was == Found(container, "fork")
            is == Found(container', "fork")
            both == IF Len(was) < Len(is) THEN Len(was) ELSE Len(is)
            Same == SubSeq(is, 1, both) = SubSeq(was, 1, both)
<1>1. ASSUME SidecarInv, MovedInv, [Next]_vars, forkWrites' = forkWrites, ~raced
      PROVE  Same
  <2>1. container \in Files /\ container' \in Files
    BY <1>1, SidecarNext DEF SidecarInv, TypeOK
  <2>2. CASE container' = container
    BY <2>2
  <2>3. CASE ~Readable(container)
    <3>1. was = <<>> /\ is \in Seq(ByteSet)
      BY <2>1, <2>3, FoundSeq DEF Found, Readable, Nowhere
    <3>. HIDE DEF was, is
    <3>2. was \in Seq(ByteSet) /\ Len(was) = 0 /\ Len(is) \in Nat
      BY <3>1, EmptySeq, LenProperties
    <3>3. both = 0
      BY <3>2
    <3>. HIDE DEF both
    <3>4. SubSeq(is, 1, both) = SubSeq(was, 1, both)
      BY <3>1, <3>2, <3>3, SamePrefix
    <3>. QED  BY <3>4
  <2>4. CASE \E changed \in BOOLEAN : /\ Carried(container, container', changed)
                                      /\ changed => raced \/ forkWrites' # forkWrites
    <3>1. Carried(container, container', FALSE)
      <4>1. PICK changed \in BOOLEAN : /\ Carried(container, container', changed)
                                       /\ changed => raced \/ forkWrites' # forkWrites
        BY <2>4
      <4>2. ~changed
        BY <1>1, <4>1
      <4>3. changed = FALSE
        BY <4>2
      <4>. QED  BY <4>1, <4>3
    <3>. QED  BY <2>1, <3>1, CarriedFork
  <2>. QED  BY <1>1, <2>2, <2>3, <2>4, StepCarries
<1>. DEFINE Step == LET w == Found(container, "fork")
                        i == Found(container', "fork")
                        b == IF Len(w) < Len(i) THEN Len(w) ELSE Len(i)
                    IN  forkWrites' = forkWrites /\ ~raced => SubSeq(i, 1, b) = SubSeq(w, 1, b)
<1>2. SidecarInv /\ MovedInv /\ [Next]_vars => [Step]_vars
  BY <1>1
<1>. HIDE DEF Step
<1>3. Spec => [][Step]_vars
  BY <1>2, MovedAlways, PTL DEF Spec
<1>. QED  BY <1>3 DEF ForkKept, Step

----------------------------------------------------------------------------
(* What a reader finds before and after.                                   *)

\* Of an entry that is what it was, what was found of it.
LEMMA FoundSame ==
  ASSUME NEW old \in Files, NEW new \in Files, Readable(old), Readable(new),
         NEW id, NEW k \in DOMAIN old.table, k \in DOMAIN new.table,
         old.table[k].id = id, LastOf(old.table, id) = old.table[k],
         LastOf(new.table, id) = new.table[k], SameEntry(k, old, new)
  PROVE  Found(new, id) = Found(old, id)
<1>1. FoundIs(old, id, k)
  BY FoundProperties
<1>2. new.table[k] = old.table[k] /\ new.table[k].id = id
  BY DEF SameEntry
<1>3. FoundIs(new, id, k)
  BY <1>2, FoundProperties
<1>. DEFINE was == Found(old, id)
            is == Found(new, id)
            n == ReadLength(old.table[k])
<1>4. /\ was \in Seq(ByteSet) /\ is \in Seq(ByteSet) /\ Len(was) = n /\ Len(is) = n
      /\ \A i \in 1 .. n : was[i] = is[i]
  BY <1>1, <1>2, <1>3 DEF FoundIs, SameEntry
<1>. HIDE DEF was, is, n
<1>5. was = is
  BY <1>4, SeqEqual
<1>. QED  BY <1>5 DEF was, is

\* Of one that holds what is written for it, that.
LEMMA FoundWritten ==
  ASSUME NEW file \in Files, Readable(file), NEW id \in Owned, NEW k \in DOMAIN file.table,
         file.table[k].id = id, LastOf(file.table, id) = file.table[k],
         NEW fi, fi.write \in Nat, fi.comment \in Nat, Commented(file.table, CommentLen(fi)),
         Holds(file.bytes, file.table[k].offset, Payload(id, fi))
  PROVE  Found(file, id) = Payload(id, fi)
<1>1. FoundIs(file, id, k)
  BY FoundProperties
<1>2. file.table \in Seq(Entry) /\ Apart(file.table)
  BY ReadableProperties DEF Files
<1>. DEFINE is == Found(file, id)
            cells == Payload(id, fi)
            n == ReadLength(file.table[k])
<1>3. /\ cells \in Seq(ByteSet)
      /\ Len(cells) = IF id = "comment" THEN file.table[k].length
                      ELSE IF id \in {"dates", "finfo"} THEN 1 ELSE 0
  BY <1>2, PayloadProperties
<1>4. n = Len(cells)
  <2>1. CASE id = "comment"
    <3>1. file.table[k].length = CommentLen(fi)
      BY <2>1 DEF Commented
    <3>2. n = IF file.table[k].length < MaxComment THEN file.table[k].length ELSE MaxComment
      BY <2>1 DEF ReadLength
    <3>3. CommentLen(fi) = IF fi.comment < MaxComment THEN fi.comment ELSE MaxComment
      BY DEF CommentLen
    <3>4. n = CommentLen(fi)
      BY <3>1, <3>2, <3>3, SidecarAssumption
    <3>. QED  BY <1>3, <2>1, <3>1, <3>4
  <2>2. CASE id # "comment"
    <3>1. id \in {"dates", "finfo"}
      BY <2>2 DEF Owned
    <3>2. n = 1
      BY <3>1 DEF ReadLength
    <3>. QED  BY <1>3, <3>1, <3>2
  <2>. QED  BY <2>1, <2>2
<1>5. /\ is \in Seq(ByteSet) /\ Len(is) = n
      /\ \A i \in 1 .. n : is[i] = file.bytes[file.table[k].offset + i]
  BY <1>1 DEF FoundIs
<1>6. \A i \in 1 .. Len(cells) : file.bytes[file.table[k].offset + i] = cells[i]
  BY DEF Holds
<1>. HIDE DEF is, cells, n
<1>7. is = cells
  BY <1>3, <1>4, <1>5, <1>6, SeqEqual
<1>. QED  BY <1>7 DEF is, cells

\* What a step that leaves what hxhfs owns as it was leaves to be found.
LEMMA OwnedSame ==
  ASSUME NEW old \in Files, NEW new \in Files, Readable(old), Readable(new),
         Len(new.table) = Len(old.table),
         \A k \in DOMAIN old.table : new.table[k].id = old.table[k].id,
         \A k \in DOMAIN old.table : old.table[k].id # "fork" => SameEntry(k, old, new)
  PROVE  \A id \in Owned : Found(new, id) = Found(old, id)
<1>. SUFFICES ASSUME NEW id \in Owned PROVE Found(new, id) = Found(old, id)
  OBVIOUS
<1>1. old.table \in Seq(Entry) /\ new.table \in Seq(Entry) /\ id # "fork"
  BY DEF Files, Owned
<1>2. /\ DOMAIN new.table = DOMAIN old.table /\ (Has(new.table, id) <=> Has(old.table, id))
      /\ Has(old.table, id) => \E k \in DOMAIN old.table :
           /\ old.table[k].id = id /\ LastOf(old.table, id) = old.table[k]
           /\ LastOf(new.table, id) = new.table[k]
  <2>. DEFINE t == old.table
              u == new.table
  <2>1. t \in Seq(Entry) /\ u \in Seq(Entry) /\ Len(u) = Len(t) /\ \A k \in DOMAIN t : u[k].id = t[k].id
    BY <1>1
  <2>. HIDE DEF t, u
  <2>2. /\ DOMAIN u = DOMAIN t /\ (Has(u, id) <=> Has(t, id))
        /\ Has(t, id) => \E k \in DOMAIN t :
             t[k].id = id /\ LastOf(t, id) = t[k] /\ u[k].id = id /\ LastOf(u, id) = u[k]
    BY <2>1, SameLast
  <2>. QED  BY <2>2, Zenon DEF t, u
<1>3. CASE ~Has(old.table, id)
  BY <1>2, <1>3 DEF Found
<1>4. CASE Has(old.table, id)
  <2>1. PICK k \in DOMAIN old.table :
          /\ old.table[k].id = id /\ LastOf(old.table, id) = old.table[k]
          /\ LastOf(new.table, id) = new.table[k]
    BY <1>2, <1>4
  <2>2. SameEntry(k, old, new) /\ k \in DOMAIN new.table
    BY <1>1, <1>2, <2>1
  <2>. QED  BY <2>1, <2>2, FoundSame
<1>. QED  BY <1>3, <1>4

\* A step that shows these of the fields as the write in progress wants them.
Shows(fields) ==
  \A f \in Owned : Found(container', f) = IF f \in fields THEN Payload(f, writer.fi)
                                          ELSE Found(container, f)

\* What was written of an entry is not touched by the header.
LEMMA HeaderHolds ==
  ASSUME NEW bytes \in Seq(ByteSet), NEW table \in Seq(Entry), Apart(table),
         NEW new, IsWritten(new, bytes, 0, HeadOf(table)), NEW k \in DOMAIN table,
         NEW cells \in Seq(ByteSet), Len(cells) <= table[k].length,
         Holds(bytes, table[k].offset, cells)
  PROVE  Holds(new, table[k].offset, cells)
<1>1. \A j \in DOMAIN table : \A i \in 1 .. table[j].length :
        table[j].offset + i \in 1 .. Len(bytes) =>
          /\ table[j].offset + i \in 1 .. Len(new)
          /\ new[table[j].offset + i] = bytes[table[j].offset + i]
  BY EntryUntouched
<1>2. Len(cells) \in Nat /\ table[k].length \in Nat
  BY LenProperties, EntryProperties
<1>3. \A a, b \in Nat : a <= b => \A x \in 1 .. a : x \in 1 .. b
  OBVIOUS
<1>4. \A i \in 1 .. Len(cells) : i \in 1 .. table[k].length
  BY <1>2, <1>3, Zenon
<1>. QED  BY <1>1, <1>4, Zenon DEF Holds

\* A first record's header shows all that is written.
LEMMA FreshShows ==
  ASSUME SidecarInv, MovedInv, WriteHeader, writer.how = "fresh"
  PROVE  Shows(Owned \cap Entries(writer.to))
<1>. DEFINE to == writer.to
            fi == writer.fi
            old == container.bytes
            new == container'.bytes
<1>1. writer.at = "header" /\ Target = container /\ container' = File(to, Overwritten(old, 0, HeadOf(to)))
  BY DEF WriteHeader, WriteTarget, Target
<1>2. /\ Apart(to) /\ container' \in Files /\ container'.table = to /\ Readable(container')
      /\ IsWritten(new, old, 0, HeadOf(to))
  BY <1>1, HeaderFile
<1>3. /\ old \in Seq(ByteSet) /\ to \in Seq(Entry) /\ fi.write \in Nat /\ fi.comment \in Nat
      /\ CommentLen(fi) \in Nat /\ to = FreshTable(CommentLen(fi)) /\ Commented(to, CommentLen(fi))
  <2>1. container \in Files /\ writer \in Writers /\ WriterOK(writer, container)
    BY DEF SidecarInv, TypeOK
  <2>2. to \in Seq(Entry) /\ fi.write \in Nat /\ fi.comment \in Nat /\ fi.length \in Nat
    BY <2>1 DEF Writers
  <2>3. CommentLen(fi) \in Nat
    BY <2>2, SidecarAssumption DEF CommentLen
  <2>. QED  BY <2>1, <2>2, <2>3 DEF Files, WriterOK
<1>4. \A k \in DOMAIN to : Holds(old, to[k].offset, Payload(to[k].id, fi))
  BY <1>1 DEF MovedInv, WrittenOK, WrittenTo
<1>5. \A f \in Owned : Has(to, f)
  <2>. DEFINE n == CommentLen(fi)
  <2>0. n \in Nat /\ to = FreshTable(n) /\ to \in Seq(Entry)
    BY <1>3
  <2>. HIDE DEF to, n
  <2>1. DOMAIN to = 1 .. 4 /\ to[1].id = "comment" /\ to[2].id = "dates" /\ to[3].id = "finfo"
    BY <2>0, FreshTableProperties, EntryProperties
  <2>. QED  BY <2>1 DEF Has, Owned
<1>. HIDE DEF to, fi, old, new
<1>6. ASSUME NEW f \in Owned PROVE Found(container', f) = Payload(f, fi)
  <2>1. PICK k \in DOMAIN to : to[k].id = f /\ LastOf(to, f) = to[k]
    BY <1>3, <1>5, LastOfProperties
  <2>. DEFINE cells == Payload(to[k].id, fi)
  <2>2. cells \in Seq(ByteSet) /\ Len(cells) <= to[k].length
    BY <1>2, <1>3, PayloadProperties
  <2>3. Holds(old, to[k].offset, cells)
    BY <1>4
  <2>. HIDE DEF cells
  <2>4. Holds(new, to[k].offset, cells)
    BY <1>2, <1>3, <2>2, <2>3, HeaderHolds
  <2>5. Holds(new, to[k].offset, Payload(f, fi))
    BY <2>1, <2>4 DEF cells
  <2>. DEFINE file == container'
  <2>6. /\ file \in Files /\ Readable(file) /\ file.table = to
        /\ Holds(file.bytes, file.table[k].offset, Payload(f, fi))
        /\ Commented(file.table, CommentLen(fi)) /\ k \in DOMAIN file.table
        /\ file.table[k].id = f /\ LastOf(file.table, f) = file.table[k]
    BY <1>2, <1>3, <2>1, <2>5 DEF new
  <2>. HIDE DEF file
  <2>7. Found(file, f) = Payload(f, fi)
    BY <1>3, <2>6, FoundWritten
  <2>. QED  BY <2>7 DEF file
<1>7. \A f \in Owned : f \in Entries(to)
  BY <1>5 DEF Has, Entries
<1>. QED  BY <1>6, <1>7 DEF Shows, to, fi

\* A file that takes the container's place shows all that it was made with.
LEMMA RenameShows ==
  ASSUME SidecarInv, MovedInv, Rename
  PROVE  Shows(Owned \cap Entries(writer.to))
<1>. DEFINE t == container.table
            from == writer.from
            to == writer.to
            fi == writer.fi
<1>1. writer.at = "rename" /\ container' = scratch
  BY DEF Rename
<1>2. TypeOK /\ WriterOK(writer, container) /\ MadeOK(writer, container, scratch)
  BY DEF SidecarInv
<1>3. /\ writer.how = "rewrite" /\ scratch.table = to /\ Commented(to, CommentLen(fi))
      /\ \A k \in DOMAIN to : Holds(scratch.bytes, to[k].offset, Payload(to[k].id, fi))
  BY <1>1, <1>2 DEF WriterOK, MadeOK, MovedInv, WrittenOK, WrittenTo
<1>4. /\ t \in Seq(Entry) /\ from \in Seq(Entry) /\ to \in Seq(Entry)
      /\ Len(to) = Len(t) /\ DOMAIN to = DOMAIN t
      /\ SameButForks(t, from) /\ \A j \in DOMAIN to : to[j].id = from[j].id
  BY <1>2, <1>3, RewriteProperties
<1>5. scratch \in Files /\ Readable(scratch)
  BY HandedOver
<1>6. fi.write \in Nat /\ fi.comment \in Nat
  <2>1. writer \in Writers
    BY <1>2 DEF TypeOK
  <2>. QED  BY <2>1 DEF Writers
<1>. HIDE DEF t, from, to, fi
<1>7. \A f : Has(to, f) <=> Has(t, f)
  <2>1. \A j \in DOMAIN t : to[j].id = t[j].id
    BY <1>4, SameEntries
  <2>. QED  BY <1>4, <2>1, SameLast
<1>8. ASSUME NEW f \in Owned, Has(to, f) PROVE Found(scratch, f) = Payload(f, fi)
  <2>1. PICK k \in DOMAIN to : to[k].id = f /\ LastOf(to, f) = to[k]
    BY <1>4, <1>8, LastOfProperties
  <2>2. Holds(scratch.bytes, to[k].offset, Payload(f, fi))
    BY <1>3, <2>1
  <2>. QED  BY <1>3, <1>5, <1>6, <2>1, <2>2, FoundWritten
<1>9. ASSUME NEW f \in Owned, ~Has(to, f) PROVE Found(scratch, f) = Found(container, f)
  <2>1. ~Has(scratch.table, f) /\ ~Has(container.table, f)
    BY <1>3, <1>7, <1>9 DEF t
  <2>. QED  BY <2>1 DEF Found
<1>10. \A f : Has(to, f) <=> f \in Entries(to)
  BY DEF Has, Entries
<1>. QED  BY <1>1, <1>8, <1>9, <1>10 DEF Shows, to, fi

\* An entry in place shows that field, where it is the last of its kind, and no other.
LEMMA EntryShows ==
  ASSUME SidecarInv, WriteEntry, writer.how = "in place"
  PROVE  \E fields \in SUBSET (Owned \cap Entries(writer.to)) : Shows(fields)
<1>. DEFINE t == container.table
            to == writer.to
            next == writer.next
            fi == writer.fi
            file == container'
            fields == {f \in Owned : f = t[next].id /\ LastOf(t, f) = t[next]}
<1>1. /\ Carried(container, file, FALSE) /\ file.table = t
      /\ SameButForks(t, to) /\ next \in DOMAIN t
      /\ \A k \in DOMAIN t : k # next /\ t[k].id # "fork" => SameEntry(k, container, file)
      /\ Holds(file.bytes, to[next].offset, Payload(to[next].id, fi))
  BY EntryCarries
<1>2. /\ container \in Files /\ file \in Files /\ Readable(container) /\ Readable(file)
      /\ t \in Seq(Entry) /\ to \in Seq(Entry) /\ fi.write \in Nat /\ fi.comment \in Nat
      /\ Commented(to, CommentLen(fi))
  <2>1. /\ TypeOK /\ TypeOK' /\ WriterOK(writer, container)
    BY SidecarNext DEF SidecarInv, Next
  <2>2. container \in Files /\ container' \in Files /\ writer \in Writers
    BY <2>1 DEF TypeOK
  <2>3. to \in Seq(Entry) /\ fi.write \in Nat /\ fi.comment \in Nat
    BY <2>2 DEF Writers
  <2>. QED  BY <1>1, <2>1, <2>2, <2>3 DEF Files, WriterOK, Carried
<1>. HIDE DEF t, to, next, fi, file, fields
<1>3. /\ DOMAIN to = DOMAIN t
      /\ \A k \in DOMAIN t : t[k].id = to[k].id /\ t[k].offset = to[k].offset
      /\ \A k \in DOMAIN t : t[k].id # "fork" => t[k] = to[k]
  <2>1. DOMAIN to = DOMAIN t
    BY <1>1, <1>2, SameEntries
  <2>. QED  BY <1>1, <2>1 DEF SameButForks
<1>4. Commented(t, CommentLen(fi))
  <2>1. ASSUME NEW k \in DOMAIN t, t[k].id = "comment" PROVE t[k].length = CommentLen(fi)
    <3>1. t[k] = to[k] /\ k \in DOMAIN to
      BY <1>3, <2>1
    <3>. QED  BY <1>2, <2>1, <3>1 DEF Commented
  <2>. QED  BY <2>1 DEF Commented
<1>5. fields \subseteq Owned \cap Entries(to)
  <2>1. ASSUME NEW f \in fields PROVE f \in Entries(to)
    <3>1. next \in DOMAIN to /\ f = to[next].id
      BY <1>1, <1>3 DEF fields
    <3>. QED  BY <3>1 DEF Entries
  <2>. QED  BY <2>1 DEF fields
<1>6. ASSUME NEW f \in fields PROVE Found(file, f) = Payload(f, fi)
  <2>1. f \in Owned /\ t[next].id = f /\ LastOf(t, f) = t[next]
    BY DEF fields
  <2>2. Holds(file.bytes, file.table[next].offset, Payload(f, fi))
    BY <1>1, <1>3, <2>1
  <2>. QED  BY <1>1, <1>2, <1>4, <2>1, <2>2, FoundWritten
<1>7. ASSUME NEW f \in Owned, f \notin fields PROVE Found(file, f) = Found(container, f)
  <2>1. f # "fork"
    BY DEF Owned
  <2>2. CASE ~Has(t, f)
    BY <1>1, <2>2 DEF Found, t
  <2>3. CASE Has(t, f)
    <3>0. t \in Seq(Entry)
      BY <1>2
    <3>1. PICK k \in DOMAIN t : t[k].id = f /\ LastOf(t, f) = t[k]
      BY <2>3, <3>0, LastOne, Zenon
    <3>2. k # next
      BY <1>7, <3>1 DEF fields
    <3>3. SameEntry(k, container, file)
      BY <1>1, <2>1, <3>1, <3>2
    <3>. DEFINE old == container
    <3>4. /\ old \in Files /\ Readable(old) /\ k \in DOMAIN old.table /\ old.table[k].id = f
          /\ LastOf(old.table, f) = old.table[k] /\ SameEntry(k, old, file)
          /\ k \in DOMAIN file.table /\ LastOf(file.table, f) = file.table[k]
      BY <1>1, <1>2, <3>1, <3>3 DEF t
    <3>. HIDE DEF old
    <3>5. Found(file, f) = Found(old, f)
      BY <1>2, <3>4, FoundSame
    <3>. QED  BY <3>5 DEF old
  <2>. QED  BY <2>2, <2>3
<1>8. Shows(fields)
  BY <1>6, <1>7, Zenon DEF Shows, file, fi
<1>. QED  BY <1>5, <1>8 DEF to

\* A write goes on as it is from one entry to the next.
LEMMA EntryGoesOn ==
  ASSUME SidecarInv, WriteEntry
  PROVE  /\ writer'.at # "idle" /\ writer'.how = writer.how /\ writer'.fi = writer.fi
         /\ writer'.to = writer.to
<1>1. writer.at = "entries" /\ writer' = Onward("header")
  BY DEF WriteEntry
<1>2. writer \in Writers /\ writer.next \in DOMAIN writer.to
  BY <1>1 DEF SidecarInv, TypeOK, WriterOK
<1>. DEFINE w == Onward("header")
<1>3. /\ w.how = writer.how /\ w.fi = writer.fi /\ w.to = writer.to
      /\ w.at = writer.at \/ w.at = "header"
  BY <1>2, OnwardProperties
<1>. HIDE DEF w
<1>4. writer' = w
  BY <1>1 DEF w
<1>. QED  BY <1>1, <1>3, <1>4

\* What the steps that show nothing leave to be found.
LEMMA NothingShown ==
  ASSUME SidecarInv, [Next]_vars,
         ~Rename, ~(WriteEntry /\ writer.how = "in place"), ~(WriteHeader /\ writer.how = "fresh")
  PROVE  \A f \in Owned : Found(container', f) = Found(container, f)
<1>1. container \in Files /\ container' \in Files /\ writer \in Writers /\ WriterOK(writer, container)
  BY SidecarNext DEF SidecarInv, TypeOK
<1>2. CASE container' = container
  BY <1>2
<1>3. CASE \E n \in 1 .. MaxLength : ForkWrite(n) /\ container' # container
  <2>1. PICK n \in 1 .. MaxLength : ForkWrite(n) /\ container' # container
    BY <1>3
  <2>2. n \in Nat
    <3>1. MaxLength \in Nat
      BY SidecarAssumption
    <3>. QED  BY <3>1, Within, Zenon
  <2>3. /\ Carried(container, container', TRUE)
        /\ \A k \in DOMAIN container.table :
             container.table[k].id # "fork" => SameEntry(k, container, container')
    BY <2>1, <2>2, ForkWriteCarries
  <2>4. /\ Readable(container) /\ Readable(container')
        /\ Len(container'.table) = Len(container.table)
        /\ \A k \in DOMAIN container.table : container'.table[k].id = container.table[k].id
    BY <2>3 DEF Carried
  <2>. QED  BY <1>1, <2>3, <2>4, OwnedSame
<1>4. CASE WriteHeader /\ writer.how = "in place"
  <2>1. /\ Carried(container, container', FALSE)
        /\ \A k \in DOMAIN container.table :
             container.table[k].id # "fork" => SameEntry(k, container, container')
    BY <1>4, HeaderCarries
  <2>2. /\ Readable(container) /\ Readable(container')
        /\ Len(container'.table) = Len(container.table)
        /\ \A k \in DOMAIN container.table : container'.table[k].id = container.table[k].id
    BY <2>1 DEF Carried
  <2>. QED  BY <1>1, <2>1, <2>2, OwnedSame
<1>5. CASE WriteEntry /\ writer.how = "fresh"
  <2>1. \E bytes : container' = [container EXCEPT !.bytes = bytes]
    BY <1>5, Zenon DEF WriteEntry, WriteTarget, Target
  <2>2. container.table = NoTable /\ container'.table = NoTable
    BY <1>1, <1>5, <2>1 DEF WriterOK, Files
  <2>3. ~Readable(container) /\ ~Readable(container')
    BY <1>1, <2>2, ReadableProperties
  <2>. QED  BY <2>3 DEF Found, Readable
<1>6. CASE (WriteEntry \/ WriteHeader) /\ writer.how = "rewrite"
  BY <1>6 DEF WriteEntry, WriteHeader, WriteTarget
<1>7. CASE (WriteEntry \/ WriteHeader) /\ writer.how = "none"
  BY <1>1, <1>7 DEF WriteEntry, WriteHeader, WriterOK
<1>8. writer.how \in {"none", "fresh", "rewrite", "in place"}
  BY <1>1 DEF Writers
<1>9. \/ container' = container \/ WriteEntry \/ WriteHeader
      \/ \E n \in 1 .. MaxLength : ForkWrite(n) /\ container' # container
  BY DEF Next, MakeScratch, CopyEntry, Fail, Stop, ForkOpen, ForkClose, ForkSeek, WriteBegin, vars
<1>. QED  BY <1>2, <1>3, <1>4, <1>5, <1>6, <1>7, <1>8, <1>9

\* A reader, whenever it comes, finds each field as some write wanted it, and of a first
\* write or a rewrite all or nothing: the sidecar is such a record (write_dbl_entries,
\* relayout_dbl).
THEOREM AlwaysReadsAsRecord == Spec => ReadsAsRecord
<1>. DEFINE Shown == [id \in Owned |-> Found(container, id)]
            Wanted == IF writer.at = "idle" THEN NotWanted
                      ELSE [to |-> [id \in Owned |-> Payload(id, writer.fi)],
                            whole |-> writer.how # "in place",
                            has |-> Owned \cap Entries(writer.to)]
<1>1. Init => Wanted = NotWanted
  BY DEF Init, NoWriter, Writing
<1>2. SidecarInv /\ MovedInv /\ [Next]_vars => [Record!Next]_(Record!vars)
  <2>. SUFFICES ASSUME SidecarInv, MovedInv, [Next]_vars PROVE [Record!Next]_(Record!vars)
    OBVIOUS
  <2>1. ASSUME \A f \in Owned : Found(container', f) = Found(container, f)
        PROVE  [Record!Next]_(Record!vars)
    <3>1. Shown' = Shown
      BY <2>1
    <3>. HIDE DEF Shown, Wanted
    <3>2. [(Shown' = Shown /\ Wanted' # Wanted)]_(<<Shown, Wanted>>)
      BY <3>1
    <3>. QED  BY <3>2 DEF Record!Next, Record!Want, Record!vars, Shown, Wanted
  <2>2. ASSUME writer.at # "idle", writer.how = "in place", WriteEntry,
               NEW fields \in SUBSET (Owned \cap Entries(writer.to)), Shows(fields)
        PROVE  [Record!Next]_(Record!vars)
    <3>1. CASE fields = {}
      <4>1. \A f \in Owned : Found(container', f) = Found(container, f)
        BY <2>2, <3>1 DEF Shows
      <4>. QED  BY <2>1, <4>1
    <3>2. CASE fields # {}
      <4>1. /\ writer'.at # "idle" /\ writer'.how = writer.how /\ writer'.fi = writer.fi
            /\ writer'.to = writer.to
        BY <2>2, EntryGoesOn
      <4>2. Wanted' = Wanted /\ Wanted.has # {} /\ ~Wanted.whole
            /\ Wanted.to = [id \in Owned |-> Payload(id, writer.fi)]
            /\ fields \in SUBSET Wanted.has
        BY <2>2, <3>2, <4>1
      <4>3. Wanted # NotWanted
        BY <4>2 DEF NotWanted
      <4>4. Shown' = [f \in DOMAIN Shown |-> IF f \in fields THEN Wanted.to[f] ELSE Shown[f]]
        BY <2>2, <4>2 DEF Shows
      <4>. HIDE DEF Shown, Wanted
      <4>. QED  BY <4>2, <4>3, <4>4 DEF Record!Next, Record!Settle, Shown, Wanted
    <3>. QED  BY <3>1, <3>2
  <2>3. ASSUME writer.at # "idle", writer.how # "in place", writer' = NoWriter,
               Shows(Owned \cap Entries(writer.to))
        PROVE  [Record!Next]_(Record!vars)
    <3>1. Wanted' = NotWanted
      BY <2>3 DEF NoWriter, Writing
    <3>2. /\ Wanted.whole /\ Wanted.has = Owned \cap Entries(writer.to)
          /\ Wanted.to = [id \in Owned |-> Payload(id, writer.fi)]
      BY <2>3
    <3>3. Wanted # NotWanted
      BY <3>2 DEF NotWanted
    <3>4. Shown' = [f \in DOMAIN Shown |-> IF f \in Wanted.has THEN Wanted.to[f] ELSE Shown[f]]
      BY <2>3, <3>2 DEF Shows
    <3>. HIDE DEF Shown, Wanted
    <3>. QED  BY <3>1, <3>2, <3>3, <3>4 DEF Record!Next, Record!Settle, Shown, Wanted
  <2>4. CASE WriteEntry /\ writer.how = "in place"
    <3>1. writer.at # "idle"
      BY <2>4 DEF WriteEntry
    <3>. QED  BY <2>2, <2>4, <3>1, EntryShows
  <2>5. CASE WriteHeader /\ writer.how = "fresh"
    <3>1. writer.at # "idle" /\ writer' = NoWriter /\ writer.how # "in place"
      BY <2>5 DEF WriteHeader
    <3>. QED  BY <2>3, <2>5, <3>1, FreshShows
  <2>6. CASE Rename
    <3>1. writer.at = "rename" /\ writer' = NoWriter
      BY <2>6 DEF Rename
    <3>2. writer.how # "in place"
      BY <3>1 DEF SidecarInv, WriterOK
    <3>. QED  BY <2>3, <2>6, <3>1, <3>2, RenameShows
  <2>. QED  BY <2>1, <2>4, <2>5, <2>6, NothingShown
<1>3. Spec => Wanted = NotWanted /\ [][Record!Next]_(Record!vars)
  BY <1>1, <1>2, MovedAlways, PTL DEF Spec
<1>. QED  BY <1>3, PTL DEF ReadsAsRecord, Record!Spec

----------------------------------------------------------------------------
(* Where a rewrite has put the fork.                                       *)

\* relayout_dbl() puts the fork behind all else, and no farther than that ends.
LEMMA ForkIsLast ==
  ASSUME NEW table \in Seq(Entry), NEW comment \in Nat, NEW new, new = Relaid(table, comment),
         OneFork(new), NEW k \in DOMAIN new, new[k].id = "fork"
  PROVE  /\ EndOf(new[k]) \in Nat /\ TableEnd(new) <= EndOf(new[k])
         /\ \A j \in DOMAIN new : EndOf(new[j]) <= EndOf(new[k])
         /\ \A size \in Nat :
              TableEnd(new) <= size /\ AllReached(new, size) => EndOf(new[k]) <= size
<1>. DEFINE n == Len(table)
<1>0. /\ new \in Seq(Entry) /\ Len(new) = Len(table)
      /\ \E others, forks : Laid(table, new, others, forks)
  BY RelaidPlaces, Zenon
<1>1. /\ new \in Seq(Entry) /\ Len(new) = n /\ n \in Nat /\ DOMAIN new = 1 .. n
      /\ TableEnd(new) = TableEnd(table)
  <2>1. n \in Nat /\ DOMAIN new = 1 .. Len(new)
    BY <1>0
  <2>. QED  BY <1>0, <2>1, Zenon DEF TableEnd
<1>2. PICK others, forks : Laid(table, new, others, forks)
  BY <1>0, Zenon
<1>. HIDE DEF n
<1>3. /\ \A j \in 0 .. n : others[j] \in Nat /\ forks[j] \in Nat
      /\ others[0] = TableEnd(new) /\ forks[0] = others[n]
      /\ \A i, j \in 0 .. n : i <= j => others[i] <= others[j] /\ forks[i] <= forks[j]
      /\ \A j \in 1 .. n :
           /\ new[j].id # "fork" => /\ new[j].offset = others[j - 1] /\ EndOf(new[j]) = others[j]
                                    /\ forks[j] = forks[j - 1]
           /\ new[j].id = "fork" => /\ new[j].offset = forks[j - 1] /\ EndOf(new[j]) = forks[j]
                                    /\ others[j] = others[j - 1]
  BY <1>1, <1>2, Zenon DEF Laid, n
<1>4. \A j \in 1 .. n : /\ j \in 0 .. n /\ j - 1 \in 0 .. n /\ 0 <= j /\ j <= n
                        /\ 0 \in 0 .. n /\ n \in 0 .. n /\ 0 <= n
  BY <1>1
<1>5. k \in 1 .. n /\ EndOf(new[k]) = forks[k] /\ forks[k] \in Nat
  BY <1>1, <1>3, <1>4
<1>6. ASSUME NEW j \in 1 .. n PROVE others[j] <= forks[k] /\ others[0] <= forks[k]
  <2>1. others[j] <= others[n] /\ others[0] <= others[n] /\ forks[0] <= forks[k]
    BY <1>3, <1>4, <1>5
  <2>2. others[j] \in Nat /\ others[0] \in Nat /\ others[n] \in Nat /\ forks[k] \in Nat
    BY <1>3, <1>4, <1>5
  <2>. QED  BY <1>3, <2>1, <2>2
<1>7. ASSUME NEW j \in DOMAIN new PROVE EndOf(new[j]) <= EndOf(new[k])
  <2>1. j \in 1 .. n
    BY <1>1
  <2>2. CASE new[j].id = "fork"
    <3>1. j = k
      BY <2>2 DEF OneFork
    <3>. QED  BY <1>5, <3>1
  <2>3. CASE new[j].id # "fork"
    BY <1>3, <1>5, <1>6, <2>1, <2>3
  <2>. QED  BY <2>2, <2>3
<1>8. ASSUME NEW size \in Nat, TableEnd(new) <= size, AllReached(new, size)
      PROVE  EndOf(new[k]) <= size
  <2>. DEFINE T == {j \in 0 .. n : others[j] <= size}
              U == {j \in 0 .. n : forks[j] <= size}
  <2>1. ASSUME NEW j \in 1 .. n
        PROVE  EndOf(new[j]) <= size \/ EndOf(new[j]) = new[j].offset
    <3>1. /\ new[j].offset \in Nat /\ new[j].length \in Nat
          /\ EndOf(new[j]) = new[j].offset + new[j].length
      BY <1>1, EntryProperties
    <3>2. Reached(new[j], size)
      BY <1>1, <1>8 DEF AllReached
    <3>. QED  BY <3>1, <3>2 DEF Reached
  <2>2. 0 \in T
    BY <1>1, <1>3, <1>8
  <2>3. ASSUME NEW j \in 1 .. n, j - 1 \in T PROVE j \in T
    <3>1. others[j - 1] <= size /\ j \in 0 .. n
      BY <1>4, <2>3
    <3>2. others[j] <= size
      BY <1>3, <2>1, <3>1
    <3>. QED  BY <3>1, <3>2
  <2>. HIDE DEF T
  <2>4. 0 .. n \subseteq T
    BY <1>1, <2>2, <2>3, UpTo
  <2>5. 0 \in U
    <3>1. n \in 0 .. n /\ 0 \in 0 .. n
      BY <1>1
    <3>2. others[n] <= size
      BY <2>4, <3>1 DEF T
    <3>. QED  BY <1>3, <3>1, <3>2
  <2>6. ASSUME NEW j \in 1 .. n, j - 1 \in U PROVE j \in U
    <3>1. forks[j - 1] <= size /\ j \in 0 .. n
      BY <1>4, <2>6
    <3>2. forks[j] <= size
      BY <1>3, <2>1, <3>1
    <3>. QED  BY <3>1, <3>2
  <2>. HIDE DEF U
  <2>7. 0 .. n \subseteq U
    BY <1>1, <2>5, <2>6, UpTo
  <2>8. forks[k] <= size
    BY <1>4, <1>5, <2>7 DEF U
  <2>. QED  BY <1>5, <2>8
<1>. QED  BY <1>3, <1>5, <1>6, <1>7, <1>8

\* A file is no longer than a table's fork is far.
NoLonger(table, size) ==
  \A k \in DOMAIN table : table[k].id = "fork" => size <= EndOf(table[k])

\* The scratch file of a rewrite ends no later than its fork will.
GrowInv ==
  /\ OneFork(container.table)
  /\ writer.how = "rewrite" /\ writer.at # "scratch" => NoLonger(writer.to, Len(scratch.bytes))

\* A rewrite has one fork where its container has.
LEMMA RewriteFork ==
  ASSUME TypeOK, WriterOK(writer, container), writer.how = "rewrite", OneFork(container.table)
  PROVE  /\ OneFork(writer.to)
         /\ \E comment \in Nat : writer.to = Relaid(writer.from, comment)
<1>1. /\ DOMAIN writer.to = DOMAIN container.table
      /\ SameButForks(container.table, writer.from)
      /\ \A j \in DOMAIN writer.to : writer.to[j].id = writer.from[j].id
  BY RewriteProperties
<1>2. \A j \in DOMAIN writer.to : writer.to[j].id = container.table[j].id
  BY <1>1 DEF SameButForks
<1>3. OneFork(writer.to)
  BY <1>1, <1>2, Zenon DEF OneFork
<1>4. CommentLen(writer.fi) \in Nat /\ writer.to = Relaid(writer.from, CommentLen(writer.fi))
  BY SidecarAssumption DEF TypeOK, Writers, CommentLen, WriterOK
<1>. QED  BY <1>3, <1>4

\* What an entry takes, and the header, leaves the file no longer than its fork is far.
LEMMA StaysNoLonger ==
  ASSUME TypeOK, WriterOK(writer, container), writer.how = "rewrite", OneFork(container.table),
         NEW bytes \in Seq(ByteSet), NoLonger(writer.to, Len(bytes)),
         NEW offset \in Nat, NEW cells \in Seq(ByteSet), NEW new,
         IsWritten(new, bytes, offset, cells),
         \/ offset + Len(cells) <= TableEnd(writer.to) \/ cells = <<>>
         \/ \E j \in DOMAIN writer.to : offset + Len(cells) <= EndOf(writer.to[j])
  PROVE  NoLonger(writer.to, Len(new))
<1>. DEFINE to == writer.to
<1>1. to \in Seq(Entry) /\ writer.from \in Seq(Entry)
  BY RewriteProperties
<1>2. OneFork(to) /\ \E comment \in Nat : to = Relaid(writer.from, comment)
  BY RewriteFork
<1>3. Len(bytes) \in Nat /\ Len(cells) \in Nat /\ Len(new) \in Nat /\ TableEnd(to) \in Nat
  BY <1>1, EntryProperties DEF IsWritten
<1>4. Len(new) = Len(bytes) \/ (cells # <<>> /\ Len(new) = offset + Len(cells))
  BY DEF IsWritten
<1>. HIDE DEF to
<1>5. ASSUME NEW k \in DOMAIN to, to[k].id = "fork" PROVE Len(new) <= EndOf(to[k])
  <2>. DEFINE end == EndOf(to[k])
  <2>1. /\ end \in Nat /\ TableEnd(to) <= end
        /\ \A j \in DOMAIN to : EndOf(to[j]) <= end
    BY <1>1, <1>2, <1>5, ForkIsLast
  <2>2. Len(bytes) <= end
    BY <1>5 DEF NoLonger, to
  <2>. SUFFICES Len(new) <= end
    OBVIOUS
  <2>. HIDE DEF end
  <2>3. CASE Len(new) = Len(bytes)
    BY <2>2, <2>3
  <2>4. CASE offset + Len(cells) <= TableEnd(to) /\ Len(new) = offset + Len(cells)
    BY <1>3, <2>1, <2>4
  <2>5. CASE /\ \E j \in DOMAIN to : offset + Len(cells) <= EndOf(to[j])
             /\ Len(new) = offset + Len(cells)
    <3>1. PICK j \in DOMAIN to : offset + Len(cells) <= EndOf(to[j])
      BY <2>5
    <3>2. EndOf(to[j]) \in Nat
      BY <1>1, EntryProperties
    <3>. QED  BY <1>3, <2>1, <2>5, <3>1, <3>2
  <2>6. \/ offset + Len(cells) <= TableEnd(to) \/ cells = <<>>
        \/ \E j \in DOMAIN to : offset + Len(cells) <= EndOf(to[j])
    BY DEF to
  <2>. QED  BY <1>4, <2>3, <2>4, <2>5, <2>6, Zenon
<1>. QED  BY <1>5 DEF NoLonger, to

\* Nothing is farther than the fork, as entries are copied,
LEMMA CopyEntryGrows ==
  ASSUME SidecarInv, GrowInv, CopyEntry
  PROVE  GrowInv'
<1>. DEFINE next == writer.next
            from == writer.from[next]
            to == writer.to[next]
            cells == IF to.id = "comment" THEN <<>> ELSE Contents(container, from)
            new == Overwritten(scratch.bytes, to.offset, cells)
<1>1. /\ writer.at = "copy" /\ scratch' = [scratch EXCEPT !.bytes = new]
      /\ writer' = Onward("entries") /\ container' = container
  BY DEF CopyEntry
<1>2. /\ TypeOK /\ WriterOK(writer, container)
  BY DEF SidecarInv
<1>3. /\ writer.how = "rewrite" /\ next \in DOMAIN writer.to
      /\ OneFork(container.table) /\ NoLonger(writer.to, Len(scratch.bytes))
  BY <1>1, <1>2 DEF WriterOK, GrowInv
<1>4. /\ container \in Files /\ scratch \in Files /\ writer \in Writers
      /\ scratch.bytes \in Seq(ByteSet)
  BY <1>2 DEF TypeOK, Files
<1>5. writer'.to = writer.to /\ writer'.how = writer.how
  BY <1>1, <1>3, <1>4, OnwardProperties
<1>6. /\ writer.from \in Seq(Entry) /\ writer.to \in Seq(Entry)
      /\ DOMAIN writer.from = DOMAIN writer.to
      /\ Reached(from, Len(container.bytes))
      /\ to.id # "comment" => to.length = from.length
  BY <1>2, <1>3, RewriteProperties
<1>7. /\ from \in Entry /\ to.offset \in Nat /\ EndOf(to) = to.offset + to.length
  BY <1>3, <1>6, EntryProperties
<1>8. cells \in Seq(ByteSet) /\ (cells = <<>> \/ Len(cells) = to.length)
  <2>1. CASE to.id = "comment"
    BY <2>1, EmptySeq
  <2>2. CASE to.id # "comment"
    <3>1. cells = Contents(container, from)
      BY <2>2
    <3>. HIDE DEF cells, from, to
    <3>. QED  BY <1>4, <1>6, <1>7, <2>2, <3>1, ContentsProperties
  <2>. QED  BY <2>1, <2>2
<1>9. IsWritten(new, scratch.bytes, to.offset, cells)
  BY <1>4, <1>7, <1>8, OverwrittenProperties
<1>10. cells = <<>> \/ to.offset + Len(cells) <= EndOf(to)
  BY <1>7, <1>8
<1>. HIDE DEF cells, new
<1>11. NoLonger(writer.to, Len(new))
  BY <1>2, <1>3, <1>4, <1>7, <1>8, <1>9, <1>10, StaysNoLonger
<1>12. scratch'.bytes = new
  BY <1>1, <1>4 DEF Files
<1>. QED  BY <1>1, <1>3, <1>5, <1>11, <1>12 DEF GrowInv

\* and as they are written,
LEMMA WriteEntryGrows ==
  ASSUME SidecarInv, GrowInv, WriteEntry, writer.how = "rewrite"
  PROVE  GrowInv'
<1>. DEFINE next == writer.next
            to == writer.to[next]
            cells == Payload(to.id, writer.fi)
            new == Overwritten(scratch.bytes, to.offset, cells)
<1>1. /\ writer.at = "entries" /\ scratch' = [scratch EXCEPT !.bytes = new]
      /\ writer' = Onward("header") /\ container' = container
  BY DEF WriteEntry, WriteTarget, Target
<1>2. TypeOK /\ WriterOK(writer, container)
  BY DEF SidecarInv
<1>3. /\ next \in DOMAIN writer.to /\ Commented(writer.to, CommentLen(writer.fi))
      /\ OneFork(container.table) /\ NoLonger(writer.to, Len(scratch.bytes))
  BY <1>1, <1>2 DEF WriterOK, GrowInv
<1>4. /\ scratch \in Files /\ writer \in Writers /\ scratch.bytes \in Seq(ByteSet)
      /\ writer.fi.write \in Nat /\ writer.fi.comment \in Nat
  BY <1>2 DEF TypeOK, Files, Writers
<1>5. writer'.to = writer.to /\ writer'.how = writer.how
  BY <1>1, <1>3, <1>4, OnwardProperties
<1>6. writer.to \in Seq(Entry) /\ Apart(writer.to)
  BY <1>2, RewriteProperties
<1>7. to.offset \in Nat /\ to.length \in Nat /\ EndOf(to) = to.offset + to.length
  BY <1>3, <1>6, EntryProperties
<1>8. cells \in Seq(ByteSet) /\ Len(cells) <= to.length
  BY <1>3, <1>4, <1>6, PayloadProperties
<1>9. IsWritten(new, scratch.bytes, to.offset, cells)
  BY <1>4, <1>7, <1>8, OverwrittenProperties
<1>. HIDE DEF cells, new
<1>10. to.offset + Len(cells) <= EndOf(to)
  <2>1. Len(cells) \in Nat
    BY <1>8
  <2>. QED  BY <1>7, <1>8, <2>1
<1>11. NoLonger(writer.to, Len(new))
  BY <1>2, <1>3, <1>4, <1>7, <1>8, <1>9, <1>10, StaysNoLonger
<1>12. scratch'.bytes = new
  BY <1>1, <1>4 DEF Files
<1>. QED  BY <1>1, <1>3, <1>5, <1>11, <1>12 DEF GrowInv

\* and the header is.
LEMMA WriteHeaderGrows ==
  ASSUME SidecarInv, GrowInv, WriteHeader, writer.how = "rewrite"
  PROVE  GrowInv'
<1>. DEFINE to == writer.to
            cells == HeadOf(to)
            new == Overwritten(scratch.bytes, 0, cells)
<1>1. /\ scratch' = File(to, new) /\ writer' = [writer EXCEPT !.at = "rename"]
      /\ container' = container /\ writer.at = "header"
  BY DEF WriteHeader, WriteTarget, Target
<1>2. TypeOK /\ WriterOK(writer, container)
  BY DEF SidecarInv
<1>3. OneFork(container.table) /\ NoLonger(to, Len(scratch.bytes))
  BY <1>1 DEF GrowInv
<1>4. scratch \in Files /\ writer \in Writers /\ scratch.bytes \in Seq(ByteSet)
  BY <1>2 DEF TypeOK, Files
<1>5. writer'.to = to /\ writer'.how = writer.how
  BY <1>1, <1>4 DEF Writers
<1>6. to \in Seq(Entry)
  BY <1>2, RewriteProperties
<1>7. cells \in Seq(ByteSet) /\ Len(cells) = TableEnd(to) /\ TableEnd(to) \in Nat
  BY <1>6, HeadProperties
<1>8. IsWritten(new, scratch.bytes, 0, cells)
  BY <1>4, <1>7, OverwrittenProperties
<1>. HIDE DEF cells, new
<1>9. 0 + Len(cells) <= TableEnd(to)
  BY <1>7
<1>. HIDE DEF to
<1>10. NoLonger(to, Len(new))
  BY <1>2, <1>3, <1>4, <1>7, <1>8, <1>9, StaysNoLonger DEF to
<1>11. scratch'.bytes = new
  BY <1>1 DEF File
<1>. QED  BY <1>1, <1>3, <1>5, <1>10, <1>11 DEF GrowInv

\* Every step keeps that: what comes in place of a container has no other fork.
LEMMA GrowNext ==
  ASSUME SidecarInv, MovedInv, GrowInv, [Next]_vars
  PROVE  GrowInv'
<1>1. OneFork(container'.table)
  <2>1. OneFork(container.table)
    BY DEF GrowInv
  <2>2. CASE \E changed \in BOOLEAN : Carried(container, container', changed)
    <3>1. /\ Len(container'.table) = Len(container.table)
          /\ \A k \in DOMAIN container.table : container'.table[k].id = container.table[k].id
      BY <2>2 DEF Carried
    <3>2. container.table \in Seq(Entry) /\ container'.table \in Seq(Entry)
      BY SidecarNext DEF SidecarInv, TypeOK, Files
    <3>3. DOMAIN container'.table = DOMAIN container.table
      BY <3>1, <3>2, EntryProperties
    <3>. QED  BY <2>1, <3>1, <3>3, Zenon DEF OneFork
  <2>. QED  BY <2>1, <2>2, StepCarries
<1>2. ASSUME writer'.how # "rewrite" \/ writer'.at = "scratch" PROVE GrowInv'
  BY <1>1, <1>2 DEF GrowInv
<1>3. CASE CopyEntry
  BY <1>3, CopyEntryGrows
<1>4. CASE (WriteEntry \/ WriteHeader) /\ writer.how = "rewrite"
  BY <1>4, WriteEntryGrows, WriteHeaderGrows
<1>5. CASE WriteEntry /\ writer.how # "rewrite"
  <2>1. writer'.how = writer.how
    <3>1. writer \in Writers /\ writer.next \in DOMAIN writer.to
      BY <1>5 DEF SidecarInv, TypeOK, WriterOK, WriteEntry
    <3>. QED  BY <1>5, <3>1, OnwardProperties DEF WriteEntry
  <2>. QED  BY <1>2, <1>5, <2>1
<1>6. CASE WriteHeader /\ writer.how # "rewrite"
  <2>1. writer'.how # "rewrite"
    BY <1>6 DEF WriteHeader, NoWriter, Writing
  <2>. QED  BY <1>2, <2>1
<1>7. CASE MakeScratch
  <2>1. writer \in Writers /\ scratch' = EmptyFile /\ writer' = [writer EXCEPT !.at = "copy"]
    BY <1>7 DEF SidecarInv, TypeOK, MakeScratch
  <2>2. Len(scratch'.bytes) = 0 /\ writer'.to = writer.to /\ writer.to \in Seq(Entry)
    BY <2>1, EmptySeq DEF EmptyFile, File, Writers
  <2>3. NoLonger(writer'.to, Len(scratch'.bytes))
    BY <2>2, EntryProperties DEF NoLonger
  <2>. QED  BY <1>1, <2>3 DEF GrowInv
<1>8. CASE Rename \/ Fail \/ Stop
  <2>1. writer'.how # "rewrite"
    BY <1>8 DEF Rename, Fail, Stop, NoWriter, Writing
  <2>. QED  BY <1>2, <2>1
<1>9. CASE \E comment \in 0 .. MaxComment + 1, length \in 0 .. MaxLength + 1 :
             WriteBegin(comment, length)
  <2>1. writer'.how = "rewrite" => writer'.at = "scratch"
    BY <1>9 DEF WriteBegin, NoWriter, Writing
  <2>. QED  BY <1>2, <2>1
<1>10. CASE \/ ForkOpen \/ ForkClose \/ UNCHANGED vars
            \/ \E n \in 1 .. MaxLength : ForkWrite(n)
            \/ \E to \in 0 .. MaxLength : ForkSeek(to)
  <2>1. writer' = writer /\ scratch' = scratch
    BY <1>10 DEF ForkOpen, ForkClose, ForkWrite, ForkSeek, vars
  <2>. QED  BY <1>1, <2>1 DEF GrowInv
<1>. QED  BY <1>3, <1>4, <1>5, <1>6, <1>7, <1>8, <1>9, <1>10 DEF Next

\* A file that a rewrite has moved to ends with its fork.
LEMMA EndsWithFork ==
  ASSUME SidecarInv, GrowInv, Rename, NEW k \in DOMAIN scratch.table,
         scratch.table[k].id = "fork"
  PROVE  EndOf(scratch.table[k]) = Len(scratch.bytes)
<1>. DEFINE to == writer.to
            size == Len(scratch.bytes)
<1>1. writer.at = "rename"
  BY DEF Rename
<1>2. TypeOK /\ WriterOK(writer, container) /\ MadeOK(writer, container, scratch)
  BY DEF SidecarInv
<1>3. /\ writer.how = "rewrite" /\ scratch.table = to /\ TableEnd(to) <= size
      /\ Making(writer, scratch.bytes)
  BY <1>1, <1>2 DEF WriterOK, MadeOK
<1>4. OneFork(container.table) /\ NoLonger(to, size)
  BY <1>1, <1>3 DEF GrowInv
<1>5. OneFork(to) /\ \E comment \in Nat : to = Relaid(writer.from, comment)
  BY <1>2, <1>3, <1>4, RewriteFork
<1>6. size \in Nat /\ to \in Seq(Entry) /\ writer.from \in Seq(Entry)
  BY <1>2, <1>3, RewriteProperties DEF TypeOK, Files
<1>7. AllReached(to, size)
  <2>1. \A j \in DOMAIN to : MadeTo(writer, j)
    BY <1>1 DEF MadeTo, WrittenTo, CopiedTo
  <2>. QED  BY <1>3, <2>1 DEF Making, AllReached
<1>. HIDE DEF to, size
<1>8. k \in DOMAIN to /\ to[k].id = "fork"
  BY <1>3
<1>9. EndOf(to[k]) \in Nat /\ EndOf(to[k]) <= size
  BY <1>3, <1>5, <1>6, <1>7, <1>8, ForkIsLast
<1>10. size <= EndOf(to[k])
  BY <1>4, <1>8 DEF NoLonger
<1>11. EndOf(to[k]) = size
  BY <1>6, <1>9, <1>10
<1>. QED  BY <1>3, <1>11 DEF size

\* A fork that a rewrite has placed can grow, wherever it was (relayout_dbl), when no
\* container at first has two: of two forks a reader takes the first, and the other is
\* behind it.
THEOREM AlwaysRewrittenCanGrow ==
  ASSUME \A file \in Containers : OneFork(file.table)
  PROVE  Spec => RewrittenCanGrow
<1>1. Init => GrowInv
  BY DEF Init, GrowInv, NoWriter, Writing
<1>2. SidecarInv /\ MovedInv /\ GrowInv /\ [Next]_vars => GrowInv'
  BY GrowNext
<1>3. Spec => [](SidecarInv /\ GrowInv)
  BY <1>1, <1>2, MovedAlways, PTL DEF Spec
<1>4. SidecarInv /\ GrowInv /\ [Next]_vars =>
        [Rename /\ Has(container'.table, "fork") =>
           Room(container', FirstOf(container'.table, "fork")) = MaxLength]_vars
  <2>. SUFFICES ASSUME SidecarInv, GrowInv, Rename, Has(container'.table, "fork")
                PROVE  Room(container', FirstOf(container'.table, "fork")) = MaxLength
    OBVIOUS
  <2>1. container' = scratch /\ scratch.table \in Seq(Entry)
    BY DEF Rename, SidecarInv, TypeOK, Files
  <2>2. PICK k \in DOMAIN scratch.table :
          scratch.table[k].id = "fork" /\ FirstOf(scratch.table, "fork") = scratch.table[k]
    BY <2>1, FirstOfProperties
  <2>3. EndOf(FirstOf(scratch.table, "fork")) = Len(scratch.bytes)
    BY <2>2, EndsWithFork
  <2>. QED  BY <2>1, <2>3, Zenon DEF Room
<1>. QED  BY <1>3, <1>4, PTL DEF RewrittenCanGrow, Spec
=============================================================================
