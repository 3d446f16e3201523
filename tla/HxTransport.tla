---------------------------- MODULE HxTransport ----------------------------
(***************************************************************************)
(* What the bytes of a connection go through after a HOPE login (hxhope's    *)
(* Sender and Receiver), as operators on the state of one direction. Bytes   *)
(* are cells: a transaction is Hdr cells of header, each of which says which  *)
(* transaction it is of and how long that is, and then its body.           *)
(***************************************************************************)
EXTENDS Naturals, Sequences, SequencesExt

CONSTANTS
  Hdr,            \* HDR, 22 in the code
  CountLen,       \* the field count's two bytes, which a DataSize counts
  MaxBody,        \* MAX_BODY, 1 MiB in the code
  MaxRounds,      \* MAX_ROUNDS, 63 in the code
  Block,          \* BLOWFISH_OFB64_BLOCK_SIZE, 8 in the code
  MaxPlaintext,   \* AEAD_MAX_PLAINTEXT: how much one record holds
  MaxOutput,      \* MAX_OUTPUT: how much one decode may decompress to
  MaxHeld         \* MAX_PENDING: how much of a compressed unit is held

ASSUME TransportAssumption ==
  /\ Hdr \in Nat \ {0} /\ CountLen \in Nat /\ MaxBody \in Nat
  /\ MaxRounds \in Nat /\ Block \in Nat \ {0}
  /\ MaxPlaintext \in Nat \ {0} /\ MaxOutput \in Nat /\ MaxHeld \in Nat

\* A cell: the k-th of transaction i, whose data size is n, and in the first cell
\* of a header the rekey marker; compressed or not.
Cell(kind, i, k, n) ==
  [kind |-> kind, i |-> i, k |-> k, n |-> n, mark |-> 0, packed |-> FALSE]
Noise == Cell("noise", 0, 0, 0)

\* A cell as it is on the wire, and the key it is under: <<>> for none.
Wired(cell, under) == [cell |-> cell, under |-> under]
Bare(cells) == [j \in DOMAIN cells |-> Wired(cells[j], <<>>)]
Under(w, key) == IF w.under = key THEN w.cell ELSE Noise
Opened(ws) == [j \in DOMAIN ws |-> Under(ws[j], <<>>)]

----------------------------------------------------------------------------
(* Blowfish. The key is one of the login's two, turned so many rounds; a     *)
(* block of keystream is made of the block before it and the key.          *)

Blowfish(key) == [key |-> key, turned |-> 0, ivec |-> <<>>, num |-> 0]

\* rekey() and set_key(): the key turns, the keystream goes on where it is.
Turned(bf, rounds) == [bf EXCEPT !.turned = @ + rounds]

\* The state after one cell, whose key that is.
Stepped(bf) ==
  [bf EXCEPT !.ivec = IF bf.num = 0 THEN Append(@, bf.turned) ELSE @,
             !.num = (@ + 1) % Block]
KeyOf(stepped) == <<stepped.key, stepped.ivec, stepped.num>>

\* crypt_in_place(): the same both ways. A state, and what has been done so far.
Sealed(bf, cells) ==
  FoldLeft(LAMBDA acc, cell :
             LET next == Stepped(acc.bf)
             IN  [bf |-> next, done |-> Append(acc.done, Wired(cell, KeyOf(next)))],
           [bf |-> bf, done |-> <<>>], cells)
Unsealed(bf, ws) ==
  FoldLeft(LAMBDA acc, w :
             LET next == Stepped(acc.bf)
             IN  [bf |-> next, done |-> Append(acc.done, Under(w, KeyOf(next)))],
           [bf |-> bf, done |-> <<>>], ws)

\* body_len(): what is left of a transaction after its header.
BodyFits(size) == size >= CountLen /\ size - CountLen <= MaxBody
BodyLen(size) == size - CountLen

----------------------------------------------------------------------------
(* Compression. One unit for each call; LZ4 reads a unit when it is whole,    *)
(* the others as it comes.                                                 *)

End == Cell("end of unit", 0, 0, 0)

Compressed(compression, cells) ==
  IF compression = "none" THEN cells
  ELSE Append([j \in DOMAIN cells |-> [cells[j] EXCEPT !.packed = TRUE]], End)

\* Ready, were no more than one unit read in a call.
MutReady(compression, cells) ==
  IF compression = "LZ4"
    THEN LET ends == {j \in DOMAIN cells : cells[j] = End}
         IN  IF ends = {} THEN 0 ELSE Min(ends)
    ELSE Len(cells)

\* How much of what is held, and just came, a decompressor reads.
Ready(compression, cells) ==
  IF compression = "LZ4"
    THEN LET ends == {j \in DOMAIN cells : cells[j] = End}
         IN  IF ends = {} THEN 0 ELSE Max(ends)
    ELSE Len(cells)

\* What units were made of.
Unpacked(cells) ==
  FoldLeft(LAMBDA out, c : IF c.packed THEN Append(out, [c EXCEPT !.packed = FALSE]) ELSE out,
           <<>>, cells)

\* Decompressor::decode, on what is held and what came.
Decompressed(compression, held, cells) ==
  LET all  == held \o cells
      take == SubSeq(all, 1, Ready(compression, all))
      read == Unpacked(take)
  IN  [ok |-> /\ \A j \in DOMAIN all : all[j].packed \/ all[j] = End
              /\ Len(read) <= MaxOutput
              /\ Len(all) - Len(take) <= MaxHeld,
       held |-> SubSeq(all, Len(take) + 1, Len(all)),
       out |-> read]

----------------------------------------------------------------------------
(* Sending.                                                                *)

\* Sender: the algorithms, Blowfish's state and the transaction not yet whole, and
\* the record to be sealed next. ok is FALSE once a call has failed.
SenderOf(cipher, compression, key) ==
  [cipher |-> cipher, compression |-> compression, bf |-> Blowfish(key),
   partial |-> <<>>, key |-> key, counter |-> 0, ok |-> TRUE]

\* The transactions that are whole at the front of cells, one after another.
Cut(cells) ==
  FoldLeft(LAMBDA acc, cell :
             LET now == Append(acc.now, cell)
             IN  IF Len(now) >= Hdr /\ BodyFits(now[1].n) /\ Len(now) = Hdr + BodyLen(now[1].n)
                   THEN [whole |-> Append(acc.whole, now), now |-> <<>>]
                   ELSE [acc EXCEPT !.now = now],
           [whole |-> <<>>, now |-> <<>>], cells)

\* One transaction: its header, marked, then the key turned, then its body. The
\* mark is its random rounds.
SealOne(acc, frame, rounds) ==
  LET head == Sealed(acc.bf, [SubSeq(frame, 1, Hdr) EXCEPT ![1].mark = rounds])
      body == Sealed(Turned(head.bf, rounds), SubSeq(frame, Hdr + 1, Len(frame)))
  IN  [bf |-> body.bf, done |-> acc.done \o head.done \o body.done]

SealFrames(s, cells, rounds) ==
  LET cut == Cut(s.partial \o cells)
      new == FoldLeft(LAMBDA acc, frame : SealOne(acc, frame, rounds[frame[1].i]),
                      [bf |-> s.bf, done |-> <<>>], cut.whole)
      bad == Len(cut.now) >= Hdr /\ ~BodyFits(cut.now[1].n)
  IN  [s |-> [s EXCEPT !.bf = new.bf, !.partial = cut.now, !.ok = ~bad],
       wire |-> IF bad THEN <<>> ELSE new.done]

SealStream(s, cells) ==
  LET new == Sealed(s.bf, cells)
  IN  [s |-> [s EXCEPT !.bf = new.bf], wire |-> new.done]

\* AeadState::seal, of one record: its length, its data and its tag.
Record(key, counter, cells) ==
  <<Wired(Cell("length", 0, 0, Len(cells)), <<>>)>>
    \o [j \in DOMAIN cells |-> Wired(cells[j], <<key, counter, j>>)]
    \o <<Wired(Cell("tag", 0, 0, Len(cells)), <<key, counter, 0>>)>>

\* Pieces, were the last of them cut off: chunks_exact.
MutPieces(cells) ==
  [j \in 1 .. Len(cells) \div MaxPlaintext |->
     SubSeq(cells, (j - 1) * MaxPlaintext + 1, j * MaxPlaintext)]

\* bytes.chunks(AEAD_MAX_PLAINTEXT)
Pieces(cells) ==
  LET count == (Len(cells) + MaxPlaintext - 1) \div MaxPlaintext
      to(j) == IF j * MaxPlaintext < Len(cells) THEN j * MaxPlaintext ELSE Len(cells)
  IN  [j \in 1 .. count |-> SubSeq(cells, (j - 1) * MaxPlaintext + 1, to(j))]

SealRecords(s, cells) ==
  LET ps == Pieces(cells)
  IN  [s |-> [s EXCEPT !.counter = @ + Len(ps)],
       wire |-> FlattenSeq([j \in DOMAIN ps |-> Record(s.key, s.counter + j - 1, ps[j])])]

\* Sender::encode. rounds says what each transaction's marker will be.
Encode(s, plain, rounds) ==
  LET cells == Compressed(s.compression, plain)
  IN  IF s.cipher = "none" THEN [s |-> s, wire |-> Bare(cells)]
      ELSE IF s.cipher = "CHACHA20-POLY1305" THEN SealRecords(s, cells)
      ELSE IF s.compression # "none" THEN SealStream(s, cells)
      ELSE SealFrames(s, cells, rounds)

----------------------------------------------------------------------------
(* Receiving.                                                              *)

\* Receiver: what is held of a header, of a record, of a unit; how much of a body
\* is to come. ok is FALSE once a call has failed.
ReceiverOf(cipher, compression, key) ==
  [cipher |-> cipher, compression |-> compression, bf |-> Blowfish(key), hdr |-> <<>>,
   body |-> 0, key |-> key, counter |-> 0, pending |-> <<>>, held |-> <<>>, ok |-> TRUE]

\* Unmarked, were the key turned for the header it is in and not the body.
MutUnmarked(r, hdr) ==
  [r EXCEPT !.bf = Turned(@, 0), !.hdr = <<>>, !.body = BodyLen(hdr[1].n)]

\* A header that is whole: its marker taken out and the key turned.
Unmarked(r, hdr) ==
  [r EXCEPT !.bf = Turned(@, hdr[1].mark), !.hdr = <<>>, !.body = BodyLen(hdr[1].n)]

\* decode()'s loop with transactions to find, one cell of it.
OpenFramed(acc, w) ==
  LET un   == Unsealed(acc.r.bf, <<w>>)
      cell == un.done[1]
      hdr  == Append(acc.r.hdr, cell)
      r    == [acc.r EXCEPT !.bf = un.bf]
  IN  IF ~acc.r.ok THEN acc
      ELSE IF acc.r.body > 0
        THEN [r |-> [r EXCEPT !.body = @ - 1], out |-> Append(acc.out, cell)]
      ELSE IF Len(hdr) < Hdr THEN [acc EXCEPT !.r = [r EXCEPT !.hdr = hdr]]
      ELSE IF hdr[1].mark > MaxRounds \/ ~BodyFits(hdr[1].n)
        THEN [acc EXCEPT !.r = [r EXCEPT !.hdr = hdr, !.ok = FALSE]]
      ELSE [r |-> Unmarked(r, hdr), out |-> acc.out \o [hdr EXCEPT ![1].mark = 0]]

OpenFrames(r, ws) == FoldLeft(OpenFramed, [r |-> r, out |-> <<>>], ws)

OpenStream(r, ws) ==
  LET un == Unsealed(r.bf, ws) IN [r |-> [r EXCEPT !.bf = un.bf], out |-> un.done]

\* AeadState::peek_frame_size, where there is a length to read.
FrameSize(ws) == ws[1].cell.n + 2

\* AeadState::open. A record is opened by the key and the count it was sealed with.
Authentic(r, record) ==
  \A j \in 2 .. Len(record) :
    record[j].under = <<r.key, r.counter, IF j = Len(record) THEN 0 ELSE j - 1>>

\* OpenRecord, were a record that was opened not counted.
MutOpenRecord(acc) ==
  LET ws == acc.r.pending
      record == SubSeq(ws, 1, FrameSize(ws))
      data == SubSeq(record, 2, Len(record) - 1)
  IN  IF ~Authentic(acc.r, record) THEN [acc EXCEPT !.r.ok = FALSE]
      ELSE [r |-> [acc.r EXCEPT !.pending = SubSeq(ws, FrameSize(ws) + 1, Len(ws))],
            out |-> acc.out \o [j \in DOMAIN data |-> data[j].cell]]

\* The record at the front of pending, which is all there. Its length is one cell:
\* a cut inside of the four bytes waits as one in front of them does.
OpenRecord(acc) ==
  LET ws == acc.r.pending
      record == SubSeq(ws, 1, FrameSize(ws))
      data == SubSeq(record, 2, Len(record) - 1)
  IN  IF ~Authentic(acc.r, record) THEN [acc EXCEPT !.r.ok = FALSE]
      ELSE [r |-> [acc.r EXCEPT !.pending = SubSeq(ws, FrameSize(ws) + 1, Len(ws)),
                                !.counter = @ + 1],
            out |-> acc.out \o [j \in DOMAIN data |-> data[j].cell]]

OpenNext(acc, w) ==
  LET ws == acc.r.pending
  IN  IF ~acc.r.ok \/ ws = <<>> THEN acc
      ELSE IF ws[1].cell.kind # "length" THEN [acc EXCEPT !.r.ok = FALSE]
      ELSE IF Len(ws) < FrameSize(ws) THEN acc ELSE OpenRecord(acc)

\* As many rounds as there are cells are enough: a record has two at least.
OpenRecords(r, ws) ==
  LET all == r.pending \o ws
  IN  FoldLeft(OpenNext, [r |-> [r EXCEPT !.pending = all], out |-> <<>>], all)

\* Receiver::decode
Decode(r, ws) ==
  LET un == IF r.cipher = "none" THEN [r |-> r, out |-> Opened(ws)]
            ELSE IF r.cipher = "CHACHA20-POLY1305" THEN OpenRecords(r, ws)
            ELSE IF r.compression # "none" THEN OpenStream(r, ws)
            ELSE OpenFrames(r, ws)
      de == Decompressed(r.compression, r.held, un.out)
  IN  IF r.compression = "none" \/ ~un.r.ok THEN un
      ELSE [r |-> [un.r EXCEPT !.held = de.held, !.ok = de.ok], out |-> de.out]

\* Receiver::idle
Idle(r) == r.hdr = <<>> /\ r.body = 0 /\ r.pending = <<>> /\ r.held = <<>>
=============================================================================
