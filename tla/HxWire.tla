------------------------------- MODULE HxWire -------------------------------
(* A message as bytes: what hxproto's wire.rs reads and writes, the packing  *)
(* of a whole message in build.rs and its header in parse.rs.                *)
(*                                                                           *)
(* A number of the code (u8 to u64) is the sequence of its base-256 digits,  *)
(* the most significant first and none of them a leading zero, so that 0 is  *)
(* the empty sequence and a u64 needs no large integer.  An Option is None   *)
(* or Some(x), and a builder that returns 0 for "nothing built" gives None.  *)
EXTENDS Integers, Sequences, SequencesExt, FiniteSetsExt

CONSTANT MaxField       \* u16::MAX, the longest data of one field

ASSUME MaxFieldAssumption == MaxField \in Nat /\ 0 < MaxField /\ MaxField < 65536

Byte == 0 .. 255
None == <<>>
Some(x) == <<x>>
Least(a, b) == IF a < b THEN a ELSE b
Most(a, b) == IF a > b THEN a ELSE b

-----------------------------------------------------------------------------
(* Numbers.                                                                  *)

\* from_be_bytes: the number some bytes stand for.
Value(bytes) ==
  LET digits == {i \in DOMAIN bytes : bytes[i] # 0}
  IN  IF digits = {} THEN <<>> ELSE SubSeq(bytes, Min(digits), Len(bytes))

\* to_be_bytes of a number kept in `width` bytes; what does not fit is cut.
Wide(n, width) ==
  [i \in 1 .. width |-> LET j == i + Len(n) - width IN IF j < 1 THEN 0 ELSE n[j]]

\* The number an integer below 2^24 is, and back; a larger one counts as Huge,
\* more than any buffer here holds.
Huge == 16777216
Num(k) == Value(<<k \div 65536, (k \div 256) % 256, k % 256>>)
Size(n) ==
  IF Len(n) > 3 THEN Huge ELSE FoldLeft(LAMBDA k, d : 256 * k + d, 0, n)

\* m < n.
Below(m, n) ==
  \/ Len(m) < Len(n)
  \/ /\ Len(m) = Len(n)
     /\ \E i \in DOMAIN m : m[i] < n[i] /\ \A j \in 1 .. i - 1 : m[j] = n[j]
U32Max == <<255, 255, 255, 255>>
AtMost(n, most) == IF Below(most, n) THEN most ELSE n

-----------------------------------------------------------------------------
(* Decoder: reads that check their bounds, from an offset counted from 0.    *)

Slice(buf, from, n) == SubSeq(buf, from + 1, from + n)
Cut(bytes, most) == SubSeq(bytes, 1, Least(most, Len(bytes)))
Rest(buf, from) == SubSeq(buf, from + 1, Len(buf))

\* One step of a layout.  A Uint is read into the name `as`; Bytes takes a
\* fixed number of bytes; Counted takes as many as the number read as `of`;
\* PString takes a length byte and then as many.
Uint(as, width)  == [as |-> as, kind |-> "uint", n |-> width, of |-> ""]
Bytes(as, n)     == [as |-> as, kind |-> "bytes", n |-> n, of |-> ""]
Counted(as, of)  == [as |-> as, kind |-> "counted", n |-> 0, of |-> of]
PString(as)      == [as |-> as, kind |-> "pstring", n |-> 1, of |-> ""]

\* The cursor: what is read so far, by name, where the next read begins, and
\* whether every read had its bytes (a read that has not moves nothing, and
\* the reader that called it gives up).
Cursor(pos) == [pos |-> pos, ok |-> TRUE, got |-> [none |-> <<>>]]

\* How many bytes a step takes, behind the length byte of a PString.
Wanted(buf, c, step) ==
  CASE step.kind = "counted" -> Size(c.got[step.of])
    [] step.kind = "pstring" -> IF c.pos < Len(buf) THEN buf[c.pos + 1] ELSE 0
    [] OTHER -> step.n
Skipped(step) == IF step.kind = "pstring" THEN 1 ELSE 0

Moved(c, step, data) ==
  [c EXCEPT !.pos = @ + Skipped(step) + Len(data),
            !.got = [x \in DOMAIN @ \cup {step.as} |->
                       IF x # step.as THEN @[x]
                       ELSE IF step.kind = "uint" THEN Value(data)
                       ELSE data]]

Took(buf, c, step, n) ==
  IF ~c.ok \/ Len(buf) - c.pos < Skipped(step) + n
  THEN [c EXCEPT !.ok = FALSE]
  ELSE Moved(c, step, Slice(buf, c.pos + Skipped(step), n))

ReadOne(buf, c, step) == Took(buf, c, step, Wanted(buf, c, step))

Read(buf, pos, layout) ==
  FoldLeft(LAMBDA c, step : ReadOne(buf, c, step),
           Cursor(Least(pos, Len(buf))), layout)

\* A reader of one layout: what it got, or None.
GotAll(c) == IF c.ok THEN Some(c.got) ELSE None
ReadAll(buf, layout) == GotAll(Read(buf, 0, layout))

-----------------------------------------------------------------------------
(* Fields: a tag, a length and that many bytes.                              *)

Field(tag, data) == [tag |-> tag, data |-> data]

\* Chunk::as_uint: four bytes or two; any other length is 0.
AsUint(data) == IF Len(data) \in {2, 4} THEN Value(data) ELSE <<>>

\* ChunkIter: the field that begins at p, and where it ends; and the fields from
\* `start`, up to the first one that would overrun.
U16At(bytes, at) == 256 * bytes[at + 1] + bytes[at + 2]
Ends(buf, at) == at + 4 > Len(buf) \/ U16At(buf, at + 2) > Len(buf) - (at + 4)
FieldAt(buf, at) == Field(U16At(buf, at), Slice(buf, at + 4, U16At(buf, at + 2)))
Behind(buf, at) == at + 4 + U16At(buf, at + 2)

ChunksAt(buf, start) ==
  LET walk[p \in 0 .. Len(buf)] ==
        IF Ends(buf, p) THEN <<>> ELSE <<FieldAt(buf, p)>> \o walk[Behind(buf, p)]
  IN  walk[Least(start, Len(buf))]

HeaderLen == 22
Chunks(message) == ChunksAt(message, HeaderLen)

\* What a reader keeps of one tag: its last field, its first, or its last of
\* a given length.
LastIn(fields, t) ==
  LET hits == SelectSeq(fields, LAMBDA f : f.tag = t)
  IN  IF hits = <<>> THEN None ELSE Some(hits[Len(hits)].data)
FirstIn(fields, t) ==
  LET hits == SelectSeq(fields, LAMBDA f : f.tag = t)
  IN  IF hits = <<>> THEN None ELSE Some(hits[1].data)
LastOf(fields, t, length) ==
  LastIn(SelectSeq(fields, LAMBDA f : Len(f.data) = length), t)
FirstOf(fields, t, length) ==
  FirstIn(SelectSeq(fields, LAMBDA f : Len(f.data) = length), t)

Or(option, default) == IF option = None THEN default ELSE option[1]
Map(option, Op(_)) == IF option = None THEN None ELSE Some(Op(option[1]))

\* The last field of a tag read as a number of exactly so many bytes: a later
\* one of another length takes the value away.
LastWide(fields, t, length) ==
  LET data == Or(LastIn(fields, t), <<>>)
  IN  IF Len(data) = length THEN Some(Value(data)) ELSE None

Records(blob, stride, Rec(_)) ==
  [i \in 1 .. Len(blob) \div stride |-> Rec(Slice(blob, stride * (i - 1), stride))]
U16In(data, at) == Value(Slice(data, at, 2))

\* Encoder::put_chunk: a field's own bytes.
PutChunk(f) == Wide(Num(f.tag), 2) \o Wide(Num(Len(f.data)), 2) \o f.data
PutChunks(fields) == FlattenSeq([i \in DOMAIN fields |-> PutChunk(fields[i])])

-----------------------------------------------------------------------------
(* Messages: pack_message and the header it writes, Header::parse and        *)
(* decode_header_full.                                                       *)

MaxPackChunks == 64

PackMessageSize(fields) ==
  HeaderLen +
  FoldLeft(LAMBDA n, f : n + 4 + Len(f.data), 0, fields)

PackHeader(type, trans, flag, hc, bodyLen) ==
  Wide(type, 4) \o Wide(trans, 4) \o Wide(flag, 4)
    \o Wide(Num(bodyLen + 2), 4) \o Wide(Num(bodyLen + 2), 4) \o Wide(Num(hc), 2)

PackMessage(room, type, trans, flag, fields) ==
  LET needed == PackMessageSize(fields)
  IN  IF \/ Len(fields) > MaxPackChunks
         \/ \E i \in DOMAIN fields : Len(fields[i].data) > MaxField
         \/ room < needed
      THEN None
      ELSE Some(PackHeader(type, trans, flag, Len(fields), needed - HeaderLen)
                  \o PutChunks(fields))

HeaderLayout == <<Uint("type", 4), Uint("trans", 4), Uint("flag", 4),
                  Uint("len", 4), Uint("len2", 4), Uint("hc", 2)>>

HeaderOf(message) == ReadAll(message, HeaderLayout)

\* The body's length as the header states it, capped by the largest packet
\* the caller takes.
BodyLen(header, maxPacket) ==
  Most(Least(Size(header.len2), maxPacket) - 2, 0)

\* capabilities_encode: the narrowest of the three widths; capabilities_decode
\* reads any width, keeping its low eight bytes.
CapabilitiesEncode(caps) ==
  Wide(caps, IF Len(caps) <= 2 THEN 2 ELSE IF Len(caps) <= 4 THEN 4 ELSE 8)
CapabilitiesDecode(data) ==
  Value(SubSeq(data, Most(Len(data) - 7, 1), Len(data)))

-----------------------------------------------------------------------------
(* What readers do to text: sanitize.rs.                                     *)

Cr2Lf(text) == [i \in DOMAIN text |-> IF text[i] = 13 THEN 10 ELSE text[i]]

\* A byte from 14 to 30, but for 15 and 22, moves up into the letters.
StripAnsi(text) ==
  [i \in DOMAIN text |->
     IF text[i] \in (14 .. 30) \ {15, 22} THEN text[i] + 64 ELSE text[i]]

Line(text, most) == StripAnsi(Cr2Lf(Cut(text, most)))

\* The exclusive or with 0xff that a login and a password are sent under.
Flip(text) == [i \in DOMAIN text |-> 255 - text[i]]

\* The hash of a digest, or under a key both have, of a packet: any function.
Hashed(bytes) ==
  LET sum == FoldLeft(LAMBDA n, b : (n + b) % 251, 0, bytes)
  IN  [i \in 1 .. 32 |-> (sum + i) % 251]
=============================================================================
