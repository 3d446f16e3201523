------------------------------ MODULE HxFrames ------------------------------
(***************************************************************************)
(* hxsession's FrameReader: push() takes the stream in whatever pieces it   *)
(* comes, next_transaction() cuts frames from it. The wire is a sequence of *)
(* cells <<i, k>>, the k-th cell of the i-th frame sent: HeadLen cells of   *)
(* head, then its data. A head can be read once all its cells are there.   *)
(***************************************************************************)
EXTENDS HxPartials

CONSTANTS
  Scripts,      \* what a server may send: sequences of frames, without data
  HeadLen,      \* HEAD_LEN, 20 in the code
  FieldCount,   \* the data's field count: HL_HDR_LEN - HEAD_LEN, 2 in the code
  CompactAt     \* how much is read before the buffer is compacted: 64 KiB

ASSUME FramesAssumption ==
  /\ HeadLen \in Nat \ {0} /\ FieldCount \in Nat \ {0} /\ CompactAt \in Nat
  /\ \A script \in Scripts :
       /\ script \in Seq([type : STRING, trans : Nat, total : Nat, size : Nat, whole : BOOLEAN])
       \* A fragment of less than a field count is not whole: is_whole() says so.
       /\ \A i \in DOMAIN script :
            script[i].whole /\ IsSplit(script[i]) => script[i].size >= FieldCount

VARIABLES
  sent,         \* the frames the server sends
  pushed,       \* how many cells of them have been pushed
  buf, at,      \* buf and at: how much of buf has been read
  partials, abandoned,
  result        \* what the last call returned; "none" for push()'s nothing

\* What the properties remember.
VARIABLES
  taken,        \* how many frames were cut
  delivered,    \* the transactions returned
  handed        \* what take_abandoned() has returned

vars == <<sent, pushed, buf, at, partials, abandoned, result, taken, delivered, handed>>

----------------------------------------------------------------------------
(* The wire.                                                               *)

\* DataLen, were a fragment taken to hold a field count as others do.
MutDataLen(f) == IF f.size < FieldCount THEN FieldCount ELSE f.size

\* How long a frame's data is: only a fragment may be shorter than a field count.
DataLen(f) == IF ~IsSplit(f) /\ f.size < FieldCount THEN FieldCount ELSE f.size

\* The server's side of it, which is the protocol's and not the reader's to say.
OnWire(f) == IF ~IsSplit(f) /\ f.size < FieldCount THEN FieldCount ELSE f.size
Body(script, i) == [k \in 1 .. OnWire(script[i]) |-> <<i, HeadLen + k>>]
Cells(script, i) == [k \in 1 .. HeadLen |-> <<i, k>>] \o Body(script, i)
WireOf(n) == FlattenSeq([i \in 1 .. n |-> Cells(sent, i)])
Wire == WireOf(Len(sent))

\* The frames as a server means them, with their data.
Meant(script) ==
  [i \in DOMAIN script |->
     [type |-> script[i].type, trans |-> script[i].trans, total |-> script[i].total,
      size |-> script[i].size, whole |-> script[i].whole, body |-> Body(script, i)]]

\* The frame a head announces, with no data yet.
HeadAt(cell) == sent[cell[1]]

\* is_whole(), which looks at nothing but the data.
IsWhole(data) ==
  \E i \in DOMAIN sent : sent[i].whole /\ data = Body(sent, i)

WithData(f, data) ==
  [type |-> f.type, trans |-> f.trans, total |-> f.total, size |-> f.size,
   whole |-> IsWhole(data), body |-> data]

----------------------------------------------------------------------------
Init ==
  /\ sent \in Scripts /\ pushed = 0
  /\ buf = <<>> /\ at = 0 /\ partials = <<>> /\ abandoned = <<>>
  /\ result = "none"
  /\ taken = 0 /\ delivered = <<>> /\ handed = <<>>

\* Compacted, were what has been read never let go of.
MutCompacted == [buf |-> buf, at |-> at]

\* What is left of the buffer before it grows.
Compacted ==
  IF at > CompactAt \/ at = Len(buf)
    THEN [buf |-> SubSeq(buf, at + 1, Len(buf)), at |-> 0]
    ELSE [buf |-> buf, at |-> at]

\* push(), of the next n cells of the wire.
Push(n) ==
  /\ pushed + n <= Len(Wire)
  /\ buf' = Compacted.buf \o SubSeq(Wire, pushed + 1, pushed + n)
  /\ at' = Compacted.at
  /\ pushed' = pushed + n
  /\ result' = "none"
  /\ UNCHANGED <<sent, partials, abandoned, taken, delivered, handed>>

\* One frame of next_transaction()'s loop. The state of a call: how far it has
\* read, the partials, what it has given up on, how many frames it has cut, and
\* what it returns ("go" while it goes on) with which transaction.
Call(r, p, ab, n, res, done) ==
  [at |-> r, partials |-> p, abandoned |-> ab, taken |-> n, result |-> res, done |-> done]

\* Short, were a frame not taken that ends where the buffer does.
MutShort(c, need) == Len(buf) - c.at <= need

\* Fewer than need cells are left to read.
Short(c, need) == Len(buf) - c.at < need

Cut(c, f) ==
  LET end  == c.at + HeadLen + DataLen(f)
      o    == Accept(c.partials, WithData(f, SubSeq(buf, c.at + HeadLen + 1, end)))
  IN  IF TooLarge(f)
        THEN Call(end, c.partials, c.abandoned, c.taken + 1, "TooLarge", <<>>)
        ELSE Call(end, o.partials, c.abandoned \o o.abandoned, c.taken + 1,
                  IF o.done = <<>> THEN "go" ELSE "transaction", o.done)

OneFrame(c, step) ==
  IF c.result # "go" THEN c
  ELSE IF Short(c, HeadLen) THEN [c EXCEPT !.result = "more"]
  ELSE LET f == HeadAt(buf[c.at + 1])
       IN  IF f.size > MaxTransaction THEN [c EXCEPT !.result = "TooLarge"]
           ELSE IF Short(c, HeadLen + DataLen(f)) THEN [c EXCEPT !.result = "more"]
           ELSE Cut(c, f)

\* next_transaction(): frame after frame, until one completes a transaction, is
\* too large, or is not all there. Each that is cut is at least a cell long, so
\* that as many rounds as there are cells, and one, are enough.
NextTransaction ==
  LET start  == Call(at, partials, abandoned, taken, "go", <<>>)
      rounds == [k \in 1 .. Len(buf) + 1 |-> k]
      c      == FoldLeft(OneFrame, start, rounds)
  IN  /\ at' = c.at /\ partials' = c.partials /\ abandoned' = c.abandoned
      /\ taken' = c.taken /\ result' = c.result
      /\ delivered' = delivered \o c.done
      /\ UNCHANGED <<sent, pushed, buf, handed>>

\* TakeAbandoned, were the list not emptied.
MutLeft == abandoned

\* What take_abandoned() leaves.
Left == <<>>

TakeAbandoned ==
  /\ handed' = handed \o abandoned
  /\ abandoned' = Left
  /\ result' = "none"
  /\ UNCHANGED <<sent, pushed, buf, at, partials, taken, delivered>>

\* IsIdle, were split transactions not thought of.
MutIsIdle == at = Len(buf)

\* is_idle()
IsIdle == at = Len(buf) /\ partials = <<>>

Next ==
  \/ \E n \in 1 .. Len(Wire) - pushed : Push(n)
  \/ NextTransaction
  \/ TakeAbandoned

Spec == Init /\ [][Next]_vars

----------------------------------------------------------------------------
(* Properties.                                                             *)

\* HxStream on this reader: what is given up on counts whether it was taken or not.
Stream ==
  INSTANCE HxStream
    WITH Streams <- {Meant(script) : script \in Scripts},
         sent <- Meant(sent), joining <- partials, lost <- handed \o abandoned

\* Cut however it may be, the stream is read as its frames one after another:
\* next_transaction() gives the same transactions, in order and with the same data,
\* and take_abandoned() the same given up on, each once.
ReadsAsSent == Stream!Spec

\* How many cells the frames taken so far have.
Read == Len(WireOf(taken))

\* push() and next_transaction() stay in step: what is left to read is what has come
\* since the last frame taken, and nothing else.
InStep == SubSeq(buf, at + 1, Len(buf)) = SubSeq(Wire, Read + 1, pushed)

\* A call of next_transaction() that asks for more has taken every frame that has come.
NothingHeldBack ==
  [][result' = "more" =>
       (taken' < Len(sent) => pushed' < Len(WireOf(taken' + 1)))]_vars

\* is_idle(): a stream that ends while the reader is idle ends between two frames, with no
\* transaction half in; and where it does, and is read, the reader is idle.
IdleMeansWhole ==
  IsIdle <=> pushed = Read /\ partials = <<>>

\* push() compacts: after it the buffer is never longer than what there is to read
\* and as much as may be read before it is compacted.
BufferStaysSmall ==
  [][pushed' # pushed => Len(buf') <= (pushed' - Read) + CompactAt]_vars
=============================================================================
