-------------------------- MODULE HxFramesProofs ---------------------------
(***************************************************************************)
(* Theorems about FrameReader: it stays in step with the stream, keeps its  *)
(* buffer small, holds no whole frame back, and implements HxStream, for    *)
(* every choice of the constants and of the frames that are sent.          *)
(***************************************************************************)
EXTENDS HxFrames, HxPartialsProofs, HxFoldProofs

\* A frame is to HxStream what it is to the reader.
LEMMA SameAccept ==
  ASSUME NEW ps, NEW f
  PROVE  Stream!Accept(ps, f) = Accept(ps, f) /\ (Stream!TooLarge(f) <=> TooLarge(f))
<1>1. Stream!AcceptNext(ps, f) = AcceptNext(ps, f)
  BY DEF Stream!AcceptNext, AcceptNext, Stream!Continued, Continued, Stream!Min, Min,
         Stream!Joined, Joined, Stream!Outcome, Outcome, Stream!RemoveAt, RemoveAt,
         Stream!Transaction, Transaction
<1>2. Stream!AcceptFirst(ps, f) = AcceptFirst(ps, f)
  BY DEF Stream!AcceptFirst, AcceptFirst, Stream!Restarted, Restarted, Stream!Min, Min,
         Stream!Started, Started, Stream!Outcome, Outcome, Stream!RemoveAt, RemoveAt
<1>3. /\ Stream!IsSplit(f) <=> IsSplit(f)
      /\ Stream!Continued(ps, f) = Continued(ps, f)
      /\ Stream!TooLarge(f) <=> TooLarge(f)
  BY DEF Stream!IsSplit, IsSplit, Stream!Continued, Continued, Stream!TooLarge, TooLarge
<1>4. Stream!Accept(ps, f) = Accept(ps, f)
  BY <1>1, <1>2, <1>3, Zenon
  DEF Stream!Accept, Accept, Stream!Outcome, Outcome, Stream!Transaction, Transaction
<1>. QED  BY <1>3, <1>4

----------------------------------------------------------------------------
(* HxStream's reader, which takes whole frames.                            *)

\* The k elements of a sequence after the first a.
LEMMA PartOf ==
  ASSUME NEW S, NEW s \in Seq(S), NEW a \in Nat, NEW k \in Nat, a + k <= Len(s)
  PROVE  /\ SubSeq(s, a + 1, a + k) \in Seq(S) /\ Len(SubSeq(s, a + 1, a + k)) = k
         /\ \A j \in 1 .. k : SubSeq(s, a + 1, a + k)[j] = s[a + j]
<1>. DEFINE m == a + 1
            e == a + k
            l == Len(s)
<1>1. l \in Nat /\ a + k <= l
  BY LenProperties
<1>. HIDE DEF l
<1>2. \A i \in m .. e : i \in 1 .. l
  BY <1>1
<1>3. /\ m \in Int /\ e \in Int
      /\ e - m + 1 = k /\ (IF m <= e THEN e - m + 1 ELSE 0) = k
      /\ \A j \in 1 .. k : m + j - 1 = a + j
  OBVIOUS
<1>. HIDE DEF m, e
<1>4. \A i \in m .. e : s[i] \in S
  BY <1>2, ElementOfSeq DEF l
<1>5. /\ SubSeq(s, m, e) \in Seq(S)
      /\ Len(SubSeq(s, m, e)) = IF m <= e THEN e - m + 1 ELSE 0
      /\ \A j \in 1 .. e - m + 1 : SubSeq(s, m, e)[j] = s[m + j - 1]
  BY <1>3, <1>4, SubSeqProperties
<1>. QED  BY <1>3, <1>5, Zenon DEF m, e

\* The lengths are numbers, and a head and a field count are not empty.
LEMMA LengthsProperties ==
  /\ HeadLen \in Nat /\ HeadLen >= 1 /\ FieldCount \in Nat /\ FieldCount >= 1
  /\ CompactAt \in Nat
<1>1. HeadLen \in Nat \ {0} /\ FieldCount \in Nat \ {0} /\ CompactAt \in Nat
  BY FramesAssumption
<1>. QED  BY <1>1

Cell == Nat \X Nat
Frame0 == Framed(STRING, Nat, Cell)
Joining == {ps \in Seq(Partial(STRING, Nat, Cell)) : Tidy(ps)}
Delivered == Seq(Completions(STRING, Nat, Cell))
Readers == [joining : Joining, delivered : Delivered, lost : Seq(Nat)]

\* HxStream's reader takes a frame as the reader here does.
LEMMA TakeOneReads ==
  ASSUME NEW r \in Readers, NEW f \in Frame0
  PROVE  /\ Stream!TakeOne(r, f) \in Readers
         /\ Stream!TakeOne(r, f) =
              IF TooLarge(f) THEN r
              ELSE Stream!Reader(Accept(r.joining, f).partials,
                                 r.delivered \o Accept(r.joining, f).done,
                                 r.lost \o Accept(r.joining, f).abandoned)
<1>. DEFINE o == Accept(r.joining, f)
<1>1. /\ o.partials \in Joining /\ o.done \in Delivered /\ o.abandoned \in Seq(Nat)
  BY AcceptKeepsTidy DEF Readers, Joining, Delivered, Frame0
<1>2. Stream!TakeOne(r, f) =
        IF TooLarge(f) THEN r
        ELSE Stream!Reader(o.partials, r.delivered \o o.done, r.lost \o o.abandoned)
  BY SameAccept, Zenon DEF Stream!TakeOne
<1>. HIDE DEF o
<1>3. r.delivered \o o.done \in Delivered /\ r.lost \o o.abandoned \in Seq(Nat)
  BY <1>1, ConcatProperties DEF Readers, Delivered
<1>4. Stream!Reader(o.partials, r.delivered \o o.done, r.lost \o o.abandoned) \in Readers
  BY <1>1, <1>3 DEF Readers, Stream!Reader
<1>5. Stream!TakeOne(r, f) \in Readers
  BY <1>2, <1>4
<1>. QED  BY <1>2, <1>5 DEF o

\* The step that takes the k-th of these frames.
Taking(fs) == [k \in 1 .. Len(fs) |-> [r \in Readers |-> Stream!TakeOne(r, fs[k])]]

\* Frames are taken one after another.
LEMMA TakeAllSteps ==
  ASSUME NEW r \in Readers, NEW fs \in Seq(Frame0)
  PROVE  \E h : Steps(h, Readers, r, Len(fs), Taking(fs)) /\ Stream!TakeAll(r, fs) = h[Len(fs)]
<1>. DEFINE n == Len(fs)
            D == SUBSET (DOMAIN fs)
            V == Readers
            G == Taking(fs)
            f == CHOOSE f : f = [s \in D |-> IF s = {} THEN r
                                 ELSE Stream!TakeOne(f[s \ {Max(s)}], fs[Max(s)])]
<1>1. Stream!TakeAll(r, fs) = f[DOMAIN fs]
  BY DEF Stream!TakeAll, Stream!FoldLeft, Stream!MapThenFoldSet, Stream!Max, Max
<1>2. n \in Nat /\ DOMAIN fs = 1 .. n /\ G \in [1 .. n -> [V -> V]]
  <2>1. n \in Nat /\ DOMAIN fs = 1 .. n /\ \A k \in 1 .. n : fs[k] \in Frame0
    OBVIOUS
  <2>2. ASSUME NEW k \in 1 .. n, NEW v \in V PROVE Stream!TakeOne(v, fs[k]) \in V
    BY <2>1, TakeOneReads
  <2>. QED  BY <2>1, <2>2 DEF Taking
<1>3. f = [s \in D |-> IF s = {} THEN r ELSE Stream!TakeOne(f[s \ {Max(s)}], fs[Max(s)])]
  <2>1. PICK g : FoldsSets(g, V, r, n, G)
    <3>. HIDE DEF n, V, G
    <3>. QED  BY <1>2, GreatestLast DEF V
  <2>2. ASSUME NEW s \in D, s # {}
        PROVE  G[Max(s)][g[s \ {Max(s)}]] = Stream!TakeOne(g[s \ {Max(s)}], fs[Max(s)])
    <3>1. Max(s) \in 1 .. n
      <4>. HIDE DEF n
      <4>. QED  BY <1>2, <2>2, MaxOf
    <3>2. s \ {Max(s)} \in D
      OBVIOUS
    <3>. QED  BY <1>2, <2>1, <3>1, <3>2 DEF FoldsSets, Taking
  <2>3. g = [s \in D |-> IF s = {} THEN r ELSE Stream!TakeOne(g[s \ {Max(s)}], fs[Max(s)])]
    BY <1>2, <2>1, <2>2 DEF FoldsSets
  <2>. QED  BY <2>3
<1>. HIDE DEF f
<1>4. StepsSets(f, V, r, n, G)
  <2>1. ASSUME NEW k \in 1 .. n, f[1 .. k - 1] \in V PROVE f[1 .. k] = G[k][f[1 .. k - 1]]
    <3>1. Max(1 .. k) = k /\ (1 .. k) \ {k} = 1 .. k - 1 /\ 1 .. k # {} /\ 1 .. k \in D
      <4>. HIDE DEF n
      <4>. QED  BY <1>2, MaxOfRun
    <3>. QED  BY <1>3, <2>1, <3>1 DEF Taking
  <2>. QED  BY <1>3, <2>1 DEF StepsSets
<1>5. Steps([k \in 0 .. n |-> f[1 .. k]], V, r, n, G)
  <2>. HIDE DEF n, V, G
  <2>. QED  BY <1>2, <1>4, FoldSteps DEF V
<1>6. n \in 0 .. n
  BY <1>2
<1>. QED  BY <1>1, <1>2, <1>5, <1>6

\* Taking no frames, and one more.
LEMMA TakeAllProperties ==
  ASSUME NEW r \in Readers, NEW fs \in Seq(Frame0)
  PROVE  /\ Stream!TakeAll(r, fs) \in Readers
         /\ fs = <<>> => Stream!TakeAll(r, fs) = r
         /\ \A f \in Frame0 :
              Stream!TakeAll(r, Append(fs, f)) = Stream!TakeOne(Stream!TakeAll(r, fs), f)
<1>1. PICK h : Steps(h, Readers, r, Len(fs), Taking(fs)) /\ Stream!TakeAll(r, fs) = h[Len(fs)]
  BY TakeAllSteps
<1>2. Len(fs) \in Nat /\ Len(fs) \in 0 .. Len(fs)
  BY LenProperties, SMT
<1>3. Stream!TakeAll(r, fs) \in Readers /\ (fs = <<>> => Stream!TakeAll(r, fs) = r)
  BY <1>1, <1>2 DEF Steps
<1>4. ASSUME NEW f \in Frame0
      PROVE  Stream!TakeAll(r, Append(fs, f)) = Stream!TakeOne(Stream!TakeAll(r, fs), f)
  <2>. DEFINE gs == Append(fs, f)
              n == Len(fs)
  <2>1. /\ gs \in Seq(Frame0) /\ Len(gs) = n + 1 /\ gs[n + 1] = f
        /\ \A k \in 1 .. n : gs[k] = fs[k]
    BY AppendProperties
  <2>2. PICK g : Steps(g, Readers, r, Len(gs), Taking(gs)) /\ Stream!TakeAll(r, gs) = g[Len(gs)]
    BY <2>1, TakeAllSteps
  <2>. HIDE DEF gs
  <2>3. \A k \in 1 .. n : Taking(fs)[k] = Taking(gs)[k]
    BY <1>2, <2>1, SMT DEF Taking
  <2>4. h[n] = g[n] /\ h[n] \in Readers
    <3>1. n <= Len(gs) /\ Len(gs) \in Nat /\ n \in 0 .. n
      BY <1>2, <2>1, SMT
    <3>. QED  BY <1>1, <1>2, <2>2, <2>3, <3>1, StepsAgree
  <2>5. n + 1 \in 1 .. Len(gs) /\ (n + 1) - 1 = n
    BY <1>2, <2>1, SMT
  <2>6. g[n + 1] = Stream!TakeOne(g[n], f)
    BY <2>1, <2>2, <2>4, <2>5, Zenon DEF Steps, Taking
  <2>. QED  BY <1>1, <2>1, <2>2, <2>4, <2>6 DEF gs
<1>. QED  BY <1>3, <1>4

----------------------------------------------------------------------------
(* The wire.                                                               *)

\* What a frame's cells are.
LEMMA CellsProperties ==
  ASSUME sent \in Scripts, NEW i \in DOMAIN sent
  PROVE  /\ Cells(sent, i) \in Seq(Cell) /\ Body(sent, i) \in Seq(Cell)
         /\ OnWire(sent[i]) \in Nat /\ Len(Body(sent, i)) = OnWire(sent[i])
         /\ Len(Cells(sent, i)) = HeadLen + OnWire(sent[i])
         /\ Cells(sent, i)[1] = <<i, 1>>
         /\ \A k \in 1 .. OnWire(sent[i]) :
              Body(sent, i)[k] = <<i, HeadLen + k>> /\ Cells(sent, i)[HeadLen + k] = Body(sent, i)[k]
<1>. DEFINE n == OnWire(sent[i])
            body == Body(sent, i)
            head == [k \in 1 .. HeadLen |-> <<i, k>>]
<1>. DEFINE Head0 == [type : STRING, trans : Nat, total : Nat, size : Nat, whole : BOOLEAN]
<1>1. sent[i] \in Head0 /\ i \in Nat
  <2>1. sent \in Seq(Head0)
    BY FramesAssumption
  <2>. HIDE DEF Head0
  <2>. QED  BY <2>1, LenProperties, ElementOfSeq
<1>2. n \in Nat /\ HeadLen \in Nat /\ 1 \in 1 .. HeadLen
  BY <1>1, LengthsProperties, SMT DEF OnWire, IsSplit
<1>. HIDE DEF n
<1>3. /\ body = [k \in 1 .. n |-> <<i, HeadLen + k>>]
      /\ Cells(sent, i) = head \o body
  BY DEF Body, Cells, n
<1>4. body \in Seq(Cell) /\ Len(body) = n
  <2>1. \A k \in 1 .. n : <<i, HeadLen + k>> \in Cell
    BY <1>1, <1>2, SMT DEF Cell
  <2>2. body \in [1 .. n -> Cell]
    BY <1>3, <2>1, Zenon
  <2>. QED  BY <1>2, <2>2, SeqDef, LenProperties
<1>5. head \in Seq(Cell) /\ Len(head) = HeadLen
  <2>1. \A k \in 1 .. HeadLen : <<i, k>> \in Cell
    BY <1>1, <1>2, SMT DEF Cell
  <2>2. head \in [1 .. HeadLen -> Cell]
    BY <2>1, Zenon
  <2>. QED  BY <1>2, <2>2, SeqDef, LenProperties
<1>6. head[1] = <<i, 1>> /\ \A k \in 1 .. n : body[k] = <<i, HeadLen + k>>
  BY <1>2, <1>3
<1>. HIDE DEF head, body
<1>7. /\ head \o body \in Seq(Cell) /\ Len(head \o body) = HeadLen + n
      /\ \A k \in 1 .. HeadLen + n :
           (head \o body)[k] = IF k <= HeadLen THEN head[k] ELSE body[k - HeadLen]
  BY <1>4, <1>5, ConcatProperties
<1>8. /\ (head \o body)[1] = head[1]
      /\ \A k \in 1 .. n : (head \o body)[HeadLen + k] = body[k]
  BY <1>2, <1>7, SMT
<1>. QED  BY <1>2, <1>3, <1>4, <1>6, <1>7, <1>8 DEF n, body

\* The frames of a script are numbered from 1.
LEMMA SentProperties ==
  ASSUME sent \in Scripts
  PROVE  Len(sent) \in Nat /\ DOMAIN sent = 1 .. Len(sent)
BY FramesAssumption, LenProperties

\* The wire up to a frame is the wire up to the one before it, and that frame's cells.
LEMMA WireSteps ==
  ASSUME sent \in Scripts
  PROVE  /\ WireOf(0) = <<>>
         /\ \A k \in 1 .. Len(sent) : WireOf(k) = WireOf(k - 1) \o Cells(sent, k)
         /\ \A k \in 0 .. Len(sent) : WireOf(k) \in Seq(Cell)
<1>. DEFINE N == Len(sent)
            g == [k \in 1 .. N |-> Cells(sent, k)]
<1>1. N \in Nat /\ DOMAIN sent = 1 .. N
  BY SentProperties
<1>2. g \in [1 .. N -> Seq(Cell)]
  BY <1>1, CellsProperties
<1>3. PICK h : Joins(h, Cell, g, N)
  <2>. HIDE DEF g, N
  <2>. QED  BY <1>1, <1>2, FlattenSteps
<1>4. ASSUME NEW k \in 0 .. N PROVE WireOf(k) = h[k]
  <2>1. [i \in 1 .. k |-> g[i]] = [i \in 1 .. k |-> Cells(sent, i)]
    <3>1. \A i \in 1 .. k : i \in 1 .. N
      BY <1>1, SMT
    <3>. QED  BY <3>1
  <2>2. FlattenSeq([i \in 1 .. k |-> g[i]]) = h[k]
    BY <1>3 DEF Joins
  <2>. QED  BY <2>1, <2>2 DEF WireOf
<1>5. \A k \in 1 .. N : k - 1 \in 0 .. N /\ k \in 0 .. N /\ g[k] = Cells(sent, k)
  BY <1>1
<1>6. 0 \in 0 .. N
  BY <1>1
<1>. HIDE DEF g, N
<1>7. /\ WireOf(0) = <<>>
      /\ \A k \in 1 .. N : WireOf(k) = WireOf(k - 1) \o Cells(sent, k)
      /\ \A k \in 0 .. N : WireOf(k) \in Seq(Cell)
  BY <1>3, <1>4, <1>5, <1>6 DEF Joins
<1>. QED  BY <1>7 DEF N

Upto(k) == Len(WireOf(k))

\* Each frame's cells are on the wire after those of the frames before it.
LEMMA FramesOnWire ==
  ASSUME sent \in Scripts
  PROVE  /\ Wire \in Seq(Cell) /\ Upto(0) = 0 /\ Upto(Len(sent)) = Len(Wire)
         /\ \A k \in 0 .. Len(sent) : Upto(k) \in 0 .. Len(Wire)
         /\ \A k \in 1 .. Len(sent) :
              /\ Upto(k) = Upto(k - 1) + HeadLen + OnWire(sent[k])
              /\ \A j \in 1 .. HeadLen + OnWire(sent[k]) :
                   Wire[Upto(k - 1) + j] = Cells(sent, k)[j]
<1>. DEFINE N == Len(sent)
            Extends(m, k) ==
              /\ Upto(k) <= Upto(m)
              /\ \A j \in 1 .. Upto(k) : WireOf(m)[j] = WireOf(k)[j]
<1>1. N \in Nat /\ DOMAIN sent = 1 .. N /\ HeadLen \in Nat
  BY SentProperties, LengthsProperties
<1>2. \A k \in 0 .. N : WireOf(k) \in Seq(Cell) /\ Upto(k) \in Nat
  BY WireSteps, LenProperties DEF Upto
<1>3. ASSUME NEW k \in 1 .. N
      PROVE  /\ Upto(k) = Upto(k - 1) + HeadLen + OnWire(sent[k]) /\ OnWire(sent[k]) \in Nat
             /\ Extends(k, k - 1)
             /\ \A j \in 1 .. HeadLen + OnWire(sent[k]) :
                  WireOf(k)[Upto(k - 1) + j] = Cells(sent, k)[j]
  <2>. DEFINE w == WireOf(k - 1)
              c == Cells(sent, k)
              n == HeadLen + OnWire(sent[k])
  <2>1. k - 1 \in 0 .. N /\ w \in Seq(Cell) /\ Len(w) = Upto(k - 1) /\ Upto(k - 1) \in Nat
    BY <1>1, <1>2 DEF Upto
  <2>2. c \in Seq(Cell) /\ Len(c) = n /\ OnWire(sent[k]) \in Nat /\ n \in Nat
    BY <1>1, CellsProperties
  <2>3. WireOf(k) = w \o c
    BY WireSteps
  <2>. HIDE DEF w, c, n
  <2>4. /\ Len(w \o c) = Len(w) + n
        /\ \A j \in 1 .. Len(w) + n :
             (w \o c)[j] = IF j <= Len(w) THEN w[j] ELSE c[j - Len(w)]
    BY <2>1, <2>2, ConcatProperties
  <2>5. \A j \in 1 .. Len(w) : WireOf(k)[j] = w[j]
    BY <2>1, <2>2, <2>3, <2>4, SMT
  <2>6. ASSUME NEW j \in 1 .. n PROVE WireOf(k)[Len(w) + j] = c[j]
    <3>1. Len(w) + j \in 1 .. Len(w) + n /\ ~(Len(w) + j <= Len(w)) /\ (Len(w) + j) - Len(w) = j
      BY <2>1, <2>2, SMT
    <3>. QED  BY <2>3, <2>4, <3>1, Zenon
  <2>7. Upto(k) = Upto(k - 1) + n
    BY <2>1, <2>3, <2>4 DEF Upto
  <2>8. Upto(k - 1) <= Upto(k)
    BY <2>1, <2>2, <2>7, SMT
  <2>9. Extends(k, k - 1)
    BY <2>1, <2>5, <2>8 DEF w
  <2>10. Upto(k) = Upto(k - 1) + HeadLen + OnWire(sent[k])
    BY <1>1, <2>1, <2>2, <2>7, SMT DEF n
  <2>11. \A j \in 1 .. HeadLen + OnWire(sent[k]) : WireOf(k)[Upto(k - 1) + j] = Cells(sent, k)[j]
    BY <2>1, <2>6, Zenon DEF c, n
  <2>. QED  BY <2>2, <2>9, <2>10, <2>11
<1>. HIDE DEF N
<1>4. ASSUME NEW k \in 0 .. N PROVE Extends(N, k)
  <2>. DEFINE T == {d \in 0 .. N - k : Extends(k + d, k)}
  <2>1. 0 \in T
    BY <1>1, <1>2
  <2>2. ASSUME NEW d \in 1 .. N - k, d - 1 \in T PROVE d \in T
    <3>1. k + d \in 1 .. N /\ (k + d) - 1 = k + (d - 1) /\ k + (d - 1) \in 0 .. N
      BY <1>1
    <3>2. Extends(k + d, k + (d - 1)) /\ Extends(k + (d - 1), k)
      BY <1>3, <2>2, <3>1
    <3>3. Upto(k) \in Nat /\ Upto(k + (d - 1)) \in Nat /\ Upto(k + d) \in Nat
      BY <1>1, <1>2, <3>1
    <3>4. Extends(k + d, k)
      BY <3>2, <3>3
    <3>. QED  BY <1>1, <3>4
  <2>3. 0 .. N - k \subseteq T
    <3>1. N - k \in Nat
      BY <1>1
    <3>. HIDE DEF T
    <3>. QED  BY <2>1, <2>2, <3>1, UpTo
  <2>4. N - k \in T /\ k + (N - k) = N
    BY <1>1, <2>3
  <2>. QED  BY <2>4
<1>5. Wire = WireOf(N) /\ Upto(N) = Len(Wire) /\ N \in 0 .. N
  BY <1>1 DEF Wire, Upto, N
<1>6. Upto(0) = 0
  BY WireSteps, EmptySeq DEF Upto
<1>7. \A k \in 0 .. N : Upto(k) \in 0 .. Len(Wire)
  BY <1>2, <1>4, <1>5
<1>8. ASSUME NEW k \in 1 .. N, NEW j \in 1 .. HeadLen + OnWire(sent[k])
      PROVE  Wire[Upto(k - 1) + j] = Cells(sent, k)[j]
  <2>1. k \in 0 .. N /\ k - 1 \in 0 .. N /\ Upto(k - 1) \in Nat
    BY <1>1, <1>2
  <2>2. Upto(k - 1) + j \in 1 .. Upto(k)
    BY <1>1, <1>3, <2>1
  <2>. QED  BY <1>3, <1>4, <1>5, <2>1, <2>2
<1>. QED  BY <1>2, <1>3, <1>5, <1>6, <1>7, <1>8 DEF N

\* A server's frames as it means them.
LEMMA MeantProperties ==
  ASSUME sent \in Scripts
  PROVE  /\ Meant(sent) \in Seq(Frame0) /\ Len(Meant(sent)) = Len(sent)
         /\ \A i \in DOMAIN sent :
              /\ Meant(sent)[i] = WithData(sent[i], Body(sent, i))
              /\ TooLarge(Meant(sent)[i]) <=> TooLarge(sent[i])
              /\ Stream!Passable(Meant(sent)[i]) <=> ~(sent[i].size > MaxTransaction)
<1>. DEFINE Head0 == [type : STRING, trans : Nat, total : Nat, size : Nat, whole : BOOLEAN]
            N == Len(sent)
<1>1. N \in Nat /\ DOMAIN sent = 1 .. N
  BY SentProperties
<1>2. \A i \in 1 .. N : sent[i] \in Head0
  <2>1. sent \in Seq(Head0)
    BY FramesAssumption
  <2>. HIDE DEF Head0
  <2>. QED  BY <1>1, <2>1, ElementOfSeq
<1>3. \A i \in 1 .. N : Meant(sent)[i] \in Frame0
  BY <1>1, <1>2, CellsProperties DEF Meant, Frame0, Framed
<1>4. Meant(sent) \in Seq(Frame0) /\ Len(Meant(sent)) = N
  <2>1. Meant(sent) \in [1 .. N -> Frame0]
    BY <1>1, <1>3 DEF Meant
  <2>. QED  BY <1>1, <2>1, SeqDef, LenProperties
<1>5. ASSUME NEW i \in 1 .. N PROVE IsWhole(Body(sent, i)) = sent[i].whole
  <2>1. sent[i].whole => IsWhole(Body(sent, i))
    BY <1>1 DEF IsWhole
  <2>2. ASSUME NEW j \in 1 .. N, sent[j].whole, Body(sent, j) = Body(sent, i) PROVE j = i
    <3>1. OnWire(sent[j]) \in Nat /\ OnWire(sent[j]) >= 1
      <4>1. IsSplit(sent[j]) => sent[j].size >= FieldCount
        BY <1>1, <2>2, FramesAssumption
      <4>2. sent[j].size \in Nat /\ FieldCount \in Nat /\ FieldCount >= 1
        BY <1>2, LengthsProperties
      <4>3. OnWire(sent[j]) =
              IF ~IsSplit(sent[j]) /\ sent[j].size < FieldCount THEN FieldCount ELSE sent[j].size
        BY DEF OnWire
      <4>. QED  BY <4>1, <4>2, <4>3
    <3>2. OnWire(sent[i]) = OnWire(sent[j])
      BY <1>1, <2>2, CellsProperties
    <3>3. Body(sent, i)[1] = <<i, HeadLen + 1>> /\ Body(sent, j)[1] = <<j, HeadLen + 1>>
      BY <1>1, <3>1, <3>2, CellsProperties, 1 \in 1 .. OnWire(sent[j])
    <3>. QED  BY <2>2, <3>3
  <2>3. IsWhole(Body(sent, i)) => sent[i].whole
    BY <1>1, <2>2 DEF IsWhole
  <2>. QED  BY <1>2, <2>1, <2>3 DEF IsWhole
<1>6. ASSUME NEW i \in DOMAIN sent
      PROVE  /\ Meant(sent)[i] = WithData(sent[i], Body(sent, i))
             /\ TooLarge(Meant(sent)[i]) <=> TooLarge(sent[i])
             /\ Stream!Passable(Meant(sent)[i]) <=> ~(sent[i].size > MaxTransaction)
  <2>1. Meant(sent)[i] =
          [type |-> sent[i].type, trans |-> sent[i].trans, total |-> sent[i].total,
           size |-> sent[i].size, whole |-> sent[i].whole, body |-> Body(sent, i)]
    BY DEF Meant
  <2>2. Meant(sent)[i] = WithData(sent[i], Body(sent, i))
    BY <1>1, <1>5, <2>1 DEF WithData
  <2>3. sent[i].size \in Nat /\ MaxTransaction \in Nat
    BY <1>1, <1>2, PartialsAssumption
  <2>. QED  BY <2>1, <2>2, <2>3 DEF TooLarge, IsSplit, Stream!Passable
<1>. QED  BY <1>4, <1>6

----------------------------------------------------------------------------
(* The reader and the wire.                                                *)

\* A reader that has taken t frames, and has read its buffer up to r.
Placed(r, t) ==
  /\ r \in 0 .. Len(buf) /\ t \in 0 .. Len(sent)
  /\ Len(buf) - r = pushed - Upto(t)
  /\ \A j \in 1 .. Len(buf) - r : buf[r + j] = Wire[Upto(t) + j]

\* The next frame is not all there.
NextMissing(t) == t < Len(sent) => pushed < Upto(t + 1)

StreamInv ==
  /\ sent \in Scripts /\ pushed \in 0 .. Len(Wire) /\ buf \in Seq(Cell)
  /\ Placed(at, taken)

\* The numbers of a reader so placed.
LEMMA PlacedProperties ==
  ASSUME StreamInv, NEW r, NEW t, Placed(r, t)
  PROVE  /\ Len(sent) \in Nat /\ t \in Nat /\ t <= Len(sent)
         /\ Len(buf) \in Nat /\ r \in Nat /\ r <= Len(buf)
         /\ Len(Wire) \in Nat /\ pushed \in Nat /\ pushed <= Len(Wire)
         /\ Upto(t) \in Nat /\ Upto(t) <= pushed /\ Len(buf) - r = pushed - Upto(t)
<1>1. Len(sent) \in Nat /\ Len(buf) \in Nat /\ Len(Wire) \in Nat
  BY SentProperties, FramesOnWire, LenProperties DEF StreamInv
<1>2. /\ t \in 0 .. Len(sent) /\ r \in 0 .. Len(buf) /\ pushed \in 0 .. Len(Wire)
      /\ Len(buf) - r = pushed - Upto(t)
  BY DEF StreamInv, Placed
<1>3. Upto(t) \in 0 .. Len(Wire)
  BY <1>2, FramesOnWire DEF StreamInv
<1>. DEFINE u == Upto(t)
            l == Len(buf)
            n == Len(sent)
            m == Len(Wire)
<1>4. /\ n \in Nat /\ l \in Nat /\ m \in Nat
      /\ t \in 0 .. n /\ r \in 0 .. l /\ pushed \in 0 .. m /\ l - r = pushed - u /\ u \in 0 .. m
  BY <1>1, <1>2, <1>3
<1>. HIDE DEF u, l, n, m
<1>5. /\ t \in Nat /\ t <= n /\ r \in Nat /\ r <= l /\ pushed \in Nat /\ pushed <= m
      /\ u \in Nat /\ u <= pushed
  BY <1>4
<1>. QED  BY <1>4, <1>5 DEF u, l, n, m

\* The head that is read is the next frame's.
LEMMA HeadRead ==
  ASSUME StreamInv, NEW r \in Nat, NEW t \in Nat, Placed(r, t), Len(buf) - r >= HeadLen
  PROVE  /\ t + 1 \in DOMAIN sent /\ t + 1 \in 1 .. Len(sent)
         /\ HeadAt(buf[r + 1]) = sent[t + 1]
<1>1. /\ Len(sent) \in Nat /\ Len(buf) \in Nat
      /\ HeadLen \in Nat /\ HeadLen >= 1
      /\ Len(Wire) \in Nat /\ pushed <= Len(Wire) /\ pushed \in Nat
      /\ r \in Nat /\ t \in Nat /\ t <= Len(sent) /\ Upto(t) \in Nat
      /\ Len(buf) - r = pushed - Upto(t)
  BY LengthsProperties, PlacedProperties
<1>2. t # Len(sent)
  <2>1. Upto(t) < pushed
    BY <1>1
  <2>2. Upto(Len(sent)) = Len(Wire)
    BY FramesOnWire DEF StreamInv
  <2>. QED  BY <1>1, <2>1, <2>2
<1>3. t + 1 \in 1 .. Len(sent) /\ (t + 1) - 1 = t
  BY <1>1, <1>2
<1>4. /\ t + 1 \in DOMAIN sent /\ OnWire(sent[t + 1]) \in Nat
      /\ Cells(sent, t + 1)[1] = <<t + 1, 1>>
  BY <1>3, SentProperties, CellsProperties DEF StreamInv
<1>5. Wire[Upto(t) + 1] = Cells(sent, t + 1)[1]
  <2>1. 1 \in 1 .. HeadLen + OnWire(sent[t + 1])
    BY <1>1, <1>4
  <2>. QED  BY <1>3, <2>1, FramesOnWire DEF StreamInv
<1>6. buf[r + 1] = Wire[Upto(t) + 1]
  <2>1. 1 \in 1 .. Len(buf) - r
    BY <1>1
  <2>. QED  BY <2>1 DEF Placed
<1>. QED  BY <1>3, <1>4, <1>5, <1>6 DEF HeadAt

\* The reader's length of a frame's data is the server's.
LEMMA SameLength == \A f : DataLen(f) = OnWire(f)
BY DEF DataLen, OnWire

\* What is cut from the buffer is the next frame, with its data.
LEMMA FrameCut ==
  ASSUME StreamInv, NEW r \in Nat, NEW t \in Nat, Placed(r, t), t + 1 \in 1 .. Len(sent),
         NEW f, f = sent[t + 1], Len(buf) - r >= HeadLen + DataLen(f)
  PROVE  /\ DataLen(f) \in Nat
         /\ Placed(r + HeadLen + DataLen(f), t + 1)
         /\ WithData(f, SubSeq(buf, r + HeadLen + 1, r + HeadLen + DataLen(f))) = Meant(sent)[t + 1]
<1>. DEFINE n == DataLen(f)
            data == SubSeq(buf, r + HeadLen + 1, r + HeadLen + n)
<1>1. /\ Len(sent) \in Nat /\ Len(buf) \in Nat
      /\ HeadLen \in Nat /\ HeadLen >= 1 /\ pushed \in Nat
      /\ r \in Nat /\ r <= Len(buf) /\ t \in Nat /\ t <= Len(sent) /\ Upto(t) \in Nat
  BY LengthsProperties, PlacedProperties
<1>2. t + 1 \in DOMAIN sent /\ sent \in Scripts
  BY SentProperties DEF StreamInv
<1>3. n \in Nat /\ n = OnWire(sent[t + 1])
  BY <1>2, CellsProperties, SameLength
<1>4. n \in Nat /\ Upto(t + 1) \in Nat /\ Upto(t + 1) = Upto(t) + HeadLen + n
  <2>1. (t + 1) - 1 = t
    BY <1>1
  <2>2. Upto(t + 1) = Upto(t) + HeadLen + OnWire(sent[t + 1])
    BY <2>1, FramesOnWire DEF StreamInv
  <2>. QED  BY <1>1, <1>3, <2>2
<1>5. Len(buf) - r = pushed - Upto(t) /\ Len(buf) - r >= HeadLen + n
  BY DEF Placed
<1>6. \A j \in 1 .. Len(buf) - r : buf[r + j] = Wire[Upto(t) + j]
  BY DEF Placed
<1>7. Placed(r + HeadLen + n, t + 1)
  <2>. HIDE DEF n
  <2>1. r + HeadLen + n \in 0 .. Len(buf)
    BY <1>1, <1>4, <1>5
  <2>2. t + 1 \in 0 .. Len(sent)
    BY <1>1
  <2>3. Len(buf) - (r + HeadLen + n) = pushed - Upto(t + 1)
    <3>. DEFINE u == Upto(t + 1)
                v == Upto(t)
    <3>1. /\ v \in Nat /\ u = v + HeadLen + n /\ Len(buf) - r = pushed - v
          /\ pushed \in Nat /\ Len(buf) \in Nat /\ HeadLen \in Nat /\ n \in Nat
      BY <1>1, <1>4, <1>5
    <3>. HIDE DEF u, v
    <3>2. Len(buf) - (r + HeadLen + n) = pushed - u
      BY <3>1
    <3>. QED  BY <3>2 DEF u
  <2>4. ASSUME NEW j \in 1 .. Len(buf) - (r + HeadLen + n)
        PROVE  buf[(r + HeadLen + n) + j] = Wire[Upto(t + 1) + j]
    <3>. DEFINE k == HeadLen + n + j
                l == Len(buf)
                u == Upto(t)
                v == Upto(t + 1)
    <3>1. /\ l \in Nat /\ r \in Nat /\ HeadLen \in Nat /\ n \in Nat /\ u \in Nat /\ v \in Nat
          /\ v = u + HeadLen + n /\ j \in 1 .. l - (r + HeadLen + n) /\ l - r >= HeadLen + n
      BY <1>1, <1>4, <1>5
    <3>. HIDE DEF l, u, v
    <3>2. k \in 1 .. l - r /\ r + k = (r + HeadLen + n) + j /\ u + k = v + j
      BY <3>1
    <3>. HIDE DEF k
    <3>. QED  BY <1>6, <3>2, Zenon DEF l, u, v
  <2>. QED  BY <2>1, <2>2, <2>3, <2>4 DEF Placed
<1>8. data = Body(sent, t + 1)
  <2>. HIDE DEF n
  <2>1. Body(sent, t + 1) \in Seq(Cell) /\ Len(Body(sent, t + 1)) = n
    BY <1>2, <1>3, CellsProperties
  <2>2. /\ data \in Seq(Cell) /\ Len(data) = n
        /\ \A k \in 1 .. n : data[k] = buf[r + HeadLen + k]
    <3>. DEFINE a == r + HeadLen
    <3>1. a \in Nat /\ a + n <= Len(buf) /\ n \in Nat /\ buf \in Seq(Cell)
      BY <1>1, <1>4, <1>5 DEF StreamInv
    <3>. HIDE DEF a
    <3>2. /\ SubSeq(buf, a + 1, a + n) \in Seq(Cell) /\ Len(SubSeq(buf, a + 1, a + n)) = n
          /\ \A k \in 1 .. n : SubSeq(buf, a + 1, a + n)[k] = buf[a + k]
      BY <3>1, PartOf
    <3>. QED  BY <3>2, Zenon DEF a
  <2>3. ASSUME NEW k \in 1 .. n PROVE buf[r + HeadLen + k] = Body(sent, t + 1)[k]
    <3>. DEFINE j == HeadLen + k
    <3>1. j \in 1 .. Len(buf) - r /\ r + HeadLen + k = r + j /\ j \in 1 .. HeadLen + n
      <4>. DEFINE l == Len(buf)
      <4>1. l \in Nat /\ r \in Nat /\ HeadLen \in Nat /\ n \in Nat /\ l - r >= HeadLen + n
        BY <1>1, <1>4, <1>5
      <4>. HIDE DEF l
      <4>. QED  BY <4>1 DEF l
    <3>2. buf[r + j] = Cells(sent, t + 1)[j]
      <4>. HIDE DEF j
      <4>. QED  BY <1>2, <1>1, <1>3, <1>6, <3>1, FramesOnWire
    <3>3. Cells(sent, t + 1)[j] = Body(sent, t + 1)[k]
      BY <1>2, <1>3, CellsProperties
    <3>. QED  BY <3>1, <3>2, <3>3
  <2>. HIDE DEF data
  <2>. QED  BY <2>1, <2>2, <2>3, SeqEqual
<1>9. WithData(f, data) = Meant(sent)[t + 1]
  BY <1>2, <1>8, MeantProperties
<1>. QED  BY <1>3, <1>7, <1>9

\* Where less is left than the next frame has, it is not all there.
LEMMA FrameMissing ==
  ASSUME StreamInv, NEW r \in Nat, NEW t \in Nat, Placed(r, t),
         t + 1 \in 1 .. Len(sent) => Len(buf) - r < HeadLen + OnWire(sent[t + 1])
  PROVE  NextMissing(t)
<1>1. Len(sent) \in Nat /\ t \in 0 .. Len(sent) /\ Upto(t) \in Nat /\ pushed \in Nat
  BY PlacedProperties
<1>2. ASSUME t < Len(sent) PROVE pushed < Upto(t + 1)
  <2>1. t + 1 \in 1 .. Len(sent) /\ (t + 1) - 1 = t /\ HeadLen \in Nat
    BY <1>1, <1>2, LengthsProperties
  <2>2. Upto(t + 1) = Upto(t) + HeadLen + OnWire(sent[t + 1]) /\ OnWire(sent[t + 1]) \in Nat
    BY <2>1, FramesOnWire, CellsProperties, SentProperties DEF StreamInv
  <2>3. pushed - Upto(t) < HeadLen + OnWire(sent[t + 1])
    BY <2>1 DEF Placed
  <2>. QED  BY <1>1, <2>1, <2>2, <2>3
<1>. QED  BY <1>2 DEF NextMissing

----------------------------------------------------------------------------
(* A call of next_transaction(), and HxStream's reader beside it.          *)

FramesInv ==
  /\ StreamInv
  /\ partials \in Joining /\ delivered \in Delivered
  /\ abandoned \in Seq(Nat) /\ handed \in Seq(Nat)
  /\ result = "more" => NextMissing(taken)

\* HxStream's reader before the call, and after the n frames next to be taken.
Before == Stream!Reader(partials, delivered, handed \o abandoned)
Ahead(n) == SubSeq(Meant(sent), taken + 1, taken + n)
After(n) == Stream!TakeAll(Before, Ahead(n))

\* The frames that come next are those of the script.
LEMMA AheadProperties ==
  ASSUME StreamInv, NEW n \in Nat, taken + n <= Len(sent)
  PROVE  /\ Ahead(n) \in Seq(Frame0) /\ Len(Ahead(n)) = n
         /\ \A i \in 1 .. n : Ahead(n)[i] = Meant(sent)[taken + i]
<1>1. /\ Meant(sent) \in Seq(Frame0) /\ Len(Meant(sent)) = Len(sent)
      /\ Len(sent) \in Nat /\ taken \in Nat
  BY MeantProperties, SentProperties DEF StreamInv, Placed
<1>. QED  BY <1>1, PartOf DEF Ahead

\* HxStream's reader takes them one at a time.
LEMMA AfterProperties ==
  ASSUME FramesInv
  PROVE  /\ After(0) = Before /\ Before \in Readers
         /\ \A n \in 0 .. Len(sent) - taken : After(n) \in Readers
         /\ \A n \in 1 .. Len(sent) - taken :
              /\ After(n) = Stream!TakeOne(After(n - 1), Meant(sent)[taken + n])
              /\ Front(Ahead(n)) = Ahead(n - 1)
<1>1. Len(sent) \in Nat /\ taken \in Nat /\ taken <= Len(sent)
  BY SentProperties DEF FramesInv, StreamInv, Placed
<1>2. Before \in Readers
  <2>1. handed \o abandoned \in Seq(Nat)
    BY ConcatProperties DEF FramesInv
  <2>. QED  BY <2>1 DEF FramesInv, Before, Stream!Reader, Readers
<1>3. ASSUME NEW n \in 0 .. Len(sent) - taken
      PROVE  After(n) \in Readers /\ (n = 0 => After(n) = Before)
  <2>1. Ahead(n) \in Seq(Frame0) /\ Len(Ahead(n)) = n
    BY <1>1, AheadProperties DEF FramesInv
  <2>2. n = 0 => Ahead(n) = <<>>
    BY <2>1, EmptySeq
  <2>. QED  BY <1>2, <2>1, <2>2, TakeAllProperties DEF After
<1>4. ASSUME NEW n \in 1 .. Len(sent) - taken
      PROVE  /\ After(n) = Stream!TakeOne(After(n - 1), Meant(sent)[taken + n])
             /\ Front(Ahead(n)) = Ahead(n - 1)
  <2>. DEFINE fs == Ahead(n - 1)
              f == Meant(sent)[taken + n]
  <2>1. n \in Nat /\ n - 1 \in Nat /\ taken + n <= Len(sent) /\ taken + (n - 1) <= Len(sent)
    BY <1>1
  <2>2. /\ fs \in Seq(Frame0) /\ Len(fs) = n - 1
        /\ \A i \in 1 .. n - 1 : fs[i] = Meant(sent)[taken + i]
    BY <2>1, AheadProperties DEF FramesInv
  <2>3. /\ Ahead(n) \in Seq(Frame0) /\ Len(Ahead(n)) = n
        /\ \A i \in 1 .. n : Ahead(n)[i] = Meant(sent)[taken + i]
    BY <2>1, AheadProperties DEF FramesInv
  <2>4. f \in Frame0 /\ Ahead(n)[n] = f
    BY <2>1, <2>3, ElementOfSeq, n \in 1 .. n
  <2>. HIDE DEF fs, f
  <2>5. Ahead(n) = Append(fs, f)
    <3>1. /\ Append(fs, f) \in Seq(Frame0) /\ Len(Append(fs, f)) = n
          /\ \A i \in 1 .. n - 1 : Append(fs, f)[i] = fs[i]
          /\ Append(fs, f)[n] = f
      <4>1. (n - 1) + 1 = n
        BY <2>1
      <4>. QED  BY <2>2, <2>4, <4>1, AppendProperties
    <3>2. ASSUME NEW i \in 1 .. n PROVE Append(fs, f)[i] = Ahead(n)[i]
      <4>1. i = n \/ i \in 1 .. n - 1
        BY <2>1
      <4>. QED  BY <2>2, <2>3, <2>4, <3>1, <4>1
    <3>. QED  BY <2>3, <3>1, <3>2, SeqEqual
  <2>6. Front(Ahead(n)) = fs
    <3>1. Front(Ahead(n)) = SubSeq(Ahead(n), 1, n - 1)
      BY <2>3 DEF Front
    <3>2. /\ SubSeq(Ahead(n), 1, n - 1) \in Seq(Frame0)
          /\ Len(SubSeq(Ahead(n), 1, n - 1)) = n - 1
          /\ \A i \in 1 .. n - 1 : SubSeq(Ahead(n), 1, n - 1)[i] = Ahead(n)[i]
      <4>. DEFINE k == n - 1
      <4>1. k \in Nat /\ 0 + k <= n /\ 0 + k = k /\ 0 + 1 = 1 /\ 0 \in Nat
        BY <2>1
      <4>2. \A i \in 1 .. k : 0 + i = i
        OBVIOUS
      <4>. HIDE DEF k
      <4>3. /\ SubSeq(Ahead(n), 0 + 1, 0 + k) \in Seq(Frame0)
            /\ Len(SubSeq(Ahead(n), 0 + 1, 0 + k)) = k
            /\ \A i \in 1 .. k : SubSeq(Ahead(n), 0 + 1, 0 + k)[i] = Ahead(n)[0 + i]
        BY <2>3, <4>1, PartOf
      <4>. QED  BY <4>1, <4>2, <4>3 DEF k
    <3>3. \A i \in 1 .. n - 1 : SubSeq(Ahead(n), 1, n - 1)[i] = fs[i]
      BY <2>1, <2>2, <2>3, <3>2
    <3>. QED  BY <2>2, <3>1, <3>2, <3>3, SeqEqual
  <2>. QED  BY <1>2, <2>2, <2>4, <2>5, <2>6, TakeAllProperties DEF After, fs, f
<1>. QED  BY <1>1, <1>2, <1>3, <1>4

Results == {"go", "more", "TooLarge", "transaction"}
CallSet == [at : Nat, partials : Joining, abandoned : Seq(Nat), taken : Nat, result : Results,
            done : Delivered]

\* Where a call has got to: so many frames on, with what HxStream's reader has after
\* them, of which only the last may have completed a transaction.
Got(c) == c.taken - taken

Follows(c) ==
  /\ After(Got(c)) = Stream!Reader(c.partials, delivered \o c.done, handed \o c.abandoned)
  /\ Got(c) # 0 => After(Got(c) - 1).delivered = delivered
  /\ \A i \in 1 .. Got(c) : Stream!Passable(Ahead(Got(c))[i])

Calling(c) ==
  /\ c \in CallSet
  /\ Placed(c.at, c.taken) /\ taken <= c.taken
  /\ Follows(c)
  /\ c.result = "go" => c.done = <<>>
  /\ c.result = "more" => NextMissing(c.taken)

\* A call starts from where the last one left off.
LEMMA CallStarts ==
  ASSUME FramesInv
  PROVE  Calling(Call(at, partials, abandoned, taken, "go", <<>>))
<1>. DEFINE c == Call(at, partials, abandoned, taken, "go", <<>>)
<1>1. /\ c.at = at /\ c.partials = partials /\ c.abandoned = abandoned /\ c.taken = taken
      /\ c.result = "go" /\ c.done = <<>>
  BY DEF Call
<1>2. taken \in Nat /\ at \in Nat /\ Got(c) = 0
  <2>1. Len(sent) \in Nat /\ Len(buf) \in Nat
    BY SentProperties, LenProperties DEF FramesInv, StreamInv
  <2>2. taken \in Nat /\ at \in Nat
    BY <2>1 DEF FramesInv, StreamInv, Placed
  <2>. QED  BY <1>1, <2>2 DEF Got
<1>3. <<>> \in Delivered /\ delivered \o <<>> = delivered
  BY EmptySeq, ConcatEmptySeq DEF FramesInv, Delivered
<1>4. c \in CallSet
  BY <1>2, <1>3 DEF Call, CallSet, FramesInv, Results
<1>. HIDE DEF c
<1>5. Follows(c)
  <2>1. After(0) = Stream!Reader(c.partials, delivered \o c.done, handed \o c.abandoned)
    BY <1>1, <1>3, AfterProperties DEF Before
  <2>. QED  BY <1>2, <2>1 DEF Follows
<1>. QED  BY <1>1, <1>2, <1>4, <1>5 DEF Calling, FramesInv, StreamInv, c

\* Of a call that goes on no further, only the result is another.
LEMMA CallEnds ==
  ASSUME NEW c, Calling(c), NEW res \in Results \ {"go"},
         res = "more" => NextMissing(c.taken)
  PROVE  Calling([c EXCEPT !.result = res]) /\ [c EXCEPT !.result = res].result = res
<1>. DEFINE d == [c EXCEPT !.result = res]
<1>1. /\ d \in CallSet /\ d.at = c.at /\ d.partials = c.partials /\ d.abandoned = c.abandoned
      /\ d.taken = c.taken /\ d.done = c.done /\ d.result = res
  BY DEF Calling, CallSet
<1>. HIDE DEF d
<1>. QED  BY <1>1 DEF Calling, Follows, Got, d

\* What is handed over and what is still to be, one after another.
LEMMA LostTogether ==
  ASSUME NEW x \in Seq(Nat), NEW y \in Seq(Nat), NEW z \in Seq(Nat)
  PROVE  (x \o y) \o z = x \o (y \o z)
<1>. DEFINE S == Nat
<1>1. x \in Seq(S) /\ y \in Seq(S) /\ z \in Seq(S)
  OBVIOUS
<1>. HIDE DEF S
<1>. QED  BY <1>1, ConcatAssociative, SMTT(30)

\* A frame cut is the next frame taken.
LEMMA CutFollows ==
  ASSUME FramesInv, NEW c, Calling(c), c.result = "go",
         NEW f, c.taken + 1 \in 1 .. Len(sent), f = sent[c.taken + 1],
         ~(f.size > MaxTransaction), Len(buf) - c.at >= HeadLen + DataLen(f)
  PROVE  /\ Calling(Cut(c, f)) /\ Cut(c, f).at > c.at
<1>. DEFINE t == c.taken
            end == c.at + HeadLen + DataLen(f)
            m == Meant(sent)[t + 1]
            o == Accept(c.partials, m)
            d == Cut(c, f)
            n == Got(c)
<1>1. /\ c \in CallSet /\ Placed(c.at, t) /\ taken <= t /\ Follows(c) /\ c.done = <<>>
      /\ c.at \in Nat /\ t \in Nat /\ HeadLen \in Nat /\ HeadLen >= 1
  BY LengthsProperties DEF Calling, CallSet
<1>2. /\ DataLen(f) \in Nat /\ Placed(end, t + 1)
      /\ WithData(f, SubSeq(buf, c.at + HeadLen + 1, end)) = m
  BY <1>1, FrameCut DEF FramesInv
<1>3. t + 1 \in DOMAIN sent /\ sent \in Scripts
  BY SentProperties DEF FramesInv, StreamInv
<1>4. m \in Frame0 /\ (TooLarge(m) <=> TooLarge(f)) /\ Stream!Passable(m)
  BY <1>3, MeantProperties, ElementOfSeq
<1>5. end \in Nat /\ end > c.at
  BY <1>1, <1>2
<1>6. /\ n \in Nat /\ n + 1 \in 1 .. Len(sent) - taken /\ (n + 1) - 1 = n /\ taken + (n + 1) = t + 1
      /\ n \in 0 .. Len(sent) - taken /\ n + 1 # 0
  <2>1. /\ taken \in Nat /\ Len(sent) \in Nat /\ t \in Nat /\ taken <= t
        /\ t + 1 \in 1 .. Len(sent) /\ n = t - taken
    BY <1>1, SentProperties DEF FramesInv, StreamInv, Placed, Got
  <2>. HIDE DEF n, t
  <2>. QED  BY <2>1
<1>7. (t + 1) - taken = n + 1 /\ taken <= t + 1
  <2>1. taken \in Nat
    BY SentProperties DEF FramesInv, StreamInv, Placed
  <2>. QED  BY <1>1, <2>1 DEF Got
<1>8. After(n + 1) = Stream!TakeOne(After(n), m) /\ After(n) \in Readers
  BY <1>6, AfterProperties
<1>9. After(n) = Stream!Reader(c.partials, delivered, handed \o c.abandoned)
  <2>1. delivered \o c.done = delivered
    BY <1>1, ConcatEmptySeq DEF FramesInv, Delivered
  <2>. QED  BY <1>1, <2>1 DEF Follows
<1>10. After(n).joining = c.partials /\ After(n).delivered = delivered
      /\ After(n).lost = handed \o c.abandoned
  BY <1>9 DEF Stream!Reader
<1>11. \A i \in 1 .. n + 1 : Stream!Passable(Ahead(n + 1)[i])
  <2>1. /\ taken + n <= Len(sent) /\ taken + (n + 1) <= Len(sent) /\ n + 1 \in Nat
        /\ 1 .. n + 1 = 1 .. n \cup {n + 1} /\ \A i \in 1 .. n : i \in 1 .. n + 1
    <3>. DEFINE l == Len(sent)
    <3>1. taken \in Nat /\ l \in Nat /\ n \in Nat /\ n + 1 \in 1 .. l - taken
      BY <1>6, PlacedProperties DEF FramesInv, StreamInv
    <3>. HIDE DEF l, n
    <3>. QED  BY <3>1 DEF l
  <2>2. \A i \in 1 .. n + 1 : Ahead(n + 1)[i] = Meant(sent)[taken + i]
    BY <1>6, <2>1, AheadProperties DEF FramesInv
  <2>3. \A i \in 1 .. n : Ahead(n)[i] = Meant(sent)[taken + i]
    BY <1>6, <2>1, AheadProperties DEF FramesInv
  <2>4. \A i \in 1 .. n : Stream!Passable(Ahead(n)[i])
    BY <1>1 DEF Follows
  <2>5. Stream!Passable(Ahead(n + 1)[n + 1])
    BY <1>4, <1>6, <2>1, <2>2
  <2>. QED  BY <2>1, <2>2, <2>3, <2>4, <2>5
<1>12. <<>> \in Delivered
  BY EmptySeq DEF Delivered
<1>13. CASE TooLarge(f)
  <2>1. d = Call(end, c.partials, c.abandoned, t + 1, "TooLarge", <<>>)
    BY <1>13 DEF Cut
  <2>2. /\ d.at = end /\ d.partials = c.partials /\ d.abandoned = c.abandoned /\ d.taken = t + 1
        /\ d.result = "TooLarge" /\ d.done = <<>>
    BY <2>1 DEF Call
  <2>3. d \in CallSet
    BY <1>1, <1>5, <1>12, <2>1 DEF Call, CallSet, Results
  <2>4. Got(d) = n + 1
    BY <1>7, <2>2 DEF Got
  <2>5. After(n + 1) = After(n)
    BY <1>4, <1>8, <1>13, TakeOneReads
  <2>6. Follows(d)
    BY <1>1, <1>6, <1>9, <1>10, <1>11, <2>2, <2>4, <2>5 DEF Follows
  <2>7. taken <= d.taken /\ d.at > c.at
    BY <1>5, <1>7, <2>2
  <2>. HIDE DEF d
  <2>8. Calling(d)
    BY <1>2, <2>2, <2>3, <2>6, <2>7 DEF Calling
  <2>. QED  BY <2>7, <2>8 DEF d
<1>14. CASE ~TooLarge(f)
  <2>1. d = Call(end, o.partials, c.abandoned \o o.abandoned, t + 1,
                 IF o.done = <<>> THEN "go" ELSE "transaction", o.done)
    BY <1>2, <1>14 DEF Cut
  <2>2. /\ d.at = end /\ d.partials = o.partials /\ d.abandoned = c.abandoned \o o.abandoned
        /\ d.taken = t + 1 /\ d.result = (IF o.done = <<>> THEN "go" ELSE "transaction")
        /\ d.done = o.done
    <3>. HIDE DEF o, d
    <3>. QED  BY <2>1 DEF Call
  <2>3. o.partials \in Joining /\ o.done \in Delivered /\ o.abandoned \in Seq(Nat)
    BY <1>1, <1>4, AcceptKeepsTidy DEF CallSet, Joining, Delivered, Frame0
  <2>4. d \in CallSet
    <3>1. c.abandoned \o o.abandoned \in Seq(Nat)
      BY <1>1, <2>3, ConcatProperties DEF CallSet
    <3>. HIDE DEF o
    <3>. QED  BY <1>1, <1>5, <2>1, <2>3, <3>1 DEF Call, CallSet, Results
  <2>5. Got(d) = n + 1
    BY <1>7, <2>2 DEF Got
  <2>6. After(n + 1) = Stream!Reader(o.partials, delivered \o o.done,
                                     (handed \o c.abandoned) \o o.abandoned)
    BY <1>4, <1>8, <1>10, <1>14, TakeOneReads
  <2>7. (handed \o c.abandoned) \o o.abandoned = handed \o (c.abandoned \o o.abandoned)
    <3>1. handed \in Seq(Nat) /\ c.abandoned \in Seq(Nat)
      BY <1>1 DEF CallSet, FramesInv
    <3>. HIDE DEF o
    <3>2. o.abandoned \in Seq(Nat)
      BY <2>3
    <3>. QED  BY <3>1, <3>2, LostTogether
  <2>. HIDE DEF o
  <2>8. Follows(d)
    BY <1>6, <1>10, <1>11, <2>2, <2>5, <2>6, <2>7 DEF Follows
  <2>9. (d.result = "go" => d.done = <<>>) /\ d.result # "more"
    BY <2>2
  <2>10. taken <= d.taken /\ d.at > c.at
    BY <1>5, <1>7, <2>2
  <2>. HIDE DEF d
  <2>11. Calling(d)
    BY <1>2, <2>2, <2>4, <2>8, <2>9, <2>10 DEF Calling
  <2>. QED  BY <2>10, <2>11 DEF d
<1>. QED  BY <1>13, <1>14

\* A round of the loop goes on only past a frame.
LEMMA OneFrameKeeps ==
  ASSUME FramesInv, NEW c, Calling(c), NEW step
  PROVE  /\ Calling(OneFrame(c, step))
         /\ OneFrame(c, step).result = "go" => c.result = "go" /\ OneFrame(c, step).at > c.at
<1>. DEFINE f == HeadAt(buf[c.at + 1])
            d == OneFrame(c, step)
<1>1. /\ c \in CallSet /\ Placed(c.at, c.taken) /\ c.at \in Nat /\ c.taken \in Nat
      /\ HeadLen \in Nat /\ Len(buf) \in Nat
  BY LengthsProperties, LenProperties DEF Calling, CallSet, FramesInv, StreamInv
<1>2. CASE c.result # "go"
  BY <1>2 DEF OneFrame
<1>3. CASE c.result = "go" /\ Short(c, HeadLen)
  <2>1. d = [c EXCEPT !.result = "more"]
    BY <1>3 DEF OneFrame
  <2>2. NextMissing(c.taken)
    <3>1. ASSUME c.taken + 1 \in 1 .. Len(sent)
          PROVE  Len(buf) - c.at < HeadLen + OnWire(sent[c.taken + 1])
      <4>1. OnWire(sent[c.taken + 1]) \in Nat
        BY <3>1, SentProperties, CellsProperties DEF FramesInv, StreamInv
      <4>. QED  BY <1>1, <1>3, <4>1 DEF Short
    <3>. QED  BY <1>1, <3>1, FrameMissing DEF FramesInv
  <2>. QED  BY <2>1, <2>2, CallEnds DEF Results
<1>4. CASE c.result = "go" /\ ~Short(c, HeadLen)
  <2>1. /\ c.taken + 1 \in 1 .. Len(sent) /\ f = sent[c.taken + 1]
    <3>1. Len(buf) - c.at >= HeadLen
      BY <1>1, <1>4 DEF Short
    <3>. QED  BY <1>1, <3>1, HeadRead DEF FramesInv
  <2>2. d = IF f.size > MaxTransaction THEN [c EXCEPT !.result = "TooLarge"]
            ELSE IF Short(c, HeadLen + DataLen(f)) THEN [c EXCEPT !.result = "more"]
            ELSE Cut(c, f)
    BY <1>4 DEF OneFrame
  <2>. HIDE DEF f, d
  <2>3. DataLen(f) = OnWire(sent[c.taken + 1]) /\ DataLen(f) \in Nat
    BY <2>1, SameLength, SentProperties, CellsProperties DEF FramesInv, StreamInv
  <2>4. CASE f.size > MaxTransaction
    BY <2>2, <2>4, CallEnds DEF Results, d
  <2>5. CASE ~(f.size > MaxTransaction) /\ Short(c, HeadLen + DataLen(f))
    <3>1. NextMissing(c.taken)
      BY <1>1, <2>3, <2>5, FrameMissing DEF FramesInv, Short
    <3>. QED  BY <2>2, <2>5, <3>1, CallEnds DEF Results, d
  <2>6. CASE ~(f.size > MaxTransaction) /\ ~Short(c, HeadLen + DataLen(f))
    <3>1. Len(buf) - c.at >= HeadLen + DataLen(f)
      BY <1>1, <2>3, <2>6 DEF Short
    <3>2. Calling(Cut(c, f)) /\ Cut(c, f).at > c.at
      BY <1>4, <2>1, <2>6, <3>1, CutFollows
    <3>. QED  BY <1>4, <2>2, <2>6, <3>2 DEF d
  <2>. QED  BY <2>4, <2>5, <2>6
<1>. QED  BY <1>2, <1>3, <1>4

\* The call that the loop makes, of the rounds it may take.
Looped ==
  FoldLeft(OneFrame, Call(at, partials, abandoned, taken, "go", <<>>),
           [k \in 1 .. Len(buf) + 1 |-> k])

\* next_transaction()'s loop comes to an end: each round but the last takes a frame.
LEMMA LoopEnds ==
  ASSUME FramesInv
  PROVE  Calling(Looped) /\ Looped.result # "go"
<1>. DEFINE n == Len(buf) + 1
            rounds == [k \in 1 .. n |-> k]
            start == Call(at, partials, abandoned, taken, "go", <<>>)
            D == SUBSET (DOMAIN rounds)
            V == {c \in CallSet : Calling(c)}
            G == [k \in 1 .. n |-> [c \in V |-> OneFrame(c, rounds[k])]]
            f == CHOOSE f : f = [s \in D |-> IF s = {} THEN start
                                 ELSE OneFrame(f[s \ {Max(s)}], rounds[Max(s)])]
<1>1. Looped = f[DOMAIN rounds]
  BY DEF Looped, FoldLeft, MapThenFoldSet
<1>2. /\ n \in Nat /\ DOMAIN rounds = 1 .. n /\ start \in V
      /\ G \in [1 .. n -> [V -> V]]
  <2>1. n \in Nat
    BY LenProperties DEF FramesInv, StreamInv
  <2>2. ASSUME NEW k \in 1 .. n, NEW v \in V PROVE OneFrame(v, rounds[k]) \in V
    <3>1. Calling(OneFrame(v, rounds[k]))
      BY OneFrameKeeps
    <3>. QED  BY <3>1 DEF Calling
  <2>3. start \in V
    BY CallStarts DEF Calling
  <2>. QED  BY <2>1, <2>2, <2>3
<1>. HIDE DEF start
<1>3. f = [s \in D |-> IF s = {} THEN start ELSE OneFrame(f[s \ {Max(s)}], rounds[Max(s)])]
  <2>1. PICK g : FoldsSets(g, V, start, n, G)
    <3>. HIDE DEF n, V, G
    <3>. QED  BY <1>2, GreatestLast
  <2>2. ASSUME NEW s \in D, s # {}
        PROVE  G[Max(s)][g[s \ {Max(s)}]] = OneFrame(g[s \ {Max(s)}], rounds[Max(s)])
    <3>1. Max(s) \in 1 .. n
      <4>. HIDE DEF n
      <4>. QED  BY <1>2, <2>2, MaxOf
    <3>2. s \ {Max(s)} \in D
      OBVIOUS
    <3>. HIDE DEF n, V
    <3>. QED  BY <1>2, <2>1, <3>1, <3>2 DEF FoldsSets
  <2>3. g = [s \in D |-> IF s = {} THEN start ELSE OneFrame(g[s \ {Max(s)}], rounds[Max(s)])]
    <3>. HIDE DEF n, V, G
    <3>. QED  BY <1>2, <2>1, <2>2 DEF FoldsSets
  <2>. QED  BY <2>3
<1>. HIDE DEF f
<1>4. StepsSets(f, V, start, n, G)
  <2>1. ASSUME NEW k \in 1 .. n, f[1 .. k - 1] \in V PROVE f[1 .. k] = G[k][f[1 .. k - 1]]
    <3>1. Max(1 .. k) = k /\ (1 .. k) \ {k} = 1 .. k - 1 /\ 1 .. k # {} /\ 1 .. k \in D
      <4>. HIDE DEF n
      <4>. QED  BY <1>2, MaxOfRun
    <3>. HIDE DEF n, V
    <3>. QED  BY <1>3, <2>1, <3>1
  <2>. HIDE DEF n, V, G
  <2>. QED  BY <1>2, <1>3, <2>1 DEF StepsSets
<1>. DEFINE h == [k \in 0 .. n |-> f[1 .. k]]
<1>5. Steps(h, V, start, n, G)
  <2>. HIDE DEF n, V, G
  <2>. QED  BY <1>2, <1>4, FoldSteps
<1>6. Looped = h[n] /\ n \in 0 .. n
  BY <1>1, <1>2
<1>. HIDE DEF h
<1>7. /\ h[0] = start /\ \A k \in 0 .. n : Calling(h[k])
      /\ \A k \in 1 .. n : h[k] = OneFrame(h[k - 1], k) /\ k - 1 \in 0 .. n
  <2>. HIDE DEF n
  <2>1. \A k \in 1 .. n : k - 1 \in 0 .. n
    BY <1>2
  <2>. QED  BY <1>5, <2>1 DEF Steps
<1>. DEFINE T == {k \in 0 .. n : h[k].at >= k \/ h[k].result # "go"}
<1>8. 0 \in T
  <2>1. h[0].at \in Nat /\ 0 \in 0 .. n
    BY <1>2, <1>7 DEF Calling, CallSet
  <2>. QED  BY <2>1
<1>9. ASSUME NEW k \in 1 .. n, k - 1 \in T PROVE k \in T
  <2>1. k \in 0 .. n /\ k - 1 \in 0 .. n /\ Calling(h[k - 1]) /\ Calling(h[k])
    BY <1>2, <1>7
  <2>2. h[k - 1].at \in Nat /\ h[k].at \in Nat
    BY <2>1 DEF Calling, CallSet
  <2>3. h[k].result = "go" => h[k - 1].result = "go" /\ h[k].at > h[k - 1].at
    BY <1>7, <2>1, OneFrameKeeps
  <2>4. h[k].result = "go" => h[k - 1].at >= k - 1
    BY <1>9, <2>3
  <2>. QED  BY <2>1, <2>2, <2>3, <2>4
<1>10. n \in T
  <2>1. 0 .. n \subseteq T
    <3>. HIDE DEF T, n
    <3>. QED  BY <1>2, <1>8, <1>9, UpTo
  <2>. QED  BY <1>6, <2>1
<1>11. h[n].at <= Len(buf) /\ h[n].at \in Nat /\ Len(buf) \in Nat
  <2>1. Placed(h[n].at, h[n].taken)
    BY <1>6, <1>7 DEF Calling
  <2>. QED  BY <2>1, PlacedProperties DEF FramesInv
<1>12. h[n].result # "go"
  BY <1>10, <1>11
<1>. QED  BY <1>6, <1>7, <1>12

----------------------------------------------------------------------------
(* The reader, call after call.                                            *)

\* Nothing has been pushed yet.
LEMMA FramesInvInit == Init => FramesInv
<1>. SUFFICES ASSUME Init PROVE FramesInv
  OBVIOUS
<1>1. /\ sent \in Scripts /\ pushed = 0 /\ buf = <<>> /\ at = 0 /\ taken = 0
      /\ partials = <<>> /\ abandoned = <<>> /\ delivered = <<>> /\ handed = <<>>
      /\ result = "none"
  BY DEF Init
<1>2. Len(buf) = 0 /\ buf \in Seq(Cell) /\ Len(sent) \in Nat /\ Len(Wire) \in Nat
  BY <1>1, EmptySeq, SentProperties, FramesOnWire, LenProperties
<1>3. Placed(at, taken)
  BY <1>1, <1>2, FramesOnWire DEF Placed
<1>4. partials \in Joining
  <2>1. partials \in Seq(Partial(STRING, Nat, Cell)) /\ Len(partials) = 0 /\ DOMAIN partials = {}
    BY <1>1, EmptySeq
  <2>. QED  BY <2>1, PartialsAssumption DEF Joining, Tidy
<1>5. delivered \in Delivered /\ abandoned \in Seq(Nat) /\ handed \in Seq(Nat)
  BY <1>1, EmptySeq DEF Delivered
<1>. QED  BY <1>1, <1>2, <1>3, <1>4, <1>5 DEF FramesInv, StreamInv

\* What a push leaves of the buffer is what has not been read.
LEMMA CompactedProperties ==
  ASSUME FramesInv
  PROVE  /\ Compacted.buf \in Seq(Cell) /\ Compacted.at \in 0 .. Len(Compacted.buf)
         /\ Len(Compacted.buf) - Compacted.at = Len(buf) - at
         /\ \A j \in 1 .. Len(buf) - at : Compacted.buf[Compacted.at + j] = buf[at + j]
         /\ Compacted.at <= CompactAt
<1>1. /\ buf \in Seq(Cell) /\ Len(buf) \in Nat /\ at \in Nat /\ at <= Len(buf)
      /\ CompactAt \in Nat
  BY LengthsProperties, LenProperties DEF FramesInv, StreamInv, Placed
<1>2. CASE at > CompactAt \/ at = Len(buf)
  <2>. DEFINE rest == SubSeq(buf, at + 1, Len(buf))
  <2>1. Compacted.buf = rest /\ Compacted.at = 0
    BY <1>2 DEF Compacted
  <2>2. /\ rest \in Seq(Cell) /\ Len(rest) = Len(buf) - at
        /\ \A j \in 1 .. Len(buf) - at : rest[j] = buf[at + j]
    <3>. DEFINE k == Len(buf) - at
    <3>1. k \in Nat /\ at + k <= Len(buf) /\ at + k = Len(buf)
      BY <1>1
    <3>. HIDE DEF k
    <3>2. /\ SubSeq(buf, at + 1, at + k) \in Seq(Cell) /\ Len(SubSeq(buf, at + 1, at + k)) = k
          /\ \A j \in 1 .. k : SubSeq(buf, at + 1, at + k)[j] = buf[at + j]
      BY <1>1, <3>1, PartOf
    <3>3. rest = SubSeq(buf, at + 1, at + k)
      BY <3>1
    <3>. HIDE DEF rest
    <3>. QED  BY <3>2, <3>3 DEF k
  <2>. HIDE DEF rest
  <2>3. Len(buf) - at \in Nat
    BY <1>1
  <2>. QED  BY <1>1, <2>1, <2>2, <2>3
<1>3. CASE ~(at > CompactAt \/ at = Len(buf))
  <2>1. Compacted.buf = buf /\ Compacted.at = at
    BY <1>3 DEF Compacted
  <2>. QED  BY <1>1, <1>3, <2>1
<1>. QED  BY <1>2, <1>3

\* push() keeps the reader's place, and the buffer small.
LEMMA PushKeeps ==
  ASSUME FramesInv, NEW n \in 1 .. Len(Wire) - pushed, Push(n)
  PROVE  FramesInv' /\ Len(buf') <= (pushed' - Read) + CompactAt
<1>. DEFINE b == Compacted.buf
            r == Compacted.at
            more == SubSeq(Wire, pushed + 1, pushed + n)
<1>1. /\ buf' = b \o more /\ at' = r /\ pushed' = pushed + n /\ result' = "none"
      /\ UNCHANGED <<sent, partials, abandoned, taken, delivered, handed>>
      /\ pushed + n <= Len(Wire)
  BY DEF Push
<1>2. /\ sent \in Scripts /\ Wire \in Seq(Cell) /\ Len(Wire) \in Nat /\ pushed \in Nat /\ n \in Nat
      /\ Upto(taken) \in Nat /\ taken \in 0 .. Len(sent) /\ CompactAt \in Nat /\ Len(buf) \in Nat
      /\ at \in Nat
  <2>1. StreamInv /\ Placed(at, taken)
    BY DEF FramesInv, StreamInv
  <2>2. sent \in Scripts /\ taken \in 0 .. Len(sent)
    BY <2>1 DEF StreamInv, Placed
  <2>. QED  BY <2>1, <2>2, PlacedProperties, FramesOnWire, LengthsProperties
<1>3. /\ b \in Seq(Cell) /\ r \in 0 .. Len(b) /\ Len(b) \in Nat
      /\ Len(b) - r = Len(buf) - at /\ r <= CompactAt
  BY CompactedProperties, LenProperties
<1>4. \A j \in 1 .. Len(buf) - at : b[r + j] = buf[at + j]
  BY CompactedProperties
<1>5. Len(buf) - at = pushed - Upto(taken)
  BY DEF FramesInv, StreamInv, Placed
<1>6. \A j \in 1 .. Len(buf) - at : buf[at + j] = Wire[Upto(taken) + j]
  BY DEF FramesInv, StreamInv, Placed
<1>7. /\ more \in Seq(Cell) /\ Len(more) = n
      /\ \A j \in 1 .. n : more[j] = Wire[pushed + j]
  <2>1. Wire \in Seq(Cell) /\ pushed \in Nat /\ n \in Nat /\ pushed + n <= Len(Wire)
    BY <1>1, <1>2
  <2>. QED  BY <2>1, PartOf
<1>. HIDE DEF b, r, more
<1>8. /\ b \o more \in Seq(Cell) /\ Len(b \o more) = Len(b) + n
      /\ \A j \in 1 .. Len(b) + n :
           (b \o more)[j] = IF j <= Len(b) THEN b[j] ELSE more[j - Len(b)]
  BY <1>3, <1>7, ConcatProperties
<1>9. buf' \in Seq(Cell) /\ Len(buf') = Len(b) + n
  BY <1>1, <1>8
<1>10. Len(b) = (pushed - Upto(taken)) + r
  <2>1. Len(b) - r = pushed - Upto(taken)
    BY <1>3, <1>5
  <2>. QED  BY <1>2, <1>3, <2>1
<1>. DEFINE u == Upto(taken)
            l == Len(b)
<1>11. /\ u \in Nat /\ l \in Nat /\ l = (pushed - u) + r /\ r \in Nat /\ r <= l /\ r <= CompactAt
       /\ CompactAt \in Nat /\ pushed \in Nat /\ n \in Nat /\ u <= pushed
  <2>1. r \in Nat /\ r <= Len(b) /\ Upto(taken) <= pushed
    BY <1>2, <1>3, <1>5
  <2>. QED  BY <1>2, <1>3, <1>10, <2>1
<1>12. Len(buf') = l + n /\ at' = r /\ pushed' = pushed + n
  BY <1>1, <1>9
<1>. HIDE DEF u, l
<1>13. WireOf(taken)' = WireOf(taken) /\ Wire' = Wire /\ Upto(taken)' = Upto(taken)
  BY <1>1 DEF WireOf, Wire, Upto, Cells, Body, OnWire
<1>14. ASSUME NEW j \in 1 .. Len(buf') - at' PROVE buf'[at' + j] = Wire[Upto(taken) + j]
  <2>. DEFINE k == r + j
  <2>1. j \in Nat /\ j >= 1 /\ j <= (Len(b) + n) - r
    BY <1>1, <1>2, <1>3, <1>9
  <2>2. k \in 1 .. Len(b) + n
    BY <1>2, <1>3, <2>1
  <2>3. CASE k <= Len(b)
    <3>1. j \in 1 .. Len(buf) - at
      BY <1>2, <1>3, <2>1, <2>3
    <3>2. b[k] = Wire[Upto(taken) + j]
      BY <1>4, <1>6, <3>1
    <3>. HIDE DEF k
    <3>3. (b \o more)[k] = b[k]
      BY <1>8, <2>2, <2>3
    <3>. QED  BY <1>1, <3>2, <3>3 DEF k
  <2>4. CASE ~(k <= Len(b))
    <3>. DEFINE m == k - Len(b)
    <3>1. m \in 1 .. n /\ pushed + m = Upto(taken) + j
      <4>1. m = (r + j) - l /\ j <= (l + n) - r /\ ~(r + j <= l)
        BY <2>1, <2>4 DEF l
      <4>. HIDE DEF m
      <4>2. m \in 1 .. n /\ pushed + m = u + j
        BY <1>11, <2>1, <4>1
      <4>. QED  BY <4>2 DEF u
    <3>2. (b \o more)[k] = more[m]
      <4>. HIDE DEF k
      <4>. QED  BY <1>8, <2>2, <2>4
    <3>3. more[m] = Wire[pushed + m]
      <4>. HIDE DEF m
      <4>. QED  BY <1>7, <3>1
    <3>. QED  BY <1>1, <3>1, <3>2, <3>3
  <2>. QED  BY <2>3, <2>4
<1>15. /\ at' \in 0 .. Len(buf') /\ Len(buf') - at' = pushed' - Upto(taken)
       /\ pushed' \in 0 .. Len(Wire)
  <2>1. r \in 0 .. l + n /\ (l + n) - r = (pushed + n) - u
    BY <1>11
  <2>2. pushed + n \in 0 .. Len(Wire)
    BY <1>1, <1>2
  <2>. QED  BY <1>12, <2>1, <2>2 DEF u
<1>16. StreamInv'
  <2>1. Placed(at, taken)'
    BY <1>1, <1>2, <1>13, <1>14, <1>15 DEF Placed
  <2>. QED  BY <1>1, <1>2, <1>9, <1>13, <1>15, <2>1 DEF StreamInv
<1>17. Len(buf') <= (pushed' - Read) + CompactAt
  <2>1. Read = u
    BY DEF Read, Upto, u
  <2>2. l + n <= ((pushed + n) - u) + CompactAt
    BY <1>11
  <2>. QED  BY <1>12, <2>1, <2>2
<1>. QED  BY <1>1, <1>16, <1>17 DEF FramesInv

\* The frames sent are never others, and neither is where they are on the wire.
LEMMA SameWire ==
  ASSUME sent' = sent
  PROVE  /\ Wire' = Wire /\ Meant(sent)' = Meant(sent)
         /\ Upto(taken)' = Upto(taken') /\ Upto(taken + 1)' = Upto(taken' + 1)
BY DEF WireOf, Wire, Upto, Cells, Body, OnWire, Meant, IsSplit

\* next_transaction() leaves what its loop does.
LEMMA CallIsLooped ==
  ASSUME NextTransaction
  PROVE  /\ at' = Looped.at /\ partials' = Looped.partials /\ abandoned' = Looped.abandoned
         /\ taken' = Looped.taken /\ result' = Looped.result
         /\ delivered' = delivered \o Looped.done
         /\ UNCHANGED <<sent, pushed, buf, handed>>
BY DEF NextTransaction, Looped

\* next_transaction() leaves the reader placed after the frames it has taken.
LEMMA NextTransactionKeeps ==
  ASSUME FramesInv, NextTransaction
  PROVE  FramesInv'
<1>. DEFINE c == Looped
<1>1. /\ at' = c.at /\ partials' = c.partials /\ abandoned' = c.abandoned
      /\ taken' = c.taken /\ result' = c.result
      /\ delivered' = delivered \o c.done
      /\ sent' = sent /\ pushed' = pushed /\ buf' = buf /\ handed' = handed
  BY CallIsLooped
<1>2. Calling(c)
  BY LoopEnds
<1>. HIDE DEF c
<1>3. /\ c.partials \in Joining /\ c.abandoned \in Seq(Nat) /\ c.done \in Delivered
      /\ Placed(c.at, c.taken) /\ (c.result = "more" => NextMissing(c.taken))
  BY <1>2 DEF Calling, CallSet
<1>4. /\ Wire' = Wire /\ Upto(taken)' = Upto(c.taken)
      /\ Upto(taken + 1)' = Upto(c.taken + 1)
  BY <1>1, SameWire
<1>5. StreamInv'
  <2>1. Placed(at, taken)'
    BY <1>1, <1>3, <1>4 DEF Placed
  <2>. QED  BY <1>1, <1>4, <2>1 DEF StreamInv, FramesInv
<1>6. delivered' \in Delivered
  <2>1. c.done \in Seq(Completions(STRING, Nat, Cell)) /\ delivered \in Seq(Completions(STRING, Nat, Cell))
    BY <1>3 DEF FramesInv, Delivered
  <2>. QED  BY <1>1, <2>1, ConcatProperties DEF Delivered
<1>7. NextMissing(taken)' = NextMissing(c.taken)
  BY <1>1, <1>4 DEF NextMissing
<1>. QED  BY <1>1, <1>3, <1>5, <1>6, <1>7 DEF FramesInv

\* take_abandoned() hands over what was given up on, and counts it no more.
LEMMA TakeAbandonedKeeps ==
  ASSUME FramesInv, TakeAbandoned
  PROVE  FramesInv' /\ handed' \o abandoned' = handed \o abandoned
<1>1. /\ handed' = handed \o abandoned /\ abandoned' = <<>> /\ result' = "none"
      /\ UNCHANGED <<sent, pushed, buf, at, partials, taken, delivered>>
  BY DEF TakeAbandoned, Left
<1>2. abandoned' \in Seq(Nat) /\ handed' \in Seq(Nat) /\ handed' \o abandoned' = handed'
  <2>1. handed \o abandoned \in Seq(Nat) /\ <<>> \in Seq(Nat)
    BY ConcatProperties, EmptySeq DEF FramesInv
  <2>. QED  BY <1>1, <2>1, ConcatEmptySeq
<1>3. StreamInv'
  <2>1. Wire' = Wire /\ Upto(taken)' = Upto(taken)
    BY <1>1, SameWire
  <2>2. Placed(at, taken)'
    BY <1>1, <2>1 DEF Placed, FramesInv, StreamInv
  <2>. QED  BY <1>1, <2>1, <2>2 DEF StreamInv, FramesInv
<1>. QED  BY <1>1, <1>2, <1>3 DEF FramesInv

\* Every operation keeps the reader's invariant.
LEMMA FramesInvNext == FramesInv /\ [Next]_vars => FramesInv'
<1>. SUFFICES ASSUME FramesInv, [Next]_vars PROVE FramesInv'
  OBVIOUS
<1>1. ASSUME NEW n \in 1 .. Len(Wire) - pushed, Push(n) PROVE FramesInv'
  BY <1>1, PushKeeps
<1>2. CASE NextTransaction
  BY <1>2, NextTransactionKeeps
<1>3. CASE TakeAbandoned
  BY <1>3, TakeAbandonedKeeps
<1>4. CASE UNCHANGED vars
  <2>1. UNCHANGED <<sent, pushed, buf, at, partials, abandoned, result, taken, delivered, handed>>
    BY <1>4 DEF vars
  <2>2. Wire' = Wire /\ Upto(taken)' = Upto(taken) /\ Upto(taken + 1)' = Upto(taken + 1)
    BY <2>1, SameWire
  <2>3. Placed(at, taken)' /\ (result' = "more" => NextMissing(taken)')
    BY <2>1, <2>2 DEF Placed, FramesInv, StreamInv, NextMissing
  <2>. QED  BY <2>1, <2>2, <2>3 DEF FramesInv, StreamInv
<1>. QED  BY <1>1, <1>2, <1>3, <1>4 DEF Next

\* FrameReader's inductive invariant: the buffer is the wire from the last frame taken
\* to what was pushed, and a reader that asks for more has not got its next frame.
THEOREM FramesInvAlways == Spec => []FramesInv
BY FramesInvInit, FramesInvNext, PTL DEF Spec

----------------------------------------------------------------------------
(* What the reader promises.                                               *)

\* FrameReader::push, next_transaction: what is left in the buffer is what has come
\* since the last frame taken, whatever the frames, the reads and the head's length.
THEOREM AlwaysInStep == Spec => []InStep
<1>1. ASSUME FramesInv PROVE InStep
  <2>. DEFINE u == Upto(taken)
              k == Len(buf) - at
  <2>1. /\ at \in Nat /\ u \in Nat /\ k \in Nat
        /\ at + k = Len(buf) /\ u + k = pushed /\ at + k <= Len(buf) /\ u + k <= Len(Wire)
    <3>1. /\ Len(buf) \in Nat /\ at \in Nat /\ at <= Len(buf)
          /\ Len(Wire) \in Nat /\ pushed \in Nat /\ pushed <= Len(Wire)
          /\ u \in Nat /\ u <= pushed /\ Len(buf) - at = pushed - u
      <4>1. StreamInv /\ Placed(at, taken)
        BY <1>1 DEF FramesInv, StreamInv
      <4>. QED  BY <4>1, PlacedProperties
    <3>. DEFINE l == Len(buf)
                w == Len(Wire)
    <3>. HIDE DEF u, l, w
    <3>2. /\ l \in Nat /\ at \in Nat /\ at <= l /\ w \in Nat /\ pushed \in Nat /\ pushed <= w
          /\ u \in Nat /\ u <= pushed /\ l - at = pushed - u /\ k = l - at
      BY <3>1 DEF l, w
    <3>. HIDE DEF k
    <3>3. /\ k \in Nat /\ at + k = l /\ u + k = pushed /\ at + k <= l /\ u + k <= w
      BY <3>2
    <3>. QED  BY <3>2, <3>3 DEF l, w
  <2>2. \A j \in 1 .. k : buf[at + j] = Wire[u + j]
    BY <1>1 DEF FramesInv, StreamInv, Placed
  <2>3. buf \in Seq(Cell) /\ Wire \in Seq(Cell) /\ Read = u
    BY <1>1, FramesOnWire DEF FramesInv, StreamInv, Read, Upto
  <2>. HIDE DEF u, k
  <2>4. /\ SubSeq(buf, at + 1, at + k) \in Seq(Cell) /\ Len(SubSeq(buf, at + 1, at + k)) = k
        /\ \A j \in 1 .. k : SubSeq(buf, at + 1, at + k)[j] = buf[at + j]
    BY <2>1, <2>3, PartOf
  <2>5. /\ SubSeq(Wire, u + 1, u + k) \in Seq(Cell) /\ Len(SubSeq(Wire, u + 1, u + k)) = k
        /\ \A j \in 1 .. k : SubSeq(Wire, u + 1, u + k)[j] = Wire[u + j]
    BY <2>1, <2>3, PartOf
  <2>6. SubSeq(buf, at + 1, at + k) = SubSeq(Wire, u + 1, u + k)
    BY <2>2, <2>4, <2>5, SeqEqual
  <2>. QED  BY <2>1, <2>3, <2>6 DEF InStep
<1>. QED  BY <1>1, FramesInvAlways, PTL

\* FrameReader::is_idle: the reader is idle just where what was pushed ends between two
\* frames, all of them taken, and no split transaction waits for its rest.
THEOREM AlwaysIdleMeansWhole == Spec => []IdleMeansWhole
<1>1. ASSUME FramesInv PROVE IdleMeansWhole
  <2>1. /\ Len(buf) \in Nat /\ at \in Nat /\ Upto(taken) \in Nat /\ pushed \in Nat
        /\ Len(buf) - at = pushed - Upto(taken)
    BY <1>1, FramesOnWire, LenProperties DEF FramesInv, StreamInv, Placed
  <2>2. at = Len(buf) <=> pushed = Upto(taken)
    BY <2>1
  <2>. QED  BY <2>2 DEF IdleMeansWhole, IsIdle, Read, Upto
<1>. QED  BY <1>1, FramesInvAlways, PTL

\* FrameReader::next_transaction: a call that returns None leaves no frame that has come
\* whole, however many rounds its loop needs.
THEOREM NothingEverHeldBack == Spec => NothingHeldBack
<1>. DEFINE Missing == result' = "more" => (taken' < Len(sent) => pushed' < Len(WireOf(taken' + 1)))
<1>1. ASSUME FramesInv', sent' = sent PROVE Missing
  <2>1. Upto(taken + 1)' = Upto(taken' + 1)
    BY <1>1, SameWire
  <2>2. NextMissing(taken)' = (taken' < Len(sent) => pushed' < Upto(taken' + 1))
    BY <1>1, <2>1 DEF NextMissing
  <2>. QED  BY <1>1, <2>2 DEF FramesInv, Upto
<1>2. Next => sent' = sent
  BY DEF Next, Push, NextTransaction, TakeAbandoned
<1>3. vars' = vars => sent' = sent
  BY DEF vars
<1>4. FramesInv' /\ [Next]_vars => [Missing]_vars
  BY <1>1, <1>2, <1>3
<1>. QED  BY <1>4, FramesInvAlways, PTL DEF Spec, NothingHeldBack

\* FrameReader::push: the buffer is compacted before it grows, and never holds more than
\* what is there to read and what may be read before it is compacted.
THEOREM BufferAlwaysStaysSmall == Spec => BufferStaysSmall
<1>1. FramesInv /\ [Next]_vars =>
        [pushed' # pushed => Len(buf') <= (pushed' - Read) + CompactAt]_vars
  <2>. SUFFICES ASSUME FramesInv, [Next]_vars, pushed' # pushed
                PROVE  Len(buf') <= (pushed' - Read) + CompactAt
    OBVIOUS
  <2>1. ASSUME NEW n \in 1 .. Len(Wire) - pushed, Push(n)
        PROVE  Len(buf') <= (pushed' - Read) + CompactAt
    BY <2>1, PushKeeps
  <2>2. ~NextTransaction /\ ~TakeAbandoned /\ vars' # vars
    BY DEF NextTransaction, TakeAbandoned, vars
  <2>. QED  BY <2>1, <2>2 DEF Next
<1>. QED  BY <1>1, FramesInvAlways, PTL DEF Spec, BufferStaysSmall

\* A call of next_transaction() is a step of HxStream's, of the frames it takes, or
\* none where it takes none.
LEMMA CallTakes ==
  ASSUME FramesInv, NextTransaction
  PROVE  [Stream!Next]_(Stream!streamVars)
<1>. DEFINE c == Looped
            n == Got(c)
<1>1. /\ partials' = c.partials /\ taken' = c.taken /\ delivered' = delivered \o c.done
      /\ handed' \o abandoned' = handed \o c.abandoned
      /\ sent' = sent
  BY CallIsLooped
<1>2. /\ Follows(c) /\ taken <= c.taken /\ c.taken \in 0 .. Len(sent)
  BY LoopEnds DEF Calling, Placed
<1>3. Len(sent) \in Nat /\ taken \in Nat /\ sent \in Scripts
  BY SentProperties DEF FramesInv, StreamInv, Placed
<1>4. n \in Nat /\ taken + n <= Len(sent) /\ c.taken = taken + n
  BY <1>2, <1>3 DEF Got
<1>5. /\ After(n) = Stream!Reader(partials', delivered', handed' \o abandoned')
      /\ n # 0 => After(n - 1).delivered = delivered
      /\ \A i \in 1 .. n : Stream!Passable(Ahead(n)[i])
  BY <1>1, <1>2 DEF Follows
<1>6. Meant(sent)' = Meant(sent) /\ taken' = taken + n
  BY <1>1, <1>4, SameWire
<1>. HIDE DEF c, n
<1>7. CASE n = 0
  <2>1. Stream!Reader(partials', delivered', handed' \o abandoned') =
        Stream!Reader(partials, delivered, handed \o abandoned)
    BY <1>5, <1>7, AfterProperties DEF Before
  <2>2. partials' = partials /\ delivered' = delivered /\ handed' \o abandoned' = handed \o abandoned
    BY <2>1 DEF Stream!Reader
  <2>. QED  BY <1>3, <1>6, <1>7, <2>2 DEF Stream!streamVars
<1>8. CASE n # 0
  <2>. DEFINE fs == Ahead(n)
  <2>1. /\ fs = SubSeq(Meant(sent), taken + 1, taken + n)
        /\ Stream!Front(fs) = Ahead(n - 1)
    <3>1. n \in 1 .. Len(sent) - taken
      BY <1>3, <1>4, <1>8
    <3>2. Front(fs) = Ahead(n - 1)
      BY <3>1, AfterProperties
    <3>3. Stream!Front(fs) = Front(fs)
      BY DEF Stream!Front, Front
    <3>. QED  BY <3>2, <3>3 DEF Ahead
  <2>2. /\ Stream!TakeAll(Stream!Reader(partials, delivered, handed \o abandoned), fs) = After(n)
        /\ Stream!TakeAll(Stream!Reader(partials, delivered, handed \o abandoned),
                          Stream!Front(fs)) = After(n - 1)
    BY <2>1 DEF After, Before
  <2>3. \A i \in DOMAIN fs : Stream!Passable(fs[i])
    <3>1. fs \in Seq(Frame0) /\ Len(fs) = n
      BY <1>4, AheadProperties DEF FramesInv
    <3>2. DOMAIN fs = 1 .. n
      BY <3>1
    <3>. QED  BY <1>5, <3>2
  <2>4. /\ After(n).joining = partials' /\ After(n).delivered = delivered'
        /\ After(n).lost = handed' \o abandoned'
    BY <1>5 DEF Stream!Reader
  <2>. HIDE DEF fs
  <2>5. Stream!Take(n)
    BY <1>5, <1>6, <1>8, <2>1, <2>2, <2>3, <2>4 DEF Stream!Take
  <2>6. n \in 1 .. Len(Meant(sent)) - taken
    BY <1>3, <1>4, <1>8, MeantProperties
  <2>. QED  BY <2>5, <2>6 DEF Stream!Next
<1>. QED  BY <1>7, <1>8

\* FrameReader implements HxStream: whatever it is pushed and however often it is called,
\* it gives the transactions of the frames that were sent, taken one after another, each
\* once, in order and with its data, and gives up on just those that HxStream does.
THEOREM AlwaysReadsAsSent == Spec => ReadsAsSent
<1>1. Init => Stream!Init
  <2>. SUFFICES ASSUME Init PROVE Stream!Init
    OBVIOUS
  <2>1. <<>> \o <<>> = <<>>
    BY EmptySeq, ConcatEmptySeq
  <2>. QED  BY <2>1 DEF Init, Stream!Init
<1>2. FramesInv /\ [Next]_vars => [Stream!Next]_(Stream!streamVars)
  <2>. SUFFICES ASSUME FramesInv, [Next]_vars PROVE [Stream!Next]_(Stream!streamVars)
    OBVIOUS
  <2>1. ASSUME NEW n \in 1 .. Len(Wire) - pushed, Push(n) PROVE UNCHANGED Stream!streamVars
    <3>1. UNCHANGED <<sent, partials, abandoned, taken, delivered, handed>>
      BY <2>1 DEF Push
    <3>. QED  BY <3>1, SameWire DEF Stream!streamVars
  <2>2. CASE NextTransaction
    BY <2>2, CallTakes
  <2>3. CASE TakeAbandoned
    <3>1. UNCHANGED <<sent, partials, taken, delivered>>
      BY <2>3 DEF TakeAbandoned
    <3>2. handed' \o abandoned' = handed \o abandoned
      BY <2>3, TakeAbandonedKeeps
    <3>. QED  BY <3>1, <3>2, SameWire DEF Stream!streamVars
  <2>4. CASE UNCHANGED vars
    <3>1. UNCHANGED <<sent, partials, abandoned, taken, delivered, handed>>
      BY <2>4 DEF vars
    <3>. QED  BY <3>1, SameWire DEF Stream!streamVars
  <2>. QED  BY <2>1, <2>2, <2>3, <2>4 DEF Next
<1>. QED  BY <1>1, <1>2, FramesInvAlways, PTL DEF Spec, ReadsAsSent, Stream!Spec
=============================================================================
