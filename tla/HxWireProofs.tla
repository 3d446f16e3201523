---------------------------- MODULE HxWireProofs ----------------------------
(***************************************************************************)
(* Theorems about a message's bytes: that what is packed is what is read,   *)
(* field by field and in the header, and that of a message that lost its    *)
(* end just the fields are read that are all there.                        *)
(***************************************************************************)
EXTENDS HxWire, HxFoldProofs

----------------------------------------------------------------------------
(* Numbers as their digits.                                                 *)

\* What a byte is, without its 256 values one by one.
LEMMA BytesAre == \A x \in Byte : x \in Nat /\ x < 256
BY DEF Byte

\* A number has no leading zero.
Number(n) == n \in Seq(Byte) /\ (n = <<>> \/ n[1] # 0)

\* Value() gives some bytes without their leading zeros.
LEMMA ValueIs ==
  ASSUME NEW b \in Seq(Byte)
  PROVE  /\ Number(Value(b)) /\ Len(Value(b)) <= Len(b)
         /\ \A i \in DOMAIN b : i <= Len(b) - Len(Value(b)) => b[i] = 0
         /\ \A i \in DOMAIN Value(b) : Value(b)[i] = b[i + Len(b) - Len(Value(b))]
<1>. DEFINE digits == {i \in DOMAIN b : b[i] # 0}
            m == Min(digits)
<1>1. Len(b) \in Nat /\ DOMAIN b = 1 .. Len(b) /\ \A i \in 1 .. Len(b) : b[i] \in Byte
  BY LenProperties, ElementOfSeq
<1>2. CASE digits = {}
  <2>1. Value(b) = <<>>
    BY <1>2 DEF Value
  <2>2. \A i \in DOMAIN b : b[i] = 0
    BY <1>2
  <2>. QED  BY <1>1, <2>1, <2>2, EmptySeq DEF Number
<1>3. CASE digits # {}
  <2>1. \E k \in digits : \A j \in digits : k <= j
    <3>1. digits \subseteq Nat
      BY <1>1
    <3>. HIDE DEF digits
    <3>. QED  BY <1>3, <3>1, LeastNat
  <2>2. m \in digits /\ \A j \in digits : m <= j
    BY <2>1 DEF Min
  <2>. HIDE DEF m
  <2>3. m \in 1 .. Len(b) /\ b[m] # 0 /\ \A i \in 1 .. Len(b) : i < m => b[i] = 0
    BY <1>1, <2>2
  <2>4. Value(b) = SubSeq(b, m, Len(b))
    BY <1>3 DEF Value, m
  <2>5. /\ Value(b) \in Seq(Byte) /\ Len(Value(b)) = Len(b) - m + 1
        /\ \A i \in 1 .. Len(b) - m + 1 : Value(b)[i] = b[m + i - 1]
    BY <1>1, <2>3, <2>4, SubSeqProperties
  <2>6. Value(b)[1] # 0
    BY <1>1, <2>3, <2>5
  <2>7. DOMAIN Value(b) = 1 .. Len(Value(b))
    BY <2>5, LenProperties
  <2>. HIDE DEF digits
  <2>8. Len(Value(b)) = Len(b) - m + 1 /\ m \in 1 .. Len(b)
    BY <2>3, <2>5
  <2>9. \A i \in 1 .. Len(b) : i <= Len(b) - Len(Value(b)) => b[i] = 0
    BY <1>1, <2>3, <2>8, SMT
  <2>10. \A i \in 1 .. Len(Value(b)) : Value(b)[i] = b[i + Len(b) - Len(Value(b))]
    <3>1. \A i \in 1 .. Len(b) - m + 1 : m + i - 1 = i + Len(b) - Len(Value(b))
      BY <1>1, <2>8, SMT
    <3>. QED  BY <2>5, <3>1
  <2>11. Number(Value(b))
    BY <2>5, <2>6 DEF Number
  <2>12. Len(Value(b)) <= Len(b)
    BY <1>1, <2>8, SMT
  <2>. QED  BY <1>1, <2>7, <2>9, <2>10, <2>11, <2>12
<1>. QED  BY <1>2, <1>3

\* to_be_bytes of what from_be_bytes gave: the bytes' low ones, behind zeros.
LEMMA WideOfValue ==
  ASSUME NEW b \in Seq(Byte), NEW w \in Nat
  PROVE  Wide(Value(b), w) = Wide(b, w)
<1>. DEFINE v == Value(b)
            At(n, i) == LET j == i + Len(n) - w IN IF j < 1 THEN 0 ELSE n[j]
<1>1. /\ Len(b) \in Nat /\ DOMAIN b = 1 .. Len(b)
      /\ Len(v) \in Nat /\ DOMAIN v = 1 .. Len(v) /\ Len(v) <= Len(b)
      /\ \A i \in 1 .. Len(b) : i <= Len(b) - Len(v) => b[i] = 0
      /\ \A i \in 1 .. Len(v) : v[i] = b[i + Len(b) - Len(v)]
  BY ValueIs, LenProperties DEF Number
<1>. HIDE DEF v
<1>2. ASSUME NEW i \in 1 .. w PROVE At(v, i) = At(b, i)
  <2>1. CASE i + Len(v) - w < 1
    BY <1>1, <2>1, SMT
  <2>2. CASE i + Len(v) - w >= 1
    <3>1. i + Len(v) - w \in 1 .. Len(v)
      BY <1>1, <2>2, SMT
    <3>2. v[i + Len(v) - w] = b[(i + Len(v) - w) + Len(b) - Len(v)]
      BY <1>1, <3>1
    <3>3. (i + Len(v) - w) + Len(b) - Len(v) = i + Len(b) - w /\ i + Len(b) - w >= 1
      BY <1>1, <2>2, SMT
    <3>. QED  BY <1>1, <2>2, <3>2, <3>3, SMT
  <2>. QED  BY <1>1, <2>1, <2>2, SMT
<1>. QED  BY <1>2 DEF Wide, v

\* from_be_bytes of what to_be_bytes gave: the number, if it fits.
LEMMA ValueOfWide ==
  ASSUME NEW n, Number(n), NEW w \in Nat, Len(n) <= w
  PROVE  Wide(n, w) \in Seq(Byte) /\ Len(Wide(n, w)) = w /\ Value(Wide(n, w)) = n
<1>. DEFINE b == Wide(n, w)
<1>1. /\ Len(n) \in Nat /\ DOMAIN n = 1 .. Len(n) /\ n = [i \in 1 .. Len(n) |-> n[i]]
      /\ \A i \in 1 .. Len(n) : n[i] \in Byte
  BY LenProperties, ElementOfSeq DEF Number
<1>2. b = [i \in 1 .. w |-> IF i + Len(n) - w < 1 THEN 0 ELSE n[i + Len(n) - w]]
  BY DEF Wide
<1>. HIDE DEF b
<1>3. ASSUME NEW i \in 1 .. w PROVE b[i] \in Byte
  <2>1. i + Len(n) - w < 1 \/ i + Len(n) - w \in 1 .. Len(n)
    BY <1>1, SMT
  <2>2. 0 \in Byte
    BY DEF Byte
  <2>. QED  BY <1>1, <1>2, <2>1, <2>2
<1>4. b \in Seq(Byte) /\ Len(b) = w /\ DOMAIN b = 1 .. w
  BY <1>2, <1>3, SMT
<1>. DEFINE v == Value(b)
<1>5. /\ Number(v) /\ Len(v) \in Nat /\ Len(v) <= w
      /\ \A i \in 1 .. w : i <= w - Len(v) => b[i] = 0
      /\ \A i \in 1 .. Len(v) : v[i] = b[i + w - Len(v)]
      /\ v = [i \in 1 .. Len(v) |-> v[i]]
  BY <1>4, ValueIs, LenProperties DEF Number
<1>. HIDE DEF v
<1>6. Len(v) = Len(n)
  <2>1. CASE Len(v) < Len(n)
    <3>1. w - Len(n) + 1 \in 1 .. w /\ w - Len(n) + 1 <= w - Len(v)
      BY <1>1, <1>5, <2>1, SMT
    <3>2. b[w - Len(n) + 1] = n[1] /\ n # <<>>
      BY <1>1, <1>2, <2>1, <1>5, <3>1, SMT
    <3>. QED  BY <1>5, <3>1, <3>2 DEF Number
  <2>2. CASE Len(v) > Len(n)
    <3>1. 1 + w - Len(v) \in 1 .. w /\ 1 \in 1 .. Len(v)
      BY <1>1, <1>5, <2>2, SMT
    <3>2. b[1 + w - Len(v)] = 0
      BY <1>1, <1>2, <2>2, <1>5, <3>1, SMT
    <3>3. v[1] = 0 /\ v # <<>>
      BY <1>1, <1>5, <2>2, <3>1, <3>2, SMT
    <3>. QED  BY <1>5, <3>3 DEF Number
  <2>3. Len(v) \in Nat /\ Len(n) \in Nat
    BY <1>1, <1>5
  <2>. QED  BY <2>1, <2>2, <2>3, SMT
<1>7. ASSUME NEW i \in 1 .. Len(n) PROVE v[i] = n[i]
  <2>1. v[i] = b[i + w - Len(n)] /\ i + w - Len(n) \in 1 .. w
    BY <1>1, <1>5, <1>6, SMT
  <2>2. (i + w - Len(n)) + Len(n) - w = i
    BY <1>1, SMT
  <2>. QED  BY <1>1, <1>2, <2>1, <2>2, SMT
<1>8. v = n
  BY <1>1, <1>5, <1>6, <1>7
<1>. QED  BY <1>4, <1>8 DEF b, v

----------------------------------------------------------------------------
(* Integers as digits.                                                      *)

\* Integers of two digits and of three.
TwoDigits == {k \in Nat : k < 65536}
ThreeDigits == {k \in Nat : k < 16777216}

\* One more digit, to base 256.
Digit(k, d) == 256 * k + d

\* An integer's three digits.
Three(k) == <<k \div 65536, (k \div 256) % 256, k % 256>>

LEMMA NumDigits ==
  ASSUME NEW k \in ThreeDigits
  PROVE  /\ Three(k) \in Seq(Byte) /\ Len(Three(k)) = 3
         /\ Num(k) = Value(Three(k)) /\ Number(Num(k)) /\ Len(Num(k)) <= 3
         /\ k = Digit(Digit(Three(k)[1], Three(k)[2]), Three(k)[3])
<1>1. /\ k \div 65536 \in 0 .. 255 /\ (k \div 256) % 256 \in 0 .. 255 /\ k % 256 \in 0 .. 255
      /\ k = Digit(Digit(k \div 65536, (k \div 256) % 256), k % 256)
  BY SMT DEF ThreeDigits, Digit
<1>2. Three(k) \in Seq(Byte) /\ Len(Three(k)) = 3
  BY <1>1 DEF Three, Byte
<1>3. Num(k) = Value(Three(k))
  BY DEF Num, Three
<1>4. Three(k)[1] = k \div 65536 /\ Three(k)[2] = (k \div 256) % 256 /\ Three(k)[3] = k % 256
  BY SMT DEF Three
<1>5. Number(Num(k)) /\ Len(Num(k)) <= 3
  BY <1>2, <1>3, ValueIs
<1>. QED  BY <1>1, <1>2, <1>3, <1>4, <1>5, SMT

\* A u16 goes as its two bytes.
LEMMA WideTwo ==
  ASSUME NEW x \in TwoDigits
  PROVE  /\ Wide(Num(x), 2) = <<x \div 256, x % 256>>
         /\ x \div 256 \in Byte /\ x % 256 \in Byte
         /\ 256 * (x \div 256) + (x % 256) = x
<1>1. /\ x \div 256 \in 0 .. 255 /\ x % 256 \in 0 .. 255 /\ (x \div 256) % 256 = x \div 256
      /\ 256 * (x \div 256) + (x % 256) = x
  BY SMT DEF TwoDigits
<1>2. Three(x) \in Seq(Byte) /\ Len(Three(x)) = 3 /\ Num(x) = Value(Three(x))
  BY NumDigits, x \in ThreeDigits DEF TwoDigits, ThreeDigits
<1>3. Wide(Num(x), 2) = Wide(Three(x), 2)
  BY <1>2, WideOfValue
<1>4. Three(x)[2] = x \div 256 /\ Three(x)[3] = x % 256
  BY <1>1 DEF Three
<1>5. Wide(Three(x), 2) = [i \in 1 .. 2 |-> Three(x)[i + 1]]
  BY <1>2, SMT DEF Wide
<1>6. [i \in 1 .. 2 |-> Three(x)[i + 1]] = <<Three(x)[2], Three(x)[3]>>
  OBVIOUS
<1>. QED  BY <1>1, <1>3, <1>4, <1>5, <1>6 DEF Byte

\* What some digits come to: Size()'s fold.
Weigh == [k \in Nat |-> [d \in Byte |-> Digit(k, d)]]
Weight(n) == AfterAll(Nat, 0, n, Weigh)

LEMMA SizeIsWeight ==
  ASSUME NEW n \in Seq(Byte)
  PROVE  /\ Feeds(Nat, Byte, 0, n, Weigh)
         /\ Len(n) <= 3 => Size(n) = Weight(n)
<1>. DEFINE D == SUBSET (DOMAIN n)
            f == CHOOSE f : f = [P \in D |-> IF P = {} THEN 0
                                             ELSE Digit(f[P \ {Max(P)}], n[Max(P)])]
<1>1. Len(n) <= 3 => Size(n) = f[DOMAIN n]
  <2>1. Len(n) \in Nat
    BY LenProperties
  <2>2. Len(n) <= 3 => ~(Len(n) > 3)
    BY <2>1, SMT
  <2>. QED  BY <2>2, Zenon DEF Size, Digit, FoldLeft, MapThenFoldSet
<1>2. ASSUME NEW v \in Nat, NEW x \in Byte
      PROVE  Digit(v, x) \in Nat /\ Digit(v, x) = Weigh[v][x]
  <2>1. x \in Nat
    BY BytesAre
  <2>2. Digit(v, x) \in Nat
    BY <2>1, SMT DEF Digit
  <2>. QED  BY <2>2 DEF Weigh
<1>. HIDE DEF f
<1>3. Weigh \in [Nat -> [Byte -> Nat]]
  BY <1>2 DEF Weigh
<1>4. Feeds(Nat, Byte, 0, n, Weigh)
  BY <1>3 DEF Feeds
<1>5. PICK g : FoldOver(g, Nat, Byte, 0, n, Weigh)
  BY <1>4, FoldExists
<1>6. g = [P \in D |-> IF P = {} THEN 0 ELSE Digit(g[P \ {Max(P)}], n[Max(P)])]
  BY <1>2, <1>5 DEF FoldOver
<1>7. f = [P \in D |-> IF P = {} THEN 0 ELSE Digit(f[P \ {Max(P)}], n[Max(P)])]
  BY <1>6 DEF f
<1>8. f[{}] = 0
  BY <1>7
<1>9. ASSUME NEW k \in DOMAIN n, f[1 .. k - 1] \in Nat
      PROVE  f[1 .. k] = Weigh[f[1 .. k - 1]][n[k]]
  <2>1. DOMAIN n = 1 .. Len(n) /\ Len(n) \in Nat /\ n[k] \in Byte
    BY LenProperties, ElementOfSeq
  <2>2. Max(1 .. k) = k /\ (1 .. k) \ {k} = 1 .. k - 1 /\ 1 .. k # {} /\ 1 .. k \in D
    BY <2>1, MaxOfRun
  <2>3. f[1 .. k] = Digit(f[1 .. k - 1], n[k])
    BY <1>7, <2>2
  <2>. QED  BY <1>2, <1>9, <2>1, <2>3
<1>10. f[DOMAIN n] = Weight(n)
  BY <1>4, <1>8, <1>9, FoldIsAfter DEF Weight
<1>. QED  BY <1>1, <1>4, <1>10

LEMMA WeightMore ==
  ASSUME NEW n \in Seq(Byte), NEW d \in Byte
  PROVE  /\ Weight(<<>>) = 0 /\ Weight(n) \in Nat
         /\ Weight(Append(n, d)) = Digit(Weight(n), d)
<1>1. <<>> \in Seq(Byte)
  BY EmptySeq
<1>2. Weight(<<>>) = 0
  BY <1>1, SizeIsWeight, AfterEmpty DEF Weight
<1>3. Weight(n) \in Nat /\ Weight(Append(n, d)) = Weigh[Weight(n)][d]
  BY SizeIsWeight, AfterMore DEF Weight
<1>. QED  BY <1>2, <1>3 DEF Weigh

LEMMA Weights ==
  ASSUME NEW a \in Byte, NEW b \in Byte, NEW c \in Byte
  PROVE  /\ Weight(<<>>) = 0 /\ Weight(<<a>>) = a
         /\ Weight(<<a, b>>) = Digit(a, b)
         /\ Weight(<<a, b, c>>) = Digit(Digit(a, b), c)
<1>0. a \in Nat /\ b \in Nat /\ c \in Nat
  BY BytesAre
<1>1. /\ <<>> \in Seq(Byte) /\ <<a>> \in Seq(Byte) /\ <<a, b>> \in Seq(Byte)
      /\ <<a>> = Append(<<>>, a) /\ <<a, b>> = Append(<<a>>, b)
      /\ <<a, b, c>> = Append(<<a, b>>, c)
  OBVIOUS
<1>2. Weight(<<>>) = 0 /\ Weight(<<a>>) = Digit(Weight(<<>>), a)
  BY <1>1, WeightMore, Zenon
<1>3. Weight(<<a, b>>) = Digit(Weight(<<a>>), b)
  BY <1>1, WeightMore, Zenon
<1>4. Weight(<<a, b, c>>) = Digit(Weight(<<a, b>>), c)
  BY <1>1, WeightMore, Zenon
<1>5. Digit(0, a) = a
  BY <1>0, SMT DEF Digit
<1>. QED  BY <1>2, <1>3, <1>4, <1>5

\* The size an integer is written as is that integer.
LEMMA SizeOfNum ==
  ASSUME NEW k \in ThreeDigits
  PROVE  Size(Num(k)) = k
<1>. DEFINE t == Three(k)
            v == Num(k)
<1>1. /\ t \in Seq(Byte) /\ Len(t) = 3 /\ v = Value(t) /\ Number(v) /\ Len(v) <= 3
      /\ k = Digit(Digit(t[1], t[2]), t[3])
  BY NumDigits
<1>. HIDE DEF t, v
<1>0. \A x \in Byte : x \in Nat
  BY BytesAre
<1>2. /\ t[1] \in Byte /\ t[2] \in Byte /\ t[3] \in Byte /\ DOMAIN t = 1 .. 3
      /\ v \in Seq(Byte) /\ Len(v) \in 0 .. 3 /\ DOMAIN v = 1 .. Len(v)
  <2>1. DOMAIN t = 1 .. 3 /\ 1 \in 1 .. 3 /\ 2 \in 1 .. 3 /\ 3 \in 1 .. 3
    BY <1>1, LenProperties
  <2>2. ASSUME NEW i \in 1 .. 3 PROVE t[i] \in Byte
    <3>1. t \in Seq(Byte) /\ i \in 1 .. Len(t)
      BY <1>1
    <3>. QED  BY <3>1, ElementOfSeq, Zenon
  <2>3. v \in Seq(Byte)
    BY <1>1 DEF Number
  <2>4. Len(v) \in Nat /\ DOMAIN v = 1 .. Len(v)
    BY <2>3, LenProperties
  <2>5. Len(v) \in 0 .. 3
    BY <1>1, <2>4, SMT
  <2>. QED  BY <2>1, <2>2, <2>3, <2>4, <2>5
<1>3. /\ \A i \in 1 .. 3 : i <= 3 - Len(v) => t[i] = 0
      /\ \A i \in 1 .. Len(v) : v[i] = t[i + 3 - Len(v)]
  BY <1>1, <1>2, ValueIs
<1>4. /\ Weight(<<>>) = 0 /\ Weight(<<t[3]>>) = t[3]
      /\ Weight(<<t[2], t[3]>>) = Digit(t[2], t[3])
      /\ Weight(<<t[1], t[2], t[3]>>) = Digit(Digit(t[1], t[2]), t[3])
  <2>1. t[1] \in Byte /\ t[2] \in Byte /\ t[3] \in Byte
    BY <1>2
  <2>. QED  BY <2>1, Weights, Zenon
<1>5. Size(v) = Weight(v)
  BY <1>1, <1>2, SizeIsWeight
<1>6. CASE Len(v) = 0
  <2>1. v = <<>> /\ t[1] = 0 /\ t[2] = 0 /\ t[3] = 0
    BY <1>2, <1>3, <1>6
  <2>2. Weight(v) = 0
    BY <1>4, <2>1, Zenon
  <2>. QED  BY <1>1, <1>5, <2>1, <2>2, SMT DEF v, Digit
<1>7. CASE Len(v) = 1
  <2>1. v = <<t[3]>> /\ t[1] = 0 /\ t[2] = 0
    BY <1>2, <1>3, <1>7
  <2>2. Weight(v) = t[3]
    BY <1>4, <2>1, Zenon
  <2>. QED  BY <1>0, <1>1, <1>2, <1>5, <2>1, <2>2, SMT DEF v, Digit
<1>8. CASE Len(v) = 2
  <2>1. v = <<t[2], t[3]>> /\ t[1] = 0
    BY <1>2, <1>3, <1>8
  <2>2. Weight(v) = Digit(t[2], t[3])
    BY <1>4, <2>1, Zenon
  <2>. QED  BY <1>0, <1>1, <1>2, <1>5, <2>1, <2>2, SMT DEF v, Digit
<1>9. CASE Len(v) = 3
  <2>1. v = <<t[1], t[2], t[3]>>
    BY <1>2, <1>3, <1>9
  <2>2. Weight(v) = Digit(Digit(t[1], t[2]), t[3])
    BY <1>4, <2>1, Zenon
  <2>. QED  BY <1>0, <1>1, <1>2, <1>5, <2>1, <2>2, SMT DEF v, Digit
<1>. QED  BY <1>2, <1>6, <1>7, <1>8, <1>9, SMT

----------------------------------------------------------------------------
(* ChunkIter: one field after another.                                      *)

\* One step of the walk, with what w says of the rest.
Walked(buf, w, p) ==
  IF Ends(buf, p) THEN <<>> ELSE <<FieldAt(buf, p)>> \o w[Behind(buf, p)]

\* A field that is there has a head, and as many bytes as that says.
LEMMA HeadIsThere ==
  ASSUME NEW buf \in Seq(Byte), NEW p \in 0 .. Len(buf), ~Ends(buf, p)
  PROVE  /\ p + 4 <= Len(buf)
         /\ U16At(buf, p) \in TwoDigits /\ U16At(buf, p + 2) \in 0 .. Len(buf) - (p + 4)
<1>1. Len(buf) \in Nat /\ \A i \in 1 .. Len(buf) : buf[i] \in Byte
  BY LenProperties, ElementOfSeq
<1>2. p + 4 <= Len(buf)
  BY <1>1, SMT DEF Ends
<1>3. \A i \in 1 .. 4 : p + i \in 1 .. Len(buf)
  BY <1>1, <1>2, SMT
<1>4. buf[p + 1] \in Byte /\ buf[p + 2] \in Byte /\ buf[p + 3] \in Byte /\ buf[p + 4] \in Byte
  BY <1>1, <1>3
<1>5. (p + 2) + 1 = p + 3 /\ (p + 2) + 2 = p + 4
  OBVIOUS
<1>6. U16At(buf, p) \in TwoDigits /\ U16At(buf, p + 2) \in TwoDigits
  <2>1. U16At(buf, p) = 256 * buf[p + 1] + buf[p + 2]
    BY DEF U16At
  <2>2. U16At(buf, p + 2) = 256 * buf[p + 3] + buf[p + 4]
    BY <1>5 DEF U16At
  <2>3. ASSUME NEW a \in Byte, NEW b \in Byte PROVE 256 * a + b \in TwoDigits
    <3>1. a \in Nat /\ a < 256 /\ b \in Nat /\ b < 256
      BY BytesAre
    <3>. QED  BY <3>1, SMT DEF TwoDigits
  <2>. QED  BY <1>4, <2>1, <2>2, <2>3
<1>7. ~(U16At(buf, p + 2) > Len(buf) - (p + 4))
  BY DEF Ends
<1>8. U16At(buf, p + 2) \in Nat
  BY <1>6 DEF TwoDigits
<1>9. U16At(buf, p + 2) \in 0 .. Len(buf) - (p + 4)
  BY <1>1, <1>2, <1>7, <1>8, SMT
<1>. QED  BY <1>2, <1>6, <1>9

\* Where a field begins that is there, the next place is further on.
LEMMA WalksOn ==
  ASSUME NEW buf \in Seq(Byte), NEW p \in 0 .. Len(buf), ~Ends(buf, p)
  PROVE  Behind(buf, p) \in p + 4 .. Len(buf)
<1>. DEFINE n == U16At(buf, p + 2)
<1>1. Len(buf) \in Nat
  BY LenProperties
<1>2. n \in 0 .. Len(buf) - (p + 4) /\ p + 4 <= Len(buf)
  BY HeadIsThere, Zenon
<1>3. Behind(buf, p) = p + 4 + n
  BY DEF Behind
<1>. HIDE DEF n
<1>. QED  BY <1>1, <1>2, <1>3, SMT

\* The walk there is: from the end of the bytes back.
LEMMA WalkExists ==
  ASSUME NEW buf \in Seq(Byte)
  PROVE  \E w : w = [p \in 0 .. Len(buf) |-> Walked(buf, w, p)]
<1>. DEFINE n == Len(buf)
            From(w, k) == w = [p \in n - k .. n |-> Walked(buf, w, p)]
            T == {k \in 0 .. n : \E w : From(w, k)}
<1>1. n \in Nat
  BY LenProperties
<1>2. ASSUME NEW p \in 0 .. n, NEW v, NEW w,
             \A q \in p + 1 .. n : v[q] = w[q]
      PROVE  Walked(buf, v, p) = Walked(buf, w, p)
  <2>1. CASE Ends(buf, p)
    BY <2>1 DEF Walked
  <2>2. CASE ~Ends(buf, p)
    <3>1. Behind(buf, p) \in p + 1 .. n
      BY <1>1, <2>2, WalksOn
    <3>. QED  BY <1>2, <2>2, <3>1 DEF Walked
  <2>. QED  BY <2>1, <2>2
<1>. HIDE DEF n
<1>3. 0 \in T
  <2>. DEFINE e == [p \in {n} |-> <<>>]
              w == [p \in {n} |-> Walked(buf, e, p)]
  <2>1. n - 0 .. n = {n} /\ n + 1 .. n = {} /\ n \in 0 .. n
    BY <1>1, SMT
  <2>2. Walked(buf, e, n) = Walked(buf, w, n)
    <3>. HIDE DEF e, w
    <3>. QED  BY <1>2, <2>1
  <2>. HIDE DEF e
  <2>3. w = [p \in {n} |-> Walked(buf, w, p)]
    BY <2>2
  <2>4. From(w, 0)
    BY <2>1, <2>3
  <2>5. 0 \in 0 .. n
    BY <1>1, SMT
  <2>. QED  BY <2>4, <2>5
<1>4. ASSUME NEW k \in 1 .. n, k - 1 \in T PROVE k \in T
  <2>1. PICK v : From(v, k - 1)
    BY <1>4
  <2>. DEFINE w == [p \in n - k .. n |-> IF p = n - k THEN Walked(buf, v, p) ELSE v[p]]
  <2>2. /\ n - (k - 1) = (n - k) + 1 /\ n - k \in 0 .. n
        /\ \A p \in n - k .. n : p # n - k => p \in n - (k - 1) .. n /\ p \in 0 .. n
        /\ \A p \in n - k .. n : \A q \in p + 1 .. n : q \in n - k .. n /\ q # n - k
    BY <1>1, SMT
  <2>3. \A p \in n - (k - 1) .. n : v[p] = Walked(buf, v, p)
    BY <2>1
  <2>4. ASSUME NEW p \in n - k .. n PROVE w[p] = Walked(buf, w, p)
    <3>1. \A q \in p + 1 .. n : v[q] = w[q]
      BY <2>2
    <3>2. p \in 0 .. n
      BY <2>2
    <3>3. w[p] = Walked(buf, v, p)
      BY <2>2, <2>3
    <3>4. Walked(buf, v, p) = Walked(buf, w, p)
      <4>. HIDE DEF w
      <4>. QED  BY <1>2, <3>1, <3>2
    <3>. QED  BY <3>3, <3>4
  <2>5. w = [p \in n - k .. n |-> w[p]]
    OBVIOUS
  <2>. HIDE DEF w
  <2>6. From(w, k)
    BY <2>4, <2>5, Zenon
  <2>7. k \in 0 .. n
    BY <1>1, SMT
  <2>. QED  BY <2>6, <2>7
<1>5. n \in T
  <2>. HIDE DEF T
  <2>1. 0 .. n \subseteq T
    BY <1>1, <1>3, <1>4, UpTo
  <2>2. n \in 0 .. n
    BY <1>1, SMT
  <2>. QED  BY <2>1, <2>2
<1>6. PICK w : From(w, n)
  BY <1>5
<1>7. n - n = 0
  BY <1>1, SMT
<1>. QED  BY <1>6, <1>7 DEF n

\* ChunksAt() is that walk.
LEMMA ChunksStep ==
  ASSUME NEW buf \in Seq(Byte), NEW p \in 0 .. Len(buf)
  PROVE  ChunksAt(buf, p) =
           IF Ends(buf, p) THEN <<>> ELSE <<FieldAt(buf, p)>> \o ChunksAt(buf, Behind(buf, p))
<1>0. ~Ends(buf, p) => Behind(buf, p) \in 0 .. Len(buf)
  <2>1. Len(buf) \in Nat
    BY LenProperties
  <2>2. ASSUME ~Ends(buf, p) PROVE Behind(buf, p) \in p + 4 .. Len(buf)
    BY <2>2, WalksOn
  <2>. QED  BY <2>1, <2>2, SMT
<1>. DEFINE w == CHOOSE v : v = [q \in 0 .. Len(buf) |-> Walked(buf, v, q)]
<1>1. Len(buf) \in Nat
  BY LenProperties
<1>2. \A q \in 0 .. Len(buf) : ChunksAt(buf, q) = w[q]
  <2>. TAKE q \in 0 .. Len(buf)
  <2>1. Least(q, Len(buf)) = q
    BY <1>1, SMT DEF Least
  <2>2. ChunksAt(buf, q) = w[Least(q, Len(buf))]
    BY SMT DEF ChunksAt, Walked
  <2>. QED  BY <2>1, <2>2
<1>3. w = [q \in 0 .. Len(buf) |-> Walked(buf, w, q)]
  BY WalkExists
<1>. HIDE DEF w
<1>4. w[p] = Walked(buf, w, p)
  BY <1>3
<1>. QED  BY <1>0, <1>2, <1>4 DEF Walked

----------------------------------------------------------------------------
(* What put_chunk() writes, ChunkIter reads.                                *)

\* The part of a sequence between two others, and where each element is.
LEMMA Middle ==
  ASSUME NEW S, NEW x \in Seq(S), NEW y \in Seq(S), NEW z \in Seq(S)
  PROVE  /\ x \o y \o z \in Seq(S) /\ Len(x \o y \o z) = Len(x) + Len(y) + Len(z)
         /\ \A i \in 1 .. Len(y) : (x \o y \o z)[Len(x) + i] = y[i]
         /\ SubSeq(x \o y \o z, Len(x) + 1, Len(x) + Len(y)) = y
<1>. DEFINE w == x \o y \o z
            m == Len(x)
            n == Len(y)
<1>1. /\ m \in Nat /\ n \in Nat /\ Len(z) \in Nat
      /\ x \o y \in Seq(S) /\ Len(x \o y) = m + n
      /\ \A i \in 1 .. m + n : (x \o y)[i] = IF i <= m THEN x[i] ELSE y[i - m]
  BY LenProperties, ConcatProperties
<1>2. /\ w \in Seq(S) /\ Len(w) = m + n + Len(z)
      /\ \A i \in 1 .. m + n + Len(z) : w[i] = IF i <= m + n THEN (x \o y)[i] ELSE z[i - (m + n)]
  BY <1>1, ConcatProperties
<1>. HIDE DEF w, m, n
<1>3. ASSUME NEW i \in 1 .. n PROVE w[m + i] = y[i]
  <2>1. m + i \in 1 .. m + n /\ m + i \in 1 .. m + n + Len(z) /\ ~(m + i <= m) /\ (m + i) - m = i
    BY <1>1, SMT
  <2>2. w[m + i] = (x \o y)[m + i]
    BY <1>1, <1>2, <2>1, SMT
  <2>. QED  BY <1>1, <2>1, <2>2
<1>4. \A i \in m + 1 .. m + n : w[i] \in S
  <2>1. \A i \in m + 1 .. m + n : i \in 1 .. Len(w)
    BY <1>1, <1>2, SMT
  <2>. QED  BY <1>2, <2>1, ElementOfSeq
<1>. DEFINE u == SubSeq(w, m + 1, m + n)
<1>5. /\ u \in Seq(S) /\ Len(u) = IF m + 1 <= m + n THEN (m + n) - (m + 1) + 1 ELSE 0
      /\ \A i \in 1 .. (m + n) - (m + 1) + 1 : u[i] = w[(m + 1) + i - 1]
  <2>1. m + 1 \in Int /\ m + n \in Int
    BY <1>1
  <2>. QED  BY <1>4, <2>1, SubSeqProperties
<1>. HIDE DEF u
<1>6. Len(u) = n /\ \A i \in 1 .. n : u[i] = w[m + i]
  <2>1. (m + n) - (m + 1) + 1 = n /\ \A i \in 1 .. n : (m + 1) + i - 1 = m + i
    BY <1>1, SMT
  <2>2. Len(u) = n
    BY <1>1, <1>5, SMT
  <2>. QED  BY <1>5, <2>1, <2>2
<1>7. u = y
  <2>1. y \in Seq(S) /\ Len(u) = Len(y) /\ \A i \in 1 .. Len(u) : u[i] = y[i]
    BY <1>3, <1>6 DEF n
  <2>. QED  BY <1>5, <2>1, SeqEqual
<1>. QED  BY <1>2, <1>3, <1>7 DEF w, m, n, u

\* The same as a name, which the provers match where the three are any terms.
Within(x, y, z) == SubSeq(x \o y \o z, Len(x) + 1, Len(x) + Len(y)) = y
LEMMA MiddleWithin ==
  ASSUME NEW S, NEW x \in Seq(S), NEW y \in Seq(S), NEW z \in Seq(S)
  PROVE  Within(x, y, z)
BY Middle DEF Within

\* A field that a message may have.
Fields == [tag : TwoDigits, data : {d \in Seq(Byte) : Len(d) \in TwoDigits}]

\* The four bytes before a field's own.
HeadOf(f) ==
  <<f.tag \div 256, f.tag % 256, Len(f.data) \div 256, Len(f.data) % 256>>

LEMMA TwoAndTwo ==
  ASSUME NEW S, NEW a \in S, NEW b \in S, NEW c \in S, NEW d \in S
  PROVE  /\ <<a, b, c, d>> \in Seq(S) /\ Len(<<a, b, c, d>>) = 4
         /\ <<a, b>> \o <<c, d>> = <<a, b, c, d>>
<1>. DEFINE s == <<a, b>>
            t == <<c, d>>
            u == <<a, b, c, d>>
<1>1. s \in Seq(S) /\ t \in Seq(S) /\ u \in Seq(S) /\ Len(s) = 2 /\ Len(t) = 2 /\ Len(u) = 4
  OBVIOUS
<1>2. s[1] = a /\ s[2] = b /\ t[1] = c /\ t[2] = d /\ u[1] = a /\ u[2] = b /\ u[3] = c /\ u[4] = d
  OBVIOUS
<1>. HIDE DEF s, t, u
<1>3. /\ s \o t \in Seq(S) /\ Len(s \o t) = Len(s) + Len(t)
      /\ \A i \in 1 .. Len(s) + Len(t) : (s \o t)[i] = IF i <= Len(s) THEN s[i] ELSE t[i - Len(s)]
  BY <1>1, ConcatProperties
<1>4. \A i \in 1 .. 4 : (s \o t)[i] = u[i]
  BY <1>1, <1>2, <1>3, SMT
<1>5. s \o t = u
  BY <1>1, <1>3, <1>4, SeqEqual, 2 + 2 = 4
<1>. QED  BY <1>1, <1>5 DEF s, t, u

LEMMA PutChunkIs ==
  ASSUME NEW f \in Fields
  PROVE  /\ PutChunk(f) = HeadOf(f) \o f.data
         /\ HeadOf(f) \in Seq(Byte) /\ Len(HeadOf(f)) = 4 /\ f.data \in Seq(Byte)
         /\ PutChunk(f) \in Seq(Byte) /\ Len(PutChunk(f)) = 4 + Len(f.data)
         /\ HeadOf(f)[1] \in Byte /\ HeadOf(f)[2] \in Byte
         /\ 256 * HeadOf(f)[1] + HeadOf(f)[2] = f.tag
         /\ HeadOf(f)[3] \in Byte /\ HeadOf(f)[4] \in Byte
         /\ 256 * HeadOf(f)[3] + HeadOf(f)[4] = Len(f.data)
<1>. DEFINE n == Len(f.data)
            h == HeadOf(f)
<1>1. f.tag \in TwoDigits /\ n \in TwoDigits /\ f.data \in Seq(Byte)
  BY DEF Fields
<1>2. /\ Wide(Num(f.tag), 2) = <<f.tag \div 256, f.tag % 256>>
      /\ f.tag \div 256 \in Byte /\ f.tag % 256 \in Byte
      /\ 256 * (f.tag \div 256) + (f.tag % 256) = f.tag
  BY <1>1, WideTwo
<1>3. /\ Wide(Num(n), 2) = <<n \div 256, n % 256>>
      /\ n \div 256 \in Byte /\ n % 256 \in Byte
      /\ 256 * (n \div 256) + (n % 256) = n
  BY <1>1, WideTwo
<1>4. h[1] = f.tag \div 256 /\ h[2] = f.tag % 256 /\ h[3] = n \div 256 /\ h[4] = n % 256
  BY DEF HeadOf
<1>. DEFINE a == f.tag \div 256
            b == f.tag % 256
            c == n \div 256
            d == n % 256
<1>0. h = <<a, b, c, d>> /\ a \in Byte /\ b \in Byte /\ c \in Byte /\ d \in Byte
  BY <1>2, <1>3 DEF HeadOf
<1>. HIDE DEF a, b, c, d
<1>5. h \in Seq(Byte) /\ Len(h) = 4
  BY <1>0, TwoAndTwo
<1>6. <<a, b>> \o <<c, d>> = h
  BY <1>0, TwoAndTwo
<1>7. PutChunk(f) = h \o f.data
  <2>1. Wide(Num(f.tag), 2) = <<a, b>> /\ Wide(Num(n), 2) = <<c, d>>
    BY <1>2, <1>3 DEF a, b, c, d
  <2>. QED  BY <1>6, <2>1 DEF PutChunk
<1>. HIDE DEF h
<1>8. PutChunk(f) \in Seq(Byte) /\ Len(PutChunk(f)) = 4 + n
  <2>1. h \o f.data \in Seq(Byte) /\ Len(h \o f.data) = Len(h) + n
    BY <1>1, <1>5, ConcatProperties
  <2>. QED  BY <1>5, <1>7, <2>1
<1>. QED  BY <1>1, <1>2, <1>3, <1>4, <1>5, <1>7, <1>8 DEF h

\* Where a field was put, it is read, and the next one begins behind it.
LEMMA FieldReads ==
  ASSUME NEW a \in Seq(Byte), NEW b \in Seq(Byte), NEW f \in Fields
  PROVE  LET buf == a \o PutChunk(f) \o b
         IN  /\ buf \in Seq(Byte) /\ Len(buf) = Len(a) + Len(PutChunk(f)) + Len(b)
             /\ ~Ends(buf, Len(a)) /\ FieldAt(buf, Len(a)) = f
             /\ Behind(buf, Len(a)) = Len(a) + Len(PutChunk(f))
<1>. DEFINE c == PutChunk(f)
            h == HeadOf(f)
            data == f.data
            buf == a \o c \o b
            p == Len(a)
            n == Len(data)
<1>1. /\ c = h \o data /\ h \in Seq(Byte) /\ Len(h) = 4 /\ data \in Seq(Byte)
      /\ c \in Seq(Byte) /\ Len(c) = 4 + n
      /\ 256 * h[1] + h[2] = f.tag /\ 256 * h[3] + h[4] = n
      /\ n \in Nat /\ p \in Nat /\ Len(b) \in Nat
  BY PutChunkIs, LenProperties
<1>2. f = Field(f.tag, data)
  BY DEF Fields, Field
<1>. HIDE DEF c, h, data
<1>3. /\ buf \in Seq(Byte) /\ Len(buf) = p + Len(c) + Len(b)
      /\ \A i \in 1 .. Len(c) : buf[p + i] = c[i]
  <2>1. c \in Seq(Byte)
    BY <1>1
  <2>2. /\ a \o c \o b \in Seq(Byte) /\ Len(a \o c \o b) = Len(a) + Len(c) + Len(b)
        /\ \A i \in 1 .. Len(c) : (a \o c \o b)[Len(a) + i] = c[i]
    BY ONLY <2>1, Middle, a \in Seq(Byte), b \in Seq(Byte)
  <2>. QED  BY <2>2
<1>4. \A i \in 1 .. 4 : c[i] = h[i]
  <2>1. \A i \in 1 .. Len(h) + Len(data) : (h \o data)[i] = IF i <= Len(h) THEN h[i]
                                                            ELSE data[i - Len(h)]
    BY <1>1, ConcatProperties
  <2>. QED  BY <1>1, <2>1, SMT
<1>5. buf = (a \o h) \o data \o b /\ a \o h \in Seq(Byte) /\ Len(a \o h) = p + 4
  <2>0. h \in Seq(Byte) /\ data \in Seq(Byte)
    BY <1>1
  <2>1. (a \o h) \o data = a \o (h \o data)
    BY <2>0, ConcatAssociative
  <2>2. a \o h \in Seq(Byte) /\ Len(a \o h) = p + 4
    BY <1>1, ConcatProperties
  <2>. QED  BY <1>1, <2>1, <2>2
<1>6. SubSeq(buf, (p + 4) + 1, (p + 4) + n) = data
  <2>1. Within(a \o h, data, b)
    BY <1>1, <1>5, MiddleWithin
  <2>. QED  BY <1>5, <2>1 DEF Within
<1>. HIDE DEF buf, p, n
<1>7. buf[p + 1] = h[1] /\ buf[p + 2] = h[2] /\ buf[p + 3] = h[3] /\ buf[p + 4] = h[4]
  <2>1. \A i \in 1 .. 4 : i \in 1 .. Len(c)
    BY <1>1, SMT
  <2>2. \A i \in 1 .. 4 : buf[p + i] = h[i]
    BY <1>3, <1>4, <2>1
  <2>. QED  BY <2>2
<1>8. U16At(buf, p) = f.tag /\ U16At(buf, p + 2) = n
  <2>1. U16At(buf, p) = 256 * buf[p + 1] + buf[p + 2]
    BY DEF U16At
  <2>2. (p + 2) + 1 = p + 3 /\ (p + 2) + 2 = p + 4
    BY <1>1, SMT
  <2>3. U16At(buf, p + 2) = 256 * buf[p + 3] + buf[p + 4]
    BY <2>2 DEF U16At
  <2>. QED  BY <1>1, <1>7, <2>1, <2>3
<1>9. ~Ends(buf, p)
  <2>1. ~(p + 4 > Len(buf)) /\ ~(n > Len(buf) - (p + 4))
    BY <1>1, <1>3, SMT
  <2>. QED  BY <1>8, <2>1 DEF Ends
<1>10. FieldAt(buf, p) = f
  BY <1>2, <1>6, <1>8 DEF FieldAt, Slice
<1>11. Behind(buf, p) = p + Len(c)
  <2>1. p + 4 + n = p + Len(c)
    BY <1>1, SMT
  <2>. QED  BY <1>8, <2>1 DEF Behind
<1>. QED  BY <1>3, <1>9, <1>10, <1>11 DEF buf, p, c

\* The bytes of some fields: those of the ones before, then the last one's.
LEMMA PutChunksStep ==
  /\ \A q : q = <<>> => PutChunks(q) = <<>>
  /\ \A fs \in Seq(Fields), f \in Fields :
       /\ PutChunks(fs) \in Seq(Byte)
       /\ PutChunks(Append(fs, f)) = PutChunks(fs) \o PutChunk(f)
<1>1. ASSUME NEW q, q = <<>> PROVE PutChunks(q) = <<>>
  <2>1. [i \in DOMAIN q |-> PutChunk(q[i])] = <<>>
    BY <1>1
  <2>. QED  BY <2>1, FlattenEmpty DEF PutChunks
<1>2. ASSUME NEW fs \in Seq(Fields), NEW f \in Fields
      PROVE  /\ PutChunks(fs) \in Seq(Byte)
             /\ PutChunks(Append(fs, f)) = PutChunks(fs) \o PutChunk(f)
  <2>. DEFINE n == Len(fs)
              ss == [i \in DOMAIN fs |-> PutChunk(fs[i])]
              gs == Append(fs, f)
              tt == [i \in DOMAIN gs |-> PutChunk(gs[i])]
  <2>1. n \in Nat /\ DOMAIN fs = 1 .. n /\ \A i \in 1 .. n : fs[i] \in Fields
    BY LenProperties, ElementOfSeq
  <2>2. \A g \in Fields : PutChunk(g) \in Seq(Byte)
    BY PutChunkIs
  <2>3. gs \in Seq(Fields) /\ DOMAIN gs = 1 .. n + 1 /\ gs[n + 1] = f
        /\ \A i \in 1 .. n : gs[i] = fs[i]
    BY <2>1
  <2>. HIDE DEF n, gs
  <2>4. ss \in Seq(Seq(Byte)) /\ Len(ss) = n /\ \A i \in 1 .. n : ss[i] = PutChunk(fs[i])
    <3>1. \A i \in 1 .. n : PutChunk(fs[i]) \in Seq(Byte)
      BY <2>1, <2>2
    <3>. QED  BY <2>1, <3>1
  <2>5. tt \in Seq(Seq(Byte)) /\ Len(tt) = n + 1 /\ \A i \in 1 .. n + 1 : tt[i] = PutChunk(gs[i])
    <3>1. \A i \in 1 .. n + 1 : gs[i] \in Fields
      <4>1. Len(gs) = n + 1
        BY <2>1, <2>3
      <4>. QED  BY <2>3, <4>1, ElementOfSeq
    <3>2. \A i \in 1 .. n + 1 : PutChunk(gs[i]) \in Seq(Byte)
      BY <2>2, <3>1
    <3>. QED  BY <2>1, <2>3, <3>2
  <2>6. PutChunk(f) \in Seq(Byte)
    BY <2>2
  <2>. HIDE DEF ss, tt
  <2>7. tt = Append(ss, PutChunk(f))
    <3>1. Append(ss, PutChunk(f)) \in Seq(Seq(Byte)) /\ Len(Append(ss, PutChunk(f))) = n + 1
          /\ Append(ss, PutChunk(f))[n + 1] = PutChunk(f)
          /\ \A i \in 1 .. n : Append(ss, PutChunk(f))[i] = ss[i]
      BY <2>4, <2>6, AppendProperties
    <3>2. \A i \in 1 .. n + 1 : i \in 1 .. n \/ i = n + 1
      BY <2>1, SMT
    <3>3. \A i \in 1 .. n + 1 : tt[i] = Append(ss, PutChunk(f))[i]
      BY <2>3, <2>4, <2>5, <3>1, <3>2
    <3>. QED  BY <2>5, <3>1, <3>3, SeqEqual
  <2>8. FlattenSeq(tt) = FlattenSeq(ss) \o PutChunk(f) /\ FlattenSeq(ss) \in Seq(Byte)
    BY <2>4, <2>6, <2>7, FlattenAppend
  <2>. QED  BY <2>8 DEF PutChunks, ss, tt, gs
<1>. QED  BY <1>1, <1>2

\* What is read of any bytes is fields that a message may have.
LEMMA FieldsAre ==
  ASSUME NEW buf \in Seq(Byte), NEW p \in 0 .. Len(buf)
  PROVE  ~Ends(buf, p) => FieldAt(buf, p) \in Fields
<1>. SUFFICES ASSUME ~Ends(buf, p) PROVE FieldAt(buf, p) \in Fields
  OBVIOUS
<1>. DEFINE n == U16At(buf, p + 2)
            data == Slice(buf, p + 4, n)
            m == Len(buf)
<1>1. m \in Nat /\ \A i \in 1 .. m : buf[i] \in Byte
  BY LenProperties, ElementOfSeq
<1>2. p + 4 <= m /\ U16At(buf, p) \in TwoDigits /\ n \in 0 .. m - (p + 4)
  BY HeadIsThere
<1>3. n \in TwoDigits
  <2>1. p + 4 \in 1 .. m /\ p + 3 \in 1 .. m /\ (p + 2) + 1 = p + 3 /\ (p + 2) + 2 = p + 4
    BY <1>1, <1>2, SMT
  <2>2. n = 256 * buf[p + 3] + buf[p + 4]
    BY <2>1 DEF U16At
  <2>3. buf[p + 3] \in Nat /\ buf[p + 3] < 256 /\ buf[p + 4] \in Nat /\ buf[p + 4] < 256
    BY <1>1, <2>1, BytesAre
  <2>. QED  BY <2>2, <2>3, SMT DEF TwoDigits
<1>. HIDE DEF n, m
<1>4. data \in Seq(Byte) /\ Len(data) = n
  <2>1. /\ (p + 4) + 1 \in Int /\ (p + 4) + n \in Int /\ n \in Nat
        /\ \A i \in (p + 4) + 1 .. (p + 4) + n : i \in 1 .. m
        /\ ((p + 4) + n) - ((p + 4) + 1) + 1 = n
        /\ ((p + 4) + 1 <= (p + 4) + n \/ n = 0)
    BY <1>1, <1>2, SMT
  <2>2. \A i \in (p + 4) + 1 .. (p + 4) + n : buf[i] \in Byte
    BY <1>1, <2>1
  <2>3. /\ SubSeq(buf, (p + 4) + 1, (p + 4) + n) \in Seq(Byte)
        /\ Len(SubSeq(buf, (p + 4) + 1, (p + 4) + n)) =
             IF (p + 4) + 1 <= (p + 4) + n THEN ((p + 4) + n) - ((p + 4) + 1) + 1 ELSE 0
    BY <2>1, <2>2, SubSeqProperties
  <2>4. Len(SubSeq(buf, (p + 4) + 1, (p + 4) + n)) = n
    BY <2>1, <2>3
  <2>. QED  BY <2>3, <2>4 DEF Slice
<1>5. FieldAt(buf, p) = [tag |-> U16At(buf, p), data |-> data]
  BY DEF FieldAt, Field, n
<1>. HIDE DEF data
<1>. QED  BY <1>2, <1>3, <1>4, <1>5 DEF Fields

\* And so is all that is read from one place on.
LEMMA ChunksAre ==
  ASSUME NEW buf \in Seq(Byte), NEW p \in 0 .. Len(buf)
  PROVE  ChunksAt(buf, p) \in Seq(Fields)
<1>. DEFINE n == Len(buf)
            T == {k \in 0 .. n : \A q \in n - k .. n : ChunksAt(buf, q) \in Seq(Fields)}
<1>1. n \in Nat
  BY LenProperties
<1>2. ASSUME NEW q \in 0 .. n, \A r \in q + 1 .. n : ChunksAt(buf, r) \in Seq(Fields)
      PROVE  ChunksAt(buf, q) \in Seq(Fields)
  <2>1. CASE Ends(buf, q)
    <3>1. ChunksAt(buf, q) = <<>>
      BY <2>1, ChunksStep
    <3>. QED  BY <3>1, EmptySeq
  <2>2. CASE ~Ends(buf, q)
    <3>1. Behind(buf, q) \in q + 4 .. n
      BY <2>2, WalksOn
    <3>2. Behind(buf, q) \in q + 1 .. n
      <4>. HIDE DEF n
      <4>. QED  BY <1>1, <3>1, SMT
    <3>3. <<FieldAt(buf, q)>> \in Seq(Fields)
      BY <2>2, FieldsAre
    <3>4. ChunksAt(buf, q) = <<FieldAt(buf, q)>> \o ChunksAt(buf, Behind(buf, q))
      BY <2>2, ChunksStep
    <3>5. ChunksAt(buf, Behind(buf, q)) \in Seq(Fields)
      BY <1>2, <3>2
    <3>. QED  BY <3>3, <3>4, <3>5, ConcatProperties
  <2>. QED  BY <2>1, <2>2
<1>. HIDE DEF n
<1>3. 0 \in T
  <2>1. \A q \in n - 0 .. n : q \in 0 .. n /\ \A r \in q + 1 .. n : FALSE
    BY <1>1, SMT
  <2>2. 0 \in 0 .. n
    BY <1>1, SMT
  <2>. QED  BY <1>2, <2>1, <2>2
<1>4. ASSUME NEW k \in 1 .. n, k - 1 \in T PROVE k \in T
  <2>1. /\ k \in 0 .. n
        /\ \A q \in n - k .. n : q \in 0 .. n /\ \A r \in q + 1 .. n : r \in n - (k - 1) .. n
    BY <1>1, SMT
  <2>2. \A r \in n - (k - 1) .. n : ChunksAt(buf, r) \in Seq(Fields)
    BY <1>4
  <2>. QED  BY <1>2, <2>1, <2>2
<1>5. n \in T
  <2>. HIDE DEF T
  <2>1. 0 .. n \subseteq T
    BY <1>1, <1>3, <1>4, UpTo
  <2>2. n \in 0 .. n
    BY <1>1, SMT
  <2>. QED  BY <2>1, <2>2
<1>6. p \in n - n .. n
  BY <1>1, SMT DEF n
<1>. QED  BY <1>5, <1>6

LEMMA PutChunksAre ==
  \A s \in Seq(Fields) : PutChunks(s) \in Seq(Byte)
<1>. TAKE s \in Seq(Fields)
<1>. DEFINE g == [tag |-> 0, data |-> <<>>]
<1>1. 0 \in TwoDigits /\ <<>> \in Seq(Byte) /\ Len(<<>>) = 0
  BY SMT DEF TwoDigits
<1>2. g \in Fields
  BY <1>1 DEF Fields
<1>. QED  BY <1>2, PutChunksStep

\* Joining is associative; a name, as Within() is.
Associates(p, q, r) == (p \o q) \o r = p \o (q \o r)
LEMMA AnyAssociate ==
  ASSUME NEW S, NEW p \in Seq(S), NEW q \in Seq(S), NEW r \in Seq(S)
  PROVE  Associates(p, q, r)
<1>1. (p \o q) \o r = p \o (q \o r)
  BY ConcatAssociative
<1>. QED  BY <1>1 DEF Associates

LEMMA BytesAssociate ==
  \A p, q, r \in Seq(Byte) : (p \o q) \o r = p \o (q \o r)
<1>1. \A p, q, r \in Seq(Byte) : Associates(p, q, r)
  BY AnyAssociate
<1>. QED  BY <1>1 DEF Associates

\* Whatever stands before some fields and behind them, they are read from where
\* they begin, and then what is behind them.
LEMMA FieldsRead ==
  ASSUME NEW fs \in Seq(Fields), NEW a \in Seq(Byte), NEW b \in Seq(Byte)
  PROVE  LET buf == a \o PutChunks(fs) \o b
             end == Len(a) + Len(PutChunks(fs))
         IN  /\ buf \in Seq(Byte) /\ Len(a) \in 0 .. Len(buf) /\ end \in 0 .. Len(buf)
             /\ ChunksAt(buf, Len(a)) = fs \o ChunksAt(buf, end)
<1>. DEFINE Reads(s, x, y) ==
              ChunksAt(x \o PutChunks(s) \o y, Len(x)) =
                s \o ChunksAt(x \o PutChunks(s) \o y, Len(x) + Len(PutChunks(s)))
            T == {s \in Seq(Fields) : \A x, y \in Seq(Byte) : Reads(s, x, y)}
<1>1. ASSUME NEW s \in Seq(Fields), NEW x \in Seq(Byte), NEW y \in Seq(Byte)
      PROVE  LET buf == x \o PutChunks(s) \o y
                 end == Len(x) + Len(PutChunks(s))
             IN  /\ buf \in Seq(Byte) /\ Len(x) \in 0 .. Len(buf) /\ end \in 0 .. Len(buf)
                 /\ ChunksAt(buf, end) \in Seq(Fields)
  <2>. DEFINE c == PutChunks(s)
              buf == x \o c \o y
              end == Len(x) + Len(c)
  <2>1. c \in Seq(Byte)
    BY PutChunksAre
  <2>. HIDE DEF c
  <2>2. buf \in Seq(Byte) /\ Len(buf) = Len(x) + Len(c) + Len(y)
    BY <2>1, Middle
  <2>. HIDE DEF buf
  <2>3. Len(x) \in Nat /\ Len(c) \in Nat /\ Len(y) \in Nat
    BY <2>1, LenProperties
  <2>4. Len(x) \in 0 .. Len(buf) /\ end \in 0 .. Len(buf)
    BY <2>2, <2>3, SMT
  <2>. HIDE DEF end
  <2>5. ChunksAt(buf, end) \in Seq(Fields)
    BY <2>2, <2>4, ChunksAre
  <2>. QED  BY <2>2, <2>4, <2>5 DEF buf, end, c
<1>2. <<>> \in T
  <2>1. ASSUME NEW x \in Seq(Byte), NEW y \in Seq(Byte) PROVE Reads(<<>>, x, y)
    <3>1. PutChunks(<<>>) = <<>> /\ Len(<<>>) = 0 /\ Len(x) \in Nat
      BY PutChunksStep, LenProperties
    <3>2. Len(x) + Len(PutChunks(<<>>)) = Len(x)
      BY <3>1
    <3>3. <<>> \in Seq(Fields)
      BY EmptySeq
    <3>4. ChunksAt(x \o PutChunks(<<>>) \o y, Len(x) + Len(PutChunks(<<>>))) \in Seq(Fields)
      BY <1>1, <3>3
    <3>. QED  BY <3>2, <3>4, ConcatEmptySeq
  <2>. QED  BY <2>1, EmptySeq
<1>3. ASSUME NEW s \in Seq(Fields), NEW f \in Fields, s \in T
      PROVE  Append(s, f) \in T
  <2>1. Append(s, f) \in Seq(Fields)
    OBVIOUS
  <2>2. ASSUME NEW x \in Seq(Byte), NEW y \in Seq(Byte) PROVE Reads(Append(s, f), x, y)
    <3>. DEFINE c == PutChunk(f)
                z == PutChunks(s)
                xz == x \o z
                cy == c \o y
                buf == x \o PutChunks(Append(s, f)) \o y
    <3>1. /\ c \in Seq(Byte) /\ z \in Seq(Byte) /\ PutChunks(Append(s, f)) = z \o c
          /\ cy \in Seq(Byte)
      <4>1. c \in Seq(Byte) /\ z \in Seq(Byte)
        BY PutChunkIs, PutChunksAre
      <4>. QED  BY <4>1, PutChunksStep, ConcatProperties
    <3>2. Reads(s, x, cy)
      BY <1>3, <3>1
    <3>3. xz \in Seq(Byte) /\ Len(xz) = Len(x) + Len(z) /\ Len(z \o c) = Len(z) + Len(c)
      BY <3>1, ConcatProperties
    <3>4. buf = xz \o c \o y /\ buf = xz \o cy
      <4>1. FourJoined(x, z, c, y)
        <5>. HIDE DEF c, z
        <5>1. c \in Seq(Byte) /\ z \in Seq(Byte)
          BY <3>1
        <5>. QED  BY <5>1, ConcatFour
      <4>. QED  BY <3>1, <4>1 DEF FourJoined
    <3>5. ChunksAt(buf, Len(x)) = s \o ChunksAt(buf, Len(xz))
      BY <3>2, <3>3, <3>4
    <3>6. /\ buf \in Seq(Byte) /\ Len(xz) \in 0 .. Len(buf) /\ ~Ends(buf, Len(xz))
          /\ FieldAt(buf, Len(xz)) = f /\ Behind(buf, Len(xz)) = Len(xz) + Len(c)
      <4>1. /\ xz \o c \o y \in Seq(Byte) /\ Len(xz \o c \o y) = Len(xz) + Len(c) + Len(y)
            /\ ~Ends(xz \o c \o y, Len(xz)) /\ FieldAt(xz \o c \o y, Len(xz)) = f
            /\ Behind(xz \o c \o y, Len(xz)) = Len(xz) + Len(c)
        <5>. HIDE DEF xz
        <5>. QED  BY <3>3, FieldReads
      <4>2. Len(xz) \in Nat /\ Len(c) \in Nat /\ Len(y) \in Nat
        BY <3>1, <3>3, LenProperties
      <4>. HIDE DEF xz, c, buf
      <4>3. Len(xz) \in 0 .. Len(xz) + Len(c) + Len(y)
        BY <4>2, SMT
      <4>. QED  BY <3>4, <4>1, <4>3
    <3>. DEFINE end == Len(x) + Len(PutChunks(Append(s, f)))
                rest == ChunksAt(buf, end)
    <3>7. Len(xz) + Len(c) = end
      <4>1. Len(x) \in Nat /\ Len(c) \in Nat /\ Len(z) \in Nat
        BY <3>1, LenProperties
      <4>2. Len(PutChunks(Append(s, f))) = Len(z) + Len(c)
        BY <3>1, <3>3
      <4>. HIDE DEF c, z, xz
      <4>. QED  BY <3>3, <4>1, <4>2, SMT
    <3>8. rest \in Seq(Fields)
      BY <1>1, <2>1
    <3>. HIDE DEF buf, xz, end, c
    <3>9. ChunksAt(buf, Len(xz)) = <<f>> \o rest
      BY <3>6, <3>7, ChunksStep
    <3>10. <<f>> \in Seq(Fields) /\ Append(s, f) = s \o <<f>>
      BY AppendIsConcat
    <3>. HIDE DEF rest
    <3>11. (s \o <<f>>) \o rest = s \o (<<f>> \o rest)
      BY <3>8, <3>10, ConcatAssociative
    <3>12. ChunksAt(buf, Len(x)) = Append(s, f) \o rest
      BY <3>5, <3>9, <3>10, <3>11
    <3>. QED  BY <3>12 DEF buf, end, rest
  <2>. QED  BY <2>1, <2>2
<1>4. fs \in T
  <2>. HIDE DEF T
  <2>. QED  BY <1>2, <1>3, SeqInduct
<1>. QED  BY <1>1, <1>4

\* No field is read of a part of one.
LEMMA PartEnds ==
  ASSUME NEW a \in Seq(Byte), NEW f \in Fields, NEW m \in 0 .. Len(PutChunk(f)) - 1
  PROVE  LET b == SubSeq(PutChunk(f), 1, m)
         IN  b \in Seq(Byte) /\ Len(b) = m /\ Ends(a \o b, Len(a))
<1>. DEFINE c == PutChunk(f)
            h == HeadOf(f)
            data == f.data
            b == SubSeq(c, 1, m)
            buf == a \o b
            p == Len(a)
<1>1. /\ c = h \o data /\ h \in Seq(Byte) /\ Len(h) = 4 /\ data \in Seq(Byte)
      /\ c \in Seq(Byte) /\ Len(c) = 4 + Len(data)
      /\ 256 * h[3] + h[4] = Len(data)
      /\ Len(data) \in Nat /\ p \in Nat
  BY PutChunkIs, LenProperties
<1>2. m \in Nat /\ m < Len(c) /\ m \in Int
  BY <1>1, SMT DEF c
<1>. HIDE DEF c, h, data
<1>3. b \in Seq(Byte) /\ Len(b) = m /\ \A i \in 1 .. m : b[i] = c[i]
  <2>1. \A i \in 1 .. m : i \in 1 .. Len(c)
    BY <1>1, <1>2, SMT
  <2>2. \A i \in 1 .. m : c[i] \in Byte
    BY <1>1, <2>1, ElementOfSeq
  <2>3. /\ b \in Seq(Byte) /\ Len(b) = IF 1 <= m THEN m - 1 + 1 ELSE 0
        /\ \A i \in 1 .. m - 1 + 1 : b[i] = c[1 + i - 1]
    BY <1>2, <2>2, SubSeqProperties
  <2>. HIDE DEF b
  <2>4. m - 1 + 1 = m /\ (1 <= m \/ m = 0) /\ \A i \in 1 .. m : 1 + i - 1 = i
    BY <1>2, SMT
  <2>5. Len(b) = m
    BY <2>3, <2>4
  <2>. QED  BY <2>3, <2>4, <2>5
<1>. HIDE DEF b
<1>4. /\ buf \in Seq(Byte) /\ Len(buf) = p + m
      /\ \A i \in 1 .. p + m : buf[i] = IF i <= p THEN a[i] ELSE b[i - p]
  BY <1>3, ConcatProperties
<1>. HIDE DEF buf, p
<1>5. CASE m < 4
  <2>1. p + 4 > Len(buf)
    BY <1>1, <1>2, <1>4, <1>5, SMT
  <2>. QED  BY <1>3, <2>1 DEF Ends, b, buf, p, c
<1>6. CASE m >= 4
  <2>1. /\ p + 3 \in 1 .. p + m /\ p + 4 \in 1 .. p + m /\ ~(p + 3 <= p) /\ ~(p + 4 <= p)
        /\ (p + 3) - p = 3 /\ (p + 4) - p = 4 /\ 3 \in 1 .. m /\ 4 \in 1 .. m
        /\ (p + 2) + 1 = p + 3 /\ (p + 2) + 2 = p + 4
    BY <1>1, <1>2, <1>6, SMT
  <2>2. buf[p + 3] = c[3] /\ buf[p + 4] = c[4]
    BY <1>3, <1>4, <2>1
  <2>3. c[3] = h[3] /\ c[4] = h[4]
    <3>1. \A i \in 1 .. Len(h) + Len(data) : (h \o data)[i] = IF i <= Len(h) THEN h[i]
                                                              ELSE data[i - Len(h)]
      BY <1>1, ConcatProperties
    <3>2. 3 \in 1 .. Len(h) + Len(data) /\ 4 \in 1 .. Len(h) + Len(data) /\ 3 <= Len(h) /\ 4 <= Len(h)
      BY <1>1, SMT
    <3>. QED  BY <1>1, <3>1, <3>2
  <2>4. U16At(buf, p + 2) = Len(data)
    BY <1>1, <2>1, <2>2, <2>3 DEF U16At
  <2>5. Len(data) > Len(buf) - (p + 4)
    BY <1>1, <1>2, <1>4, SMT
  <2>. QED  BY <1>3, <2>4, <2>5 DEF Ends, b, buf, p, c
<1>. QED  BY <1>2, <1>5, <1>6, SMT

\* The beginning of a sequence, and of two joined.
LEMMA PrefixIs ==
  ASSUME NEW S, NEW s \in Seq(S), NEW n \in 0 .. Len(s)
  PROVE  /\ SubSeq(s, 1, n) \in Seq(S) /\ Len(SubSeq(s, 1, n)) = n
         /\ \A i \in 1 .. n : SubSeq(s, 1, n)[i] = s[i]
<1>1. Len(s) \in Nat
  BY LenProperties
<1>2. n \in Int /\ n \in Nat /\ n - 1 + 1 = n /\ (1 <= n \/ n = 0)
      /\ \A i \in 1 .. n : i \in 1 .. Len(s) /\ 1 + i - 1 = i
  BY <1>1, SMT
<1>3. \A i \in 1 .. n : s[i] \in S
  BY <1>2, ElementOfSeq
<1>4. /\ SubSeq(s, 1, n) \in Seq(S) /\ Len(SubSeq(s, 1, n)) = IF 1 <= n THEN n - 1 + 1 ELSE 0
      /\ \A i \in 1 .. n - 1 + 1 : SubSeq(s, 1, n)[i] = s[1 + i - 1]
  BY <1>2, <1>3, SubSeqProperties
<1>5. Len(SubSeq(s, 1, n)) = n
  BY <1>2, <1>4
<1>. QED  BY <1>2, <1>4, <1>5

LEMMA PrefixOfTwo ==
  ASSUME NEW S, NEW s \in Seq(S), NEW t \in Seq(S)
  PROVE  /\ \A n \in 0 .. Len(s) : SubSeq(s \o t, 1, n) = SubSeq(s, 1, n)
         /\ \A m \in 0 .. Len(t) : SubSeq(s \o t, 1, Len(s) + m) = s \o SubSeq(t, 1, m)
<1>. DEFINE st == s \o t
<1>1. /\ st \in Seq(S) /\ Len(st) = Len(s) + Len(t)
      /\ \A i \in 1 .. Len(s) + Len(t) : st[i] = IF i <= Len(s) THEN s[i] ELSE t[i - Len(s)]
      /\ Len(s) \in Nat /\ Len(t) \in Nat
  BY ConcatProperties, LenProperties
<1>. HIDE DEF st
<1>2. ASSUME NEW n \in 0 .. Len(s) PROVE SubSeq(st, 1, n) = SubSeq(s, 1, n)
  <2>1. n \in 0 .. Len(st) /\ \A i \in 1 .. n : i \in 1 .. Len(s) + Len(t) /\ i <= Len(s)
    BY <1>1, SMT
  <2>2. /\ SubSeq(st, 1, n) \in Seq(S) /\ Len(SubSeq(st, 1, n)) = n
        /\ \A i \in 1 .. n : SubSeq(st, 1, n)[i] = st[i]
    BY <1>1, <2>1, PrefixIs
  <2>3. /\ SubSeq(s, 1, n) \in Seq(S) /\ Len(SubSeq(s, 1, n)) = n
        /\ \A i \in 1 .. n : SubSeq(s, 1, n)[i] = s[i]
    BY PrefixIs
  <2>4. \A i \in 1 .. n : SubSeq(st, 1, n)[i] = SubSeq(s, 1, n)[i]
    BY <1>1, <2>1, <2>2, <2>3
  <2>. QED  BY <2>2, <2>3, <2>4, SeqEqual
<1>3. ASSUME NEW m \in 0 .. Len(t)
      PROVE  SubSeq(st, 1, Len(s) + m) = s \o SubSeq(t, 1, m)
  <2>. DEFINE k == Len(s) + m
              u == SubSeq(t, 1, m)
              v == SubSeq(st, 1, k)
  <2>1. k \in 0 .. Len(st) /\ m \in Nat
    BY <1>1, SMT
  <2>2. v \in Seq(S) /\ Len(v) = k /\ \A i \in 1 .. k : v[i] = st[i]
    BY <1>1, <2>1, PrefixIs
  <2>3. u \in Seq(S) /\ Len(u) = m /\ \A i \in 1 .. m : u[i] = t[i]
    BY PrefixIs
  <2>. HIDE DEF u, v
  <2>4. /\ s \o u \in Seq(S) /\ Len(s \o u) = k
        /\ \A i \in 1 .. k : (s \o u)[i] = IF i <= Len(s) THEN s[i] ELSE u[i - Len(s)]
    BY <2>3, ConcatProperties
  <2>5. \A i \in 1 .. k : i \in 1 .. Len(s) + Len(t) /\ (~(i <= Len(s)) => i - Len(s) \in 1 .. m)
    BY <1>1, <2>1, SMT
  <2>. HIDE DEF k
  <2>6. \A i \in 1 .. k : v[i] = (s \o u)[i]
    BY <1>1, <2>2, <2>3, <2>4, <2>5
  <2>. QED  BY <2>2, <2>4, <2>6, SeqEqual DEF u, v, k
<1>. QED  BY <1>2, <1>3 DEF st

\* A beginning that reaches into the second of two, with a name as Within() has.
BeginsAs(s, t, m) == SubSeq(s \o t, 1, Len(s) + m) = s \o SubSeq(t, 1, m)
LEMMA PrefixOfBoth ==
  ASSUME NEW S, NEW s \in Seq(S), NEW t \in Seq(S), NEW m \in 0 .. Len(t)
  PROVE  BeginsAs(s, t, m)
BY PrefixOfTwo DEF BeginsAs

\* Of the first n bytes of some fields, wherever they stand, the first k fields
\* are read: those that are all there, and no other.
WholeIn(s, n, k) ==
  /\ k \in 0 .. Len(s)
  /\ Len(PutChunks(SubSeq(s, 1, k))) <= n
  /\ k < Len(s) => n < Len(PutChunks(SubSeq(s, 1, k + 1)))
CutReads(s, n, k) ==
  /\ WholeIn(s, n, k)
  /\ \A x \in Seq(Byte) :
       ChunksAt(x \o SubSeq(PutChunks(s), 1, n), Len(x)) = SubSeq(s, 1, k)

\* Some bytes are the beginning of one field, and not all of it.
PartOfOne(b) ==
  \E f \in Fields : \E m \in 0 .. Len(PutChunk(f)) - 1 : b = SubSeq(PutChunk(f), 1, m)

\* All of them, and all of them with a part of one more.
LEMMA AllRead ==
  ASSUME NEW s \in Seq(Fields), NEW x \in Seq(Byte), NEW b \in Seq(Byte),
         b = <<>> \/ PartOfOne(b)
  PROVE  ChunksAt(x \o PutChunks(s) \o b, Len(x)) = s
<1>. DEFINE c == PutChunks(s)
            buf == x \o c \o b
            end == Len(x) + Len(c)
<1>1. /\ buf \in Seq(Byte) /\ Len(x) \in 0 .. Len(buf) /\ end \in 0 .. Len(buf)
      /\ ChunksAt(buf, Len(x)) = s \o ChunksAt(buf, end)
  BY FieldsRead
<1>2. c \in Seq(Byte)
  BY PutChunksAre
<1>. HIDE DEF c
<1>3. x \o c \in Seq(Byte) /\ Len(x \o c) = end
  BY <1>2, ConcatProperties
<1>4. Ends(buf, end)
  <2>1. CASE b = <<>>
    <3>1. buf = x \o c
      BY <1>3, <2>1, ConcatEmptySeq
    <3>2. Len(buf) = end
      BY <1>3, <3>1
    <3>3. end \in Nat
      BY <1>3, LenProperties
    <3>. HIDE DEF buf, end
    <3>. QED  BY <3>2, <3>3, SMT DEF Ends
  <2>2. CASE PartOfOne(b)
    <3>0. PICK f \in Fields : \E m \in 0 .. Len(PutChunk(f)) - 1 : b = SubSeq(PutChunk(f), 1, m)
      BY <2>2 DEF PartOfOne
    <3>1. PICK m \in 0 .. Len(PutChunk(f)) - 1 : b = SubSeq(PutChunk(f), 1, m)
      BY <3>0
    <3>2. Ends((x \o c) \o b, Len(x \o c))
      BY <1>3, <3>1, PartEnds
    <3>. QED  BY <1>3, <3>2
  <2>. QED  BY <2>1, <2>2
<1>5. ChunksAt(buf, end) = <<>>
  <2>. HIDE DEF buf, end
  <2>. QED  BY <1>1, <1>4, ChunksStep
<1>. QED  BY <1>1, <1>5, ConcatEmptySeq DEF c

\* Some of them: whole fields, and a part of the one after them.
LEMMA SomeRead ==
  ASSUME NEW fs \in Seq(Fields), NEW n \in 0 .. Len(PutChunks(fs))
  PROVE  \E k : CutReads(fs, n, k)
<1>. DEFINE T == {s \in Seq(Fields) : \A m \in 0 .. Len(PutChunks(s)) : \E k : CutReads(s, m, k)}
<1>1. ASSUME NEW s \in Seq(Fields), NEW m \in 0 .. Len(PutChunks(s)), NEW k \in 0 .. Len(s),
             WholeIn(s, m, k),
             \A x \in Seq(Byte) :
               ChunksAt(x \o SubSeq(PutChunks(s), 1, m), Len(x)) = SubSeq(s, 1, k)
      PROVE  \E j : CutReads(s, m, j)
  BY <1>1 DEF CutReads
<1>2. ASSUME NEW s \in Seq(Fields) PROVE CutReads(s, Len(PutChunks(s)), Len(s))
  <2>. DEFINE c == PutChunks(s)
  <2>1. c \in Seq(Byte) /\ Len(c) \in Nat /\ Len(s) \in Nat
    BY PutChunksAre, LenProperties
  <2>2. SubSeq(s, 1, Len(s)) = s /\ SubSeq(c, 1, Len(c)) = c
    <3>1. SubSeq(s, 1, Len(s)) = s
      BY PrefixesOf
    <3>. HIDE DEF c
    <3>2. SubSeq(c, 1, Len(c)) = c
      BY <2>1, PrefixesOf
    <3>. QED  BY <3>1, <3>2
  <2>3. ASSUME NEW x \in Seq(Byte) PROVE ChunksAt(x \o c, Len(x)) = s
    <3>1. ChunksAt(x \o c \o <<>>, Len(x)) = s
      BY AllRead, EmptySeq
    <3>2. x \o c \in Seq(Byte)
      <4>. HIDE DEF c
      <4>. QED  BY <2>1, ConcatProperties
    <3>. HIDE DEF c
    <3>3. (x \o c) \o <<>> = x \o c
      BY <3>2, ConcatEmptySeq
    <3>. QED  BY <3>1, <3>3
  <2>4. Len(s) \in 0 .. Len(s) /\ ~(Len(s) < Len(s)) /\ Len(c) <= Len(c)
    <3>. HIDE DEF c
    <3>. QED  BY <2>1, SMT
  <2>. QED  BY <2>2, <2>3, <2>4 DEF CutReads, WholeIn
<1>3. <<>> \in T
  <2>1. PutChunks(<<>>) = <<>> /\ <<>> \in Seq(Fields) /\ Len(<<>>) = 0
    BY PutChunksStep, EmptySeq
  <2>2. \A m \in 0 .. Len(PutChunks(<<>>)) : m = Len(PutChunks(<<>>))
    BY <2>1
  <2>. QED  BY <1>2, <2>1, <2>2
<1>4. ASSUME NEW s \in Seq(Fields), NEW f \in Fields, s \in T
      PROVE  Append(s, f) \in T
  <2>. DEFINE gs == Append(s, f)
              z == PutChunks(s)
              c == PutChunk(f)
              l == Len(s)
  <2>1. /\ gs \in Seq(Fields) /\ Len(gs) = l + 1 /\ l \in Nat
        /\ \A k \in 0 .. l : SubSeq(gs, 1, k) = SubSeq(s, 1, k)
    <3>1. gs \in Seq(Fields) /\ Len(gs) = l + 1 /\ l \in Nat
      BY LenProperties
    <3>2. gs = s \o <<f>> /\ <<f>> \in Seq(Fields)
      BY AppendIsConcat
    <3>3. \A k \in 0 .. Len(s) : SubSeq(s \o <<f>>, 1, k) = SubSeq(s, 1, k)
      BY <3>2, PrefixOfTwo
    <3>. QED  BY <3>1, <3>2, <3>3
  <2>2. /\ z \in Seq(Byte) /\ c \in Seq(Byte) /\ PutChunks(gs) = z \o c
        /\ Len(z) \in Nat /\ Len(c) \in Nat
    BY PutChunksAre, PutChunkIs, PutChunksStep, LenProperties
  <2>3. Len(PutChunks(gs)) = Len(z) + Len(c)
    <3>. HIDE DEF z, c
    <3>. QED  BY <2>2, ConcatProperties
  <2>4. Len(c) >= 4
    <3>1. Len(c) = 4 + Len(f.data) /\ f.data \in Seq(Byte)
      BY PutChunkIs
    <3>2. Len(f.data) \in Nat
      BY <3>1, LenProperties
    <3>. QED  BY <3>1, <3>2, SMT
  <2>5. SubSeq(gs, 1, l + 1) = gs /\ SubSeq(s, 1, l) = s
    BY <2>1, PrefixesOf
  <2>6. ASSUME NEW m \in 0 .. Len(PutChunks(gs)) PROVE \E k : CutReads(gs, m, k)
    <3>1. CASE m \in 0 .. Len(z)
      <4>1. PICK k : CutReads(s, m, k)
        BY <1>4, <3>1
      <4>2. k \in 0 .. l /\ (k < l \/ k = l)
        BY <2>1, <4>1, SMT DEF CutReads, WholeIn
      <4>3. SubSeq(PutChunks(gs), 1, m) = SubSeq(z, 1, m)
        <5>. HIDE DEF z, c
        <5>. QED  BY <2>2, <3>1, PrefixOfTwo
      <4>4. SubSeq(gs, 1, k) = SubSeq(s, 1, k)
        BY <2>1, <4>2
      <4>5. m < Len(PutChunks(SubSeq(gs, 1, k + 1)))
        <5>1. CASE k < l
          <6>1. k + 1 \in 0 .. l
            BY <2>1, <4>2, <5>1, SMT
          <6>2. SubSeq(gs, 1, k + 1) = SubSeq(s, 1, k + 1)
            BY <2>1, <6>1
          <6>. QED  BY <4>1, <5>1, <6>2 DEF CutReads, WholeIn
        <5>2. CASE k = l
          <6>1. m < Len(z) + Len(c)
            <7>. HIDE DEF z, c
            <7>. QED  BY <2>2, <2>4, <3>1, SMT
          <6>. QED  BY <2>3, <2>5, <5>2, <6>1
        <5>. QED  BY <4>2, <5>1, <5>2
      <4>6. k \in 0 .. Len(gs)
        BY <2>1, <4>2, SMT
      <4>. HIDE DEF gs
      <4>7. WholeIn(gs, m, k)
        BY <4>1, <4>4, <4>5, <4>6 DEF WholeIn, CutReads
      <4>8. \A x \in Seq(Byte) :
              ChunksAt(x \o SubSeq(PutChunks(gs), 1, m), Len(x)) = SubSeq(gs, 1, k)
        BY <4>1, <4>3, <4>4 DEF CutReads
      <4>. QED  BY <4>7, <4>8 DEF CutReads
    <3>2. CASE m \in Len(z) + 1 .. Len(z) + Len(c) - 1
      <4>. DEFINE d == m - Len(z)
                  b == SubSeq(c, 1, d)
      <4>1. /\ d \in 0 .. Len(c) - 1 /\ d \in 0 .. Len(c) /\ Len(z) + d = m
            /\ Len(z) <= m /\ m < Len(z) + Len(c)
        <5>. HIDE DEF z, c
        <5>. QED  BY <2>2, <3>2, SMT
      <4>. HIDE DEF d
      <4>2. b \in Seq(Byte)
        BY <2>2, <4>1, PrefixIs
      <4>3. SubSeq(PutChunks(gs), 1, m) = z \o b
        <5>. HIDE DEF z, c
        <5>0. z \in Seq(Byte) /\ c \in Seq(Byte) /\ d \in 0 .. Len(c)
          BY <2>2, <4>1
        <5>1. BeginsAs(z, c, d)
          BY <5>0, PrefixOfBoth
        <5>. QED  BY <2>2, <4>1, <5>1 DEF BeginsAs
      <4>4. ASSUME NEW x \in Seq(Byte) PROVE ChunksAt(x \o (z \o b), Len(x)) = s
        <5>1. PartOfOne(b)
          BY <4>1 DEF PartOfOne
        <5>. HIDE DEF b
        <5>2. ChunksAt(x \o z \o b, Len(x)) = s
          BY <4>2, <5>1, AllRead
        <5>3. (x \o z) \o b = x \o (z \o b)
          <6>. HIDE DEF z
          <6>. QED  BY <2>2, <4>2, BytesAssociate
        <5>. QED  BY <5>2, <5>3
      <4>. HIDE DEF b, gs
      <4>5. l \in 0 .. Len(gs) /\ SubSeq(gs, 1, l) = s
        <5>1. l \in 0 .. l /\ l \in 0 .. Len(gs)
          BY <2>1, SMT
        <5>. QED  BY <2>1, <2>5, <5>1
      <4>6. WholeIn(gs, m, l)
        BY <2>1, <2>3, <2>5, <4>1, <4>5 DEF WholeIn
      <4>. QED  BY <4>3, <4>4, <4>5, <4>6 DEF CutReads
    <3>3. CASE m = Len(PutChunks(gs))
      BY <1>2, <2>1, <3>3
    <3>4. m \in 0 .. Len(z) \/ m \in Len(z) + 1 .. Len(z) + Len(c) - 1 \/ m = Len(PutChunks(gs))
      <4>. HIDE DEF z, c
      <4>1. m \in 0 .. Len(z) + Len(c) /\ Len(z) \in Nat /\ Len(c) \in Nat
        BY <2>2, <2>3
      <4>2. m \in 0 .. Len(z) \/ m \in Len(z) + 1 .. Len(z) + Len(c) - 1 \/ m = Len(z) + Len(c)
        BY <4>1, SMT
      <4>. QED  BY <2>3, <4>2
    <3>. QED  BY <3>1, <3>2, <3>3, <3>4
  <2>. QED  BY <2>1, <2>6
<1>5. fs \in T
  <2>. HIDE DEF T
  <2>. QED  BY <1>3, <1>4, SeqInduct
<1>. QED  BY <1>5

----------------------------------------------------------------------------
(* pack_message_size() and the header that pack_message() writes.           *)

\* What some fields come to: PackMessageSize()'s fold.
Longer(n, f) == n + 4 + Len(f.data)
Lengthen == [n \in Nat |-> [f \in Fields |-> Longer(n, f)]]
Total(fs) == AfterAll(Nat, 0, fs, Lengthen)

LEMMA SizeIsTotal ==
  ASSUME NEW s \in Seq(Fields)
  PROVE  /\ Feeds(Nat, Fields, 0, s, Lengthen)
         /\ PackMessageSize(s) = HeaderLen + Total(s)
<1>. DEFINE D == SUBSET (DOMAIN s)
            f == CHOOSE f : f = [P \in D |-> IF P = {} THEN 0
                                             ELSE Longer(f[P \ {Max(P)}], s[Max(P)])]
<1>1. PackMessageSize(s) = HeaderLen + f[DOMAIN s]
  BY Zenon DEF PackMessageSize, Longer, FoldLeft, MapThenFoldSet
<1>2. ASSUME NEW v \in Nat, NEW x \in Fields
      PROVE  Longer(v, x) \in Nat /\ Longer(v, x) = Lengthen[v][x]
  <2>. DEFINE n == Len(x.data)
  <2>1. n \in Nat
    BY PutChunkIs, LenProperties
  <2>2. Longer(v, x) = v + 4 + n
    BY DEF Longer
  <2>. HIDE DEF n
  <2>3. v + 4 + n \in Nat
    BY <2>1
  <2>4. Longer(v, x) = Lengthen[v][x]
    BY DEF Lengthen
  <2>. QED  BY <2>2, <2>3, <2>4
<1>. HIDE DEF f
<1>3. Lengthen \in [Nat -> [Fields -> Nat]]
  BY <1>2 DEF Lengthen
<1>4. Feeds(Nat, Fields, 0, s, Lengthen)
  BY <1>3 DEF Feeds
<1>5. PICK g : FoldOver(g, Nat, Fields, 0, s, Lengthen)
  BY <1>4, FoldExists
<1>6. g = [P \in D |-> IF P = {} THEN 0 ELSE Longer(g[P \ {Max(P)}], s[Max(P)])]
  BY <1>2, <1>5 DEF FoldOver
<1>7. f = [P \in D |-> IF P = {} THEN 0 ELSE Longer(f[P \ {Max(P)}], s[Max(P)])]
  BY <1>6 DEF f
<1>8. f[{}] = 0
  BY <1>7
<1>9. ASSUME NEW k \in DOMAIN s, f[1 .. k - 1] \in Nat
      PROVE  f[1 .. k] = Lengthen[f[1 .. k - 1]][s[k]]
  <2>1. DOMAIN s = 1 .. Len(s) /\ Len(s) \in Nat /\ s[k] \in Fields
    BY LenProperties, ElementOfSeq
  <2>2. Max(1 .. k) = k /\ (1 .. k) \ {k} = 1 .. k - 1 /\ 1 .. k # {} /\ 1 .. k \in D
    BY <2>1, MaxOfRun
  <2>3. f[1 .. k] = Longer(f[1 .. k - 1], s[k])
    BY <1>7, <2>2
  <2>. QED  BY <1>2, <1>9, <2>1, <2>3
<1>10. f[DOMAIN s] = Total(s)
  BY <1>4, <1>8, <1>9, FoldIsAfter DEF Total
<1>. QED  BY <1>1, <1>4, <1>10

\* The size that pack_message_size() gives is the fields' and the header's; and
\* no number of fields that fits one message needs more than three bytes for it.
LongestField == 65539
LEMMA SizeIsLength ==
  ASSUME NEW fs \in Seq(Fields)
  PROVE  /\ Len(PutChunks(fs)) \in Nat
         /\ PackMessageSize(fs) = HeaderLen + Len(PutChunks(fs))
         /\ Len(PutChunks(fs)) <= LongestField * Len(fs)
<1>. DEFINE T == {s \in Seq(Fields) : /\ Total(s) = Len(PutChunks(s))
                                      /\ Len(PutChunks(s)) <= LongestField * Len(s)}
<1>1. <<>> \in T
  <2>1. PutChunks(<<>>) = <<>> /\ <<>> \in Seq(Fields) /\ Len(<<>>) = 0
    BY PutChunksStep, EmptySeq
  <2>2. Total(<<>>) = 0
    BY <2>1, SizeIsTotal, AfterEmpty DEF Total
  <2>3. 0 <= LongestField * 0
    BY SMT DEF LongestField
  <2>. QED  BY <2>1, <2>2, <2>3
<1>2. ASSUME NEW s \in Seq(Fields), NEW f \in Fields, s \in T
      PROVE  Append(s, f) \in T
  <2>. DEFINE z == PutChunks(s)
              c == PutChunk(f)
              n == Len(f.data)
  <2>1. /\ z \in Seq(Byte) /\ c \in Seq(Byte) /\ PutChunks(Append(s, f)) = z \o c
        /\ Len(c) = 4 + n /\ Len(z) \in Nat /\ f.data \in Seq(Byte)
    BY PutChunksAre, PutChunkIs, PutChunksStep, LenProperties
  <2>2. n \in Nat /\ n \in TwoDigits
    BY <2>1, LenProperties DEF Fields
  <2>3. Append(s, f) \in Seq(Fields) /\ Len(Append(s, f)) = Len(s) + 1 /\ Len(s) \in Nat
    BY LenProperties
  <2>. HIDE DEF z, c, n
  <2>4. Len(z \o c) = Len(z) + (4 + n)
    BY <2>1, ConcatProperties
  <2>5. Total(Append(s, f)) = Total(s) + 4 + n
    <3>1. Total(s) \in Nat /\ Total(Append(s, f)) = Lengthen[Total(s)][f]
      BY SizeIsTotal, AfterMore DEF Total
    <3>. QED  BY <3>1 DEF Lengthen, Longer, n
  <2>6. Total(s) = Len(z) /\ Len(z) <= LongestField * Len(s)
    BY <1>2 DEF z
  <2>7. Total(Append(s, f)) = Len(z \o c)
    BY <2>1, <2>2, <2>4, <2>5, <2>6, SMT
  <2>8. Len(z \o c) <= LongestField * (Len(s) + 1)
    BY <2>1, <2>2, <2>3, <2>4, <2>6, SMT DEF TwoDigits, LongestField
  <2>. QED  BY <2>1, <2>3, <2>7, <2>8
<1>3. fs \in T
  <2>. HIDE DEF T
  <2>. QED  BY <1>1, <1>2, SeqInduct
<1>. QED  BY <1>3, SizeIsTotal, PutChunksAre, LenProperties

\* A number of two digits or three as the bytes that stand for it.
LEMMA NumIs ==
  /\ \A k \in ThreeDigits : Number(Num(k)) /\ Len(Num(k)) <= 4 /\ Size(Num(k)) = k
  /\ \A k \in TwoDigits : Number(Num(k)) /\ Len(Num(k)) <= 2 /\ Size(Num(k)) = k
<1>1. ASSUME NEW k \in ThreeDigits
      PROVE  Number(Num(k)) /\ Len(Num(k)) <= 3 /\ Size(Num(k)) = k /\ Len(Num(k)) \in Nat
  <2>1. Three(k) \in Seq(Byte) /\ Len(Three(k)) = 3 /\ Num(k) = Value(Three(k))
    BY NumDigits
  <2>. QED  BY <2>1, ValueIs, SizeOfNum, LenProperties DEF Number
<1>2. ASSUME NEW k \in TwoDigits PROVE k \in ThreeDigits /\ Len(Num(k)) <= 2
  <2>1. k \in ThreeDigits
    BY SMT DEF TwoDigits, ThreeDigits
  <2>2. Three(k)[1] = 0
    BY SMT DEF Three, TwoDigits
  <2>. DEFINE b == Three(k)
  <2>3. b \in Seq(Byte) /\ Len(b) = 3 /\ Num(k) = Value(b)
    BY <2>1, NumDigits
  <2>. HIDE DEF b
  <2>4. /\ Number(Value(b)) /\ Len(Value(b)) <= 3 /\ Len(Value(b)) \in Nat
        /\ \A i \in DOMAIN Value(b) : Value(b)[i] = b[i + 3 - Len(Value(b))]
        /\ DOMAIN Value(b) = 1 .. Len(Value(b))
    BY <2>3, ValueIs, LenProperties DEF Number
  <2>5. Len(Value(b)) # 3
    <3>. SUFFICES ASSUME Len(Value(b)) = 3 PROVE FALSE
      OBVIOUS
    <3>1. 1 \in DOMAIN Value(b) /\ 1 + 3 - 3 = 1
      BY <2>4
    <3>2. Value(b)[1] = b[1]
      BY <2>4, <3>1
    <3>3. Value(b) # <<>>
      BY EmptySeq
    <3>. QED  BY <2>2, <2>4, <3>2, <3>3 DEF Number, b
  <2>. QED  BY <2>1, <2>3, <2>4, <2>5, SMT
<1>3. ASSUME NEW k \in ThreeDigits PROVE Len(Num(k)) <= 4
  <2>1. Len(Num(k)) \in Nat /\ Len(Num(k)) <= 3
    BY <1>1
  <2>. QED  BY <2>1, SMT
<1>. QED  BY <1>1, <1>2, <1>3

\* What is read of the front of two joined, and of the back.
SliceStays(s, t, from, n) == Slice(s \o t, from, n) = Slice(s, from, n)
LEMMA FrontKept ==
  ASSUME NEW S, NEW s \in Seq(S), NEW t \in Seq(S), NEW from \in Nat, NEW n \in Nat,
         from + n <= Len(s)
  PROVE  SliceStays(s, t, from, n)
<1>. DEFINE st == s \o t
            a == from + 1
            z == from + n
<1>1. /\ st \in Seq(S) /\ Len(st) = Len(s) + Len(t)
      /\ \A i \in 1 .. Len(s) + Len(t) : st[i] = IF i <= Len(s) THEN s[i] ELSE t[i - Len(s)]
      /\ Len(s) \in Nat /\ Len(t) \in Nat
  BY ConcatProperties, LenProperties
<1>. HIDE DEF st
<1>2. /\ a \in Int /\ z \in Int
      /\ \A i \in a .. z : i \in 1 .. Len(s) + Len(t) /\ i <= Len(s) /\ i \in 1 .. Len(s)
      /\ \A i \in 1 .. z - a + 1 : a + i - 1 \in a .. z
  BY <1>1, SMT
<1>3. \A i \in a .. z : st[i] = s[i] /\ s[i] \in S
  BY <1>1, <1>2, ElementOfSeq
<1>. DEFINE u == SubSeq(st, a, z)
            v == SubSeq(s, a, z)
            l == IF a <= z THEN z - a + 1 ELSE 0
<1>. HIDE DEF a, z
<1>4. /\ u \in Seq(S) /\ Len(u) = l
      /\ \A i \in 1 .. z - a + 1 : u[i] = st[a + i - 1]
  BY <1>2, <1>3, SubSeqProperties
<1>5. /\ v \in Seq(S) /\ Len(v) = l
      /\ \A i \in 1 .. z - a + 1 : v[i] = s[a + i - 1]
  BY <1>2, <1>3, SubSeqProperties
<1>6. \A i \in 1 .. l : i \in 1 .. z - a + 1
  BY <1>2, SMT
<1>. HIDE DEF u, v, l
<1>7. \A i \in 1 .. Len(u) : u[i] = v[i]
  BY <1>2, <1>3, <1>4, <1>5, <1>6
<1>8. u = v
  BY <1>4, <1>5, <1>7, SeqEqual
<1>. QED  BY <1>8 DEF SliceStays, Slice, u, v, a, z, st

LEMMA BackRead ==
  ASSUME NEW S, NEW s \in Seq(S), NEW t \in Seq(S)
  PROVE  Slice(s \o t, Len(s), Len(t)) = t
<1>1. <<>> \in Seq(S) /\ s \o t \in Seq(S)
  BY EmptySeq, ConcatProperties
<1>2. (s \o t) \o <<>> = s \o t
  BY <1>1, ConcatEmptySeq
<1>3. SubSeq((s \o t) \o <<>>, Len(s) + 1, Len(s) + Len(t)) = t
  BY <1>1, Middle
<1>. QED  BY <1>2, <1>3 DEF Slice

\* What is put behind some bytes is read behind them.
Onto(s, t) ==
  /\ s \o t \in Seq(Byte) /\ Len(s \o t) = Len(s) + Len(t)
  /\ Slice(s \o t, Len(s), Len(t)) = t
LEMMA PutOnto ==
  ASSUME NEW s \in Seq(Byte), NEW t \in Seq(Byte)
  PROVE  Onto(s, t)
BY ConcatProperties, BackRead DEF Onto

\* Six pieces joined, each read where it stands.
LEMMA SixRead ==
  ASSUME NEW a \in Seq(Byte), Len(a) = 4, NEW b \in Seq(Byte), Len(b) = 4,
         NEW c \in Seq(Byte), Len(c) = 4, NEW d \in Seq(Byte), Len(d) = 4,
         NEW e \in Seq(Byte), Len(e) = 4, NEW f \in Seq(Byte), Len(f) = 2,
         NEW rest \in Seq(Byte)
  PROVE  LET m == (a \o b \o c \o d \o e \o f) \o rest
         IN  /\ a \o b \o c \o d \o e \o f \in Seq(Byte) /\ Len(a \o b \o c \o d \o e \o f) = 22
             /\ m \in Seq(Byte) /\ Len(m) = 22 + Len(rest)
             /\ Slice(m, 0, 4) = a /\ Slice(m, 4, 4) = b /\ Slice(m, 8, 4) = c
             /\ Slice(m, 12, 4) = d /\ Slice(m, 16, 4) = e /\ Slice(m, 20, 2) = f
<1>. DEFINE m2 == a \o b
            m3 == m2 \o c
            m4 == m3 \o d
            m5 == m4 \o e
            m6 == m5 \o f
            m7 == m6 \o rest
<1>0. Onto(a, b)
  BY PutOnto
<1>1. m2 \in Seq(Byte) /\ Len(m2) = 4 + 4
  BY <1>0 DEF Onto
<1>2. Slice(m2, 4, 4) = b
  BY <1>0 DEF Onto
<1>2a. Slice(m2, 0, 4) = a
  <2>1. SliceStays(a, b, 0, 4)
    BY FrontKept, 0 + 4 <= 4
  <2>2. <<>> \o a = a /\ <<>> \in Seq(Byte) /\ Len(<<>>) = 0
    BY ConcatEmptySeq, EmptySeq
  <2>3. Slice(<<>> \o a, Len(<<>>), Len(a)) = a
    BY <2>2, BackRead
  <2>. QED  BY <2>1, <2>2, <2>3 DEF SliceStays
<1>. HIDE DEF m2
<1>3. m3 \in Seq(Byte) /\ Len(m3) = 8 + 4 /\ Slice(m3, 8, 4) = c
  <2>1. Onto(m2, c)
    BY <1>1, PutOnto
  <2>. QED  BY <1>1, <2>1, 4 + 4 = 8 DEF Onto
<1>4. Slice(m3, 0, 4) = a /\ Slice(m3, 4, 4) = b
  <2>1. SliceStays(m2, c, 0, 4) /\ SliceStays(m2, c, 4, 4)
    BY <1>1, FrontKept, 0 + 4 <= 4 + 4, 4 + 4 <= 4 + 4
  <2>. QED  BY <1>2, <1>2a, <2>1 DEF SliceStays
<1>. HIDE DEF m3
<1>5. m4 \in Seq(Byte) /\ Len(m4) = 12 + 4 /\ Slice(m4, 12, 4) = d
  <2>1. Onto(m3, d)
    BY <1>3, PutOnto
  <2>. QED  BY <1>3, <2>1, 8 + 4 = 12 DEF Onto
<1>6. Slice(m4, 0, 4) = a /\ Slice(m4, 4, 4) = b /\ Slice(m4, 8, 4) = c
  <2>1. SliceStays(m3, d, 0, 4) /\ SliceStays(m3, d, 4, 4) /\ SliceStays(m3, d, 8, 4)
    BY <1>3, FrontKept, 0 + 4 <= 8 + 4, 4 + 4 <= 8 + 4, 8 + 4 <= 8 + 4
  <2>. QED  BY <1>3, <1>4, <2>1 DEF SliceStays
<1>. HIDE DEF m4
<1>7. m5 \in Seq(Byte) /\ Len(m5) = 16 + 4 /\ Slice(m5, 16, 4) = e
  <2>1. Onto(m4, e)
    BY <1>5, PutOnto
  <2>. QED  BY <1>5, <2>1, 12 + 4 = 16 DEF Onto
<1>8. /\ Slice(m5, 0, 4) = a /\ Slice(m5, 4, 4) = b /\ Slice(m5, 8, 4) = c
      /\ Slice(m5, 12, 4) = d
  <2>1. /\ SliceStays(m4, e, 0, 4) /\ SliceStays(m4, e, 4, 4) /\ SliceStays(m4, e, 8, 4)
        /\ SliceStays(m4, e, 12, 4)
    BY <1>5, FrontKept, 0 + 4 <= 12 + 4, 4 + 4 <= 12 + 4, 8 + 4 <= 12 + 4, 12 + 4 <= 12 + 4
  <2>. QED  BY <1>5, <1>6, <2>1 DEF SliceStays
<1>. HIDE DEF m5
<1>9. m6 \in Seq(Byte) /\ Len(m6) = 20 + 2 /\ Slice(m6, 20, 2) = f
  <2>1. Onto(m5, f)
    BY <1>7, PutOnto
  <2>. QED  BY <1>7, <2>1, 16 + 4 = 20 DEF Onto
<1>10. /\ Slice(m6, 0, 4) = a /\ Slice(m6, 4, 4) = b /\ Slice(m6, 8, 4) = c
       /\ Slice(m6, 12, 4) = d /\ Slice(m6, 16, 4) = e
  <2>1. /\ SliceStays(m5, f, 0, 4) /\ SliceStays(m5, f, 4, 4) /\ SliceStays(m5, f, 8, 4)
        /\ SliceStays(m5, f, 12, 4) /\ SliceStays(m5, f, 16, 4)
    BY <1>7, FrontKept, 0 + 4 <= 16 + 4, 4 + 4 <= 16 + 4, 8 + 4 <= 16 + 4, 12 + 4 <= 16 + 4,
       16 + 4 <= 16 + 4
  <2>. QED  BY <1>7, <1>8, <2>1 DEF SliceStays
<1>. HIDE DEF m6
<1>11. m7 \in Seq(Byte) /\ Len(m7) = 22 + Len(rest)
  <2>1. Onto(m6, rest)
    BY <1>9, PutOnto
  <2>. QED  BY <1>9, <2>1, 20 + 2 = 22 DEF Onto
<1>12. /\ Slice(m7, 0, 4) = a /\ Slice(m7, 4, 4) = b /\ Slice(m7, 8, 4) = c
       /\ Slice(m7, 12, 4) = d /\ Slice(m7, 16, 4) = e /\ Slice(m7, 20, 2) = f
  <2>1. /\ SliceStays(m6, rest, 0, 4) /\ SliceStays(m6, rest, 4, 4) /\ SliceStays(m6, rest, 8, 4)
        /\ SliceStays(m6, rest, 12, 4) /\ SliceStays(m6, rest, 16, 4)
        /\ SliceStays(m6, rest, 20, 2)
    BY <1>9, FrontKept, 0 + 4 <= 20 + 2, 4 + 4 <= 20 + 2, 8 + 4 <= 20 + 2, 12 + 4 <= 20 + 2,
       16 + 4 <= 20 + 2, 20 + 2 <= 20 + 2
  <2>. QED  BY <1>9, <1>10, <2>1 DEF SliceStays
<1>. QED  BY <1>9, <1>11, <1>12, 20 + 2 = 22 DEF m7, m6, m5, m4, m3, m2

\* A cursor over a layout of numbers, and one step of it.
Names == {"none", "type", "trans", "flag", "len", "len2", "hc"}
Gots == UNION {[names -> Seq(Byte)] : names \in SUBSET Names}
Cursors == [pos : Nat, ok : BOOLEAN, got : Gots]
Uints == [as : Names, kind : {"uint"}, n : Nat, of : {""}]

Added(got, as, v) == [x \in DOMAIN got \cup {as} |-> IF x # as THEN got[x] ELSE v]
After(buf, c, step) ==
  [pos |-> c.pos + step.n, ok |-> TRUE,
   got |-> Added(c.got, step.as, Value(Slice(buf, c.pos, step.n)))]

LEMMA SliceIs ==
  ASSUME NEW buf \in Seq(Byte), NEW p \in Nat, NEW n \in Nat, p + n <= Len(buf)
  PROVE  Slice(buf, p, n) \in Seq(Byte) /\ Len(Slice(buf, p, n)) = n
<1>. DEFINE a == p + 1
            z == p + n
<1>1. Len(buf) \in Nat
  BY LenProperties
<1>2. /\ a \in Int /\ z \in Int /\ \A i \in a .. z : i \in 1 .. Len(buf)
      /\ z - a + 1 = n /\ (a <= z \/ n = 0) /\ (a <= z => n # 0)
  BY <1>1, SMT
<1>3. \A i \in a .. z : buf[i] \in Byte
  BY <1>2, ElementOfSeq
<1>. HIDE DEF a, z
<1>4. SubSeq(buf, a, z) \in Seq(Byte) /\ Len(SubSeq(buf, a, z)) = IF a <= z THEN z - a + 1 ELSE 0
  BY <1>2, <1>3, SubSeqProperties
<1>5. Len(SubSeq(buf, a, z)) = n
  BY <1>2, <1>4
<1>. QED  BY <1>4, <1>5 DEF Slice, a, z

LEMMA ReadsOne ==
  ASSUME NEW buf \in Seq(Byte), NEW c \in Cursors, NEW step \in Uints
  PROVE  /\ ReadOne(buf, c, step) \in Cursors
         /\ c.ok /\ c.pos + step.n <= Len(buf) => ReadOne(buf, c, step) = After(buf, c, step)
<1>. DEFINE n == step.n
            p == c.pos
            data == Slice(buf, p, n)
<1>1. /\ n \in Nat /\ p \in Nat /\ c.ok \in BOOLEAN /\ step.kind = "uint" /\ step.as \in Names
      /\ c.got \in Gots /\ c = [pos |-> p, ok |-> c.ok, got |-> c.got] /\ Len(buf) \in Nat
  BY LenProperties DEF Cursors, Uints
<1>2. Wanted(buf, c, step) = n /\ Skipped(step) = 0
  BY <1>1, Zenon DEF Wanted, Skipped
<1>3. ReadOne(buf, c, step) = IF ~c.ok \/ Len(buf) - p < 0 + n THEN [c EXCEPT !.ok = FALSE]
                              ELSE Moved(c, step, Slice(buf, p + 0, n))
  BY <1>2, Zenon DEF ReadOne, Took
<1>4. 0 + n = n /\ p + 0 = p
  BY <1>1
<1>5. CASE ~c.ok \/ Len(buf) - p < n
  <2>1. ReadOne(buf, c, step) = [c EXCEPT !.ok = FALSE]
    BY <1>3, <1>4, <1>5
  <2>2. [c EXCEPT !.ok = FALSE] \in Cursors
    BY DEF Cursors
  <2>3. ~(c.ok /\ p + n <= Len(buf))
    <3>. HIDE DEF n, p
    <3>. QED  BY <1>1, <1>5, SMT
  <2>. QED  BY <2>1, <2>2, <2>3
<1>6. CASE c.ok /\ ~(Len(buf) - p < n)
  <2>1. p + n <= Len(buf)
    <3>. HIDE DEF n, p
    <3>. QED  BY <1>1, <1>6, SMT
  <2>2. data \in Seq(Byte) /\ Len(data) = n
    <3>. HIDE DEF n, p
    <3>. QED  BY <1>1, <2>1, SliceIs
  <2>3. Value(data) \in Seq(Byte)
    <3>. HIDE DEF data
    <3>. QED  BY <2>2, ValueIs DEF Number
  <2>4. ReadOne(buf, c, step) = Moved(c, step, data)
    BY <1>3, <1>4, <1>6, Zenon
  <2>5. Moved(c, step, data) = [pos |-> p + 0 + Len(data), ok |-> c.ok,
                                got |-> Added(c.got, step.as, Value(data))]
    <3>1. Moved(c, step, data) =
            [c EXCEPT !.pos = @ + 0 + Len(data),
                      !.got = [x \in DOMAIN @ \cup {step.as} |->
                                 IF x # step.as THEN @[x] ELSE Value(data)]]
      BY <1>1, <1>2 DEF Moved
    <3>. HIDE DEF data
    <3>. QED  BY <1>1, <3>1 DEF Added
  <2>6. p + 0 + Len(data) = p + n /\ p + n \in Nat
    BY <1>1, <1>4, <2>2
  <2>7. ReadOne(buf, c, step) = After(buf, c, step)
    BY <1>6, <2>4, <2>5, <2>6 DEF After
  <2>8. Added(c.got, step.as, Value(data)) \in Gots
    <3>1. PICK names \in SUBSET Names : c.got \in [names -> Seq(Byte)]
      BY <1>1 DEF Gots
    <3>. DEFINE more == names \cup {step.as}
    <3>2. more \in SUBSET Names
      BY <1>1, <3>1
    <3>3. Added(c.got, step.as, Value(data)) \in [more -> Seq(Byte)]
      <4>. HIDE DEF data
      <4>. QED  BY <2>3, <3>1 DEF Added
    <3>. QED  BY <3>2, <3>3 DEF Gots
  <2>9. After(buf, c, step) \in Cursors
    <3>1. After(buf, c, step) = [pos |-> p + n, ok |-> TRUE,
                                 got |-> Added(c.got, step.as, Value(data))]
      BY DEF After
    <3>. HIDE DEF data, p, n
    <3>. QED  BY <2>6, <2>8, <3>1 DEF Cursors
  <2>. QED  BY <2>7, <2>9
<1>. QED  BY <1>1, <1>5, <1>6

\* A reader of a layout of numbers takes one after another.
ReadInto(buf) == [c \in Cursors |-> [step \in Uints |-> ReadOne(buf, c, step)]]

LEMMA ReadIsAfter ==
  ASSUME NEW buf \in Seq(Byte), NEW layout \in Seq(Uints)
  PROVE  /\ Cursor(0) \in Cursors
         /\ Feeds(Cursors, Uints, Cursor(0), layout, ReadInto(buf))
         /\ Read(buf, 0, layout) = AfterAll(Cursors, Cursor(0), layout, ReadInto(buf))
<1>. DEFINE D == SUBSET (DOMAIN layout)
            start == Cursor(0)
            Step(c, step) == ReadOne(buf, c, step)
            f == CHOOSE f : f = [P \in D |-> IF P = {} THEN start
                                             ELSE Step(f[P \ {Max(P)}], layout[Max(P)])]
            G == ReadInto(buf)
<1>0. Least(0, Len(buf)) = 0
  <2>1. Len(buf) \in Nat
    BY LenProperties
  <2>. QED  BY <2>1, SMT DEF Least
<1>1. Read(buf, 0, layout) = f[DOMAIN layout]
  <2>1. Read(buf, 0, layout) =
          FoldLeft(LAMBDA c, step : ReadOne(buf, c, step), Cursor(Least(0, Len(buf))), layout)
    BY Zenon DEF Read
  <2>. QED  BY <1>0, <2>1, Zenon DEF FoldLeft, MapThenFoldSet
<1>2. start \in Cursors
  <2>0. <<>> \in Seq(Byte)
    OBVIOUS
  <2>1. "none" \in Names
    BY DEF Names
  <2>. DEFINE e == <<>>
              names == {"none"}
  <2>2. [none |-> e] = [x \in names |-> e]
    OBVIOUS
  <2>. HIDE DEF e
  <2>3. [none |-> e] \in [names -> Seq(Byte)]
    <3>1. e \in Seq(Byte)
      BY <2>0 DEF e
    <3>. HIDE DEF names
    <3>2. [x \in names |-> e] \in [names -> Seq(Byte)]
      BY <3>1
    <3>. QED  BY <2>2, <3>2 DEF names
  <2>4. names \in SUBSET Names
    BY <2>1
  <2>. HIDE DEF names
  <2>5. [none |-> e] \in Gots
    BY <2>3, <2>4 DEF Gots
  <2>. QED  BY <2>5 DEF Cursors, Cursor, e
<1>3. ASSUME NEW c \in Cursors, NEW step \in Uints
      PROVE  Step(c, step) \in Cursors /\ Step(c, step) = G[c][step]
  BY ReadsOne DEF ReadInto
<1>. HIDE DEF f, start
<1>4. Feeds(Cursors, Uints, start, layout, G)
  <2>1. G \in [Cursors -> [Uints -> Cursors]]
    BY <1>3 DEF ReadInto
  <2>. QED  BY <1>2, <2>1 DEF Feeds
<1>. HIDE DEF G, Step
<1>5. PICK g : FoldOver(g, Cursors, Uints, start, layout, G)
  BY <1>4, FoldExists
<1>6. g = [P \in D |-> IF P = {} THEN start ELSE Step(g[P \ {Max(P)}], layout[Max(P)])]
  BY <1>3, <1>5 DEF FoldOver
<1>7. f = [P \in D |-> IF P = {} THEN start ELSE Step(f[P \ {Max(P)}], layout[Max(P)])]
  BY <1>6 DEF f
<1>8. f[{}] = start
  BY <1>7
<1>9. ASSUME NEW k \in DOMAIN layout, f[1 .. k - 1] \in Cursors
      PROVE  f[1 .. k] = G[f[1 .. k - 1]][layout[k]]
  <2>1. DOMAIN layout = 1 .. Len(layout) /\ Len(layout) \in Nat /\ layout[k] \in Uints
    BY LenProperties, ElementOfSeq
  <2>2. Max(1 .. k) = k /\ (1 .. k) \ {k} = 1 .. k - 1 /\ 1 .. k # {} /\ 1 .. k \in D
    BY <2>1, MaxOfRun
  <2>3. f[1 .. k] = Step(f[1 .. k - 1], layout[k])
    BY <1>7, <2>2
  <2>. QED  BY <1>3, <1>9, <2>1, <2>3
<1>10. f[DOMAIN layout] = AfterAll(Cursors, start, layout, G)
  BY <1>4, <1>8, <1>9, FoldIsAfter
<1>. QED  BY <1>1, <1>2, <1>4, <1>10 DEF start, G

\* A layout with one number more reads as it did, and then that number.
LEMMA OneMore ==
  ASSUME NEW buf \in Seq(Byte), NEW layout \in Seq(Uints), NEW step \in Uints,
         NEW c, c = Read(buf, 0, layout)
  PROVE  /\ c \in Cursors
         /\ c.ok /\ c.pos + step.n <= Len(buf) =>
              Read(buf, 0, Append(layout, step)) = After(buf, c, step)
<1>. DEFINE G == ReadInto(buf)
            more == Append(layout, step)
<1>1. more \in Seq(Uints)
  OBVIOUS
<1>2. /\ Feeds(Cursors, Uints, Cursor(0), layout, G)
      /\ c = AfterAll(Cursors, Cursor(0), layout, G)
      /\ Read(buf, 0, more) = AfterAll(Cursors, Cursor(0), more, G)
  BY <1>1, ReadIsAfter
<1>. HIDE DEF G
<1>3. c \in Cursors /\ Read(buf, 0, more) = G[c][step]
  BY <1>2, AfterMore
<1>4. Read(buf, 0, more) = ReadOne(buf, c, step)
  BY <1>3 DEF ReadInto, G
<1>. QED  BY <1>3, <1>4, ReadsOne

\* What a step that had its bytes left.
LEMMA AfterIs ==
  ASSUME NEW buf, NEW c, NEW step, NEW d, d = After(buf, c, step)
  PROVE  /\ d.ok /\ d.pos = c.pos + step.n
         /\ DOMAIN d.got = DOMAIN c.got \cup {step.as}
         /\ d.got[step.as] = Value(Slice(buf, c.pos, step.n))
         /\ \A x \in DOMAIN c.got : x # step.as => d.got[x] = c.got[x]
<1>. DEFINE v == Value(Slice(buf, c.pos, step.n))
<1>1. d.ok /\ d.pos = c.pos + step.n /\ d.got = Added(c.got, step.as, v)
  BY DEF After
<1>. HIDE DEF v
<1>2. /\ DOMAIN d.got = DOMAIN c.got \cup {step.as}
      /\ d.got[step.as] = v
      /\ \A x \in DOMAIN c.got : x # step.as => d.got[x] = c.got[x]
  <2>. DEFINE got == c.got
              as == step.as
              e == d.got
  <2>1. e = Added(got, as, v)
    BY <1>1
  <2>. HIDE DEF got, as, e
  <2>2. DOMAIN e = DOMAIN got \cup {as} /\ e[as] = v
        /\ \A x \in DOMAIN got : x # as => e[x] = got[x]
    BY <2>1, SMT DEF Added
  <2>. QED  BY <2>2 DEF got, as, e
<1>. QED  BY <1>1, <1>2 DEF v

LEMMA HeaderReads ==
  ASSUME NEW buf \in Seq(Byte), HeaderLen <= Len(buf)
  PROVE  LET h == HeaderOf(buf)[1]
         IN  /\ HeaderOf(buf) = Some(h)
             /\ h.type = Value(Slice(buf, 0, 4)) /\ h.trans = Value(Slice(buf, 4, 4))
             /\ h.flag = Value(Slice(buf, 8, 4)) /\ h.len = Value(Slice(buf, 12, 4))
             /\ h.len2 = Value(Slice(buf, 16, 4)) /\ h.hc = Value(Slice(buf, 20, 2))
<1>. DEFINE u1 == Uint("type", 4)
            u2 == Uint("trans", 4)
            u3 == Uint("flag", 4)
            u4 == Uint("len", 4)
            u5 == Uint("len2", 4)
            u6 == Uint("hc", 2)
            V(p, n) == Value(Slice(buf, p, n))
<1>0. Len(buf) \in Nat /\ 22 <= Len(buf)
  BY LenProperties DEF HeaderLen
<1>1. /\ u1 \in Uints /\ u2 \in Uints /\ u3 \in Uints
      /\ u4 \in Uints /\ u5 \in Uints /\ u6 \in Uints
  BY DEF Uints, Uint, Names
<1>2. /\ u1.n = 4 /\ u1.as = "type" /\ u2.n = 4 /\ u2.as = "trans" /\ u3.n = 4 /\ u3.as = "flag"
      /\ u4.n = 4 /\ u4.as = "len" /\ u5.n = 4 /\ u5.as = "len2" /\ u6.n = 2 /\ u6.as = "hc"
  BY DEF Uint
<1>3. HeaderLayout = <<u1, u2, u3, u4, u5, u6>>
  BY DEF HeaderLayout
<1>. HIDE DEF u1, u2, u3, u4, u5, u6, V
<1>. DEFINE l0 == <<>>
            l1 == Append(l0, u1)
            l2 == Append(l1, u2)
            l3 == Append(l2, u3)
            l4 == Append(l3, u4)
            l5 == Append(l4, u5)
            l6 == Append(l5, u6)
<1>4. /\ l0 \in Seq(Uints) /\ l1 \in Seq(Uints) /\ l2 \in Seq(Uints) /\ l3 \in Seq(Uints)
      /\ l4 \in Seq(Uints) /\ l5 \in Seq(Uints)
  BY <1>1
<1>5. HeaderLayout = l6
  BY <1>1, <1>3
<1>. HIDE DEF l0, l1, l2, l3, l4, l5, l6
<1>. DEFINE c0 == Read(buf, 0, l0)
            c1 == Read(buf, 0, l1)
            c2 == Read(buf, 0, l2)
            c3 == Read(buf, 0, l3)
            c4 == Read(buf, 0, l4)
            c5 == Read(buf, 0, l5)
            c6 == Read(buf, 0, l6)
<1>10. c0 = Cursor(0)
  BY <1>4, ReadIsAfter, AfterEmpty DEF l0
<1>11. c0.ok /\ c0.pos = 0 /\ DOMAIN c0.got = {"none"}
  BY <1>10 DEF Cursor
<1>12. c1 = After(buf, c0, u1)
  <2>1. c0.ok /\ c0.pos + u1.n <= Len(buf)
    BY <1>0, <1>2, <1>11, SMT
  <2>. QED  BY <1>1, <1>4, <2>1, OneMore DEF l1
<1>. HIDE DEF c0
<1>13. /\ c1.ok /\ c1.pos = 4 /\ DOMAIN c1.got = {"none", "type"}
       /\ c1.got["type"] = V(0, 4)
  <2>. DEFINE c == c0
              d == c1
  <2>1. d = After(buf, c, u1)
    BY <1>12
  <2>. HIDE DEF c, d
  <2>2. /\ d.ok /\ d.pos = c.pos + u1.n
        /\ DOMAIN d.got = DOMAIN c.got \cup {u1.as}
        /\ d.got[u1.as] = Value(Slice(buf, c.pos, u1.n))
        /\ \A x \in DOMAIN c.got : x # u1.as => d.got[x] = c.got[x]
    BY <2>1, AfterIs
  <2>. QED  BY <1>2, <1>11, <2>2, 0 + 4 = 4 DEF V, c, d
<1>14. c2 = After(buf, c1, u2)
  <2>1. c1.ok /\ c1.pos + u2.n <= Len(buf)
    <3>. HIDE DEF c1
    <3>. QED  BY <1>0, <1>2, <1>13, SMT
  <2>. QED  BY <1>1, <1>4, <2>1, OneMore DEF l2
<1>. HIDE DEF c1
<1>15. /\ c2.ok /\ c2.pos = 8 /\ DOMAIN c2.got = {"none", "type", "trans"}
       /\ c2.got["type"] = V(0, 4) /\ c2.got["trans"] = V(4, 4)
  <2>. DEFINE c == c1
              d == c2
  <2>1. d = After(buf, c, u2)
    BY <1>14
  <2>. HIDE DEF c, d
  <2>2. /\ d.ok /\ d.pos = c.pos + u2.n
        /\ DOMAIN d.got = DOMAIN c.got \cup {u2.as}
        /\ d.got[u2.as] = Value(Slice(buf, c.pos, u2.n))
        /\ \A x \in DOMAIN c.got : x # u2.as => d.got[x] = c.got[x]
    BY <2>1, AfterIs
  <2>. QED  BY <1>2, <1>13, <2>2, 4 + 4 = 8 DEF V, c, d
<1>16. c3 = After(buf, c2, u3)
  <2>1. c2.ok /\ c2.pos + u3.n <= Len(buf)
    <3>. HIDE DEF c2
    <3>. QED  BY <1>0, <1>2, <1>15, SMT
  <2>. QED  BY <1>1, <1>4, <2>1, OneMore DEF l3
<1>. HIDE DEF c2
<1>17. /\ c3.ok /\ c3.pos = 12 /\ DOMAIN c3.got = {"none", "type", "trans", "flag"}
       /\ c3.got["type"] = V(0, 4) /\ c3.got["trans"] = V(4, 4) /\ c3.got["flag"] = V(8, 4)
  <2>. DEFINE c == c2
              d == c3
  <2>1. d = After(buf, c, u3)
    BY <1>16
  <2>. HIDE DEF c, d
  <2>2. /\ d.ok /\ d.pos = c.pos + u3.n
        /\ DOMAIN d.got = DOMAIN c.got \cup {u3.as}
        /\ d.got[u3.as] = Value(Slice(buf, c.pos, u3.n))
        /\ \A x \in DOMAIN c.got : x # u3.as => d.got[x] = c.got[x]
    BY <2>1, AfterIs
  <2>. QED  BY <1>2, <1>15, <2>2, 8 + 4 = 12 DEF V, c, d
<1>18. c4 = After(buf, c3, u4)
  <2>1. c3.ok /\ c3.pos + u4.n <= Len(buf)
    <3>. HIDE DEF c3
    <3>. QED  BY <1>0, <1>2, <1>17, SMT
  <2>. QED  BY <1>1, <1>4, <2>1, OneMore DEF l4
<1>. HIDE DEF c3
<1>19. /\ c4.ok /\ c4.pos = 16 /\ DOMAIN c4.got = {"none", "type", "trans", "flag", "len"}
       /\ c4.got["type"] = V(0, 4) /\ c4.got["trans"] = V(4, 4) /\ c4.got["flag"] = V(8, 4)
       /\ c4.got["len"] = V(12, 4)
  <2>. DEFINE c == c3
              d == c4
  <2>1. d = After(buf, c, u4)
    BY <1>18
  <2>. HIDE DEF c, d
  <2>2. /\ d.ok /\ d.pos = c.pos + u4.n
        /\ DOMAIN d.got = DOMAIN c.got \cup {u4.as}
        /\ d.got[u4.as] = Value(Slice(buf, c.pos, u4.n))
        /\ \A x \in DOMAIN c.got : x # u4.as => d.got[x] = c.got[x]
    BY <2>1, AfterIs
  <2>. QED  BY <1>2, <1>17, <2>2, 12 + 4 = 16 DEF V, c, d
<1>20. c5 = After(buf, c4, u5)
  <2>1. c4.ok /\ c4.pos + u5.n <= Len(buf)
    <3>. HIDE DEF c4
    <3>. QED  BY <1>0, <1>2, <1>19, SMT
  <2>. QED  BY <1>1, <1>4, <2>1, OneMore DEF l5
<1>. HIDE DEF c4
<1>21. /\ c5.ok /\ c5.pos = 20 /\ DOMAIN c5.got = {"none", "type", "trans", "flag", "len", "len2"}
       /\ c5.got["type"] = V(0, 4) /\ c5.got["trans"] = V(4, 4) /\ c5.got["flag"] = V(8, 4)
       /\ c5.got["len"] = V(12, 4) /\ c5.got["len2"] = V(16, 4)
  <2>. DEFINE c == c4
              d == c5
  <2>1. d = After(buf, c, u5)
    BY <1>20
  <2>. HIDE DEF c, d
  <2>2. /\ d.ok /\ d.pos = c.pos + u5.n
        /\ DOMAIN d.got = DOMAIN c.got \cup {u5.as}
        /\ d.got[u5.as] = Value(Slice(buf, c.pos, u5.n))
        /\ \A x \in DOMAIN c.got : x # u5.as => d.got[x] = c.got[x]
    BY <2>1, AfterIs
  <2>. QED  BY <1>2, <1>19, <2>2, 16 + 4 = 20 DEF V, c, d
<1>22. c6 = After(buf, c5, u6)
  <2>1. c5.ok /\ c5.pos + u6.n <= Len(buf)
    <3>. HIDE DEF c5
    <3>. QED  BY <1>0, <1>2, <1>21, SMT
  <2>. QED  BY <1>1, <1>4, <2>1, OneMore DEF l6
<1>. HIDE DEF c5
<1>23. /\ c6.ok
       /\ c6.got["type"] = V(0, 4) /\ c6.got["trans"] = V(4, 4) /\ c6.got["flag"] = V(8, 4)
       /\ c6.got["len"] = V(12, 4) /\ c6.got["len2"] = V(16, 4) /\ c6.got["hc"] = V(20, 2)
  <2>. DEFINE c == c5
              d == c6
  <2>1. d = After(buf, c, u6)
    BY <1>22
  <2>. HIDE DEF c, d
  <2>2. /\ d.ok /\ d.pos = c.pos + u6.n
        /\ DOMAIN d.got = DOMAIN c.got \cup {u6.as}
        /\ d.got[u6.as] = Value(Slice(buf, c.pos, u6.n))
        /\ \A x \in DOMAIN c.got : x # u6.as => d.got[x] = c.got[x]
    BY <2>1, AfterIs
  <2>. QED  BY <1>2, <1>21, <2>2 DEF V, c, d
<1>24. HeaderOf(buf) = Some(c6.got)
  BY <1>5, <1>23 DEF HeaderOf, ReadAll, GotAll
<1>25. HeaderOf(buf)[1] = c6.got
  BY <1>24 DEF Some
<1>. HIDE DEF c6
<1>. QED  BY <1>23, <1>24, <1>25 DEF V

----------------------------------------------------------------------------
(* A whole message.                                                         *)

\* What pack_message() is given: fields of any bytes, and three numbers of 32
\* bits.
AnyFields == [tag : TwoDigits, data : Seq(Byte)]
Words == {n \in Seq(Byte) : Number(n) /\ Len(n) <= 4}

\* What it makes of them, if it makes a message, is a header and the fields.
LEMMA PackedIs ==
  ASSUME NEW fields \in Seq(AnyFields), NEW room \in Nat, NEW type \in Words,
         NEW trans \in Words, NEW flag \in Words,
         PackMessage(room, type, trans, flag, fields) # None
  PROVE  LET hdr == PackHeader(type, trans, flag, Len(fields), Len(PutChunks(fields)))
             m == PackMessage(room, type, trans, flag, fields)[1]
             end == Num(Len(PutChunks(fields)) + 2)
         IN  /\ fields \in Seq(Fields)
             /\ m = hdr \o PutChunks(fields) /\ hdr \in Seq(Byte) /\ Len(hdr) = HeaderLen
             /\ PackMessage(room, type, trans, flag, fields) = Some(m)
             /\ m \in Seq(Byte) /\ Len(m) = PackMessageSize(fields) /\ Len(m) <= room
             /\ Slice(m, 0, 4) = Wide(type, 4) /\ Slice(m, 4, 4) = Wide(trans, 4)
             /\ Slice(m, 8, 4) = Wide(flag, 4) /\ Slice(m, 12, 4) = Wide(end, 4)
             /\ Slice(m, 16, 4) = Wide(end, 4) /\ Slice(m, 20, 2) = Wide(Num(Len(fields)), 2)
             /\ Len(fields) <= MaxPackChunks /\ Number(end) /\ Len(end) <= 4
             /\ Size(end) = Len(PutChunks(fields)) + 2
<1>. DEFINE needed == PackMessageSize(fields)
            body == PutChunks(fields)
            packed == PackMessage(room, type, trans, flag, fields)
            n == Len(body) + 2
            end == Num(n)
            hdr == PackHeader(type, trans, flag, Len(fields), Len(body))
            m == hdr \o body
<1>1. /\ ~(Len(fields) > MaxPackChunks) /\ ~(room < needed)
      /\ ~(\E i \in DOMAIN fields : Len(fields[i].data) > MaxField)
      /\ packed = Some(PackHeader(type, trans, flag, Len(fields), needed - HeaderLen) \o body)
  BY Zenon DEF PackMessage
<1>2. fields \in Seq(Fields)
  <2>1. Len(fields) \in Nat /\ DOMAIN fields = 1 .. Len(fields)
        /\ \A i \in 1 .. Len(fields) : fields[i] \in AnyFields
    BY LenProperties, ElementOfSeq
  <2>2. ASSUME NEW i \in 1 .. Len(fields) PROVE fields[i] \in Fields
    <3>. DEFINE d == fields[i].data
    <3>1. d \in Seq(Byte) /\ fields[i] = [tag |-> fields[i].tag, data |-> d]
          /\ fields[i].tag \in TwoDigits
      BY <2>1 DEF AnyFields
    <3>2. ~(Len(d) > MaxField) /\ Len(d) \in Nat
      BY <1>1, <2>1, <3>1, LenProperties
    <3>3. Len(d) \in TwoDigits
      <4>. HIDE DEF d
      <4>. QED  BY <3>2, MaxFieldAssumption, SMT DEF TwoDigits
    <3>. HIDE DEF d
    <3>. QED  BY <3>1, <3>3 DEF Fields
  <2>3. fields = [i \in 1 .. Len(fields) |-> fields[i]]
    BY <2>1, LenProperties
  <2>. QED  BY <2>1, <2>2, <2>3
<1>3. /\ Len(body) \in Nat /\ needed = HeaderLen + Len(body) /\ body \in Seq(Byte)
      /\ Len(body) <= LongestField * Len(fields) /\ Len(fields) \in Nat
  BY <1>2, SizeIsLength, PutChunksAre, LenProperties
<1>. HIDE DEF needed, body
<1>4. needed - HeaderLen = Len(body) /\ Len(fields) <= 64 /\ needed <= room
  BY <1>1, <1>3, SMT DEF HeaderLen, MaxPackChunks, needed
<1>5. n \in ThreeDigits /\ Len(fields) \in TwoDigits
  <2>1. Len(body) <= 65539 * 64
    BY <1>3, <1>4, SMT DEF LongestField
  <2>. QED  BY <1>3, <1>4, <2>1, SMT DEF ThreeDigits, TwoDigits
<1>. HIDE DEF n
<1>6. /\ Number(end) /\ Len(end) <= 4 /\ Size(end) = n
      /\ Number(Num(Len(fields))) /\ Len(Num(Len(fields))) <= 2
  BY <1>5, NumIs
<1>. HIDE DEF end
<1>. DEFINE a == Wide(type, 4)
            b == Wide(trans, 4)
            c == Wide(flag, 4)
            e == Wide(end, 4)
            f == Wide(Num(Len(fields)), 2)
<1>7. /\ a \in Seq(Byte) /\ Len(a) = 4 /\ b \in Seq(Byte) /\ Len(b) = 4
      /\ c \in Seq(Byte) /\ Len(c) = 4 /\ e \in Seq(Byte) /\ Len(e) = 4
      /\ f \in Seq(Byte) /\ Len(f) = 2
  <2>1. /\ Number(type) /\ Len(type) <= 4 /\ Number(trans) /\ Len(trans) <= 4
        /\ Number(flag) /\ Len(flag) <= 4
    BY DEF Words
  <2>2. \A k, w : Number(k) /\ w \in Nat /\ Len(k) <= w =>
                    Wide(k, w) \in Seq(Byte) /\ Len(Wide(k, w)) = w
    BY ValueOfWide
  <2>. QED  BY <1>6, <2>1, <2>2
<1>8. hdr = a \o b \o c \o e \o e \o f
  BY DEF PackHeader, n, end
<1>. HIDE DEF a, b, c, e, f, hdr
<1>9. /\ hdr \in Seq(Byte) /\ Len(hdr) = 22
      /\ m \in Seq(Byte) /\ Len(m) = 22 + Len(body)
      /\ Slice(m, 0, 4) = a /\ Slice(m, 4, 4) = b /\ Slice(m, 8, 4) = c
      /\ Slice(m, 12, 4) = e /\ Slice(m, 16, 4) = e /\ Slice(m, 20, 2) = f
  BY <1>3, <1>7, <1>8, SixRead
<1>10. packed = Some(m)
  BY <1>1, <1>4 DEF hdr
<1>11. Len(m) = needed /\ Len(m) <= room
  BY <1>3, <1>4, <1>9 DEF HeaderLen
<1>. HIDE DEF m
<1>12. packed[1] = m
  BY <1>10 DEF Some
<1>13. Len(hdr) = HeaderLen /\ Len(fields) <= MaxPackChunks
  BY <1>4, <1>9 DEF HeaderLen, MaxPackChunks
<1>. HIDE DEF packed
<1>. QED  BY <1>2, <1>6, <1>9, <1>10, <1>11, <1>12, <1>13
          DEF m, hdr, a, b, c, e, f, end, n, body, needed, packed

\* A message reads back as what it was packed of: its fields one by one, its
\* type, transaction and flag, and a length that is the message's own, which is
\* what pack_message_size() said and no more than there was room for.
THEOREM PackedReadsBack ==
  ASSUME NEW fields \in Seq(AnyFields), NEW room \in Nat, NEW type \in Words,
         NEW trans \in Words, NEW flag \in Words,
         PackMessage(room, type, trans, flag, fields) # None
  PROVE  LET m == PackMessage(room, type, trans, flag, fields)[1]
             h == HeaderOf(m)[1]
         IN  /\ PackMessage(room, type, trans, flag, fields) = Some(m)
             /\ Chunks(m) = fields
             /\ Len(m) = PackMessageSize(fields) /\ Len(m) <= room
             /\ HeaderOf(m) = Some(h)
             /\ h.type = type /\ h.trans = trans /\ h.flag = flag
             /\ Size(h.hc) = Len(fields)
             /\ \A most \in Nat :
                  Len(m) - HeaderLen + 2 <= most => HeaderLen + BodyLen(h, most) = Len(m)
<1>. DEFINE body == PutChunks(fields)
            hdr == PackHeader(type, trans, flag, Len(fields), Len(body))
            packed == PackMessage(room, type, trans, flag, fields)
            m == packed[1]
            end == Num(Len(body) + 2)
            hc == Num(Len(fields))
            h == HeaderOf(m)[1]
<1>1. /\ fields \in Seq(Fields)
      /\ m = hdr \o body /\ hdr \in Seq(Byte) /\ Len(hdr) = HeaderLen
      /\ packed = Some(m)
      /\ m \in Seq(Byte) /\ Len(m) = PackMessageSize(fields) /\ Len(m) <= room
      /\ Slice(m, 0, 4) = Wide(type, 4) /\ Slice(m, 4, 4) = Wide(trans, 4)
      /\ Slice(m, 8, 4) = Wide(flag, 4) /\ Slice(m, 12, 4) = Wide(end, 4)
      /\ Slice(m, 16, 4) = Wide(end, 4) /\ Slice(m, 20, 2) = Wide(hc, 2)
      /\ Len(fields) <= MaxPackChunks /\ Number(end) /\ Len(end) <= 4
      /\ Size(end) = Len(body) + 2
  BY PackedIs
<1>2. /\ body \in Seq(Byte) /\ Len(body) \in Nat /\ Len(fields) \in Nat
      /\ PackMessageSize(fields) = HeaderLen + Len(body)
  BY <1>1, PutChunksAre, SizeIsLength, LenProperties
<1>3. Chunks(m) = fields
  <2>1. ChunksAt(hdr \o body \o <<>>, Len(hdr)) = fields
    <3>. HIDE DEF hdr
    <3>. QED  BY <1>1, AllRead, EmptySeq
  <2>2. (hdr \o body) \o <<>> = m
    <3>. HIDE DEF hdr, body, m
    <3>. QED  BY <1>1, ConcatEmptySeq
  <2>. QED  BY <1>1, <2>1, <2>2 DEF Chunks
<1>4. HeaderLen <= Len(m)
  <2>. HIDE DEF m, body
  <2>. QED  BY <1>1, <1>2, SMT DEF HeaderLen
<1>5. /\ HeaderOf(m) = Some(h)
      /\ h.type = Value(Slice(m, 0, 4)) /\ h.trans = Value(Slice(m, 4, 4))
      /\ h.flag = Value(Slice(m, 8, 4)) /\ h.len = Value(Slice(m, 12, 4))
      /\ h.len2 = Value(Slice(m, 16, 4)) /\ h.hc = Value(Slice(m, 20, 2))
  <2>. HIDE DEF m
  <2>. QED  BY <1>1, <1>4, HeaderReads
<1>6. /\ Number(hc) /\ Len(hc) <= 2 /\ Size(hc) = Len(fields)
  <2>1. Len(fields) \in TwoDigits
    BY <1>1, <1>2, SMT DEF TwoDigits, MaxPackChunks
  <2>. QED  BY <2>1, NumIs
<1>. HIDE DEF hdr, body, packed, m, end, hc, h
<1>7. /\ Value(Wide(type, 4)) = type /\ Value(Wide(trans, 4)) = trans
      /\ Value(Wide(flag, 4)) = flag
  <2>1. /\ Number(type) /\ Len(type) <= 4 /\ Number(trans) /\ Len(trans) <= 4
        /\ Number(flag) /\ Len(flag) <= 4
    BY DEF Words
  <2>. QED  BY <2>1, ValueOfWide
<1>8. Value(Wide(end, 4)) = end /\ Value(Wide(hc, 2)) = hc
  BY <1>1, <1>6, ValueOfWide
<1>9. h.len2 = end /\ h.hc = hc
  BY <1>1, <1>5, <1>8
<1>10. ASSUME NEW most \in Nat, Len(m) - HeaderLen + 2 <= most
       PROVE  HeaderLen + BodyLen(h, most) = Len(m)
  <2>1. BodyLen(h, most) = Most(Least(Len(body) + 2, most) - 2, 0)
    BY <1>1, <1>9 DEF BodyLen
  <2>2. Len(body) + 2 <= most
    BY <1>1, <1>2, <1>10, SMT DEF HeaderLen
  <2>3. Most(Least(Len(body) + 2, most) - 2, 0) = Len(body)
    BY <1>2, <2>2, SMT DEF Most, Least
  <2>. QED  BY <1>1, <1>2, <2>1, <2>3
<1>. QED  BY <1>1, <1>3, <1>5, <1>6, <1>7, <1>9, <1>10 DEF packed, m, h

\* A message that lost its end reads as the fields that are all there: of the
\* first n bytes, the first k fields, where the message of those k is no longer
\* than n bytes and the one of k + 1 is longer.
THEOREM CutReadsWholeFields ==
  ASSUME NEW fields \in Seq(AnyFields), NEW room \in Nat, NEW type \in Words,
         NEW trans \in Words, NEW flag \in Words,
         PackMessage(room, type, trans, flag, fields) # None,
         NEW n \in 0 .. PackMessageSize(fields)
  PROVE  \E k \in 0 .. Len(fields) :
           /\ Chunks(Cut(PackMessage(room, type, trans, flag, fields)[1], n)) =
                SubSeq(fields, 1, k)
           /\ k = 0 \/ PackMessageSize(SubSeq(fields, 1, k)) <= n
           /\ k < Len(fields) => n < PackMessageSize(SubSeq(fields, 1, k + 1))
<1>. DEFINE body == PutChunks(fields)
            hdr == PackHeader(type, trans, flag, Len(fields), Len(body))
            packed == PackMessage(room, type, trans, flag, fields)
            m == packed[1]
            end == Num(Len(body) + 2)
            cut == SubSeq(m, 1, n)
            Long(k) == PackMessageSize(SubSeq(fields, 1, k))
<1>1. /\ fields \in Seq(Fields)
      /\ m = hdr \o body /\ hdr \in Seq(Byte) /\ Len(hdr) = HeaderLen
      /\ packed = Some(m)
      /\ m \in Seq(Byte) /\ Len(m) = PackMessageSize(fields) /\ Len(m) <= room
      /\ Slice(m, 0, 4) = Wide(type, 4) /\ Slice(m, 4, 4) = Wide(trans, 4)
      /\ Slice(m, 8, 4) = Wide(flag, 4) /\ Slice(m, 12, 4) = Wide(end, 4)
      /\ Slice(m, 16, 4) = Wide(end, 4) /\ Slice(m, 20, 2) = Wide(Num(Len(fields)), 2)
      /\ Len(fields) <= MaxPackChunks /\ Number(end) /\ Len(end) <= 4
      /\ Size(end) = Len(body) + 2
  BY PackedIs
<1>2. /\ body \in Seq(Byte) /\ Len(body) \in Nat /\ Len(fields) \in Nat
      /\ PackMessageSize(fields) = HeaderLen + Len(body)
  BY <1>1, PutChunksAre, SizeIsLength, LenProperties
<1>3. ASSUME NEW k \in 0 .. Len(fields)
      PROVE  Long(k) = HeaderLen + Len(PutChunks(SubSeq(fields, 1, k)))
             /\ Len(PutChunks(SubSeq(fields, 1, k))) \in Nat
  <2>1. SubSeq(fields, 1, k) \in Seq(Fields)
    BY <1>1, PrefixIs
  <2>. QED  BY <2>1, SizeIsLength
<1>. HIDE DEF hdr, packed, m, end, Long
<1>4. n \in Nat /\ Len(m) \in Nat /\ n <= Len(m) /\ n \in 0 .. Len(m) /\ n <= HeaderLen + Len(body)
  <2>. HIDE DEF body
  <2>. QED  BY <1>1, <1>2, SMT DEF HeaderLen
<1>5. cut \in Seq(Byte) /\ Len(cut) = n
  BY <1>1, <1>4, PrefixIs
<1>6. Cut(m, n) = cut
  <2>1. Least(n, Len(m)) = n
    <3>. HIDE DEF m
    <3>. QED  BY <1>4, SMT DEF Least
  <2>. QED  BY <2>1 DEF Cut
<1>7. CASE n < HeaderLen
  <2>1. Least(HeaderLen, Len(cut)) = n /\ Least(n, Len(cut)) = n
    BY <1>4, <1>5, <1>7, SMT DEF Least, HeaderLen
  <2>2. ChunksAt(cut, HeaderLen) = ChunksAt(cut, n)
    <3>. HIDE DEF cut
    <3>. QED  BY <2>1, Zenon DEF ChunksAt
  <2>3. n \in 0 .. Len(cut) /\ Ends(cut, n)
    <3>1. n + 4 > n
      BY <1>4, SMT
    <3>. HIDE DEF cut
    <3>. QED  BY <1>4, <1>5, <3>1 DEF Ends
  <2>4. Chunks(cut) = <<>>
    <3>. HIDE DEF cut
    <3>. QED  BY <1>5, <2>2, <2>3, ChunksStep DEF Chunks
  <2>5. SubSeq(fields, 1, 0) = <<>> /\ 0 \in 0 .. Len(fields)
    BY <1>1, <1>2, PrefixesOf, SMT
  <2>6. 0 < Len(fields) => n < Long(0 + 1)
    <3>. SUFFICES ASSUME 0 < Len(fields) PROVE n < Long(1)
      BY 0 + 1 = 1
    <3>1. 1 \in 0 .. Len(fields)
      BY <1>2, SMT
    <3>2. Long(1) = HeaderLen + Len(PutChunks(SubSeq(fields, 1, 1)))
          /\ Len(PutChunks(SubSeq(fields, 1, 1))) \in Nat
      BY <1>3, <3>1
    <3>. DEFINE l == Len(PutChunks(SubSeq(fields, 1, 1)))
    <3>. HIDE DEF l
    <3>3. l \in Nat /\ Long(1) = HeaderLen + l
      BY <3>2 DEF l
    <3>. QED  BY <1>4, <1>7, <3>3, SMT DEF HeaderLen
  <2>. QED  BY <1>6, <2>4, <2>5, <2>6 DEF packed, m, Long
<1>8. CASE ~(n < HeaderLen)
  <2>. DEFINE j == n - HeaderLen
  <2>1. j \in 0 .. Len(body) /\ HeaderLen + j = n
    <3>. HIDE DEF body
    <3>. QED  BY <1>2, <1>4, <1>8, SMT DEF HeaderLen
  <2>. HIDE DEF j
  <2>2. PICK k : CutReads(fields, j, k)
    BY <1>1, <2>1, SomeRead
  <2>3. cut = hdr \o SubSeq(body, 1, j)
    <3>. HIDE DEF body
    <3>1. BeginsAs(hdr, body, j)
      BY <1>1, <1>2, <2>1, PrefixOfBoth
    <3>. QED  BY <1>1, <2>1, <3>1 DEF BeginsAs
  <2>4. Chunks(cut) = SubSeq(fields, 1, k) /\ k \in 0 .. Len(fields)
    <3>1. ChunksAt(hdr \o SubSeq(body, 1, j), Len(hdr)) = SubSeq(fields, 1, k)
      BY <1>1, <2>2 DEF CutReads
    <3>. HIDE DEF cut
    <3>. QED  BY <1>1, <2>2, <2>3, <3>1 DEF Chunks, CutReads, WholeIn
  <2>5. Long(k) <= n
    <3>. DEFINE l == Len(PutChunks(SubSeq(fields, 1, k)))
    <3>1. l \in Nat /\ l <= j /\ Long(k) = HeaderLen + l
      BY <1>3, <2>2, <2>4 DEF CutReads, WholeIn
    <3>. HIDE DEF l
    <3>. QED  BY <1>4, <2>1, <3>1, SMT DEF HeaderLen
  <2>6. k < Len(fields) => n < Long(k + 1)
    <3>. SUFFICES ASSUME k < Len(fields) PROVE n < Long(k + 1)
      OBVIOUS
    <3>. DEFINE l == Len(PutChunks(SubSeq(fields, 1, k + 1)))
    <3>0. k + 1 \in 0 .. Len(fields)
      BY <1>2, <2>4, SMT
    <3>1. l \in Nat /\ j < l /\ Long(k + 1) = HeaderLen + l
      BY <1>3, <2>2, <3>0 DEF CutReads, WholeIn
    <3>. HIDE DEF l
    <3>. QED  BY <1>4, <2>1, <3>1, SMT DEF HeaderLen
  <2>. QED  BY <1>6, <2>4, <2>5, <2>6 DEF packed, m, Long
<1>. QED  BY <1>7, <1>8

----------------------------------------------------------------------------
(* Any bytes at all.                                                        *)

\* The bytes of some fields: the first one's, then those of the ones behind it.
LEMMA PutChunksFirst ==
  ASSUME NEW f \in Fields, NEW fs \in Seq(Fields)
  PROVE  PutChunks(<<f>> \o fs) = PutChunk(f) \o PutChunks(fs)
<1>. DEFINE one == <<f>>
            T == {s \in Seq(Fields) : PutChunks(one \o s) = PutChunk(f) \o PutChunks(s)}
<1>1. one \in Seq(Fields) /\ one = Append(<<>>, f) /\ <<>> \in Seq(Fields)
  OBVIOUS
<1>2. PutChunk(f) \in Seq(Byte)
  BY PutChunkIs
<1>3. PutChunks(one) = PutChunk(f)
  <2>1. PutChunks(Append(<<>>, f)) = PutChunks(<<>>) \o PutChunk(f) /\ PutChunks(<<>>) = <<>>
    BY <1>1, PutChunksStep
  <2>2. <<>> \o PutChunk(f) = PutChunk(f)
    BY <1>2, ConcatEmptySeq
  <2>. QED  BY <1>1, <2>1, <2>2
<1>. HIDE DEF one
<1>4. <<>> \in T
  <2>1. one \o <<>> = one
    BY <1>1, ConcatEmptySeq
  <2>2. PutChunk(f) \o <<>> = PutChunk(f)
    BY <1>2, ConcatEmptySeq
  <2>3. PutChunks(<<>>) = <<>>
    BY PutChunksStep
  <2>. QED  BY <1>1, <1>3, <2>1, <2>2, <2>3
<1>5. ASSUME NEW s \in Seq(Fields), NEW g \in Fields, s \in T
      PROVE  Append(s, g) \in T
  <2>. DEFINE x == PutChunk(f)
              y == PutChunks(s)
              z == PutChunk(g)
  <2>1. one \o Append(s, g) = Append(one \o s, g) /\ one \o s \in Seq(Fields)
    BY <1>1, ConcatAppend
  <2>2. PutChunks(Append(one \o s, g)) = PutChunks(one \o s) \o z
    BY <2>1, PutChunksStep
  <2>3. PutChunks(one \o s) = x \o y
    BY <1>5
  <2>4. x \in Seq(Byte) /\ y \in Seq(Byte) /\ z \in Seq(Byte) /\ PutChunks(Append(s, g)) = y \o z
    BY <1>2, PutChunksAre, PutChunkIs, PutChunksStep
  <2>. HIDE DEF x, y, z
  <2>5. (x \o y) \o z = x \o (y \o z)
    BY <2>4, BytesAssociate
  <2>6. Append(s, g) \in Seq(Fields)
    OBVIOUS
  <2>. QED  BY <2>1, <2>2, <2>3, <2>4, <2>5, <2>6 DEF x
<1>6. fs \in T
  <2>. HIDE DEF T
  <2>. QED  BY <1>4, <1>5, SeqInduct
<1>. QED  BY <1>6 DEF one

\* A field read of any bytes is made of the very bytes that it was read from.
LEMMA FieldIsThere ==
  ASSUME NEW buf \in Seq(Byte), NEW p \in 0 .. Len(buf), ~Ends(buf, p)
  PROVE  PutChunk(FieldAt(buf, p)) = SubSeq(buf, p + 1, Behind(buf, p))
<1>. DEFINE f == FieldAt(buf, p)
            n == U16At(buf, p + 2)
            h == HeadOf(f)
            data == Slice(buf, p + 4, n)
            c == PutChunk(f)
            s == SubSeq(buf, p + 1, Behind(buf, p))
<1>1. Len(buf) \in Nat /\ \A i \in 1 .. Len(buf) : buf[i] \in Byte
  BY LenProperties, ElementOfSeq
<1>2. p + 4 <= Len(buf) /\ n \in 0 .. Len(buf) - (p + 4)
  BY HeadIsThere
<1>3. f \in Fields /\ f = [tag |-> U16At(buf, p), data |-> data]
  BY FieldsAre DEF FieldAt, Field
<1>4. f.tag = U16At(buf, p) /\ f.data = data
  BY <1>3
<1>5. Behind(buf, p) = p + 4 + n
  BY DEF Behind
<1>6. /\ c = h \o f.data /\ h \in Seq(Byte) /\ Len(h) = 4 /\ f.data \in Seq(Byte)
      /\ c \in Seq(Byte) /\ Len(c) = 4 + Len(f.data)
      /\ h[1] \in Byte /\ h[2] \in Byte /\ 256 * h[1] + h[2] = f.tag
      /\ h[3] \in Byte /\ h[4] \in Byte /\ 256 * h[3] + h[4] = Len(f.data)
  BY <1>3, PutChunkIs
<1>. HIDE DEF f, n, h, c
<1>7. Len(data) = n /\ n \in Nat
  <2>1. p + 4 \in Nat /\ n \in Nat /\ (p + 4) + n <= Len(buf)
    BY <1>1, <1>2, SMT
  <2>. QED  BY <2>1, SliceIs
<1>8. \A i \in 1 .. 4 : h[i] = buf[p + i]
  <2>1. /\ p + 1 \in 1 .. Len(buf) /\ p + 2 \in 1 .. Len(buf) /\ p + 3 \in 1 .. Len(buf)
        /\ p + 4 \in 1 .. Len(buf) /\ (p + 2) + 1 = p + 3 /\ (p + 2) + 2 = p + 4
    BY <1>1, <1>2, SMT
  <2>2. 256 * h[1] + h[2] = 256 * buf[p + 1] + buf[p + 2]
    BY <1>4, <1>6 DEF U16At
  <2>3. 256 * h[3] + h[4] = 256 * buf[p + 3] + buf[p + 4]
    <3>1. n = 256 * buf[p + 3] + buf[p + 4]
      BY <2>1 DEF U16At, n
    <3>. QED  BY <1>4, <1>6, <1>7, <3>1
  <2>3a. ASSUME NEW a \in Byte, NEW b \in Byte, NEW d \in Byte, NEW e \in Byte,
                256 * a + b = 256 * d + e
         PROVE  a = d /\ b = e
    <3>1. /\ a \in Nat /\ a < 256 /\ b \in Nat /\ b < 256
          /\ d \in Nat /\ d < 256 /\ e \in Nat /\ e < 256
      BY BytesAre
    <3>. QED  BY <2>3a, <3>1, SMT
  <2>4. buf[p + 1] \in Byte /\ buf[p + 2] \in Byte /\ buf[p + 3] \in Byte /\ buf[p + 4] \in Byte
    BY <1>1, <2>1
  <2>5. h[1] = buf[p + 1] /\ h[2] = buf[p + 2]
    BY <1>6, <2>2, <2>3a, <2>4
  <2>6. h[3] = buf[p + 3] /\ h[4] = buf[p + 4]
    BY <1>6, <2>3, <2>3a, <2>4
  <2>7. \A i \in 1 .. 4 : i = 1 \/ i = 2 \/ i = 3 \/ i = 4
    BY SMT
  <2>. QED  BY <2>5, <2>6, <2>7
<1>9. \A i \in 1 .. n : data[i] = buf[p + (4 + i)]
  <2>. DEFINE a == (p + 4) + 1
              z == (p + 4) + n
  <2>1. /\ a \in Int /\ z \in Int /\ \A i \in a .. z : i \in 1 .. Len(buf)
        /\ z - a + 1 = n /\ \A i \in 1 .. n : a + i - 1 = p + (4 + i)
    BY <1>1, <1>2, <1>7, SMT
  <2>2. \A i \in a .. z : buf[i] \in Byte
    BY <1>1, <2>1
  <2>. HIDE DEF a, z
  <2>3. \A i \in 1 .. z - a + 1 : SubSeq(buf, a, z)[i] = buf[a + i - 1]
    BY <2>1, <2>2, SubSeqProperties
  <2>. QED  BY <2>1, <2>3 DEF Slice, a, z
<1>. HIDE DEF data
<1>10. Len(c) = 4 + n /\ \A i \in 1 .. 4 + n : c[i] = buf[p + i]
  <2>1. \A i \in 1 .. Len(h) + Len(data) : (h \o data)[i] = IF i <= Len(h) THEN h[i]
                                                            ELSE data[i - Len(h)]
    BY <1>4, <1>6, ConcatProperties
  <2>2. \A i \in 1 .. 4 + n : c[i] = IF i <= 4 THEN h[i] ELSE data[i - 4]
    BY <1>4, <1>6, <1>7, <2>1
  <2>3. \A i \in 1 .. 4 + n : IF i <= 4 THEN i \in 1 .. 4
                              ELSE i - 4 \in 1 .. n /\ 4 + (i - 4) = i
    BY <1>7, SMT
  <2>. QED  BY <1>4, <1>6, <1>7, <1>8, <1>9, <2>2, <2>3
<1>11. s \in Seq(Byte) /\ Len(s) = 4 + n /\ \A i \in 1 .. 4 + n : s[i] = buf[p + i]
  <2>. DEFINE a == p + 1
              z == p + 4 + n
  <2>1. /\ a \in Int /\ z \in Int /\ \A i \in a .. z : i \in 1 .. Len(buf)
        /\ z - a + 1 = 4 + n /\ a <= z /\ \A i \in 1 .. 4 + n : a + i - 1 = p + i
    BY <1>1, <1>2, <1>7, SMT
  <2>2. \A i \in a .. z : buf[i] \in Byte
    BY <1>1, <2>1
  <2>. HIDE DEF a, z
  <2>3. /\ SubSeq(buf, a, z) \in Seq(Byte)
        /\ Len(SubSeq(buf, a, z)) = IF a <= z THEN z - a + 1 ELSE 0
        /\ \A i \in 1 .. z - a + 1 : SubSeq(buf, a, z)[i] = buf[a + i - 1]
    BY <2>1, <2>2, SubSeqProperties
  <2>4. s = SubSeq(buf, a, z)
    BY <1>5 DEF a, z
  <2>. HIDE DEF s
  <2>. QED  BY <2>1, <2>3, <2>4
<1>. HIDE DEF s
<1>12. c = s
  <2>1. Len(c) = Len(s) /\ \A i \in 1 .. Len(c) : c[i] = s[i]
    BY <1>10, <1>11
  <2>. QED  BY <1>6, <1>11, <2>1, SeqEqual
<1>. QED  BY <1>12 DEF c, f, s

\* From where reading begins to where it ends, the bytes are those of the fields
\* that were read.
ReadTo(buf, p, end) ==
  /\ end \in p .. Len(buf) /\ Ends(buf, end)
  /\ PutChunks(ChunksAt(buf, p)) = SubSeq(buf, p + 1, end)

LEMMA ReadsSomewhere ==
  ASSUME NEW buf \in Seq(Byte), NEW p \in 0 .. Len(buf)
  PROVE  \E end : ReadTo(buf, p, end)
<1>. DEFINE n == Len(buf)
            T == {k \in 0 .. n : \A q \in n - k .. n : \E end : ReadTo(buf, q, end)}
<1>1. n \in Nat
  BY LenProperties
<1>2. ASSUME NEW q \in 0 .. n, \A r \in q + 1 .. n : \E end : ReadTo(buf, r, end)
      PROVE  \E end : ReadTo(buf, q, end)
  <2>1. CASE Ends(buf, q)
    <3>1. PutChunks(ChunksAt(buf, q)) = <<>>
      BY <2>1, ChunksStep, PutChunksStep
    <3>2. SubSeq(buf, q + 1, q) = <<>>
      <4>1. q \in Nat /\ q + 1 \in Int /\ q \in Int /\ q + 1 > q
        BY <1>1, SMT
      <4>. QED  BY <4>1, SubSeqEmpty
    <3>3. q \in q .. n
      BY <1>1, SMT
    <3>. QED  BY <2>1, <3>1, <3>2, <3>3 DEF ReadTo
  <2>2. CASE ~Ends(buf, q)
    <3>. DEFINE r == Behind(buf, q)
                f == FieldAt(buf, q)
    <3>1. r \in q + 4 .. n
      BY <2>2, WalksOn
    <3>. HIDE DEF n, r
    <3>2. r \in q + 1 .. n /\ r \in 0 .. n
      BY <1>1, <3>1, SMT
    <3>3. PICK end : ReadTo(buf, r, end)
      BY <1>2, <3>2
    <3>4. f \in Fields /\ ChunksAt(buf, r) \in Seq(Fields)
      BY <2>2, <3>2, FieldsAre, ChunksAre DEF n
    <3>5. ChunksAt(buf, q) = <<f>> \o ChunksAt(buf, r)
      BY <2>2, ChunksStep DEF n, r
    <3>6. PutChunk(f) = SubSeq(buf, q + 1, r)
      BY <2>2, FieldIsThere DEF n, r
    <3>. HIDE DEF f
    <3>7. PutChunks(ChunksAt(buf, q)) = SubSeq(buf, q + 1, r) \o SubSeq(buf, r + 1, end)
      BY <3>3, <3>4, <3>5, <3>6, PutChunksFirst DEF ReadTo
    <3>8. end \in r .. n
      BY <3>3 DEF ReadTo, n
    <3>9. SubSeq(buf, q + 1, r) \o SubSeq(buf, r + 1, end) = SubSeq(buf, q + 1, end)
      <4>1. q + 1 \in 1 .. n + 1 /\ r \in (q + 1) - 1 .. n /\ end \in r .. n
        BY <1>1, <3>2, <3>8, SMT
      <4>. QED  BY <4>1, ConcatAdjacentSubSeq DEF n
    <3>10. end \in q .. n
      BY <1>1, <3>2, <3>8, SMT
    <3>. QED  BY <3>3, <3>7, <3>9, <3>10 DEF ReadTo, n
  <2>. QED  BY <2>1, <2>2
<1>. HIDE DEF n
<1>3. 0 \in T
  <2>1. \A q \in n - 0 .. n : q \in 0 .. n /\ \A r \in q + 1 .. n : FALSE
    BY <1>1, SMT
  <2>2. 0 \in 0 .. n
    BY <1>1, SMT
  <2>. QED  BY <1>2, <2>1, <2>2
<1>4. ASSUME NEW k \in 1 .. n, k - 1 \in T PROVE k \in T
  <2>1. /\ k \in 0 .. n
        /\ \A q \in n - k .. n : q \in 0 .. n /\ \A r \in q + 1 .. n : r \in n - (k - 1) .. n
    BY <1>1, SMT
  <2>2. \A r \in n - (k - 1) .. n : \E end : ReadTo(buf, r, end)
    BY <1>4
  <2>. QED  BY <1>2, <2>1, <2>2
<1>5. n \in T
  <2>. HIDE DEF T
  <2>1. 0 .. n \subseteq T
    BY <1>1, <1>3, <1>4, UpTo
  <2>2. n \in 0 .. n
    BY <1>1, SMT
  <2>. QED  BY <2>1, <2>2
<1>6. p \in n - n .. n
  BY <1>1, SMT DEF n
<1>. QED  BY <1>5, <1>6

\* Whatever arrives, what is read of it is there: the fields are legal ones, they
\* are made of the very bytes behind the header, up to where they end, and there
\* no whole field stands.
THEOREM ReadsWhatIsThere ==
  ASSUME NEW buf \in Seq(Byte)
  PROVE  /\ Chunks(buf) \in Seq(Fields)
         /\ HeaderLen <= Len(buf) =>
              \E end \in HeaderLen .. Len(buf) :
                /\ PutChunks(Chunks(buf)) = SubSeq(buf, HeaderLen + 1, end)
                /\ Ends(buf, end)
         /\ ~(HeaderLen <= Len(buf)) => Chunks(buf) = <<>>
<1>1. Len(buf) \in Nat /\ HeaderLen \in Nat
  BY LenProperties DEF HeaderLen
<1>2. CASE HeaderLen <= Len(buf)
  <2>1. HeaderLen \in 0 .. Len(buf)
    BY <1>1, <1>2, SMT
  <2>2. PICK end : ReadTo(buf, HeaderLen, end)
    BY <2>1, ReadsSomewhere
  <2>. QED  BY <1>2, <2>1, <2>2, ChunksAre DEF ReadTo, Chunks
<1>3. CASE ~(HeaderLen <= Len(buf))
  <2>. DEFINE n == Len(buf)
  <2>. HIDE DEF n
  <2>1. Least(HeaderLen, n) = n /\ Least(n, n) = n /\ n \in 0 .. n /\ n + 4 > n
    BY <1>1, <1>3, SMT DEF Least, n
  <2>2. ChunksAt(buf, HeaderLen) = ChunksAt(buf, n)
    BY <2>1, Zenon DEF ChunksAt, n
  <2>3. Ends(buf, n)
    BY <2>1 DEF Ends, n
  <2>4. Chunks(buf) = <<>>
    BY <2>1, <2>2, <2>3, ChunksStep DEF Chunks, n
  <2>. QED  BY <1>3, <2>4, EmptySeq
<1>. QED  BY <1>2, <1>3

\* Where a field stands in the first n bytes, it stands in all of them.
LEMMA FrontTold ==
  ASSUME NEW buf \in Seq(Byte), NEW n \in 0 .. Len(buf), NEW p \in 0 .. n,
         NEW cut, cut = SubSeq(buf, 1, n), ~Ends(cut, p)
  PROVE  /\ ~Ends(buf, p) /\ FieldAt(cut, p) = FieldAt(buf, p)
         /\ Behind(cut, p) = Behind(buf, p) /\ Behind(buf, p) \in p + 1 .. n
<1>. DEFINE l == U16At(cut, p + 2)
<1>1. /\ cut \in Seq(Byte) /\ Len(cut) = n /\ \A i \in 1 .. n : cut[i] = buf[i]
      /\ Len(buf) \in Nat /\ n \in Nat
  BY PrefixIs, LenProperties
<1>2. p + 4 <= n /\ l \in 0 .. n - (p + 4)
  BY <1>1, HeadIsThere
<1>. HIDE DEF l
<1>3. /\ p + 1 \in 1 .. n /\ p + 2 \in 1 .. n /\ p + 3 \in 1 .. n /\ p + 4 \in 1 .. n
      /\ (p + 2) + 1 = p + 3 /\ (p + 2) + 2 = p + 4
  BY <1>1, <1>2, SMT
<1>4. U16At(cut, p) = U16At(buf, p) /\ l = U16At(buf, p + 2)
  BY <1>1, <1>3 DEF U16At, l
<1>5. ~(p + 4 > Len(buf)) /\ ~(l > Len(buf) - (p + 4)) /\ p + 4 + l \in p + 1 .. n
  BY <1>1, <1>2, SMT
<1>6. ~Ends(buf, p)
  BY <1>4, <1>5 DEF Ends
<1>7. Behind(cut, p) = p + 4 + l /\ Behind(buf, p) = p + 4 + l
  BY <1>4 DEF Behind, l
<1>8. Slice(cut, p + 4, l) = Slice(buf, p + 4, l)
  <2>. DEFINE a == (p + 4) + 1
              z == (p + 4) + l
              s == SubSeq(cut, a, z)
              t == SubSeq(buf, a, z)
  <2>1. /\ a \in Int /\ z \in Int /\ \A i \in a .. z : i \in 1 .. n /\ i \in 1 .. Len(buf)
        /\ \A i \in 1 .. z - a + 1 : a + i - 1 \in a .. z
        /\ (a <= z \/ z - a + 1 = 0)
    BY <1>1, <1>2, SMT
  <2>2. \A i \in a .. z : cut[i] = buf[i] /\ buf[i] \in Byte
    BY <1>1, <2>1, ElementOfSeq
  <2>. HIDE DEF a, z
  <2>3. /\ s \in Seq(Byte) /\ Len(s) = IF a <= z THEN z - a + 1 ELSE 0
        /\ \A i \in 1 .. z - a + 1 : s[i] = cut[a + i - 1]
    BY <2>1, <2>2, SubSeqProperties
  <2>4. /\ t \in Seq(Byte) /\ Len(t) = IF a <= z THEN z - a + 1 ELSE 0
        /\ \A i \in 1 .. z - a + 1 : t[i] = buf[a + i - 1]
    BY <2>1, <2>2, SubSeqProperties
  <2>. HIDE DEF s, t
  <2>5. Len(s) = z - a + 1 /\ Len(t) = Len(s)
    BY <2>1, <2>3, <2>4
  <2>6. \A i \in 1 .. Len(s) : s[i] = t[i]
    BY <2>1, <2>2, <2>3, <2>4, <2>5
  <2>7. s = t
    BY <2>3, <2>4, <2>5, <2>6, SeqEqual
  <2>. QED  BY <2>7 DEF s, t, a, z, Slice
<1>9. FieldAt(cut, p) = FieldAt(buf, p)
  BY <1>4, <1>8 DEF FieldAt, l
<1>. QED  BY <1>5, <1>6, <1>7, <1>9

\* Of any bytes that lost their end no field is read that was not read of all of
\* them, and none is left out between two.
ReadsFirst(fields, all) == \E k \in 0 .. Len(all) : fields = SubSeq(all, 1, k)

LEMMA CutAnywhere ==
  ASSUME NEW buf \in Seq(Byte), NEW n \in 0 .. Len(buf), NEW p \in 0 .. n
  PROVE  ReadsFirst(ChunksAt(SubSeq(buf, 1, n), p), ChunksAt(buf, p))
<1>. DEFINE cut == SubSeq(buf, 1, n)
            T == {k \in 0 .. n : \A q \in n - k .. n :
                                   ReadsFirst(ChunksAt(cut, q), ChunksAt(buf, q))}
<1>1. cut \in Seq(Byte) /\ Len(cut) = n /\ Len(buf) \in Nat /\ n \in Nat
  BY PrefixIs, LenProperties
<1>2. ASSUME NEW q \in 0 .. n,
             \A r \in q + 1 .. n : ReadsFirst(ChunksAt(cut, r), ChunksAt(buf, r))
      PROVE  ReadsFirst(ChunksAt(cut, q), ChunksAt(buf, q))
  <2>0. q \in 0 .. Len(cut) /\ q \in 0 .. Len(buf)
    <3>. HIDE DEF cut
    <3>. QED  BY <1>1, SMT
  <2>1. CASE Ends(cut, q)
    <3>. DEFINE all == ChunksAt(buf, q)
    <3>1. ChunksAt(cut, q) = <<>>
      BY <1>1, <2>0, <2>1, ChunksStep
    <3>2. all \in Seq(Fields)
      BY <2>0, ChunksAre
    <3>. HIDE DEF all
    <3>3. SubSeq(all, 1, 0) = <<>> /\ 0 \in 0 .. Len(all)
      BY <3>2, PrefixesOf, LenProperties
    <3>. QED  BY <3>1, <3>3 DEF ReadsFirst, all
  <2>2. CASE ~Ends(cut, q)
    <3>. DEFINE r == Behind(buf, q)
                one == <<FieldAt(buf, q)>>
                rest == ChunksAt(buf, r)
    <3>1. /\ ~Ends(buf, q) /\ FieldAt(cut, q) = FieldAt(buf, q)
          /\ Behind(cut, q) = r /\ r \in q + 1 .. n
      BY <2>2, FrontTold
    <3>2. ChunksAt(cut, q) = one \o ChunksAt(cut, r)
      BY <1>1, <2>0, <2>2, <3>1, ChunksStep
    <3>3. ChunksAt(buf, q) = one \o rest
      BY <2>0, <3>1, ChunksStep
    <3>4. one \in Seq(Fields) /\ Len(one) = 1
      BY <2>0, <3>1, FieldsAre
    <3>5. r \in 0 .. Len(buf)
      <4>. HIDE DEF r
      <4>. QED  BY <1>1, <3>1, SMT
    <3>6. rest \in Seq(Fields) /\ Len(rest) \in Nat
      BY <3>5, ChunksAre, LenProperties
    <3>7. PICK k \in 0 .. Len(rest) : ChunksAt(cut, r) = SubSeq(rest, 1, k)
      BY <1>2, <3>1 DEF ReadsFirst
    <3>. HIDE DEF one, rest, r
    <3>8. BeginsAs(one, rest, k)
      BY <3>4, <3>6, PrefixOfBoth
    <3>9. Len(one \o rest) = 1 + Len(rest)
      BY <3>4, <3>6, ConcatProperties
    <3>10. 1 + k \in 0 .. Len(one \o rest)
      BY <3>6, <3>9, SMT
    <3>. QED  BY <3>2, <3>3, <3>4, <3>7, <3>8, <3>10 DEF ReadsFirst, BeginsAs
  <2>. QED  BY <2>1, <2>2
<1>. HIDE DEF cut
<1>3. 0 \in T
  <2>1. \A q \in n - 0 .. n : q \in 0 .. n /\ \A r \in q + 1 .. n : FALSE
    BY <1>1, SMT
  <2>2. 0 \in 0 .. n
    BY <1>1, SMT
  <2>. QED  BY <1>2, <2>1, <2>2
<1>4. ASSUME NEW k \in 1 .. n, k - 1 \in T PROVE k \in T
  <2>1. /\ k \in 0 .. n
        /\ \A q \in n - k .. n : q \in 0 .. n /\ \A r \in q + 1 .. n : r \in n - (k - 1) .. n
    BY <1>1, SMT
  <2>2. \A r \in n - (k - 1) .. n : ReadsFirst(ChunksAt(cut, r), ChunksAt(buf, r))
    BY <1>4
  <2>. QED  BY <1>2, <2>1, <2>2
<1>5. n \in T
  <2>. HIDE DEF T
  <2>1. 0 .. n \subseteq T
    BY <1>1, <1>3, <1>4, UpTo
  <2>2. n \in 0 .. n
    BY <1>1, SMT
  <2>. QED  BY <2>1, <2>2
<1>6. p \in n - n .. n
  BY <1>1, SMT
<1>. QED  BY <1>5, <1>6 DEF cut

\* Of whatever arrives without its end, just the first fields are read of those
\* that all of it would have given: none is made up or left out, or read in part.
THEOREM CutReadsFirstFields ==
  ASSUME NEW buf \in Seq(Byte), NEW n \in Nat
  PROVE  \E k \in 0 .. Len(Chunks(buf)) : Chunks(Cut(buf, n)) = SubSeq(Chunks(buf), 1, k)
<1>. DEFINE m == Least(n, Len(buf))
            cut == SubSeq(buf, 1, m)
            all == Chunks(buf)
<1>1. /\ Len(buf) \in Nat /\ m \in 0 .. Len(buf) /\ HeaderLen \in Nat
  <2>1. Len(buf) \in Nat /\ HeaderLen \in Nat
    BY LenProperties DEF HeaderLen
  <2>. QED  BY <2>1, SMT DEF Least
<1>2. Cut(buf, n) = cut /\ cut \in Seq(Byte) /\ Len(cut) = m /\ all \in Seq(Fields)
  BY <1>1, PrefixIs, ReadsWhatIsThere DEF Cut
<1>. HIDE DEF m, cut
<1>3. CASE HeaderLen <= m
  <2>1. HeaderLen \in 0 .. m
    BY <1>1, <1>3, SMT
  <2>2. ReadsFirst(ChunksAt(cut, HeaderLen), ChunksAt(buf, HeaderLen))
    BY <1>1, <2>1, CutAnywhere DEF cut
  <2>. QED  BY <1>2, <2>2 DEF ReadsFirst, Chunks
<1>4. CASE ~(HeaderLen <= m)
  <2>1. Chunks(cut) = <<>>
    BY <1>2, <1>4, ReadsWhatIsThere
  <2>. HIDE DEF all
  <2>2. SubSeq(all, 1, 0) = <<>> /\ 0 \in 0 .. Len(all)
    BY <1>2, PrefixesOf, LenProperties
  <2>. QED  BY <1>2, <2>1, <2>2 DEF all
<1>. QED  BY <1>3, <1>4

=============================================================================
