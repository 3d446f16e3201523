-------------------------- MODULE HxTransportProofs --------------------------
(***************************************************************************)
(* Theorems about one direction of a connection: a sender and a receiver of  *)
(* the same key and algorithms, whatever those are. What went in comes out,  *)
(* however it is batched on one side and cut on its way, and the two stay in  *)
(* step.                                                                   *)
(***************************************************************************)
EXTENDS HxHope, HxTransport, HxFoldProofs

Kinds == {"head", "body", "noise", "end of unit", "length", "tag"}
Cells ==
  [kind : Kinds, i : Nat, k : Nat, n : Nat, mark : Nat, packed : BOOLEAN]

\* Blowfish under a key of K, and what cells on the wire may be under.
Blowfishes(K) == [key : K, turned : Nat, ivec : Seq(Nat), num : Nat]
Unders(K) == {<<>>} \cup (K \X Seq(Nat) \X Nat) \cup (K \X Nat \X Nat)
Wireds(K) == [cell : Cells, under : Unders(K)]

LEMMA CellTypes ==
  /\ Noise \in Cells /\ End \in Cells
  /\ \A n \in Nat : Cell("length", 0, 0, n) \in Cells /\ Cell("tag", 0, 0, n) \in Cells
BY DEF Noise, End, Cell, Cells, Kinds

LEMMA WiredTypes ==
  ASSUME NEW K, NEW c \in Cells, NEW u \in Unders(K)
  PROVE  Wired(c, u) \in Wireds(K) /\ Wired(c, u).cell = c /\ Wired(c, u).under = u
BY DEF Wired, Wireds

LEMMA UnderTypes ==
  ASSUME NEW K, NEW w \in Wireds(K), NEW u
  PROVE  Under(w, u) \in Cells
BY CellTypes DEF Under, Wireds

LEMMA UnderWired ==
  ASSUME NEW c, NEW u
  PROVE  Under(Wired(c, u), u) = c
BY DEF Under, Wired

----------------------------------------------------------------------------
(* Blowfish.                                                               *)

LEMMA SteppedTypes ==
  ASSUME NEW K, NEW bf \in Blowfishes(K)
  PROVE  Stepped(bf) \in Blowfishes(K) /\ KeyOf(Stepped(bf)) \in Unders(K)
<1>1. Block \in Nat \ {0}
  BY TransportAssumption
<1>2. bf.num \in Nat /\ bf.ivec \in Seq(Nat) /\ bf.turned \in Nat /\ bf.key \in K
  BY DEF Blowfishes
<1>3. (bf.num + 1) % Block \in Nat
  BY <1>1, <1>2, SMT
<1>4. Append(bf.ivec, bf.turned) \in Seq(Nat)
  BY <1>2, AppendProperties
<1>5. Stepped(bf) \in Blowfishes(K)
  BY <1>2, <1>3, <1>4 DEF Stepped, Blowfishes
<1>. QED  BY <1>5 DEF Blowfishes, KeyOf, Unders

LEMMA TurnedTypes ==
  ASSUME NEW K, NEW bf \in Blowfishes(K), NEW rounds \in Nat
  PROVE  Turned(bf, rounds) \in Blowfishes(K)
BY DEF Turned, Blowfishes

\* What a run of the cipher has done: the state it is in, and the cells.
Sealings(K) == [bf : Blowfishes(K), done : Seq(Wireds(K))]
Unsealings(K) == [bf : Blowfishes(K), done : Seq(Cells)]

SealStep(acc, cell) ==
  [bf |-> Stepped(acc.bf), done |-> Append(acc.done, Wired(cell, KeyOf(Stepped(acc.bf))))]
UnsealStep(acc, w) ==
  [bf |-> Stepped(acc.bf), done |-> Append(acc.done, Under(w, KeyOf(Stepped(acc.bf))))]

SealSteps(K) == [acc \in Sealings(K) |-> [cell \in Cells |-> SealStep(acc, cell)]]
UnsealSteps(K) == [acc \in Unsealings(K) |-> [w \in Wireds(K) |-> UnsealStep(acc, w)]]
Undone(bf) == [bf |-> bf, done |-> <<>>]

\* crypt_in_place() is SealStep, cell after cell.
LEMMA SealedAfter ==
  ASSUME NEW K, NEW bf \in Blowfishes(K), NEW s \in Seq(Cells)
  PROVE  /\ Feeds(Sealings(K), Cells, Undone(bf), s, SealSteps(K))
         /\ Sealed(bf, s) = AfterAll(Sealings(K), Undone(bf), s, SealSteps(K))
<1>. DEFINE D == SUBSET (DOMAIN s)
            V == Sealings(K)
            X == Cells
            G == SealSteps(K)
            b == Undone(bf)
            f == CHOOSE f : f = [P \in D |-> IF P = {} THEN b
                                             ELSE SealStep(f[P \ {Max(P)}], s[Max(P)])]
<1>1. Sealed(bf, s) = f[DOMAIN s]
  BY DEF Sealed, SealStep, Undone, FoldLeft, MapThenFoldSet
<1>2. ASSUME NEW v \in V, NEW x \in X
      PROVE  SealStep(v, x) \in V /\ SealStep(v, x) = G[v][x]
  <2>1. v.bf \in Blowfishes(K) /\ v.done \in Seq(Wireds(K))
    BY DEF Sealings
  <2>2. Wired(x, KeyOf(Stepped(v.bf))) \in Wireds(K) /\ Stepped(v.bf) \in Blowfishes(K)
    BY <2>1, SteppedTypes, WiredTypes
  <2>3. Append(v.done, Wired(x, KeyOf(Stepped(v.bf)))) \in Seq(Wireds(K))
    BY <2>1, <2>2, AppendProperties
  <2>. QED  BY <2>2, <2>3 DEF SealStep, Sealings, SealSteps
<1>3. b \in V
  BY EmptySeq DEF Undone, Sealings
<1>. HIDE DEF f, b, V, X
<1>4. G \in [V -> [X -> V]]
  BY <1>2 DEF SealSteps, V, X
<1>. HIDE DEF G
<1>5. s \in Seq(X) /\ Feeds(V, X, b, s, G)
  BY <1>3, <1>4 DEF Feeds, X
<1>6. PICK g : FoldOver(g, V, X, b, s, G)
  BY <1>5, FoldExists
<1>7. g = [P \in D |-> IF P = {} THEN b ELSE SealStep(g[P \ {Max(P)}], s[Max(P)])]
  BY <1>2, <1>6 DEF FoldOver
<1>8. f = [P \in D |-> IF P = {} THEN b ELSE SealStep(f[P \ {Max(P)}], s[Max(P)])]
  BY <1>7 DEF f
<1>9. f[{}] = b
  BY <1>8
<1>10. ASSUME NEW k \in DOMAIN s, f[1 .. k - 1] \in V
       PROVE  f[1 .. k] = G[f[1 .. k - 1]][s[k]]
  <2>1. DOMAIN s = 1 .. Len(s) /\ Len(s) \in Nat /\ s[k] \in X
    BY <1>5, LenProperties, ElementOfSeq
  <2>2. Max(1 .. k) = k /\ (1 .. k) \ {k} = 1 .. k - 1 /\ 1 .. k # {} /\ 1 .. k \in D
    BY <2>1, MaxOfRun
  <2>3. f[1 .. k] = SealStep(f[1 .. k - 1], s[k])
    BY <1>8, <2>2
  <2>. QED  BY <1>2, <1>10, <2>1, <2>3
<1>11. f[DOMAIN s] = AfterAll(V, b, s, G)
  BY <1>5, <1>9, <1>10, FoldIsAfter
<1>. QED  BY <1>1, <1>5, <1>11 DEF V, X, G, b

\* The same the other way.
LEMMA UnsealedAfter ==
  ASSUME NEW K, NEW bf \in Blowfishes(K), NEW s \in Seq(Wireds(K))
  PROVE  /\ Feeds(Unsealings(K), Wireds(K), Undone(bf), s, UnsealSteps(K))
         /\ Unsealed(bf, s) = AfterAll(Unsealings(K), Undone(bf), s, UnsealSteps(K))
<1>. DEFINE D == SUBSET (DOMAIN s)
            V == Unsealings(K)
            X == Wireds(K)
            G == UnsealSteps(K)
            b == Undone(bf)
            f == CHOOSE f : f = [P \in D |-> IF P = {} THEN b
                                             ELSE UnsealStep(f[P \ {Max(P)}], s[Max(P)])]
<1>1. Unsealed(bf, s) = f[DOMAIN s]
  BY DEF Unsealed, UnsealStep, Undone, FoldLeft, MapThenFoldSet
<1>2. ASSUME NEW v \in V, NEW x \in X
      PROVE  UnsealStep(v, x) \in V /\ UnsealStep(v, x) = G[v][x]
  <2>1. v.bf \in Blowfishes(K) /\ v.done \in Seq(Cells)
    BY DEF Unsealings
  <2>2. Under(x, KeyOf(Stepped(v.bf))) \in Cells /\ Stepped(v.bf) \in Blowfishes(K)
    BY <2>1, SteppedTypes, UnderTypes
  <2>3. Append(v.done, Under(x, KeyOf(Stepped(v.bf)))) \in Seq(Cells)
    BY <2>1, <2>2, AppendProperties
  <2>. QED  BY <2>2, <2>3 DEF UnsealStep, Unsealings, UnsealSteps
<1>3. b \in V
  BY EmptySeq DEF Undone, Unsealings
<1>. HIDE DEF f, b, V, X
<1>4. G \in [V -> [X -> V]]
  BY <1>2 DEF UnsealSteps, V, X
<1>. HIDE DEF G
<1>5. s \in Seq(X) /\ Feeds(V, X, b, s, G)
  BY <1>3, <1>4 DEF Feeds, X
<1>6. PICK g : FoldOver(g, V, X, b, s, G)
  BY <1>5, FoldExists
<1>7. g = [P \in D |-> IF P = {} THEN b ELSE UnsealStep(g[P \ {Max(P)}], s[Max(P)])]
  BY <1>2, <1>6 DEF FoldOver
<1>8. f = [P \in D |-> IF P = {} THEN b ELSE UnsealStep(f[P \ {Max(P)}], s[Max(P)])]
  BY <1>7 DEF f
<1>9. f[{}] = b
  BY <1>8
<1>10. ASSUME NEW k \in DOMAIN s, f[1 .. k - 1] \in V
       PROVE  f[1 .. k] = G[f[1 .. k - 1]][s[k]]
  <2>1. DOMAIN s = 1 .. Len(s) /\ Len(s) \in Nat /\ s[k] \in X
    BY <1>5, LenProperties, ElementOfSeq
  <2>2. Max(1 .. k) = k /\ (1 .. k) \ {k} = 1 .. k - 1 /\ 1 .. k # {} /\ 1 .. k \in D
    BY <2>1, MaxOfRun
  <2>3. f[1 .. k] = UnsealStep(f[1 .. k - 1], s[k])
    BY <1>8, <2>2
  <2>. QED  BY <1>2, <1>10, <2>1, <2>3
<1>11. f[DOMAIN s] = AfterAll(V, b, s, G)
  BY <1>5, <1>9, <1>10, FoldIsAfter
<1>. QED  BY <1>1, <1>5, <1>11 DEF V, X, G, b

LEMMA SealedLaws ==
  ASSUME NEW K, NEW bf \in Blowfishes(K)
  PROVE  /\ Sealed(bf, <<>>) = Undone(bf)
         /\ \A s \in Seq(Cells) : Sealed(bf, s) \in Sealings(K)
         /\ \A s \in Seq(Cells), x \in Cells :
              Sealed(bf, Append(s, x)) = SealStep(Sealed(bf, s), x)
<1>1. ASSUME NEW q, q = <<>> PROVE Sealed(bf, q) = Undone(bf)
  <2>1. q \in Seq(Cells)
    BY <1>1, EmptySeq
  <2>2. /\ Feeds(Sealings(K), Cells, Undone(bf), q, SealSteps(K))
        /\ Sealed(bf, q) = AfterAll(Sealings(K), Undone(bf), q, SealSteps(K))
    BY <2>1, SealedAfter
  <2>3. AfterAll(Sealings(K), Undone(bf), q, SealSteps(K)) = Undone(bf)
    BY <1>1, <2>2, AfterEmpty
  <2>. QED  BY <2>2, <2>3
<1>2. ASSUME NEW s \in Seq(Cells) PROVE Sealed(bf, s) \in Sealings(K)
  BY SealedAfter, AfterType
<1>3. ASSUME NEW s \in Seq(Cells), NEW x \in Cells
      PROVE  Sealed(bf, Append(s, x)) = SealStep(Sealed(bf, s), x)
  <2>1. Append(s, x) \in Seq(Cells)
    BY AppendProperties
  <2>2. Sealed(bf, Append(s, x)) = SealSteps(K)[Sealed(bf, s)][x]
    <3>1. /\ Feeds(Sealings(K), Cells, Undone(bf), s, SealSteps(K))
          /\ Sealed(bf, s) = AfterAll(Sealings(K), Undone(bf), s, SealSteps(K))
          /\ Sealed(bf, Append(s, x)) = AfterAll(Sealings(K), Undone(bf), Append(s, x), SealSteps(K))
      BY <2>1, SealedAfter
    <3>2. AfterAll(Sealings(K), Undone(bf), Append(s, x), SealSteps(K)) = SealSteps(K)[AfterAll(Sealings(K), Undone(bf), s, SealSteps(K))][x]
      BY <3>1, AfterMore
    <3>. QED  BY <3>1, <3>2
  <2>. QED  BY <1>2, <2>2 DEF SealSteps
<1>. QED  BY <1>1, <1>2, <1>3

LEMMA UnsealedLaws ==
  ASSUME NEW K, NEW bf \in Blowfishes(K)
  PROVE  /\ Unsealed(bf, <<>>) = Undone(bf)
         /\ \A s \in Seq(Wireds(K)) : Unsealed(bf, s) \in Unsealings(K)
         /\ \A s \in Seq(Wireds(K)), x \in Wireds(K) :
              Unsealed(bf, Append(s, x)) = UnsealStep(Unsealed(bf, s), x)
<1>1. ASSUME NEW q, q = <<>> PROVE Unsealed(bf, q) = Undone(bf)
  <2>1. q \in Seq(Wireds(K))
    BY <1>1, EmptySeq
  <2>2. /\ Feeds(Unsealings(K), Wireds(K), Undone(bf), q, UnsealSteps(K))
        /\ Unsealed(bf, q) = AfterAll(Unsealings(K), Undone(bf), q, UnsealSteps(K))
    BY <2>1, UnsealedAfter
  <2>3. AfterAll(Unsealings(K), Undone(bf), q, UnsealSteps(K)) = Undone(bf)
    BY <1>1, <2>2, AfterEmpty
  <2>. QED  BY <2>2, <2>3
<1>2. ASSUME NEW s \in Seq(Wireds(K)) PROVE Unsealed(bf, s) \in Unsealings(K)
  BY UnsealedAfter, AfterType
<1>3. ASSUME NEW s \in Seq(Wireds(K)), NEW x \in Wireds(K)
      PROVE  Unsealed(bf, Append(s, x)) = UnsealStep(Unsealed(bf, s), x)
  <2>1. Append(s, x) \in Seq(Wireds(K))
    BY AppendProperties
  <2>2. Unsealed(bf, Append(s, x)) = UnsealSteps(K)[Unsealed(bf, s)][x]
    <3>1. /\ Feeds(Unsealings(K), Wireds(K), Undone(bf), s, UnsealSteps(K))
          /\ Unsealed(bf, s) = AfterAll(Unsealings(K), Undone(bf), s, UnsealSteps(K))
          /\ Unsealed(bf, Append(s, x)) = AfterAll(Unsealings(K), Undone(bf), Append(s, x), UnsealSteps(K))
      BY <2>1, UnsealedAfter
    <3>2. AfterAll(Unsealings(K), Undone(bf), Append(s, x), UnsealSteps(K)) = UnsealSteps(K)[AfterAll(Unsealings(K), Undone(bf), s, UnsealSteps(K))][x]
      BY <3>1, AfterMore
    <3>. QED  BY <3>1, <3>2
  <2>. QED  BY <1>2, <2>2 DEF UnsealSteps
<1>. QED  BY <1>1, <1>2, <1>3

LEMMA SealedMore ==
  ASSUME NEW K, NEW bf \in Blowfishes(K), NEW s \in Seq(Cells), NEW x \in Cells
  PROVE  Sealed(bf, Append(s, x)) = SealStep(Sealed(bf, s), x)
BY SealedLaws

LEMMA UnsealedMore ==
  ASSUME NEW K, NEW bf \in Blowfishes(K), NEW s \in Seq(Wireds(K)), NEW x \in Wireds(K)
  PROVE  Unsealed(bf, Append(s, x)) = UnsealStep(Unsealed(bf, s), x)
BY UnsealedLaws

\* One run after another is one run over both.
UnsealsOver(bf, s, t, x, y) ==
  Unsealed(bf, s \o t) = [bf |-> y.bf, done |-> x.done \o y.done]

LEMMA UnsealedConcat ==
  ASSUME NEW K, NEW bf \in Blowfishes(K), NEW s \in Seq(Wireds(K)), NEW t \in Seq(Wireds(K)),
         NEW x, x = Unsealed(bf, s), NEW y, y = Unsealed(x.bf, t)
  PROVE  UnsealsOver(bf, s, t, x, y)
<1>. DEFINE P(u) == Unsealed(bf, s \o u) =
                      [bf |-> Unsealed(x.bf, u).bf, done |-> x.done \o Unsealed(x.bf, u).done]
            T == {u \in Seq(Wireds(K)) : P(u)}
<1>1. x \in Unsealings(K) /\ x.bf \in Blowfishes(K) /\ x.done \in Seq(Cells)
  BY UnsealedLaws DEF Unsealings
<1>2. ASSUME NEW q, q = <<>> PROVE q \in T
  <2>1. q \in Seq(Wireds(K)) /\ s \o q = s
    BY <1>2, EmptySeq, ConcatEmptySeq
  <2>2. Unsealed(x.bf, q) = Undone(x.bf)
    BY <1>1, <1>2, UnsealedLaws
  <2>3. x.done \o <<>> = x.done
    BY <1>1, ConcatEmptySeq
  <2>4. x = [bf |-> x.bf, done |-> x.done]
    BY <1>1 DEF Unsealings
  <2>5. Unsealed(bf, s \o q) = x
    BY <2>1
  <2>6. Unsealed(x.bf, q).bf = x.bf /\ Unsealed(x.bf, q).done = <<>>
    BY <2>2 DEF Undone
  <2>. QED  BY <2>1, <2>3, <2>4, <2>5, <2>6
<1>3. ASSUME NEW u \in Seq(Wireds(K)), NEW v \in Wireds(K), u \in T PROVE Append(u, v) \in T
  <2>1. /\ Append(u, v) \in Seq(Wireds(K)) /\ s \o u \in Seq(Wireds(K))
        /\ s \o Append(u, v) = Append(s \o u, v)
    BY AppendProperties, ConcatAppend
  <2>2. Unsealed(bf, Append(s \o u, v)) = UnsealStep(Unsealed(bf, s \o u), v)
    <3>. DEFINE w == s \o u
    <3>1. w \in Seq(Wireds(K))
      BY <2>1
    <3>. HIDE DEF w
    <3>2. Unsealed(bf, Append(w, v)) = UnsealStep(Unsealed(bf, w), v)
      BY <3>1, UnsealedMore
    <3>. QED  BY <3>2 DEF w
  <2>3. Unsealed(x.bf, Append(u, v)) = UnsealStep(Unsealed(x.bf, u), v)
    BY <1>1, UnsealedMore
  <2>4. Unsealed(x.bf, u) \in Unsealings(K)
    BY <1>1, UnsealedLaws
  <2>. DEFINE z == Unsealed(x.bf, u)
              c == Under(v, KeyOf(Stepped(z.bf)))
  <2>5. z.bf \in Blowfishes(K) /\ z.done \in Seq(Cells) /\ c \in Cells
    BY <2>4, SteppedTypes, UnderTypes DEF Unsealings
  <2>7. Unsealed(bf, s \o u) = [bf |-> z.bf, done |-> x.done \o z.done]
    BY <1>3
  <2>. HIDE DEF z, c
  <2>6. x.done \o Append(z.done, c) = Append(x.done \o z.done, c)
    <3>. DEFINE a == x.done
                e == z.done
    <3>1. a \in Seq(Cells) /\ e \in Seq(Cells)
      BY <1>1, <2>5
    <3>. HIDE DEF a, e
    <3>2. a \o Append(e, c) = Append(a \o e, c)
      BY <2>5, <3>1, ConcatAppend
    <3>. QED  BY <3>2 DEF a, e
  <2>8. Unsealed(bf, s \o Append(u, v)) = [bf |-> Stepped(z.bf), done |-> Append(x.done \o z.done, c)]
    BY <2>1, <2>2, <2>7 DEF UnsealStep, c
  <2>9. Unsealed(x.bf, Append(u, v)) = [bf |-> Stepped(z.bf), done |-> Append(z.done, c)]
    BY <2>3 DEF UnsealStep, c, z
  <2>10. /\ Unsealed(x.bf, Append(u, v)).bf = Stepped(z.bf)
         /\ Unsealed(x.bf, Append(u, v)).done = Append(z.done, c)
    BY <2>9
  <2>. QED  BY <2>1, <2>6, <2>8, <2>10
<1>4. Seq(Wireds(K)) \subseteq T
  <2>. HIDE DEF T
  <2>. QED  BY <1>2, <1>3, SeqInduct
<1>. QED  BY <1>4 DEF UnsealsOver

\* One cell.
LEMMA UnsealedOne ==
  ASSUME NEW K, NEW bf \in Blowfishes(K), NEW w \in Wireds(K)
  PROVE  Unsealed(bf, <<w>>) =
           [bf |-> Stepped(bf), done |-> <<Under(w, KeyOf(Stepped(bf)))>>]
<1>. DEFINE q == <<>>
            c == Under(w, KeyOf(Stepped(bf)))
<1>1. /\ q \in Seq(Wireds(K)) /\ q = <<>> /\ Append(q, w) = <<w>>
      /\ Append(<<>>, c) = <<c>>
  BY EmptySeq
<1>. HIDE DEF q, c
<1>2. Unsealed(bf, Append(q, w)) = UnsealStep(Unsealed(bf, q), w) /\ Unsealed(bf, q) = Undone(bf)
  BY <1>1, UnsealedLaws
<1>. QED  BY <1>1, <1>2 DEF UnsealStep, Undone, c

\* crypt_in_place(): what one end encrypts the other, in the same state, decrypts, and
\* they end in the same: whatever the key, where the keystream is, and how much it is.
THEOREM UnsealedSealed ==
  ASSUME NEW K, NEW bf \in Blowfishes(K), NEW s \in Seq(Cells)
  PROVE  /\ Unsealed(bf, Sealed(bf, s).done) = [bf |-> Sealed(bf, s).bf, done |-> s]
         /\ Sealed(bf, s).bf \in Blowfishes(K) /\ Sealed(bf, s).done \in Seq(Wireds(K))
<1>. DEFINE P(u) == Unsealed(bf, Sealed(bf, u).done) = [bf |-> Sealed(bf, u).bf, done |-> u]
            T == {u \in Seq(Cells) : P(u)}
<1>1. ASSUME NEW u \in Seq(Cells)
      PROVE  Sealed(bf, u).bf \in Blowfishes(K) /\ Sealed(bf, u).done \in Seq(Wireds(K))
  <2>1. Sealed(bf, u) \in Sealings(K)
    BY SealedLaws
  <2>. QED  BY <2>1 DEF Sealings
<1>2. ASSUME NEW q, q = <<>> PROVE q \in T
  <2>1. q \in Seq(Cells) /\ Sealed(bf, q) = Undone(bf)
    BY <1>2, EmptySeq, SealedLaws
  <2>2. Unsealed(bf, q) = Undone(bf)
    BY <1>2, UnsealedLaws
  <2>. QED  BY <1>2, <2>1, <2>2 DEF Undone
<1>3. ASSUME NEW u \in Seq(Cells), NEW c \in Cells, u \in T PROVE Append(u, c) \in T
  <2>. DEFINE y == Sealed(bf, u)
              k == KeyOf(Stepped(y.bf))
  <2>1. Append(u, c) \in Seq(Cells)
    BY AppendProperties
  <2>2. Sealed(bf, Append(u, c)) = SealStep(y, c)
    BY SealedMore
  <2>3. y.bf \in Blowfishes(K) /\ y.done \in Seq(Wireds(K)) /\ Wired(c, k) \in Wireds(K)
    BY <1>1, SteppedTypes, WiredTypes
  <2>4. Unsealed(bf, y.done) = [bf |-> y.bf, done |-> u]
    BY <1>3
  <2>. HIDE DEF y
  <2>5. Unsealed(bf, Append(y.done, Wired(c, k))) = UnsealStep(Unsealed(bf, y.done), Wired(c, k))
    BY <2>3, UnsealedMore
  <2>6. Under(Wired(c, k), k) = c
    BY UnderWired
  <2>7. Unsealed(bf, Append(y.done, Wired(c, k))) = [bf |-> Stepped(y.bf), done |-> Append(u, c)]
    BY <2>4, <2>5, <2>6 DEF UnsealStep
  <2>8. /\ Sealed(bf, Append(u, c)).bf = Stepped(y.bf)
        /\ Sealed(bf, Append(u, c)).done = Append(y.done, Wired(c, k))
    BY <2>2 DEF SealStep
  <2>. QED  BY <2>1, <2>7, <2>8
<1>4. Seq(Cells) \subseteq T
  <2>. HIDE DEF T
  <2>. QED  BY <1>2, <1>3, SeqInduct
<1>. QED  BY <1>1, <1>4

----------------------------------------------------------------------------
(* Transactions, found in what is to be sent and sealed one by one.         *)

\* The cells of transactions of I, and the whole transactions.
Plains(I) == {c \in Cells : c.i \in I /\ c.mark = 0 /\ ~c.packed}
Transactions(I) ==
  {t \in Seq(Plains(I)) :
     Len(t) >= Hdr /\ BodyFits(t[1].n) /\ Len(t) = Hdr + BodyLen(t[1].n)}

CutStep(acc, cell) ==
  LET now == Append(acc.now, cell)
  IN  IF Len(now) >= Hdr /\ BodyFits(now[1].n) /\ Len(now) = Hdr + BodyLen(now[1].n)
        THEN [whole |-> Append(acc.whole, now), now |-> <<>>]
        ELSE [acc EXCEPT !.now = now]
Cuts(I) == [whole : Seq(Transactions(I)), now : Seq(Plains(I))]
CutSteps(I) == [acc \in Cuts(I) |-> [cell \in Plains(I) |-> CutStep(acc, cell)]]
Uncut == [whole |-> <<>>, now |-> <<>>]

\* Sender::encode finds transactions cell after cell.
LEMMA CutAfter ==
  ASSUME NEW I, NEW s \in Seq(Plains(I))
  PROVE  /\ Feeds(Cuts(I), Plains(I), Uncut, s, CutSteps(I))
         /\ Cut(s) = AfterAll(Cuts(I), Uncut, s, CutSteps(I))
<1>. DEFINE D == SUBSET (DOMAIN s)
            V == Cuts(I)
            X == Plains(I)
            G == CutSteps(I)
            b == Uncut
            f == CHOOSE f : f = [P \in D |-> IF P = {} THEN b
                                             ELSE CutStep(f[P \ {Max(P)}], s[Max(P)])]
<1>1. Cut(s) = f[DOMAIN s]
  BY DEF Cut, CutStep, Uncut, FoldLeft, MapThenFoldSet
<1>2. ASSUME NEW v \in V, NEW x \in X
      PROVE  CutStep(v, x) \in V /\ CutStep(v, x) = G[v][x]
  <2>. DEFINE now == Append(v.now, x)
  <2>1. v.whole \in Seq(Transactions(I)) /\ v.now \in Seq(Plains(I))
    BY DEF Cuts
  <2>2. now \in Seq(Plains(I))
    BY <2>1, AppendProperties
  <2>. HIDE DEF now
  <2>3. CASE Len(now) >= Hdr /\ BodyFits(now[1].n) /\ Len(now) = Hdr + BodyLen(now[1].n)
    <3>1. now \in Transactions(I)
      BY <2>2, <2>3 DEF Transactions
    <3>2. Append(v.whole, now) \in Seq(Transactions(I)) /\ <<>> \in Seq(Plains(I))
      BY <2>1, <3>1, AppendProperties, EmptySeq
    <3>3. CutStep(v, x) = [whole |-> Append(v.whole, now), now |-> <<>>]
      BY <2>3 DEF CutStep, now
    <3>. QED  BY <3>2, <3>3 DEF Cuts, CutSteps
  <2>4. CASE ~(Len(now) >= Hdr /\ BodyFits(now[1].n) /\ Len(now) = Hdr + BodyLen(now[1].n))
    <3>1. CutStep(v, x) = [v EXCEPT !.now = now]
      BY <2>4 DEF CutStep, now
    <3>. QED  BY <2>2, <3>1 DEF Cuts, CutSteps
  <2>. QED  BY <2>3, <2>4
<1>3. b \in V
  BY EmptySeq DEF Uncut, Cuts
<1>. HIDE DEF f, b, V, X
<1>4. G \in [V -> [X -> V]]
  BY <1>2 DEF CutSteps, V, X
<1>. HIDE DEF G
<1>5. s \in Seq(X) /\ Feeds(V, X, b, s, G)
  BY <1>3, <1>4 DEF Feeds, X
<1>6. PICK g : FoldOver(g, V, X, b, s, G)
  BY <1>5, FoldExists
<1>7. g = [P \in D |-> IF P = {} THEN b ELSE CutStep(g[P \ {Max(P)}], s[Max(P)])]
  BY <1>2, <1>6 DEF FoldOver
<1>8. f = [P \in D |-> IF P = {} THEN b ELSE CutStep(f[P \ {Max(P)}], s[Max(P)])]
  BY <1>7 DEF f
<1>9. f[{}] = b
  BY <1>8
<1>10. ASSUME NEW k \in DOMAIN s, f[1 .. k - 1] \in V
       PROVE  f[1 .. k] = G[f[1 .. k - 1]][s[k]]
  <2>1. DOMAIN s = 1 .. Len(s) /\ Len(s) \in Nat /\ s[k] \in X
    BY <1>5, LenProperties, ElementOfSeq
  <2>2. Max(1 .. k) = k /\ (1 .. k) \ {k} = 1 .. k - 1 /\ 1 .. k # {} /\ 1 .. k \in D
    BY <2>1, MaxOfRun
  <2>3. f[1 .. k] = CutStep(f[1 .. k - 1], s[k])
    BY <1>8, <2>2
  <2>. QED  BY <1>2, <1>10, <2>1, <2>3
<1>11. f[DOMAIN s] = AfterAll(V, b, s, G)
  BY <1>5, <1>9, <1>10, FoldIsAfter
<1>. QED  BY <1>1, <1>5, <1>11 DEF V, X, G, b

\* Sender::encode: the transactions that it finds in a stream and what it keeps of it
\* are all of the stream, in order.
THEOREM CutLaw ==
  ASSUME NEW I, NEW s \in Seq(Plains(I))
  PROVE  /\ Cut(s).whole \in Seq(Transactions(I)) /\ Cut(s).now \in Seq(Plains(I))
         /\ FlattenSeq(Cut(s).whole) \in Seq(Plains(I))
         /\ FlattenSeq(Cut(s).whole) \o Cut(s).now = s
<1>. DEFINE P(u) == FlattenSeq(Cut(u).whole) \o Cut(u).now = u
            T == {u \in Seq(Plains(I)) : P(u)}
<1>1. ASSUME NEW u \in Seq(Plains(I))
      PROVE  Cut(u) \in Cuts(I) /\ Cut(u).whole \in Seq(Transactions(I)) /\ Cut(u).now \in Seq(Plains(I))
  <2>1. /\ Feeds(Cuts(I), Plains(I), Uncut, u, CutSteps(I))
        /\ Cut(u) = AfterAll(Cuts(I), Uncut, u, CutSteps(I))
    BY CutAfter
  <2>2. Cut(u) \in Cuts(I)
    BY <2>1, AfterType
  <2>. QED  BY <2>2 DEF Cuts
<1>2. ASSUME NEW ss \in Seq(Transactions(I))
      PROVE  ss \in Seq(Seq(Plains(I))) /\ FlattenSeq(ss) \in Seq(Plains(I))
  <2>1. ss \in Seq(Seq(Plains(I))) /\ <<>> \in Seq(Plains(I))
    BY SeqMonotonic, EmptySeq, Transactions(I) \subseteq Seq(Plains(I)) DEF Transactions
  <2>. QED  BY <2>1, FlattenAppend
<1>3. ASSUME NEW q, q = <<>> PROVE q \in T
  <2>1. q \in Seq(Plains(I))
    BY <1>3, EmptySeq
  <2>2. /\ Feeds(Cuts(I), Plains(I), Uncut, q, CutSteps(I))
        /\ Cut(q) = AfterAll(Cuts(I), Uncut, q, CutSteps(I))
    BY <2>1, CutAfter
  <2>3. Cut(q) = Uncut
    BY <1>3, <2>2, AfterEmpty
  <2>4. FlattenSeq(q) = q /\ q \o q = q
    BY <1>3, <2>1, FlattenEmpty, ConcatEmptySeq
  <2>5. Cut(q).whole = q /\ Cut(q).now = q
    BY <1>3, <2>3 DEF Uncut
  <2>. QED  BY <2>1, <2>4, <2>5
<1>4. ASSUME NEW u \in Seq(Plains(I)), NEW c \in Plains(I), u \in T PROVE Append(u, c) \in T
  <2>. DEFINE v == Cut(u)
              w == v.whole
              m == v.now
              now == Append(m, c)
              f == FlattenSeq(w)
  <2>1. Append(u, c) \in Seq(Plains(I)) /\ now \in Seq(Plains(I))
    BY <1>1, AppendProperties
  <2>2. /\ Feeds(Cuts(I), Plains(I), Uncut, u, CutSteps(I))
        /\ v = AfterAll(Cuts(I), Uncut, u, CutSteps(I))
        /\ Cut(Append(u, c)) = AfterAll(Cuts(I), Uncut, Append(u, c), CutSteps(I))
    BY <2>1, CutAfter
  <2>3. AfterAll(Cuts(I), Uncut, Append(u, c), CutSteps(I))
          = CutSteps(I)[AfterAll(Cuts(I), Uncut, u, CutSteps(I))][c]
    BY <2>2, AfterMore
  <2>4. Cut(Append(u, c)) = CutStep(v, c) /\ v \in Cuts(I)
    BY <1>1, <2>2, <2>3 DEF CutSteps
  <2>5. w \in Seq(Transactions(I)) /\ m \in Seq(Plains(I)) /\ f \in Seq(Plains(I)) /\ f \o m = u
    BY <1>1, <1>2, <1>4
  <2>. HIDE DEF v, f
  <2>6. f \o now = Append(u, c)
    <3>1. w \in Seq(Transactions(I)) /\ m \in Seq(Plains(I)) /\ f \in Seq(Plains(I))
      BY <2>5
    <3>. HIDE DEF m, w
    <3>2. f \o Append(m, c) = Append(f \o m, c)
      BY <3>1, ConcatAppend
    <3>. QED  BY <2>5, <3>2
  <2>. HIDE DEF now
  <2>7. CASE Len(now) >= Hdr /\ BodyFits(now[1].n) /\ Len(now) = Hdr + BodyLen(now[1].n)
    <3>1. Cut(Append(u, c)) = [whole |-> Append(w, now), now |-> <<>>]
      BY <2>4, <2>7 DEF CutStep, now
    <3>2. w \in Seq(Seq(Plains(I)))
      BY <1>2, <2>5
    <3>3. FlattenSeq(Append(w, now)) = f \o now
      <4>. HIDE DEF w
      <4>. QED  BY <2>1, <3>2, FlattenAppend DEF f
    <3>4. Append(u, c) \o <<>> = Append(u, c)
      BY <2>1, ConcatEmptySeq
    <3>5. Cut(Append(u, c)).whole = Append(w, now) /\ Cut(Append(u, c)).now = <<>>
      BY <3>1
    <3>. QED  BY <2>1, <2>6, <3>3, <3>4, <3>5
  <2>8. CASE ~(Len(now) >= Hdr /\ BodyFits(now[1].n) /\ Len(now) = Hdr + BodyLen(now[1].n))
    <3>1. Cut(Append(u, c)) = [v EXCEPT !.now = now]
      BY <2>4, <2>8 DEF CutStep, now
    <3>2. Cut(Append(u, c)).whole = w /\ Cut(Append(u, c)).now = now
      BY <2>4, <3>1 DEF Cuts
    <3>. QED  BY <2>1, <2>6, <3>2 DEF f
  <2>. QED  BY <2>7, <2>8
<1>5. Seq(Plains(I)) \subseteq T
  <2>. HIDE DEF T
  <2>. QED  BY <1>3, <1>4, SeqInduct
<1>. QED  BY <1>1, <1>2, <1>5

\* A transaction's header, with its mark, and its body.
HeaderOf(frame, rounds) == [SubSeq(frame, 1, Hdr) EXCEPT ![1].mark = rounds]
BodyOf(frame) == SubSeq(frame, Hdr + 1, Len(frame))

HasParts(I, frame, m, h, t, b) ==
  /\ h \in Seq(Cells) /\ Len(h) = Hdr /\ h[1].mark = m /\ h[1].n = frame[1].n
  /\ [h EXCEPT ![1].mark = 0] = t
  /\ b \in Seq(Cells) /\ Len(b) = BodyLen(frame[1].n) /\ t \in Seq(Cells) /\ t \o b = frame
  /\ frame[1] \in Plains(I) /\ BodyFits(frame[1].n) /\ BodyLen(frame[1].n) \in Nat

LEMMA HeadAndBody ==
  ASSUME NEW I, NEW frame \in Transactions(I), NEW m \in Nat
  PROVE  HasParts(I, frame, m, HeaderOf(frame, m), SubSeq(frame, 1, Hdr), BodyOf(frame))
<1>. DEFINE t == SubSeq(frame, 1, Hdr)
            n == frame[1].n
<1>1. Hdr \in Nat \ {0} /\ CountLen \in Nat
  BY TransportAssumption
<1>2. /\ frame \in Seq(Plains(I)) /\ Len(frame) >= Hdr /\ BodyFits(n)
      /\ Len(frame) = Hdr + BodyLen(n)
  BY DEF Transactions
<1>3. frame \in Seq(Cells) /\ Len(frame) \in Nat
  BY <1>2, SeqMonotonic, LenProperties, Plains(I) \subseteq Cells DEF Plains
<1>4. 1 \in 1 .. Len(frame) /\ Hdr \in 0 .. Len(frame) /\ 1 \in 1 .. Hdr
  BY <1>1, <1>2, <1>3, SMT
<1>5. frame[1] \in Plains(I)
  BY <1>2, <1>4, ElementOfSeq
<1>6. frame[1] \in Cells /\ frame[1].mark = 0 /\ n \in Nat
  BY <1>5 DEF Plains, Cells
<1>7. BodyLen(n) \in Nat
  BY <1>1, <1>2, <1>6 DEF BodyFits, BodyLen
<1>8. /\ \A i \in 1 .. Hdr : frame[i] \in Cells
      /\ \A i \in Hdr + 1 .. Len(frame) : frame[i] \in Cells
  BY <1>1, <1>2, <1>3, ElementOfSeq, SMT
<1>9. t \in Seq(Cells) /\ Len(t) = Hdr /\ t[1] = frame[1]
  <2>1. /\ t \in Seq(Cells) /\ Len(t) = IF 1 <= Hdr THEN Hdr - 1 + 1 ELSE 0
        /\ \A i \in 1 .. Hdr - 1 + 1 : t[i] = frame[1 + i - 1]
    BY <1>1, <1>8, SubSeqProperties
  <2>. QED  BY <1>1, <2>1, SMT
<1>10. BodyOf(frame) \in Seq(Cells) /\ Len(BodyOf(frame)) = BodyLen(n)
  <2>1. Hdr + 1 \in Int /\ Len(frame) \in Int
    BY <1>1, <1>3, SMT
  <2>2. /\ SubSeq(frame, Hdr + 1, Len(frame)) \in Seq(Cells)
        /\ Len(SubSeq(frame, Hdr + 1, Len(frame)))
             = IF Hdr + 1 <= Len(frame) THEN Len(frame) - (Hdr + 1) + 1 ELSE 0
    BY <1>8, <2>1, SubSeqProperties
  <2>3. (IF Hdr + 1 <= Len(frame) THEN Len(frame) - (Hdr + 1) + 1 ELSE 0) = BodyLen(n)
    BY <1>1, <1>2, <1>3, <1>7, SMT
  <2>. QED  BY <2>2, <2>3 DEF BodyOf
<1>11. t \o BodyOf(frame) = frame
  <2>1. /\ 1 \in 1 .. Len(frame) + 1 /\ Hdr \in 1 - 1 .. Len(frame)
        /\ Len(frame) \in Hdr .. Len(frame)
    BY <1>1, <1>3, <1>4, SMT
  <2>2. SubSeq(frame, 1, Hdr) \o SubSeq(frame, Hdr + 1, Len(frame)) = SubSeq(frame, 1, Len(frame))
    BY <1>3, <2>1, ConcatAdjacentSubSeq
  <2>. QED  BY <1>3, <2>2, SubSeqFull DEF BodyOf
<1>. HIDE DEF t
<1>12. /\ HeaderOf(frame, m) \in Seq(Cells) /\ Len(HeaderOf(frame, m)) = Hdr
       /\ HeaderOf(frame, m)[1].mark = m /\ HeaderOf(frame, m)[1].n = n
       /\ [HeaderOf(frame, m) EXCEPT ![1].mark = 0] = t
  <2>. DEFINE c == [t[1] EXCEPT !.mark = m]
              h == [t EXCEPT ![1] = c]
  <2>1. c \in Cells /\ c.mark = m /\ c.n = n /\ [c EXCEPT !.mark = 0] = t[1]
    BY <1>6, <1>9 DEF Cells
  <2>. HIDE DEF c
  <2>2. /\ h \in Seq(Cells) /\ Len(h) = Hdr /\ h[1] = c
        /\ \A j \in 1 .. Hdr : h[j] = IF j = 1 THEN c ELSE t[j]
    BY <1>4, <1>9, <2>1, ExceptSeq
  <2>3. HeaderOf(frame, m) = h
    BY DEF HeaderOf, h, c, t
  <2>. HIDE DEF h
  <2>4. [h EXCEPT ![1].mark = 0] = [h EXCEPT ![1] = t[1]]
    BY <2>1, <2>2
  <2>5. t[1] \in Cells
    BY <1>6, <1>9
  <2>6. /\ [h EXCEPT ![1] = t[1]] \in Seq(Cells)
        /\ Len([h EXCEPT ![1] = t[1]]) = Hdr
        /\ \A j \in 1 .. Hdr : [h EXCEPT ![1] = t[1]][j] = IF j = 1 THEN t[1] ELSE h[j]
    BY <1>4, <2>2, <2>5, ExceptSeq
  <2>7. [h EXCEPT ![1] = t[1]] = t
    <3>. DEFINE u == [h EXCEPT ![1] = t[1]]
    <3>1. \A j \in 1 .. Hdr : u[j] = t[j]
      BY <2>2, <2>6
    <3>. HIDE DEF u
    <3>2. u \in Seq(Cells) /\ Len(u) = Len(t) /\ Len(u) = Hdr
      BY <1>9, <2>6 DEF u
    <3>3. u = t
      BY <1>9, <3>1, <3>2, SeqEqual
    <3>. QED  BY <3>3 DEF u
  <2>. QED  BY <2>1, <2>2, <2>3, <2>4, <2>7
<1>. QED  BY <1>2, <1>5, <1>7, <1>9, <1>10, <1>11, <1>12 DEF t, HasParts

\* What SealOne does, by the two runs of the cipher in it.
SealsOne(K, acc, frame, m, x, y) ==
  /\ SealOne(acc, frame, m) = [bf |-> y.bf, done |-> acc.done \o x.done \o y.done]
  /\ SealOne(acc, frame, m) \in Sealings(K)
  /\ x.bf \in Blowfishes(K) /\ x.done \in Seq(Wireds(K))
  /\ y.bf \in Blowfishes(K) /\ y.done \in Seq(Wireds(K))

LEMMA SealOneIs ==
  ASSUME NEW K, NEW I, NEW acc \in Sealings(K), NEW frame \in Transactions(I), NEW m \in Nat,
         NEW x, x = Sealed(acc.bf, HeaderOf(frame, m)),
         NEW y, y = Sealed(Turned(x.bf, m), BodyOf(frame))
  PROVE  SealsOne(K, acc, frame, m, x, y)
<1>1. acc.bf \in Blowfishes(K) /\ acc.done \in Seq(Wireds(K))
  BY DEF Sealings
<1>2. HeaderOf(frame, m) \in Seq(Cells) /\ BodyOf(frame) \in Seq(Cells)
  BY HeadAndBody DEF HasParts
<1>3. x.bf \in Blowfishes(K) /\ x.done \in Seq(Wireds(K))
  BY <1>1, <1>2, UnsealedSealed
<1>4. Turned(x.bf, m) \in Blowfishes(K)
  BY <1>3, TurnedTypes
<1>5. y.bf \in Blowfishes(K) /\ y.done \in Seq(Wireds(K))
  BY <1>2, <1>4, UnsealedSealed
<1>6. SealOne(acc, frame, m) = [bf |-> y.bf, done |-> acc.done \o x.done \o y.done]
  BY DEF SealOne, HeaderOf, BodyOf
<1>7. acc.done \o x.done \o y.done \in Seq(Wireds(K))
  <2>. DEFINE a == acc.done
              b == x.done
              c == y.done
  <2>1. a \in Seq(Wireds(K)) /\ b \in Seq(Wireds(K)) /\ c \in Seq(Wireds(K))
    BY <1>1, <1>3, <1>5
  <2>. HIDE DEF a, b, c
  <2>2. a \o b \in Seq(Wireds(K))
    BY <2>1, ConcatProperties
  <2>3. (a \o b) \o c \in Seq(Wireds(K))
    BY <2>1, <2>2, ConcatProperties
  <2>. QED  BY <2>3 DEF a, b, c
<1>8. [bf |-> y.bf, done |-> acc.done \o x.done \o y.done] \in Sealings(K)
  BY <1>5, <1>7 DEF Sealings
<1>. QED  BY <1>3, <1>5, <1>6, <1>8 DEF SealsOne

\* One after another, as SealFrames folds them.
SealedFrames(bf, frames, rounds) ==
  FoldLeft(LAMBDA acc, frame : SealOne(acc, frame, rounds[frame[1].i]),
           [bf |-> bf, done |-> <<>>], frames)
FrameSteps(K, I, rounds) ==
  [acc \in Sealings(K) |->
     [frame \in Transactions(I) |-> SealOne(acc, frame, rounds[frame[1].i])]]

LEMMA RoundsOf ==
  ASSUME NEW I, NEW frame \in Transactions(I), NEW rounds \in [I -> 0 .. MaxRounds]
  PROVE  rounds[frame[1].i] \in 0 .. MaxRounds /\ rounds[frame[1].i] \in Nat
<1>1. frame[1] \in Plains(I)
  BY HeadAndBody, 0 \in Nat DEF HasParts
<1>2. frame[1].i \in I
  BY <1>1 DEF Plains
<1>. QED  BY <1>2

\* The fold over whole transactions is SealOne, one after another.
LEMMA FramesAfter ==
  ASSUME NEW K, NEW I, NEW rounds \in [I -> 0 .. MaxRounds], NEW bf \in Blowfishes(K), NEW s \in Seq(Transactions(I))
  PROVE  /\ Feeds(Sealings(K), Transactions(I), Undone(bf), s, FrameSteps(K, I, rounds))
         /\ SealedFrames(bf, s, rounds) = AfterAll(Sealings(K), Undone(bf), s, FrameSteps(K, I, rounds))
<1>. DEFINE D == SUBSET (DOMAIN s)
            V == Sealings(K)
            X == Transactions(I)
            G == FrameSteps(K, I, rounds)
            b == Undone(bf)
            f == CHOOSE f : f = [P \in D |-> IF P = {} THEN b
                                             ELSE SealOne(f[P \ {Max(P)}], s[Max(P)], rounds[s[Max(P)][1].i])]
<1>1. SealedFrames(bf, s, rounds) = f[DOMAIN s]
  BY DEF SealedFrames, Undone, FoldLeft, MapThenFoldSet
<1>2. ASSUME NEW v \in V, NEW x \in X
      PROVE  SealOne(v, x, rounds[x[1].i]) \in V /\ SealOne(v, x, rounds[x[1].i]) = G[v][x]
  <2>1. rounds[x[1].i] \in Nat
    BY RoundsOf
  <2>. DEFINE m == rounds[x[1].i]
              y == Sealed(v.bf, HeaderOf(x, m))
              z == Sealed(Turned(y.bf, m), BodyOf(x))
  <2>2. SealOne(v, x, rounds[x[1].i]) \in Sealings(K)
    <3>1. y = Sealed(v.bf, HeaderOf(x, m)) /\ z = Sealed(Turned(y.bf, m), BodyOf(x)) /\ m \in Nat
      BY <2>1
    <3>. HIDE DEF m, y, z
    <3>2. SealsOne(K, v, x, m, y, z)
      BY <3>1, SealOneIs
    <3>3. SealOne(v, x, m) \in Sealings(K)
      BY <3>2, Zenon DEF SealsOne
    <3>. QED  BY <3>3 DEF m
  <2>. QED  BY <2>2 DEF FrameSteps
<1>3. b \in V
  BY EmptySeq DEF Undone, Sealings
<1>. HIDE DEF f, b, V, X
<1>4. G \in [V -> [X -> V]]
  BY <1>2 DEF FrameSteps, V, X
<1>. HIDE DEF G
<1>5. s \in Seq(X) /\ Feeds(V, X, b, s, G)
  BY <1>3, <1>4 DEF Feeds, X
<1>6. PICK g : FoldOver(g, V, X, b, s, G)
  BY <1>5, FoldExists
<1>7. g = [P \in D |-> IF P = {} THEN b ELSE SealOne(g[P \ {Max(P)}], s[Max(P)], rounds[s[Max(P)][1].i])]
  BY <1>2, <1>6 DEF FoldOver
<1>8. f = [P \in D |-> IF P = {} THEN b ELSE SealOne(f[P \ {Max(P)}], s[Max(P)], rounds[s[Max(P)][1].i])]
  BY <1>7 DEF f
<1>9. f[{}] = b
  BY <1>8
<1>10. ASSUME NEW k \in DOMAIN s, f[1 .. k - 1] \in V
       PROVE  f[1 .. k] = G[f[1 .. k - 1]][s[k]]
  <2>1. DOMAIN s = 1 .. Len(s) /\ Len(s) \in Nat /\ s[k] \in X
    BY <1>5, LenProperties, ElementOfSeq
  <2>2. Max(1 .. k) = k /\ (1 .. k) \ {k} = 1 .. k - 1 /\ 1 .. k # {} /\ 1 .. k \in D
    BY <2>1, MaxOfRun
  <2>3. f[1 .. k] = SealOne(f[1 .. k - 1], s[k], rounds[s[k][1].i])
    BY <1>8, <2>2
  <2>. QED  BY <1>2, <1>10, <2>1, <2>3
<1>11. f[DOMAIN s] = AfterAll(V, b, s, G)
  BY <1>5, <1>9, <1>10, FoldIsAfter
<1>. QED  BY <1>1, <1>5, <1>11 DEF V, X, G, b

LEMMA FramesLaws ==
  ASSUME NEW K, NEW I, NEW rounds \in [I -> 0 .. MaxRounds], NEW bf \in Blowfishes(K),
         NEW s \in Seq(Transactions(I))
  PROVE  /\ s = <<>> => SealedFrames(bf, s, rounds) = Undone(bf)
         /\ SealedFrames(bf, s, rounds) \in Sealings(K)
         /\ \A x \in Transactions(I) :
              SealedFrames(bf, Append(s, x), rounds)
                = SealOne(SealedFrames(bf, s, rounds), x, rounds[x[1].i])
<1>. DEFINE V == Sealings(K)
            X == Transactions(I)
            b == Undone(bf)
            G == FrameSteps(K, I, rounds)
<1>1. ASSUME NEW t \in Seq(X)
      PROVE  Feeds(V, X, b, t, G) /\ SealedFrames(bf, t, rounds) = AfterAll(V, b, t, G)
  BY FramesAfter
<1>. HIDE DEF b
<1>2. Feeds(V, X, b, s, G) /\ SealedFrames(bf, s, rounds) = AfterAll(V, b, s, G)
  BY <1>1
<1>3. ASSUME s = <<>> PROVE SealedFrames(bf, s, rounds) = b
  BY <1>2, <1>3, AfterEmpty
<1>4. SealedFrames(bf, s, rounds) \in V
  BY <1>2, AfterType
<1>5. ASSUME NEW x \in X
      PROVE  SealedFrames(bf, Append(s, x), rounds)
               = SealOne(SealedFrames(bf, s, rounds), x, rounds[x[1].i])
  <2>1. Append(s, x) \in Seq(X)
    BY AppendProperties
  <2>2. SealedFrames(bf, Append(s, x), rounds) = AfterAll(V, b, Append(s, x), G)
    BY <1>1, <2>1
  <2>3. AfterAll(V, b, Append(s, x), G) = G[AfterAll(V, b, s, G)][x]
    BY <1>2, AfterMore
  <2>. QED  BY <1>2, <1>4, <2>2, <2>3 DEF FrameSteps
<1>. QED  BY <1>3, <1>4, <1>5 DEF b

LEMMA FramesNone ==
  ASSUME NEW K, NEW I, NEW rounds \in [I -> 0 .. MaxRounds], NEW bf \in Blowfishes(K),
         NEW q, q = <<>>
  PROVE  SealedFrames(bf, q, rounds) = Undone(bf)
<1>1. q \in Seq(Transactions(I))
  BY EmptySeq
<1>. DEFINE b == Undone(bf)
            G == FrameSteps(K, I, rounds)
<1>2. /\ Feeds(Sealings(K), Transactions(I), b, q, G)
      /\ SealedFrames(bf, q, rounds) = AfterAll(Sealings(K), b, q, G)
  BY <1>1, FramesAfter
<1>. HIDE DEF b, G
<1>3. AfterAll(Sealings(K), b, q, G) = b
  BY <1>2, AfterEmpty
<1>. QED  BY <1>2, <1>3 DEF b

----------------------------------------------------------------------------
(* Receiving transactions with their marks, cell after cell.                *)

Receivers(K) ==
  [cipher : Ciphers \cup {"none"}, compression : Compressions \cup {"none"},
   bf : Blowfishes(K), hdr : Seq(Cells), body : Nat, key : K, counter : Nat,
   pending : Seq(Wireds(K)), held : Seq(Cells), ok : BOOLEAN]
Openings(K) == [r : Receivers(K), out : Seq(Cells)]
Begun(r) == [r |-> r, out |-> <<>>]
FramedSteps(K) == [acc \in Openings(K) |-> [w \in Wireds(K) |-> OpenFramed(acc, w)]]

\* The loop's step, each way it goes.
FramedStep(K, acc, w, bf, c, hdr) ==
  /\ ~acc.r.ok => OpenFramed(acc, w) = acc
  /\ acc.r.ok /\ acc.r.body > 0 =>
       OpenFramed(acc, w) =
         [r |-> [acc.r EXCEPT !.bf = bf, !.body = @ - 1], out |-> Append(acc.out, c)]
  /\ acc.r.ok /\ ~(acc.r.body > 0) /\ Len(hdr) < Hdr =>
       OpenFramed(acc, w) = [r |-> [acc.r EXCEPT !.bf = bf, !.hdr = hdr], out |-> acc.out]
  /\ acc.r.ok /\ ~(acc.r.body > 0) /\ ~(Len(hdr) < Hdr)
       /\ (hdr[1].mark > MaxRounds \/ ~BodyFits(hdr[1].n)) =>
       OpenFramed(acc, w) =
         [r |-> [acc.r EXCEPT !.bf = bf, !.hdr = hdr, !.ok = FALSE], out |-> acc.out]
  /\ acc.r.ok /\ ~(acc.r.body > 0) /\ ~(Len(hdr) < Hdr)
       /\ ~(hdr[1].mark > MaxRounds \/ ~BodyFits(hdr[1].n)) =>
       OpenFramed(acc, w) =
         [r |-> Unmarked([acc.r EXCEPT !.bf = bf], hdr),
          out |-> acc.out \o [hdr EXCEPT ![1].mark = 0]]
  /\ bf \in Blowfishes(K) /\ c \in Cells /\ hdr \in Seq(Cells)
  /\ Len(hdr) = Len(acc.r.hdr) + 1

LEMMA OpenFramedIs ==
  ASSUME NEW K, NEW acc \in Openings(K), NEW w \in Wireds(K)
  PROVE  FramedStep(K, acc, w, Stepped(acc.r.bf), Under(w, KeyOf(Stepped(acc.r.bf))),
                    Append(acc.r.hdr, Under(w, KeyOf(Stepped(acc.r.bf)))))
<1>. DEFINE bf == Stepped(acc.r.bf)
            c == Under(w, KeyOf(bf))
            hdr == Append(acc.r.hdr, c)
<1>1. acc.r \in Receivers(K) /\ acc.out \in Seq(Cells) /\ acc = [r |-> acc.r, out |-> acc.out]
  BY DEF Openings
<1>2. acc.r.bf \in Blowfishes(K) /\ acc.r.hdr \in Seq(Cells)
  BY <1>1 DEF Receivers
<1>3. bf \in Blowfishes(K) /\ c \in Cells /\ hdr \in Seq(Cells) /\ Len(hdr) = Len(acc.r.hdr) + 1
  BY <1>2, SteppedTypes, UnderTypes, AppendProperties
<1>4. Unsealed(acc.r.bf, <<w>>) = [bf |-> bf, done |-> <<c>>]
  BY <1>2, UnsealedOne
<1>5. Unsealed(acc.r.bf, <<w>>).bf = bf /\ Unsealed(acc.r.bf, <<w>>).done[1] = c
  BY <1>4
<1>. DEFINE r == [acc.r EXCEPT !.bf = bf]
<1>6. OpenFramed(acc, w) =
        IF ~acc.r.ok THEN acc
        ELSE IF acc.r.body > 0
          THEN [r |-> [r EXCEPT !.body = @ - 1], out |-> Append(acc.out, c)]
        ELSE IF Len(hdr) < Hdr THEN [acc EXCEPT !.r = [r EXCEPT !.hdr = hdr]]
        ELSE IF hdr[1].mark > MaxRounds \/ ~BodyFits(hdr[1].n)
          THEN [acc EXCEPT !.r = [r EXCEPT !.hdr = hdr, !.ok = FALSE]]
        ELSE [r |-> Unmarked(r, hdr), out |-> acc.out \o [hdr EXCEPT ![1].mark = 0]]
  BY <1>5 DEF OpenFramed
<1>7. /\ [r EXCEPT !.body = @ - 1] = [acc.r EXCEPT !.bf = bf, !.body = @ - 1]
      /\ [r EXCEPT !.hdr = hdr] = [acc.r EXCEPT !.bf = bf, !.hdr = hdr]
      /\ [r EXCEPT !.hdr = hdr, !.ok = FALSE] = [acc.r EXCEPT !.bf = bf, !.hdr = hdr, !.ok = FALSE]
  BY <1>1 DEF Receivers
<1>8. \A v : [acc EXCEPT !.r = v] = [r |-> v, out |-> acc.out]
  BY <1>1
<1>9. /\ ~acc.r.ok => OpenFramed(acc, w) = acc
      /\ acc.r.ok /\ acc.r.body > 0 =>
           OpenFramed(acc, w) =
             [r |-> [acc.r EXCEPT !.bf = bf, !.body = @ - 1], out |-> Append(acc.out, c)]
      /\ acc.r.ok /\ ~(acc.r.body > 0) /\ Len(hdr) < Hdr =>
           OpenFramed(acc, w) = [r |-> [acc.r EXCEPT !.bf = bf, !.hdr = hdr], out |-> acc.out]
      /\ acc.r.ok /\ ~(acc.r.body > 0) /\ ~(Len(hdr) < Hdr)
           /\ (hdr[1].mark > MaxRounds \/ ~BodyFits(hdr[1].n)) =>
           OpenFramed(acc, w) =
             [r |-> [acc.r EXCEPT !.bf = bf, !.hdr = hdr, !.ok = FALSE], out |-> acc.out]
  BY <1>6, <1>7, <1>8, Zenon
<1>10. acc.r.ok /\ ~(acc.r.body > 0) /\ ~(Len(hdr) < Hdr)
         /\ ~(hdr[1].mark > MaxRounds \/ ~BodyFits(hdr[1].n)) =>
         OpenFramed(acc, w) =
           [r |-> Unmarked(r, hdr), out |-> acc.out \o [hdr EXCEPT ![1].mark = 0]]
  BY <1>6, Zenon
<1>. HIDE DEF bf, c, hdr
<1>11. FramedStep(K, acc, w, bf, c, hdr)
  BY <1>3, <1>9, <1>10, Zenon DEF FramedStep
<1>. QED  BY <1>11 DEF bf, c, hdr

LEMMA MarkTakenOut ==
  ASSUME NEW hdr \in Seq(Cells), ~(Len(hdr) < Hdr)
  PROVE  [hdr EXCEPT ![1].mark = 0] \in Seq(Cells) /\ hdr[1].mark \in Nat /\ hdr[1].n \in Nat
<1>. DEFINE c == [hdr[1] EXCEPT !.mark = 0]
<1>1. Len(hdr) \in Nat /\ 1 \in 1 .. Len(hdr)
  BY LenProperties, TransportAssumption, SMT
<1>2. hdr[1] \in Cells
  BY <1>1, ElementOfSeq
<1>3. c \in Cells /\ hdr[1].mark \in Nat /\ hdr[1].n \in Nat
  BY <1>2 DEF Cells
<1>. HIDE DEF c
<1>4. [hdr EXCEPT ![1] = c] \in Seq(Cells)
  BY <1>1, <1>3, ExceptSeq
<1>. QED  BY <1>3, <1>4 DEF c

LEMMA OpenFramedType ==
  ASSUME NEW K, NEW acc \in Openings(K), NEW w \in Wireds(K)
  PROVE  OpenFramed(acc, w) \in Openings(K)
<1>. DEFINE bf == Stepped(acc.r.bf)
            c == Under(w, KeyOf(bf))
            hdr == Append(acc.r.hdr, c)
            r == [acc.r EXCEPT !.bf = bf]
            bad == hdr[1].mark > MaxRounds \/ ~BodyFits(hdr[1].n)
<1>1. acc.r \in Receivers(K) /\ acc.out \in Seq(Cells)
  BY DEF Openings
<1>0. FramedStep(K, acc, w, bf, c, hdr)
  BY OpenFramedIs
<1>. HIDE DEF bf, c, hdr
<1>2. bf \in Blowfishes(K) /\ c \in Cells /\ hdr \in Seq(Cells)
  BY <1>0 DEF FramedStep
<1>3. r \in Receivers(K)
  BY <1>1, <1>2 DEF Receivers
<1>4. /\ ~acc.r.ok => OpenFramed(acc, w) = acc
      /\ acc.r.ok /\ acc.r.body > 0 =>
           OpenFramed(acc, w) =
             [r |-> [acc.r EXCEPT !.bf = bf, !.body = @ - 1], out |-> Append(acc.out, c)]
      /\ acc.r.ok /\ ~(acc.r.body > 0) /\ Len(hdr) < Hdr =>
           OpenFramed(acc, w) = [r |-> [acc.r EXCEPT !.bf = bf, !.hdr = hdr], out |-> acc.out]
      /\ acc.r.ok /\ ~(acc.r.body > 0) /\ ~(Len(hdr) < Hdr) /\ bad =>
           OpenFramed(acc, w) =
             [r |-> [acc.r EXCEPT !.bf = bf, !.hdr = hdr, !.ok = FALSE], out |-> acc.out]
      /\ acc.r.ok /\ ~(acc.r.body > 0) /\ ~(Len(hdr) < Hdr) /\ ~bad =>
           OpenFramed(acc, w) =
             [r |-> Unmarked(r, hdr), out |-> acc.out \o [hdr EXCEPT ![1].mark = 0]]
  BY <1>0, Zenon DEF FramedStep
<1>5. ~(Len(hdr) < Hdr) =>
        [hdr EXCEPT ![1].mark = 0] \in Seq(Cells) /\ hdr[1].mark \in Nat /\ hdr[1].n \in Nat
  BY <1>2, MarkTakenOut
<1>6. CASE acc.r.ok /\ acc.r.body > 0
  <2>1. Append(acc.out, c) \in Seq(Cells)
    BY <1>1, <1>2, AppendProperties
  <2>2. acc.r.body - 1 \in Nat
    BY <1>1, <1>6 DEF Receivers
  <2>3. [acc.r EXCEPT !.bf = bf, !.body = @ - 1] \in Receivers(K)
    BY <1>1, <1>2, <2>2 DEF Receivers
  <2>. QED  BY <1>4, <1>6, <2>1, <2>3 DEF Openings
<1>7. CASE acc.r.ok /\ ~(acc.r.body > 0) /\ Len(hdr) < Hdr
  <2>1. [acc.r EXCEPT !.bf = bf, !.hdr = hdr] \in Receivers(K)
    BY <1>1, <1>2 DEF Receivers
  <2>. QED  BY <1>1, <1>4, <1>7, <2>1 DEF Openings
<1>8. CASE acc.r.ok /\ ~(acc.r.body > 0) /\ ~(Len(hdr) < Hdr) /\ bad
  <2>1. [acc.r EXCEPT !.bf = bf, !.hdr = hdr, !.ok = FALSE] \in Receivers(K)
    BY <1>1, <1>2 DEF Receivers
  <2>. QED  BY <1>1, <1>4, <1>8, <2>1 DEF Openings
<1>9. CASE acc.r.ok /\ ~(acc.r.body > 0) /\ ~(Len(hdr) < Hdr) /\ ~bad
  <2>1. Turned(bf, hdr[1].mark) \in Blowfishes(K)
    BY <1>2, <1>5, <1>9, TurnedTypes
  <2>2. BodyLen(hdr[1].n) \in Nat
    BY <1>5, <1>9, TransportAssumption DEF BodyFits, BodyLen
  <2>3. Unmarked(r, hdr) = [acc.r EXCEPT !.bf = Turned(bf, hdr[1].mark), !.hdr = <<>>,
                                         !.body = BodyLen(hdr[1].n)]
    BY <1>1 DEF Unmarked, Receivers
  <2>4. Unmarked(r, hdr) \in Receivers(K)
    <3>. DEFINE tb == Turned(bf, hdr[1].mark)
                bl == BodyLen(hdr[1].n)
    <3>1. tb \in Blowfishes(K) /\ bl \in Nat /\ <<>> \in Seq(Cells)
      BY <2>1, <2>2, EmptySeq
    <3>2. Unmarked(r, hdr) = [acc.r EXCEPT !.bf = tb, !.hdr = <<>>, !.body = bl]
      BY <2>3
    <3>. HIDE DEF tb, bl, r
    <3>. QED  BY <1>1, <3>1, <3>2 DEF Receivers
  <2>5. acc.out \o [hdr EXCEPT ![1].mark = 0] \in Seq(Cells)
    BY <1>1, <1>5, <1>9, ConcatProperties
  <2>6. OpenFramed(acc, w) =
          [r |-> Unmarked(r, hdr), out |-> acc.out \o [hdr EXCEPT ![1].mark = 0]]
    BY <1>4, <1>9
  <2>. HIDE DEF r
  <2>. QED  BY <2>4, <2>5, <2>6 DEF Openings
<1>. QED  BY <1>4, <1>6, <1>7, <1>8, <1>9

\* Receiver::decode's loop, cell after cell.
LEMMA FramedAfter ==
  ASSUME NEW K, NEW r \in Receivers(K), NEW s \in Seq(Wireds(K))
  PROVE  /\ Feeds(Openings(K), Wireds(K), Begun(r), s, FramedSteps(K))
         /\ OpenFrames(r, s) = AfterAll(Openings(K), Begun(r), s, FramedSteps(K))
<1>. DEFINE D == SUBSET (DOMAIN s)
            V == Openings(K)
            X == Wireds(K)
            G == FramedSteps(K)
            b == Begun(r)
            f == CHOOSE f : f = [P \in D |-> IF P = {} THEN b
                                             ELSE OpenFramed(f[P \ {Max(P)}], s[Max(P)])]
<1>1. OpenFrames(r, s) = f[DOMAIN s]
  BY DEF OpenFrames, Begun, FoldLeft, MapThenFoldSet
<1>2. ASSUME NEW v \in V, NEW x \in X
      PROVE  OpenFramed(v, x) \in V /\ OpenFramed(v, x) = G[v][x]
  BY <1>2, OpenFramedType DEF FramedSteps
<1>3. b \in V
  BY EmptySeq DEF Begun, Openings
<1>. HIDE DEF f, b, V, X
<1>4. G \in [V -> [X -> V]]
  BY <1>2 DEF FramedSteps, V, X
<1>. HIDE DEF G
<1>5. s \in Seq(X) /\ Feeds(V, X, b, s, G)
  BY <1>3, <1>4 DEF Feeds, X
<1>6. PICK g : FoldOver(g, V, X, b, s, G)
  BY <1>5, FoldExists
<1>7. g = [P \in D |-> IF P = {} THEN b ELSE OpenFramed(g[P \ {Max(P)}], s[Max(P)])]
  BY <1>2, <1>6 DEF FoldOver
<1>8. f = [P \in D |-> IF P = {} THEN b ELSE OpenFramed(f[P \ {Max(P)}], s[Max(P)])]
  BY <1>7 DEF f
<1>9. f[{}] = b
  BY <1>8
<1>10. ASSUME NEW k \in DOMAIN s, f[1 .. k - 1] \in V
       PROVE  f[1 .. k] = G[f[1 .. k - 1]][s[k]]
  <2>1. DOMAIN s = 1 .. Len(s) /\ Len(s) \in Nat /\ s[k] \in X
    BY <1>5, LenProperties, ElementOfSeq
  <2>2. Max(1 .. k) = k /\ (1 .. k) \ {k} = 1 .. k - 1 /\ 1 .. k # {} /\ 1 .. k \in D
    BY <2>1, MaxOfRun
  <2>3. f[1 .. k] = OpenFramed(f[1 .. k - 1], s[k])
    BY <1>8, <2>2
  <2>. QED  BY <1>2, <1>10, <2>1, <2>3
<1>11. f[DOMAIN s] = AfterAll(V, b, s, G)
  BY <1>5, <1>9, <1>10, FoldIsAfter
<1>. QED  BY <1>1, <1>5, <1>11 DEF V, X, G, b

LEMMA FramedLaws ==
  ASSUME NEW K, NEW r \in Receivers(K), NEW s \in Seq(Wireds(K))
  PROVE  /\ s = <<>> => OpenFrames(r, s) = Begun(r)
         /\ OpenFrames(r, s) \in Openings(K)
         /\ \A x \in Wireds(K) : OpenFrames(r, Append(s, x)) = OpenFramed(OpenFrames(r, s), x)
<1>. DEFINE V == Openings(K)
            X == Wireds(K)
            b == Begun(r)
            G == FramedSteps(K)
<1>1. ASSUME NEW t \in Seq(X)
      PROVE  Feeds(V, X, b, t, G) /\ OpenFrames(r, t) = AfterAll(V, b, t, G)
  BY FramedAfter
<1>. HIDE DEF b
<1>2. Feeds(V, X, b, s, G) /\ OpenFrames(r, s) = AfterAll(V, b, s, G)
  BY <1>1
<1>3. ASSUME s = <<>> PROVE OpenFrames(r, s) = b
  BY <1>2, <1>3, AfterEmpty
<1>4. OpenFrames(r, s) \in V
  BY <1>2, AfterType
<1>5. ASSUME NEW x \in X PROVE OpenFrames(r, Append(s, x)) = OpenFramed(OpenFrames(r, s), x)
  <2>1. Append(s, x) \in Seq(X)
    BY AppendProperties
  <2>2. OpenFrames(r, Append(s, x)) = AfterAll(V, b, Append(s, x), G)
    BY <1>1, <2>1
  <2>3. AfterAll(V, b, Append(s, x), G) = G[AfterAll(V, b, s, G)][x]
    BY <1>2, AfterMore
  <2>. QED  BY <1>2, <1>4, <2>2, <2>3 DEF FramedSteps
<1>. QED  BY <1>3, <1>4, <1>5 DEF b

\* What has come out before makes no difference to what comes out next.
Shifts(acc, w, p, z) ==
  OpenFramed([r |-> acc.r, out |-> p \o acc.out], w) = [r |-> z.r, out |-> p \o z.out]

LEMMA OpenFramedShift ==
  ASSUME NEW K, NEW acc \in Openings(K), NEW w \in Wireds(K), NEW p \in Seq(Cells)
  PROVE  Shifts(acc, w, p, OpenFramed(acc, w))
<1>. DEFINE z == OpenFramed(acc, w)
            bf == Stepped(acc.r.bf)
            c == Under(w, KeyOf(bf))
            hdr == Append(acc.r.hdr, c)
            o == acc.out
            acc2 == [r |-> acc.r, out |-> p \o o]
            bad == hdr[1].mark > MaxRounds \/ ~BodyFits(hdr[1].n)
<1>. SUFFICES OpenFramed(acc2, w) = [r |-> z.r, out |-> p \o z.out]
  BY DEF Shifts
<1>1. acc.r \in Receivers(K) /\ o \in Seq(Cells) /\ acc = [r |-> acc.r, out |-> o]
  BY DEF Openings
<1>. HIDE DEF o
<1>2. p \o o \in Seq(Cells)
  BY <1>1, ConcatProperties
<1>3. acc2 \in Openings(K) /\ acc2.r = acc.r /\ acc2.out = p \o o
  BY <1>1, <1>2 DEF Openings
<1>4. FramedStep(K, acc, w, bf, c, hdr)
  BY OpenFramedIs
<1>. HIDE DEF acc2
<1>5. FramedStep(K, acc2, w, bf, c, hdr)
  BY <1>3, OpenFramedIs
<1>. HIDE DEF bf, c, hdr
<1>6. c \in Cells /\ hdr \in Seq(Cells)
  BY <1>4 DEF FramedStep
<1>7. CASE ~acc.r.ok
  <2>1. z = acc /\ OpenFramed(acc2, w) = acc2
    BY <1>3, <1>4, <1>5, <1>7 DEF FramedStep
  <2>2. z.r = acc.r /\ z.out = o
    BY <2>1 DEF o
  <2>. QED  BY <2>1, <2>2 DEF acc2
<1>8. CASE acc.r.ok /\ acc.r.body > 0
  <2>1. /\ z = [r |-> [acc.r EXCEPT !.bf = bf, !.body = @ - 1], out |-> Append(o, c)]
        /\ OpenFramed(acc2, w) =
             [r |-> [acc.r EXCEPT !.bf = bf, !.body = @ - 1], out |-> Append(p \o o, c)]
    BY <1>3, <1>4, <1>5, <1>8 DEF FramedStep, o
  <2>2. p \o Append(o, c) = Append(p \o o, c)
    BY <1>1, <1>6, ConcatAppend
  <2>3. z.out = Append(o, c) /\ z.r = [acc.r EXCEPT !.bf = bf, !.body = @ - 1]
    BY <2>1
  <2>. QED  BY <2>1, <2>2, <2>3 DEF acc2
<1>9. CASE acc.r.ok /\ ~(acc.r.body > 0) /\ Len(hdr) < Hdr
  <2>1. /\ z = [r |-> [acc.r EXCEPT !.bf = bf, !.hdr = hdr], out |-> o]
        /\ OpenFramed(acc2, w) = [r |-> [acc.r EXCEPT !.bf = bf, !.hdr = hdr], out |-> p \o o]
    BY <1>3, <1>4, <1>5, <1>9 DEF FramedStep, o
  <2>. QED  BY <2>1 DEF acc2
<1>10. CASE acc.r.ok /\ ~(acc.r.body > 0) /\ ~(Len(hdr) < Hdr) /\ bad
  <2>1. /\ z = [r |-> [acc.r EXCEPT !.bf = bf, !.hdr = hdr, !.ok = FALSE], out |-> o]
        /\ OpenFramed(acc2, w) =
             [r |-> [acc.r EXCEPT !.bf = bf, !.hdr = hdr, !.ok = FALSE], out |-> p \o o]
    BY <1>3, <1>4, <1>5, <1>10 DEF FramedStep, o
  <2>. QED  BY <2>1 DEF acc2
<1>11. CASE acc.r.ok /\ ~(acc.r.body > 0) /\ ~(Len(hdr) < Hdr) /\ ~bad
  <2>. DEFINE e == [hdr EXCEPT ![1].mark = 0]
  <2>1. /\ z = [r |-> Unmarked([acc.r EXCEPT !.bf = bf], hdr), out |-> o \o e]
        /\ OpenFramed(acc2, w) =
             [r |-> Unmarked([acc.r EXCEPT !.bf = bf], hdr), out |-> (p \o o) \o e]
    BY <1>3, <1>4, <1>5, <1>11 DEF FramedStep, o
  <2>2. e \in Seq(Cells)
    BY <1>6, <1>11, MarkTakenOut
  <2>. HIDE DEF e
  <2>3. (p \o o) \o e = p \o (o \o e)
    BY <1>1, <2>2, ConcatAssociative
  <2>4. z.out = o \o e /\ z.r = Unmarked([acc.r EXCEPT !.bf = bf], hdr)
    BY <2>1
  <2>. QED  BY <2>1, <2>3, <2>4 DEF acc2
<1>. QED  BY <1>7, <1>8, <1>9, <1>10, <1>11

\* A receiver that has failed does nothing more.
LEMMA FramesStuck ==
  ASSUME NEW K, NEW r \in Receivers(K), ~r.ok, NEW s \in Seq(Wireds(K))
  PROVE  OpenFrames(r, s) = Begun(r)
<1>. DEFINE T == {u \in Seq(Wireds(K)) : OpenFrames(r, u) = Begun(r)}
<1>1. ASSUME NEW q, q = <<>> PROVE q \in T
  BY <1>1, FramedLaws, EmptySeq
<1>2. ASSUME NEW u \in Seq(Wireds(K)), NEW w \in Wireds(K), u \in T PROVE Append(u, w) \in T
  <2>. DEFINE acc == Begun(r)
  <2>1. Append(u, w) \in Seq(Wireds(K)) /\ OpenFrames(r, u) = acc
    BY <1>2, AppendProperties
  <2>2. OpenFrames(r, Append(u, w)) = OpenFramed(acc, w) /\ acc \in Openings(K)
    BY <2>1, FramedLaws
  <2>3. ~acc.r.ok
    BY DEF Begun
  <2>. HIDE DEF acc
  <2>4. OpenFramed(acc, w) = acc
    BY <2>2, <2>3, OpenFramedIs DEF FramedStep
  <2>. QED  BY <2>1, <2>2, <2>4 DEF acc
<1>3. Seq(Wireds(K)) \subseteq T
  <2>. HIDE DEF T
  <2>. QED  BY <1>1, <1>2, SeqInduct
<1>. QED  BY <1>3

\* However what comes is cut, it comes to the same.
Joined(K, r, s, t, x, y) ==
  /\ OpenFrames(r, s \o t) = [r |-> y.r, out |-> x.out \o y.out]
  /\ x.r \in Receivers(K) /\ x.out \in Seq(Cells)
  /\ y.r \in Receivers(K) /\ y.out \in Seq(Cells)

LEMMA FramesConcat ==
  ASSUME NEW K, NEW r \in Receivers(K), NEW s \in Seq(Wireds(K)), NEW t \in Seq(Wireds(K)),
         NEW x, x = OpenFrames(r, s), NEW y, y = OpenFrames(x.r, t)
  PROVE  Joined(K, r, s, t, x, y)
<1>. DEFINE p == x.out
            Y(u) == OpenFrames(x.r, u)
            T == {u \in Seq(Wireds(K)) : OpenFrames(r, s \o u) = [r |-> Y(u).r, out |-> p \o Y(u).out]}
<1>1. x \in Openings(K) /\ x.r \in Receivers(K) /\ p \in Seq(Cells) /\ x = [r |-> x.r, out |-> p]
  BY FramedLaws DEF Openings
<1>. HIDE DEF p
<1>2. ASSUME NEW u \in Seq(Wireds(K)) PROVE Y(u) \in Openings(K)
  BY <1>1, FramedLaws
<1>3. ASSUME NEW q, q = <<>> PROVE q \in T
  <2>1. q \in Seq(Wireds(K)) /\ s \o q = s /\ p \o q = p
    BY <1>1, <1>3, EmptySeq, ConcatEmptySeq
  <2>2. Y(q) = Begun(x.r)
    BY <1>1, <1>3, <2>1, FramedLaws
  <2>3. Y(q).r = x.r /\ Y(q).out = q
    BY <1>3, <2>2 DEF Begun
  <2>. QED  BY <1>1, <2>1, <2>3
<1>4. ASSUME NEW u \in Seq(Wireds(K)), NEW w \in Wireds(K), u \in T PROVE Append(u, w) \in T
  <2>. DEFINE acc == Y(u)
              z == OpenFramed(acc, w)
              su == s \o u
  <2>1. /\ Append(u, w) \in Seq(Wireds(K)) /\ su \in Seq(Wireds(K))
        /\ s \o Append(u, w) = Append(su, w)
    BY AppendProperties, ConcatAppend
  <2>2. acc \in Openings(K)
    BY <1>2
  <2>3. OpenFrames(r, su) = [r |-> acc.r, out |-> p \o acc.out]
    BY <1>4
  <2>4. Y(Append(u, w)) = z
    BY <1>1, FramedLaws
  <2>. HIDE DEF su
  <2>5. OpenFrames(r, Append(su, w)) = OpenFramed(OpenFrames(r, su), w)
    BY <2>1, FramedLaws
  <2>. HIDE DEF acc, Y
  <2>8. Shifts(acc, w, p, z)
    BY <1>1, <2>2, OpenFramedShift
  <2>. HIDE DEF z
  <2>6. OpenFramed([r |-> acc.r, out |-> p \o acc.out], w) = [r |-> z.r, out |-> p \o z.out]
    BY <2>8 DEF Shifts
  <2>7. OpenFrames(r, s \o Append(u, w)) = [r |-> z.r, out |-> p \o z.out]
    BY <2>1, <2>3, <2>5, <2>6
  <2>. QED  BY <2>1, <2>4, <2>7
<1>5. Seq(Wireds(K)) \subseteq T
  <2>. HIDE DEF T
  <2>. QED  BY <1>3, <1>4, SeqInduct
<1>6. y \in Openings(K)
  BY <1>1, FramedLaws
<1>7. y.r \in Receivers(K) /\ y.out \in Seq(Cells)
  BY <1>6 DEF Openings
<1>8. OpenFrames(r, s \o t) = [r |-> y.r, out |-> p \o y.out]
  BY <1>5
<1>. QED  BY <1>1, <1>7, <1>8 DEF p, Joined

----------------------------------------------------------------------------
(* A transaction with its mark, sealed at one end and opened at the other.    *)

\* The receiver, between two transactions and in the sender's cipher state.
Between(r) == r.ok /\ r.hdr = <<>> /\ r.body = 0

\* One cell more than has been sealed, and opened, is one step more of the loop.
LEMMA OneMoreOpened ==
  ASSUME NEW K, NEW r \in Receivers(K), NEW u \in Seq(Cells), NEW c \in Cells,
         NEW acc, acc = OpenFrames(r, Sealed(r.bf, u).done),
         acc.r.bf = Sealed(r.bf, u).bf
  PROVE  /\ acc \in Openings(K)
         /\ \E w \in Wireds(K) :
              /\ OpenFrames(r, Sealed(r.bf, Append(u, c)).done) = OpenFramed(acc, w)
              /\ FramedStep(K, acc, w, Sealed(r.bf, Append(u, c)).bf, c, Append(acc.r.hdr, c))
<1>. DEFINE bf == r.bf
            y == Sealed(bf, u)
            k == KeyOf(Stepped(y.bf))
            w == Wired(c, k)
            d == y.done
<1>1. bf \in Blowfishes(K)
  BY DEF Receivers
<1>. HIDE DEF bf
<1>2. y.bf \in Blowfishes(K) /\ d \in Seq(Wireds(K))
  BY <1>1, UnsealedSealed
<1>3. Stepped(y.bf) \in Blowfishes(K) /\ w \in Wireds(K)
  BY <1>2, SteppedTypes, WiredTypes
<1>4. Sealed(bf, Append(u, c)) = SealStep(y, c)
  BY <1>1, SealedMore
<1>5. Sealed(bf, Append(u, c)).bf = Stepped(y.bf) /\ Sealed(bf, Append(u, c)).done = Append(d, w)
  BY <1>4 DEF SealStep
<1>6. Under(w, k) = c
  BY UnderWired
<1>7. acc = OpenFrames(r, d) /\ acc.r.bf = y.bf
  BY DEF bf
<1>. HIDE DEF d
<1>8. acc \in Openings(K)
  BY <1>2, <1>7, FramedLaws
<1>9. OpenFrames(r, Append(d, w)) = OpenFramed(acc, w)
  BY <1>2, <1>3, <1>7, FramedLaws
<1>. HIDE DEF y, w
<1>10. FramedStep(K, acc, w, Stepped(acc.r.bf), Under(w, KeyOf(Stepped(acc.r.bf))),
                  Append(acc.r.hdr, Under(w, KeyOf(Stepped(acc.r.bf)))))
  BY <1>3, <1>8, OpenFramedIs
<1>11. FramedStep(K, acc, w, Stepped(y.bf), c, Append(acc.r.hdr, c))
  BY <1>6, <1>7, <1>10
<1>12. /\ OpenFrames(r, Sealed(bf, Append(u, c)).done) = OpenFramed(acc, w)
       /\ FramedStep(K, acc, w, Sealed(bf, Append(u, c)).bf, c, Append(acc.r.hdr, c))
  BY <1>5, <1>9, <1>11
<1>. QED  BY <1>3, <1>8, <1>12 DEF bf

\* The receiver with h of a header, and nothing out.
Holding(r, bf, h) == [r |-> [r EXCEPT !.bf = bf, !.hdr = h], out |-> <<>>]
Holds(acc, r, bf, h) ==
  /\ acc.r = [r EXCEPT !.bf = bf, !.hdr = h] /\ acc.out = <<>>
  /\ acc.r.bf = bf /\ acc.r.hdr = h /\ acc.r.ok /\ ~(acc.r.body > 0)

LEMMA HoldingIs ==
  ASSUME NEW K, NEW r \in Receivers(K), Between(r), NEW bf, NEW h
  PROVE  Holds(Holding(r, bf, h), r, bf, h)
<1>. DEFINE a == [r EXCEPT !.bf = bf, !.hdr = h]
<1>1. a.bf = bf /\ a.hdr = h /\ a.ok = r.ok /\ a.body = r.body
  BY DEF Receivers
<1>2. r.ok /\ ~(r.body > 0)
  BY DEF Between
<1>. HIDE DEF a
<1>3. Holding(r, bf, h) = [r |-> a, out |-> <<>>]
  BY DEF Holding, a
<1>4. Holding(r, bf, h).r = a /\ Holding(r, bf, h).out = <<>>
  BY <1>3
<1>. QED  BY <1>1, <1>2, <1>4 DEF a, Holds

\* What is less than a header is held.
LEMMA HeaderHeld ==
  ASSUME NEW K, NEW r \in Receivers(K), Between(r), NEW u \in Seq(Cells), Len(u) < Hdr
  PROVE  OpenFrames(r, Sealed(r.bf, u).done) = Holding(r, Sealed(r.bf, u).bf, u)
<1>. DEFINE S(v) == Sealed(r.bf, v)
            P(v) == OpenFrames(r, S(v).done) = Holding(r, S(v).bf, v)
            T == {v \in Seq(Cells) : Len(v) < Hdr => P(v)}
<1>1. r.bf \in Blowfishes(K) /\ Hdr \in Nat
  BY TransportAssumption DEF Receivers
<1>2. ASSUME NEW q, q = <<>> PROVE q \in T
  <2>1. S(q) = Undone(r.bf) /\ q \in Seq(Cells) /\ q \in Seq(Wireds(K))
    BY <1>1, <1>2, SealedLaws, EmptySeq
  <2>2. S(q).bf = r.bf /\ S(q).done = q
    BY <1>2, <2>1 DEF Undone
  <2>3. OpenFrames(r, q) = Begun(r)
    BY <1>2, <2>1, FramedLaws
  <2>4. [r EXCEPT !.bf = r.bf, !.hdr = q] = r
    BY <1>2 DEF Between, Receivers
  <2>. QED  BY <2>1, <2>2, <2>3, <2>4 DEF Begun, Holding
<1>3. ASSUME NEW v \in Seq(Cells), NEW c \in Cells, v \in T PROVE Append(v, c) \in T
  <2>. DEFINE t == Append(v, c)
              acc == Holding(r, S(v).bf, v)
  <2>1. t \in Seq(Cells) /\ Len(t) = Len(v) + 1 /\ Len(v) \in Nat
    BY AppendProperties, LenProperties
  <2>2. SUFFICES ASSUME Len(t) < Hdr PROVE P(t)
    BY <2>1
  <2>3. Len(v) < Hdr
    BY <1>1, <2>1, <2>2, SMT
  <2>4. acc = OpenFrames(r, S(v).done)
    BY <1>3, <2>3
  <2>12. Holds(acc, r, S(v).bf, v)
    BY HoldingIs
  <2>. HIDE DEF acc
  <2>5. /\ acc.r.bf = S(v).bf /\ acc.r.hdr = v /\ acc.r.ok /\ ~(acc.r.body > 0)
        /\ acc.out = <<>>
    BY <2>12 DEF Holds
  <2>6. acc.r = [r EXCEPT !.bf = S(v).bf, !.hdr = v]
    BY <2>12 DEF Holds
  <2>7. PICK w \in Wireds(K) : /\ OpenFrames(r, S(t).done) = OpenFramed(acc, w)
                               /\ FramedStep(K, acc, w, S(t).bf, c, Append(acc.r.hdr, c))
    BY <2>4, <2>5, OneMoreOpened
  <2>8. FramedStep(K, acc, w, S(t).bf, c, t)
    BY <2>5, <2>7
  <2>. DEFINE bf == S(t).bf
  <2>. HIDE DEF t, bf
  <2>9. OpenFramed(acc, w) = [r |-> [acc.r EXCEPT !.bf = bf, !.hdr = t], out |-> acc.out]
    BY <2>2, <2>5, <2>8, Zenon DEF FramedStep, bf
  <2>10. [acc.r EXCEPT !.bf = bf, !.hdr = t] = [r EXCEPT !.bf = bf, !.hdr = t]
    BY <2>6 DEF Receivers
  <2>. QED  BY <2>5, <2>7, <2>9, <2>10 DEF bf, Holding
<1>4. Seq(Cells) \subseteq T
  <2>. HIDE DEF T
  <2>. QED  BY <1>2, <1>3, SeqInduct
<1>5. u \in T
  BY <1>4
<1>. QED  BY <1>5

\* A header that is whole is taken for one, and its mark turns the key.
HeaderRead(r, x, h) ==
  OpenFrames(r, x.done)
    = [r |-> [r EXCEPT !.bf = Turned(x.bf, h[1].mark), !.body = BodyLen(h[1].n)],
       out |-> [h EXCEPT ![1].mark = 0]]

LEMMA HeaderOpened ==
  ASSUME NEW K, NEW r \in Receivers(K), Between(r), NEW h \in Seq(Cells), Len(h) = Hdr,
         h[1].mark <= MaxRounds, BodyFits(h[1].n),
         NEW x, x = Sealed(r.bf, h)
  PROVE  HeaderRead(r, x, h)
<1>. DEFINE u == SubSeq(h, 1, Hdr - 1)
            c == h[Hdr]
            acc == Holding(r, Sealed(r.bf, u).bf, u)
<1>1. Hdr \in Nat \ {0} /\ MaxRounds \in Nat
  BY TransportAssumption
<1>2. Hdr \in 1 .. Len(h)
  BY <1>1, SMT
<1>3. h = Append(u, c) /\ c \in Cells /\ u \in Seq(Cells)
  BY <1>2, PrefixesOf
<1>. HIDE DEF u, c
<1>4. Len(u) < Hdr
  <2>1. Len(u) \in Nat /\ Len(h) = Len(u) + 1
    BY <1>3, AppendProperties, LenProperties
  <2>. QED  BY <2>1, SMT
<1>5. acc = OpenFrames(r, Sealed(r.bf, u).done)
  BY <1>3, <1>4, HeaderHeld
<1>17. Holds(acc, r, Sealed(r.bf, u).bf, u)
  BY HoldingIs
<1>. HIDE DEF acc
<1>6. /\ acc.r.bf = Sealed(r.bf, u).bf /\ acc.r.hdr = u /\ acc.r.ok /\ ~(acc.r.body > 0)
      /\ acc.out = <<>>
  BY <1>17 DEF Holds
<1>7. acc.r = [r EXCEPT !.bf = Sealed(r.bf, u).bf, !.hdr = u]
  BY <1>17 DEF Holds
<1>8. PICK w \in Wireds(K) : /\ OpenFrames(r, Sealed(r.bf, h).done) = OpenFramed(acc, w)
                             /\ FramedStep(K, acc, w, Sealed(r.bf, h).bf, c, Append(acc.r.hdr, c))
  BY <1>3, <1>5, <1>6, OneMoreOpened
<1>9. FramedStep(K, acc, w, x.bf, c, h)
  BY <1>3, <1>6, <1>8
<1>10. ~(Len(h) < Hdr) /\ h[1].mark \in Nat
  <2>1. ~(Len(h) < Hdr)
    BY <1>1, SMT
  <2>. QED  BY <2>1, MarkTakenOut
<1>11. ~(h[1].mark > MaxRounds)
  BY <1>1, <1>10, SMT
<1>. DEFINE bf == x.bf
            e == [h EXCEPT ![1].mark = 0]
<1>12. OpenFramed(acc, w) = [r |-> Unmarked([acc.r EXCEPT !.bf = bf], h), out |-> acc.out \o e]
  BY <1>6, <1>9, <1>10, <1>11, Zenon DEF FramedStep
<1>13. e \in Seq(Cells)
  BY <1>10, MarkTakenOut
<1>. HIDE DEF e, bf
<1>14. <<>> \o e = e
  BY <1>13, ConcatEmptySeq
<1>15. Unmarked([acc.r EXCEPT !.bf = bf], h)
         = [r EXCEPT !.bf = Turned(bf, h[1].mark), !.body = BodyLen(h[1].n)]
  BY <1>7 DEF Unmarked, Receivers, Between
<1>16. OpenFramed(acc, w)
         = [r |-> [r EXCEPT !.bf = Turned(bf, h[1].mark), !.body = BodyLen(h[1].n)], out |-> e]
  BY <1>6, <1>12, <1>14, <1>15
<1>. QED  BY <1>8, <1>16 DEF bf, e, HeaderRead

\* The receiver with u of a body out and b to come.
Passing(r, bf, b, u) == [r |-> [r EXCEPT !.bf = bf, !.body = b], out |-> u]
Passes(acc, r, bf, b, u) ==
  /\ acc.r = [r EXCEPT !.bf = bf, !.body = b] /\ acc.out = u
  /\ acc.r.bf = bf /\ acc.r.body = b /\ acc.r.ok

LEMMA PassingIs ==
  ASSUME NEW K, NEW r \in Receivers(K), r.ok, NEW bf, NEW b, NEW u
  PROVE  Passes(Passing(r, bf, b, u), r, bf, b, u)
<1>. DEFINE a == [r EXCEPT !.bf = bf, !.body = b]
<1>1. a.bf = bf /\ a.body = b /\ a.ok = r.ok
  BY DEF Receivers
<1>. HIDE DEF a
<1>2. Passing(r, bf, b, u) = [r |-> a, out |-> u]
  BY DEF Passing, a
<1>3. Passing(r, bf, b, u).r = a /\ Passing(r, bf, b, u).out = u
  BY <1>2
<1>. QED  BY <1>1, <1>3 DEF a, Passes

\* What of a body has come is out.
LEMMA BodyPasses ==
  ASSUME NEW K, NEW r \in Receivers(K), r.ok, NEW u \in Seq(Cells), Len(u) <= r.body
  PROVE  OpenFrames(r, Sealed(r.bf, u).done) = Passing(r, Sealed(r.bf, u).bf, r.body - Len(u), u)
<1>. DEFINE S(v) == Sealed(r.bf, v)
            P(v) == OpenFrames(r, S(v).done) = Passing(r, S(v).bf, r.body - Len(v), v)
            T == {v \in Seq(Cells) : Len(v) <= r.body => P(v)}
<1>1. r.bf \in Blowfishes(K) /\ r.body \in Nat
  BY DEF Receivers
<1>2. ASSUME NEW q, q = <<>> PROVE q \in T
  <2>1. S(q) = Undone(r.bf) /\ q \in Seq(Cells) /\ q \in Seq(Wireds(K)) /\ Len(q) = 0
    BY <1>1, <1>2, SealedLaws, EmptySeq
  <2>2. S(q).bf = r.bf /\ S(q).done = q
    BY <1>2, <2>1 DEF Undone
  <2>3. OpenFrames(r, q) = Begun(r)
    BY <1>2, <2>1, FramedLaws
  <2>4. [r EXCEPT !.bf = r.bf, !.body = r.body] = r
    BY DEF Receivers
  <2>5. r.body - Len(q) = r.body
    BY <1>1, <2>1
  <2>. QED  BY <1>2, <2>1, <2>2, <2>3, <2>4, <2>5 DEF Begun, Passing
<1>3. ASSUME NEW v \in Seq(Cells), NEW c \in Cells, v \in T PROVE Append(v, c) \in T
  <2>. DEFINE t == Append(v, c)
              acc == Passing(r, S(v).bf, r.body - Len(v), v)
  <2>1. t \in Seq(Cells) /\ Len(t) = Len(v) + 1 /\ Len(v) \in Nat
    BY AppendProperties, LenProperties
  <2>2. SUFFICES ASSUME Len(t) <= r.body PROVE P(t)
    BY <2>1
  <2>3. Len(v) <= r.body /\ r.body - Len(v) > 0 /\ (r.body - Len(v)) - 1 = r.body - Len(t)
    BY <1>1, <2>1, <2>2, SMT
  <2>4. acc = OpenFrames(r, S(v).done)
    BY <1>3, <2>3
  <2>12. Passes(acc, r, S(v).bf, r.body - Len(v), v)
    BY PassingIs
  <2>. HIDE DEF acc
  <2>5. /\ acc.r.bf = S(v).bf /\ acc.r.body = r.body - Len(v) /\ acc.r.ok /\ acc.out = v
        /\ acc.r = [r EXCEPT !.bf = S(v).bf, !.body = r.body - Len(v)]
    BY <2>12 DEF Passes
  <2>6. acc.r.body > 0 /\ acc.r.body - 1 = r.body - Len(t)
    BY <2>3, <2>5
  <2>7. PICK w \in Wireds(K) : /\ OpenFrames(r, S(t).done) = OpenFramed(acc, w)
                               /\ FramedStep(K, acc, w, S(t).bf, c, Append(acc.r.hdr, c))
    BY <2>4, <2>5, OneMoreOpened
  <2>. DEFINE bf == S(t).bf
              n == r.body - Len(t)
  <2>. HIDE DEF bf, n
  <2>9. OpenFramed(acc, w) = [r |-> [acc.r EXCEPT !.bf = bf, !.body = @ - 1], out |-> Append(acc.out, c)]
    BY <2>5, <2>6, <2>7, Zenon DEF FramedStep, bf
  <2>10. [acc.r EXCEPT !.bf = bf, !.body = @ - 1] = [r EXCEPT !.bf = bf, !.body = n]
    BY <2>5, <2>6 DEF Receivers, n
  <2>11. OpenFramed(acc, w) = [r |-> [r EXCEPT !.bf = bf, !.body = n], out |-> t]
    BY <2>5, <2>9, <2>10
  <2>. QED  BY <2>7, <2>11 DEF bf, n, Passing
<1>4. Seq(Cells) \subseteq T
  <2>. HIDE DEF T
  <2>. QED  BY <1>2, <1>3, SeqInduct
<1>5. u \in T
  BY <1>4
<1>. QED  BY <1>5

\* A whole transaction, sealed as SealOne seals it, is opened as it was.
LEMMA FrameOpened ==
  ASSUME NEW K, NEW I, NEW r \in Receivers(K), Between(r), NEW frame \in Transactions(I),
         NEW m \in 0 .. MaxRounds,
         NEW x, x = Sealed(r.bf, HeaderOf(frame, m)),
         NEW y, y = Sealed(Turned(x.bf, m), BodyOf(frame))
  PROVE  OpenFrames(r, x.done \o y.done) = Passing(r, y.bf, 0, frame)
<1>. DEFINE h == HeaderOf(frame, m)
            b == BodyOf(frame)
            n == frame[1].n
            t == SubSeq(frame, 1, Hdr)
            r1 == [r EXCEPT !.bf = Turned(x.bf, m), !.body = BodyLen(n)]
            dx == x.done
            dy == y.done
<1>1. m \in Nat /\ m <= MaxRounds
  BY TransportAssumption
<1>20. HasParts(I, frame, m, h, t, b)
  BY <1>1, HeadAndBody
<1>3. r.bf \in Blowfishes(K)
  BY DEF Receivers
<1>21. /\ r1 = [r EXCEPT !.bf = Turned(x.bf, m), !.body = BodyLen(n)]
       /\ n = frame[1].n /\ dx = x.done /\ dy = y.done
  OBVIOUS
<1>. HIDE DEF h, b, n, t
<1>2. /\ h \in Seq(Cells) /\ Len(h) = Hdr /\ h[1].mark = m /\ h[1].n = n
      /\ [h EXCEPT ![1].mark = 0] = t
      /\ b \in Seq(Cells) /\ Len(b) = BodyLen(n) /\ t \o b = frame /\ t \in Seq(Cells)
      /\ BodyFits(n) /\ BodyLen(n) \in Nat
  BY <1>20, <1>21, Zenon DEF HasParts
<1>22. h[1].mark <= MaxRounds /\ BodyFits(h[1].n)
  BY <1>1, <1>2
<1>4. x = Sealed(r.bf, h) /\ y = Sealed(Turned(x.bf, m), b)
  BY DEF h, b
<1>5. x.bf \in Blowfishes(K) /\ dx \in Seq(Wireds(K))
  BY <1>2, <1>3, <1>4, UnsealedSealed
<1>6. Turned(x.bf, m) \in Blowfishes(K)
  BY <1>1, <1>5, TurnedTypes
<1>7. y.bf \in Blowfishes(K) /\ dy \in Seq(Wireds(K))
  BY <1>2, <1>4, <1>6, UnsealedSealed
<1>25. HeaderRead(r, x, h)
  BY <1>2, <1>4, <1>22, HeaderOpened
<1>8. OpenFrames(r, x.done) = [r |-> [r EXCEPT !.bf = Turned(x.bf, h[1].mark), !.body = BodyLen(h[1].n)],
                               out |-> [h EXCEPT ![1].mark = 0]]
  BY <1>25 DEF HeaderRead
<1>9. r1 \in Receivers(K) /\ r1.ok /\ r1.body = BodyLen(n) /\ r1.bf = Turned(x.bf, m)
  BY <1>2, <1>6 DEF Receivers, Between
<1>10. OpenFrames(r, dx) = [r |-> r1, out |-> t]
  BY <1>2, <1>8
<1>. HIDE DEF r1, dx
<1>11. OpenFrames(r1, Sealed(r1.bf, b).done)
         = Passing(r1, Sealed(r1.bf, b).bf, r1.body - Len(b), b)
  BY <1>2, <1>9, BodyPasses
<1>12. r1.body - Len(b) = 0 /\ Sealed(r1.bf, b) = y
  BY <1>2, <1>4, <1>9
<1>13. OpenFrames(r1, dy) = Passing(r1, y.bf, 0, b)
  BY <1>11, <1>12
<1>. HIDE DEF dy
<1>. DEFINE p == OpenFrames(r, dx)
            q == OpenFrames(p.r, dy)
<1>14. p.r = r1 /\ p.out = t
  BY <1>10
<1>15. q = Passing(r1, y.bf, 0, b)
  BY <1>13, <1>14
<1>16. q.r = [r1 EXCEPT !.bf = y.bf, !.body = 0] /\ q.out = b
  BY <1>15 DEF Passing
<1>23. p = OpenFrames(r, dx) /\ q = OpenFrames(p.r, dy)
  OBVIOUS
<1>24. dx \in Seq(Wireds(K)) /\ dy \in Seq(Wireds(K))
  BY <1>5, <1>7, <1>21
<1>. HIDE DEF p, q
<1>17. OpenFrames(r, dx \o dy) = [r |-> q.r, out |-> p.out \o q.out]
  <2>1. Joined(K, r, dx, dy, p, q)
    BY <1>23, <1>24, FramesConcat
  <2>. QED  BY <2>1 DEF Joined
<1>18. [r1 EXCEPT !.bf = y.bf, !.body = 0] = [r EXCEPT !.bf = y.bf, !.body = 0]
  BY DEF r1, Receivers
<1>19. OpenFrames(r, dx \o dy) = [r |-> [r EXCEPT !.bf = y.bf, !.body = 0], out |-> frame]
  BY <1>2, <1>14, <1>16, <1>17, <1>18
<1>. QED  BY <1>19 DEF Passing, dx, dy

\* And so are as many as are sealed one after another.
LEMMA FramesOpened ==
  ASSUME NEW K, NEW I, NEW r \in Receivers(K), Between(r),
         NEW rounds \in [I -> 0 .. MaxRounds], NEW frames \in Seq(Transactions(I)),
         NEW z, z = SealedFrames(r.bf, frames, rounds)
  PROVE  OpenFrames(r, z.done) = Passing(r, z.bf, 0, FlattenSeq(frames))
<1>. DEFINE S(f) == SealedFrames(r.bf, f, rounds)
            P(f) == OpenFrames(r, S(f).done) = Passing(r, S(f).bf, 0, FlattenSeq(f))
            T == {f \in Seq(Transactions(I)) : P(f)}
<1>1. r.bf \in Blowfishes(K)
  BY DEF Receivers
<1>2. ASSUME NEW q, q = <<>> PROVE q \in T
  <2>1. q \in Seq(Transactions(I)) /\ q \in Seq(Wireds(K)) /\ FlattenSeq(q) = <<>>
    BY <1>2, EmptySeq, FlattenEmpty
  <2>2. S(q) = Undone(r.bf)
    BY <1>1, <1>2, FramesNone
  <2>3. S(q).bf = r.bf /\ S(q).done = q
    BY <1>2, <2>2 DEF Undone
  <2>4. OpenFrames(r, q) = Begun(r)
    BY <1>2, <2>1, FramedLaws
  <2>5. [r EXCEPT !.bf = r.bf, !.body = 0] = r
    BY DEF Receivers, Between
  <2>. QED  BY <2>1, <2>3, <2>4, <2>5 DEF Begun, Passing
<1>3. ASSUME NEW f \in Seq(Transactions(I)), NEW frame \in Transactions(I), f \in T
      PROVE  Append(f, frame) \in T
  <2>. DEFINE v == S(f)
              m == rounds[frame[1].i]
              x == Sealed(v.bf, HeaderOf(frame, m))
              y == Sealed(Turned(x.bf, m), BodyOf(frame))
              g == Append(f, frame)
              fl == FlattenSeq(f)
              dv == v.done
              dx == x.done
              dy == y.done
              r1 == [r EXCEPT !.bf = v.bf, !.body = 0]
  <2>1. g \in Seq(Transactions(I))
    BY AppendProperties
  <2>2. v \in Sealings(K) /\ S(g) = SealOne(v, frame, m)
    BY <1>1, FramesLaws
  <2>3. m \in 0 .. MaxRounds /\ m \in Nat
    BY RoundsOf
  <2>4. v.bf \in Blowfishes(K) /\ dv \in Seq(Wireds(K))
    BY <2>2 DEF Sealings
  <2>6. /\ f \in Seq(Seq(Cells)) /\ frame \in Seq(Cells)
    <3>1. Plains(I) \subseteq Cells
      BY DEF Plains
    <3>2. Seq(Plains(I)) \subseteq Seq(Cells)
      BY <3>1, SeqMonotonic
    <3>3. Transactions(I) \subseteq Seq(Cells)
      BY <3>2 DEF Transactions
    <3>4. Seq(Transactions(I)) \subseteq Seq(Seq(Cells))
      BY <3>3, SeqMonotonic
    <3>. QED  BY <3>3, <3>4
  <2>7. FlattenSeq(g) = fl \o frame /\ fl \in Seq(Cells)
    BY <2>6, FlattenAppend
  <2>8. OpenFrames(r, dv) = Passing(r, v.bf, 0, fl)
    BY <1>3
  <2>9. r1 \in Receivers(K) /\ Between(r1) /\ r1.bf = v.bf
    BY <2>4 DEF Receivers, Between
  <2>. HIDE DEF v, m, r1, fl, dv, dx, dy
  <2>. HIDE DEF x, y
  <2>10. x = Sealed(r1.bf, HeaderOf(frame, m)) /\ x = Sealed(v.bf, HeaderOf(frame, m))
    BY <2>9 DEF x
  <2>11. y = Sealed(Turned(x.bf, m), BodyOf(frame))
    BY DEF y
  <2>12. OpenFrames(r1, dx \o dy) = Passing(r1, y.bf, 0, frame)
    BY <2>3, <2>9, <2>10, <2>11, FrameOpened DEF dx, dy
  <2>23. SealsOne(K, v, frame, m, x, y)
    BY <2>2, <2>3, <2>10, <2>11, SealOneIs
  <2>13. /\ SealOne(v, frame, m) = [bf |-> y.bf, done |-> v.done \o x.done \o y.done]
         /\ x.done \in Seq(Wireds(K)) /\ y.done \in Seq(Wireds(K))
    BY <2>23, Zenon DEF SealsOne
  <2>14. dx \in Seq(Wireds(K)) /\ dy \in Seq(Wireds(K)) /\ dx \o dy \in Seq(Wireds(K))
    <3>1. dx \in Seq(Wireds(K)) /\ dy \in Seq(Wireds(K))
      BY <2>13 DEF dx, dy
    <3>. QED  BY <3>1, ConcatProperties
  <2>15. (dv \o dx) \o dy = dv \o (dx \o dy)
    BY <2>4, <2>14, ConcatAssociative
  <2>24. S(g) = [bf |-> y.bf, done |-> (dv \o dx) \o dy]
    BY <2>2, <2>13, Zenon DEF dv, dx, dy
  <2>16. S(g).bf = y.bf /\ S(g).done = dv \o (dx \o dy)
    <3>. DEFINE a == (dv \o dx) \o dy
    <3>1. S(g) = [bf |-> y.bf, done |-> a]
      BY <2>24
    <3>. HIDE DEF a
    <3>2. S(g).bf = y.bf /\ S(g).done = a
      BY <3>1
    <3>. QED  BY <2>15, <3>2 DEF a
  <2>. DEFINE e == dx \o dy
              p == OpenFrames(r, dv)
              q == OpenFrames(p.r, e)
  <2>17. p.r = r1 /\ p.out = fl
    BY <2>8 DEF Passing, r1
  <2>18. q = Passing(r1, y.bf, 0, frame)
    BY <2>12, <2>17
  <2>19. q.r = [r1 EXCEPT !.bf = y.bf, !.body = 0] /\ q.out = frame
    BY <2>18 DEF Passing
  <2>25. p = OpenFrames(r, dv) /\ q = OpenFrames(p.r, e) /\ e \in Seq(Wireds(K))
    BY <2>14
  <2>. HIDE DEF e, p, q
  <2>20. OpenFrames(r, dv \o e) = [r |-> q.r, out |-> p.out \o q.out]
    <3>1. Joined(K, r, dv, e, p, q)
      BY <2>4, <2>25, FramesConcat
    <3>. QED  BY <3>1 DEF Joined
  <2>21. [r1 EXCEPT !.bf = y.bf, !.body = 0] = [r EXCEPT !.bf = y.bf, !.body = 0]
    BY DEF r1, Receivers
  <2>22. OpenFrames(r, dv \o e) = Passing(r, y.bf, 0, fl \o frame)
    BY <2>17, <2>19, <2>20, <2>21 DEF Passing
  <2>. QED  BY <2>1, <2>7, <2>16, <2>22 DEF e
<1>4. Seq(Transactions(I)) \subseteq T
  <2>. HIDE DEF T
  <2>. QED  BY <1>2, <1>3, SeqInduct
<1>5. frames \in T
  BY <1>4
<1>. QED  BY <1>5

----------------------------------------------------------------------------
(* Records, each under the key and the count of those before it.            *)

RecordsOf(key, c, ps) == FlattenSeq([j \in DOMAIN ps |-> Record(key, c + j - 1, ps[j])])

\* A record's length, its data and its tag.
IsRecord(K, R, key, c, cells) ==
  /\ R \in Seq(Wireds(K)) /\ Len(R) = Len(cells) + 2
  /\ R[1] = Wired(Cell("length", 0, 0, Len(cells)), <<>>)
  /\ \A j \in 1 .. Len(cells) : R[j + 1] = Wired(cells[j], <<key, c, j>>)
  /\ R[Len(cells) + 2] = Wired(Cell("tag", 0, 0, Len(cells)), <<key, c, 0>>)

LEMMA RecordIs ==
  ASSUME NEW K, NEW key \in K, NEW c \in Nat, NEW cells \in Seq(Cells)
  PROVE  IsRecord(K, Record(key, c, cells), key, c, cells)
<1>. DEFINE n == Len(cells)
            a == Wired(Cell("length", 0, 0, n), <<>>)
            b == [j \in DOMAIN cells |-> Wired(cells[j], <<key, c, j>>)]
            e == Wired(Cell("tag", 0, 0, n), <<key, c, 0>>)
            sa == <<a>>
            se == <<e>>
            ab == sa \o b
<1>1. n \in Nat /\ DOMAIN cells = 1 .. n /\ \A j \in 1 .. n : cells[j] \in Cells
  BY LenProperties, ElementOfSeq
<1>2. a \in Wireds(K) /\ e \in Wireds(K)
  <2>1. Cell("length", 0, 0, n) \in Cells /\ Cell("tag", 0, 0, n) \in Cells
    BY <1>1, CellTypes
  <2>2. <<>> \in Unders(K) /\ <<key, c, 0>> \in Unders(K)
    BY DEF Unders
  <2>. QED  BY <2>1, <2>2, WiredTypes
<1>3. ASSUME NEW j \in 1 .. n PROVE Wired(cells[j], <<key, c, j>>) \in Wireds(K)
  <2>1. <<key, c, j>> \in Unders(K) /\ cells[j] \in Cells
    BY <1>1 DEF Unders
  <2>. QED  BY <2>1, WiredTypes
<1>4. b \in Seq(Wireds(K)) /\ Len(b) = n /\ \A j \in 1 .. n : b[j] = Wired(cells[j], <<key, c, j>>)
  <2>1. b \in [1 .. n -> Wireds(K)]
    BY <1>1, <1>3
  <2>2. b \in Seq(Wireds(K)) /\ DOMAIN b = 1 .. n
    BY <1>1, <2>1, SeqDef
  <2>3. Len(b) = n
    BY <1>1, <2>2, LenProperties
  <2>. QED  BY <1>1, <2>2, <2>3
<1>5. Record(key, c, cells) = ab \o se
  BY DEF Record
<1>6. sa \in Seq(Wireds(K)) /\ Len(sa) = 1 /\ sa[1] = a
  BY <1>2
<1>7. se \in Seq(Wireds(K)) /\ Len(se) = 1 /\ se[1] = e
  BY <1>2
<1>. HIDE DEF n, sa, se, a, b, e
<1>8. /\ ab \in Seq(Wireds(K)) /\ Len(ab) = Len(sa) + Len(b)
      /\ \A j \in 1 .. Len(sa) + Len(b) : ab[j] = IF j <= Len(sa) THEN sa[j] ELSE b[j - Len(sa)]
  BY <1>4, <1>6, ConcatProperties
<1>9. Len(ab) = n + 1
  BY <1>1, <1>4, <1>6, <1>8
<1>10. ab[1] = a /\ \A j \in 1 .. n : ab[j + 1] = b[j]
  <2>1. \A j \in 1 .. 1 + n : ab[j] = IF j <= 1 THEN sa[j] ELSE b[j - 1]
    BY <1>4, <1>6, <1>8
  <2>2. 1 \in 1 .. 1 + n /\ \A j \in 1 .. n : j + 1 \in 1 .. 1 + n /\ ~(j + 1 <= 1) /\ (j + 1) - 1 = j
    BY <1>1
  <2>3. ab[1] = a
    <3>1. ab[1] = IF 1 <= 1 THEN sa[1] ELSE b[1 - 1]
      BY <2>1, <2>2, Zenon
    <3>2. ab[1] = sa[1]
      BY <3>1
    <3>. QED  BY <1>6, <3>2
  <2>4. ASSUME NEW j \in 1 .. n PROVE ab[j + 1] = b[j]
    BY <2>1, <2>2, Zenon
  <2>. QED  BY <2>3, <2>4
<1>17. ab \in Seq(Wireds(K)) /\ se \in Seq(Wireds(K))
  BY <1>7, <1>8
<1>. HIDE DEF ab
<1>11. /\ ab \o se \in Seq(Wireds(K)) /\ Len(ab \o se) = Len(ab) + Len(se)
       /\ \A j \in 1 .. Len(ab) + Len(se) : (ab \o se)[j] = IF j <= Len(ab) THEN ab[j] ELSE se[j - Len(ab)]
  BY <1>17, ConcatProperties
<1>. DEFINE R == ab \o se
<1>12. \A j \in 1 .. n + 2 : R[j] = IF j <= n + 1 THEN ab[j] ELSE se[j - (n + 1)]
  BY <1>1, <1>7, <1>9, <1>11
<1>13. /\ 1 \in 1 .. n + 2 /\ 1 <= n + 1 /\ n + 2 \in 1 .. n + 2 /\ ~(n + 2 <= n + 1)
       /\ (n + 2) - (n + 1) = 1 /\ \A j \in 1 .. n : j + 1 \in 1 .. n + 2 /\ j + 1 <= n + 1
  BY <1>1
<1>14. R \in Seq(Wireds(K)) /\ Len(R) = n + 2
  BY <1>1, <1>7, <1>9, <1>11
<1>. HIDE DEF R
<1>15. R[1] = a /\ R[n + 2] = e /\ \A j \in 1 .. n : R[j + 1] = b[j]
  BY <1>7, <1>10, <1>12, <1>13
<1>16. Record(key, c, cells) = R
  BY <1>5 DEF R
<1>. QED  BY <1>4, <1>14, <1>15, <1>16 DEF IsRecord, n, a, e

\* Records one after another: none, those of two runs, and one more in front.
RecordRun(K, key, c, ps) ==
  /\ [j \in DOMAIN ps |-> Record(key, c + j - 1, ps[j])] \in Seq(Seq(Wireds(K)))
  /\ Len([j \in DOMAIN ps |-> Record(key, c + j - 1, ps[j])]) = Len(ps)
  /\ RecordsOf(key, c, ps) \in Seq(Wireds(K))

LEMMA RecordRuns ==
  ASSUME NEW K, NEW key \in K, NEW c \in Nat, NEW ps \in Seq(Seq(Cells))
  PROVE  RecordRun(K, key, c, ps)
<1>. DEFINE n == Len(ps)
            f == [j \in DOMAIN ps |-> Record(key, c + j - 1, ps[j])]
<1>1. n \in Nat /\ DOMAIN ps = 1 .. n /\ \A j \in 1 .. n : ps[j] \in Seq(Cells)
  BY LenProperties, ElementOfSeq
<1>2. ASSUME NEW j \in 1 .. n PROVE Record(key, c + j - 1, ps[j]) \in Seq(Wireds(K))
  <2>. DEFINE m == c + j - 1
              q == ps[j]
  <2>1. m \in Nat /\ q \in Seq(Cells)
    BY <1>1, SMT
  <2>. HIDE DEF m, q
  <2>2. IsRecord(K, Record(key, m, q), key, m, q)
    BY <2>1, RecordIs
  <2>3. Record(key, m, q) \in Seq(Wireds(K))
    BY <2>2 DEF IsRecord
  <2>. QED  BY <2>3 DEF m, q
<1>3. f \in [1 .. n -> Seq(Wireds(K))]
  BY <1>1, <1>2
<1>4. f \in Seq(Seq(Wireds(K))) /\ DOMAIN f = 1 .. n
  BY <1>1, <1>3, SeqDef
<1>5. Len(f) = n
  BY <1>1, <1>4, LenProperties
<1>6. RecordsOf(key, c, ps) = FlattenSeq(f) /\ <<>> \in Seq(Wireds(K))
  BY EmptySeq DEF RecordsOf
<1>7. f \in Seq(Seq(Wireds(K)))
  BY <1>4
<1>8. FlattenSeq(f) \in Seq(Wireds(K))
  <2>. HIDE DEF f
  <2>. QED  BY <1>6, <1>7, FlattenAppend
<1>. QED  BY <1>5, <1>6, <1>7, <1>8 DEF RecordRun

LEMMA RecordsNone ==
  ASSUME NEW key, NEW c, NEW q, q = <<>>
  PROVE  RecordsOf(key, c, q) = <<>>
<1>. DEFINE f == [j \in DOMAIN q |-> Record(key, c + j - 1, q[j])]
<1>1. DOMAIN q = {}
  BY EmptySeq
<1>2. f = <<>>
  BY <1>1
<1>. HIDE DEF f
<1>3. FlattenSeq(f) = <<>>
  BY <1>2, FlattenEmpty
<1>. QED  BY <1>3 DEF RecordsOf, f

RecordsJoin(key, c, ps, qs) ==
  RecordsOf(key, c, ps \o qs) = RecordsOf(key, c, ps) \o RecordsOf(key, c + Len(ps), qs)

LEMMA RecordsConcat ==
  ASSUME NEW K, NEW key \in K, NEW c \in Nat, NEW ps \in Seq(Seq(Cells)), NEW qs \in Seq(Seq(Cells))
  PROVE  RecordsJoin(key, c, ps, qs)
<1>. DEFINE n == Len(ps)
            m == Len(qs)
            rs == ps \o qs
            d == c + n
            f == [j \in DOMAIN ps |-> Record(key, c + j - 1, ps[j])]
            g == [j \in DOMAIN qs |-> Record(key, d + j - 1, qs[j])]
            h == [j \in DOMAIN rs |-> Record(key, c + j - 1, rs[j])]
<1>1. n \in Nat /\ m \in Nat /\ d \in Nat /\ DOMAIN ps = 1 .. n /\ DOMAIN qs = 1 .. m
  BY LenProperties
<1>2. /\ rs \in Seq(Seq(Cells)) /\ Len(rs) = n + m
      /\ \A j \in 1 .. n + m : rs[j] = IF j <= n THEN ps[j] ELSE qs[j - n]
  BY ConcatProperties
<1>3. DOMAIN rs = 1 .. n + m
  BY <1>1, <1>2, LenProperties
<1>. HIDE DEF rs
<1>4. f \in Seq(Seq(Wireds(K))) /\ Len(f) = n
  BY RecordRuns DEF RecordRun
<1>. HIDE DEF d
<1>5. g \in Seq(Seq(Wireds(K))) /\ Len(g) = m
  <2>1. RecordRun(K, key, d, qs)
    BY <1>1, RecordRuns
  <2>. QED  BY <2>1 DEF RecordRun
<1>6. h \in Seq(Seq(Wireds(K))) /\ Len(h) = n + m
  <2>1. RecordRun(K, key, c, rs)
    BY <1>2, RecordRuns
  <2>2. h \in Seq(Seq(Wireds(K))) /\ Len(h) = Len(rs)
    BY <2>1 DEF RecordRun
  <2>. QED  BY <1>2, <2>2
<1>7. /\ \A j \in 1 .. n : f[j] = Record(key, c + j - 1, ps[j])
      /\ \A j \in 1 .. m : g[j] = Record(key, d + j - 1, qs[j])
      /\ \A j \in 1 .. n + m : h[j] = Record(key, c + j - 1, rs[j])
  BY <1>1, <1>3
<1>. HIDE DEF f, g, h, n, m
<1>8. /\ f \o g \in Seq(Seq(Wireds(K))) /\ Len(f \o g) = n + m
      /\ \A j \in 1 .. n + m : (f \o g)[j] = IF j <= n THEN f[j] ELSE g[j - n]
  BY <1>4, <1>5, ConcatProperties
<1>9. ASSUME NEW j \in 1 .. n + m PROVE h[j] = (f \o g)[j]
  <2>1. CASE j <= n
    <3>1. j \in 1 .. n
      BY <1>1, <2>1, SMT
    <3>. QED  BY <1>2, <1>7, <1>8, <2>1, <3>1
  <2>2. CASE ~(j <= n)
    <3>1. j - n \in 1 .. m /\ d + (j - n) - 1 = c + j - 1
      BY <1>1, <2>2, SMT DEF d
    <3>2. h[j] = Record(key, c + j - 1, qs[j - n])
      BY <1>2, <1>7, <2>2
    <3>3. (f \o g)[j] = Record(key, d + (j - n) - 1, qs[j - n])
      BY <1>7, <1>8, <2>2, <3>1
    <3>. QED  BY <3>1, <3>2, <3>3
  <2>. QED  BY <2>1, <2>2
<1>10. h = f \o g
  <2>. DEFINE fg == f \o g
  <2>1. fg \in Seq(Seq(Wireds(K))) /\ Len(fg) = n + m /\ \A j \in 1 .. n + m : h[j] = fg[j]
    BY <1>8, <1>9
  <2>. HIDE DEF fg
  <2>2. h = fg
    BY <1>6, <2>1, SeqEqual
  <2>. QED  BY <2>2 DEF fg
<1>11. FlattenSeq(f \o g) = FlattenSeq(f) \o FlattenSeq(g)
  BY <1>4, <1>5, FlattenConcat
<1>12. RecordsOf(key, c, rs) = FlattenSeq(f) \o FlattenSeq(g)
  BY <1>10, <1>11 DEF RecordsOf, h
<1>. QED  BY <1>12 DEF RecordsJoin, RecordsOf, f, g, d, rs, n

LEMMA RecordsOne ==
  ASSUME NEW K, NEW key \in K, NEW c \in Nat, NEW p \in Seq(Cells)
  PROVE  RecordsOf(key, c, <<p>>) = Record(key, c, p)
<1>. DEFINE R == Record(key, c, p)
            f == [j \in DOMAIN <<p>> |-> Record(key, c + j - 1, <<p>>[j])]
            q == <<>>
<1>1. IsRecord(K, R, key, c, p)
  BY RecordIs
<1>2. R \in Seq(Wireds(K))
  BY <1>1 DEF IsRecord
<1>3. \A j \in DOMAIN <<p>> : j = 1 /\ c + j - 1 = c /\ <<p>>[j] = p
  OBVIOUS
<1>4. f = [j \in DOMAIN <<p>> |-> R]
  BY <1>3
<1>5. f = <<R>>
  BY <1>4
<1>6. q \in Seq(Seq(Wireds(K))) /\ q = <<>> /\ Append(q, R) = <<R>>
  BY EmptySeq
<1>. HIDE DEF q, R, f
<1>7. FlattenSeq(Append(q, R)) = FlattenSeq(q) \o R
  BY <1>2, <1>6, FlattenAppend
<1>8. FlattenSeq(q) \o R = R
  BY <1>2, <1>6, FlattenEmpty, ConcatEmptySeq
<1>. QED  BY <1>5, <1>6, <1>7, <1>8 DEF RecordsOf, f, R

\* One record opened: what it held is out, and the next is counted on.
RecordTaken(acc, cells) ==
  [r |-> [acc.r EXCEPT !.pending = SubSeq(acc.r.pending, Len(cells) + 3, Len(acc.r.pending)),
                       !.counter = acc.r.counter + 1],
   out |-> acc.out \o cells]

LEMMA OneOpened ==
  ASSUME NEW K, NEW acc \in Openings(K), NEW cells \in Seq(Cells),
         NEW p, p = acc.r.pending, p[1].cell.n = Len(cells),
         SubSeq(p, 1, Len(cells) + 2) = Record(acc.r.key, acc.r.counter, cells)
  PROVE  OpenRecord(acc) = RecordTaken(acc, cells)
<1>. DEFINE n == Len(cells)
            key == acc.r.key
            c == acc.r.counter
            R == Record(key, c, cells)
            data == SubSeq(R, 2, Len(R) - 1)
<1>1. acc.r \in Receivers(K) /\ acc = [r |-> acc.r, out |-> acc.out]
  BY DEF Openings
<1>2. key \in K /\ c \in Nat
  BY <1>1 DEF Receivers
<1>3. n \in Nat /\ DOMAIN cells = 1 .. n /\ \A j \in 1 .. n : cells[j] \in Cells
  BY LenProperties, ElementOfSeq
<1>4. IsRecord(K, R, key, c, cells)
  <2>. HIDE DEF key, c, R
  <2>1. IsRecord(K, Record(key, c, cells), key, c, cells)
    BY <1>2, RecordIs
  <2>. QED  BY <2>1 DEF R
<1>5. OpenRecord(acc) =
        IF ~Authentic(acc.r, SubSeq(p, 1, FrameSize(p))) THEN [acc EXCEPT !.r.ok = FALSE]
        ELSE [r |-> [acc.r EXCEPT !.pending = SubSeq(p, FrameSize(p) + 1, Len(p)), !.counter = @ + 1],
              out |-> acc.out \o [j \in DOMAIN SubSeq(SubSeq(p, 1, FrameSize(p)), 2,
                                                    Len(SubSeq(p, 1, FrameSize(p))) - 1) |->
                                    SubSeq(SubSeq(p, 1, FrameSize(p)), 2,
                                           Len(SubSeq(p, 1, FrameSize(p))) - 1)[j].cell]]
  BY DEF OpenRecord
<1>6. FrameSize(p) = n + 2 /\ SubSeq(p, 1, n + 2) = R
  BY DEF FrameSize
<1>. HIDE DEF R, key, c, n
<1>7. OpenRecord(acc) =
        IF ~Authentic(acc.r, R) THEN [acc EXCEPT !.r.ok = FALSE]
        ELSE [r |-> [acc.r EXCEPT !.pending = SubSeq(p, (n + 2) + 1, Len(p)), !.counter = @ + 1],
              out |-> acc.out \o [j \in DOMAIN data |-> data[j].cell]]
  <2>1. SubSeq(p, 1, FrameSize(p)) = R
    BY <1>6
  <2>. QED  BY <1>5, <1>6, <2>1, Zenon
<1>8. /\ R \in Seq(Wireds(K)) /\ Len(R) = n + 2
      /\ \A j \in 1 .. n : R[j + 1] = Wired(cells[j], <<key, c, j>>)
      /\ R[n + 2] = Wired(Cell("tag", 0, 0, n), <<key, c, 0>>)
  BY <1>4 DEF IsRecord, n
<1>9. Authentic(acc.r, R)
  <2>1. ASSUME NEW j \in 2 .. Len(R)
        PROVE  R[j].under = <<key, c, IF j = Len(R) THEN 0 ELSE j - 1>>
    <3>1. CASE j = Len(R)
      BY <1>8, <3>1 DEF Wired
    <3>2. CASE j # Len(R)
      <4>1. j - 1 \in 1 .. n /\ (j - 1) + 1 = j
        BY <1>3, <1>8, <3>2, SMT
      <4>2. R[(j - 1) + 1] = Wired(cells[j - 1], <<key, c, j - 1>>)
        BY <1>8, <4>1, Zenon
      <4>3. R[j].under = <<key, c, j - 1>>
        BY <4>1, <4>2 DEF Wired
      <4>. QED  BY <3>2, <4>3
    <3>. QED  BY <3>1, <3>2
  <2>. QED  BY <2>1 DEF Authentic, key, c
<1>10. [j \in DOMAIN data |-> data[j].cell] = cells
  <2>1. \A j \in 2 .. Len(R) - 1 : R[j] \in Wireds(K)
    <3>1. \A j \in 2 .. Len(R) - 1 : j \in 1 .. Len(R)
      BY <1>3, <1>8
    <3>2. \A j \in 1 .. Len(R) : R[j] \in Wireds(K)
      BY <1>8, ElementOfSeq
    <3>. QED  BY <3>1, <3>2
  <2>2. 2 \in Int /\ Len(R) - 1 \in Int
    BY <1>3, <1>8
  <2>3. /\ data \in Seq(Wireds(K))
        /\ Len(data) = IF 2 <= Len(R) - 1 THEN (Len(R) - 1) - 2 + 1 ELSE 0
        /\ \A j \in 1 .. (Len(R) - 1) - 2 + 1 : data[j] = R[2 + j - 1]
    BY <2>1, <2>2, SubSeqProperties
  <2>4. Len(data) = n /\ (Len(R) - 1) - 2 + 1 = n
    BY <1>3, <1>8, <2>3, SMT
  <2>5. DOMAIN data = 1 .. n
    BY <2>3, <2>4, LenProperties
  <2>6. ASSUME NEW j \in 1 .. n PROVE data[j].cell = cells[j]
    <3>1. 2 + j - 1 = j + 1
      BY <1>3
    <3>2. data[j] = R[j + 1]
      BY <2>3, <2>4, <3>1
    <3>3. R[j + 1] = Wired(cells[j], <<key, c, j>>)
      BY <1>8
    <3>4. Wired(cells[j], <<key, c, j>>).cell = cells[j]
      BY DEF Wired
    <3>. HIDE DEF data
    <3>. QED  BY <3>2, <3>3, <3>4
  <2>. HIDE DEF data
  <2>7. cells = [j \in 1 .. n |-> cells[j]]
    BY <1>3
  <2>. QED  BY <2>5, <2>6, <2>7
<1>. HIDE DEF data
<1>11. (n + 2) + 1 = n + 3
  BY <1>3
<1>12. [acc.r EXCEPT !.pending = SubSeq(p, (n + 2) + 1, Len(p)), !.counter = @ + 1]
         = [acc.r EXCEPT !.pending = SubSeq(p, n + 3, Len(p)), !.counter = acc.r.counter + 1]
  BY <1>1, <1>11 DEF Receivers
<1>13. OpenRecord(acc) =
         [r |-> [acc.r EXCEPT !.pending = SubSeq(p, n + 3, Len(p)), !.counter = acc.r.counter + 1],
          out |-> acc.out \o cells]
  BY <1>7, <1>9, <1>10, <1>12, Zenon
<1>. QED  BY <1>13 DEF RecordTaken, n

\* How far the loop has read: some records are out, and what is pending is the start
\* of those that are left.
ReadTo(r, ps, rest, acc, qs, ks) ==
  /\ ps = qs \o ks
  /\ acc.r = [r EXCEPT !.pending = acc.r.pending, !.counter = r.counter + Len(qs)]
  /\ acc.out = FlattenSeq(qs)
  /\ acc.r.pending \o rest = RecordsOf(r.key, r.counter + Len(qs), ks)
Reading(K, r, ps, rest) ==
  {acc \in Openings(K) :
     \E qs \in Seq(Seq(Cells)), ks \in Seq(Seq(Cells)) : ReadTo(r, ps, rest, acc, qs, ks)}
Drained(p) == p = <<>> \/ Len(p) < FrameSize(p)
Reads(K, r, ps, rest, acc, z) ==
  /\ z \in Reading(K, r, ps, rest)
  /\ Drained(acc.r.pending) => z = acc
  /\ ~Drained(acc.r.pending) => Len(z.r.pending) < Len(acc.r.pending)

\* Two ways to take one sequence apart.
Fronts(X, p, s, a, b, q) ==
  /\ SubSeq(p, 1, Len(a)) = a
  /\ q \in Seq(X) /\ Len(q) = Len(p) - Len(a)
  /\ q \o s = b

LEMMA FrontOf ==
  ASSUME NEW X, NEW p \in Seq(X), NEW s \in Seq(X), NEW a \in Seq(X), NEW b \in Seq(X),
         p \o s = a \o b, Len(a) <= Len(p),
         NEW q, q = SubSeq(p, Len(a) + 1, Len(p))
  PROVE  Fronts(X, p, s, a, b, q)
<1>. DEFINE n == Len(a)
            m == Len(p)
            k == Len(b)
            l == Len(s)
            f == SubSeq(p, 1, n)
<1>1. n \in Nat /\ m \in Nat /\ n <= m /\ k \in Nat /\ l \in Nat
  BY LenProperties
<1>2. /\ p \o s \in Seq(X) /\ Len(p \o s) = m + l
      /\ \A j \in 1 .. m + l : (p \o s)[j] = IF j <= m THEN p[j] ELSE s[j - m]
  BY ConcatProperties
<1>3. /\ a \o b \in Seq(X) /\ Len(a \o b) = n + k
      /\ \A j \in 1 .. n + k : (a \o b)[j] = IF j <= n THEN a[j] ELSE b[j - n]
  BY ConcatProperties
<1>4. m + l = n + k
  BY <1>2, <1>3
<1>5. \A j \in 1 .. m : p[j] \in X
  BY ElementOfSeq
<1>6. ASSUME NEW j \in 1 .. m + l
      PROVE  (IF j <= m THEN p[j] ELSE s[j - m]) = (IF j <= n THEN a[j] ELSE b[j - n])
  <2>1. j \in 1 .. n + k
    BY <1>4
  <2>2. (a \o b)[j] = (p \o s)[j]
    OBVIOUS
  <2>3. (p \o s)[j] = IF j <= m THEN p[j] ELSE s[j - m]
    BY <1>2
  <2>4. (a \o b)[j] = IF j <= n THEN a[j] ELSE b[j - n]
    BY <1>3, <2>1
  <2>. QED  BY <2>2, <2>3, <2>4
<1>. HIDE DEF n, m, k, l
<1>7. f = a
  <2>1. \A j \in 1 .. n : p[j] \in X
    BY <1>1, <1>5
  <2>2. /\ f \in Seq(X) /\ Len(f) = IF 1 <= n THEN n - 1 + 1 ELSE 0
        /\ \A j \in 1 .. n - 1 + 1 : f[j] = p[1 + j - 1]
    BY <1>1, <2>1, SubSeqProperties
  <2>3. Len(f) = n
    BY <1>1, <2>2
  <2>4. ASSUME NEW j \in 1 .. n PROVE f[j] = a[j]
    <3>1. j \in 1 .. m + l /\ j <= m /\ j <= n /\ 1 + j - 1 = j /\ j \in 1 .. n - 1 + 1
      BY <1>1
    <3>2. p[j] = a[j]
      BY <1>6, <3>1
    <3>. QED  BY <2>2, <3>1, <3>2
  <2>. HIDE DEF f
  <2>. QED  BY <2>2, <2>3, <2>4, SeqEqual DEF n
<1>8. q \in Seq(X) /\ Len(q) = m - n /\ \A j \in 1 .. m - n : q[j] = p[n + j]
  <2>1. \A j \in n + 1 .. m : p[j] \in X
    BY <1>1, <1>5
  <2>2. q = SubSeq(p, n + 1, m) /\ n + 1 \in Int /\ m \in Int
    BY <1>1 DEF n, m
  <2>6. /\ SubSeq(p, n + 1, m) \in Seq(X)
        /\ Len(SubSeq(p, n + 1, m)) = IF n + 1 <= m THEN m - (n + 1) + 1 ELSE 0
        /\ \A j \in 1 .. m - (n + 1) + 1 : SubSeq(p, n + 1, m)[j] = p[n + 1 + j - 1]
    BY <2>1, <2>2, SubSeqProperties
  <2>3. /\ q \in Seq(X) /\ Len(q) = IF n + 1 <= m THEN m - (n + 1) + 1 ELSE 0
        /\ \A j \in 1 .. m - (n + 1) + 1 : q[j] = p[n + 1 + j - 1]
    BY <2>2, <2>6, Zenon
  <2>7. Len(q) = IF n + 1 <= m THEN m - (n + 1) + 1 ELSE 0
    BY <2>3
  <2>8. (IF n + 1 <= m THEN m - (n + 1) + 1 ELSE 0) = m - n
    BY <1>1
  <2>4. Len(q) = m - n
    BY <2>7, <2>8
  <2>5. ASSUME NEW j \in 1 .. m - n PROVE q[j] = p[n + j]
    <3>1. j \in 1 .. m - (n + 1) + 1 /\ n + 1 + j - 1 = n + j
      BY <1>1
    <3>. QED  BY <2>3, <3>1
  <2>. QED  BY <2>3, <2>4, <2>5
<1>9. q \o s = b
  <2>. DEFINE qs == q \o s
  <2>11. /\ qs \in Seq(X) /\ Len(qs) = Len(q) + Len(s)
        /\ \A j \in 1 .. Len(q) + Len(s) : qs[j] = IF j <= Len(q) THEN q[j] ELSE s[j - Len(q)]
    BY <1>8, ConcatProperties
  <2>12. Len(q) = m - n /\ Len(s) = l
    BY <1>8 DEF l
  <2>1. /\ qs \in Seq(X) /\ Len(qs) = (m - n) + l
        /\ \A j \in 1 .. (m - n) + l : qs[j] = IF j <= m - n THEN q[j] ELSE s[j - (m - n)]
    BY <2>11, <2>12
  <2>2. (m - n) + l = k
    BY <1>1, <1>4
  <2>3. ASSUME NEW j \in 1 .. k PROVE qs[j] = b[j]
    <3>1. /\ n + j \in 1 .. m + l /\ ~(n + j <= n) /\ (n + j) - n = j
          /\ (n + j <= m) = (j <= m - n) /\ (n + j) - m = j - (m - n) /\ j \in 1 .. (m - n) + l
      BY <1>1, <1>4
    <3>2. (IF n + j <= m THEN p[n + j] ELSE s[(n + j) - m]) = b[j]
      BY <1>6, <3>1
    <3>3. CASE j <= m - n
      <4>1. j \in 1 .. m - n /\ n + j <= m
        BY <1>1, <3>1, <3>3
      <4>2. p[n + j] = b[j]
        BY <3>2, <4>1
      <4>3. q[j] = p[n + j]
        BY <1>8, <4>1
      <4>4. qs[j] = q[j]
        BY <2>1, <3>1, <3>3
      <4>. QED  BY <4>2, <4>3, <4>4
    <3>4. CASE ~(j <= m - n)
      <4>1. s[j - (m - n)] = b[j]
        BY <3>1, <3>2, <3>4
      <4>2. qs[j] = s[j - (m - n)]
        BY <2>1, <3>1, <3>4
      <4>. QED  BY <4>1, <4>2
    <3>. QED  BY <3>3, <3>4
  <2>. HIDE DEF qs
  <2>4. qs \in Seq(X) /\ Len(qs) = Len(b)
    BY <2>1, <2>2 DEF k
  <2>5. qs = b
    BY <2>3, <2>4, SeqEqual DEF k
  <2>. QED  BY <2>5 DEF qs
<1>. QED  BY <1>7, <1>8, <1>9 DEF n, m, Fronts

\* The first of two that are joined is at the front, and there is nothing in nothing.
LEMMA FirstOf ==
  ASSUME NEW X, NEW p \in Seq(X), NEW s \in Seq(X)
  PROVE  /\ p # <<>> => (p \o s)[1] = p[1] /\ p[1] \in X /\ Len(p) >= 1
         /\ p \o s = <<>> => p = <<>> /\ s = <<>>
<1>1. Len(p) \in Nat /\ Len(s) \in Nat
  BY LenProperties
<1>2. /\ Len(p \o s) = Len(p) + Len(s)
      /\ \A j \in 1 .. Len(p) + Len(s) : (p \o s)[j] = IF j <= Len(p) THEN p[j] ELSE s[j - Len(p)]
  BY ConcatProperties
<1>3. /\ p # <<>> => Len(p) # 0
      /\ s # <<>> => Len(s) # 0
      /\ p \o s = <<>> => Len(p \o s) = 0
  BY EmptySeq
<1>4. ASSUME p # <<>> PROVE (p \o s)[1] = p[1] /\ p[1] \in X /\ Len(p) >= 1
  <2>1. Len(p) >= 1 /\ 1 \in 1 .. Len(p) + Len(s) /\ 1 <= Len(p) /\ 1 \in 1 .. Len(p)
    BY <1>1, <1>3, <1>4
  <2>2. (p \o s)[1] = IF 1 <= Len(p) THEN p[1] ELSE s[1 - Len(p)]
    BY <1>2, <2>1
  <2>3. p[1] \in X
    BY <2>1, ElementOfSeq
  <2>. QED  BY <2>1, <2>2, <2>3
<1>5. ASSUME p \o s = <<>> PROVE p = <<>> /\ s = <<>>
  BY <1>1, <1>2, <1>3, <1>5
<1>. QED  BY <1>4, <1>5

\* A sequence that is not empty is one element and the others.
LEMMA OneAndOthers ==
  ASSUME NEW X, NEW ks \in Seq(X), ks # <<>>
  PROVE  Head(ks) \in X /\ Tail(ks) \in Seq(X) /\ ks = <<Head(ks)>> \o Tail(ks)
BY HeadTailProperties

LEMMA OneFurther ==
  ASSUME NEW X, NEW s \in Seq(X), NEW x \in X, NEW t \in Seq(X)
  PROVE  s \o (<<x>> \o t) = Append(s, x) \o t
<1>1. <<x>> \in Seq(X)
  OBVIOUS
<1>2. Append(s, x) = s \o <<x>>
  BY AppendIsConcat
<1>3. s \o (<<x>> \o t) = (s \o <<x>>) \o t
  BY <1>1, ConcatAssociative
<1>. QED  BY <1>2, <1>3

LEMMA NextRead ==
  ASSUME NEW K, NEW r \in Receivers(K), r.ok, NEW ps \in Seq(Seq(Cells)),
         NEW rest \in Seq(Wireds(K)), NEW acc \in Reading(K, r, ps, rest), NEW w,
         NEW z, z = OpenNext(acc, w)
  PROVE  Reads(K, r, ps, rest, acc, z)
<1>1. PICK qs \in Seq(Seq(Cells)), ks \in Seq(Seq(Cells)) : ReadTo(r, ps, rest, acc, qs, ks)
  BY DEF Reading
<1>. DEFINE p == acc.r.pending
            key == r.key
            c == r.counter + Len(qs)
            o == acc.out
<1>2. /\ acc \in Openings(K) /\ acc.r \in Receivers(K) /\ o \in Seq(Cells)
      /\ acc = [r |-> acc.r, out |-> o]
  BY DEF Reading, Openings
<1>3. /\ ps = qs \o ks /\ acc.r = [r EXCEPT !.pending = p, !.counter = c]
      /\ o = FlattenSeq(qs) /\ p \o rest = RecordsOf(key, c, ks)
  BY <1>1 DEF ReadTo
<1>8. r.key = key
  OBVIOUS
<1>. HIDE DEF p, key, c, o
<1>4. acc.r.ok /\ acc.r.key = key /\ acc.r.counter = c
  BY <1>3, <1>8 DEF Receivers
<1>5. p \in Seq(Wireds(K)) /\ key \in K /\ c \in Nat
  BY <1>2, <1>4 DEF Receivers, p
<1>6. CASE p = <<>>
  <2>1. z = acc
    BY <1>6 DEF OpenNext, p
  <2>. QED  BY <1>6, <2>1 DEF Reads, Drained, p
<1>7. CASE p # <<>>
  <2>1. ks # <<>>
    <3>1. SUFFICES ASSUME ks = <<>> PROVE FALSE
      OBVIOUS
    <3>2. p \o rest = <<>>
      BY <1>3, <3>1, RecordsNone
    <3>. QED  BY <1>5, <1>7, <3>2, FirstOf
  <2>. DEFINE k == Head(ks)
              kt == Tail(ks)
              one == <<k>>
              R == Record(key, c, k)
              Q == RecordsOf(key, c + 1, kt)
              n == Len(k)
              p2 == SubSeq(p, Len(R) + 1, Len(p))
  <2>2. k \in Seq(Cells) /\ kt \in Seq(Seq(Cells)) /\ ks = one \o kt
    BY <2>1, OneAndOthers
  <2>3. one \in Seq(Seq(Cells)) /\ Len(one) = 1 /\ one = <<k>> /\ n \in Nat
    BY <2>2, LenProperties
  <2>. HIDE DEF k, kt, one
  <2>4. RecordsOf(key, c, one \o kt) = RecordsOf(key, c, one) \o RecordsOf(key, c + Len(one), kt)
    <3>1. RecordsJoin(key, c, one, kt)
      BY <1>5, <2>2, <2>3, RecordsConcat
    <3>. QED  BY <3>1 DEF RecordsJoin
  <2>5. RecordsOf(key, c, one) = R
    BY <1>5, <2>2, <2>3, RecordsOne
  <2>6. p \o rest = R \o Q
    BY <1>3, <2>2, <2>3, <2>4, <2>5
  <2>7. IsRecord(K, R, key, c, k)
    BY <1>5, <2>2, RecordIs
  <2>8. /\ R \in Seq(Wireds(K)) /\ Len(R) = n + 2
        /\ R[1] = Wired(Cell("length", 0, 0, n), <<>>)
    BY <2>7 DEF IsRecord
  <2>9. Q \in Seq(Wireds(K)) /\ c + 1 \in Nat
    <3>1. c + 1 \in Nat
      BY <1>5
    <3>2. RecordRun(K, key, c + 1, kt)
      BY <1>5, <2>2, <3>1, RecordRuns
    <3>. QED  BY <3>1, <3>2 DEF RecordRun
  <2>. HIDE DEF R, Q, n
  <2>10. p[1] = R[1]
    <3>1. R # <<>>
      BY <2>3, <2>8, EmptySeq
    <3>2. (p \o rest)[1] = p[1]
      BY <1>5, <1>7, FirstOf
    <3>3. (R \o Q)[1] = R[1]
      BY <2>8, <2>9, <3>1, FirstOf
    <3>. QED  BY <2>6, <3>2, <3>3
  <2>11. p[1].cell.kind = "length" /\ p[1].cell.n = n /\ FrameSize(p) = n + 2
    BY <2>8, <2>10 DEF Wired, Cell, FrameSize
  <2>12. CASE Len(p) < FrameSize(p)
    <3>2. z = acc
      BY <2>11, <2>12 DEF OpenNext, p
    <3>. QED  BY <2>12, <3>2 DEF Reads, Drained, p
  <2>13. CASE ~(Len(p) < FrameSize(p))
    <3>1. z = OpenRecord(acc)
      BY <1>4, <1>7, <2>11, <2>13 DEF OpenNext, p
    <3>2. Len(p) \in Nat /\ Len(R) <= Len(p)
      BY <1>5, <2>3, <2>8, <2>11, <2>13, LenProperties
    <3>21. p2 = SubSeq(p, Len(R) + 1, Len(p))
      OBVIOUS
    <3>. HIDE DEF p2
    <3>3. SubSeq(p, 1, Len(R)) = R /\ p2 \in Seq(Wireds(K)) /\ Len(p2) = Len(p) - Len(R) /\ p2 \o rest = Q
      <4>1. Fronts(Wireds(K), p, rest, R, Q, p2)
        BY <1>5, <2>6, <2>8, <2>9, <3>2, <3>21, FrontOf
      <4>. QED  BY <4>1, Zenon DEF Fronts
    <3>4. OpenRecord(acc) = RecordTaken(acc, k)
      <4>1. p = acc.r.pending /\ p[1].cell.n = Len(k)
        BY <2>11 DEF p, n
      <4>2. SubSeq(p, 1, Len(k) + 2) = Record(acc.r.key, acc.r.counter, k)
        BY <1>4, <2>8, <3>3 DEF R, n
      <4>. QED  BY <1>2, <2>2, <4>1, <4>2, OneOpened
    <3>5. p2 = SubSeq(p, n + 3, Len(p))
      <4>1. Len(R) + 1 = n + 3
        BY <2>3, <2>8
      <4>. QED  BY <3>21, <4>1
    <3>6. z = [r |-> [acc.r EXCEPT !.pending = p2, !.counter = c + 1], out |-> o \o k]
      BY <1>4, <3>1, <3>4, <3>5 DEF RecordTaken, p, n, o
    <3>. DEFINE qk == Append(qs, k)
                zr == [acc.r EXCEPT !.pending = p2, !.counter = c + 1]
                zo == o \o k
    <3>7. z.r = zr /\ z.out = zo
      BY <3>6
    <3>8. zr \in Receivers(K)
      BY <1>2, <2>9, <3>3 DEF Receivers
    <3>9. zo \in Seq(Cells)
      BY <1>2, <2>2, ConcatProperties
    <3>10. z \in Openings(K)
      BY <3>6, <3>8, <3>9 DEF Openings
    <3>11. zr = [r EXCEPT !.pending = p2, !.counter = c + 1] /\ zr.pending = p2
      BY <1>2, <1>3 DEF Receivers
    <3>12. qk \in Seq(Seq(Cells)) /\ Len(qk) = Len(qs) + 1 /\ Len(qs) \in Nat /\ r.counter \in Nat
      BY <2>2, AppendProperties, LenProperties DEF Receivers
    <3>13. c + 1 = r.counter + Len(qk)
      <4>. HIDE DEF qk
      <4>. QED  BY <3>12 DEF c
    <3>14. zo = FlattenSeq(qk)
      BY <1>3, <2>2, FlattenAppend
    <3>15. ps = qk \o kt
      <4>. DEFINE X == Seq(Cells)
      <4>1. qs \in Seq(X) /\ k \in X /\ kt \in Seq(X)
        BY <2>2
      <4>. HIDE DEF X
      <4>2. qs \o (<<k>> \o kt) = Append(qs, k) \o kt
        BY <4>1, OneFurther
      <4>. QED  BY <1>3, <2>2, <2>3, <4>2
    <3>. HIDE DEF qk, zr, zo
    <3>16. p2 \o rest = RecordsOf(r.key, r.counter + Len(qk), kt)
      BY <3>3, <3>13 DEF Q, key
    <3>17. ReadTo(r, ps, rest, z, qk, kt)
      BY <3>7, <3>11, <3>13, <3>14, <3>15, <3>16 DEF ReadTo
    <3>18. z \in Reading(K, r, ps, rest)
      BY <2>2, <3>10, <3>12, <3>17 DEF Reading
    <3>19. Len(z.r.pending) < Len(p)
      BY <2>3, <2>8, <3>2, <3>3, <3>7, <3>11
    <3>20. ~Drained(p)
      BY <1>7, <2>13 DEF Drained
    <3>. QED  BY <3>18, <3>19, <3>20 DEF Reads, p
  <2>. QED  BY <2>12, <2>13
<1>. QED  BY <1>6, <1>7

\* The loop, and where it ends: no record is whole at the front of what is pending.
RecordsFolded(acc, all) == FoldLeft(OpenNext, acc, all)
NextSteps(K, r, ps, rest) ==
  [acc \in Reading(K, r, ps, rest) |-> [w \in Wireds(K) |-> OpenNext(acc, w)]]

\* Receiver::decode's loop over records, round after round.
LEMMA RecordsAfter ==
  ASSUME NEW K, NEW r \in Receivers(K), r.ok, NEW ps \in Seq(Seq(Cells)),
         NEW rest \in Seq(Wireds(K)), NEW a \in Reading(K, r, ps, rest), NEW s \in Seq(Wireds(K))
  PROVE  /\ Feeds(Reading(K, r, ps, rest), Wireds(K), a, s, NextSteps(K, r, ps, rest))
         /\ RecordsFolded(a, s) = AfterAll(Reading(K, r, ps, rest), a, s, NextSteps(K, r, ps, rest))
<1>. DEFINE D == SUBSET (DOMAIN s)
            V == Reading(K, r, ps, rest)
            X == Wireds(K)
            G == NextSteps(K, r, ps, rest)
            b == a
            f == CHOOSE f : f = [P \in D |-> IF P = {} THEN b
                                             ELSE OpenNext(f[P \ {Max(P)}], s[Max(P)])]
<1>1. RecordsFolded(a, s) = f[DOMAIN s]
  BY DEF RecordsFolded, FoldLeft, MapThenFoldSet
<1>2. ASSUME NEW v \in V, NEW x \in X
      PROVE  OpenNext(v, x) \in V /\ OpenNext(v, x) = G[v][x]
  <2>. DEFINE z == OpenNext(v, x)
  <2>1. z = OpenNext(v, x)
    OBVIOUS
  <2>. HIDE DEF z
  <2>2. Reads(K, r, ps, rest, v, z)
    BY <2>1, NextRead
  <2>. QED  BY <2>1, <2>2 DEF Reads, NextSteps
<1>3. b \in V
  OBVIOUS
<1>. HIDE DEF f, b, V, X
<1>4. G \in [V -> [X -> V]]
  BY <1>2 DEF NextSteps, V, X
<1>. HIDE DEF G
<1>5. s \in Seq(X) /\ Feeds(V, X, b, s, G)
  BY <1>3, <1>4 DEF Feeds, X
<1>6. PICK g : FoldOver(g, V, X, b, s, G)
  BY <1>5, FoldExists
<1>7. g = [P \in D |-> IF P = {} THEN b ELSE OpenNext(g[P \ {Max(P)}], s[Max(P)])]
  BY <1>2, <1>6 DEF FoldOver
<1>8. f = [P \in D |-> IF P = {} THEN b ELSE OpenNext(f[P \ {Max(P)}], s[Max(P)])]
  BY <1>7 DEF f
<1>9. f[{}] = b
  BY <1>8
<1>10. ASSUME NEW k \in DOMAIN s, f[1 .. k - 1] \in V
       PROVE  f[1 .. k] = G[f[1 .. k - 1]][s[k]]
  <2>1. DOMAIN s = 1 .. Len(s) /\ Len(s) \in Nat /\ s[k] \in X
    BY <1>5, LenProperties, ElementOfSeq
  <2>2. Max(1 .. k) = k /\ (1 .. k) \ {k} = 1 .. k - 1 /\ 1 .. k # {} /\ 1 .. k \in D
    BY <2>1, MaxOfRun
  <2>3. f[1 .. k] = OpenNext(f[1 .. k - 1], s[k])
    BY <1>8, <2>2
  <2>. QED  BY <1>2, <1>10, <2>1, <2>3
<1>11. f[DOMAIN s] = AfterAll(V, b, s, G)
  BY <1>5, <1>9, <1>10, FoldIsAfter
<1>. QED  BY <1>1, <1>5, <1>11 DEF V, X, G, b

LEMMA RecordsOpened ==
  ASSUME NEW K, NEW r \in Receivers(K), r.ok, NEW ps \in Seq(Seq(Cells)),
         NEW ws \in Seq(Wireds(K)), NEW rest \in Seq(Wireds(K)),
         (r.pending \o ws) \o rest = RecordsOf(r.key, r.counter, ps),
         NEW u, u = OpenRecords(r, ws)
  PROVE  u \in Reading(K, r, ps, rest) /\ Drained(u.r.pending)
<1>. DEFINE all == r.pending \o ws
            base == [r |-> [r EXCEPT !.pending = all], out |-> <<>>]
            V == Reading(K, r, ps, rest)
            G == NextSteps(K, r, ps, rest)
            n == Len(all)
            q == <<>>
<1>1. all \in Seq(Wireds(K))
  <2>1. r.pending \in Seq(Wireds(K))
    BY DEF Receivers
  <2>. QED  BY <2>1, ConcatProperties
<1>2. n \in Nat /\ r.counter \in Nat
  BY <1>1, LenProperties DEF Receivers
<1>3. u = RecordsFolded(base, all)
  BY DEF OpenRecords, RecordsFolded
<1>4. base \in V
  <2>1. q \in Seq(Seq(Cells)) /\ q \in Seq(Cells) /\ q = <<>> /\ Len(q) = 0 /\ q \o ps = ps
    BY EmptySeq, ConcatEmptySeq
  <2>2. all \o rest = RecordsOf(r.key, r.counter, ps) /\ r.counter + 0 = r.counter
    BY <1>2
  <2>. HIDE DEF all, q
  <2>3. [r EXCEPT !.pending = all] \in Receivers(K)
    BY <1>1 DEF Receivers
  <2>4. [r EXCEPT !.pending = all] = [r EXCEPT !.pending = all, !.counter = r.counter]
    BY DEF Receivers
  <2>5. base.r = [r EXCEPT !.pending = all] /\ base.out = <<>> /\ base.r.pending = all
    BY DEF Receivers
  <2>6. base \in Openings(K)
    BY <2>1, <2>3 DEF Openings
  <2>7. FlattenSeq(q) = <<>>
    BY <2>1, FlattenEmpty
  <2>. HIDE DEF base
  <2>8. ReadTo(r, ps, rest, base, q, ps)
    BY <2>1, <2>2, <2>4, <2>5, <2>7 DEF ReadTo
  <2>. QED  BY <2>1, <2>6, <2>8 DEF Reading
<1>5. base.r.pending = all
  BY DEF Receivers
<1>. HIDE DEF base, all
<1>6. /\ Feeds(V, Wireds(K), base, all, G)
      /\ RecordsFolded(base, all) = AfterAll(V, base, all, G)
  BY <1>1, <1>4, RecordsAfter
<1>. HIDE DEF V, G
<1>7. PICK h : Running(h, V, base, all, G)
  BY <1>6, SomeRun
<1>8. u = h[n]
  BY <1>3, <1>6, <1>7, AfterThat
<1>. DEFINE P(k) == h[k].r.pending
            T == {k \in 0 .. n : Drained(P(k)) \/ Len(P(k)) + k <= n}
<1>9. /\ h \in [0 .. n -> V] /\ h[0] = base
      /\ \A k \in 1 .. n : h[k] = G[h[k - 1]][all[k]]
  BY <1>7 DEF Running
<1>10. ASSUME NEW k \in 0 .. n PROVE P(k) \in Seq(Wireds(K)) /\ Len(P(k)) \in Nat
  <2>1. h[k] \in V
    BY <1>9
  <2>2. h[k].r \in Receivers(K)
    BY <2>1 DEF V, Reading, Openings
  <2>. QED  BY <2>2, LenProperties DEF Receivers
<1>11. 0 \in T
  BY <1>2, <1>5, <1>9
<1>12. ASSUME NEW k \in 1 .. n, k - 1 \in T PROVE k \in T
  <2>. DEFINE a == h[k - 1]
              w == all[k]
              z == OpenNext(a, w)
  <2>1. k - 1 \in 0 .. n /\ k \in 0 .. n /\ w \in Wireds(K)
    BY <1>1, <1>2, ElementOfSeq
  <2>2. a \in V
    BY <1>9, <2>1
  <2>3. h[k] = z
    BY <1>9, <2>1, <2>2 DEF G, NextSteps, V
  <2>4. Reads(K, r, ps, rest, a, z)
    <3>1. z = OpenNext(a, w) /\ a \in Reading(K, r, ps, rest)
      BY <2>2 DEF V
    <3>. HIDE DEF z, a, w
    <3>. QED  BY <3>1, NextRead
  <2>5. /\ Drained(P(k - 1)) => P(k) = P(k - 1)
        /\ ~Drained(P(k - 1)) => Len(P(k)) < Len(P(k - 1))
    BY <2>3, <2>4 DEF Reads
  <2>6. Len(P(k)) \in Nat /\ Len(P(k - 1)) \in Nat
    BY <1>10, <2>1
  <2>. HIDE DEF P
  <2>7. Drained(P(k - 1)) \/ Len(P(k - 1)) + (k - 1) <= n
    BY <1>12
  <2>8. CASE Drained(P(k - 1))
    BY <2>1, <2>5, <2>8
  <2>9. CASE ~Drained(P(k - 1))
    <3>1. Len(P(k)) + k <= n
      BY <1>2, <2>5, <2>6, <2>7, <2>9, SMT
    <3>. QED  BY <2>1, <3>1
  <2>. QED  BY <2>8, <2>9
<1>13. 0 .. n \subseteq T
  <2>. HIDE DEF T, n
  <2>. QED  BY <1>2, <1>11, <1>12, UpTo
<1>14. n \in 0 .. n
  BY <1>2
<1>15. Drained(P(n)) \/ Len(P(n)) + n <= n
  BY <1>13, <1>14
<1>16. Drained(P(n))
  <2>1. P(n) \in Seq(Wireds(K)) /\ Len(P(n)) \in Nat
    BY <1>10, <1>14
  <2>. HIDE DEF P, n
  <2>2. CASE Len(P(n)) + n <= n
    <3>1. Len(P(n)) = 0
      BY <1>2, <2>1, <2>2
    <3>2. P(n) = <<>>
      BY <2>1, <3>1, EmptySeq
    <3>. QED  BY <3>2 DEF Drained
  <2>. QED  BY <1>15, <2>2
<1>17. h[n] \in V
  BY <1>9, <1>14
<1>. QED  BY <1>8, <1>16, <1>17 DEF V

----------------------------------------------------------------------------
(* What is to be sent, in pieces of a record each.                          *)

LEMMA Quotient ==
  ASSUME NEW a \in Nat, NEW m \in Nat \ {0}
  PROVE  a \div m \in Nat /\ (a \div m) * m <= a /\ a < (a \div m) * m + m
BY SMT

LEMMA TimesGrows ==
  ASSUME NEW j \in Nat, NEW k \in Nat, j <= k, NEW m \in Nat
  PROVE  j * m \in Nat /\ j * m <= k * m /\ (j + 1) * m = j * m + m
BY SMT

\* Where the k-th piece of n cells ends.
PieceEnd(n, k) == IF k * MaxPlaintext < n THEN k * MaxPlaintext ELSE n
PieceCount(n) == (n + MaxPlaintext - 1) \div MaxPlaintext

LEMMA PieceEnds ==
  ASSUME NEW n \in Nat
  PROVE  /\ PieceCount(n) \in Nat /\ PieceEnd(n, 0) = 0 /\ PieceEnd(n, PieceCount(n)) = n
         /\ \A k \in 1 .. PieceCount(n) :
              /\ PieceEnd(n, k - 1) = (k - 1) * MaxPlaintext
              /\ PieceEnd(n, k - 1) \in 0 .. n /\ PieceEnd(n, k) \in PieceEnd(n, k - 1) .. n
<1>. DEFINE m == MaxPlaintext
            c == PieceCount(n)
            a == n + m - 1
<1>1. m \in Nat \ {0} /\ a \in Nat
  BY TransportAssumption, SMT
<1>2. c = a \div m
  BY DEF PieceCount
<1>. HIDE DEF c
<1>3. c \in Nat /\ c * m <= n + m - 1 /\ n + m - 1 < c * m + m
  <2>1. a \div m \in Nat /\ (a \div m) * m <= a /\ a < (a \div m) * m + m
    <3>. HIDE DEF a, m
    <3>. QED  BY <1>1, Quotient
  <2>. QED  BY <1>2, <2>1
<1>4. PieceEnd(n, 0) = 0
  BY <1>1, SMT DEF PieceEnd
<1>5. ~(c * m < n)
  <2>. DEFINE cm == c * m
  <2>1. cm \in Nat /\ n + m - 1 < cm + m
    BY <1>1, <1>3, SMT
  <2>. HIDE DEF cm, m
  <2>2. ~(cm < n)
    BY <1>1, <2>1, SMT
  <2>. QED  BY <2>2 DEF cm
<1>6. PieceEnd(n, c) = n
  BY <1>5 DEF PieceEnd
<1>7. ASSUME NEW k \in 1 .. c
      PROVE  /\ PieceEnd(n, k - 1) = (k - 1) * m
             /\ PieceEnd(n, k - 1) \in 0 .. n /\ PieceEnd(n, k) \in PieceEnd(n, k - 1) .. n
  <2>. DEFINE jm == (k - 1) * m
              km == k * m
              cm == c * m
  <2>1. k - 1 \in Nat /\ k \in Nat /\ k <= c /\ (k - 1) + 1 = k
    BY <1>3, SMT
  <2>2. km <= cm /\ km \in Nat
    BY <1>1, <1>3, <2>1, TimesGrows
  <2>3. jm \in Nat /\ km = jm + m
    <3>. DEFINE j == k - 1
    <3>1. j \in Nat /\ j + 1 = k
      BY <2>1
    <3>. HIDE DEF j
    <3>2. j * m \in Nat /\ (j + 1) * m = j * m + m
      BY <1>1, <3>1, TimesGrows
    <3>. QED  BY <3>1, <3>2 DEF j
  <2>4. cm <= n + m - 1 /\ cm \in Nat
    BY <1>3, <1>1, SMT
  <2>5. /\ PieceEnd(n, k - 1) = IF jm < n THEN jm ELSE n
        /\ PieceEnd(n, k) = IF km < n THEN km ELSE n
    BY DEF PieceEnd
  <2>. HIDE DEF jm, km, cm, m
  <2>6. jm < n
    BY <1>1, <2>2, <2>3, <2>4, SMT
  <2>. QED  BY <1>1, <2>2, <2>3, <2>5, <2>6, SMT DEF jm
<1>. QED  BY <1>3, <1>4, <1>6, <1>7 DEF c

\* bytes.chunks(AEAD_MAX_PLAINTEXT): the pieces that records are made of are all that
\* was to be sent, in order, however much that is.
THEOREM PiecesJoined ==
  ASSUME NEW X, NEW cells \in Seq(X)
  PROVE  Pieces(cells) \in Seq(Seq(X)) /\ FlattenSeq(Pieces(cells)) = cells
<1>. DEFINE n == Len(cells)
            c == PieceCount(n)
            g == [j \in 1 .. c |-> SubSeq(cells, (j - 1) * MaxPlaintext + 1, PieceEnd(n, j))]
<1>1. n \in Nat /\ c \in Nat
  BY LenProperties, PieceEnds
<1>2. Pieces(cells) = g
  BY DEF Pieces, PieceEnd, PieceCount
<1>3. /\ PieceEnd(n, 0) = 0 /\ PieceEnd(n, c) = n
      /\ \A k \in 1 .. c :
           /\ PieceEnd(n, k - 1) = (k - 1) * MaxPlaintext
           /\ PieceEnd(n, k - 1) \in 0 .. n /\ PieceEnd(n, k) \in PieceEnd(n, k - 1) .. n
  <2>. HIDE DEF n
  <2>. QED  BY <1>1, PieceEnds
<1>. HIDE DEF n, c
<1>4. ASSUME NEW k \in 1 .. c
      PROVE  /\ g[k] = SubSeq(cells, PieceEnd(n, k - 1) + 1, PieceEnd(n, k)) /\ g[k] \in Seq(X)
             /\ SubSeq(cells, 1, PieceEnd(n, k))
                  = SubSeq(cells, 1, PieceEnd(n, k - 1)) \o g[k]
  <2>. DEFINE a == PieceEnd(n, k - 1)
              b == PieceEnd(n, k)
  <2>1. a = (k - 1) * MaxPlaintext /\ a \in 0 .. n /\ b \in a .. n
    BY <1>3
  <2>2. g[k] = SubSeq(cells, (k - 1) * MaxPlaintext + 1, b)
    OBVIOUS
  <2>. HIDE DEF a, b, g
  <2>3. g[k] = SubSeq(cells, a + 1, b)
    BY <2>1, <2>2
  <2>4. 1 \in 1 .. n + 1 /\ a \in 1 - 1 .. n /\ b \in a .. n /\ a + 1 \in Int /\ b \in Int
    BY <1>1, <2>1, SMT
  <2>5. SubSeq(cells, 1, a) \o SubSeq(cells, a + 1, b) = SubSeq(cells, 1, b)
    BY <2>4, ConcatAdjacentSubSeq DEF n
  <2>6. \A i \in a + 1 .. b : cells[i] \in X
    <3>1. \A i \in 1 .. n : cells[i] \in X
      BY ElementOfSeq DEF n
    <3>2. \A i \in a + 1 .. b : i \in 1 .. n
      BY <1>1, <2>1, SMT
    <3>. QED  BY <3>1, <3>2
  <2>7. SubSeq(cells, a + 1, b) \in Seq(X)
    BY <2>4, <2>6, SubSeqProperties
  <2>. QED  BY <2>3, <2>5, <2>7 DEF a, b
<1>5. g \in [1 .. c -> Seq(X)]
  <2>1. g = [j \in 1 .. c |-> g[j]]
    OBVIOUS
  <2>. HIDE DEF g
  <2>. QED  BY <1>4, <2>1
<1>6. g = [j \in 1 .. c |-> g[j]]
  OBVIOUS
<1>. HIDE DEF g
<1>7. PICK h : Joins(h, X, g, c)
  BY <1>1, <1>5, FlattenSteps
<1>8. /\ h[0] = <<>>
      /\ \A k \in 1 .. c : h[k] = h[k - 1] \o g[k]
      /\ \A k \in 0 .. c : FlattenSeq([i \in 1 .. k |-> g[i]]) = h[k]
  BY <1>7 DEF Joins
<1>. DEFINE T == {k \in 0 .. c : h[k] = SubSeq(cells, 1, PieceEnd(n, k))}
<1>9. 0 \in T
  <2>1. 0 \in 0 .. c
    BY <1>1, SMT
  <2>2. SubSeq(cells, 1, 0) = <<>>
    BY PrefixesOf
  <2>3. SubSeq(cells, 1, PieceEnd(n, 0)) = <<>>
    BY <1>3, <2>2
  <2>4. h[0] = <<>>
    BY <1>8
  <2>. QED  BY <2>1, <2>3, <2>4
<1>10. ASSUME NEW k \in 1 .. c, k - 1 \in T PROVE k \in T
  <2>1. k \in 0 .. c
    BY <1>1
  <2>2. h[k] = h[k - 1] \o g[k]
    BY <1>8
  <2>. QED  BY <1>4, <1>10, <2>1, <2>2
<1>11. 0 .. c \subseteq T
  <2>. HIDE DEF T
  <2>. QED  BY <1>1, <1>9, <1>10, UpTo
<1>12. c \in 0 .. c
  BY <1>1
<1>13. h[c] = SubSeq(cells, 1, n)
  BY <1>3, <1>11, <1>12
<1>14. SubSeq(cells, 1, n) = cells
  BY SubSeqFull DEF n
<1>15. FlattenSeq(g) = h[c]
  BY <1>6, <1>8, <1>12
<1>16. g \in Seq(Seq(X))
  BY <1>1, <1>5, SeqDef
<1>. QED  BY <1>2, <1>13, <1>14, <1>15, <1>16

----------------------------------------------------------------------------
(* What each cell of a sequence becomes.                                    *)

Mapped(f, s) == [j \in DOMAIN s |-> f[s[j]]]
IsMapped(X, Y, f, s, m) ==
  m \in Seq(Y) /\ Len(m) = Len(s) /\ \A j \in 1 .. Len(s) : m[j] = f[s[j]]
MapsJoin(X, Y, f, s, t) == Mapped(f, s \o t) = Mapped(f, s) \o Mapped(f, t)

LEMMA MappedTypes ==
  ASSUME NEW X, NEW Y, NEW f \in [X -> Y], NEW s \in Seq(X)
  PROVE  IsMapped(X, Y, f, s, Mapped(f, s))
<1>. DEFINE n == Len(s)
            m == [j \in 1 .. n |-> f[s[j]]]
<1>1. n \in Nat /\ DOMAIN s = 1 .. n /\ \A j \in 1 .. n : s[j] \in X
  BY LenProperties, ElementOfSeq
<1>2. Mapped(f, s) = m
  BY <1>1 DEF Mapped
<1>. HIDE DEF n
<1>3. m \in [1 .. n -> Y] /\ DOMAIN m = 1 .. n
  BY <1>1
<1>4. m \in Seq(Y)
  BY <1>1, <1>3, SeqDef
<1>5. Len(m) = n
  BY <1>1, <1>3, <1>4, LenProperties, SMT
<1>. QED  BY <1>2, <1>4, <1>5 DEF n, IsMapped

LEMMA MappedConcat ==
  ASSUME NEW X, NEW Y, NEW f \in [X -> Y], NEW s \in Seq(X), NEW t \in Seq(X)
  PROVE  MapsJoin(X, Y, f, s, t)
<1>. DEFINE n == Len(s)
            m == Len(t)
            a == Mapped(f, s)
            b == Mapped(f, t)
            c == Mapped(f, s \o t)
            ab == a \o b
<1>1. n \in Nat /\ m \in Nat
  BY LenProperties
<1>2. /\ s \o t \in Seq(X) /\ Len(s \o t) = n + m
      /\ \A j \in 1 .. n + m : (s \o t)[j] = IF j <= n THEN s[j] ELSE t[j - n]
  BY ConcatProperties
<1>3. a \in Seq(Y) /\ Len(a) = n /\ \A j \in 1 .. n : a[j] = f[s[j]]
  <2>1. IsMapped(X, Y, f, s, a)
    BY MappedTypes
  <2>. QED  BY <2>1 DEF IsMapped
<1>4. b \in Seq(Y) /\ Len(b) = m /\ \A j \in 1 .. m : b[j] = f[t[j]]
  <2>1. IsMapped(X, Y, f, t, b)
    BY MappedTypes
  <2>. QED  BY <2>1 DEF IsMapped
<1>5. c \in Seq(Y) /\ Len(c) = n + m /\ \A j \in 1 .. n + m : c[j] = f[(s \o t)[j]]
  <2>. DEFINE st == s \o t
  <2>1. st \in Seq(X) /\ Len(st) = n + m
    BY <1>2
  <2>. HIDE DEF st
  <2>2. IsMapped(X, Y, f, st, Mapped(f, st))
    BY <2>1, MappedTypes
  <2>. QED  BY <2>1, <2>2 DEF st, IsMapped
<1>. HIDE DEF a, b, c, n, m
<1>6. /\ ab \in Seq(Y) /\ Len(ab) = n + m
      /\ \A j \in 1 .. n + m : ab[j] = IF j <= n THEN a[j] ELSE b[j - n]
  <2>1. /\ a \o b \in Seq(Y) /\ Len(a \o b) = Len(a) + Len(b)
        /\ \A j \in 1 .. Len(a) + Len(b) :
             (a \o b)[j] = IF j <= Len(a) THEN a[j] ELSE b[j - Len(a)]
    BY <1>3, <1>4, ConcatProperties
  <2>. QED  BY <1>3, <1>4, <2>1
<1>. HIDE DEF ab
<1>7. ASSUME NEW j \in 1 .. n + m PROVE c[j] = ab[j]
  <2>1. CASE j <= n
    <3>1. j \in 1 .. n
      BY <1>1, <2>1, SMT
    <3>2. c[j] = f[s[j]]
      BY <1>2, <1>5, <2>1
    <3>. QED  BY <1>3, <1>6, <2>1, <3>1, <3>2
  <2>2. CASE ~(j <= n)
    <3>1. j - n \in 1 .. m
      BY <1>1, <2>2, SMT
    <3>2. c[j] = f[t[j - n]]
      BY <1>2, <1>5, <2>2
    <3>. QED  BY <1>4, <1>6, <2>2, <3>1, <3>2
  <2>. QED  BY <2>1, <2>2
<1>8. c = ab
  BY <1>5, <1>6, <1>7, SeqEqual
<1>. QED  BY <1>8 DEF a, b, c, ab, MapsJoin

\* Sequences joined either way round.
Regroups(a, b, c) == (a \o b) \o c = a \o (b \o c)

LEMMA RegroupsAll ==
  ASSUME NEW X, NEW a \in Seq(X), NEW b \in Seq(X), NEW c \in Seq(X)
  PROVE  Regroups(a, b, c)
BY ConcatAssociative DEF Regroups

----------------------------------------------------------------------------
(* A connection without a cipher.                                           *)

Openers(K) == [w \in Wireds(K) |-> Under(w, <<>>)]

LEMMA OpenedLaws ==
  ASSUME NEW K, NEW s \in Seq(Wireds(K)), NEW t \in Seq(Wireds(K))
  PROVE  /\ Opened(s) \in Seq(Cells) /\ Opened(t) \in Seq(Cells)
         /\ Opened(s \o t) = Opened(s) \o Opened(t)
<1>. DEFINE f == Openers(K)
<1>1. f \in [Wireds(K) -> Cells]
  BY UnderTypes DEF Openers
<1>2. ASSUME NEW u \in Seq(Wireds(K))
      PROVE  Opened(u) = Mapped(f, u)
  <2>1. DOMAIN u = 1 .. Len(u) /\ \A j \in DOMAIN u : u[j] \in Wireds(K)
    BY LenProperties, ElementOfSeq
  <2>2. \A j \in DOMAIN u : f[u[j]] = Under(u[j], <<>>)
    BY <2>1 DEF Openers
  <2>. QED  BY <2>2 DEF Opened, Mapped
<1>3. s \o t \in Seq(Wireds(K))
  BY ConcatProperties
<1>. HIDE DEF f
<1>4. Mapped(f, s) \in Seq(Cells) /\ Mapped(f, t) \in Seq(Cells)
  <2>1. /\ IsMapped(Wireds(K), Cells, f, s, Mapped(f, s))
        /\ IsMapped(Wireds(K), Cells, f, t, Mapped(f, t))
    BY <1>1, MappedTypes
  <2>. QED  BY <2>1 DEF IsMapped
<1>5. Mapped(f, s \o t) = Mapped(f, s) \o Mapped(f, t)
  <2>1. MapsJoin(Wireds(K), Cells, f, s, t)
    BY <1>1, MappedConcat
  <2>. QED  BY <2>1 DEF MapsJoin
<1>. QED  BY <1>2, <1>3, <1>4, <1>5

\* What goes out bare is read as it is.
LEMMA OpenedBare ==
  ASSUME NEW K, NEW cells \in Seq(Cells)
  PROVE  Bare(cells) \in Seq(Wireds(K)) /\ Opened(Bare(cells)) = cells
<1>. DEFINE f == [c \in Cells |-> Wired(c, <<>>)]
            n == Len(cells)
            b == Bare(cells)
            o == Opened(b)
<1>1. n \in Nat /\ DOMAIN cells = 1 .. n /\ \A j \in 1 .. n : cells[j] \in Cells
  BY LenProperties, ElementOfSeq
<1>2. f \in [Cells -> Wireds(K)]
  <2>1. <<>> \in Unders(K)
    BY DEF Unders
  <2>. QED  BY <2>1, WiredTypes
<1>3. b = Mapped(f, cells)
  BY <1>1 DEF Bare, Mapped
<1>4. /\ b \in Seq(Wireds(K)) /\ Len(b) = n
      /\ \A j \in 1 .. n : b[j] = f[cells[j]]
  <2>1. IsMapped(Cells, Wireds(K), f, cells, b)
    <3>. HIDE DEF f, b
    <3>. QED  BY <1>2, <1>3, MappedTypes
  <2>. QED  BY <2>1 DEF IsMapped
<1>5. \A j \in 1 .. n : b[j] = Wired(cells[j], <<>>)
  BY <1>1, <1>4
<1>. HIDE DEF b, f
<1>6. o = [j \in 1 .. n |-> Under(b[j], <<>>)]
  BY <1>4, LenProperties DEF Opened
<1>7. \A j \in 1 .. n : Under(b[j], <<>>) = cells[j]
  BY <1>5, UnderWired
<1>8. cells = [j \in 1 .. n |-> cells[j]]
  BY <1>1
<1>9. o = [j \in 1 .. n |-> cells[j]]
  BY <1>6, <1>7
<1>. QED  BY <1>4, <1>8, <1>9 DEF b

----------------------------------------------------------------------------
(* Receiver::decode as far as the cipher goes, but for records.             *)

InRecords(r) == r.cipher = "CHACHA20-POLY1305"
InFrames(r) == r.cipher \notin {"none", "CHACHA20-POLY1305"} /\ r.compression = "none"

Deciphered(r, ws) ==
  IF r.cipher = "none" THEN [r |-> r, out |-> Opened(ws)]
  ELSE IF InRecords(r) THEN OpenRecords(r, ws)
  ELSE IF r.compression # "none" THEN OpenStream(r, ws)
  ELSE OpenFrames(r, ws)

\* What no cell that comes changes.
Keeps(r, x) ==
  /\ x.cipher = r.cipher /\ x.compression = r.compression /\ x.key = r.key
  /\ x.counter = r.counter /\ x.pending = r.pending /\ x.held = r.held

LEMMA StepKeeps ==
  ASSUME NEW K, NEW acc \in Openings(K), NEW w \in Wireds(K)
  PROVE  Keeps(acc.r, OpenFramed(acc, w).r)
<1>. DEFINE bf == Stepped(acc.r.bf)
            c == Under(w, KeyOf(Stepped(acc.r.bf)))
            hdr == Append(acc.r.hdr, Under(w, KeyOf(Stepped(acc.r.bf))))
            z == OpenFramed(acc, w)
<1>1. FramedStep(K, acc, w, bf, c, hdr)
  BY OpenFramedIs
<1>2. acc.r \in Receivers(K)
  BY DEF Openings
<1>. HIDE DEF bf, c, hdr, z
<1>3. CASE ~acc.r.ok
  <2>1. z = acc
    BY <1>1, <1>3 DEF FramedStep, z
  <2>. QED  BY <2>1 DEF Keeps, z
<1>4. CASE acc.r.ok /\ acc.r.body > 0
  <2>1. z.r = [acc.r EXCEPT !.bf = bf, !.body = @ - 1]
    BY <1>1, <1>4 DEF FramedStep, z
  <2>. QED  BY <1>2, <2>1 DEF Keeps, z, Receivers
<1>5. CASE acc.r.ok /\ ~(acc.r.body > 0) /\ Len(hdr) < Hdr
  <2>1. z.r = [acc.r EXCEPT !.bf = bf, !.hdr = hdr]
    BY <1>1, <1>5 DEF FramedStep, z
  <2>. QED  BY <1>2, <2>1 DEF Keeps, z, Receivers
<1>6. CASE /\ acc.r.ok /\ ~(acc.r.body > 0) /\ ~(Len(hdr) < Hdr)
           /\ hdr[1].mark > MaxRounds \/ ~BodyFits(hdr[1].n)
  <2>1. z.r = [acc.r EXCEPT !.bf = bf, !.hdr = hdr, !.ok = FALSE]
    BY <1>1, <1>6 DEF FramedStep, z
  <2>. QED  BY <1>2, <2>1 DEF Keeps, z, Receivers
<1>7. CASE /\ acc.r.ok /\ ~(acc.r.body > 0) /\ ~(Len(hdr) < Hdr)
           /\ ~(hdr[1].mark > MaxRounds \/ ~BodyFits(hdr[1].n))
  <2>1. z.r = Unmarked([acc.r EXCEPT !.bf = bf], hdr)
    BY <1>1, <1>7 DEF FramedStep, z
  <2>. QED  BY <1>2, <2>1 DEF Keeps, z, Receivers, Unmarked
<1>. QED  BY <1>3, <1>4, <1>5, <1>6, <1>7

LEMMA FramesKeep ==
  ASSUME NEW K, NEW r \in Receivers(K), NEW s \in Seq(Wireds(K))
  PROVE  Keeps(r, OpenFrames(r, s).r)
<1>. DEFINE T == {u \in Seq(Wireds(K)) : Keeps(r, OpenFrames(r, u).r)}
<1>1. <<>> \in T
  <2>1. <<>> \in Seq(Wireds(K))
    BY EmptySeq
  <2>. DEFINE q == <<>>
  <2>2. OpenFrames(r, q) = Begun(r)
    BY <2>1, FramedLaws
  <2>3. OpenFrames(r, <<>>).r = r
    BY <2>2 DEF Begun
  <2>. QED  BY <2>1, <2>3 DEF Keeps
<1>2. ASSUME NEW u \in Seq(Wireds(K)), NEW w \in Wireds(K), u \in T
      PROVE  Append(u, w) \in T
  <2>. DEFINE acc == OpenFrames(r, u)
  <2>1. acc \in Openings(K) /\ OpenFrames(r, Append(u, w)) = OpenFramed(acc, w)
    BY FramedLaws
  <2>2. Append(u, w) \in Seq(Wireds(K))
    BY AppendProperties
  <2>3. Keeps(r, acc.r)
    BY <1>2
  <2>. HIDE DEF acc
  <2>4. Keeps(acc.r, OpenFramed(acc, w).r)
    BY <2>1, StepKeeps
  <2>5. Keeps(r, OpenFramed(acc, w).r)
    BY <2>3, <2>4 DEF Keeps
  <2>. QED  BY <2>1, <2>2, <2>5
<1>3. s \in T
  <2>. HIDE DEF T
  <2>. QED  BY <1>1, <1>2, SeqInduct
<1>. QED  BY <1>3

\* The cipher's part of a call, and of the next: what the two come to together.
Further(K, r, s, t, x, y) ==
  /\ x \in Openings(K) /\ y \in Openings(K)
  /\ Deciphered(r, s \o t) = [r |-> y.r, out |-> x.out \o y.out]
  /\ Keeps(r, x.r) /\ (y.r.ok => x.r.ok)

LEMMA StreamIs ==
  ASSUME NEW K, NEW r \in Receivers(K), NEW s \in Seq(Wireds(K)),
         NEW u, u = Unsealed(r.bf, s)
  PROVE  /\ OpenStream(r, s) = [r |-> [r EXCEPT !.bf = u.bf], out |-> u.done]
         /\ OpenStream(r, s) \in Openings(K) /\ u \in Unsealings(K)
         /\ Keeps(r, OpenStream(r, s).r) /\ OpenStream(r, s).r.ok = r.ok
<1>1. r.bf \in Blowfishes(K)
  BY DEF Receivers
<1>2. u \in Unsealings(K)
  BY <1>1, UnsealedLaws
<1>3. OpenStream(r, s) = [r |-> [r EXCEPT !.bf = u.bf], out |-> u.done]
  BY DEF OpenStream
<1>4. u.bf \in Blowfishes(K) /\ u.done \in Seq(Cells)
  BY <1>2 DEF Unsealings
<1>5. [r EXCEPT !.bf = u.bf] \in Receivers(K)
  BY <1>4 DEF Receivers
<1>. DEFINE z == OpenStream(r, s)
<1>6. z.r = [r EXCEPT !.bf = u.bf] /\ z.out = u.done
  BY <1>3
<1>. HIDE DEF z
<1>7. Keeps(r, z.r) /\ z.r.ok = r.ok
  BY <1>6 DEF Keeps, Receivers
<1>8. z \in Openings(K)
  <2>1. z = [r |-> [r EXCEPT !.bf = u.bf], out |-> u.done]
    BY <1>3 DEF z
  <2>. QED  BY <1>4, <1>5, <2>1 DEF Openings
<1>. QED  BY <1>2, <1>3, <1>7, <1>8 DEF z

Streams(K, r, s, t, x, y) ==
  /\ OpenStream(r, s \o t) = [r |-> y.r, out |-> x.out \o y.out]
  /\ x \in Openings(K) /\ y \in Openings(K) /\ Keeps(r, x.r) /\ y.r.ok = x.r.ok

LEMMA StreamFurther ==
  ASSUME NEW K, NEW r \in Receivers(K), NEW s \in Seq(Wireds(K)), NEW t \in Seq(Wireds(K)),
         NEW x, x = OpenStream(r, s), NEW y, y = OpenStream(x.r, t)
  PROVE  Streams(K, r, s, t, x, y)
<1>. DEFINE u == Unsealed(r.bf, s)
            v == Unsealed(u.bf, t)
            st == s \o t
            w == Unsealed(r.bf, st)
<1>1. st \in Seq(Wireds(K)) /\ r.bf \in Blowfishes(K)
  BY ConcatProperties DEF Receivers
<1>2. w = [bf |-> v.bf, done |-> u.done \o v.done]
  <2>. DEFINE b == r.bf
  <2>1. b \in Blowfishes(K) /\ u = Unsealed(b, s) /\ v = Unsealed(u.bf, t) /\ w = Unsealed(b, s \o t)
    BY <1>1
  <2>. HIDE DEF b, u, v, w
  <2>2. UnsealsOver(b, s, t, u, v)
    BY <2>1, UnsealedConcat
  <2>. QED  BY <2>1, <2>2 DEF UnsealsOver
<1>3. u = Unsealed(r.bf, s) /\ w = Unsealed(r.bf, st)
  OBVIOUS
<1>4. v = Unsealed(u.bf, t)
  OBVIOUS
<1>. HIDE DEF u, v, w, st
<1>5. x = [r |-> [r EXCEPT !.bf = u.bf], out |-> u.done] /\ x \in Openings(K)
      /\ Keeps(r, x.r) /\ x.r.ok = r.ok
  BY <1>3, StreamIs
<1>6. OpenStream(r, st) = [r |-> [r EXCEPT !.bf = w.bf], out |-> w.done]
  BY <1>1, <1>3, StreamIs
<1>7. x.r \in Receivers(K) /\ x.r = [r EXCEPT !.bf = u.bf] /\ x.r.bf = u.bf /\ x.out = u.done
  BY <1>5 DEF Openings, Receivers
<1>8. /\ y = [r |-> [x.r EXCEPT !.bf = v.bf], out |-> v.done] /\ y \in Openings(K)
      /\ y.r.ok = x.r.ok
  <2>. DEFINE xr == x.r
  <2>1. xr \in Receivers(K) /\ v = Unsealed(xr.bf, t) /\ y = OpenStream(xr, t)
    BY <1>4, <1>7
  <2>. HIDE DEF xr
  <2>2. y = [r |-> [xr EXCEPT !.bf = v.bf], out |-> v.done] /\ y \in Openings(K)
        /\ y.r.ok = xr.ok
    BY <2>1, StreamIs
  <2>. QED  BY <2>2 DEF xr
<1>9. w.bf = v.bf /\ w.done = u.done \o v.done
  BY <1>2
<1>10. y.r = [r EXCEPT !.bf = w.bf] /\ y.out = v.done
  <2>1. y.r = [x.r EXCEPT !.bf = v.bf] /\ y.out = v.done
    BY <1>8
  <2>2. [[r EXCEPT !.bf = u.bf] EXCEPT !.bf = v.bf] = [r EXCEPT !.bf = v.bf]
    BY DEF Receivers
  <2>. QED  BY <1>7, <1>9, <2>1, <2>2
<1>11. OpenStream(r, st) = [r |-> y.r, out |-> x.out \o y.out]
  BY <1>6, <1>7, <1>9, <1>10
<1>. QED  BY <1>5, <1>8, <1>11 DEF st, Streams

LEMMA DecipheredFurther ==
  ASSUME NEW K, NEW r \in Receivers(K), ~InRecords(r),
         NEW s \in Seq(Wireds(K)), NEW t \in Seq(Wireds(K)),
         NEW x, x = Deciphered(r, s), NEW y, y = Deciphered(x.r, t)
  PROVE  Further(K, r, s, t, x, y)
<1>1. CASE r.cipher = "none"
  <2>1. x = [r |-> r, out |-> Opened(s)] /\ y = [r |-> r, out |-> Opened(t)]
    <3>1. x = [r |-> r, out |-> Opened(s)]
      BY <1>1 DEF Deciphered
    <3>2. x.r = r
      BY <3>1
    <3>. QED  BY <1>1, <3>1, <3>2 DEF Deciphered
  <2>2. Deciphered(r, s \o t) = [r |-> r, out |-> Opened(s \o t)]
    BY <1>1 DEF Deciphered
  <2>3. /\ Opened(s) \in Seq(Cells) /\ Opened(t) \in Seq(Cells)
        /\ Opened(s \o t) = Opened(s) \o Opened(t)
    BY OpenedLaws
  <2>4. x \in Openings(K) /\ y \in Openings(K)
    BY <2>1, <2>3 DEF Openings
  <2>5. x.r = r /\ y.r = r /\ x.out = Opened(s) /\ y.out = Opened(t)
    BY <2>1
  <2>6. Keeps(r, x.r) /\ (y.r.ok => x.r.ok)
    BY <2>5 DEF Keeps
  <2>7. Deciphered(r, s \o t) = [r |-> y.r, out |-> x.out \o y.out]
    BY <2>2, <2>3, <2>5
  <2>. QED  BY <2>4, <2>6, <2>7 DEF Further
<1>2. CASE r.cipher # "none" /\ r.compression # "none"
  <2>1. x = OpenStream(r, s) /\ Deciphered(r, s \o t) = OpenStream(r, s \o t)
    BY <1>2 DEF Deciphered
  <2>2. Keeps(r, x.r)
    BY <2>1, StreamIs
  <2>3. y = OpenStream(x.r, t)
    BY <1>2, <2>2 DEF Deciphered, Keeps, InRecords
  <2>4. Streams(K, r, s, t, x, y)
    BY <2>1, <2>3, StreamFurther
  <2>. QED  BY <2>1, <2>4 DEF Further, Streams
<1>3. CASE r.cipher # "none" /\ r.compression = "none"
  <2>1. x = OpenFrames(r, s) /\ Deciphered(r, s \o t) = OpenFrames(r, s \o t)
    BY <1>3 DEF Deciphered
  <2>2. Keeps(r, x.r)
    BY <2>1, FramesKeep
  <2>3. y = OpenFrames(x.r, t)
    BY <1>3, <2>2 DEF Deciphered, Keeps, InRecords
  <2>4. Joined(K, r, s, t, x, y)
    BY <2>1, <2>3, FramesConcat
  <2>5. x \in Openings(K)
    BY <2>1, FramedLaws
  <2>6. x.r \in Receivers(K)
    BY <2>5 DEF Openings
  <2>7. y \in Openings(K)
    <3>. DEFINE xr == x.r
    <3>1. xr \in Receivers(K) /\ y = OpenFrames(xr, t)
      BY <2>3, <2>6
    <3>. HIDE DEF xr
    <3>. QED  BY <3>1, FramedLaws
  <2>8. y.r.ok => x.r.ok
    <3>. DEFINE xr == x.r
    <3>1. xr \in Receivers(K) /\ y = OpenFrames(xr, t)
      BY <2>3, <2>6
    <3>. HIDE DEF xr
    <3>2. ~xr.ok => y = Begun(xr)
      BY <3>1, FramesStuck
    <3>. QED  BY <3>2 DEF xr, Begun
  <2>. QED  BY <2>1, <2>2, <2>4, <2>5, <2>7, <2>8 DEF Further, Joined
<1>. QED  BY <1>1, <1>2, <1>3

LEMMA DecipheredNothing ==
  ASSUME NEW K, NEW r \in Receivers(K), ~InRecords(r), NEW q, q = <<>>
  PROVE  Deciphered(r, q) = Begun(r)
<1>1. q \in Seq(Wireds(K)) /\ r.bf \in Blowfishes(K)
  BY EmptySeq DEF Receivers
<1>2. OpenFrames(r, q) = Begun(r)
  BY <1>1, FramedLaws
<1>3. Opened(q) = <<>>
  BY DEF Opened
<1>4. Unsealed(r.bf, q) = Undone(r.bf)
  BY <1>1, UnsealedLaws
<1>5. OpenStream(r, q) = Begun(r)
  <2>1. OpenStream(r, q) = [r |-> [r EXCEPT !.bf = r.bf], out |-> <<>>]
    BY <1>4 DEF OpenStream, Undone
  <2>2. [r EXCEPT !.bf = r.bf] = r
    BY DEF Receivers
  <2>. QED  BY <2>1, <2>2 DEF Begun
<1>. QED  BY <1>2, <1>3, <1>5 DEF Deciphered, Begun

----------------------------------------------------------------------------
(* Sender::encode.                                                          *)

Senders(K, I) ==
  [cipher : Ciphers \cup {"none"}, compression : Compressions \cup {"none"},
   bf : Blowfishes(K), partial : Seq(Plains(I)), key : K, counter : Nat, ok : BOOLEAN]

\* The cells that a call puts on their way, before the cipher.
More(s, plain) ==
  IF InFrames(s) THEN FlattenSeq(Cut(s.partial \o plain).whole)
  ELSE Compressed(s.compression, plain)

\* Not to be taken for a transaction.
Misfit(cells) == \E j \in DOMAIN cells : ~BodyFits(cells[j].n)

LEMMA PlainCells ==
  ASSUME NEW I, NEW s \in Seq(Plains(I))
  PROVE  s \in Seq(Cells)
BY SeqMonotonic DEF Plains

LEMMA CompressedType ==
  ASSUME NEW compression, NEW cells \in Seq(Cells)
  PROVE  Compressed(compression, cells) \in Seq(Cells)
<1>. DEFINE f == [c \in Cells |-> [c EXCEPT !.packed = TRUE]]
            z == [j \in DOMAIN cells |-> [cells[j] EXCEPT !.packed = TRUE]]
<1>1. f \in [Cells -> Cells]
  BY DEF Cells
<1>2. DOMAIN cells = 1 .. Len(cells) /\ \A j \in DOMAIN cells : cells[j] \in Cells
  BY LenProperties, ElementOfSeq
<1>3. z = Mapped(f, cells)
  BY <1>2 DEF Mapped
<1>4. z \in Seq(Cells)
  <2>1. IsMapped(Cells, Cells, f, cells, Mapped(f, cells))
    <3>. HIDE DEF f
    <3>. QED  BY <1>1, MappedTypes
  <2>. QED  BY <1>3, <2>1 DEF IsMapped
<1>. HIDE DEF z
<1>5. Append(z, End) \in Seq(Cells)
  BY <1>4, CellTypes, AppendProperties
<1>. QED  BY <1>5 DEF Compressed, z

\* What a call does to its sender.
Sends(K, I, s, plain, e) ==
  /\ e.s \in Senders(K, I) /\ e.wire \in Seq(Wireds(K)) /\ More(s, plain) \in Seq(Cells)
  /\ e.s.cipher = s.cipher /\ e.s.compression = s.compression /\ e.s.key = s.key
  /\ ~InRecords(s) => e.s.counter = s.counter
  /\ InFrames(s) => More(s, plain) \o e.s.partial = s.partial \o plain
  /\ ~InFrames(s) => e.s.partial = s.partial
  /\ s.ok /\ ~e.s.ok => e.wire = <<>> /\ Misfit(s.partial \o plain)

\* And to what goes out, where the receiver is where the sender is.
Flows(r, ws, s, raw) ==
  LET x == Deciphered(r, ws)
  IN  /\ x.out = raw /\ x.r.bf = s.bf /\ x.r.hdr = <<>> /\ x.r.body = 0 /\ x.r.ok
Alike(r, s) == r.cipher = s.cipher /\ r.compression = s.compression /\ r.key = s.key

LEMMA BareSent ==
  ASSUME NEW K, NEW I, NEW s \in Senders(K, I), s.cipher = "none",
         NEW plain \in Seq(Plains(I)), NEW rounds, NEW e, e = Encode(s, plain, rounds)
  PROVE  /\ Sends(K, I, s, plain, e)
         /\ \A r \in Receivers(K) :
              Between(r) /\ r.bf = s.bf /\ Alike(r, s) => Flows(r, e.wire, e.s, More(s, plain))
<1>. DEFINE cells == Compressed(s.compression, plain)
<1>1. cells \in Seq(Cells)
  BY PlainCells, CompressedType
<1>2. e = [s |-> s, wire |-> Bare(cells)] /\ ~InFrames(s) /\ ~InRecords(s)
  BY DEF Encode, InFrames, InRecords
<1>3. More(s, plain) = cells
  BY <1>2 DEF More
<1>. HIDE DEF cells
<1>4. e.s = s /\ e.wire = Bare(cells)
  BY <1>2
<1>5. Bare(cells) \in Seq(Wireds(K)) /\ Opened(Bare(cells)) = cells
  BY <1>1, OpenedBare
<1>6. Sends(K, I, s, plain, e)
  BY <1>1, <1>2, <1>3, <1>4, <1>5 DEF Sends
<1>7. ASSUME NEW r \in Receivers(K), Between(r), r.bf = s.bf, Alike(r, s)
      PROVE  Flows(r, e.wire, e.s, More(s, plain))
  <2>1. Deciphered(r, e.wire) = [r |-> r, out |-> cells]
    BY <1>4, <1>5, <1>7 DEF Deciphered, Alike
  <2>. QED  BY <1>3, <1>4, <1>7, <2>1 DEF Flows, Between
<1>. QED  BY <1>6, <1>7

LEMMA StreamSent ==
  ASSUME NEW K, NEW I, NEW s \in Senders(K, I),
         s.cipher # "none", ~InRecords(s), s.compression # "none",
         NEW plain \in Seq(Plains(I)), NEW rounds, NEW e, e = Encode(s, plain, rounds)
  PROVE  /\ Sends(K, I, s, plain, e)
         /\ \A r \in Receivers(K) :
              Between(r) /\ r.bf = s.bf /\ Alike(r, s) => Flows(r, e.wire, e.s, More(s, plain))
<1>. DEFINE cells == Compressed(s.compression, plain)
            z == Sealed(s.bf, cells)
<1>1. cells \in Seq(Cells)
  BY PlainCells, CompressedType
<1>2. e = [s |-> [s EXCEPT !.bf = z.bf], wire |-> z.done] /\ ~InFrames(s)
  BY DEF Encode, InFrames, InRecords, SealStream
<1>3. More(s, plain) = cells
  BY <1>2 DEF More
<1>4. s.bf \in Blowfishes(K)
  BY DEF Senders
<1>. HIDE DEF cells
<1>5. /\ Unsealed(s.bf, z.done) = [bf |-> z.bf, done |-> cells]
      /\ z.bf \in Blowfishes(K) /\ z.done \in Seq(Wireds(K))
  <2>. DEFINE b == s.bf
  <2>1. b \in Blowfishes(K)
    BY <1>4
  <2>. HIDE DEF b
  <2>2. /\ Unsealed(b, Sealed(b, cells).done) = [bf |-> Sealed(b, cells).bf, done |-> cells]
        /\ Sealed(b, cells).bf \in Blowfishes(K) /\ Sealed(b, cells).done \in Seq(Wireds(K))
    BY <1>1, <2>1, UnsealedSealed
  <2>. QED  BY <2>2 DEF b
<1>. HIDE DEF z
<1>6. e.s = [s EXCEPT !.bf = z.bf] /\ e.wire = z.done
  BY <1>2
<1>7. /\ e.s \in Senders(K, I) /\ e.s.bf = z.bf /\ e.s.ok = s.ok
      /\ e.s.cipher = s.cipher /\ e.s.compression = s.compression /\ e.s.key = s.key
      /\ e.s.counter = s.counter /\ e.s.partial = s.partial
  BY <1>5, <1>6 DEF Senders
<1>8. Sends(K, I, s, plain, e)
  BY <1>1, <1>2, <1>3, <1>5, <1>6, <1>7 DEF Sends
<1>9. ASSUME NEW r \in Receivers(K), Between(r), r.bf = s.bf, Alike(r, s)
      PROVE  Flows(r, e.wire, e.s, More(s, plain))
  <2>1. Deciphered(r, z.done) = OpenStream(r, z.done)
    BY <1>9 DEF Deciphered, Alike, InRecords
  <2>2. OpenStream(r, z.done) = [r |-> [r EXCEPT !.bf = z.bf], out |-> cells]
    BY <1>5, <1>9 DEF OpenStream
  <2>. DEFINE x == Deciphered(r, z.done)
  <2>3. x.r = [r EXCEPT !.bf = z.bf] /\ x.out = cells
    BY <2>1, <2>2
  <2>. HIDE DEF x
  <2>4. x.r.bf = z.bf /\ x.r.hdr = <<>> /\ x.r.body = 0 /\ x.r.ok
    BY <1>9, <2>3 DEF Between, Receivers
  <2>. QED  BY <1>3, <1>6, <1>7, <2>3, <2>4 DEF Flows, x
<1>. QED  BY <1>8, <1>9

LEMMA FramesSent ==
  ASSUME NEW K, NEW I, NEW s \in Senders(K, I), InFrames(s),
         NEW plain \in Seq(Plains(I)), NEW rounds \in [I -> 0 .. MaxRounds],
         NEW e, e = Encode(s, plain, rounds)
  PROVE  /\ Sends(K, I, s, plain, e)
         /\ e.s.ok => \A r \in Receivers(K) :
              Between(r) /\ r.bf = s.bf /\ Alike(r, s) => Flows(r, e.wire, e.s, More(s, plain))
<1>. DEFINE all == s.partial \o plain
            cut == Cut(all)
            frames == cut.whole
            z == SealedFrames(s.bf, frames, rounds)
            bad == Len(cut.now) >= Hdr /\ ~BodyFits(cut.now[1].n)
            more == FlattenSeq(frames)
            now == cut.now
<1>1. s.partial \in Seq(Plains(I)) /\ s.bf \in Blowfishes(K)
  BY DEF Senders
<1>2. all \in Seq(Plains(I))
  BY <1>1, ConcatProperties
<1>. HIDE DEF all
<1>3. /\ frames \in Seq(Transactions(I)) /\ now \in Seq(Plains(I)) /\ more \in Seq(Plains(I))
      /\ more \o now = all
  BY <1>2, CutLaw
<1>4. Encode(s, plain, rounds) = SealFrames(s, plain, rounds) /\ ~InRecords(s)
  BY DEF Encode, InFrames, InRecords, Compressed
<1>5. SealFrames(s, plain, rounds) =
        [s |-> [s EXCEPT !.bf = z.bf, !.partial = now, !.ok = ~bad],
         wire |-> IF bad THEN <<>> ELSE z.done]
  BY DEF SealFrames, SealedFrames, all
<1>6. More(s, plain) = more
  BY DEF More, all
<1>. HIDE DEF cut
<1>7. z.bf \in Blowfishes(K) /\ z.done \in Seq(Wireds(K))
  <2>. DEFINE b == s.bf
  <2>1. b \in Blowfishes(K)
    BY <1>1
  <2>. HIDE DEF b, frames
  <2>2. SealedFrames(b, frames, rounds) \in Sealings(K)
    BY <1>3, <2>1, FramesLaws
  <2>. QED  BY <2>2 DEF b, Sealings
<1>. HIDE DEF frames, z, more, now
<1>8. /\ e.s = [s EXCEPT !.bf = z.bf, !.partial = now, !.ok = ~bad]
      /\ e.wire = IF bad THEN <<>> ELSE z.done
  BY <1>4, <1>5
<1>9. bad \in BOOLEAN /\ (bad <=> Len(now) >= Hdr /\ ~BodyFits(now[1].n))
  BY DEF now
<1>. HIDE DEF bad
<1>10. /\ e.s \in Senders(K, I) /\ e.s.bf = z.bf /\ e.s.ok = ~bad
       /\ e.s.cipher = s.cipher /\ e.s.compression = s.compression /\ e.s.key = s.key
       /\ e.s.counter = s.counter /\ e.s.partial = now
  BY <1>3, <1>7, <1>8, <1>9 DEF Senders
<1>11. e.wire \in Seq(Wireds(K)) /\ (bad => e.wire = <<>>) /\ (~bad => e.wire = z.done)
  <2>1. <<>> \in Seq(Wireds(K))
    BY EmptySeq
  <2>. QED  BY <1>7, <1>8, <2>1
<1>12. bad => Misfit(all)
  <2>1. SUFFICES ASSUME bad PROVE Misfit(all)
    OBVIOUS
  <2>. DEFINE n == Len(more)
              m == Len(now)
  <2>2. /\ Len(more \o now) = n + m /\ n \in Nat /\ m \in Nat
        /\ \A i \in 1 .. n + m : (more \o now)[i] = IF i <= n THEN more[i] ELSE now[i - n]
    BY <1>3, ConcatProperties, LenProperties
  <2>3. m >= 1
    BY <1>9, <2>1, <2>2, TransportAssumption, SMT
  <2>. HIDE DEF n, m
  <2>4. n + 1 \in 1 .. n + m /\ ~(n + 1 <= n) /\ (n + 1) - n = 1
    BY <2>2, <2>3, SMT
  <2>5. all[n + 1] = now[1]
    BY <1>3, <2>2, <2>4
  <2>6. n + 1 \in DOMAIN all
    <3>1. DOMAIN all = 1 .. Len(all)
      BY <1>2, LenProperties
    <3>. QED  BY <1>3, <2>2, <2>4, <3>1
  <2>. QED  BY <1>9, <2>1, <2>5, <2>6 DEF Misfit
<1>13. Sends(K, I, s, plain, e)
  <2>1. more \in Seq(Cells)
    BY <1>3, PlainCells
  <2>2. more \o e.s.partial = s.partial \o plain
    BY <1>3, <1>10 DEF all
  <2>3. Misfit(s.partial \o plain) <=> Misfit(all)
    BY DEF all
  <2>. QED  BY <1>6, <1>10, <1>11, <1>12, <2>1, <2>2, <2>3 DEF Sends
<1>14. ASSUME e.s.ok, NEW r \in Receivers(K), Between(r), r.bf = s.bf, Alike(r, s)
       PROVE  Flows(r, e.wire, e.s, More(s, plain))
  <2>1. e.wire = z.done
    BY <1>10, <1>11, <1>14
  <2>2. Deciphered(r, z.done) = OpenFrames(r, z.done)
    BY <1>14 DEF Deciphered, Alike, InRecords, InFrames
  <2>3. z = SealedFrames(r.bf, frames, rounds)
    BY <1>14 DEF z
  <2>4. OpenFrames(r, z.done) = Passing(r, z.bf, 0, more)
    BY <1>3, <1>14, <2>3, FramesOpened DEF more
  <2>. DEFINE x == Deciphered(r, z.done)
  <2>5. x.r = [r EXCEPT !.bf = z.bf, !.body = 0] /\ x.out = more
    BY <2>2, <2>4 DEF Passing
  <2>. HIDE DEF x
  <2>6. x.r.bf = z.bf /\ x.r.hdr = <<>> /\ x.r.body = 0 /\ x.r.ok
    BY <1>14, <2>5 DEF Between, Receivers
  <2>. QED  BY <1>6, <1>10, <2>1, <2>5, <2>6 DEF Flows, x
<1>. QED  BY <1>13, <1>14

\* Sender::encode as records, counted on from those before.
CountedOn(s, plain, e) ==
  \E ps \in Seq(Seq(Cells)) :
    /\ e.wire = RecordsOf(s.key, s.counter, ps) /\ FlattenSeq(ps) = More(s, plain)
    /\ e.s.counter = s.counter + Len(ps) /\ e.s.bf = s.bf /\ e.s.ok = s.ok

LEMMA RecordsSent ==
  ASSUME NEW K, NEW I, NEW s \in Senders(K, I), InRecords(s),
         NEW plain \in Seq(Plains(I)), NEW rounds, NEW e, e = Encode(s, plain, rounds)
  PROVE  Sends(K, I, s, plain, e) /\ CountedOn(s, plain, e)
<1>. DEFINE cells == Compressed(s.compression, plain)
            ps == Pieces(cells)
            ws == RecordsOf(s.key, s.counter, ps)
            n == Len(ps)
<1>1. cells \in Seq(Cells)
  BY PlainCells, CompressedType
<1>2. e = [s |-> [s EXCEPT !.counter = @ + n], wire |-> ws] /\ ~InFrames(s)
  BY DEF Encode, InFrames, InRecords, SealRecords, RecordsOf
<1>3. More(s, plain) = cells
  BY <1>2 DEF More
<1>. HIDE DEF cells
<1>4. ps \in Seq(Seq(Cells)) /\ FlattenSeq(ps) = cells
  BY <1>1, PiecesJoined
<1>5. s.key \in K /\ s.counter \in Nat /\ n \in Nat
  BY <1>4, LenProperties DEF Senders
<1>. HIDE DEF ps
<1>6. ws \in Seq(Wireds(K))
  <2>. DEFINE key == s.key
              c == s.counter
  <2>1. key \in K /\ c \in Nat
    BY <1>5
  <2>. HIDE DEF key, c
  <2>2. RecordRun(K, key, c, ps)
    BY <1>4, <2>1, RecordRuns
  <2>. QED  BY <2>2 DEF RecordRun, key, c
<1>. HIDE DEF ws, n
<1>7. e.s = [s EXCEPT !.counter = @ + n] /\ e.wire = ws
  BY <1>2
<1>8. /\ e.s \in Senders(K, I) /\ e.s.bf = s.bf /\ e.s.ok = s.ok
      /\ e.s.cipher = s.cipher /\ e.s.compression = s.compression /\ e.s.key = s.key
      /\ e.s.counter = s.counter + n /\ e.s.partial = s.partial
  BY <1>5, <1>7 DEF Senders
<1>9. Sends(K, I, s, plain, e)
  BY <1>1, <1>2, <1>3, <1>6, <1>7, <1>8 DEF Sends
<1>10. CountedOn(s, plain, e)
  BY <1>3, <1>4, <1>7, <1>8 DEF CountedOn, ws, n
<1>. QED  BY <1>9, <1>10

LEMMA EverySend ==
  ASSUME NEW K, NEW I, NEW s \in Senders(K, I),
         NEW plain \in Seq(Plains(I)), NEW rounds \in [I -> 0 .. MaxRounds],
         NEW e, e = Encode(s, plain, rounds)
  PROVE  Sends(K, I, s, plain, e)
<1>1. CASE s.cipher = "none"
  BY <1>1, BareSent
<1>2. CASE InRecords(s)
  BY <1>2, RecordsSent
<1>3. CASE s.cipher # "none" /\ ~InRecords(s) /\ s.compression # "none"
  BY <1>3, StreamSent
<1>4. CASE s.cipher # "none" /\ ~InRecords(s) /\ s.compression = "none"
  <2>1. InFrames(s)
    BY <1>4 DEF InFrames, InRecords
  <2>. QED  BY <2>1, FramesSent
<1>. QED  BY <1>1, <1>2, <1>3, <1>4

LEMMA EveryFlow ==
  ASSUME NEW K, NEW I, NEW s \in Senders(K, I), ~InRecords(s),
         NEW plain \in Seq(Plains(I)), NEW rounds \in [I -> 0 .. MaxRounds],
         NEW e, e = Encode(s, plain, rounds), e.s.ok,
         NEW r \in Receivers(K), Between(r), r.bf = s.bf, Alike(r, s)
  PROVE  Flows(r, e.wire, e.s, More(s, plain))
<1>1. CASE s.cipher = "none"
  BY <1>1, BareSent
<1>2. CASE s.cipher # "none" /\ s.compression # "none"
  BY <1>2, StreamSent
<1>3. CASE s.cipher # "none" /\ s.compression = "none"
  <2>1. InFrames(s)
    BY <1>3 DEF InFrames, InRecords
  <2>. QED  BY <2>1, FramesSent
<1>. QED  BY <1>1, <1>2, <1>3

----------------------------------------------------------------------------
(* What is on its way between a sender and a receiver, under a cipher.        *)

\* The records that are on their way, and those a receiver has the start of.
Counted(r, ws, s, raw) ==
  \E ps \in Seq(Seq(Cells)) :
    /\ r.pending \o ws = RecordsOf(r.key, r.counter, ps) /\ raw = FlattenSeq(ps)
    /\ s.counter = r.counter + Len(ps) /\ s.bf = r.bf
    /\ r.hdr = <<>> /\ r.body = 0 /\ Drained(r.pending)

\* raw is what the receiver has yet to decipher, with ws on the wire.
Carries(K, r, ws, s, raw) ==
  /\ r \in Receivers(K) /\ r.ok /\ ws \in Seq(Wireds(K)) /\ raw \in Seq(Cells)
  /\ Alike(r, s)
  /\ InRecords(r) => Counted(r, ws, s, raw)
  /\ ~InRecords(r) => Flows(r, ws, s, raw) /\ r.counter = s.counter /\ r.pending = <<>>

LEMMA CarriesMore ==
  ASSUME NEW K, NEW I, NEW s \in Senders(K, I),
         NEW plain \in Seq(Plains(I)), NEW rounds \in [I -> 0 .. MaxRounds],
         NEW e, e = Encode(s, plain, rounds), e.s.ok,
         NEW r, NEW ws, NEW raw, Carries(K, r, ws, s, raw)
  PROVE  Carries(K, r, ws \o e.wire, e.s, raw \o More(s, plain))
<1>. DEFINE more == More(s, plain)
            es == e.s
            new == e.wire
<1>1. /\ r \in Receivers(K) /\ r.ok /\ ws \in Seq(Wireds(K)) /\ raw \in Seq(Cells)
      /\ Alike(r, s)
      /\ InRecords(r) => Counted(r, ws, s, raw)
      /\ ~InRecords(r) => Flows(r, ws, s, raw) /\ r.counter = s.counter /\ r.pending = <<>>
  BY DEF Carries
<1>2. Sends(K, I, s, plain, e)
  BY EverySend
<1>3. /\ es \in Senders(K, I) /\ new \in Seq(Wireds(K)) /\ more \in Seq(Cells)
      /\ es.cipher = s.cipher /\ es.compression = s.compression /\ es.key = s.key
      /\ ~InRecords(s) => es.counter = s.counter
  BY <1>2 DEF Sends
<1>4. InRecords(r) <=> InRecords(s)
  BY <1>1 DEF Alike, InRecords
<1>. HIDE DEF more, es, new
<1>5. ws \o new \in Seq(Wireds(K)) /\ raw \o more \in Seq(Cells)
  BY <1>1, <1>3, ConcatProperties
<1>6. Alike(r, es)
  BY <1>1, <1>3 DEF Alike
<1>7. CASE InRecords(r)
  <2>1. CountedOn(s, plain, e)
    BY <1>4, <1>7, RecordsSent
  <2>2. PICK qs \in Seq(Seq(Cells)) :
          /\ new = RecordsOf(s.key, s.counter, qs) /\ FlattenSeq(qs) = more
          /\ es.counter = s.counter + Len(qs) /\ es.bf = s.bf
    BY <2>1 DEF CountedOn, es, new, more
  <2>3. PICK ps \in Seq(Seq(Cells)) :
          /\ r.pending \o ws = RecordsOf(r.key, r.counter, ps) /\ raw = FlattenSeq(ps)
          /\ s.counter = r.counter + Len(ps) /\ s.bf = r.bf
          /\ r.hdr = <<>> /\ r.body = 0 /\ Drained(r.pending)
    BY <1>1, <1>7 DEF Counted
  <2>. DEFINE key == r.key
              c == r.counter
              p == r.pending
              os == ps \o qs
  <2>4. key \in K /\ c \in Nat /\ p \in Seq(Wireds(K)) /\ s.key = key
    BY <1>1 DEF Receivers, Alike
  <2>5. p \o ws = RecordsOf(key, c, ps) /\ new = RecordsOf(key, c + Len(ps), qs)
    BY <2>2, <2>3, <2>4
  <2>. HIDE DEF key, c, p
  <2>6. RecordsJoin(key, c, ps, qs)
    BY <2>4, RecordsConcat
  <2>7. p \o (ws \o new) = (p \o ws) \o new
    <3>. DEFINE W == Wireds(K)
    <3>1. p \in Seq(W) /\ ws \in Seq(W) /\ new \in Seq(W)
      BY <1>1, <1>3, <2>4
    <3>. HIDE DEF W
    <3>2. Regroups(p, ws, new)
      BY <3>1, RegroupsAll
    <3>. QED  BY <3>2 DEF Regroups
  <2>8. p \o (ws \o new) = RecordsOf(key, c, os)
    BY <2>5, <2>6, <2>7 DEF RecordsJoin
  <2>9. os \in Seq(Seq(Cells)) /\ Len(os) = Len(ps) + Len(qs) /\ Len(ps) \in Nat /\ Len(qs) \in Nat
    BY ConcatProperties, LenProperties
  <2>10. FlattenSeq(os) = FlattenSeq(ps) \o FlattenSeq(qs)
    BY FlattenConcat
  <2>11. raw \o more = FlattenSeq(os)
    BY <2>2, <2>3, <2>10
  <2>. HIDE DEF os
  <2>12. es.counter = c + Len(os)
    <3>1. es.counter = (c + Len(ps)) + Len(qs)
      BY <2>2, <2>3 DEF c
    <3>. QED  BY <2>4, <2>9, <3>1, SMT
  <2>13. es.bf = r.bf
    BY <2>2, <2>3
  <2>14. Counted(r, ws \o new, es, raw \o more)
    BY <2>3, <2>8, <2>9, <2>11, <2>12, <2>13 DEF Counted, key, c, p
  <2>. QED  BY <1>1, <1>5, <1>6, <1>7, <2>14 DEF Carries, more, es, new
<1>8. CASE ~InRecords(r)
  <2>. DEFINE x == Deciphered(r, ws)
              xr == x.r
              y == Deciphered(xr, new)
              z == Deciphered(r, ws \o new)
  <2>1. Flows(r, ws, s, raw) /\ r.counter = s.counter /\ r.pending = <<>>
    BY <1>1, <1>8
  <2>2. x.out = raw /\ xr.bf = s.bf /\ xr.hdr = <<>> /\ xr.body = 0 /\ xr.ok
    BY <2>1 DEF Flows
  <2>3. Further(K, r, ws, new, x, y)
    BY <1>1, <1>3, <1>8, DecipheredFurther
  <2>4. /\ x \in Openings(K) /\ Keeps(r, xr) /\ z = [r |-> y.r, out |-> x.out \o y.out]
    BY <2>3 DEF Further
  <2>5. xr \in Receivers(K)
    BY <2>4 DEF Openings
  <2>. HIDE DEF x, xr, z
  <2>6. Between(xr) /\ Alike(xr, s)
    BY <1>1, <2>2, <2>4 DEF Between, Alike, Keeps
  <2>7. Flows(xr, new, es, more)
    BY <1>4, <1>8, <2>2, <2>5, <2>6, EveryFlow DEF new, es, more
  <2>8. y.out = more /\ y.r.bf = es.bf /\ y.r.hdr = <<>> /\ y.r.body = 0 /\ y.r.ok
    BY <2>7 DEF Flows
  <2>. HIDE DEF y
  <2>9. z.r = y.r /\ z.out = raw \o more
    BY <2>2, <2>4, <2>8
  <2>10. Flows(r, ws \o new, es, raw \o more)
    BY <2>8, <2>9 DEF Flows, z
  <2>11. r.counter = es.counter
    BY <1>3, <1>4, <1>8, <2>1
  <2>. QED  BY <1>1, <1>5, <1>6, <1>8, <2>1, <2>10, <2>11 DEF Carries, more, es, new
<1>. QED  BY <1>7, <1>8

\* What one call deciphers of what is on its way, and what is left.
Deciphers(K, r, rest, s, raw, x) ==
  /\ x \in Openings(K) /\ x.r.ok /\ x.r.held = r.held /\ Alike(x.r, r)
  /\ \E left \in Seq(Cells) : raw = x.out \o left /\ Carries(K, x.r, rest, s, left)

LEMMA CarriesRead ==
  ASSUME NEW K, NEW r, NEW c1 \in Seq(Wireds(K)), NEW c2 \in Seq(Wireds(K)), NEW s, NEW raw,
         Carries(K, r, c1 \o c2, s, raw),
         NEW x, x = Deciphered(r, c1)
  PROVE  Deciphers(K, r, c2, s, raw, x)
<1>. DEFINE ws == c1 \o c2
<1>1. /\ r \in Receivers(K) /\ r.ok /\ ws \in Seq(Wireds(K)) /\ raw \in Seq(Cells)
      /\ Alike(r, s)
      /\ InRecords(r) => Counted(r, ws, s, raw)
      /\ ~InRecords(r) => Flows(r, ws, s, raw) /\ r.counter = s.counter /\ r.pending = <<>>
  BY DEF Carries
<1>. HIDE DEF ws
<1>2. CASE InRecords(r)
  <2>1. PICK ps \in Seq(Seq(Cells)) :
          /\ r.pending \o ws = RecordsOf(r.key, r.counter, ps) /\ raw = FlattenSeq(ps)
          /\ s.counter = r.counter + Len(ps) /\ s.bf = r.bf
          /\ r.hdr = <<>> /\ r.body = 0 /\ Drained(r.pending)
    BY <1>1, <1>2 DEF Counted
  <2>. DEFINE p == r.pending
              W == Wireds(K)
  <2>2. p \in Seq(W) /\ c1 \in Seq(W) /\ c2 \in Seq(W)
    BY <1>1 DEF Receivers
  <2>3. (p \o c1) \o c2 = p \o (c1 \o c2)
    <3>. HIDE DEF W, p
    <3>1. Regroups(p, c1, c2)
      BY <2>2, RegroupsAll
    <3>. QED  BY <3>1 DEF Regroups
  <2>4. (r.pending \o c1) \o c2 = RecordsOf(r.key, r.counter, ps)
    BY <2>1, <2>3 DEF ws
  <2>5. x = OpenRecords(r, c1)
    BY <1>2 DEF Deciphered, InRecords
  <2>6. x \in Reading(K, r, ps, c2) /\ Drained(x.r.pending)
    BY <1>1, <2>4, <2>5, RecordsOpened
  <2>7. x \in Openings(K)
    BY <2>6 DEF Reading
  <2>8. PICK qs \in Seq(Seq(Cells)), ks \in Seq(Seq(Cells)) : ReadTo(r, ps, c2, x, qs, ks)
    BY <2>6 DEF Reading
  <2>9. /\ ps = qs \o ks
        /\ x.r = [r EXCEPT !.pending = x.r.pending, !.counter = r.counter + Len(qs)]
        /\ x.out = FlattenSeq(qs)
        /\ x.r.pending \o c2 = RecordsOf(r.key, r.counter + Len(qs), ks)
    BY <2>8 DEF ReadTo
  <2>. DEFINE z == x.r
              left == FlattenSeq(ks)
  <2>10. z \in Receivers(K)
    BY <2>7 DEF Openings
  <2>11. /\ z.cipher = r.cipher /\ z.compression = r.compression /\ z.key = r.key
         /\ z.counter = r.counter + Len(qs) /\ z.bf = r.bf /\ z.hdr = r.hdr /\ z.body = r.body
         /\ z.held = r.held /\ z.ok = r.ok
    <3>. DEFINE q == z.pending
    <3>1. z = [r EXCEPT !.pending = q, !.counter = r.counter + Len(qs)]
      BY <2>9
    <3>. HIDE DEF z, q
    <3>. QED  BY <1>1, <3>1 DEF Receivers
  <2>12. /\ Len(qs) \in Nat /\ Len(ks) \in Nat /\ Len(ps) = Len(qs) + Len(ks)
         /\ r.counter \in Nat
    BY <1>1, <2>9, LenProperties, ConcatProperties DEF Receivers
  <2>13. raw = x.out \o left /\ left \in Seq(Cells)
    <3>. DEFINE C == Cells
    <3>1. qs \in Seq(Seq(C)) /\ ks \in Seq(Seq(C))
      OBVIOUS
    <3>. HIDE DEF C
    <3>2. FlattenSeq(qs \o ks) = FlattenSeq(qs) \o FlattenSeq(ks) /\ FlattenSeq(ks) \in Seq(C)
      BY <3>1, FlattenConcat
    <3>3. raw = FlattenSeq(qs \o ks)
      BY <2>1, <2>9
    <3>. QED  BY <2>9, <3>2, <3>3 DEF C
  <2>14. z.pending \o c2 = RecordsOf(z.key, z.counter, ks)
    BY <2>9, <2>11
  <2>15. s.counter = z.counter + Len(ks)
    <3>1. s.counter = r.counter + (Len(qs) + Len(ks)) /\ z.counter = r.counter + Len(qs)
      BY <2>1, <2>11, <2>12
    <3>. QED  BY <2>12, <3>1, SMT
  <2>16. Counted(z, c2, s, left)
    BY <2>1, <2>6, <2>11, <2>14, <2>15 DEF Counted
  <2>17. Alike(z, r) /\ Alike(z, s) /\ InRecords(z)
    BY <1>1, <1>2, <2>11 DEF Alike, InRecords
  <2>. HIDE DEF z, left
  <2>18. Carries(K, z, c2, s, left)
    BY <1>1, <2>10, <2>11, <2>13, <2>16, <2>17 DEF Carries
  <2>. QED  BY <1>1, <2>7, <2>11, <2>13, <2>17, <2>18 DEF Deciphers, z
<1>3. CASE ~InRecords(r)
  <2>. DEFINE z == x.r
              y == Deciphered(z, c2)
              both == Deciphered(r, ws)
              left == y.out
  <2>1. Flows(r, ws, s, raw) /\ r.counter = s.counter /\ r.pending = <<>>
    BY <1>1, <1>3
  <2>2. Further(K, r, c1, c2, x, y)
    BY <1>1, <1>3, DecipheredFurther
  <2>3. /\ x \in Openings(K) /\ y \in Openings(K) /\ both = [r |-> y.r, out |-> x.out \o left]
        /\ Keeps(r, z) /\ (y.r.ok => z.ok)
    BY <2>2 DEF Further, ws
  <2>4. both.out = raw /\ both.r.bf = s.bf /\ both.r.hdr = <<>> /\ both.r.body = 0 /\ both.r.ok
    BY <2>1 DEF Flows
  <2>. HIDE DEF both
  <2>5. both.r = y.r /\ both.out = x.out \o left
    BY <2>3
  <2>6. z \in Receivers(K) /\ left \in Seq(Cells)
    BY <2>3 DEF Openings
  <2>7. Flows(z, c2, s, left)
    BY <2>4, <2>5 DEF Flows
  <2>. HIDE DEF z, y, left
  <2>8. z.ok /\ raw = x.out \o left
    BY <2>3, <2>4, <2>5
  <2>9. Alike(z, r) /\ Alike(z, s) /\ ~InRecords(z) /\ z.counter = s.counter /\ z.pending = <<>>
        /\ z.held = r.held
    BY <1>1, <1>3, <2>1, <2>3 DEF Alike, InRecords, Keeps
  <2>10. Carries(K, z, c2, s, left)
    BY <2>6, <2>7, <2>8, <2>9 DEF Carries
  <2>. QED  BY <2>3, <2>6, <2>8, <2>9, <2>10 DEF Deciphers, z
<1>. QED  BY <1>2, <1>3

\* Nothing on its way: the two are in the same state, and nothing is left.
Together(r, s, raw) ==
  /\ raw = <<>> /\ r.hdr = <<>> /\ r.body = 0 /\ r.pending = <<>>
  /\ r.bf = s.bf /\ r.counter = s.counter

LEMMA CarriesNothing ==
  ASSUME NEW K, NEW r, NEW s, NEW raw, NEW q, q = <<>>, Carries(K, r, q, s, raw)
  PROVE  Together(r, s, raw)
<1>1. /\ r \in Receivers(K) /\ r.ok
      /\ InRecords(r) => Counted(r, q, s, raw)
      /\ ~InRecords(r) => Flows(r, q, s, raw) /\ r.counter = s.counter /\ r.pending = <<>>
  BY DEF Carries
<1>2. CASE InRecords(r)
  <2>1. PICK ps \in Seq(Seq(Cells)) :
          /\ r.pending \o q = RecordsOf(r.key, r.counter, ps) /\ raw = FlattenSeq(ps)
          /\ s.counter = r.counter + Len(ps) /\ s.bf = r.bf
          /\ r.hdr = <<>> /\ r.body = 0 /\ Drained(r.pending)
    BY <1>1, <1>2 DEF Counted
  <2>. DEFINE p == r.pending
              key == r.key
              c == r.counter
              W == Wireds(K)
  <2>2. p \in Seq(W) /\ key \in K /\ c \in Nat
    BY <1>1 DEF Receivers
  <2>3. p \o q = p
    <3>. HIDE DEF p, W
    <3>. QED  BY <2>2, ConcatEmptySeq
  <2>4. p = RecordsOf(key, c, ps)
    BY <2>1, <2>3
  <2>5. Drained(p)
    BY <2>1
  <2>. HIDE DEF p, key, c, W
  <2>6. ASSUME ps # <<>> PROVE FALSE
    <3>. DEFINE h == Head(ps)
                ts == Tail(ps)
                R == Record(key, c, h)
                others == RecordsOf(key, c + Len(<<h>>), ts)
    <3>1. h \in Seq(Cells) /\ ts \in Seq(Seq(Cells)) /\ ps = <<h>> \o ts
      <4>. DEFINE X == Seq(Cells)
      <4>1. ps \in Seq(X)
        OBVIOUS
      <4>. HIDE DEF X
      <4>2. Head(ps) \in X /\ Tail(ps) \in Seq(X) /\ ps = <<Head(ps)>> \o Tail(ps)
        BY <2>6, <4>1, OneAndOthers
      <4>. QED  BY <4>2 DEF X
    <3>. DEFINE one == <<h>>
    <3>2. one \in Seq(Seq(Cells)) /\ Len(one) \in Nat
      BY <3>1
    <3>. HIDE DEF h, ts
    <3>3. RecordsOf(key, c, one) = R
      BY <2>2, <3>1, RecordsOne
    <3>4. IsRecord(K, R, key, c, h)
      BY <2>2, <3>1, RecordIs
    <3>. HIDE DEF one, R
    <3>5. RecordsJoin(key, c, one, ts)
      BY <2>2, <3>1, <3>2, RecordsConcat
    <3>. DEFINE d == c + Len(one)
                O == RecordsOf(key, d, ts)
    <3>6. d \in Nat
      BY <2>2, <3>2
    <3>. HIDE DEF d
    <3>7. RecordRun(K, key, d, ts)
      BY <2>2, <3>1, <3>6, RecordRuns
    <3>8. O \in Seq(W)
      BY <3>7 DEF RecordRun, W
    <3>9. p = R \o O
      BY <2>4, <3>1, <3>3, <3>5 DEF RecordsJoin, d, one
    <3>. HIDE DEF O
    <3>10. /\ R \in Seq(W) /\ Len(R) = Len(h) + 2 /\ Len(h) \in Nat
           /\ R[1] = Wired(Cell("length", 0, 0, Len(h)), <<>>)
      BY <3>1, <3>4, LenProperties DEF IsRecord, W
    <3>. DEFINE ro == R \o O
    <3>11. /\ Len(ro) = Len(R) + Len(O) /\ Len(O) \in Nat
           /\ \A i \in 1 .. Len(R) + Len(O) : ro[i] = IF i <= Len(R) THEN R[i] ELSE O[i - Len(R)]
      BY <3>8, <3>10, ConcatProperties, LenProperties
    <3>. HIDE DEF ro
    <3>12. 1 \in 1 .. Len(R) + Len(O) /\ 1 <= Len(R)
      BY <3>10, <3>11, SMT
    <3>13. ro[1] = R[1]
      BY <3>11, <3>12
    <3>14. p[1].cell.n = Len(h)
      BY <3>9, <3>10, <3>13 DEF ro, Wired, Cell
    <3>15. FrameSize(p) = Len(h) + 2
      BY <3>14 DEF FrameSize
    <3>16. Len(p) = (Len(h) + 2) + Len(O)
      BY <3>9, <3>10, <3>11 DEF ro
    <3>17. ~(Len(p) < FrameSize(p))
      BY <3>10, <3>11, <3>15, <3>16, SMT
    <3>18. p # <<>>
      <4>1. Len(p) # 0
        BY <3>10, <3>11, <3>16, SMT
      <4>. QED  BY <4>1
    <3>. QED  BY <2>5, <3>17, <3>18 DEF Drained
  <2>7. ps = <<>>
    BY <2>6
  <2>8. p = <<>>
    BY <2>4, <2>7, RecordsNone
  <2>9. raw = <<>>
    BY <2>1, <2>7, FlattenEmpty
  <2>10. s.counter = r.counter
    <3>1. s.counter = c + 0
      BY <2>1, <2>7 DEF c
    <3>. QED  BY <2>2, <3>1, SMT DEF c
  <2>. QED  BY <2>1, <2>8, <2>9, <2>10 DEF Together, p
<1>3. CASE ~InRecords(r)
  <2>1. Flows(r, q, s, raw) /\ r.counter = s.counter /\ r.pending = <<>>
    BY <1>1, <1>3
  <2>2. Deciphered(r, q) = Begun(r)
    BY <1>1, <1>3, DecipheredNothing
  <2>. QED  BY <2>1, <2>2 DEF Flows, Begun, Together
<1>. QED  BY <1>2, <1>3

\* Two transports that are new.
LEMMA CarriesFresh ==
  ASSUME NEW key, NEW K, key \in K, NEW I, NEW cipher \in Ciphers \cup {"none"},
         NEW compression \in Compressions \cup {"none"},
         NEW s, s = SenderOf(cipher, compression, key),
         NEW r, r = ReceiverOf(cipher, compression, key)
  PROVE  /\ s \in Senders(K, I) /\ r \in Receivers(K)
         /\ \A q : q = <<>> => Carries(K, r, q, s, q)
<1>1. Blowfish(key) \in Blowfishes(K)
  <2>1. <<>> \in Seq(Nat)
    BY EmptySeq
  <2>. QED  BY <2>1 DEF Blowfish, Blowfishes
<1>2. <<>> \in Seq(Cells) /\ <<>> \in Seq(Wireds(K)) /\ <<>> \in Seq(Plains(I))
  BY EmptySeq
<1>3. s \in Senders(K, I) /\ r \in Receivers(K)
  BY <1>1, <1>2 DEF SenderOf, ReceiverOf, Senders, Receivers
<1>4. ASSUME NEW q, q = <<>> PROVE Carries(K, r, q, s, q)
  <2>1. /\ r.ok /\ r.hdr = <<>> /\ r.body = 0 /\ r.pending = <<>> /\ r.bf = s.bf
        /\ r.counter = 0 /\ s.counter = 0 /\ Alike(r, s)
    BY DEF SenderOf, ReceiverOf, Alike
  <2>2. q \in Seq(Wireds(K)) /\ q \in Seq(Cells)
    BY <1>2, <1>4
  <2>3. CASE InRecords(r)
    <3>. DEFINE z == <<>>
    <3>1. z \in Seq(Seq(Cells)) /\ z = <<>> /\ Len(z) = 0
      BY EmptySeq
    <3>. HIDE DEF z
    <3>2. RecordsOf(r.key, r.counter, z) = <<>> /\ FlattenSeq(z) = <<>>
      BY <3>1, RecordsNone, FlattenEmpty
    <3>3. r.pending \o q = <<>>
      BY <1>4, <2>1
    <3>4. Drained(r.pending)
      BY <2>1 DEF Drained
    <3>5. s.counter = r.counter + Len(z)
      BY <2>1, <3>1
    <3>6. Counted(r, q, s, q)
      BY <1>4, <2>1, <3>1, <3>2, <3>3, <3>4, <3>5 DEF Counted
    <3>. QED  BY <1>3, <2>1, <2>2, <2>3, <3>6 DEF Carries
  <2>4. CASE ~InRecords(r)
    <3>1. Deciphered(r, q) = Begun(r)
      BY <1>3, <1>4, <2>4, DecipheredNothing
    <3>2. Flows(r, q, s, q)
      BY <1>4, <2>1, <3>1 DEF Flows, Begun
    <3>. QED  BY <1>3, <2>1, <2>2, <2>4, <3>2 DEF Carries
  <2>. QED  BY <2>3, <2>4
<1>. QED  BY <1>3, <1>4

----------------------------------------------------------------------------
(* Units of a compression: what they were made of.                          *)

Packed == {c \in Cells : c.packed}
Units == Packed \cup {End}

UnpackStep(u, c) == IF c.packed THEN Append(u, [c EXCEPT !.packed = FALSE]) ELSE u
UnpackSteps == [u \in Seq(Cells) |-> [c \in Cells |-> UnpackStep(u, c)]]


\* Unpacked is UnpackStep, cell after cell.
LEMMA UnpackedAfter ==
  ASSUME NEW s \in Seq(Cells)
  PROVE  /\ Feeds(Seq(Cells), Cells, <<>>, s, UnpackSteps)
         /\ Unpacked(s) = AfterAll(Seq(Cells), <<>>, s, UnpackSteps)
<1>. DEFINE D == SUBSET (DOMAIN s)
            V == Seq(Cells)
            X == Cells
            G == UnpackSteps
            b == <<>>
            f == CHOOSE f : f = [P \in D |-> IF P = {} THEN b
                                             ELSE UnpackStep(f[P \ {Max(P)}], s[Max(P)])]
<1>1. Unpacked(s) = f[DOMAIN s]
  BY DEF Unpacked, UnpackStep, FoldLeft, MapThenFoldSet
<1>2. ASSUME NEW v \in V, NEW x \in X
      PROVE  UnpackStep(v, x) \in V /\ UnpackStep(v, x) = G[v][x]
  <2>1. [x EXCEPT !.packed = FALSE] \in Cells
    BY DEF Cells
  <2>2. Append(v, [x EXCEPT !.packed = FALSE]) \in Seq(Cells)
    BY <2>1, AppendProperties
  <2>. QED  BY <2>2 DEF UnpackStep, UnpackSteps
<1>3. b \in V
  BY EmptySeq
<1>. HIDE DEF f, b, V, X
<1>4. G \in [V -> [X -> V]]
  BY <1>2 DEF UnpackSteps, V, X
<1>. HIDE DEF G
<1>5. s \in Seq(X) /\ Feeds(V, X, b, s, G)
  BY <1>3, <1>4 DEF Feeds, X
<1>6. PICK g : FoldOver(g, V, X, b, s, G)
  BY <1>5, FoldExists
<1>7. g = [P \in D |-> IF P = {} THEN b ELSE UnpackStep(g[P \ {Max(P)}], s[Max(P)])]
  BY <1>2, <1>6 DEF FoldOver
<1>8. f = [P \in D |-> IF P = {} THEN b ELSE UnpackStep(f[P \ {Max(P)}], s[Max(P)])]
  BY <1>7 DEF f
<1>9. f[{}] = b
  BY <1>8
<1>10. ASSUME NEW k \in DOMAIN s, f[1 .. k - 1] \in V
       PROVE  f[1 .. k] = G[f[1 .. k - 1]][s[k]]
  <2>1. DOMAIN s = 1 .. Len(s) /\ Len(s) \in Nat /\ s[k] \in X
    BY <1>5, LenProperties, ElementOfSeq
  <2>2. Max(1 .. k) = k /\ (1 .. k) \ {k} = 1 .. k - 1 /\ 1 .. k # {} /\ 1 .. k \in D
    BY <2>1, MaxOfRun
  <2>3. f[1 .. k] = UnpackStep(f[1 .. k - 1], s[k])
    BY <1>8, <2>2
  <2>. QED  BY <1>2, <1>10, <2>1, <2>3
<1>11. f[DOMAIN s] = AfterAll(V, b, s, G)
  BY <1>5, <1>9, <1>10, FoldIsAfter
<1>. QED  BY <1>1, <1>5, <1>11 DEF V, X, G, b

LEMMA UnpackedLaws ==
  ASSUME NEW s \in Seq(Cells)
  PROVE  /\ s = <<>> => Unpacked(s) = <<>>
         /\ Unpacked(s) \in Seq(Cells)
         /\ \A x \in Cells : Unpacked(Append(s, x)) = UnpackStep(Unpacked(s), x)
<1>. DEFINE V == Seq(Cells)
            X == Cells
            b == <<>>
            G == UnpackSteps
<1>1. ASSUME NEW t \in Seq(X)
      PROVE  Feeds(V, X, b, t, G) /\ Unpacked(t) = AfterAll(V, b, t, G)
  BY UnpackedAfter
<1>. HIDE DEF b
<1>2. Feeds(V, X, b, s, G) /\ Unpacked(s) = AfterAll(V, b, s, G)
  BY <1>1
<1>3. ASSUME s = <<>> PROVE Unpacked(s) = b
  BY <1>2, <1>3, AfterEmpty
<1>4. Unpacked(s) \in V
  BY <1>2, AfterType
<1>5. ASSUME NEW x \in X PROVE Unpacked(Append(s, x)) = UnpackStep(Unpacked(s), x)
  <2>1. Append(s, x) \in Seq(X)
    BY AppendProperties
  <2>2. Unpacked(Append(s, x)) = AfterAll(V, b, Append(s, x), G)
    BY <1>1, <2>1
  <2>3. AfterAll(V, b, Append(s, x), G) = G[AfterAll(V, b, s, G)][x]
    BY <1>2, AfterMore
  <2>. QED  BY <1>2, <1>4, <2>2, <2>3 DEF UnpackSteps
<1>. QED  BY <1>3, <1>4, <1>5 DEF b

\* One unit after another.
UnpacksOver(s, t) ==
  /\ Unpacked(s \o t) = Unpacked(s) \o Unpacked(t)
  /\ Unpacked(s) \in Seq(Cells) /\ Unpacked(t) \in Seq(Cells)

LEMMA UnpackedConcat ==
  ASSUME NEW s \in Seq(Cells), NEW t \in Seq(Cells)
  PROVE  UnpacksOver(s, t)
<1>. DEFINE T == {u \in Seq(Cells) : Unpacked(s \o u) = Unpacked(s) \o Unpacked(u)}
            p == Unpacked(s)
<1>1. p \in Seq(Cells)
  BY UnpackedLaws
<1>2. ASSUME NEW q, q = <<>> PROVE q \in T
  <2>1. q \in Seq(Cells) /\ s \o q = s
    BY <1>2, EmptySeq, ConcatEmptySeq
  <2>2. Unpacked(q) = <<>>
    BY <1>2, <2>1, UnpackedLaws
  <2>. HIDE DEF p
  <2>3. p \o <<>> = p
    BY <1>1, ConcatEmptySeq
  <2>. QED  BY <2>1, <2>2, <2>3 DEF p
<1>3. ASSUME NEW u \in Seq(Cells), NEW c \in Cells, u \in T PROVE Append(u, c) \in T
  <2>. DEFINE z == Unpacked(u)
              d == [c EXCEPT !.packed = FALSE]
  <2>1. Append(u, c) \in Seq(Cells) /\ s \o u \in Seq(Cells)
        /\ s \o Append(u, c) = Append(s \o u, c)
    BY AppendProperties, ConcatAppend
  <2>2. Unpacked(Append(s \o u, c)) = UnpackStep(Unpacked(s \o u), c)
    BY <2>1, UnpackedLaws
  <2>3. Unpacked(Append(u, c)) = UnpackStep(z, c) /\ z \in Seq(Cells)
    BY UnpackedLaws
  <2>4. Unpacked(s \o u) = p \o z /\ d \in Cells
    BY <1>3 DEF Cells
  <2>. HIDE DEF p, z, d
  <2>5. p \o Append(z, d) = Append(p \o z, d)
    BY <1>1, <2>3, <2>4, ConcatAppend
  <2>6. UnpackStep(p \o z, c) = p \o UnpackStep(z, c)
    BY <2>5 DEF UnpackStep, d
  <2>. QED  BY <2>1, <2>2, <2>3, <2>4, <2>6 DEF p
<1>4. t \in T
  <2>. HIDE DEF T
  <2>. QED  BY <1>2, <1>3, SeqInduct
<1>5. Unpacked(t) \in Seq(Cells)
  BY UnpackedLaws
<1>. QED  BY <1>1, <1>4, <1>5 DEF UnpacksOver

\* What has no end in it is of as many cells.
LEMMA UnpackedLen ==
  ASSUME NEW s \in Seq(Packed)
  PROVE  Len(Unpacked(s)) = Len(s)
<1>. DEFINE T == {u \in Seq(Packed) : Len(Unpacked(u)) = Len(u)}
<1>1. Packed \subseteq Cells
  BY DEF Packed
<1>2. Seq(Packed) \subseteq Seq(Cells)
  BY <1>1, SeqMonotonic
<1>3. ASSUME NEW q, q = <<>> PROVE q \in T
  <2>1. q \in Seq(Packed) /\ q \in Seq(Cells) /\ Len(q) = 0
    BY <1>3, EmptySeq
  <2>2. Unpacked(q) = <<>>
    BY <1>3, <2>1, UnpackedLaws
  <2>. QED  BY <1>3, <2>1, <2>2
<1>4. ASSUME NEW u \in Seq(Packed), NEW c \in Packed, u \in T PROVE Append(u, c) \in T
  <2>. DEFINE z == Unpacked(u)
              d == [c EXCEPT !.packed = FALSE]
  <2>1. u \in Seq(Cells) /\ c \in Cells /\ c.packed /\ d \in Cells
    BY <1>1, <1>2 DEF Packed, Cells
  <2>2. z \in Seq(Cells) /\ Unpacked(Append(u, c)) = UnpackStep(z, c)
    BY <2>1, UnpackedLaws
  <2>3. Unpacked(Append(u, c)) = Append(z, d)
    BY <2>1, <2>2 DEF UnpackStep
  <2>4. Append(u, c) \in Seq(Packed) /\ Len(Append(u, c)) = Len(u) + 1
    BY AppendProperties
  <2>5. Len(z) = Len(u)
    BY <1>4
  <2>. HIDE DEF z, d
  <2>6. Len(Append(z, d)) = Len(z) + 1
    BY <2>1, <2>2, AppendProperties
  <2>. QED  BY <2>3, <2>4, <2>5, <2>6
<1>5. s \in T
  <2>. HIDE DEF T
  <2>. QED  BY <1>3, <1>4, SeqInduct
<1>. QED  BY <1>5

\* A unit is made of packed cells and its end, and is unpacked to what it was made of.
PackedOf(cells) == [j \in DOMAIN cells |-> [cells[j] EXCEPT !.packed = TRUE]]

LEMMA PackedMore ==
  ASSUME NEW s \in Seq(Cells), NEW c \in Cells
  PROVE  /\ PackedOf(s) \in Seq(Packed)
         /\ PackedOf(Append(s, c)) = Append(PackedOf(s), [c EXCEPT !.packed = TRUE])
<1>. DEFINE f == [d \in Cells |-> [d EXCEPT !.packed = TRUE]]
            one == <<c>>
            a == Append(s, c)
<1>1. f \in [Cells -> Packed]
  BY DEF Cells, Packed
<1>2. ASSUME NEW u \in Seq(Cells) PROVE PackedOf(u) = Mapped(f, u)
  <2>1. DOMAIN u = 1 .. Len(u) /\ \A j \in DOMAIN u : u[j] \in Cells
    BY LenProperties, ElementOfSeq
  <2>. QED  BY <2>1 DEF PackedOf, Mapped
<1>3. one \in Seq(Cells) /\ a \in Seq(Cells) /\ a = s \o one
  BY AppendProperties, AppendIsConcat
<1>4. /\ IsMapped(Cells, Packed, f, s, Mapped(f, s))
      /\ MapsJoin(Cells, Packed, f, s, one)
  <2>. HIDE DEF f, one
  <2>. QED  BY <1>1, <1>3, MappedTypes, MappedConcat
<1>5. Mapped(f, one) = <<[c EXCEPT !.packed = TRUE]>>
  <2>. DEFINE d == [c EXCEPT !.packed = TRUE]
              m == Mapped(f, one)
              o == <<d>>
  <2>1. IsMapped(Cells, Packed, f, one, m)
    <3>. HIDE DEF f, one
    <3>. QED  BY <1>1, <1>3, MappedTypes
  <2>2. f[c] = d /\ d \in Packed
    BY DEF Cells, Packed
  <2>3. Len(one) = 1 /\ one[1] = c /\ 1 \in 1 .. 1
    OBVIOUS
  <2>. HIDE DEF f, d, one, m
  <2>4. m \in Seq(Packed) /\ Len(m) = 1 /\ m[1] = d
    BY <2>1, <2>2, <2>3 DEF IsMapped
  <2>5. o \in Seq(Packed) /\ Len(o) = 1 /\ o[1] = d
    BY <2>2
  <2>6. \A i \in 1 .. Len(m) : m[i] = o[i]
    BY <2>4, <2>5
  <2>. HIDE DEF o
  <2>7. m = o
    BY <2>4, <2>5, <2>6, SeqEqual
  <2>. QED  BY <2>7 DEF m, o, d, one
<1>. DEFINE m == Mapped(f, s)
            d == [c EXCEPT !.packed = TRUE]
<1>6. m \in Seq(Packed) /\ d \in Packed
  BY <1>4 DEF IsMapped, Cells, Packed
<1>7. Mapped(f, a) = m \o <<d>>
  BY <1>3, <1>4, <1>5 DEF MapsJoin
<1>8. PackedOf(a) = Mapped(f, a) /\ PackedOf(s) = m
  BY <1>2, <1>3
<1>. HIDE DEF m, d
<1>9. Append(m, d) = m \o <<d>>
  BY <1>6, AppendIsConcat
<1>. QED  BY <1>6, <1>7, <1>8, <1>9 DEF d

LEMMA UnitUnpacked ==
  ASSUME NEW I, NEW s \in Seq(Plains(I)), NEW compression, compression # "none",
         NEW u, u = Compressed(compression, s)
  PROVE  u \in Seq(Units) /\ Unpacked(u) = s /\ Len(u) \in Nat \ {0} /\ u[Len(u)] = End
<1>. DEFINE T == {v \in Seq(Plains(I)) : PackedOf(v) \in Seq(Packed) /\ Unpacked(PackedOf(v)) = v}
            z == PackedOf(s)
<1>1. Packed \subseteq Cells /\ Seq(Packed) \subseteq Seq(Cells) /\ Seq(Packed) \subseteq Seq(Units)
  BY SeqMonotonic DEF Packed, Units
<1>2. ASSUME NEW q, q = <<>> PROVE q \in T
  <2>1. q \in Seq(Plains(I)) /\ q \in Seq(Packed) /\ q \in Seq(Cells)
    BY <1>2, EmptySeq
  <2>2. PackedOf(q) = q
    BY <1>2 DEF PackedOf
  <2>3. Unpacked(q) = q
    BY <1>2, <2>1, UnpackedLaws
  <2>. QED  BY <2>1, <2>2, <2>3
<1>3. ASSUME NEW v \in Seq(Plains(I)), NEW c \in Plains(I), v \in T PROVE Append(v, c) \in T
  <2>. DEFINE y == PackedOf(v)
              d == [c EXCEPT !.packed = TRUE]
  <2>1. v \in Seq(Cells) /\ c \in Cells /\ ~c.packed /\ d \in Packed /\ d \in Cells
    BY PlainCells DEF Plains, Packed, Cells
  <2>2. y \in Seq(Packed) /\ PackedOf(Append(v, c)) = Append(y, d)
    BY <2>1, PackedMore
  <2>3. Unpacked(y) = v /\ y \in Seq(Cells)
    BY <1>1, <1>3
  <2>4. d.packed /\ [d EXCEPT !.packed = FALSE] = c
    BY <2>1 DEF Cells
  <2>. HIDE DEF y, d
  <2>5. Unpacked(Append(y, d)) = UnpackStep(Unpacked(y), d)
    BY <2>1, <2>3, UnpackedLaws
  <2>6. Unpacked(Append(y, d)) = Append(v, c)
    BY <2>3, <2>4, <2>5 DEF UnpackStep
  <2>7. Append(v, c) \in Seq(Plains(I)) /\ Append(y, d) \in Seq(Packed)
    BY <2>1, <2>2, AppendProperties
  <2>. QED  BY <2>2, <2>6, <2>7
<1>4. s \in T
  <2>. HIDE DEF T
  <2>. QED  BY <1>2, <1>3, SeqInduct
<1>5. z \in Seq(Packed) /\ z \in Seq(Cells) /\ z \in Seq(Units) /\ Unpacked(z) = s
  BY <1>1, <1>4
<1>6. u = Append(z, End)
  BY DEF Compressed, PackedOf
<1>7. End \in Cells /\ End \in Units /\ ~End.packed
  BY CellTypes DEF Units, End, Cell
<1>. HIDE DEF z
<1>8. Unpacked(Append(z, End)) = UnpackStep(Unpacked(z), End)
  BY <1>5, <1>7, UnpackedLaws
<1>9. Unpacked(u) = s
  BY <1>5, <1>6, <1>7, <1>8 DEF UnpackStep
<1>10. u \in Seq(Units) /\ Len(u) = Len(z) + 1 /\ u[Len(z) + 1] = End /\ Len(z) \in Nat
  BY <1>5, <1>6, <1>7, AppendProperties, LenProperties
<1>. QED  BY <1>9, <1>10

----------------------------------------------------------------------------
(* What a decompressor holds, what it has yet to read, and what that comes to.  *)

Whole(u) == u = <<>> \/ u[Len(u)] = End

LEMMA PartsOf ==
  ASSUME NEW X, NEW S, NEW a \in Seq(X), NEW b \in Seq(X), a \o b \in Seq(S)
  PROVE  a \in Seq(S) /\ b \in Seq(S)
<1>. DEFINE n == Len(a)
            m == Len(b)
            ab == a \o b
<1>1. n \in Nat /\ m \in Nat /\ a = [i \in 1 .. n |-> a[i]] /\ b = [i \in 1 .. m |-> b[i]]
  BY LenProperties
<1>2. Len(ab) = n + m /\ \A i \in 1 .. n + m : ab[i] = IF i <= n THEN a[i] ELSE b[i - n]
  BY ConcatProperties
<1>3. \A i \in 1 .. n + m : ab[i] \in S
  BY <1>2, ElementOfSeq
<1>. HIDE DEF n, m, ab
<1>4. ASSUME NEW i \in 1 .. n PROVE a[i] \in S
  <2>1. i \in 1 .. n + m /\ i <= n
    BY <1>1, SMT
  <2>. QED  BY <1>2, <1>3, <2>1
<1>5. ASSUME NEW i \in 1 .. m PROVE b[i] \in S
  <2>1. n + i \in 1 .. n + m /\ ~(n + i <= n) /\ (n + i) - n = i
    BY <1>1, SMT
  <2>. QED  BY <1>2, <1>3, <2>1
<1>6. a \in [1 .. n -> S] /\ b \in [1 .. m -> S]
  BY <1>1, <1>4, <1>5
<1>. QED  BY <1>1, <1>6, SeqDef

LEMMA WholeEnds ==
  ASSUME NEW X, NEW a \in Seq(X), NEW b \in Seq(X)
  PROVE  /\ Whole(a \o b) => Whole(b)
         /\ Whole(b) /\ b # <<>> => Whole(a \o b)
<1>. DEFINE n == Len(a)
            m == Len(b)
            ab == a \o b
<1>1. /\ n \in Nat /\ m \in Nat /\ Len(ab) = n + m
      /\ \A i \in 1 .. n + m : ab[i] = IF i <= n THEN a[i] ELSE b[i - n]
  BY LenProperties, ConcatProperties
<1>2. b # <<>> => m # 0
  BY EmptySeq, LenProperties
<1>3. Len(<<>>) = 0
  OBVIOUS
<1>. HIDE DEF n, m, ab
<1>4. ASSUME b # <<>> PROVE ab[Len(ab)] = b[Len(b)] /\ ab # <<>>
  <2>1. m # 0
    BY <1>2, <1>4
  <2>2. n + m \in 1 .. n + m /\ ~(n + m <= n) /\ (n + m) - n = m /\ n + m # 0
    BY <1>1, <2>1, SMT
  <2>3. ab[n + m] = b[m]
    BY <1>1, <2>2
  <2>4. ab # <<>>
    BY <1>1, <1>3, <2>2
  <2>. QED  BY <1>1, <2>3, <2>4 DEF m
<1>. QED  BY <1>4 DEF Whole, ab

LEMMA ReadyIs ==
  ASSUME NEW compression, NEW all \in Seq(Units), NEW n, n = Ready(compression, all)
  PROVE  /\ n \in 0 .. Len(all)
         /\ compression # "LZ4" => n = Len(all)
         /\ compression = "LZ4" => \A j \in n + 1 .. Len(all) : all[j] \in Packed
<1>. DEFINE m == Len(all)
            ends == {j \in DOMAIN all : all[j] = End}
<1>1. m \in Nat /\ DOMAIN all = 1 .. m /\ \A j \in 1 .. m : all[j] \in Units
  BY LenProperties, ElementOfSeq
<1>2. ends \subseteq 1 .. m /\ \A j \in 1 .. m : j \notin ends => all[j] \in Packed
  BY <1>1 DEF Units
<1>3. n = IF compression = "LZ4" THEN (IF ends = {} THEN 0 ELSE Max(ends)) ELSE m
  BY DEF Ready
<1>. HIDE DEF ends, m
<1>4. CASE compression # "LZ4"
  BY <1>1, <1>3, <1>4 DEF m
<1>5. CASE compression = "LZ4" /\ ends = {}
  <2>1. n = 0
    BY <1>3, <1>5
  <2>2. \A j \in 1 .. m : all[j] \in Packed
    BY <1>2, <1>5
  <2>. QED  BY <1>1, <1>5, <2>1, <2>2 DEF m
<1>6. CASE compression = "LZ4" /\ ends # {}
  <2>1. n = Max(ends)
    BY <1>3, <1>6
  <2>2. n \in ends /\ \A k \in ends : k <= n
    BY <1>1, <1>2, <1>6, <2>1, MaxOf
  <2>3. n \in 1 .. m
    BY <1>2, <2>2
  <2>4. ASSUME NEW j \in n + 1 .. m PROVE all[j] \in Packed
    <3>1. j \in 1 .. m /\ ~(j <= n)
      BY <1>1, <2>3, SMT
    <3>. QED  BY <1>2, <2>2, <3>1
  <2>. QED  BY <1>1, <1>6, <2>3, <2>4 DEF m
<1>. QED  BY <1>4, <1>5, <1>6

\* With this held and raw to come, each unit of it whole at its end.
Inflatable(compression, held, raw) ==
  /\ held \in Seq(Packed) /\ raw \in Seq(Cells)
  /\ compression # "LZ4" => held = <<>>
  /\ compression # "none" => raw \in Seq(Units) /\ Whole(held \o raw)
Rest(compression, held, raw) ==
  IF compression = "none" THEN raw ELSE Unpacked(held \o raw)

LEMMA PackedCells == Seq(Packed) \subseteq Seq(Cells) /\ Seq(Packed) \subseteq Seq(Units)
                     /\ Seq(Units) \subseteq Seq(Cells)
BY SeqMonotonic, CellTypes DEF Packed, Units

LEMMA RestType ==
  ASSUME NEW compression, NEW held, NEW raw, Inflatable(compression, held, raw)
  PROVE  Rest(compression, held, raw) \in Seq(Cells)
<1>1. held \in Seq(Cells) /\ raw \in Seq(Cells)
  BY PackedCells DEF Inflatable
<1>2. held \o raw \in Seq(Cells)
  BY <1>1, ConcatProperties
<1>3. Unpacked(held \o raw) \in Seq(Cells)
  BY <1>2, UnpackedLaws
<1>. QED  BY <1>1, <1>3 DEF Rest

Inflates(compression, held, raw, more, plain) ==
  /\ Inflatable(compression, held, raw \o more)
  /\ Rest(compression, held, raw \o more) = Rest(compression, held, raw) \o plain

\* Another unit.
LEMMA InflatesMore ==
  ASSUME NEW compression, compression # "none", NEW held, NEW raw,
         Inflatable(compression, held, raw),
         NEW I, NEW plain \in Seq(Plains(I)),
         NEW more, more = Compressed(compression, plain)
  PROVE  Inflates(compression, held, raw, more, plain)
<1>1. /\ held \in Seq(Packed) /\ raw \in Seq(Units) /\ Whole(held \o raw)
      /\ compression # "LZ4" => held = <<>>
  BY DEF Inflatable
<1>2. more \in Seq(Units) /\ Unpacked(more) = plain /\ Len(more) \in Nat \ {0} /\ more[Len(more)] = End
  BY UnitUnpacked
<1>. DEFINE hr == held \o raw
            rm == raw \o more
<1>3. held \in Seq(Units) /\ held \in Seq(Cells) /\ raw \in Seq(Cells) /\ more \in Seq(Cells)
  BY <1>1, <1>2, PackedCells
<1>4. hr \in Seq(Cells) /\ rm \in Seq(Units) /\ rm \in Seq(Cells)
  BY <1>1, <1>2, <1>3, ConcatProperties
<1>5. held \o rm = hr \o more
  <2>1. Regroups(held, raw, more)
    BY <1>3, RegroupsAll
  <2>. QED  BY <2>1 DEF Regroups
<1>. HIDE DEF hr
<1>6. UnpacksOver(hr, more)
  BY <1>3, <1>4, UnpackedConcat
<1>7. Whole(more) /\ more # <<>>
  BY <1>2 DEF Whole
<1>8. Whole(hr \o more)
  BY <1>3, <1>4, <1>7, WholeEnds
<1>. HIDE DEF rm
<1>9. Inflatable(compression, held, rm)
  BY <1>1, <1>4, <1>5, <1>8 DEF Inflatable
<1>10. Rest(compression, held, rm) = Rest(compression, held, raw) \o plain
  BY <1>2, <1>5, <1>6 DEF Rest, UnpacksOver, hr
<1>. QED  BY <1>9, <1>10 DEF Inflates, rm

Yields(compression, held, cells, left, de) ==
  /\ Inflatable(compression, de.held, left)
  /\ Rest(compression, held, cells \o left) = de.out \o Rest(compression, de.held, left)
  /\ de.out \in Seq(Cells) /\ de.ok \in BOOLEAN
  /\ ~de.ok => Len(de.out) > MaxOutput
                \/ (compression = "LZ4" /\ Len(Rest(compression, de.held, left)) > MaxHeld)

\* What came is read as far as it goes, and it fails only for its size.
LEMMA InflatesRead ==
  ASSUME NEW compression, compression # "none", NEW held,
         NEW cells \in Seq(Cells), NEW left \in Seq(Cells),
         Inflatable(compression, held, cells \o left),
         NEW de, de = Decompressed(compression, held, cells)
  PROVE  Yields(compression, held, cells, left, de)
<1>. DEFINE all == held \o cells
            n == Ready(compression, all)
            m == Len(all)
            take == SubSeq(all, 1, n)
            keep == SubSeq(all, n + 1, m)
            read == Unpacked(take)
            raw == cells \o left
            fits == /\ \A j \in DOMAIN all : all[j].packed \/ all[j] = End
                    /\ Len(read) <= MaxOutput /\ m - Len(take) <= MaxHeld
<1>1. /\ held \in Seq(Packed) /\ raw \in Seq(Units) /\ Whole(held \o raw)
      /\ compression # "LZ4" => held = <<>>
  BY DEF Inflatable
<1>2. cells \in Seq(Units) /\ left \in Seq(Units)
  BY <1>1, PartsOf
<1>3. held \in Seq(Units) /\ held \in Seq(Cells)
  BY <1>1, PackedCells
<1>4. all \in Seq(Units) /\ m \in Nat
  BY <1>2, <1>3, ConcatProperties, LenProperties
<1>5. held \o raw = all \o left
  <2>1. Regroups(held, cells, left)
    BY <1>3, RegroupsAll
  <2>. QED  BY <2>1 DEF Regroups
<1>6. de = [ok |-> fits, held |-> SubSeq(all, Len(take) + 1, m), out |-> read]
  BY DEF Decompressed
<1>. HIDE DEF all, raw
<1>7. /\ n \in 0 .. m
      /\ compression # "LZ4" => n = m
      /\ compression = "LZ4" => \A j \in n + 1 .. m : all[j] \in Packed
  BY <1>4, ReadyIs
<1>. HIDE DEF n, m
<1>8. 1 \in 1 .. m + 1 /\ n \in 1 - 1 .. m /\ m \in n .. m /\ n + 1 \in Int /\ m \in Int /\ n \in Int
  BY <1>4, <1>7, SMT
<1>9. take \o keep = all
  <2>1. SubSeq(all, 1, n) \o SubSeq(all, n + 1, m) = SubSeq(all, 1, m)
    BY <1>4, <1>8, ConcatAdjacentSubSeq DEF m
  <2>2. SubSeq(all, 1, m) = all
    BY <1>4, SubSeqFull DEF m
  <2>. QED  BY <2>1, <2>2
<1>10. \A j \in 1 .. m : all[j] \in Units
  BY <1>4, ElementOfSeq DEF m
<1>11. take \in Seq(Units) /\ Len(take) = n
  <2>1. \A j \in 1 .. n : all[j] \in Units
    BY <1>7, <1>8, <1>10, SMT
  <2>2. /\ SubSeq(all, 1, n) \in Seq(Units)
        /\ Len(SubSeq(all, 1, n)) = IF 1 <= n THEN n - 1 + 1 ELSE 0
    BY <1>8, <2>1, SubSeqProperties
  <2>3. n = IF 1 <= n THEN n - 1 + 1 ELSE 0
    BY <1>7, <1>4, SMT
  <2>. QED  BY <2>2, <2>3
<1>12. keep \in Seq(Packed) /\ (compression # "LZ4" => keep = <<>>) /\ Len(keep) = m - n
  <2>1. CASE compression # "LZ4"
    <3>1. n = m /\ m < m + 1 /\ m - m = 0 /\ Len(<<>>) = 0
      BY <1>4, <1>7, <2>1, SMT
    <3>2. SubSeq(all, m + 1, m) = <<>>
      BY <1>8, <3>1, SubSeqEmpty
    <3>3. keep = <<>> /\ keep \in Seq(Packed)
      BY <3>1, <3>2, EmptySeq
    <3>. QED  BY <3>1, <3>3
  <2>2. CASE compression = "LZ4"
    <3>1. \A j \in n + 1 .. m : all[j] \in Packed
      BY <1>7, <2>2
    <3>2. /\ SubSeq(all, n + 1, m) \in Seq(Packed)
          /\ Len(SubSeq(all, n + 1, m)) = IF n + 1 <= m THEN m - (n + 1) + 1 ELSE 0
      BY <1>8, <3>1, SubSeqProperties
    <3>3. m - n = IF n + 1 <= m THEN m - (n + 1) + 1 ELSE 0
      BY <1>4, <1>7, SMT
    <3>. QED  BY <2>2, <3>2, <3>3
  <2>. QED  BY <2>1, <2>2
<1>. HIDE DEF take, keep, read
<1>13. /\ de.held = keep /\ de.out = read
       /\ de.ok = (/\ \A j \in DOMAIN all : all[j].packed \/ all[j] = End
                   /\ Len(read) <= MaxOutput /\ m - Len(take) <= MaxHeld)
  <2>. HIDE DEF fits
  <2>. DEFINE h == SubSeq(all, Len(take) + 1, m)
  <2>1. de = [ok |-> fits, held |-> h, out |-> read]
    BY <1>6
  <2>. HIDE DEF h
  <2>2. de.ok = fits
    BY <2>1
  <2>3. de.out = read /\ de.held = h
    BY <2>1
  <2>4. de.held = keep
    BY <1>11, <2>3 DEF keep, h
  <2>. QED  BY <2>2, <2>3, <2>4 DEF fits
<1>14. \A j \in DOMAIN all : all[j].packed \/ all[j] = End
  <2>1. DOMAIN all = 1 .. m
    BY <1>4, LenProperties DEF m
  <2>. QED  BY <1>10, <2>1 DEF Units, Packed
<1>15. take \in Seq(Cells) /\ keep \in Seq(Cells) /\ keep \in Seq(Units) /\ left \in Seq(Cells)
  BY <1>11, <1>12, PackedCells
<1>. DEFINE kl == keep \o left
<1>16. kl \in Seq(Cells) /\ take \o kl = all \o left
  <2>1. Regroups(take, keep, left)
    BY <1>15, RegroupsAll
  <2>2. kl \in Seq(Cells)
    BY <1>15, ConcatProperties
  <2>. QED  BY <1>9, <2>1, <2>2 DEF Regroups
<1>17. Whole(kl)
  <2>. HIDE DEF kl
  <2>1. Whole(take \o kl)
    BY <1>1, <1>5, <1>16
  <2>. QED  BY <1>15, <1>16, <2>1, WholeEnds
<1>18. Inflatable(compression, keep, left)
  BY <1>2, <1>12, <1>15, <1>17 DEF Inflatable
<1>19. UnpacksOver(take, kl)
  <2>. HIDE DEF kl
  <2>. QED  BY <1>15, <1>16, UnpackedConcat
<1>20. /\ Rest(compression, held, raw) = read \o Rest(compression, keep, left)
       /\ read \in Seq(Cells)
  BY <1>5, <1>16, <1>19 DEF Rest, UnpacksOver, read
<1>21. ASSUME ~de.ok
       PROVE  Len(read) > MaxOutput
              \/ (compression = "LZ4" /\ Len(Rest(compression, keep, left)) > MaxHeld)
  <2>1. Len(read) \in Nat /\ MaxOutput \in Nat /\ MaxHeld \in Nat
    BY <1>20, LenProperties, TransportAssumption
  <2>2. ~(Len(read) <= MaxOutput) \/ ~(m - n <= MaxHeld)
    BY <1>11, <1>13, <1>14, <1>21
  <2>3. CASE ~(Len(read) <= MaxOutput)
    BY <2>1, <2>3, SMT
  <2>4. CASE ~(m - n <= MaxHeld)
    <3>1. compression = "LZ4"
      <4>1. SUFFICES ASSUME compression # "LZ4" PROVE FALSE
        OBVIOUS
      <4>2. n = m
        BY <1>7, <4>1
      <4>. QED  BY <1>4, <2>1, <2>4, <4>2, SMT
    <3>2. UnpacksOver(keep, left)
      BY <1>15, UnpackedConcat
    <3>3. Len(Unpacked(keep)) = m - n
      BY <1>12, UnpackedLen
    <3>. DEFINE a == Unpacked(keep)
                b == Unpacked(left)
                ab == a \o b
    <3>4. a \in Seq(Cells) /\ b \in Seq(Cells) /\ Rest(compression, keep, left) = ab
      BY <3>2 DEF UnpacksOver, Rest
    <3>5. Len(a) = m - n
      BY <3>3
    <3>. HIDE DEF a, b
    <3>6. Len(ab) = Len(a) + Len(b) /\ Len(b) \in Nat
      BY <3>4, ConcatProperties, LenProperties
    <3>. HIDE DEF ab
    <3>7. Len(ab) > MaxHeld
      BY <1>4, <1>7, <2>1, <2>4, <3>5, <3>6, SMT
    <3>. QED  BY <3>1, <3>4, <3>7
  <2>. QED  BY <2>2, <2>3, <2>4
<1>22. de.ok \in BOOLEAN
  BY <1>13
<1>. HIDE DEF kl
<1>. QED  BY <1>13, <1>18, <1>20, <1>21, <1>22 DEF Yields, raw

\* Nothing to come: nothing is held.
LEMMA InflatesNothing ==
  ASSUME NEW compression, NEW held, NEW q, q = <<>>, Inflatable(compression, held, q)
  PROVE  held = <<>> /\ Rest(compression, held, q) = <<>>
<1>1. held \in Seq(Packed) /\ (compression # "LZ4" => held = <<>>)
      /\ (compression # "none" => Whole(held \o q))
  BY DEF Inflatable
<1>2. held \o q = held
  BY <1>1, ConcatEmptySeq
<1>3. held = <<>>
  <2>1. SUFFICES ASSUME held # <<>> PROVE FALSE
    OBVIOUS
  <2>2. compression = "LZ4" /\ Whole(held)
    BY <1>1, <1>2, <2>1
  <2>3. held[Len(held)] = End
    BY <2>1, <2>2 DEF Whole
  <2>4. Len(held) \in 1 .. Len(held)
    <3>1. Len(held) \in Nat \ {0}
      BY <1>1, <2>1, EmptySeq
    <3>. QED  BY <3>1, SMT
  <2>5. held[Len(held)] \in Packed
    BY <1>1, <2>4, ElementOfSeq
  <2>6. End \in Packed
    BY <2>3, <2>5
  <2>7. End.packed = FALSE
    BY DEF End, Cell
  <2>. QED  BY <2>6, <2>7 DEF Packed
<1>4. q \in Seq(Cells)
  BY EmptySeq
<1>5. Unpacked(q) = <<>>
  BY <1>4, UnpackedLaws
<1>. QED  BY <1>2, <1>3, <1>5 DEF Rest

----------------------------------------------------------------------------
(* One direction: a sender and a receiver that are linked, what has gone into  *)
(* the one and what has come out of the other.                               *)

Overfull(r, p) ==
  r.compression # "none" /\ (Len(p) > MaxOutput \/ Len(p) > MaxHeld)

\* What has come out, what is to come, and what the sender keeps are what went in.
InTransit(K, s, r, c, o, p, s0, raw, t) ==
  /\ Carries(K, r, c, s0, raw) /\ Inflatable(r.compression, r.held, raw)
  /\ s.ok => s0 = s /\ t = s.partial
  /\ (o \o Rest(r.compression, r.held, raw)) \o t = p

Flowing(K, I, s, r, c, o, p) ==
  /\ s \in Senders(K, I) /\ r \in Receivers(K) /\ c \in Seq(Wireds(K))
  /\ o \in Seq(Cells) /\ p \in Seq(Cells) /\ Alike(r, s)
  /\ ~InFrames(s) => s.partial = <<>>
  /\ s.ok => \E u \in Seq(Cells) : u \o s.partial = p
  /\ ~s.ok => Misfit(p)
  /\ ~r.ok => Overfull(r, p) /\ \E t \in Seq(Cells) : o \o t = p
  /\ r.ok => \E s0, raw : \E t \in Seq(Cells) : InTransit(K, s, r, c, o, p, s0, raw, t)

LEMMA FlowingFresh ==
  ASSUME NEW key, NEW K, key \in K, NEW I, NEW cipher \in Ciphers \cup {"none"},
         NEW compression \in Compressions \cup {"none"},
         NEW s, s = SenderOf(cipher, compression, key),
         NEW r, r = ReceiverOf(cipher, compression, key), NEW q, q = <<>>
  PROVE  Flowing(K, I, s, r, q, q, q)
<1>1. s \in Senders(K, I) /\ r \in Receivers(K) /\ Carries(K, r, q, s, q)
  BY CarriesFresh
<1>2. q \in Seq(Wireds(K)) /\ q \in Seq(Cells) /\ q \in Seq(Packed) /\ q \in Seq(Units)
  BY EmptySeq
<1>3. /\ s.ok /\ r.ok /\ s.partial = q /\ r.held = q /\ Alike(r, s)
  BY DEF SenderOf, ReceiverOf, Alike
<1>4. q \o q = q
  BY <1>2, ConcatEmptySeq
<1>5. Inflatable(r.compression, q, q)
  BY <1>2, <1>4 DEF Inflatable, Whole
<1>6. Rest(r.compression, q, q) = q
  BY <1>5, InflatesNothing
<1>7. InTransit(K, s, r, q, q, q, s, q, q)
  BY <1>1, <1>3, <1>4, <1>5, <1>6 DEF InTransit
<1>. QED  BY <1>1, <1>2, <1>3, <1>4, <1>7 DEF Flowing

\* A misfit stays one, whatever is before and after it.
LEMMA MisfitStays ==
  ASSUME NEW X, NEW a \in Seq(X), NEW b \in Seq(X)
  PROVE  (Misfit(a) => Misfit(a \o b)) /\ (Misfit(b) => Misfit(a \o b))
<1>. DEFINE n == Len(a)
            m == Len(b)
            ab == a \o b
<1>1. /\ n \in Nat /\ m \in Nat /\ Len(ab) = n + m /\ ab \in Seq(X)
      /\ \A i \in 1 .. n + m : ab[i] = IF i <= n THEN a[i] ELSE b[i - n]
  BY LenProperties, ConcatProperties
<1>2. DOMAIN a = 1 .. n /\ DOMAIN b = 1 .. m /\ DOMAIN ab = 1 .. n + m
  BY <1>1, LenProperties
<1>. HIDE DEF n, m, ab
<1>3. ASSUME NEW j \in 1 .. n, ~BodyFits(a[j].n) PROVE Misfit(ab)
  <2>1. j \in 1 .. n + m /\ j <= n
    BY <1>1, SMT
  <2>2. ab[j] = a[j]
    BY <1>1, <2>1
  <2>. QED  BY <1>2, <1>3, <2>1, <2>2 DEF Misfit
<1>4. ASSUME NEW j \in 1 .. m, ~BodyFits(b[j].n) PROVE Misfit(ab)
  <2>1. n + j \in 1 .. n + m /\ ~(n + j <= n) /\ (n + j) - n = j
    BY <1>1, SMT
  <2>2. ab[n + j] = b[j]
    BY <1>1, <2>1
  <2>. QED  BY <1>2, <1>4, <2>1, <2>2 DEF Misfit
<1>. QED  BY <1>2, <1>3, <1>4 DEF Misfit, ab

LEMMA OverfullStays ==
  ASSUME NEW r, NEW p \in Seq(Cells), NEW plain \in Seq(Cells), Overfull(r, p)
  PROVE  Overfull(r, p \o plain)
<1>. DEFINE pp == p \o plain
<1>1. /\ Len(pp) = Len(p) + Len(plain) /\ Len(p) \in Nat /\ Len(plain) \in Nat
      /\ MaxOutput \in Nat /\ MaxHeld \in Nat
  BY ConcatProperties, LenProperties, TransportAssumption
<1>2. Len(p) > MaxOutput \/ Len(p) > MaxHeld
  BY DEF Overfull
<1>. HIDE DEF pp
<1>3. Len(pp) > MaxOutput \/ Len(pp) > MaxHeld
  BY <1>1, <1>2, SMT
<1>. QED  BY <1>3 DEF Overfull, pp

\* A call that goes out: what it adds to what is to come.
Adds(K, s, r, c, o, p, plain, e, raw) ==
  \E t \in Seq(Cells) :
    InTransit(K, e.s, r, c \o e.wire, o, p \o plain, e.s, raw \o More(s, plain), t)

LEMMA AddsMore ==
  ASSUME NEW K, NEW I, NEW s \in Senders(K, I), s.ok,
         NEW plain \in Seq(Plains(I)), NEW rounds \in [I -> 0 .. MaxRounds],
         NEW e, e = Encode(s, plain, rounds), e.s.ok,
         NEW r \in Receivers(K), Alike(r, s), ~InFrames(s) => s.partial = <<>>,
         NEW c, NEW o \in Seq(Cells), NEW p \in Seq(Cells), NEW raw,
         InTransit(K, s, r, c, o, p, s, raw, s.partial)
  PROVE  Adds(K, s, r, c, o, p, plain, e, raw)
<1>. DEFINE more == More(s, plain)
            rest == Rest(r.compression, r.held, raw)
            t == e.s.partial
            par == s.partial
<1>1. /\ Carries(K, r, c, s, raw) /\ Inflatable(r.compression, r.held, raw)
      /\ (o \o rest) \o par = p
  BY DEF InTransit
<1>2. Sends(K, I, s, plain, e)
  BY EverySend
<1>3. /\ e.s \in Senders(K, I) /\ more \in Seq(Cells)
      /\ InFrames(s) => more \o t = par \o plain
      /\ ~InFrames(s) => t = par
  BY <1>2 DEF Sends
<1>4. Carries(K, r, c \o e.wire, e.s, raw \o more)
  BY <1>1, CarriesMore
<1>5. rest \in Seq(Cells) /\ raw \in Seq(Cells) /\ plain \in Seq(Cells)
  BY <1>1, RestType, PlainCells DEF Carries
<1>6. par \in Seq(Cells) /\ t \in Seq(Cells)
  BY <1>3, PlainCells DEF Senders
<1>7. r.compression = s.compression
  BY DEF Alike
<1>. HIDE DEF more, rest, t, par
<1>. DEFINE new == Rest(r.compression, r.held, raw \o more)
<1>8. Inflatable(r.compression, r.held, raw \o more) /\ (o \o new) \o t = p \o plain
  <2>1. CASE r.compression = "none"
    <3>1. raw \o more \in Seq(Cells)
      BY <1>3, <1>5, ConcatProperties
    <3>2. Inflatable(r.compression, r.held, raw \o more)
      BY <1>1, <2>1, <3>1 DEF Inflatable
    <3>3. rest = raw /\ new = raw \o more
      BY <2>1 DEF Rest, rest
    <3>4. more \o t = par \o plain
      <4>1. CASE InFrames(s)
        BY <1>3, <4>1
      <4>2. CASE ~InFrames(s)
        <5>1. more = plain
          BY <1>7, <2>1, <4>2 DEF More, Compressed, more
        <5>2. par = <<>> /\ t = <<>>
          BY <1>3, <4>2 DEF par
        <5>3. plain \o <<>> = plain /\ <<>> \o plain = plain
          BY <1>5, ConcatEmptySeq
        <5>. QED  BY <5>1, <5>2, <5>3
      <4>. QED  BY <4>1, <4>2
    <3>. DEFINE or == o \o raw
    <3>5. or \in Seq(Cells) /\ Regroups(o, raw, more)
      BY <1>3, <1>5, ConcatProperties, RegroupsAll
    <3>6. or \o par = p
      BY <1>1, <3>3
    <3>7. o \o (raw \o more) = or \o more
      BY <3>5 DEF Regroups
    <3>. HIDE DEF or, new
    <3>8. Regroups(or, more, t) /\ Regroups(or, par, plain)
      BY <1>3, <1>5, <1>6, <3>5, RegroupsAll
    <3>9. (or \o more) \o t = p \o plain
      BY <3>4, <3>6, <3>8 DEF Regroups
    <3>. QED  BY <3>2, <3>3, <3>7, <3>9
  <2>2. CASE r.compression # "none"
    <3>1. ~InFrames(s) /\ s.compression # "none"
      BY <1>7, <2>2 DEF InFrames
    <3>2. more = Compressed(r.compression, plain)
      BY <1>7, <3>1 DEF More, more
    <3>3. par = <<>> /\ t = <<>>
      BY <1>3, <3>1 DEF par
    <3>4. Inflates(r.compression, r.held, raw, more, plain)
      BY <1>1, <2>2, <3>2, InflatesMore
    <3>5. Inflatable(r.compression, r.held, raw \o more) /\ new = rest \o plain
      BY <3>4 DEF Inflates, rest
    <3>. DEFINE or == o \o rest
    <3>6. or \in Seq(Cells) /\ Regroups(o, rest, plain)
      BY <1>5, ConcatProperties, RegroupsAll
    <3>7. or \o <<>> = p
      BY <1>1, <3>3
    <3>8. o \o (rest \o plain) = or \o plain
      BY <3>6 DEF Regroups
    <3>. HIDE DEF or, new
    <3>9. or = p
      BY <3>6, <3>7, ConcatEmptySeq
    <3>. DEFINE pp == p \o plain
    <3>10. pp \in Seq(Cells)
      BY <1>5, ConcatProperties
    <3>11. pp \o <<>> = pp
      <4>. HIDE DEF pp
      <4>. QED  BY <3>10, ConcatEmptySeq
    <3>. QED  BY <3>3, <3>5, <3>8, <3>9, <3>11
  <2>. QED  BY <2>1, <2>2
<1>9. InTransit(K, e.s, r, c \o e.wire, o, p \o plain, e.s, raw \o more, t)
  BY <1>4, <1>8 DEF InTransit, t
<1>. QED  BY <1>6, <1>9 DEF Adds, more

\* Transport::encode, of anything.
LEMMA FlowingSend ==
  ASSUME NEW K, NEW I, NEW s, NEW r, NEW c, NEW o, NEW p, Flowing(K, I, s, r, c, o, p), s.ok,
         NEW plain \in Seq(Plains(I)), NEW rounds \in [I -> 0 .. MaxRounds],
         NEW e, e = Encode(s, plain, rounds)
  PROVE  Flowing(K, I, e.s, r, c \o e.wire, o, p \o plain)
<1>. DEFINE es == e.s
            new == e.wire
            more == More(s, plain)
            par == s.partial
            pp == p \o plain
            cc == c \o new
<1>1. /\ s \in Senders(K, I) /\ r \in Receivers(K) /\ c \in Seq(Wireds(K))
      /\ o \in Seq(Cells) /\ p \in Seq(Cells) /\ Alike(r, s)
      /\ ~InFrames(s) => s.partial = <<>>
      /\ s.ok => \E u \in Seq(Cells) : u \o s.partial = p
      /\ ~r.ok => Overfull(r, p) /\ \E t \in Seq(Cells) : o \o t = p
      /\ r.ok => \E s0, raw : \E t \in Seq(Cells) : InTransit(K, s, r, c, o, p, s0, raw, t)
  BY DEF Flowing
<1>2. Sends(K, I, s, plain, e)
  BY <1>1, EverySend
<1>3. /\ es \in Senders(K, I) /\ new \in Seq(Wireds(K)) /\ more \in Seq(Cells)
      /\ es.cipher = s.cipher /\ es.compression = s.compression /\ es.key = s.key
      /\ InFrames(s) => more \o es.partial = par \o plain
      /\ ~InFrames(s) => es.partial = par
      /\ s.ok /\ ~es.ok => new = <<>> /\ Misfit(par \o plain)
  BY <1>2 DEF Sends
<1>4. plain \in Seq(Cells) /\ par \in Seq(Cells) /\ es.partial \in Seq(Cells)
  <2>1. s.partial \in Seq(Plains(I)) /\ es.partial \in Seq(Plains(I))
    BY <1>1, <1>3 DEF Senders
  <2>. QED  BY <2>1, PlainCells
<1>5. PICK u \in Seq(Cells) : u \o par = p
  BY <1>1
<1>6. pp \in Seq(Cells) /\ cc \in Seq(Wireds(K))
  BY <1>1, <1>3, <1>4, ConcatProperties
<1>7. Alike(r, es)
  BY <1>1, <1>3 DEF Alike
<1>8. (InFrames(es) <=> InFrames(s)) /\ (~InFrames(es) => es.partial = <<>>)
  BY <1>1, <1>3 DEF InFrames
<1>. HIDE DEF es, new, more, par
<1>9. u \o (par \o plain) = pp
  <2>1. Regroups(u, par, plain)
    BY <1>4, RegroupsAll
  <2>. QED  BY <1>5, <2>1 DEF Regroups
<1>10. es.ok => \E v \in Seq(Cells) : v \o es.partial = pp
  <2>1. CASE InFrames(s)
    <3>. DEFINE ep == es.partial
                um == u \o more
    <3>1. ep \in Seq(Cells) /\ more \o ep = par \o plain
      BY <1>3, <1>4, <2>1
    <3>. HIDE DEF ep
    <3>2. Regroups(u, more, ep) /\ um \in Seq(Cells)
      BY <1>3, <3>1, RegroupsAll, ConcatProperties
    <3>3. um \o ep = pp
      BY <1>9, <3>1, <3>2 DEF Regroups
    <3>. QED  BY <3>2, <3>3 DEF ep
  <2>2. CASE ~InFrames(s)
    <3>1. es.partial = <<>>
      BY <1>8, <2>2
    <3>2. pp \o <<>> = pp
      <4>. HIDE DEF pp
      <4>. QED  BY <1>6, ConcatEmptySeq
    <3>. QED  BY <1>6, <3>1, <3>2
  <2>. QED  BY <2>1, <2>2
<1>11. ~es.ok => Misfit(pp)
  <2>. DEFINE q == par \o plain
  <2>1. q \in Seq(Cells) /\ u \o q = pp
    BY <1>4, <1>9, ConcatProperties
  <2>2. ~es.ok => Misfit(q)
    BY <1>3
  <2>. HIDE DEF q, pp
  <2>. QED  BY <2>1, <2>2, MisfitStays
<1>12. ~r.ok => Overfull(r, pp) /\ \E t \in Seq(Cells) : o \o t = pp
  <2>1. SUFFICES ASSUME ~r.ok PROVE Overfull(r, pp) /\ \E t \in Seq(Cells) : o \o t = pp
    OBVIOUS
  <2>2. PICK t \in Seq(Cells) : o \o t = p
    BY <1>1, <2>1
  <2>. DEFINE tp == t \o plain
  <2>3. Regroups(o, t, plain) /\ tp \in Seq(Cells)
    BY <1>1, <1>4, RegroupsAll, ConcatProperties
  <2>4. o \o tp = pp
    BY <2>2, <2>3 DEF Regroups
  <2>5. Overfull(r, pp)
    BY <1>1, <1>4, <2>1, OverfullStays
  <2>. QED  BY <2>3, <2>4, <2>5
<1>13. r.ok => \E s0, raw : \E t \in Seq(Cells) : InTransit(K, es, r, cc, o, pp, s0, raw, t)
  <2>1. SUFFICES ASSUME r.ok
                 PROVE  \E s0, raw : \E t \in Seq(Cells) : InTransit(K, es, r, cc, o, pp, s0, raw, t)
    OBVIOUS
  <2>2. PICK s0, raw : \E t \in Seq(Cells) : InTransit(K, s, r, c, o, p, s0, raw, t)
    BY <1>1, <2>1
  <2>3. PICK t \in Seq(Cells) : InTransit(K, s, r, c, o, p, s0, raw, t)
    BY <2>2
  <2>4. s0 = s /\ t = par
    BY <2>3 DEF InTransit, par
  <2>5. InTransit(K, s, r, c, o, p, s, raw, s.partial)
    BY <2>3, <2>4 DEF par
  <2>6. CASE es.ok
    <3>1. Adds(K, s, r, c, o, p, plain, e, raw)
      BY <1>1, <2>5, <2>6, AddsMore DEF es
    <3>. QED  BY <3>1 DEF Adds, es, new
  <2>7. CASE ~es.ok
    <3>. DEFINE rest == Rest(r.compression, r.held, raw)
                or == o \o rest
                tp == t \o plain
    <3>1. Carries(K, r, c, s0, raw) /\ Inflatable(r.compression, r.held, raw) /\ or \o t = p
      BY <2>3 DEF InTransit
    <3>2. rest \in Seq(Cells)
      BY <3>1, RestType
    <3>. HIDE DEF rest
    <3>3. or \in Seq(Cells)
      BY <1>1, <3>2, ConcatProperties
    <3>. HIDE DEF or
    <3>4. Regroups(or, t, plain) /\ tp \in Seq(Cells)
      BY <1>4, <3>3, RegroupsAll, ConcatProperties
    <3>5. or \o tp = pp
      BY <3>1, <3>4 DEF Regroups
    <3>6. cc = c
      <4>1. c \o <<>> = c
        BY <1>1, ConcatEmptySeq
      <4>. QED  BY <1>3, <2>7, <4>1
    <3>. HIDE DEF tp, pp, cc
    <3>7. InTransit(K, es, r, cc, o, pp, s0, raw, tp)
      BY <2>7, <3>1, <3>5, <3>6 DEF InTransit, or, rest
    <3>. QED  BY <3>4, <3>7
  <2>. QED  BY <2>6, <2>7
<1>. HIDE DEF pp, cc
<1>14. Flowing(K, I, es, r, cc, o, pp)
  BY <1>1, <1>3, <1>6, <1>7, <1>8, <1>10, <1>11, <1>12, <1>13 DEF Flowing
<1>. QED  BY <1>14 DEF es, cc, pp, new

\* Whatever state it is in, what has come out is the start of what went in.
LEMMA FlowingPrefix ==
  ASSUME NEW K, NEW I, NEW s, NEW r, NEW c, NEW o, NEW p, Flowing(K, I, s, r, c, o, p)
  PROVE  o \in Seq(Cells) /\ \E t \in Seq(Cells) : o \o t = p
<1>1. /\ o \in Seq(Cells)
      /\ ~r.ok => Overfull(r, p) /\ \E t \in Seq(Cells) : o \o t = p
      /\ r.ok => \E s0, raw : \E t \in Seq(Cells) : InTransit(K, s, r, c, o, p, s0, raw, t)
  BY DEF Flowing
<1>2. CASE ~r.ok
  BY <1>1, <1>2
<1>3. CASE r.ok
  <2>1. PICK s0, raw : \E t \in Seq(Cells) : InTransit(K, s, r, c, o, p, s0, raw, t)
    BY <1>1, <1>3
  <2>2. PICK t \in Seq(Cells) : InTransit(K, s, r, c, o, p, s0, raw, t)
    BY <2>1
  <2>. DEFINE rest == Rest(r.compression, r.held, raw)
              rt == rest \o t
  <2>3. Inflatable(r.compression, r.held, raw) /\ (o \o rest) \o t = p
    BY <2>2 DEF InTransit
  <2>4. rest \in Seq(Cells)
    BY <2>3, RestType
  <2>. HIDE DEF rest
  <2>5. rt \in Seq(Cells) /\ Regroups(o, rest, t)
    BY <1>1, <2>4, RegroupsAll, ConcatProperties
  <2>6. o \o rt = p
    BY <2>3, <2>5 DEF Regroups
  <2>. QED  BY <1>1, <2>5, <2>6
<1>. QED  BY <1>2, <1>3

\* With nothing on its way: the two are in step and nothing is held.
InStep(s, r, o, p) ==
  o \o s.partial = p /\ Idle(r) /\ r.bf = s.bf /\ r.counter = s.counter

LEMMA FlowingQuiet ==
  ASSUME NEW K, NEW I, NEW s, NEW r, NEW q, NEW o, NEW p, Flowing(K, I, s, r, q, o, p),
         q = <<>>, s.ok, r.ok
  PROVE  InStep(s, r, o, p)
<1>1. /\ o \in Seq(Cells)
      /\ r.ok => \E s0, raw : \E t \in Seq(Cells) : InTransit(K, s, r, q, o, p, s0, raw, t)
  BY DEF Flowing
<1>2. PICK s0, raw : \E t \in Seq(Cells) : InTransit(K, s, r, q, o, p, s0, raw, t)
  BY <1>1
<1>3. PICK t \in Seq(Cells) : InTransit(K, s, r, q, o, p, s0, raw, t)
  BY <1>2
<1>4. /\ Carries(K, r, q, s, raw) /\ Inflatable(r.compression, r.held, raw)
      /\ (o \o Rest(r.compression, r.held, raw)) \o s.partial = p
  BY <1>3 DEF InTransit
<1>5. Together(r, s, raw)
  BY <1>4, CarriesNothing
<1>6. raw = <<>>
  BY <1>5 DEF Together
<1>. DEFINE h == r.held
            z == r.compression
<1>7. Inflatable(z, h, raw)
  BY <1>4
<1>. HIDE DEF h, z
<1>8. h = <<>> /\ Rest(z, h, raw) = <<>>
  BY <1>6, <1>7, InflatesNothing
<1>9. o \o <<>> = o
  BY <1>1, ConcatEmptySeq
<1>10. o \o s.partial = p
  BY <1>4, <1>8, <1>9 DEF h, z
<1>. QED  BY <1>5, <1>8, <1>10 DEF Together, InStep, Idle, h

\* What a decompressor holds is of no matter to the cipher.
LEMMA CarriesHeld ==
  ASSUME NEW K, NEW r, NEW c, NEW s, NEW raw, Carries(K, r, c, s, raw), r.compression # "none",
         NEW h \in Seq(Cells), NEW z, z = [r EXCEPT !.held = h]
  PROVE  Carries(K, z, c, s, raw) /\ Alike(z, r) /\ z.held = h
<1>1. /\ r \in Receivers(K) /\ r.ok /\ c \in Seq(Wireds(K)) /\ raw \in Seq(Cells) /\ Alike(r, s)
      /\ InRecords(r) => Counted(r, c, s, raw)
      /\ ~InRecords(r) => Flows(r, c, s, raw) /\ r.counter = s.counter /\ r.pending = <<>>
  BY DEF Carries
<1>2. /\ z.cipher = r.cipher /\ z.compression = r.compression /\ z.key = r.key
      /\ z.counter = r.counter /\ z.bf = r.bf /\ z.hdr = r.hdr /\ z.body = r.body
      /\ z.pending = r.pending /\ z.ok = r.ok /\ z.held = h /\ z \in Receivers(K)
  BY <1>1 DEF Receivers
<1>3. /\ Alike(z, r) /\ Alike(z, s) /\ (InRecords(z) <=> InRecords(r))
  BY <1>1, <1>2 DEF Alike, InRecords
<1>4. InRecords(z) => Counted(z, c, s, raw)
  BY <1>1, <1>2, <1>3 DEF Counted
<1>5. ASSUME ~InRecords(z) PROVE Flows(z, c, s, raw)
  <2>1. Flows(r, c, s, raw) /\ ~InRecords(r)
    BY <1>1, <1>3, <1>5
  <2>2. CASE r.cipher = "none"
    BY <1>2, <2>1, <2>2 DEF Flows, Deciphered
  <2>3. CASE r.cipher # "none"
    <3>. DEFINE u == Unsealed(r.bf, c)
                b == u.bf
                d == u.done
    <3>1. Deciphered(r, c) = [r |-> [r EXCEPT !.bf = b], out |-> d]
      BY <2>1, <2>3 DEF Deciphered, OpenStream
    <3>2. Deciphered(z, c) = [r |-> [z EXCEPT !.bf = b], out |-> d]
      BY <1>2, <1>3, <1>5, <2>3 DEF Deciphered, OpenStream
    <3>. HIDE DEF u, b, d
    <3>. DEFINE rb == [r EXCEPT !.bf = b]
                zb == [z EXCEPT !.bf = b]
                A == Deciphered(r, c)
                B == Deciphered(z, c)
    <3>3. rb.bf = b /\ rb.hdr = r.hdr /\ rb.body = r.body /\ rb.ok = r.ok
      BY <1>1 DEF Receivers
    <3>4. zb.bf = b /\ zb.hdr = r.hdr /\ zb.body = r.body /\ zb.ok = r.ok
      <4>1. zb.bf = b /\ zb.hdr = z.hdr /\ zb.body = z.body /\ zb.ok = z.ok
        <5>. SUFFICES zb.bf = b /\ zb.hdr = z.hdr /\ zb.body = z.body /\ zb.ok = z.ok
          OBVIOUS
        <5>. QED  BY <1>2 DEF Receivers
      <4>. QED  BY <1>2, <4>1
    <3>5. A.out = d /\ A.r = rb /\ B.out = d /\ B.r = zb
      BY <3>1, <3>2
    <3>6. A.out = raw /\ A.r.bf = s.bf /\ A.r.hdr = <<>> /\ A.r.body = 0 /\ A.r.ok
      BY <2>1 DEF Flows
    <3>. HIDE DEF rb, zb, A, B
    <3>7. B.out = raw /\ B.r.bf = s.bf /\ B.r.hdr = <<>> /\ B.r.body = 0 /\ B.r.ok
      BY <3>3, <3>4, <3>5, <3>6
    <3>. QED  BY <3>7 DEF Flows, B
  <2>. QED  BY <2>2, <2>3
<1>. QED  BY <1>1, <1>2, <1>3, <1>4, <1>5 DEF Carries

\* What a call to decode gives.
Receives(K, I, s, r, c, o, p, u) ==
  /\ u.out \in Seq(Cells) /\ Alike(u.r, r)
  /\ Flowing(K, I, s, u.r, c, IF u.r.ok THEN o \o u.out ELSE o, p)

TooMuch(r, o, p) == Overfull(r, p) /\ \E v \in Seq(Cells) : o \o v = p

LEMMA MuchTooMuch ==
  ASSUME NEW r, r.compression # "none", NEW o \in Seq(Cells), NEW a \in Seq(Cells),
         NEW b \in Seq(Cells), NEW t \in Seq(Cells), NEW p, p = (o \o (a \o b)) \o t,
         Len(a) > MaxOutput \/ Len(b) > MaxHeld
  PROVE  TooMuch(r, o, p)
<1>. DEFINE ab == a \o b
            oab == o \o ab
            abt == ab \o t
<1>1. ab \in Seq(Cells) /\ oab \in Seq(Cells) /\ abt \in Seq(Cells) /\ p \in Seq(Cells)
  BY ConcatProperties
<1>2. /\ Len(a) \in Nat /\ Len(b) \in Nat /\ Len(t) \in Nat /\ Len(o) \in Nat
      /\ MaxOutput \in Nat /\ MaxHeld \in Nat
  BY LenProperties, TransportAssumption
<1>3. Len(ab) = Len(a) + Len(b)
  BY ConcatProperties
<1>4. Regroups(o, ab, t)
  BY <1>1, RegroupsAll
<1>. HIDE DEF ab
<1>5. Len(oab) = Len(o) + Len(ab)
  BY <1>1, ConcatProperties
<1>6. p = oab \o t /\ o \o abt = p
  BY <1>4 DEF Regroups, ab
<1>. HIDE DEF oab, abt
<1>7. Len(p) = Len(oab) + Len(t)
  BY <1>1, <1>6, ConcatProperties
<1>8. Len(p) > MaxOutput \/ Len(p) > MaxHeld
  BY <1>2, <1>3, <1>5, <1>7, SMT
<1>. QED  BY <1>1, <1>6, <1>8 DEF Overfull, TooMuch

\* Transport::decode, of anything that the other side's encode made.
LEMMA FlowingReceive ==
  ASSUME NEW K, NEW I, NEW s, NEW r, NEW c1 \in Seq(Wireds(K)), NEW c2 \in Seq(Wireds(K)),
         NEW o, NEW p, Flowing(K, I, s, r, c1 \o c2, o, p), r.ok,
         NEW u, u = Decode(r, c1)
  PROVE  Receives(K, I, s, r, c2, o, p, u)
<1>. DEFINE x == Deciphered(r, c1)
            de == Decompressed(r.compression, r.held, x.out)
            cc == c1 \o c2
<1>1. /\ s \in Senders(K, I) /\ r \in Receivers(K) /\ cc \in Seq(Wireds(K))
      /\ o \in Seq(Cells) /\ p \in Seq(Cells) /\ Alike(r, s)
      /\ ~InFrames(s) => s.partial = <<>>
      /\ s.ok => \E v \in Seq(Cells) : v \o s.partial = p
      /\ ~s.ok => Misfit(p)
      /\ r.ok => \E s0, raw : \E t \in Seq(Cells) : InTransit(K, s, r, cc, o, p, s0, raw, t)
  BY DEF Flowing
<1>2. PICK s0, raw : \E t \in Seq(Cells) : InTransit(K, s, r, cc, o, p, s0, raw, t)
  BY <1>1
<1>3. PICK t \in Seq(Cells) : InTransit(K, s, r, cc, o, p, s0, raw, t)
  BY <1>2
<1>. DEFINE z == r.compression
            h == r.held
<1>4. /\ Carries(K, r, c1 \o c2, s0, raw) /\ Inflatable(z, h, raw)
      /\ s.ok => s0 = s /\ t = s.partial
      /\ (o \o Rest(z, h, raw)) \o t = p
  BY <1>3 DEF InTransit
<1>5. u = IF z = "none" \/ ~x.r.ok THEN x
          ELSE [r |-> [x.r EXCEPT !.held = de.held, !.ok = de.ok], out |-> de.out]
  BY DEF Decode, Deciphered, InRecords
<1>6. x = Deciphered(r, c1)
  OBVIOUS
<1>. HIDE DEF x
<1>7. Deciphers(K, r, c2, s0, raw, x)
  BY <1>4, <1>6, CarriesRead
<1>8. /\ x \in Openings(K) /\ x.r.ok /\ x.r.held = h /\ Alike(x.r, r)
      /\ \E left \in Seq(Cells) : raw = x.out \o left /\ Carries(K, x.r, c2, s0, left)
  BY <1>7 DEF Deciphers
<1>9. PICK left \in Seq(Cells) : raw = x.out \o left /\ Carries(K, x.r, c2, s0, left)
  BY <1>8
<1>. DEFINE xr == x.r
            xo == x.out
<1>10. xr \in Receivers(K) /\ xo \in Seq(Cells)
  BY <1>8 DEF Openings
<1>11. Alike(xr, s) /\ xr.compression = z
  BY <1>1, <1>8 DEF Alike
<1>. HIDE DEF xr, xo
<1>12. CASE z = "none"
  <2>1. u.r = xr /\ u.out = xo /\ u.r.ok
    BY <1>5, <1>8, <1>12 DEF xr, xo
  <2>. DEFINE oo == o \o xo
  <2>2. oo \in Seq(Cells)
    BY <1>1, <1>10, ConcatProperties
  <2>3. Inflatable(z, h, left) /\ Rest(z, h, left) = left
    BY <1>4, <1>12 DEF Inflatable, Rest
  <2>4. (oo \o left) \o t = p
    <3>1. Regroups(o, xo, left)
      BY <1>1, <1>10, RegroupsAll
    <3>2. oo \o left = o \o raw
      BY <1>9, <3>1 DEF Regroups, xo
    <3>3. Rest(z, h, raw) = raw
      BY <1>12 DEF Rest
    <3>. QED  BY <1>4, <3>2, <3>3
  <2>. HIDE DEF oo
  <2>5. InTransit(K, s, xr, c2, oo, p, s0, left, t)
    BY <1>4, <1>8, <1>9, <1>11, <2>3, <2>4 DEF InTransit, xr
  <2>6. Flowing(K, I, s, xr, c2, oo, p)
    <3>1. xr.ok
      BY <1>8 DEF xr
    <3>. HIDE DEF z, h
    <3>. QED  BY <1>1, <1>10, <1>11, <2>2, <2>5, <3>1 DEF Flowing
  <2>7. Alike(u.r, r)
    BY <1>8, <2>1 DEF xr
  <2>. QED  BY <1>10, <2>1, <2>6, <2>7 DEF Receives, oo
<1>13. CASE z # "none"
  <2>1. u = [r |-> [xr EXCEPT !.held = de.held, !.ok = de.ok], out |-> de.out]
    BY <1>5, <1>8, <1>13 DEF xr
  <2>2. de = Decompressed(z, h, xo)
    BY DEF xo
  <2>3. Inflatable(z, h, xo \o left)
    BY <1>4, <1>9 DEF xo
  <2>. HIDE DEF z, h, de
  <2>4. Yields(z, h, xo, left, de)
    BY <1>10, <1>13, <2>2, <2>3, InflatesRead
  <2>. DEFINE dh == de.held
              do == de.out
              dk == de.ok
              rest == Rest(z, dh, left)
              w == [xr EXCEPT !.held = dh]
              y == [xr EXCEPT !.held = dh, !.ok = dk]
              oo == o \o do
  <2>5. /\ Inflatable(z, dh, left) /\ Rest(z, h, xo \o left) = do \o rest
        /\ do \in Seq(Cells) /\ dk \in BOOLEAN
        /\ ~dk => Len(do) > MaxOutput \/ (z = "LZ4" /\ Len(rest) > MaxHeld)
    BY <2>4 DEF Yields
  <2>6. dh \in Seq(Cells) /\ rest \in Seq(Cells)
    BY <2>5, PackedCells, RestType DEF Inflatable
  <2>7. u.r = y /\ u.out = do
    BY <2>1
  <2>. HIDE DEF dh, do, dk, rest
  <2>8. (o \o (do \o rest)) \o t = p
    BY <1>4, <1>9, <2>5 DEF xo
  <2>9. Carries(K, xr, c2, s0, left) /\ xr.ok /\ xr.compression # "none"
    BY <1>8, <1>9, <1>11, <1>13 DEF xr
  <2>10. w = [xr EXCEPT !.held = dh]
    OBVIOUS
  <2>11. y.ok = dk /\ y \in Receivers(K) /\ y.compression = z /\ y.cipher = xr.cipher
         /\ y.key = xr.key /\ (dk => y = w)
    BY <1>10, <1>11, <2>5, <2>6, <2>9 DEF Receivers
  <2>. HIDE DEF w, y
  <2>12. Carries(K, w, c2, s0, left) /\ Alike(w, xr) /\ w.held = dh
    BY <2>6, <2>9, <2>10, CarriesHeld
  <2>13. Alike(y, s) /\ Alike(y, r)
    BY <1>8, <1>11, <2>11 DEF Alike, xr
  <2>14. oo \in Seq(Cells)
    BY <1>1, <2>5, ConcatProperties
  <2>15. CASE dk
    <3>1. y = w /\ y.ok /\ y.held = dh
      BY <2>11, <2>12, <2>15
    <3>2. (oo \o rest) \o t = p
      <4>1. Regroups(o, do, rest)
        BY <1>1, <2>5, <2>6, RegroupsAll
      <4>. QED  BY <2>8, <4>1 DEF Regroups
    <3>. HIDE DEF oo
    <3>3. InTransit(K, s, y, c2, oo, p, s0, left, t)
      BY <1>4, <2>5, <2>11, <2>12, <3>1, <3>2 DEF InTransit, rest
    <3>4. Flowing(K, I, s, y, c2, oo, p)
      BY <1>1, <2>11, <2>13, <2>14, <3>1, <3>3 DEF Flowing
    <3>. QED  BY <2>5, <2>7, <2>13, <3>1, <3>4 DEF Receives, oo
  <2>16. CASE ~dk
    <3>1. ~y.ok /\ y.compression # "none"
      BY <1>13, <2>11, <2>16
    <3>2. Len(do) > MaxOutput \/ Len(rest) > MaxHeld
      BY <2>5, <2>16
    <3>3. p = (o \o (do \o rest)) \o t
      BY <2>8
    <3>4. TooMuch(y, o, p)
      BY <1>1, <2>5, <2>6, <3>1, <3>2, <3>3, MuchTooMuch
    <3>5. Flowing(K, I, s, y, c2, o, p)
      BY <1>1, <2>11, <2>13, <3>1, <3>4 DEF Flowing, TooMuch
    <3>. QED  BY <2>5, <2>7, <2>13, <3>1, <3>5 DEF Receives
  <2>. QED  BY <2>15, <2>16
<1>. QED  BY <1>12, <1>13
=============================================================================
