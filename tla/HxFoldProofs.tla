---------------------------- MODULE HxFoldProofs ----------------------------
(***************************************************************************)
(* Lemmas about runs of steps, and that the folds of the community modules  *)
(* are such runs: with them what a loop over a sequence keeps can be shown  *)
(* round by round, from the least number that it would fail for.           *)
(***************************************************************************)
EXTENDS Integers, Sequences, SequencesExt, SequenceTheorems, WellFoundedInduction, TLAPS

\* A set of naturals has a least: the induction that the proofs here are made of.
LEMMA LeastNat ==
  ASSUME NEW T, T \subseteq Nat, T # {}
  PROVE  \E n \in T : \A m \in T : n <= m
<1>. DEFINE R == {ss \in Nat \X Nat : ss[1] < ss[2]}
<1>1. IsWellFoundedOn(R, Nat)
  BY NatLessThanWellFounded DEF OpToRel
<1>. HIDE DEF R
<1>2. PICK n \in T : \A m \in T : ~(<<m, n>> \in R)
  BY <1>1, WFMin, Zenon
<1>3. \A m \in T : <<m, n>> \in R \/ n <= m
  BY SMT DEF R
<1>. QED  BY <1>2, <1>3, Zenon

\* A sequence is one of its own elements, and of any set that has them.
LEMMA SeqOfOwn ==
  ASSUME NEW S, NEW s \in Seq(S)
  PROVE  /\ s \in Seq(ToSet(s)) /\ ToSet(s) \subseteq S
         /\ \A T : ToSet(s) \subseteq T => s \in Seq(T)
<1>1. Len(s) \in Nat /\ DOMAIN s = 1 .. Len(s) /\ s \in [1 .. Len(s) -> S]
  BY SMT
<1>2. \A T : ToSet(s) \subseteq T => s \in [1 .. Len(s) -> T]
  BY <1>1, Zenon DEF ToSet
<1>3. \A T : s \in [1 .. Len(s) -> T] => s \in Seq(T)
  BY <1>1, SeqDef
<1>. QED  BY <1>1, <1>2, <1>3 DEF ToSet

\* A set that has 0 and, with each of a run, the one after it, has the run.
LEMMA UpTo ==
  ASSUME NEW n \in Nat, NEW T, 0 \in T,
         \A k \in 1 .. n : k - 1 \in T => k \in T
  PROVE  0 .. n \subseteq T
<1>. DEFINE Missed == {k \in 0 .. n : k \notin T}
<1>1. SUFFICES ASSUME Missed # {} PROVE FALSE
  OBVIOUS
<1>2. PICK k \in Missed : \A m \in Missed : k <= m
  BY <1>1, LeastNat, Missed \subseteq Nat
<1>3. k \in 1 .. n /\ k - 1 \in 0 .. n /\ k - 1 \notin Missed
  BY <1>2, SMT
<1>. QED  BY <1>2, <1>3


\* h starts as b, and each value of it is made from the one before by G's step.
Steps(h, V, b, n, G) ==
  /\ h \in [0 .. n -> V]
  /\ h[0] = b
  /\ \A k \in 1 .. n : h[k] = G[k][h[k - 1]]

\* There is such a run, whatever the steps.
LEMMA StepByStep ==
  ASSUME NEW V, NEW b \in V, NEW n \in Nat, NEW G \in [1 .. n -> [V -> V]]
  PROVE  \E h : Steps(h, V, b, n, G)
<1>. DEFINE Good(k, h) == h \in [0 .. n -> V] /\ h[0] = b /\ \A j \in 1 .. k : h[j] = G[j][h[j - 1]]
            T == {k \in 0 .. n : \E h : Good(k, h)}
<1>1. 0 \in T
  <2>. DEFINE h == [j \in 0 .. n |-> b]
  <2>1. h \in [0 .. n -> V] /\ Good(0, h)
    BY SMT
  <2>. HIDE DEF h
  <2>. QED  BY <2>1, SMT
<1>2. ASSUME NEW k \in 1 .. n, k - 1 \in T PROVE k \in T
  <2>1. PICK g : Good(k - 1, g)
    BY <1>2
  <2>. DEFINE h == [j \in 0 .. n |-> IF j = k THEN G[k][g[k - 1]] ELSE g[j]]
  <2>2. h \in [0 .. n -> V]
    BY <2>1, SMT
  <2>3. h[0] = b
    BY <2>1, SMT
  <2>4. ASSUME NEW j \in 1 .. k PROVE h[j] = G[j][h[j - 1]]
    <3>1. CASE j = k  BY <3>1, SMT
    <3>2. CASE j # k
      <4>1. j \in 1 .. k - 1 /\ j \in 0 .. n /\ j - 1 \in 0 .. n /\ j - 1 # k
        BY <3>2, SMT
      <4>2. h[j] = g[j] /\ h[j - 1] = g[j - 1]
        BY <4>1, <3>2
      <4>. QED  BY <4>1, <4>2, <2>1
    <3>. QED  BY <3>1, <3>2
  <2>. HIDE DEF h
  <2>5. Good(k, h)
    BY <2>2, <2>3, <2>4
  <2>6. k \in 0 .. n
    BY SMT
  <2>. HIDE DEF Good
  <2>. QED  BY <2>5, <2>6
<1>. HIDE DEF T
<1>3. 0 .. n \subseteq T
  BY <1>1, <1>2, UpTo
<1>4. n \in T
  BY <1>3, SMT
<1>. QED  BY <1>4 DEF T, Steps

\* Of two runs that start alike, the longer one goes on where the shorter ends.
LEMMA StepsAgree ==
  ASSUME NEW V, NEW b, NEW n \in Nat, NEW m \in Nat, n <= m, NEW G, NEW H,
         \A k \in 1 .. n : G[k] = H[k],
         NEW g, Steps(g, V, b, n, G), NEW h, Steps(h, V, b, m, H)
  PROVE  \A k \in 0 .. n : g[k] = h[k] /\ g[k] \in V
<1>. DEFINE T == {k \in 0 .. n : g[k] = h[k]}
<1>1. 0 \in T
  BY DEF Steps
<1>2. ASSUME NEW k \in 1 .. n, k - 1 \in T PROVE k \in T
  <2>1. k \in 1 .. m /\ k \in 0 .. n
    BY SMT
  <2>. QED  BY <1>2, <2>1 DEF Steps
<1>3. 0 .. n \subseteq T
  <2>. HIDE DEF T
  <2>. QED  BY <1>1, <1>2, UpTo
<1>. QED  BY <1>3 DEF Steps

\* The greatest number of a set, as FoldLeft's definition takes it.
LEMMA MaxOf ==
  ASSUME NEW n \in Nat, NEW s, s \subseteq 1 .. n, s # {}
  PROVE  Max(s) \in s /\ \A k \in s : k <= Max(s)
<1>. DEFINE T == {n - k : k \in s}
<1>1. \A k \in s : k \in Int /\ k <= n /\ n - k \in Nat
  BY SMT
<1>2. T \subseteq Nat /\ T # {}
  BY <1>1, Zenon
<1>3. PICK m \in T : \A j \in T : m <= j
  BY <1>2, LeastNat
<1>4. PICK k \in s : m = n - k
  BY <1>3
<1>5. ASSUME NEW j \in s PROVE j <= k
  <2>1. n - k <= n - j
    BY <1>3, <1>4
  <2>. QED  BY <1>1, <2>1, SMT
<1>. QED  BY <1>4, <1>5 DEF Max

\* What it is of 1 .. k, and what is left.
LEMMA MaxOfRun ==
  ASSUME NEW n \in Nat, NEW k \in 1 .. n
  PROVE  /\ Max(1 .. k) = k /\ (1 .. k) \ {k} = 1 .. k - 1
         /\ 1 .. k # {} /\ 1 .. k \in SUBSET (1 .. n)
<1>1. k \in 1 .. k /\ 1 .. k \in SUBSET (1 .. n) /\ k \in Nat
  BY SMT
<1>2. Max(1 .. k) \in 1 .. k /\ \A j \in 1 .. k : j <= Max(1 .. k)
  BY <1>1, MaxOf
<1>. QED  BY <1>1, <1>2, SMT

\* What is left of a set of numbers up to k when its greatest is taken out.
LEMMA WithoutMax ==
  ASSUME NEW k \in Nat \ {0}, NEW s \in SUBSET (1 .. k)
  PROVE  /\ k \in s => Max(s) = k /\ s \ {k} \in SUBSET (1 .. k - 1)
         /\ k \notin s => s \in SUBSET (1 .. k - 1) /\ s \ {Max(s)} \in SUBSET (1 .. k - 1)
<1>1. \A j \in s : j \in 1 .. k /\ (j # k => j \in 1 .. k - 1)
  BY SMT
<1>2. s # {} => Max(s) \in s /\ \A j \in s : j <= Max(s)
  BY MaxOf
<1>3. k \in s => Max(s) = k
  <2>1. SUFFICES ASSUME k \in s PROVE Max(s) = k
    OBVIOUS
  <2>2. Max(s) \in s /\ k <= Max(s)
    BY <1>2, <2>1
  <2>3. Max(s) \in 1 .. k
    BY <2>2
  <2>. QED  BY <2>2, <2>3, SMT
<1>. QED  BY <1>1, <1>3

\* f is a fold over sets of numbers, each taken from its least to its greatest.
FoldsSets(f, V, b, n, G) ==
  /\ f \in [SUBSET (1 .. n) -> V]
  /\ f = [s \in SUBSET (1 .. n) |-> IF s = {} THEN b ELSE G[Max(s)][f[s \ {Max(s)}]]]

\* There is such a fold: FoldLeft's CHOOSE is of something.
LEMMA GreatestLast ==
  ASSUME NEW V, NEW b \in V, NEW n \in Nat, NEW G \in [1 .. n -> [V -> V]]
  PROVE  \E f : FoldsSets(f, V, b, n, G)
<1>. DEFINE D == SUBSET (1 .. n)
            W == [D -> V]
            H == [k \in 1 .. n |-> [g \in W |-> [s \in D |->
                    IF k \in s THEN G[k][g[s \ {k}]] ELSE g[s]]]]
            start == [s \in D |-> b]
            Good(k, f) ==
              \A s \in SUBSET (1 .. k) :
                f[s] = IF s = {} THEN b ELSE G[Max(s)][f[s \ {Max(s)}]]
<1>1. start \in W /\ H \in [1 .. n -> [W -> W]]
  <2>1. ASSUME NEW k \in 1 .. n, NEW g \in W, NEW s \in D
        PROVE  (IF k \in s THEN G[k][g[s \ {k}]] ELSE g[s]) \in V
    <3>1. s \ {k} \in D
      OBVIOUS
    <3>. QED  BY <3>1
  <2>. QED  BY <2>1
<1>2. PICK h : Steps(h, W, start, n, H)
  <2>. HIDE DEF W, H, start
  <2>. QED  BY <1>1, StepByStep
<1>3. /\ \A k \in 0 .. n : h[k] \in W
      /\ \A s \in D : h[0][s] = b
      /\ \A k \in 1 .. n, s \in D :
           h[k][s] = IF k \in s THEN G[k][h[k - 1][s \ {k}]] ELSE h[k - 1][s]
  <2>1. /\ h \in [0 .. n -> W]
        /\ h[0] = start
        /\ \A k \in 1 .. n : h[k] = H[k][h[k - 1]]
    BY <1>2 DEF Steps
  <2>2. ASSUME NEW k \in 1 .. n PROVE k - 1 \in 0 .. n
    BY SMT
  <2>3. \A k \in 0 .. n : h[k] \in W
    BY <2>1
  <2>4. \A s \in D : h[0][s] = b
    BY <2>1
  <2>5. ASSUME NEW k \in 1 .. n, NEW s \in D
        PROVE  h[k][s] = IF k \in s THEN G[k][h[k - 1][s \ {k}]] ELSE h[k - 1][s]
    <3>1. h[k] = H[k][h[k - 1]] /\ h[k - 1] \in W
      BY <2>1, <2>2, <2>3
    <3>. QED  BY <3>1
  <2>. QED  BY <2>3, <2>4, <2>5
<1>. HIDE DEF W, H, start
<1>. DEFINE T == {k \in 0 .. n : Good(k, h[k])}
<1>4. 0 \in T
  <2>1. ASSUME NEW s \in SUBSET (1 .. 0) PROVE s = {} /\ h[0][s] = b
    <3>1. s = {}
      BY SMT
    <3>. QED  BY <1>3, <3>1, {} \in D
  <2>2. 0 \in 0 .. n
    BY SMT
  <2>. QED  BY <2>1, <2>2
<1>5. ASSUME NEW k \in 1 .. n, k - 1 \in T PROVE k \in T
  <2>1. /\ k \in Nat \ {0} /\ k \in 0 .. n
        /\ \A s \in SUBSET (1 .. k) : s \in D
        /\ \A s \in SUBSET (1 .. k - 1) : s \in SUBSET (1 .. k) /\ k \notin s
    BY SMT
  <2>2. \A s \in SUBSET (1 .. k - 1) : h[k][s] = h[k - 1][s]
    BY <1>3, <2>1
  <2>3. ASSUME NEW s \in SUBSET (1 .. k)
        PROVE  h[k][s] = IF s = {} THEN b ELSE G[Max(s)][h[k][s \ {Max(s)}]]
    <3>1. CASE k \in s
      <4>1. Max(s) = k /\ s \ {k} \in SUBSET (1 .. k - 1)
        BY <2>1, <3>1, WithoutMax
      <4>2. h[k][s] = G[k][h[k - 1][s \ {k}]]
        BY <1>3, <2>1, <3>1
      <4>. QED  BY <2>2, <3>1, <4>1, <4>2
    <3>2. CASE k \notin s
      <4>1. s \in SUBSET (1 .. k - 1) /\ s \ {Max(s)} \in SUBSET (1 .. k - 1)
        BY <2>1, <3>2, WithoutMax
      <4>2. h[k - 1][s] = IF s = {} THEN b ELSE G[Max(s)][h[k - 1][s \ {Max(s)}]]
        BY <1>5, <4>1
      <4>. QED  BY <2>2, <4>1, <4>2
    <3>. QED  BY <3>1, <3>2
  <2>. QED  BY <2>1, <2>3
<1>6. Good(n, h[n])
  <2>. HIDE DEF Good
  <2>1. 0 .. n \subseteq T
    <3>. HIDE DEF T
    <3>. QED  BY <1>4, <1>5, UpTo
  <2>2. n \in 0 .. n
    BY SMT
  <2>. QED  BY <2>1, <2>2
<1>7. h[n] \in W
  BY <1>3, n \in 0 .. n
<1>. QED  BY <1>6, <1>7 DEF FoldsSets, W

\* What f makes of 1 .. k is made by G's step of what it makes of 1 .. k - 1.
StepsSets(f, V, b, n, G) ==
  /\ f[{}] = b
  /\ \A k \in 1 .. n : f[1 .. k - 1] \in V => f[1 .. k] = G[k][f[1 .. k - 1]]

\* So that a fold over a sequence is a run, step by step.
LEMMA FoldSteps ==
  ASSUME NEW V, NEW b \in V, NEW n \in Nat, NEW G \in [1 .. n -> [V -> V]],
         NEW f, StepsSets(f, V, b, n, G)
  PROVE  Steps([k \in 0 .. n |-> f[1 .. k]], V, b, n, G)
<1>. USE DEF StepsSets
<1>. DEFINE T == {k \in 0 .. n : f[1 .. k] \in V}
<1>1. 1 .. 0 = {}
  BY SMT
<1>2. 0 \in T
  BY <1>1, 0 \in 0 .. n
<1>3. ASSUME NEW k \in 1 .. n, k - 1 \in T PROVE k \in T
  <2>1. f[1 .. k] = G[k][f[1 .. k - 1]] /\ f[1 .. k - 1] \in V
    BY <1>3
  <2>. QED  BY <2>1, k \in 0 .. n
<1>4. 0 .. n \subseteq T
  <2>. HIDE DEF T
  <2>. QED  BY <1>2, <1>3, UpTo
<1>5. \A k \in 1 .. n : k - 1 \in 0 .. n /\ k \in 0 .. n
  BY SMT
<1>. QED  BY <1>1, <1>4, <1>5, 0 \in 0 .. n DEF Steps

\* h joins g's sequences one by one, and FlattenSeq does so.
Joins(h, S, g, n) ==
  /\ h \in [0 .. n -> Seq(S)]
  /\ h[0] = <<>>
  /\ \A k \in 1 .. n : h[k] = h[k - 1] \o g[k]
  /\ \A k \in 0 .. n : FlattenSeq([i \in 1 .. k |-> g[i]]) = h[k]

\* What FlattenSeq defines of 1 .. n is a run of joins.
LEMMA FlattenFrom ==
  ASSUME NEW S, NEW n \in Nat, n # 0, NEW seqs \in [1 .. n -> Seq(S)],
         NEW h \in [0 .. n -> Seq(S)], h[0] = <<>>,
         \A k \in 1 .. n : h[k] = h[k - 1] \o seqs[k]
  PROVE  FlattenSeq(seqs) = h[n]
<1>. DEFINE f == CHOOSE f : f = [i \in 1 .. n |-> IF i = 1 THEN seqs[i] ELSE f[i - 1] \o seqs[i]]
            g == [i \in 1 .. n |-> h[i]]
<1>1. Len(seqs) = n
  <2>1. seqs \in Seq(Seq(S)) /\ DOMAIN seqs = 1 .. n
    BY SeqDef
  <2>. QED  BY <2>1, LenProperties
<1>2. FlattenSeq(seqs) = f[n]
  BY <1>1, n # 0 DEF FlattenSeq
<1>3. h[1] = seqs[1] /\ 1 \in 1 .. n
  <2>1. 1 \in 1 .. n /\ 1 - 1 = 0
    BY n # 0, SMT
  <2>2. h[1] = h[1 - 1] \o seqs[1]
    BY <2>1
  <2>3. h[1] = <<>> \o seqs[1]
    BY <2>1, <2>2, Zenon
  <2>. QED  BY <2>1, <2>3, ConcatEmptySeq
<1>4. g = [i \in 1 .. n |-> IF i = 1 THEN seqs[i] ELSE g[i - 1] \o seqs[i]]
  <2>1. ASSUME NEW i \in 1 .. n
        PROVE  h[i] = IF i = 1 THEN seqs[i] ELSE g[i - 1] \o seqs[i]
    <3>1. CASE i = 1  BY <1>3, <3>1
    <3>2. CASE i # 1
      <4>1. i - 1 \in 1 .. n
        BY <3>2, SMT
      <4>2. g[i - 1] = h[i - 1]
        BY <4>1
      <4>. HIDE DEF g
      <4>. QED  BY <3>2, <4>2
    <3>. QED  BY <3>1, <3>2
  <2>2. g = [i \in 1 .. n |-> h[i]]
    OBVIOUS
  <2>. HIDE DEF g
  <2>. QED  BY <2>1, <2>2, Zenon
<1>5. f = [i \in 1 .. n |-> IF i = 1 THEN seqs[i] ELSE f[i - 1] \o seqs[i]]
  <2>. HIDE DEF g
  <2>. QED  BY <1>4, Zenon
<1>. HIDE DEF f, g
<1>. DEFINE T == {k \in 0 .. n : k = 0 \/ f[k] = h[k]}
<1>6. 0 \in T
  OBVIOUS
<1>7. ASSUME NEW k \in 1 .. n, k - 1 \in T PROVE k \in T
  <2>1. k \in 0 .. n
    BY SMT
  <2>2. CASE k = 1
    <3>1. f[1] = seqs[1]
      BY <1>3, <1>5
    <3>. QED  BY <1>3, <2>1, <2>2, <3>1
  <2>3. CASE k # 1
    <3>1. k - 1 # 0
      BY <2>3, SMT
    <3>2. f[k - 1] = h[k - 1]
      BY <1>7, <3>1
    <3>3. f[k] = f[k - 1] \o seqs[k]
      BY <1>5, <2>3
    <3>. QED  BY <2>1, <3>2, <3>3
  <2>. QED  BY <2>2, <2>3
<1>8. 0 .. n \subseteq T
  <2>. HIDE DEF T
  <2>. QED  BY <1>6, <1>7, UpTo
<1>9. f[n] = h[n]
  BY <1>8, n # 0, n \in 0 .. n
<1>. QED  BY <1>2, <1>9

LEMMA FlattenSteps ==
  ASSUME NEW S, NEW n \in Nat, NEW g \in [1 .. n -> Seq(S)]
  PROVE  \E h : Joins(h, S, g, n)
<1>. DEFINE Join == [k \in 1 .. n |-> [v \in Seq(S) |-> v \o g[k]]]
<1>1. PICK h : Steps(h, Seq(S), <<>>, n, Join)
  <2>1. ASSUME NEW k \in 1 .. n, NEW v \in Seq(S) PROVE v \o g[k] \in Seq(S)
    BY ConcatProperties
  <2>2. Join \in [1 .. n -> [Seq(S) -> Seq(S)]]
    BY <2>1
  <2>. HIDE DEF Join
  <2>. QED  BY <2>2, StepByStep, EmptySeq
<1>2. /\ h \in [0 .. n -> Seq(S)]
      /\ h[0] = <<>>
      /\ \A k \in 1 .. n : h[k] = h[k - 1] \o g[k]
  <2>1. /\ h \in [0 .. n -> Seq(S)] /\ h[0] = <<>>
        /\ \A k \in 1 .. n : h[k] = Join[k][h[k - 1]]
    BY <1>1 DEF Steps
  <2>2. ASSUME NEW k \in 1 .. n PROVE h[k - 1] \in Seq(S)
    BY <2>1, k - 1 \in 0 .. n
  <2>. QED  BY <2>1, <2>2
<1>3. ASSUME NEW k \in 0 .. n PROVE FlattenSeq([i \in 1 .. k |-> g[i]]) = h[k]
  <2>1. CASE k = 0
    <3>1. [i \in 1 .. 0 |-> g[i]] = <<>>
      BY 1 .. 0 = {}, EmptySeq
    <3>2. FlattenSeq(<<>>) = <<>>
      BY DEF FlattenSeq
    <3>. QED  BY <1>2, <2>1, <3>1, <3>2
  <2>2. CASE k # 0
    <3>. DEFINE front == [i \in 1 .. k |-> g[i]]
                j == [i \in 0 .. k |-> h[i]]
    <3>1. k \in Nat /\ \A i \in 1 .. k : i \in 1 .. n
      BY SMT
    <3>2. front \in [1 .. k -> Seq(S)]
      BY <3>1
    <3>3. /\ \A i \in 0 .. k : i \in 0 .. n
          /\ \A i \in 1 .. k : i \in 0 .. k /\ i - 1 \in 0 .. k /\ i \in 1 .. n
          /\ 0 \in 0 .. k /\ k \in 0 .. k
      BY <3>1, SMT
    <3>4. j \in [0 .. k -> Seq(S)] /\ j[0] = <<>> /\ j[k] = h[k]
      BY <1>2, <3>3
    <3>5. ASSUME NEW i \in 1 .. k PROVE j[i] = j[i - 1] \o front[i]
      BY <1>2, <3>3
    <3>. HIDE DEF front, j
    <3>6. FlattenSeq(front) = j[k]
      BY <2>2, <3>1, <3>2, <3>4, <3>5, FlattenFrom
    <3>. QED  BY <3>4, <3>6 DEF front
  <2>. QED  BY <2>1, <2>2
<1>. QED  BY <1>2, <1>3 DEF Joins

----------------------------------------------------------------------------
(* A fold over a sequence as what comes after it, element by element.       *)

\* h runs G's steps over s from b.
Running(h, V, b, s, G) ==
  /\ h \in [0 .. Len(s) -> V]
  /\ h[0] = b
  /\ \A k \in 1 .. Len(s) : h[k] = G[h[k - 1]][s[k]]

AfterAll(V, b, s, G) == (CHOOSE h : Running(h, V, b, s, G))[Len(s)]

\* What it takes for there to be one: steps from V and an element to V.
Feeds(V, X, b, s, G) == b \in V /\ s \in Seq(X) /\ G \in [V -> [X -> V]]

\* There is such a run,
LEMMA SomeRun ==
  ASSUME NEW V, NEW X, NEW b, NEW s, NEW G, Feeds(V, X, b, s, G)
  PROVE  \E h : Running(h, V, b, s, G)
<1>. DEFINE n == Len(s)
            H == [k \in 1 .. n |-> [v \in V |-> G[v][s[k]]]]
<1>0. b \in V /\ s \in Seq(X) /\ G \in [V -> [X -> V]]
  BY DEF Feeds
<1>1. n \in Nat /\ \A k \in 1 .. n : s[k] \in X
  BY <1>0, ElementOfSeq, LenProperties
<1>2. H \in [1 .. n -> [V -> V]]
  BY <1>0, <1>1
<1>3. PICK h : Steps(h, V, b, n, H)
  <2>. HIDE DEF n, H
  <2>. QED  BY <1>0, <1>1, <1>2, StepByStep
<1>4. h \in [0 .. n -> V] /\ h[0] = b /\ \A k \in 1 .. n : h[k] = H[k][h[k - 1]]
  BY <1>3 DEF Steps
<1>5. ASSUME NEW k \in 1 .. n PROVE h[k] = G[h[k - 1]][s[k]]
  <2>1. k - 1 \in 0 .. n
    BY <1>1, SMT
  <2>2. h[k - 1] \in V
    BY <1>4, <2>1
  <2>. QED  BY <1>4, <2>2
<1>. QED  BY <1>4, <1>5 DEF Running

\* and just one.
LEMMA OneRun ==
  ASSUME NEW V, NEW X, NEW b, NEW s, NEW G, Feeds(V, X, b, s, G),
         NEW g, Running(g, V, b, s, G), NEW h, Running(h, V, b, s, G)
  PROVE  g[Len(s)] = h[Len(s)] /\ g[Len(s)] \in V
<1>. DEFINE n == Len(s)
            T == {k \in 0 .. n : g[k] = h[k]}
<1>1. n \in Nat
  BY LenProperties DEF Feeds
<1>2. /\ g \in [0 .. n -> V] /\ g[0] = b /\ h[0] = b
      /\ \A k \in 1 .. n : g[k] = G[g[k - 1]][s[k]] /\ h[k] = G[h[k - 1]][s[k]]
  BY DEF Running
<1>3. 0 \in T
  BY <1>1, <1>2
<1>4. ASSUME NEW k \in 1 .. n, k - 1 \in T PROVE k \in T
  BY <1>1, <1>2, <1>4
<1>5. 0 .. n \subseteq T
  <2>. HIDE DEF T, n
  <2>. QED  BY <1>1, <1>3, <1>4, UpTo
<1>6. n \in 0 .. n
  BY <1>1
<1>. QED  BY <1>2, <1>5, <1>6

LEMMA AfterThat ==
  ASSUME NEW V, NEW X, NEW b, NEW s, NEW G, Feeds(V, X, b, s, G),
         NEW h, Running(h, V, b, s, G)
  PROVE  AfterAll(V, b, s, G) = h[Len(s)] /\ AfterAll(V, b, s, G) \in V
<1>. DEFINE g == CHOOSE g : Running(g, V, b, s, G)
<1>1. Running(g, V, b, s, G)
  OBVIOUS
<1>. HIDE DEF g
<1>2. g[Len(s)] = h[Len(s)] /\ g[Len(s)] \in V
  BY <1>1, OneRun
<1>. QED  BY <1>2, Zenon DEF AfterAll, g

LEMMA AfterType ==
  ASSUME NEW V, NEW X, NEW b, NEW s, NEW G, Feeds(V, X, b, s, G)
  PROVE  AfterAll(V, b, s, G) \in V
<1>1. PICK h : Running(h, V, b, s, G)
  BY SomeRun, Zenon
<1>. QED  BY <1>1, AfterThat

\* Nothing comes after nothing,
LEMMA AfterEmpty ==
  ASSUME NEW V, NEW X, NEW b, NEW q, NEW G, Feeds(V, X, b, q, G), q = <<>>
  PROVE  AfterAll(V, b, q, G) = b
<1>. DEFINE h == [k \in 0 .. 0 |-> b]
<1>1. Len(q) = 0 /\ b \in V
  BY EmptySeq DEF Feeds
<1>2. Running(h, V, b, q, G) /\ h[0] = b
  BY <1>1, SMT DEF Running
<1>. HIDE DEF h
<1>3. AfterAll(V, b, q, G) = h[Len(q)]
  BY <1>2, AfterThat
<1>. QED  BY <1>1, <1>2, <1>3

\* and after one element more its step.
LEMMA AfterMore ==
  ASSUME NEW V, NEW X, NEW b, NEW s, NEW G, Feeds(V, X, b, s, G), NEW x \in X
  PROVE  /\ AfterAll(V, b, Append(s, x), G) = G[AfterAll(V, b, s, G)][x]
         /\ AfterAll(V, b, s, G) \in V
<1>. DEFINE n == Len(s)
            t == Append(s, x)
<1>0. b \in V /\ s \in Seq(X) /\ G \in [V -> [X -> V]]
  BY DEF Feeds
<1>1. n \in Nat /\ t \in Seq(X) /\ Len(t) = n + 1 /\ t[n + 1] = x
  BY <1>0, LenProperties, AppendProperties
<1>2. \A k \in 1 .. n : t[k] = s[k] /\ k \in 1 .. n + 1 /\ k - 1 \in 0 .. n /\ k \in 0 .. n
  BY <1>0, <1>1, AppendProperties
<1>3. Feeds(V, X, b, t, G)
  BY <1>0, <1>1 DEF Feeds
<1>. HIDE DEF n, t
<1>4. PICK h : Running(h, V, b, t, G)
  BY <1>3, SomeRun, Zenon
<1>. DEFINE g == [k \in 0 .. n |-> h[k]]
<1>5. /\ h \in [0 .. n + 1 -> V] /\ h[0] = b
      /\ \A k \in 1 .. n + 1 : h[k] = G[h[k - 1]][t[k]]
  BY <1>1, <1>4 DEF Running
<1>6. /\ \A k \in 0 .. n : k \in 0 .. n + 1
      /\ 0 \in 0 .. n /\ n \in 0 .. n /\ n + 1 \in 1 .. n + 1 /\ (n + 1) - 1 = n
  BY <1>1, SMT
<1>7. g \in [0 .. n -> V] /\ g[0] = b /\ g[n] = h[n]
  BY <1>5, <1>6
<1>8. ASSUME NEW k \in 1 .. n PROVE g[k] = G[g[k - 1]][s[k]]
  BY <1>2, <1>5
<1>. HIDE DEF g
<1>9. Running(g, V, b, s, G)
  BY <1>7, <1>8 DEF Running, n
<1>10. AfterAll(V, b, s, G) = g[n] /\ AfterAll(V, b, s, G) \in V
  BY <1>9, AfterThat DEF n
<1>11. AfterAll(V, b, t, G) = h[n + 1]
  BY <1>1, <1>3, <1>4, AfterThat
<1>12. h[n + 1] = G[h[n]][x]
  BY <1>1, <1>5, <1>6
<1>. QED  BY <1>7, <1>10, <1>11, <1>12 DEF t

\* A function over sets of positions, as FoldLeft's definition has it, that G makes.
FoldOver(g, V, X, b, s, G) ==
  /\ g = [P \in SUBSET (DOMAIN s) |->
            IF P = {} THEN b ELSE G[g[P \ {Max(P)}]][s[Max(P)]]]
  /\ \A P \in SUBSET (DOMAIN s) : P # {} => g[P \ {Max(P)}] \in V /\ s[Max(P)] \in X

LEMMA FoldExists ==
  ASSUME NEW V, NEW X, NEW b, NEW s, NEW G, Feeds(V, X, b, s, G)
  PROVE  \E g : FoldOver(g, V, X, b, s, G)
<1>. DEFINE n == Len(s)
            H == [k \in 1 .. n |-> [v \in V |-> G[v][s[k]]]]
            D == SUBSET (1 .. n)
<1>0. b \in V /\ s \in Seq(X) /\ G \in [V -> [X -> V]]
  BY DEF Feeds
<1>1. n \in Nat /\ DOMAIN s = 1 .. n /\ \A k \in 1 .. n : s[k] \in X
  BY <1>0, ElementOfSeq, LenProperties
<1>2. H \in [1 .. n -> [V -> V]]
  BY <1>0, <1>1
<1>3. PICK g : FoldsSets(g, V, b, n, H)
  <2>. HIDE DEF n, H
  <2>. QED  BY <1>0, <1>1, <1>2, GreatestLast
<1>4. /\ g \in [D -> V]
      /\ g = [P \in D |-> IF P = {} THEN b ELSE H[Max(P)][g[P \ {Max(P)}]]]
  BY <1>3 DEF FoldsSets
<1>5. ASSUME NEW P \in D, P # {}
      PROVE  /\ g[P \ {Max(P)}] \in V /\ s[Max(P)] \in X
             /\ H[Max(P)][g[P \ {Max(P)}]] = G[g[P \ {Max(P)}]][s[Max(P)]]
  <2>1. Max(P) \in 1 .. n
    <3>. HIDE DEF n
    <3>. QED  BY <1>1, <1>5, MaxOf
  <2>2. P \ {Max(P)} \in D
    OBVIOUS
  <2>3. g[P \ {Max(P)}] \in V
    BY <1>4, <2>2
  <2>. QED  BY <1>1, <2>1, <2>3
<1>. HIDE DEF H
<1>6. g = [P \in D |-> IF P = {} THEN b ELSE G[g[P \ {Max(P)}]][s[Max(P)]]]
  BY <1>4, <1>5
<1>7. FoldOver(g, V, X, b, s, G)
  BY <1>1, <1>5, <1>6 DEF FoldOver
<1>. QED  BY <1>7

\* What a function that takes each position's step on the ones before it ends with.
LEMMA FoldIsAfter ==
  ASSUME NEW V, NEW X, NEW b, NEW s, NEW G, Feeds(V, X, b, s, G),
         NEW f, f[{}] = b,
         \A k \in DOMAIN s : f[1 .. k - 1] \in V => f[1 .. k] = G[f[1 .. k - 1]][s[k]]
  PROVE  f[DOMAIN s] = AfterAll(V, b, s, G)
<1>. DEFINE n == Len(s)
            h == [k \in 0 .. n |-> f[1 .. k]]
            T == {k \in 0 .. n : f[1 .. k] \in V}
<1>1. b \in V /\ s \in Seq(X) /\ G \in [V -> [X -> V]]
  BY DEF Feeds
<1>2. n \in Nat /\ DOMAIN s = 1 .. n /\ \A k \in 1 .. n : s[k] \in X
  BY <1>1, ElementOfSeq, LenProperties
<1>3. /\ \A k \in 1 .. n : k - 1 \in 0 .. n /\ k \in 0 .. n
      /\ 0 \in 0 .. n /\ n \in 0 .. n /\ 1 .. 0 = {}
  BY <1>2, SMT
<1>4. 0 \in T
  BY <1>1, <1>3
<1>5. ASSUME NEW k \in 1 .. n, k - 1 \in T PROVE k \in T
  <2>1. f[1 .. k] = G[f[1 .. k - 1]][s[k]] /\ f[1 .. k - 1] \in V
    BY <1>2, <1>5
  <2>2. G[f[1 .. k - 1]][s[k]] \in V
    BY <1>1, <1>2, <2>1
  <2>. QED  BY <1>3, <2>1, <2>2
<1>6. 0 .. n \subseteq T
  <2>. HIDE DEF T, n
  <2>. QED  BY <1>2, <1>4, <1>5, UpTo
<1>7. h \in [0 .. n -> V] /\ h[0] = b /\ h[n] = f[1 .. n]
  BY <1>1, <1>3, <1>6
<1>8. ASSUME NEW k \in 1 .. n PROVE h[k] = G[h[k - 1]][s[k]]
  <2>1. f[1 .. k - 1] \in V /\ h[k - 1] = f[1 .. k - 1] /\ h[k] = f[1 .. k]
    BY <1>3, <1>6
  <2>. QED  BY <1>2, <2>1
<1>. HIDE DEF h
<1>9. Running(h, V, b, s, G)
  BY <1>7, <1>8 DEF Running
<1>10. AfterAll(V, b, s, G) = h[n]
  BY <1>9, AfterThat
<1>. QED  BY <1>2, <1>7, <1>10

----------------------------------------------------------------------------
(* Induction over sequences, for a set of them.                             *)

\* A sequence's prefixes, each with one element more than the one before.
LEMMA PrefixesOf ==
  ASSUME NEW X, NEW s \in Seq(X)
  PROVE  /\ SubSeq(s, 1, 0) = <<>> /\ SubSeq(s, 1, Len(s)) = s
         /\ \A k \in 1 .. Len(s) :
              /\ SubSeq(s, 1, k) = Append(SubSeq(s, 1, k - 1), s[k])
              /\ s[k] \in X /\ SubSeq(s, 1, k - 1) \in Seq(X)
<1>1. SubSeq(s, 1, 0) = <<>> /\ SubSeq(s, 1, Len(s)) = s
  BY SubSeqEmpty, SubSeqFull
<1>2. ASSUME NEW k \in 1 .. Len(s)
      PROVE  /\ SubSeq(s, 1, k) = Append(SubSeq(s, 1, k - 1), s[k])
             /\ s[k] \in X /\ SubSeq(s, 1, k - 1) \in Seq(X)
  <2>1. Len(s) \in Nat /\ \A i \in 1 .. Len(s) : s[i] \in X
    BY LenProperties, ElementOfSeq
  <2>2. 1 \in 1 .. Len(s) /\ k \in 1 .. Len(s) /\ k - 1 \in Int /\ k \in Int /\ s[k] \in X
    BY <2>1, SMT
  <2>3. \A i \in 1 .. k - 1 : s[i] \in X
    BY <2>1, SMT
  <2>4. SubSeq(s, 1, k - 1) \in Seq(X)
    BY <2>2, <2>3, SubSeqProperties
  <2>5. SubSeq(s, 1, k) = SubSeq(s, 1, k - 1) \o <<s[k]>>
    BY <2>1, <2>2, SubSeqRecursiveSecond
  <2>6. Append(SubSeq(s, 1, k - 1), s[k]) = SubSeq(s, 1, k - 1) \o <<s[k]>>
    BY <2>2, <2>4, AppendIsConcat
  <2>. QED  BY <2>2, <2>4, <2>5, <2>6
<1>. QED  BY <1>1, <1>2

\* A set that has the empty sequence and, with each, those one longer has them all.
LEMMA SeqInduct ==
  ASSUME NEW X, NEW T, <<>> \in T,
         \A s \in Seq(X), x \in X : s \in T => Append(s, x) \in T
  PROVE  Seq(X) \subseteq T
<1>1. SUFFICES ASSUME NEW s \in Seq(X) PROVE s \in T
  OBVIOUS
<1>. DEFINE n == Len(s)
            N == {k \in 0 .. n : SubSeq(s, 1, k) \in T}
<1>2. n \in Nat /\ 0 \in 0 .. n /\ n \in 0 .. n /\ \A k \in 1 .. n : k \in 0 .. n
  BY LenProperties
<1>3. 0 \in N
  BY <1>2, PrefixesOf
<1>4. ASSUME NEW k \in 1 .. n, k - 1 \in N PROVE k \in N
  <2>1. /\ SubSeq(s, 1, k) = Append(SubSeq(s, 1, k - 1), s[k])
        /\ s[k] \in X /\ SubSeq(s, 1, k - 1) \in Seq(X)
    BY PrefixesOf
  <2>2. SubSeq(s, 1, k) \in T
    BY <1>4, <2>1
  <2>. QED  BY <1>2, <2>2
<1>5. 0 .. n \subseteq N
  <2>. HIDE DEF n, N
  <2>. QED  BY <1>2, <1>3, <1>4, UpTo
<1>6. SubSeq(s, 1, n) \in T
  BY <1>2, <1>5
<1>. QED  BY <1>6, SubSeqFull

LEMMA ConcatAppend ==
  ASSUME NEW X, NEW s \in Seq(X), NEW t \in Seq(X), NEW x \in X
  PROVE  s \o Append(t, x) = Append(s \o t, x) /\ s \o t \in Seq(X)
<1>1. <<x>> \in Seq(X) /\ s \o t \in Seq(X)
  BY ConcatProperties
<1>2. Append(t, x) = t \o <<x>> /\ Append(s \o t, x) = (s \o t) \o <<x>>
  BY <1>1, AppendIsConcat
<1>3. s \o (t \o <<x>>) = (s \o t) \o <<x>>
  BY <1>1, ConcatAssociative
<1>. QED  BY <1>1, <1>2, <1>3

FourJoined(p, q, r, s) ==
  /\ p \o (q \o r) \o s = (p \o q) \o r \o s
  /\ p \o (q \o r) \o s = (p \o q) \o (r \o s)

LEMMA ConcatFour ==
  ASSUME NEW X, NEW p \in Seq(X), NEW q \in Seq(X), NEW r \in Seq(X), NEW s \in Seq(X)
  PROVE  FourJoined(p, q, r, s)
<1>1. p \o q \in Seq(X)
  BY ConcatProperties
<1>2. (p \o q) \o r = p \o (q \o r)
  BY ConcatAssociative
<1>3. ((p \o q) \o r) \o s = (p \o q) \o (r \o s)
  BY <1>1, ConcatAssociative
<1>. QED  BY <1>2, <1>3 DEF FourJoined

----------------------------------------------------------------------------
(* Sequences of sequences, joined.                                         *)

LEMMA FlattenEmpty ==
  ASSUME NEW q, q = <<>>
  PROVE  FlattenSeq(q) = <<>>
BY DEF FlattenSeq

LEMMA FlattenAppend ==
  ASSUME NEW S, NEW ss \in Seq(Seq(S)), NEW t \in Seq(S)
  PROVE  /\ FlattenSeq(Append(ss, t)) = FlattenSeq(ss) \o t
         /\ FlattenSeq(ss) \in Seq(S)
<1>. DEFINE n == Len(ss)
            g == Append(ss, t)
<1>1. n \in Nat /\ g \in Seq(Seq(S)) /\ Len(g) = n + 1 /\ g[n + 1] = t
  BY LenProperties, AppendProperties
<1>2. \A i \in 1 .. n : g[i] = ss[i]
  BY AppendProperties
<1>3. ss = [i \in 1 .. n |-> ss[i]] /\ g = [i \in 1 .. n + 1 |-> g[i]]
  BY <1>1, LenProperties
<1>. HIDE DEF n, g
<1>4. g \in [1 .. n + 1 -> Seq(S)] /\ n + 1 \in Nat
  BY <1>1, LenProperties
<1>5. PICK h : Joins(h, S, g, n + 1)
  BY <1>4, FlattenSteps
<1>6. /\ h \in [0 .. n + 1 -> Seq(S)]
      /\ \A k \in 1 .. n + 1 : h[k] = h[k - 1] \o g[k]
      /\ \A k \in 0 .. n + 1 : FlattenSeq([i \in 1 .. k |-> g[i]]) = h[k]
  BY <1>5 DEF Joins
<1>7. n \in 0 .. n + 1 /\ n + 1 \in 0 .. n + 1 /\ n + 1 \in 1 .. n + 1 /\ (n + 1) - 1 = n
  BY <1>1, SMT
<1>8. [i \in 1 .. n |-> g[i]] = ss
  BY <1>2, <1>3
<1>9. FlattenSeq(ss) = h[n] /\ h[n] \in Seq(S)
  BY <1>6, <1>7, <1>8
<1>10. FlattenSeq(g) = h[n + 1]
  BY <1>3, <1>6, <1>7
<1>11. h[n + 1] = h[n] \o t
  BY <1>1, <1>6, <1>7
<1>. QED  BY <1>9, <1>10, <1>11 DEF g

LEMMA FlattenConcat ==
  ASSUME NEW S, NEW ss \in Seq(Seq(S)), NEW tt \in Seq(Seq(S))
  PROVE  /\ FlattenSeq(ss \o tt) = FlattenSeq(ss) \o FlattenSeq(tt)
         /\ FlattenSeq(ss) \in Seq(S) /\ FlattenSeq(tt) \in Seq(S)
<1>. DEFINE T == {uu \in Seq(Seq(S)) : FlattenSeq(ss \o uu) = FlattenSeq(ss) \o FlattenSeq(uu)}
            f == FlattenSeq(ss)
<1>1. f \in Seq(S) /\ FlattenSeq(tt) \in Seq(S)
  <2>1. <<>> \in Seq(S)
    BY EmptySeq
  <2>. QED  BY <2>1, FlattenAppend
<1>2. ASSUME NEW q, q = <<>> PROVE q \in T
  <2>1. q \in Seq(Seq(S)) /\ ss \o q = ss /\ f \o <<>> = f
    BY <1>1, <1>2, EmptySeq, ConcatEmptySeq
  <2>2. FlattenSeq(q) = <<>>
    BY <1>2, FlattenEmpty
  <2>. QED  BY <2>1, <2>2
<1>3. ASSUME NEW uu \in Seq(Seq(S)), NEW u \in Seq(S), uu \in T PROVE Append(uu, u) \in T
  <2>. DEFINE e == FlattenSeq(uu)
  <2>1. /\ Append(uu, u) \in Seq(Seq(S)) /\ ss \o uu \in Seq(Seq(S))
        /\ ss \o Append(uu, u) = Append(ss \o uu, u)
    BY AppendProperties, ConcatAppend
  <2>2. FlattenSeq(Append(ss \o uu, u)) = FlattenSeq(ss \o uu) \o u
    BY <2>1, FlattenAppend
  <2>3. FlattenSeq(Append(uu, u)) = e \o u
    BY FlattenAppend
  <2>5. e \in Seq(S) /\ f \in Seq(S)
    BY <1>1, FlattenAppend
  <2>4. FlattenSeq(ss \o uu) = f \o e
    BY <1>3
  <2>. HIDE DEF f, e
  <2>6. (f \o e) \o u = f \o (e \o u)
    BY <2>5, ConcatAssociative
  <2>7. FlattenSeq(ss \o Append(uu, u)) = f \o FlattenSeq(Append(uu, u))
    BY <2>1, <2>2, <2>3, <2>4, <2>6
  <2>. QED  BY <2>1, <2>7 DEF f
<1>4. Seq(Seq(S)) \subseteq T
  <2>. HIDE DEF T
  <2>. QED  BY <1>2, <1>3, SeqInduct
<1>. QED  BY <1>1, <1>4
=============================================================================
