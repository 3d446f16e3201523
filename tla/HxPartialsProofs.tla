-------------------------- MODULE HxPartialsProofs --------------------------
(***************************************************************************)
(* What accepting a frame keeps of the partials, for every limit and every   *)
(* frame a server may send: at most MAX_PARTIALS, no two on one trans; and   *)
(* what it accounts for: each partial is kept, continued, completed or told  *)
(* of as given up.                                                           *)
(***************************************************************************)
EXTENDS HxPartials, SequenceTheorems, TLAPS

\* What is left of a sequence without one of its elements.
LEMMA RemoveProperties ==
  ASSUME NEW S, NEW s \in Seq(S), NEW i \in 1 .. Len(s)
  PROVE  /\ RemoveAt(s, i) \in Seq(S)
         /\ Len(RemoveAt(s, i)) = Len(s) - 1
         /\ \A k \in 1 .. Len(s) - 1 : RemoveAt(s, i)[k] = IF k < i THEN s[k] ELSE s[k + 1]
<1>. DEFINE before == SubSeq(s, 1, i - 1)
            after  == SubSeq(s, i + 1, Len(s))
<1>1. /\ before \in Seq(S) /\ Len(before) = i - 1
      /\ \A k \in 1 .. i - 1 : before[k] = s[k]
  <2>1. \A k \in 1 .. i - 1 : s[k] \in S
    BY ElementOfSeq, LenProperties
  <2>. QED  BY <2>1, SubSeqProperties, LenProperties, SMT
<1>2. /\ after \in Seq(S) /\ Len(after) = Len(s) - i
      /\ \A k \in 1 .. Len(s) - i : after[k] = s[k + i]
  <2>1. \A k \in i + 1 .. Len(s) : s[k] \in S
    BY ElementOfSeq, LenProperties
  <2>. QED  BY <2>1, SubSeqProperties, LenProperties, SMT
<1>3. RemoveAt(s, i) = before \o after
  BY DEF RemoveAt
<1>. HIDE DEF before, after
<1>4. /\ before \o after \in Seq(S) /\ Len(before \o after) = Len(before) + Len(after)
      /\ \A k \in 1 .. Len(before) + Len(after) :
           (before \o after)[k] = IF k <= Len(before) THEN before[k] ELSE after[k - Len(before)]
  BY <1>1, <1>2, ConcatProperties
<1>5. Len(s) \in Nat /\ i \in 1 .. Len(s)
  BY LenProperties
<1>6. ASSUME NEW k \in 1 .. Len(s) - 1
      PROVE  (before \o after)[k] = IF k < i THEN s[k] ELSE s[k + 1]
  <2>1. k \in 1 .. Len(before) + Len(after)
    BY <1>1, <1>2, <1>5, SMT
  <2>2. CASE k < i
    BY <1>1, <1>4, <1>5, <2>1, <2>2, SMT
  <2>3. CASE ~(k < i)
    <3>. DEFINE m == k - (i - 1)
    <3>1. m \in 1 .. Len(s) - i /\ m + i = k + 1 /\ ~(k <= Len(before))
      BY <1>1, <1>5, <2>3, SMT
    <3>2. (before \o after)[k] = after[m]
      BY <1>1, <1>4, <2>1, <3>1
    <3>3. after[m] = s[m + i]
      BY <1>2, <3>1
    <3>. HIDE DEF m
    <3>. QED  BY <2>3, <3>1, <3>2, <3>3
  <2>. QED  BY <2>2, <2>3
<1>7. Len(before \o after) = Len(s) - 1
  BY <1>1, <1>2, <1>4, <1>5, SMT
<1>. QED  BY <1>3, <1>4, <1>6, <1>7

\* Giving up on a partial, or completing one, leaves the rest tidy.
LEMMA RemoveKeepsTidy ==
  ASSUME NEW types, NEW ts, NEW cells, NEW ps \in Seq(Partial(types, ts, cells)), Tidy(ps),
         NEW i \in DOMAIN ps
  PROVE  /\ RemoveAt(ps, i) \in Seq(Partial(types, ts, cells))
         /\ Tidy(RemoveAt(ps, i)) /\ Len(RemoveAt(ps, i)) < MaxPartials
         /\ \A k \in DOMAIN RemoveAt(ps, i) :
              \E m \in DOMAIN ps : m # i /\ RemoveAt(ps, i)[k] = ps[m]
<1>. DEFINE S == Partial(types, ts, cells)
            q == RemoveAt(ps, i)
            from(k) == IF k < i THEN k ELSE k + 1
<1>1. /\ q \in Seq(S) /\ Len(q) = Len(ps) - 1
      /\ \A k \in 1 .. Len(ps) - 1 : q[k] = IF k < i THEN ps[k] ELSE ps[k + 1]
  BY RemoveProperties, LenProperties
<1>2. DOMAIN q = 1 .. Len(ps) - 1 /\ DOMAIN ps = 1 .. Len(ps) /\ Len(ps) \in Nat
  BY <1>1, LenProperties
<1>. HIDE DEF q, S
<1>3. \A k \in DOMAIN q : from(k) \in DOMAIN ps /\ from(k) # i /\ q[k] = ps[from(k)]
  BY <1>1, <1>2, SMT
<1>4. \A j, k \in DOMAIN q : j # k => from(j) # from(k)
  BY <1>2, SMT
<1>5. \A j, k \in DOMAIN q : j # k => q[j].trans # q[k].trans
  BY <1>3, <1>4 DEF Tidy
<1>6. Len(q) < MaxPartials
  BY <1>1, <1>2, PartialsAssumption, SMT DEF Tidy
<1>7. Tidy(q)
  BY <1>5, <1>6, <1>1, <1>2, PartialsAssumption, SMT DEF Tidy
<1>8. \A k \in DOMAIN q : \E m \in DOMAIN ps : m # i /\ q[k] = ps[m]
  BY <1>3
<1>. QED  BY <1>1, <1>6, <1>7, <1>8 DEF q, S

\* A new partial goes last, on a trans no other is on.
LEMMA AppendKeepsTidy ==
  ASSUME NEW types, NEW ts, NEW cells, NEW ps \in Seq(Partial(types, ts, cells)), Tidy(ps),
         Len(ps) < MaxPartials, NEW p \in Partial(types, ts, cells),
         \A k \in DOMAIN ps : ps[k].trans # p.trans
  PROVE  Append(ps, p) \in Seq(Partial(types, ts, cells)) /\ Tidy(Append(ps, p))
<1>. DEFINE q == Append(ps, p)
<1>1. /\ q \in Seq(Partial(types, ts, cells)) /\ Len(q) = Len(ps) + 1
      /\ \A i \in 1 .. Len(ps) : q[i] = ps[i]
      /\ q[Len(ps) + 1] = p
  BY AppendProperties
<1>2. DOMAIN q = 1 .. Len(ps) + 1 /\ DOMAIN ps = 1 .. Len(ps) /\ Len(ps) \in Nat
  BY <1>1, LenProperties
<1>. HIDE DEF q
<1>3. \A i, j \in DOMAIN q : i # j => q[i].trans # q[j].trans
  BY <1>1, <1>2, SMT DEF Tidy
<1>4. Len(q) <= MaxPartials
  BY <1>1, <1>2, PartialsAssumption, SMT
<1>. QED  BY <1>1, <1>3, <1>4 DEF q, Tidy

\* Of tidy partials, at most one is on a trans.
LEMMA OneOnTrans ==
  ASSUME NEW types, NEW ts, NEW cells, NEW ps \in Seq(Partial(types, ts, cells)), Tidy(ps), NEW f,
         NEW I, I \subseteq Restarted(ps, f), I # {}
  PROVE  /\ Min(I) \in I /\ I = {Min(I)}
         /\ \A k \in DOMAIN ps : k # Min(I) => ps[k].trans # f.trans
<1>1. PICK i \in I : TRUE
  OBVIOUS
<1>2. i \in DOMAIN ps /\ ps[i].trans = f.trans /\ i \in Nat
  BY LenProperties DEF Restarted
<1>3. \A k \in DOMAIN ps : k # i => ps[k].trans # f.trans
  BY <1>2 DEF Tidy
<1>4. I = {i}
  BY <1>3 DEF Restarted
<1>5. Min(I) = i
  BY <1>2, <1>4, SMT DEF Min
<1>. QED  BY <1>3, <1>4, <1>5

\* And a first fragment takes the place of at most one.
LEMMA OneRestarted ==
  ASSUME NEW types, NEW ts, NEW cells, NEW ps \in Seq(Partial(types, ts, cells)), Tidy(ps),
         NEW f, Restarted(ps, f) # {}
  PROVE  /\ Min(Restarted(ps, f)) \in DOMAIN ps
         /\ \A k \in DOMAIN ps : k # Min(Restarted(ps, f)) => ps[k].trans # f.trans
<1>. DEFINE I == Restarted(ps, f)
<1>1. I \subseteq Restarted(ps, f) /\ I # {} /\ I \subseteq DOMAIN ps
  BY DEF Restarted
<1>. HIDE DEF I
<1>2. Min(I) \in I /\ \A k \in DOMAIN ps : k # Min(I) => ps[k].trans # f.trans
  BY <1>1, OneOnTrans
<1>. QED  BY <1>1, <1>2 DEF I

\* A fragment that goes on with a partial is of the one that would be started again.
LEMMA ContinuedIsRestarted ==
  ASSUME NEW ps, NEW f
  PROVE  Continued(ps, f) \subseteq Restarted(ps, f)
BY DEF Continued, Restarted

\* A fragment that goes on with a partial leaves the partials tidy.
LEMMA NextKeepsTidy ==
  ASSUME NEW types, NEW ts, NEW cells, NEW ps \in Seq(Partial(types, ts, cells)), Tidy(ps),
         NEW f \in Framed(types, ts, cells), Continued(ps, f) # {}
  PROVE  /\ AcceptNext(ps, f).partials \in Seq(Partial(types, ts, cells))
         /\ Tidy(AcceptNext(ps, f).partials)
<1>. DEFINE i == Min(Continued(ps, f))
            p == Joined(ps[i], f)
<1>1. i \in DOMAIN ps
  <2>1. i \in Continued(ps, f)
    BY OneOnTrans, ContinuedIsRestarted
  <2>. QED  BY <2>1 DEF Continued
<1>2. ps[i] \in Partial(types, ts, cells)
  BY <1>1, LenProperties, ElementOfSeq
<1>. HIDE DEF i
<1>3. p \in Partial(types, ts, cells) /\ p.trans = ps[i].trans
  <2>1. ps[i].body \o f.body \in Seq(cells)
    BY <1>2, ConcatProperties DEF Partial, Framed
  <2>2. ps[i].got + f.size \in Nat
    BY <1>2 DEF Partial, Framed
  <2>. QED  BY <1>2, <2>1, <2>2 DEF Joined, Partial
<1>4. [ps EXCEPT ![i] = p] \in Seq(Partial(types, ts, cells)) /\ Tidy([ps EXCEPT ![i] = p])
  <2>. DEFINE q == [ps EXCEPT ![i] = p]
  <2>1. /\ q \in Seq(Partial(types, ts, cells)) /\ Len(q) = Len(ps) /\ DOMAIN q = DOMAIN ps
        /\ \A j \in DOMAIN ps : q[j] = IF j = i THEN p ELSE ps[j]
    BY <1>1, <1>3, ExceptSeq, LenProperties
  <2>. HIDE DEF q, p
  <2>. QED  BY <1>1, <1>3, <2>1 DEF Tidy, q
<1>5. RemoveAt(ps, i) \in Seq(Partial(types, ts, cells)) /\ Tidy(RemoveAt(ps, i))
  BY <1>1, RemoveKeepsTidy
<1>6. AcceptNext(ps, f).partials \in {[ps EXCEPT ![i] = p], RemoveAt(ps, i)}
  BY DEF AcceptNext, Outcome, i
<1>. QED  BY <1>4, <1>5, <1>6

\* A fragment that starts one leaves the partials tidy.
LEMMA FirstKeepsTidy ==
  ASSUME NEW types, NEW ts, NEW cells, NEW ps \in Seq(Partial(types, ts, cells)), Tidy(ps),
         NEW f \in Framed(types, ts, cells)
  PROVE  /\ AcceptFirst(ps, f).partials \in Seq(Partial(types, ts, cells))
         /\ Tidy(AcceptFirst(ps, f).partials)
<1>. DEFINE again == Restarted(ps, f)
            fresh == IF again = {} THEN ps ELSE RemoveAt(ps, Min(again))
            room  == IF Len(fresh) >= MaxPartials THEN Tail(fresh) ELSE fresh
<1>1. /\ fresh \in Seq(Partial(types, ts, cells)) /\ Tidy(fresh)
      /\ \A k \in DOMAIN fresh : fresh[k].trans # f.trans
  <2>1. CASE again = {}
    BY <2>1 DEF Restarted
  <2>2. CASE again # {}
    <3>1. /\ Min(again) \in DOMAIN ps
          /\ \A k \in DOMAIN ps : k # Min(again) => ps[k].trans # f.trans
      BY <2>2, OneRestarted
    <3>. QED  BY <2>2, <3>1, RemoveKeepsTidy
  <2>. QED  BY <2>1, <2>2
<1>. HIDE DEF fresh
<1>2. /\ room \in Seq(Partial(types, ts, cells)) /\ Tidy(room) /\ Len(room) < MaxPartials
      /\ \A k \in DOMAIN room : room[k].trans # f.trans
  <2>1. CASE Len(fresh) >= MaxPartials
    <3>1. fresh # <<>> /\ 1 \in DOMAIN fresh
      BY <1>1, <2>1, LenProperties, EmptySeq, PartialsAssumption, SMT
    <3>2. Tail(fresh) = RemoveAt(fresh, 1)
      <4>1. SubSeq(fresh, 1, 0) = <<>>
        BY SubSeqEmpty, SMT
      <4>2. Tail(fresh) = SubSeq(fresh, 2, Len(fresh)) /\ Tail(fresh) \in Seq(Partial(types, ts, cells))
        BY <1>1, <3>1, TailIsSubSeq, HeadTailProperties
      <4>. QED  BY <4>1, <4>2, ConcatEmptySeq DEF RemoveAt
    <3>3. room = RemoveAt(fresh, 1)
      BY <2>1, <3>2
    <3>4. /\ room \in Seq(Partial(types, ts, cells)) /\ Tidy(room) /\ Len(room) < MaxPartials
          /\ \A k \in DOMAIN room : \E m \in DOMAIN fresh : m # 1 /\ room[k] = fresh[m]
      <4>. HIDE DEF room
      <4>. QED  BY <1>1, <3>1, <3>3, RemoveKeepsTidy
    <3>. QED  BY <1>1, <3>4
  <2>2. CASE ~(Len(fresh) >= MaxPartials)
    BY <1>1, <2>2, LenProperties, PartialsAssumption, SMT
  <2>. QED  BY <2>1, <2>2
<1>. HIDE DEF room
<1>3. Started(f) \in Partial(types, ts, cells) /\ Started(f).trans = f.trans
  BY DEF Started, Partial, Framed
<1>4. AcceptFirst(ps, f).partials = Append(room, Started(f))
  BY Zenon DEF AcceptFirst, Outcome, room, fresh
<1>. QED  BY <1>2, <1>3, <1>4, AppendKeepsTidy

\* What completes: a frame's own data, or as much of a partial's as its total says.
Completions(types, ts, cells) ==
  [type : types, trans : ts,
   body : Seq(cells) \cup {SubSeq(b, 1, n) : b \in Seq(cells), n \in Nat}]

\* What comes of a fragment that goes on: no more than the transaction it completes.
LEMMA NextGives ==
  ASSUME NEW types, NEW ts, NEW cells, NEW ps \in Seq(Partial(types, ts, cells)), Tidy(ps),
         NEW f \in Framed(types, ts, cells), Continued(ps, f) # {}
  PROVE  /\ AcceptNext(ps, f).done \in Seq(Completions(types, ts, cells))
         /\ AcceptNext(ps, f).abandoned = <<>>
<1>. DEFINE i == Min(Continued(ps, f))
            p == Joined(ps[i], f)
            t == Transaction(p.type, p.trans, SubSeq(p.body, 1, p.total))
<1>1. ps[i] \in Partial(types, ts, cells)
  <2>1. i \in Continued(ps, f)
    BY OneOnTrans, ContinuedIsRestarted
  <2>. QED  BY <2>1, LenProperties, ElementOfSeq DEF Continued
<1>. HIDE DEF i
<1>2. /\ p.type \in types /\ p.trans \in ts /\ p.total \in Nat
      /\ p.body \in Seq(cells)
  BY <1>1, ConcatProperties DEF Joined, Partial, Framed
<1>. HIDE DEF p
<1>3. t \in Completions(types, ts, cells)
  BY <1>2 DEF Transaction, Completions
<1>. HIDE DEF t
<1>4. AcceptNext(ps, f).done \in {<<>>, <<t>>} /\ AcceptNext(ps, f).abandoned = <<>>
  BY DEF AcceptNext, Outcome, i, p, t
<1>. DEFINE C == Completions(types, ts, cells)
<1>5. <<>> \in Seq(C) /\ <<t>> \in Seq(C)
  <2>. HIDE DEF C
  <2>. QED  BY <1>3 DEF C
<1>. QED  BY <1>4, <1>5

\* What comes of a fragment that starts one: no transaction, and what it displaces.
LEMMA FirstGives ==
  ASSUME NEW types, NEW ts, NEW cells, NEW ps \in Seq(Partial(types, ts, cells)), Tidy(ps),
         NEW f \in Framed(types, ts, cells)
  PROVE  AcceptFirst(ps, f).done = <<>> /\ AcceptFirst(ps, f).abandoned \in Seq(ts)
<1>. DEFINE again == Restarted(ps, f)
            fresh == IF again = {} THEN ps ELSE RemoveAt(ps, Min(again))
            full  == Len(fresh) >= MaxPartials
            a1 == IF again = {} THEN <<>> ELSE <<f.trans>>
            a2 == IF full THEN <<fresh[1].trans>> ELSE <<>>
<1>1. fresh \in Seq(Partial(types, ts, cells))
  <2>1. CASE again = {}
    BY <2>1
  <2>2. CASE again # {}
    <3>1. Min(again) \in DOMAIN ps
      BY <2>2, OneRestarted
    <3>. QED  BY <2>2, <3>1, RemoveKeepsTidy
  <2>. QED  BY <2>1, <2>2
<1>. HIDE DEF fresh
<1>2. a1 \in Seq(ts)
  BY DEF Framed
<1>3. a2 \in Seq(ts)
  <2>1. CASE full
    <3>1. 1 \in DOMAIN fresh
      BY <1>1, <2>1, LenProperties, PartialsAssumption, SMT
    <3>2. fresh[1] \in Partial(types, ts, cells)
      BY <1>1, <3>1, ElementOfSeq, LenProperties
    <3>. QED  BY <2>1, <3>2 DEF Partial
  <2>. QED  BY <2>1
<1>. HIDE DEF a1, a2
<1>4. AcceptFirst(ps, f).done = <<>> /\ AcceptFirst(ps, f).abandoned = a1 \o a2
  BY Zenon DEF AcceptFirst, Outcome, fresh, a1, a2
<1>. QED  BY <1>2, <1>3, <1>4, ConcatProperties

\* Whatever the frame, the partials stay tidy, and what is completed or given up on
\* is of a type and on a trans some frame had.
LEMMA AcceptKeepsTidy ==
  ASSUME NEW types, NEW ts, NEW cells, NEW ps \in Seq(Partial(types, ts, cells)), Tidy(ps),
         NEW f \in Framed(types, ts, cells)
  PROVE  /\ Accept(ps, f).partials \in Seq(Partial(types, ts, cells))
         /\ Tidy(Accept(ps, f).partials)
         /\ Accept(ps, f).done \in Seq(Completions(types, ts, cells))
         /\ Accept(ps, f).abandoned \in Seq(ts)
<1>1. <<Transaction(f.type, f.trans, f.body)>> \in Seq(Completions(types, ts, cells))
  BY DEF Transaction, Completions, Framed
<1>2. <<>> \in Seq(ts) /\ <<>> \in Seq(Completions(types, ts, cells))
  OBVIOUS
<1>3. CASE IsSplit(f) /\ Continued(ps, f) # {}
  BY <1>2, <1>3, NextKeepsTidy, NextGives DEF Accept
<1>4. CASE ~(IsSplit(f) /\ Continued(ps, f) # {})
  BY <1>1, <1>2, <1>4, FirstKeepsTidy, FirstGives DEF Accept, Outcome
<1>. QED  BY <1>3, <1>4

----------------------------------------------------------------------------
(* Where everything goes.                                                   *)

\* What is read of a frame that is no fragment of more, and of a partial that is whole.
ItsOwn(f) == Transaction(f.type, f.trans, f.body)
Finished(p) == Transaction(p.type, p.trans, SubSeq(p.body, 1, p.total))

\* f is the next fragment of p.
Continues(p, f) == IsSplit(f) /\ p.trans = f.trans /\ p.total = f.total

\* The frame completed nothing, or was a transaction by itself, or was the last
\* fragment of a partial, on which nothing waits any longer.
DoneOnce(ps, f, o) ==
  \/ o.done = <<>>
  \/ o.done = <<ItsOwn(f)>> /\ o.partials = ps
  \/ \E i \in DOMAIN ps :
       /\ Continues(ps[i], f) /\ Joined(ps[i], f).got >= ps[i].total
       /\ o.done = <<Finished(Joined(ps[i], f))>>
       /\ \A k \in DOMAIN o.partials : o.partials[k].trans # f.trans

\* Each partial is still there, or has the frame's data behind its own, or is what the
\* frame completed, or its trans is told of as given up on.
NoneLost(ps, f, o) ==
  \A i \in DOMAIN ps :
    \/ \E k \in DOMAIN o.partials : o.partials[k] = ps[i]
    \/ Continues(ps[i], f) /\ \E k \in DOMAIN o.partials : o.partials[k] = Joined(ps[i], f)
    \/ Continues(ps[i], f) /\ o.done = <<Finished(Joined(ps[i], f))>>
    \/ \E k \in DOMAIN o.abandoned : o.abandoned[k] = ps[i].trans

\* What is given up on was waited for, and is not any longer: a partial on its trans
\* starts with the frame.
GivenUp(ps, f, o) ==
  \A i \in DOMAIN o.abandoned :
    /\ \E k \in DOMAIN ps : ps[k].trans = o.abandoned[i]
    /\ \A k \in DOMAIN o.partials :
         o.partials[k].trans = o.abandoned[i] => o.partials[k] = Started(f)

Accounts(ps, f, o) == DoneOnce(ps, f, o) /\ NoneLost(ps, f, o) /\ GivenUp(ps, f, o)

\* Whatever is removed, the others are still there.
LEMMA RemoveKeepsOthers ==
  ASSUME NEW S, NEW s \in Seq(S), NEW i \in DOMAIN s, NEW m \in DOMAIN s, m # i
  PROVE  \E k \in DOMAIN RemoveAt(s, i) : RemoveAt(s, i)[k] = s[m]
<1>. DEFINE q == RemoveAt(s, i)
            k == IF m < i THEN m ELSE m - 1
<1>1. Len(s) \in Nat /\ DOMAIN s = 1 .. Len(s)
  BY LenProperties
<1>2. /\ q \in Seq(S) /\ Len(q) = Len(s) - 1
      /\ \A j \in 1 .. Len(s) - 1 : q[j] = IF j < i THEN s[j] ELSE s[j + 1]
  BY <1>1, RemoveProperties
<1>3. DOMAIN q = 1 .. Len(s) - 1
  BY <1>2, LenProperties
<1>. HIDE DEF q
<1>4. k \in DOMAIN q /\ q[k] = s[m]
  BY <1>1, <1>2, <1>3, SMT
<1>. QED  BY <1>4 DEF q

\* A fragment that goes on with a partial: where everything goes.
LEMMA NextAccounts ==
  ASSUME NEW types, NEW ts, NEW cells, NEW ps \in Seq(Partial(types, ts, cells)), Tidy(ps),
         NEW f \in Framed(types, ts, cells), IsSplit(f), Continued(ps, f) # {}
  PROVE  Accounts(ps, f, AcceptNext(ps, f))
<1>. DEFINE i == Min(Continued(ps, f))
            p == Joined(ps[i], f)
            o == AcceptNext(ps, f)
            S == Partial(types, ts, cells)
<1>1. /\ i \in Continued(ps, f)
      /\ \A k \in DOMAIN ps : k # i => ps[k].trans # f.trans
  BY OneOnTrans, ContinuedIsRestarted
<1>2. i \in DOMAIN ps /\ Continues(ps[i], f)
  BY <1>1 DEF Continued, Continues
<1>3. \A k \in DOMAIN ps : ps[k] \in S
  BY LenProperties, ElementOfSeq
<1>4. /\ o.abandoned = <<>>
      /\ p.got < p.total =>
           o.partials = [ps EXCEPT ![i] = p] /\ o.done = <<>>
      /\ ~(p.got < p.total) =>
           o.partials = RemoveAt(ps, i) /\ o.done = <<Finished(p)>>
  BY DEF AcceptNext, Outcome, Finished
<1>5. p.trans = ps[i].trans /\ p.total = ps[i].total /\ p.got = ps[i].got + f.size
  BY <1>2, <1>3 DEF Joined, Partial
<1>6. ps[i].total \in Nat /\ p.got \in Nat
  BY <1>2, <1>3, <1>5 DEF Partial, Framed
<1>. HIDE DEF i, o, S
<1>7. CASE p.got < p.total
  <2>. DEFINE q == [ps EXCEPT ![i] = p]
  <2>1. DOMAIN q = DOMAIN ps /\ \A j \in DOMAIN ps : q[j] = IF j = i THEN p ELSE ps[j]
    OBVIOUS
  <2>2. o.partials = q /\ o.done = <<>> /\ o.abandoned = <<>>
    BY <1>4, <1>7
  <2>. HIDE DEF q, p
  <2>3. NoneLost(ps, f, o)
    <3>. SUFFICES ASSUME NEW m \in DOMAIN ps
                  PROVE  \/ \E k \in DOMAIN q : q[k] = ps[m]
                         \/ /\ Continues(ps[m], f)
                            /\ \E k \in DOMAIN q : q[k] = Joined(ps[m], f)
      BY <2>2 DEF NoneLost
    <3>1. CASE m = i
      BY <1>2, <2>1, <3>1 DEF p
    <3>2. CASE m # i
      BY <2>1, <3>2
    <3>. QED  BY <3>1, <3>2
  <2>. QED  BY <2>2, <2>3 DEF Accounts, DoneOnce, GivenUp, o
<1>8. CASE ~(p.got < p.total)
  <2>. DEFINE q == RemoveAt(ps, i)
  <2>1. o.partials = q /\ o.done = <<Finished(p)>> /\ o.abandoned = <<>>
    BY <1>4, <1>8
  <2>2. \A k \in DOMAIN q : q[k].trans # f.trans
    <3>1. \A k \in DOMAIN q : \E m \in DOMAIN ps : m # i /\ q[k] = ps[m]
      BY <1>2, RemoveKeepsTidy
    <3>. QED  BY <1>1, <3>1
  <2>3. p.got >= ps[i].total
    BY <1>5, <1>6, <1>8, SMT
  <2>4. DoneOnce(ps, f, o)
    BY <1>2, <2>1, <2>2, <2>3 DEF DoneOnce
  <2>5. NoneLost(ps, f, o)
    <3>1. \A m \in DOMAIN ps : m # i => \E k \in DOMAIN q : q[k] = ps[m]
      BY <1>2, RemoveKeepsOthers
    <3>. HIDE DEF q
    <3>. QED  BY <1>2, <2>1, <3>1 DEF NoneLost
  <2>. QED  BY <2>1, <2>4, <2>5 DEF Accounts, GivenUp, o
<1>. QED  BY <1>7, <1>8 DEF o

\* A fragment that starts one: where everything goes.
LEMMA FirstAccounts ==
  ASSUME NEW types, NEW ts, NEW cells, NEW ps \in Seq(Partial(types, ts, cells)), Tidy(ps),
         NEW f \in Framed(types, ts, cells)
  PROVE  Accounts(ps, f, AcceptFirst(ps, f))
<1>. DEFINE again == Restarted(ps, f)
            fresh == IF again = {} THEN ps ELSE RemoveAt(ps, Min(again))
            full  == Len(fresh) >= MaxPartials
            room  == IF full THEN Tail(fresh) ELSE fresh
            a1 == IF again = {} THEN <<>> ELSE <<f.trans>>
            a2 == IF full THEN <<fresh[1].trans>> ELSE <<>>
            o == AcceptFirst(ps, f)
            S == Partial(types, ts, cells)
            Waits(t) == \E k \in DOMAIN ps : ps[k].trans = t
<1>1. o.partials = Append(room, Started(f)) /\ o.abandoned = a1 \o a2 /\ o.done = <<>>
  BY Zenon DEF AcceptFirst, Outcome
<1>2. /\ fresh \in Seq(S) /\ Tidy(fresh)
      /\ \A k \in DOMAIN fresh : fresh[k].trans # f.trans
      /\ \A k \in DOMAIN fresh : \E m \in DOMAIN ps : fresh[k] = ps[m]
      /\ \A m \in DOMAIN ps : \/ \E k \in DOMAIN fresh : fresh[k] = ps[m]
                              \/ (again # {} /\ ps[m].trans = f.trans)
      /\ again # {} => Waits(f.trans)
  <2>1. CASE again = {}
    BY <2>1 DEF Restarted
  <2>2. CASE again # {}
    <3>. DEFINE r == Min(again)
    <3>1. r \in DOMAIN ps /\ \A k \in DOMAIN ps : k # r => ps[k].trans # f.trans
      BY <2>2, OneRestarted
    <3>2. ps[r].trans = f.trans
      BY <2>2, <3>1 DEF Restarted
    <3>3. fresh = RemoveAt(ps, r)
      BY <2>2
    <3>. HIDE DEF r, again
    <3>4. /\ fresh \in Seq(S) /\ Tidy(fresh)
          /\ \A k \in DOMAIN fresh : \E m \in DOMAIN ps : m # r /\ fresh[k] = ps[m]
      <4>. HIDE DEF fresh
      <4>. QED  BY <3>1, <3>3, RemoveKeepsTidy
    <3>5. \A m \in DOMAIN ps : m # r => \E k \in DOMAIN fresh : fresh[k] = ps[m]
      <4>. HIDE DEF fresh
      <4>. QED  BY <3>1, <3>3, RemoveKeepsOthers
    <3>. HIDE DEF fresh
    <3>. QED  BY <2>2, <3>1, <3>2, <3>4, <3>5
  <2>. QED  BY <2>1, <2>2
<1>3. a1 = <<>> \/ (again # {} /\ a1 = <<f.trans>>)
  OBVIOUS
<1>. HIDE DEF fresh, a1, again
<1>4. /\ room \in Seq(S)
      /\ \A k \in DOMAIN room : \E m \in DOMAIN fresh : room[k] = fresh[m]
      /\ \A m \in DOMAIN fresh : \/ \E k \in DOMAIN room : room[k] = fresh[m]
                                 \/ a2 = <<fresh[m].trans>>
      /\ a2 = <<>> \/ \E m \in DOMAIN fresh :
                        /\ a2 = <<fresh[m].trans>>
                        /\ \A k \in DOMAIN room : room[k].trans # fresh[m].trans
  <2>1. CASE full
    <3>1. fresh # <<>> /\ 1 \in DOMAIN fresh
      BY <1>2, <2>1, LenProperties, EmptySeq, PartialsAssumption, SMT
    <3>2. Tail(fresh) = RemoveAt(fresh, 1)
      <4>1. SubSeq(fresh, 1, 0) = <<>>
        BY SubSeqEmpty, SMT
      <4>2. Tail(fresh) = SubSeq(fresh, 2, Len(fresh)) /\ Tail(fresh) \in Seq(S)
        BY <1>2, <3>1, TailIsSubSeq, HeadTailProperties
      <4>. QED  BY <4>1, <4>2, ConcatEmptySeq DEF RemoveAt
    <3>3. room = RemoveAt(fresh, 1) /\ a2 = <<fresh[1].trans>>
      BY <2>1, <3>2
    <3>. HIDE DEF room, a2
    <3>4. /\ room \in Seq(S)
          /\ \A k \in DOMAIN room : \E m \in DOMAIN fresh : m # 1 /\ room[k] = fresh[m]
      BY <1>2, <3>1, <3>3, RemoveKeepsTidy
    <3>5. \A m \in DOMAIN fresh : m # 1 => \E k \in DOMAIN room : room[k] = fresh[m]
      BY <1>2, <3>1, <3>3, RemoveKeepsOthers
    <3>6. \A k \in DOMAIN room : room[k].trans # fresh[1].trans
      BY <1>2, <3>1, <3>4 DEF Tidy
    <3>. QED  BY <3>1, <3>3, <3>4, <3>5, <3>6
  <2>2. CASE ~full
    BY <1>2, <2>2
  <2>. QED  BY <2>1, <2>2
<1>. HIDE DEF room, a2
<1>5. DOMAIN o.partials = 1 .. Len(room) + 1 /\ DOMAIN room = 1 .. Len(room) /\ Len(room) \in Nat
      /\ (\A k \in 1 .. Len(room) : o.partials[k] = room[k])
      /\ o.partials[Len(room) + 1] = Started(f)
  <2>1. Started(f) \in S
    BY DEF Started, Partial, Framed
  <2>2. /\ Append(room, Started(f)) \in Seq(S)
        /\ Len(Append(room, Started(f))) = Len(room) + 1
        /\ \A k \in 1 .. Len(room) : Append(room, Started(f))[k] = room[k]
        /\ Append(room, Started(f))[Len(room) + 1] = Started(f)
    BY <1>4, <2>1, AppendProperties
  <2>. HIDE DEF o, S
  <2>. QED  BY <1>1, <1>4, <2>2, LenProperties
<1>6. /\ \A k \in DOMAIN room : \E j \in DOMAIN o.partials : o.partials[j] = room[k]
      /\ \A j \in DOMAIN o.partials :
           o.partials[j] = Started(f) \/ \E k \in DOMAIN room : o.partials[j] = room[k]
  <2>. HIDE DEF o
  <2>. QED  BY <1>5, SMT
<1>7. \A t : (\E k \in DOMAIN o.abandoned : o.abandoned[k] = t) <=> (a1 = <<t>> \/ a2 = <<t>>)
  <2>. HIDE DEF o
  <2>1. a2 = <<>> \/ \E u : a2 = <<u>>
    BY <1>4
  <2>2. o.abandoned = a1 \o a2
    BY <1>1
  <2>3. CASE a1 = <<>>
    BY <2>1, <2>2, <2>3
  <2>4. CASE a1 = <<f.trans>>
    BY <2>1, <2>2, <2>4
  <2>. QED  BY <1>3, <2>3, <2>4
<1>8. \A j \in DOMAIN o.abandoned : a1 = <<o.abandoned[j]>> \/ a2 = <<o.abandoned[j]>>
  BY <1>7
<1>. HIDE DEF o
<1>9. NoneLost(ps, f, o)
  <2>. SUFFICES ASSUME NEW m \in DOMAIN ps
                PROVE  \/ \E k \in DOMAIN o.partials : o.partials[k] = ps[m]
                       \/ \E k \in DOMAIN o.abandoned : o.abandoned[k] = ps[m].trans
    BY DEF NoneLost
  <2>1. CASE again # {} /\ ps[m].trans = f.trans
    BY <1>7, <2>1 DEF a1
  <2>2. CASE \E k \in DOMAIN fresh : fresh[k] = ps[m]
    <3>1. PICK k \in DOMAIN fresh : fresh[k] = ps[m]
      BY <2>2
    <3>2. CASE \E j \in DOMAIN room : room[j] = fresh[k]
      BY <1>6, <3>1, <3>2
    <3>3. CASE a2 = <<fresh[k].trans>>
      BY <1>7, <3>1, <3>3
    <3>. QED  BY <1>4, <3>2, <3>3
  <2>. QED  BY <1>2, <2>1, <2>2
<1>10. GivenUp(ps, f, o)
  <2>. SUFFICES ASSUME NEW j \in DOMAIN o.abandoned
                PROVE  /\ \E k \in DOMAIN ps : ps[k].trans = o.abandoned[j]
                       /\ \A k \in DOMAIN o.partials :
                            o.partials[k].trans = o.abandoned[j] => o.partials[k] = Started(f)
    BY DEF GivenUp
  <2>. DEFINE t == o.abandoned[j]
  <2>1. CASE a1 = <<t>>
    <3>1. again # {} /\ t = f.trans
      BY <1>3, <2>1
    <3>2. \A k \in DOMAIN room : room[k].trans # f.trans
      BY <1>2, <1>4
    <3>. QED  BY <1>2, <1>6, <3>1, <3>2
  <2>2. CASE a2 = <<t>>
    <3>1. PICK m \in DOMAIN fresh : /\ t = fresh[m].trans
                                   /\ \A k \in DOMAIN room : room[k].trans # fresh[m].trans
      BY <1>4, <2>2
    <3>. QED  BY <1>2, <1>6, <3>1
  <2>. QED  BY <1>8, <2>1, <2>2
<1>. QED  BY <1>1, <1>9, <1>10 DEF Accounts, DoneOnce, o

\* next_transaction(): whatever the frame, the partials stay tidy, at most one
\* transaction is completed, which is the frame's or the one that it was the last
\* fragment of, and no partial is lost untold.
THEOREM AcceptAccounts ==
  ASSUME NEW types, NEW ts, NEW cells, NEW ps \in Seq(Partial(types, ts, cells)), Tidy(ps),
         NEW f \in Framed(types, ts, cells)
  PROVE  /\ Accept(ps, f).partials \in Seq(Partial(types, ts, cells))
         /\ Tidy(Accept(ps, f).partials)
         /\ Accounts(ps, f, Accept(ps, f))
<1>. DEFINE o == Accept(ps, f)
<1>1. Accounts(ps, f, o)
  <2>1. CASE IsSplit(f) /\ Continued(ps, f) # {}
    <3>1. o = AcceptNext(ps, f)
      BY <2>1 DEF Accept
    <3>. HIDE DEF o
    <3>. QED  BY <2>1, <3>1, NextAccounts
  <2>2. CASE IsSplit(f) /\ Continued(ps, f) = {} /\ ~f.whole /\ f.size # 0
    <3>1. o = AcceptFirst(ps, f)
      BY <2>2 DEF Accept
    <3>. HIDE DEF o
    <3>. QED  BY <3>1, FirstAccounts
  <2>3. CASE ~IsSplit(f) \/ (Continued(ps, f) = {} /\ (f.whole \/ f.size = 0))
    <3>1. o.partials = ps /\ o.abandoned = <<>> /\ o.done \in {<<>>, <<ItsOwn(f)>>}
      BY <2>3 DEF Accept, Outcome, ItsOwn
    <3>. HIDE DEF o
    <3>. QED  BY <3>1 DEF Accounts, DoneOnce, NoneLost, GivenUp
  <2>. QED  BY <2>1, <2>2, <2>3
<1>. HIDE DEF o
<1>2. o.partials \in Seq(Partial(types, ts, cells)) /\ Tidy(o.partials)
  BY AcceptKeepsTidy DEF o
<1>. QED  BY <1>1, <1>2 DEF o
=============================================================================
