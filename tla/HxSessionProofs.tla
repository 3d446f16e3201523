--------------------------- MODULE HxSessionProofs ---------------------------
(***************************************************************************)
(* Theorems about HxSession: its types, the bound on its table of awaited   *)
(* replies, and what its timers and its early queue keep, for every choice *)
(* of the constants; what a step of it may do - what may be queued when,   *)
(* what goes as plaintext, what a closed session may still do, and in what  *)
(* order what came unasked is handed over; what its clock promises; and,   *)
(* until its counter has come round, what an answer is to and what a full   *)
(* table forgets.                                                          *)
(***************************************************************************)
EXTENDS HxSession, HxPartialsProofs, HxFoldProofs, FiniteSetTheorems

----------------------------------------------------------------------------
(* HxTrans: the counter never comes round to 0, and however full the table  *)
(* is when a reply is remembered, it is never left with more than MaxPending. *)

\* remember()'s limit.
Fits(table) == Cardinality(DOMAIN table) <= MaxPending

\* wrapping_add(1).max(1) of a trans is a trans again, and never 0: what
\* take_trans() hands out next (lib.rs).
THEOREM NextTransNeverZero ==
  ASSUME NEW t \in Trans
  PROVE  NextTrans(t) \in Trans \ {0}
BY TransAssumption, SMT DEF Trans, NextTrans

\* wrapping_sub stays within u32 and tells any two trans apart.
LEMMA SinceInjective ==
  ASSUME NEW n \in Trans, NEW t \in Trans, NEW u \in Trans
  PROVE  /\ Since(n, t) \in 0 .. TransSpace - 1
         /\ Since(n, t) = Since(n, u) => t = u
BY TransAssumption, SMT DEF Trans, Since

LEMMA TransFinite ==
  ASSUME NEW S, S \subseteq Trans
  PROVE  IsFiniteSet(S) /\ Cardinality(S) \in Nat
<1>1. IsFiniteSet(Trans)
  BY TransAssumption, FS_Interval, SMT DEF Trans
<1>. QED  BY <1>1, FS_Subset, FS_CardinalityType

LEMMA HalfOfPending == MaxPending \div 2 \in Nat /\ MaxPending \div 2 + 1 <= MaxPending
BY TransAssumption, SMT

\* retain() with wrapping_sub: the recent half holds half of MAX_PENDING.
LEMMA RecentIsHalf ==
  ASSUME NEW table, DOMAIN table \subseteq Trans, NEW n \in Trans
  PROVE  Cardinality(Recent(table, n)) <= MaxPending \div 2
<1>. DEFINE half == MaxPending \div 2
            places == 0 .. half - 1
            since == [t \in Recent(table, n) |-> Since(n, t)]
<1>1. Recent(table, n) \subseteq Trans
  BY DEF Recent
<1>2. since \in Injection(Recent(table, n), places)
  <2>1. since \in [Recent(table, n) -> places]
    BY <1>1, SinceInjective, HalfOfPending, TransAssumption, SMT DEF Recent
  <2>2. \A t, u \in Recent(table, n) : since[t] = since[u] => t = u
    BY <1>1, SinceInjective
  <2>. QED  BY <2>1, <2>2 DEF Injection, IsInjective
<1>3. IsFiniteSet(places) /\ Cardinality(places) = half
  <2>1. half \in Nat /\ 0 \in Int /\ half - 1 \in Int
    BY HalfOfPending, SMT
  <2>2. /\ IsFiniteSet(places)
        /\ Cardinality(places) = IF 0 > half - 1 THEN 0 ELSE (half - 1) - 0 + 1
    <3>. HIDE DEF half
    <3>. QED  BY <2>1, FS_Interval, Zenon
  <2>. HIDE DEF half
  <2>. QED  BY <2>1, <2>2, SMT
<1>. QED  BY <1>2, <1>3, FS_Injection

\* remember(): the table keeps its type and its bound, whatever trans is
\* remembered (a raw caller may expect() one long since handed out).
THEOREM RememberKeepsTable ==
  ASSUME NEW K, NEW table, IsTable(table, K), Fits(table), NEW t \in Trans, NEW what \in K
  PROVE  IsTable(Remember(table, t, what), K) /\ Fits(Remember(table, t, what))
<1>. DEFINE new == Remember(table, t, what)
            kept == Kept(table, t)
<1>1. kept \subseteq DOMAIN table /\ kept \subseteq Trans
  BY DEF IsTable, Fits, Kept, Recent
<1>2. DOMAIN new = kept \cup {t}
  BY DEF Remember
<1>3. new \in [DOMAIN new -> K]
  BY <1>1, <1>2 DEF IsTable, Fits, Remember
<1>4. Cardinality(kept) + 1 <= MaxPending
  <2>1. CASE Cardinality(DOMAIN table) >= MaxPending
    <3>1. Cardinality(kept) <= MaxPending \div 2
      BY <2>1, RecentIsHalf DEF IsTable, Fits, Kept
    <3>. QED  BY <1>1, <3>1, TransFinite, HalfOfPending, TransAssumption, SMT
  <2>2. CASE ~(Cardinality(DOMAIN table) >= MaxPending)
    <3>1. kept = DOMAIN table
      BY <2>2 DEF Kept
    <3>. QED  BY <1>1, <2>2, <3>1, TransFinite, TransAssumption, SMT
  <2>. QED  BY <2>1, <2>2
<1>5. Cardinality(DOMAIN new) <= MaxPending
  BY <1>1, <1>2, <1>4, TransFinite, FS_AddElement, TransAssumption, SMT
<1>. QED  BY <1>1, <1>2, <1>3, <1>5 DEF IsTable, Fits

\* reply(): taking entries out keeps the rest.
LEMMA ForgetKeepsTable ==
  ASSUME NEW K, NEW table, IsTable(table, K), Fits(table), NEW ts
  PROVE  IsTable(Forget(table, ts), K) /\ Fits(Forget(table, ts))
<1>1. DOMAIN Forget(table, ts) = DOMAIN table \ ts
  BY DEF Forget
<1>2. Forget(table, ts) \in [DOMAIN table \ ts -> K]
  BY DEF Forget, IsTable, Fits
<1>3. Cardinality(DOMAIN table \ ts) <= Cardinality(DOMAIN table)
  BY TransFinite, FS_Subset DEF IsTable, Fits
<1>4. Cardinality(DOMAIN table \ ts) <= MaxPending
  BY <1>3, TransFinite, TransAssumption, SMT DEF IsTable, Fits
<1>. QED  BY <1>1, <1>2, <1>4 DEF IsTable, Fits

LEMMA EmptyTable ==
  ASSUME NEW K
  PROVE  IsTable(NothingPending, K) /\ Fits(NothingPending)
<1>1. DOMAIN NothingPending = {}
  BY DEF NothingPending
<1>2. NothingPending \in [{} -> K]
  BY DEF NothingPending
<1>. QED  BY <1>1, <1>2, FS_EmptySet, TransAssumption, SMT DEF IsTable, Fits

----------------------------------------------------------------------------
(* What sends and answers keep of the sender.                              *)

IsGood(s) == IsSender(s) /\ Fits(s.pending) /\ CountsUp(s)

LEMMA FirstTrans == 2 \in Trans \ {0} /\ 1 \in Trans
BY SessionAssumption, TransAssumption, SMT DEF Trans

LEMMA SenderKeeps ==
  ASSUME NEW t \in Trans \ {0}, NEW p, IsTable(p, Pendings), Fits(p),
         NEW o \in Seq(Sent), NEW u \in [Trans -> Uses], CountsUp(Sender(t, p, o, u))
  PROVE  IsGood(Sender(t, p, o, u))
BY DEF IsGood, IsSender, Sender

\* Every trans but 0 has a place of its own, and the counter goes from place to place.
LEMMA PlaceCounts ==
  ASSUME NEW t \in Trans \ {0}
  PROVE  /\ Place(t) \in 0 .. TransSpace - 2
         /\ \A u \in Trans \ {0} : Place(t) = Place(u) => t = u
         /\ Place(NextTrans(t)) = IF Place(t) = TransSpace - 2 THEN 0 ELSE Place(t) + 1
BY SessionAssumption, TransAssumption, SMT DEF Trans, Place, NextTrans

\* What becomes of the table when s.trans is handed out for how: what is in it was in
\* it before, or is on s.trans and what that was handed out for.
HandsOut(s, p, how) ==
  \A t \in DOMAIN p :
    \/ t = s.trans /\ p[t] = how
    \/ t \in DOMAIN s.pending /\ p[t] = s.pending[t]

\* take_trans() hands out the next.
LEMMA HandedCounts ==
  ASSUME NEW s, IsGood(s), NEW how \in Uses \ {"free"}, NEW p, NEW o, HandsOut(s, p, how)
  PROVE  CountsUp(Sender(NextTrans(s.trans), p, o, [s.use EXCEPT ![s.trans] = how]))
<1>. DEFINE n == s.trans
            u == [s.use EXCEPT ![n] = how]
            next == NextTrans(n)
<1>1. /\ n \in Trans \ {0} /\ s.use \in [Trans -> Uses] /\ DOMAIN s.pending \subseteq Trans
      /\ 0 \in Trans
  BY TransAssumption, SMT DEF IsGood, IsSender, IsTable, Trans
<1>2. u[n] = how /\ how # "free" /\ \A t \in Trans \ {n} : u[t] = s.use[t]
  BY <1>1
<1>3. CountsUp(s)
  BY DEF IsGood
<1>4. u[0] = "free" /\ \A t \in DOMAIN p : u[t] # "free"
  BY <1>1, <1>2, <1>3 DEF CountsUp, HandsOut
<1>5. ASSUME NEW f \in Trans \ {0}, u[f] = "free"
      PROVE  /\ \A t \in Trans \ {0} : u[t] = "free" <=> Place(t) >= Place(next)
             /\ \A t \in DOMAIN p : u[t] = p[t]
  <2>1. f # n /\ s.use[f] = "free"
    BY <1>1, <1>2, <1>5
  <2>2. /\ \A t \in Trans \ {0} : s.use[t] = "free" <=> Place(t) >= Place(n)
        /\ \A t \in DOMAIN s.pending : s.use[t] = s.pending[t]
    BY <1>3, <2>1 DEF CountsUp
  <2>3. Place(n) \in Nat /\ Place(f) \in 0 .. TransSpace - 2 /\ Place(f) # Place(n)
    BY <1>1, <2>1, PlaceCounts
  <2>4. Place(next) = Place(n) + 1
    <3>1. Place(f) > Place(n) /\ Place(n) # TransSpace - 2
      BY <2>1, <2>2, <2>3, TransAssumption, SMT
    <3>. QED  BY <1>1, <3>1, PlaceCounts
  <2>5. s.use[n] = "free"
    BY <1>1, <2>2, <2>3, SMT
  <2>6. ASSUME NEW t \in Trans \ {0} PROVE u[t] = "free" <=> Place(t) >= Place(next)
    <3>1. Place(t) \in Nat /\ (Place(t) = Place(n) => t = n)
      BY <1>1, PlaceCounts
    <3>2. CASE t = n
      BY <1>2, <2>3, <2>4, <3>2, SMT
    <3>3. CASE t # n
      <4>1. u[t] = "free" <=> Place(t) >= Place(n)
        BY <1>2, <2>2, <3>3
      <4>. QED  BY <2>3, <2>4, <3>1, <3>3, <4>1, SMT
    <3>. QED  BY <3>2, <3>3
  <2>7. ASSUME NEW t \in DOMAIN p PROVE u[t] = p[t]
    <3>1. CASE t = n /\ p[t] = how
      BY <1>2, <3>1
    <3>2. CASE t \in DOMAIN s.pending /\ p[t] = s.pending[t]
      <4>1. t # n
        BY <1>3, <2>5, <3>2 DEF CountsUp
      <4>. QED  BY <1>1, <1>2, <2>2, <3>2, <4>1
    <3>. QED  BY <3>1, <3>2 DEF HandsOut
  <2>. QED  BY <2>6, <2>7
<1>6. Sender(next, p, o, u).trans = next /\ Sender(next, p, o, u).use = u
      /\ Sender(next, p, o, u).pending = p
  BY DEF Sender
<1>. HIDE DEF u, next, n
<1>7. CountsUp(Sender(next, p, o, u))
  BY <1>4, <1>5, <1>6, Zenon DEF CountsUp
<1>. QED  BY <1>7 DEF u, next, n

\* Whatever else is done to the table or to what trans are remembered for.
LEMMA OthersCount ==
  ASSUME NEW s, IsGood(s), NEW p, NEW o, NEW u,
         \A t \in Trans : u[t] = "free" <=> s.use[t] = "free",
         DOMAIN p \subseteq Trans,
         \A t \in DOMAIN p :
           /\ u[t] # "free"
           /\ u[t] = p[t] \/ (t \in DOMAIN s.pending /\ p[t] = s.pending[t] /\ u[t] = s.use[t])
  PROVE  CountsUp(Sender(s.trans, p, o, u))
<1>1. CountsUp(s) /\ 0 \in Trans
  BY TransAssumption, SMT DEF IsGood, Trans
<1>2. /\ Sender(s.trans, p, o, u).trans = s.trans /\ Sender(s.trans, p, o, u).use = u
      /\ Sender(s.trans, p, o, u).pending = p
  BY DEF Sender
<1>3. u[0] = "free" /\ \A t \in DOMAIN p : u[t] # "free"
  BY <1>1 DEF CountsUp
<1>4. ASSUME NEW f \in Trans \ {0}, u[f] = "free"
      PROVE  /\ \A t \in Trans \ {0} : u[t] = "free" <=> Place(t) >= Place(s.trans)
             /\ \A t \in DOMAIN p : u[t] = p[t]
  <2>1. /\ \A t \in Trans \ {0} : s.use[t] = "free" <=> Place(t) >= Place(s.trans)
        /\ \A t \in DOMAIN s.pending : s.use[t] = s.pending[t]
    BY <1>1, <1>4 DEF CountsUp
  <2>. QED  BY <2>1
<1>. QED  BY <1>2, <1>3, <1>4, Zenon DEF CountsUp

LEMMA SendKeeps ==
  ASSUME NEW s, IsGood(s), NEW what \in Sent, NEW pend \in Pendings \cup {"none"}
  PROVE  IsGood(Send(s, what, pend))
<1>. DEFINE p == IF pend = "none" THEN s.pending ELSE Remember(s.pending, s.trans, pend)
            u == [s.use EXCEPT ![s.trans] = pend]
<1>1. s.trans \in Trans /\ IsTable(s.pending, Pendings) /\ Fits(s.pending)
  BY DEF IsGood, IsSender
<1>2. IsTable(p, Pendings) /\ Fits(p)
  <2>1. CASE pend = "none"
    BY <1>1, <2>1
  <2>2. CASE pend # "none"
    <3>1. pend \in Pendings
      BY <2>2
    <3>. QED  BY <1>1, <2>2, <3>1, RememberKeepsTable
  <2>. QED  BY <2>1, <2>2
<1>3. NextTrans(s.trans) \in Trans \ {0}
  BY <1>1, NextTransNeverZero
<1>4. Append(s.out, what) \in Seq(Sent)
  BY DEF IsGood, IsSender
<1>5. u \in [Trans -> Uses]
  BY <1>1 DEF IsGood, IsSender, Uses
<1>6. HandsOut(s, p, pend)
  BY <1>1 DEF HandsOut, Remember, Kept, Recent
<1>7. CountsUp(Sender(NextTrans(s.trans), p, Append(s.out, what), u))
  <2>1. pend \in Uses \ {"free"}
    BY DEF Uses, Pendings, Expects
  <2>. HIDE DEF p
  <2>. QED  BY <1>6, <2>1, HandedCounts
<1>. QED  BY <1>2, <1>3, <1>4, <1>5, <1>7, SenderKeeps DEF Send

LEMMA SendIfKeeps ==
  ASSUME NEW s, IsGood(s), NEW cond, NEW what \in Sent, NEW pend \in Pendings \cup {"none"}
  PROVE  IsGood(SendIf(cond, s, what, pend))
BY SendKeeps DEF SendIf

LEMMA AgreeIfKeeps ==
  ASSUME NEW s, IsGood(s), NEW cond
  PROVE  IsGood(AgreeIf(cond, s))
<1>. DEFINE a == Send(s, "agree", "Quiet")
<1>1. /\ "Quiet" \in Pendings \cup {"none"} /\ "UserList" \in Pendings \cup {"none"}
      /\ "agree" \in Sent /\ "user_list" \in Sent
  BY DEF Pendings, Expects, Sent
<1>2. IsGood(a)
  BY <1>1, SendKeeps
<1>3. IsGood(Send(a, "user_list", "UserList"))
  BY <1>1, <1>2, SendKeeps
<1>4. AgreeIf(cond, s) \in {s, a, Send(a, "user_list", "UserList")}
  BY Zenon DEF AgreeIf, SendIf
<1>. QED  BY <1>2, <1>3, <1>4

LEMMA TakeTransKeeps ==
  ASSUME NEW s, IsGood(s)
  PROVE  IsGood(TakeTrans(s))
<1>. DEFINE u == [s.use EXCEPT ![s.trans] = "taken"]
<1>1. IsTable(s.pending, Pendings) /\ Fits(s.pending) /\ s.out \in Seq(Sent)
  BY DEF IsGood, IsSender
<1>2. u \in [Trans -> Uses] /\ NextTrans(s.trans) \in Trans \ {0}
  BY NextTransNeverZero DEF IsGood, IsSender, Uses
<1>3. CountsUp(Sender(NextTrans(s.trans), s.pending, s.out, u))
  <2>1. "taken" \in Uses \ {"free"} /\ HandsOut(s, s.pending, "taken")
    BY DEF Uses, HandsOut
  <2>. QED  BY <2>1, HandedCounts
<1>. QED  BY <1>1, <1>2, <1>3, SenderKeeps DEF TakeTrans

LEMMA SettledKeeps ==
  ASSUME NEW s, IsGood(s), NEW ts, NEW how
  PROVE  IsGood(Settled(s, ts, how))
<1>1. s.trans \in Trans \ {0} /\ s.out \in Seq(Sent)
  BY DEF IsGood, IsSender
<1>2. UseAfter(s, ts, how) \in [Trans -> Uses]
  BY DEF IsGood, IsSender, Uses, After, UseAfter
<1>3. IsTable(Forget(s.pending, ts), Pendings) /\ Fits(Forget(s.pending, ts))
  BY ForgetKeepsTable DEF IsGood, IsSender
<1>4. CountsUp(Settled(s, ts, how))
  <2>. DEFINE u == UseAfter(s, ts, how)
              p == Forget(s.pending, ts)
  <2>1. /\ s.use \in [Trans -> Uses] /\ DOMAIN s.pending \subseteq Trans
        /\ \A t \in DOMAIN s.pending : s.use[t] # "free"
    BY DEF IsGood, IsSender, IsTable, CountsUp
  <2>2. \A t \in Trans : u[t] = IF t \in ts \cap DOMAIN s.pending THEN After(s, t, how) ELSE s.use[t]
    BY <2>1 DEF UseAfter
  <2>3. \A t : After(s, t, how) # "free"
    BY DEF After
  <2>4. DOMAIN p = DOMAIN s.pending \ ts /\ \A t \in DOMAIN p : p[t] = s.pending[t]
    BY DEF Forget
  <2>. HIDE DEF u, p
  <2>5. \A t \in Trans : u[t] = "free" <=> s.use[t] = "free"
    BY <2>1, <2>2, <2>3
  <2>6. /\ DOMAIN p \subseteq Trans
        /\ \A t \in DOMAIN p :
             /\ u[t] # "free"
             /\ t \in DOMAIN s.pending /\ p[t] = s.pending[t] /\ u[t] = s.use[t]
    BY <2>1, <2>2, <2>4
  <2>7. CountsUp(Sender(s.trans, p, s.out, u))
    BY <2>5, <2>6, OthersCount
  <2>. QED  BY <2>7 DEF Settled, u, p
<1>. QED  BY <1>1, <1>2, <1>3, <1>4, SenderKeeps DEF Settled

LEMMA QueueKeeps ==
  ASSUME NEW s, IsGood(s), NEW o \in Seq(Sent)
  PROVE  IsGood([s EXCEPT !.out = o])
<1>1. IsSender([s EXCEPT !.out = o]) /\ Fits([s EXCEPT !.out = o].pending)
  BY DEF IsGood, IsSender, Sender
<1>2. CountsUp([s EXCEPT !.out = o])
  <2>1. /\ [s EXCEPT !.out = o].use = s.use /\ [s EXCEPT !.out = o].trans = s.trans
        /\ [s EXCEPT !.out = o].pending = s.pending
    BY DEF IsGood, IsSender, Sender
  <2>. QED  BY <2>1, Zenon DEF IsGood, CountsUp
<1>. QED  BY <1>1, <1>2 DEF IsGood

LEMMA EmptiedKeeps ==
  ASSUME NEW s, IsGood(s)
  PROVE  IsGood(Emptied(s))
<1>1. /\ s.trans \in Trans \ {0} /\ s.out \in Seq(Sent)
      /\ s.use \in [Trans -> Uses]
  BY DEF IsGood, IsSender
<1>2. CountsUp(Sender(s.trans, NothingPending, s.out, s.use))
  <2>1. DOMAIN NothingPending = {}
    BY DEF NothingPending
  <2>. QED  BY <2>1, OthersCount
<1>. QED  BY <1>1, <1>2, SenderKeeps, EmptyTable DEF Emptied

LEMMA ExpectedKeeps ==
  ASSUME NEW s, IsGood(s), NEW t \in Trans, s.use[t] = "taken", NEW what \in Expects
  PROVE  IsGood(Expected(s, t, what))
<1>. DEFINE u == [s.use EXCEPT ![t] = what]
            p == Remember(s.pending, t, what)
<1>1. s.trans \in Trans \ {0} /\ s.out \in Seq(Sent)
  BY DEF IsGood, IsSender
<1>2. u \in [Trans -> Uses]
  BY DEF IsGood, IsSender, Uses, Pendings
<1>3. IsTable(p, Pendings) /\ Fits(p)
  BY RememberKeepsTable DEF IsGood, IsSender, Pendings
<1>4. CountsUp(Sender(s.trans, p, s.out, u))
  <2>1. /\ s.use \in [Trans -> Uses] /\ DOMAIN s.pending \subseteq Trans
        /\ \A v \in DOMAIN s.pending : s.use[v] # "free"
    BY DEF IsGood, IsSender, IsTable, CountsUp
  <2>2. what # "free" /\ u[t] = what /\ \A v \in Trans \ {t} : u[v] = s.use[v]
    BY <2>1 DEF Expects
  <2>3. \A v \in DOMAIN p : IF v = t THEN p[v] = what ELSE v \in DOMAIN s.pending /\ p[v] = s.pending[v]
    BY DEF Remember, Kept, Recent
  <2>4. DOMAIN p \subseteq Trans
    BY <1>3 DEF IsTable
  <2>. HIDE DEF u, p
  <2>5. \A v \in Trans : u[v] = "free" <=> s.use[v] = "free"
    BY <2>1, <2>2
  <2>6. \A v \in DOMAIN p :
          /\ u[v] # "free"
          /\ u[v] = p[v] \/ (v \in DOMAIN s.pending /\ p[v] = s.pending[v] /\ u[v] = s.use[v])
    BY <2>1, <2>2, <2>3, <2>4
  <2>. QED  BY <2>4, <2>5, <2>6, OthersCount
<1>. QED  BY <1>1, <1>2, <1>3, <1>4, SenderKeeps DEF Expected

LEMMA AppendKeeps ==
  ASSUME NEW s, IsGood(s), NEW what \in Sent
  PROVE  IsGood([s EXCEPT !.out = Append(@, what)])
<1>1. Append(s.out, what) \in Seq(Sent)
  BY DEF IsGood, IsSender
<1>. QED  BY <1>1, QueueKeeps

LEMMA DrainKeeps ==
  ASSUME NEW s, IsGood(s)
  PROVE  IsGood([s EXCEPT !.out = <<>>])
<1>1. <<>> \in Seq(Sent)
  OBVIOUS
<1>. QED  BY <1>1, QueueKeeps

----------------------------------------------------------------------------
(* The steps, one part of the state at a time.                             *)

\* Whatever happens, the sender keeps its type and its table its bound.
LEMMA SenderStep ==
  ASSUME IsGood(sender), cfg \in Configs, Next
  PROVE  IsGood(sender)'
<1>. SUFFICES IsGood(sender')
  BY DEF IsGood, IsSender, IsTable, Fits, Sender, CountsUp
<1>1. CASE FeedMagic
  BY <1>1, EmptiedKeeps, AppendKeeps DEF FeedMagic, Close, Sent
<1>2. CASE FeedUndecodable \/ FeedTooLarge \/ Disconnected
  BY <1>2, EmptiedKeeps DEF FeedUndecodable, FeedTooLarge, Disconnected, Close
<1>3. CASE FeedClosed \/ Advance \/ (\E fits \in Nicks : SetIdentity(fits))
  BY <1>3 DEF FeedClosed, Advance, SetIdentity
<1>4. CASE FeedFragment
  BY <1>4, SettledKeeps DEF FeedFragment
<1>5. CASE FeedEarly
  BY <1>5, EmptiedKeeps DEF FeedEarly, Close
<1>6. CASE FeedHopeReply
  BY <1>6, EmptiedKeeps, DrainKeeps DEF FeedHopeReply, Close, BeginTransport
<1>7. CASE FeedLoginReply
  <2>1. CASE sender' = Emptied(sender)
    BY <2>1, EmptiedKeeps
  <2>2. ASSUME NEW v, NEW r, NEW whole, LogIn(v, r, whole) PROVE IsGood(sender')
    <3>. DEFINE named == SendIf(v = 0 /\ nickFits, sender, "user_change", "Quiet")
                u == TakeUnasked(Replayed, v, named, AgreementDeadline(v, NowAt(r)))
    <3>1. IsGood(named)
      BY SendKeeps DEF SendIf, Sent, Pendings
    <3>2. IsGood(u.sender)
      BY <3>1, AgreeIfKeeps DEF TakeUnasked
    <3>3. IsGood(Send(u.sender, "user_list", "UserList"))
      BY <3>2, SendKeeps DEF Sent, Pendings, Expects
    <3>4. sender' \in {u.sender, Send(u.sender, "user_list", "UserList")}
      BY <2>2, Zenon DEF LogIn, SendIf
    <3>. QED  BY <3>2, <3>3, <3>4
  <2>. QED  BY <1>7, <2>1, <2>2 DEF FeedLoginReply, Close
<1>8. CASE FeedReply
  BY <1>8, SettledKeeps DEF FeedReply
<1>9. CASE FeedUnasked
  BY <1>9, AgreeIfKeeps DEF FeedUnasked, TakeUnasked
<1>10. ASSUME NEW r \in Readings, Tick(r) PROVE IsGood(sender')
  <2>1. CASE TickHandshake(r) \/ TickClosed(r)
    BY <2>1, EmptiedKeeps DEF TickHandshake, TickClosed, Close
  <2>2. CASE TickLoggedIn(r)
    <3>1. ASSUME NEW c PROVE IsGood(SendIf(c, sender, "user_list", "UserList"))
      BY SendIfKeeps DEF Sent, Pendings, Expects
    <3>2. ASSUME NEW c, NEW s, IsGood(s) PROVE IsGood(SendIf(c, s, "ping", "Keepalive"))
      BY <3>2, SendIfKeeps DEF Sent, Pendings
    <3>. QED  BY <2>2, <3>1, <3>2 DEF TickLoggedIn
  <2>. QED  BY <1>10, <2>1, <2>2 DEF Tick
<1>11. CASE TakeOutgoing
  BY <1>11, EmptiedKeeps, DrainKeeps DEF TakeOutgoing
<1>12. CASE Agree
  BY <1>12, AgreeIfKeeps DEF Agree
<1>13. CASE CallTakeTrans
  BY <1>13, TakeTransKeeps DEF CallTakeTrans
<1>14. CASE SendRaw
  BY <1>14, AppendKeeps DEF SendRaw, Sent
<1>15. ASSUME NEW pend \in RequestKinds, Request(pend) PROVE IsGood(sender')
  BY <1>15, SessionAssumption, SendKeeps DEF Request, Sent
<1>16. ASSUME NEW t \in Trans, NEW what \in Expects \cap RequestKinds, Expect(t, what)
       PROVE  IsGood(sender')
  BY <1>16, ExpectedKeeps DEF Expect
<1>. QED
  BY <1>1, <1>2, <1>3, <1>4, <1>5, <1>6, <1>7, <1>8, <1>9, <1>10, <1>11, <1>12, <1>13,
     <1>14, <1>15, <1>16 DEF Next, Feed, Caller

LEMMA InitHolds == Init => IInv
<1>. SUFFICES ASSUME Init PROVE IInv
  OBVIOUS
<1>1. StateType
  <2>1. cfg \in Configs /\ nickFits \in BOOLEAN /\ cfg.hope \in BOOLEAN
    BY SessionAssumption DEF Init
  <2>2. offer \in BOOLEAN /\ transport \in BOOLEAN
    BY <2>1, Zenon DEF Init
  <2>3. st \in States /\ version \in Nat /\ beforeTransport \in Seq(Sent)
    BY EmptySeq DEF Init, States
  <2>. QED  BY <2>1, <2>2, <2>3 DEF StateType
<1>2. IsGood(sender)
  <2>. DEFINE u == [t \in Trans |-> "free"]
              s == Sender(2, NothingPending, <<"magic">>, u)
  <2>1. IsGood(s)
    <3>1. u \in [Trans -> Uses] /\ <<"magic">> \in Seq(Sent)
      BY DEF Uses, Sent
    <3>2. CountsUp(s)
      <4>1. DOMAIN NothingPending = {} /\ 0 \in Trans
        BY TransAssumption, SMT DEF NothingPending, Trans
      <4>2. Place(2) = 0 /\ \A t \in Trans \ {0} : Place(t) >= 0
        BY PlaceCounts, SMT DEF Place
      <4>3. /\ s.trans = 2 /\ s.pending = NothingPending
            /\ \A t \in Trans : s.use[t] = "free"
        BY DEF Sender
      <4>. QED  BY <4>1, <4>2, <4>3 DEF CountsUp
    <3>. QED  BY <3>1, <3>2, FirstTrans, EmptyTable, SenderKeeps
  <2>. HIDE DEF s
  <2>2. sender = s \/ sender = TakeTrans(s)
    BY DEF Init, s
  <2>. QED  BY <2>1, <2>2, TakeTransKeeps
<1>3. ClockType
  <2>1. unstamped \in BOOLEAN
    BY DEF Init
  <2>2. ClockMax \in Nat /\ HandshakeTimeout \in Nat /\ MaxTime \in Nat
    BY SessionAssumption, SMT
  <2>3. wall = 0 /\ now = 0 /\ lastSent = 0
    BY DEF Init
  <2>4. handshakeAt \in Times
    BY <2>2, SMT DEF Init, Times, Never, Deadline
  <2>5. loginAt \in Times
    BY <2>2, SMT DEF Init, Times, Never
  <2>. QED  BY <2>1, <2>2, <2>3, <2>4, <2>5, SMT DEF ClockType
<1>4. SettleType /\ Unsettled /\ WaitEndsOnce
  <2>1. Never \in Times
    BY SessionAssumption, SMT DEF Times, Never
  <2>. QED  BY <2>1, Zenon DEF Init, SettleType, Unsettled, WaitEndsOnce
<1>5. ReaderType /\ ReplayedOnce /\ PushesKept
  <2>1. Pushes(<<>>) = 0
    BY FS_EmptySet DEF Pushes
  <2>2. early = <<>> /\ partials = <<>> /\ pushIn = 0 /\ pushOut = 0
    BY DEF Init
  <2>. QED  BY <2>1, <2>2, EmptySeq, SessionAssumption DEF ReaderType, ReplayedOnce, PushesKept
<1>6. OnePartialPerTrans
  BY PartialsAssumption, EmptySeq, SMT DEF Init, OnePartialPerTrans, Tidy
<1>. QED
  BY <1>1, <1>2, <1>3, <1>4, <1>5, <1>6 DEF IInv, TypeOK, PendingBounded, IsGood, Fits

LEMMA ClockStep ==
  ASSUME ClockType, Next
  PROVE  ClockType'
<1>. USE DEF timeVars
<1>1. ASSUME NEW r \in Readings PROVE NowAt(r) \in 0 .. wall /\ now <= NowAt(r) /\ NowAt(r) \in Times
  BY SessionAssumption, SMT DEF Readings, NowAt, ClockType, Times, Never
<1>2. ASSUME NEW r \in Readings, NEW sends, Clock(r, sends)
      PROVE  now' \in 0 .. wall /\ lastSent' \in 0 .. now' /\ unstamped' \in BOOLEAN
  <2>1. now' \in 0 .. wall /\ now <= now' /\ now' = NowAt(r)
    BY <1>1, <1>2 DEF Clock
  <2>2. lastSent' = now' \/ lastSent' = lastSent
    BY <1>2 DEF Clock
  <2>3. lastSent' \in 0 .. now'
    BY <2>1, <2>2, SessionAssumption, SMT DEF ClockType
  <2>4. unstamped' \in BOOLEAN
    BY <1>2 DEF Clock
  <2>. QED  BY <2>1, <2>3, <2>4
<1>3. CASE FeedMagic \/ FeedUndecodable \/ FeedClosed \/ FeedTooLarge \/ FeedFragment
  BY <1>2, <1>3 DEF FeedMagic, FeedUndecodable, FeedClosed, FeedTooLarge, FeedFragment, ClockType
<1>4. CASE FeedEarly \/ FeedHopeReply \/ FeedReply \/ FeedUnasked
  BY <1>2, <1>4 DEF FeedEarly, FeedHopeReply, FeedReply, FeedUnasked, ClockType
<1>5. CASE FeedLoginReply
  <2>1. ASSUME NEW v, NEW r, NEW whole, LogIn(v, r, whole)
        PROVE  Clock(r, sender' # sender) /\ loginAt' = NowAt(r)
    BY <2>1, Zenon DEF LogIn
  <2>2. PICK r \in Readings :
               /\ \E sends : Clock(r, sends)
               /\ loginAt' = loginAt \/ loginAt' = NowAt(r)
    BY <1>5, <2>1, Zenon DEF FeedLoginReply
  <2>. QED  BY <1>1, <1>2, <1>5, <2>2 DEF FeedLoginReply, ClockType
<1>6. ASSUME NEW r \in Readings, Tick(r) PROVE ClockType'
  BY <1>2, <1>6 DEF Tick, TickHandshake, TickLoggedIn, TickClosed, ClockType
<1>7. CASE Disconnected \/ TakeOutgoing \/ CallTakeTrans \/ SendRaw
  BY <1>7 DEF Disconnected, TakeOutgoing, CallTakeTrans, SendRaw, StampLater, ClockType
<1>8. CASE Agree
  BY <1>8 DEF Agree, StampLater, ClockType
<1>9. ASSUME NEW fits \in Nicks, SetIdentity(fits) PROVE ClockType'
  BY <1>9 DEF SetIdentity, ClockType
<1>10. ASSUME NEW pend \in RequestKinds, Request(pend) PROVE ClockType'
  BY <1>10 DEF Request, StampLater, ClockType
<1>11. ASSUME NEW t \in Trans, NEW what, Expect(t, what) PROVE ClockType'
  BY <1>11 DEF Expect, ClockType
<1>12. CASE Advance
  BY <1>12, SessionAssumption, SMT DEF Advance, ClockType
<1>. QED
  BY <1>3, <1>4, <1>5, <1>6, <1>7, <1>8, <1>9, <1>10, <1>11, <1>12 DEF Next, Feed, Caller

LEMMA StateStep ==
  ASSUME StateType, IsGood(sender), Next
  PROVE  StateType'
<1>. USE DEF hopeVars, StateType
<1>1. CASE FeedMagic \/ FeedUndecodable \/ FeedClosed \/ FeedTooLarge \/ FeedFragment
  BY <1>1 DEF FeedMagic, FeedUndecodable, FeedClosed, FeedTooLarge, FeedFragment, Close, States
<1>2. CASE FeedEarly \/ FeedReply \/ FeedUnasked
  BY <1>2 DEF FeedEarly, FeedReply, FeedUnasked, Close, States
<1>3. CASE FeedHopeReply
  <2>1. Append(beforeTransport \o sender.out, "step2") \in Seq(Sent)
    <3>1. beforeTransport \o sender.out \in Seq(Sent)
      BY ConcatProperties DEF IsGood, IsSender
    <3>. QED  BY <3>1, AppendProperties DEF Sent
  <2>. QED  BY <1>3, <2>1 DEF FeedHopeReply, BeginTransport, Close, States
<1>4. CASE FeedLoginReply
  <2>1. \/ st' = "Closed" /\ UNCHANGED version
        \/ \E v \in Versions, r \in Readings : \E whole : LogIn(v, r, whole)
    <3>1. PICK f \in Frames, r \in Readings :
            \/ \E whole : Close("LoginRefused", whole) /\ UNCHANGED version
            \/ \E v \in Versions : \E whole : LogIn(v, r, whole)
      BY <1>4 DEF FeedLoginReply
    <3>. QED  BY <3>1, Zenon DEF Close
  <2>3. ASSUME NEW v \in Versions, NEW r, NEW whole, LogIn(v, r, whole)
        PROVE  st' = "LoggedIn" /\ version' \in Versions
    BY <2>3 DEF LogIn
  <2>2. UNCHANGED <<cfg, nickFits, offer, transport, beforeTransport>>
    BY <1>4 DEF FeedLoginReply
  <2>. QED  BY <2>1, <2>2, <2>3, SessionAssumption DEF States
<1>5. ASSUME NEW r \in Readings, Tick(r) PROVE StateType'
  BY <1>5 DEF Tick, TickHandshake, TickLoggedIn, TickClosed, Close, States
<1>6. CASE Disconnected \/ CallTakeTrans \/ SendRaw \/ Agree \/ Advance
  BY <1>6 DEF Disconnected, CallTakeTrans, SendRaw, Agree, Advance, Close, States
<1>7. CASE TakeOutgoing
  BY <1>7, EmptySeq DEF TakeOutgoing, States
<1>8. ASSUME NEW fits \in Nicks, SetIdentity(fits) PROVE StateType'
  BY <1>8, SessionAssumption DEF SetIdentity
<1>9. ASSUME NEW pend \in RequestKinds, Request(pend) PROVE StateType'
  BY <1>9 DEF Request
<1>10. ASSUME NEW t \in Trans, NEW what, Expect(t, what) PROVE StateType'
  BY <1>10 DEF Expect
<1>. QED
  BY <1>1, <1>2, <1>3, <1>4, <1>5, <1>6, <1>7, <1>8, <1>9, <1>10 DEF Next, Feed, Caller

\* What comes unasked ends the wait for an agreement, or leaves it as it is.
LEMMA TakeUnaskedSettles ==
  ASSUME SettleType, NEW q, NEW v, NEW s, NEW at \in Times
  PROVE  LET u == TakeUnasked(q, v, s, at)
         IN  /\ u.agreementAt \in Times
             /\ u.awaiting \in BOOLEAN /\ u.agreed \in BOOLEAN /\ u.ready \in BOOLEAN
             /\ \/ u.agreementAt = Never
                \/ /\ u.agreementAt = at
                   /\ u.awaiting = awaiting /\ u.agreed = agreed /\ u.ready = ready
<1>. DEFINE agreements == {i \in DOMAIN q : q[i].type \in Agreements}
            u == TakeUnasked(q, v, s, at)
<1>1. Never \in Times
  BY SessionAssumption, SMT DEF Times, Never
<1>2. u.agreementAt \in Times
  BY <1>1 DEF TakeUnasked, WaitAfter
<1>3. u.awaiting \in BOOLEAN /\ u.agreed \in BOOLEAN /\ u.ready \in BOOLEAN
  BY DEF TakeUnasked, SettleType
<1>4. CASE agreements # {}
  <2>1. u.agreementAt = Never
    BY <1>4 DEF TakeUnasked, WaitAfter
  <2>. QED  BY <1>2, <1>3, <2>1
<1>5. CASE agreements = {}
  <2>1. u.agreementAt = at
    BY <1>5 DEF TakeUnasked, WaitAfter
  <2>2. Answered(q, v) = 0
    BY <1>5 DEF Answered, AnsweredAtOnce, Agreements
  <2>3. u.awaiting = awaiting /\ u.agreed = agreed /\ u.ready = ready
    BY <1>5, <2>2 DEF TakeUnasked, SettleType
  <2>. QED  BY <1>2, <1>3, <2>1, <2>3
<1>. QED  BY <1>4, <1>5

\* The wait for an agreement, from the login reply on.
LEMMA SettleStep ==
  ASSUME StateType, ClockType, SettleType, Unsettled, WaitEndsOnce, Next
  PROVE  SettleType' /\ Unsettled' /\ WaitEndsOnce'
<1>. DEFINE Stays == UNCHANGED settleVars /\ (st' = st \/ st' = "Closed")
            Before == {"Magic", "HopeStep1", "Login"}
<1>1. ASSUME UNCHANGED settleVars, st' \notin Before \/ st \in Before
      PROVE  SettleType' /\ Unsettled' /\ WaitEndsOnce'
  BY <1>1 DEF settleVars, SettleType, Unsettled, WaitEndsOnce
<1>2. CASE FeedMagic \/ FeedUndecodable \/ FeedClosed \/ FeedTooLarge \/ FeedFragment
  <2>1. UNCHANGED settleVars /\ (st' \notin Before \/ st \in Before)
    BY <1>2 DEF FeedMagic, FeedUndecodable, FeedClosed, FeedTooLarge, FeedFragment, Close
  <2>. QED  BY <1>1, <2>1
<1>3. CASE FeedEarly \/ FeedHopeReply \/ FeedReply
  <2>1. UNCHANGED settleVars /\ (st' \notin Before \/ st \in Before)
    BY <1>3 DEF FeedEarly, FeedHopeReply, FeedReply, Close
  <2>. QED  BY <1>1, <2>1
<1>4. CASE Disconnected \/ CallTakeTrans \/ SendRaw \/ TakeOutgoing \/ Advance
  <2>1. UNCHANGED settleVars /\ (st' \notin Before \/ st \in Before)
    BY <1>4 DEF Disconnected, CallTakeTrans, SendRaw, TakeOutgoing, Advance, Close
  <2>. QED  BY <1>1, <2>1
<1>5. ASSUME NEW fits, SetIdentity(fits)
      PROVE  UNCHANGED settleVars /\ (st' \notin Before \/ st \in Before)
  BY <1>5 DEF SetIdentity
<1>6. ASSUME NEW pend, Request(pend)
      PROVE  UNCHANGED settleVars /\ (st' \notin Before \/ st \in Before)
  BY <1>6 DEF Request
<1>7. ASSUME NEW t, NEW what, Expect(t, what)
      PROVE  UNCHANGED settleVars /\ (st' \notin Before \/ st \in Before)
  BY <1>7 DEF Expect
<1>8. CASE FeedLoginReply
  <2>1. CASE UNCHANGED settleVars /\ st' = "Closed"
    BY <1>1, <2>1
  <2>2. ASSUME NEW v \in Versions, NEW r \in Readings, NEW whole, LogIn(v, r, whole), st = "Login"
        PROVE  SettleType' /\ Unsettled' /\ WaitEndsOnce'
    <3>. DEFINE named == SendIf(v = 0 /\ nickFits, sender, "user_change", "Quiet")
                wait  == AgreementDeadline(v, NowAt(r))
                u     == TakeUnasked(Replayed, v, named, wait)
    <3>1. wait \in Times /\ (v = 0 => wait = Never)
      BY SessionAssumption, SMT
         DEF AgreementDeadline, Deadline, Times, Never, NowAt, Readings, ClockType
    <3>2. agreementAt = Never /\ ~awaiting /\ ~agreed /\ ~ready
      BY <2>2 DEF Unsettled
    <3>3. /\ u.agreementAt \in Times
          /\ u.awaiting \in BOOLEAN /\ u.agreed \in BOOLEAN /\ u.ready \in BOOLEAN
          /\ \/ u.agreementAt = Never
             \/ /\ u.agreementAt = wait
                /\ u.awaiting = awaiting /\ u.agreed = agreed /\ u.ready = ready
      BY <3>1, TakeUnaskedSettles
    <3>4. /\ st' = "LoggedIn" /\ agreementAt' = u.agreementAt
          /\ awaiting' = u.awaiting /\ agreed' = u.agreed
          /\ ready' = (u.ready \/ (v = 0 /\ ~u.ready))
      BY <2>2 DEF LogIn
    <3>. HIDE DEF u, wait
    <3>5. SettleType'
      BY <3>3, <3>4 DEF SettleType
    <3>6. WaitEndsOnce'
      BY <3>1, <3>2, <3>3, <3>4 DEF WaitEndsOnce
    <3>. QED  BY <3>4, <3>5, <3>6 DEF Unsettled
  <2>3. \/ UNCHANGED settleVars /\ st' = "Closed"
        \/ st = "Login" /\ \E v \in Versions, r \in Readings : \E whole : LogIn(v, r, whole)
    BY <1>8, Zenon DEF FeedLoginReply, Close
  <2>. QED  BY <2>1, <2>2, <2>3
<1>9. CASE FeedUnasked
  <2>1. PICK f \in Frames :
          LET q == <<Numbered(Completed(f).type)>>
              u == TakeUnasked(q, version, sender, agreementAt)
          IN  /\ agreementAt' = u.agreementAt /\ awaiting' = u.awaiting
              /\ agreed' = u.agreed /\ ready' = u.ready
    BY <1>9, Zenon DEF FeedUnasked
  <2>. DEFINE u == TakeUnasked(<<Numbered(Completed(f).type)>>, version, sender, agreementAt)
  <2>2. /\ u.agreementAt \in Times
        /\ u.awaiting \in BOOLEAN /\ u.agreed \in BOOLEAN /\ u.ready \in BOOLEAN
        /\ \/ u.agreementAt = Never
           \/ /\ u.agreementAt = agreementAt
              /\ u.awaiting = awaiting /\ u.agreed = agreed /\ u.ready = ready
    BY TakeUnaskedSettles DEF SettleType
  <2>3. agreementAt' = u.agreementAt /\ awaiting' = u.awaiting /\ agreed' = u.agreed /\ ready' = u.ready
    BY <2>1
  <2>4. st = "LoggedIn" /\ st' = st
    BY <1>9 DEF FeedUnasked
  <2>. HIDE DEF u
  <2>. QED  BY <2>2, <2>3, <2>4 DEF SettleType, Unsettled, WaitEndsOnce
<1>10. ASSUME NEW r \in Readings, Tick(r)
       PROVE  SettleType' /\ Unsettled' /\ WaitEndsOnce'
  <2>1. CASE TickHandshake(r) \/ TickClosed(r)
    BY <1>1, <2>1 DEF TickHandshake, TickClosed, Close
  <2>2. CASE TickLoggedIn(r)
    <3>1. /\ st = "LoggedIn" /\ st' = st /\ UNCHANGED <<awaiting, agreed>>
          /\ \/ agreementAt' = Never /\ ready' = TRUE
             \/ UNCHANGED <<agreementAt, ready>>
      BY <2>2 DEF TickLoggedIn, SettleType
    <3>2. Never \in Times
      BY SessionAssumption, SMT DEF Times, Never
    <3>3. SettleType'
      BY <3>1, <3>2 DEF SettleType
    <3>4. WaitEndsOnce'
      BY <3>1 DEF WaitEndsOnce
    <3>5. Unsettled'
      BY <3>1 DEF Unsettled
    <3>. QED  BY <3>3, <3>4, <3>5
  <2>. QED  BY <1>10, <2>1, <2>2 DEF Tick
<1>11. CASE Agree
  <2>1. CASE agreed
    BY <1>1, <1>11, <2>1 DEF Agree
  <2>2. CASE ~agreed
    <3>1. /\ agreed' = TRUE /\ awaiting' = FALSE /\ agreementAt' = Never /\ ready' = TRUE
          /\ st = "LoggedIn" /\ st' = st
      BY <1>11, <2>2 DEF Agree
    <3>2. Never \in Times
      BY SessionAssumption, SMT DEF Times, Never
    <3>3. SettleType'
      BY <3>1, <3>2 DEF SettleType
    <3>4. WaitEndsOnce'
      BY <3>1 DEF WaitEndsOnce
    <3>5. Unsettled'
      BY <3>1 DEF Unsettled
    <3>. QED  BY <3>3, <3>4, <3>5
  <2>. QED  BY <2>1, <2>2
<1>. QED
  BY <1>1, <1>2, <1>3, <1>4, <1>5, <1>6, <1>7, <1>8, <1>9, <1>10, <1>11 DEF Next, Feed, Caller

----------------------------------------------------------------------------
(* Pushes are counted by their type, so what is appended adds one or none. *)

LEMMA PushesNone == Pushes(<<>>) = 0
BY FS_EmptySet DEF Pushes

LEMMA PushesAppend ==
  ASSUME NEW S, NEW q \in Seq(S), NEW x
  PROVE  /\ Pushes(q) \in Nat
         /\ Pushes(Append(q, x)) = Pushes(q) + (IF x.type = "push" THEN 1 ELSE 0)
<1>. DEFINE old == {i \in DOMAIN q : q[i].type = "push"}
            new == {i \in DOMAIN Append(q, x) : Append(q, x)[i].type = "push"}
            n   == Len(q) + 1
<1>1. Len(q) \in Nat /\ DOMAIN q = 1 .. Len(q)
  BY LenProperties
<1>2. IsFiniteSet(old) /\ Cardinality(old) \in Nat
  <2>1. IsFiniteSet(1 .. Len(q)) /\ old \subseteq 1 .. Len(q)
    BY <1>1, FS_Interval, SMT
  <2>. QED  BY <2>1, FS_Subset, FS_CardinalityType
<1>3. /\ DOMAIN Append(q, x) = 1 .. n
      /\ \A i \in 1 .. Len(q) : Append(q, x)[i] = q[i]
      /\ Append(q, x)[n] = x
  <2>1. q \in Seq(S \cup {x}) /\ x \in S \cup {x}
    BY SeqMonotonic
  <2>. QED  BY <2>1, AppendProperties, LenProperties
<1>4. n \notin old /\ 1 .. n = (1 .. Len(q)) \cup {n}
  BY <1>1, SMT
<1>5. Pushes(q) = Cardinality(old) /\ Pushes(Append(q, x)) = Cardinality(new)
  BY DEF Pushes
<1>. HIDE DEF n
<1>6. CASE x.type = "push"
  <2>1. new = old \cup {n}
    BY <1>1, <1>3, <1>4, <1>6
  <2>. HIDE DEF new, old
  <2>. QED  BY <1>2, <1>4, <1>5, <1>6, <2>1, FS_AddElement
<1>7. CASE x.type # "push"
  <2>1. new = old
    BY <1>1, <1>3, <1>4, <1>7
  <2>. HIDE DEF new, old
  <2>. QED  BY <1>2, <1>5, <1>7, <2>1, SMT
<1>. QED  BY <1>6, <1>7

LEMMA PushesOne ==
  ASSUME NEW x
  PROVE  Pushes(<<x>>) = IF x.type = "push" THEN 1 ELSE 0
<1>1. <<x>> = Append(<<>>, x) /\ <<>> \in Seq({})
  OBVIOUS
<1>2. Pushes(<<x>>) = 0 + (IF x.type = "push" THEN 1 ELSE 0)
  BY <1>1, PushesNone, PushesAppend, Zenon
<1>. QED  BY <1>2, SMT

LEMMA NumberedType ==
  ASSUME ReaderType, NEW type \in Unasked
  PROVE  /\ Numbered(type) \in [type : Unasked, id : Nat] /\ Numbered(type).type = type
         /\ Number(type) => /\ pushIn' \in Nat
                            /\ pushIn' = pushIn + (IF type = "push" THEN 1 ELSE 0)
<1>1. pushIn \in Nat
  BY DEF ReaderType
<1>2. CASE type = "push"
  BY <1>1, <1>2 DEF Numbered, Push, Number
<1>3. CASE type # "push"
  BY <1>1, <1>3 DEF Numbered, Agreement, Number
<1>. QED  BY <1>2, <1>3

\* What is read: the partials, and what waits for the login reply.
LEMMA ReaderStep ==
  ASSUME ReaderType, OnePartialPerTrans, ReplayedOnce, PushesKept, Next
  PROVE  ReaderType' /\ OnePartialPerTrans' /\ ReplayedOnce' /\ PushesKept'
<1>. DEFINE Typed == partials' \in Seq(Partial(Replies \cup Unasked, Trans, {0})) /\ Tidy(partials')
            Waits == UNCHANGED <<early, pushIn, pushOut>>
            Onward == (st' # "Closed" => st # "Closed") /\ (st' = "LoggedIn" => st = "LoggedIn")
<1>. USE DEF pushVars
<1>1. ASSUME NEW f \in Frames, partials' = Accept(partials, f).partials
      PROVE  Typed
  BY <1>1, SessionAssumption, AcceptKeepsTidy DEF ReaderType, OnePartialPerTrans
<1>2. UNCHANGED partials => Typed
  BY DEF ReaderType, OnePartialPerTrans
<1>3. ASSUME Typed, Waits, Onward
      PROVE  ReaderType' /\ OnePartialPerTrans' /\ ReplayedOnce' /\ PushesKept'
  BY <1>3 DEF ReaderType, OnePartialPerTrans, ReplayedOnce, PushesKept, Pushes
<1>4. CASE FeedMagic \/ FeedUndecodable \/ FeedClosed \/ FeedTooLarge
  <2>1. UNCHANGED partials /\ Waits /\ Onward
    BY <1>4 DEF FeedMagic, FeedUndecodable, FeedClosed, FeedTooLarge, Close, Listening
  <2>. QED  BY <1>2, <1>3, <2>1
<1>5. CASE FeedFragment \/ FeedHopeReply \/ FeedReply
  <2>1. \E f \in Frames : partials' = Accept(partials, f).partials
    BY <1>5 DEF FeedFragment, FeedHopeReply, FeedReply, Completes
  <2>2. Waits /\ Onward
    BY <1>5 DEF FeedFragment, FeedHopeReply, FeedReply, Close, Listening
  <2>. QED  BY <1>1, <1>3, <2>1, <2>2
<1>6. ASSUME NEW r \in Readings, Tick(r)
      PROVE  UNCHANGED partials /\ Waits /\ Onward
  BY <1>6 DEF Tick, TickHandshake, TickLoggedIn, TickClosed, Close
<1>7. CASE Disconnected \/ TakeOutgoing \/ Agree \/ CallTakeTrans \/ SendRaw \/ Advance
  <2>1. UNCHANGED partials /\ Waits /\ Onward
    BY <1>7 DEF Disconnected, TakeOutgoing, Agree, CallTakeTrans, SendRaw, Advance, Close
  <2>. QED  BY <1>2, <1>3, <2>1
<1>8. ASSUME NEW fits, SetIdentity(fits) PROVE UNCHANGED partials /\ Waits /\ Onward
  BY <1>8 DEF SetIdentity
<1>9. ASSUME NEW pend, Request(pend) PROVE UNCHANGED partials /\ Waits /\ Onward
  BY <1>9 DEF Request
<1>10. ASSUME NEW t, NEW what, Expect(t, what) PROVE UNCHANGED partials /\ Waits /\ Onward
  BY <1>10 DEF Expect
<1>11. CASE FeedEarly
  <2>1. PICK f \in Frames :
          /\ Completes(f) /\ Completed(f).type \in Unasked
          /\ Number(Completed(f).type)
          /\ \/ st' = "Closed" /\ UNCHANGED early
             \/ ~EarlyFull /\ early' = Append(early, Numbered(Completed(f).type)) /\ UNCHANGED st
    BY <1>11, Zenon DEF FeedEarly, Close
  <2>. DEFINE type == Completed(f).type
  <2>2. Typed
    BY <1>1, <2>1 DEF Completes
  <2>3. /\ Numbered(type) \in [type : Unasked, id : Nat] /\ Numbered(type).type = type
        /\ pushIn' \in Nat /\ pushIn' = pushIn + (IF type = "push" THEN 1 ELSE 0)
    BY <2>1, NumberedType
  <2>4. st \in {"HopeStep1", "Login"} /\ UNCHANGED pushOut
    BY <1>11 DEF FeedEarly
  <2>. HIDE DEF type, Typed
  <2>5. CASE st' = "Closed" /\ UNCHANGED early
    <3>1. ReaderType' /\ OnePartialPerTrans'
      BY <2>2, <2>3, <2>4, <2>5 DEF ReaderType, OnePartialPerTrans, Typed
    <3>. QED  BY <2>5, <3>1 DEF ReplayedOnce, PushesKept
  <2>6. CASE ~EarlyFull /\ early' = Append(early, Numbered(type)) /\ UNCHANGED st
    <3>1. /\ early' \in Seq([type : Unasked, id : Nat]) /\ Len(early') = Len(early) + 1
          /\ Len(early) \in Nat
      BY <2>3, <2>6, AppendProperties, LenProperties DEF ReaderType
    <3>2. Len(early') <= MaxEarly
      BY <2>6, <3>1, SessionAssumption, SMT DEF EarlyFull
    <3>3. ReaderType' /\ OnePartialPerTrans'
      BY <2>2, <2>3, <2>4, <3>1, <3>2 DEF ReaderType, OnePartialPerTrans, Typed
    <3>4. Pushes(early) \in Nat /\ Pushes(early') = Pushes(early) + (IF type = "push" THEN 1 ELSE 0)
      BY <2>3, <2>6, PushesAppend DEF ReaderType
    <3>5. pushIn = pushOut + Pushes(early)
      BY <2>4 DEF PushesKept
    <3>6. pushIn' = pushOut' + Pushes(early')
      BY <2>3, <2>4, <3>4, <3>5, SMT DEF ReaderType
    <3>7. Pushes(early)' = Pushes(early')
      BY DEF Pushes
    <3>8. PushesKept'
      BY <3>6, <3>7 DEF PushesKept
    <3>9. ReplayedOnce'
      BY <2>4, <2>6 DEF ReplayedOnce
    <3>. QED  BY <3>3, <3>8, <3>9
  <2>. QED  BY <2>1, <2>5, <2>6 DEF type
<1>12. CASE FeedLoginReply
  <2>1. PICK f \in Frames :
          /\ Completes(f)
          /\ \/ st' = "Closed" /\ UNCHANGED <<early, pushOut>>
             \/ st' = "LoggedIn" /\ early' = <<>> /\ pushOut' = pushOut + Pushes(early)
    <3>1. PICK f \in Frames, r \in Readings :
            /\ Completes(f)
            /\ \/ \E whole : Close("LoginRefused", whole) /\ UNCHANGED <<early, pushOut>>
               \/ \E v, whole : LogIn(v, r, whole)
      BY <1>12, Zenon DEF FeedLoginReply
    <3>2. CASE \E whole : Close("LoginRefused", whole) /\ UNCHANGED <<early, pushOut>>
      BY <3>1, <3>2 DEF Close
    <3>3. ASSUME NEW v, NEW whole, LogIn(v, r, whole)
          PROVE  st' = "LoggedIn" /\ early' = <<>> /\ pushOut' = pushOut + Pushes(early)
      BY <3>3 DEF LogIn, Replayed
    <3>. QED  BY <3>1, <3>2, <3>3
  <2>2. Typed
    BY <1>1, <2>1 DEF Completes
  <2>3. st = "Login" /\ UNCHANGED pushIn
    BY <1>12 DEF FeedLoginReply
  <2>. HIDE DEF Typed
  <2>4. CASE st' = "Closed" /\ UNCHANGED <<early, pushOut>>
    BY <2>2, <2>3, <2>4 DEF ReaderType, OnePartialPerTrans, ReplayedOnce, PushesKept, Typed
  <2>5. CASE st' = "LoggedIn" /\ early' = <<>> /\ pushOut' = pushOut + Pushes(early)
    <3>1. Pushes(early) \in Nat /\ pushIn = pushOut + Pushes(early)
      BY <2>3, PushesAppend DEF ReaderType, PushesKept
    <3>2. pushOut' \in Nat /\ pushIn' = pushOut' + 0
      BY <2>3, <2>5, <3>1, SMT DEF ReaderType
    <3>3. Pushes(early)' = 0
      BY <2>5, PushesNone DEF Pushes
    <3>4. early' \in Seq([type : Unasked, id : Nat]) /\ Len(early') <= MaxEarly
      BY <2>5, EmptySeq, SessionAssumption
    <3>5. ReaderType' /\ OnePartialPerTrans'
      BY <2>2, <2>3, <3>2, <3>4 DEF ReaderType, OnePartialPerTrans, Typed
    <3>. QED  BY <2>5, <3>2, <3>3, <3>5 DEF ReplayedOnce, PushesKept
  <2>. QED  BY <2>1, <2>4, <2>5
<1>13. CASE FeedUnasked
  <2>1. PICK f \in Frames :
          /\ Completes(f) /\ Completed(f).type \in Unasked
          /\ Number(Completed(f).type)
          /\ pushOut' = pushOut + Pushes(<<Numbered(Completed(f).type)>>)
    BY <1>13, Zenon DEF FeedUnasked
  <2>. DEFINE type == Completed(f).type
  <2>2. Typed
    BY <1>1, <2>1 DEF Completes
  <2>3. /\ Numbered(type).type = type
        /\ pushIn' \in Nat /\ pushIn' = pushIn + (IF type = "push" THEN 1 ELSE 0)
    BY <2>1, NumberedType
  <2>4. pushOut' = pushOut + (IF type = "push" THEN 1 ELSE 0)
    BY <2>1, <2>3, PushesOne
  <2>5. st = "LoggedIn" /\ UNCHANGED <<st, early>>
    BY <1>13 DEF FeedUnasked
  <2>. HIDE DEF type, Typed
  <2>6. early = <<>> /\ early' = <<>> /\ Pushes(early) = 0 /\ Pushes(early)' = 0
    BY <2>5, PushesNone DEF ReplayedOnce, Pushes
  <2>7. pushOut' \in Nat /\ pushIn' = pushOut' + 0
    BY <2>3, <2>4, <2>5, <2>6, SMT DEF ReaderType, PushesKept
  <2>8. ReaderType' /\ OnePartialPerTrans'
    BY <2>2, <2>3, <2>5, <2>7 DEF ReaderType, OnePartialPerTrans, Typed
  <2>. QED  BY <2>6, <2>7, <2>8 DEF ReplayedOnce, PushesKept
<1>. QED
  BY <1>2, <1>3, <1>4, <1>5, <1>6, <1>7, <1>8, <1>9, <1>10, <1>11, <1>12, <1>13
     DEF Next, Feed, Caller

----------------------------------------------------------------------------
(* What every session keeps, whatever the server sends and the caller calls. *)

LEMMA StutterStep ==
  ASSUME IInv, UNCHANGED vars
  PROVE  IInv'
<1>. USE DEF vars, timeVars, settleVars, hopeVars, wireVars, pushVars
<1>1. StateType' /\ ClockType' /\ SettleType' /\ ReaderType'
  BY DEF IInv, TypeOK, StateType, ClockType, SettleType, ReaderType
<1>2. IsSender(sender)' /\ PendingBounded' /\ CountsUp(sender)'
  BY DEF IInv, TypeOK, IsSender, IsTable, Sender, PendingBounded, CountsUp
<1>3. OnePartialPerTrans' /\ Unsettled' /\ ReplayedOnce' /\ WaitEndsOnce' /\ PushesKept'
  BY DEF IInv, OnePartialPerTrans, Unsettled, ReplayedOnce, WaitEndsOnce, PushesKept, Pushes
<1>. QED  BY <1>1, <1>2, <1>3 DEF IInv, TypeOK

\* The parts of IInv lean on one another: the wait for an agreement on the state
\* before the login, the early queue on being empty after it, the table's bound
\* on its type.
THEOREM InvariantHolds == Spec => []IInv
<1>1. Init => IInv
  BY InitHolds
<1>2. ASSUME IInv, [Next]_vars PROVE IInv'
  <2>1. CASE UNCHANGED vars
    BY <1>2, <2>1, StutterStep
  <2>2. CASE Next
    <3>1. StateType /\ IsGood(sender) /\ cfg \in Configs
      BY <1>2 DEF IInv, TypeOK, PendingBounded, IsGood, Fits, StateType
    <3>2. IsGood(sender)'
      BY <2>2, <3>1, SenderStep
    <3>3. IsSender(sender)' /\ PendingBounded' /\ CountsUp(sender)'
      BY <3>2 DEF IsGood, Fits, PendingBounded
    <3>4. StateType'
      BY <2>2, <3>1, StateStep
    <3>5. ClockType'
      BY <1>2, <2>2, ClockStep DEF IInv, TypeOK
    <3>6. SettleType' /\ Unsettled' /\ WaitEndsOnce'
      BY <1>2, <2>2, SettleStep DEF IInv, TypeOK
    <3>7. ReaderType' /\ OnePartialPerTrans' /\ ReplayedOnce' /\ PushesKept'
      BY <1>2, <2>2, ReaderStep DEF IInv, TypeOK
    <3>. QED  BY <3>3, <3>4, <3>5, <3>6, <3>7 DEF IInv, TypeOK
  <2>. QED  BY <1>2, <2>1, <2>2
<1>. QED  BY <1>1, <1>2, PTL DEF Spec

\* Every variable has its type, and the early queue keeps to MAX_EARLY.
THEOREM TypeCorrect == Spec => []TypeOK
<1>1. IInv => TypeOK
  BY DEF IInv
<1>. QED  BY <1>1, InvariantHolds, PTL

\* remember() keeps the table of awaited replies to MAX_PENDING, whatever order
\* the trans are remembered in and however often the counter comes round.
THEOREM PendingStaysBounded == Spec => []PendingBounded
<1>1. IInv => PendingBounded
  BY DEF IInv
<1>. QED  BY <1>1, InvariantHolds, PTL

\* next_transaction() never joins two split transactions on one trans, and
\* never more than MAX_PARTIALS.
THEOREM PartialsStayTidy == Spec => []OnePartialPerTrans
<1>1. IInv => OnePartialPerTrans
  BY DEF IInv
<1>. QED  BY <1>1, InvariantHolds, PTL

\* The wait for an agreement ends for good: once one is showing or answered, or
\* the session is ready, tick() has no agreement to give up on.
THEOREM WaitEndsForGood == Spec => []WaitEndsOnce
<1>1. IInv => WaitEndsOnce
  BY DEF IInv
<1>. QED  BY <1>1, InvariantHolds, PTL

\* Everything the server sends unasked is handed over, or waits for the login
\* reply in a session that still lives.
THEOREM PushesAreKept == Spec => []PushesKept
<1>1. IInv => PushesKept
  BY DEF IInv
<1>. QED  BY <1>1, InvariantHolds, PTL

----------------------------------------------------------------------------
(* What is queued. Q is where everything queued so far comes from.         *)

LEMMA SendQueues ==
  ASSUME NEW Q, NEW s, s.out \in Seq(Q), NEW cond, NEW what \in Q, NEW pend
  PROVE  SendIf(cond, s, what, pend).out \in Seq(Q)
<1>1. Append(s.out, what) \in Seq(Q)
  OBVIOUS
<1>2. Send(s, what, pend).out = Append(s.out, what)
  BY DEF Send, Sender
<1>. QED  BY <1>1, <1>2 DEF SendIf

LEMMA AgreeQueues ==
  ASSUME NEW Q, NEW s, s.out \in Seq(Q), NEW cond, "agree" \in Q, "user_list" \in Q
  PROVE  AgreeIf(cond, s).out \in Seq(Q)
<1>1. SendIf(cond, s, "agree", "Quiet").out \in Seq(Q)
  BY SendQueues
<1>. QED  BY <1>1, SendQueues DEF AgreeIf

LEMMA SameQueue ==
  ASSUME NEW s
  PROVE  /\ Emptied(s).out = s.out /\ TakeTrans(s).out = s.out
         /\ \A ts, how : Settled(s, ts, how).out = s.out
         /\ \A t, what : Expected(s, t, what).out = s.out
BY DEF Emptied, TakeTrans, Settled, Expected, Sender

LEMMA NewQueue ==
  ASSUME NEW s, IsSender(s), NEW o
  PROVE  [s EXCEPT !.out = o].out = o
BY DEF IsSender, Sender

\* What goes after HOPE's handshake, or without HOPE after the login.
Later == Sent \ Handshake

LEMMA LaterHas ==
  {"user_change", "agree", "user_list", "ping", "request", "raw"} \subseteq Later
BY DEF Later, Sent, Handshake

\* Every call but two queues only what goes after the handshake.
LEMMA QueueStep ==
  ASSUME NEW Q, Later \subseteq Q, IsGood(sender), sender.out \in Seq(Q),
         Next, ~FeedMagic, ~FeedHopeReply
  PROVE  sender'.out \in Seq(Q)
<1>1. IsSender(sender) /\ IsSender(Emptied(sender)) /\ <<>> \in Seq(Q)
  BY EmptiedKeeps DEF IsGood
<1>2. CASE FeedUndecodable \/ FeedTooLarge \/ Disconnected \/ FeedFragment \/ FeedReply \/ FeedEarly
  <2>1. \/ sender' = sender \/ sender' = Emptied(sender)
        \/ \E ts, how : sender' = Settled(sender, ts, how)
    BY <1>2, Zenon DEF FeedUndecodable, FeedTooLarge, Disconnected, FeedFragment, FeedReply,
       FeedEarly, Close
  <2>. QED  BY <2>1, SameQueue
<1>3. CASE FeedClosed \/ Advance \/ CallTakeTrans
  BY <1>3, SameQueue DEF FeedClosed, Advance, CallTakeTrans
<1>4. CASE FeedLoginReply
  <2>1. CASE sender' = Emptied(sender)
    BY <2>1, SameQueue
  <2>2. ASSUME NEW v, NEW r, NEW whole, LogIn(v, r, whole) PROVE sender'.out \in Seq(Q)
    <3>. DEFINE named == SendIf(v = 0 /\ nickFits, sender, "user_change", "Quiet")
                u == TakeUnasked(Replayed, v, named, AgreementDeadline(v, NowAt(r)))
    <3>1. named.out \in Seq(Q)
      BY LaterHas, SendQueues
    <3>2. u.sender.out \in Seq(Q)
      <4>. HIDE DEF named
      <4>. QED  BY <3>1, LaterHas, AgreeQueues DEF TakeUnasked
    <3>3. \E c : sender' = SendIf(c, u.sender, "user_list", "UserList")
      BY <2>2, Zenon DEF LogIn
    <3>. HIDE DEF u
    <3>. QED  BY <3>2, <3>3, LaterHas, SendQueues
  <2>. QED  BY <1>4, <2>1, <2>2 DEF FeedLoginReply, Close
<1>5. CASE FeedUnasked
  BY <1>5, LaterHas, AgreeQueues DEF FeedUnasked, TakeUnasked
<1>6. ASSUME NEW r \in Readings, Tick(r) PROVE sender'.out \in Seq(Q)
  <2>1. CASE TickHandshake(r) \/ TickClosed(r)
    BY <2>1, SameQueue DEF TickHandshake, TickClosed, Close
  <2>2. CASE TickLoggedIn(r)
    <3>1. PICK due, ping :
            sender' = SendIf(ping, SendIf(due, sender, "user_list", "UserList"), "ping", "Keepalive")
      BY <2>2, Zenon DEF TickLoggedIn
    <3>2. SendIf(due, sender, "user_list", "UserList").out \in Seq(Q)
      BY LaterHas, SendQueues
    <3>. QED  BY <3>1, <3>2, LaterHas, SendQueues
  <2>. QED  BY <1>6, <2>1, <2>2 DEF Tick
<1>7. CASE TakeOutgoing
  <2>1. sender' \in {[sender EXCEPT !.out = <<>>], [Emptied(sender) EXCEPT !.out = <<>>]}
    BY <1>7, Zenon DEF TakeOutgoing
  <2>. QED  BY <1>1, <2>1, NewQueue
<1>8. CASE Agree
  BY <1>8, LaterHas, AgreeQueues DEF Agree
<1>9. CASE SendRaw
  <2>1. Append(sender.out, "raw") \in Seq(Q)
    BY LaterHas
  <2>. QED  BY <1>1, <1>9, <2>1, NewQueue DEF SendRaw
<1>10. ASSUME NEW fits \in Nicks, SetIdentity(fits) PROVE sender'.out \in Seq(Q)
  BY <1>10 DEF SetIdentity
<1>11. ASSUME NEW pend \in RequestKinds, Request(pend) PROVE sender'.out \in Seq(Q)
  <2>1. sender' = SendIf(TRUE, sender, "request", pend)
    BY <1>11 DEF Request, SendIf
  <2>. QED  BY <2>1, LaterHas, SendQueues
<1>12. ASSUME NEW t \in Trans, NEW what, Expect(t, what) PROVE sender'.out \in Seq(Q)
  <2>1. sender' = Expected(sender, t, what)
    BY <1>12 DEF Expect
  <2>. QED  BY <2>1, SameQueue
<1>. QED
  BY <1>2, <1>3, <1>4, <1>5, <1>6, <1>7, <1>8, <1>9, <1>10, <1>11, <1>12 DEF Next, Feed, Caller

\* Outside the magic, HOPE's reply and the login, no call queues anything.
LEMMA QuietStep ==
  ASSUME IsGood(sender), st \in {"Magic", "HopeStep1", "Closed"},
         Next, ~FeedMagic, ~FeedHopeReply
  PROVE  sender'.out \in {sender.out, <<>>} /\ st' \in {st, "Closed"}
<1>1. IsSender(sender) /\ IsSender(Emptied(sender))
  BY EmptiedKeeps DEF IsGood
<1>2. CASE FeedUndecodable \/ FeedTooLarge \/ Disconnected \/ FeedFragment \/ FeedEarly
  <2>1. \/ sender' = sender \/ sender' = Emptied(sender)
        \/ \E ts, how : sender' = Settled(sender, ts, how)
    BY <1>2, Zenon DEF FeedUndecodable, FeedTooLarge, Disconnected, FeedFragment, FeedEarly, Close
  <2>2. st' \in {st, "Closed"}
    BY <1>2, Zenon DEF FeedUndecodable, FeedTooLarge, Disconnected, FeedFragment, FeedEarly, Close
  <2>. QED  BY <2>1, <2>2, SameQueue
<1>3. CASE FeedClosed \/ Advance \/ CallTakeTrans
  BY <1>3, SameQueue DEF FeedClosed, Advance, CallTakeTrans
<1>4. ASSUME NEW r \in Readings, Tick(r) PROVE sender'.out = sender.out /\ st' \in {st, "Closed"}
  <2>1. ~TickLoggedIn(r)
    BY Zenon DEF TickLoggedIn
  <2>2. \/ sender' = sender /\ st' = st
        \/ sender' = Emptied(sender) /\ st' = "Closed"
    BY <1>4, <2>1, Zenon DEF Tick, TickHandshake, TickClosed, Close
  <2>. QED  BY <2>2, SameQueue, Zenon
<1>5. CASE TakeOutgoing
  <2>1. /\ sender' \in {[sender EXCEPT !.out = <<>>], [Emptied(sender) EXCEPT !.out = <<>>]}
        /\ st' \in {st, "Closed"}
    BY <1>5, Zenon DEF TakeOutgoing
  <2>. QED  BY <1>1, <2>1, NewQueue
<1>6. ASSUME NEW fits \in Nicks, SetIdentity(fits) PROVE sender' = sender /\ st' = st
  BY <1>6 DEF SetIdentity
<1>7. ASSUME NEW t \in Trans, NEW what, Expect(t, what)
      PROVE  sender'.out = sender.out /\ st' = st
  BY <1>7, SameQueue DEF Expect
<1>8. ~FeedLoginReply /\ ~FeedReply /\ ~FeedUnasked /\ ~Agree /\ ~SendRaw
      /\ \A pend : ~Request(pend)
  BY DEF FeedLoginReply, FeedReply, FeedUnasked, Agree, SendRaw, Request, EnsureReady
<1>. QED
  BY <1>2, <1>3, <1>4, <1>5, <1>6, <1>7, <1>8 DEF Next, Feed, Caller

----------------------------------------------------------------------------
(* Closed.                                                                 *)

\* close() is for good: afterwards no call opens the session, queues anything or
\* has anything to say but that it is closed, where ciphertext is unreadable.
THEOREM ClosedForGood == Spec => ClosedIsFinal
<1>. DEFINE Final == st = "Closed" =>
              /\ st' = "Closed" /\ ~Sends
              /\ \A i \in DOMAIN events' : transport /\ events'[i].e \in Closings
<1>1. ASSUME IInv, [Next]_vars PROVE [Final]_vars
  <2>. SUFFICES ASSUME Next, st = "Closed"
                PROVE  /\ st' = "Closed" /\ ~Sends
                       /\ \A i \in DOMAIN events' : transport /\ events'[i].e \in Closings
    BY <1>1
  <2>1. IsGood(sender)
    BY <1>1 DEF IInv, TypeOK, PendingBounded, IsGood, Fits
  <2>2. ~FeedMagic /\ ~FeedHopeReply
    BY DEF FeedMagic, FeedHopeReply
  <2>3. st' = "Closed" /\ sender'.out \in {sender.out, <<>>}
    BY <2>1, <2>2, QuietStep
  <2>4. ~Sends
    <3>1. sender.out \in Seq(Sent)
      BY <2>1 DEF IsGood, IsSender
    <3>2. Len(sender.out) \in Nat /\ Len(<<>>) = 0
      BY <3>1
    <3>. QED  BY <2>3, <3>2 DEF Sends
  <2>5. \/ events' = <<>>
        \/ transport /\ \E why \in Closings : events' = <<Event(why, 0)>>
    <3>1. CASE FeedUndecodable
      <4>1. Append(<<>>, Event("Protocol", 0)) = <<Event("Protocol", 0)>>
        OBVIOUS
      <4>. QED  BY <3>1, <4>1 DEF FeedUndecodable, Close, Closings
    <3>2. CASE TakeOutgoing
      BY <3>2 DEF TakeOutgoing, Closings
    <3>3. ASSUME NEW r \in Readings, Tick(r) PROVE events' = <<>>
      BY <3>3 DEF Tick, TickHandshake, TickLoggedIn, TickClosed
    <3>4. CASE FeedClosed \/ Advance \/ CallTakeTrans
      BY <3>4 DEF FeedClosed, Advance, CallTakeTrans
    <3>5. ASSUME NEW fits \in Nicks, SetIdentity(fits) PROVE events' = <<>>
      BY <3>5 DEF SetIdentity
    <3>6. ASSUME NEW t \in Trans, NEW what, Expect(t, what) PROVE events' = <<>>
      BY <3>6 DEF Expect
    <3>7. /\ ~FeedTooLarge /\ ~FeedFragment /\ ~FeedEarly /\ ~FeedLoginReply /\ ~FeedReply
          /\ ~FeedUnasked /\ ~Disconnected /\ ~Agree /\ ~SendRaw /\ \A pend : ~Request(pend)
      BY DEF FeedTooLarge, FeedFragment, FeedEarly, FeedLoginReply, FeedReply, FeedUnasked,
         Listening, Disconnected, Agree, SendRaw, Request, EnsureReady
    <3>. QED  BY <2>2, <3>1, <3>2, <3>3, <3>4, <3>5, <3>6, <3>7 DEF Next, Feed, Caller
  <2>6. \A i \in DOMAIN events' : transport /\ events'[i].e \in Closings
    BY <2>5 DEF Event
  <2>. QED  BY <2>3, <2>4, <2>6
<1>. QED  BY <1>1, InvariantHolds, PTL DEF Spec, ClosedIsFinal

----------------------------------------------------------------------------
(* HOPE's handshake and what goes in clear.                                *)

\* Only the magic and HOPE's reply change what the session offers and how it
\* encodes; only take_outgoing() writes.
LEMMA TransportStays ==
  ASSUME Next, ~FeedMagic, ~FeedHopeReply
  PROVE  /\ UNCHANGED <<cfg, offer, transport>>
         /\ beforeTransport' = beforeTransport \/ beforeTransport' = <<>>
         /\ st' \in {st, "LoggedIn", "Closed"}
         /\ ~TakeOutgoing => UNCHANGED wireVars
<1>. USE DEF hopeVars, wireVars
<1>1. CASE FeedUndecodable \/ FeedTooLarge \/ Disconnected \/ FeedFragment \/ FeedReply \/ FeedEarly
  BY <1>1, Zenon DEF FeedUndecodable, FeedTooLarge, Disconnected, FeedFragment, FeedReply, FeedEarly,
     Close
<1>2. CASE FeedClosed \/ Advance \/ CallTakeTrans \/ FeedUnasked \/ Agree \/ SendRaw
  BY <1>2, Zenon DEF FeedClosed, Advance, CallTakeTrans, FeedUnasked, Agree, SendRaw
<1>3. CASE FeedLoginReply
  <2>1. ASSUME NEW why, NEW before, Close(why, before) PROVE st' = "Closed"
    BY <2>1, Zenon DEF Close
  <2>2. ASSUME NEW v, NEW r, NEW whole, LogIn(v, r, whole) PROVE st' = "LoggedIn"
    BY <2>2, Zenon DEF LogIn
  <2>3. st' = "LoggedIn" \/ st' = "Closed"
    BY <1>3, <2>1, <2>2, Zenon DEF FeedLoginReply
  <2>. QED  BY <1>3, <2>3, Zenon DEF FeedLoginReply
<1>4. ASSUME NEW r \in Readings, Tick(r)
      PROVE  UNCHANGED <<cfg, hopeVars, wireVars>> /\ st' \in {st, "Closed"}
  BY <1>4, Zenon DEF Tick, TickHandshake, TickLoggedIn, TickClosed, Close
<1>5. CASE TakeOutgoing
  BY <1>5, Zenon DEF TakeOutgoing
<1>6. ASSUME NEW fits \in Nicks, SetIdentity(fits) PROVE UNCHANGED <<cfg, hopeVars, wireVars, st>>
  BY <1>6 DEF SetIdentity
<1>7. ASSUME NEW pend \in RequestKinds, Request(pend) PROVE UNCHANGED <<cfg, hopeVars, wireVars, st>>
  BY <1>7 DEF Request
<1>8. ASSUME NEW t \in Trans, NEW what, Expect(t, what) PROVE UNCHANGED <<cfg, hopeVars, wireVars, st>>
  BY <1>8 DEF Expect
<1>. QED
  BY <1>1, <1>2, <1>3, <1>4, <1>5, <1>6, <1>7, <1>8 DEF Next, Feed, Caller

LEMMA HandshakeQueued ==
  /\ {"magic", "step1", "step2"} \subseteq Handshake
  /\ <<"magic">> \in Seq(Handshake) /\ <<>> \in Seq(Handshake) /\ <<>> \in Seq(Later)
BY DEF Handshake

\* The initial state divides what is queued as the rest do.
LEMMA InitDivides == Init => HopeDivides /\ OnlyHandshakeInClear
<1>. SUFFICES ASSUME Init PROVE HopeDivides /\ OnlyHandshakeInClear
  OBVIOUS
<1>1. st = "Magic" /\ ~transport /\ offer = cfg.hope /\ beforeTransport = <<>>
      /\ clear = {} /\ sealed = {}
  BY Zenon DEF Init
<1>2. sender.out = <<"magic">>
  BY SameQueue DEF Init, Sender
<1>3. HopeDivides
  BY <1>1, <1>2, HandshakeQueued, Zenon DEF HopeDivides
<1>4. OnlyHandshakeInClear
  BY <1>1 DEF OnlyHandshakeInClear
<1>. QED  BY <1>3, <1>4

\* With HOPE, once the transport has begun.
LEMMA SealedStep ==
  ASSUME IInv, HopeDivides, cfg.hope, transport, Next
  PROVE  HopeDivides'
<1>1. IsGood(sender)
  BY DEF IInv, TypeOK, PendingBounded, IsGood, Fits
<1>2. ~FeedMagic /\ ~FeedHopeReply
  BY Zenon DEF HopeDivides, FeedMagic, FeedHopeReply
<1>3. /\ cfg' = cfg /\ transport' = transport
      /\ beforeTransport' = beforeTransport \/ beforeTransport' = <<>>
      /\ st' \in {st, "LoggedIn", "Closed"}
  BY <1>2, TransportStays, Zenon
<1>4. sender'.out \in Seq(Later)
  BY <1>1, <1>2, QueueStep, Zenon DEF HopeDivides, Later
<1>5. beforeTransport' \in Seq(Handshake) /\ st' \notin {"Magic", "HopeStep1"}
  BY <1>3, HandshakeQueued, Zenon DEF HopeDivides
<1>. QED  BY <1>3, <1>4, <1>5, Zenon DEF HopeDivides, Later

\* With HOPE, before the transport begins, and the step that begins it.
LEMMA HandshakeStep ==
  ASSUME IInv, HopeDivides, cfg.hope, ~transport, Next
  PROVE  HopeDivides'
<1>1. IsGood(sender) /\ IsSender(sender)
  BY DEF IInv, TypeOK, PendingBounded, IsGood, Fits
<1>2. /\ beforeTransport \in Seq(Handshake) /\ sender.out \in Seq(Handshake)
      /\ st \in {"Magic", "HopeStep1", "Closed"} /\ (st = "Magic" => offer)
  BY Zenon DEF HopeDivides
<1>3. CASE FeedMagic
  <2>1. UNCHANGED <<cfg, transport, beforeTransport>> /\ st' \in {"HopeStep1", "Closed"}
    BY <1>2, <1>3, Zenon DEF FeedMagic, hopeVars, Close
  <2>2. \/ sender' = Emptied(sender)
        \/ sender' = [sender EXCEPT !.out = Append(sender.out, "step1")]
    BY <1>2, <1>3 DEF FeedMagic, Close
  <2>3. Append(sender.out, "step1") \in Seq(Handshake)
    BY <1>2, HandshakeQueued
  <2>4. sender'.out = sender.out \/ sender'.out = Append(sender.out, "step1")
    <3>1. [sender EXCEPT !.out = Append(sender.out, "step1")].out = Append(sender.out, "step1")
      BY <1>1, NewQueue
    <3>. QED  BY <2>2, <3>1, SameQueue, Zenon
  <2>5. sender'.out \in Seq(Handshake)
    BY <1>2, <2>3, <2>4, Zenon
  <2>. QED  BY <1>2, <2>1, <2>5, Zenon DEF HopeDivides
<1>4. CASE FeedHopeReply
  <2>1. cfg' = cfg
    BY <1>4 DEF FeedHopeReply
  <2>2. \/ sender' = Emptied(sender) /\ st' = "Closed" /\ UNCHANGED <<transport, beforeTransport>>
        \/ BeginTransport /\ st' = "Login"
    BY <1>4, Zenon DEF FeedHopeReply, Close, hopeVars
  <2>3. CASE sender' = Emptied(sender) /\ st' = "Closed" /\ UNCHANGED <<transport, beforeTransport>>
    <3>1. sender'.out = sender.out
      BY <2>3, SameQueue
    <3>. QED  BY <1>2, <2>1, <2>3, <3>1, Zenon DEF HopeDivides
  <2>4. CASE BeginTransport /\ st' = "Login"
    <3>1. sender'.out = <<>> /\ transport'
      BY <1>1, <2>4, NewQueue DEF BeginTransport
    <3>2. beforeTransport \o sender.out \in Seq(Handshake)
      BY <1>2, ConcatProperties
    <3>3. beforeTransport' \in Seq(Handshake)
      BY <2>4, <3>2, HandshakeQueued, AppendProperties DEF BeginTransport
    <3>4. st' \notin {"Magic", "HopeStep1"}
      BY <2>4
    <3>. QED  BY <2>1, <3>1, <3>3, <3>4, HandshakeQueued, Zenon DEF HopeDivides, Later
  <2>. QED  BY <2>2, <2>3, <2>4
<1>5. CASE ~FeedMagic /\ ~FeedHopeReply
  <2>1. /\ UNCHANGED <<cfg, offer, transport>>
        /\ beforeTransport' = beforeTransport \/ beforeTransport' = <<>>
    BY <1>5, TransportStays, Zenon
  <2>2. sender'.out \in {sender.out, <<>>} /\ st' \in {st, "Closed"}
    BY <1>1, <1>2, <1>5, QuietStep
  <2>3. sender'.out \in Seq(Handshake) /\ beforeTransport' \in Seq(Handshake)
    BY <1>2, <2>1, <2>2, HandshakeQueued
  <2>4. st' \in {"Magic", "HopeStep1", "Closed"} /\ (st' = "Magic" => offer')
    BY <1>2, <2>1, <2>2
  <2>. QED  BY <2>1, <2>3, <2>4, Zenon DEF HopeDivides
<1>. QED  BY <1>3, <1>4, <1>5

\* Without HOPE no transport ever begins.
LEMMA PlainStep ==
  ASSUME HopeDivides, ~cfg.hope, Next
  PROVE  HopeDivides'
<1>1. ~transport /\ ~offer /\ st # "HopeStep1"
  BY DEF HopeDivides
<1>2. CASE FeedMagic
  <2>1. UNCHANGED <<cfg, transport, offer>> /\ st' # "HopeStep1"
    BY <1>1, <1>2, Zenon DEF FeedMagic, hopeVars, Close
  <2>. QED  BY <1>1, <2>1, Zenon DEF HopeDivides
<1>3. ~FeedHopeReply
  BY <1>1 DEF FeedHopeReply
<1>4. CASE ~FeedMagic
  <2>1. UNCHANGED <<cfg, offer, transport>> /\ st' # "HopeStep1"
    BY <1>1, <1>3, <1>4, TransportStays, Zenon
  <2>. QED  BY <1>1, <2>1, Zenon DEF HopeDivides
<1>. QED  BY <1>2, <1>4

LEMMA DividesStep ==
  ASSUME IInv, HopeDivides, [Next]_vars
  PROVE  HopeDivides'
<1>1. CASE UNCHANGED vars
  BY <1>1, Zenon DEF vars, hopeVars, HopeDivides
<1>2. CASE Next
  BY <1>2, SealedStep, HandshakeStep, PlainStep, Zenon
<1>. QED  BY <1>1, <1>2

\* take_outgoing() writes each half of the queue as it should.
LEMMA WireStep ==
  ASSUME HopeDivides, OnlyHandshakeInClear, [Next]_vars
  PROVE  OnlyHandshakeInClear'
<1>1. ASSUME UNCHANGED <<cfg, wireVars>> PROVE OnlyHandshakeInClear'
  BY <1>1 DEF OnlyHandshakeInClear, wireVars
<1>2. CASE UNCHANGED vars \/ FeedMagic \/ FeedHopeReply
  BY <1>1, <1>2 DEF vars, wireVars, FeedMagic, FeedHopeReply
<1>3. CASE TakeOutgoing /\ cfg.hope
  <2>1. ASSUME NEW S, NEW q \in Seq(S) PROVE ToSet(q) \subseteq S
    BY <2>1 DEF ToSet
  <2>2. beforeTransport \in Seq(Handshake) /\ ToSet(beforeTransport) \subseteq Handshake
    BY <1>3, <2>1, Zenon DEF HopeDivides
  <2>3. CASE transport
    <3>1. ToSet(sender.out) \subseteq Sent \ Handshake
      BY <1>3, <2>1, <2>3, Zenon DEF HopeDivides
    <3>2. clear' = clear \cup ToSet(beforeTransport)
      BY <1>3, <2>3, Zenon DEF TakeOutgoing
    <3>3. sealed' = sealed \/ sealed' = sealed \cup ToSet(sender.out)
      BY <1>3, <2>3, Zenon DEF TakeOutgoing
    <3>4. cfg' = cfg
      BY <1>3 DEF TakeOutgoing
    <3>5. clear \subseteq Handshake /\ sealed \cap Handshake = {}
      BY <1>3 DEF OnlyHandshakeInClear
    <3>6. clear' \subseteq Handshake /\ sealed' \cap Handshake = {}
      BY <2>2, <3>1, <3>2, <3>3, <3>5
    <3>. QED  BY <1>3, <3>4, <3>6 DEF OnlyHandshakeInClear
  <2>4. CASE ~transport
    <3>1. beforeTransport \o sender.out \in Seq(Handshake)
      <4>1. sender.out \in Seq(Handshake)
        BY <1>3, <2>4, Zenon DEF HopeDivides
      <4>. QED  BY <2>2, <4>1, ConcatProperties
    <3>2. ToSet(beforeTransport \o sender.out) \subseteq Handshake
      BY <2>1, <3>1, Zenon
    <3>3. clear' = clear \cup ToSet(beforeTransport \o sender.out) /\ sealed' = sealed /\ cfg' = cfg
      BY <1>3, <2>4, Zenon DEF TakeOutgoing
    <3>. QED  BY <1>3, <3>2, <3>3 DEF OnlyHandshakeInClear
  <2>. QED  BY <2>3, <2>4
<1>4. CASE TakeOutgoing /\ ~cfg.hope
  <2>1. ~transport
    BY <1>4 DEF HopeDivides
  <2>2. sealed' = sealed /\ cfg' = cfg
    BY <1>4, <2>1, Zenon DEF TakeOutgoing
  <2>. QED  BY <1>4, <2>2 DEF OnlyHandshakeInClear
<1>5. CASE Next /\ ~FeedMagic /\ ~FeedHopeReply /\ ~TakeOutgoing
  BY <1>1, <1>5, TransportStays
<1>. QED  BY <1>2, <1>3, <1>4, <1>5

\* With HOPE, the handshake and nothing else is written in clear, whatever is
\* queued and whenever the caller takes it; without, nothing is ciphertext.
THEOREM HandshakeAloneInClear == Spec => []OnlyHandshakeInClear
<1>1. Init => HopeDivides /\ OnlyHandshakeInClear
  BY InitDivides
<1>2. IInv /\ HopeDivides /\ OnlyHandshakeInClear /\ [Next]_vars
        => HopeDivides' /\ OnlyHandshakeInClear'
  BY DividesStep, WireStep
<1>. QED  BY <1>1, <1>2, InvariantHolds, PTL DEF Spec

----------------------------------------------------------------------------
(* What is handed over of what came unasked.                               *)

\* Events that are none of what came unasked hand nothing over.
LEMMA HandsNothing ==
  ASSUME NEW es, \A i \in DOMAIN es : ~IsHandover(es[i])
  PROVE  HandsOver(es, {})
BY DEF HandsOver, Rises, Handed

LEMMA NoneHands ==
  /\ HandsOver(<<>>, {})
  /\ \A e, id : e \notin {"Push", "Unhandled"} \/ id = 0 => HandsOver(<<Event(e, id)>>, {})
<1>1. HandsOver(<<>>, {})
  BY HandsNothing, DOMAIN <<>> = {}
<1>2. ASSUME NEW e, NEW id, e \notin {"Push", "Unhandled"} \/ id = 0
      PROVE  HandsOver(<<Event(e, id)>>, {})
  <2>1. ~IsHandover(Event(e, id))
    BY <1>2 DEF IsHandover, Event
  <2>2. \A i \in DOMAIN <<Event(e, id)>> : <<Event(e, id)>>[i] = Event(e, id)
    OBVIOUS
  <2>. QED  BY <2>1, <2>2, HandsNothing
<1>. QED  BY <1>1, <1>2

\* One event of what came unasked hands it over.
LEMMA OneHands ==
  ASSUME NEW e \in {"Push", "Unhandled"}, NEW id, id # 0
  PROVE  HandsOver(<<Event(e, id)>>, {id})
<1>. DEFINE es == <<Event(e, id)>>
<1>1. DOMAIN es = {1} /\ es[1] = Event(e, id)
  OBVIOUS
<1>2. IsHandover(Event(e, id)) /\ Event(e, id).id = id
  BY DEF IsHandover, Event
<1>. HIDE DEF es
<1>3. Handed(es) = {1}
  BY <1>1, <1>2 DEF Handed
<1>4. HandsOver(es, {id})
  BY <1>1, <1>2, <1>3 DEF HandsOver, Rises
<1>. QED  BY <1>4 DEF es

\* What hands these over and then those, all of them later.
LEMMA HandsBoth ==
  ASSUME NEW S, NEW es \in Seq(S), NEW fs \in Seq(S),
         NEW A, NEW B, HandsOver(es, A), HandsOver(fs, B),
         \A a \in A, b \in B : a < b
  PROVE  HandsOver(es \o fs, A \cup B)
<1>. DEFINE n == Len(es)
            m == Len(fs)
            both == es \o fs
<1>1. n \in Nat /\ m \in Nat /\ DOMAIN es = 1 .. n /\ DOMAIN fs = 1 .. m
  BY LenProperties
<1>2. /\ both \in Seq(S) /\ Len(both) = n + m
      /\ \A i \in 1 .. n + m : both[i] = IF i <= n THEN es[i] ELSE fs[i - n]
  BY ConcatProperties
<1>3. DOMAIN both = 1 .. n + m
  BY <1>2, LenProperties
<1>. HIDE DEF n, m, both
<1>4. ASSUME NEW i \in Handed(both)
      PROVE  \/ i \in Handed(es) /\ i \in 1 .. n /\ both[i] = es[i]
             \/ i - n \in Handed(fs) /\ i > n /\ i \in Int /\ both[i] = fs[i - n]
  <2>1. i \in 1 .. n + m /\ IsHandover(both[i])
    BY <1>3 DEF Handed
  <2>2. CASE i <= n
    <3>1. i \in 1 .. n
      BY <1>1, <2>1, <2>2, SMT
    <3>. QED  BY <1>1, <1>2, <2>1, <2>2, <3>1 DEF Handed
  <2>3. CASE ~(i <= n)
    <3>1. i - n \in 1 .. m /\ i > n /\ i \in Int
      BY <1>1, <2>1, <2>3, SMT
    <3>. QED  BY <1>1, <1>2, <2>1, <2>3, <3>1 DEF Handed
  <2>. QED  BY <2>2, <2>3
<1>5. ASSUME NEW i \in Handed(es) PROVE i \in Handed(both) /\ both[i] = es[i]
  <2>1. i \in 1 .. n /\ IsHandover(es[i])
    BY <1>1 DEF Handed
  <2>2. i \in 1 .. n + m /\ i <= n
    BY <1>1, <2>1, SMT
  <2>. QED  BY <1>2, <1>3, <2>1, <2>2 DEF Handed
<1>6. ASSUME NEW i \in Handed(fs) PROVE n + i \in Handed(both) /\ both[n + i] = fs[i]
  <2>1. i \in 1 .. m /\ IsHandover(fs[i])
    BY <1>1 DEF Handed
  <2>2. PICK j : j = n + i
    OBVIOUS
  <2>3. j \in 1 .. n + m /\ ~(j <= n) /\ j - n = i
    BY <1>1, <2>1, <2>2, SMT
  <2>4. both[j] = fs[i]
    BY <1>2, <2>3
  <2>5. j \in Handed(both)
    BY <1>3, <2>1, <2>3, <2>4 DEF Handed
  <2>. QED  BY <2>2, <2>4, <2>5, Zenon
<1>7. /\ A = {es[i].id : i \in Handed(es)} /\ B = {fs[i].id : i \in Handed(fs)}
      /\ \A i, j \in Handed(es) : i < j => es[i].id < es[j].id
      /\ \A i, j \in Handed(fs) : i < j => fs[i].id < fs[j].id
  BY DEF HandsOver, Rises
<1>8. {both[i].id : i \in Handed(both)} = A \cup B
  <2>1. ASSUME NEW i \in Handed(both) PROVE both[i].id \in A \cup B
    BY <1>4, <1>7
  <2>2. ASSUME NEW a \in A PROVE \E i \in Handed(both) : both[i].id = a
    BY <1>5, <1>7
  <2>3. ASSUME NEW b \in B PROVE \E i \in Handed(both) : both[i].id = b
    <3>1. PICK i \in Handed(fs) : b = fs[i].id
      BY <1>7
    <3>. QED  BY <1>6, <3>1
  <2>. QED  BY <2>1, <2>2, <2>3, Zenon
<1>9. ASSUME NEW i \in Handed(both), NEW j \in Handed(both), i < j
      PROVE  both[i].id < both[j].id
  <2>1. CASE i \in Handed(es) /\ both[i] = es[i] /\ j \in Handed(es) /\ both[j] = es[j]
    BY <1>7, <1>9, <2>1
  <2>2. CASE i \in Handed(es) /\ both[i] = es[i] /\ j - n \in Handed(fs) /\ both[j] = fs[j - n]
    BY <1>7, <2>2
  <2>3. CASE /\ i - n \in Handed(fs) /\ i \in Int /\ both[i] = fs[i - n]
             /\ j - n \in Handed(fs) /\ j \in Int /\ both[j] = fs[j - n]
    <3>1. i - n < j - n
      BY <1>1, <1>9, <2>3, SMT
    <3>. QED  BY <1>7, <2>3, <3>1
  <2>4. CASE i > n /\ i \in Int /\ j \in 1 .. n
    BY <1>1, <1>9, <2>4, SMT
  <2>. QED  BY <1>4, <2>1, <2>2, <2>3, <2>4, Zenon
<1>10. HandsOver(both, A \cup B)
  BY <1>8, <1>9 DEF HandsOver, Rises
<1>. QED  BY <1>10 DEF both

\* Each of g's n hands over its own ids, and what is later in g is numbered later.
EachHands(S, g, n, ids) ==
  /\ n \in Nat /\ g \in [1 .. n -> Seq(S)] /\ ids \in [1 .. n -> SUBSET Nat]
  /\ \A k \in 1 .. n : HandsOver(g[k], ids[k])
  /\ \A j, k \in 1 .. n : j < k => \A a \in ids[j], b \in ids[k] : a < b

\* The ids of the first k of them.
Sofar(ids, k) == UNION {ids[j] : j \in 1 .. k}

\* What is joined of several, each of which hands over what is later.
LEMMA FlattenHands ==
  ASSUME NEW S, NEW g, NEW n, NEW ids, EachHands(S, g, n, ids)
  PROVE  /\ FlattenSeq(g) \in Seq(S)
         /\ HandsOver(FlattenSeq(g), Sofar(ids, n))
<1>0. n \in Nat /\ g \in [1 .. n -> Seq(S)] /\ ids \in [1 .. n -> SUBSET Nat]
  BY DEF EachHands
<1>1. PICK h : Joins(h, S, g, n)
  BY <1>0, FlattenSteps
<1>2. /\ h \in [0 .. n -> Seq(S)] /\ h[0] = <<>>
      /\ \A k \in 1 .. n : h[k] = h[k - 1] \o g[k]
      /\ \A k \in 0 .. n : FlattenSeq([i \in 1 .. k |-> g[i]]) = h[k]
  BY <1>1 DEF Joins
<1>. DEFINE T == {k \in 0 .. n : HandsOver(h[k], Sofar(ids, k))}
<1>3. 0 \in T
  <2>1. Sofar(ids, 0) = {}
    BY 1 .. 0 = {} DEF Sofar
  <2>. QED  BY <1>0, <1>2, <2>1, NoneHands, 0 \in 0 .. n
<1>4. ASSUME NEW k \in 1 .. n, k - 1 \in T PROVE k \in T
  <2>1. /\ k - 1 \in 0 .. n /\ k \in 0 .. n
        /\ 1 .. k = (1 .. k - 1) \cup {k}
        /\ \A j \in 1 .. k - 1 : j \in 1 .. n /\ j < k
    BY <1>0, SMT
  <2>2. Sofar(ids, k) = Sofar(ids, k - 1) \cup ids[k]
    BY <2>1, Zenon DEF Sofar
  <2>3. \A a \in Sofar(ids, k - 1), b \in ids[k] : a < b
    BY <2>1, Zenon DEF EachHands, Sofar
  <2>4. h[k - 1] \in Seq(S) /\ g[k] \in Seq(S) /\ h[k] = h[k - 1] \o g[k]
    BY <1>0, <1>2, <2>1
  <2>5. HandsOver(h[k - 1], Sofar(ids, k - 1)) /\ HandsOver(g[k], ids[k])
    BY <1>4 DEF EachHands
  <2>6. HandsOver(h[k - 1] \o g[k], Sofar(ids, k - 1) \cup ids[k])
    BY <2>3, <2>4, <2>5, HandsBoth
  <2>. QED  BY <2>1, <2>2, <2>4, <2>6
<1>5. 0 .. n \subseteq T
  <2>. HIDE DEF T
  <2>. QED  BY <1>0, <1>3, <1>4, UpTo
<1>6. n \in 0 .. n
  BY <1>0, SMT
<1>7. HandsOver(h[n], Sofar(ids, n))
  <2>. QED  BY <1>5, <1>6
<1>8. g = [i \in 1 .. n |-> g[i]]
  BY <1>0
<1>9. FlattenSeq(g) = h[n]
  BY <1>2, <1>6, <1>8
<1>. QED  BY <1>2, <1>6, <1>7, <1>9

\* Where the events are from that these steps queue.
Told ==
  {Event(e, id) : e \in {"Unhandled", "Push", "Agreement", "Ready", "LoggedIn"}, id \in Nat}

\* What is dispatched of one transaction hands it over, if it is one that waits.
LEMMA UnaskedHands ==
  ASSUME NEW q, NEW i \in DOMAIN q, q[i].id \in Nat, i \in Waiting(q) <=> q[i].id # 0, NEW k
  PROVE  /\ UnaskedEvents(q, k, i) \in Seq(Told)
         /\ HandsOver(UnaskedEvents(q, k, i), {q[j].id : j \in Waiting(q) \cap {i}})
<1>. DEFINE x == IF cfg.raw /\ ~Handles(q[i].type) THEN <<Event("Unhandled", q[i].id)>>
                 ELSE IF q[i].type = "push" THEN <<Event("Push", q[i].id)>> ELSE <<>>
            y == IF q[i].type = "text" /\ ~agreed /\ (k = 0 \/ i < k) THEN <<Event("Agreement", 0)>>
                 ELSE <<>>
            z == IF i = k /\ ~ready THEN <<Event("Ready", 0)>> ELSE <<>>
            own == {q[j].id : j \in Waiting(q) \cap {i}}
<1>1. \A e \in {"Unhandled", "Push", "Agreement", "Ready"}, id \in Nat : <<Event(e, id)>> \in Seq(Told)
  <2>1. ASSUME NEW e \in {"Unhandled", "Push", "Agreement", "Ready"}, NEW id \in Nat
        PROVE  Event(e, id) \in Told
    BY DEF Told
  <2>. QED  BY <2>1
<1>2. <<>> \in Seq(Told)
  BY EmptySeq
<1>3. x \in Seq(Told) /\ y \in Seq(Told) /\ z \in Seq(Told)
  <2>1. x \in Seq(Told)
    BY <1>1, <1>2, Zenon
  <2>2. <<Event("Agreement", 0)>> \in Seq(Told) /\ <<Event("Ready", 0)>> \in Seq(Told)
    BY <1>1
  <2>. QED  BY <1>2, <2>1, <2>2, Zenon
<1>4. HandsOver(y, {}) /\ HandsOver(z, {})
  <2>1. HandsOver(<<Event("Agreement", 0)>>, {}) /\ HandsOver(<<Event("Ready", 0)>>, {})
    BY NoneHands
  <2>. QED  BY <2>1, NoneHands, Zenon
<1>5. HandsOver(x, own)
  <2>1. CASE i \in Waiting(q)
    <3>1. own = {q[i].id} /\ q[i].id # 0 /\ q[i].type = "push"
      BY <2>1 DEF Waiting
    <3>2. \E e \in {"Push", "Unhandled"} : x = <<Event(e, q[i].id)>>
      BY <3>1, Zenon
    <3>. HIDE DEF x, own
    <3>. QED  BY <3>1, <3>2, OneHands
  <2>2. CASE i \notin Waiting(q)
    <3>1. own = {} /\ q[i].id = 0 /\ q[i].type # "push"
      BY <2>2 DEF Waiting
    <3>2. x = <<>> \/ x = <<Event("Unhandled", q[i].id)>>
      BY <3>1, Zenon
    <3>. HIDE DEF x, own
    <3>. QED  BY <3>1, <3>2, NoneHands, Zenon
  <2>. QED  BY <2>1, <2>2
<1>6. UnaskedEvents(q, k, i) = (x \o y) \o z
  BY Zenon DEF UnaskedEvents
<1>. SUFFICES UnaskedEvents(q, k, i) \in Seq(Told) /\ HandsOver(UnaskedEvents(q, k, i), own)
  OBVIOUS
<1>. HIDE DEF x, y, z, own
<1>7. x \o y \in Seq(Told) /\ (x \o y) \o z \in Seq(Told)
  BY <1>3, ConcatProperties
<1>8. HandsOver(x \o y, own \cup {})
  BY <1>3, <1>4, <1>5, HandsBoth
<1>9. HandsOver(x \o y, own)
  BY <1>8, own \cup {} = own
<1>10. HandsOver((x \o y) \o z, own \cup {})
  BY <1>3, <1>4, <1>7, <1>9, HandsBoth
<1>. QED  BY <1>6, <1>7, <1>10, own \cup {} = own

\* What is dispatched of several hands over all that wait, in their order.
LEMMA ReplayHands ==
  ASSUME NEW q \in Seq([type : Unasked, id : Nat]), NEW ids, Numbering(q, ids),
         NEW v, NEW s, NEW at
  PROVE  /\ TakeUnasked(q, v, s, at).events \in Seq(Told)
         /\ HandsOver(TakeUnasked(q, v, s, at).events, ids)
<1>. DEFINE n == Len(q)
            k == Answered(q, v)
            g == [i \in 1 .. n |-> UnaskedEvents(q, k, i)]
            Own(i) == {q[j].id : j \in Waiting(q) \cap {i}}
            own == [i \in 1 .. n |-> Own(i)]
<1>1. n \in Nat /\ DOMAIN q = 1 .. n /\ \A i \in 1 .. n : q[i].id \in Nat
  <2>1. n \in Nat /\ DOMAIN q = 1 .. n
    BY LenProperties
  <2>2. ASSUME NEW i \in 1 .. n PROVE q[i].id \in Nat
    <3>1. q[i] \in [type : Unasked, id : Nat]
      BY ElementOfSeq
    <3>. QED  BY <3>1
  <2>. QED  BY <2>1, <2>2
<1>2. /\ \A i \in DOMAIN q : i \in Waiting(q) <=> q[i].id # 0
      /\ {q[i].id : i \in Waiting(q)} = ids
      /\ \A i, j \in Waiting(q) : i < j => q[i].id < q[j].id
  BY DEF Numbering, Rises
<1>3. TakeUnasked(q, v, s, at).events = FlattenSeq(g)
  BY <1>1 DEF TakeUnasked
<1>. HIDE DEF n, k
<1>4. ASSUME NEW i \in 1 .. n
      PROVE  UnaskedEvents(q, k, i) \in Seq(Told) /\ HandsOver(UnaskedEvents(q, k, i), Own(i))
  BY <1>1, <1>2, UnaskedHands
<1>5. g \in [1 .. n -> Seq(Told)] /\ \A i \in 1 .. n : HandsOver(g[i], own[i])
  <2>1. g \in [1 .. n -> Seq(Told)]
    BY <1>4
  <2>2. ASSUME NEW i \in 1 .. n PROVE HandsOver(g[i], own[i])
    <3>1. g[i] = UnaskedEvents(q, k, i) /\ own[i] = Own(i)
      OBVIOUS
    <3>. HIDE DEF g, own, Own
    <3>. QED  BY <1>4, <3>1, Zenon
  <2>. QED  BY <2>1, <2>2
<1>6. own \in [1 .. n -> SUBSET Nat]
  BY <1>1
<1>7. ASSUME NEW i \in 1 .. n, NEW j \in 1 .. n, i < j, NEW a \in own[i], NEW b \in own[j]
      PROVE  a < b
  <2>1. a \in Own(i) /\ b \in Own(j)
    OBVIOUS
  <2>2. i \in Waiting(q) /\ a = q[i].id /\ j \in Waiting(q) /\ b = q[j].id
    BY <2>1
  <2>. QED  BY <1>2, <1>7, <2>2
<1>8. Sofar(own, n) = ids
  <2>1. \A i \in 1 .. n : own[i] = Own(i)
    OBVIOUS
  <2>2. Waiting(q) \subseteq 1 .. n
    BY <1>1 DEF Waiting
  <2>3. UNION {own[i] : i \in 1 .. n} = {q[i].id : i \in Waiting(q)}
    <3>1. ASSUME NEW i \in 1 .. n, NEW a \in own[i] PROVE \E j \in Waiting(q) : a = q[j].id
      BY <2>1
    <3>2. ASSUME NEW i \in Waiting(q) PROVE i \in 1 .. n /\ q[i].id \in own[i]
      BY <2>1, <2>2
    <3>. HIDE DEF own
    <3>. QED  BY <3>1, <3>2
  <2>. QED  BY <1>2, <2>3 DEF Sofar
<1>. HIDE DEF g, own
<1>9. \A i, j \in 1 .. n : i < j => \A a \in own[i], b \in own[j] : a < b
  BY <1>7
<1>10. EachHands(Told, g, n, own)
  BY <1>1, <1>5, <1>6, <1>9, Zenon DEF EachHands
<1>11. FlattenSeq(g) \in Seq(Told) /\ HandsOver(FlattenSeq(g), Sofar(own, n))
  BY <1>10, FlattenHands, Zenon
<1>. QED  BY <1>3, <1>8, <1>11

\* What arrives is numbered next, or is not numbered.
LEMMA NumberingAppend ==
  ASSUME NEW S, NEW q \in Seq(S), NEW lo \in Nat, NEW hi \in Nat, lo <= hi,
         Numbering(q, lo + 1 .. hi), NEW x
  PROVE  /\ x.type = "push" /\ x.id = hi + 1 => Numbering(Append(q, x), lo + 1 .. hi + 1)
         /\ x.type # "push" /\ x.id = 0 => Numbering(Append(q, x), lo + 1 .. hi)
<1>. DEFINE n == Len(q) + 1
            more == Append(q, x)
<1>1. Len(q) \in Nat /\ DOMAIN q = 1 .. Len(q)
  BY LenProperties
<1>2. DOMAIN more = 1 .. n /\ (\A i \in 1 .. Len(q) : more[i] = q[i]) /\ more[n] = x
  <2>1. q \in Seq(S \cup {x}) /\ x \in S \cup {x}
    BY SeqMonotonic
  <2>. QED  BY <2>1, AppendProperties, LenProperties
<1>3. /\ 1 .. n = (1 .. Len(q)) \cup {n} /\ n \notin 1 .. Len(q)
      /\ \A i \in 1 .. Len(q) : i < n /\ ~(n < i)
      /\ ~(n < n)
  BY <1>1, SMT
<1>. HIDE DEF n, more
<1>4. /\ \A i \in 1 .. Len(q) : i \in Waiting(q) <=> q[i].id # 0
      /\ {q[i].id : i \in Waiting(q)} = lo + 1 .. hi
      /\ \A i, j \in Waiting(q) : i < j => q[i].id < q[j].id
      /\ Waiting(q) \subseteq 1 .. Len(q)
  BY <1>1 DEF Numbering, Rises, Waiting
<1>5. CASE x.type = "push" /\ x.id = hi + 1
  <2>1. Waiting(more) = Waiting(q) \cup {n}
    BY <1>1, <1>2, <1>3, <1>5 DEF Waiting
  <2>2. \A i \in 1 .. n : i \in Waiting(more) <=> more[i].id # 0
    <3>1. hi + 1 # 0
      BY SMT
    <3>. QED  BY <1>2, <1>3, <1>4, <1>5, <2>1, <3>1
  <2>3. {more[i].id : i \in Waiting(more)} = (lo + 1 .. hi) \cup {hi + 1}
    BY <1>2, <1>4, <1>5, <2>1
  <2>4. (lo + 1 .. hi) \cup {hi + 1} = lo + 1 .. hi + 1
    BY SMT
  <2>5. ASSUME NEW i \in Waiting(more), NEW j \in Waiting(more), i < j
        PROVE  more[i].id < more[j].id
    <3>1. CASE i \in Waiting(q) /\ j \in Waiting(q)
      BY <1>2, <1>4, <2>5, <3>1
    <3>2. CASE i \in Waiting(q) /\ j = n
      <4>1. q[i].id \in lo + 1 .. hi
        BY <1>4, <3>2
      <4>2. q[i].id < hi + 1
        BY <4>1, SMT
      <4>. QED  BY <1>2, <1>4, <1>5, <3>2, <4>2
    <3>3. CASE i = n
      BY <1>3, <1>4, <2>1, <2>5, <3>3
    <3>. QED  BY <2>1, <3>1, <3>2, <3>3
  <2>6. Numbering(more, lo + 1 .. hi + 1)
    BY <1>2, <2>2, <2>3, <2>4, <2>5 DEF Numbering, Rises
  <2>. QED  BY <1>5, <2>6 DEF more
<1>6. CASE x.type # "push" /\ x.id = 0
  <2>1. Waiting(more) = Waiting(q)
    BY <1>1, <1>2, <1>3, <1>6 DEF Waiting
  <2>2. \A i \in 1 .. n : i \in Waiting(more) <=> more[i].id # 0
    BY <1>2, <1>3, <1>4, <1>6, <2>1
  <2>3. /\ {more[i].id : i \in Waiting(more)} = lo + 1 .. hi
        /\ \A i, j \in Waiting(more) : i < j => more[i].id < more[j].id
    BY <1>2, <1>4, <2>1
  <2>4. Numbering(more, lo + 1 .. hi)
    BY <1>2, <2>2, <2>3 DEF Numbering, Rises
  <2>. QED  BY <1>6, <2>4 DEF more
<1>. QED  BY <1>5, <1>6 DEF more

LEMMA SeqOfOne == \A S : <<>> \in Seq(S) /\ \A ev \in S : <<ev>> \in Seq(S)
<1>1. ASSUME NEW S PROVE <<>> \in Seq(S) /\ \A ev \in S : <<ev>> \in Seq(S)
  OBVIOUS
<1>. QED  BY <1>1

LEMMA NoIds == \A n \in Nat : n + 1 .. n = {}
BY SMT

\* The failures of what was given up on hand nothing over.
LEMMA AbandonHands ==
  ASSUME NEW ts \in Seq(Trans)
  PROVE  HandsOver(FlattenSeq([i \in DOMAIN ts |-> AbandonEvents(ts[i])]), {})
<1>. DEFINE n == Len(ts)
            S == {Event(e, t) : e \in {"Failed", "MediaFailed"}, t \in Trans}
            g == [i \in 1 .. n |-> AbandonEvents(ts[i])]
            ids == [i \in 1 .. n |-> {}]
<1>1. n \in Nat /\ DOMAIN ts = 1 .. n /\ \A i \in 1 .. n : ts[i] \in Trans
  BY LenProperties, ElementOfSeq
<1>2. ASSUME NEW t \in Trans
      PROVE  AbandonEvents(t) \in Seq(S) /\ HandsOver(AbandonEvents(t), {})
  <2>1. AbandonEvents(t) \in {<<>>, <<Event("Failed", t)>>, <<Event("MediaFailed", t)>>}
    BY Zenon DEF AbandonEvents, FailEvent
  <2>2. Event("Failed", t) \in S /\ Event("MediaFailed", t) \in S
    OBVIOUS
  <2>. HIDE DEF S
  <2>3. {<<>>, <<Event("Failed", t)>>, <<Event("MediaFailed", t)>>} \subseteq Seq(S)
    BY <2>2
  <2>4. HandsOver(<<Event("Failed", t)>>, {}) /\ HandsOver(<<Event("MediaFailed", t)>>, {})
    BY NoneHands
  <2>. QED  BY <2>1, <2>3, <2>4, NoneHands, Zenon
<1>. SUFFICES HandsOver(FlattenSeq(g), {})
  BY <1>1
<1>. HIDE DEF S
<1>3. /\ n \in Nat /\ g \in [1 .. n -> Seq(S)] /\ ids \in [1 .. n -> SUBSET Nat]
      /\ \A k \in 1 .. n : g[k] = AbandonEvents(ts[k]) /\ ids[k] = {}
  <2>. HIDE DEF n
  <2>. QED  BY <1>1, <1>2
<1>. HIDE DEF n, g, ids
<1>4. \A k \in 1 .. n : HandsOver(g[k], ids[k])
  BY <1>1, <1>2, <1>3
<1>5. EachHands(S, g, n, ids)
  BY <1>3, <1>4, Zenon DEF EachHands
<1>6. Sofar(ids, n) = {}
  BY <1>3 DEF Sofar
<1>. QED  BY <1>5, <1>6, FlattenHands, Zenon

\* close() adds to what came before it an event that hands nothing over.
LEMMA CloseHands ==
  ASSUME NEW why \in Closings, NEW id, NEW before \in {<<>>, <<Event("Reply", id)>>},
         Close(why, before)
  PROVE  HandsOver(events', {}) /\ st' = "Closed"
<1>. DEFINE S == {Event("Reply", id), Event(why, 0)}
<1>1. before \in Seq(S) /\ <<Event(why, 0)>> \in Seq(S)
  <2>1. Event("Reply", id) \in S /\ Event(why, 0) \in S
    OBVIOUS
  <2>. HIDE DEF S
  <2>2. <<>> \in Seq(S) /\ <<Event("Reply", id)>> \in Seq(S) /\ <<Event(why, 0)>> \in Seq(S)
    BY <2>1, SeqOfOne
  <2>. QED  BY <2>2, Zenon
<1>2. HandsOver(before, {}) /\ HandsOver(<<Event(why, 0)>>, {})
  BY NoneHands DEF Closings
<1>3. events' = before \o <<Event(why, 0)>>
  <2>1. events' = Append(before, Event(why, 0))
    BY DEF Close
  <2>2. Append(before, Event(why, 0)) = before \o <<Event(why, 0)>>
    BY <1>1, AppendIsConcat, Event(why, 0) \in S
  <2>. QED  BY <2>1, <2>2
<1>. HIDE DEF S
<1>4. HandsOver(before \o <<Event(why, 0)>>, {} \cup {})
  BY <1>1, <1>2, HandsBoth
<1>. QED  BY <1>3, <1>4, {} \cup {} = {} DEF Close

\* The login's reply hands over what waited, after the events of the login.
LEMMA LogInHands ==
  ASSUME ReaderType, Numbering(early, pushOut + 1 .. pushIn),
         NEW v, NEW r, NEW id, NEW whole \in {<<>>, <<Event("Reply", id)>>}, LogIn(v, r, whole)
  PROVE  HandsOver(events', pushOut + 1 .. pushIn)
<1>. DEFINE named == SendIf(v = 0 /\ nickFits, sender, "user_change", "Quiet")
            u == TakeUnasked(Replayed, v, named, AgreementDeadline(v, NowAt(r)))
            first == <<Event("LoggedIn", 0)>>
            ids == pushOut + 1 .. pushIn
            S == Told \cup {Event("Reply", id)}
<1>1. u.events \in Seq(Told) /\ HandsOver(u.events, ids)
  <2>. HIDE DEF named
  <2>. QED  BY ReplayHands DEF ReaderType, Replayed
<1>2. PICK last \in {<<>>, <<Event("Ready", 0)>>} : events' = whole \o first \o u.events \o last
  BY Zenon DEF LogIn
<1>3. Event("LoggedIn", 0) \in Told /\ Event("Ready", 0) \in Told
  BY DEF Told
<1>4. /\ whole \in Seq(S) /\ first \in Seq(S) /\ u.events \in Seq(S) /\ last \in Seq(S)
  <2>. DEFINE es == u.events
  <2>1. es \in Seq(Told)
    BY <1>1
  <2>. HIDE DEF es, u
  <2>2. es \in Seq(S)
    BY <2>1, SeqMonotonic
  <2>3. Event("LoggedIn", 0) \in S /\ Event("Ready", 0) \in S /\ Event("Reply", id) \in S
    BY <1>3 DEF S
  <2>. HIDE DEF S
  <2>4. /\ <<>> \in Seq(S) /\ <<Event("LoggedIn", 0)>> \in Seq(S)
        /\ <<Event("Ready", 0)>> \in Seq(S) /\ <<Event("Reply", id)>> \in Seq(S)
    BY <2>3, SeqOfOne
  <2>. QED  BY <1>2, <2>2, <2>4, Zenon DEF es, first
<1>5. HandsOver(whole, {}) /\ HandsOver(first, {}) /\ HandsOver(last, {})
  <2>1. HandsOver(<<Event("LoggedIn", 0)>>, {}) /\ HandsOver(<<Event("Ready", 0)>>, {})
        /\ HandsOver(<<Event("Reply", id)>>, {}) /\ HandsOver(<<>>, {})
    BY NoneHands
  <2>. QED  BY <1>2, <2>1, Zenon
<1>. HIDE DEF u, first, S
<1>6. HandsOver(whole \o first, {} \cup {}) /\ whole \o first \in Seq(S)
  BY <1>4, <1>5, HandsBoth, ConcatProperties
<1>7. HandsOver(whole \o first, {})
  BY <1>6, {} \cup {} = {}
<1>8. HandsOver(whole \o first \o u.events, {} \cup ids) /\ whole \o first \o u.events \in Seq(S)
  <2>. HIDE DEF ids
  <2>. QED  BY <1>1, <1>4, <1>6, <1>7, HandsBoth, ConcatProperties
<1>9. HandsOver(whole \o first \o u.events, ids)
  BY <1>8, {} \cup ids = ids
<1>. HIDE DEF ids
<1>10. HandsOver(whole \o first \o u.events \o last, ids \cup {})
  BY <1>4, <1>5, <1>8, <1>9, HandsBoth
<1>. QED  BY <1>2, <1>10, ids \cup {} = ids DEF ids

\* One that arrives once logged in is handed over at once.
LEMMA UnaskedStep ==
  ASSUME IInv, FeedUnasked
  PROVE  /\ pushOut <= pushOut' /\ HandsOver(events', pushOut + 1 .. pushOut')
         /\ early' = <<>> /\ st' = st
<1>1. ReaderType /\ early = <<>> /\ st = "LoggedIn" /\ early' = early /\ st' = st
  BY DEF IInv, TypeOK, ReplayedOnce, FeedUnasked
<1>2. pushIn = pushOut /\ pushIn \in Nat
  <2>1. Pushes(early) = 0 /\ pushIn = pushOut + Pushes(early)
    BY <1>1, PushesNone DEF IInv, PushesKept
  <2>. QED  BY <1>1, <2>1, SMT DEF ReaderType
<1>3. PICK type \in Unasked :
        /\ Number(type)
        /\ \E at : events' = TakeUnasked(<<Numbered(type)>>, version, sender, at).events
        /\ pushOut' = pushOut + Pushes(<<Numbered(type)>>)
  BY Zenon DEF FeedUnasked
<1>. DEFINE x == Numbered(type)
<1>4. /\ x \in [type : Unasked, id : Nat] /\ x.type = type
      /\ pushOut' = pushOut + (IF type = "push" THEN 1 ELSE 0)
  BY <1>1, <1>3, NumberedType, PushesOne
<1>5. IF type = "push" THEN x.id = pushIn + 1 ELSE x.id = 0
  BY DEF Numbered, Push, Agreement
<1>. HIDE DEF x
<1>6. Numbering(<<>>, pushOut + 1 .. pushOut)
  <2>1. pushOut + 1 .. pushOut = {}
    BY <1>2, NoIds
  <2>2. Numbering(<<>>, {})
    BY DEF Numbering, Waiting, Rises
  <2>. QED  BY <2>1, <2>2
<1>7. Append(<<>>, x) = <<x>> /\ <<x>> \in Seq([type : Unasked, id : Nat])
      /\ <<>> \in Seq([type : Unasked, id : Nat])
  BY <1>4
<1>8. Numbering(<<x>>, pushOut + 1 .. pushOut')
  <2>. DEFINE q == <<>>
  <2>0. /\ q \in Seq([type : Unasked, id : Nat]) /\ Append(q, x) = <<x>>
        /\ Numbering(q, pushOut + 1 .. pushOut) /\ pushOut \in Nat /\ pushOut <= pushOut
        /\ pushIn = pushOut
    BY <1>2, <1>6, <1>7
  <2>. HIDE DEF q
  <2>1. CASE type = "push"
    <3>1. Numbering(Append(q, x), pushOut + 1 .. pushOut + 1)
      BY <1>4, <1>5, <2>0, <2>1, NumberingAppend
    <3>. QED  BY <1>4, <2>0, <2>1, <3>1
  <2>2. CASE type # "push"
    <3>1. Numbering(Append(q, x), pushOut + 1 .. pushOut)
      BY <1>4, <1>5, <2>0, <2>2, NumberingAppend
    <3>2. pushOut' = pushOut
      BY <1>2, <1>4, <2>2
    <3>. QED  BY <2>0, <3>1, <3>2
  <2>. QED  BY <2>1, <2>2
<1>9. HandsOver(events', pushOut + 1 .. pushOut')
  BY <1>3, <1>7, <1>8, ReplayHands DEF x
<1>10. pushOut <= pushOut'
  BY <1>2, <1>4, SMT
<1>. QED  BY <1>1, <1>9, <1>10

\* Of every other call: what waits stays, and nothing is handed over.
LEMMA OtherHands ==
  ASSUME IInv, Next, ~FeedEarly, ~FeedLoginReply, ~FeedUnasked
  PROVE  /\ UNCHANGED <<early, pushIn, pushOut>> /\ (st' # "Closed" => st # "Closed")
         /\ HandsOver(events', {}) \/ UNCHANGED vars
<1>. DEFINE Waits == UNCHANGED <<early, pushIn, pushOut>> /\ (st' # "Closed" => st # "Closed")
            Single(e, id) == (e \notin {"Push", "Unhandled"} \/ id = 0) /\ events' = <<Event(e, id)>>
            Idle == events' = <<>> \/ \E e, id : Single(e, id)
<1>. USE DEF pushVars
<1>1. Idle => HandsOver(events', {})
  BY NoneHands, Zenon
<1>2. ASSUME NEW why \in Closings, Close(why, <<>>) PROVE Idle /\ st' = "Closed"
  <2>1. events' = <<Event(why, 0)>>
    BY <1>2 DEF Close
  <2>. QED  BY <1>2, <2>1 DEF Close
<1>3. {"BadMagic", "LoginRefused", "Timeout", "Protocol", "TooLarge", "Hangup"} \subseteq Closings
  BY DEF Closings
<1>. HIDE DEF Idle
<1>4. \A e, id : Single(e, id) => Idle
  BY DEF Idle
<1>5. events' = <<>> => Idle
  BY DEF Idle
<1>6. CASE FeedMagic \/ FeedUndecodable \/ FeedTooLarge \/ Disconnected \/ FeedHopeReply
  <2>1. Idle
    BY <1>2, <1>3, <1>5, <1>6 DEF FeedMagic, FeedUndecodable, FeedTooLarge, Disconnected,
       FeedHopeReply
  <2>2. Waits
    BY <1>6 DEF FeedMagic, FeedUndecodable, FeedTooLarge, Disconnected, FeedHopeReply, Close,
       Listening
  <2>. QED  BY <1>1, <2>1, <2>2
<1>7. CASE FeedClosed \/ CallTakeTrans \/ SendRaw \/ Advance
  <2>1. Idle /\ Waits
    BY <1>5, <1>7 DEF FeedClosed, CallTakeTrans, SendRaw, Advance
  <2>. QED  BY <1>1, <2>1
<1>8. CASE FeedFragment
  <2>1. PICK f \in Frames :
          events' = FlattenSeq([i \in DOMAIN Accept(partials, f).abandoned |->
                                  AbandonEvents(Accept(partials, f).abandoned[i])])
    BY <1>8, Zenon DEF FeedFragment
  <2>2. Accept(partials, f).abandoned \in Seq(Trans)
    <3>1. /\ partials \in Seq(Partial(Replies \cup Unasked, Trans, {0})) /\ Tidy(partials)
          /\ f \in Framed(Replies \cup Unasked, Trans, {0})
      BY SessionAssumption DEF IInv, TypeOK, ReaderType, OnePartialPerTrans
    <3>. QED  BY <3>1, AcceptKeepsTidy
  <2>3. Waits
    BY <1>8 DEF FeedFragment
  <2>. QED  BY <2>1, <2>2, <2>3, AbandonHands
<1>9. CASE FeedReply
  <2>1. PICK type, t : events' = ReplyEvents(type, t)
    BY <1>9, Zenon DEF FeedReply
  <2>2. \/ events' = <<>>
        \/ \E e \in {"Reply", "Failed", "UserList", "MediaFailed", "MediaDone", "CallDone"} :
             events' = <<Event(e, t)>>
    BY <2>1 DEF ReplyEvents, FailEvent, SuccessEvents
  <2>3. Idle
    BY <1>4, <1>5, <2>2
  <2>4. Waits
    BY <1>9 DEF FeedReply
  <2>. QED  BY <1>1, <2>3, <2>4
<1>10. ASSUME NEW r \in Readings, Tick(r) PROVE Idle /\ Waits
  <2>1. CASE TickHandshake(r)
    BY <1>2, <1>3, <1>5, <1>10, <2>1 DEF Tick, TickHandshake
  <2>2. CASE TickLoggedIn(r) \/ TickClosed(r)
    <3>1. events' = <<>> \/ Single("Ready", 0)
      BY <2>2, Zenon DEF TickLoggedIn, TickClosed
    <3>2. Waits
      BY <1>10, <2>2 DEF Tick, TickLoggedIn, TickClosed
    <3>. QED  BY <1>4, <1>5, <3>1, <3>2, Zenon
  <2>. QED  BY <1>10, <2>1, <2>2 DEF Tick
<1>11. CASE TakeOutgoing
  <2>1. events' = <<>> \/ Single("Protocol", 0)
    BY <1>11, Zenon DEF TakeOutgoing
  <2>2. Waits
    BY <1>11 DEF TakeOutgoing
  <2>. QED  BY <1>1, <1>4, <1>5, <2>1, <2>2, Zenon
<1>12. CASE Agree
  <2>1. Waits
    BY <1>12 DEF Agree
  <2>2. CASE agreed
    <3>1. AgreeIf(~agreed, sender) = sender
      BY <2>2 DEF AgreeIf, SendIf
    <3>2. UNCHANGED vars
      BY <1>12, <2>2, <3>1 DEF Agree, vars
    <3>. QED  BY <2>1, <3>2
  <2>3. CASE ~agreed
    <3>1. events' = <<>> \/ Single("Ready", 0)
      BY <1>12, <2>3, Zenon DEF Agree
    <3>. QED  BY <1>1, <1>4, <1>5, <2>1, <3>1, Zenon
  <2>. QED  BY <2>2, <2>3
<1>13. ASSUME NEW fits, SetIdentity(fits) PROVE Idle /\ Waits
  BY <1>5, <1>13 DEF SetIdentity
<1>14. ASSUME NEW pend, Request(pend) PROVE Idle /\ Waits
  BY <1>5, <1>14 DEF Request
<1>15. ASSUME NEW t, NEW what, Expect(t, what) PROVE Idle /\ Waits
  BY <1>5, <1>15 DEF Expect
<1>. HIDE DEF Waits
<1>16. Waits /\ (HandsOver(events', {}) \/ UNCHANGED vars)
  BY <1>1, <1>6, <1>7, <1>8, <1>9, <1>10, <1>11, <1>12, <1>13, <1>14, <1>15, Zenon
     DEF Next, Feed, Caller, Waits
<1>. QED  BY <1>16 DEF Waits

\* What is fed before the login reply waits, or ends the session.
LEMMA EarlyStep ==
  ASSUME IInv, EarlyInOrder, FeedEarly
  PROVE  EarlyInOrder' /\ pushOut' = pushOut /\ HandsOver(events', {})
<1>1. ReaderType /\ st # "Closed" /\ pushOut' = pushOut
  BY DEF IInv, TypeOK, FeedEarly
<1>2. PICK f \in Frames :
        /\ Number(Completed(f).type) /\ Completed(f).type \in Unasked
        /\ \/ Close("Protocol", <<>>)
           \/ /\ early' = Append(early, Numbered(Completed(f).type))
              /\ events' = <<>>
  BY Zenon DEF FeedEarly
<1>. DEFINE type == Completed(f).type
            x == Numbered(type)
<1>3. CASE Close("Protocol", <<>>)
  <2>1. HandsOver(events', {}) /\ st' = "Closed"
    BY <1>3, CloseHands DEF Closings
  <2>. QED  BY <1>1, <2>1 DEF EarlyInOrder
<1>4. CASE early' = Append(early, x) /\ events' = <<>>
  <2>1. /\ x \in [type : Unasked, id : Nat] /\ x.type = type
        /\ pushIn' = pushIn + (IF type = "push" THEN 1 ELSE 0)
    BY <1>1, <1>2, NumberedType
  <2>2. IF type = "push" THEN x.id = pushIn + 1 ELSE x.id = 0
    BY DEF Numbered, Push, Agreement
  <2>3. /\ early \in Seq([type : Unasked, id : Nat]) /\ pushIn \in Nat /\ pushOut \in Nat
        /\ Numbering(early, pushOut + 1 .. pushIn)
    BY <1>1 DEF ReaderType, EarlyInOrder
  <2>4. pushOut <= pushIn
    <3>1. Pushes(early) \in Nat /\ pushIn = pushOut + Pushes(early)
      BY <1>1, <2>3, PushesAppend DEF IInv, PushesKept
    <3>. QED  BY <2>3, <3>1, SMT
  <2>. HIDE DEF type, x
  <2>5. Numbering(early', pushOut' + 1 .. pushIn')
    <3>1. CASE type = "push"
      <4>1. pushIn' = pushIn + 1 /\ x.id = pushIn + 1
        BY <2>1, <2>2, <3>1
      <4>2. Numbering(Append(early, x), pushOut + 1 .. pushIn + 1)
        BY <2>1, <2>3, <2>4, <3>1, <4>1, NumberingAppend
      <4>. QED  BY <1>1, <1>4, <4>1, <4>2
    <3>2. CASE type # "push"
      <4>1. pushIn' = pushIn /\ x.id = 0
        BY <2>1, <2>2, <2>3, <3>2
      <4>2. Numbering(Append(early, x), pushOut + 1 .. pushIn)
        BY <2>1, <2>3, <2>4, <3>2, <4>1, NumberingAppend
      <4>. QED  BY <1>1, <1>4, <4>1, <4>2
    <3>. QED  BY <3>1, <3>2
  <2>6. EarlyInOrder'
    BY <2>5 DEF EarlyInOrder, Numbering, Waiting, Rises
  <2>. QED  BY <1>1, <1>4, <2>6, NoneHands
<1>. QED  BY <1>2, <1>3, <1>4

\* The login's reply hands over all that waits, or ends the session.
LEMMA LoginStep ==
  ASSUME IInv, EarlyInOrder, FeedLoginReply
  PROVE  \/ st' = "Closed" /\ pushOut' = pushOut /\ HandsOver(events', {})
         \/ /\ early' = <<>> /\ pushOut <= pushOut'
            /\ HandsOver(events', pushOut + 1 .. pushOut')
<1>1. /\ ReaderType /\ st # "Closed" /\ pushOut \in Nat
      /\ Numbering(early, pushOut + 1 .. pushIn)
  BY DEF IInv, TypeOK, FeedLoginReply, ReaderType, EarlyInOrder
<1>2. PICK id, whole :
        /\ whole \in {<<>>, <<Event("Reply", id)>>}
        /\ \/ Close("LoginRefused", whole) /\ pushOut' = pushOut
           \/ \E v, r : LogIn(v, r, whole)
  <2>1. PICK id, whole :
          /\ whole = (IF LoginWhole THEN <<Event("Reply", id)>> ELSE <<>>)
          /\ \/ Close("LoginRefused", whole) /\ pushOut' = pushOut
             \/ \E v, r : LogIn(v, r, whole)
    BY Zenon DEF FeedLoginReply
  <2>2. whole \in {<<>>, <<Event("Reply", id)>>}
    BY <2>1, Zenon
  <2>. QED  BY <2>1, <2>2
<1>3. CASE Close("LoginRefused", whole) /\ pushOut' = pushOut
  BY <1>2, <1>3, CloseHands DEF Closings
<1>4. ASSUME NEW v, NEW r, LogIn(v, r, whole)
      PROVE  /\ early' = <<>> /\ pushOut <= pushOut'
             /\ HandsOver(events', pushOut + 1 .. pushOut')
  <2>1. early' = <<>> /\ pushOut' = pushOut + Pushes(early)
    BY <1>4 DEF LogIn, Replayed
  <2>2. Pushes(early) \in Nat /\ pushIn = pushOut + Pushes(early)
    BY <1>1, PushesAppend DEF IInv, PushesKept, ReaderType
  <2>3. pushOut' = pushIn /\ pushOut <= pushOut'
    BY <1>1, <2>1, <2>2, SMT
  <2>4. HandsOver(events', pushOut + 1 .. pushIn)
    BY <1>1, <1>2, <1>4, LogInHands
  <2>. QED  BY <2>1, <2>3, <2>4
<1>. QED  BY <1>2, <1>3, <1>4

\* What the server sends unasked is handed over once and in the order it came:
\* dispatch() keeps it in that order until login_reply() replays it, and from
\* then on hands it over as it comes.
THEOREM HandedInOrder == Spec => PushesInOrder
<1>1. Init => EarlyInOrder
  <2>1. 0 + 1 .. 0 = {}
    BY SMT
  <2>2. Numbering(<<>>, {})
    BY DEF Numbering, Waiting, Rises
  <2>. QED  BY <2>1, <2>2, Zenon DEF Init, EarlyInOrder
<1>. DEFINE A == pushOut <= pushOut' /\ HandsOver(events', pushOut + 1 .. pushOut')
<1>2. ASSUME IInv, IInv', EarlyInOrder, [Next]_vars PROVE EarlyInOrder' /\ [A]_vars
  <2>0. pushOut \in Nat /\ pushOut + 1 .. pushOut = {} /\ pushOut <= pushOut
    BY <1>2, NoIds DEF IInv, TypeOK, ReaderType
  <2>1. ASSUME pushOut' = pushOut, HandsOver(events', {}) PROVE A
    BY <2>0, <2>1
  <2>2. ASSUME early' = <<>> PROVE EarlyInOrder'
    <3>1. ASSUME st' # "Closed" PROVE pushIn' = pushOut' /\ pushOut' \in Nat
      <4>1. Pushes(early)' = 0
        BY <2>2, PushesNone DEF Pushes
      <4>2. pushOut' \in Nat
        BY <1>2 DEF IInv, TypeOK, ReaderType
      <4>3. pushIn' = pushOut' + Pushes(early)'
        BY <1>2, <3>1, Zenon DEF IInv, PushesKept
      <4>4. pushIn' = pushOut' + 0
        BY <4>1, <4>3, Zenon
      <4>5. \A n \in Nat : n + 0 = n
        OBVIOUS
      <4>. QED  BY <4>2, <4>4, <4>5, Zenon
    <3>2. Numbering(<<>>, {})
      BY DEF Numbering, Waiting, Rises
    <3>3. st' # "Closed" => Numbering(early', pushOut' + 1 .. pushIn')
      BY <2>2, <3>1, <3>2, NoIds
    <3>. QED  BY <3>3 DEF EarlyInOrder, Numbering, Waiting, Rises
  <2>3. ASSUME UNCHANGED <<early, pushIn, pushOut>>, st' # "Closed" => st # "Closed"
        PROVE  EarlyInOrder'
    BY <1>2, <2>3 DEF EarlyInOrder, Numbering, Waiting, Rises
  <2>4. CASE UNCHANGED vars
    <3>1. UNCHANGED <<early, pushIn, pushOut>> /\ st' = st
      BY <2>4 DEF vars, pushVars
    <3>. QED  BY <2>3, <2>4, <3>1
  <2>5. CASE FeedEarly
    BY <1>2, <2>1, <2>5, EarlyStep
  <2>6. CASE FeedLoginReply
    <3>1. st' = "Closed" => EarlyInOrder'
      BY DEF EarlyInOrder
    <3>. HIDE DEF EarlyInOrder
    <3>. QED  BY <1>2, <2>1, <2>2, <2>6, <3>1, LoginStep, Zenon
  <2>7. CASE FeedUnasked
    BY <1>2, <2>2, <2>7, UnaskedStep
  <2>8. CASE Next /\ ~FeedEarly /\ ~FeedLoginReply /\ ~FeedUnasked
    <3>1. UNCHANGED <<early, pushIn, pushOut>> /\ (st' # "Closed" => st # "Closed")
      BY <1>2, <2>8, OtherHands
    <3>2. HandsOver(events', {}) \/ UNCHANGED vars
      BY <1>2, <2>8, OtherHands
    <3>. QED  BY <2>1, <2>3, <3>1, <3>2
  <2>. QED  BY <1>2, <2>4, <2>5, <2>6, <2>7, <2>8
<1>. QED  BY <1>1, <1>2, InvariantHolds, PTL DEF Spec, PushesInOrder

----------------------------------------------------------------------------
(* Readings of the clock.                                                  *)

LEMMA ReadingFacts ==
  ASSUME ClockType, NEW r \in Readings
  PROVE  /\ r \in 0 .. wall /\ r < Never /\ r + Skew >= wall
         /\ NowAt(r) \in 0 .. wall /\ NowAt(r) >= r /\ NowAt(r) >= now
BY SessionAssumption, SMT DEF Readings, NowAt, ClockType, Never

LEMMA DeadlineReached ==
  ASSUME NEW r \in Nat, r < Never, NEW from \in Nat, NEW wait \in Nat
  PROVE  r >= Deadline(from, wait) <=> (from + wait <= ClockMax /\ r >= from + wait)
BY SessionAssumption, SMT DEF Deadline, Never

\* What a call that reads the clock leaves of the stamp.
LEMMA ClockStamps ==
  ASSUME ClockType, Stamped, NEW r \in Readings, NEW sends, Clock(r, sends)
  PROVE  lastReal' \in 0 .. wall /\ lastSent' + Skew >= lastReal'
<1>1. /\ r \in Nat /\ r + Skew >= wall /\ NowAt(r) >= r /\ NowAt(r) \in Nat
      /\ wall \in Nat /\ lastReal \in 0 .. wall
  BY ReadingFacts DEF ClockType, Stamped
<1>2. CASE sends \/ unstamped
  <2>1. lastSent' = NowAt(r) /\ (lastReal' = wall \/ lastReal' = lastReal)
    BY <1>2, Zenon DEF Clock
  <2>2. Skew \in Nat
    BY SessionAssumption
  <2>. QED  BY <1>1, <2>1, <2>2
<1>3. CASE ~sends /\ ~unstamped
  <2>1. lastSent' = lastSent /\ lastReal' = lastReal
    BY <1>3, Zenon DEF Clock
  <2>. QED  BY <1>1, <1>3, <2>1 DEF Stamped
<1>. QED  BY <1>2, <1>3

\* Every call reads the clock, stamps a send for later, or does neither.
LEMMA ClockCalls ==
  ASSUME Next
  PROVE  \/ wall' = wall /\ \E r \in Readings : \E sends : Clock(r, sends)
         \/ wall' = wall /\ StampLater
         \/ UNCHANGED <<timeVars, lastReal>> /\ (wall' = wall \/ Advance)
<1>1. CASE FeedMagic \/ FeedUndecodable \/ FeedClosed \/ FeedTooLarge \/ FeedFragment
  BY <1>1, Zenon DEF FeedMagic, FeedUndecodable, FeedClosed, FeedTooLarge, FeedFragment
<1>2. CASE FeedEarly \/ FeedHopeReply \/ FeedReply \/ FeedUnasked
  BY <1>2, Zenon DEF FeedEarly, FeedHopeReply, FeedReply, FeedUnasked
<1>3. CASE FeedLoginReply
  <2>1. ASSUME NEW v, NEW r, NEW whole, LogIn(v, r, whole) PROVE Clock(r, sender' # sender)
    BY <2>1, Zenon DEF LogIn
  <2>. QED  BY <1>3, <2>1, Zenon DEF FeedLoginReply
<1>4. ASSUME NEW r \in Readings, Tick(r) PROVE wall' = wall /\ \E sends : Clock(r, sends)
  BY <1>4, Zenon DEF Tick, TickHandshake, TickLoggedIn, TickClosed
<1>5. CASE Disconnected \/ TakeOutgoing \/ CallTakeTrans \/ SendRaw \/ Agree \/ Advance
  BY <1>5, Zenon DEF Disconnected, TakeOutgoing, CallTakeTrans, SendRaw, Agree, Advance
<1>6. ASSUME NEW fits \in Nicks, SetIdentity(fits) PROVE UNCHANGED <<timeVars, lastReal, wall>>
  BY <1>6 DEF SetIdentity
<1>7. ASSUME NEW pend \in RequestKinds, Request(pend) PROVE wall' = wall /\ StampLater
  BY <1>7 DEF Request
<1>8. ASSUME NEW t \in Trans, NEW what, Expect(t, what) PROVE UNCHANGED <<timeVars, lastReal, wall>>
  BY <1>8 DEF Expect
<1>. QED
  BY <1>1, <1>2, <1>3, <1>4, <1>5, <1>6, <1>7, <1>8, Zenon DEF Next, Feed, Caller

LEMMA StampedStep ==
  ASSUME IInv, Stamped, [Next]_vars
  PROVE  Stamped'
<1>1. ClockType /\ wall \in Nat
  BY DEF IInv, TypeOK, ClockType
<1>2. CASE UNCHANGED <<timeVars, lastReal, wall>>
  BY <1>2 DEF Stamped, timeVars
<1>3. CASE wall' = wall /\ \E r \in Readings : \E sends : Clock(r, sends)
  BY <1>1, <1>3, ClockStamps DEF Stamped
<1>4. CASE wall' = wall /\ StampLater
  BY <1>1, <1>4 DEF Stamped, StampLater
<1>5. CASE UNCHANGED <<timeVars, lastReal>> /\ Advance
  <2>1. wall' = wall + 1
    BY <1>5 DEF Advance
  <2>. QED  BY <1>1, <1>5, <2>1, SMT DEF Stamped, timeVars
<1>6. UNCHANGED vars => UNCHANGED <<timeVars, lastReal, wall>>
  BY DEF vars
<1>. QED  BY <1>2, <1>3, <1>4, <1>5, <1>6, ClockCalls, Zenon

LEMMA InitStamped == Init => Stamped
<1>1. Init => lastReal = 0 /\ wall = 0 /\ lastSent = 0
  BY DEF Init
<1>2. Skew \in Nat
  BY SessionAssumption
<1>. QED  BY <1>1, <1>2 DEF Stamped

----------------------------------------------------------------------------
(* The keep-alive.                                                         *)

\* s queues what `before' does, or its last is no ping.
NoPing(s, before) == s.out = before.out \/ Last(s.out) # "ping"

LEMMA AppendedLast ==
  ASSUME NEW s, s.out \in Seq(Sent), NEW what \in Sent
  PROVE  Last(Append(s.out, what)) = what
BY DEF Last

LEMMA SendNoPing ==
  ASSUME NEW before, NEW s, s.out \in Seq(Sent), NoPing(s, before),
         NEW cond, NEW what \in Sent \ {"ping"}, NEW pend
  PROVE  NoPing(SendIf(cond, s, what, pend), before)
<1>1. Send(s, what, pend).out = Append(s.out, what)
  BY DEF Send, Sender
<1>. QED  BY <1>1, AppendedLast DEF SendIf, NoPing

LEMMA AgreeNoPing ==
  ASSUME NEW before, NEW s, s.out \in Seq(Sent), NoPing(s, before), NEW cond
  PROVE  NoPing(AgreeIf(cond, s), before)
<1>. DEFINE a == SendIf(cond, s, "agree", "Quiet")
<1>1. "agree" \in Sent \ {"ping"} /\ "user_list" \in Sent \ {"ping"}
  BY DEF Sent
<1>2. a.out \in Seq(Sent) /\ NoPing(a, before)
  BY <1>1, SendQueues, SendNoPing
<1>. HIDE DEF a
<1>3. NoPing(SendIf(cond /\ ~ready /\ ~cfg.raw, a, "user_list", "UserList"), before)
  BY <1>1, <1>2, SendNoPing
<1>. QED  BY <1>3 DEF AgreeIf, a

\* Only a tick queues a ping.
LEMMA OnlyTicksPing ==
  ASSUME IsGood(sender), Next, \A r \in Readings : ~TickLoggedIn(r)
  PROVE  sender'.out = <<>> \/ NoPing(sender', sender)
<1>1. /\ IsSender(sender) /\ IsSender(Emptied(sender)) /\ sender.out \in Seq(Sent)
      /\ NoPing(sender, sender)
  BY EmptiedKeeps DEF IsGood, IsSender, NoPing
<1>2. {"user_change", "user_list", "agree", "request", "raw", "step1", "login"} \subseteq Sent \ {"ping"}
  BY DEF Sent
<1>3. CASE FeedUndecodable \/ FeedTooLarge \/ Disconnected \/ FeedFragment \/ FeedReply \/ FeedEarly
  <2>1. \/ sender' = sender \/ sender' = Emptied(sender)
        \/ \E ts, how : sender' = Settled(sender, ts, how)
    BY <1>3, Zenon DEF FeedUndecodable, FeedTooLarge, Disconnected, FeedFragment, FeedReply,
       FeedEarly, Close
  <2>. QED  BY <2>1, SameQueue DEF NoPing
<1>4. CASE FeedClosed \/ Advance \/ CallTakeTrans
  BY <1>4, SameQueue DEF FeedClosed, Advance, CallTakeTrans, NoPing
<1>5. CASE FeedMagic \/ SendRaw
  <2>1. \/ sender' = Emptied(sender)
        \/ \E what \in Sent \ {"ping"} : sender' = [sender EXCEPT !.out = Append(sender.out, what)]
    BY <1>2, <1>5 DEF FeedMagic, SendRaw, Close
  <2>2. CASE sender' = Emptied(sender)
    BY <2>2, SameQueue DEF NoPing
  <2>3. ASSUME NEW what \in Sent \ {"ping"}, sender' = [sender EXCEPT !.out = Append(sender.out, what)]
        PROVE  NoPing(sender', sender)
    <3>1. sender'.out = Append(sender.out, what)
      BY <1>1, <2>3, NewQueue
    <3>. QED  BY <1>1, <3>1, AppendedLast DEF NoPing
  <2>. QED  BY <2>1, <2>2, <2>3
<1>6. CASE FeedHopeReply \/ TakeOutgoing
  <2>1. \/ sender' = Emptied(sender) \/ sender' = [sender EXCEPT !.out = <<>>]
        \/ sender' = [Emptied(sender) EXCEPT !.out = <<>>]
    BY <1>6, Zenon DEF FeedHopeReply, TakeOutgoing, BeginTransport, Close
  <2>2. [sender EXCEPT !.out = <<>>].out = <<>> /\ [Emptied(sender) EXCEPT !.out = <<>>].out = <<>>
    BY <1>1, NewQueue
  <2>. QED  BY <2>1, <2>2, SameQueue, Zenon DEF NoPing
<1>7. CASE FeedLoginReply
  <2>1. CASE sender' = Emptied(sender)
    BY <2>1, SameQueue DEF NoPing
  <2>2. ASSUME NEW v, NEW r, NEW whole, LogIn(v, r, whole) PROVE NoPing(sender', sender)
    <3>. DEFINE named == SendIf(v = 0 /\ nickFits, sender, "user_change", "Quiet")
                u == TakeUnasked(Replayed, v, named, AgreementDeadline(v, NowAt(r)))
    <3>1. named.out \in Seq(Sent) /\ NoPing(named, sender)
      BY <1>1, <1>2, SendQueues, SendNoPing
    <3>2. u.sender.out \in Seq(Sent) /\ NoPing(u.sender, sender)
      <4>. HIDE DEF named
      <4>. QED  BY <1>2, <3>1, AgreeQueues, AgreeNoPing DEF TakeUnasked
    <3>3. \E c : sender' = SendIf(c, u.sender, "user_list", "UserList")
      BY <2>2, Zenon DEF LogIn
    <3>. HIDE DEF u
    <3>. QED  BY <1>2, <3>2, <3>3, SendNoPing
  <2>. QED  BY <1>7, <2>1, <2>2 DEF FeedLoginReply, Close
<1>8. CASE FeedUnasked
  BY <1>1, <1>8, AgreeNoPing DEF FeedUnasked, TakeUnasked
<1>9. ASSUME NEW r \in Readings, Tick(r) PROVE NoPing(sender', sender)
  BY <1>9, SameQueue DEF Tick, TickHandshake, TickClosed, Close, NoPing
<1>10. CASE Agree
  BY <1>1, <1>10, AgreeNoPing DEF Agree
<1>11. ASSUME NEW fits \in Nicks, SetIdentity(fits) PROVE NoPing(sender', sender)
  BY <1>11 DEF SetIdentity, NoPing
<1>12. ASSUME NEW pend \in RequestKinds, Request(pend) PROVE NoPing(sender', sender)
  <2>1. sender' = SendIf(TRUE, sender, "request", pend)
    BY <1>12 DEF Request, SendIf
  <2>. QED  BY <1>1, <1>2, <2>1, SendNoPing
<1>13. ASSUME NEW t \in Trans, NEW what, Expect(t, what) PROVE NoPing(sender', sender)
  <2>1. sender' = Expected(sender, t, what)
    BY <1>13 DEF Expect
  <2>. QED  BY <2>1, SameQueue DEF NoPing
<1>. QED
  BY <1>3, <1>4, <1>5, <1>6, <1>7, <1>8, <1>9, <1>10, <1>11, <1>12, <1>13 DEF Next, Feed, Caller

\* A tick pings only once Keepalive has passed since the stamp.
LEMMA TickPings ==
  ASSUME IInv, Stamped, NEW r \in Readings, TickLoggedIn(r),
         Sends, Last(sender'.out) = "ping"
  PROVE  wall + Skew >= lastReal + Keepalive
<1>. DEFINE due    == r >= agreementAt
            listed == SendIf(due /\ ~ready /\ ~cfg.raw, sender, "user_list", "UserList")
            stamp  == IF listed # sender \/ unstamped THEN NowAt(r) ELSE lastSent
            ping   == r >= KeepaliveDue(ready \/ due, stamp)
<1>1. ClockType /\ sender.out \in Seq(Sent) /\ "user_list" \in Sent \ {"ping"}
  BY DEF IInv, TypeOK, IsSender, Sent
<1>2. sender' = SendIf(ping, listed, "ping", "Keepalive")
  BY DEF TickLoggedIn
<1>3. ping
  <2>1. NoPing(listed, sender)
    BY <1>1, SendNoPing DEF NoPing
  <2>. HIDE DEF listed, ping
  <2>2. CASE ~ping
    BY <1>2, <2>1, <2>2 DEF SendIf, NoPing, Sends
  <2>. QED  BY <2>2
<1>4. r \in Nat /\ r < Never /\ r + Skew >= wall /\ r <= wall /\ NowAt(r) \in Nat /\ NowAt(r) >= r
  BY <1>1, ReadingFacts DEF ClockType
<1>5. wall \in Nat /\ lastReal \in 0 .. wall /\ lastSent \in Nat /\ Keepalive \in Nat /\ Skew \in Nat
  BY <1>1, SessionAssumption DEF Stamped, ClockType
<1>6. stamp = NowAt(r) \/ (stamp = lastSent /\ ~unstamped)
  BY Zenon
<1>. HIDE DEF stamp
<1>7. stamp \in Nat
  BY <1>4, <1>5, <1>6
<1>8. r >= Deadline(stamp, Keepalive)
  <2>1. ~(r >= Never)
    BY <1>4, SessionAssumption, SMT DEF Never
  <2>. QED  BY <1>3, <2>1, Zenon DEF KeepaliveDue
<1>9. r >= stamp + Keepalive
  BY <1>4, <1>5, <1>7, <1>8, DeadlineReached
<1>10. CASE stamp = NowAt(r)
  BY <1>4, <1>5, <1>9, <1>10
<1>11. CASE stamp = lastSent /\ ~unstamped
  <2>1. lastSent + Skew >= lastReal
    BY <1>11 DEF Stamped
  <2>. QED  BY <1>4, <1>5, <1>9, <1>11, <2>1
<1>. QED  BY <1>6, <1>10, <1>11

\* The keep-alive goes only after Keepalive of real silence, less what the
\* caller's clock may be behind: a send between two readings counts from the
\* next.
THEOREM PingsAfterSilence == Spec => PingAfterSilence
<1>. DEFINE Silence == Sends /\ Last(sender'.out) = "ping" => wall + Skew >= lastReal + Keepalive
<1>1. ASSUME IInv, Stamped, [Next]_vars PROVE [Silence]_vars
  <2>. SUFFICES ASSUME Next, Sends, Last(sender'.out) = "ping"
                PROVE  wall + Skew >= lastReal + Keepalive
    BY <1>1
  <2>1. IsGood(sender) /\ sender.out \in Seq(Sent)
    BY <1>1 DEF IInv, TypeOK, PendingBounded, IsGood, Fits, IsSender
  <2>2. sender'.out # <<>> /\ ~NoPing(sender', sender)
    <3>1. Len(sender.out) \in Nat /\ Len(<<>>) = 0
      BY <2>1
    <3>2. Len(sender'.out) > Len(sender.out)
      BY DEF Sends
    <3>3. sender'.out # <<>> /\ sender'.out # sender.out
      BY <3>1, <3>2
    <3>. QED  BY <3>3 DEF NoPing
  <2>3. PICK r \in Readings : TickLoggedIn(r)
    BY <2>1, <2>2, OnlyTicksPing
  <2>. QED  BY <1>1, <2>3, TickPings
<1>2. Init => Stamped
  BY InitStamped
<1>3. IInv /\ Stamped /\ [Next]_vars => Stamped'
  BY StampedStep
<1>. QED  BY <1>1, <1>2, <1>3, InvariantHolds, PTL DEF Spec, PingAfterSilence

----------------------------------------------------------------------------
(* next_deadline().                                                        *)

LEMMA SendChanges ==
  ASSUME NEW s, s.out \in Seq(Sent), NEW what \in Sent, NEW pend
  PROVE  Send(s, what, pend) # s
<1>1. Send(s, what, pend).out = Append(s.out, what)
  BY DEF Send, Sender
<1>2. Len(Append(s.out, what)) = Len(s.out) + 1 /\ Len(s.out) \in Nat
  OBVIOUS
<1>3. Append(s.out, what) # s.out
  BY <1>2
<1>. QED  BY <1>1, <1>3

\* A tick of a session that has logged in does nothing before the deadline.
LEMMA EarlyTick ==
  ASSUME IInv, NEW r \in Readings, TickLoggedIn(r), r < NextDeadline
  PROVE  st' = st /\ sender' = sender /\ events' = <<>>
<1>. DEFINE due    == r >= agreementAt
            stamp  == IF unstamped THEN NowAt(r) ELSE lastSent
            dueBy  == KeepaliveDue(ready, IF unstamped THEN now ELSE lastSent)
<1>1. ClockType /\ SettleType /\ r \in Nat /\ r < Never /\ NowAt(r) >= now /\ NowAt(r) \in Nat
  BY ReadingFacts DEF IInv, TypeOK, ClockType
<1>2. now \in Nat /\ lastSent \in Nat /\ agreementAt \in Nat /\ Keepalive \in Nat /\ Never \in Nat
  BY <1>1, SessionAssumption, SMT DEF ClockType, SettleType, Times, Never
<1>3. st = "LoggedIn" /\ st' = st
  BY DEF TickLoggedIn
<1>4. dueBy \in Nat
  BY <1>1, <1>2, SessionAssumption, SMT DEF KeepaliveDue, Deadline, Never
<1>5. NextDeadline = IF dueBy < agreementAt THEN dueBy ELSE agreementAt
  BY <1>3, Zenon DEF NextDeadline
<1>. HIDE DEF dueBy
<1>6. r < dueBy /\ r < agreementAt
  BY <1>1, <1>2, <1>4, <1>5
<1>7. ~due
  BY <1>1, <1>2, <1>6
<1>8. ~(r >= KeepaliveDue(ready, stamp))
  <2>1. CASE ready /\ Pings
    <3>1. r < Deadline(IF unstamped THEN now ELSE lastSent, Keepalive)
      BY <1>6, <2>1, Zenon DEF dueBy, KeepaliveDue
    <3>2. CASE unstamped
      <4>1. r < Deadline(now, Keepalive)
        BY <3>1, <3>2, Zenon
      <4>2. r < Deadline(NowAt(r), Keepalive)
        BY <1>1, <1>2, <4>1, SessionAssumption, SMT DEF Deadline, Never
      <4>3. KeepaliveDue(ready, stamp) = Deadline(NowAt(r), Keepalive)
        BY <2>1, <3>2, Zenon DEF KeepaliveDue
      <4>4. Deadline(NowAt(r), Keepalive) \in Nat
        BY <1>1, <1>2, SessionAssumption, SMT DEF Deadline, Never
      <4>. QED  BY <1>1, <4>2, <4>3, <4>4
    <3>3. CASE ~unstamped
      <4>1. r < Deadline(lastSent, Keepalive)
        BY <3>1, <3>3, Zenon
      <4>2. KeepaliveDue(ready, stamp) = Deadline(lastSent, Keepalive)
        BY <2>1, <3>3, Zenon DEF KeepaliveDue
      <4>3. Deadline(lastSent, Keepalive) \in Nat
        BY <1>2, SessionAssumption, SMT DEF Deadline, Never
      <4>. QED  BY <1>1, <4>1, <4>2, <4>3
    <3>. QED  BY <3>2, <3>3
  <2>2. CASE ~(ready /\ Pings)
    <3>1. KeepaliveDue(ready, stamp) = Never
      BY <2>2, Zenon DEF KeepaliveDue
    <3>. QED  BY <1>1, <1>2, <3>1
  <2>. QED  BY <2>1, <2>2
<1>. HIDE DEF due
<1>9. SendIf(due /\ ~ready /\ ~cfg.raw, sender, "user_list", "UserList") = sender
  BY <1>7, Zenon DEF SendIf
<1>10. sender' = SendIf(r >= KeepaliveDue(ready \/ due, stamp), sender, "ping", "Keepalive")
  BY <1>9, Zenon DEF TickLoggedIn, due
<1>11. (ready \/ due) = ready
  BY <1>1, <1>7, Zenon DEF SettleType
<1>12. sender' = sender
  BY <1>8, <1>10, <1>11, Zenon DEF SendIf
<1>13. events' = <<>>
  BY <1>7, Zenon DEF TickLoggedIn, due
<1>. QED  BY <1>3, <1>12, <1>13

\* At the deadline it does something, unless a send since the last reading put
\* the deadline off.
LEMMA DueTickActs ==
  ASSUME IInv, NEW r \in Readings, TickLoggedIn(r), ~(r < NextDeadline), ~unstamped
  PROVE  sender' # sender \/ events' # <<>>
<1>. DEFINE dueBy == KeepaliveDue(ready, lastSent)
<1>1. ClockType /\ SettleType /\ r \in Nat /\ r < Never
  BY ReadingFacts DEF IInv, TypeOK, ClockType
<1>2. lastSent \in Nat /\ agreementAt \in Nat /\ Keepalive \in Nat /\ Never \in Nat
  BY <1>1, SessionAssumption, SMT DEF ClockType, SettleType, Times, Never
<1>3. st = "LoggedIn" /\ sender.out \in Seq(Sent) /\ "ping" \in Sent
  BY DEF TickLoggedIn, IInv, TypeOK, IsSender, Sent
<1>4. dueBy \in Nat
  BY <1>1, <1>2, SessionAssumption, SMT DEF KeepaliveDue, Deadline, Never
<1>5. NextDeadline = IF dueBy < agreementAt THEN dueBy ELSE agreementAt
  BY <1>3, Zenon DEF NextDeadline
<1>. HIDE DEF dueBy
<1>6. r >= dueBy \/ r >= agreementAt
  BY <1>1, <1>2, <1>4, <1>5
<1>7. CASE r >= agreementAt
  <2>1. agreementAt # Never
    BY <1>1, <1>2, <1>7
  <2>2. ~ready
    BY <2>1, Zenon DEF IInv, WaitEndsOnce
  <2>3. events' = <<Event("Ready", 0)>>
    BY <1>7, <2>2, Zenon DEF TickLoggedIn
  <2>. QED  BY <2>3
<1>8. CASE ~(r >= agreementAt)
  <2>1. r >= KeepaliveDue(ready, lastSent)
    BY <1>6, <1>8 DEF dueBy
  <2>2. SendIf(r >= agreementAt /\ ~ready /\ ~cfg.raw, sender, "user_list", "UserList") = sender
    BY <1>8, Zenon DEF SendIf
  <2>3. sender' = SendIf(r >= KeepaliveDue(ready \/ r >= agreementAt, lastSent), sender, "ping", "Keepalive")
    BY <2>2, Zenon DEF TickLoggedIn
  <2>4. (ready \/ r >= agreementAt) = ready
    BY <1>1, <1>8, Zenon DEF SettleType
  <2>5. sender' = Send(sender, "ping", "Keepalive")
    BY <2>1, <2>3, <2>4, Zenon DEF SendIf
  <2>. QED  BY <1>3, <2>5, SendChanges
<1>. QED  BY <1>7, <1>8

\* next_deadline() is exact: a caller that sleeps until then and ticks misses no
\* timer and is never woken for nothing, but once after a send.
THEOREM DeadlineIsExact == Spec => TickExactlyAtDeadline
<1>. DEFINE Exact(r) == IF r < NextDeadline
              THEN st' = st /\ sender' = sender /\ events' = <<>>
              ELSE unstamped \/ st' # st \/ sender' # sender \/ events' # <<>>
<1>1. ASSUME IInv, NEW r \in Readings, Tick(r) PROVE Exact(r)
  <2>1. r \in Nat /\ r < Never /\ Never \in Nat /\ handshakeAt \in Nat
    BY <1>1, ReadingFacts, SessionAssumption, SMT DEF IInv, TypeOK, ClockType, Times, Never
  <2>2. CASE TickHandshake(r)
    <3>1. NextDeadline = handshakeAt
      BY <2>2 DEF TickHandshake, NextDeadline
    <3>2. CASE r < handshakeAt
      <4>1. ~(r >= handshakeAt)
        BY <2>1, <3>2
      <4>. QED  BY <2>2, <3>1, <3>2, <4>1 DEF TickHandshake
    <3>3. CASE ~(r < handshakeAt)
      <4>1. st' # st
        BY <2>2, <3>3 DEF TickHandshake, Close
      <4>. QED  BY <3>1, <3>3, <4>1
    <3>. QED  BY <3>2, <3>3
  <2>3. CASE TickLoggedIn(r)
    BY <1>1, <2>3, EarlyTick, DueTickActs, Zenon
  <2>4. CASE TickClosed(r)
    <3>1. NextDeadline = Never
      BY <2>4 DEF TickClosed, NextDeadline
    <3>. QED  BY <2>1, <2>4, <3>1 DEF TickClosed
  <2>. QED  BY <1>1, <2>2, <2>3, <2>4 DEF Tick
<1>2. ASSUME IInv, [Next]_vars PROVE [\A r \in Readings : Tick(r) => Exact(r)]_vars
  BY <1>1, <1>2
<1>. QED  BY <1>2, InvariantHolds, PTL DEF Spec, TickExactlyAtDeadline

----------------------------------------------------------------------------
(* The wait for an agreement.                                              *)

\* What SilentUntilSettled says of a step.
Silent ==
  Sends /\ st' = "LoggedIn" /\ version' # 0 /\ ~cfg.raw =>
    \/ agreed'
    \/ now' >= loginAt' + AgreementWait /\ ~(awaiting /\ ~ready)

LEMMA AgreeIfNot ==
  ASSUME NEW cond, ~cond, NEW s
  PROVE  AgreeIf(cond, s) = s
BY Zenon DEF AgreeIf, SendIf

LEMMA SendsMore == (sender' = sender \/ sender'.out = sender.out) => ~Sends
<1>. SUFFICES ASSUME sender'.out = sender.out, Sends PROVE FALSE
  OBVIOUS
<1>1. Len(sender.out) > Len(sender.out)
  BY DEF Sends
<1>. QED  BY <1>1, SMT

LEMMA NowGrows ==
  ASSUME ClockType, Next
  PROVE  now' \in Nat /\ now' >= now
<1>1. now \in Nat
  BY DEF ClockType
<1>2. \/ \E r \in Readings : now' = NowAt(r)
      \/ now' = now
  BY ClockCalls, Zenon DEF Clock, StampLater, timeVars
<1>3. ASSUME NEW r \in Readings PROVE NowAt(r) \in Nat /\ NowAt(r) >= now
  BY ReadingFacts DEF ClockType
<1>. QED  BY <1>1, <1>2, <1>3

\* The session was settled as it is now, and the clock has not gone back.
LEMMA StaysSettled ==
  ASSUME WaitFromLogin, ClockType, Next,
         UNCHANGED <<settleVars, version, loginAt, cfg>>, st' = "Closed" \/ st' = st,
         Sends => ready \/ cfg.raw
  PROVE  WaitFromLogin' /\ Silent
<1>1. now' \in Nat /\ now' >= now /\ now \in Nat /\ loginAt \in Nat /\ AgreementWait \in Nat
  BY NowGrows, SessionAssumption, SMT DEF ClockType, Times, Never
<1>2. agreementAt' = agreementAt /\ ready' = ready /\ agreed' = agreed /\ awaiting' = awaiting
  BY DEF settleVars
<1>3. now >= loginAt + AgreementWait => now' >= loginAt + AgreementWait
  BY <1>1
<1>4. WaitFromLogin'
  BY <1>2, <1>3, Zenon DEF WaitFromLogin
<1>5. Silent
  BY <1>2, <1>3, Zenon DEF Silent, WaitFromLogin
<1>. QED  BY <1>4, <1>5

\* The login starts the wait, or an agreement that came early ends it.
LEMMA LoginWaits ==
  ASSUME ClockType, SettleType, Unsettled, st = "Login",
         NEW v \in Nat, NEW r \in Readings, NEW whole, LogIn(v, r, whole)
  PROVE  WaitFromLogin' /\ Silent
<1>1. version' = v
  BY DEF LogIn
<1>2. CASE v = 0
  BY <1>1, <1>2, Zenon DEF WaitFromLogin, Silent
<1>3. CASE v # 0
  <2>. DEFINE u == TakeUnasked(Replayed, v, sender, AgreementDeadline(v, NowAt(r)))
              k == Answered(Replayed, v)
  <2>1. SendIf(v = 0 /\ nickFits, sender, "user_change", "Quiet") = sender
    BY <1>3, Zenon DEF SendIf
  <2>2. /\ sender' = SendIf((v = 0 /\ ~u.ready) /\ ~cfg.raw, u.sender, "user_list", "UserList")
        /\ agreementAt' = u.agreementAt /\ agreed' = u.agreed
        /\ ready' = (u.ready \/ (v = 0 /\ ~u.ready))
        /\ loginAt' = NowAt(r)
    BY <2>1, Zenon DEF LogIn
  <2>3. sender' = u.sender
    BY <1>3, <2>2, Zenon DEF SendIf
  <2>4. ~ready /\ ~agreed
    BY DEF Unsettled
  <2>5. /\ u.sender = AgreeIf(k # 0, sender) /\ u.agreed = (agreed \/ k # 0)
        /\ u.ready = (ready \/ k # 0)
    BY DEF TakeUnasked
  <2>6. u.agreementAt \in {Never, AgreementDeadline(v, NowAt(r))}
    BY Zenon DEF TakeUnasked, WaitAfter
  <2>7. AgreementDeadline(v, NowAt(r)) = Deadline(NowAt(r), AgreementWait)
    BY <1>3, Zenon DEF AgreementDeadline
  <2>. HIDE DEF u, k
  <2>8. ready' => agreed'
    BY <1>3, <2>2, <2>4, <2>5, Zenon
  <2>9. WaitFromLogin'
    BY <2>2, <2>6, <2>7, <2>8, Zenon DEF WaitFromLogin
  <2>10. CASE k = 0
    <3>1. sender' = sender
      BY <2>3, <2>5, <2>10, AgreeIfNot
    <3>. QED  BY <2>9, <3>1, SendsMore DEF Silent
  <2>11. CASE k # 0
    <3>1. agreed'
      BY <2>2, <2>5, <2>11, Zenon
    <3>. QED  BY <2>9, <3>1 DEF Silent
  <2>. QED  BY <2>10, <2>11
<1>. QED  BY <1>2, <1>3

\* An agreement that comes later is answered, or leaves all as it is but the wait.
LEMMA UnaskedWaits ==
  ASSUME ClockType, SettleType, WaitFromLogin, FeedUnasked
  PROVE  WaitFromLogin' /\ Silent
<1>1. PICK f \in Frames :
        LET u == TakeUnasked(<<Numbered(Completed(f).type)>>, version, sender, agreementAt)
        IN  /\ sender' = u.sender
            /\ agreementAt' = u.agreementAt
            /\ agreed' = u.agreed /\ ready' = u.ready
  BY Zenon DEF FeedUnasked
<1>. DEFINE q == <<Numbered(Completed(f).type)>>
            u == TakeUnasked(q, version, sender, agreementAt)
            k == Answered(q, version)
<1>2. /\ sender' = u.sender /\ agreementAt' = u.agreementAt
      /\ agreed' = u.agreed /\ ready' = u.ready
  BY <1>1
<1>3. UNCHANGED <<st, version, loginAt, cfg>>
  BY DEF FeedUnasked
<1>4. now' \in Nat /\ now' >= now /\ now \in Nat /\ loginAt \in Nat /\ AgreementWait \in Nat
  <2>1. Next
    BY DEF Next, Feed
  <2>. QED  BY <2>1, NowGrows, SessionAssumption, SMT DEF ClockType, Times, Never
<1>5. /\ u.sender = AgreeIf(k # 0, sender) /\ u.agreed = (agreed \/ k # 0)
      /\ u.ready = (ready \/ k # 0)
  BY DEF TakeUnasked
<1>6. u.agreementAt \in {Never, agreementAt}
  BY Zenon DEF TakeUnasked, WaitAfter
<1>. HIDE DEF u, k
<1>7. now >= loginAt + AgreementWait => now' >= loginAt + AgreementWait
  BY <1>4
<1>8. ASSUME st = "LoggedIn", version # 0
      PROVE  agreementAt' \in {Never, Deadline(loginAt, AgreementWait)}
  BY <1>2, <1>6, <1>8 DEF WaitFromLogin
<1>9. CASE k = 0
  <2>1. sender' = sender
    BY <1>2, <1>5, <1>9, AgreeIfNot
  <2>2. agreed' = agreed /\ ready' = ready
    BY <1>2, <1>5, <1>9 DEF SettleType
  <2>3. WaitFromLogin'
    BY <1>3, <1>7, <1>8, <2>2, Zenon DEF WaitFromLogin
  <2>. QED  BY <2>1, <2>3, SendsMore DEF Silent
<1>10. CASE k # 0
  <2>1. agreed'
    BY <1>2, <1>5, <1>10, Zenon
  <2>2. WaitFromLogin'
    BY <1>3, <1>8, <2>1, Zenon DEF WaitFromLogin
  <2>. QED  BY <2>1, <2>2 DEF Silent
<1>. QED  BY <1>9, <1>10

\* tick() goes on without an agreement once the wait for it is over, and pings a
\* session that is ready.
LEMMA TickWaits ==
  ASSUME IInv, WaitFromLogin, NEW r \in Readings, Tick(r), TickLoggedIn(r)
  PROVE  WaitFromLogin' /\ Silent
<1>. DEFINE due == r >= agreementAt
<1>1. ClockType /\ SettleType
  BY DEF IInv, TypeOK
<1>2. /\ r \in Nat /\ r < Never /\ Never \in Nat /\ agreementAt \in Nat
      /\ now \in Nat /\ loginAt \in Nat /\ AgreementWait \in Nat
      /\ NowAt(r) \in Nat /\ NowAt(r) >= r /\ NowAt(r) >= now
  BY <1>1, ReadingFacts, SessionAssumption, SMT DEF ClockType, SettleType, Times, Never
<1>3. UNCHANGED <<version, loginAt, cfg, st, awaiting, agreed>> /\ st = "LoggedIn"
  BY DEF Tick, TickLoggedIn
<1>4. now' = NowAt(r)
  BY Zenon DEF TickLoggedIn, Clock
<1>5. agreementAt' = (IF due THEN Never ELSE agreementAt) /\ ready' = (ready \/ due)
  BY Zenon DEF TickLoggedIn
<1>6. ASSUME due, version # 0
      PROVE  now' >= loginAt + AgreementWait /\ ~awaiting
  <2>1. agreementAt # Never
    BY <1>2, <1>6
  <2>2. ~awaiting
    BY <2>1, Zenon DEF IInv, WaitEndsOnce
  <2>3. agreementAt = Deadline(loginAt, AgreementWait)
    BY <1>3, <1>6, <2>1, Zenon DEF WaitFromLogin
  <2>4. r >= loginAt + AgreementWait
    BY <1>2, <1>6, <2>3, DeadlineReached
  <2>. QED  BY <1>2, <1>4, <2>2, <2>4
<1>7. now >= loginAt + AgreementWait => now' >= loginAt + AgreementWait
  BY <1>2, <1>4
<1>8. CASE due
  <2>1. WaitFromLogin'
    BY <1>3, <1>5, <1>6, <1>8, Zenon DEF WaitFromLogin
  <2>2. Silent
    BY <1>3, <1>6, <1>8, Zenon DEF Silent
  <2>. QED  BY <2>1, <2>2
<1>9. CASE ~due
  <2>1. agreementAt' = agreementAt /\ ready' = ready
    BY <1>1, <1>5, <1>9, Zenon DEF SettleType
  <2>2. WaitFromLogin'
    BY <1>3, <1>7, <2>1, Zenon DEF WaitFromLogin
  <2>3. CASE ready
    BY <1>3, <1>7, <2>2, <2>3, Zenon DEF Silent, WaitFromLogin
  <2>4. CASE ~ready
    <3>. HIDE DEF due
    <3>1. SendIf(due /\ ~ready /\ ~cfg.raw, sender, "user_list", "UserList") = sender
      BY <1>9, Zenon DEF SendIf
    <3>2. \E stamp : sender' = SendIf(r >= KeepaliveDue(ready \/ due, stamp), sender, "ping", "Keepalive")
      BY <3>1, Zenon DEF TickLoggedIn, due
    <3>3. PICK stamp : sender' = SendIf(r >= KeepaliveDue(ready \/ due, stamp), sender, "ping", "Keepalive")
      BY <3>2
    <3>4. KeepaliveDue(ready \/ due, stamp) = Never
      BY <1>9, <2>4, Zenon DEF KeepaliveDue
    <3>5. ~(r >= Never)
      BY <1>2
    <3>6. sender' = sender
      BY <3>3, <3>4, <3>5, Zenon DEF SendIf
    <3>. QED  BY <2>2, <3>6, SendsMore DEF Silent
  <2>. QED  BY <2>3, <2>4
<1>. QED  BY <1>8, <1>9

LEMMA WaitStep ==
  ASSUME IInv, WaitFromLogin, Next
  PROVE  WaitFromLogin' /\ Silent
<1>. DEFINE Same == /\ UNCHANGED <<settleVars, version, loginAt, cfg>>
                    /\ st' = "Closed" \/ st' = st
<1>1. ClockType /\ SettleType /\ Unsettled
  BY DEF IInv, TypeOK
<1>2. ASSUME Same, Sends => ready \/ cfg.raw PROVE WaitFromLogin' /\ Silent
  BY <1>1, <1>2, StaysSettled
<1>3. CASE FeedUndecodable \/ FeedClosed \/ FeedTooLarge \/ FeedFragment \/ FeedReply \/ Disconnected
  <2>1. Same
    BY <1>3, Zenon DEF FeedUndecodable, FeedClosed, FeedTooLarge, FeedFragment, FeedReply,
       Disconnected, Close
  <2>2. \/ sender' = sender \/ sender' = Emptied(sender)
        \/ \E ts, how : sender' = Settled(sender, ts, how)
    BY <1>3, Zenon DEF FeedUndecodable, FeedClosed, FeedTooLarge, FeedFragment, FeedReply,
       Disconnected, Close
  <2>3. ~Sends
    BY <2>2, SendsMore, SameQueue
  <2>. QED  BY <1>2, <2>1, <2>3
<1>4. CASE FeedMagic \/ FeedHopeReply \/ FeedEarly
  <2>1. st' # "LoggedIn"
    BY <1>4, Zenon DEF FeedMagic, FeedHopeReply, FeedEarly, Close
  <2>. QED  BY <2>1, Zenon DEF WaitFromLogin, Silent
<1>5. CASE FeedLoginReply
  <2>1. \/ st' = "Closed"
        \/ st = "Login" /\ \E v \in Versions, r \in Readings : \E whole : LogIn(v, r, whole)
    BY <1>5, Zenon DEF FeedLoginReply, Close
  <2>2. CASE st' = "Closed"
    <3>1. st' # "LoggedIn"
      BY <2>2
    <3>. QED  BY <3>1, Zenon DEF WaitFromLogin, Silent
  <2>3. ASSUME NEW v \in Versions, NEW r \in Readings, NEW whole, LogIn(v, r, whole), st = "Login"
        PROVE  WaitFromLogin' /\ Silent
    <3>1. v \in Nat
      BY SessionAssumption
    <3>. QED  BY <1>1, <2>3, <3>1, LoginWaits
  <2>. QED  BY <2>1, <2>2, <2>3
<1>6. CASE FeedUnasked
  BY <1>1, <1>6, UnaskedWaits
<1>7. ASSUME NEW r \in Readings, Tick(r) PROVE WaitFromLogin' /\ Silent
  <2>1. CASE TickLoggedIn(r)
    BY <1>7, <2>1, TickWaits
  <2>2. CASE TickHandshake(r) \/ TickClosed(r)
    <3>1. st' # "LoggedIn"
      BY <2>2 DEF TickHandshake, TickClosed, Close
    <3>. QED  BY <3>1, Zenon DEF WaitFromLogin, Silent
  <2>. QED  BY <1>7, <2>1, <2>2 DEF Tick
<1>8. CASE TakeOutgoing
  <2>1. Same
    BY <1>8, Zenon DEF TakeOutgoing
  <2>2. IsSender(sender) /\ IsSender(Emptied(sender)) /\ sender.out \in Seq(Sent)
    <3>1. IsGood(sender)
      BY DEF IInv, TypeOK, PendingBounded, IsGood, Fits
    <3>. QED  BY <3>1, EmptiedKeeps DEF IsGood, IsSender
  <2>3. sender'.out = <<>>
    BY <1>8, <2>2, NewQueue DEF TakeOutgoing
  <2>4. ~Sends
    BY <2>2, <2>3 DEF Sends
  <2>. QED  BY <1>2, <2>1, <2>4
<1>9. CASE Agree
  <2>1. CASE agreed
    <3>1. sender' = sender
      BY <1>9, <2>1, AgreeIfNot DEF Agree
    <3>2. ~Sends
      BY <3>1, SendsMore
    <3>3. Same
      BY <1>9, <2>1, Zenon DEF Agree
    <3>. QED  BY <1>2, <3>2, <3>3
  <2>2. CASE ~agreed
    <3>1. agreed' /\ agreementAt' = Never
      BY <1>9, <2>2, Zenon DEF Agree
    <3>. QED  BY <3>1, Zenon DEF WaitFromLogin, Silent
  <2>. QED  BY <2>1, <2>2
<1>10. CASE CallTakeTrans \/ Advance
  <2>1. Same
    BY <1>10, Zenon DEF CallTakeTrans, Advance
  <2>2. sender' = sender \/ sender'.out = sender.out
    BY <1>10, SameQueue DEF CallTakeTrans, Advance
  <2>. QED  BY <1>2, <2>1, <2>2, SendsMore
<1>11. CASE SendRaw
  <2>1. Same /\ cfg.raw
    BY <1>11, Zenon DEF SendRaw
  <2>. QED  BY <1>2, <2>1
<1>12. ASSUME NEW fits \in Nicks, SetIdentity(fits) PROVE WaitFromLogin' /\ Silent
  <2>1. Same /\ sender' = sender
    BY <1>12, Zenon DEF SetIdentity
  <2>. QED  BY <1>2, <2>1, SendsMore
<1>13. ASSUME NEW pend \in RequestKinds, Request(pend) PROVE WaitFromLogin' /\ Silent
  <2>1. Same /\ ready
    BY <1>13, Zenon DEF Request, EnsureReady
  <2>. QED  BY <1>2, <2>1
<1>14. ASSUME NEW t \in Trans, NEW what, Expect(t, what) PROVE WaitFromLogin' /\ Silent
  <2>1. Same /\ sender' = Expected(sender, t, what)
    BY <1>14, Zenon DEF Expect
  <2>. QED  BY <1>2, <2>1, SendsMore, SameQueue
<1>. QED
  BY <1>3, <1>4, <1>5, <1>6, <1>7, <1>8, <1>9, <1>10, <1>11, <1>12, <1>13, <1>14
     DEF Next, Feed, Caller

\* A 1.5+ server is sent nothing but the answer to its agreement until that is
\* answered or the wait for it, from the login on, is over.
THEOREM SilenceUntilSettled == Spec => SilentUntilSettled
<1>1. Init => WaitFromLogin
  BY DEF Init, WaitFromLogin
<1>2. IInv /\ WaitFromLogin /\ [Next]_vars => WaitFromLogin'
  <2>1. ASSUME WaitFromLogin, UNCHANGED vars PROVE WaitFromLogin'
    BY <2>1, Zenon DEF WaitFromLogin, vars, timeVars, settleVars
  <2>. QED  BY <2>1, WaitStep
<1>3. IInv /\ WaitFromLogin /\ [Next]_vars => [Silent]_vars
  BY WaitStep
<1>. QED  BY <1>1, <1>2, <1>3, InvariantHolds, PTL DEF Spec, SilentUntilSettled, Silent
----------------------------------------------------------------------------
(* The answers, and what is forgotten, until the counter comes round.      *)

\* The joined sequence's elements are of where the parts' are.
LEMMA FlattenType ==
  ASSUME NEW S, NEW n \in Nat, NEW g \in [1 .. n -> Seq(S)]
  PROVE  FlattenSeq(g) \in Seq(S)
<1>1. PICK h : Joins(h, S, g, n)
  BY FlattenSteps
<1>2. /\ h \in [0 .. n -> Seq(S)]
      /\ \A k \in 0 .. n : FlattenSeq([i \in 1 .. k |-> g[i]]) = h[k]
  BY <1>1 DEF Joins
<1>3. n \in 0 .. n /\ g = [i \in 1 .. n |-> g[i]]
  BY SMT
<1>. QED  BY <1>2, <1>3

\* The events that may be answers.
Answering == {"Reply", "MediaDone", "MediaFailed", "CallDone", "UserList"}

\* Those of a call that are answers are to requests of their kind.
Match(es) == \A i \in DOMAIN es : IsAnswer(es[i]) => sender.use[es[i].id] = AnswerTo(es[i].e)

LEMMA MatchIn ==
  ASSUME NEW S, NEW es \in Seq(S),
         \A ev \in S : IsAnswer(ev) => sender.use[ev.id] = AnswerTo(ev.e)
  PROVE  Match(es)
<1>1. \A i \in DOMAIN es : es[i] \in S
  BY ElementOfSeq, LenProperties
<1>. QED  BY <1>1 DEF Match

LEMMA NoAnswers ==
  /\ Match(<<>>)
  /\ \A e, id : e \notin Answering => Match(<<Event(e, id)>>)
<1>1. Match(<<>>)
  BY DEF Match
<1>2. ASSUME NEW e, NEW id, e \notin Answering PROVE Match(<<Event(e, id)>>)
  <2>1. Event(e, id).e = e
    BY DEF Event
  <2>2. ~IsAnswer(Event(e, id))
    BY <1>2, <2>1 DEF IsAnswer, Answering
  <2>. QED  BY <2>2 DEF Match
<1>. QED  BY <1>1, <1>2

\* What a reply is taken for is what its trans was handed out for.
LEMMA AwaitedFor ==
  ASSUME CountsUp(sender), ~Lapped, NEW t, Awaited(sender.pending, t) # "none"
  PROVE  sender.use[t] = Awaited(sender.pending, t)
BY DEF CountsUp, Lapped, Awaited

\* reply(): each kind of answer comes of a request of that kind.
LEMMA ReplyMatches ==
  ASSUME CountsUp(sender), ~Lapped, NEW type, NEW t
  PROVE  Match(ReplyEvents(type, t))
<1>. DEFINE p == Awaited(sender.pending, t)
<1>1. ASSUME NEW e, e \in Answering, IsAnswer(Event(e, t)) => p # "none" /\ p = AnswerTo(e)
      PROVE  Match(<<Event(e, t)>>)
  <2>1. Event(e, t).e = e /\ Event(e, t).id = t
    BY DEF Event
  <2>2. IsAnswer(Event(e, t)) => sender.use[t] = AnswerTo(e)
    BY <1>1, AwaitedFor
  <2>. QED  BY <2>1, <2>2 DEF Match
<1>2. /\ "Failed" \notin Answering
      /\ {"Reply", "MediaDone", "MediaFailed", "CallDone", "UserList"} \subseteq Answering
  BY DEF Answering
<1>3. /\ AnswerTo("MediaDone") = "Media" /\ AnswerTo("MediaFailed") = "Media"
      /\ AnswerTo("CallDone") = "Call" /\ AnswerTo("UserList") = "UserList"
      /\ AnswerTo("Reply") = "Raw"
  BY DEF AnswerTo
<1>4. cfg.raw => ~IsAnswer(Event("Reply", t))
  BY DEF IsAnswer, Event
<1>5. Match(<<FailEvent(t, p)>>)
  <2>1. CASE p = "Media"
    BY <1>1, <1>2, <1>3, <2>1 DEF FailEvent
  <2>2. CASE p # "Media"
    BY <1>2, <2>2, NoAnswers DEF FailEvent
  <2>. QED  BY <2>1, <2>2
<1>6. Match(SuccessEvents(type, t, p))
  <2>1. CASE p = "Raw"
    BY <1>1, <1>2, <1>3, <2>1 DEF SuccessEvents
  <2>2. CASE p = "UserList"
    BY <1>1, <1>2, <1>3, <2>2 DEF SuccessEvents
  <2>3. CASE p = "Media"
    <3>1. Match(<<Event("MediaFailed", t)>>) /\ Match(<<Event("MediaDone", t)>>)
      BY <1>1, <1>2, <1>3, <2>3
    <3>. QED  BY <2>3, <3>1 DEF SuccessEvents
  <2>4. CASE p = "Call"
    <3>1. Match(<<Event("CallDone", t)>>)
      BY <1>1, <1>2, <1>3, <2>4
    <3>2. Match(<<Event("Failed", t)>>)
      BY <1>2, NoAnswers
    <3>. QED  BY <2>4, <3>1, <3>2 DEF SuccessEvents
  <2>5. CASE p \notin {"Raw", "UserList", "Media", "Call"}
    BY <2>5, NoAnswers DEF SuccessEvents
  <2>. QED  BY <2>1, <2>2, <2>3, <2>4, <2>5
<1>7. cfg.raw => Match(<<Event("Reply", t)>>)
  BY <1>1, <1>2, <1>4
<1>. QED  BY <1>5, <1>6, <1>7, NoAnswers DEF ReplyEvents

\* take_abandoned(): what a split reply that was given up on was for, fails.
LEMMA AbandonMatches ==
  ASSUME CountsUp(sender), ~Lapped, NEW ts \in Seq(Trans)
  PROVE  Match(FlattenSeq([i \in DOMAIN ts |-> AbandonEvents(ts[i])]))
<1>. DEFINE n == Len(ts)
            All == {Event(e, t) : e \in {"Failed", "MediaFailed"}, t \in Trans}
            S == {ev \in All : IsAnswer(ev) => sender.use[ev.id] = AnswerTo(ev.e)}
            g == [i \in 1 .. n |-> AbandonEvents(ts[i])]
<1>1. n \in Nat /\ DOMAIN ts = 1 .. n /\ \A i \in 1 .. n : ts[i] \in Trans
  BY LenProperties, ElementOfSeq
<1>2. ASSUME NEW t \in Trans PROVE AbandonEvents(t) \in Seq(S)
  <2>. DEFINE p == Awaited(sender.pending, t)
              ev == FailEvent(t, p)
  <2>1. ev \in All
    BY DEF FailEvent
  <2>2. ev.id = t /\ ev.e = IF p = "Media" THEN "MediaFailed" ELSE "Failed"
    BY DEF FailEvent, Event
  <2>3. IsAnswer(ev) => p = "Media" /\ AnswerTo(ev.e) = "Media"
    BY <2>2 DEF IsAnswer, AnswerTo
  <2>4. ev \in S
    BY <2>1, <2>2, <2>3, AwaitedFor
  <2>5. AbandonEvents(t) \in {<<>>, <<ev>>}
    BY Zenon DEF AbandonEvents
  <2>. HIDE DEF S, ev
  <2>. QED  BY <2>4, <2>5, SeqOfOne
<1>. HIDE DEF S
<1>3. g \in [1 .. n -> Seq(S)]
  <2>. HIDE DEF n
  <2>. QED  BY <1>1, <1>2
<1>4. FlattenSeq(g) \in Seq(S)
  <2>. HIDE DEF g, n
  <2>. QED  BY <1>1, <1>3, FlattenType
<1>5. \A ev \in S : IsAnswer(ev) => sender.use[ev.id] = AnswerTo(ev.e)
  BY DEF S
<1>6. Match(FlattenSeq(g))
  <2>. HIDE DEF g
  <2>. QED  BY <1>4, <1>5, MatchIn
<1>. QED  BY <1>1, <1>6

\* agreement() and the pushes are no answers.
LEMMA UnaskedMatches ==
  ASSUME IInv, FeedUnasked
  PROVE  Match(events')
<1>1. ReaderType
  BY DEF IInv, TypeOK
<1>2. PICK type \in Unasked : \E at : events' = TakeUnasked(<<Numbered(type)>>, version, sender, at).events
  BY Zenon DEF FeedUnasked
<1>. DEFINE q == <<Numbered(type)>>
            k == Answered(q, version)
            g == [i \in 1 .. 1 |-> UnaskedEvents(q, k, i)]
<1>3. q[1].id \in Nat /\ (1 \in Waiting(q) <=> q[1].id # 0) /\ DOMAIN q = 1 .. 1
  BY <1>1, SMT DEF ReaderType, Numbered, Push, Agreement, Waiting
<1>4. UnaskedEvents(q, k, 1) \in Seq(Told)
  <2>1. 1 \in DOMAIN q
    BY <1>3, 1 \in 1 .. 1
  <2>. HIDE DEF q, k
  <2>. QED  BY <1>3, <2>1, UnaskedHands
<1>5. events' = FlattenSeq(g)
  BY <1>2, <1>3 DEF TakeUnasked
<1>6. FlattenSeq(g) \in Seq(Told)
  <2>1. 1 \in Nat /\ g \in [1 .. 1 -> Seq(Told)]
    <3>. HIDE DEF q, k
    <3>. QED  BY <1>4
  <2>. HIDE DEF g
  <2>. QED  BY <2>1, FlattenType
<1>7. \A ev \in Told : ~IsAnswer(ev)
  BY DEF Told, Event, IsAnswer
<1>. QED  BY <1>5, <1>6, <1>7, MatchIn

\* No other call says any.
LEMMA OthersMatch ==
  ASSUME Next, ~FeedFragment, ~FeedReply, ~FeedLoginReply, ~FeedUnasked
  PROVE  Match(events') \/ UNCHANGED vars
<1>. DEFINE Single(e, id) == e \notin Answering /\ events' = <<Event(e, id)>>
<1>1. \A e, id : Single(e, id) => Match(events')
  BY NoAnswers
<1>2. events' = <<>> => Match(events')
  BY NoAnswers
<1>3. ASSUME NEW why \in Closings, Close(why, <<>>) PROVE Match(events')
  <2>1. events' = <<Event(why, 0)>> /\ why \notin Answering
    BY <1>3 DEF Close, Closings, Answering
  <2>. QED  BY <1>1, <2>1
<1>4. {"BadMagic", "LoginRefused", "Timeout", "Protocol", "TooLarge", "Hangup"} \subseteq Closings
  BY DEF Closings
<1>5. "Ready" \notin Answering /\ "Protocol" \notin Answering
  BY DEF Answering
<1>6. CASE FeedMagic \/ FeedUndecodable \/ FeedTooLarge \/ Disconnected \/ FeedHopeReply \/ FeedEarly
  BY <1>2, <1>3, <1>4, <1>6 DEF FeedMagic, FeedUndecodable, FeedTooLarge, Disconnected,
     FeedHopeReply, FeedEarly
<1>7. CASE FeedClosed \/ CallTakeTrans \/ SendRaw \/ Advance
  BY <1>2, <1>7 DEF FeedClosed, CallTakeTrans, SendRaw, Advance
<1>8. ASSUME NEW r \in Readings, Tick(r) PROVE Match(events')
  <2>1. CASE TickHandshake(r)
    BY <1>2, <1>3, <1>4, <2>1 DEF TickHandshake
  <2>2. CASE TickLoggedIn(r) \/ TickClosed(r)
    <3>1. events' = <<>> \/ events' = <<Event("Ready", 0)>>
      BY <2>2, Zenon DEF TickLoggedIn, TickClosed
    <3>. QED  BY <1>1, <1>2, <1>5, <3>1
  <2>. QED  BY <1>8, <2>1, <2>2 DEF Tick
<1>9. CASE TakeOutgoing
  <2>1. events' = <<>> \/ events' = <<Event("Protocol", 0)>>
    BY <1>9, Zenon DEF TakeOutgoing
  <2>. QED  BY <1>1, <1>2, <1>5, <2>1
<1>10. CASE Agree
  <2>1. CASE agreed
    <3>1. AgreeIf(~agreed, sender) = sender
      BY <2>1 DEF AgreeIf, SendIf
    <3>. QED  BY <1>10, <2>1, <3>1 DEF Agree, vars
  <2>2. CASE ~agreed
    <3>1. events' = <<>> \/ events' = <<Event("Ready", 0)>>
      BY <1>10, <2>2, Zenon DEF Agree
    <3>. QED  BY <1>1, <1>2, <1>5, <3>1
  <2>. QED  BY <2>1, <2>2
<1>11. ASSUME NEW fits, SetIdentity(fits) PROVE Match(events')
  BY <1>2, <1>11 DEF SetIdentity
<1>12. ASSUME NEW pend, Request(pend) PROVE Match(events')
  BY <1>2, <1>12 DEF Request
<1>13. ASSUME NEW t, NEW what, Expect(t, what) PROVE Match(events')
  BY <1>2, <1>13 DEF Expect
<1>. QED
  BY <1>6, <1>7, <1>8, <1>9, <1>10, <1>11, <1>12, <1>13, Zenon DEF Next, Feed, Caller

\* reply(), fail(), take_abandoned(): until the counter comes round, an answer is to a
\* request of its kind that has had none, whatever the server answers, however often
\* and however split.
THEOREM AnswersAlwaysMatch == Spec /\ []~Lapped => AnswersMatchRequests
<1>. DEFINE A == \A i \in DOMAIN events' :
                   IsAnswer(events'[i]) /\ st \notin {"Login", "HopeStep1"} =>
                     sender.use[events'[i].id] = AnswerTo(events'[i].e)
<1>1. ASSUME IInv, ~Lapped, [Next]_vars PROVE [A]_vars
  <2>1. Match(events') => A
    BY DEF Match
  <2>2. CASE FeedFragment
    <3>1. PICK f \in Frames :
            events' = FlattenSeq([i \in DOMAIN Accept(partials, f).abandoned |->
                                    AbandonEvents(Accept(partials, f).abandoned[i])])
      BY <2>2, Zenon DEF FeedFragment
    <3>2. Accept(partials, f).abandoned \in Seq(Trans)
      <4>1. /\ partials \in Seq(Partial(Replies \cup Unasked, Trans, {0})) /\ Tidy(partials)
            /\ f \in Framed(Replies \cup Unasked, Trans, {0})
        BY <1>1, SessionAssumption DEF IInv, TypeOK, ReaderType, OnePartialPerTrans
      <4>. QED  BY <4>1, AcceptKeepsTidy
    <3>. QED  BY <1>1, <2>1, <3>1, <3>2, AbandonMatches DEF IInv
  <2>3. CASE FeedReply
    <3>1. PICK type, t : events' = ReplyEvents(type, t)
      BY <2>3, Zenon DEF FeedReply
    <3>. QED  BY <1>1, <2>1, <3>1, ReplyMatches DEF IInv
  <2>4. CASE FeedLoginReply
    BY <2>4 DEF FeedLoginReply
  <2>5. CASE FeedUnasked
    BY <1>1, <2>1, <2>5, UnaskedMatches
  <2>6. CASE Next /\ ~FeedFragment /\ ~FeedReply /\ ~FeedLoginReply /\ ~FeedUnasked
    BY <2>1, <2>6, OthersMatch
  <2>. QED  BY <1>1, <2>2, <2>3, <2>4, <2>5, <2>6
<1>. QED  BY <1>1, InvariantHolds, PTL DEF Spec, AnswersMatchRequests

\* What sends alone make of a sender: they go on from it, and what they drop from the
\* table is what was handed out before some place, and what they keep is not.
Unused(s) == \E t \in Trans \ {0} : s.use[t] = "free"
CutsAt(s, next, n) ==
  n \in Int /\ \A t \in DOMAIN s.pending : t \in DOMAIN next.pending <=> Place(t) >= n
Follows(s, next) ==
  Unused(next) =>
    /\ Unused(s) /\ Place(s.trans) <= Place(next.trans)
    /\ \A t \in DOMAIN next.pending \ DOMAIN s.pending : Place(t) >= Place(s.trans)
    /\ \E n : CutsAt(s, next, n)

\* What is awaited was handed out before the counter's trans.
LEMMA AwaitedBefore ==
  ASSUME NEW s, IsGood(s), Unused(s)
  PROVE  /\ s.trans \in Trans \ {0} /\ Place(s.trans) \in Nat
         /\ \A t \in DOMAIN s.pending :
              t \in Trans \ {0} /\ Place(t) \in Nat /\ Place(t) < Place(s.trans)
<1>1. s.trans \in Trans \ {0} /\ Place(s.trans) \in Nat
  BY PlaceCounts DEF IsGood, IsSender
<1>2. ASSUME NEW t \in DOMAIN s.pending
      PROVE  t \in Trans \ {0} /\ Place(t) \in Nat /\ Place(t) < Place(s.trans)
  <2>1. t \in Trans \ {0} /\ s.use[t] # "free"
    BY DEF IsGood, IsSender, IsTable, CountsUp
  <2>2. Place(t) \in Nat
    BY <2>1, PlaceCounts
  <2>3. ~(Place(t) >= Place(s.trans))
    BY <2>1 DEF IsGood, CountsUp, Unused
  <2>. QED  BY <1>1, <2>1, <2>2, <2>3, SMT
<1>. QED  BY <1>1, <1>2

LEMMA FollowsItself ==
  ASSUME NEW s, IsGood(s)
  PROVE  Follows(s, s)
<1>1. SUFFICES ASSUME Unused(s) PROVE Place(s.trans) <= Place(s.trans) /\ CutsAt(s, s, 0)
  BY DEF Follows
<1>. QED  BY <1>1, AwaitedBefore, SMT DEF CutsAt

LEMMA FollowsOn ==
  ASSUME NEW s, IsGood(s), NEW a, IsGood(a), NEW b, IsGood(b), Follows(s, a), Follows(a, b)
  PROVE  Follows(s, b)
<1>1. SUFFICES ASSUME Unused(b)
               PROVE  /\ Unused(s) /\ Place(s.trans) <= Place(b.trans)
                      /\ \A t \in DOMAIN b.pending \ DOMAIN s.pending : Place(t) >= Place(s.trans)
                      /\ \E n : CutsAt(s, b, n)
  BY DEF Follows
<1>2. /\ Unused(a) /\ Place(a.trans) <= Place(b.trans)
      /\ \A t \in DOMAIN b.pending \ DOMAIN a.pending : Place(t) >= Place(a.trans)
  BY <1>1 DEF Follows
<1>3. /\ Unused(s) /\ Place(s.trans) <= Place(a.trans)
      /\ \A t \in DOMAIN a.pending \ DOMAIN s.pending : Place(t) >= Place(s.trans)
  BY <1>2 DEF Follows
<1>4. PICK n : CutsAt(s, a, n)
  BY <1>2 DEF Follows
<1>5. PICK m : CutsAt(a, b, m)
  BY <1>1 DEF Follows
<1>6. /\ Place(s.trans) \in Nat /\ Place(a.trans) \in Nat
      /\ \A t \in DOMAIN s.pending : Place(t) \in Nat /\ Place(t) < Place(s.trans)
  BY <1>2, <1>3, AwaitedBefore
<1>7. n \in Int /\ m \in Int
  BY <1>4, <1>5 DEF CutsAt
<1>8. Place(s.trans) <= Place(b.trans)
  <2>1. Place(b.trans) \in Nat
    BY <1>1, AwaitedBefore
  <2>. QED  BY <1>2, <1>3, <1>6, <2>1, SMT
<1>. DEFINE most == IF n <= m THEN m ELSE n
<1>9. CutsAt(s, b, most)
  <2>1. ASSUME NEW t \in DOMAIN s.pending PROVE t \in DOMAIN b.pending <=> Place(t) >= most
    <3>1. Place(t) \in Nat /\ Place(t) < Place(s.trans)
      BY <1>6
    <3>2. t \in DOMAIN a.pending <=> Place(t) >= n
      BY <1>4 DEF CutsAt
    <3>3. t \in DOMAIN a.pending => (t \in DOMAIN b.pending <=> Place(t) >= m)
      BY <1>5 DEF CutsAt
    <3>4. t \notin DOMAIN a.pending => t \notin DOMAIN b.pending
      BY <1>2, <1>3, <1>6, <3>1, SMT
    <3>. QED  BY <1>7, <3>1, <3>2, <3>3, <3>4, SMT
  <2>2. most \in Int
    BY <1>7
  <2>. QED  BY <2>1, <2>2 DEF CutsAt
<1>10. ASSUME NEW t \in DOMAIN b.pending \ DOMAIN s.pending PROVE Place(t) >= Place(s.trans)
  <2>1. CASE t \in DOMAIN a.pending
    BY <1>3, <2>1
  <2>2. CASE t \notin DOMAIN a.pending
    <3>1. Place(t) >= Place(a.trans)
      BY <1>2, <2>2
    <3>2. Place(t) \in Nat
      BY <1>1, AwaitedBefore
    <3>. QED  BY <1>3, <1>6, <3>1, <3>2, SMT
  <2>. QED  BY <2>1, <2>2
<1>. QED  BY <1>3, <1>8, <1>9, <1>10

\* wrapping_sub measures the places, but for the 0 that is skipped.
LEMMA SincePlaces ==
  ASSUME NEW n \in Trans \ {0}, NEW t \in Trans \ {0}, Place(t) < Place(n)
  PROVE  Since(n, t) = Place(n) - Place(t) + (IF n = 1 THEN 1 ELSE 0)
BY SessionAssumption, TransAssumption, SMT DEF Trans, Place, Since

\* remember(): the recent half is what was handed out last.
LEMMA SendFollows ==
  ASSUME NEW s, IsGood(s), NEW what \in Sent, NEW pend \in Pendings \cup {"none"}
  PROVE  Follows(s, Send(s, what, pend))
<1>. DEFINE next == Send(s, what, pend)
            p == next.pending
            half == MaxPending \div 2
            n == Place(s.trans) - half + (IF s.trans = 1 THEN 2 ELSE 1)
<1>1. SUFFICES ASSUME Unused(next)
               PROVE  /\ Unused(s) /\ Place(s.trans) <= Place(next.trans)
                      /\ \A t \in DOMAIN p \ DOMAIN s.pending : Place(t) >= Place(s.trans)
                      /\ \E m : CutsAt(s, next, m)
  BY DEF Follows
<1>2. /\ s.trans \in Trans \ {0} /\ s.use \in [Trans -> Uses] /\ pend # "free"
      /\ next.trans = NextTrans(s.trans) /\ next.use = [s.use EXCEPT ![s.trans] = pend]
      /\ p = IF pend = "none" THEN s.pending ELSE Remember(s.pending, s.trans, pend)
  BY DEF IsGood, IsSender, Send, Sender, Pendings, Expects
<1>3. PICK f \in Trans \ {0} : next.use[f] = "free"
  BY <1>1 DEF Unused
<1>4. f # s.trans /\ s.use[f] = "free" /\ Unused(s)
  BY <1>2, <1>3 DEF Unused
<1>5. Place(f) >= Place(s.trans)
  BY <1>4 DEF IsGood, CountsUp
<1>6. Place(next.trans) = Place(s.trans) + 1 /\ Place(s.trans) \in Nat
  <2>1. Place(f) \in 0 .. TransSpace - 2 /\ Place(f) # Place(s.trans) /\ Place(s.trans) \in Nat
    BY <1>2, <1>4, PlaceCounts
  <2>2. Place(s.trans) # TransSpace - 2
    BY <1>5, <2>1, TransAssumption, SMT
  <2>. QED  BY <1>2, <2>1, <2>2, PlaceCounts
<1>7. \A t \in DOMAIN s.pending : t \in Trans \ {0} /\ Place(t) \in Nat /\ Place(t) < Place(s.trans)
  BY <1>4, AwaitedBefore
<1>8. DOMAIN p \subseteq DOMAIN s.pending \cup {s.trans}
  BY <1>2 DEF Remember, Kept, Recent
<1>9. CASE DOMAIN s.pending \subseteq DOMAIN p
  <2>1. CutsAt(s, next, 0)
    <3>. HIDE DEF next
    <3>. QED  BY <1>7, <1>9, SMT DEF CutsAt
  <2>. QED  BY <1>4, <1>6, <1>8, <2>1
<1>10. CASE ~(DOMAIN s.pending \subseteq DOMAIN p)
  <2>1. DOMAIN p = Recent(s.pending, s.trans) \cup {s.trans}
    BY <1>2, <1>10 DEF Remember, Kept
  <2>2. half \in Nat /\ n \in Int
    <3>1. half \in Nat
      BY HalfOfPending
    <3>. HIDE DEF half
    <3>. QED  BY <1>6, <3>1
  <2>3. ASSUME NEW t \in DOMAIN s.pending PROVE t \in DOMAIN p <=> Place(t) >= n
    <3>1. t # s.trans
      BY <1>6, <1>7
    <3>2. t \in DOMAIN p <=> Since(s.trans, t) < half
      BY <2>1, <3>1 DEF Recent
    <3>3. Since(s.trans, t) = Place(s.trans) - Place(t) + (IF s.trans = 1 THEN 1 ELSE 0)
      BY <1>2, <1>7, SincePlaces
    <3>4. Place(t) \in Nat
      BY <1>7
    <3>. HIDE DEF half, p
    <3>. QED  BY <1>6, <2>2, <3>2, <3>3, <3>4, SMT
  <2>4. CutsAt(s, next, n)
    BY <2>2, <2>3 DEF CutsAt
  <2>. QED  BY <1>4, <1>6, <1>8, <2>4
<1>. QED  BY <1>9, <1>10

LEMMA SendIfFollows ==
  ASSUME NEW s, IsGood(s), NEW cond, NEW what \in Sent, NEW pend \in Pendings \cup {"none"}
  PROVE  Follows(s, SendIf(cond, s, what, pend))
BY SendFollows, FollowsItself DEF SendIf

LEMMA AgreeIfFollows ==
  ASSUME NEW s, IsGood(s), NEW cond
  PROVE  Follows(s, AgreeIf(cond, s))
<1>1. /\ "Quiet" \in Pendings \cup {"none"} /\ "UserList" \in Pendings \cup {"none"}
      /\ "agree" \in Sent /\ "user_list" \in Sent
  BY DEF Pendings, Expects, Sent
<1>. DEFINE a == SendIf(cond, s, "agree", "Quiet")
            b == SendIf(cond /\ ~ready /\ ~cfg.raw, a, "user_list", "UserList")
<1>2. IsGood(a) /\ Follows(s, a)
  BY <1>1, SendIfKeeps, SendIfFollows
<1>. HIDE DEF a
<1>3. IsGood(b) /\ Follows(a, b)
  BY <1>1, <1>2, SendIfKeeps, SendIfFollows
<1>. HIDE DEF b
<1>4. Follows(s, b)
  BY <1>2, <1>3, FollowsOn
<1>. QED  BY <1>4 DEF AgreeIf, a, b

\* A call that only sends forgets in that order; the others forget nothing.
LEMMA FollowsForgets ==
  ASSUME IsGood(sender), ~Lapped', Follows(sender, sender')
  PROVE  ForgetStep
<1>1. Unused(sender')
  BY DEF Lapped, Unused
<1>2. Unused(sender) /\ \E n : CutsAt(sender, sender', n)
  BY <1>1 DEF Follows
<1>3. PICK n : CutsAt(sender, sender', n)
  BY <1>2
<1>4. \A t \in DOMAIN sender.pending : Place(t) \in Nat
  BY <1>2, AwaitedBefore
<1>5. ASSUME NEW d \in DOMAIN sender.pending \ DOMAIN sender'.pending,
             NEW k \in DOMAIN sender.pending \cap DOMAIN sender'.pending
      PROVE  Place(d) < Place(k)
  <2>1. n \in Int /\ ~(Place(d) >= n) /\ Place(k) >= n /\ Place(d) \in Nat /\ Place(k) \in Nat
    BY <1>3, <1>4 DEF CutsAt
  <2>. QED  BY <2>1, SMT
<1>. QED  BY <1>5 DEF ForgetStep

LEMMA OthersForget ==
  /\ sender'.pending = sender.pending \/ st' = "Closed" => ForgetStep
  /\ \A ts, how : IsGood(sender) /\ sender' = Settled(sender, ts, how) => ForgetStep
<1>1. sender'.pending = sender.pending \/ st' = "Closed" => ForgetStep
  BY DEF ForgetStep
<1>2. ASSUME NEW ts, NEW how, IsGood(sender), sender' = Settled(sender, ts, how) PROVE ForgetStep
  <2>1. /\ sender'.pending = Forget(sender.pending, ts) /\ sender'.use = UseAfter(sender, ts, how)
        /\ sender.use \in [Trans -> Uses] /\ DOMAIN sender.pending \subseteq Trans
    BY <1>2 DEF Settled, Sender, IsGood, IsSender, IsTable
  <2>2. ASSUME NEW t \in DOMAIN sender.pending \ DOMAIN sender'.pending
        PROVE  sender'.use[t] \notin Pendings
    <3>1. t \in ts \cap DOMAIN sender.pending
      BY <2>1, <2>2 DEF Forget
    <3>2. sender'.use[t] = After(sender, t, how)
      BY <2>1, <3>1 DEF UseAfter
    <3>. QED  BY <3>2 DEF After, Pendings, Expects
  <2>. QED  BY <2>2 DEF ForgetStep
<1>. QED  BY <1>1, <1>2

LEMMA SamePending ==
  ASSUME NEW s, IsGood(s)
  PROVE  /\ TakeTrans(s).pending = s.pending
         /\ \A o : [s EXCEPT !.out = o].pending = s.pending
BY DEF TakeTrans, Sender, IsGood, IsSender

\* A login and its replay only send.
LEMMA LogInFollows ==
  ASSUME IsGood(sender), NEW v, NEW r, NEW whole, LogIn(v, r, whole)
  PROVE  Follows(sender, sender')
<1>. DEFINE named == SendIf(v = 0 /\ nickFits, sender, "user_change", "Quiet")
            u == TakeUnasked(Replayed, v, named, AgreementDeadline(v, NowAt(r)))
            taken == u.sender
            last == v = 0 /\ ~u.ready
            listed == SendIf(last /\ ~cfg.raw, taken, "user_list", "UserList")
<1>1. /\ "Quiet" \in Pendings \cup {"none"} /\ "UserList" \in Pendings \cup {"none"}
      /\ "user_change" \in Sent /\ "user_list" \in Sent
  BY DEF Pendings, Expects, Sent
<1>2. IsGood(named) /\ Follows(sender, named)
  BY <1>1, SendIfKeeps, SendIfFollows
<1>3. \E c : taken = AgreeIf(c, named)
  BY Zenon DEF TakeUnasked
<1>4. sender' = listed
  BY DEF LogIn
<1>. HIDE DEF named, taken
<1>5. IsGood(taken) /\ Follows(named, taken)
  BY <1>2, <1>3, AgreeIfKeeps, AgreeIfFollows
<1>. HIDE DEF last
<1>6. IsGood(listed) /\ Follows(taken, listed)
  BY <1>1, <1>5, SendIfKeeps, SendIfFollows
<1>. HIDE DEF listed
<1>7. Follows(sender, taken)
  BY <1>2, <1>5, FollowsOn
<1>8. Follows(sender, listed)
  BY <1>5, <1>6, <1>7, FollowsOn
<1>. QED  BY <1>4, <1>8

LEMMA TickFollows ==
  ASSUME IsGood(sender), NEW r, TickLoggedIn(r)
  PROVE  Follows(sender, sender')
<1>1. PICK due, ping :
        sender' = SendIf(ping, SendIf(due, sender, "user_list", "UserList"), "ping", "Keepalive")
  BY Zenon DEF TickLoggedIn
<1>. DEFINE listed == SendIf(due, sender, "user_list", "UserList")
<1>2. /\ "Keepalive" \in Pendings \cup {"none"} /\ "UserList" \in Pendings \cup {"none"}
      /\ "ping" \in Sent /\ "user_list" \in Sent
  BY DEF Pendings, Expects, Sent
<1>3. IsGood(listed) /\ Follows(sender, listed)
  BY <1>2, SendIfKeeps, SendIfFollows
<1>. HIDE DEF listed
<1>4. /\ IsGood(SendIf(ping, listed, "ping", "Keepalive"))
      /\ Follows(listed, SendIf(ping, listed, "ping", "Keepalive"))
  BY <1>2, <1>3, SendIfKeeps, SendIfFollows
<1>5. Follows(sender, SendIf(ping, listed, "ping", "Keepalive"))
  BY <1>3, <1>4, FollowsOn
<1>. QED  BY <1>1, <1>5 DEF listed

\* Every call of a session that numbers its own requests.
LEMMA ForgetsInOrder ==
  ASSUME IsGood(sender), ~Lapped', Next, ~cfg.raw
  PROVE  ForgetStep
<1>1. CASE FeedMagic
  <2>1. sender'.pending = sender.pending \/ st' = "Closed"
    BY <1>1, SamePending DEF FeedMagic, Close
  <2>. QED  BY <2>1, OthersForget
<1>2. CASE FeedUndecodable \/ FeedTooLarge \/ Disconnected
  <2>1. st' = "Closed"
    BY <1>2 DEF FeedUndecodable, FeedTooLarge, Disconnected, Close
  <2>. QED  BY <2>1, OthersForget
<1>3. CASE FeedClosed \/ Advance \/ (\E fits \in Nicks : SetIdentity(fits))
  BY <1>3, OthersForget DEF FeedClosed, Advance, SetIdentity
<1>4. CASE FeedFragment
  BY <1>4, OthersForget DEF FeedFragment
<1>5. CASE FeedEarly
  BY <1>5, OthersForget DEF FeedEarly, Close
<1>6. CASE FeedHopeReply
  <2>1. sender'.pending = sender.pending \/ st' = "Closed"
    BY <1>6, SamePending DEF FeedHopeReply, Close, BeginTransport
  <2>. QED  BY <2>1, OthersForget
<1>7. CASE FeedLoginReply
  <2>1. st' = "Closed" \/ \E v, r, whole : LogIn(v, r, whole)
    BY <1>7, Zenon DEF FeedLoginReply, Close
  <2>. QED  BY <2>1, OthersForget, LogInFollows, FollowsForgets
<1>8. CASE FeedReply
  BY <1>8, OthersForget DEF FeedReply
<1>9. CASE FeedUnasked
  <2>1. \E c : sender' = AgreeIf(c, sender)
    BY <1>9, Zenon DEF FeedUnasked, TakeUnasked
  <2>. QED  BY <2>1, AgreeIfFollows, FollowsForgets
<1>10. ASSUME NEW r \in Readings, Tick(r) PROVE ForgetStep
  <2>1. CASE TickHandshake(r) \/ TickClosed(r)
    BY <2>1, OthersForget DEF TickHandshake, TickClosed, Close
  <2>2. CASE TickLoggedIn(r)
    BY <2>2, TickFollows, FollowsForgets
  <2>. QED  BY <1>10, <2>1, <2>2 DEF Tick
<1>11. CASE TakeOutgoing
  <2>1. sender'.pending = sender.pending \/ st' = "Closed"
    BY <1>11, SamePending DEF TakeOutgoing
  <2>. QED  BY <2>1, OthersForget
<1>12. CASE Agree
  BY <1>12, AgreeIfFollows, FollowsForgets DEF Agree
<1>13. CASE CallTakeTrans
  BY <1>13, SamePending, OthersForget DEF CallTakeTrans
<1>14. CASE SendRaw
  BY <1>14, SamePending, OthersForget DEF SendRaw
<1>15. ASSUME NEW pend \in RequestKinds, Request(pend) PROVE ForgetStep
  <2>1. sender' = Send(sender, "request", pend) /\ "request" \in Sent
        /\ pend \in Pendings \cup {"none"}
    BY <1>15, SessionAssumption DEF Request, Sent
  <2>. QED  BY <2>1, SendFollows, FollowsForgets
<1>16. ASSUME NEW t, NEW what, Expect(t, what) PROVE ForgetStep
  BY <1>16 DEF Expect
<1>. QED
  BY <1>1, <1>2, <1>3, <1>4, <1>5, <1>6, <1>7, <1>8, <1>9, <1>10, <1>11, <1>12, <1>13,
     <1>14, <1>15, <1>16 DEF Next, Feed, Caller

\* remember(): until the counter comes round, what a session that numbers its own
\* requests forgets when the table is full was handed out before all that it keeps.
THEOREM OldestForgotten == Spec /\ []~Lapped => OwnForgetsOldest
<1>1. ASSUME IInv, ~Lapped', [Next]_vars PROVE [cfg.raw \/ ForgetStep]_vars
  <2>1. IsGood(sender)
    BY <1>1 DEF IInv, TypeOK, PendingBounded, IsGood, Fits
  <2>. QED  BY <1>1, <2>1, ForgetsInOrder
<1>. QED  BY <1>1, InvariantHolds, PTL DEF Spec, OwnForgetsOldest
=============================================================================
