------------------------------ MODULE HxStream ------------------------------
(***************************************************************************)
(* What hxsession's FrameReader promises: a server's frames are taken one   *)
(* after another, as if each came whole, however the stream that carries     *)
(* them is cut into reads.                                                 *)
(***************************************************************************)
EXTENDS HxPartials

CONSTANT Streams         \* what a server may send: sequences of frames

VARIABLES
  sent,        \* the frames of this stream
  taken,       \* how many of them have been taken
  joining,     \* the split transactions that wait for their rest
  delivered,   \* the transactions handed over, in order
  lost         \* the trans of those given up on, in order

streamVars == <<sent, taken, joining, delivered, lost>>

Init ==
  /\ sent \in Streams
  /\ taken = 0 /\ joining = <<>> /\ delivered = <<>> /\ lost = <<>>

\* A reader cannot get past a frame whose data is too large to be held. One of a
\* split transaction that would be too large it drops.
Passable(f) == f.size <= MaxTransaction

Reader(j, d, l) == [joining |-> j, delivered |-> d, lost |-> l]

TakeOne(r, f) ==
  IF TooLarge(f) THEN r
  ELSE LET o == Accept(r.joining, f)
       IN  Reader(o.partials, r.delivered \o o.done, r.lost \o o.abandoned)

TakeAll(r, fs) == FoldLeft(TakeOne, r, fs)

\* The next n frames are taken in one call, which ends with the first transaction
\* that one of them completes.
Take(n) ==
  LET next == SubSeq(sent, taken + 1, taken + n)
      r    == TakeAll(Reader(joining, delivered, lost), next)
      but1 == TakeAll(Reader(joining, delivered, lost), Front(next))
  IN  /\ \A i \in DOMAIN next : Passable(next[i])
      /\ but1.delivered = delivered
      /\ joining' = r.joining /\ delivered' = r.delivered /\ lost' = r.lost
      /\ taken' = taken + n
      /\ UNCHANGED sent

Next == \E n \in 1 .. Len(sent) - taken : Take(n)

Spec == Init /\ [][Next]_streamVars
=============================================================================
