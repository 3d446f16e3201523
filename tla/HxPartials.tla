----------------------------- MODULE HxPartials -----------------------------
(***************************************************************************)
(* How hxsession's FrameReader treats a frame once it is cut from the      *)
(* stream: a frame is a transaction, or a fragment of one that a server     *)
(* split. A frame is a record with its type, trans, total (TotalSize), size *)
(* (DataSize), whole (whether its own fields fill its data exactly) and     *)
(* body, which names its data; sizes count in units of data.               *)
(*                                                                         *)
(* A partial is a split transaction being joined; partials is a sequence,   *)
(* oldest first.                                                           *)
(***************************************************************************)
EXTENDS Naturals, SequencesExt

CONSTANTS
  MaxPartials,      \* MAX_PARTIALS, 4 in the code
  MaxTransaction    \* MAX_TRANSACTION, 1 MiB in the code

ASSUME PartialsAssumption ==
  /\ MaxPartials \in Nat \ {0}
  /\ MaxTransaction \in Nat \ {0}

\* Frames, and partials, of these types, on these trans and of these cells of data.
Framed(types, ts, cells) ==
  [type : types, trans : ts, total : Nat, size : Nat, whole : BOOLEAN, body : Seq(cells)]
Partial(types, ts, cells) ==
  [type : types, trans : ts, total : Nat, got : Nat, body : Seq(cells)]

\* Two partials never share a trans, and there are at most MAX_PARTIALS.
Tidy(partials) ==
  /\ Len(partials) <= MaxPartials
  /\ \A i, j \in DOMAIN partials : i # j => partials[i].trans # partials[j].trans

IsSplit(f) == f.total > f.size

TooLarge(f) ==
  \/ f.size > MaxTransaction
  \/ IsSplit(f) /\ f.total > MaxTransaction

\* The partials that f is the next fragment of: same trans, same total.
Continued(partials, f) ==
  {i \in DOMAIN partials : partials[i].trans = f.trans /\ partials[i].total = f.total}

\* Restarted, were a restart not looked for.
MutRestarted(partials, f) == {}

\* The partials a new first fragment on the same trans takes the place of.
Restarted(partials, f) == {i \in DOMAIN partials : partials[i].trans = f.trans}

Joined(p, f) == [p EXCEPT !.got = @ + f.size, !.body = @ \o f.body]

Started(f) ==
  [type |-> f.type, trans |-> f.trans, total |-> f.total, got |-> f.size, body |-> f.body]

\* The outcome of a frame: the partials after it, the transactions given up
\* on, and the transaction it completes, if any (`done' holds at most one).
Outcome(partials, abandoned, done) ==
  [partials |-> partials, abandoned |-> abandoned, done |-> done]

Transaction(type, trans, body) == [type |-> type, trans |-> trans, body |-> body]

AcceptNext(partials, f) ==
  LET i == Min(Continued(partials, f))
      p == Joined(partials[i], f)
  IN  IF p.got < p.total
        THEN Outcome([partials EXCEPT ![i] = p], <<>>, <<>>)
        ELSE Outcome(RemoveAt(partials, i), <<>>,
                     <<Transaction(p.type, p.trans, SubSeq(p.body, 1, p.total))>>)

AcceptFirst(partials, f) ==
  LET again == Restarted(partials, f)
      fresh == IF again = {} THEN partials ELSE RemoveAt(partials, Min(again))
      full  == Len(fresh) >= MaxPartials
  IN  Outcome(Append(IF full THEN Tail(fresh) ELSE fresh, Started(f)),
              (IF again = {} THEN <<>> ELSE <<f.trans>>)
                \o (IF full THEN <<fresh[1].trans>> ELSE <<>>),
              <<>>)

Accept(partials, f) ==
  IF ~IsSplit(f) THEN Outcome(partials, <<>>, <<Transaction(f.type, f.trans, f.body)>>)
  ELSE IF Continued(partials, f) # {} THEN AcceptNext(partials, f)
  ELSE IF f.whole THEN Outcome(partials, <<>>, <<Transaction(f.type, f.trans, f.body)>>)
  ELSE IF f.size = 0 THEN Outcome(partials, <<>>, <<>>)
  ELSE AcceptFirst(partials, f)
=============================================================================
