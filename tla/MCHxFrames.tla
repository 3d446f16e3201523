----------------------------- MODULE MCHxFrames -----------------------------
(***************************************************************************)
(* Values of HxFrames's constants for TLC: heads of two cells, a field      *)
(* count of one, and transactions of at most three cells of data.          *)
(***************************************************************************)
EXTENDS HxFrames

MCMaxTransaction == 3

Frame(type, t, total, size, whole) ==
  [type |-> type, trans |-> t, total |-> total, size |-> size, whole |-> whole]

\* Fragments of two transactions, of which one is started over with another
\* length; an empty one; one that its own fields fill.
Splits ==
  {Frame("reply", 1, 2, 1, FALSE), Frame("reply", 2, 2, 1, FALSE),
   Frame("reply", 1, 3, 1, FALSE), Frame("reply", 1, 2, 0, FALSE),
   Frame("reply", 1, 3, 2, TRUE)}

\* Frames that are whole, one of them without even a field count, and one that
\* says less than it has.
Wholes == {Frame("push", 0, 0, 0, FALSE), Frame("push", 0, 1, 2, TRUE)}

\* One with more data than is taken, and one of a transaction that has.
Large == {Frame("push", 0, 4, 4, FALSE), Frame("reply", 2, 4, 1, FALSE)}

MCScripts ==
  SeqOf(Splits \cup Wholes \cup Large, 3)
    \cup {s \in [1 .. 4 -> Splits] : s[1].size = 1 /\ s[1].total = 2}
=============================================================================
