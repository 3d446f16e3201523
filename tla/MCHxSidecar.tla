---------------------------- MODULE MCHxSidecar -----------------------------
(***************************************************************************)
(* Small sidecars for HxSidecar: one with no record, and containers as this  *)
(* code and other programs lay them out.                                   *)
(***************************************************************************)
EXTENDS HxSidecar

\* A container whose entries, of these ids and lengths, are packed in this order.
Laid(ids, lengths) ==
  LET from(j) == FoldLeft(LAMBDA n, k : n + lengths[k], 1 + Len(ids), [k \in 1 .. j - 1 |-> k])
      table == [j \in DOMAIN ids |-> Descr(ids[j], from(j), lengths[j])]
      cells(j) == [k \in 1 .. lengths[j] |-> Byte(ids[j], 0, k)]
  IN  File(table, HeadOf(table) \o FlattenSeq([j \in DOMAIN ids |-> cells(j)]))

\* One that is cut in its table, and one whose entries share a byte.
Truncated == LET f == Laid(<<"comment", "finfo">>, <<1, 1>>)
             IN  [f EXCEPT !.bytes = SubSeq(@, 1, 2)]
Overlapping == LET f == Laid(<<"dates", "fork", "other">>, <<1, 1, 1>>)
               IN  [f EXCEPT !.table[3].offset = @ - 1, !.table[3].length = @ + 1]

MCContainers ==
  {EmptyFile, Truncated, Overlapping,
   Laid(<<"comment", "dates", "finfo", "fork">>, <<1, 1, 1, 1>>),
   Laid(<<"fork", "other", "comment", "finfo">>, <<1, 1, 1, 2>>),
   Laid(<<"dates", "other", "fork">>, <<2, 1, 1>>),
   Laid(<<"fork", "comment">>, <<0, 2>>),
   Laid(<<"comment", "finfo">>, <<0, 1>>)}
=============================================================================
