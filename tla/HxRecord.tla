------------------------------ MODULE HxRecord ------------------------------
(***************************************************************************)
(* What a file's Finder metadata promises a reader: each field is what some *)
(* write wanted it to be, whole, and a write that rewrites the record shows *)
(* all of it or none. A write may be given up at any point.                *)
(***************************************************************************)
CONSTANT NoWrite      \* nothing is being written

VARIABLES
  shown,    \* what a reader finds, by field
  wanted    \* the write in progress: [to, has, whole], or NoWrite

vars == <<shown, wanted>>

\* A write begins, or ends.
Want == wanted' # wanted /\ UNCHANGED shown

\* Some of the record's fields become what the write wants, or it is done.
Settle(fields) ==
  /\ shown' = [f \in DOMAIN shown |-> IF f \in fields THEN wanted.to[f] ELSE shown[f]]
  /\ wanted' \in {wanted, NoWrite}

Next ==
  \/ Want
  \/ /\ wanted # NoWrite
     /\ \/ ~wanted.whole /\ \E fields \in SUBSET wanted.has : Settle(fields)
        \/ wanted.whole /\ Settle(wanted.has)

Spec == wanted = NoWrite /\ [][Next]_vars
=============================================================================
