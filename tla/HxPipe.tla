------------------------------- MODULE HxPipe -------------------------------
(***************************************************************************)
(* What a transport promises in each direction: what is sent comes out as it *)
(* went in, in order, none of it twice. It may stop at any point.          *)
(***************************************************************************)
EXTENDS Naturals, SequencesExt

CONSTANT Directions

VARIABLES
  in,     \* what has been sent, in each direction
  out     \* what has come out

Init ==
  /\ in = [d \in Directions |-> <<>>]
  /\ out = [d \in Directions |-> <<>>]

Others(d, queues) == [e \in Directions \ {d} |-> queues[e]]

Send(d) ==
  /\ IsStrictPrefix(in[d], in'[d]) /\ Others(d, in') = Others(d, in)
  /\ UNCHANGED out

Receive(d) ==
  /\ IsStrictPrefix(out[d], out'[d]) /\ IsPrefix(out'[d], in[d])
  /\ Others(d, out') = Others(d, out)
  /\ UNCHANGED in

Next == \E d \in Directions : Send(d) \/ Receive(d)

Spec == Init /\ [][Next]_<<in, out>>
=============================================================================
