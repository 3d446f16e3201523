---------------------------- MODULE HxConnection ----------------------------
(***************************************************************************)
(* A HOPE client and server, their login and the connection after it: each   *)
(* side's Transport, what they send, and the wire between them, which brings  *)
(* it in pieces of any size.                                               *)
(***************************************************************************)
EXTENDS HxHope, HxTransport

\* A transaction to send has a data size, and what its marker will be if it has one.
Transaction == [n : Nat, mark : 0 .. MaxRounds]
ASSUME ConnectionAssumption ==
  \A s \in Setups : s.toServer \in Seq(Transaction) /\ s.toClient \in Seq(Transaction)

VARIABLES
  sender, receiver,   \* of each direction, once its side is established
  passed,             \* how many cells of its stream a sender has been passed
  carried,            \* what is on its way
  out                 \* what has come out

linkVars == <<sender, receiver, passed, carried, out>>
vars == <<hopeVars, linkVars>>

Directions == {"to server", "to client"}
Writer(d) == IF d = "to server" THEN client ELSE server
Reader(d) == IF d = "to server" THEN server ELSE client

\* The transactions to send each way, as [n |-> data size, mark |-> rounds].
Frames(d) == IF d = "to server" THEN setup.toServer ELSE setup.toClient
CellsOf(i, n) ==
  [k \in 1 .. Hdr + BodyLen(n) |-> Cell(IF k <= Hdr THEN "head" ELSE "body", i, k, n)]
HeadOnly(i, n) == [k \in 1 .. Hdr |-> Cell("head", i, k, n)]
Plain(d) ==
  FlattenSeq([i \in DOMAIN Frames(d) |->
                IF BodyFits(Frames(d)[i].n) THEN CellsOf(i, Frames(d)[i].n)
                ELSE HeadOnly(i, Frames(d)[i].n)])
Rounds(d) == [i \in DOMAIN Frames(d) |-> Frames(d)[i].mark]

\* Transport::new. The chain's third link is the client's key to send with and its
\* second the server's.
Link(d, side) ==
  Chain(side.mac, side.chain.password, side.chain.key, IF d = "to server" THEN 3 ELSE 2)

Unset == SenderOf("none", "none", NoChain)
Unread == ReceiverOf("none", "none", NoChain)

Init ==
  /\ HopeInit
  /\ sender = [d \in Directions |-> Unset] /\ receiver = [d \in Directions |-> Unread]
  /\ passed = [d \in Directions |-> 0]
  /\ carried = [d \in Directions |-> <<>>] /\ out = [d \in Directions |-> <<>>]

SenderNow(d) ==
  LET side == Writer(d)
  IN  IF Established(side) THEN SenderOf(side.cipher, side.compression, Link(d, side)) ELSE Unset
ReceiverNow(d) ==
  LET side == Reader(d)
  IN  IF Established(side) THEN ReceiverOf(side.cipher, side.compression, Link(d, side)) ELSE Unread

\* A step of the login. The side that it establishes has its transport with it.
LogIn ==
  /\ HopeNext
  /\ sender' = [d \in Directions |-> IF Established(Writer(d)) THEN sender[d] ELSE SenderNow(d)']
  /\ receiver' = [d \in Directions |-> IF Established(Reader(d)) THEN receiver[d] ELSE ReceiverNow(d)']
  /\ UNCHANGED <<passed, carried, out>>

\* Transport::encode, of the next n cells. A side whose transport fails is closed.
Send(d, n) ==
  LET plain == SubSeq(Plain(d), passed[d] + 1, passed[d] + n)
      e == Encode(sender[d], plain, Rounds(d))
  IN  /\ Established(Writer(d)) /\ sender[d].ok
      /\ passed[d] + n <= Len(Plain(d))
      /\ passed' = [passed EXCEPT ![d] = @ + n]
      /\ sender' = [sender EXCEPT ![d] = e.s]
      /\ carried' = [carried EXCEPT ![d] = @ \o e.wire]
      /\ UNCHANGED <<hopeVars, receiver, out>>

\* Transport::decode, of the next n cells that have come.
Receive(d, n) ==
  LET u == Decode(receiver[d], SubSeq(carried[d], 1, n))
  IN  /\ Established(Reader(d)) /\ receiver[d].ok
      /\ receiver' = [receiver EXCEPT ![d] = u.r]
      /\ out' = [out EXCEPT ![d] = IF u.r.ok THEN @ \o u.out ELSE @]
      /\ carried' = [carried EXCEPT ![d] = SubSeq(@, n + 1, Len(@))]
      /\ UNCHANGED <<hopeVars, sender, passed>>

Next ==
  \/ LogIn
  \/ \E d \in Directions :
       \/ \E n \in 1 .. Len(Plain(d)) - passed[d] : Send(d, n)
       \/ \E n \in 1 .. Len(carried[d]) : Receive(d, n)

Spec == Init /\ [][Next]_vars

----------------------------------------------------------------------------
(* Properties.                                                             *)

PlainSent(d) == SubSeq(Plain(d), 1, passed[d])

\* HxPipe on this connection: what the transports were passed, and what came out.
Pipe == INSTANCE HxPipe WITH in <- [d \in Directions |-> PlainSent(d)]

\* Sender::encode and Receiver::decode: whatever was agreed, what comes out of one
\* side's transport is what went into the other's, however it was batched on one
\* side and cut on the way to the other.
CarriesAsSent == Pipe!Spec

Live(d) ==
  Established(Writer(d)) /\ Established(Reader(d)) /\ sender[d].ok /\ receiver[d].ok

\* Once the wire is quiet, what was sent has come out, except a transaction that a
\* marking sender waits for the rest of, and the receiver is idle: neither side
\* holds anything back.
QuietMeansDelivered ==
  \A d \in Directions :
    Live(d) /\ carried[d] = <<>> => out[d] \o sender[d].partial = PlainSent(d) /\ Idle(receiver[d])

\* And the two have turned the key equally often at the same cell, and have counted
\* as many records (rekey, AeadState).
TurnedTogether ==
  \A d \in Directions :
    Live(d) /\ carried[d] = <<>> =>
      sender[d].bf = receiver[d].bf /\ sender[d].counter = receiver[d].counter

\* A connection fails only for its size: a transaction that Blowfish's framing does
\* not take, or more in one go than a decompressor may yield or hold (body_len,
\* Decompressor::decode).
FailsForItsSize ==
  \A d \in Directions :
    /\ ~sender[d].ok => \E i \in DOMAIN Frames(d) : ~BodyFits(Frames(d)[i].n)
    /\ ~receiver[d].ok =>
         /\ receiver[d].compression # "none"
         /\ passed[d] > MaxOutput \/ passed[d] > MaxHeld
=============================================================================
