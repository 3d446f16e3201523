---------------------------- MODULE MCHxSession ----------------------------
(***************************************************************************)
(* Values of HxSession's constants for TLC. Sizes count in units of data:   *)
(* a whole frame has one, a split transaction two or three, and a frame of  *)
(* MCMaxTransaction + 1 units is too large.                                 *)
(***************************************************************************)
EXTENDS HxSession

MCMaxTransaction == 3

Ones(n) == [i \in 1 .. n |-> 0]
Whole(type, t) ==
  [type |-> type, trans |-> t, total |-> 1, size |-> 1, whole |-> TRUE, body |-> Ones(1)]
Fragment(type, t, total) ==
  [type |-> type, trans |-> t, total |-> total, size |-> 1, whole |-> FALSE, body |-> Ones(1)]
Huge == [Whole("push", 0) EXCEPT !.size = MCMaxTransaction + 1, !.body = Ones(MCMaxTransaction + 1)]

Plain == [raw |-> FALSE, hope |-> FALSE, handled |-> {}]
Raw   == [raw |-> TRUE, hope |-> FALSE, handled |-> {}]
Hope  == [Plain EXCEPT !.hope = TRUE]

\* Core: a session with HOPE and a raw one without, whole frames, and the clock.
CoreConfigs == {Hope, Raw}
CoreFrames ==
  {Whole(type, 1) : type \in {"reply", "error"}}
    \cup {Whole(type, 0) : type \in Unasked}
    \cup {Huge}
CoreVersions == {0, 123, 185}

\* Requests: a plain session and a raw one that acts on everything itself,
\* replies and splits on the callers' trans.
RequestConfigs == {Plain, [Raw EXCEPT !.handled = Domains]}
RequestFrames ==
  {Whole("reply", 1), Whole("none", 0)}
    \cup {Whole("reply", t) : t \in 2 .. 5} \cup {Whole("error", 4), Whole("short", 5)}
    \cup {Fragment("reply", t, 2) : t \in 4 .. 5} \cup {Fragment("reply", 4, 3)}

\* Table: a login, and replies to some of what follows it.
TableFrames ==
  {Whole("reply", t) : t \in {1, 2, 3, 5, 7}} \cup {Whole("none", 0)}

\* Live: every kind of server, saying whatever it likes or nothing.
LiveFrames ==
  {Whole(type, 1) : type \in {"reply", "error"}} \cup {Whole(type, 0) : type \in Agreements}

\* No step depends on the events of the call before it: states that differ in
\* nothing else are one. (Action properties are checked on every step.)
Unpolled == <<cfg, nickFits, st, early, sender, version, timeVars, handshakeAt, settleVars,
              hopeVars, partials, wall, calls, pushVars, loginAt, lastReal, wireVars>>

\* A raw caller that leaves its servers' splits unfinished, for expect().
Restarts ==
  {Whole("reply", 1), Whole("missing", 0), Fragment("reply", 2, 2), Fragment("reply", 2, 3)}
\* A login and no more, for what only the caller does.
Logins == {Whole("reply", 1), Whole("missing", 0)}
JustPlain == {Plain}
JustRaw == {Raw}
LiveConfigs == {Plain, Hope, Raw}
GoodNick == {TRUE}
LongNick == {FALSE}
NoKinds == {}
=============================================================================
