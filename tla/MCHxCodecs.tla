----------------------------- MODULE MCHxCodecs -----------------------------
(***************************************************************************)
(* Small inputs for HxCodecs.  The numbers are those at which a width, or a  *)
(* field that may be left out, makes a difference; the longest text is one   *)
(* byte longer than a field can be, and the longest component one longer     *)
(* than a component.                                                         *)
(***************************************************************************)
EXTENDS HxCodecs

MCWords == {<<>>, <<1>>, <<255, 254>>}
MCLongs == {<<>>, <<1>>, U32Max, <<1, 0, 0, 0, 2>>}
MCTexts == {<<>>, Name, [i \in 1 .. 6 |-> 64 + i], [i \in 1 .. MaxField + 1 |-> 65]}
MCPaths == {<<>>, <<<<70>>>>, <<<<70>>, <<>>, Name>>, <<[i \in 1 .. 6 |-> 70]>>}

\* A key cap, its digit, an emoji, an accent, a letter, a colon and a color code.
KeyCap == <<49, 65039, 8419>>
Smile == <<128512>>
MCStrings ==
  {<<>>, <<97, Colon>>, <<233>>, <<233, 97>>, <<195, 233>>, Smile, Smile \o KeyCap,
   KeyCap \o <<49>>, <<Colon>> \o Smile \o <<Colon>>, <<49, 65039>>, <<8364, 34, 9>>,
   <<195, 169>>, <<97, 13, 10, 233, 10>>, <<MIRC_COLOR, 49, 50, 44, 49, Colon, 97, Colon>>,
   <<Colon, 97, Colon, 97, Colon>>}
MCENCODE == {<<Smile, <<97>>>>, <<KeyCap, <<111, 110, 101>>>>, <<<<49, 65039>>, <<49>>>>}
MCDECODE == {<<<<97>>, Smile>>, <<<<111, 110, 101>>, KeyCap>>, <<<<49>>, <<49, 65039>>>>}

Label(prefix, rest) == [prefix |-> prefix, rest |-> rest]
MCLines ==
  {I!Section("audio", FALSE), I!Section("video", FALSE), I!Section("video", TRUE),
   I!Section("application", FALSE), I!Rtpmap("audio"), I!Rtpmap("video"),
   I!Mid(Label("user", <<55>>)), I!Mid(Label("camUser", <<48, 55>>)),
   I!Bundle(<<"", "user7">>)}
=============================================================================
