-------------------------------- MODULE HxIce --------------------------------
(* What hxproto's voice.rs reads out of a call's own texts: the labels of    *)
(* its media (mids), the shape of a session description (sdp), and one ICE   *)
(* candidate, which is JSON (ice).                                           *)
(*                                                                           *)
(* A label is a prefix and what follows it; a description is its lines; JSON *)
(* is its tokens, of which white space is none, and a string's token holds   *)
(* the characters between its quotes as they are written.                    *)
EXTENDS HxWire

Digit == 48 .. 57

-----------------------------------------------------------------------------
(* parse_voice_mid_label.                                                    *)

MID_MAX_LEN == 16
MidPrefix ==
  [send |-> 4, camSend |-> 8, scrSend |-> 8, user |-> 5, camUser |-> 9,
   scrUser |-> 9, other |-> 0]

\* A user's number in decimal: 1 to 65535, with no zero before it.
parse_mid_uid(rest) ==
  IF \/ rest = <<>> \/ \E i \in DOMAIN rest : rest[i] \notin Digit
     \/ rest[1] = 48 \/ Below(<<54, 53, 53, 51, 53>>, rest)
  THEN None ELSE Some(rest)

parse_voice_mid_label(label) ==
  IF MidPrefix[label.prefix] + Len(label.rest) > MID_MAX_LEN THEN None
  ELSE CASE label.prefix \in {"send", "camSend", "scrSend"} ->
              IF label.rest = <<>> THEN Some(label) ELSE None
         [] label.prefix \in {"user", "camUser", "scrUser"} ->
              IF parse_mid_uid(label.rest) = None THEN None ELSE Some(label)
         [] OTHER -> None

-----------------------------------------------------------------------------
(* sdp::summarize.                                                           *)

\* A line: a section's head and whether its port is 0, a label, the bundle,
\* or the codec of a section.  Of a codec's line is kept whose codec it is.
Section(media, closed) == [line |-> "m", media |-> media, closed |-> closed]
Mid(label)             == [line |-> "mid", label |-> label]
Bundle(tokens)         == [line |-> "bundle", tokens |-> tokens]
Rtpmap(media)          == [line |-> "rtpmap", media |-> media]
Kinds == {"audio", "video"}

\* Mutant: a section that is left is forgotten.
MutLeave(s) == s

\* The open section is left behind unmapped when no codec of its own came.
Leave(s) ==
  IF s.section = None \/ s.mapped THEN s
  ELSE [s EXCEPT !.unmapped = @ \cup {s.section[1]}]

Take(s, l) ==
  CASE l.line = "m" ->
         LET left == [Leave(s) EXCEPT !.section = None, !.mapped = FALSE]
         IN  IF l.media \notin Kinds THEN left
             ELSE IF l.closed THEN [left EXCEPT !.has_disabled_slot = TRUE]
             ELSE [left EXCEPT !.live = @ \cup {l.media}, !.section = Some(l.media)]
    [] l.line = "mid" ->
         IF parse_voice_mid_label(l.label) = None
         THEN [s EXCEPT !.unknown_mids = Append(@, l.label)]
         ELSE [s EXCEPT !.mids = Append(@, l.label)]
    [] l.line = "bundle" ->
         [s EXCEPT !.bundle = SelectSeq(l.tokens, LAMBDA t : t # "")]
    [] l.line = "rtpmap" ->
         [s EXCEPT !.mapped = @ \/ s.section = Some(l.media)]
    [] OTHER -> s

summarize(lines) ==
  LET start == [mids |-> <<>>, unknown_mids |-> <<>>, bundle |-> <<>>,
                has_disabled_slot |-> FALSE, live |-> {}, unmapped |-> {},
                section |-> None, mapped |-> FALSE]
      s == Leave(FoldLeft(Take, start, lines))
  IN  [mids |-> s.mids, unknown_mids |-> s.unknown_mids, bundle |-> s.bundle,
       has_disabled_slot |-> s.has_disabled_slot,
       has_pcmu |-> "audio" \in s.live \ s.unmapped,
       has_vp8 |-> "video" \in s.live \ s.unmapped]

-----------------------------------------------------------------------------
(* ice: strings and their escapes.                                           *)

Quote == 34
Backslash == 92
Controls == 0 .. 31
LetterU == 117
HexDigit(d) == IF d < 10 THEN 48 + d ELSE 87 + d

EscapeChar(c) ==
  CASE c \in {Quote, Backslash} -> <<Backslash, c>>
    [] c = 10 -> <<Backslash, 110>>
    [] c = 13 -> <<Backslash, 114>>
    [] c = 9 -> <<Backslash, 116>>
    [] c \in Controls \ {9, 10, 13} ->
         <<Backslash, LetterU, 48, 48, HexDigit(c \div 16), HexDigit(c % 16)>>
    [] OTHER -> <<c>>
escape_into(text) == FlattenSeq([i \in DOMAIN text |-> EscapeChar(text[i])])

\* The letters that escape one character each.
Escapes == {<<34, 34>>, <<92, 92>>, <<47, 47>>, <<110, 10>>, <<114, 13>>, <<116, 9>>,
            <<98, 8>>, <<102, 12>>}

HexValue(c) ==
  CASE c \in Digit -> c - 48 [] c \in 97 .. 102 -> c - 87
    [] c \in 65 .. 70 -> c - 55 [] OTHER -> -1

\* parse_hex4 of the four characters from i on, or -1.
Hex4(raw, i) ==
  IF i + 3 > Len(raw) \/ \E j \in i .. i + 3 : HexValue(raw[j]) < 0 THEN -1
  ELSE FoldLeft(LAMBDA n, c : (16 * n) + HexValue(c), 0, SubSeq(raw, i, i + 3))

High == 55296 .. 56319
Low == 56320 .. 57343

\* What an escape at i stands for and how long it is, or None.  Half a pair
\* without its other half is no character.
Escaped(raw, i) ==
  LET short == {e \in Escapes : i < Len(raw) /\ e[1] = raw[i + 1]}
      unit == IF i < Len(raw) /\ raw[i + 1] = LetterU THEN Hex4(raw, i + 2) ELSE -1
      low == IF SubSeq(raw, i + 6, Least(i + 7, Len(raw))) = <<Backslash, LetterU>>
             THEN Hex4(raw, i + 8) ELSE -1
  IN  CASE short # {} -> Some(<<(CHOOSE e \in short : TRUE)[2], 2>>)
        [] unit \in High /\ low \in Low ->
             Some(<<65536 + ((unit - 55296) * 1024) + (low - 56320), 12>>)
        [] unit >= 0 /\ unit \notin High \cup Low -> Some(<<unit, 6>>)
        [] OTHER -> None

\* parse_string of what is between the quotes.
parse_string(raw) ==
  LET walk[i \in Nat] ==
        IF i > Len(raw) THEN Some(<<>>)
        ELSE LET e == IF raw[i] = Backslash THEN Escaped(raw, i)
                      ELSE IF raw[i] \in Controls \cup {Quote} THEN None
                      ELSE Some(<<raw[i], 1>>)
             IN  IF e = None THEN None
                 ELSE Map(walk[i + e[1][2]], LAMBDA rest : <<e[1][1]>> \o rest)
  IN  walk[1]

-----------------------------------------------------------------------------
(* ice: a candidate and its JSON.                                            *)

Token(kind, text) == [kind |-> kind, text |-> text]
Mark(kind) == Token(kind, <<>>)

\* The names of the members.
CANDIDATE == <<99, 97, 110, 100, 105, 100, 97, 116, 101>>
SDP_MID == <<115, 100, 112, 77, 105, 100>>
SDP_MLINE_INDEX == <<115, 100, 112, 77, 76, 105, 110, 101, 73, 110, 100, 101, 120>>
USERNAME_FRAGMENT ==
  <<117, 115, 101, 114, 110, 97, 109, 101, 70, 114, 97, 103, 109, 101, 110, 116>>

\* A candidate's parts are Options, its index the number's decimal digits.
IceCandidate(candidate, mid, index, fragment) ==
  [candidate |-> candidate, sdp_mid |-> mid, sdp_mline_index |-> index,
   username_fragment |-> fragment]
is_end_of_candidates(c) == c.candidate = Some(<<>>)

build(c) ==
  LET Member(name, option, kind, Written(_)) ==
        IF option = None THEN <<>>
        ELSE <<<<Token("string", name), Mark(":"), Token(kind, Written(option[1]))>>>>
      members == Member(CANDIDATE, c.candidate, "string", escape_into)
                   \o Member(SDP_MID, c.sdp_mid, "string", escape_into)
                   \o Member(SDP_MLINE_INDEX, c.sdp_mline_index, "number",
                             LAMBDA digits : digits)
                   \o Member(USERNAME_FRAGMENT, c.username_fragment, "string",
                             escape_into)
  IN  <<Mark("{")>>
        \o FlattenSeq([i \in DOMAIN members |->
                         IF i = 1 THEN members[i] ELSE <<Mark(",")>> \o members[i]])
        \o <<Mark("}")>>

\* A string is read as what it says, or as no value at all.
Said(t) == IF t.kind # "string" THEN t
            ELSE LET said == parse_string(t.text)
                 IN  IF said = None THEN Mark("bad") ELSE Token("string", said[1])

\* parse_uint within u32: digits without a zero before them.
U32MaxDecimal == <<52, 50, 57, 52, 57, 54, 55, 50, 57, 53>>
IsIndex(t) ==
  /\ t.kind = "number"
  /\ \A i \in DOMAIN t.text : t.text[i] \in Digit
  /\ Len(t.text) > 1 => t.text[1] # 48
  /\ ~Below(U32MaxDecimal, t.text)

IsString(t) == t.kind = "string"
At(tokens, i) == IF i \in DOMAIN tokens THEN tokens[i] ELSE Mark("end")

\* skip_value, skip_object and skip_array: where what begins at i ends, or 0.
\* `what` is a value, the members of an object or the elements of an array.
SkipEnd(tokens, from) ==
  LET Is(i, kind) == At(tokens, i).kind = kind
      skip[i \in Nat, what \in {"value", "}", "]"}] ==
        IF what = "value"
        THEN CASE IsString(At(tokens, i)) \/ Is(i, "number") \/ Is(i, "word") -> i + 1
               [] Is(i, "{") -> IF Is(i + 1, "}") THEN i + 2 ELSE skip[i + 1, "}"]
               [] Is(i, "[") -> IF Is(i + 1, "]") THEN i + 2 ELSE skip[i + 1, "]"]
               [] OTHER -> 0
        ELSE LET named == what = "]" \/ (IsString(At(tokens, i)) /\ Is(i + 1, ":"))
                 end == IF named THEN skip[IF what = "]" THEN i ELSE i + 2, "value"]
                        ELSE 0
             IN  CASE end > 0 /\ Is(end, ",") -> skip[end + 1, what]
                   [] end > 0 /\ Is(end, what) -> end + 1
                   [] OTHER -> 0
  IN  skip[from, "value"]

\* Where the member whose name is at i ends, or 0.  A known one has a value of
\* its own kind; an unknown one is passed over.
Known == {CANDIDATE, SDP_MID, USERNAME_FRAGMENT}
MemberEnd(tokens, i) ==
  LET name == At(tokens, i).text
      v == At(tokens, i + 2)
  IN  IF ~IsString(At(tokens, i)) \/ At(tokens, i + 1).kind # ":" THEN 0
      ELSE IF name = SDP_MLINE_INDEX THEN IF IsIndex(v) THEN i + 3 ELSE 0
      ELSE IF name \in Known THEN IF IsString(v) THEN i + 3 ELSE 0
      ELSE SkipEnd(tokens, i + 2)

\* The places of an object's members, or None when it is not one, or when
\* something follows it.
MembersOf(tokens) ==
  LET from[i \in Nat, end \in Nat] ==
        IF end = 0 THEN None
        ELSE IF At(tokens, end).kind = ","
        THEN Map(from[end + 1, MemberEnd(tokens, end + 1)], LAMBDA more : <<i>> \o more)
        ELSE IF At(tokens, end).kind = "}" /\ end = Len(tokens) THEN Some(<<i>>)
        ELSE None
  IN  IF At(tokens, 1).kind = "{" THEN from[2, MemberEnd(tokens, 2)] ELSE None

\* Of a member told twice the later counts.
Told(tokens, members, name) ==
  LET hits == SelectSeq(members, LAMBDA i : tokens[i].text = name)
  IN  IF hits = <<>> THEN None
      ELSE Some(tokens[hits[Len(hits)] + 2].text)

\* A candidate without its text or its label is none.
Whole(c) == IF c.candidate = None \/ c.sdp_mid = None THEN None ELSE Some(c)
Candidate(tokens, members) ==
  LET Of(name) == Told(tokens, members, name)
  IN  Whole(IceCandidate(Of(CANDIDATE), Of(SDP_MID), Of(SDP_MLINE_INDEX),
                         Of(USERNAME_FRAGMENT)))

Parsed(tokens) ==
  Or(Map(MembersOf(tokens), LAMBDA members : Candidate(tokens, members)), None)

parse(written) == Parsed([i \in DOMAIN written |-> Said(written[i])])
=============================================================================
