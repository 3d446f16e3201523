------------------------------- MODULE HxText -------------------------------
(* Text in hxproto: text.rs (Mac Roman and UTF-8), emoji.rs (shortcodes),    *)
(* hl_date.rs; and the small decisions of user_change.rs, dispatch.rs and    *)
(* login.rs.                                                                 *)
(*                                                                           *)
(* A String of the code is the sequence of its characters, each its Unicode  *)
(* scalar value; the bytes that stand for it are a sequence of 0 .. 255.     *)
EXTENDS HxWire

CONSTANTS
  ENCODE,           \* emoji_table: pairs of a cluster and its shortcode
  DECODE            \* emoji_table: pairs of a shortcode and its cluster

-----------------------------------------------------------------------------
(* UTF-8 (the standard library's).                                           *)

Replacement == 65533

Tail6(c, shift) == 128 + ((c \div shift) % 64)
Utf8(c) ==
  CASE c < 128 -> <<c>>
    [] c \in 128 .. 2047 -> <<192 + (c \div 64), Tail6(c, 1)>>
    [] c \in 2048 .. 65535 -> <<224 + (c \div 4096), Tail6(c, 64), Tail6(c, 1)>>
    [] OTHER -> <<240 + (c \div 262144), Tail6(c, 4096), Tail6(c, 64), Tail6(c, 1)>>
AsBytes(text) == FlattenSeq([i \in DOMAIN text |-> Utf8(text[i])])

Continuation == 128 .. 191

\* How many bytes a character that begins with this one has, 0 for none, and
\* which bytes may come second.
CharLen(b) ==
  CASE b < 128 -> 1 [] b \in 194 .. 223 -> 2 [] b \in 224 .. 239 -> 3
    [] b \in 240 .. 244 -> 4 [] OTHER -> 0
Second(b) ==
  CASE b = 224 -> 160 .. 191 [] b = 237 -> 128 .. 159
    [] b = 240 -> 144 .. 191 [] b = 244 -> 128 .. 143
    [] OTHER -> Continuation

\* How far the bytes at i go on as the character they begin.
Along(bytes, i) ==
  Max({k \in 1 .. Least(Most(CharLen(bytes[i]), 1), Len(bytes) - i + 1) :
         \A j \in 2 .. k :
           bytes[i + j - 1] \in IF j = 2 THEN Second(bytes[i]) ELSE Continuation})

CharAt(bytes, i) ==
  LET n == CharLen(bytes[i])
  IN  FoldLeft(LAMBDA c, b : (64 * c) + (b % 64),
               CASE n = 1 -> bytes[i] [] n = 2 -> bytes[i] % 32
                 [] n = 3 -> bytes[i] % 16 [] OTHER -> bytes[i] % 8,
               SubSeq(bytes, i + 1, i + n - 1))

\* from_utf8_lossy: what cannot be a character becomes one replacement.
Lossy(bytes) ==
  LET walk[i \in 1 .. Len(bytes) + 1] ==
        IF i > Len(bytes) THEN <<>>
        ELSE LET whole == Along(bytes, i) = CharLen(bytes[i])
             IN  <<IF whole THEN CharAt(bytes, i) ELSE Replacement>>
                   \o walk[i + Along(bytes, i)]
  IN  walk[1]

\* The first byte that begins no whole character, or the one behind the last:
\* Utf8Error::valid_up_to.
FirstBroken(bytes) ==
  LET walk[i \in 1 .. Len(bytes) + 1] ==
        IF i <= Len(bytes) /\ Along(bytes, i) = CharLen(bytes[i])
        THEN walk[i + Along(bytes, i)] ELSE i
  IN  walk[1]
IsUtf8(bytes) == FirstBroken(bytes) = Len(bytes) + 1

-----------------------------------------------------------------------------
(* text.rs.                                                                  *)

MAC_ROMAN_HIGH ==
  <<196, 197, 199, 201, 209, 214, 220, 225, 224, 226, 228, 227, 229, 231,
    233, 232, 234, 235, 237, 236, 238, 239, 241, 243, 242, 244, 246, 245,
    250, 249, 251, 252, 8224, 176, 162, 163, 167, 8226, 182, 223, 174, 169,
    8482, 180, 168, 8800, 198, 216, 8734, 177, 8804, 8805, 165, 181, 8706,
    8721, 8719, 960, 8747, 170, 186, 937, 230, 248, 191, 161, 172, 8730,
    402, 8776, 916, 171, 187, 8230, 160, 192, 195, 213, 338, 339, 8211,
    8212, 8220, 8221, 8216, 8217, 247, 9674, 255, 376, 8260, 8364, 8249,
    8250, 64257, 64258, 8225, 183, 8218, 8222, 8240, 194, 202, 193, 203,
    200, 205, 206, 207, 204, 211, 212, 57374, 210, 218, 219, 217, 305, 710,
    732, 175, 728, 729, 730, 184, 733, 731, 711>>

MacRoman(b) == IF b < 128 THEN b ELSE MAC_ROMAN_HIGH[b - 127]
mac_roman_to_utf8(bytes) == [i \in DOMAIN bytes |-> MacRoman(bytes[i])]

\* Bytes that happen to be UTF-8 are taken for it, whatever they were.
to_utf8(bytes) == IF IsUtf8(bytes) THEN Lossy(bytes) ELSE mac_roman_to_utf8(bytes)

\* Mutant: a cut wherever the room ends.
MutFit(bytes, room) == Cut(bytes, room)

\* A cut that leaves no character in two.
Fit(bytes, room) ==
  IF Len(bytes) <= room THEN bytes
  ELSE SubSeq(bytes, 1, Max({0} \cup {n \in 1 .. room :
                                        bytes[n + 1] \notin Continuation}))

to_utf8_into(bytes, room) == Fit(AsBytes(to_utf8(bytes)), room)

\* A character Mac Roman lacks is a question mark.
from_utf8(text) ==
  [i \in DOMAIN text |->
     LET at == {k \in 1 .. 128 : MAC_ROMAN_HIGH[k] = text[i]}
     IN  IF text[i] < 128 THEN text[i]
         ELSE IF at = {} THEN 63 ELSE 127 + Min(at)]

-----------------------------------------------------------------------------
(* emoji.rs.                                                                 *)

Digit == 48 .. 57
Colon == 58
MIRC_COLOR == 3
MAX_ENCODE_CHARS == 10

is_shortcode_char(c) == c \in (97 .. 122) \cup Digit \cup {95, 43, 45}
could_start_emoji(c) == c > 127 \/ c \in {35, 42} \cup Digit

\* The longest cluster the characters from i on begin with.
longest_emoji_at(text, i) ==
  LET rest == SubSeq(text, i, Len(text))
      hits == {e \in ENCODE : Len(e[1]) <= MAX_ENCODE_CHARS /\ IsPrefix(e[1], rest)}
  IN  IF hits = {} THEN None
      ELSE Some(CHOOSE e \in hits : \A d \in hits : Len(d[1]) <= Len(e[1]))

emoji_to_shortcodes(text) ==
  LET walk[i \in 1 .. Len(text) + 1] ==
        IF i > Len(text) THEN <<>>
        ELSE LET hit == IF could_start_emoji(text[i])
                        THEN longest_emoji_at(text, i) ELSE None
             IN  IF hit = None THEN <<text[i]>> \o walk[i + 1]
                 ELSE <<Colon>> \o hit[1][2] \o <<Colon>> \o walk[i + Len(hit[1][1])]
  IN  walk[1]

\* Where up to two digits from i on end.
Digits(text, i) ==
  i + Max({k \in 0 .. 2 : \A j \in 0 .. k - 1 :
                            i + j <= Len(text) /\ text[i + j] \in Digit})

\* Where a color code that begins at i ends: two digits at most, and after a
\* comma that a digit follows two more.
ColorEnd(text, i) ==
  LET fg == Digits(text, i + 1)
  IN  IF fg + 1 <= Len(text) /\ text[fg] = 44 /\ text[fg + 1] \in Digit
      THEN Digits(text, fg + 1) ELSE fg

\* Every known :name: becomes its emoji; a color code is passed over.
shortcodes_to_emoji(text) ==
  LET NameEnd(i) == Min({j \in i + 1 .. Len(text) + 1 :
                           j > Len(text) \/ ~is_shortcode_char(text[j])})
      Emoji(i, j) == {d \in DECODE : d[1] = SubSeq(text, i + 1, j - 1)}
      walk[i \in 1 .. Len(text) + 1] ==
        IF i > Len(text) THEN <<>>
        ELSE IF text[i] = MIRC_COLOR
        THEN SubSeq(text, i, ColorEnd(text, i) - 1) \o walk[ColorEnd(text, i)]
        ELSE LET j == IF text[i] = Colon THEN NameEnd(i) ELSE i
                 hit == IF j > i + 1 /\ j <= Len(text) /\ text[j] = Colon
                        THEN Emoji(i, j) ELSE {}
             IN  IF hit = {} THEN <<text[i]>> \o walk[i + 1]
                 ELSE (CHOOSE d \in hit : TRUE)[2] \o walk[j + 1]
  IN  walk[1]

\* What the list of suggestions shows: the exact name first, then the shorter.
Before(a, b) ==
  \E i \in 1 .. Least(Len(a), Len(b)) + 1 :
    /\ \A j \in 1 .. i - 1 : a[j] = b[j]
    /\ i <= Len(b) /\ (i > Len(a) \/ a[i] < b[i])
shortcode_matches(prefix, most) ==
  LET hits == {d \in DECODE : IsPrefix(prefix, d[1])}
      Sooner(a, b) ==
        IF (a[1] = prefix) # (b[1] = prefix) THEN a[1] = prefix
        ELSE IF Len(a[1]) # Len(b[1]) THEN Len(a[1]) < Len(b[1])
        ELSE Before(a[1], b[1])
  IN  IF prefix = <<>> \/ most = 0 THEN <<>>
      ELSE Cut(SetToSortSeq(hits, Sooner), most)

\* The forms that fill a buffer also return the length it would take.
emit(text, room) == [full |-> Len(AsBytes(text)), out |-> Fit(AsBytes(text), room)]
emoji_to_shortcodes_into(bytes, room) == emit(emoji_to_shortcodes(Lossy(bytes)), room)
shortcodes_to_emoji_into(bytes, room) == emit(shortcodes_to_emoji(Lossy(bytes)), room)

-----------------------------------------------------------------------------
(* Dates, and decisions over what was read.                                  *)

parse_hl_date(bytes) ==
  LET year == Size(Value(Cut(bytes, 2)))
      secs == Value(Slice(bytes, 4, 4))
  IN  IF Len(bytes) < 8 THEN None
      ELSE IF secs = <<>> THEN None
      ELSE IF year = 1904 THEN Some([kind |-> "Mac1904", year |-> 0, secs |-> secs])
      ELSE IF year \notin 1970 .. 2200 THEN None
      ELSE Some([kind |-> "Modern", year |-> year, secs |-> secs])

\* What a change of a user means, given the user as it was (old, an Option)
\* and who the client takes itself to be.
resolve(change, old, selfUid, selfName) ==
  LET adopt == /\ selfUid = <<>> /\ change.uid # <<>> /\ change.name # <<>>
               /\ selfName = Some(change.name)
      self == IF adopt THEN change.uid ELSE selfUid
      isSelf == change.uid # <<>> /\ change.uid = self
  IN  [adopt_self_uid |-> adopt, is_self |-> isSelf, is_new |-> old = None,
       skip_self_create |-> old = None /\ isSelf,
       eff_color |-> IF change.color # None THEN change.color[1]
                     ELSE IF old # None THEN old[1].status ELSE <<>>,
       eff_nick_color |-> IF change.nick_color # None THEN change.nick_color[1]
                          ELSE IF old # None THEN old[1].nick_color ELSE U32Max,
       do_rename_notice |-> /\ old # None /\ change.uid # self
                            /\ change.name # <<>> /\ old[1].name # change.name]

\* The handler of a message's type.  Any type with the task bits is a reply.
Handlers ==
  [Chat |-> {106}, Msg |-> {104, 355}, UserChange |-> {301, 117},
   UserPart |-> {302, 118}, NewsPost |-> {102}, ChatSubject |-> {119},
   ChatInvite |-> {113}, UserSelfInfo |-> {354}, Agreement |-> {109},
   Banner |-> {122}, PoliteQuit |-> {111}, XferQueue |-> {211},
   VoiceSdpOffer |-> {602}, VoiceIce |-> {604}, VoiceRoomStatus |-> {605},
   VideoStatus |-> {611}, IconChange |-> {1864}]
route(opcode) ==
  LET of == {k \in DOMAIN Handlers : opcode \in Handlers[k]}
  IN  IF opcode \div 65536 = 1 THEN "Task"
      ELSE IF of = {} THEN "Unknown" ELSE CHOOSE k \in of : TRUE

post_login_route(version, fetched) ==
  IF fetched THEN "Nothing"
  ELSE IF version = <<>> THEN "FetchNow" ELSE "ArmFallback"
=============================================================================
