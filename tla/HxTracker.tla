------------------------------ MODULE HxTracker ------------------------------
(* The tracker's messages: hxproto's tracker/tlv.rs, meta.rs and             *)
(* registration.rs, and the listing, whose readers are in parse.rs.          *)
EXTENDS HxText

HTRK == <<72, 84, 82, 75>>
VERSION_V1 == Num(1)
VERSION_V3 == Num(3)
EXT_MAGIC == <<72, 51>>     \* "H3"

-----------------------------------------------------------------------------
(* Fields: a block is as many as it says and nothing else.                   *)

id ==
  [DEREGISTER |-> 16, ADDRESS_IPV6 |-> 256, HOSTNAME |-> 257,
   SERVER_SOFTWARE |-> 512, COUNTRY_CODE |-> 513, REGION |-> 514,
   LANGUAGE |-> 515, MAX_USERS |-> 516, MATURITY |-> 517, UPTIME |-> 518,
   RULES_URL |-> 519, BANNER_URL |-> 520, ICON_URL |-> 521,
   LINK_DOWN_MBIT |-> 522, LINK_UP_MBIT |-> 523, TIMEZONE_OFFSET |-> 524,
   CONTACT_URL |-> 525, SERVER_LAUNCHED |-> 526, MIN_PROTOCOL_VERSION |-> 528,
   PEAK_24H |-> 529, AVG_24H |-> 530, LINKED_USERS |-> 531,
   PROTOCOL_VERSION |-> 768, SUPPORTS_HOPE |-> 769, SUPPORTS_TLS |-> 770,
   TLS_PORT |-> 771, SUPPORTS_INLINE_MEDIA |-> 772, SUPPORTS_VOICE |-> 773,
   SUPPORTS_LARGE_FILES |-> 774, SUPPORTS_IPV6 |-> 775, SUPPORTS_VIDEO |-> 776,
   HOPE_CIPHERS |-> 777, SUPPORTS_SERVER_LINKING |-> 778, TAGS |-> 784,
   NEWS_COUNT |-> 1104, MSGBOARD_COUNT |-> 1105, FILES_COUNT |-> 1106,
   TOTAL_FILE_SIZE |-> 1107, LAST_NEWS_TIME |-> 1108, LAST_CHAT_TIME |-> 1109,
   PRIVATE_LISTING |-> 1280, LISTING_CATEGORY |-> 1281,
   LANGUAGE_STRICT |-> 1282, IS_PROMOTED |-> 1536, FIRST_SEEN |-> 1537,
   LAST_HEARTBEAT |-> 1538, VERIFIED_ONLINE |-> 1539, REG_TOKEN |-> 2048,
   HMAC_SHA256 |-> 2049, NONCE |-> 2050, ERROR_MSG |-> 2064,
   TRACKER_NAME |-> 2065, AUTH_LOGIN |-> 2080, AUTH_PASS |-> 2081,
   SEARCH_TEXT |-> 4097, PAGE_OFFSET |-> 4112, PAGE_LIMIT |-> 4113]

read_at(buf, off) ==
  LET c == Read(buf, off, <<Uint("id", 2), Uint("len", 2), Counted("value", "len")>>)
  IN  IF off > Len(buf) \/ ~c.ok THEN None
      ELSE Some([field |-> Field(Size(c.got.id), c.got.value), next |-> c.pos])

\* Mutant: what the block's end cuts off is not missed.
MutReadAll(buf, count) == Some(ChunksAt(buf, 0))

read_all(buf, count) ==
  LET fields == ChunksAt(buf, 0)
  IN  IF Len(fields) = count /\ Len(PutChunks(fields)) = Len(buf)
      THEN Some(fields) ELSE None

\* TlvWriter: the block of some fields, or None when a value or their number
\* is more than 16 bits say.
Block(fields) ==
  IF \/ Len(fields) > MaxField
     \/ \E i \in DOMAIN fields : Len(fields[i].data) > MaxField
  THEN None ELSE Some(PutChunks(fields))
Counting(fields) == Wide(Num(Len(fields)), 2) \o PutChunks(fields)

-----------------------------------------------------------------------------
(* What a server says of itself: TrackerMeta, as a function from the ids it  *)
(* has to their values.  A flag is there or it is not.                       *)

MetaFlags ==
  {id.SUPPORTS_HOPE, id.SUPPORTS_TLS, id.SUPPORTS_INLINE_MEDIA,
   id.SUPPORTS_VOICE, id.SUPPORTS_LARGE_FILES, id.SUPPORTS_IPV6,
   id.SUPPORTS_VIDEO, id.SUPPORTS_SERVER_LINKING, id.PRIVATE_LISTING,
   id.LANGUAGE_STRICT, id.IS_PROMOTED, id.VERIFIED_ONLINE}
MetaTexts ==
  {id.HOSTNAME, id.SERVER_SOFTWARE, id.COUNTRY_CODE, id.REGION, id.LANGUAGE,
   id.RULES_URL, id.BANNER_URL, id.ICON_URL, id.CONTACT_URL, id.HOPE_CIPHERS,
   id.TAGS}
MetaWords ==
  {id.MAX_USERS, id.TIMEZONE_OFFSET, id.MIN_PROTOCOL_VERSION, id.PEAK_24H,
   id.AVG_24H, id.LINKED_USERS, id.PROTOCOL_VERSION, id.TLS_PORT}
MetaLongs ==
  {id.UPTIME, id.LINK_DOWN_MBIT, id.LINK_UP_MBIT, id.SERVER_LAUNCHED,
   id.NEWS_COUNT, id.MSGBOARD_COUNT, id.FILES_COUNT, id.LAST_NEWS_TIME,
   id.LAST_CHAT_TIME, id.FIRST_SEEN, id.LAST_HEARTBEAT}
\* Maturity and the listing category: the largest value each knows.
Vocabulary == {id.MATURITY, id.LISTING_CATEGORY}
Known(field) == IF field = id.MATURITY THEN 3 ELSE 12
MetaIds == MetaFlags \cup MetaTexts \cup MetaWords \cup MetaLongs \cup Vocabulary
             \cup {id.ADDRESS_IPV6, id.TOTAL_FILE_SIZE}

\* A number of another width than its own reads as 0; the size of the files
\* may come in the four bytes it once had.
Number(value, widths) == IF Len(value) \in widths THEN Value(value) ELSE <<>>

Reads(field, v) ==
  CASE field \in MetaFlags -> IF Value(v) = <<>> THEN None ELSE Some(TRUE)
    [] field \in MetaTexts -> Some(Lossy(v))
    [] field \in MetaWords -> Some(Number(v, {2}))
    [] field \in MetaLongs -> Some(Number(v, {4}))
    [] field = id.TOTAL_FILE_SIZE -> Some(Number(v, {4, 8}))
    [] field \in Vocabulary -> Some(LET n == Size(Number(v, {1}))
                                    IN  IF n <= Known(field) THEN n ELSE 0)
    [] OTHER -> IF Len(v) = 16 THEN Some(v) ELSE None

\* A field told twice is what the last one says, absence included.
apply(meta, field, v) ==
  IF field \notin MetaIds THEN meta
  ELSE LET value == Reads(field, v)
       IN  IF value = None
           THEN [f \in DOMAIN meta \ {field} |-> meta[f]]
           ELSE [f \in DOMAIN meta \cup {field} |->
                   IF f = field THEN value[1] ELSE meta[f]]

NoMeta == [f \in {} |-> <<>>]
decode(buf, count) ==
  Map(read_all(buf, count), LAMBDA fields :
        FoldLeft(LAMBDA m, f : apply(m, f.tag, f.data), NoMeta, fields))

\* In ascending order of ids; an unspecified category is not written.
encode(meta) ==
  LET Written == {f \in DOMAIN meta : ~(f = id.LISTING_CATEGORY /\ meta[f] = 0)}
      Data(f) == CASE f \in MetaFlags -> <<1>> [] f \in MetaTexts -> AsBytes(meta[f])
                   [] f \in MetaWords -> Wide(meta[f], 2)
                   [] f \in MetaLongs -> Wide(meta[f], 4)
                   [] f = id.TOTAL_FILE_SIZE -> Wide(meta[f], 8)
                   [] f \in Vocabulary -> <<meta[f]>>
                   [] OTHER -> meta[f]
      order == SetToSortSeq(Written, <)
  IN  [i \in DOMAIN order |-> Field(order[i], Data(order[i]))]

-----------------------------------------------------------------------------
(* Registering with a tracker.                                               *)

MAX_DATAGRAM == 65507
NONCE_LEN == 8
HMAC_LEN == 32

\* The part every version has; None when a text's length is not one byte.
Base(version, r) ==
  IF \E t \in {r.name, r.description, r.password} : Len(t) > 255 THEN None
  ELSE Some(Wide(version, 2) \o Wide(r.port, 2) \o Wide(r.users, 2) \o <<0, 0>>
              \o Wide(r.pass_id, 4)
              \o <<Len(r.name)>> \o r.name
              \o <<Len(r.description)>> \o r.description
              \o <<Len(r.password)>> \o r.password)

build_v1(r) == Base(VERSION_V1, r)

\* Token and nonce are Options; the hash is that of the packet with its own
\* place zero, which it then fills.
build_v3(r, fields, token, nonce) ==
  LET ext == fields
               \o (IF token = None THEN <<>> ELSE <<Field(id.REG_TOKEN, token[1])>>)
               \o (IF nonce = None THEN <<>>
                   ELSE <<Field(id.NONCE, nonce[1]),
                          Field(id.HMAC_SHA256, Wide(<<>>, HMAC_LEN))>>)
      base == Base(VERSION_V3, r)
      packet == base[1] \o EXT_MAGIC \o Counting(ext)
  IN  IF Block(ext) = None \/ base = None THEN None
      ELSE IF Len(packet) > MAX_DATAGRAM THEN None
      ELSE IF nonce = None THEN Some(packet)
      ELSE Some(Cut(packet, Len(packet) - HMAC_LEN) \o Hashed(packet))

\* A text the packet ends before is empty; one it ends within is refused.
Pascal(packet, c, as) ==
  IF c.ok /\ c.pos = Len(packet)
  THEN [c EXCEPT !.got = [x \in DOMAIN @ \cup {as} |->
                            IF x = as THEN <<>> ELSE @[x]]]
  ELSE ReadOne(packet, c, PString(as))

RegistrationHead == <<Uint("version", 2), Uint("port", 2), Uint("users", 2),
                      Bytes("reserved", 2), Uint("pass_id", 4)>>

\* What follows the base: None, an Option of fields, where they are malformed.
Extension(version, rest) ==
  IF version # VERSION_V3 \/ rest = <<>> THEN Some(None)
  ELSE IF Len(rest) < 4 \/ Cut(rest, 2) # EXT_MAGIC THEN None
  ELSE Map(read_all(Rest(rest, 4), Size(U16In(rest, 2))), Some)

Parsed(packet, c) ==
  IF ~c.ok THEN None
  ELSE Map(Extension(c.got.version, Rest(packet, c.pos)), LAMBDA fields :
             [registration |-> c.got, fields |-> fields])

parse(packet) ==
  Parsed(packet, FoldLeft(LAMBDA c, as : Pascal(packet, c, as),
                          Read(packet, 0, RegistrationHead),
                          <<"name", "description", "password">>))

\* The packet with its one hash zeroed, and the hash; None without exactly
\* one of the right length.
Unsigned(packet, mac, at) ==
  [input |-> Cut(packet, at) \o Wide(<<>>, HMAC_LEN) \o Rest(packet, at + HMAC_LEN),
   mac |-> mac]

MacOf(packet, fields) ==
  LET i == SelectInSeq(fields, LAMBDA f : f.tag = id.HMAC_SHA256)
      rest == Len(PutChunks(SubSeq(fields, i, Len(fields)))) - 4
  IN  IF Len(SelectSeq(fields, LAMBDA f : f.tag = id.HMAC_SHA256)) # 1 THEN None
      ELSE IF Len(fields[i].data) # HMAC_LEN THEN None
      ELSE Some(Unsigned(packet, fields[i].data, Len(packet) - rest))

hmac_input(packet) ==
  LET parsed == parse(packet)
  IN  IF parsed = None THEN None ELSE MacOf(packet, Or(parsed[1].fields, <<>>))

\* What a tracker answers.
AckStatus == <<"Ok", "Denied", "Banned", "Quota", "Full", "Invalid">>
StatusOf(raw) == IF raw = 255 THEN "Error"
                 ELSE IF raw < 6 THEN AckStatus[raw + 1] ELSE "Other"

AckHead == <<Bytes("magic", 2), Bytes("status", 1), Uint("interval", 2),
             Uint("count", 2)>>
AckFailed(why) == [ok |-> FALSE, why |-> why]
Answer(c, fields) ==
  IF fields = None THEN AckFailed("BadFields")
  ELSE [ok |-> TRUE, status |-> c.got.status[1], interval |-> c.got.interval,
        token |-> LastIn(fields[1], id.REG_TOKEN),
        error |-> Map(LastIn(fields[1], id.ERROR_MSG), Lossy),
        tracker_name |-> Map(LastIn(fields[1], id.TRACKER_NAME), Lossy)]
AckRead(packet, c) ==
  IF ~c.ok THEN AckFailed("Truncated")
  ELSE IF c.got.magic # EXT_MAGIC THEN AckFailed("BadMagic")
  ELSE Answer(c, read_all(Rest(packet, 7), Size(c.got.count)))
parse_ack(packet) == AckRead(packet, Read(packet, 0, AckHead))

build_ack(status, interval, token, error, name) ==
  LET One(t, option) == IF option = None THEN <<>> ELSE <<Field(t, option[1])>>
      fields == One(id.REG_TOKEN, token)
                  \o One(id.ERROR_MSG, Map(error, AsBytes))
                  \o One(id.TRACKER_NAME, Map(name, AsBytes))
  IN  IF Block(fields) = None THEN None
      ELSE Some(EXT_MAGIC \o <<status>> \o Wide(interval, 2) \o Counting(fields))

-----------------------------------------------------------------------------
(* Listing servers, the old way and the new.                                 *)

parse_tracker_header(buf) == IF Len(buf) < 14 THEN None ELSE Some(U16In(buf, 10))
tracker_record_is_padding(buf) == buf # <<>> /\ buf[1] = 0
parse_tracker_record_fixed(buf) ==
  ReadAll(buf, <<Bytes("addr", 4), Uint("port", 2), Uint("nusers", 2),
                 Bytes("unused", 2), Uint("name_len", 1)>>)
tracker_normalize_text(text) == StripAnsi(Cr2Lf(text))

pack_tracker_v3_handshake(room, features) ==
  IF room < 8 THEN None ELSE Some(HTRK \o Wide(VERSION_V3, 2) \o Wide(features, 2))

parse_tracker_v3_handshake_response(buf) ==
  IF Len(buf) \notin {6, 8} \/ Cut(buf, 4) # HTRK THEN None
  ELSE Some([version |-> U16In(buf, 4),
             features |-> IF Len(buf) = 8 THEN U16In(buf, 6) ELSE <<>>])

REQ_LIST == Num(1)
pack_tracker_v3_listing_request_simple(room) ==
  IF room < 4 THEN None ELSE Some(Wide(REQ_LIST, 2) \o <<0, 0>>)

parse_tracker_v3_response_header(buf) ==
  LET got == ReadAll(buf, <<Uint("response_type", 2), Uint("total_size", 4),
                            Uint("total_servers", 2), Uint("record_count", 2)>>)
  IN  IF got = None THEN None
      ELSE IF got[1].response_type # REQ_LIST THEN None ELSE got

\* An address: four bytes, sixteen, or a name; another kind ends the listing,
\* since its length is not known.
Address(kind) ==
  CASE kind = 4 -> <<Bytes("address", 4)>>
    [] kind = 6 -> <<Bytes("address", 16)>>
    [] OTHER -> <<Uint("address_len", 2), Counted("address", "address_len")>>

RecordLayout(kind) ==
  <<Bytes("addr_type", 1)>> \o Address(kind)
    \o <<Uint("port", 2), Uint("nusers", 2), Uint("name_len", 2),
         Counted("name", "name_len"), Uint("desc_len", 2), Counted("desc", "desc_len"),
         Uint("tlv_count", 2)>>
Trailed(c, fields, count) ==
  LET trailer == PutChunks(SubSeq(fields, 1, count))
  IN  IF Len(fields) < count THEN None
      ELSE Some([record |-> c.got, tlv_bytes |-> trailer,
                 consumed |-> c.pos + Len(trailer)])
RecordRead(rest, c) ==
  IF ~c.ok THEN None ELSE Trailed(c, ChunksAt(rest, c.pos), Size(c.got.tlv_count))

parse_tracker_v3_record(buf, off) ==
  LET rest == Rest(buf, off)
  IN  IF off >= Len(buf) THEN None
      ELSE IF rest[1] \notin {4, 6, 72} THEN None
      ELSE RecordRead(rest, Read(rest, 0, RecordLayout(rest[1])))

\* Values of a record's fields, each of its own width or the default.
tracker_v3_meta_read(value, width, default) ==
  IF Len(value) = width THEN Value(value) ELSE default
tracker_v3_meta_read_bool(value) == \E i \in DOMAIN value : value[i] # 0
tracker_v3_meta_clamp_maturity(raw) == IF raw <= 3 THEN raw ELSE 0
tracker_v3_meta_clamp_listing_category(raw) == IF raw <= 12 THEN raw ELSE 0
=============================================================================
