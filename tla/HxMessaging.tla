----------------------------- MODULE HxMessaging -----------------------------
(* Messaging between accounts: hxproto's messaging.rs.  A message here is    *)
(* fields in groups, each group behind a field that delimits it, and a       *)
(* reader of one refuses what the older readers overlook: a field cut short, *)
(* of a wrong width, told twice, or outside the group it belongs to.         *)
EXTENDS HxBuild

CAP_MESSAGING == 6          \* the bits of the capabilities
CAP_DIRECT_TRANSFER == 7
CAP_MESSENGER_SESSION == 8
CAP_IDENTITY == 13
CAP_DEVICE_PROOF == 14
CAP_FRIENDSHIPS == 15

GUID_LEN == 16
ICON_HASH_LEN == 16
HASH_LEN == 32
MAX_SIGNED_LEN == 1020
MAX_SEALED_LEN == 17152
MAX_DEVICE_CERT_LEN == 512
MAX_OFFER_LEN == 1024
MAX_FRIENDSHIP_LEN == 2080
MAX_FRIENDSHIP_OBJECTS == 32
MAX_PROOF_HOST_LEN == 260
MAX_DEVICE_PROOF_LEN == 576
MAX_USER_CARD_LEN == 16384
MAX_LANGUAGES == 3
MAX_INTS == 4

PresenceState == [Offline |-> 0, Online |-> 1, Away |-> 2, Invisible |-> 3, Busy |-> 4]
RosterState ==
  [Removed |-> 0, PendingOut |-> 1, PendingIn |-> 2, Accepted |-> 3, Blocked |-> 4]
AckType == [Delivered |-> 1, Read |-> 2]
TypingState == [Stopped |-> 0, Started |-> 1]
ReasonCode ==
  [Ok |-> 0, AccountNotFound |-> 1, NotMessagingEnabled |-> 2, Blocked |-> 3,
   AlreadyFriends |-> 4, RequestPending |-> 5, NotFriends |-> 6,
   OfflineQueued |-> 7, OfflineUndeliverable |-> 8, QueueFull |-> 9,
   RateLimited |-> 10, NotDiscoverable |-> 11, RosterFull |-> 12,
   MessageTooLong |-> 13, InvalidImage |-> 14, NoDeviceKeys |-> 15,
   BadSignature |-> 16, Requested |-> 17, Withdrawn |-> 18, Stale |-> 19]
RequestAction == [Approve |-> 1, Delete |-> 2, EndApproval |-> 3]
Gender == [Unspecified |-> 0, Female |-> 1, Male |-> 2, Other |-> 3]

\* from_wire: the name of a number, if it has one.
FromWire(enum, v) ==
  LET names == {name \in DOMAIN enum : Num(enum[name]) = v}
  IN  IF names = {} THEN None ELSE Some(CHOOSE name \in names : TRUE)

\* A date of which the year, the month or the day may be untold (0).
is_possible(d) ==
  LET leap == \/ d.year = 0
              \/ d.year % 4 = 0 /\ (d.year % 100 # 0 \/ d.year % 400 = 0)
  IN  /\ d.month <= 12
      /\ d.day <= CASE d.month = 2 -> IF leap THEN 29 ELSE 28
                    [] d.month \in {4, 6, 9, 11} -> 30
                    [] OTHER -> 31
BirthdateBytes(d) == Wide(Num(d.year), 2) \o <<d.month, d.day>>
BirthdateParse(data) ==
  LET d == [year |-> Size(U16In(data, 0)), month |-> data[3], day |-> data[4]]
  IN  IF Len(data) = 4 /\ is_possible(d) THEN Some(d) ELSE None

-----------------------------------------------------------------------------
(* Malformed, and the reading of groups.                                     *)

Malformed(why, t) == [ok |-> FALSE, why |-> why, tag |-> t]
Whole(value) == [ok |-> TRUE, value |-> value]

\* The first of some Options that is there.
FirstGiven(options) ==
  LET found == FlattenSeq(options) IN IF found = <<>> THEN None ELSE Some(found[1])

\* The first fault, or else the value.
OrWhole(fault, value) == IF fault = None THEN Whole(value) ELSE fault[1]
Unless(faults, value) == OrWhole(FirstGiven(faults), value)

\* body: the fields of a message that they fill to its end.
WholeBody(message, fields, Reader(_)) ==
  IF Len(message) < HeaderLen \/ PackMessageSize(fields) # Len(message)
  THEN Malformed("Truncated", 0) ELSE Reader(fields)
Body(message, Reader(_)) == WholeBody(message, Chunks(message), Reader)

\* What comes before the first field that delimits, and the groups after it.
Split(fields, delim) ==
  LET heads == {i \in DOMAIN fields : fields[i].tag \in delim}
      End(i) == Min({j \in heads : j > i} \cup {Len(fields) + 1}) - 1
      starts == SetToSortSeq(heads, <)
  IN  [prelude |-> SubSeq(fields, 1, End(0)),
       groups |-> [k \in DOMAIN starts |->
                     [head |-> fields[starts[k]],
                      fields |-> SubSeq(fields, starts[k] + 1, End(starts[k]))]]]

\* How a tag's data is read: u16_of, u32_of, u64_of, fixed, or as it is.
Kind(t) ==
  CASE t \in {peerTag.ROSTER_STATE, peerTag.PRESENCE_STATE, peerTag.REASON_CODE,
              peerTag.TAKES_REQUESTS} -> "u16"
    [] t = peerTag.REQUEST_COUNT -> "u32"
    [] t = peerTag.MESSAGE_TIMESTAMP -> "u64"
    [] t = peerTag.FRIEND_CAPABILITIES -> "caps"
    [] t \in {peerTag.MESSAGE_GUID, peerTag.BUDDY_ICON_HASH} -> "fixed16"
    [] t \in {peerTag.FRIEND_IDENTITY, peerTag.FRIENDSHIP_HASH} -> "fixed32"
    [] OTHER -> "text"

HasWidth(t, data) ==
  CASE Kind(t) = "u16" -> Len(data) \in {2, 4} /\ Len(Value(data)) <= 2
    [] Kind(t) = "u32" -> Len(data) \in {2, 4}
    [] Kind(t) = "u64" -> Len(data) = 8
    [] Kind(t) = "fixed16" -> Len(data) = GUID_LEN
    [] Kind(t) = "fixed32" -> Len(data) = HASH_LEN
    [] OTHER -> TRUE
Width(field) ==
  IF HasWidth(field.tag, field.data) THEN None
  ELSE Some(Malformed("Width", field.tag))

\* Mutant: the second hash of a friendship is taken for a repeated field.
MutOnce(fields, i) ==
  IF \E j \in 1 .. i - 1 : fields[j].tag = fields[i].tag
  THEN Some(Malformed("Repeated", fields[i].tag)) ELSE None

\* once: a second one is too many, of the hashes a third.
Once(fields, i) ==
  LET same == {j \in 1 .. i : fields[j].tag = fields[i].tag}
      most == IF fields[i].tag = peerTag.FRIENDSHIP_HASH THEN 2 ELSE 1
  IN  IF Cardinality(same) <= most THEN None
      ELSE Some(Malformed("Repeated", fields[i].tag))

\* The first field in a group that cannot stand: one out of place, or one of
\* the known tags that is too wide or one too many.
FieldFault(fields, i, known, stray) ==
  IF stray # "" THEN Some(Malformed(stray, fields[i].tag))
  ELSE IF fields[i].tag \notin known THEN None
  ELSE FirstGiven(<<Width(fields[i]), Once(fields, i)>>)
Fault(fields, known, Stray(_)) ==
  FirstGiven([i \in DOMAIN fields |-> FieldFault(fields, i, known, Stray(i))])
Anywhere(i) == ""

Get(fields, t) ==
  Map(FirstIn(fields, t), LAMBDA d :
        CASE Kind(t) \in {"u16", "u32", "u64"} -> Value(d)
          [] Kind(t) = "caps" -> CapabilitiesDecode(d)
          [] OTHER -> d)
Need(fields, t) ==
  IF FirstIn(fields, t) = None THEN Some(Malformed("Missing", t)) ELSE None

\* login_of.
NoLogin(head) ==
  IF head.data = <<>> THEN Some(Malformed("Width", head.tag)) ELSE None

\* Some groups as they are read; the first one's fault, and their values.
Each(groups, Reader(_)) == [k \in DOMAIN groups |-> Reader(groups[k])]
Bad(results) ==
  FirstGiven([k \in DOMAIN results |-> IF results[k].ok THEN None ELSE Some(results[k])])
Values(results) == [k \in DOMAIN results |-> results[k].value]

-----------------------------------------------------------------------------
(* The roster.                                                               *)

EntryTags ==
  {peerTag.FRIEND_NICKNAME, peerTag.ROSTER_STATE, peerTag.PRESENCE_STATE,
   peerTag.PRESENCE_STATUS_TEXT, peerTag.FRIEND_CAPABILITIES, tag.NAME,
   peerTag.BUDDY_ICON_HASH, peerTag.FRIEND_IDENTITY, peerTag.FRIENDSHIP_HASH,
   peerTag.FRIEND_WITHDRAW, peerTag.REQUEST_NOTE, peerTag.FRIEND_OFFER}

RosterEntry(group) ==
  LET Of(t) == Get(group.fields, t)
      hashes == SelectSeq(group.fields, LAMBDA f : f.tag = peerTag.FRIENDSHIP_HASH)
  IN  Unless(<<NoLogin(group.head), Fault(group.fields, EntryTags, Anywhere)>>,
        [login |-> group.head.data, nickname |-> Of(peerTag.FRIEND_NICKNAME),
         state |-> Of(peerTag.ROSTER_STATE),
         presence |-> Of(peerTag.PRESENCE_STATE),
         status_text |-> Of(peerTag.PRESENCE_STATUS_TEXT),
         capabilities |-> Of(peerTag.FRIEND_CAPABILITIES), name |-> Of(tag.NAME),
         icon_hash |-> Of(peerTag.BUDDY_ICON_HASH),
         identity |-> Of(peerTag.FRIEND_IDENTITY),
         hashes |-> [i \in DOMAIN hashes |-> hashes[i].data],
         withdrawal |-> Of(peerTag.FRIEND_WITHDRAW),
         note |-> Of(peerTag.REQUEST_NOTE), offer |-> Of(peerTag.FRIEND_OFFER)])

roster_state(entry) ==
  IF entry.state = None THEN None ELSE FromWire(RosterState, entry.state[1])
presence_state(entry) ==
  IF entry.presence = None THEN None ELSE FromWire(PresenceState, entry.presence[1])

\* A field that is there, and a number in so many bytes that is.
Fields(t, option) == IF option = None THEN <<>> ELSE <<Field(t, option[1])>>
Counted2(t, option) == Fields(t, Map(option, LAMBDA v : Wide(v, 2)))

EntryFields(e) ==
  LET all ==
        <<Field(peerTag.FRIEND_LOGIN, e.login)>>
          \o Fields(peerTag.FRIEND_NICKNAME, e.nickname)
          \o Counted2(peerTag.ROSTER_STATE, e.state)
          \o Counted2(peerTag.PRESENCE_STATE, e.presence)
          \o Fields(peerTag.PRESENCE_STATUS_TEXT, e.status_text)
          \o Fields(peerTag.FRIEND_CAPABILITIES, Map(e.capabilities, CapabilitiesEncode))
          \o Fields(tag.NAME, e.name)
          \o Fields(peerTag.BUDDY_ICON_HASH, e.icon_hash)
          \o Fields(peerTag.FRIEND_IDENTITY, e.identity)
          \o [i \in DOMAIN e.hashes |-> Field(peerTag.FRIENDSHIP_HASH, e.hashes[i])]
          \o Fields(peerTag.FRIEND_WITHDRAW, e.withdrawal)
          \o Fields(peerTag.REQUEST_NOTE, e.note)
          \o Fields(peerTag.FRIEND_OFFER, e.offer)
  IN  IF e.login = <<>> \/ \E i \in DOMAIN all : Len(all[i].data) > MaxField
      THEN None ELSE Some(all)

Roster(prelude, entries) ==
  Unless(<<Fault(prelude, {peerTag.REASON_CODE}, Anywhere), Bad(entries)>>,
         [reason |-> Get(prelude, peerTag.REASON_CODE), entries |-> Values(entries)])
parse_roster(message) ==
  Body(message, LAMBDA fields :
    LET s == Split(fields, {peerTag.FRIEND_LOGIN})
    IN  Roster(s.prelude, Each(s.groups, RosterEntry)))

\* A push with one entry, whose fields may come before its login.
parse_entry(message) ==
  Body(message, LAMBDA fields :
    LET logins == SelectSeq(fields, LAMBDA f : f.tag = peerTag.FRIEND_LOGIN)
    IN  IF logins = <<>> THEN Malformed("Missing", peerTag.FRIEND_LOGIN)
        ELSE IF Len(logins) > 1 THEN Malformed("Repeated", peerTag.FRIEND_LOGIN)
        ELSE RosterEntry([head |-> logins[1], fields |-> fields]))

-----------------------------------------------------------------------------
(* Message requests: groups of senders, each with its messages.              *)

MessageTags ==
  {peerTag.MESSAGE_BODY, peerTag.MESSAGE_TIMESTAMP, peerTag.MESSAGE_SIGNED}

RequestMessage(group) ==
  LET Of(t) == Get(group.fields, t)
  IN  Unless(<<Width(group.head), Fault(group.fields, MessageTags, Anywhere),
               Need(group.fields, peerTag.MESSAGE_BODY),
               Need(group.fields, peerTag.MESSAGE_TIMESTAMP)>>,
        [guid |-> group.head.data, body |-> Of(peerTag.MESSAGE_BODY)[1],
         timestamp |-> Of(peerTag.MESSAGE_TIMESTAMP)[1],
         signed |-> Of(peerTag.MESSAGE_SIGNED)])

MessageFields(m) ==
  LET all == <<Field(peerTag.MESSAGE_GUID, m.guid), Field(peerTag.MESSAGE_BODY, m.body),
               Field(peerTag.MESSAGE_TIMESTAMP, Wide(m.timestamp, 8))>>
               \o Fields(peerTag.MESSAGE_SIGNED, m.signed)
  IN  IF \E i \in DOMAIN all : Len(all[i].data) > MaxField THEN None ELSE Some(all)

SenderTags == {peerTag.FRIEND_IDENTITY, peerTag.ROSTER_STATE}

\* Mutant: an identity or a state behind a message is taken for its sender's.
MutRequestStray(fields, i) ==
  IF /\ fields[i].tag \in MessageTags
     /\ \A j \in 1 .. i - 1 : fields[j].tag # peerTag.MESSAGE_GUID
  THEN "NoDelimiter" ELSE ""

RequestStray(fields, i) ==
  LET inMessage == \E j \in 1 .. i - 1 : fields[j].tag = peerTag.MESSAGE_GUID
  IN  IF fields[i].tag \in SenderTags /\ inMessage THEN "Misplaced"
      ELSE IF fields[i].tag \in MessageTags /\ ~inMessage THEN "NoDelimiter"
      ELSE ""
SenderOf(head, fields, messages) ==
  Unless(<<NoLogin(head),
           Fault(fields, SenderTags, LAMBDA i : RequestStray(fields, i)), Bad(messages)>>,
         [login |-> head.data, identity |-> Get(fields, peerTag.FRIEND_IDENTITY),
          state |-> Get(fields, peerTag.ROSTER_STATE), messages |-> Values(messages)])
RequestGroup(group) ==
  SenderOf(group.head, group.fields,
           Each(Split(group.fields, {peerTag.MESSAGE_GUID}).groups, RequestMessage))

is_approval(g) == g.state = Some(Num(RosterState.Accepted)) /\ g.messages = <<>>

PreludeStray(field) ==
  IF field.tag \in MessageTags \cup SenderTags \cup {peerTag.MESSAGE_GUID}
  THEN "NoDelimiter" ELSE ""
MessageRequests(prelude, groups) ==
  Unless(<<Fault(prelude, {peerTag.TAKES_REQUESTS, peerTag.REQUEST_COUNT,
                           peerTag.REQUEST_CURSOR},
                 LAMBDA i : PreludeStray(prelude[i])),
           Bad(groups)>>,
         [takes_requests |-> Map(Get(prelude, peerTag.TAKES_REQUESTS), LAMBDA v : v # <<>>),
          dropped |-> Get(prelude, peerTag.REQUEST_COUNT),
          cursor |-> Get(prelude, peerTag.REQUEST_CURSOR), groups |-> Values(groups)])
parse_message_requests(message) ==
  Body(message, LAMBDA fields :
    LET s == Split(fields, {peerTag.FRIEND_LOGIN})
    IN  MessageRequests(s.prelude, Each(s.groups, RequestGroup)))

-----------------------------------------------------------------------------
(* Friendships.                                                              *)

Presented(group) ==
  Unless(<<Fault(group.fields, {peerTag.REASON_CODE, peerTag.FRIEND_WITHDRAW}, Anywhere),
           Width(group.head), Need(group.fields, peerTag.REASON_CODE)>>,
         [hash |-> group.head.data,
          reason |-> Get(group.fields, peerTag.REASON_CODE)[1],
          withdrawal |-> Get(group.fields, peerTag.FRIEND_WITHDRAW)])

AllRead(results) == Unless(<<Bad(results)>>, Values(results))
parse_present_friendships(message) ==
  Body(message, LAMBDA fields :
    AllRead(Each(Split(fields, {peerTag.FRIENDSHIP_HASH}).groups, Presented)))

\* What an identity was rotated to, or the friendship under a hash.
FriendshipAnswer(group) ==
  LET rotates == group.head.tag = peerTag.FRIEND_IDENTITY
      foreign == IF rotates THEN peerTag.FRIENDSHIP ELSE peerTag.IDENTITY_ROTATION
      known == IF rotates THEN {} ELSE {peerTag.FRIENDSHIP}
      records == SelectSeq(group.fields,
                           LAMBDA f : rotates /\ f.tag = peerTag.IDENTITY_ROTATION)
      Stray(i) == IF group.fields[i].tag = foreign THEN "Misplaced" ELSE ""
  IN  Unless(<<Fault(group.fields, known, Stray), Width(group.head)>>,
        [rotates |-> rotates, of |-> group.head.data,
         friendship |-> IF rotates THEN None ELSE Get(group.fields, peerTag.FRIENDSHIP),
         records |-> [i \in DOMAIN records |-> records[i].data]])

parse_friendships(message) ==
  Body(message, LAMBDA fields :
    AllRead(Each(Split(fields, {peerTag.FRIENDSHIP_HASH, peerTag.FRIEND_IDENTITY}).groups,
                 FriendshipAnswer)))

-----------------------------------------------------------------------------
(* The limits of a server, which are told as fields of its login reply and   *)
(* read leniently: the last of a width that can be.                          *)

LimitTags ==
  <<peerTag.MAX_MESSAGE_BYTES, peerTag.MAX_ROSTER_SIZE, peerTag.MAX_OFFLINE_QUEUE,
    peerTag.MAX_ICON_BYTES, peerTag.MAX_ICON_DIMENSION, peerTag.MAX_REQUEST_MESSAGES>>
DefaultLimit == <<Some(Num(4096)), Some(Num(500)), Some(Num(500)), None, Some(Num(64)), None>>

ExtractLimits(fields) ==
  LET sane == SelectSeq(fields, LAMBDA f : Len(f.data) \in {2, 4})
  IN  [k \in DOMAIN LimitTags |-> Map(LastIn(sane, LimitTags[k]), Value)]

\* A limit that has a default has it also where the server says 0.
LimitOf(limits, k) ==
  IF DefaultLimit[k] # None /\ limits[k] \in {None, Some(<<>>)}
  THEN DefaultLimit[k] ELSE limits[k]

LimitFields(limits) ==
  FlattenSeq([k \in DOMAIN LimitTags |->
                Fields(LimitTags[k], Map(limits[k], LAMBDA v : Wide(v, 4)))])

-----------------------------------------------------------------------------
(* Builders.  Numbers are written one behind another into the scratch memory *)
(* (Fill), at most four of them, and chunks are asked for as they are filled.*)

IntOf(t, n, width) == NumAt(t, n, width, 0)

\* put_int's place for each number: behind the numbers before it.
Fill(legal, puts) ==
  LET Used(i) == FoldLeft(LAMBDA k, p : k + p.width, 0, SubSeq(puts, 1, i))
      numbers == {i \in DOMAIN puts : puts[i].number}
  IN  [Exactly(Used(Len(puts)),
               [i \in DOMAIN puts |->
                  IF puts[i].number THEN [puts[i] EXCEPT !.at = Used(i - 1)]
                  ELSE puts[i]])
       EXCEPT !.legal = legal /\ Cardinality(numbers) <= MAX_INTS]

nonempty(b) == b # <<>>
at_most(option, max) == option = None \/ Len(option[1]) <= max

\* Who: by login or by identity.
Who(who) ==
  Text(IF who.by = "login" THEN peerTag.FRIEND_LOGIN ELSE peerTag.FRIEND_IDENTITY,
       who.data)
SomeWho(who) == who.by = "login" => nonempty(who.data)

Login(login) == Text(peerTag.FRIEND_LOGIN, login)

build_add_friend_chunks(login, note, offer) ==
  Fill(nonempty(login) /\ at_most(offer, MAX_OFFER_LEN),
       Login(login) \o Given(peerTag.REQUEST_NOTE, note)
         \o Given(peerTag.FRIEND_OFFER, offer))

\* Ending a friendship sends what takes it back, one of the two.
build_remove_friend_chunks(who, offer, withdrawal) ==
  Fill(/\ offer = None \/ withdrawal = None
       /\ SomeWho(who)
       /\ at_most(offer, MAX_OFFER_LEN) /\ at_most(withdrawal, MAX_OFFER_LEN),
       Who(who) \o Given(peerTag.FRIEND_OFFER, offer)
         \o Given(peerTag.FRIEND_WITHDRAW, withdrawal))

build_friend_response_chunks(login, accept, friendship) ==
  Fill(/\ nonempty(login)
       /\ friendship # None => accept
       /\ at_most(friendship, MAX_FRIENDSHIP_LEN),
       Login(login)
         \o When(accept, IntOf(peerTag.ROSTER_STATE, Num(RosterState.Accepted), 2))
         \o Given(peerTag.FRIENDSHIP, friendship))

build_block_user_chunks(login, withdrawal) ==
  Fill(nonempty(login) /\ at_most(withdrawal, MAX_OFFER_LEN),
       Login(login) \o Given(peerTag.FRIEND_WITHDRAW, withdrawal))

build_login_only_chunks(login) == Fill(nonempty(login), Login(login))

\* Nobody asks to be offline; each of the others may be left as it was.
Presence(state, status, discoverable, takes) ==
  [state |-> state, status_text |-> status, discoverable |-> discoverable,
   takes_requests |-> takes]
IfTold(option, Put1(_)) == IF option = None THEN <<>> ELSE Put1(option[1])
Bool(t, option) ==
  IfTold(option, LAMBDA yes : IntOf(t, IF yes THEN <<1>> ELSE <<>>, 2))
build_set_presence_chunks(p) ==
  Fill(p.state # Some("Offline"),
       IfTold(p.state, LAMBDA name :
                IntOf(peerTag.PRESENCE_STATE, Num(PresenceState[name]), 2))
         \o Given(peerTag.PRESENCE_STATUS_TEXT, p.status_text)
         \o Bool(peerTag.DISCOVERABLE, p.discoverable)
         \o Bool(peerTag.TAKES_REQUESTS, p.takes_requests))

\* A message in the clear, signed, or sealed to one identity.
build_im_send_chunks(to, guid, content) ==
  Fill(/\ nonempty(to)
       /\ at_most(content.signed, MAX_SIGNED_LEN)
       /\ at_most(content.sealed, MAX_SEALED_LEN),
       Login(to) \o Text(peerTag.MESSAGE_GUID, guid)
         \o (IF content.sealed # None
             THEN Given(peerTag.MESSAGE_SEALED, content.sealed)
                    \o Text(peerTag.MESSAGE_SEALED_TO, content.sealed_to)
             ELSE Text(peerTag.MESSAGE_BODY, content.body)
                    \o Given(peerTag.MESSAGE_SIGNED, content.signed)))

build_im_ack_chunks(guid, ack, sender) ==
  Fill(nonempty(sender),
       Text(peerTag.MESSAGE_GUID, guid)
         \o IntOf(peerTag.ACK_TYPE, Num(AckType[ack]), 2) \o Login(sender))

build_im_typing_chunks(login, state) ==
  Fill(nonempty(login),
       Login(login) \o IntOf(peerTag.TYPING_STATE, Num(TypingState[state]), 2))

build_find_user_chunks(who) == Fill(SomeWho(who), Who(who))

build_user_search_chunks(query) ==
  Fill(nonempty(query), Text(peerTag.SEARCH_QUERY, query))

build_set_friend_nickname_chunks(login, nickname) ==
  Fill(nonempty(login), Login(login) \o Text(peerTag.FRIEND_NICKNAME, nickname))

build_set_profile_chunks(p) ==
  Fill(/\ Len(p.languages) <= MAX_LANGUAGES
       /\ p.birthdate # None => is_possible(p.birthdate[1]),
       Given(peerTag.PROFILE_NICKNAME, p.nickname)
         \o Given(peerTag.PROFILE_FIRST_NAME, p.first_name)
         \o Given(peerTag.PROFILE_LAST_NAME, p.last_name)
         \o Given(peerTag.PROFILE_EMAIL, p.email)
         \o IfTold(p.gender, LAMBDA g : IntOf(peerTag.PROFILE_GENDER, Num(Gender[g]), 2))
         \o IfTold(p.birthdate, LAMBDA d :
              IntOf(peerTag.PROFILE_BIRTHDATE, Value(BirthdateBytes(d)), 4))
         \o Given(peerTag.PROFILE_COUNTRY, p.country)
         \o Given(peerTag.PROFILE_POSTCODE, p.postcode)
         \o FlattenSeq([i \in DOMAIN p.languages |->
                          Text(peerTag.PROFILE_LANGUAGE, p.languages[i])]))

build_get_message_requests_chunks(cursor) ==
  Fill(nonempty(cursor), Text(peerTag.REQUEST_CURSOR, cursor))

build_answer_message_request_chunks(login, action) ==
  Fill(nonempty(login),
       Login(login) \o IntOf(peerTag.REQUEST_ACTION, Num(RequestAction[action]), 2))

\* A span of time open at one end at most.
build_clear_message_requests_chunks(since, before) ==
  Fill(since # None \/ before # None,
       IfTold(since, LAMBDA n : IntOf(peerTag.SPAN_SINCE, n, 8))
         \o IfTold(before, LAMBDA n : IntOf(peerTag.SPAN_BEFORE, n, 8)))

\* Friendships and withdrawals, as [withdraws, data], 1 to 32 of them.
build_present_friendships_chunks(objects) ==
  Fill(/\ Len(objects) \in 1 .. MAX_FRIENDSHIP_OBJECTS
       /\ \A i \in DOMAIN objects :
            at_most(Some(objects[i].data), IF objects[i].withdraws THEN MAX_OFFER_LEN
                                           ELSE MAX_FRIENDSHIP_LEN),
       FlattenSeq([i \in DOMAIN objects |->
                     Text(IF objects[i].withdraws THEN peerTag.FRIEND_WITHDRAW
                          ELSE peerTag.FRIENDSHIP, objects[i].data)]))

build_get_friendships_chunks(asked) ==
  Fill(Len(asked) \in 1 .. MAX_FRIENDSHIP_OBJECTS,
       FlattenSeq([i \in DOMAIN asked |->
                     Text(IF asked[i].identity THEN peerTag.FRIEND_IDENTITY
                          ELSE peerTag.FRIENDSHIP_HASH, asked[i].data)]))

build_get_device_challenge_chunks(host) ==
  Fill(nonempty(host) /\ at_most(Some(host), MAX_PROOF_HOST_LEN),
       Text(peerTag.PROOF_HOST, host))

build_prove_device_chunks(proof, cert, card) ==
  Fill(/\ nonempty(proof) /\ at_most(Some(proof), MAX_DEVICE_PROOF_LEN)
       /\ nonempty(cert) /\ at_most(Some(cert), MAX_DEVICE_CERT_LEN)
       /\ card # Some(<<>>) /\ at_most(card, MAX_USER_CARD_LEN),
       Text(peerTag.DEVICE_PROOF, proof) \o Text(peerTag.DEVICE_CERT, cert)
         \o Given(peerTag.USER_CARD, card))
=============================================================================
