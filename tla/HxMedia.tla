------------------------------ MODULE HxMedia ------------------------------
(* Inline media, voice, video and icons of hxproto: inline_media.rs,         *)
(* voice.rs, video.rs and gif_icons.rs.  The candidate of a call (JSON) is   *)
(* HxIce.                                                                    *)
EXTENDS HxBuild

-----------------------------------------------------------------------------
(* Uploading and fetching an image.                                          *)

\* The six codes a server may give; any other is Generic, 0.
MediaErrorCode(code) == IF code \in {Num(k) : k \in 1 .. 5} THEN code ELSE <<>>

\* The limits of a login reply, each kept from its last field of 4 bytes.
extract_limits(fields) ==
  LET Limit(t) == Map(LastOf(fields, t, 4), Value)
  IN  [max_bytes |-> Limit(mediaTag.CHAT_MEDIA_MAX_BYTES),
       max_dimension |-> Limit(mediaTag.CHAT_MEDIA_MAX_DIMENSION),
       max_pixels |-> Limit(mediaTag.CHAT_MEDIA_MAX_PIXELS),
       chunk_size |-> Limit(mediaTag.CHAT_MEDIA_CHUNK_SIZE),
       max_frames |-> Limit(mediaTag.CHAT_MEDIA_MAX_FRAMES),
       max_duration |-> Limit(mediaTag.CHAT_MEDIA_MAX_DURATION_MS)]

MediaMeta(fields) ==
  [id |-> LastIn(fields, mediaTag.CHAT_MEDIA_ID),
   type |-> LastIn(fields, mediaTag.CHAT_MEDIA_TYPE),
   width |-> LastWide(fields, mediaTag.CHAT_MEDIA_WIDTH, 4),
   height |-> LastWide(fields, mediaTag.CHAT_MEDIA_HEIGHT, 4),
   bytes |-> LastWide(fields, mediaTag.CHAT_MEDIA_BYTES, 4)]

\* Chat with an image names both its id and its type, chat without has
\* neither, and chat with one of them is refused.
OnlyOnePresent == [ok |-> FALSE, meta |-> None]
extract_chat_media_meta(fields) ==
  LET m == MediaMeta(fields)
  IN  IF m.id # None /\ m.type # None THEN [ok |-> TRUE, meta |-> Some(m)]
      ELSE IF m.id = None /\ m.type = None THEN [ok |-> TRUE, meta |-> None]
      ELSE OnlyOnePresent

\* A declared type that is empty, or too long for a field, is not sent.
Declared(mime) ==
  IF mime = None THEN <<>>
  ELSE When(Len(mime[1]) \in 1 .. MaxField,
            Text(mediaTag.CHAT_MEDIA_DECLARED_TYPE, mime[1]))

build_upload_media_single_chunks(payload, mime) ==
  [Builder(3, 1, Text(mediaTag.CHAT_MEDIA_PAYLOAD, payload) \o Declared(mime)
                   \o NumAt(mediaTag.CHAT_MEDIA_PART_FINAL, <<1>>, 1, 0))
   EXCEPT !.legal = payload # <<>>]

build_upload_media_first_chunks(payload, mime, parts) ==
  [Builder(5, 5, Text(mediaTag.CHAT_MEDIA_PAYLOAD, payload) \o Declared(mime)
                   \o NumAt(mediaTag.CHAT_MEDIA_PART_INDEX, <<>>, 2, 0)
                   \o NumAt(mediaTag.CHAT_MEDIA_PART_COUNT, parts, 2, 2)
                   \o NumAt(mediaTag.CHAT_MEDIA_PART_FINAL, <<>>, 1, 4))
   EXCEPT !.legal = payload # <<>> /\ Below(Num(1), parts)]

build_upload_media_followup_chunks(token, payload, index, last) ==
  [Builder(4, 3, Text(mediaTag.CHAT_MEDIA_UPLOAD_TOKEN, token)
                   \o NumAt(mediaTag.CHAT_MEDIA_PART_INDEX, index, 2, 0)
                   \o Text(mediaTag.CHAT_MEDIA_PAYLOAD, payload)
                   \o NumAt(mediaTag.CHAT_MEDIA_PART_FINAL,
                            IF last THEN <<1>> ELSE <<>>, 1, 2))
   EXCEPT !.legal = token # <<>> /\ payload # <<>> /\ index # <<>>]

build_download_media_chunks(id, part) ==
  [Exactly(IF part = None THEN 0 ELSE 2,
           Text(mediaTag.CHAT_MEDIA_ID, id)
             \o When(part # None, NumAt(mediaTag.CHAT_MEDIA_PART_INDEX,
                                        Or(part, <<>>), 2, 0)))
   EXCEPT !.legal = id # <<>>]

parse_upload_final_reply(fields) ==
  LET m == MediaMeta(fields)
  IN  IF m.id = None \/ m.type = None THEN None ELSE Some(m)

parse_upload_token_reply(fields) ==
  FirstIn(fields, mediaTag.CHAT_MEDIA_UPLOAD_TOKEN)

\* A reply without a count is the only part; one without a mark is not final.
parse_download_reply(fields) ==
  LET payload == LastIn(fields, mediaTag.CHAT_MEDIA_PAYLOAD)
      type == LastIn(fields, mediaTag.CHAT_MEDIA_TYPE)
      count == LastOf(fields, mediaTag.CHAT_MEDIA_PART_COUNT, 2)
      final == Or(LastIn(fields, mediaTag.CHAT_MEDIA_PART_FINAL), <<>>)
  IN  IF payload = None \/ type = None THEN None
      ELSE Some([payload |-> payload[1], type |-> type[1],
                 count |-> IF count = None THEN Num(1) ELSE Value(count[1]),
                 final |-> Value(final) # <<>>])

extract_error_code(fields) ==
  MediaErrorCode(Value(Or(FirstOf(fields, mediaTag.CHAT_MEDIA_ERROR_CODE, 2),
                          <<>>)))

-----------------------------------------------------------------------------
(* Voice.                                                                    *)

\* Joining a room and leaving it.
build_chat_id_only(cid) == Builder(1, 4, NumAt(tag.CHAT_ID, cid, 4, 0))

build_voice_answer_chunks(cid, sdp) ==
  [Builder(2, 4, NumAt(tag.CHAT_ID, cid, 4, 0) \o Text(newsTag.VOICE_SDP, sdp))
   EXCEPT !.legal = sdp # <<>>]

build_voice_ice_chunks(cid, ice) ==
  Builder(2, 4, NumAt(tag.CHAT_ID, cid, 4, 0) \o Text(newsTag.VOICE_ICE, ice))

build_voice_mute_chunks(cid, muted) ==
  Builder(2, 6, NumAt(tag.CHAT_ID, cid, 4, 0)
                  \o NumAt(newsTag.VOICE_MUTED, muted, 2, 4))

\* A room's participants, six bytes each; what is left over is dropped.
parse_voice_participants(blob) ==
  Records(blob, 6, LAMBDA d : [user |-> U16In(d, 0), flags |-> U16In(d, 2),
                               codec |-> U16In(d, 4)])

parse_voice_reply(fields) ==
  [cid |-> Map(LastIn(fields, tag.CHAT_ID), AsUint),
   sdp |-> LastIn(fields, newsTag.VOICE_SDP),
   ice |-> LastIn(fields, newsTag.VOICE_ICE),
   codec |-> LastIn(fields, newsTag.VOICE_CODEC),
   muted |-> Map(LastIn(fields, newsTag.VOICE_MUTED), LAMBDA d :
                   Value(Wide(AsUint(d), 2))),
   participants |-> LastIn(fields, mediaTag.VOICE_PARTICIPANTS)]

-----------------------------------------------------------------------------
(* Video.                                                                    *)

VideoKind == {<<1>>, <<2>>}
Camera == <<1>>
Screen == <<2>>

\* Publication and Stream, to bytes and back; a record of a kind unknown to
\* this client is skipped, one cut short is dropped.
PublicationBytes(p) ==
  Wide(p.user, 2) \o Wide(p.kind, 2) \o Wide(p.flags, 2) \o Wide(p.codec, 2)

parse_video_publishers(blob) ==
  SelectSeq(Records(blob, 8, LAMBDA d : [user |-> U16In(d, 0),
                                         kind |-> U16In(d, 2),
                                         flags |-> U16In(d, 4),
                                         codec |-> U16In(d, 6)]),
            LAMBDA p : p.kind \in VideoKind)

parse_video_subscriptions(blob) ==
  SelectSeq(Records(blob, 4, LAMBDA d : [user |-> U16In(d, 0),
                                         kind |-> U16In(d, 2)]),
            LAMBDA p : p.kind \in VideoKind)

\* A kind's limits: 14 bytes of a record of 16, whose last two are not used.
LimitsBytes(l) ==
  Wide(l.kind, 2) \o Wide(l.width, 2) \o Wide(l.height, 2) \o Wide(l.fps, 2)
    \o Wide(l.bitrate, 4) \o Wide(l.rooms, 2) \o <<0, 0>>

LimitsParse(data) ==
  IF Len(data) < 16 \/ U16In(data, 0) \notin VideoKind THEN None
  ELSE Some([kind |-> U16In(data, 0), width |-> U16In(data, 2),
             height |-> U16In(data, 4), fps |-> U16In(data, 6),
             bitrate |-> Value(Slice(data, 8, 4)), rooms |-> U16In(data, 12)])

build_video_start_chunks(cid, kind) ==
  Builder(2, 6, NumAt(tag.CHAT_ID, cid, 4, 0)
                  \o NumAt(mediaTag.VIDEO_KIND, kind, 2, 4))

build_video_stop_chunks(cid, kind) ==
  Exactly(IF kind = None THEN 4 ELSE 6,
          NumAt(tag.CHAT_ID, cid, 4, 0)
            \o When(kind # None,
                    NumAt(mediaTag.VIDEO_KIND, Or(kind, <<>>), 2, 4)))

build_video_state_chunks(cid, kind, paused) ==
  Builder(3, 8, NumAt(tag.CHAT_ID, cid, 4, 0)
                  \o NumAt(mediaTag.VIDEO_KIND, kind, 2, 4)
                  \o NumAt(mediaTag.VIDEO_PAUSED,
                           IF paused THEN <<1>> ELSE <<>>, 2, 6))

\* The streams wanted, one after another behind the chat's id.
video_subscribe_scratch_len(n) == 4 + 4 * n

build_video_subscribe_chunks(cid, streams) ==
  LET blob == FlattenSeq([i \in DOMAIN streams |->
                            Wide(streams[i].user, 2) \o Wide(streams[i].kind, 2)])
  IN  [Builder(2, video_subscribe_scratch_len(Len(streams)),
               NumAt(tag.CHAT_ID, cid, 4, 0)
                 \o NumAt(mediaTag.VIDEO_SUBSCRIPTIONS, blob, Len(blob), 4))
       EXCEPT !.legal = Len(blob) <= MaxField]

parse_video_reply(fields) ==
  [cid |-> Map(LastIn(fields, tag.CHAT_ID), AsUint),
   kind |-> LastWide(fields, mediaTag.VIDEO_KIND, 2),
   codec |-> LastIn(fields, mediaTag.VIDEO_CODEC),
   publishers |-> LastIn(fields, mediaTag.VIDEO_PUBLISHERS)]

-----------------------------------------------------------------------------
(* The icons of users, as GIFs.                                              *)

is_gif(data) ==
  Cut(data, 6) \in {<<71, 73, 70, 56, 55, 97>>, <<71, 73, 70, 56, 57, 97>>}

IconLayout == <<Uint("uid", 2), Uint("len", 2), Counted("gif", "len")>>

parse_icon_list(fields) ==
  LET entries == SelectSeq(fields, LAMBDA f :
                   f.tag = peerTag.ICON_LIST /\ Read(f.data, 0, IconLayout).ok)
  IN  [i \in DOMAIN entries |-> Read(entries[i].data, 0, IconLayout).got]

parse_icon_get_reply(fields) ==
  LET uid == LastOf(fields, tag.UID, 2)
  IN  Map(uid, LAMBDA d : [uid |-> Value(d),
                           gif |-> Or(LastIn(fields, peerTag.ICON_GIF), <<>>)])

parse_icon_change(fields) == Map(FirstOf(fields, tag.UID, 2), Value)

build_icon_set_chunks(gif) == Builder(1, 0, Text(peerTag.ICON_GIF, gif))

build_icon_get_chunks(uid) == Builder(1, 2, NumAt(tag.UID, uid, 2, 0))
=============================================================================
