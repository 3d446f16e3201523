------------------------------ MODULE HxEvents ------------------------------
(* What a logged-in session (hxsession's lib.rs) makes of the fields of what *)
(* it receives: the events its caller is handed.  When it does so, and which *)
(* reply answers which request, is HxSession.                                *)
EXTENDS HxReplies, HxText

CONSTANT INFO_TEXT_CAP      \* INFO_TEXT_CAP, 255 in the code

MAX_BODY == 8192
MAX_NAME == 128
MAX_NICK == 31
MAX_SUBJECT == 255
MAX_NEWS == 65535

-----------------------------------------------------------------------------
(* Text.                                                                     *)

text_in(bytes) == to_utf8(bytes)

\* Text as it is sent: in UTF-8 where that was agreed, and in a body a line
\* break, of either kind, is a carriage return.
text_out(text, utf8) == IF utf8 THEN AsBytes(text) ELSE from_utf8(text)
body_out(text, utf8) ==
  LET BreakEnd(i) == text[i] = 10 /\ i > 1 /\ text[i - 1] = 13
      kept == SelectSeq([i \in DOMAIN text |-> i], LAMBDA i : ~BreakEnd(i))
  IN  text_out([k \in DOMAIN kept |-> IF text[kept[k]] = 10 THEN 13 ELSE text[kept[k]]],
               utf8)

\* A name ends at its first zero byte.
field_text(bytes) ==
  text_in(Cut(bytes, Min({i - 1 : i \in {i \in DOMAIN bytes : bytes[i] = 0}}
                           \cup {Len(bytes)})))

\* A text as long as the most there may be, without the character it ends in
\* the middle of.
whole_chars(bytes, most) ==
  LET i == FirstBroken(bytes)
  IN  IF /\ Len(bytes) >= most /\ i <= Len(bytes)
         /\ CharLen(bytes[i]) > 0 /\ i + Along(bytes, i) > Len(bytes)
      THEN Cut(bytes, i - 1) ELSE bytes

-----------------------------------------------------------------------------
(* The server, once it has answered the login.                               *)

\* Capabilities by their bits.
cap == [LARGE_FILES |-> 0, TEXT_ENCODING |-> 1, VOICE |-> 2, INLINE_MEDIA |-> 3,
        CHAT_HISTORY |-> 4, MESSAGING |-> 6, VIDEO |-> 10]
CapBits(n) ==
  UNION {{8 * (Len(n) - i) + b : b \in {b \in 0 .. 7 : (n[i] \div 2 ^ b) % 2 = 1}} :
           i \in DOMAIN n}

\* What login_reply() keeps; a capability is agreed that both have named.
ServerInfo(fields, offered) ==
  LET info == parse_login(fields, 65535)
      caps == CapBits(Or(info.caps, <<>>)) \cap offered
  IN  [version |-> Or(info.version, <<>>), name |-> Map(info.servername, text_in),
       uid |-> info.uid, caps |-> caps,
       media |-> [max_bytes |-> info.media_max_bytes,
                  max_dimension |-> info.media_max_dimension,
                  max_pixels |-> info.media_max_pixels,
                  chunk_size |-> info.media_chunk_size,
                  max_frames |-> info.media_max_frames,
                  max_duration_ms |-> info.media_max_duration_ms],
       history_max_msgs |-> info.history_max_msgs,
       history_max_days |-> info.history_max_days,
       video |-> info.video_camera \o info.video_screen,
       messaging |-> cap.MESSAGING \in caps]

\* Session::media: the picture of a chat line, where pictures were agreed;
\* a line with half a picture is none at all.
media(fields, caps) ==
  IF cap.INLINE_MEDIA \in caps THEN extract_chat_media_meta(fields)
  ELSE [ok |-> TRUE, meta |-> None]

-----------------------------------------------------------------------------
(* Pushes: what dispatch() makes of one, as a sequence of events.            *)

User(r) ==
  [uid |-> r.uid, icon |-> r.icon, status |-> Some(r.color), name |-> field_text(r.name),
   color |-> r.nick_color]
changed_user(c) ==
  [uid |-> c.uid, icon |-> c.icon, status |-> c.color, name |-> field_text(c.name),
   color |-> c.nick_color]

ChatPushed(kind, fields, caps) ==
  CASE kind = "Chat" ->
         LET c == parse_chat(fields, MAX_BODY)
             m == media(fields, caps)
         IN  When(m.ok, <<[e |-> "Chat", cid |-> c.cid, uid |-> c.uid,
                           text |-> text_in(c.text), media |-> m.meta]>>)
    [] kind = "ChatInvite" ->
         LET i == parse_chat_invite(fields, MAX_NICK)
         IN  <<[e |-> "ChatInvite", cid |-> i.cid, uid |-> i.uid,
                name |-> field_text(i.name)]>>
    [] kind = "ChatSubject" ->
         LET s == parse_chat_subject(fields, MAX_SUBJECT)
         IN  <<[e |-> "ChatSubject", cid |-> s.cid, subject |-> field_text(s.subject)]>>
    [] OTHER -> <<>>

\* A message from nobody is a broadcast, and has no picture.
MsgPushed(kind, type, fields, caps) ==
  LET m == parse_msg(fields, MAX_NAME, MAX_BODY)
      said == [e |-> "Broadcast", uid |-> m.uid, from |-> field_text(m.name),
               text |-> text_in(m.msg), media |-> None]
      picture == media(fields, caps)
  IN  CASE kind = "PoliteQuit" -> <<[e |-> "Disconnecting", text |-> said.text]>>
        [] kind = "Msg" ->
             IF type = ServerHdr.MsgBroadcast \/ m.uid = <<>> THEN <<said>>
             ELSE When(picture.ok, <<[said EXCEPT !.e = "Message", !.media = picture.meta]>>)
        [] OTHER -> <<>>

UserPushed(kind, fields) ==
  CASE kind = "UserChange" ->
         LET c == parse_user_change(fields, MAX_NICK)
         IN  <<[e |-> "UserChanged", cid |-> c.cid, user |-> changed_user(c)]>>
    [] kind = "UserPart" ->
         LET p == parse_user_part(fields)
         IN  <<[e |-> "UserLeft", cid |-> p.cid, uid |-> p.uid]>>
    [] kind = "UserSelfInfo" ->
         LET s == parse_selfinfo(fields)
         IN  <<[e |-> "SelfInfo", uid |-> Map(s.user, LAMBDA u : u.uid),
                icon |-> Map(s.user, LAMBDA u : u.icon), access |-> s.access,
                color |-> s.nick_color]>>
    [] OTHER -> <<>>

Pushed(type, fields, caps) ==
  LET kind == route(type)
      posts == news_post_chunks(fields, MAX_NEWS)
      queue == parse_xfer_queue(fields)
  IN  CASE kind = "NewsPost" ->
             [i \in DOMAIN posts |-> [e |-> "NewsPosted", text |-> text_in(posts[i])]]
        [] kind = "XferQueue" ->
             <<[e |-> "TransferQueued", reference |-> queue.htxf_ref,
                queue |-> queue.queueid]>>
        [] OTHER -> ChatPushed(kind, fields, caps) \o MsgPushed(kind, type, fields, caps)
                      \o UserPushed(kind, fields)

-----------------------------------------------------------------------------
(* Replies: the event that reply() makes of one without an error, by what    *)
(* its request awaits, as a sequence (empty where it is not of that group).  *)
(* The chat is the one the request was for.                                  *)

AllOf(fields, t) == SelectSeq(fields, LAMBDA f : f.tag = t)

\* A line that cannot be read is skipped; its neighbors still list.
listed_users(fields) ==
  LET lines == AllOf(fields, tag.USER_LIST)
  IN  FlattenSeq([i \in DOMAIN lines |->
                    Map(parse_user_list_record(lines[i].data, MAX_NICK), User)])
listed_subject(fields) ==
  Map(LastIn(fields, tag.CHAT_SUBJECT), LAMBDA d : field_text(Cut(d, MAX_SUBJECT)))

\* A line of a chat's history, which reads as a live one does.
HistoryEntry_parse(data) ==
  Map(parse_history_entry(data), LAMBDA e :
        [message_id |-> e.message_id, timestamp |-> e.timestamp, flags |-> e.flags,
         icon |-> e.icon_id, nick |-> text_in(e.nick),
         text |-> text_in(StripAnsi(Cr2Lf(e.message)))])
Past(cid, fields) ==
  LET lines == AllOf(fields, tag.HISTORY_ENTRY)
      more == SelectSeq(AllOf(fields, tag.HISTORY_HAS_MORE), LAMBDA f : f.data # <<>>)
  IN  [e |-> "ChatHistory", cid |-> cid,
       entries |-> FlattenSeq([i \in DOMAIN lines |-> HistoryEntry_parse(lines[i].data)]),
       has_more |-> more # <<>> /\ Head(more[Len(more)].data) # 0]

ChatReply(expect, cid, fields) ==
  LET change == parse_user_change(fields, MAX_NICK)
      info == parse_user_info(fields, MAX_NICK, 4096)
      a == parse_account_read(fields, MAX_NICK, MAX_NICK, MAX_NICK)
  IN  CASE expect = "UserList" ->
             <<[e |-> "UserList", users |-> listed_users(fields),
                subject |-> listed_subject(fields)]>>
        [] expect = "ChatJoin" ->
             <<[e |-> "ChatJoined", cid |-> cid, users |-> listed_users(fields),
                subject |-> listed_subject(fields)]>>
        [] expect = "ChatCreate" ->
             <<[e |-> "ChatCreated", cid |-> change.cid, user |-> changed_user(change)]>>
        [] expect = "UserInfo" ->
             <<[e |-> "UserInfo", name |-> field_text(info.name),
                info |-> text_in(info.info)]>>
        [] expect = "Account" -> <<[e |-> "Account", account |-> a]>>
        [] expect = "ChatHistory" -> <<Past(cid, fields)>>
        [] OTHER -> <<>>

Article(p) ==
  [id |-> p.post.postid, parent |-> p.post.parentid, subject |-> field_text(p.post.subject),
   poster |-> field_text(p.post.sender), year |-> p.post.base_year,
   seconds |-> p.post.seconds,
   mime |-> IF p.parts = <<>> THEN <<>> ELSE p.parts[1].mime_type,
   parts |-> [i \in DOMAIN p.parts |-> [mime |-> p.parts[i].mime_type,
                                       size |-> p.parts[i].size]]]
NewsReply(expect, fields) ==
  LET items == parse_dirlist(fields)
      posts == Or(parse_catlist(fields), <<>>)
  IN  CASE expect = "NewsFile" ->
             <<[e |-> "NewsFile", text |-> text_in(Or(parse_news_file(fields, MAX_NEWS), <<>>))]>>
        [] expect = "NewsListing" ->
             <<[e |-> "NewsListing",
                items |-> [i \in DOMAIN items |->
                             [name |-> field_text(items[i].name), name_bytes |-> items[i].name,
                              bundle |-> items[i].kind = "Folder"]]]>>
        [] expect = "NewsCategory" ->
             <<[e |-> "NewsCategory",
                articles |-> [i \in DOMAIN posts |-> Article(posts[i])]]>>
        [] expect = "NewsPart" ->
             <<[e |-> "NewsPart", data |-> Or(FirstIn(fields, newsTag.NEWSDATA), <<>>)]>>
        [] expect = "NewsArticle" ->
             <<[e |-> "NewsArticle",
                text |-> text_in(Or(parse_news_thread_reply(fields, MAX_NEWS).text, <<>>))]>>
        [] OTHER -> <<>>

-----------------------------------------------------------------------------
(* Files.                                                                    *)

FILE_LIST_ENTRY == 200
FILE_SIZE_64 == 497
FOLDER_ITEMS_64 == 500
FTYPE_FLDR == <<102, 108, 100, 114>>

File(entry) ==
  [name |-> text_in(entry.name), name_bytes |-> entry.name,
   folder |-> entry.ftype = FTYPE_FLDR, size |-> entry.fsize,
   type_code |-> Wide(entry.ftype, 4), creator |-> Wide(entry.fcreator, 4)]

\* One field of a listing: an entry, or the 64-bit companion of the one right
\* before it.  An entry that cannot be read is skipped, and so is a companion
\* of another length or in another place.
ListOne(all, f) ==
  LET read == parse_file_list_entry(PutChunk(f), 0)
  IN  IF f.tag = FILE_LIST_ENTRY
      THEN [files |-> all.files \o Map(read, LAMBDA r : File(r.entry)),
            after_entry |-> read # None]
      ELSE IF f.tag \in {FILE_SIZE_64, FOLDER_ITEMS_64} /\ all.after_entry /\ Len(f.data) = 8
      THEN [all EXCEPT !.files[Len(all.files)].size = Value(f.data)]
      ELSE [all EXCEPT !.after_entry = FALSE]
FileList(fields) ==
  FoldLeft(ListOne, [files |-> <<>>, after_entry |-> FALSE], fields).files

FileInfo(fields) ==
  LET f == parse_file_getinfo(fields, INFO_TEXT_CAP, 31, 31, INFO_TEXT_CAP)
  IN  [name |-> field_text(whole_chars(f.name, INFO_TEXT_CAP)),
       kind |-> field_text(f.type), creator |-> field_text(f.creator),
       comment |-> text_in(whole_chars(f.comment, INFO_TEXT_CAP)),
       size |-> Or(f.size64, f.size), created |-> f.date_create, modified |-> f.date_modify]

\* One reading for every kind of transfer.
Transfer(fields) ==
  LET get == parse_folder_get_reply(fields)
      put == parse_file_put_reply(fields)
  IN  [reference |-> get.ref, size |-> Or(get.size64, get.size), queue |-> get.queue,
       items |-> get.nfiles, data_from |-> put.data_pos, rsrc_from |-> put.rsrc_pos]

FileReply(expect, fields) ==
  CASE expect = "FileList" -> <<[e |-> "FileList", files |-> FileList(fields)]>>
    [] expect = "FileInfo" -> <<[e |-> "FileInfo", info |-> FileInfo(fields)]>>
    [] expect = "Transfer" -> <<[e |-> "Transfer", transfer |-> Transfer(fields)]>>
    [] OTHER -> <<>>

-----------------------------------------------------------------------------
(* Icons, pictures and calls.                                                *)

Failed == [e |-> "Failed", reason |-> None]
malformed_media == [e |-> "MediaFailed", code |-> <<>>, reason |-> None]

CallReply(expect, cid, fields) ==
  LET icons == parse_icon_list(fields)
      icon == parse_icon_get_reply(fields)
      v == parse_voice_reply(fields)
  IN  CASE expect = "IconList" ->
             <<[e |-> "IconList",
                icons |-> [i \in DOMAIN icons |-> [uid |-> icons[i].uid, gif |-> icons[i].gif]]]>>
        [] expect = "Icon" ->
             <<IF icon = None THEN Failed ELSE [e |-> "Icon", icon |-> icon[1]]>>
        [] expect = "VoiceJoin" ->
             <<IF None \in {v.sdp, v.codec, v.participants} THEN Failed
               ELSE [e |-> "VoiceJoined", cid |-> cid, sdp |-> v.sdp[1],
                     codec |-> v.codec[1], participants |-> v.participants[1]]>>
        [] OTHER -> <<>>

MediaReply(expect, fields) ==
  LET done == parse_upload_final_reply(fields)
      part == parse_download_reply(fields)
  IN  CASE expect = "MediaUpload" ->
             <<[e |-> "MediaUploading", token |-> parse_upload_token_reply(fields)]>>
        [] expect = "MediaUploadLast" ->
             <<IF done = None THEN malformed_media
               ELSE [e |-> "MediaUploaded", media |-> done[1]]>>
        [] expect = "MediaDownload" ->
             <<IF part = None THEN malformed_media ELSE [e |-> "MediaPart", part |-> part[1]]>>
        [] OTHER -> <<>>

Replied(expect, cid, fields) ==
  ChatReply(expect, cid, fields) \o NewsReply(expect, fields) \o FileReply(expect, fields)
    \o CallReply(expect, cid, fields) \o MediaReply(expect, fields)
=============================================================================
