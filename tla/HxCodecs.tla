------------------------------ MODULE HxCodecs ------------------------------
(* One message between two ends: a client asks for something through the     *)
(* builders of HxRequests and HxMessaging, or is told something in the forms *)
(* that the readers of HxReplies, HxMedia, HxMessaging, HxTracker, HxXfer,   *)
(* HxText and HxIce read.  On its way a field nobody knows may be put into   *)
(* the message, as a newer peer would, or its end may be lost; or one of its *)
(* fields comes twice, or where it does not belong.                          *)
EXTENDS HxRequests, HxReplies, HxText

CONSTANTS
  Words,        \* numbers of 16 bits
  Longs,        \* numbers of up to 64 bits
  Texts,        \* bytes of a text, of which some are too long for a field
  Paths,        \* paths, as sequences of components
  Strings,      \* characters, for what is converted between encodings
  Lines,        \* lines of a session description
  MaxLines,     \* how many of them there are at most
  INFO_TEXT_CAP,
  Unknown       \* the tag of a field nobody knows

ASSUME InfoTextAssumption == INFO_TEXT_CAP \in 1 .. 65535

P == INSTANCE HxMessaging
T == INSTANCE HxTracker
X == INSTANCE HxXfer
I == INSTANCE HxIce
E == INSTANCE HxEvents

VARIABLES
  asked,        \* None, or Some of what the client asked for
  told,         \* None, or Some of what the client is told, and as what
  wire,         \* what is on its way: None, or Some(bytes or tokens)
  harm          \* "none", "extra", "cut" or "disordered"

vars == <<asked, told, wire, harm>>

Init == asked = None /\ told = None /\ wire = None /\ harm = "none"
Idle == asked = None /\ told = None

-----------------------------------------------------------------------------
(* Asking.                                                                   *)

Trans == <<9>>

Ask(r) ==
  /\ asked' = Some(r)
  /\ wire' = LET fields == FieldsOf(r)
             IN  IF fields = None THEN None ELSE Pack(fields[1], r.type, Trans)
  /\ UNCHANGED <<told, harm>>

Options(S) == {None} \cup {Some(x) : x \in S}

AskChat ==
  Idle /\ \E cid, uid \in Words, text \in Texts :
    \/ Ask(chat(text, cid, uid)) \/ Ask(msg(uid, text)) \/ Ask(chat_create(uid))
    \/ Ask(chat_invite(cid, uid)) \/ Ask(chat_subject(cid, text))
    \/ Ask(chat_id_only(ClientHdr.ChatJoin, cid)) \/ Ask(broadcast(text))
    \/ \E n \in Longs : Ask(chat_history(cid, n, <<>>, uid))
                          \/ Ask(chat_history(cid, <<>>, n, <<>>))
                          \/ Ask(chat_history(cid, n, <<5>>, uid))

AskUser ==
  Idle /\ \E icon1, uid \in Words, text \in Texts :
    \/ Ask(agree(text, icon1)) \/ Ask(user_change(text, icon1))
    \/ Ask(user_info(uid)) \/ Ask(kick(uid, TRUE)) \/ Ask(kick(uid, FALSE))
    \/ \E n \in Longs : Ask(login(text, text, icon1, uid, n))
                          \/ Ask(account(ClientHdr.AccountModify, text, <<65>>, text, n))
                          \/ Ask(account(ClientHdr.AccountCreate, text, <<>>, <<66>>, n))
    \/ Ask(account_read(text)) \/ Ask(account_delete(text))
    \/ Ask(icon(uid)) \/ Ask(icon_set(text)) \/ Ask(icon_list)

AskNews ==
  Idle /\ \E p \in Paths, id1 \in Words, text \in Texts :
    \/ Ask(news_list(ClientHdr.NewsListDir, p)) \/ Ask(news_article(p, id1))
    \/ Ask(news_post_article(p, id1, text, <<66>>)) \/ Ask(news_post(text))
    \/ Ask(news_delete_article(p, id1)) \/ Ask(news_delete(p))
    \/ Ask(news_create_bundle(p, text)) \/ Ask(news_create_category(p, text))

\* The one request built here that request.rs does not make.
FileSymlink == 209
AskFile ==
  Idle /\ \E p \in Paths, name \in Texts :
    \/ Ask(file_list(p)) \/ Ask(file_info(p, name)) \/ Ask(file_mkdir(p, name))
    \/ Ask(file_delete(p, name)) \/ Ask(file_download(p, name))
    \/ \E new \in Options({name, <<66>>}), comment \in Options({<<67>>}) :
         Ask(file_set_info(p, name, new, comment))
    \/ \E q \in Paths : Ask(file_move(p, name, q))
    \/ Ask(From(FileSymlink, build_file_symlink_chunks(name, <<66>>, name, <<67>>), 4, 0))
    \/ Ask(folder_download(p, name)) \/ Ask(banner)
    \/ \E n \in Longs : Ask(folder_upload(p, name, n, Num(3)))

AskMedia ==
  Idle /\ \E text \in Texts, n \in Words :
    \/ \E mime \in Options(Texts) : Ask(media_upload(text, mime))
                                      \/ Ask(media_upload_first(text, mime, n))
    \/ \E last \in BOOLEAN : Ask(media_upload_next(<<70>>, text, n, last))
    \/ \E part \in Options({n}) : Ask(media_download(text, part))

AskCall ==
  Idle /\ \E cid, uid \in Words, text \in Texts :
    \/ Ask(voice_join(cid)) \/ Ask(voice_leave(cid)) \/ Ask(voice_answer(cid, text))
    \/ Ask(voice_ice(cid, text)) \/ Ask(voice_mute(cid, TRUE))
    \/ \E kind \in VideoKind : \/ Ask(video_start(cid, kind))
                               \/ Ask(video_state(cid, kind, TRUE))
                               \/ Ask(video_subscribe(cid,
                                    <<[user |-> uid, kind |-> kind],
                                      [user |-> <<3>>, kind |-> Camera]>>))
    \/ \E kind \in Options(VideoKind) : Ask(video_stop(cid, kind))

\* The builders of messaging are given the scratch memory their module names
\* and the chunks of its longest request.
SCRATCH_LEN == 16
Peer(type, b) == From(type, b, 40, SCRATCH_LEN)
Guid(k) == [i \in 1 .. 16 |-> k]
Hash(k) == [i \in 1 .. 32 |-> k]
Whos(text) == {[by |-> "login", data |-> text], [by |-> "identity", data |-> Hash(1)]}

AskFriend ==
  Idle /\ \E text \in Texts, note \in Options({<<66>>}), offer \in Options({<<67>>}) :
    \/ Ask(Peer(ClientHdr.AddFriend, P!build_add_friend_chunks(text, note, offer)))
    \/ \E who \in Whos(text) :
         \/ Ask(Peer(ClientHdr.RemoveFriend,
                     P!build_remove_friend_chunks(who, note, offer)))
         \/ Ask(Peer(ClientHdr.FindUser, P!build_find_user_chunks(who)))
    \/ \E accept \in BOOLEAN :
         Ask(Peer(ClientHdr.FriendResponse,
                  P!build_friend_response_chunks(text, accept, offer)))
    \/ Ask(Peer(ClientHdr.BlockUser, P!build_block_user_chunks(text, offer)))
    \/ Ask(Peer(ClientHdr.UnblockUser, P!build_login_only_chunks(text)))
    \/ Ask(Peer(ClientHdr.UserSearch, P!build_user_search_chunks(text)))
    \/ Ask(Peer(ClientHdr.SetFriendNickname,
                P!build_set_friend_nickname_chunks(text, <<78>>)))
    \/ \E state \in {"Away", "Offline"}, yes \in Options(BOOLEAN) :
         Ask(Peer(ClientHdr.SetPresence, P!build_set_presence_chunks(
                    P!Presence(Some(state), note, yes, Some(TRUE)))))

AskIm ==
  Idle /\ \E text \in Texts, n \in Options(Longs) :
    \/ \E sealed, signed \in Options({<<83>>}) :
         Ask(Peer(ClientHdr.ImSend, P!build_im_send_chunks(<<65>>, Guid(1),
                    [body |-> text, signed |-> signed, sealed |-> sealed,
                     sealed_to |-> Hash(2)])))
    \/ Ask(Peer(ClientHdr.ImAck, P!build_im_ack_chunks(Guid(1), "Read", text)))
    \/ Ask(Peer(ClientHdr.ImTyping, P!build_im_typing_chunks(text, "Started")))
    \/ Ask(Peer(ClientHdr.GetMessageRequests,
                P!build_get_message_requests_chunks(text)))
    \/ Ask(Peer(ClientHdr.AnswerMessageRequest,
                P!build_answer_message_request_chunks(text, "EndApproval")))
    \/ Ask(Peer(ClientHdr.ClearMessageRequests,
                P!build_clear_message_requests_chunks(n, Some(<<8>>))))
    \/ \E count \in {0, 1, 2} :
         \/ Ask(Peer(ClientHdr.PresentFriendships, P!build_present_friendships_chunks(
                       [i \in 1 .. count |-> [withdraws |-> i = 1, data |-> text]])))
         \/ Ask(Peer(ClientHdr.GetFriendships, P!build_get_friendships_chunks(
                       [i \in 1 .. count |-> [identity |-> i = 1, data |-> Hash(i)]])))
    \/ Ask(Peer(ClientHdr.GetDeviceChallenge,
                P!build_get_device_challenge_chunks(text)))
    \/ Ask(Peer(ClientHdr.ProveDevice,
                P!build_prove_device_chunks(text, <<67>>, Some(text))))

AskProfile ==
  Idle /\ \E gender \in {None, Some("Other")}, text \in Texts, day \in {29, 30} :
    Ask(Peer(ClientHdr.SetProfile, P!build_set_profile_chunks(
          [nickname |-> Some(text), first_name |-> None, last_name |-> Some(<<66>>),
           email |-> None, gender |-> gender, country |-> Some(<<67>>),
           birthdate |-> Some([year |-> 2000, month |-> 2, day |-> day]),
           postcode |-> None, languages |-> <<<<68>>, <<69>>>>])))

-----------------------------------------------------------------------------
(* Being told.  `value` is what the message means; a form that is a whole    *)
(* message is made of fields, another is bytes of its own.                   *)

Tell(as, value, bytes) ==
  /\ told' = Some([as |-> as, value |-> value, bytes |-> bytes])
  /\ wire' = Some(bytes)
  /\ UNCHANGED <<asked, harm>>

Message(fields) == PackMessage(65535, <<1, 0, 0>>, Trans, <<>>, fields)[1]
TellFields(as, value, fields) == Tell(as, value, Message(fields))

Opt(t, option) == IF option = None THEN <<>> ELSE <<Field(t, option[1])>>
In(n, width) == IF n = None THEN None ELSE Some(Wide(n[1], width))

\* A text that every reader keeps as it is.
Name == <<65, 66>>
Names == {<<>>, <<67>>, Name}
Far == {n \in Longs : Len(n) <= 4}

CameraLimits == [kind |-> Camera, width |-> <<2>>, height |-> <<1>>, fps |-> <<>>,
                 bitrate |-> <<1, 0, 0>>, rooms |-> <<4>>]
TellLogin ==
  Idle /\ \E uid \in Words, name \in Options(Names), n \in Longs, most \in Options(Far) :
    TellFields("login",
      [uid |-> Some(uid), version |-> Some(<<185>>), servername |-> name,
       caps |-> Some(n), media_max_bytes |-> most, media_max_dimension |-> None,
       media_max_pixels |-> None, media_chunk_size |-> None,
       media_max_frames |-> None, media_max_duration_ms |-> None,
       history_max_msgs |-> most, history_max_days |-> None,
       video_camera |-> Some(CameraLimits), video_screen |-> None],
      <<Field(tag.UID, Wide(uid, 2)), Field(tag.VERSION, <<0, 185>>)>>
        \o Opt(tag.SERVERNAME, name) \o <<Field(tag.CAPABILITIES, CapabilitiesEncode(n))>>
        \o Opt(mediaTag.CHAT_MEDIA_MAX_BYTES, In(most, 4))
        \o Opt(tag.HISTORY_MAX_MSGS, In(most, 4))
        \o <<Field(mediaTag.VIDEO_LIMITS, LimitsBytes(CameraLimits))>>)

\* A line of chat comes behind a carriage return.
TellChat ==
  Idle /\ \E cid \in Far, uid \in Words, text \in Names :
    \/ TellFields("chat", [cid |-> cid, uid |-> uid, text |-> text],
         <<Field(tag.CHAT_ID, Wide(cid, 4)), Field(tag.UID, Wide(uid, 2)),
           Field(tag.BODY, <<13>> \o text)>>)
    \/ TellFields("subject", [cid |-> cid, subject |-> text],
         <<Field(tag.CHAT_SUBJECT, text), Field(tag.CHAT_ID, Wide(cid, 4))>>)
    \/ TellFields("invite", [uid |-> uid, cid |-> cid, name |-> text],
         <<Field(tag.UID, Wide(uid, 2)), Field(tag.CHAT_ID, Wide(cid, 4)),
           Field(tag.NAME, text)>>)
    \/ TellFields("msg", [uid |-> uid, name |-> text, msg |-> Name],
         <<Field(tag.BODY, Name), Field(tag.UID, Wide(uid, 2)), Field(tag.NAME, text)>>)
    \/ \E n \in Longs : Tell("history",
         [message_id |-> n, timestamp |-> cid, flags |-> uid, icon_id |-> <<1>>,
          nick |-> text, message |-> Name],
         build_history_entry(n, cid, uid, <<1>>, text, Name, <<Field(7, <<1>>)>>)[1])

TellUser ==
  Idle /\ \E uid \in Words, name \in Names, color \in Options({<<>>, <<2>>}), nick \in Options(Far) :
    \/ TellFields("change",
         [uid |-> uid, icon |-> <<3>>, color |-> color, nick_color |-> nick,
          cid |-> <<>>, name |-> name],
         <<Field(tag.UID, Wide(uid, 2)), Field(tag.ICON, <<0, 3>>)>>
           \o Opt(tag.COLOUR, In(color, 2)) \o Opt(mediaTag.COLOR, In(nick, 4))
           \o <<Field(tag.NAME, name)>>)
    \/ Tell("listed",
         [uid |-> uid, icon |-> <<3>>, color |-> Or(color, <<>>), name |-> name,
          nick_color |-> nick],
         Wide(uid, 2) \o <<0, 3>> \o Wide(Or(color, <<>>), 2) \o <<0, Len(name)>> \o name
           \o Or(In(nick, 4), <<>>))
    \/ \E n \in Longs : TellFields("account",
         [name |-> name, login |-> Name, pass |-> IF nick = None THEN <<>> ELSE Name,
          access |-> Some(Wide(n, 8))],
         <<Field(tag.NAME, name), Field(tag.LOGIN, Flip(Name)),
           Field(tag.PASSWORD, IF nick = None THEN <<0>> ELSE Flip(Name)),
           Field(tag.ACCESS, Wide(n, 8))>>)
    \/ TellFields("info", [name |-> name, info |-> Name],
         <<Field(tag.NAME, name), Field(tag.BODY, Name)>>)
    \/ TellFields("self",
         [access |-> Some(<<7>>), user |-> Some([uid |-> uid, icon |-> <<3>>,
                                                 name |-> name]),
          nick_color |-> nick],
         <<Field(tag.ACCESS, Wide(<<7>>, 8)),
           Field(tag.USER_LIST, Wide(uid, 2) \o <<0, 3, 0, 0, 0, Len(name)>> \o name)>>
           \o Opt(mediaTag.COLOR, In(nick, 4)))

\* What a server pushes, and its short replies.
TellPush ==
  Idle /\ \E text \in Names, n \in Far, id1 \in Words :
    \/ TellFields("agreement", [result |-> "Ok", text |-> text], <<Field(tag.BODY, text)>>)
    \/ TellFields("agreement", [result |-> "None", text |-> <<>>],
         <<Field(tag.NOAGREEMENT, <<0, 1>>), Field(tag.BODY, text)>>)
    \/ TellFields("banner", [type |-> Some(<<85, 82, 76, 32>>), url |-> Some(text)],
         <<Field(tag.BANNER_TYPE, <<85, 82, 76, 32>>), Field(tag.BANNER_URL, text)>>)
    \/ TellFields("error", Some(text), <<Field(tag.TASK_ERROR, text)>>)
    \/ TellFields("queue", [htxf_ref |-> n, queueid |-> id1],
         <<Field(tag.HTXF_REF, Wide(n, 4)), Field(tag.QUEUE, Wide(id1, 2))>>)
    \/ TellFields("left", [uid |-> id1, cid |-> n],
         <<Field(tag.UID, Wide(id1, 2)), Field(tag.CHAT_ID, Wide(n, 4))>>)
    \/ TellFields("board", Some(text), <<Field(peerTag.NEWS, text)>>)
    \/ TellFields("posts", <<text, Name>>,
         <<Field(peerTag.NEWS, text), Field(peerTag.NEWS, Name)>>)

\* What it answers to a transfer, an upload, and about icons.
TellReply ==
  Idle /\ \E n \in Far, id1 \in Words, gif \in Names :
    \/ TellFields("folder",
         [ref |-> <<8>>, size |-> n, size64 |-> Some(n), queue |-> id1, nfiles |-> n],
         <<Field(tag.HTXF_REF, <<0, 8>>), Field(tag.HTXF_SIZE, Wide(n, 4)),
           Field(newsTag.XFERSIZE64, Wide(n, 8)), Field(tag.QUEUE, Wide(id1, 2)),
           Field(tag.FILE_NFILES, Wide(n, 4))>>)
    \/ TellFields("accepted", [ref |-> n, queue |-> id1],
         <<Field(tag.HTXF_REF, Wide(n, 4)), Field(tag.QUEUE, Wide(id1, 2))>>)
    \/ TellFields("fetch", [ref |-> n, size |-> id1],
         <<Field(tag.HTXF_REF, Wide(n, 4)), Field(tag.HTXF_SIZE, Wide(id1, 4))>>)
    \/ TellFields("uploaded", Some([id |-> Some(gif), type |-> Some(<<103>>),
                                    width |-> Some(n), height |-> None, bytes |-> None]),
         <<Field(mediaTag.CHAT_MEDIA_TYPE, <<103>>), Field(mediaTag.CHAT_MEDIA_ID, gif),
           Field(mediaTag.CHAT_MEDIA_WIDTH, Wide(n, 4))>>)
    \/ TellFields("token", Some(gif), <<Field(mediaTag.CHAT_MEDIA_UPLOAD_TOKEN, gif)>>)
    \/ \E code \in {0, 1, 5, 6} :
         TellFields("refusal", IF code = 6 THEN <<>> ELSE Num(code),
                    <<Field(mediaTag.CHAT_MEDIA_ERROR_CODE, <<0, code>>)>>)
    \/ TellFields("icon", Some([uid |-> id1, gif |-> gif]),
         <<Field(tag.UID, Wide(id1, 2)), Field(peerTag.ICON_GIF, gif)>>)
    \/ TellFields("redrawn", Some(id1), <<Field(tag.UID, Wide(id1, 2))>>)
    \/ \E kind \in VideoKind \cup {<<3>>} :
         Tell("watched", <<[user |-> <<5>>, kind |-> Camera]>>
                           \o When(kind \in VideoKind, <<[user |-> id1, kind |-> kind]>>),
              <<0, 5, 0, 1>> \o Wide(id1, 2) \o Wide(kind, 2))

\* The posts of a category, with no part, one or two.
Part(size) == [mime_type |-> <<116>>, size |-> size]
Post(id1, name, parts) ==
  [post |-> [postid |-> id1, base_year |-> <<7, 112>>, pad |-> <<>>, seconds |-> <<1>>,
             parentid |-> <<>>, flags |-> <<>>, partcount |-> Num(Len(parts)),
             subject |-> name, sender |-> <<67>>],
   parts |-> parts,
   size_total |-> IF Len(parts) = 2 THEN Num(5) ELSE IF parts = <<>> THEN <<>> ELSE Num(2)]
PostBytes(p) ==
  Wide(p.post.postid, 4) \o <<7, 112, 0, 0, 0, 0, 0, 1>> \o Wide(<<>>, 8)
    \o Wide(p.post.partcount, 2) \o <<Len(p.post.subject)>> \o p.post.subject
    \o <<1, 67>>
    \o FlattenSeq([i \in DOMAIN p.parts |-> <<1, 116>> \o Wide(p.parts[i].size, 2)])
Posts == {Post(<<1>>, name, parts) :
            name \in Names, parts \in {<<>>, <<Part(<<2>>)>>, <<Part(<<2>>), Part(<<3>>)>>}}

TellNews == Idle /\
  \/ \E count \in 0 .. 2 : \E posts \in [1 .. count -> Posts] :
       Tell("articles", posts,
            Wide(<<>>, 4) \o Wide(Num(count), 4) \o <<0, 0>>
              \o FlattenSeq([i \in 1 .. count |-> PostBytes(posts[i])]))
  \/ \E name \in Names, id1 \in Far :
       \/ TellFields("thread", [text |-> Some(name), thread_id |-> id1,
                                has_task_error |-> FALSE],
            <<Field(newsTag.NEWSDATA, name), Field(newsTag.THREADID, Wide(id1, 4))>>)
       \/ TellFields("folders", <<[kind |-> "Folder", name |-> name],
                                  [kind |-> "Category", name |-> Name]>>,
            <<Field(tag.NEWSFOLDERITEM, <<1>> \o name),
              Field(tag.CATEGORYITEM, <<0, 3>> \o Wide(<<>>, 26) \o <<2>> \o Name)>>)
       \/ Tell("category", [kind |-> "Folder", name |-> name],
            <<0, 2, 0, 1, Len(name)>> \o name)

TellFile ==
  Idle /\ \E name \in Names, n \in Far, date \in {Wide(<<>>, 8), <<7, 112, 0, 0, 0, 0, 1, 1>>} :
    \/ Tell("file", [entry |-> [tag |-> <<200>>, len |-> Num(20 + Len(name)),
                                ftype |-> <<1, 2, 3, 4>>, fcreator |-> <<5, 6, 7, 8>>,
                                fsize |-> n, reserved |-> <<0, 0, 0, 0>>, enc |-> <<>>,
                                fnlen |-> Num(Len(name)), name |-> name],
                     next |-> 24 + Len(name)],
            <<0, 200, 0, 20 + Len(name), 1, 2, 3, 4, 5, 6, 7, 8>> \o Wide(n, 4)
              \o Wide(<<>>, 6) \o <<0, Len(name)>> \o name)
    \/ TellFields("about",
         [icon |-> Some(<<1, 2, 3, 4>>), type |-> <<84>>, creator |-> <<>>, size |-> n,
          size64 |-> Some(n), name |-> name, date_create |-> date,
          date_modify |-> Wide(<<>>, 8), comment |-> Name],
         <<Field(tag.FILE_ICON, <<1, 2, 3, 4>>), Field(tag.FILE_TYPE, <<84>>),
           Field(tag.FILE_SIZE, Wide(n, 4)), Field(newsTag.FILESIZE64, Wide(n, 8)),
           Field(tag.FILE_NAME, name), Field(tag.FILE_DATE_CREATE, date),
           Field(tag.FILE_COMMENT, Name)>>)
    \/ TellFields("put", [ref |-> n, queue |-> <<1>>, data_pos |-> n, rsrc_pos |-> <<6>>],
         <<Field(tag.HTXF_REF, Wide(n, 4)), Field(tag.QUEUE, <<0, 1>>),
           Field(tag.RFLT, X!rflt_encode([data |-> n, resource |-> <<6>>]))>>)
    \/ Tell("offsets", [data |-> n, resource |-> <<6>>],
            X!rflt_encode([data |-> n, resource |-> <<6>>]))

TellMedia ==
  Idle /\ \E id1 \in {<<1>>, Name}, n \in Far, last \in BOOLEAN :
    \/ TellFields("picture",
         Some([id |-> Some(id1), type |-> Some(<<103>>), width |-> Some(n),
               height |-> None, bytes |-> Some(n)]),
         <<Field(mediaTag.CHAT_MEDIA_ID, id1), Field(mediaTag.CHAT_MEDIA_TYPE, <<103>>),
           Field(mediaTag.CHAT_MEDIA_WIDTH, Wide(n, 4)),
           Field(mediaTag.CHAT_MEDIA_BYTES, Wide(n, 4))>>)
    \/ TellFields("part", [payload |-> id1, type |-> <<103>>, count |-> <<2>>,
                           final |-> last],
         <<Field(mediaTag.CHAT_MEDIA_PAYLOAD, id1), Field(mediaTag.CHAT_MEDIA_TYPE, <<103>>),
           Field(mediaTag.CHAT_MEDIA_PART_COUNT, <<0, 2>>),
           Field(mediaTag.CHAT_MEDIA_PART_FINAL, IF last THEN <<1>> ELSE <<0>>)>>)
    \/ TellFields("limits",
         [max_bytes |-> Some(n), max_dimension |-> None, max_pixels |-> None,
          chunk_size |-> Some(<<9>>), max_frames |-> None, max_duration |-> None],
         <<Field(mediaTag.CHAT_MEDIA_MAX_BYTES, Wide(n, 4)),
           Field(mediaTag.CHAT_MEDIA_CHUNK_SIZE, Wide(<<9>>, 4))>>)
    \/ TellFields("room", <<[user |-> <<5>>, flags |-> <<1>>, codec |-> <<>>],
                            [user |-> <<6>>, flags |-> <<>>, codec |-> <<2>>]>>,
         <<Field(mediaTag.VOICE_PARTICIPANTS, <<0, 5, 0, 1, 0, 0, 0, 6, 0, 0, 0, 2>>),
           Field(tag.CHAT_ID, Wide(n, 4))>>)
    \/ TellFields("streams", <<[user |-> <<5>>, kind |-> Screen, flags |-> <<>>,
                                codec |-> <<1>>]>>,
         <<Field(mediaTag.VIDEO_PUBLISHERS,
             PublicationBytes([user |-> <<4>>, kind |-> <<9>>, flags |-> <<>>, codec |-> <<>>])
               \o PublicationBytes([user |-> <<5>>, kind |-> Screen, flags |-> <<>>,
                                    codec |-> <<1>>]))>>)
    \/ TellFields("icons", <<[none |-> <<>>, uid |-> <<5>>, len |-> Num(Len(id1)),
                              gif |-> id1]>>,
         <<Field(peerTag.ICON_LIST, <<0, 5, 0, Len(id1)>> \o id1)>>)

Friend(account1, state, caps, hashes, note) ==
  [login |-> account1, nickname |-> None, state |-> state, presence |-> Some(<<1>>),
   status_text |-> None, capabilities |-> caps, name |-> None,
   icon_hash |-> Some(Guid(3)), identity |-> None, hashes |-> hashes,
   withdrawal |-> None, note |-> note, offer |-> None]
Friends == {Friend(Name, state, None, hashes, note) :
              state \in Options({<<3>>}), note \in Options({<<>>}),
              hashes \in {<<>>, <<Hash(1)>>, <<Hash(1), Hash(2)>>}}
             \cup {Friend(<<67>>, None, Some(n), <<>>, None) : n \in Longs}

Fellows == {Friend(<<68>>, None, None, <<>>, note) : note \in Options({<<>>})}

Asked(k, signed) ==
  [guid |-> Guid(k), body |-> Name, timestamp |-> <<1, k>>, signed |-> signed]
Sender(account1, state, messages) ==
  [login |-> account1, identity |-> Some(Hash(4)), state |-> state, messages |-> messages]
SenderFields(g) ==
  <<Field(peerTag.FRIEND_LOGIN, g.login)>> \o Opt(peerTag.FRIEND_IDENTITY, g.identity)
    \o Opt(peerTag.ROSTER_STATE, In(g.state, 2))
    \o FlattenSeq([i \in DOMAIN g.messages |-> P!MessageFields(g.messages[i])[1]])

PresentedFields(o) ==
  <<Field(peerTag.FRIENDSHIP_HASH, o.hash), Field(peerTag.REASON_CODE, Wide(o.reason, 2))>>
    \o Opt(peerTag.FRIEND_WITHDRAW, o.withdrawal)
AnswerFields(o) ==
  <<Field(IF o.rotates THEN peerTag.FRIEND_IDENTITY ELSE peerTag.FRIENDSHIP_HASH, o.of)>>
    \o Opt(peerTag.FRIENDSHIP, o.friendship)
    \o [i \in DOMAIN o.records |-> Field(peerTag.IDENTITY_ROTATION, o.records[i])]

\* The fields of what is told in groups, written from its value alone.
Grouped(values, WrittenOf(_)) == FlattenSeq([i \in DOMAIN values |-> WrittenOf(values[i])])
Written(as, value) ==
  CASE as = "roster" ->
         Opt(peerTag.REASON_CODE, In(value.reason, 2))
           \o Grouped(value.entries, LAMBDA e : P!EntryFields(e)[1])
    [] as = "entry" -> P!EntryFields(value)[1]
    [] as = "requests" ->
         Opt(peerTag.TAKES_REQUESTS,
             Map(value.takes_requests, LAMBDA yes : IF yes THEN <<0, 1>> ELSE <<0, 0>>))
           \o Opt(peerTag.REQUEST_COUNT, In(value.dropped, 4))
           \o Opt(peerTag.REQUEST_CURSOR, value.cursor)
           \o Grouped(value.groups, SenderFields)
    [] as = "presented" -> Grouped(value, PresentedFields)
    [] as = "friendships" -> Grouped(value, AnswerFields)
TellGroups(as, value) == TellFields(as, value, Written(as, value))

TellFriend == Idle /\
  \/ \E a \in Friends, b \in Fellows, reason \in Options({<<>>, <<7>>}) :
       TellGroups("roster", [reason |-> reason, entries |-> <<a, b>>])
  \/ \E a \in Friends : TellGroups("entry", a)
  \/ \E state, signed \in Options({<<3>>}), cursor \in Options({Name}) :
       TellGroups("requests",
         [takes_requests |-> Some(state # None), dropped |-> Some(<<2>>), cursor |-> cursor,
          groups |-> <<Sender(Name, state, <<>>),
                       Sender(<<67>>, None, <<Asked(1, signed), Asked(2, None)>>)>>])
  \/ \E gone \in Options({Name}) :
       TellGroups("presented",
         <<[hash |-> Hash(1), reason |-> <<18>>, withdrawal |-> gone],
           [hash |-> Hash(2), reason |-> <<>>, withdrawal |-> None]>>)
  \/ \E friendship \in Options({Name}) :
       TellGroups("friendships",
         <<[rotates |-> FALSE, of |-> Hash(1), friendship |-> friendship, records |-> <<>>],
           [rotates |-> TRUE, of |-> Hash(2), friendship |-> None,
            records |-> <<Name, <<67>>>>]>>)
  \/ \E n \in Options(Far) :
       LET limits == <<n, Some(<<1, 0>>), None, n, None, Some(<<9>>)>>
       IN  TellFields("bounds",
             <<IF n \in {None, Some(<<>>)} THEN Some(Num(4096)) ELSE n, Some(<<1, 0>>),
               Some(Num(500)), n, Some(Num(64)), Some(<<9>>)>>,
             P!LimitFields(limits))

Server(name, password) ==
  [port |-> <<21, 124>>, users |-> <<3>>, pass_id |-> <<1, 2, 3, 4>>, name |-> name,
   description |-> Name, password |-> password]
Metas ==
  {[f \in {T!id.SUPPORTS_TLS, T!id.COUNTRY_CODE, T!id.MAX_USERS, T!id.UPTIME,
           T!id.TOTAL_FILE_SIZE, T!id.MATURITY, T!id.ADDRESS_IPV6} |->
      CASE f = T!id.SUPPORTS_TLS -> TRUE [] f = T!id.COUNTRY_CODE -> text
        [] f = T!id.MAX_USERS -> <<2>> [] f = T!id.UPTIME -> <<1, 0, 0>>
        [] f = T!id.TOTAL_FILE_SIZE -> n [] f = T!id.MATURITY -> 2
        [] OTHER -> Guid(6)] : n \in Longs, text \in {<<>>, <<65, 233>>}}

TellTracker == Idle /\
  \/ \E name, password \in Names :
       Tell("registered", [of |-> Server(name, password), fields |-> None, signed |-> FALSE],
            T!build_v1(Server(name, password))[1])
  \/ \E name \in Names, token, nonce \in Options({Wide(<<5>>, 8)}) :
       LET fields == <<Field(T!id.HOSTNAME, name)>>
       IN  Tell("registered",
             [of |-> Server(name, Name),
              fields |-> Some(fields \o Opt(T!id.REG_TOKEN, token)
                                     \o Opt(T!id.NONCE, nonce)),
              signed |-> nonce # None],
             T!build_v3(Server(name, Name), fields, token, nonce)[1])
  \/ \E meta \in Metas : Tell("meta", meta, T!Counting(T!encode(meta)))
  \/ \E token, error \in Options({<<65, 233>>}), status \in {0, 4, 255} :
       Tell("ack", [ok |-> TRUE, status |-> status, interval |-> <<9>>,
                    token |-> Map(token, AsBytes), error |-> error,
                    tracker_name |-> None],
            T!build_ack(status, <<9>>, Map(token, AsBytes), error, None)[1])
  \/ \E kind \in {4, 6, 72}, name \in Names :
       LET address == CASE kind = 4 -> <<9, 8, 7, 6>> [] kind = 6 -> Guid(7)
                        [] OTHER -> Name
           head == [none |-> <<>>, addr_type |-> <<kind>>, address |-> address,
                    port |-> <<1>>, nusers |-> <<2>>, name_len |-> Num(Len(name)),
                    name |-> name, desc_len |-> <<2>>, desc |-> Name, tlv_count |-> <<1>>]
           trailer == PutChunk(Field(T!id.SUPPORTS_TLS, <<1>>))
           bytes == <<kind>> \o (IF kind = 72 THEN <<0, 2>> ELSE <<>>) \o address
                      \o <<0, 1, 0, 2, 0, Len(name)>> \o name \o <<0, 2>> \o Name
                      \o <<0, 1>> \o trailer
       IN  Tell("server", [record |-> IF kind # 72 THEN head
                                      ELSE [x \in DOMAIN head \cup {"address_len"} |->
                                              IF x = "address_len" THEN <<2>> ELSE head[x]],
                           tlv_bytes |-> trailer, consumed |-> Len(bytes)], bytes)

\* The announcement of an item, and a file as one object with its forks.
Info(name, comment, time) ==
  [type |-> <<1, 2, 3, 4>>, creator |-> <<5, 6, 7, 8>>, created |-> time,
   modified |-> <<>>, name |-> name, comment |-> comment]
TellTransfer == Idle /\
  \/ \E folder \in BOOLEAN, names \in {<<Name>>, <<<<67>>, Name>>} :
       Tell("item", [folder |-> folder, path |-> names],
            Rest(X!Item_encode([folder |-> folder, path |-> names]).bytes, 2))
  \/ \E name, comment \in Names, time \in Far, n \in Longs :
       LET forks == [data_len |-> n, data_offset |-> <<>>,
                     resource_len |-> <<2>>, resource_offset |-> <<1>>]
       IN  /\ X!encode(Info(name, comment, time), forks, TRUE).ok
           /\ Tell("object", [ok |-> TRUE, type_creator |-> <<1, 2, 3, 4, 5, 6, 7, 8>>,
                              created |-> time, modified |-> <<>>, comment |-> comment,
                              data_fork_len |-> n],
                   X!encode(Info(name, comment, time), forks, TRUE).prefix)

\* Sizes: of an upload that is offered, of a file that is promised, in the
\* preamble of a transfer, and of a fork.
Wide64(size, large) == IF large THEN size ELSE AtMost(size, U32Max)
TellSize ==
  Idle /\ \E n \in Longs, large \in BOOLEAN :
    \/ LET r == file_upload(<<>>, Name, n, large)
       IN  Tell("offer", Wide64(n, large), Pack(FieldsOf(r)[1], r.type, Trans)[1])
    \/ LET r == folder_upload(<<>>, Name, n, Num(2))
       IN  Tell("offer", Wide64(n, FALSE), Pack(FieldsOf(r)[1], r.type, Trans)[1])
    \/ TellFields("promise", Wide64(n, large),
         <<Field(tag.HTXF_REF, <<0, 0, 0, 1>>),
           Field(tag.HTXF_SIZE, Wide(AtMost(n, U32Max), 4))>>
           \o When(large, <<Field(newsTag.XFERSIZE64, Wide(n, 8))>>))
    \/ LET bytes == build_htxf_preamble(24, <<7>>, n, <<>>,
                                        IF large THEN {LargeFile} ELSE {}, large)
       IN  bytes # None /\ Tell("preamble", n, bytes[1])
    \/ \E window \in {<<65>>, Name}, digest \in BOOLEAN :
         LET p == [ref |-> <<7>>, len |-> n, type |-> <<>>,
                   flags |-> {X!FLAG_LARGE_FILE}
                               \cup (IF large THEN {X!FLAG_SIZE64} ELSE {})
                               \cup (IF digest THEN {X!FLAG_RESUME} ELSE {}),
                   digest |-> IF digest THEN X!digest_encode(Num(Len(window)), window)
                              ELSE None]
         IN  X!Preamble_encode(p).ok /\ Tell("preamble", n, X!Preamble_encode(p).bytes)
    \/ LET marker == X!pack_fork_header(X!DATA, n, large)
       IN  marker # None /\ Tell(IF large THEN "largeFork" ELSE "fork", n, marker[1])

\* A text as a client says it, in UTF-8 where that was agreed, and otherwise
\* with characters that Mac Roman has.
Roman == (0 .. 127) \cup {MAC_ROMAN_HIGH[k] : k \in 1 .. 128}
TellText ==
  Idle /\ \E text \in Strings :
    \/ \E utf8 \in BOOLEAN :
         /\ utf8 \/ \A i \in DOMAIN text : text[i] \in Roman
         /\ Tell("roman", text, E!body_out(text, utf8))
    \/ Tell("shortcodes", text, AsBytes(emoji_to_shortcodes(text)))

TellCall == Idle /\
  \/ \E text \in Strings, index \in Options({<<48>>, I!U32MaxDecimal, <<49, 48>>}),
        fragment \in Options({<<34, 8>>}) :
       LET c == I!IceCandidate(Some(text), Some(<<48>>), index, fragment)
       IN  Tell("candidate", c, I!build(c))
  \/ \E count \in 0 .. MaxLines : \E lines \in [1 .. count -> Lines] :
       Tell("sdp", lines, lines)

\* Where a message goes, when a date was, what a user's change comes to, and
\* how a listing of servers begins.
Was == [status |-> <<4>>, nick_color |-> <<6>>, name |-> Name]
TellMore == Idle /\
  \/ \E name \in DOMAIN Handlers \cap DOMAIN ServerHdr :
       Tell("routed", name, PackMessage(65535, Num(ServerHdr[name]), Trans, <<>>, <<>>)[1])
  \/ \E year \in {1904, 1969, 1970, 2200, 2201} :
       Tell("date", IF year \in {1969, 2201} THEN None
                    ELSE Some(IF year = 1904
                              THEN [kind |-> "Mac1904", year |-> 0, secs |-> <<1>>]
                              ELSE [kind |-> "Modern", year |-> year, secs |-> <<1>>]),
            Wide(Num(year), 2) \o <<0, 0, 0, 0, 0, 1>>)
  \/ \E uid \in {<<1>>, <<2>>}, name \in Names, color, nick \in Options({<<2>>}) :
       TellFields("changed",
         [eff_color |-> IF color = None THEN Was.status ELSE <<2>>,
          eff_nick_color |-> IF nick = None THEN Was.nick_color ELSE <<2>>,
          is_self |-> uid = <<1>>,
          do_rename_notice |-> uid # <<1>> /\ name = <<67>>],
         <<Field(tag.UID, Wide(uid, 2)), Field(tag.NAME, name)>>
           \o Opt(tag.COLOUR, In(color, 2)) \o Opt(mediaTag.COLOR, In(nick, 4)))
  \/ \E n \in Far, v \in Words :
       \/ Tell("welcome", [version |-> <<3>>, features |-> v],
               T!pack_tracker_v3_handshake(8, v)[1])
       \/ Tell("servers", v, T!HTRK \o <<0, 1, 0, 1, 0, 0>> \o Wide(v, 2) \o <<0, 0>>)
       \/ Tell("page", [none |-> <<>>, response_type |-> <<1>>, total_size |-> n,
                        total_servers |-> v, record_count |-> <<2>>],
               <<0, 1>> \o Wide(n, 4) \o Wide(v, 2) \o <<0, 2>>)
       \/ Tell("fixed", [none |-> <<>>, addr |-> <<9, 8, 7, 6>>, port |-> v,
                         nusers |-> <<3>>, unused |-> <<0, 0>>, name_len |-> <<2>>],
               <<9, 8, 7, 6>> \o Wide(v, 2) \o <<0, 3, 0, 0, 2>>)

\* What a session reads: replies, by what their requests await, and pushes.
\* A name ends at a zero byte, and what a reader skips stands between its
\* neighbors.
Chat == <<5>>
Replies ==
  {"UserList", "ChatJoin", "ChatCreate", "ChatHistory", "UserInfo", "Account", "NewsFile",
   "NewsListing", "NewsCategory", "NewsPart", "NewsArticle", "FileList", "FileInfo",
   "Transfer", "IconList", "Icon", "VoiceJoin", "MediaUpload", "MediaUploadLast",
   "MediaDownload"}
TellEvent(await, event, fields) == TellFields(await, <<event>>, fields)

Ended(name) == name \o <<0, 200>>
UserLine(uid, color, name) ==
  Wide(uid, 2) \o <<0, 3, 0, 2>> \o Wide(Num(Len(name)), 2) \o name \o Or(In(color, 4), <<>>)
Member(uid, color, name) ==
  [uid |-> uid, icon |-> <<3>>, status |-> Some(<<2>>), name |-> name, color |-> color]

TellListed ==
  Idle /\ \E uid \in Words, name \in Names, color \in Options(Far), subject \in Options(Names) :
    LET lines == <<Field(tag.USER_LIST, UserLine(uid, color, Ended(name))),
                   Field(tag.USER_LIST, <<0, 1, 0>>),
                   Field(tag.USER_LIST, UserLine(<<7>>, None, Name))>>
        users == <<Member(uid, color, name), Member(<<7>>, None, Name)>>
        said == Opt(tag.CHAT_SUBJECT, Map(subject, Ended))
    IN  \/ TellEvent("UserList", [e |-> "UserList", users |-> users, subject |-> subject],
                     lines \o said)
        \/ TellEvent("ChatJoin", [e |-> "ChatJoined", cid |-> Chat, users |-> users,
                                  subject |-> subject], said \o lines)
        \/ TellEvent("ChatCreate",
              [e |-> "ChatCreated", cid |-> Chat,
               user |-> [Member(uid, color, name) EXCEPT !.status = None]],
              <<Field(tag.CHAT_ID, Wide(Chat, 4)), Field(tag.UID, Wide(uid, 2)),
                Field(tag.ICON, <<0, 3>>), Field(tag.NAME, Ended(name))>>
                \o Opt(mediaTag.COLOR, In(color, 4)))

TellPast ==
  Idle /\ \E n \in Longs, nick \in Names, more \in Options(BOOLEAN) :
    TellEvent("ChatHistory",
      [e |-> "ChatHistory", cid |-> Chat, has_more |-> more = Some(TRUE),
       entries |-> <<[message_id |-> n, timestamp |-> <<2>>, flags |-> <<1>>, icon |-> <<1>>,
                      nick |-> nick, text |-> <<65, 10>>]>>],
      <<Field(tag.HISTORY_ENTRY, <<0, 1>>),
        Field(tag.HISTORY_ENTRY,
              build_history_entry(n, <<2>>, <<1>>, <<1>>, nick, <<65, 13>>, <<>>)[1])>>
        \o Opt(tag.HISTORY_HAS_MORE, Map(more, LAMBDA m : IF m THEN <<1>> ELSE <<0>>)))

\* A listing: of each file its size, and a companion where 32 bits are too few
\* for it; a folder; and an entry that cannot be read, before a companion of
\* its own.
Entry(type, n, name) ==
  type \o <<5, 6, 7, 8>> \o Wide(AtMost(n, U32Max), 4) \o Wide(<<>>, 6)
    \o <<0, Len(name)>> \o name
Listed(type, n, name) ==
  [name |-> name, name_bytes |-> name, folder |-> type = E!FTYPE_FLDR, size |-> n,
   type_code |-> type, creator |-> <<5, 6, 7, 8>>]
Companion(t, n) == When(Len(n) > 4, <<Field(t, Wide(n, 8))>>)
TellFiles ==
  Idle /\ \E m, n \in Longs, bad \in BOOLEAN, name \in Names :
    TellEvent("FileList",
      [e |-> "FileList",
       files |-> <<Listed(<<1, 2, 3, 4>>, n, name), Listed(E!FTYPE_FLDR, m, Name)>>],
      <<Field(E!FILE_LIST_ENTRY, Entry(<<1, 2, 3, 4>>, n, name))>>
        \o Companion(E!FILE_SIZE_64, n)
        \o When(bad, <<Field(E!FILE_LIST_ENTRY, <<1, 2, 3>>),
                       Field(E!FILE_SIZE_64, Wide(<<9>>, 8))>>)
        \o <<Field(E!FILE_LIST_ENTRY, Entry(E!FTYPE_FLDR, m, Name))>>
        \o Companion(E!FOLDER_ITEMS_64, m))

TellAnswer == Idle /\
  \/ \E n \in Longs, id1 \in Words :
       TellEvent("Transfer",
         [e |-> "Transfer", transfer |->
            [reference |-> <<8>>, size |-> n, queue |-> id1, items |-> <<2>>,
             data_from |-> id1, rsrc_from |-> <<6>>]],
         <<Field(tag.HTXF_REF, <<0, 8>>), Field(tag.HTXF_SIZE, Wide(AtMost(n, U32Max), 4)),
           Field(tag.QUEUE, Wide(id1, 2)), Field(tag.FILE_NFILES, <<0, 2>>),
           Field(tag.RFLT, X!rflt_encode([data |-> id1, resource |-> <<6>>]))>>
           \o Companion(newsTag.XFERSIZE64, n))
  \/ \E sdp, codec, users \in Options({Name}) :
       TellEvent("VoiceJoin",
         IF None \in {sdp, codec, users} THEN E!Failed
         ELSE [e |-> "VoiceJoined", cid |-> Chat, sdp |-> Name, codec |-> Name,
               participants |-> Name],
         Opt(newsTag.VOICE_SDP, sdp) \o Opt(newsTag.VOICE_CODEC, codec)
           \o Opt(mediaTag.VOICE_PARTICIPANTS, users))
  \/ \E id1, mime \in Options({Name}) :
       TellEvent("MediaUploadLast",
         IF None \in {id1, mime} THEN E!malformed_media
         ELSE [e |-> "MediaUploaded", media |->
                 [id |-> id1, type |-> mime, width |-> None, height |-> None,
                  bytes |-> None]],
         Opt(mediaTag.CHAT_MEDIA_ID, id1) \o Opt(mediaTag.CHAT_MEDIA_TYPE, mime))
  \/ \E payload, mime \in Options({Name}), last \in BOOLEAN :
       TellEvent("MediaDownload",
         IF None \in {payload, mime} THEN E!malformed_media
         ELSE [e |-> "MediaPart", part |-> [payload |-> Name, type |-> Name, count |-> <<1>>,
                                            final |-> last]],
         Opt(mediaTag.CHAT_MEDIA_PAYLOAD, payload) \o Opt(mediaTag.CHAT_MEDIA_TYPE, mime)
           \o When(last, <<Field(mediaTag.CHAT_MEDIA_PART_FINAL, <<0, 1>>)>>))
  \/ \E token \in Options({Name}) :
       TellEvent("MediaUpload", [e |-> "MediaUploading", token |-> token],
                 Opt(mediaTag.CHAT_MEDIA_UPLOAD_TOKEN, token))
  \/ \E uid \in Options(Words) :
       TellEvent("Icon", IF uid = None THEN E!Failed
                         ELSE [e |-> "Icon", icon |-> [uid |-> uid[1], gif |-> Name]],
                 Opt(tag.UID, In(uid, 2)) \o <<Field(peerTag.ICON_GIF, Name)>>)
  \/ TellEvent("IconList", [e |-> "IconList", icons |-> <<[uid |-> <<5>>, gif |-> Name]>>],
               <<Field(peerTag.ICON_LIST, <<0, 4, 0, 9, 65>>),
                 Field(peerTag.ICON_LIST, <<0, 5, 0, 2>> \o Name)>>)

TellNewsEvent == Idle /\
  \/ \E posts \in [1 .. 2 -> Posts] :
       TellEvent("NewsCategory",
         [e |-> "NewsCategory", articles |-> [i \in 1 .. 2 |->
            [id |-> <<1>>, parent |-> <<>>, subject |-> posts[i].post.subject,
             poster |-> <<67>>, year |-> <<7, 112>>, seconds |-> <<1>>,
             mime |-> IF posts[i].parts = <<>> THEN <<>> ELSE <<116>>,
             parts |-> [j \in DOMAIN posts[i].parts |->
                          [mime |-> <<116>>, size |-> posts[i].parts[j].size]]]]],
         <<Field(tag.CATLIST, Wide(<<>>, 4) \o <<0, 0, 0, 2, 0, 0>>
                                \o PostBytes(posts[1]) \o PostBytes(posts[2]))>>)
  \/ \E name \in Names :
       \/ TellEvent("NewsListing",
            [e |-> "NewsListing",
             items |-> <<[name |-> name, name_bytes |-> Ended(name), bundle |-> TRUE],
                         [name |-> Name, name_bytes |-> Name, bundle |-> FALSE]>>],
            <<Field(tag.NEWSFOLDERITEM, <<1>> \o Ended(name)), Field(tag.CATEGORYITEM, <<0>>),
              Field(tag.CATEGORYITEM, <<0, 3>> \o Wide(<<>>, 26) \o <<2>> \o Name)>>)
       \/ TellEvent("NewsFile", [e |-> "NewsFile", text |-> name],
                    When(name # <<>>, <<Field(peerTag.NEWS, name)>>))
       \/ TellEvent("NewsPart", [e |-> "NewsPart", data |-> name],
                    <<Field(newsTag.NEWSDATA, name), Field(newsTag.NEWSDATA, Name)>>)
       \/ TellEvent("NewsArticle", [e |-> "NewsArticle", text |-> name],
                    When(name # <<>>, <<Field(newsTag.NEWSDATA, name)>>))
       \/ TellEvent("UserInfo", [e |-> "UserInfo", name |-> name, info |-> Name],
                    <<Field(tag.NAME, Ended(name)), Field(tag.BODY, Name)>>)
       \/ TellEvent("Account",
            [e |-> "Account", account |-> [name |-> name, login |-> Name, pass |-> <<>>,
                                           access |-> Some(Wide(<<9>>, 8))]],
            <<Field(tag.NAME, name), Field(tag.LOGIN, Flip(Name)),
              Field(tag.ACCESS, Wide(<<9>>, 8))>>)

\* Pushes, where pictures were agreed and where not; a picture without its id
\* takes its line with it.
Pushing(types, agreed, events, fields) ==
  \E type \in types :
    Tell(IF agreed THEN "pictured" ELSE "pushed", events,
         PackMessage(65535, Num(type), Trans, <<>>, fields)[1])
Picture == [id |-> Some(Name), type |-> Some(<<103>>), width |-> None, height |-> None,
            bytes |-> None]
TellSpoken ==
  Idle /\ \E uid \in Words, text \in Names, agreed, whole, any \in BOOLEAN :
    LET picture == When(any, When(whole, <<Field(mediaTag.CHAT_MEDIA_ID, Name)>>)
                               \o <<Field(mediaTag.CHAT_MEDIA_TYPE, <<103>>)>>)
        seen == IF agreed /\ any THEN Some(Picture) ELSE None
        Shown(event) == When(whole \/ ~(agreed /\ any), <<event>>)
        nobody == [e |-> "Broadcast", uid |-> uid, from |-> Name, text |-> text,
                   media |-> None]
        said == <<Field(tag.UID, Wide(uid, 2)), Field(tag.NAME, Ended(Name)),
                  Field(tag.BODY, text)>> \o picture
    IN  \/ Pushing(Handlers.Chat, agreed,
              Shown([e |-> "Chat", cid |-> Chat, uid |-> uid, text |-> text,
                     media |-> seen]),
              <<Field(tag.CHAT_ID, <<0, 5>>), Field(tag.UID, Wide(uid, 2)),
                Field(tag.BODY, <<13>> \o text)>> \o picture)
        \/ Pushing({ServerHdr.Msg}, agreed,
              IF uid = <<>> THEN <<nobody>>
              ELSE Shown([nobody EXCEPT !.e = "Message", !.media = seen]), said)
        \/ Pushing({ServerHdr.MsgBroadcast}, agreed, <<nobody>>, said)
        \/ Pushing(Handlers.PoliteQuit, agreed, <<[e |-> "Disconnecting", text |-> text]>>,
                   said)

TellPushed ==
  Idle /\ \E uid \in Words, name \in Names, color \in Options(Far) :
    LET who == [Member(uid, color, name) EXCEPT !.status = None]
        cid == Field(tag.CHAT_ID, Wide(Chat, 4))
        named == <<Field(tag.UID, Wide(uid, 2)), Field(tag.NAME, Ended(name)), cid>>
    IN  \/ Pushing(Handlers.UserChange, FALSE,
              <<[e |-> "UserChanged", cid |-> Chat, user |-> who]>>,
              named \o <<Field(tag.ICON, <<0, 3>>)>> \o Opt(mediaTag.COLOR, In(color, 4)))
        \/ Pushing(Handlers.ChatInvite, FALSE,
              <<[e |-> "ChatInvite", cid |-> Chat, uid |-> uid, name |-> name]>>, named)
        \/ Pushing(Handlers.ChatSubject, FALSE,
              <<[e |-> "ChatSubject", cid |-> Chat, subject |-> name]>>,
              <<Field(tag.CHAT_SUBJECT, Ended(name)), cid>>)
        \/ Pushing(Handlers.UserPart, FALSE,
              <<[e |-> "UserLeft", cid |-> Chat, uid |-> uid]>>, named)
        \/ Pushing(Handlers.UserSelfInfo, FALSE,
              <<[e |-> "SelfInfo", uid |-> Some(uid), icon |-> Some(<<3>>), access |-> None,
                 color |-> color]>>,
              <<Field(tag.USER_LIST, UserLine(uid, None, name))>>
                \o Opt(mediaTag.COLOR, In(color, 4)))
        \/ Pushing(Handlers.NewsPost, FALSE,
              <<[e |-> "NewsPosted", text |-> name], [e |-> "NewsPosted", text |-> Name]>>,
              <<Field(peerTag.NEWS, name), Field(peerTag.NEWS, Name)>>)
        \/ Pushing(Handlers.XferQueue, FALSE,
              <<[e |-> "TransferQueued", reference |-> Chat, queue |-> uid]>>,
              <<Field(tag.HTXF_REF, Wide(Chat, 4)), Field(tag.QUEUE, Wide(uid, 2))>>)

\* The server's capabilities, of which the client offered two; and what Get
\* Info says of a file with a long name and comment.
Offered == {E!cap.VOICE, E!cap.MESSAGING}
TellGreeting ==
  Idle /\ \E bits \in SUBSET {E!cap.LARGE_FILES, E!cap.MESSAGING, E!cap.VIDEO} :
    LET n == Value(<<IF E!cap.VIDEO \in bits THEN 4 ELSE 0,
                     (IF E!cap.LARGE_FILES \in bits THEN 1 ELSE 0)
                       + IF E!cap.MESSAGING \in bits THEN 64 ELSE 0>>)
    IN  TellFields("greeting", bits \cap Offered,
          <<Field(tag.VERSION, <<0, 185>>), Field(tag.CAPABILITIES, CapabilitiesEncode(n))>>)
TellInfo ==
  Idle /\ \E text \in {text \in Strings : \A i \in DOMAIN text : text[i] # 13} :
    TellFields("FileInfo", text,
      <<Field(tag.FILE_NAME, AsBytes(text)), Field(tag.FILE_COMMENT, AsBytes(text))>>)

-----------------------------------------------------------------------------
(* On the way.                                                               *)

Here == told[1]

\* The forms that are whole messages, of which the strict ones must be whole.
Strict == {"roster", "entry", "requests", "presented", "friendships"}
Messages ==
  Strict \cup
  {"login", "chat", "subject", "invite", "msg", "change", "account", "info", "self",
   "thread", "folders", "about", "put", "picture", "part", "limits", "room", "streams",
   "icons", "bounds", "promise", "offer", "changed", "agreement", "banner", "error",
   "queue", "left", "board", "posts", "folder", "accepted", "fetch", "uploaded", "token",
   "refusal", "icon", "redrawn", "pushed", "pictured", "greeting"} \cup Replies
Converted == {"roman", "shortcodes", "sdp", "date", "routed"}

\* The message with other fields.
Repacked(fields) ==
  LET header == HeaderOf(Here.bytes)[1]
  IN  PackMessage(65535, header.type, header.trans, header.flag, fields)

\* A field nobody knows, between two of the message's, but not before the
\* companion that belongs to what it follows.
Extra ==
  /\ told # None /\ harm = "none" /\ Here.as \in Messages
  /\ LET fields == Chunks(Here.bytes)
         Companions == {E!FILE_SIZE_64, E!FOLDER_ITEMS_64}
     IN  \E k \in 1 .. Len(fields) + 1 :
           /\ k <= Len(fields) => fields[k].tag \notin Companions
           /\ wire' = Repacked(InsertAt(fields, k, Field(Unknown, <<1, 2, 3>>)))
  /\ harm' = "extra"
  /\ UNCHANGED <<asked, told>>

\* One of the fields in groups comes a second time, or at another place.
Disordered ==
  /\ told # None /\ harm = "none" /\ Here.as \in Strict
  /\ LET fields == Chunks(Here.bytes)
     IN  \E k \in DOMAIN fields :
           \E others \in {fields, RemoveAt(fields, k)} : \E j \in 1 .. Len(others) + 1 :
             wire' = Repacked(InsertAt(others, j, fields[k]))
  /\ harm' = "disordered"
  /\ UNCHANGED <<asked, told>>

\* The end is lost.
CutShort ==
  /\ told # None /\ harm = "none" /\ Here.as \notin Converted
  /\ \E n \in 0 .. Len(Here.bytes) - 1 : wire' = Some(Cut(Here.bytes, n))
  /\ harm' = "cut"
  /\ UNCHANGED <<asked, told>>

Again ==
  /\ ~Idle
  /\ asked' = None /\ told' = None /\ wire' = None /\ harm' = "none"

Next ==
  \/ AskChat \/ AskUser \/ AskNews \/ AskFile \/ AskMedia \/ AskCall
  \/ AskFriend \/ AskIm \/ AskProfile
  \/ TellLogin \/ TellPush \/ TellReply \/ TellChat \/ TellUser \/ TellNews
  \/ TellFile \/ TellMedia
  \/ TellFriend \/ TellTracker \/ TellTransfer \/ TellSize \/ TellText \/ TellCall
  \/ TellMore
  \/ TellListed \/ TellPast \/ TellFiles \/ TellAnswer \/ TellNewsEvent \/ TellSpoken
  \/ TellPushed \/ TellGreeting \/ TellInfo
  \/ Extra \/ CutShort \/ Disordered \/ Again

Spec == Init /\ [][Next]_vars

-----------------------------------------------------------------------------
(* Reading.                                                                  *)

\* The most a caller takes of each text.
Room == 16

OkOr(result) == IF result.ok THEN Some(result) ELSE None
ValueOf(result) == IF result.ok THEN Some(result.value) ELSE None
Without(record, names) == [x \in DOMAIN record \ names |-> record[x]]

\* Of a message, read from its fields.
ReadFields(as, fields) ==
  CASE as = "login"   -> parse_login(fields, Room)
    [] as = "self"    -> parse_selfinfo(fields)
    [] as = "chat"    -> parse_chat(fields, Room)
    [] as = "subject" -> parse_chat_subject(fields, Room)
    [] as = "invite"  -> parse_chat_invite(fields, Room)
    [] as = "msg"     -> parse_msg(fields, Room, Room)
    [] as = "change"  -> parse_user_change(fields, Room)
    [] as = "changed" ->
         LET r == resolve(parse_user_change(fields, Room), Some(Was), <<1>>, None)
         IN  [eff_color |-> r.eff_color, eff_nick_color |-> r.eff_nick_color,
              is_self |-> r.is_self, do_rename_notice |-> r.do_rename_notice]
    [] as = "account" -> parse_account_read(fields, Room, Room, Room)
    [] as = "info"    -> parse_user_info(fields, Room, Room)
    [] as = "thread"  -> parse_news_thread_reply(fields, Room)
    [] as = "folders" -> parse_dirlist(fields)
    [] as = "about"   -> parse_file_getinfo(fields, Room, Room, Room, Room)
    [] as = "put"     -> parse_file_put_reply(fields)
    [] as = "picture" -> extract_chat_media_meta(fields).meta
    [] as = "part"    -> Or(parse_download_reply(fields), <<>>)
    [] as = "limits"  -> extract_limits(fields)
    [] as = "room"    -> parse_voice_participants(
                           Or(parse_voice_reply(fields).participants, <<>>))
    [] as = "streams" -> parse_video_publishers(
                           Or(parse_video_reply(fields).publishers, <<>>))
    [] as = "icons"   -> parse_icon_list(fields)
    [] as = "agreement" -> parse_agreement(fields, Room)
    [] as = "banner"  -> parse_banner(fields, Room)
    [] as = "error"   -> parse_task_error(fields, Room)
    [] as = "queue"   -> parse_xfer_queue(fields)
    [] as = "left"    -> parse_user_part(fields)
    [] as = "board"   -> parse_news_file(fields, Room)
    [] as = "posts"   -> news_post_chunks(fields, Room)
    [] as = "folder"  -> parse_folder_get_reply(fields)
    [] as = "accepted" -> parse_folder_put_reply(fields)
    [] as = "fetch"   -> parse_banner_get_reply(fields)
    [] as = "uploaded" -> parse_upload_final_reply(fields)
    [] as = "token"   -> parse_upload_token_reply(fields)
    [] as = "refusal" -> extract_error_code(fields)
    [] as = "icon"    -> parse_icon_get_reply(fields)
    [] as = "redrawn" -> parse_icon_change(fields)
    [] as = "bounds"  -> LET limits == P!ExtractLimits(fields)
                         IN  [k \in DOMAIN limits |-> P!LimitOf(limits, k)]
    [] as = "promise" -> LET r == parse_file_get_reply(fields)
                         IN  Or(r.size64, r.size)
    [] as = "greeting" -> E!ServerInfo(fields, Offered).caps
    [] as \in Replies -> E!Replied(as, Chat, fields)
    [] as = "offer"   -> Or(Size64Of(fields, newsTag.XFERSIZE64),
                            U32(fields, tag.HTXF_SIZE))

Registered(packet) ==
  LET r == T!parse(packet)
      mac == T!hmac_input(packet)
      Signed(f) == f.tag # T!id.HMAC_SHA256
  IN  Map(r, LAMBDA p :
            [of |-> Without(p.registration, {"none", "version", "reserved"}),
             fields |-> Map(p.fields, LAMBDA fs : SelectSeq(fs, Signed)),
             signed |-> mac # None /\ Hashed(mac[1].input) = mac[1].mac])

Object(prefix) ==
  LET block == X!info_block_len(prefix[39], prefix[40])
  IN  IF Len(prefix) < 40 THEN None
      ELSE IF ~X!parse_fork_header(Slice(prefix, 24, 16), TRUE).ok \/ ~block.ok THEN None
      ELSE IF Len(prefix) < 40 + block.len THEN None
      ELSE OkOr(X!parse_filp_info(Slice(prefix, 40, block.len), TRUE))

\* Of the other forms; None where the reader refuses.
ReadBytes(as, b) ==
  CASE as = "history"    -> Map(parse_history_entry(b), LAMBDA e :
                                  Without(e, {"none", "nick_len", "msg_len"}))
    [] as = "listed"     -> parse_user_list_record(b, Room)
    [] as = "articles"   -> Map(parse_catlist(<<Field(tag.CATLIST, b)>>), LAMBDA posts :
                              [i \in DOMAIN posts |->
                                 [post |-> Without(posts[i].post, {"none"}),
                                  parts |-> [j \in DOMAIN posts[i].parts |->
                                    Without(posts[i].parts[j], {"none"})],
                                  size_total |-> posts[i].size_total]])
    [] as = "category"   -> parse_news_categoryitem(b, Room)
    [] as = "file"       -> Map(parse_file_list_entry(b, 0), LAMBDA r :
                                  [r EXCEPT !.entry = Without(@, {"none"})])
    [] as = "watched"    -> Some(parse_video_subscriptions(b))
    [] as = "offsets"    -> Some(X!rflt_parse_compatible(b))
    [] as = "registered" -> Registered(b)
    [] as = "meta"       -> IF Len(b) < 2 THEN None
                            ELSE T!decode(Rest(b, 2), Size(U16In(b, 0)))
    [] as = "ack"        -> OkOr(T!parse_ack(b))
    [] as = "server"     -> T!parse_tracker_v3_record(b, 0)
    [] as = "welcome"    -> T!parse_tracker_v3_handshake_response(b)
    [] as = "servers"    -> T!parse_tracker_header(b)
    [] as = "page"       -> T!parse_tracker_v3_response_header(b)
    [] as = "fixed"      -> T!parse_tracker_record_fixed(b)
    [] as = "item"       -> LET r == X!Item_parse(b) IN IF r.ok THEN Some(r.item) ELSE None
    [] as = "object"     -> Object(b)
    [] as = "preamble"   -> LET r == X!Preamble_parse(b)
                            IN  IF r.ok THEN Some(r.preamble.len) ELSE None
    [] as \in {"fork", "largeFork"} ->
         LET r == X!parse_fork_header(b, as = "largeFork")
         IN  IF r.ok THEN Some(r.length) ELSE None
    [] as = "candidate"  -> I!parse(b)
    [] as = "roster"     -> ValueOf(P!parse_roster(b))
    [] as = "entry"      -> ValueOf(P!parse_entry(b))
    [] as = "requests"   -> ValueOf(P!parse_message_requests(b))
    [] as = "presented"  -> ValueOf(P!parse_present_friendships(b))
    [] as = "friendships" -> ValueOf(P!parse_friendships(b))
    [] as = "date"       -> Some(parse_hl_date(b))
    [] as \in {"pushed", "pictured"} ->
         Map(HeaderOf(b), LAMBDA h :
               E!Pushed(Size(h.type), Chunks(b),
                        IF as = "pictured" THEN {E!cap.INLINE_MEDIA} ELSE {}))
    [] as = "routed"     -> Map(HeaderOf(b), LAMBDA h : route(Size(h.type)))
    [] OTHER             -> Some(ReadFields(as, Chunks(b)))

Got == ReadBytes(Here.as, wire[1])

-----------------------------------------------------------------------------
(* Properties.                                                               *)

\* A request goes out whenever its builder's own checks allow it, for the room
\* that request.rs gives a builder is enough; and what goes out reads back as
\* the fields that were given, in their order, each number from scratch memory
\* that no other was written over, under a header that counts them.
BuiltAsGiven ==
  asked # None =>
    LET r == asked[1]
        puts == r.b.puts
        fields == Chunks(wire[1])
        header == HeaderOf(wire[1])[1]
    IN  /\ r.b.legal /\ ~TooLong(r.b) => wire # None
        /\ wire # None =>
             /\ Len(fields) = Len(puts)
             /\ \A i \in DOMAIN puts :
                  /\ fields[i].tag = puts[i].tag
                  /\ fields[i].data = IF puts[i].number
                                      THEN Wide(puts[i].value, puts[i].width)
                                      ELSE puts[i].value
             /\ header.type = Num(r.type) /\ header.trans = Trans
             /\ Size(header.hc) = Len(puts)
             /\ HeaderLen + BodyLen(header, 65535) = Len(wire[1])

\* What is told is what is read, in every form, whatever its numbers and
\* however many of its optional parts are there; and a field nobody knows
\* changes none of it, wherever a newer peer puts it.
ReadsBack ==
  /\ told # None /\ harm \in {"none", "extra"}
  /\ Here.as \notin {"roman", "shortcodes", "sdp", "FileInfo"}
  => Got = Some(Here.value)

\* The tags at which a group begins, and those read before the first group and
\* in one; any other is nobody's there.  Those read nowhere but in a group are
\* refused before it in what is asked, and ignored in the rest.
Heads ==
  [roster |-> {peerTag.FRIEND_LOGIN}, entry |-> {},
   requests |-> {peerTag.FRIEND_LOGIN, peerTag.MESSAGE_GUID},
   presented |-> {peerTag.FRIENDSHIP_HASH},
   friendships |-> {peerTag.FRIENDSHIP_HASH, peerTag.FRIEND_IDENTITY}]
ReadBefore ==
  [roster |-> {peerTag.REASON_CODE}, entry |-> P!EntryTags \cup {peerTag.FRIEND_LOGIN},
   requests |-> {peerTag.TAKES_REQUESTS, peerTag.REQUEST_COUNT, peerTag.REQUEST_CURSOR}
                  \cup P!SenderTags \cup P!MessageTags,
   presented |-> {}, friendships |-> {}]
ReadWithin ==
  [roster |-> P!EntryTags, entry |-> {},
   requests |-> P!SenderTags \cup P!MessageTags,
   presented |-> {peerTag.REASON_CODE, peerTag.FRIEND_WITHDRAW},
   friendships |-> {peerTag.FRIENDSHIP, peerTag.IDENTITY_ROTATION}]

\* What each group has of each tag that is read there, in order.
Standing(as, fields) ==
  LET Group(i) == Cardinality({j \in 1 .. i : fields[j].tag \in Heads[as]})
      Place(i) == <<Group(i), fields[i].tag>>
      known == {i \in DOMAIN fields :
                  fields[i].tag \in Heads[as] \cup IF Group(i) = 0 THEN ReadBefore[as]
                                                   ELSE ReadWithin[as]}
  IN  [place \in {Place(i) : i \in known} |->
         LET here == SetToSortSeq({i \in known : Place(i) = place}, <)
         IN  [k \in DOMAIN here |-> fields[here[k]].data]]

\* What may be read of a value whose bytes were cut, or are in disorder.
WholeParts(v, got) ==
  CASE Here.as \in Strict ->
         LET fields == Chunks(wire[1])
         IN  got # None =>
               /\ PackMessageSize(fields) = Len(wire[1])
               /\ Standing(Here.as, Written(Here.as, got[1])) = Standing(Here.as, fields)
    [] Here.as \in Messages \ Strict -> IsPrefix(Chunks(wire[1]), Chunks(Here.bytes))
    [] Here.as = "offsets" -> /\ got[1].data \in {<<>>, v.data}
                              /\ got[1].resource \in {<<>>, v.resource}
    [] Here.as = "watched" -> IsPrefix(got[1], v)
    [] Here.as = "listed" ->
         got # None => /\ IsPrefix(got[1].name, v.name)
                       /\ got[1].nick_color \in {None, v.nick_color}
    [] Here.as = "registered" ->
         got # None => /\ got[1].of.name \in {<<>>, v.of.name}
                       /\ got[1].of.description \in {<<>>, v.of.description}
                       /\ got[1].of.password \in {<<>>, v.of.password}
                       /\ got[1].fields = None /\ ~got[1].signed
    [] Here.as = "welcome" -> got \in {None, Some(v), Some([v EXCEPT !.features = <<>>])}
    [] OTHER -> got \in {None, Some(v)}
\* Of what lost its end nothing is read that was not told: a message's fields
\* are read whole or not at all, and any form but a message is refused or, where
\* a part of it may be missing, read with that part missing whole.  A message in
\* groups is refused where it ends within a field; and if one is read that lost
\* its end, or has a field twice or out of its place, then what is read of it is
\* what stands in each of its groups, all of that and nothing of another group,
\* so that no friend, request or friendship is made of parts of two, and none
\* shows one of two values that contradict each other.
NothingHalfRead ==
  told # None /\ harm \in {"cut", "disordered"} => WholeParts(Here.value, Got)

U32Of(bytes, from) == Value(Slice(bytes, from, 4))

\* No size is told by its low 32 bits.  A peer that reads only those is told
\* the largest of them for an upload that is larger, and nothing in a transfer's
\* preamble, whose flags then promise the size behind the head; a fork that they
\* cannot measure says so in the word that was zero.  A size that 32 bits hold
\* is there for both.
SizesWhole ==
  told # None /\ harm # "cut" =>
    LET bytes == wire[1]
        v == Here.value
    IN  CASE Here.as = "offer" -> U32(Chunks(bytes), tag.HTXF_SIZE) = AtMost(v, U32Max)
          [] Here.as = "preamble" ->
               IF X!FLAG_SIZE64 \in X!FlagSet(bytes[16])
               THEN U32Of(bytes, 8) = <<>> /\ Value(Slice(bytes, 16, 8)) = v
               ELSE U32Of(bytes, 8) = v
          [] Here.as \in {"fork", "largeFork"} ->
               IF Len(v) > 4 THEN U32Of(bytes, 4) # <<>> ELSE U32Of(bytes, 12) = v
          [] OTHER -> TRUE

\* A line break of either kind shows as a line feed.
Shown(text) ==
  LET kept == SelectSeq([i \in DOMAIN text |-> i],
                        LAMBDA i : text[i] # 10 \/ i = 1 \/ text[i - 1] # 13)
  IN  [k \in DOMAIN kept |-> IF text[kept[k]] = 13 THEN 10 ELSE text[kept[k]]]

\* What one client says another shows: in UTF-8 always, in Mac Roman unless the
\* bytes happen to be UTF-8; a text comes back from its shortcodes as it was,
\* if it held none and no color code; no cut leaves half a character; and of a
\* long name or comment Get Info shows the beginning, all but a character that
\* its cut went through.
TextKept ==
  /\ told # None /\ Here.as \in {"roman", "shortcodes"} =>
       LET v == Here.value
           bytes == wire[1]
       IN  /\ Here.as = "roman" =>
                \/ E!text_in(Line(bytes, Len(bytes))) = Shown(v)
                \/ IsUtf8(bytes) /\ \E i \in DOMAIN bytes : bytes[i] > 127
           /\ Here.as = "shortcodes"
                /\ (\A i \in DOMAIN v : v[i] \notin {Colon, MIRC_COLOR}) =>
                shortcodes_to_emoji(Lossy(bytes)) = v
           /\ \A room \in 1 .. Len(AsBytes(v)) :
                /\ IsUtf8(to_utf8_into(bytes, room))
                /\ IsUtf8(emoji_to_shortcodes_into(AsBytes(v), room).out)
                /\ IsUtf8(shortcodes_to_emoji_into(bytes, room).out)
  /\ told # None /\ harm # "cut" /\ Here.as = "FileInfo" =>
       \A text \in {Got[1][1].info.name, Got[1][1].info.comment} :
         /\ IsPrefix(text, Here.value)
         /\ Len(AsBytes(text)) + 4 > Least(INFO_TEXT_CAP, Len(AsBytes(Here.value)))

\* A description has the codec of a medium exactly if it has an open section of
\* it and each of them names that codec among its own lines, up to the next
\* section of whatever kind; a label is listed once for each line it is on.
SectionsMapped ==
  told # None /\ Here.as = "sdp" =>
    LET lines == wire[1]
        s == I!summarize(lines)
        Open(media) == {i \in DOMAIN lines : lines[i].line = "m"
                          /\ lines[i].media = media /\ ~lines[i].closed}
        End(i) == Min({j \in i + 1 .. Len(lines) : lines[j].line = "m"}
                        \cup {Len(lines) + 1})
        Has(media) ==
          /\ Open(media) # {}
          /\ \A i \in Open(media) :
               \E j \in i + 1 .. End(i) - 1 : lines[j] = I!Rtpmap(media)
    IN  /\ s.has_pcmu = Has("audio")
        /\ s.has_vp8 = Has("video")
        /\ Len(s.mids) + Len(s.unknown_mids)
             = Cardinality({i \in DOMAIN lines : lines[i].line = "mid"})
=============================================================================
