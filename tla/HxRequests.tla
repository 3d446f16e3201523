----------------------------- MODULE HxRequests -----------------------------
(* The requests of hxsession's request.rs: the type of each, the builder it  *)
(* calls and the room it gives that builder, and the message it packs into.  *)
(*                                                                           *)
(* A text is here what the session has already put into the server's         *)
(* encoding; a path is the sequence of its components.                       *)
EXTENDS HxMedia

CONSTANTS
  MaxComponent,     \* u8::MAX, the longest component of a path
  MaxCredential     \* MAX_CREDENTIAL, what is sent of a login or a password

ASSUME MaxComponentAssumption == MaxComponent \in 1 .. 255
ASSUME MaxCredentialAssumption == MaxCredential \in Nat \ {0}

\* A call of a builder with so many chunks and so much scratch memory.
From(type, b, chunks, scratch) ==
  [type |-> type, b |-> b, chunks |-> chunks, scratch |-> scratch]

\* A request put together field by field, which needs no room.
Direct(type, puts) == From(type, Exactly(0, puts), Len(puts), 0)

\* One whose path could not be encoded: no request.
Refused(type) ==
  From(type, [Builder(0, 0, <<>>) EXCEPT !.legal = FALSE], 0, 0)

FieldsOf(r) == Built(r.b, r.chunks, r.scratch)

\* Request::pack: a buffer of exactly the message's size.
Pack(fields, type, trans) ==
  PackMessage(PackMessageSize(fields), Num(type), trans, <<>>, fields)

-----------------------------------------------------------------------------
(* Paths.                                                                    *)

\* A path's components without the empty ones, counted, each behind two zero
\* bytes and its length; None when one is too long, or all of them together.
path(components) ==
  LET parts == SelectSeq(components, LAMBDA p : p # <<>>)
      out == Wide(Num(Len(parts)), 2)
               \o FlattenSeq([i \in DOMAIN parts |->
                                <<0, 0, Len(parts[i])>> \o parts[i]])
  IN  IF \/ \E i \in DOMAIN parts : Len(parts[i]) > MaxComponent
         \/ Len(out) > MaxField
      THEN None ELSE Some(out)

\* The root of the files is said by no folder at all.
dir_below_root(components) ==
  IF \A i \in DOMAIN components : components[i] = <<>> THEN Some(None)
  ELSE Map(path(components), Some)

WithPath(type, encoded, Req(_)) ==
  IF encoded = None THEN Refused(type) ELSE Req(encoded[1])

-----------------------------------------------------------------------------
(* Logging in, users and accounts.                                           *)

obfuscate(text) == Flip(text)

login(name, password, icon, version, caps) ==
  Direct(ClientHdr.Login,
    Text(tag.LOGIN, obfuscate(Cut(name, MaxCredential)))
      \o When(password # <<>>,
              Text(tag.PASSWORD, obfuscate(Cut(password, MaxCredential))))
      \o When(icon # <<>>, Text(tag.ICON, Wide(icon, 2)))
      \o When(version # <<>>, Text(tag.VERSION, Wide(version, 2)))
      \o When(caps # <<>>, Text(tag.CAPABILITIES, CapabilitiesEncode(caps))))

agree(name, icon) ==
  From(ClientHdr.AgreementAgree, build_agreement_agree_chunks(icon, name, <<>>),
       3, 4)

user_change(name, icon) ==
  From(ClientHdr.UserChange, build_user_change_chunks(icon, name, None), 3, 6)

user_info(uid) == From(ClientHdr.UserGetInfo, build_user_getinfo_chunks(uid), 1, 2)

kick(uid, ban) ==
  From(ClientHdr.UserKick,
       build_user_kick_chunks(uid, IF ban THEN <<1>> ELSE <<>>), 2, 4)

broadcast(body) == From(ClientHdr.MsgBroadcast, build_broadcast_chunks(body), 1, 0)

account_read(name) ==
  From(ClientHdr.AccountRead, build_account_read_chunks(name), 1, 0)

\* Creating and changing an account; an empty password is one zero byte.
account(type, name, password, nick, access) ==
  From(type, build_account_modify_chunks(
               obfuscate(name),
               IF password = <<>> THEN <<0>> ELSE obfuscate(password),
               nick, access), 4, 8)

account_delete(name) ==
  From(ClientHdr.AccountDelete, build_account_read_chunks(obfuscate(name)), 1, 0)

-----------------------------------------------------------------------------
(* Chat and messages.                                                        *)

chat(body, cid, style) ==
  From(ClientHdr.Chat, build_chat_chunks(cid, style, body), 3, 6)
chat_create(uid) == From(ClientHdr.ChatCreate, build_chat_create_chunks(uid), 1, 2)
chat_invite(cid, uid) ==
  From(ClientHdr.ChatInvite, build_chat_invite_chunks(cid, uid), 2, 6)
chat_id_only(type, cid) == From(type, build_chat_id_only_chunks(cid), 1, 4)
chat_subject(cid, subject) ==
  From(ClientHdr.ChatSubject, build_chat_subject_chunks(cid, subject), 2, 4)
chat_history(cid, before, after, limit) ==
  From(ClientHdr.GetChatHistory,
       build_get_chat_history_chunks(cid, before, after, limit), 4, 22)
msg(uid, body) == From(ClientHdr.Msg, build_msg_chunks(uid, body), 2, 2)

-----------------------------------------------------------------------------
(* News.                                                                     *)

\* "text/plain".
PlainText == <<116, 101, 120, 116, 47, 112, 108, 97, 105, 110>>

news_post(body) == From(ClientHdr.NewsPost, build_news_post_chunks(body), 1, 0)

\* Listing news; the root is said by no path.
news_list(type, components) ==
  IF components = <<>> THEN Direct(type, <<>>)
  ELSE WithPath(type, path(components), LAMBDA p :
                  Direct(type, Text(newsTag.NEWSPATH, p)))

news_part(components, id, mime) ==
  WithPath(ClientHdr.GetThread, path(components), LAMBDA p :
    From(ClientHdr.GetThread, build_news_getthread_chunks(p, id, mime), 3, 4))

news_article(components, id) == news_part(components, id, PlainText)

news_post_article(components, parent, subject, text) ==
  WithPath(ClientHdr.PostThread, path(components), LAMBDA p :
    From(ClientHdr.PostThread,
         build_news_post_thread_chunks(p, <<>>, PlainText, subject, text, parent),
         6, 8))

news_delete_article(components, id) ==
  WithPath(ClientHdr.DeleteThread, path(components), LAMBDA p :
    From(ClientHdr.DeleteThread, build_news_delete_thread_chunks(p, id), 2, 4))

news_delete(components) ==
  WithPath(ClientHdr.NewsDelete, path(components), LAMBDA p :
    From(ClientHdr.NewsDelete, build_newspath_only_chunks(p), 1, 0))

news_create_bundle(components, name) ==
  WithPath(ClientHdr.NewsMkdir, path(components), LAMBDA p :
    From(ClientHdr.NewsMkdir, build_news_mkdir_chunks(p, name), 2, 0))

news_create_category(components, name) ==
  WithPath(ClientHdr.NewsMkCategory, path(components), LAMBDA p :
    From(ClientHdr.NewsMkCategory, build_news_mkcat_chunks(p, name), 2, 0))

-----------------------------------------------------------------------------
(* Files and transfers.                                                      *)

file_list(components) ==
  WithPath(ClientHdr.FileList, path(components), LAMBDA p :
    From(ClientHdr.FileList, build_file_mkdir_chunks(p), 1, 0))

file_info(components, name) ==
  WithPath(ClientHdr.FileGetInfo, dir_below_root(components), LAMBDA dir :
    From(ClientHdr.FileGetInfo,
         build_file_name_with_optional_dir_chunks(name, dir), 2, 0))

\* The folder's own name is the last component.
file_mkdir(components, name) ==
  WithPath(ClientHdr.FileMkdir, path(Append(components, name)), LAMBDA p :
    From(ClientHdr.FileMkdir, build_file_mkdir_chunks(p), 1, 0))

file_delete(components, name) ==
  WithPath(ClientHdr.FileDelete, path(components), LAMBDA p :
    From(ClientHdr.FileDelete,
         build_file_name_with_optional_dir_chunks(name, Some(p)), 2, 0))

\* A name that does not change is not sent as a new one.
file_set_info(components, name, rename, comment) ==
  WithPath(ClientHdr.FileSetInfo, path(components), LAMBDA p :
    From(ClientHdr.FileSetInfo,
         build_file_setinfo_chunks(
           name, IF rename = Some(name) THEN None ELSE rename, comment, Some(p)),
         4, 0))

file_move(components, name, to) ==
  WithPath(ClientHdr.FileMove, path(components), LAMBDA p :
    WithPath(ClientHdr.FileMove, path(to), LAMBDA q :
      From(ClientHdr.FileMove, build_file_move_chunks(name, p, q), 3, 0)))

file_download(components, name) ==
  WithPath(ClientHdr.FileGet, dir_below_root(components), LAMBDA dir :
    From(ClientHdr.FileGet, build_file_get_chunks(name, dir, None), 3, 0))

\* Mutant: a size past 32 bits is cut to them.
MutFileUpload(components, name, size, large) ==
  WithPath(ClientHdr.FilePut, dir_below_root(components), LAMBDA dir :
    From(ClientHdr.FilePut,
         build_file_put_chunks(name, dir, FALSE, Value(Wide(size, 4)),
                               IF large THEN Some(size) ELSE None), 5, 12))

\* A size past 32 bits is sent as the largest one, and whole beside it when
\* the server takes large files.
file_upload(components, name, size, large) ==
  WithPath(ClientHdr.FilePut, dir_below_root(components), LAMBDA dir :
    From(ClientHdr.FilePut,
         build_file_put_chunks(name, dir, FALSE, AtMost(size, U32Max),
                               IF large THEN Some(size) ELSE None), 5, 12))

folder_download(components, name) ==
  WithPath(ClientHdr.FileGetFolder, dir_below_root(components), LAMBDA dir :
    From(ClientHdr.FileGetFolder,
         build_file_name_with_optional_dir_chunks(name, dir), 2, 0))

folder_upload(components, name, size, items) ==
  WithPath(ClientHdr.FilePutFolder, dir_below_root(components), LAMBDA dir :
    From(ClientHdr.FilePutFolder,
         build_file_putfolder_chunks(name, dir, FALSE, AtMost(size, U32Max),
                                     items), 4, 8))

banner == Direct(ClientHdr.DownloadBanner, <<>>)

-----------------------------------------------------------------------------
(* Icons, media, voice and video.                                            *)

icon_list == Direct(ClientHdr.IconGetList, <<>>)
icon(uid) == From(ClientHdr.IconGet, build_icon_get_chunks(uid), 1, 2)
icon_set(gif) == From(ClientHdr.IconSet, build_icon_set_chunks(gif), 1, 0)

media_upload(payload, mime) ==
  From(ClientHdr.UploadMedia, build_upload_media_single_chunks(payload, mime), 3, 1)
media_upload_first(payload, mime, parts) ==
  From(ClientHdr.UploadMedia,
       build_upload_media_first_chunks(payload, mime, parts), 5, 5)
media_upload_next(token, payload, index, last) ==
  From(ClientHdr.UploadMedia,
       build_upload_media_followup_chunks(token, payload, index, last), 4, 3)
media_download(id, part) ==
  From(ClientHdr.DownloadMedia, build_download_media_chunks(id, part), 2, 2)

voice_join(cid) == From(ClientHdr.VoiceJoin, build_chat_id_only(cid), 1, 4)
voice_leave(cid) == From(ClientHdr.VoiceLeave, build_chat_id_only(cid), 1, 4)
voice_answer(cid, sdp) ==
  From(ClientHdr.VoiceSdpAnswer, build_voice_answer_chunks(cid, sdp), 2, 4)
voice_ice(cid, ice) ==
  From(ClientHdr.VoiceIce, build_voice_ice_chunks(cid, ice), 2, 4)
voice_mute(cid, muted) ==
  From(ClientHdr.VoiceMute,
       build_voice_mute_chunks(cid, IF muted THEN <<1>> ELSE <<>>), 2, 6)

video_start(cid, kind) ==
  From(ClientHdr.VideoStart, build_video_start_chunks(cid, kind), 2, 6)
video_stop(cid, kind) ==
  From(ClientHdr.VideoStop, build_video_stop_chunks(cid, kind), 2, 6)
video_state(cid, kind, paused) ==
  From(ClientHdr.VideoState, build_video_state_chunks(cid, kind, paused), 3, 8)
video_subscribe(cid, streams) ==
  From(ClientHdr.VideoSubscribe, build_video_subscribe_chunks(cid, streams),
       2, video_subscribe_scratch_len(Len(streams)))
=============================================================================
