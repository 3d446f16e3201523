------------------------------ MODULE HxReplies ------------------------------
(* The readers of hxproto's parse.rs: what a client keeps of a reply or a    *)
(* push.  A reader is given the message's fields, as ChunkIter finds them,   *)
(* and the most it may keep of each text (`most`, by the text's name).  It   *)
(* skips a field it does not know, and keeps its default for one that is     *)
(* missing; where the code has a flag beside a value, here is an Option.     *)
EXTENDS HxMedia

\* chunk.as_uint() of a tag's last field, and its low 16 bits.
U32(fields, t) == AsUint(Or(LastIn(fields, t), <<>>))
U16(fields, t) == Value(Wide(U32(fields, t), 2))

TextOf(fields, t, most) == Cut(Or(LastIn(fields, t), <<>>), most)
NameOf(fields, most) == StripAnsi(TextOf(fields, tag.NAME, most))
LineOf(fields, t, most) == Line(Or(LastIn(fields, t), <<>>), most)

\* The first bytes of a tag's last field that has so many.
LastHead(fields, t, n) ==
  Map(LastIn(SelectSeq(fields, LAMBDA f : Len(f.data) >= n), t),
      LAMBDA d : Cut(d, n))
HeadValue(fields, t, n) == Map(LastHead(fields, t, n), Value)

-----------------------------------------------------------------------------
(* Logging in.                                                               *)

\* The user's own record is a line of the user list.
CachedName == 31
parse_selfinfo(fields) ==
  LET list == LastIn(SelectSeq(fields, LAMBDA f : Len(f.data) >= 8),
                     tag.USER_LIST)
  IN  [access |-> Map(LastOf(fields, tag.ACCESS, 8), Value),
       user |-> Map(list, LAMBDA d :
                  [uid |-> U16In(d, 0), icon |-> U16In(d, 2),
                   name |-> Cut(Rest(d, 8), Least(Size(U16In(d, 6)), CachedName))]),
       nick_color |-> Map(LastOf(fields, mediaTag.COLOR, 4), AsUint)]

video_limits(fields, kind) ==
  LET ofKind == SelectSeq(fields, LAMBDA f :
        /\ f.tag = mediaTag.VIDEO_LIMITS
        /\ LimitsParse(f.data) # None
        /\ LimitsParse(f.data)[1].kind = kind)
  IN  IF ofKind = <<>> THEN None ELSE LimitsParse(ofKind[Len(ofKind)].data)

parse_login(fields, most) ==
  [uid |-> HeadValue(fields, tag.UID, 2),
   version |-> HeadValue(fields, tag.VERSION, 2),
   servername |-> IF most = 0 THEN None
                  ELSE Map(LastIn(fields, tag.SERVERNAME),
                           LAMBDA d : Line(d, most)),
   caps |-> Map(LastIn(fields, tag.CAPABILITIES), CapabilitiesDecode),
   media_max_bytes |-> HeadValue(fields, mediaTag.CHAT_MEDIA_MAX_BYTES, 4),
   media_max_dimension |->
     HeadValue(fields, mediaTag.CHAT_MEDIA_MAX_DIMENSION, 4),
   media_max_pixels |-> HeadValue(fields, mediaTag.CHAT_MEDIA_MAX_PIXELS, 4),
   media_chunk_size |-> HeadValue(fields, mediaTag.CHAT_MEDIA_CHUNK_SIZE, 4),
   media_max_frames |-> HeadValue(fields, mediaTag.CHAT_MEDIA_MAX_FRAMES, 4),
   media_max_duration_ms |->
     HeadValue(fields, mediaTag.CHAT_MEDIA_MAX_DURATION_MS, 4),
   history_max_msgs |-> HeadValue(fields, tag.HISTORY_MAX_MSGS, 4),
   history_max_days |-> HeadValue(fields, tag.HISTORY_MAX_DAYS, 4),
   video_camera |-> video_limits(fields, Camera),
   video_screen |-> video_limits(fields, Screen)]

\* The agreement: the first field that says there is none, or is its text.
parse_agreement(fields, most) ==
  LET said == SelectSeq(fields, LAMBDA f : f.tag \in {tag.NOAGREEMENT, tag.BODY})
  IN  IF said = <<>> THEN [result |-> "Missing", text |-> <<>>]
      ELSE IF said[1].tag = tag.NOAGREEMENT THEN [result |-> "None", text |-> <<>>]
      ELSE [result |-> "Ok", text |-> Line(said[1].data, most)]

parse_banner(fields, most) ==
  [type |-> LastOf(fields, tag.BANNER_TYPE, 4),
   url |-> Map(LastIn(fields, tag.BANNER_URL), LAMBDA d : Cut(d, most))]

parse_task_error(fields, most) ==
  Map(FirstIn(fields, tag.TASK_ERROR), LAMBDA d : Line(d, most))

-----------------------------------------------------------------------------
(* Chat and messages.                                                        *)

\* A line of chat comes with the line feed that ends the one before it.
parse_chat(fields, most) ==
  LET body == LineOf(fields, tag.BODY, most)
  IN  [cid |-> U32(fields, tag.CHAT_ID), uid |-> U16(fields, tag.UID),
       text |-> IF body # <<>> /\ Head(body) = 10 THEN Tail(body) ELSE body]

parse_chat_subject(fields, most) ==
  [cid |-> U32(fields, tag.CHAT_ID),
   subject |-> TextOf(fields, tag.CHAT_SUBJECT, most)]

parse_chat_invite(fields, most) ==
  [uid |-> U16(fields, tag.UID), cid |-> U32(fields, tag.CHAT_ID),
   name |-> NameOf(fields, most)]

parse_msg(fields, mostName, most) ==
  [uid |-> U16(fields, tag.UID), name |-> NameOf(fields, mostName),
   msg |-> LineOf(fields, tag.BODY, most)]

\* A past line of chat.  Subfields may follow it and are skipped.
HistoryLayout ==
  <<Uint("message_id", 8), Uint("timestamp", 8), Uint("flags", 2),
    Uint("icon_id", 2), Uint("nick_len", 2), Counted("nick", "nick_len"),
    Uint("msg_len", 2), Counted("message", "msg_len")>>
parse_history_entry(data) == ReadAll(data, HistoryLayout)

-----------------------------------------------------------------------------
(* Users and accounts.                                                       *)

\* A user of the list.  A name longer than the caller takes is cut, and the
\* color is then read from the middle of it.
parse_user_list_record(data, most) ==
  LET nlen == Least(Least(Size(U16In(data, 6)), Len(data) - 8), most)
  IN  IF Len(data) < 8 THEN None
      ELSE Some([uid |-> U16In(data, 0), icon |-> U16In(data, 2),
                 color |-> U16In(data, 4), name |-> StripAnsi(Slice(data, 8, nlen)),
                 nick_color |-> IF Len(data) < 8 + nlen + 4 THEN None
                                ELSE Some(Value(Slice(data, 8 + nlen, 4)))])

parse_user_part(fields) ==
  [uid |-> U16(fields, tag.UID), cid |-> U32(fields, tag.CHAT_ID)]

\* Without a color of 4 bytes the nickname has none.
parse_user_change(fields, most) ==
  [uid |-> U16(fields, tag.UID), icon |-> U16(fields, tag.ICON),
   color |-> IF LastIn(fields, tag.COLOUR) = None THEN None
             ELSE Some(U16(fields, tag.COLOUR)),
   nick_color |-> Map(LastOf(fields, mediaTag.COLOR, 4), AsUint),
   cid |-> U32(fields, tag.CHAT_ID), name |-> NameOf(fields, most)]

parse_user_info(fields, mostName, most) ==
  [name |-> NameOf(fields, mostName), info |-> LineOf(fields, tag.BODY, most)]

\* A password of one byte, or that begins with a zero byte, is none at all.
parse_account_read(fields, mostName, mostLogin, mostPass) ==
  LET pass == TextOf(fields, tag.PASSWORD, mostPass)
  IN  [name |-> TextOf(fields, tag.NAME, mostName),
       login |-> Flip(TextOf(fields, tag.LOGIN, mostLogin)),
       pass |-> IF Len(pass) > 1 /\ Head(pass) # 0 THEN Flip(pass) ELSE <<>>,
       access |-> LastHead(fields, tag.ACCESS, 8)]

-----------------------------------------------------------------------------
(* News.                                                                     *)

parse_news_file(fields, most) ==
  Map(FirstIn(fields, peerTag.NEWS), LAMBDA d : Line(d, most))

news_post_chunks(fields, most) ==
  LET posts == SelectSeq(fields, LAMBDA f : f.tag = peerTag.NEWS)
  IN  [i \in DOMAIN posts |-> Line(posts[i].data, most)]

\* An error ends the reading, and takes away the text read before it.
parse_news_thread_reply(fields, most) ==
  LET errors == {i \in DOMAIN fields : fields[i].tag = tag.TASK_ERROR}
      before == IF errors = {} THEN fields ELSE SubSeq(fields, 1, Min(errors) - 1)
  IN  [text |-> IF errors # {} THEN None
                ELSE Map(LastIn(before, newsTag.NEWSDATA),
                         LAMBDA d : Line(d, most)),
       thread_id |-> U32(before, newsTag.THREADID),
       has_task_error |-> errors # {}]

\* The articles of a category: a head, then as many posts as it counts, each
\* with as many parts as the post counts.  A count the bytes left could not
\* hold is refused before anything is read, and so is a post cut short.
CatHead == <<Uint("x0", 4), Uint("count", 4), Uint("x1", 2)>>
CatPost == <<Uint("postid", 4), Uint("base_year", 2), Uint("pad", 2),
             Uint("seconds", 4), Uint("parentid", 4), Uint("flags", 4),
             Uint("partcount", 2), PString("subject"), PString("sender")>>
CatPart == <<PString("mime_type"), Uint("size", 2)>>
MIN_POST_BYTES == 24
MIN_PART_BYTES == 3

\* So many records of a layout from `pos`, as [ok, pos, list]; Then(c) is what
\* a record's cursor becomes once what follows the layout is read.
Onward(all, c) ==
  IF ~all.ok \/ ~c.ok THEN [all EXCEPT !.ok = FALSE]
  ELSE [ok |-> TRUE, pos |-> c.pos, list |-> Append(all.list, c.got)]
Repeat(body, pos, count, layout, Then(_)) ==
  FoldLeft(LAMBDA all, i : Onward(all, Then(Read(body, all.pos, layout))),
           [ok |-> TRUE, pos |-> pos, list |-> <<>>], [i \in 1 .. count |-> i])

Enough(body, pos, n, least) == Size(n) <= (Len(body) - pos) \div least

Parts(c, parts) ==
  [pos |-> parts.pos, ok |-> parts.ok,
   got |-> [post |-> c.got, parts |-> parts.list,
            size_total |-> Num(FoldLeft(LAMBDA k, p : (k + Size(p.size)) % 65536, 0,
                                        parts.list))]]
WithParts(body, c) ==
  IF ~c.ok \/ ~Enough(body, c.pos, c.got.partcount, MIN_PART_BYTES)
  THEN [c EXCEPT !.ok = FALSE]
  ELSE Parts(c, Repeat(body, c.pos, Size(c.got.partcount), CatPart, LAMBDA p : p))

AllPosts(posts) == IF posts.ok THEN Some(posts.list) ELSE None
CatBody(body, head) ==
  IF ~head.ok THEN None
  ELSE IF head.got.count = <<>> THEN Some(<<>>)
  ELSE IF ~Enough(body, head.pos, head.got.count, MIN_POST_BYTES) THEN None
  ELSE AllPosts(Repeat(body, head.pos, Size(head.got.count), CatPost,
                    LAMBDA c : WithParts(body, c)))
parse_catlist_body(body) == CatBody(body, Read(body, 0, CatHead))

parse_catlist(fields) ==
  LET first == FirstIn(fields, tag.CATLIST)
  IN  IF first = None THEN None ELSE parse_catlist_body(first[1])

\* A bundle or a category of a news listing, in the old form and the newer.
parse_news_folderitem(data, most) ==
  IF data = <<>> THEN None
  ELSE Some([kind |-> IF data[1] = 1 THEN "Folder" ELSE "Category",
             name |-> Cut(Tail(data), most)])

parse_news_categoryitem(data, most) ==
  LET kind == U16In(data, 0)
      layout == <<Uint("ntype", 2),
                  Bytes("head", IF kind = <<2>> THEN 2 ELSE 26), PString("name")>>
      got == ReadAll(data, layout)
  IN  IF Len(data) < 2 \/ kind \notin {<<2>>, <<3>>} \/ got = None THEN None
      ELSE Some([kind |-> IF kind = <<2>> THEN "Folder" ELSE "Category",
                 name |-> Cut(got[1].name, most)])

\* Every item of a listing that can be read, in order.
DIRLIST_MAX_NAME == 255
parse_dirlist(fields) ==
  LET Item(f) == CASE f.tag = tag.NEWSFOLDERITEM ->
                        parse_news_folderitem(f.data, DIRLIST_MAX_NAME)
                   [] f.tag = tag.CATEGORYITEM ->
                        parse_news_categoryitem(f.data, DIRLIST_MAX_NAME)
                   [] OTHER -> None
  IN  FlattenSeq([i \in DOMAIN fields |-> Item(fields[i])])

-----------------------------------------------------------------------------
(* Files and transfers.                                                      *)

\* An entry of a folder's listing, and where the next field begins.
FileLayout ==
  <<Uint("tag", 2), Uint("len", 2), Uint("ftype", 4), Uint("fcreator", 4),
    Uint("fsize", 4), Bytes("reserved", 4), Uint("enc", 2), Uint("fnlen", 2),
    Counted("name", "fnlen")>>
FileEntryHead == 20
parse_file_list_entry(data, off) ==
  LET rest == Rest(data, Least(off, Len(data)))
      len == IF Len(rest) < 4 THEN 0 ELSE Size(U16In(rest, 2))
      entry == ReadAll(Cut(rest, 4 + len), FileLayout)
  IN  IF Len(rest) < 4 + FileEntryHead \/ len < FileEntryHead
           \/ Len(rest) < 4 + len \/ entry = None
      THEN None
      ELSE Some([entry |-> entry[1], next |-> off + 4 + len])

parse_xfer_queue(fields) ==
  [htxf_ref |-> U32(fields, tag.HTXF_REF), queueid |-> U32(fields, tag.QUEUE)]

\* be_uint_up_to_4 and be_u64_first8.
be_uint_up_to_4(data) == Value(Cut(data, 4))
Size64Of(fields, t) == HeadValue(fields, t, 8)

parse_file_get_reply(fields) ==
  [ref |-> U32(fields, tag.HTXF_REF), size |-> U32(fields, tag.HTXF_SIZE),
   size64 |-> Size64Of(fields, newsTag.XFERSIZE64),
   queue |-> U32(fields, tag.QUEUE)]

parse_folder_get_reply(fields) ==
  [ref |-> U32(fields, tag.HTXF_REF), size |-> U32(fields, tag.HTXF_SIZE),
   size64 |-> Size64Of(fields, newsTag.XFERSIZE64),
   queue |-> U32(fields, tag.QUEUE), nfiles |-> U32(fields, tag.FILE_NFILES)]

\* Where each fork of an upload resumes, 0 where the block does not reach.
parse_file_put_reply(fields) ==
  LET rflt == Or(LastIn(fields, tag.RFLT), <<>>)
      At(off) == IF Len(rflt) < off + 4 THEN <<>> ELSE Value(Slice(rflt, off, 4))
  IN  [ref |-> U32(fields, tag.HTXF_REF), queue |-> U32(fields, tag.QUEUE),
       data_pos |-> At(46), rsrc_pos |-> At(62)]

parse_folder_put_reply(fields) ==
  [ref |-> U32(fields, tag.HTXF_REF), queue |-> U32(fields, tag.QUEUE)]

parse_banner_get_reply(fields) ==
  [ref |-> U32(fields, tag.HTXF_REF), size |-> U32(fields, tag.HTXF_SIZE)]

parse_file_getinfo(fields, mostName, mostType, mostCreator, mostComment) ==
  [icon |-> LastHead(fields, tag.FILE_ICON, 4),
   type |-> TextOf(fields, tag.FILE_TYPE, mostType),
   creator |-> TextOf(fields, tag.FILE_CREATOR, mostCreator),
   size |-> be_uint_up_to_4(Or(LastIn(fields, tag.FILE_SIZE), <<>>)),
   size64 |-> Size64Of(fields, newsTag.FILESIZE64),
   name |-> StripAnsi(TextOf(fields, tag.FILE_NAME, mostName)),
   date_create |-> Or(LastHead(fields, tag.FILE_DATE_CREATE, 8), Wide(<<>>, 8)),
   date_modify |-> Or(LastHead(fields, tag.FILE_DATE_MODIFY, 8), Wide(<<>>, 8)),
   comment |-> LineOf(fields, tag.FILE_COMMENT, mostComment)]
=============================================================================
