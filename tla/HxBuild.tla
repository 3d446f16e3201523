------------------------------ MODULE HxBuild ------------------------------
(* The builders of requests in hxproto's build.rs.  A builder is given two   *)
(* buffers by its caller: a number of chunks, and scratch memory in which it *)
(* writes its numbers.  A chunk points into the scratch memory, or at the    *)
(* caller's text, and is read only once the whole request is built; so two   *)
(* numbers written over each other would both be read back wrong.            *)
(*                                                                           *)
(* An operator here names the room a builder insists on and what it puts, in *)
(* order; Built does it.  A number the code writes to its scratch memory but *)
(* gives no chunk is left out.                                               *)
EXTENDS HxWire, HxTags

Put(t, number, value, width, at) ==
  [tag |-> t, number |-> number, value |-> value, width |-> width, at |-> at]

NumAt(t, n, width, at) == <<Put(t, TRUE, n, width, at)>>
Text(t, data) == <<Put(t, FALSE, data, 0, 0)>>
When(condition, puts) == IF condition THEN puts ELSE <<>>
Given(t, option) == IF option = None THEN <<>> ELSE Text(t, option[1])

\* What a builder checks first and then puts; `legal` is its own checks on its
\* arguments, beyond the length of each text.
Builder(chunks, scratch, puts) ==
  [chunks |-> chunks, scratch |-> scratch, puts |-> puts, legal |-> TRUE]

\* A builder that asks for as many chunks as it fills.
Exactly(scratch, puts) == Builder(Len(puts), scratch, puts)

-----------------------------------------------------------------------------
TooLong(b) == \E i \in DOMAIN b.puts : Len(b.puts[i].value) > MaxField

\* The scratch memory once every number is written: of two numbers over one
\* byte, the later.
Memory(b) ==
  LET Over(o) == {i \in DOMAIN b.puts :
                    /\ b.puts[i].number
                    /\ o \in b.puts[i].at .. b.puts[i].at + b.puts[i].width - 1}
  IN  [o \in 0 .. b.scratch - 1 |->
         IF Over(o) = {} THEN 0
         ELSE LET p == b.puts[Max(Over(o))]
              IN  Wide(p.value, p.width)[o - p.at + 1]]

\* The fields a request ends up with, or None: a builder returns 0, and
\* Request::from_built turns that into no request.
Built(b, chunks, scratch) ==
  IF chunks < b.chunks \/ scratch < b.scratch \/ TooLong(b) \/ ~b.legal
  THEN None
  ELSE LET memory == Memory(b)
           Data(p) == IF p.number
                      THEN [k \in 1 .. p.width |-> memory[p.at + k - 1]]
                      ELSE p.value
       IN  Some([i \in DOMAIN b.puts |->
                   Field(b.puts[i].tag, Data(b.puts[i]))])

-----------------------------------------------------------------------------
(* Chat and messages.                                                        *)

build_chat_chunks(cid, style, body) ==
  Builder(3, 6, NumAt(tag.STYLE, style, 2, 0) \o Text(tag.BODY, body)
                  \o When(cid # <<>>, NumAt(tag.CHAT_ID, cid, 4, 2)))

build_msg_chunks(uid, body) ==
  Builder(2, 2, NumAt(tag.UID, uid, 2, 0) \o Text(tag.BODY, body))

build_broadcast_chunks(body) == Builder(1, 0, Text(tag.BODY, body))

build_chat_create_chunks(uid) == Builder(1, 2, NumAt(tag.UID, uid, 2, 0))

build_chat_invite_chunks(cid, uid) ==
  Builder(2, 6, NumAt(tag.CHAT_ID, cid, 4, 0) \o NumAt(tag.UID, uid, 2, 4))

\* Joining, leaving and declining a chat.
build_chat_id_only_chunks(cid) ==
  Builder(1, 4, NumAt(tag.CHAT_ID, cid, 4, 0))

build_chat_subject_chunks(cid, subject) ==
  Builder(2, 4, NumAt(tag.CHAT_ID, cid, 4, 0)
                  \o Text(tag.CHAT_SUBJECT, subject))

build_get_chat_history_chunks(channel, before, after, limit) ==
  Builder(4, 22,
    NumAt(tag.CHANNEL_ID, channel, 4, 0)
      \o When(before # <<>>, NumAt(tag.HISTORY_BEFORE, before, 8, 4))
      \o When(after # <<>>, NumAt(tag.HISTORY_AFTER, after, 8, 12))
      \o When(limit # <<>>, NumAt(tag.HISTORY_LIMIT, limit, 2, 20)))

\* One entry of a history reply: its fixed part, its two texts and the
\* subfields after them, which must fit one field together.
build_history_entry(id, time, flags, icon, nick, message, subfields) ==
  LET entry == Wide(id, 8) \o Wide(time, 8) \o Wide(flags, 2) \o Wide(icon, 2)
                 \o Wide(Num(Len(nick)), 2) \o nick
                 \o Wide(Num(Len(message)), 2) \o message
                 \o PutChunks(subfields)
  IN  IF Len(entry) > MaxField THEN None ELSE Some(entry)

-----------------------------------------------------------------------------
(* Users and accounts.                                                       *)

build_agreement_agree_chunks(icon, name, options) ==
  Builder(3, 4, NumAt(tag.ICON, icon, 2, 0) \o Text(tag.NAME, name)
                  \o NumAt(tag.OPTIONS, options, 2, 2))

build_user_change_chunks(icon, name, color) ==
  Builder(3, 6, NumAt(tag.ICON, icon, 2, 0) \o Text(tag.NAME, name)
                  \o When(color # None,
                          NumAt(mediaTag.COLOR,
                                IF color = None THEN <<>> ELSE color[1], 4, 2)))

\* Mutant: the user's id over the ban's.
MutKick(uid, ban) ==
  Builder(2, 4, When(ban # <<>>, NumAt(tag.BAN, ban, 2, 0))
                  \o NumAt(tag.UID, uid, 2, 0))

\* A ban comes before the user it bans; a mere kick says the user only.
build_user_kick_chunks(uid, ban) ==
  Builder(2, 4, IF ban # <<>>
                THEN NumAt(tag.BAN, ban, 2, 0) \o NumAt(tag.UID, uid, 2, 2)
                ELSE NumAt(tag.UID, uid, 2, 0))

build_user_getinfo_chunks(uid) == Builder(1, 2, NumAt(tag.UID, uid, 2, 0))

\* Reading an account and deleting one.
build_account_read_chunks(login) == Builder(1, 0, Text(tag.LOGIN, login))

build_account_modify_chunks(login, password, name, access) ==
  Builder(4, 8, Text(tag.LOGIN, login) \o Text(tag.PASSWORD, password)
                  \o Text(tag.NAME, name) \o NumAt(tag.ACCESS, access, 8, 0))

-----------------------------------------------------------------------------
(* News.                                                                     *)

build_news_post_chunks(body) == Builder(1, 0, Text(tag.BODY, body))

\* Listing categories or bundles, and deleting either.
build_newspath_only_chunks(path) == Builder(1, 0, Text(newsTag.NEWSPATH, path))

build_news_mkdir_chunks(path, name) ==
  Builder(2, 0, Text(newsTag.NEWSPATH, path) \o Text(tag.FILE_NAME, name))

build_news_delete_thread_chunks(path, thread) ==
  Builder(2, 4, Text(newsTag.NEWSPATH, path)
                  \o NumAt(newsTag.THREADID, thread, 4, 0))

build_news_getthread_chunks(path, thread, mime) ==
  Builder(3, 4, Text(newsTag.NEWSPATH, path)
                  \o NumAt(newsTag.THREADID, thread, 4, 0)
                  \o Text(newsTag.NEWSTYPE, mime))

build_news_mkcat_chunks(path, name) ==
  Builder(2, 0, Text(newsTag.NEWSPATH, path) \o Text(tag.CATEGORY, name))

build_news_post_thread_chunks(path, flags, mime, subject, text, thread) ==
  Builder(6, 8,
    Text(newsTag.NEWSPATH, path) \o NumAt(newsTag.NEWSFLAGS, flags, 4, 0)
      \o Text(newsTag.NEWSTYPE, mime) \o Text(newsTag.NEWSSUBJECT, subject)
      \o Text(newsTag.NEWSDATA, text) \o NumAt(newsTag.THREADID, thread, 4, 4))

-----------------------------------------------------------------------------
(* Files and transfers.                                                      *)

\* Making a folder and listing one.
build_file_mkdir_chunks(dir) == Builder(1, 0, Text(tag.DIR, dir))

\* Deleting a file, asking about one, and fetching a folder.
build_file_name_with_optional_dir_chunks(name, dir) ==
  Exactly(0, Text(tag.FILE_NAME, name) \o Given(tag.DIR, dir))

build_file_setinfo_chunks(name, rename, comment, dir) ==
  Exactly(0, Text(tag.FILE_NAME, name) \o Given(tag.FILE_RENAME, rename)
               \o Given(tag.FILE_COMMENT, comment) \o Given(tag.DIR, dir))

build_file_move_chunks(name, dir, to) ==
  Builder(3, 0, Text(tag.FILE_NAME, name) \o Text(tag.DIR, dir)
                  \o Text(tag.DIR_RENAME, to))

build_file_symlink_chunks(name, dir, to, rename) ==
  Builder(4, 0, Text(tag.FILE_NAME, name) \o Text(tag.DIR, dir)
                  \o Text(tag.DIR_RENAME, to) \o Text(tag.FILE_RENAME, rename))

build_file_putfolder_chunks(name, dir, resume, size, items) ==
  Exactly(8, Text(tag.FILE_NAME, name) \o Given(tag.DIR, dir)
               \o When(resume, Text(tag.FILE_PREVIEW, <<0, 1>>))
               \o NumAt(tag.HTXF_SIZE, size, 4, 0)
               \o NumAt(tag.FILE_NFILES, items, 4, 4))

\* Where a download resumes is 74 bytes or refused.
RfltLen == 74
build_file_get_chunks(name, dir, rflt) ==
  [Exactly(0, Text(tag.FILE_NAME, name) \o Given(tag.DIR, dir)
                \o Given(tag.RFLT, rflt))
   EXCEPT !.legal = rflt = None \/ Len(rflt[1]) = RfltLen]

build_file_put_chunks(name, dir, preview, size, size64) ==
  Exactly(12, Text(tag.FILE_NAME, name) \o Given(tag.DIR, dir)
                \o When(preview, Text(tag.FILE_PREVIEW, <<0, 1>>))
                \o NumAt(tag.HTXF_SIZE, size, 4, 0)
                \o When(size64 # None,
                        NumAt(newsTag.XFERSIZE64,
                              IF size64 = None THEN <<>> ELSE size64[1], 8, 4)))

\* The head of a transfer's own connection, and the preamble: a size of 64
\* bits says so in its flags, leaves the 32-bit one 0 and follows the head.
HTXF_MAGIC == <<72, 84, 88, 70>>
LargeFile == 1
Size64 == 2
Resume == 4

build_htxf_hdr(ref, payload, type, flags) ==
  HTXF_MAGIC \o Wide(ref, 4) \o Wide(payload, 4) \o Wide(type, 2)
    \o Wide(Num(SumSet(flags)), 2)

build_htxf_preamble(room, ref, total, type, flags, size64) ==
  IF Resume \in flags \/ (~size64 /\ Size64 \in flags) THEN None
  ELSE IF size64
       THEN IF room < 24 THEN None
            ELSE Some(build_htxf_hdr(ref, <<>>, type, flags \cup {LargeFile, Size64})
                        \o Wide(total, 8))
       ELSE IF room < 16 \/ Below(U32Max, total) THEN None
            ELSE Some(build_htxf_hdr(ref, total, type, flags))
=============================================================================
