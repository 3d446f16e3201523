------------------------------- MODULE HxTags -------------------------------
(* The numbers of hxproto's messages.rs: the types of messages in each       *)
(* direction, and the tags of their fields.  A tag may stand for several     *)
(* things, told apart by the message it is in, and two names may share one.  *)
EXTENDS Integers

\* Requests, the types a client sends.
ClientHdr ==
  [NewsGetFile |-> 101, NewsPost |-> 103, Chat |-> 105, Login |-> 107,
   Msg |-> 108, UserKick |-> 110, ChatCreate |-> 112, ChatInvite |-> 113,
   ChatDecline |-> 114, ChatJoin |-> 115, ChatPart |-> 116,
   AgreementAgree |-> 121, ChatSubject |-> 120, FileList |-> 200,
   FileGet |-> 202, FilePut |-> 203, FileDelete |-> 204, FileMkdir |-> 205,
   FileGetInfo |-> 206, FileSetInfo |-> 207, FileMove |-> 208,
   FileGetFolder |-> 210, DownloadBanner |-> 212, FilePutFolder |-> 213,
   KillDownload |-> 214, UserGetList |-> 300, UserGetInfo |-> 303,
   UserChange |-> 304, AccountCreate |-> 350, AccountDelete |-> 351,
   AccountRead |-> 352, AccountModify |-> 353, MsgBroadcast |-> 355,
   NewsListDir |-> 370, NewsListCategory |-> 371, NewsDelete |-> 380,
   NewsMkdir |-> 381, NewsMkCategory |-> 382, GetThread |-> 400,
   GetChatHistory |-> 700, PostThread |-> 410, DeleteThread |-> 411,
   Ping |-> 500, VoiceJoin |-> 600, VoiceLeave |-> 601,
   VoiceSdpAnswer |-> 603, VoiceIce |-> 604, VoiceMute |-> 606,
   VideoStart |-> 607, VideoStop |-> 608, VideoState |-> 609,
   VideoSubscribe |-> 610, UploadMedia |-> 750, DownloadMedia |-> 751,
   IconGetList |-> 1861, IconSet |-> 1862, IconGet |-> 1863,
   GetRoster |-> 800, AddFriend |-> 802, RemoveFriend |-> 803,
   FriendResponse |-> 805, BlockUser |-> 806, UnblockUser |-> 807,
   SetPresence |-> 808, ImSend |-> 810, ImAck |-> 812, ImTyping |-> 813,
   PeerFileOffer |-> 814, PeerFileAccept |-> 815, PeerFileDecline |-> 816,
   PeerFileReady |-> 817, CallInvite |-> 818, CallAccept |-> 819,
   CallDecline |-> 820, CallCancel |-> 821, FindUser |-> 822,
   UserSearch |-> 823, SetFriendNickname |-> 824, GetProfile |-> 825,
   SetProfile |-> 826, SetBuddyIcon |-> 827, GetBuddyIcon |-> 828,
   GetMessageRequests |-> 829, AnswerMessageRequest |-> 830,
   ClearMessageRequests |-> 831, PresentFriendships |-> 833,
   GetFriendships |-> 834, GetDeviceChallenge |-> 1020, ProveDevice |-> 1021]

\* Pushes and the reply, the types a server sends.
ServerHdr ==
  [NewsFilePost |-> 102, Msg |-> 104, Chat |-> 106, Queue |-> 211,
   UserChange |-> 301, UserPart |-> 302, UserSelfInfo |-> 354,
   MsgBroadcast |-> 355, Ping |-> 500, VoiceSdpOffer |-> 602,
   VoiceIce |-> 604, VoiceRoomStatus |-> 605, VideoStatus |-> 611,
   RosterEntry |-> 801, FriendRequest |-> 804, PresenceChanged |-> 809,
   ImDeliver |-> 811, ImAck |-> 812, ImTyping |-> 813, PeerFileOffer |-> 814,
   PeerFileAccept |-> 815, PeerFileDecline |-> 816, PeerFileReady |-> 817,
   CallInvite |-> 818, CallAccept |-> 819, CallDecline |-> 820,
   CallCancel |-> 821, SetBuddyIcon |-> 827, MessageRequestsChanged |-> 832,
   Task |-> 65536]

\* Users, chat, logins, files, history.  BAN is OPTIONS under another name.
tag ==
  [TASK_ERROR |-> 100, BODY |-> 101, NAME |-> 102, UID |-> 103, ICON |-> 104,
   LOGIN |-> 105, PASSWORD |-> 106, HTXF_REF |-> 107, HTXF_SIZE |-> 108,
   STYLE |-> 109, ACCESS |-> 110, COLOUR |-> 112, OPTIONS |-> 113,
   BAN |-> 113, CHAT_ID |-> 114, CHAT_SUBJECT |-> 115, QUEUE |-> 116,
   BANNER_TYPE |-> 152, FILE_NAME |-> 201, DIR |-> 202, RFLT |-> 203,
   FILE_PREVIEW |-> 204, FILE_TYPE |-> 205, FILE_CREATOR |-> 206,
   FILE_SIZE |-> 207, FILE_DATE_CREATE |-> 208, FILE_DATE_MODIFY |-> 209,
   FILE_COMMENT |-> 210, FILE_RENAME |-> 211, DIR_RENAME |-> 212,
   FILE_ICON |-> 213, FILE_NFILES |-> 220, BANNER_URL |-> 153,
   NOAGREEMENT |-> 154, VERSION |-> 160, SERVERNAME |-> 162,
   CAPABILITIES |-> 496, CHANNEL_ID |-> 3841, HISTORY_BEFORE |-> 3842,
   HISTORY_AFTER |-> 3843, HISTORY_LIMIT |-> 3844, HISTORY_ENTRY |-> 3845,
   HISTORY_HAS_MORE |-> 3846, HISTORY_MAX_MSGS |-> 3847,
   HISTORY_MAX_DAYS |-> 3848, USER_LIST |-> 300, NEWSFOLDERITEM |-> 320,
   CATLIST |-> 321, CATEGORY |-> 322, CATEGORYITEM |-> 323]

\* News, large files and voice.  NEWSFLAGS and PARENTTHREAD are one tag.
newsTag ==
  [NEWSPATH |-> 325, THREADID |-> 326, NEWSTYPE |-> 327, NEWSSUBJECT |-> 328,
   NEWSDATA |-> 333, NEWSFLAGS |-> 334, PARENTTHREAD |-> 334,
   PARENTTHREADID |-> 335, NEWSPOSTER |-> 329, NEWSDATE |-> 330,
   PREVTHREADID |-> 331, NEXTTHREADID |-> 332, NEXTSUBTHREADID |-> 336,
   DELETEREPLIES |-> 337, FILESIZE64 |-> 497, OFFSET64 |-> 498,
   XFERSIZE64 |-> 499, FOLDER_ITEM_COUNT64 |-> 500, VOICE_SDP |-> 501,
   VOICE_ICE |-> 502, VOICE_CODEC |-> 503, VOICE_MUTED |-> 504,
   PARTIAL_DIGEST |-> 506]

\* Inline media, video, and the colour of a nick.
mediaTag ==
  [CHAT_MEDIA_TYPE |-> 513, CHAT_MEDIA_ID |-> 514,
   CHAT_MEDIA_PAYLOAD |-> 515, CHAT_MEDIA_DECLARED_TYPE |-> 516,
   CHAT_MEDIA_WIDTH |-> 517, CHAT_MEDIA_HEIGHT |-> 518,
   CHAT_MEDIA_BYTES |-> 519, CHAT_MEDIA_UPLOAD_TOKEN |-> 520,
   CHAT_MEDIA_PART_INDEX |-> 521, CHAT_MEDIA_PART_COUNT |-> 522,
   CHAT_MEDIA_PART_FINAL |-> 523, CHAT_MEDIA_MAX_BYTES |-> 524,
   CHAT_MEDIA_MAX_DIMENSION |-> 525, CHAT_MEDIA_MAX_PIXELS |-> 526,
   CHAT_MEDIA_CHUNK_SIZE |-> 527, CHAT_MEDIA_MAX_FRAMES |-> 528,
   CHAT_MEDIA_MAX_DURATION_MS |-> 529, CHAT_MEDIA_ERROR_CODE |-> 530,
   VOICE_PARTICIPANTS |-> 505, VIDEO_KIND |-> 544, VIDEO_PAUSED |-> 545,
   VIDEO_PUBLISHERS |-> 546, VIDEO_CODEC |-> 547, VIDEO_LIMITS |-> 548,
   VIDEO_SUBSCRIPTIONS |-> 549, COLOR |-> 1280]

\* Messaging between accounts, device proofs, icons.  NEWS is BODY.
peerTag ==
  [FRIEND_LOGIN |-> 1536, FRIEND_NICKNAME |-> 1537, PRESENCE_STATE |-> 1538,
   PRESENCE_STATUS_TEXT |-> 1539, ROSTER_STATE |-> 1540,
   MESSAGE_GUID |-> 1541, MESSAGE_BODY |-> 1542, MESSAGE_TIMESTAMP |-> 1543,
   ACK_TYPE |-> 1544, TYPING_STATE |-> 1545, FILE_TRANSFER_GUID |-> 1546,
   FILE_RELAY_REF |-> 1547, DIRECT_CANDIDATE |-> 1548, CALL_ID |-> 1549,
   CALL_MEMBERS |-> 1550, REASON_CODE |-> 1551, REQUEST_NOTE |-> 1552,
   DISCOVERABLE |-> 1553, SEARCH_QUERY |-> 1554,
   FRIEND_CAPABILITIES |-> 1555, PROFILE_NICKNAME |-> 1556,
   PROFILE_FIRST_NAME |-> 1557, PROFILE_LAST_NAME |-> 1558,
   PROFILE_EMAIL |-> 1559, PROFILE_GENDER |-> 1560,
   PROFILE_BIRTHDATE |-> 1561, PROFILE_COUNTRY |-> 1562,
   PROFILE_POSTCODE |-> 1563, PROFILE_LANGUAGE |-> 1564, BUDDY_ICON |-> 1565,
   BUDDY_ICON_HASH |-> 1566, FRIEND_IDENTITY |-> 1567,
   MAX_MESSAGE_BYTES |-> 1568, MAX_ROSTER_SIZE |-> 1569,
   MAX_OFFLINE_QUEUE |-> 1570, MAX_ICON_BYTES |-> 1571,
   MAX_ICON_DIMENSION |-> 1572, MAX_REQUEST_MESSAGES |-> 1573,
   FRIEND_DEVICE_CERT |-> 1576, MESSAGE_SIGNED |-> 1577,
   MESSAGE_SEALED |-> 1578, MESSAGE_SEALED_TO |-> 1579,
   TAKES_REQUESTS |-> 1616, REQUEST_CURSOR |-> 1617, REQUEST_ACTION |-> 1618,
   REQUEST_COUNT |-> 1619, FRIEND_REQUEST_COUNT |-> 1620,
   SPAN_SINCE |-> 1621, SPAN_BEFORE |-> 1622, FRIEND_OFFER |-> 1624,
   FRIENDSHIP |-> 1625, FRIEND_WITHDRAW |-> 1626, FRIENDSHIP_HASH |-> 1627,
   IDENTITY_ROTATION |-> 1628, PROOF_HOST |-> 1056,
   SERVER_CHALLENGE |-> 1057, DEVICE_PROOF |-> 1058, DEVICE_CERT |-> 1059,
   USER_CARD |-> 1060, ICON_GIF |-> 768, ICON_LIST |-> 769, NEWS |-> 101]

\* ServerHdr::from_u32: the name of a type a server sends, None for another.
FromU32(type) ==
  LET names == {name \in DOMAIN ServerHdr : ServerHdr[name] = type}
  IN  IF names = {} THEN <<>> ELSE <<CHOOSE name \in names : TRUE>>

\* No nick colour.
NICK_COLOR_NONE == <<255, 255, 255, 255>>
=============================================================================
