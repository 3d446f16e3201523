------------------------------- MODULE HxXfer -------------------------------
(* What crosses a transfer's own connection: hxfiles-xfer's htxf.rs, ffo.rs, *)
(* folder.rs, rflt.rs and resume_digest.rs; and suffix.rs of hxhfs, which    *)
(* gives a file without metadata its type.                                   *)
EXTENDS HxWire

-----------------------------------------------------------------------------
(* Arithmetic on the numbers of HxWire.                                      *)

Digit(n, k) == IF k < Len(n) THEN n[Len(n) - k] ELSE 0

Plus(m, n) ==
  LET width == Most(Len(m), Len(n)) + 1
      carry[k \in 0 .. width] ==
        IF k = 0 THEN 0
        ELSE (Digit(m, k - 1) + Digit(n, k - 1) + carry[k - 1]) \div 256
  IN  Value([i \in 1 .. width |->
               LET k == width - i
               IN  (Digit(m, k) + Digit(n, k) + carry[k]) % 256])

\* m less n, which is no larger.
Minus(m, n) ==
  LET width == Len(m)
      borrow[k \in 0 .. width] ==
        IF k = 0 THEN 0
        ELSE IF Digit(m, k - 1) < Digit(n, k - 1) + borrow[k - 1] THEN 1 ELSE 0
  IN  Value([i \in 1 .. width |->
               LET k == width - i
               IN  (256 + Digit(m, k) - Digit(n, k) - borrow[k]) % 256])

Fits(n, width) == Len(n) <= width

\* remaining: None for an offset past the end.
remaining(total, offset) ==
  IF Below(total, offset) THEN None ELSE Some(Minus(total, offset))

Failed(why) == [ok |-> FALSE, why |-> why]

-----------------------------------------------------------------------------
(* htxf.rs: the preamble.                                                    *)

Magic == <<72, 84, 88, 70>>
FLAG_LARGE_FILE == 1
FLAG_SIZE64 == 2
FLAG_RESUME == 4
FlagSet(n) == {b \in {1, 2, 4} : (n \div b) % 2 = 1}

RESUME_DIGEST_LEN == 40
encoded_len(flags) ==
  16 + (IF FLAG_SIZE64 \in flags THEN 8 ELSE 0)
     + (IF FLAG_RESUME \in flags THEN RESUME_DIGEST_LEN ELSE 0)

\* Both extensions need the first flag, and a digest its own.
validate_flags(flags, hasDigest) ==
  /\ flags \cap {FLAG_SIZE64, FLAG_RESUME} # {} => FLAG_LARGE_FILE \in flags
  /\ hasDigest = (FLAG_RESUME \in flags)

Preamble_encode(p) ==
  LET wide == FLAG_SIZE64 \in p.flags
  IN  IF ~validate_flags(p.flags, p.digest # None) THEN Failed("FlagRelationship")
      ELSE IF ~wide /\ ~Fits(p.len, 4) THEN Failed("LengthOverflow")
      ELSE [ok |-> TRUE,
            bytes |-> Magic \o Wide(p.ref, 4)
                        \o Wide(IF wide THEN <<>> ELSE p.len, 4) \o Wide(p.type, 2)
                        \o Wide(Num(SumSet(p.flags)), 2)
                        \o (IF wide THEN Wide(p.len, 8) ELSE <<>>)
                        \o Or(p.digest, <<>>)]

\* The head says by its flags how long the whole is.  A length in the old
\* place must be that of the new one, or 0.
PreambleLayout == <<Bytes("magic", 4), Uint("ref", 4), Uint("len", 4),
                    Uint("type", 2), Uint("flags", 2)>>
Headed(bytes, c, flags, wide) ==
  LET rest == Rest(bytes, 16)
      len == IF wide THEN Value(Cut(rest, 8)) ELSE c.got.len
      digest == IF FLAG_RESUME \notin flags THEN None
                ELSE Some(Slice(rest, IF wide THEN 8 ELSE 0, RESUME_DIGEST_LEN))
  IN  IF c.got.magic # Magic THEN Failed("BadMagic")
      ELSE IF Size(c.got.flags) > 7 THEN Failed("UnsupportedFlags")
      ELSE IF Len(bytes) < encoded_len(flags) THEN Failed("Truncated")
      ELSE IF ~validate_flags(flags, FLAG_RESUME \in flags)
      THEN Failed("FlagRelationship")
      ELSE IF wide /\ c.got.len \notin {<<>>, len} THEN Failed("LengthMismatch")
      ELSE [ok |-> TRUE, used |-> encoded_len(flags),
            preamble |-> [ref |-> c.got.ref, len |-> len, type |-> c.got.type,
                          flags |-> flags, digest |-> digest]]

Preamble_read(bytes, c) ==
  IF ~c.ok THEN Failed("Truncated")
  ELSE Headed(bytes, c, FlagSet(Size(c.got.flags)),
              FLAG_SIZE64 \in FlagSet(Size(c.got.flags)))
Preamble_parse(bytes) == Preamble_read(bytes, Read(bytes, 0, PreambleLayout))

-----------------------------------------------------------------------------
(* ffo.rs: a file and its forks as one object.                               *)

FFO_HEADER_LEN == 24
FORK_HEADER_LEN == 16
INFO_FIXED_LEN == 74
MAX_NAME_LEN == 128
MAX_COMMENT_LEN == 255
MIN_INFO_LEN == INFO_FIXED_LEN - 2
MAX_INFO_LEN == INFO_FIXED_LEN + MAX_NAME_LEN + MAX_COMMENT_LEN

FILP == <<70, 73, 76, 80>>
INFO == <<73, 78, 70, 79>>
DATA == <<68, 65, 84, 65>>
MACR == <<77, 65, 67, 82>>
AMAC == <<65, 77, 65, 67>>

\* A length of 64 bits has its high half where the compression was.
pack_fork_header(kind, length, large) ==
  IF ~large /\ ~Fits(length, 4) THEN None
  ELSE LET wide == Wide(length, 8)
       IN  Some(kind \o (IF large THEN Cut(wide, 4) ELSE <<0, 0, 0, 0>>)
                  \o <<0, 0, 0, 0>> \o Rest(wide, 4))

fork_len(marker, large) ==
  Value((IF large THEN Slice(marker, 4, 4) ELSE <<>>) \o Slice(marker, 12, 4))

parse_fork_header(bytes, large) ==
  IF Len(bytes) < FORK_HEADER_LEN THEN Failed("Truncated")
  ELSE IF large /\ Slice(bytes, 8, 4) # <<0, 0, 0, 0>> THEN Failed("BadFork")
  ELSE [ok |-> TRUE, tag |-> Cut(bytes, 4), length |-> fork_len(bytes, large)]

\* Between the two epochs, on the circle of 32 bits.
HFS_MAC_HEADER_DELTA == <<180, 146, 244, 0>>
HFS_MAC_HEADER_BACK == <<75, 109, 12, 0>>
hfs_h_to_mtime(wire) == Wide(Plus(Value(wire), HFS_MAC_HEADER_DELTA), 4)
hfs_m_to_htime(wire) == Wide(Plus(Value(wire), HFS_MAC_HEADER_BACK), 4)

\* What to read behind the two headers: the INFO fork and DATA's header.
info_block_len(b38, b39) ==
  IF 256 * b38 + b39 > MAX_INFO_LEN THEN Failed("InfoTooLong")
  ELSE [ok |-> TRUE, len |-> 256 * b38 + b39 + FORK_HEADER_LEN]

Zeros(n) == Wide(<<>>, n)
InfoFork(m) ==
  AMAC \o m.type \o m.creator \o Zeros(44)
    \o hfs_h_to_mtime(Wide(m.created, 4)) \o Zeros(4)
    \o hfs_h_to_mtime(Wide(m.modified, 4)) \o Zeros(2)
    \o Wide(Num(Len(m.name)), 2) \o m.name
    \o Wide(Num(Len(m.comment)), 2) \o m.comment

\* A fork with nothing left to send is still announced; two forks or three is
\* said by the resource fork alone.
encode(m, forks, large) ==
  LET data == remaining(forks.data_len, forks.data_offset)
      rsrc == remaining(forks.resource_len, forks.resource_offset)
      info == InfoFork(m)
      prefix == FFO_HEADER_LEN + FORK_HEADER_LEN + Len(info) + FORK_HEADER_LEN
      total == Plus(Plus(Num(prefix + FORK_HEADER_LEN), data[1]), rsrc[1])
      Header(kind, n) == pack_fork_header(kind, n, large)[1]
  IN  IF Len(m.name) > MAX_NAME_LEN THEN Failed("NameTooLong")
      ELSE IF Len(m.comment) > MAX_COMMENT_LEN THEN Failed("CommentTooLong")
      ELSE IF data = None \/ rsrc = None THEN Failed("Range")
      ELSE IF ~Fits(total, IF large THEN 8 ELSE 4) THEN Failed("SizeOverflow")
      ELSE [ok |-> TRUE,
            prefix |-> FILP \o <<0, 1>> \o Zeros(16)
                         \o <<0, IF rsrc[1] = <<>> THEN 2 ELSE 3>>
                         \o Header(INFO, Num(Len(info))) \o info
                         \o Header(DATA, data[1]),
            resource_header |-> Header(MACR, rsrc[1]),
            data_remaining |-> data[1], resource_remaining |-> rsrc[1],
            transfer_len |-> total]

\* A fork that ends with the name has no comment.
parse_info(info) ==
  LET nameLen == Size(U16In(info, 70))
      at == 72 + nameLen
      whole == IF Len(info) = at THEN info \o <<0, 0>> ELSE info
      commentLen == Size(U16In(whole, at))
  IN  IF Len(info) < MIN_INFO_LEN THEN Failed("Truncated")
      ELSE IF nameLen > MAX_NAME_LEN THEN Failed("NameTooLong")
      ELSE IF Len(whole) < at + 2 THEN Failed("Truncated")
      ELSE IF commentLen > MAX_COMMENT_LEN THEN Failed("CommentTooLong")
      ELSE IF Len(whole) < at + 2 + commentLen THEN Failed("Truncated")
      ELSE [ok |-> TRUE, platform |-> Cut(info, 4), type_creator |-> Slice(info, 4, 8),
            created |-> Value(hfs_m_to_htime(Slice(info, 56, 4))),
            modified |-> Value(hfs_m_to_htime(Slice(info, 64, 4))),
            name |-> Slice(info, 72, nameLen),
            comment |-> Slice(whole, at + 2, commentLen)]

\* The INFO fork and DATA's header together, as a client receives them.
parse_filp_info(block, large) ==
  LET at == Len(block) - FORK_HEADER_LEN
      info == parse_info(Cut(block, at))
      marker == Rest(block, at)
  IN  IF at < 0 THEN Failed("Truncated")
      ELSE IF ~info.ok THEN info
      ELSE IF Cut(marker, 4) # DATA THEN Failed("BadFork")
      ELSE [ok |-> TRUE, type_creator |-> info.type_creator,
            created |-> info.created, modified |-> info.modified,
            comment |-> info.comment, data_fork_len |-> fork_len(marker, large)]

-----------------------------------------------------------------------------
(* folder.rs: the announcement of each item of a folder.                     *)

Item_encode(item) ==
  LET body == Wide(IF item.folder THEN <<1>> ELSE <<>>, 2)
                \o Wide(Num(Len(item.path)), 2)
                \o FlattenSeq([i \in DOMAIN item.path |->
                                 <<0, 0, Len(item.path[i])>> \o item.path[i]])
  IN  IF item.path = <<>> THEN Failed("EmptyPath")
      ELSE IF \E i \in DOMAIN item.path : item.path[i] = <<>>
      THEN Failed("EmptyName")
      ELSE IF \E i \in DOMAIN item.path : Len(item.path[i]) > 255
      THEN Failed("NameTooLong")
      ELSE IF Len(body) > MaxField THEN Failed("TooLong")
      ELSE [ok |-> TRUE, bytes |-> Wide(Num(Len(body)), 2) \o body]

\* The next name, unless the reading has failed.
NameLayout == <<Bytes("zero", 2), PString("name")>>
Named(all, empty, c) ==
  IF all.why # "" THEN all
  ELSE IF empty THEN [all EXCEPT !.why = "EmptyName"]
  ELSE IF ~c.ok THEN [all EXCEPT !.why = "Truncated"]
  ELSE [why |-> "", pos |-> c.pos, path |-> Append(all.path, c.got.name)]

\* A header holds exactly its path.
PathRead(body, count) ==
  FoldLeft(LAMBDA all, i :
             Named(all, Len(body) > all.pos + 2 /\ body[all.pos + 3] = 0,
                   Read(body, all.pos, NameLayout)),
           [why |-> "", pos |-> 4, path |-> <<>>], [i \in 1 .. count |-> i])
OfItem(body, names) ==
  IF Len(body) < 4 THEN Failed("Truncated")
  ELSE IF U16In(body, 2) = <<>> THEN Failed("EmptyPath")
  ELSE IF names.why # "" THEN Failed(names.why)
  ELSE IF names.pos # Len(body) THEN Failed("TrailingBytes")
  ELSE [ok |-> TRUE, item |-> [folder |-> U16In(body, 0) = <<1>>, path |-> names.path]]
Item_parse(body) == OfItem(body, PathRead(body, Size(U16In(body, 2))))

-----------------------------------------------------------------------------
(* rflt.rs and resume_digest.rs: where an interrupted transfer resumes.      *)

RFLT == <<82, 70, 76, 84>>
rflt_encode(r) ==
  RFLT \o <<0, 1>> \o Zeros(34) \o <<0, 2>> \o DATA \o Wide(r.data, 4) \o Zeros(8)
    \o MACR \o Wide(r.resource, 4) \o Zeros(8)

\* An offset counts when all of its bytes are there, whatever is around it.
rflt_parse_compatible(bytes) ==
  LET At(off) == IF Len(bytes) < off + 4 THEN <<>> ELSE Value(Slice(bytes, off, 4))
  IN  [data |-> At(46), resource |-> At(62)]

\* The hash of the offset and of the last bytes before it, so many as the
\* server takes: at least the whole, or the default, and no more than there is.
DEFAULT_WINDOW == <<1, 0, 0>>
digest_encode(offset, window) ==
  LET len == Num(Len(window))
  IN  IF Below(len, AtMost(offset, DEFAULT_WINDOW)) \/ Below(offset, len)
      THEN None
      ELSE Some(Wide(len, 8) \o Hashed(Wide(offset, 8) \o window))
window_len(digest) == Value(Cut(digest, 8))
digest_matches(expected, echoed) == \A i \in 1 .. RESUME_DIGEST_LEN :
                                      expected[i] = echoed[i]

-----------------------------------------------------------------------------
(* suffix.rs.  A name is the sequence of its parts between dots.             *)

TypeCreator ==
  [jpg |-> "JPEGGKON", jpeg |-> "JPEGGKON", png |-> "PNGfGKON",
   gif |-> "GIFfGKON", mp3 |-> "MP3 MAmp", mp2 |-> "MP3 MAmp",
   mpg |-> "MPEGTVOD", mpeg |-> "MPEGTVOD", mov |-> "MooVTVOD",
   sit |-> "SITDSIT!", zip |-> "ZIP ZIP ", pk3 |-> "ZIP ZIP ",
   app |-> "APPLpeff", sea |-> "APPLpeff", img |-> "rohdWrap",
   pict |-> "PICTGKON"]
suffix_type_creator(parts) ==
  IF Len(parts) < 2 \/ parts[Len(parts)] \notin DOMAIN TypeCreator
  THEN "TEXTR*ch" ELSE TypeCreator[parts[Len(parts)]]
=============================================================================
