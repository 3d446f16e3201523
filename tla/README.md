# hx-libs in TLA+

hx-libs is a workspace of Rust crates for the Hotline protocol. Its crates do no
I/O of their own but for metadata files: a client, a server or a bot owns the socket
and the clock and calls them. This directory models

- what in them has state: `hxsession::Session`, a whole client session as a machine
  that is fed bytes, told the time, drained of what it wants sent, and called by its
  user in any order; `hxsession::frame::FrameReader`, which cuts the stream it is fed
  into transactions; HOPE's login between a client and a server, and the transports
  that the two run after it; and the AppleDouble sidecar that `hxhfs` keeps beside a file;
- what has none: the builders and readers of every message, of the events a session
  makes of them, of tracker listings, transfers, text and calls, each against the other.

Paths below are relative to `src/crates/` of the repository.

    tlc -workers 2 -config session_core.cfg MCHxSession.tla
    tlapm HxSessionProofs.tla

## Inventory

| component | state | operations | what makes it hard |
|---|---|---|---|
| **session** `hxsession/src/lib.rs`, `Session` | `State`, `early`, `pending`, `next_trans`, `out`, `before_transport`, `server`, the clock (`now`, `last_sent`, `unstamped`), deadlines, `awaiting_agree`, `agreed`, `ready`, `hope`, `transport`, `events` | `new`, `with_hope`, `feed`, `tick`, `next_deadline`, `disconnected`, `poll_event`, `take_outgoing`, `set_identity`, `agree`, some forty request methods, `take_trans`, `expect`, `send_raw` | any call in any state; four timers; replies to nothing; what comes before the login reply |
| **trans and awaited replies** `lib.rs`, `take_trans`, `remember` | a `u32`, a map from trans to `Pending` | take, remember, forget | the counter wraps and skips 0; the table is bounded and evicts |
| **FrameReader** `hxsession/src/frame.rs` | `buf`, `at`, `partials`, `abandoned` | `push`, `next_transaction`, `take_abandoned`, `is_idle` | split transactions: interleaved, restarted, abandoned, too large; frames cut at any byte |
| **request builders** `hxsession/src/request.rs` | none | one function per request | a field may not fit; numbers written into scratch memory that must be large enough |
| **events** `lib.rs`, `dispatch`, `reply`, `login_reply` | none | fields to events | names and texts cut to a field, records that cannot be read, sizes told twice |
| **HOPE key exchange** `hxhope/src/{client,server,alg,keys}.rs` | the client's offer and session key, the server's challenge | `client::step1`, `client::step2`; `server::answer`, `Server::step2`, `Step2::names`, `Server::accept` | each side must refuse a pick outside its offer before credentials go |
| **HOPE transport** `hxhope/src/{transport,compress}.rs` | a cipher state and a compressor per direction, and a buffer of ciphertext | `encode`, `decode` | Blowfish turns its key between header and body; AEAD counts records per direction; one side failing ends both |
| **ciphers** `hxcrypto` | a key schedule or a counter | encrypt, decrypt, hash, MAC | where in the keystream and at which record the two ends are |
| **Mac metadata** `hxhfs/src/hfs.rs` | a data file and a sidecar (AppleDouble, or two dot files) | read and write type, creator, comment; open a resource fork for reading, writing, appending | several writes per change, some in place and some through a rename; handles held across them; crashes |
| **transfer codecs** `hxfiles-xfer` | none | headers of file, folder and resume transfers | 32-bit sizes with 64-bit companions |
| **messages** `hxproto` (`parse`, `build`, `wire`, `messages`, `messaging`, ...) | none | bytes to values and back | what is cut, unknown, repeated or too large |
| **media, voice, video, emoji**, **text and dates**, **tracker** (`hxproto`) | none | codecs, a generated emoji table | characters cut in half, sections in any order, listings in several formats |

How they interact. `Session` owns a `FrameReader`, into which `feed` pushes what
it received, and takes transactions out of it until there are none; it owns the
table of awaited replies, which `remember` adds to whenever it sends a request and
from which replies and abandoned splits take. With `with_hope` it owns a
`ClientHope` until the reply to step 1 and then, once step 2 is queued, a
`Transport`: what `feed` is given goes through its decoder first and what
`take_outgoing` gives goes through its encoder. Its requests are what `request.rs` builds with `hxproto`, and its events what
`hxproto` reads of a transaction's fields. The caller and the session share
nothing but calls; the session keeps no thread and no lock, so what interleaves
is calls: a reply and a timeout, a request and the clock, an agreement and the end
of the wait for it.

What makes each part correct:

- the session: nothing the server sends unasked is lost or reordered, before or
  after the login; a 1.5+ server is sent nothing until the agreement is settled; a
  timer fires when `next_deadline` says and not otherwise; the session ends or gets
  on, whatever the server does; closed is closed; only the handshake goes in clear;
- trans and awaited replies: 0 is never used, the table keeps its bound and its
  newest entries, an answer goes to the request that asked and goes once;
- the frame reader: at most `MAX_PARTIALS` splits, never two on one trans; what is
  read does not depend on how the stream was cut; a buffer of what is outstanding;
- HOPE: both sides arrive at the same algorithms and keys or both stop; no
  credential goes before the pick is accepted; sender and receiver turn the key at
  the same byte;
- Mac metadata: after a crash at any point each field reads as some write wanted it,
  a resource fork holds nothing but what was written as one, and what other programs
  keep in the container stays;
- the codecs: what one end builds the other reads, with fields it does not know among
  it; of what is cut off or out of order nothing is half read; no size is told by its low half.

The hazards, each at its line, are in `PROJECT.json`.

## Modules

    HxTrans        HxPartials            operations on the table, on the partials
         \         /        \
          HxSession      HxFrames        the session; the reader: state, one action per call
              |             |   \
        MCHxSession   MCHxFrames HxStream    values for TLC; what the reader promises

    HxHope    HxTransport                the login; one direction's encoder and decoder
         \    /
      HxConnection  - - HxPipe           both ends and the wire; what a transport promises
           |
    MCHxConnection

    HxSidecar  - - HxRecord              a file's container; what a reader is promised
        |
    MCHxSidecar

    HxWire                               numbers, fields, headers, packing
      HxBuild (with HxTags)              hxproto's builders
        HxMedia, HxMessaging             media, voice, video, icons; messaging
          HxReplies, HxRequests          hxproto's readers; request.rs
            HxEvents                     what the session makes of fields
      HxText - HxTracker,  HxXfer,  HxIce
             all of them in
          HxCodecs - MCHxCodecs          one message between two ends

A dashed line is a refinement. Beside them are the modules of proofs:

    HxPartialsProofs                     the partials: what Accept keeps, and accounts for
    HxFoldProofs                         folds and joins, as runs of steps
      HxSessionProofs                    the session's invariant, what a step may do
      HxFramesProofs                     the reader implements HxStream
        both with HxPartialsProofs
      HxTransportProofs                  one direction: what is sealed opens
        HxConnectionProofs               the login's agreement; the connection implements HxPipe
      HxSidecarProofs                    the sidecar implements HxRecord; what it keeps
      HxWireProofs                       a message's bytes: what is packed is read

**HxTrans** is the counter (`NextTrans`: `wrapping_add(1).max(1)`) and the table of
awaited replies (`Remember`, `Kept`, `Recent`, `Forget`): `remember()` of `lib.rs`
with its cut to the recent half, by wrapping difference, when the table is full.

**HxPartials** is `FrameReader::next_transaction` from the point where a frame is cut
from the buffer: `Accept(partials, f)` is the partials afterwards, the trans given
up on, and the transaction that is complete, if one is. A frame has a type, a
trans, its `TotalSize` and `DataSize`, whether its own fields fill its data
exactly (`whole`, `is_whole` in the code), and a body of as many units as its
size. Nothing more of the bytes decides anything.

**HxFrames** is the whole `FrameReader`. A stream is a sequence of cells, a few for a
head and one for each unit of data, so that a piece may end inside either. `Push(n)`
is `push` with its compaction, of the next `n` cells; `NextTransaction` is one whole
call, its loop a fold of `OneFrame` (cut a frame if it is all there, then `Accept`);
`TakeAbandoned` and `IsIdle` are the methods of those names. **HxStream** is its
abstract specification: whole frames, taken one after another, no stream and no
buffer. A head is read as what the frame it belongs to says, and `assemble`, which
writes the sizes into a finished transaction's head and pads it, is left out.

`HxSession` uses `HxPartials` directly: it is fed one whole frame at a time, and
`HxFrames` shows why that is enough.

**HxSession** is the session. Its variables are the struct's fields:

| variable | field | | variable | field |
|---|---|---|---|---|
| `cfg` | `cfg.raw`, `cfg.handled`, `with_hope` | | `now` `lastSent` `unstamped` | `now` `last_sent` `unstamped` |
| `nickFits` | `cfg.nick` fits a field (`set_nick` replaces it) | | `handshakeAt` `agreementAt` | the two deadlines, `Never` for `None` |
| `st` | `state` | | `awaiting` `agreed` `ready` | `awaiting_agree` `agreed` `ready` |
| `early` | `early` | | `offer` `transport` | `hope.is_some()` `transport.is_some()` |
| `sender.trans` `.pending` `.out` | `next_trans` `pending` `out` | | `beforeTransport` | `before_transport` |
| `version` | `server.version`, 0 for 1.0/1.2 | | `partials`, `events` | the reader's `partials`; `events` |

The rest is history and bounds: the real time `wall`, how many pushes came and were
handed over, what each trans was last used for (`sender.use`), when the login was
answered, the real time of the last send, and what was written `clear` and `sealed`.

| action | code |
|---|---|
| `Init` | `new`, `with_hope` (which takes a trans before the session starts) |
| `FeedMagic` `FeedHopeReply` `FeedLoginReply` `FeedReply` `FeedUnasked` `FeedEarly` | `feed` with the magic, or with a frame that completes a transaction, by state and type: `dispatch`, `hope_reply`, `login_reply`, `reply`, `agreement` |
| `FeedFragment` `FeedTooLarge` | `feed` with a frame that completes nothing, or is too large |
| `FeedUndecodable` `FeedClosed` | `feed` with ciphertext that cannot be read; `feed` once closed |
| `Tick(r)` | `tick`: `TickHandshake`, `TickLoggedIn` (the wait, then the keep-alive), `TickClosed` |
| `Disconnected` `TakeOutgoing` `SetIdentity` `Agree` `Expect` `SendRaw` `CallTakeTrans` | the method of that name |
| `Request(pend)` | every request method, by what it is remembered as |
| `Advance` | the real time passes |

The clock is the caller's: every `feed` and `tick` may read anything up to `Skew`
behind the real time, so that a reading may be older than the one before it, which
`clock()` must and does ignore. A send outside `feed` and `tick` is stamped at the
next reading, as in the code (`unstamped`); inside them it is stamped at once.

The server is any server: any frame of `Frames`, at any time, on any trans. A
reply before the login reply is the login's reply whatever its trans, as in the code.

What is abstracted. Events keep their kind and the trans or the number they are
about. A push keeps only its number, in order of arrival. A request keeps only what
its reply is remembered as: nothing, `Media` (a transfer and its like, whose
failure has an event of its own), `Call` (a room joined or an icon, which fails
plainly when its reply lacks what it must carry), `UserList` (every other kind that has
a success event of its own behaves like it), `Silent` (those that have none), `Raw`.
What an event carries is HxEvents.
`Session::feed` takes any number of frames: that is
feeding them one by one at the same time, with one difference, named in the
hazards: when ciphertext cannot be decoded, the frames of the same call are lost
with it. Events are polled dry between calls. Whether ciphertext decodes, HOPE's
steps can be built, or what a raw caller queued can be encoded is a choice.

**HxHope** is `hxhope`'s login. A setup says what a client offers, who it says it is,
what the server has and requires, and whose account it knows. `Offer` is `step1`,
`Answer` is `answer`, `Step2` is the client's `step2`, `Accept` is the server's `step2`
with `names` and `accept`; each is whole, with every refusal. There is one message on
its way at most, as the login is a conversation, and `Step1Altered`, `AnswerAltered`,
`Step2Altered` may, once each, lose fields of it or put another implementation's in
their place. An algorithm list is missing, of no bytes, one that does not parse, or its
labels: the cases that `alg.rs` tells apart. Keys and MACs are terms, equal only when
all they were made of is.

**HxTransport** is `transport.rs` and `compress.rs` as operators on one direction's
state: `Encode` (`Sender::encode`), `Decode` (`Receiver::decode`), `Idle`. A byte is a
cell that says what it is of and under which key and place in the keystream it is: a
cell read under any other is `Noise`, and noise where a header or a record is expected
ends the connection. Blowfish's state is its key, how often it has turned and where in
a block it is, so that an end that turns it one cell late reads noise. A record is a
length, its cells and a tag, under the record's number.

**HxConnection** composes them: `LogIn` is any step of HxHope, and gives the side it
establishes its transport; `Send(d, n)` encodes the next `n` cells of what a side has to
send, `Receive(d, n)` decodes the next `n` cells that have come, whatever they are of.
**HxPipe** is the abstract specification: in each direction, what was sent comes out.

**HxSidecar** is `hfsinfo_write`, the readers and `ResourceFork` over one AppleDouble
container, a table of entries and the bytes they describe:

| action | code |
|---|---|
| `WriteBegin` | `write_dbl_info` up to its first write: what it finds, and whether to write a first record, write in place, rewrite, or refuse |
| `MakeScratch` `CopyEntry` | `relayout_dbl`: the scratch file and each entry carried over |
| `WriteEntry` `WriteHeader` | `write_dbl_entries`, an entry a step, the header last |
| `Rename` | the scratch file takes the container's place |
| `ForkOpen` `ForkWrite` `ForkSeek` `ForkClose` | `resource_open` and the handle's methods |
| `Fail` `Stop` | any call fails; the program ends, what was written stays |

One `write_all` is one step. A handle and a metadata write interleave; two metadata
writes at once do not: the code takes no lock and leaves that to its caller. **HxRecord** is
what a reader is promised: each field is what some write wanted, and of a write that
rewrites the record all of it shows or none.

**HxWire** reads and writes numbers (as digits in base 256, so that 64 bits need no
large integers), fields and headers; a builder is given so many chunks and so many bytes
of scratch memory, as in the code, and writes its numbers there. **HxBuild**,
**HxMedia** and **HxMessaging** are the builders; **HxRequests** is `request.rs`, with
the room it gives each; **HxReplies** and the same two modules hold the readers;
**HxEvents** is what `dispatch`, `reply` and `login_reply` make of what these read.
**HxText**, **HxTracker**, **HxXfer** and **HxIce** are text and dates, the tracker, a
transfer's own connection, and what a call's descriptions and candidates say.

**HxCodecs** puts two ends around them. An `Ask...` action is a client that asks for
something through the builders; a `Tell...` is a server or a peer that says something in
the form a reader reads (what `hxproto` has no builder for is put together there, field
by field, as the reader takes it apart); `Extra` puts a field nobody knows anywhere into a
message on its way, as a newer peer would, but never between a listing's entry and the
64-bit size that belongs to it, which the code matches by place; `CutShort` loses the
end of it, at any byte; `Again` is the next message. Every reader is a function of its
bytes, so that one message is enough state.

## Runs

`session_*` and `find_*` are instances of `MCHxSession`. There, `VIEW Unpolled` leaves out `events`, which no
guard reads: two states that differ only in what the caller has just polled have the
same future. Action properties are checked on every step, before the view.

| run | what it asks | bounds |
|---|---|---|
| `session_core` | a HOPE session and a raw one without, servers of versions 0, 123 and 185 (not waited for; waited for and not pinged; both), whole frames, pushes, three kinds of agreement, a frame too large, time to 3 with a clock up to a unit behind, which can read no more than that: a later deadline overflows | 2 pushes, an early queue of 2, one call |
| `session_requests` | a plain session and a raw one that acts on everything itself, no clock; requests of three kinds, `take_trans` and `expect`, replies, replies that lack something and errors to any trans, splits of two lengths | trans 0..5, a table of 4, 2 partials, 3 calls |
| `session_table` | a plain session, requests that are awaited, that are not and trans taken, some of them answered | trans 0..7, a table of 6, 5 calls: once round the counter |
| `frames` | the reader, under streams of up to three frames of nine kinds (whole, less than a field count, with a size that says too little, splits of two lengths on two trans, empty, filled by their own fields, too large) or four fragments, in pieces of any size | heads of 2 cells, data of at most 3, one partial, compaction past 4 cells |
| `session_live` | plain, HOPE and raw sessions under a caller that ticks on time | time to 4, no calls |
| `hope` | 96 logins of two offers, four servers, two people and two accounts, with nothing altered, the first two messages altered, or the last two; and connections over every cipher and compression, each with up to two transactions each way, batched and cut anywhere | headers of 2 cells, bodies of 2 at most, blocks of 2, records of 2, rekeying by up to 2 rounds, decompression to 6 cells |
| `sidecar` | eight containers (none; cut; overlapping; four as this code and others lay them out; one without a fork), metadata written twice with shorter, longer and refused comments and forks, while a fork is opened, sought and written, and every step may fail or be the last | 2 metadata writes, 1 fork write, comments of 1 and a cell too many, forks of 2 |
| `codecs` | every builder and every reader, over numbers of no, one and two bytes and of 32 bits and past them, texts that fit and that do not, and each message whole, with a field too many at each place, cut at each byte, and the messages in groups with each field once more, or moved, at each place | fields of 100 bytes, path components of 5, 4 lines to a description |
| `find_*` | one property each, that a doc or comment states and the code does not keep | just enough for the case |

`session_core` shows that

- `PushesKept`, `PushesInOrder`: what arrives unasked is handed over once, in
  order, though it may wait for the login reply and though the login reply, its
  replay and the end of the wait for an agreement happen in one call;
- `SilentUntilSettled`: nothing but the agreement goes to a 1.5+ server before the
  agreement is settled or its wait is over;
- `PingAfterSilence`: no ping before a real silence of `Keepalive`, less what the
  clock may be behind;
- `TickExactlyAtDeadline`: before `next_deadline` a tick does nothing, at it or
  after it does something: a caller that sleeps until then neither hangs nor spins;
- `WaitEndsOnce`: the wait for an agreement does not outlive what settled it;
- `OnlyHandshakeInClear`: with HOPE, whatever was queued and whenever
  `take_outgoing` is called, only magic, step 1 and step 2 go in clear and they
  never go sealed;
- `ClosedIsFinal`: a closed session sends nothing and says nothing, except that it
  says once more that it is closed when it is fed what its transport cannot read.

`session_requests` shows that

- `AnswersMatchRequests`: an answer the caller is handed is to a request of its kind
  that has had none, though replies may be repeated, split, restarted, or be to
  nothing, and though the counter comes round;
- `OnePartialPerTrans`: two splits on one trans never wait together.

`session_table` shows that

- `PendingBounded`, `OwnForgetsOldest`: the table keeps its bound, and what it
  forgets is older than what it keeps (for sessions that number their own requests).

`frames` shows that

- `ReadsAsSent`: however the stream is cut into pieces, and whenever the reader is
  asked, it implements `HxStream`: the same transactions in order and with the same
  data, the same given up on, each reported once (refinement: what is given up on
  is what was taken and what still waits);
- `InStep`: what is left in the buffer is what has come since the last frame taken;
- `NothingHeldBack`: it asks for more only when the next frame is not all there;
- `IdleMeansWhole`: it is idle just when the stream ends between two frames and no
  split transaction waits;
- `BufferStaysSmall`: after a push the buffer holds what is outstanding, and as much
  as may be read before it is compacted.

`hope` shows that

- `BothRunTheSame`: a server that goes on runs what its client runs, under the same
  keys, whatever became of the offer and the answer on their way, if step 2 came as it
  was sent (its echo is under no MAC: lost or put back, it can part the two);
- `RequiredCipherKept`: a server that requires a cipher runs one of its own or does not
  go on, though the client never saw the pick or does not echo it, and whatever is done
  to step 2;
- `WithinOwnLists`: neither side runs what it does not have or did not choose;
- `FailsForAReason`: and the refusals are no wider than they need be: with nothing
  altered, a login ends only for want of something in common or for its credentials;
- `CarriesAsSent` (refinement of HxPipe), `QuietMeansDelivered`: whatever was agreed,
  what comes out is what went in, however it is batched and cut; nothing is held back
  but a transaction whose rest has not been passed to a marking sender;
- `TurnedTogether`: once the wire is quiet, both ends have turned the key equally often
  at the same cell and counted as many records;
- `FailsForItsSize`: a connection fails only for a transaction that Blowfish's framing
  does not take, or for more in one go than a decompressor may yield or hold.

`sidecar` shows that

- `ReadsAsRecord` (refinement of HxRecord): whenever a reader comes, each field is as
  some write wanted it, and of a first write or a rewrite it finds all or nothing;
- `ForkKept`: no metadata write, whole or given up, changes a byte of the recorded fork;
- `ForkBytesAreForks`: no fork is ever recorded over bytes of anything else;
- `OthersKept`: entries of other programs, and the tails of the entries this code
  writes the heads of, stay byte for byte;
- `UnreadableOnlyIfCut`: only a container's first write, cut short, leaves one that
  cannot be read;
- `RewrittenCanGrow`: after a rewrite the fork is last and can grow, wherever it was.

`codecs` shows that

- `BuiltAsGiven`: every request goes out whenever its builder's own checks allow it, for
  the room `request.rs` gives is enough, and reads back as the fields given, in order,
  with no number written over another in scratch memory;
- `ReadsBack`: what is told is read, in every form, whatever its numbers and however
  many of its optional parts are there, up to the events of the session; and a field
  nobody knows changes none of it;
- `NothingHalfRead`: of what lost its end only whole parts are read; and where a message
  in groups (a roster, held messages, friendships) has a field twice or elsewhere, each
  group that is read is what stands in that group, all of it and nothing else;
- `SizesWhole`: a size is never told by its low 32 bits;
- `TextKept`: what one client says another shows; no cut leaves half a character; a
  text comes back from its shortcodes;
- `SectionsMapped`: a description has a codec exactly if every open section of its
  medium names it among that section's own lines.

`session_live` shows `HandshakeEnds` and `AgreementSettles`: whatever the server
does, and if it does nothing, a session is answered or closed, and once answered
becomes ready or shows an agreement. Fairness is `WF(Advance)`, real time passes, and
`WF(DueTick)`, the caller ticks once `next_deadline` is past. That is the contract in
`next_deadline`'s documentation ("when to call `tick` next"), and nothing else is
assumed: not that the server answers, nor that the caller polls, drains, or agrees.

Why the bounds are enough. Timers compare the clock with one deadline at a time, so
distances of one or two units with a clock that reaches past each of them have every
order of events that larger ones have. Two pushes have an order and fill an
early queue of two, a third transaction (an agreement) overflows it. The table's
cut depends on the distance from the newest trans: the login's two requests and
four more fill a table of six at the last trans there is, and the fifth goes on
trans 1, so that the full table is cut across the counter's end (the step over 0
counts as one of the distance, there as in the code). A split of two fragments and one of three on the
same trans is a restart; two trans more fill the partials. A stream of three frames of two to five cells, in
pieces of one cell and more, ends inside a first, a middle and a last one at every
place there is; four fragments hold one transaction given up on for want of room,
one started over, and one completed after either.
In `hope` a header of two cells can be cut inside, a record of two holds less than a
header and body, so that records and transactions end at different places, and blocks
of two put the end of a transaction at each place in one; two transactions with
different rounds tell a key turned once too often, too late or not at all; what a
decompressor may yield is just less than the largest stream in one go. In `sidecar` a
second write finds what the first left at every step it may stop at; comments shorter
than, as long as and longer than allowed choose between writing in place and rewriting;
the entries come in every order that moves them. In `codecs` the numbers are those at
which a width or a missing field makes a difference, the longest text is one byte
longer than a field, the longest component one longer than a component.
The bounds of the model alone are `MaxTime`, `MaxCalls`, `MaxPushes`, `MaxWrites`,
`MaxForkWrites`, `MaxLines` and the sets `Frames`, `Versions`, `Configs`, `Scripts`,
`Setups`, `Answers`, `Echoes`, `Containers`, `Words`, `Longs`, `Texts`, `Paths`,
`Strings`, `Lines`. `TransSpace`, `MaxPending`, `MaxEarly`, `MaxPartials`,
`MaxTransaction`, `HeadLen`, `FieldCount`, `CompactAt`, `ClockMax` and the timeouts are the code's own limits made small. The
deadlines' overflow (`checked_add`, `None`) is `Never`. In `session_core` `ClockMax` is the
last time of the run, so that each timeout set late in it overflows, and one that wrapped
instead (`MutDeadline`) would ping too early; in the other runs it is above what
their deadlines reach. The proofs hold for any. `Hdr`, `CountLen`,
`MaxBody`, `MaxRounds`, `Block`, `MaxPlaintext`, `MaxOutput`, `MaxHeld`, `MaxComment`,
`MaxEntries`, `MaxLength`, `MaxOffset`, `MaxField`, `MaxComponent`, `MaxCredential` and
`INFO_TEXT_CAP` are limits of the code made small, too.

Deadlock is checked everywhere but in `hope` and `sidecar`: a session can always be
drained or fed, and a message followed by another; but a login may be refused for good
and a connection have nothing left to send, and the bounds on writes may be used up.

## Where the code and its documentation disagree

Each has a run whose property is what is written, and whose counterexample is what
happens.

1. `find_restart`: a raw caller `expect`s the reply on a trans; the server starts a
   split reply, starts it over, and completes it. The caller is handed
   `Event::Failed` for the first and then the whole reply as `Event::Reply`, which
   `expect`'s documentation says never comes.
2. `find_awaiting`: an agreement with text that comes after the wait for one leaves
   `awaiting_agree` set in a session that is ready and goes on sending, which the
   field's comment says it does not.
3. `find_forget`: `expect` on a trans taken earlier, with the table full, forgets
   what is *newer* than that trans; `MAX_PENDING`'s comment says the oldest are
   forgotten.
4. `find_empty`: an empty agreement with a nick too long for its field is not
   answered, and the session is neither ready nor waiting for anything after it.

Smaller ones, met while reading, that no run is spent on:

- `inline_media.rs` says its builders return 0 for a declared type longer than a field;
  the code leaves the type out. Its comment that the default cap of 256 KB is well under
  `u16::MAX` is not so.
- `emoji_table.rs:17` says the encoder tries the longest sequence first, down to one;
  the code grows from one upward and keeps the longest match, with the same result.
- `Transport::idle` says that a stream that ends when it is idle ends between units; with
  gzip or Zstandard `Decompressor::idle` is true in the middle of one, too.
- Blowfish's framing refuses a fragment whose `DataSize` is less than the field count's
  two bytes, which `FrameReader` takes when it comes in the clear.
- `cap::VIDEO` is "never agreed without `VOICE`" by what the session offers, but what a
  server says in return is not held against that.

## Proofs

For every value of the constants that satisfies the modules' assumptions:

- `TransAssumption`: there is a trans other than 0, and room for two in the table
  (with room for one, the cut to the recent half would leave no room to add);
- `PartialsAssumption`: the limits are positive;
- `SessionAssumption`: the constants are of their types, frames carry trans in range,
  and `TransSpace > 3`: the session starts at trans 2;
- `FramesAssumption`: a head and a field count are not empty, a script is a sequence of
  frames, and a fragment that is whole has its field count at least, as `is_whole()`
  asks of it;
- `HopeAssumption`: what is offered, had and required is of the algorithms there are, and
  an altered message is still that message;
- `TransportAssumption`: the limits are naturals, and a header, a keystream's block and a
  record hold something;
- `ConnectionAssumption`: what is sent is a sequence of transactions, each with a natural
  data size and a marker of no more than `MaxRounds` rounds: a sender draws its
  rounds in six bits;
- `MaxFieldAssumption`: the longest field, 65535 in the code, is one at least and fits the
  16 bits of its size;
- `SidecarAssumption`: the limits are naturals, and a new container's four entries are no
  more than a table may have;
- `ContainersAssumption`: what is at a sidecar's path at first is any table and any bytes,
  by whatever program; but in one that can be read, a byte that is no entry's and not the
  header's was never one of those (it is left of a fork, or nothing's). The model says what
  a byte is of, and a byte of a file has one owner.

### The session

`InvariantHolds` proves `Spec => []IInv`, where

    IInv == TypeOK /\ PendingBounded /\ CountsUp(sender) /\ OnePartialPerTrans
            /\ Unsettled /\ ReplayedOnce /\ WaitEndsOnce /\ PushesKept

and the theorems `TypeCorrect`, `PendingStaysBounded`, `PartialsStayTidy`,
`WaitEndsForGood` and `PushesAreKept` are its parts. Why the parts lean on each other:

- `TypeOK` holds the table's type, without which `PendingBounded` says nothing of
  `remember()`. That the cut leaves room is the lemma `RecentIsHalf`: at most
  `MaxPending \div 2` trans are within `MaxPending \div 2` of the newest, since
  `Since(newest, _)` is injective (`SinceInjective`);
- `CountsUp(sender)`: 0 is never handed out, and what is awaited was. Until the counter
  has come round, the trans handed out are those whose `Place` comes before the
  counter's, none twice, and each that is awaited is awaited as what it was handed
  out for (`HandedCounts`, `OthersCount`, `PlaceCounts`);
- `OnePartialPerTrans` is not inductive from the reader's point of view alone: that
  a continued partial keeps its place, and a restarted one loses it, needs that no
  other has its trans (`OneOnTrans`, `ContinuedIsRestarted`);
- `WaitEndsOnce` needs `Unsettled`: the login reply starts the wait, and only an
  unsettled session may have one started;
- `PushesKept` needs `ReplayedOnce`: after the login nothing waits in `early`, so that
  what arrives is handed over in the same call; and the replay must empty it.

What a frame does to the partials is one theorem, `AcceptAccounts`, that the session and
the reader share: they stay typed, bounded and one to a trans (`AcceptKeepsTidy`); at
most one transaction is complete, the frame's own (`Finished`: then the partials are as
they were) or the one partial that it was the last fragment of, on which nothing waits
any longer (`DoneOnce`); and a partial is completed, continued in its place, or its
trans told of as given up (`NoneLost`), which is told only of what waited and no longer
does (`GivenUp`).

Each proof has one step per action that can disturb its part, and the lemmas
`...Keeps` say once what a send, an answer or a taken trans keeps of the sender.

On top of it the module proves

- `ClosedForGood`, that is `Spec => ClosedIsFinal`: one step per action, and the
  facts that no call leaves `Closed` and that every send is guarded by a live session;
- `HandshakeAloneInClear`, that is `Spec => []OnlyHandshakeInClear`, with
  `HopeDivides`: with HOPE and before the transport, what is queued is the handshake
  alone; with the transport, `beforeTransport` divides the queue into the handshake's
  and what goes as ciphertext. Every action either adds to the queue's end
  (`QueueStep`) or leaves it alone (`QuietStep`), or is `BeginTransport` or `TakeOutgoing`;
- `HandedInOrder` (`PushesInOrder`) with `EarlyInOrder`: what waits for the login reply is
  what has been numbered and not handed over, in order (`Numbering`). An arrival keeps
  that (`NumberingAppend`), the replay hands over just that (`ReplayHands`), by a run
  over the flattened events (`FlattenHands`), and no other call hands anything over
  (`OtherHands`);
- `PingsAfterSilence` (`PingAfterSilence`) with `Stamped`: a stamp is no more than
  `Skew` behind the last real send;
- `DeadlineIsExact` (`TickExactlyAtDeadline`): by cases on the state, the deadlines
  that overflow (`Never`) among them;
- `SilenceUntilSettled` (`SilentUntilSettled`) with `WaitFromLogin`: the wait runs
  from the login's answer, and a 1.5+ session is ready only once it has agreed or
  has waited that long.

Two more are about the time until the counter has come round, `[]~Lapped`: some trans,
of 2^32 - 1 in the code, has not been handed out yet. A trans that is handed out again
while its first use is awaited takes the place of that one in the table, and neither
property is claimed from there on.

- `AnswersAlwaysMatch` is `Spec /\ []~Lapped => AnswersMatchRequests`. What is awaited on a
  trans is what it was for (`AwaitedFor`), each way to an answer takes its entry out of
  the table (`ReplyMatches`, `AbandonMatches`), and what comes unasked is never an
  answer (`UnaskedMatches`);
- `OldestForgotten` is `Spec /\ []~Lapped => OwnForgetsOldest`. Until the counter comes
  round, `wrapping_sub` measures how many places two trans are apart, but for the 0 that
  is skipped (`SincePlaces`), so that a cut of the table is at one place: all that
  goes was handed out before all that stays (`CutsAt`). A call may send more than
  once, and a later cut is no further back than an earlier one (`Follows`,
  `FollowsOn`, `SendFollows`).

Each strengthening was first checked as an invariant of `session_core`, and `CountsUp`
of `session_table` and `session_requests` too, where tables fill up.

### Folds

The models fold over sequences: a call's loop, a list of algorithms, what a
`take_while` keeps. `HxFoldProofs` shows that `FoldLeft` runs its operator along the
list: there is a function on `0 .. Len(list)` that starts at the base, steps by the
operator, and ends at the fold (`Steps`, `StepByStep`, `FoldSteps`); so does
`FlattenSeq`, which joins (`FlattenSteps`). `UpTo` is
induction along such a run, by the least element of a set of naturals. That `FoldLeft`
removes the greatest of a set of positions each time is what makes the two agree
(`GreatestLast`). With them a theorem about a fold is a theorem about one step of it.

Folds of any operator are functions once their step is named (`FoldExists`,
`AfterAll`), so that a theorem may go along one element at a time; and a join of
`p \o q` is the two joins (`FlattenConcat`). The same
runs give induction over a sequence, one element at a time, for the sets that the
proofs need (`SeqInduct`).

### The reader

`AlwaysReadsAsSent` is `Spec => ReadsAsSent`, that the reader implements HxStream,
whatever the script and however it is cut into pieces: a step of HxFrames is a step of
HxStream's (`Take(n)`, which is what a call comes to that took n frames) or a stutter.
Its invariant is

    FramesInv == StreamInv /\ (types) /\ (result = "more" => NextMissing(taken))

where `StreamInv` places the reader in the stream: what is in `buf` from `at` on is what
the stream has between the end of the frames taken and what has been pushed
(`Placed(at, taken)`). A call is a fold of `OneFrame`, and the proof follows it round
by round (`Calling`): where the call is in the buffer, and that HxStream's reader, having
taken as many of the frames ahead, stands where the call does (`Follows`). Two
facts carry it: a frame that is all there is read as it was sent
(`FramesOnWire`, on where a concatenation's parts lie), and each round but the last
takes a frame, so that `Len(buf) + 1` rounds end every call (`LoopEnds`).

From the same invariant follow `AlwaysInStep`, `AlwaysIdleMeansWhole`,
`NothingEverHeldBack` and `BufferAlwaysStaysSmall`.

### The login

`HxConnectionProofs` proves first four of the login's properties for any sets of algorithms, any
offers and policies, and any answers and echoes another implementation may put in a
message's place; that both run the same, only if step 2 came as it was sent. The invariant is

    HopeInv == Shaped /\ ClientAgreed /\ ServerAgreed /\ SaysWhatRuns /\ BothRunTheSame

- `ClientAgreed`: a client that is established runs what it offered; it is what `step2()`
  accepts of an answer, whoever wrote it;
- `ServerAgreed`: what a server picked is its own, and a cipher if it requires one, from
  its answer on, since its second step only compares;
- `SaysWhatRuns`: a step 2 on its way comes from a client that is established, and, unless
  it has been altered, says what that client runs and proves the MAC with it;
- `BothRunTheSame` needs it at the server's second step: the names it compares with its
  own are the client's, or else the MAC would not fit.

`AlwaysFailsForAReason` needs another, `UndisturbedInv`: as long as nothing was altered,
each message is the one that the peer's state makes, so that a refusal has a reason in the
setup: no MAC in common, a cipher that is required and not offered, a credential that is
not the account's.

### The connection

`HxTransportProofs` is about one direction, a `Sender` and a `Receiver` as values, and
`HxConnectionProofs` puts two of them on a login. The four theorems about that are

    QuietAlwaysMeansDelivered  Spec => []("step2" \notin altered => QuietMeansDelivered)
    AlwaysTurnedTogether       Spec => []("step2" \notin altered => TurnedTogether)
    AlwaysFailsForItsSize      Spec => []("step2" \notin altered => FailsForItsSize)
    AlwaysCarriesAsSent        Spec /\ []("step2" \notin altered) => CarriesAsSent

for any transactions, sizes, markers and limits, and any batching and cutting. What they
ask of the login is that step 2 came as it was sent, as `BothRunTheSame` does: with a
pick lost from the answer and put back into step 2's echo, which no MAC covers, the server
runs what the client does not. The offer and the answer may be altered; the connection
carries what was agreed all the same. The streams of `hope`'s instance have no altered
step 2, so that the run needs no such condition.

The invariant is

    ConnectionInv == HopeInv /\ LinkShaped
                     /\ ("step2" \notin altered => \A d \in Directions : DirectionInv(d))

A side that is not established has an unset transport, which nothing has gone through; once
the client is, each direction is `Flowing`, with the transport that a side will start with
in place of one it has not yet (`SenderAt`, `ReceiverAt`: the server may be established
after the client has sent). `Flowing` says that what came out, what the receiver would
make of what is on its way, and what the sender keeps are what went in:

- `Carries(K, r, ws, s, raw)`: what is on its way, `ws`, opens at the receiver to `raw`, in any
  cutting, and leaves it where the sender is. Cipher by cipher that is that a stream's
  seal and unseal step together (`UnsealedSealed`); that a marked frame, whose head has the
  rounds by which the key turns behind it, opens in any pieces to what was sealed
  (`FramesOpened`, with `CutLaw`: two calls are one on both pieces); and that records open
  each with its own count, the last as soon as its last cell has come (`RecordsOpened`,
  `PiecesJoined`);
- `Rest(compression, held, raw)`: what decompression will make of it with what it holds.
  LZ4 yields nothing until a unit ends, the others yield as they go;
- `Misfit` and `Overfull`: why a side that failed did. When a sender has failed, what it
  had sent before is still on its way and still comes out, so that the condition is on the
  sender as it was then (`s0`).

`FlowingSend` and `FlowingReceive` keep it, and `FlowingQuiet` is what it comes to with nothing
on its way: the receiver holds nothing, and the two have the same key, keystream
and count (`QuietInStep`). `StepPipes` is the refinement of HxPipe: a step is HxPipe's `Send` or `Receive`
of one direction, or a stutter. The invariant's parts were first checked as an invariant of
`hope`'s instance.

### The sidecar

All six properties of `sidecar` are theorems, for any containers, comments and lengths,
any number of writes, and a stop anywhere. Most lean on

    SidecarInv == TypeOK /\ ContainerOK(container) /\ UnreadableOnlyIfCut
                  /\ HandleOK(fork, container)
                  /\ WriterOK(writer, container) /\ MadeOK(writer, container, scratch)

- `ContainerOK`: in a container that can be read, a byte that is not the header's nor of
  an entry that is no fork is a fork's (`Parted`). `ForkBytesAreForks` is that, read
  through the table; it is kept because every write is either where no fork is or of a
  fork's bytes (`KeepsParted`), and a length is recorded only where entries stay apart;
- `HandleOK`: whatever a handle may yet write, no entry and no header is there. This is
  what `Room` is for, and why a rename must let go of the handle;
- `WriterOK`: what a write found is still there when it goes on: the tables it goes from
  and to are the container's, with the new length, and still fit it;
- `MadeOK`: a file that is being made has every entry that is done, whole, so that the
  header, last, makes it readable. A write cut short before then leaves a container
  without a record, hence `UnreadableOnlyIfCut`.

`MovedInv` adds what the bytes are: what a write has written is there (`WrittenOK`), and
what a rewrite has copied is what the old file still has (`CopiedOK`); with a handle that
writes to the fork during the rewrite, all but the fork.

From the two, `StepCarries`: a step leaves the container, makes a record where there was
none, or carries on what was there entry for entry (`Carried`). `AlwaysOthersKept` and
`AlwaysForkKept` are what a reader makes of that, and `AlwaysReadsAsRecord`, the
refinement of HxRecord, adds that each step shows the fields of one entry, or of all of
them, as wanted (`EntryShows`, `FreshShows`, `RenameShows`), or none (`NothingShown`).

`AlwaysRewrittenCanGrow` has a hypothesis of its own: no container at first has two forks.
Of two, `resource_open` takes the first, and the other is behind it after a rewrite, so
that the first cannot grow; this code never makes a second. Its invariant `GrowInv` is
that the scratch file is never longer than its fork will be far (`ForkIsLast`).

### A message's bytes

`HxWireProofs` has no behaviour to go along: its theorems are about the operators that
every builder and reader of hxproto is made of, for bytes and fields of any number and
length.

- `PackedReadsBack`: what `pack_message()` makes, if the message fits and no field is too
  long, is `pack_message_size()` long, and `ChunkIter` and `Header::parse` read of it the
  fields, type, transaction and flag it was given, and the number of fields;
- `CutReadsWholeFields`: of its first `n` bytes just the fields are read that are all there;
- `ReadsWhatIsThere`: of any bytes, whoever wrote them, the fields that are read are made
  of the very bytes behind the header, up to a place where no whole field stands;
- `CutReadsFirstFields`: and of any bytes that lost their end, the first of the fields are
  read that all of them read as. No byte that did not come makes a field.

The first two are about the messages that are made: a field that is too long, or too
little room, makes none.

A number goes as its digits, and its leading zeros are lost and found again (`ValueIs`,
`ValueOfWide`, `WideOfValue`); an integer is three digits (`NumIs`, `SizeOfNum`). `ChunksAt`
is a walk along the bytes that exists for any bytes, since a field that is there moves it
on (`WalksOn`, `WalkExists`), so that each place has one step (`ChunksStep`). What
`PutChunk` writes is one such step wherever it stands (`FieldReads`), and some fields are
as many (`FieldsRead`, by induction over them, the last field first). A part of a field is
none (`PartEnds`), hence `SomeRead` about a cut. That the cut may be of any bytes follows from
the same: what was read, written again, is the very bytes (`ReadsSomewhere`). The header's reader is a
fold over its layout, and its six numbers are six of its steps (`ReadIsAfter`, `OneMore`,
`HeaderReads`); `pack_message_size()` is a fold too, and as long as the bytes (`SizeIsLength`).

The walk's step was written inside of `ChunksAt`; the theorems made it four operators
(`Ends`, `U16At`, `FieldAt`, `Behind`), by what `next()` asks, reads and moves to.

### What is left to TLC

- `AnswersMatchRequests` and `OwnForgetsOldest` once every trans has been handed out.
- The codecs (`BuiltAsGiven`, `ReadsBack`, `NothingHalfRead`, `SizesWhole`, `TextKept`,
  `SectionsMapped`). What their messages have in common, the header and the fields, is
  proved (`HxWireProofs`); but each message has a layout of its own inside
  of its fields, and its reader recursion and folds of its own, which the run checks on the
  values that the layouts tell apart.
- The liveness properties (`HandshakeEnds`, `AgreementSettles`): fairness and `ENABLED` are beyond the prover.

## Not modelled, and why

- `Session::tap` and `roster_trans`: they copy or name what passes.
- What each request method refuses by what the server can do, and what it awaits: a
  request is remembered as one of HxSession's kinds, or not sent, as the run chooses.
- Counters that come round twice: that a trans is used again while its first use is
  still in the table needs 2^32 requests, which `remember()` has by then forgotten
  unless fewer than `MAX_PENDING` were ever awaited.
- The arithmetic of ciphers, hashes, MACs and key derivation: checked by test vectors; a
  finite model would say nothing. Keys for a transfer's own connection
  (`TransferKeys`) are derived and passed on.
- What a compressor does to bytes: its library's. A unit decompresses to what went in.
- The emoji table's entries: generated data, a constant of HxText; a JSON number's
  digits, which are one token.
- Metadata: the CAP layout (one record of fixed size in a file of its own), a comment
  written alone, and how a file's name becomes its sidecar's. A `write_all` torn in its
  middle, and writes that reach the disk out of order: a container is synced
  once, at the end of its write. A seek that fails within a file that is open, for which
  `write_dbl_entries` skips an entry's data. A handle that is open over a rewrite keeps the file that was replaced, in the
  model as in the code, and what is written through it afterwards is lost.
- A record's four bytes of length, a frame's head and the like in single bytes: each is
  as many cells as tell its cuts apart, and the length of a record is one, since a reader
  that has part of it waits as one that has none.
- The layout of C structures and pointers, formatting and logging.

## Plan

What is left, in this order.

1. The session against HxTransport and HxFrames instead of a choice, so that one feed
   holds several frames; and its request methods by what the server can do.
2. From HxWire's theorems, those of the readers one by one: that each builder's message
   reads back as the values it was given.

Done: HxTrans, HxPartials, HxSession, HxFrames, HxHope, HxTransport, HxConnection,
HxSidecar and HxWire with their theorems, and the codecs up to the session's events.
