----------------------------- MODULE HxSession -----------------------------
(***************************************************************************)
(* hxsession::Session: one client session over the control connection. The *)
(* session does no I/O; a caller feeds it what arrives, ticks it, takes    *)
(* what it wants sent and calls its request methods, in any order. Each    *)
(* action is one such call (feed is one action per kind of frame, because  *)
(* feeding several frames is feeding them one by one at the same time).    *)
(*                                                                         *)
(* The server is any server: it may answer any trans, refuse anything,     *)
(* send anything unasked, split what it sends and leave splits unfinished. *)
(***************************************************************************)
EXTENDS HxTrans, HxPartials, SequencesExt

CONSTANTS
  Configs,           \* what Session::new is given: [raw, hope, handled]
  Versions,          \* what a login reply may say of the server; 0 is 1.0/1.2
  PingVersion,       \* the version from which a server is kept alive, 150
  RequestKinds,      \* what the callers' requests are remembered as
  Frames,            \* the frames a server may send
  Nicks,             \* whether the nick fits a request: values it may take
  MaxEarly,          \* MAX_EARLY, 32 in the code
  ClockMax,          \* the largest time: 2^64 - 1 in the code
  HandshakeTimeout, AgreementWait, Keepalive,
  Skew,              \* how far the caller's clock may read behind
  MaxTime,           \* bound: the last reading of the clock
  MaxCalls,          \* bound: requests and trans the caller asks for
  MaxPushes          \* bound: what the server sends unasked, agreements apart

Domains == {"push", "login"}
Replies == {"reply", "short", "error"}          \* type TASK; flag & 1 is "error"
Agreements == {"text", "none", "missing"}       \* type AGREEMENT, by its body
Unasked == Agreements \cup {"push"}
\* Pending::Expected(..): a picture's part, "Media", and a room joined or an
\* icon, "Call", may be answered with a reply that lacks what it must carry.
Expects == {"UserList", "Media", "Call", "Silent"}
Pendings == {"Quiet", "Keepalive", "Raw"} \cup Expects

ASSUME SessionAssumption ==
  /\ Configs \subseteq [raw : BOOLEAN, hope : BOOLEAN, handled : SUBSET Domains]
  /\ Versions \subseteq Nat
  /\ PingVersion \in Nat \ {0}
  /\ RequestKinds \subseteq Pendings \cup {"none"}
  /\ Frames \subseteq Framed(Replies \cup Unasked, Trans, {0})
  /\ Nicks \subseteq BOOLEAN
  /\ MaxEarly \in Nat
  /\ ClockMax \in Nat /\ MaxTime \in 0 .. ClockMax
  /\ HandshakeTimeout \in Nat /\ AgreementWait \in Nat /\ Keepalive \in Nat
  /\ Skew \in Nat /\ MaxCalls \in Nat /\ MaxPushes \in Nat
  /\ TransSpace > 3

VARIABLES
  cfg,               \* Config: raw, handled, and whether with_hope made it
  nickFits,          \* cfg.nick: short enough for a request's field?
  st,                \* State
  early,             \* what came before the login reply
  sender,            \* trans, pending and out; use is history (see below)
  version,           \* server.version, 0 until the login is answered
  now, lastSent, unstamped,
  handshakeAt, agreementAt,      \* the deadlines; Never for None
  awaiting, agreed, ready,       \* awaiting_agree, agreed, ready
  offer, transport, beforeTransport,   \* hope, transport, before_transport
  partials,          \* the FrameReader's
  events             \* what the last call queued, which the caller then polls

\* The world outside, and what the properties remember.
VARIABLES
  wall,              \* the real time, of which now is the last reading
  calls,             \* how much of MaxCalls is used
  pushIn, pushOut,   \* how many pushes have arrived, and been handed over
  loginAt,           \* when the login was answered
  lastReal,          \* the real time of the last send
  clear, sealed      \* what was written as plaintext, and as ciphertext

timeVars   == <<now, lastSent, unstamped>>
settleVars == <<agreementAt, awaiting, agreed, ready>>
hopeVars   == <<offer, transport, beforeTransport>>
wireVars   == <<clear, sealed>>
pushVars   == <<pushIn, pushOut>>
vars == <<cfg, nickFits, st, early, sender, version, timeVars, handshakeAt, settleVars,
          hopeVars, partials, events, wall, calls, pushVars, loginAt, lastReal, wireVars>>

----------------------------------------------------------------------------
(* Time. A deadline that does not fit a u64 is None: it is never reached.  *)

Never == ClockMax + 1

\* Deadline, were the sum to wrap.
MutDeadline(from, wait) == (from + wait) % (ClockMax + 1)

\* A deadline too far to add is none.
Deadline(from, wait) == IF from + wait > ClockMax THEN Never ELSE from + wait

\* What the caller's clock may read.
Readings == {r \in 0 .. wall : r + Skew >= wall}

\* clock(): the time only moves forward, and a send since the last reading
\* is stamped with this one. A send within the call is stamped now.
NowAt(r) == IF r > now THEN r ELSE now

Clock(r, sends) ==
  /\ now' = NowAt(r)
  /\ lastSent' = (IF sends \/ unstamped THEN NowAt(r) ELSE lastSent)
  /\ unstamped' = FALSE
  /\ lastReal' = (IF sends THEN wall ELSE lastReal)

\* The stamp, were it taken from the last reading of the clock.
MutStampLater ==
  /\ lastSent' = now
  /\ lastReal' = wall
  /\ UNCHANGED <<now, unstamped>>

\* stamp_sent() outside feed and tick.
StampLater ==
  /\ unstamped' = TRUE
  /\ lastReal' = wall
  /\ UNCHANGED <<now, lastSent>>

Pings == version >= PingVersion

\* keepalive_due(), of a session that last sent at stamp.
KeepaliveDue(isReady, stamp) ==
  IF isReady /\ Pings THEN Deadline(stamp, Keepalive) ELSE Never

\* next_deadline(), were the states before the login taken for Login alone.
MutNextDeadline ==
  CASE st = "LoggedIn" -> IF KeepaliveDue(ready, lastSent) < agreementAt
                            THEN KeepaliveDue(ready, lastSent) ELSE agreementAt
    [] st = "Login"    -> handshakeAt
    [] OTHER           -> Never

\* next_deadline(): when tick next has something to do.
NextDeadline ==
  LET ping == KeepaliveDue(ready, IF unstamped THEN now ELSE lastSent)
  IN  CASE st = "Closed"   -> Never
        [] st = "LoggedIn" -> IF ping < agreementAt THEN ping ELSE agreementAt
        [] OTHER           -> handshakeAt

----------------------------------------------------------------------------
(* Sending: take_trans(), remember() and send_frame(). use is history: what *)
(* each trans was last given out for, then "done" once that was answered,   *)
(* or "cut" where what was expected failed for its split reply's sake.      *)

Uses == Pendings \cup {"free", "taken", "none", "done", "cut"}

Sent == {"magic", "step1", "step2", "login", "user_change", "agree", "user_list", "ping",
         "request", "raw"}

Sender(trans, pending, out, use) ==
  [trans |-> trans, pending |-> pending, out |-> out, use |-> use]

TakeTrans(s) ==
  Sender(NextTrans(s.trans), s.pending, s.out, [s.use EXCEPT ![s.trans] = "taken"])

Send(s, what, pend) ==
  Sender(NextTrans(s.trans),
         IF pend = "none" THEN s.pending ELSE Remember(s.pending, s.trans, pend),
         Append(s.out, what),
         [s.use EXCEPT ![s.trans] = pend])

SendIf(cond, s, what, pend) == IF cond THEN Send(s, what, pend) ELSE s

\* What is left of the request on t, once it is settled.
After(s, t, how) == IF how = "cut" /\ s.pending[t] \in Expects THEN "cut" ELSE "done"

UseAfter(s, ts, how) ==
  [t \in DOMAIN s.use |->
     IF t \in ts \cap DOMAIN s.pending THEN After(s, t, how) ELSE s.use[t]]

\* Settled, were the entry left in the table.
MutSettled(s, ts, how) == Sender(s.trans, s.pending, s.out, UseAfter(s, ts, how))

\* The replies on ts have come, or (how = "cut") were cut short.
Settled(s, ts, how) ==
  Sender(s.trans, Forget(s.pending, ts), s.out, UseAfter(s, ts, how))

Expected(s, t, what) ==
  Sender(s.trans, Remember(s.pending, t, what), s.out, [s.use EXCEPT ![t] = what])

Emptied(s) == Sender(s.trans, NothingPending, s.out, s.use)

Event(e, id) == [e |-> e, id |-> id]

\* close()
Close(why, before) ==
  /\ st' = "Closed"
  /\ sender' = Emptied(sender)
  /\ events' = Append(before, Event(why, 0))

Closings == {"BadMagic", "LoginRefused", "Timeout", "Protocol", "TooLarge", "Hangup"}

----------------------------------------------------------------------------
(* Answers: the event a reply becomes.                                     *)

\* fail()
FailEvent(t, p) == Event(IF p = "Media" THEN "MediaFailed" ELSE "Failed", t)

\* A trans whose split reply was given up on.
AbandonEvents(t) ==
  LET p == Awaited(sender.pending, t)
  IN  IF p \in {"none", "Keepalive"} \/ (cfg.raw /\ p \notin Expects) THEN <<>>
      ELSE <<FailEvent(t, p)>>

SuccessEvents(type, t, p) ==
  CASE p = "Raw"      -> <<Event("Reply", t)>>
    [] p = "UserList" -> <<Event("UserList", t)>>
    [] p = "Media"    -> <<Event(IF type = "short" THEN "MediaFailed" ELSE "MediaDone", t)>>
    [] p = "Call"     -> <<Event(IF type = "short" THEN "Failed" ELSE "CallDone", t)>>
    [] OTHER          -> <<>>

\* reply(), once logged in. A reply without what it must carry is "short".
ReplyEvents(type, t) ==
  LET p == Awaited(sender.pending, t)
  IN  IF p = "Keepalive" THEN <<>>
      ELSE IF cfg.raw /\ p \notin Expects THEN <<Event("Reply", t)>>
      ELSE IF type = "error" THEN <<FailEvent(t, p)>>
      ELSE SuccessEvents(type, t, p)

----------------------------------------------------------------------------
(* What comes unasked: q is one transaction just received, or those that   *)
(* came before the login reply, replayed in order. login_reply() and        *)
(* dispatch() take them one by one; at most one of them, Answered(q), is     *)
(* an agreement that is answered, so the outcome is written down at once.   *)

Push(id) == [type |-> "push", id |-> id]
Agreement(type) == [type |-> type, id |-> 0]

\* Config::handled, for what a raw session acts on itself.
Handles(type) == type = "push" /\ "push" \in cfg.handled

\* An agreement that is answered at once by a server of version v: one with
\* no text, unless a 1.0/1.2 server has no agreement in it.
AnsweredAtOnce(type, v) == type = "none" \/ (type = "missing" /\ v # 0)

\* The first of q that send_agree() is called for and can be built; 0 for none.
Answered(q, v) ==
  LET at == {i \in DOMAIN q : AnsweredAtOnce(q[i].type, v)}
  IN  IF agreed \/ ~nickFits \/ at = {} THEN 0 ELSE Min(at)

UnaskedEvents(q, k, i) ==
  (IF cfg.raw /\ ~Handles(q[i].type) THEN <<Event("Unhandled", q[i].id)>>
   ELSE IF q[i].type = "push" THEN <<Event("Push", q[i].id)>> ELSE <<>>)
    \o (IF q[i].type = "text" /\ ~agreed /\ (k = 0 \/ i < k) THEN <<Event("Agreement", 0)>>
        ELSE <<>>)
    \o (IF i = k /\ ~ready THEN <<Event("Ready", 0)>> ELSE <<>>)

Pushes(q) == Cardinality({i \in DOMAIN q : q[i].type = "push"})

\* The agreement, in s: send_agree() and after_agreement().
AgreeIf(cond, s) ==
  SendIf(cond /\ ~ready /\ ~cfg.raw, SendIf(cond, s, "agree", "Quiet"), "user_list", "UserList")

\* WaitAfter, were the wait left running.
MutWaitAfter(agreements, at) == at

\* agreement() settles the wait, whatever it says.
WaitAfter(agreements, at) == IF agreements = {} THEN at ELSE Never

\* The session after q from a server of version v: s is what it has sent and at
\* its agreement_deadline by then.
TakeUnasked(q, v, s, at) ==
  LET k == Answered(q, v)
      agreements == {i \in DOMAIN q : q[i].type \in Agreements}
  IN  [agreementAt |-> WaitAfter(agreements, at),
       awaiting |-> k = 0 /\ (awaiting \/ (~agreed /\ \E i \in agreements : q[i].type = "text")),
       agreed |-> agreed \/ k # 0,
       ready |-> ready \/ k # 0,
       sender |-> AgreeIf(k # 0, s),
       events |-> FlattenSeq([i \in DOMAIN q |-> UnaskedEvents(q, k, i)])]

----------------------------------------------------------------------------
(* Init: Session::new and Session::with_hope.                              *)

Init ==
  /\ cfg \in Configs /\ nickFits \in Nicks
  /\ st = "Magic" /\ early = <<>>
  /\ sender = LET s == Sender(2, NothingPending, <<"magic">>, [t \in Trans |-> "free"])
              IN  IF cfg.hope THEN TakeTrans(s) ELSE s
  /\ version = 0
  /\ now = 0 /\ lastSent = 0 /\ unstamped = FALSE
  /\ handshakeAt = Deadline(0, HandshakeTimeout)
  /\ agreementAt = Never /\ awaiting = FALSE /\ agreed = FALSE /\ ready = FALSE
  /\ offer = cfg.hope /\ transport = FALSE /\ beforeTransport = <<>>
  /\ partials = <<>> /\ events = <<>>
  /\ wall = 0 /\ calls = 0 /\ pushIn = 0 /\ pushOut = 0
  /\ loginAt = Never /\ lastReal = 0 /\ clear = {} /\ sealed = {}

----------------------------------------------------------------------------
(* feed()                                                                  *)

\* The server's magic, good or not: the login or HOPE's step 1 goes, on trans
\* 1, and can step 1 not be built, the session ends.
FeedMagic ==
  /\ st = "Magic"
  /\ \E r \in Readings :
       \/ /\ Close("BadMagic", <<>>)
          /\ Clock(r, FALSE)
       \/ /\ offer
          /\ Close("Protocol", <<>>)
          /\ Clock(r, FALSE)
       \/ /\ st' = (IF offer THEN "HopeStep1" ELSE "Login")
          /\ sender' = [sender EXCEPT !.out = Append(@, IF offer THEN "step1" ELSE "login")]
          /\ events' = <<>>
          /\ Clock(r, TRUE)
  /\ UNCHANGED <<cfg, nickFits, early, version, handshakeAt, settleVars, hopeVars, partials,
                 wall, calls, pushVars, loginAt, wireVars>>

\* Ciphertext that cannot be read ends the session, whatever its state.
FeedUndecodable ==
  /\ transport
  /\ \E r \in Readings : Clock(r, FALSE)
  /\ Close("Protocol", <<>>)
  /\ UNCHANGED <<cfg, nickFits, early, version, handshakeAt, settleVars, hopeVars, partials,
                 wall, calls, pushVars, loginAt, wireVars>>

\* A closed session reads nothing.
FeedClosed ==
  /\ st = "Closed"
  /\ \E r \in Readings : Clock(r, FALSE)
  /\ events' = <<>>
  /\ UNCHANGED <<cfg, nickFits, st, early, sender, version, handshakeAt, settleVars, hopeVars,
                 partials, wall, calls, pushVars, loginAt, wireVars>>

Listening == st \in {"HopeStep1", "Login", "LoggedIn"}

FeedTooLarge ==
  /\ Listening
  /\ \E f \in Frames : TooLarge(f)
  /\ \E r \in Readings : Clock(r, FALSE)
  /\ Close("TooLarge", <<>>)
  /\ UNCHANGED <<cfg, nickFits, early, version, handshakeAt, settleVars, hopeVars, partials,
                 wall, calls, pushVars, loginAt, wireVars>>

\* A fragment that completes nothing. The requests whose replies it takes the
\* place of fail.
FeedFragment ==
  /\ Listening
  /\ \E r \in Readings : Clock(r, FALSE)
  /\ \E f \in Frames :
       LET o == Accept(partials, f)
       IN  /\ ~TooLarge(f) /\ o.done = <<>>
           /\ partials' = o.partials
           /\ sender' = Settled(sender, ToSet(o.abandoned), "cut")
           /\ events' = FlattenSeq([i \in DOMAIN o.abandoned |-> AbandonEvents(o.abandoned[i])])
  /\ UNCHANGED <<cfg, nickFits, st, early, version, handshakeAt, settleVars, hopeVars,
                 wall, calls, pushVars, loginAt, wireVars>>

\* A frame that completes a transaction, and the transaction.
Completes(f) ==
  /\ Listening
  /\ ~TooLarge(f) /\ Accept(partials, f).done # <<>>
  /\ partials' = Accept(partials, f).partials

Completed(f) == Accept(partials, f).done[1]

\* What is unasked is numbered in the order it arrives, up to the bound.
Number(type) ==
  /\ type = "push" => pushIn < MaxPushes
  /\ pushIn' = pushIn + (IF type = "push" THEN 1 ELSE 0)

Numbered(type) == IF type = "push" THEN Push(pushIn + 1) ELSE Agreement(type)

\* EarlyFull, were the limit one more.
MutEarlyFull == Len(early) > MaxEarly

EarlyFull == Len(early) >= MaxEarly

\* dispatch() before the login is answered: what is unasked waits for it, up
\* to a limit.
FeedEarly ==
  /\ st \in {"HopeStep1", "Login"}
  /\ \E r \in Readings : Clock(r, FALSE)
  /\ \E f \in Frames :
       /\ Completes(f) /\ Completed(f).type \in Unasked
       /\ Number(Completed(f).type)
       /\ \/ /\ EarlyFull
             /\ Close("Protocol", <<>>)
             /\ UNCHANGED early
          \/ /\ ~EarlyFull
             /\ early' = Append(early, Numbered(Completed(f).type))
             /\ events' = <<>>
             /\ UNCHANGED <<st, sender>>
  /\ UNCHANGED <<cfg, nickFits, version, handshakeAt, settleVars, hopeVars,
                 wall, calls, pushOut, loginAt, wireVars>>

\* BeginTransport, were step 2 queued as any other request is.
MutBeginTransport ==
  /\ sender' = [sender EXCEPT !.out = Append(@, "step2")]
  /\ offer' = FALSE /\ transport' = TRUE
  /\ UNCHANGED beforeTransport

BeginTransport ==
  /\ beforeTransport' = Append(beforeTransport \o sender.out, "step2")
  /\ sender' = [sender EXCEPT !.out = <<>>]
  /\ offer' = FALSE /\ transport' = TRUE

\* hope_reply(): step 2 goes as it is, after everything queued before it; what
\* follows goes through the transport. A reply step 2 cannot be built from
\* ends the session.
FeedHopeReply ==
  /\ st = "HopeStep1"
  /\ \E f \in Frames, r \in Readings :
       /\ Completes(f) /\ Completed(f).type \in Replies
       /\ \/ /\ Completed(f).type = "error"
             /\ Close("LoginRefused", <<>>)
             /\ Clock(r, FALSE)
             /\ UNCHANGED hopeVars
          \/ /\ Completed(f).type # "error"
             /\ Close("Protocol", <<>>)
             /\ Clock(r, FALSE)
             /\ offer' = FALSE
             /\ UNCHANGED <<transport, beforeTransport>>
          \/ /\ Completed(f).type # "error"
             /\ st' = "Login"
             /\ BeginTransport
             /\ events' = <<>>
             /\ Clock(r, TRUE)
  /\ UNCHANGED <<cfg, nickFits, early, version, handshakeAt, settleVars,
                 wall, calls, pushVars, loginAt, wireVars>>

\* Whether the login's reply is also handed over whole.
LoginWhole == cfg.raw /\ "login" \notin cfg.handled

\* Replayed, were the last to come the first to be replayed.
MutReplayed == Reverse(early)

\* Replayed, were the first lost.
MutReplayedShort == IF early = <<>> THEN early ELSE Tail(early)

\* What came before the login reply, in the order it is dispatched.
Replayed == early

\* AgreementDeadline, were only servers that are pinged waited for.
MutAgreementDeadline(v, at) ==
  IF v < PingVersion THEN Never ELSE Deadline(at, AgreementWait)

AgreementDeadline(v, at) == IF v = 0 THEN Never ELSE Deadline(at, AgreementWait)

\* login_reply(), of a server of version v. A 1.0/1.2 server is sent the name
\* and asked for the list at once; a later one has AgreementWait to send its
\* agreement. What came early is dispatched in between.
LogIn(v, r, whole) ==
  LET named == SendIf(v = 0 /\ nickFits, sender, "user_change", "Quiet")
      u     == TakeUnasked(Replayed, v, named, AgreementDeadline(v, NowAt(r)))
      last  == v = 0 /\ ~u.ready
  IN  /\ st' = "LoggedIn" /\ version' = v /\ early' = <<>>
      /\ sender' = SendIf(last /\ ~cfg.raw, u.sender, "user_list", "UserList")
      /\ Clock(r, sender' # sender)
      /\ agreementAt' = u.agreementAt /\ awaiting' = u.awaiting
      /\ agreed' = u.agreed /\ ready' = (u.ready \/ last)
      /\ events' = whole \o <<Event("LoggedIn", 0)>> \o u.events
                    \o (IF last THEN <<Event("Ready", 0)>> ELSE <<>>)
      /\ loginAt' = NowAt(r)
      /\ pushOut' = pushOut + Pushes(Replayed)

\* The login's reply: the first reply there is, whatever trans it carries.
FeedLoginReply ==
  /\ st = "Login"
  /\ \E f \in Frames, r \in Readings :
       /\ Completes(f) /\ Completed(f).type \in Replies
       /\ LET whole == IF LoginWhole THEN <<Event("Reply", Completed(f).trans)>> ELSE <<>>
          IN \/ /\ Completed(f).type = "error"
                /\ Close("LoginRefused", whole)
                /\ Clock(r, FALSE)
                /\ UNCHANGED <<early, version, settleVars, pushOut, loginAt>>
             \/ /\ Completed(f).type # "error"
                /\ \E v \in Versions : LogIn(v, r, whole)
  /\ UNCHANGED <<cfg, nickFits, handshakeAt, hopeVars, wall, calls, pushIn, wireVars>>

\* reply(), once logged in.
FeedReply ==
  /\ st = "LoggedIn"
  /\ \E r \in Readings : Clock(r, FALSE)
  /\ \E f \in Frames :
       LET t == Completed(f)
       IN  /\ Completes(f) /\ t.type \in Replies
           /\ sender' = Settled(sender, {t.trans}, "done")
           /\ events' = ReplyEvents(t.type, t.trans)
  /\ UNCHANGED <<cfg, nickFits, st, early, version, handshakeAt, settleVars, hopeVars,
                 wall, calls, pushVars, loginAt, wireVars>>

\* dispatch() and agreement(), once logged in.
FeedUnasked ==
  /\ st = "LoggedIn"
  /\ \E f \in Frames, r \in Readings :
       /\ Completes(f) /\ Completed(f).type \in Unasked
       /\ Number(Completed(f).type)
       /\ LET q == <<Numbered(Completed(f).type)>>
              u == TakeUnasked(q, version, sender, agreementAt)
          IN  /\ sender' = u.sender
              /\ Clock(r, u.sender # sender)
              /\ agreementAt' = u.agreementAt /\ awaiting' = u.awaiting
              /\ agreed' = u.agreed /\ ready' = u.ready
              /\ events' = u.events
              /\ pushOut' = pushOut + Pushes(q)
  /\ UNCHANGED <<cfg, nickFits, st, early, version, handshakeAt, hopeVars,
                 wall, calls, loginAt, wireVars>>

Feed ==
  \/ FeedMagic \/ FeedUndecodable \/ FeedClosed \/ FeedTooLarge \/ FeedFragment
  \/ FeedEarly \/ FeedHopeReply \/ FeedLoginReply \/ FeedReply \/ FeedUnasked

----------------------------------------------------------------------------
(* tick()                                                                  *)

\* No login reply in time: the session ends.
TickHandshake(r) ==
  /\ st \in {"Magic", "HopeStep1", "Login"}
  /\ Clock(r, FALSE)
  /\ \/ r >= handshakeAt /\ Close("Timeout", <<>>)
     \/ r < handshakeAt /\ events' = <<>> /\ UNCHANGED <<st, sender>>
  /\ UNCHANGED settleVars

\* No agreement in time: carry on as if there were none. Then the keep-alive.
TickLoggedIn(r) ==
  /\ st = "LoggedIn"
  /\ LET due   == r >= agreementAt
         listed == SendIf(due /\ ~ready /\ ~cfg.raw, sender, "user_list", "UserList")
         stamp == IF listed # sender \/ unstamped THEN NowAt(r) ELSE lastSent
         ping  == r >= KeepaliveDue(ready \/ due, stamp)
     IN  /\ sender' = SendIf(ping, listed, "ping", "Keepalive")
         /\ Clock(r, sender' # sender)
         /\ agreementAt' = (IF due THEN Never ELSE agreementAt)
         /\ ready' = (ready \/ due)
         /\ events' = (IF due /\ ~ready THEN <<Event("Ready", 0)>> ELSE <<>>)
  /\ UNCHANGED <<st, awaiting, agreed>>

TickClosed(r) ==
  /\ st = "Closed"
  /\ Clock(r, FALSE)
  /\ events' = <<>>
  /\ UNCHANGED <<st, sender, settleVars>>

Tick(r) ==
  /\ TickHandshake(r) \/ TickLoggedIn(r) \/ TickClosed(r)
  /\ UNCHANGED <<cfg, nickFits, early, version, handshakeAt, hopeVars, partials,
                 wall, calls, pushVars, loginAt, wireVars>>

\* disconnected()
Disconnected ==
  /\ st # "Closed"
  /\ Close("Hangup", <<>>)
  /\ UNCHANGED <<cfg, nickFits, early, version, timeVars, handshakeAt, settleVars, hopeVars,
                 partials, wall, calls, pushVars, loginAt, lastReal, wireVars>>

----------------------------------------------------------------------------
(* The caller's other calls. None of them carries the time.                *)

\* take_outgoing(): what was queued before the transport began goes as it is.
\* A raw caller can have queued what the transport cannot encode.
TakeOutgoing ==
  /\ \/ /\ transport
        /\ sealed' = sealed \cup ToSet(sender.out)
        /\ clear' = clear \cup ToSet(beforeTransport)
        /\ sender' = [sender EXCEPT !.out = <<>>]
        /\ events' = <<>>
        /\ UNCHANGED st
     \/ /\ ~transport
        /\ clear' = clear \cup ToSet(beforeTransport \o sender.out)
        /\ sender' = [sender EXCEPT !.out = <<>>]
        /\ events' = <<>>
        /\ UNCHANGED <<st, sealed>>
     \/ /\ transport /\ cfg.raw /\ "raw" \in ToSet(sender.out)
        /\ clear' = clear \cup ToSet(beforeTransport)
        /\ st' = "Closed"
        /\ sender' = [Emptied(sender) EXCEPT !.out = <<>>]
        /\ events' = <<Event("Protocol", 0)>>
        /\ UNCHANGED sealed
  /\ beforeTransport' = <<>>
  /\ UNCHANGED <<cfg, nickFits, early, version, timeVars, handshakeAt, settleVars, offer,
                 transport, partials, wall, calls, pushVars, loginAt, lastReal>>

SetIdentity(fits) ==
  /\ nickFits' = fits
  /\ events' = <<>>
  /\ UNCHANGED <<cfg, st, early, sender, version, timeVars, handshakeAt, settleVars, hopeVars,
                 partials, wall, calls, pushVars, loginAt, lastReal, wireVars>>

\* agree(): send_agree(), where there is something to agree to and the request
\* can be built.
Agree ==
  /\ st = "LoggedIn" /\ awaiting /\ nickFits
  /\ sender' = AgreeIf(~agreed, sender)
  /\ IF agreed THEN UNCHANGED <<settleVars, events, timeVars, lastReal>>
     ELSE /\ agreed' = TRUE /\ awaiting' = FALSE /\ agreementAt' = Never /\ ready' = TRUE
          /\ events' = (IF ready THEN <<>> ELSE <<Event("Ready", 0)>>)
          /\ StampLater
  /\ UNCHANGED <<cfg, nickFits, st, early, version, handshakeAt, hopeVars, partials,
                 wall, calls, pushVars, loginAt, wireVars>>

\* EnsureReady, were the state not looked at.
MutEnsureReady == ready /\ ~cfg.raw

\* EnsureReady, were readiness not looked at.
MutEnsureReadySoon == st = "LoggedIn" /\ ~cfg.raw

\* ensure_ready()
EnsureReady == st = "LoggedIn" /\ ready /\ ~cfg.raw

\* The caller's bound.
Call == calls < MaxCalls /\ calls' = calls + 1

\* Every request method: chat and its like, whose replies nobody awaits
\* ("none"), and those that await one of some kind. One of those that are not
\* answered is set_nick, which keeps the name it could send.
Request(pend) ==
  /\ EnsureReady /\ Call
  /\ sender' = Send(sender, "request", pend)
  /\ StampLater
  /\ events' = <<>>
  /\ nickFits' \in IF pend = "none" THEN {nickFits, TRUE} ELSE {nickFits}
  /\ UNCHANGED <<cfg, st, early, version, handshakeAt, settleVars, hopeVars, partials,
                 wall, pushVars, loginAt, wireVars>>

\* take_trans(), at any time.
CallTakeTrans ==
  /\ Call
  /\ sender' = TakeTrans(sender)
  /\ events' = <<>>
  /\ UNCHANGED <<cfg, nickFits, st, early, version, timeVars, handshakeAt, settleVars, hopeVars,
                 partials, wall, pushVars, loginAt, lastReal, wireVars>>

\* expect(), of a trans the caller has taken and not yet sent on: refused where
\* a reply is awaited on it already.
Expect(t, what) ==
  /\ cfg.raw
  /\ sender.use[t] = "taken" /\ t \notin DOMAIN sender.pending
  /\ sender' = Expected(sender, t, what)
  /\ events' = <<>>
  /\ UNCHANGED <<cfg, nickFits, st, early, version, timeVars, handshakeAt, settleVars, hopeVars,
                 partials, wall, calls, pushVars, loginAt, lastReal, wireVars>>

\* send_raw(), of a frame as long as its header says.
SendRaw ==
  /\ cfg.raw /\ st = "LoggedIn" /\ Call
  /\ sender' = [sender EXCEPT !.out = Append(@, "raw")]
  /\ StampLater
  /\ events' = <<>>
  /\ UNCHANGED <<cfg, nickFits, st, early, version, handshakeAt, settleVars, hopeVars, partials,
                 wall, pushVars, loginAt, wireVars>>

Caller ==
  \/ Disconnected \/ TakeOutgoing \/ Agree \/ CallTakeTrans \/ SendRaw
  \/ \E fits \in Nicks : SetIdentity(fits)
  \/ \E pend \in RequestKinds : Request(pend)
  \/ \E t \in Trans, what \in Expects \cap RequestKinds : Expect(t, what)

\* Time passes.
Advance ==
  /\ wall < MaxTime
  /\ wall' = wall + 1
  /\ events' = <<>>
  /\ UNCHANGED <<cfg, nickFits, st, early, sender, version, timeVars, handshakeAt, settleVars,
                 hopeVars, partials, calls, pushVars, loginAt, lastReal, wireVars>>

Next ==
  \/ Feed
  \/ \E r \in Readings : Tick(r)
  \/ Caller
  \/ Advance

Spec == Init /\ [][Next]_vars

\* The caller's loop: it sleeps no longer than to next_deadline and then ticks
\* with the time, and time passes. Nothing is asked of the server.
DueTick == wall >= NextDeadline /\ Tick(wall)
FairSpec == Spec /\ WF_vars(Advance) /\ WF_vars(DueTick)

----------------------------------------------------------------------------
(* Properties.                                                             *)

States == {"Magic", "HopeStep1", "Login", "LoggedIn", "Closed"}
Times == 0 .. Never
IsSender(s) ==
  /\ s = Sender(s.trans, s.pending, s.out, s.use)
  /\ s.trans \in Trans \ {0}
  /\ IsTable(s.pending, Pendings)
  /\ s.out \in Seq(Sent)
  /\ s.use \in [Trans -> Uses]

StateType ==
  /\ cfg \in Configs /\ nickFits \in BOOLEAN /\ st \in States
  /\ version \in Nat
  /\ offer \in BOOLEAN /\ transport \in BOOLEAN /\ beforeTransport \in Seq(Sent)

\* Time is read in order, and nothing is stamped later than it was read.
ClockType ==
  /\ wall \in 0 .. MaxTime /\ now \in 0 .. wall /\ lastSent \in 0 .. now
  /\ unstamped \in BOOLEAN
  /\ handshakeAt \in Times /\ loginAt \in Times

SettleType ==
  /\ agreementAt \in Times
  /\ awaiting \in BOOLEAN /\ agreed \in BOOLEAN /\ ready \in BOOLEAN

\* What the FrameReader is joining, and what waits for the login reply.
ReaderType ==
  /\ partials \in Seq(Partial(Replies \cup Unasked, Trans, {0}))
  /\ early \in Seq([type : Unasked, id : Nat]) /\ Len(early) <= MaxEarly
  /\ pushIn \in Nat /\ pushOut \in Nat

\* Every variable has its type; the early queue keeps to MAX_EARLY, and trans
\* never comes round to 0.
TypeOK == StateType /\ IsSender(sender) /\ ClockType /\ SettleType /\ ReaderType

\* Whether the step queues bytes to send.
Sends == Len(sender'.out) > Len(sender.out)

\* Nothing the server sent unasked is lost while the session lives: what has
\* arrived was handed over, or waits for the login reply (dispatch(), and the
\* replay in login_reply()).
PushesKept == st # "Closed" => pushIn = pushOut + Pushes(early)

IsHandover(ev) == ev.e \in {"Push", "Unhandled"} /\ ev.id # 0

Handed(es) == {i \in DOMAIN es : IsHandover(es[i])}

\* s has ids at these places, each once and from the least to the greatest.
Rises(s, places, ids) ==
  /\ {s[i].id : i \in places} = ids
  /\ \A i, j \in places : i < j => s[i].id < s[j].id

HandsOver(es, ids) == Rises(es, Handed(es), ids)

\* What the server sent unasked is handed over once and in the order it came,
\* whether it came before or after the login reply.
PushesInOrder ==
  [][pushOut <= pushOut' /\ HandsOver(events', pushOut + 1 .. pushOut')]_vars

\* A 1.5+ server is sent nothing after the login until the agreement is
\* answered or AgreementWait has passed, and not even then while an agreement
\* came in time and waits for its answer. (A raw caller sends what it likes.)
SilentUntilSettled ==
  [][Sends /\ st' = "LoggedIn" /\ version' # 0 /\ ~cfg.raw =>
       \/ agreed'
       \/ now' >= loginAt' + AgreementWait /\ ~(awaiting /\ ~ready)]_vars

\* A ping goes only after Keepalive of real silence, though requests sent
\* between two readings of the clock are stamped at the next.
PingAfterSilence ==
  [][Sends /\ Last(sender'.out) = "ping" => wall + Skew >= lastReal + Keepalive]_vars

\* next_deadline() is exact: a tick before it does nothing, and one at or after
\* it does something, so that a caller that sleeps until then neither misses
\* a timer nor spins. A request not yet stamped may wake it once for nothing.
TickExactlyAtDeadline ==
  [][\A r \in Readings : Tick(r) =>
       IF r < NextDeadline
         THEN st' = st /\ sender' = sender /\ events' = <<>>
         ELSE unstamped \/ st' # st \/ sender' # sender \/ events' # <<>>]_vars

\* The wait for an agreement and the keep-alive are never both running, and an
\* agreement that is showing or answered ends the wait.
WaitEndsOnce == agreementAt # Never => ~ready /\ ~awaiting /\ ~agreed

Handshake == {"magic", "step1", "step2"}

\* With HOPE, the magic and the two steps go as they are and everything else
\* as ciphertext, whenever take_outgoing() is called; without, nothing does.
OnlyHandshakeInClear ==
  IF cfg.hope THEN clear \subseteq Handshake /\ sealed \cap Handshake = {} ELSE sealed = {}

\* A closed session stays closed, queues nothing more and says nothing more,
\* except that it is closed when fed what its transport cannot read.
ClosedIsFinal ==
  [][st = "Closed" =>
       /\ st' = "Closed" /\ ~Sends
       /\ \A i \in DOMAIN events' : transport /\ events'[i].e \in Closings]_vars

\* What a request must have been for an event to be its answer.
AnswerTo(e) ==
  CASE e \in {"MediaDone", "MediaFailed"} -> "Media"
    [] e = "CallDone"                     -> "Call"
    [] e = "UserList"                     -> "UserList"
    [] OTHER                              -> "Raw"

IsAnswer(ev) ==
  ev.e \in {"MediaDone", "MediaFailed", "CallDone", "UserList"} \/ (ev.e = "Reply" /\ ~cfg.raw)

\* An answer is to a request of its kind that has had none, whatever the server
\* answers and however often it does, or splits its replies and starts over.
AnswersMatchRequests ==
  [][\A i \in DOMAIN events' :
       IsAnswer(events'[i]) /\ st \notin {"Login", "HopeStep1"} =>
         sender.use[events'[i].id] = AnswerTo(events'[i].e)]_vars

\* The table of awaited replies keeps to MAX_PENDING.
PendingBounded == Cardinality(DOMAIN sender.pending) <= MaxPending

\* How many trans were handed out before t, until the counter laps.
Place(t) == IF t >= 2 THEN t - 2 ELSE TransSpace - 3 + t

ForgetStep ==
  LET dropped == {t \in DOMAIN sender.pending \ DOMAIN sender'.pending : sender'.use[t] \in Pendings}
      kept == DOMAIN sender.pending \cap DOMAIN sender'.pending
  IN  st' # "Closed" => \A d \in dropped, k \in kept : Place(d) < Place(k)

\* What is forgotten when the table is full is older than what is kept, the
\* counter's coming round included.
ForgetsOldest == [][ForgetStep]_vars

\* ForgetsOldest, of sessions that number their own requests.
OwnForgetsOldest == [][cfg.raw \/ ForgetStep]_vars

\* Whether every trans has been handed out: the counter has come round.
Lapped == \A t \in Trans \ {0} : sender.use[t] # "free"

\* 0 is never handed out. Until the counter has come round, trans are handed out
\* in order, none of them twice, and what is awaited on one is what it was for.
CountsUp(s) ==
  /\ s.use[0] = "free" /\ \A t \in DOMAIN s.pending : s.use[t] # "free"
  /\ (\E t \in Trans \ {0} : s.use[t] = "free") =>
       /\ \A t \in Trans \ {0} : s.use[t] = "free" <=> Place(t) >= Place(s.trans)
       /\ \A t \in DOMAIN s.pending : s.use[t] = s.pending[t]

\* A server that starts a split reply over takes the place of the first: two
\* partials never share a trans, and there are at most MAX_PARTIALS, or a
\* fragment could be joined to the wrong one.
OnePartialPerTrans == Tidy(partials)

\* Before the login is answered no wait has begun and nothing is settled; after,
\* nothing waits for it any more.
Unsettled ==
  st \in {"Magic", "HopeStep1", "Login"} =>
    agreementAt = Never /\ ~awaiting /\ ~agreed /\ ~ready
ReplayedOnce == st = "LoggedIn" => early = <<>>

\* What the proofs carry from step to step.
IInv ==
  /\ TypeOK /\ PendingBounded /\ CountsUp(sender) /\ OnePartialPerTrans
  /\ Unsettled /\ ReplayedOnce /\ WaitEndsOnce /\ PushesKept

\* What waits for the login reply is what is numbered and has not been handed
\* over, in the order it came.
Waiting(q) == {i \in DOMAIN q : q[i].type = "push"}
Numbering(q, ids) ==
  /\ \A i \in DOMAIN q : i \in Waiting(q) <=> q[i].id # 0
  /\ Rises(q, Waiting(q), ids)
EarlyInOrder == st # "Closed" => Numbering(early, pushOut + 1 .. pushIn)

\* HOPE's transport divides what is queued: only the handshake before it, and
\* none of the handshake after it.
HopeDivides ==
  IF cfg.hope
    THEN /\ beforeTransport \in Seq(Handshake)
         /\ IF transport
              THEN sender.out \in Seq(Sent \ Handshake) /\ st \notin {"Magic", "HopeStep1"}
              ELSE /\ sender.out \in Seq(Handshake)
                   /\ st \in {"Magic", "HopeStep1", "Closed"} /\ (st = "Magic" => offer)
    ELSE ~transport /\ ~offer /\ st # "HopeStep1"

\* A stamp is of the last send, and no older than the caller's clock was.
Stamped ==
  /\ lastReal \in 0 .. wall
  /\ ~unstamped => lastSent + Skew >= lastReal

\* A wait for an agreement runs from the login, and a session is ready when it
\* has agreed or waited for so long.
WaitFromLogin ==
  st = "LoggedIn" /\ version # 0 =>
    /\ agreementAt \in {Never, Deadline(loginAt, AgreementWait)}
    /\ ready => agreed \/ now >= loginAt + AgreementWait

\* expect()'s word: the reply on an expected trans is what was expected or a
\* failure, "never Event::Reply". A second whole reply is not counted.
ExpectedNeverReply ==
  [][\A i \in DOMAIN events' :
       events'[i].e = "Reply" => sender.use[events'[i].id] \notin Expects \cup {"cut"}]_vars

\* awaiting_agree's word: an agreement with text is showing, and until it is
\* answered a 1.5+ server is sent nothing else.
AwaitingIsSilent ==
  [][awaiting /\ awaiting' /\ version # 0 /\ ~cfg.raw => ~Sends]_vars

\* Event::Agreement's word: an empty agreement is answered without asking. So a
\* session that no longer waits for an agreement has answered one, shows one,
\* or has gone on without.
EmptyIsAnswered == st = "LoggedIn" /\ agreementAt = Never => ready \/ awaiting

\* The handshake ends: the login is answered, or the session closes, even if
\* the server never says a word.
HandshakeEnds == <>(st \in {"LoggedIn", "Closed"})

\* A logged-in session becomes ready, or shows an agreement to answer, even if
\* the server sends no agreement: unless its wait ends past the last reading of
\* the clock there is.
AgreementSettles ==
  st = "LoggedIn" /\ (agreementAt <= MaxTime \/ agreementAt = Never) ~>
    (ready \/ awaiting \/ st = "Closed")
=============================================================================
