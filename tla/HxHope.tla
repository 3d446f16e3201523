------------------------------- MODULE HxHope -------------------------------
(***************************************************************************)
(* HOPE's login (crate hxhope): a client's offer, the server's pick, the    *)
(* client's step 2 with its credentials, and the server's check of it.     *)
(* Algorithms are strings, by the names the wire has for them, and keys are *)
(* terms. A message may lose or change fields on its way, or come from      *)
(* another implementation with a mind of its own.                          *)
(***************************************************************************)
EXTENDS Naturals, Sequences, SequencesExt

CONSTANTS
  Setups,       \* client and server: [offer, who, policy, account], and faults:
                \* the kinds of message that may be altered
  Available,    \* the compressions this build has: Compression::available()
  Answers,      \* fields an answer may arrive with instead of the server's
  Echoes        \* and those a step 2 may

Macs == {"HMAC-SHA256", "HMAC-SHA1", "HMAC-MD5"}
Ciphers == {"BLOWFISH", "CHACHA20-POLY1305"}
Compressions == {"GZIP", "LZ4", "ZSTD"}

\* An algorithm list's field: not there, of no bytes, one that does not parse, or
\* the labels it lists. A label may be one this crate does not know.
Field(is, of) == [is |-> is, of |-> of]
Absent     == Field("absent", <<>>)
Empty      == Field("empty", <<>>)
Garbled    == Field("garbled", <<>>)
List(labels) == Field("list", labels)

\* One, were nothing said as a list of nothing.
MutOne(label) == IF label = "none" THEN List(<<>>) ELSE List(<<label>>)

\* one(): a list of one label, and no bytes for none.
One(label) == IF label = "none" THEN Empty ELSE List(<<label>>)

ASSUME HopeAssumption ==
  /\ Available \subseteq Compressions
  /\ \A s \in Setups :
       /\ s.offer.macs \in Seq(Macs) /\ s.offer.ciphers \in Seq(Ciphers)
       /\ s.offer.compressions \in Seq(Compressions)
       /\ s.policy.macs \subseteq Macs /\ s.policy.ciphers \subseteq Ciphers
       /\ s.policy.compressions \subseteq Compressions
       /\ s.policy.requireCipher \in BOOLEAN
  /\ \A a \in Answers : "kind" \notin DOMAIN a
  /\ \A e \in Echoes : "kind" \notin DOMAIN e

VARIABLES
  setup,      \* who is logging in where
  wire,       \* the message on its way, of which there is never more than one
  client,     \* the client's side, and what it has agreed
  server,     \* the server's
  altered     \* history: the kinds of message that were altered on their way

hopeVars == <<setup, wire, client, server, altered>>

----------------------------------------------------------------------------
(* Keys. A MAC is what it was made of; two are equal only if that is.      *)

\* Chain: the three links, of a password under a session key.
Chain(mac, password, key, link) ==
  [mac |-> mac, password |-> password, key |-> key, link |-> link]

\* What a LOGIN field says: a name's MAC, the name obfuscated, or nothing at all,
\* which is what an empty name looks like obfuscated.
LoginAs(as, name, mac, key) == [as |-> as, name |-> name, mac |-> mac, key |-> key]
Guest == ""
NoLogin == LoginAs("nothing", Guest, "none", "none")
Obfuscated(name) ==
  IF name = Guest THEN NoLogin ELSE LoginAs("name", name, "none", "none")

----------------------------------------------------------------------------
(* Messages.                                                               *)

Nothing == [kind |-> "nothing"]

\* step1(): what the client can do, and no credentials.
Usable(list) ==
  FoldLeft(LAMBDA usable, c : IF c \in Available THEN Append(usable, c) ELSE usable, <<>>, list)
Step1(offer) ==
  [kind |-> "step1", macs |-> List(offer.macs), ciphers |-> List(offer.ciphers),
   compressions |-> IF Usable(offer.compressions) = <<>> THEN Absent
                    ELSE List(Usable(offer.compressions))]

\* A side of the login, with what it has agreed to.
Side(state, mac, cipher, compression, chain) ==
  [state |-> state, mac |-> mac, cipher |-> cipher, compression |-> compression,
   chain |-> chain]
NoChain == Chain("none", "", "none", 0)
Fresh == Side("start", "none", "none", "none", NoChain)
Failed(side, why) == [side EXCEPT !.state = why]

----------------------------------------------------------------------------
(* The server.                                                             *)

\* pick(): the first label in the client's list that this server has.
Pick(field, have) ==
  LET i == SelectInSeq(field.of, LAMBDA l : l \in have)
  IN  IF field.is # "list" \/ i = 0 THEN "none" ELSE field.of[i]

\* Required, were a missing cipher let pass in the answer, for step 2 to find.
MutRequired(policy, cipher) == FALSE

\* A server that requires a cipher does not go on without.
Required(policy, cipher) == policy.requireCipher /\ cipher = "none"

\* answer(): what the server takes of an offer, "none" where it has nothing.
Taken(policy, step1) ==
  [mac |-> Pick(step1.macs, policy.macs),
   cipher |-> Pick(step1.ciphers, policy.ciphers),
   compression |-> Pick(step1.compressions, policy.compressions \cap Available)]

AnswerOf(t, key) ==
  [kind |-> "answer", login |-> t.mac, mac |-> One(t.mac), cipher |-> One(t.cipher),
   compression |-> One(t.compression), mode |-> "absent", key |-> key]

Answer ==
  LET t == Taken(setup.policy, wire)
      refusal == IF t.mac = "none" THEN "no MAC in common"
                 ELSE IF Required(setup.policy, t.cipher) THEN "no cipher in common"
                 ELSE ""
  IN  /\ wire.kind = "step1" /\ server.state = "start"
      /\ \/ /\ refusal # ""
            /\ server' = Failed(server, refusal)
            /\ wire' = Nothing
         \/ /\ refusal = ""
            /\ server' = Side("answered", t.mac, t.cipher, t.compression, NoChain)
            /\ wire' = AnswerOf(t, "session key")
      /\ UNCHANGED <<setup, client, altered>>

\* Echoed, were an echo only looked at where there is one.
MutEchoed(field, chosen) ==
  IF field.is \in {"absent", "empty"} \/ field = One(chosen) THEN chosen ELSE "bad"

\* What an echo says will run: nothing if it is not there, what was chosen if it
\* says just that, and anything else is not for this server.
Echoed(field, chosen) ==
  CASE field.is = "absent" -> "none"
    [] field = One(chosen) /\ chosen # "none" -> chosen
    [] OTHER -> "bad"

\* Step2::names: which login a step 2 is for.
Names(step2, login, mac, key) ==
  \/ step2.login = NoLogin /\ login = Guest
  \/ step2.login = LoginAs("mac", login, mac, key)

Refusal(step2) ==
  LET chain == Chain(server.mac, setup.account.password, "session key", 1)
      cipher == Echoed(step2.cipher, server.cipher)
  IN  IF ~Names(step2, setup.account.login, server.mac, "session key") THEN "no such login"
      ELSE IF step2.password # chain THEN "the credentials do not match"
      ELSE IF cipher = "bad" THEN "an echo of what was not chosen"
      ELSE IF Required(setup.policy, cipher) THEN "step 2 runs no cipher"
      ELSE IF Echoed(step2.compression, server.compression) = "bad"
        THEN "an echo of what was not chosen"
      ELSE ""

\* Server::step2, Step2::names and Server::accept.
Accept ==
  /\ wire.kind = "step2" /\ server.state = "answered"
  /\ \/ /\ Refusal(wire) # ""
        /\ server' = Failed(server, Refusal(wire))
     \/ /\ Refusal(wire) = ""
        /\ server' =
             Side("established", server.mac, Echoed(wire.cipher, server.cipher),
                  Echoed(wire.compression, server.compression), wire.password)
  /\ wire' = Nothing
  /\ UNCHANGED <<setup, client, altered>>

----------------------------------------------------------------------------
(* The client.                                                             *)

Offer ==
  /\ client.state = "start"
  /\ client' = [client EXCEPT !.state = "offered"]
  /\ wire' = Step1(setup.offer)
  /\ UNCHANGED <<setup, server, altered>>

\* Choice, were a pick not looked up in the offer.
MutChoice(field, known, noneListed) ==
  IF field.of = <<>> THEN (IF field.is = "garbled" THEN "bad" ELSE "none")
  ELSE field.of[1]

\* choice(): the first of the list, if it is one of known. A list of nothing is
\* "none" where noneListed says so.
Choice(field, known, noneListed) ==
  CASE field.is \in {"absent", "empty"} -> "none"
    [] field.is = "garbled" -> "bad"
    [] OTHER -> IF field.of = <<>> THEN (IF noneListed THEN "none" ELSE "bad")
                ELSE IF field.of[1] \in known THEN field.of[1] ELSE "bad"

ChosenMac(answer) == Choice(answer.mac, ToSet(setup.offer.macs), FALSE)
ChosenCipher(answer) == Choice(answer.cipher, ToSet(setup.offer.ciphers), FALSE)

\* A compression nobody asked for is not looked at; "NONE" and "" are none.
ChosenCompression(answer) ==
  LET known == Available \cap ToSet(setup.offer.compressions)
      c == Choice(answer.compression, known \cup {"NONE", ""}, TRUE)
  IN  IF setup.offer.compressions = <<>> \/ c \in {"NONE", ""} THEN "none" ELSE c

\* The mode is the cipher's own, in whatever case.
ModeFits(cipher, mode) ==
  \/ mode = "absent" \/ cipher = "none"
  \/ mode = IF cipher = "BLOWFISH" THEN "STREAM" ELSE "AEAD"

Unanswerable(answer) ==
  \/ answer.key = "none"
  \/ ChosenMac(answer) \in {"none", "bad"}
  \/ ChosenCipher(answer) = "bad" \/ ChosenCompression(answer) = "bad"
  \/ ~ModeFits(ChosenCipher(answer), answer.mode)

\* The client's echo: nothing where there is nothing to run.
EchoOf(label) == IF label = "none" THEN Absent ELSE List(<<label>>)

Step2Of(answer) ==
  LET mac == ChosenMac(answer)
  IN  [kind |-> "step2",
       login |-> IF answer.login = mac
                   THEN LoginAs("mac", setup.who.login, mac, answer.key)
                   ELSE Obfuscated(setup.who.login),
       password |-> Chain(mac, setup.who.password, answer.key, 1),
       cipher |-> EchoOf(ChosenCipher(answer)),
       compression |-> EchoOf(ChosenCompression(answer))]

Step2 ==
  /\ wire.kind = "answer" /\ client.state = "offered"
  /\ \/ /\ Unanswerable(wire)
        /\ client' = Failed(client, "the answer is not one to go on with")
        /\ wire' = Nothing
     \/ /\ ~Unanswerable(wire)
        /\ client' =
             Side("established", ChosenMac(wire), ChosenCipher(wire),
                  ChosenCompression(wire), Step2Of(wire).password)
        /\ wire' = Step2Of(wire)
  /\ UNCHANGED <<setup, server, altered>>

----------------------------------------------------------------------------
(* What may happen to a message on its way, once each. Its fields may be     *)
(* lost or changed, or all of them be another implementation's.            *)

Altered(kind, m) ==
  /\ wire.kind = kind /\ kind \in setup.faults \ altered
  /\ wire' = m
  /\ altered' = altered \cup {kind}
  /\ UNCHANGED <<setup, client, server>>

\* An offer's list may be lost, or its first entry, or no longer parse.
Step1Altered ==
  \E list \in {"macs", "ciphers", "compressions"} \cap DOMAIN wire :
    LET labels == wire[list].of
        losses == {Absent, Garbled} \cup (IF labels = <<>> THEN {} ELSE {List(Tail(labels))})
    IN  \E f \in losses : Altered("step1", [wire EXCEPT ![list] = f])

\* A message with some of its fields another's.
Instead(m, fields) == [f \in DOMAIN m |-> IF f \in DOMAIN fields THEN fields[f] ELSE m[f]]

AnswerAltered == \E a \in Answers : Altered("answer", Instead(wire, a))
Step2Altered == \E e \in Echoes : Altered("step2", Instead(wire, e))

HopeInit ==
  /\ setup \in Setups
  /\ wire = Nothing /\ altered = {}
  /\ client = Fresh /\ server = Fresh

HopeNext ==
  \/ Offer \/ Answer \/ Step2 \/ Accept
  \/ Step1Altered \/ AnswerAltered \/ Step2Altered

----------------------------------------------------------------------------
(* Properties.                                                             *)

Established(side) == side.state = "established"

\* Server::accept: a server that goes on runs what its client runs, under the same
\* keys, whatever became of the offer and the answer on their way. Step 2 is taken
\* as it was sent: its echo is under no MAC, and what is lost of that or put back
\* can part the two.
BothRunTheSame ==
  Established(server) /\ "step2" \notin altered => server = client

\* A server that requires a cipher runs one or does not go on, though the pick be
\* lost from its answer or the echo from step 2 (Server::accept).
RequiredCipherKept ==
  setup.policy.requireCipher /\ Established(server) => server.cipher \in setup.policy.ciphers

\* Neither side runs what it does not have or did not choose, whatever the other
\* says (client::step2, Server::accept).
WithinOwnLists ==
  /\ Established(client) =>
       /\ client.mac \in ToSet(setup.offer.macs)
       /\ client.cipher \in ToSet(setup.offer.ciphers) \cup {"none"}
       /\ client.compression \in (ToSet(setup.offer.compressions) \cap Available) \cup {"none"}
  /\ Established(server) =>
       /\ server.mac \in setup.policy.macs
       /\ server.cipher \in setup.policy.ciphers \cup {"none"}
       /\ server.compression \in (setup.policy.compressions \cap Available) \cup {"none"}

InCommon(list, have) == ToSet(list) \cap have # {}

\* A login that can succeed does: with nothing altered, only a MAC or a required
\* cipher that they do not share, or the wrong credentials, end it (answer, step2,
\* accept).
FailsForAReason ==
  altered = {} /\ ~(client.state \in {"start", "offered", "established"}
                     /\ server.state \in {"start", "answered", "established"})
    => \/ ~InCommon(setup.offer.macs, setup.policy.macs)
       \/ setup.policy.requireCipher /\ ~InCommon(setup.offer.ciphers, setup.policy.ciphers)
       \/ setup.who # setup.account
=============================================================================
