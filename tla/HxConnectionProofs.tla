------------------------- MODULE HxConnectionProofs -------------------------
(***************************************************************************)
(* Theorems about a HOPE login. Whatever is lost of its messages, each end *)
(* runs what it has itself, and what the server requires; both run the same *)
(* if step 2 came as it was sent; and a login that nothing gets in the way *)
(* of fails for a reason. And about the connection after it: whatever cipher *)
(* and compression it runs, it carries what is sent as it was sent, both   *)
(* ends stay in step, and it fails only for the size of what it is given.  *)
(***************************************************************************)
EXTENDS HxConnection, HxTransportProofs

----------------------------------------------------------------------------
(* The login.                                                               *)

\* Usable() keeps only labels that were listed and that this build has.
LEMMA UsableProperties ==
  ASSUME NEW list, list \in Seq(ToSet(list))
  PROVE  Usable(list) \in Seq(ToSet(list) \cap Available)
<1>. DEFINE n == Len(list)
            D == SUBSET (DOMAIN list)
            V == Seq(ToSet(list) \cap Available)
            op(usable, c) == IF c \in Available THEN Append(usable, c) ELSE usable
            G == [k \in 1 .. n |-> [v \in V |-> op(v, list[k])]]
            f == CHOOSE f : f = [s \in D |-> IF s = {} THEN <<>>
                                              ELSE op(f[s \ {Max(s)}], list[Max(s)])]
<1>1. Usable(list) = f[DOMAIN list]
  BY DEF Usable, FoldLeft, MapThenFoldSet
<1>2. n \in Nat /\ DOMAIN list = 1 .. n /\ <<>> \in V /\ G \in [1 .. n -> [V -> V]]
  <2>1. n \in Nat /\ DOMAIN list = 1 .. n /\ \A k \in 1 .. n : list[k] \in ToSet(list)
    BY DEF ToSet
  <2>2. ASSUME NEW k \in 1 .. n, NEW v \in V PROVE op(v, list[k]) \in V
    BY <2>1, SMT
  <2>. QED  BY <2>1, <2>2
<1>3. f = [s \in D |-> IF s = {} THEN <<>> ELSE op(f[s \ {Max(s)}], list[Max(s)])]
  <2>1. PICK g : FoldsSets(g, V, <<>>, n, G)
    <3>. HIDE DEF n, V, G
    <3>. QED  BY <1>2, GreatestLast
  <2>2. ASSUME NEW s \in D, s # {} PROVE G[Max(s)][g[s \ {Max(s)}]] = op(g[s \ {Max(s)}], list[Max(s)])
    <3>1. Max(s) \in 1 .. n
      <4>. HIDE DEF n
      <4>. QED  BY <1>2, <2>2, MaxOf
    <3>2. s \ {Max(s)} \in D
      OBVIOUS
    <3>. QED  BY <1>2, <2>1, <3>1, <3>2 DEF FoldsSets
  <2>. HIDE DEF op
  <2>3. g = [s \in D |-> IF s = {} THEN <<>> ELSE op(g[s \ {Max(s)}], list[Max(s)])]
    BY <1>2, <2>1, <2>2 DEF FoldsSets
  <2>. QED  BY <2>3
<1>. HIDE DEF f
<1>4. StepsSets(f, V, <<>>, n, G)
  <2>1. ASSUME NEW k \in 1 .. n, f[1 .. k - 1] \in V PROVE f[1 .. k] = G[k][f[1 .. k - 1]]
    <3>1. Max(1 .. k) = k /\ (1 .. k) \ {k} = 1 .. k - 1 /\ 1 .. k # {} /\ 1 .. k \in D
      <4>. HIDE DEF n
      <4>. QED  BY <1>2, MaxOfRun
    <3>. QED  BY <1>3, <2>1, <3>1
  <2>. QED  BY <1>3, <2>1 DEF StepsSets
<1>5. Steps([k \in 0 .. n |-> f[1 .. k]], V, <<>>, n, G)
  <2>. HIDE DEF n, V, G
  <2>. QED  BY <1>2, <1>4, FoldSteps
<1>. QED  BY <1>1, <1>2, <1>5, n \in 0 .. n DEF Steps

Labels == Macs \cup Ciphers \cup Compressions

\* What a message says for none at all is no label.
LEMMA NotLabels == \A l \in {"none", "bad", "NONE", ""} : l \notin Labels
BY DEF Labels, Macs, Ciphers, Compressions

\* What may be used of a list of compressions is in both.
LEMMA UsableStrings ==
  ASSUME NEW list \in Seq(Compressions)
  PROVE  /\ Usable(list) \in Seq(Labels)
         /\ ToSet(Usable(list)) \subseteq ToSet(list) \cap Available
<1>1. list \in Seq(ToSet(list)) /\ ToSet(list) \subseteq Labels
  BY SeqOfOwn DEF Labels
<1>2. Usable(list) \in Seq(ToSet(list) \cap Available)
  BY <1>1, UsableProperties
<1>3. ToSet(Usable(list)) \subseteq ToSet(list) \cap Available
  BY <1>2, SeqOfOwn
<1>4. ToSet(Usable(list)) \subseteq Labels
  BY <1>1, <1>3
<1>. QED  BY <1>2, <1>3, <1>4, SeqOfOwn

\* pick() takes a label that was listed and that the server has, and none only where
\* there is no such label.
LEMMA PickProperties ==
  ASSUME NEW field, field.of \in Seq(Labels), NEW have, "none" \notin have
  PROVE  /\ Pick(field, have) # "none" =>
              /\ field.is = "list"
              /\ Pick(field, have) \in have /\ Pick(field, have) \in ToSet(field.of)
         /\ Pick(field, have) = "none" /\ field.is = "list" =>
              \A l \in ToSet(field.of) : l \notin have
<1>. DEFINE I == {i \in 1 .. Len(field.of) : field.of[i] \in have}
            first == IF I # {} THEN Min(I) ELSE 0
<1>1. Pick(field, have) = IF field.is # "list" \/ first = 0 THEN "none" ELSE field.of[first]
  BY DEF Pick, SelectInSeq
<1>2. ToSet(field.of) = {field.of[i] : i \in 1 .. Len(field.of)}
  BY DEF ToSet
<1>3. I # {} => first \in I /\ first # 0
  <2>1. SUFFICES ASSUME I # {} PROVE Min(I) \in I /\ Min(I) # 0
    OBVIOUS
  <2>2. I \subseteq Nat /\ 0 \notin I
    OBVIOUS
  <2>3. \E n \in I : \A m \in I : n <= m
    <3>. HIDE DEF I
    <3>. QED  BY <2>1, <2>2, LeastNat
  <2>4. Min(I) \in I
    <3>. HIDE DEF I
    <3>. QED  BY <2>3 DEF Min
  <2>. QED  BY <2>2, <2>4
<1>4. I = {} => \A l \in ToSet(field.of) : l \notin have
  BY <1>2
<1>. QED  BY <1>1, <1>2, <1>3, <1>4

----------------------------------------------------------------------------
(* What holds of a login at every step, whoever it is with.                *)

\* A side of the login is a record of Side's fields.
IsSide(side) ==
  side = Side(side.state, side.mac, side.cipher, side.compression, side.chain)

Lists == {"macs", "ciphers", "compressions"}

Shaped ==
  /\ setup \in Setups
  /\ IsSide(client) /\ IsSide(server)
  /\ "kind" \in DOMAIN wire
  /\ wire.kind = "step1" => \A l \in Lists : l \in DOMAIN wire /\ wire[l].of \in Seq(Labels)

\* The client runs what it offered.
ClientAgreed ==
  Established(client) =>
    /\ client.mac \in ToSet(setup.offer.macs)
    /\ client.cipher \in ToSet(setup.offer.ciphers) \cup {"none"}
    /\ client.compression \in (ToSet(setup.offer.compressions) \cap Available) \cup {"none"}

\* What the server picks, before the client has said that it runs it, is the server's,
\* and a cipher if it requires one.
ServerAgreed ==
  server.state \in {"answered", "established"} =>
    /\ server.mac \in setup.policy.macs
    /\ server.cipher \in setup.policy.ciphers \cup {"none"}
    /\ server.compression \in (setup.policy.compressions \cap Available) \cup {"none"}
    /\ setup.policy.requireCipher => server.cipher # "none"

\* A step 2 that nothing has altered says what the client runs, and proves the MAC.
SaysWhatRuns ==
  wire.kind = "step2" =>
    /\ Established(client)
    /\ client.chain.mac = client.mac
    /\ "step2" \notin altered =>
         /\ wire.password = client.chain
         /\ wire.cipher = EchoOf(client.cipher)
         /\ wire.compression = EchoOf(client.compression)

HopeInv == Shaped /\ ClientAgreed /\ ServerAgreed /\ SaysWhatRuns /\ BothRunTheSame

\* No login has begun.
LEMMA HopeInvInit == HopeInit => HopeInv
<1>. SUFFICES ASSUME HopeInit PROVE HopeInv
  OBVIOUS
<1>1. /\ setup \in Setups /\ wire = Nothing /\ altered = {}
      /\ client = Fresh /\ server = Fresh
  BY DEF HopeInit
<1>2. Shaped
  BY <1>1 DEF Shaped, IsSide, Fresh, Side, Nothing
<1>. QED
  BY <1>1, <1>2 DEF HopeInv, ClientAgreed, ServerAgreed, SaysWhatRuns, BothRunTheSame,
                    Established, Fresh, Side, Nothing

\* A client offers what it has.
LEMMA OfferKeeps == HopeInv /\ Offer => HopeInv'
<1>. SUFFICES ASSUME HopeInv, Offer PROVE HopeInv'
  OBVIOUS
<1>1. /\ client.state = "start" /\ client' = [client EXCEPT !.state = "offered"]
      /\ wire' = Step1(setup.offer) /\ UNCHANGED <<setup, server, altered>>
  BY DEF Offer
<1>2. client'.state = "offered" /\ IsSide(client')
  BY <1>1 DEF HopeInv, Shaped, IsSide, Side
<1>3. Shaped'
  <2>1. /\ setup.offer.macs \in Seq(Labels) /\ setup.offer.ciphers \in Seq(Labels)
        /\ Usable(setup.offer.compressions) \in Seq(Labels)
    <3>1. /\ setup.offer.macs \in Seq(Macs) /\ setup.offer.ciphers \in Seq(Ciphers)
          /\ setup.offer.compressions \in Seq(Compressions)
      BY HopeAssumption DEF HopeInv, Shaped
    <3>2. ToSet(setup.offer.macs) \subseteq Labels /\ ToSet(setup.offer.ciphers) \subseteq Labels
      BY <3>1, SeqOfOwn DEF Labels
    <3>. QED  BY <3>1, <3>2, SeqOfOwn, UsableStrings
  <2>. QED  BY <1>1, <1>2, <2>1 DEF HopeInv, Shaped, Step1, Lists, List, Absent, Field
<1>. QED
  BY <1>1, <1>2, <1>3 DEF HopeInv, ClientAgreed, ServerAgreed, SaysWhatRuns, BothRunTheSame,
                          Established, Step1, IsSide, Side

\* What answer() takes is the server's own.
LEMMA TakenProperties ==
  ASSUME Shaped, wire.kind = "step1"
  PROVE  LET t == Taken(setup.policy, wire)
         IN  /\ t.mac \in setup.policy.macs \cup {"none"}
             /\ t.cipher \in setup.policy.ciphers \cup {"none"}
             /\ t.compression \in (setup.policy.compressions \cap Available) \cup {"none"}
<1>1. /\ wire.macs.of \in Seq(Labels) /\ wire.ciphers.of \in Seq(Labels)
      /\ wire.compressions.of \in Seq(Labels)
  BY DEF Shaped, Lists
<1>2. /\ "none" \notin setup.policy.macs /\ "none" \notin setup.policy.ciphers
      /\ "none" \notin setup.policy.compressions \cap Available
  BY HopeAssumption, NotLabels DEF Shaped, Labels
<1>. QED  BY <1>1, <1>2, PickProperties DEF Taken

\* A server answers with what it has.
LEMMA AnswerKeeps == HopeInv /\ Answer => HopeInv'
<1>. SUFFICES ASSUME HopeInv, Answer PROVE HopeInv'
  OBVIOUS
<1>. DEFINE t == Taken(setup.policy, wire)
            refusal == IF t.mac = "none" THEN "no MAC in common"
                       ELSE IF Required(setup.policy, t.cipher) THEN "no cipher in common"
                       ELSE ""
<1>1. /\ wire.kind = "step1" /\ server.state = "start"
      /\ \/ refusal # "" /\ server' = Failed(server, refusal) /\ wire' = Nothing
         \/ /\ refusal = ""
            /\ server' = Side("answered", t.mac, t.cipher, t.compression, NoChain)
            /\ wire' = AnswerOf(t, "session key")
      /\ UNCHANGED <<setup, client, altered>>
  BY DEF Answer
<1>2. CASE refusal # "" /\ server' = Failed(server, refusal) /\ wire' = Nothing
  <2>1. server'.state = refusal /\ refusal \notin {"start", "answered", "established"}
    BY <1>2 DEF HopeInv, Shaped, IsSide, Side, Failed
  <2>2. IsSide(server')
    BY <1>2 DEF HopeInv, Shaped, IsSide, Side, Failed
  <2>. QED
    BY <1>1, <1>2, <2>1, <2>2
    DEF HopeInv, Shaped, ClientAgreed, ServerAgreed, SaysWhatRuns, BothRunTheSame,
        Established, Nothing
<1>3. CASE /\ refusal = ""
           /\ server' = Side("answered", t.mac, t.cipher, t.compression, NoChain)
           /\ wire' = AnswerOf(t, "session key")
  <2>1. /\ t.mac \in setup.policy.macs
        /\ t.cipher \in setup.policy.ciphers \cup {"none"}
        /\ t.compression \in (setup.policy.compressions \cap Available) \cup {"none"}
        /\ setup.policy.requireCipher => t.cipher # "none"
    BY <1>1, <1>3, TakenProperties DEF HopeInv, Required
  <2>. HIDE DEF t
  <2>2. IsSide(server') /\ server'.state = "answered"
    BY <1>3 DEF IsSide, Side
  <2>3. ServerAgreed'
    BY <1>1, <1>3, <2>1 DEF ServerAgreed, Side
  <2>4. "kind" \in DOMAIN wire' /\ wire'.kind = "answer"
    BY <1>3 DEF AnswerOf
  <2>. QED
    BY <1>1, <2>2, <2>3, <2>4
    DEF HopeInv, Shaped, ClientAgreed, SaysWhatRuns, BothRunTheSame, Established
<1>. QED  BY <1>1, <1>2, <1>3

\* What choice() lets through is nothing, or on its list of what is known.
LEMMA ChoiceProperties ==
  ASSUME NEW field, NEW known, NEW noneListed \in BOOLEAN
  PROVE  Choice(field, known, noneListed) \in known \cup {"none", "bad"}
BY DEF Choice

\* What a client goes on with is of what it offered, whatever the answer says.
LEMMA ChosenProperties ==
  ASSUME NEW answer, ~Unanswerable(answer)
  PROVE  /\ ChosenMac(answer) \in ToSet(setup.offer.macs)
         /\ ChosenCipher(answer) \in ToSet(setup.offer.ciphers) \cup {"none"}
         /\ ChosenCompression(answer) \in
              (ToSet(setup.offer.compressions) \cap Available) \cup {"none"}
<1>1. /\ ChosenMac(answer) \in ToSet(setup.offer.macs) \cup {"none", "bad"}
      /\ ChosenCipher(answer) \in ToSet(setup.offer.ciphers) \cup {"none", "bad"}
  BY ChoiceProperties DEF ChosenMac, ChosenCipher
<1>. DEFINE known == Available \cap ToSet(setup.offer.compressions)
            c == Choice(answer.compression, known \cup {"NONE", ""}, TRUE)
<1>2. c \in known \cup {"NONE", ""} \cup {"none", "bad"}
  BY ChoiceProperties
<1>3. ChosenCompression(answer) = IF setup.offer.compressions = <<>> \/ c \in {"NONE", ""} THEN "none" ELSE c
  BY DEF ChosenCompression
<1>. QED  BY <1>1, <1>2, <1>3 DEF Unanswerable

\* step2() fails, or the client is established.
LEMMA Step2Cases ==
  ASSUME Step2
  PROVE  /\ wire.kind = "answer" /\ client.state = "offered"
         /\ UNCHANGED <<setup, server, altered>>
         /\ \/ /\ Unanswerable(wire) /\ wire' = Nothing
               /\ client' = Failed(client, "the answer is not one to go on with")
            \/ /\ ~Unanswerable(wire) /\ wire' = Step2Of(wire)
               /\ client' = Side("established", ChosenMac(wire), ChosenCipher(wire),
                                 ChosenCompression(wire), Step2Of(wire).password)
BY DEF Step2

\* A client that goes on runs what it offered, and says so.
LEMMA Step2Keeps == HopeInv /\ Step2 => HopeInv'
<1>. SUFFICES ASSUME HopeInv, Step2 PROVE HopeInv'
  OBVIOUS
<1>1. /\ wire.kind = "answer" /\ client.state = "offered"
      /\ UNCHANGED <<setup, server, altered>>
  BY DEF Step2
<1>2. CASE /\ Unanswerable(wire) /\ wire' = Nothing
           /\ client' = Failed(client, "the answer is not one to go on with")
  <2>1. IsSide(client') /\ client'.state = "the answer is not one to go on with"
    BY <1>2 DEF HopeInv, Shaped, IsSide, Side, Failed
  <2>2. ~(Established(server) /\ "step2" \notin altered)
    BY <1>1 DEF HopeInv, BothRunTheSame, Established
  <2>. QED
    BY <1>1, <1>2, <2>1, <2>2
    DEF HopeInv, Shaped, ClientAgreed, ServerAgreed, SaysWhatRuns, BothRunTheSame,
        Established, Nothing
<1>3. CASE /\ ~Unanswerable(wire) /\ wire' = Step2Of(wire)
           /\ client' = Side("established", ChosenMac(wire), ChosenCipher(wire),
                             ChosenCompression(wire), Step2Of(wire).password)
  <2>1. ClientAgreed'
    BY <1>1, <1>3, ChosenProperties DEF ClientAgreed, Side
  <2>2. IsSide(client') /\ Established(client')
    BY <1>3 DEF IsSide, Side, Established
  <2>3. /\ "kind" \in DOMAIN wire' /\ wire'.kind = "step2"
        /\ wire'.password = client'.chain
        /\ wire'.cipher = EchoOf(client'.cipher)
        /\ wire'.compression = EchoOf(client'.compression)
        /\ client'.chain.mac = client'.mac
    BY <1>3 DEF Step2Of, Side, Chain
  <2>4. ~(Established(server) /\ "step2" \notin altered)
    BY <1>1 DEF HopeInv, BothRunTheSame, Established
  <2>. QED
    BY <1>1, <2>1, <2>2, <2>3, <2>4
    DEF HopeInv, Shaped, ServerAgreed, SaysWhatRuns, BothRunTheSame, Established
<1>. QED  BY <1>2, <1>3 DEF Step2

\* An echo that is accepted is of what the server picked, or of nothing.
LEMMA EchoedProperties ==
  ASSUME NEW field, NEW chosen, Echoed(field, chosen) # "bad"
  PROVE  Echoed(field, chosen) \in {chosen, "none"}
BY DEF Echoed

\* And what the client says that it runs is then what will run.
LEMMA EchoRuns ==
  ASSUME NEW label, NEW chosen, Echoed(EchoOf(label), chosen) # "bad"
  PROVE  Echoed(EchoOf(label), chosen) = label
<1>1. CASE label = "none"
  <2>1. EchoOf(label).is = "absent"
    BY <1>1 DEF EchoOf, Absent, Field
  <2>. QED  BY <1>1, <2>1 DEF Echoed, One, Empty, List, Field
<1>2. CASE label # "none"
  <2>1. EchoOf(label) = Field("list", <<label>>) /\ EchoOf(label).is = "list"
    BY <1>2 DEF EchoOf, List, Field
  <2>2. /\ chosen # "none" /\ EchoOf(label) = One(chosen)
        /\ Echoed(EchoOf(label), chosen) = chosen
    BY <2>1 DEF Echoed
  <2>3. EchoOf(label) = Field("list", <<chosen>>)
    BY <2>2 DEF One, List
  <2>4. <<label>>[1] = <<chosen>>[1]
    BY <2>1, <2>3 DEF Field
  <2>. QED  BY <2>2, <2>4
<1>. QED  BY <1>1, <1>2

\* accept() fails, or the server is established.
LEMMA AcceptCases ==
  ASSUME Accept
  PROVE  /\ wire.kind = "step2" /\ server.state = "answered" /\ wire' = Nothing
         /\ UNCHANGED <<setup, client, altered>>
         /\ \/ Refusal(wire) # "" /\ server' = Failed(server, Refusal(wire))
            \/ /\ Refusal(wire) = ""
               /\ server' = Side("established", server.mac, Echoed(wire.cipher, server.cipher),
                                 Echoed(wire.compression, server.compression), wire.password)
BY DEF Accept

\* A server that goes on runs what its client runs: the password proves the MAC and the
\* keys, and an echo that says otherwise is refused.
LEMMA AcceptKeeps == HopeInv /\ Accept => HopeInv'
<1>. SUFFICES ASSUME HopeInv, Accept PROVE HopeInv'
  OBVIOUS
<1>1. /\ wire.kind = "step2" /\ server.state = "answered" /\ wire' = Nothing
      /\ UNCHANGED <<setup, client, altered>>
  BY DEF Accept
<1>2. CASE Refusal(wire) # "" /\ server' = Failed(server, Refusal(wire))
  <2>1. Refusal(wire) \notin {"start", "answered", "established"}
    BY DEF Refusal
  <2>2. IsSide(server') /\ server'.state = Refusal(wire)
    BY <1>2 DEF HopeInv, Shaped, IsSide, Side, Failed
  <2>. HIDE DEF Refusal
  <2>. QED
    BY <1>1, <1>2, <2>1, <2>2
    DEF HopeInv, Shaped, ClientAgreed, ServerAgreed, SaysWhatRuns, BothRunTheSame,
        Established, Nothing
<1>3. CASE /\ Refusal(wire) = ""
           /\ server' = Side("established", server.mac, Echoed(wire.cipher, server.cipher),
                             Echoed(wire.compression, server.compression), wire.password)
  <2>1. /\ wire.password = Chain(server.mac, setup.account.password, "session key", 1)
        /\ Echoed(wire.cipher, server.cipher) # "bad"
        /\ ~Required(setup.policy, Echoed(wire.cipher, server.cipher))
        /\ Echoed(wire.compression, server.compression) # "bad"
    BY <1>3, Zenon DEF Refusal
  <2>2. IsSide(server') /\ Established(server')
    BY <1>3 DEF IsSide, Side, Established
  <2>3. ServerAgreed'
    BY <1>1, <1>3, <2>1, EchoedProperties DEF HopeInv, ServerAgreed, Side, Required
  <2>4. BothRunTheSame'
    <3>1. SUFFICES ASSUME "step2" \notin altered PROVE server' = client
      BY <1>1 DEF BothRunTheSame
    <3>2. /\ Established(client) /\ client.chain.mac = client.mac
          /\ wire.password = client.chain
          /\ wire.cipher = EchoOf(client.cipher)
          /\ wire.compression = EchoOf(client.compression)
      BY <1>1, <3>1 DEF HopeInv, SaysWhatRuns
    <3>3. /\ Echoed(wire.cipher, server.cipher) = client.cipher
          /\ Echoed(wire.compression, server.compression) = client.compression
      <4>1. /\ Echoed(EchoOf(client.cipher), server.cipher) # "bad"
            /\ Echoed(EchoOf(client.compression), server.compression) # "bad"
        BY <2>1, <3>2
      <4>2. /\ Echoed(EchoOf(client.cipher), server.cipher) = client.cipher
            /\ Echoed(EchoOf(client.compression), server.compression) = client.compression
        BY <4>1, EchoRuns
      <4>. QED  BY <3>2, <4>2
    <3>4. client.mac = server.mac
      <4>1. client.chain = Chain(server.mac, setup.account.password, "session key", 1)
        BY <2>1, <3>2, Zenon
      <4>2. Chain(server.mac, setup.account.password, "session key", 1).mac = server.mac
        BY DEF Chain
      <4>. QED  BY <3>2, <4>1, <4>2, Zenon
    <3>5. client = Side("established", client.mac, client.cipher, client.compression, client.chain)
      BY <3>2 DEF HopeInv, Shaped, IsSide, Established
    <3>. QED  BY <1>3, <3>2, <3>3, <3>4, <3>5
  <2>. QED
    BY <1>1, <2>2, <2>3, <2>4 DEF HopeInv, Shaped, ClientAgreed, SaysWhatRuns, Established, Nothing
<1>. QED  BY <1>2, <1>3 DEF Accept

\* A message altered on the way changes what is on the wire and neither side.
LEMMA AlteredKeeps ==
  HopeInv /\ (Step1Altered \/ AnswerAltered \/ Step2Altered) => HopeInv'
<1>1. ASSUME HopeInv, NEW kind \in {"step1", "answer", "step2"}, NEW m, Altered(kind, m),
             "kind" \in DOMAIN m, m.kind = kind,
             kind = "step1" => \A l \in Lists : l \in DOMAIN m /\ m[l].of \in Seq(Labels)
      PROVE  HopeInv'
  <2>1. /\ wire.kind = kind /\ wire' = m /\ altered' = altered \cup {kind}
        /\ UNCHANGED <<setup, client, server>>
    BY <1>1 DEF Altered
  <2>2. Shaped'
    BY <1>1, <2>1 DEF HopeInv, Shaped
  <2>. QED
    BY <1>1, <2>1, <2>2
    DEF HopeInv, ClientAgreed, ServerAgreed, SaysWhatRuns, BothRunTheSame, Established
<1>2. ASSUME HopeInv, Step1Altered PROVE HopeInv'
  <2>1. PICK list \in Lists \cap DOMAIN wire :
          LET labels == wire[list].of
              losses == {Absent, Garbled} \cup (IF labels = <<>> THEN {} ELSE {List(Tail(labels))})
          IN  \E f \in losses : Altered("step1", [wire EXCEPT ![list] = f])
    BY <1>2 DEF Step1Altered, Lists
  <2>2. PICK f : /\ Altered("step1", [wire EXCEPT ![list] = f])
                 /\ \/ f \in {Absent, Garbled}
                    \/ wire[list].of # <<>> /\ f = List(Tail(wire[list].of))
    BY <2>1
  <2>3. wire.kind = "step1"
    BY <2>2 DEF Altered
  <2>4. f.of \in Seq(Labels)
    <3>1. wire[list].of \in Seq(Labels)
      BY <1>2, <2>3 DEF HopeInv, Shaped
    <3>2. wire[list].of # <<>> => Tail(wire[list].of) \in Seq(Labels)
      BY <3>1, HeadTailProperties
    <3>3. <<>> \in Seq(Labels)
      BY EmptySeq
    <3>4. Absent.of = <<>> /\ Garbled.of = <<>> /\ \A ls : List(ls).of = ls
      BY DEF Absent, Garbled, List, Field
    <3>. QED  BY <2>2, <3>2, <3>3, <3>4, Zenon
  <2>. DEFINE m == [wire EXCEPT ![list] = f]
  <2>5. "kind" \in DOMAIN m /\ m.kind = "step1"
        /\ \A l \in Lists : l \in DOMAIN m /\ m[l].of \in Seq(Labels)
    BY <1>2, <2>3, <2>4 DEF HopeInv, Shaped, Lists
  <2>6. Altered("step1", m)
    BY <2>2
  <2>. HIDE DEF m
  <2>. QED  BY <1>1, <1>2, <2>5, <2>6
<1>3. ASSUME HopeInv, AnswerAltered \/ Step2Altered PROVE HopeInv'
  <2>1. PICK kind \in {"answer", "step2"}, fields \in Answers \cup Echoes :
          Altered(kind, Instead(wire, fields))
    BY <1>3 DEF AnswerAltered, Step2Altered
  <2>. DEFINE m == Instead(wire, fields)
  <2>2. wire.kind = kind
    BY <2>1 DEF Altered
  <2>3. "kind" \in DOMAIN m /\ m.kind = kind
    BY <1>3, <2>2, HopeAssumption DEF HopeInv, Shaped, Instead
  <2>. HIDE DEF m
  <2>4. Altered(kind, m)
    BY <2>1 DEF m
  <2>. QED  BY <1>1, <1>3, <2>3, <2>4
<1>. QED  BY <1>2, <1>3

\* The rest of a connection leaves the login alone.
LEMMA NextKeepsHope == HopeInv /\ [Next]_vars => HopeInv'
<1>1. HopeInv /\ HopeNext => HopeInv'
  BY OfferKeeps, AnswerKeeps, Step2Keeps, AcceptKeeps, AlteredKeeps DEF HopeNext
<1>2. HopeInv /\ UNCHANGED hopeVars => HopeInv'
  BY DEF hopeVars, HopeInv, Shaped, IsSide, ClientAgreed, ServerAgreed, SaysWhatRuns,
         BothRunTheSame, Established, EchoOf
<1>3. ASSUME NEW d \in Directions, NEW n PROVE Send(d, n) \/ Receive(d, n) => UNCHANGED hopeVars
  BY DEF Send, Receive
<1>4. Next => HopeNext \/ UNCHANGED hopeVars
  BY <1>3 DEF Next, LogIn
<1>. QED  BY <1>1, <1>2, <1>4 DEF vars

\* The login's inductive invariant.
LEMMA HopeInvAlways == Spec => []HopeInv
<1>1. Init => HopeInv
  BY HopeInvInit DEF Init
<1>. QED  BY <1>1, NextKeepsHope, PTL DEF Spec

\* Server::accept, for every offer, every policy and whatever another implementation
\* offers or answers in a message's place: a server that goes on runs what its client
\* runs, under the same keys, if step 2 came as it was sent. Its echo is under no MAC.
THEOREM BothRunTheSameAlways == Spec => []BothRunTheSame
BY HopeInvAlways, PTL DEF HopeInv

\* Server::accept: for every policy that requires one, a cipher that the server has
\* runs, or the server does not go on, whatever is lost of the pick or of its echo.
THEOREM RequiredCipherAlwaysKept == Spec => []RequiredCipherKept
<1>1. HopeInv => RequiredCipherKept
  BY DEF HopeInv, ServerAgreed, RequiredCipherKept, Established
<1>. QED  BY <1>1, HopeInvAlways, PTL

\* client::step2 and Server::accept: neither side ever runs what it does not have or
\* did not choose, whatever the other says.
THEOREM AlwaysWithinOwnLists == Spec => []WithinOwnLists
<1>1. HopeInv => WithinOwnLists
  BY DEF HopeInv, ClientAgreed, ServerAgreed, WithinOwnLists, Established
<1>. QED  BY <1>1, HopeInvAlways, PTL

----------------------------------------------------------------------------
(* A login in whose way nothing gets.                                      *)

\* What the server takes of the client's own offer.
Offered == Taken(setup.policy, Step1(setup.offer))

Undisturbed ==
  altered = {} =>
    /\ wire.kind = "step1" => wire = Step1(setup.offer)
    /\ wire.kind = "answer" => server.state = "answered" /\ wire = AnswerOf(Offered, "session key")
    /\ wire.kind = "step2" => wire = Step2Of(AnswerOf(Offered, "session key"))
    /\ server.state = "answered" =>
         /\ server.mac = Offered.mac /\ server.mac # "none"
         /\ server.cipher = Offered.cipher /\ server.compression = Offered.compression

\* What is taken was offered, and what is not there to be taken is not in common.
LEMMA OfferedProperties ==
  ASSUME setup \in Setups
  PROVE  /\ Offered.mac \in (ToSet(setup.offer.macs) \cap setup.policy.macs) \cup {"none"}
         /\ Offered.cipher \in (ToSet(setup.offer.ciphers) \cap setup.policy.ciphers) \cup {"none"}
         /\ Offered.compression \in
              (ToSet(setup.offer.compressions) \cap Available) \cup {"none"}
         /\ Offered.mac = "none" => ~InCommon(setup.offer.macs, setup.policy.macs)
         /\ Offered.cipher = "none" => ~InCommon(setup.offer.ciphers, setup.policy.ciphers)
<1>. DEFINE m == Step1(setup.offer)
            have == setup.policy.compressions \cap Available
<1>1. /\ setup.offer.macs \in Seq(Macs) /\ setup.offer.ciphers \in Seq(Ciphers)
      /\ setup.offer.compressions \in Seq(Compressions)
      /\ setup.policy.macs \subseteq Macs /\ setup.policy.ciphers \subseteq Ciphers
      /\ setup.policy.compressions \subseteq Compressions
  BY HopeAssumption
<1>2. /\ setup.offer.macs \in Seq(Labels) /\ setup.offer.ciphers \in Seq(Labels)
      /\ Usable(setup.offer.compressions) \in Seq(Labels)
  <2>1. ToSet(setup.offer.macs) \subseteq Labels /\ ToSet(setup.offer.ciphers) \subseteq Labels
    BY <1>1, SeqOfOwn DEF Labels
  <2>. QED  BY <1>1, <2>1, SeqOfOwn, UsableStrings
<1>3. /\ "none" \notin setup.policy.macs /\ "none" \notin setup.policy.ciphers /\ "none" \notin have
  BY <1>1, NotLabels DEF Labels
<1>4. /\ m.macs.is = "list" /\ m.macs.of = setup.offer.macs
      /\ m.ciphers.is = "list" /\ m.ciphers.of = setup.offer.ciphers
      /\ m.compressions.is = "list" => m.compressions.of = Usable(setup.offer.compressions)
      /\ m.compressions.of \in Seq(Labels)
  <2>1. <<>> \in Seq(Labels)
    BY EmptySeq
  <2>. QED  BY <1>2, <2>1 DEF Step1, List, Absent, Field
<1>5. /\ Offered.mac = Pick(m.macs, setup.policy.macs)
      /\ Offered.cipher = Pick(m.ciphers, setup.policy.ciphers)
      /\ Offered.compression = Pick(m.compressions, have)
  BY DEF Offered, Taken
<1>. HIDE DEF m, have
<1>6. /\ Pick(m.macs, setup.policy.macs) # "none" =>
           Offered.mac \in ToSet(setup.offer.macs) \cap setup.policy.macs
      /\ Pick(m.macs, setup.policy.macs) = "none" =>
           \A l \in ToSet(setup.offer.macs) : l \notin setup.policy.macs
  BY <1>2, <1>3, <1>4, <1>5, PickProperties
<1>7. /\ Pick(m.ciphers, setup.policy.ciphers) # "none" =>
           Offered.cipher \in ToSet(setup.offer.ciphers) \cap setup.policy.ciphers
      /\ Pick(m.ciphers, setup.policy.ciphers) = "none" =>
           \A l \in ToSet(setup.offer.ciphers) : l \notin setup.policy.ciphers
  BY <1>2, <1>3, <1>4, <1>5, PickProperties
<1>8. Pick(m.compressions, have) # "none" =>
        Offered.compression \in ToSet(Usable(setup.offer.compressions))
  BY <1>3, <1>4, <1>5, PickProperties
<1>. QED  BY <1>1, <1>5, <1>6, <1>7, <1>8, UsableStrings DEF InCommon

\* The client takes from such an answer just what the server took.
LEMMA AnswerTaken ==
  ASSUME setup \in Setups, Offered.mac # "none"
  PROVE  LET a == AnswerOf(Offered, "session key")
         IN  /\ ~Unanswerable(a)
             /\ ChosenMac(a) = Offered.mac /\ ChosenCipher(a) = Offered.cipher
             /\ ChosenCompression(a) = Offered.compression
<1>. DEFINE a == AnswerOf(Offered, "session key")
<1>1. /\ ToSet(setup.offer.macs) \subseteq Labels /\ ToSet(setup.offer.ciphers) \subseteq Labels
      /\ ToSet(setup.offer.compressions) \subseteq Labels
      /\ setup.offer.compressions = <<>> => ToSet(setup.offer.compressions) = {}
  BY HopeAssumption, SeqOfOwn DEF Labels, ToSet
<1>2. ASSUME NEW label, NEW known, NEW noneListed, label \in (known \cap Labels) \cup {"none"}
      PROVE  Choice(One(label), known, noneListed) = label
  <2>1. CASE label = "none"
    BY <2>1 DEF Choice, One, Empty, Field
  <2>2. CASE label # "none"
    <3>1. /\ One(label).is = "list" /\ One(label).of # <<>> /\ One(label).of[1] = label
      BY <2>2 DEF One, List, Field
    <3>. QED  BY <1>2, <2>2, <3>1 DEF Choice
  <2>. QED  BY <2>1, <2>2
<1>3. /\ a.key = "session key" /\ a.mode = "absent" /\ a.mac = One(Offered.mac)
      /\ a.cipher = One(Offered.cipher) /\ a.compression = One(Offered.compression)
  BY DEF AnswerOf
<1>4. ChosenMac(a) = Offered.mac /\ ChosenCipher(a) = Offered.cipher
  <2>1. /\ Offered.mac \in (ToSet(setup.offer.macs) \cap Labels) \cup {"none"}
        /\ Offered.cipher \in (ToSet(setup.offer.ciphers) \cap Labels) \cup {"none"}
    BY <1>1, OfferedProperties
  <2>2. /\ Choice(One(Offered.mac), ToSet(setup.offer.macs), FALSE) = Offered.mac
        /\ Choice(One(Offered.cipher), ToSet(setup.offer.ciphers), FALSE) = Offered.cipher
    BY <1>2, <2>1
  <2>. QED  BY <1>3, <2>2 DEF ChosenMac, ChosenCipher
<1>5. ChosenCompression(a) = Offered.compression
  <2>. DEFINE known == Available \cap ToSet(setup.offer.compressions)
  <2>1. Offered.compression \in (known \cap Labels) \cup {"none"}
    BY <1>1, OfferedProperties
  <2>2. Choice(One(Offered.compression), known \cup {"NONE", ""}, TRUE) = Offered.compression
    BY <1>2, <2>1
  <2>3. Offered.compression \notin {"NONE", ""}
    BY <2>1, NotLabels
  <2>4. setup.offer.compressions = <<>> => Offered.compression = "none"
    BY <1>1, <2>1
  <2>. QED  BY <1>3, <2>2, <2>3, <2>4 DEF ChosenCompression
<1>6. ~Unanswerable(a)
  <2>1. Offered.mac \notin {"none", "bad"} /\ Offered.cipher # "bad" /\ Offered.compression # "bad"
    BY <1>1, OfferedProperties, NotLabels
  <2>2. ModeFits(ChosenCipher(a), a.mode)
    BY <1>3 DEF ModeFits
  <2>. QED  BY <1>3, <1>4, <1>5, <2>1, <2>2 DEF Unanswerable
<1>. QED  BY <1>4, <1>5, <1>6

\* Neither side stops but for a reason that the setup gives.
Reasons ==
  \/ ~InCommon(setup.offer.macs, setup.policy.macs)
  \/ setup.policy.requireCipher /\ ~InCommon(setup.offer.ciphers, setup.policy.ciphers)
  \/ setup.who # setup.account

Going(side) == side.state \in {"start", "offered", "answered", "established"}

UndisturbedInv ==
  /\ HopeInv /\ Undisturbed
  /\ client.state \in {"start", "offered", "established"} \/ ~Going(client)
  /\ server.state \in {"start", "answered", "established"} \/ ~Going(server)
  /\ altered = {} /\ ~(Going(client) /\ Going(server)) => Reasons

\* step2() goes on from what answer() said.
LEMMA Step2Undisturbed ==
  ASSUME UndisturbedInv, Step2, altered = {}
  PROVE  Undisturbed' /\ Established(client')
<1>1. /\ wire = AnswerOf(Offered, "session key") /\ server.state = "answered"
      /\ Offered.mac # "none" /\ setup \in Setups
  BY DEF UndisturbedInv, Undisturbed, HopeInv, Shaped, Step2
<1>2. ~Unanswerable(wire)
  BY <1>1, AnswerTaken
<1>3. /\ wire' = Step2Of(AnswerOf(Offered, "session key")) /\ wire'.kind = "step2"
      /\ Established(client') /\ UNCHANGED <<setup, server, altered>>
  <2>1. /\ wire' = Step2Of(wire) /\ client'.state = "established"
        /\ UNCHANGED <<setup, server, altered>>
    <3>1. /\ wire' = Step2Of(wire) /\ UNCHANGED <<setup, server, altered>>
          /\ client' = Side("established", ChosenMac(wire), ChosenCipher(wire),
                            ChosenCompression(wire), Step2Of(wire).password)
      BY <1>2, Step2Cases, Zenon
    <3>. QED  BY <3>1 DEF Side
  <2>2. Step2Of(wire).kind = "step2"
    BY DEF Step2Of
  <2>. QED  BY <1>1, <2>1, <2>2 DEF Established
<1>4. Offered' = Offered /\ (Step2Of(AnswerOf(Offered, "session key")))' = Step2Of(AnswerOf(Offered, "session key"))
  BY <1>3 DEF Offered, Step2Of, ChosenMac, ChosenCipher, ChosenCompression, Step1, Taken, AnswerOf
<1>. QED  BY <1>3, <1>4 DEF UndisturbedInv, Undisturbed

\* accept() takes what step2() says, if who logs in is who the server has.
LEMMA AcceptUndisturbed ==
  ASSUME UndisturbedInv, wire.kind = "step2", server.state = "answered", altered = {},
         setup.who = setup.account
  PROVE  Refusal(wire) = ""
<1>. DEFINE a == AnswerOf(Offered, "session key")
<1>1. /\ wire = Step2Of(a) /\ setup \in Setups
      /\ server.mac = Offered.mac /\ Offered.mac # "none"
      /\ server.cipher = Offered.cipher /\ server.compression = Offered.compression
      /\ setup.policy.requireCipher => server.cipher # "none"
  BY DEF UndisturbedInv, Undisturbed, HopeInv, Shaped, ServerAgreed
<1>2. /\ ChosenMac(a) = Offered.mac /\ ChosenCipher(a) = Offered.cipher
      /\ ChosenCompression(a) = Offered.compression
      /\ a.key = "session key" /\ a.login = Offered.mac
  BY <1>1, AnswerTaken DEF AnswerOf
<1>3. /\ wire.login = LoginAs("mac", setup.who.login, Offered.mac, "session key")
      /\ wire.password = Chain(Offered.mac, setup.who.password, "session key", 1)
      /\ wire.cipher = EchoOf(Offered.cipher)
      /\ wire.compression = EchoOf(Offered.compression)
  BY <1>1, <1>2 DEF Step2Of
<1>4. Offered.cipher # "bad" /\ Offered.compression # "bad"
  <2>1. /\ ToSet(setup.offer.ciphers) \subseteq Labels
        /\ ToSet(setup.offer.compressions) \subseteq Labels
    BY <1>1, HopeAssumption, SeqOfOwn DEF Labels
  <2>. QED  BY <1>1, <2>1, OfferedProperties, NotLabels
<1>5. ASSUME NEW label, label # "bad" PROVE Echoed(EchoOf(label), label) = label
  <2>1. CASE label = "none"
    BY <2>1 DEF Echoed, EchoOf, Absent, One, Empty, List, Field
  <2>2. CASE label # "none"
    BY <2>2 DEF Echoed, EchoOf, Absent, One, Empty, List, Field
  <2>. QED  BY <2>1, <2>2
<1>6. /\ Echoed(wire.cipher, server.cipher) = Offered.cipher
      /\ Echoed(wire.compression, server.compression) = Offered.compression
  BY <1>1, <1>3, <1>4, <1>5
<1>7. Names(wire, setup.account.login, server.mac, "session key")
  BY <1>1, <1>3 DEF Names
<1>8. ~Required(setup.policy, Offered.cipher)
  BY <1>1 DEF Required
<1>. QED  BY <1>1, <1>3, <1>4, <1>6, <1>7, <1>8 DEF Refusal

\* answer() says what the server takes of the offer, or that no MAC is in common.
LEMMA AnswerUndisturbed ==
  ASSUME UndisturbedInv, Answer, altered = {}
  PROVE  Undisturbed' /\ (Going(server') \/ Reasons)
<1>1. Taken(setup.policy, wire) = Offered /\ setup \in Setups
  BY DEF Answer, UndisturbedInv, Undisturbed, HopeInv, Shaped, Offered
<1>2. Offered' = Offered /\ UNCHANGED <<setup, client, altered>>
  BY DEF Answer, Offered, Step1, Taken
<1>3. CASE Offered.mac = "none"
  <2>1. server' = Failed(server, "no MAC in common") /\ wire' = Nothing
    BY <1>1, <1>3, Zenon DEF Answer
  <2>2. server'.state = "no MAC in common" /\ wire'.kind = "nothing"
    BY <2>1 DEF UndisturbedInv, HopeInv, Shaped, IsSide, Side, Failed, Nothing
  <2>. QED  BY <1>1, <1>2, <1>3, <2>2, OfferedProperties DEF Undisturbed, Reasons
<1>4. CASE Offered.mac # "none" /\ Required(setup.policy, Offered.cipher)
  <2>1. server' = Failed(server, "no cipher in common") /\ wire' = Nothing
    BY <1>1, <1>4 DEF Answer
  <2>2. server'.state = "no cipher in common" /\ wire'.kind = "nothing"
    BY <2>1 DEF UndisturbedInv, HopeInv, Shaped, IsSide, Side, Failed, Nothing
  <2>. QED  BY <1>1, <1>2, <1>4, <2>2, OfferedProperties DEF Undisturbed, Reasons, Required
<1>5. CASE Offered.mac # "none" /\ ~Required(setup.policy, Offered.cipher)
  <2>1. /\ server' = Side("answered", Offered.mac, Offered.cipher, Offered.compression, NoChain)
        /\ wire' = AnswerOf(Offered, "session key")
    BY <1>1, <1>5 DEF Answer
  <2>2. wire'.kind = "answer" /\ AnswerOf(Offered, "session key")' = AnswerOf(Offered, "session key")
    BY <1>2, <2>1 DEF AnswerOf
  <2>. QED  BY <1>2, <1>5, <2>1, <2>2 DEF Undisturbed, Side, Going
<1>. QED  BY <1>3, <1>4, <1>5

\* Nothing gets in the way of a login but what was lost of it.
LEMMA NextKeepsUndisturbed == UndisturbedInv /\ [Next]_vars => UndisturbedInv'
<1>. SUFFICES ASSUME UndisturbedInv, [Next]_vars PROVE UndisturbedInv'
  OBVIOUS
<1>1. HopeInv'
  BY NextKeepsHope DEF UndisturbedInv
<1>. DEFINE States ==
              /\ client.state \in {"start", "offered", "established"} \/ ~Going(client)
              /\ server.state \in {"start", "answered", "established"} \/ ~Going(server)
            Fails == altered = {} /\ ~(Going(client) /\ Going(server)) => Reasons
<1>2. States /\ Fails /\ Undisturbed /\ HopeInv
  BY DEF UndisturbedInv
<1>3. CASE Offer
  <2>1. /\ wire' = Step1(setup.offer) /\ wire'.kind = "step1"
        /\ client'.state = "offered" /\ Going(client) /\ Going(client')
        /\ UNCHANGED <<setup, server, altered>>
    BY <1>2, <1>3 DEF Offer, Step1, HopeInv, Shaped, IsSide, Side, Going
  <2>2. Offered' = Offered /\ Step1(setup.offer)' = Step1(setup.offer)
    BY <2>1 DEF Offered, Step1, Taken
  <2>3. Undisturbed'
    BY <1>2, <2>1, <2>2 DEF Undisturbed
  <2>. QED  BY <1>1, <1>2, <2>1, <2>3 DEF UndisturbedInv, Going, Reasons
<1>4. CASE Answer
  <2>1. /\ server.state = "start" /\ UNCHANGED <<setup, client, altered>>
        /\ server'.state \in {"answered", "no MAC in common", "no cipher in common"}
    <3>1. IsSide(server) /\ server.state = "start" /\ UNCHANGED <<setup, client, altered>>
      BY <1>2, <1>4 DEF HopeInv, Shaped, Answer
    <3>. DEFINE t == Taken(setup.policy, wire)
    <3>2. \/ server' = Side("answered", t.mac, t.cipher, t.compression, NoChain)
          \/ server' = Failed(server, "no MAC in common")
          \/ server' = Failed(server, "no cipher in common")
      BY <1>4, Zenon DEF Answer
    <3>. HIDE DEF t
    <3>3. CASE server' = Side("answered", t.mac, t.cipher, t.compression, NoChain)
      BY <3>1, <3>3 DEF Side
    <3>4. CASE server' = Failed(server, "no MAC in common")
      BY <3>1, <3>4 DEF IsSide, Side, Failed
    <3>5. CASE server' = Failed(server, "no cipher in common")
      BY <3>1, <3>5 DEF IsSide, Side, Failed
    <3>. QED  BY <3>2, <3>3, <3>4, <3>5
  <2>2. altered = {} => Undisturbed' /\ (Going(server') \/ Reasons)
    BY <1>4, AnswerUndisturbed
  <2>. QED  BY <1>1, <1>2, <2>1, <2>2 DEF UndisturbedInv, Undisturbed, Going, Reasons
<1>5. CASE Step2
  <2>1. /\ client.state = "offered" /\ UNCHANGED <<setup, server, altered>>
        /\ client'.state \in {"established", "the answer is not one to go on with"}
    <3>1. IsSide(client) /\ client.state = "offered" /\ UNCHANGED <<setup, server, altered>>
      BY <1>2, <1>5 DEF HopeInv, Shaped, Step2
    <3>. DEFINE agreed == Side("established", ChosenMac(wire), ChosenCipher(wire),
                               ChosenCompression(wire), Step2Of(wire).password)
    <3>2. \/ client' = Failed(client, "the answer is not one to go on with")
          \/ client' = agreed
      BY <1>5, Step2Cases, Zenon
    <3>3. CASE client' = Failed(client, "the answer is not one to go on with")
      BY <3>1, <3>3 DEF IsSide, Side, Failed
    <3>4. CASE client' = agreed
      BY <3>1, <3>4 DEF Side
    <3>. QED  BY <3>2, <3>3, <3>4
  <2>2. altered = {} => Undisturbed' /\ Established(client')
    BY <1>5, Step2Undisturbed
  <2>. QED
    BY <1>1, <1>2, <2>1, <2>2 DEF UndisturbedInv, Undisturbed, Going, Reasons, Established
<1>6. CASE Accept
  <2>1. /\ wire.kind = "step2" /\ server.state = "answered"
        /\ wire' = Nothing /\ wire'.kind = "nothing" /\ UNCHANGED <<setup, client, altered>>
        /\ server'.state = IF Refusal(wire) = "" THEN "established" ELSE Refusal(wire)
        /\ ~(Refusal(wire) \in {"start", "offered", "answered", "established"})
    <3>1. Refusal(wire) \notin {"start", "offered", "answered", "established"}
      BY DEF Refusal
    <3>2. /\ wire.kind = "step2" /\ server.state = "answered"
          /\ wire' = Nothing /\ UNCHANGED <<setup, client, altered>>
      BY <1>6, AcceptCases
    <3>3. IsSide(server)
      BY <1>2 DEF HopeInv, Shaped
    <3>. DEFINE agreed == Side("established", server.mac, Echoed(wire.cipher, server.cipher),
                               Echoed(wire.compression, server.compression), wire.password)
    <3>4. \/ Refusal(wire) # "" /\ server' = Failed(server, Refusal(wire))
          \/ Refusal(wire) = "" /\ server' = agreed
      BY <1>6, AcceptCases, Zenon
    <3>5. CASE Refusal(wire) # "" /\ server' = Failed(server, Refusal(wire))
      BY <3>1, <3>2, <3>3, <3>5 DEF IsSide, Side, Failed, Nothing
    <3>6. CASE Refusal(wire) = "" /\ server' = agreed
      BY <3>1, <3>2, <3>6 DEF Side, Nothing
    <3>. QED  BY <3>4, <3>5, <3>6
  <2>2. altered = {} /\ setup.who = setup.account => Refusal(wire) = ""
    BY <2>1, AcceptUndisturbed
  <2>. HIDE DEF Refusal
  <2>3. Undisturbed'
    BY <2>1 DEF Undisturbed
  <2>. QED  BY <1>1, <1>2, <2>1, <2>2, <2>3 DEF UndisturbedInv, Going, Reasons
<1>7. CASE Step1Altered \/ AnswerAltered \/ Step2Altered
  <2>1. altered' # {} /\ UNCHANGED <<setup, client, server>>
    BY <1>7 DEF Step1Altered, AnswerAltered, Step2Altered, Altered
  <2>. QED  BY <1>1, <1>2, <2>1 DEF UndisturbedInv, Undisturbed, Going
<1>8. CASE UNCHANGED hopeVars
  <2>1. UNCHANGED <<setup, wire, client, server, altered>>
    BY <1>8 DEF hopeVars
  <2>2. /\ Offered' = Offered /\ Step1(setup.offer)' = Step1(setup.offer)
        /\ AnswerOf(Offered, "session key")' = AnswerOf(Offered, "session key")
        /\ Step2Of(AnswerOf(Offered, "session key"))' = Step2Of(AnswerOf(Offered, "session key"))
    BY <2>1
    DEF Offered, Step1, Taken, AnswerOf, Step2Of, ChosenMac, ChosenCipher, ChosenCompression
  <2>. QED  BY <1>1, <1>2, <2>1, <2>2 DEF UndisturbedInv, Undisturbed, Going, Reasons
<1>9. ASSUME NEW d \in Directions, NEW n PROVE Send(d, n) \/ Receive(d, n) => UNCHANGED hopeVars
  BY DEF Send, Receive
<1>. QED
  BY <1>3, <1>4, <1>5, <1>6, <1>7, <1>8, <1>9 DEF Next, LogIn, HopeNext, vars

\* answer(), step2() and accept(): for all that two sides may be set up with, a login in
\* whose way nothing gets succeeds, unless they have no MAC in common, or no cipher where
\* one is required, or the credentials are wrong.
THEOREM AlwaysFailsForAReason == Spec => []FailsForAReason
<1>1. Init => UndisturbedInv
  <2>1. Init => HopeInv
    BY HopeInvInit DEF Init
  <2>. QED
    BY <2>1 DEF Init, HopeInit, UndisturbedInv, Undisturbed, Going, Fresh, Side, Nothing
<1>2. UndisturbedInv => FailsForAReason
  BY DEF UndisturbedInv, FailsForAReason, Going, Reasons
<1>. QED  BY <1>1, <1>2, NextKeepsUndisturbed, PTL DEF Spec

----------------------------------------------------------------------------
(* The connection: what each side has to send.                              *)

\* The cells of a direction's transactions, each with the size of its own.
Mine(d) == {c \in Plains(DOMAIN Frames(d)) : c.n = Frames(d)[c.i].n}

LEMMA FramesTypes ==
  ASSUME HopeInv, NEW d \in Directions
  PROVE  /\ Frames(d) \in Seq(Transaction)
         /\ Rounds(d) \in [DOMAIN Frames(d) -> 0 .. MaxRounds]
<1>1. Frames(d) \in Seq(Transaction)
  BY ConnectionAssumption DEF HopeInv, Shaped, Frames
<1>. DEFINE f == Frames(d)
<1>2. \A i \in DOMAIN f : f[i] \in Transaction
  BY <1>1, ElementOfSeq
<1>3. \A i \in DOMAIN f : f[i].mark \in 0 .. MaxRounds
  BY <1>2 DEF Transaction
<1>4. Rounds(d) = [i \in DOMAIN f |-> f[i].mark]
  BY DEF Rounds
<1>. HIDE DEF f
<1>5. Rounds(d) \in [DOMAIN f -> 0 .. MaxRounds]
  BY <1>3, <1>4
<1>. QED  BY <1>1, <1>5 DEF f

LEMMA CellsTypes ==
  ASSUME HopeInv, NEW d \in Directions, NEW i \in DOMAIN Frames(d),
         NEW n, n = Frames(d)[i].n
  PROVE  /\ BodyFits(n) => CellsOf(i, n) \in Seq(Mine(d))
         /\ HeadOnly(i, n) \in Seq(Mine(d))
<1>1. Frames(d) \in Seq(Transaction)
  BY FramesTypes
<1>2. Frames(d)[i] \in Transaction /\ i \in Nat
  BY <1>1, ElementOfSeq, LenProperties
<1>3. n \in Nat
  BY <1>2 DEF Transaction
<1>4. \A k \in Nat : Cell("head", i, k, n) \in Mine(d) /\ Cell("body", i, k, n) \in Mine(d)
  BY <1>2, <1>3 DEF Mine, Plains, Cells, Kinds, Cell
<1>5. Hdr \in Nat /\ CountLen \in Nat
  BY TransportAssumption
<1>6. HeadOnly(i, n) \in Seq(Mine(d))
  <2>. DEFINE z == HeadOnly(i, n)
  <2>1. z = [k \in 1 .. Hdr |-> Cell("head", i, k, n)]
    BY DEF HeadOnly
  <2>. HIDE DEF z
  <2>2. \A k \in 1 .. Hdr : Cell("head", i, k, n) \in Mine(d)
    BY <1>4, <1>5
  <2>3. z \in [1 .. Hdr -> Mine(d)]
    BY <2>1, <2>2
  <2>. QED  BY <1>5, <2>3 DEF z
<1>7. ASSUME BodyFits(n) PROVE CellsOf(i, n) \in Seq(Mine(d))
  <2>. DEFINE z == CellsOf(i, n)
              m == Hdr + BodyLen(n)
              c(k) == Cell(IF k <= Hdr THEN "head" ELSE "body", i, k, n)
  <2>1. m \in Nat
    BY <1>3, <1>5, <1>7, SMT DEF BodyFits, BodyLen
  <2>2. z = [k \in 1 .. m |-> c(k)]
    BY DEF CellsOf
  <2>3. \A k \in 1 .. m : c(k) \in Mine(d)
    <3>1. SUFFICES ASSUME NEW k \in 1 .. m PROVE c(k) \in Mine(d)
      OBVIOUS
    <3>2. k \in Nat
      BY <2>1
    <3>3. CASE k <= Hdr
      BY <1>4, <3>2, <3>3
    <3>4. CASE ~(k <= Hdr)
      BY <1>4, <3>2, <3>4
    <3>. QED  BY <3>3, <3>4
  <2>. HIDE DEF z, m, c
  <2>4. z \in [1 .. m -> Mine(d)]
    BY <2>2, <2>3
  <2>. QED  BY <2>1, <2>4 DEF z
<1>. QED  BY <1>6, <1>7

LEMMA PlainTypes ==
  ASSUME HopeInv, NEW d \in Directions
  PROVE  Plain(d) \in Seq(Mine(d))
<1>. DEFINE f == Frames(d)
            g == [i \in DOMAIN f |-> IF BodyFits(f[i].n) THEN CellsOf(i, f[i].n)
                                     ELSE HeadOnly(i, f[i].n)]
<1>1. Plain(d) = FlattenSeq(g)
  BY DEF Plain
<1>2. f \in Seq(Transaction)
  BY FramesTypes
<1>3. DOMAIN f = 1 .. Len(f) /\ Len(f) \in Nat
  BY <1>2, LenProperties
<1>4. ASSUME NEW i \in DOMAIN f PROVE g[i] \in Seq(Mine(d))
  <2>. DEFINE n == f[i].n
  <2>1. i \in DOMAIN Frames(d) /\ n = Frames(d)[i].n
    OBVIOUS
  <2>2. g[i] = IF BodyFits(n) THEN CellsOf(i, n) ELSE HeadOnly(i, n)
    OBVIOUS
  <2>. HIDE DEF n, g, f
  <2>3. (BodyFits(n) => CellsOf(i, n) \in Seq(Mine(d))) /\ HeadOnly(i, n) \in Seq(Mine(d))
    BY <2>1, CellsTypes
  <2>. QED  BY <2>2, <2>3
<1>. HIDE DEF f
<1>5. DOMAIN g = 1 .. Len(f)
  BY <1>3
<1>. DEFINE X == Seq(Mine(d))
<1>6. g \in [1 .. Len(f) -> X]
  <2>1. g = [i \in 1 .. Len(f) |-> g[i]]
    BY <1>3
  <2>2. \A i \in 1 .. Len(f) : g[i] \in X
    BY <1>3, <1>4
  <2>. HIDE DEF g, X
  <2>. QED  BY <2>1, <2>2
<1>7. g \in Seq(X)
  <2>. HIDE DEF g, X
  <2>. QED  BY <1>3, <1>6
<1>. HIDE DEF g
<1>8. FlattenSeq(g) \in Seq(Mine(d))
  BY <1>7, EmptySeq, FlattenConcat
<1>. QED  BY <1>1, <1>8

\* The next cells to send.
NextOf(d, n) == SubSeq(Plain(d), passed[d] + 1, passed[d] + n)

SentSoFar(d) ==
  /\ PlainSent(d) \in Seq(Mine(d)) /\ PlainSent(d) \in Seq(Cells)
  /\ Len(PlainSent(d)) = passed[d]

LEMMA PlainSentTypes ==
  ASSUME HopeInv, NEW d \in Directions, passed[d] \in 0 .. Len(Plain(d))
  PROVE  SentSoFar(d)
<1>. DEFINE p == Plain(d)
            n == passed[d]
            M == Mine(d)
<1>1. p \in Seq(M)
  BY PlainTypes
<1>2. M \subseteq Cells
  BY DEF Mine, Plains
<1>3. n \in 0 .. Len(p)
  OBVIOUS
<1>4. PlainSent(d) = SubSeq(p, 1, n)
  BY DEF PlainSent
<1>. HIDE DEF p, n, M
<1>5. Len(p) \in Nat /\ (\A i \in 1 .. Len(p) : p[i] \in M)
  BY <1>1, ElementOfSeq, LenProperties
<1>6. n \in Nat /\ n \in Int /\ 1 \in Int
  BY <1>3, <1>5, SMT
<1>7. \A i \in 1 .. n : p[i] \in M
  <2>1. ASSUME NEW i \in 1 .. n PROVE i \in 1 .. Len(p)
    BY <1>3, <1>5, SMT
  <2>. QED  BY <1>5, <2>1
<1>8. SubSeq(p, 1, n) \in Seq(M) /\ Len(SubSeq(p, 1, n)) = IF 1 <= n THEN n - 1 + 1 ELSE 0
  BY <1>6, <1>7, SubSeqProperties
<1>. DEFINE z == SubSeq(p, 1, n)
<1>9. Len(z) = n
  <2>1. Len(z) = IF 1 <= n THEN n - 1 + 1 ELSE 0
    BY <1>8
  <2>. HIDE DEF z
  <2>. QED  BY <1>6, <2>1, SMT
<1>10. z \in Seq(M)
  BY <1>8
<1>. HIDE DEF z
<1>11. z \in Seq(Cells)
  BY <1>2, <1>10, SeqMonotonic
<1>. QED  BY <1>4, <1>9, <1>10, <1>11 DEF SentSoFar, n, M, z

Sendable(d, n) ==
  /\ NextOf(d, n) \in Seq(Plains(DOMAIN Frames(d))) /\ NextOf(d, n) \in Seq(Cells)
  /\ Len(NextOf(d, n)) = n
  /\ PlainSent(d) \o NextOf(d, n) = SubSeq(Plain(d), 1, passed[d] + n)

LEMMA NextTypes ==
  ASSUME HopeInv, NEW d \in Directions, passed[d] \in 0 .. Len(Plain(d)),
         NEW n \in 1 .. Len(Plain(d)) - passed[d]
  PROVE  Sendable(d, n)
<1>. DEFINE p == Plain(d)
            a == passed[d]
            b == a + n
            M == Mine(d)
<1>1. p \in Seq(M)
  BY PlainTypes
<1>2. M \subseteq Plains(DOMAIN Frames(d)) /\ M \subseteq Cells
  BY DEF Mine, Plains
<1>3. a \in 0 .. Len(p) /\ n \in 1 .. Len(p) - a
  OBVIOUS
<1>4. NextOf(d, n) = SubSeq(p, a + 1, b) /\ PlainSent(d) = SubSeq(p, 1, a)
  BY DEF NextOf, PlainSent
<1>. HIDE DEF p, a, M
<1>5. Len(p) \in Nat /\ (\A i \in 1 .. Len(p) : p[i] \in M)
  BY <1>1, ElementOfSeq, LenProperties
<1>6. /\ a \in Nat /\ n \in Nat /\ b \in Nat /\ a + 1 <= b /\ b <= Len(p) /\ (b - (a + 1)) + 1 = n
      /\ a + 1 \in Int /\ b \in Int
      /\ 1 \in 1 .. Len(p) + 1 /\ a \in 1 - 1 .. Len(p) /\ b \in a .. Len(p)
  BY <1>3, <1>5, SMT
<1>. DEFINE z == SubSeq(p, a + 1, b)
<1>7. z \in Seq(M) /\ Len(z) = n
  <2>. DEFINE c == a + 1
  <2>1. \A i \in c .. b : p[i] \in M
    <3>1. ASSUME NEW i \in c .. b PROVE i \in 1 .. Len(p)
      BY <1>5, <1>6, SMT
    <3>. QED  BY <1>5, <3>1
  <2>2. c \in Int /\ b \in Int /\ c <= b /\ (b - c) + 1 = n
    BY <1>6
  <2>3. z = SubSeq(p, c, b)
    OBVIOUS
  <2>. HIDE DEF c, b, z
  <2>4. SubSeq(p, c, b) \in Seq(M) /\ Len(SubSeq(p, c, b)) = IF c <= b THEN b - c + 1 ELSE 0
    BY <2>1, <2>2, SubSeqProperties
  <2>5. Len(z) = b - c + 1
    BY <2>2, <2>3, <2>4
  <2>6. Len(z) = n
    BY <2>2, <2>5, SMT
  <2>. QED  BY <2>3, <2>4, <2>6
<1>8. SubSeq(p, 1, a) \o z = SubSeq(p, 1, b)
  <2>. HIDE DEF b
  <2>. QED  BY <1>1, <1>6, ConcatAdjacentSubSeq
<1>. HIDE DEF z
<1>9. z \in Seq(Plains(DOMAIN Frames(d))) /\ z \in Seq(Cells)
  BY <1>2, <1>7, SeqMonotonic
<1>. QED  BY <1>4, <1>7, <1>8, <1>9 DEF Sendable, z, p, a

\* A cell that is a misfit is of a transaction that is.
LEMMA MisfitsOwn ==
  ASSUME NEW d \in Directions, NEW p \in Seq(Mine(d)), Misfit(p)
  PROVE  \E i \in DOMAIN Frames(d) : ~BodyFits(Frames(d)[i].n)
<1>1. PICK j \in DOMAIN p : ~BodyFits(p[j].n)
  BY DEF Misfit
<1>2. p[j] \in Mine(d)
  BY ElementOfSeq, LenProperties
<1>3. p[j].i \in DOMAIN Frames(d) /\ p[j].n = Frames(d)[p[j].i].n
  BY <1>2 DEF Mine, Plains
<1>. QED  BY <1>1, <1>3

----------------------------------------------------------------------------
(* What holds of the connection at every step, of a login whose step 2 came   *)
(* as it was sent: each side's transport is what the client's agreement makes  *)
(* it, and each direction flows.                                            *)

ClientSender(d) == SenderOf(client.cipher, client.compression, Link(d, client))
ClientReceiver(d) == ReceiverOf(client.cipher, client.compression, Link(d, client))

\* A side's transport, which is new until the side is established.
SenderAt(d) == IF Established(Writer(d)) THEN sender[d] ELSE ClientSender(d)
ReceiverAt(d) == IF Established(Reader(d)) THEN receiver[d] ELSE ClientReceiver(d)
Keys(d) == {Link(d, client)}

Untouched(d) == passed[d] = 0 /\ carried[d] = <<>> /\ out[d] = <<>>

DirectionFlows(d) ==
  Flowing(Keys(d), DOMAIN Frames(d), SenderAt(d), ReceiverAt(d), carried[d], out[d], PlainSent(d))

DirectionInv(d) ==
  /\ passed[d] \in 0 .. Len(Plain(d))
  /\ ~Established(Writer(d)) => sender[d] = Unset /\ Untouched(d)
  /\ ~Established(Reader(d)) => receiver[d] = Unread
  /\ ~Established(client) => Untouched(d)
  /\ Established(client) => DirectionFlows(d)

OfDirections(f) == f = [d \in Directions |-> f[d]]
LinkShaped ==
  /\ OfDirections(sender) /\ OfDirections(receiver) /\ OfDirections(passed)
  /\ OfDirections(carried) /\ OfDirections(out)

ConnectionInv ==
  /\ HopeInv /\ LinkShaped
  /\ "step2" \notin altered => \A d \in Directions : DirectionInv(d)

\* A side that is established stays what it is.
LEMMA LoginStays ==
  ASSUME HopeNext
  PROVE  /\ setup' = setup /\ altered \subseteq altered'
         /\ Established(client) => client' = client
         /\ Established(server) => server' = server
<1>1. CASE Offer
  BY <1>1 DEF Offer, Established
<1>2. CASE Answer
  <2>1. setup' = setup /\ client' = client /\ altered' = altered /\ server.state = "start"
    BY <1>2 DEF Answer
  <2>. QED  BY <2>1 DEF Established
<1>3. CASE Step2
  <2>1. setup' = setup /\ server' = server /\ altered' = altered /\ client.state = "offered"
    BY <1>3 DEF Step2
  <2>. QED  BY <2>1 DEF Established
<1>4. CASE Accept
  <2>1. setup' = setup /\ client' = client /\ altered' = altered /\ server.state = "answered"
    BY <1>4 DEF Accept
  <2>. QED  BY <2>1 DEF Established
<1>5. CASE Step1Altered \/ AnswerAltered \/ Step2Altered
  <2>1. PICK kind, m : Altered(kind, m)
    BY <1>5 DEF Step1Altered, AnswerAltered, Step2Altered
  <2>. QED  BY <2>1 DEF Altered
<1>. QED  BY <1>1, <1>2, <1>3, <1>4, <1>5 DEF HopeNext

\* What a client agrees to, a transport can run.
LEMMA AgreedRuns ==
  ASSUME NEW s \in Setups, NEW cipher \in ToSet(s.offer.ciphers) \cup {"none"},
         NEW compression \in (ToSet(s.offer.compressions) \cap Available) \cup {"none"}
  PROVE  cipher \in Ciphers \cup {"none"} /\ compression \in Compressions \cup {"none"}
<1>1. ToSet(s.offer.ciphers) \subseteq Ciphers
  BY HopeAssumption, SeqOfOwn
<1>2. Available \subseteq Compressions
  BY HopeAssumption
<1>. QED  BY <1>1, <1>2

LEMMA InitFlows == Init => ConnectionInv
<1>. SUFFICES ASSUME Init PROVE ConnectionInv
  OBVIOUS
<1>1. HopeInv
  BY HopeInvInit DEF Init
<1>2. LinkShaped
  BY DEF Init, LinkShaped, OfDirections
<1>3. ASSUME NEW d \in Directions PROVE DirectionInv(d)
  <2>1. ~Established(client) /\ ~Established(server)
    BY DEF Init, HopeInit, Fresh, Side, Established
  <2>2. passed[d] = 0 /\ carried[d] = <<>> /\ out[d] = <<>> /\ sender[d] = Unset
        /\ receiver[d] = Unread
    BY DEF Init
  <2>3. Len(Plain(d)) \in Nat
    BY <1>1, PlainTypes, LenProperties
  <2>4. passed[d] \in 0 .. Len(Plain(d))
    BY <2>2, <2>3, SMT
  <2>. QED  BY <2>1, <2>2, <2>4 DEF DirectionInv, Untouched
<1>. QED  BY <1>1, <1>2, <1>3 DEF ConnectionInv

LEMMA LogInKeeps == ConnectionInv /\ LogIn => ConnectionInv'
<1>. SUFFICES ASSUME ConnectionInv, LogIn PROVE ConnectionInv'
  OBVIOUS
<1>1. /\ HopeNext /\ UNCHANGED <<passed, carried, out>>
      /\ sender' = [d \in Directions |-> IF Established(Writer(d)) THEN sender[d] ELSE SenderNow(d)']
      /\ receiver' = [d \in Directions |-> IF Established(Reader(d)) THEN receiver[d] ELSE ReceiverNow(d)']
  BY DEF LogIn
<1>2. /\ setup' = setup /\ altered \subseteq altered'
      /\ Established(client) => client' = client
      /\ Established(server) => server' = server
  BY <1>1, LoginStays
<1>3. HopeInv /\ HopeInv'
  <2>1. [Next]_vars
    BY DEF Next
  <2>. QED  BY <2>1, NextKeepsHope DEF ConnectionInv
<1>4. LinkShaped'
  BY <1>1 DEF ConnectionInv, LinkShaped, OfDirections
<1>5. ASSUME "step2" \notin altered', NEW d \in Directions PROVE DirectionInv(d)'
  <2>1. DirectionInv(d)
    BY <1>2, <1>5 DEF ConnectionInv
  <2>2. /\ Established(server) => server = client
        /\ Established(server)' => server' = client'
    BY <1>2, <1>3, <1>5 DEF HopeInv, BothRunTheSame
  <2>3. /\ Established(Writer(d)) => Established(client) /\ Established(Writer(d))'
        /\ Established(Reader(d)) => Established(client) /\ Established(Reader(d))'
        /\ Established(Writer(d))' => Writer(d)' = client' /\ Established(client)'
        /\ Established(Reader(d))' => Reader(d)' = client' /\ Established(client)'
    BY <1>2, <2>2 DEF Writer, Reader
  <2>4. /\ Established(Writer(d))' => SenderNow(d)' = ClientSender(d)'
        /\ ~Established(Writer(d))' => SenderNow(d)' = Unset
        /\ Established(Reader(d))' => ReceiverNow(d)' = ClientReceiver(d)'
        /\ ~Established(Reader(d))' => ReceiverNow(d)' = Unread
    BY <2>3 DEF SenderNow, ReceiverNow, ClientSender, ClientReceiver, Unset, Unread
  <2>5. /\ sender'[d] = IF Established(Writer(d)) THEN sender[d] ELSE SenderNow(d)'
        /\ receiver'[d] = IF Established(Reader(d)) THEN receiver[d] ELSE ReceiverNow(d)'
    BY <1>1
  <2>6. Plain(d)' = Plain(d) /\ PlainSent(d)' = PlainSent(d) /\ Frames(d)' = Frames(d)
        /\ (Untouched(d) <=> Untouched(d)')
    BY <1>1, <1>2 DEF Plain, PlainSent, Frames, Untouched
  <2>7. passed'[d] \in 0 .. Len(Plain(d)')
    BY <1>1, <2>1, <2>6 DEF DirectionInv
  <2>8. ~Established(Writer(d))' => sender'[d] = Unset /\ Untouched(d)'
    BY <2>1, <2>3, <2>4, <2>5, <2>6 DEF DirectionInv
  <2>9. ~Established(Reader(d))' => receiver'[d] = Unread
    BY <2>1, <2>3, <2>4, <2>5 DEF DirectionInv
  <2>10. ~Established(client)' => Untouched(d)'
    BY <1>2, <2>1, <2>6 DEF DirectionInv
  <2>11. ASSUME Established(client)' PROVE DirectionFlows(d)'
    <3>1. CASE Established(client)
      <4>1. /\ ClientSender(d)' = ClientSender(d) /\ ClientReceiver(d)' = ClientReceiver(d)
            /\ Keys(d)' = Keys(d)
        BY <1>2, <3>1 DEF ClientSender, ClientReceiver, Keys, Link
      <4>2. SenderAt(d)' = SenderAt(d) /\ ReceiverAt(d)' = ReceiverAt(d)
        BY <2>3, <2>4, <2>5, <4>1 DEF SenderAt, ReceiverAt
      <4>3. DirectionFlows(d)
        BY <2>1, <3>1 DEF DirectionInv
      <4>. QED  BY <1>1, <2>6, <4>1, <4>2, <4>3 DEF DirectionFlows
    <3>2. CASE ~Established(client)
      <4>1. ~Established(Writer(d)) /\ ~Established(Reader(d))
        BY <2>3, <3>2
      <4>2. SenderAt(d)' = ClientSender(d)' /\ ReceiverAt(d)' = ClientReceiver(d)'
        BY <2>4, <2>5, <4>1 DEF SenderAt, ReceiverAt
      <4>3. Untouched(d)'
        BY <2>1, <2>6, <3>2 DEF DirectionInv
      <4>. DEFINE key == Link(d, client)'
                  s == SenderAt(d)'
                  r == ReceiverAt(d)'
                  q == <<>>
                  z == client'.cipher
                  w == client'.compression
                  K == Keys(d)'
                  I == DOMAIN Frames(d)'
      <4>4. z \in Ciphers \cup {"none"} /\ w \in Compressions \cup {"none"}
        <5>1. setup' \in Setups
          BY <1>3 DEF HopeInv, Shaped
        <5>2. z \in ToSet(setup'.offer.ciphers) \cup {"none"}
              /\ w \in (ToSet(setup'.offer.compressions) \cap Available) \cup {"none"}
          BY <1>3, <2>11 DEF HopeInv, ClientAgreed
        <5>. HIDE DEF z, w
        <5>. QED  BY <5>1, <5>2, AgreedRuns
      <4>5. key \in K
        BY DEF Keys
      <4>6. s = SenderOf(z, w, key) /\ r = ReceiverOf(z, w, key)
        BY <4>2 DEF ClientSender, ClientReceiver
      <4>7. carried'[d] = q /\ out'[d] = q
        BY <4>3 DEF Untouched
      <4>8. PlainSent(d)' = q
        <5>1. PlainSent(d)' = SubSeq(Plain(d)', 1, 0)
          BY <4>3 DEF PlainSent, Untouched
        <5>2. 0 < 1 /\ 0 \in Int /\ 1 \in Int
          BY SMT
        <5>. QED  BY <5>1, <5>2, SubSeqEmpty
      <4>9. q = <<>>
        OBVIOUS
      <4>. SUFFICES Flowing(K, I, s, r, carried'[d], out'[d], PlainSent(d)')
        BY DEF DirectionFlows
      <4>. HIDE DEF key, s, r, q, z, w, I, K
      <4>10. Flowing(K, I, s, r, q, q, q)
        BY <4>4, <4>5, <4>6, <4>9, FlowingFresh
      <4>. QED  BY <4>7, <4>8, <4>10
    <3>. QED  BY <3>1, <3>2
  <2>. QED  BY <2>7, <2>8, <2>9, <2>10, <2>11 DEF DirectionInv
<1>. QED  BY <1>3, <1>4, <1>5 DEF ConnectionInv

LEMMA SendKeeps ==
  ASSUME ConnectionInv, NEW d \in Directions, NEW n \in 1 .. Len(Plain(d)) - passed[d], Send(d, n)
  PROVE  ConnectionInv'
<1>. DEFINE plain == NextOf(d, n)
            e == Encode(sender[d], plain, Rounds(d))
            S == e.s
            new == e.wire
<1>1. /\ Established(Writer(d)) /\ sender[d].ok /\ passed[d] + n <= Len(Plain(d))
      /\ passed' = [passed EXCEPT ![d] = @ + n]
      /\ sender' = [sender EXCEPT ![d] = S]
      /\ carried' = [carried EXCEPT ![d] = @ \o new]
      /\ UNCHANGED <<setup, wire, client, server, altered, receiver, out>>
  BY DEF Send, NextOf, hopeVars
<1>. HIDE DEF S, new
<1>2. HopeInv /\ HopeInv'
  <2>1. [Next]_vars
    BY DEF Next
  <2>. QED  BY <2>1, NextKeepsHope DEF ConnectionInv
<1>3. /\ sender = [f \in Directions |-> sender[f]] /\ receiver = [f \in Directions |-> receiver[f]]
      /\ passed = [f \in Directions |-> passed[f]] /\ carried = [f \in Directions |-> carried[f]]
      /\ out = [f \in Directions |-> out[f]]
  BY DEF ConnectionInv, LinkShaped, OfDirections
<1>4. LinkShaped'
  BY <1>1, <1>3 DEF LinkShaped, OfDirections
<1>5. \A f \in Directions :
        /\ Plain(f)' = Plain(f) /\ Frames(f)' = Frames(f) /\ Keys(f)' = Keys(f)
        /\ Writer(f)' = Writer(f) /\ Reader(f)' = Reader(f)
        /\ ClientSender(f)' = ClientSender(f) /\ ReceiverAt(f)' = ReceiverAt(f)
        /\ (Established(Writer(f))' <=> Established(Writer(f)))
        /\ (Established(Reader(f))' <=> Established(Reader(f)))
        /\ (Established(client)' <=> Established(client))
  BY <1>1 DEF Plain, Frames, Keys, Link, Writer, Reader, ClientSender, ReceiverAt, ClientReceiver,
       Established
<1>6. ASSUME "step2" \notin altered', NEW f \in Directions PROVE DirectionInv(f)'
  <2>1. DirectionInv(f)
    BY <1>1, <1>6 DEF ConnectionInv
  <2>2. CASE f # d
    <3>1. passed'[f] = passed[f] /\ sender'[f] = sender[f] /\ carried'[f] = carried[f]
          /\ receiver'[f] = receiver[f] /\ out'[f] = out[f]
      BY <1>1, <1>3, <2>2
    <3>2. PlainSent(f)' = PlainSent(f) /\ SenderAt(f)' = SenderAt(f)
          /\ (Untouched(f)' <=> Untouched(f))
      BY <1>5, <3>1 DEF PlainSent, SenderAt, Untouched
    <3>3. DirectionFlows(f)' <=> DirectionFlows(f)
      BY <1>5, <3>1, <3>2 DEF DirectionFlows
    <3>. QED  BY <1>5, <2>1, <3>1, <3>2, <3>3 DEF DirectionInv
  <2>3. CASE f = d
    <3>1. DirectionInv(d)
      BY <2>1, <2>3
    <3>2. passed'[d] = passed[d] + n /\ sender'[d] = S /\ carried'[d] = carried[d] \o new
          /\ receiver'[d] = receiver[d] /\ out'[d] = out[d]
      BY <1>1, <1>3
    <3>3. Established(client)
      <4>1. Established(server) => server = client
        BY <1>1, <1>2, <1>6 DEF HopeInv, BothRunTheSame
      <4>. QED  BY <1>1, <4>1 DEF Writer
    <3>4. passed[d] \in 0 .. Len(Plain(d)) /\ Len(Plain(d)) \in Nat
      BY <1>2, <3>1, PlainTypes, LenProperties DEF DirectionInv
    <3>5. Sendable(d, n)
      BY <1>2, <3>4, NextTypes
    <3>6. plain \in Seq(Plains(DOMAIN Frames(d)))
          /\ PlainSent(d) \o plain = SubSeq(Plain(d), 1, passed[d] + n)
      BY <3>5 DEF Sendable
    <3>7. PlainSent(d)' = PlainSent(d) \o plain
      BY <1>5, <3>2, <3>6 DEF PlainSent
    <3>8. SenderAt(d) = sender[d] /\ SenderAt(d)' = S
      BY <1>1, <1>5, <3>2 DEF SenderAt
    <3>9. Rounds(d) \in [DOMAIN Frames(d) -> 0 .. MaxRounds]
      BY <1>2, FramesTypes
    <3>. DEFINE K == Keys(d)
                I == DOMAIN Frames(d)
                s == sender[d]
                r == ReceiverAt(d)
                c == carried[d]
                o == out[d]
                p == PlainSent(d)
                rounds == Rounds(d)
    <3>10. Flowing(K, I, s, r, c, o, p)
      BY <3>1, <3>3, <3>8 DEF DirectionInv, DirectionFlows
    <3>11. e = Encode(s, plain, rounds) /\ s.ok /\ plain \in Seq(Plains(I))
           /\ rounds \in [I -> 0 .. MaxRounds]
      BY <1>1, <3>6, <3>9
    <3>. HIDE DEF K, I, s, r, c, o, p, rounds, plain, e
    <3>12. Flowing(K, I, e.s, r, c \o e.wire, o, p \o plain)
      BY <3>10, <3>11, FlowingSend
    <3>13. DirectionFlows(d)'
      BY <1>5, <3>2, <3>7, <3>8, <3>12 DEF DirectionFlows, K, I, r, c, o, p, S, new
    <3>14. passed'[d] \in 0 .. Len(Plain(d)')
      <4>1. Plain(d)' = Plain(d)
        BY <1>5
      <4>2. passed[d] + n \in 0 .. Len(Plain(d))
        BY <1>1, <3>4, SMT
      <4>. QED  BY <3>2, <4>1, <4>2
    <3>15. ~Established(Reader(d))' => receiver'[d] = Unread
      BY <1>5, <3>1, <3>2 DEF DirectionInv
    <3>16. DirectionInv(d)'
      BY <1>1, <1>5, <3>3, <3>13, <3>14, <3>15 DEF DirectionInv
    <3>. QED  BY <2>3, <3>16
  <2>. QED  BY <2>2, <2>3
<1>. QED  BY <1>2, <1>4, <1>6 DEF ConnectionInv

\* What is on its way, cut.
LEMMA CutInTwo ==
  ASSUME NEW W, NEW ws \in Seq(W), NEW n \in 1 .. Len(ws)
  PROVE  /\ SubSeq(ws, 1, n) \in Seq(W) /\ SubSeq(ws, n + 1, Len(ws)) \in Seq(W)
         /\ SubSeq(ws, 1, n) \o SubSeq(ws, n + 1, Len(ws)) = ws
<1>. DEFINE m == Len(ws)
            k == n + 1
<1>1. m \in Nat /\ (\A i \in 1 .. m : ws[i] \in W)
  BY ElementOfSeq, LenProperties
<1>2. n \in 1 .. m
  OBVIOUS
<1>. HIDE DEF m
<1>3. /\ n \in Int /\ k \in Int /\ m \in Int /\ 1 \in Int
      /\ 1 \in 1 .. m + 1 /\ n \in 1 - 1 .. m /\ m \in n .. m
  BY <1>1, <1>2, SMT
<1>4. \A i \in 1 .. n : ws[i] \in W
  <2>1. ASSUME NEW i \in 1 .. n PROVE i \in 1 .. m
    BY <1>1, <1>2, SMT
  <2>. QED  BY <1>1, <2>1
<1>5. \A i \in k .. m : ws[i] \in W
  <2>1. ASSUME NEW i \in k .. m PROVE i \in 1 .. m
    BY <1>1, <1>2, SMT
  <2>. QED  BY <1>1, <2>1
<1>6. SubSeq(ws, 1, n) \in Seq(W)
  BY <1>3, <1>4, SubSeqProperties
<1>7. SubSeq(ws, k, m) \in Seq(W)
  <2>. HIDE DEF k
  <2>. QED  BY <1>3, <1>5, SubSeqProperties
<1>8. SubSeq(ws, 1, n) \o SubSeq(ws, n + 1, m) = SubSeq(ws, 1, m)
  <2>1. m = Len(ws)
    BY DEF m
  <2>. QED  BY <1>3, <2>1, ConcatAdjacentSubSeq
<1>9. SubSeq(ws, 1, m) = ws
  BY SubSeqFull DEF m
<1>. QED  BY <1>6, <1>7, <1>8, <1>9 DEF m, k

LEMMA ReceiveKeeps ==
  ASSUME ConnectionInv, NEW d \in Directions, NEW n \in 1 .. Len(carried[d]), Receive(d, n)
  PROVE  ConnectionInv'
<1>. DEFINE c1 == SubSeq(carried[d], 1, n)
            c2 == SubSeq(carried[d], n + 1, Len(carried[d]))
            u == Decode(receiver[d], c1)
            R == u.r
            o == out[d]
            oo == IF R.ok THEN o \o u.out ELSE o
<1>1. /\ Established(Reader(d)) /\ receiver[d].ok
      /\ receiver' = [receiver EXCEPT ![d] = R]
      /\ out' = [out EXCEPT ![d] = oo]
      /\ carried' = [carried EXCEPT ![d] = c2]
      /\ UNCHANGED <<setup, wire, client, server, altered, sender, passed>>
  BY DEF Receive, hopeVars
<1>2. u = Decode(receiver[d], c1) /\ R = u.r /\ oo = IF u.r.ok THEN out[d] \o u.out ELSE out[d]
  OBVIOUS
<1>. HIDE DEF R, u, c1, c2, oo, o
<1>3. HopeInv /\ HopeInv'
  <2>1. [Next]_vars
    BY DEF Next
  <2>. QED  BY <2>1, NextKeepsHope DEF ConnectionInv
<1>4. /\ sender = [f \in Directions |-> sender[f]] /\ receiver = [f \in Directions |-> receiver[f]]
      /\ passed = [f \in Directions |-> passed[f]] /\ carried = [f \in Directions |-> carried[f]]
      /\ out = [f \in Directions |-> out[f]]
  BY DEF ConnectionInv, LinkShaped, OfDirections
<1>5. LinkShaped'
  BY <1>1, <1>4 DEF LinkShaped, OfDirections
<1>6. \A f \in Directions :
        /\ Plain(f)' = Plain(f) /\ Frames(f)' = Frames(f) /\ Keys(f)' = Keys(f)
        /\ PlainSent(f)' = PlainSent(f)
        /\ Writer(f)' = Writer(f) /\ Reader(f)' = Reader(f)
        /\ ClientReceiver(f)' = ClientReceiver(f) /\ SenderAt(f)' = SenderAt(f)
        /\ (Established(Writer(f))' <=> Established(Writer(f)))
        /\ (Established(Reader(f))' <=> Established(Reader(f)))
        /\ (Established(client)' <=> Established(client))
  BY <1>1 DEF Plain, PlainSent, Frames, Keys, Link, Writer, Reader, ClientReceiver, SenderAt,
       ClientSender, Established
<1>7. ASSUME "step2" \notin altered', NEW f \in Directions PROVE DirectionInv(f)'
  <2>1. DirectionInv(f)
    BY <1>1, <1>7 DEF ConnectionInv
  <2>2. CASE f # d
    <3>1. passed'[f] = passed[f] /\ sender'[f] = sender[f] /\ carried'[f] = carried[f]
          /\ receiver'[f] = receiver[f] /\ out'[f] = out[f]
      BY <1>1, <1>4, <2>2
    <3>2. ReceiverAt(f)' = ReceiverAt(f) /\ (Untouched(f)' <=> Untouched(f))
      BY <1>6, <3>1 DEF ReceiverAt, Untouched
    <3>3. DirectionFlows(f)' <=> DirectionFlows(f)
      BY <1>6, <3>1, <3>2 DEF DirectionFlows
    <3>. QED  BY <1>6, <2>1, <3>1, <3>2, <3>3 DEF DirectionInv
  <2>3. CASE f = d
    <3>1. DirectionInv(d)
      BY <2>1, <2>3
    <3>2. passed'[d] = passed[d] /\ sender'[d] = sender[d] /\ carried'[d] = c2
          /\ receiver'[d] = R /\ out'[d] = oo
      BY <1>1, <1>4
    <3>3. ~Untouched(d)
      <4>1. Len(carried[d]) # 0
        <5>1. ASSUME Len(carried[d]) = 0 PROVE FALSE
          BY <5>1, SMT
        <5>. QED  BY <5>1
      <4>2. carried[d] # <<>>
        BY <4>1
      <4>. QED  BY <4>2 DEF Untouched
    <3>4. Established(client) /\ Established(Writer(d))
      BY <3>1, <3>3 DEF DirectionInv
    <3>5. ReceiverAt(d) = receiver[d] /\ ReceiverAt(d)' = R
      BY <1>1, <1>6, <3>2 DEF ReceiverAt
    <3>. DEFINE K == Keys(d)
                I == DOMAIN Frames(d)
                s == SenderAt(d)
                r == receiver[d]
                c == carried[d]
                p == PlainSent(d)
    <3>6. Flowing(K, I, s, r, c, o, p)
      BY <3>1, <3>4, <3>5 DEF DirectionInv, DirectionFlows, o
    <3>7. c \in Seq(Wireds(K))
      BY <3>6 DEF Flowing
    <3>8. n \in 1 .. Len(c) /\ c1 = SubSeq(c, 1, n) /\ c2 = SubSeq(c, n + 1, Len(c))
      BY DEF c1, c2
    <3>9. u = Decode(r, c1) /\ r.ok
      BY <1>1, <1>2
    <3>. HIDE DEF K, I, s, r, c, p
    <3>10. c1 \in Seq(Wireds(K)) /\ c2 \in Seq(Wireds(K)) /\ c1 \o c2 = c
      <4>. DEFINE W == Wireds(K)
      <4>1. c \in Seq(W)
        BY <3>7
      <4>. HIDE DEF W
      <4>2. SubSeq(c, 1, n) \in Seq(W) /\ SubSeq(c, n + 1, Len(c)) \in Seq(W)
            /\ SubSeq(c, 1, n) \o SubSeq(c, n + 1, Len(c)) = c
        BY <3>8, <4>1, CutInTwo
      <4>. QED  BY <3>8, <4>2 DEF W
    <3>11. Flowing(K, I, s, r, c1 \o c2, o, p)
      BY <3>6, <3>10
    <3>12. Receives(K, I, s, r, c2, o, p, u)
      BY <3>9, <3>10, <3>11, FlowingReceive
    <3>13. Flowing(K, I, s, R, c2, oo, p)
      BY <1>2, <3>12 DEF Receives, o
    <3>14. DirectionFlows(d)'
      BY <1>6, <3>2, <3>5, <3>13 DEF DirectionFlows, K, I, s, p
    <3>15. DirectionInv(d)'
      BY <1>1, <1>6, <3>1, <3>2, <3>4, <3>14 DEF DirectionInv
    <3>. QED  BY <2>3, <3>15
  <2>. QED  BY <2>2, <2>3
<1>. QED  BY <1>3, <1>5, <1>7 DEF ConnectionInv

LEMMA NextKeepsConnection == ConnectionInv /\ [Next]_vars => ConnectionInv'
<1>. SUFFICES ASSUME ConnectionInv, [Next]_vars PROVE ConnectionInv'
  OBVIOUS
<1>1. CASE LogIn
  BY <1>1, LogInKeeps
<1>2. ASSUME NEW d \in Directions, NEW n \in 1 .. Len(Plain(d)) - passed[d], Send(d, n)
      PROVE  ConnectionInv'
  BY <1>2, SendKeeps
<1>3. ASSUME NEW d \in Directions, NEW n \in 1 .. Len(carried[d]), Receive(d, n)
      PROVE  ConnectionInv'
  BY <1>3, ReceiveKeeps
<1>4. CASE UNCHANGED vars
  <2>1. UNCHANGED <<setup, wire, client, server, altered, sender, receiver, passed, carried, out>>
    BY <1>4 DEF vars, hopeVars, linkVars
  <2>2. HopeInv'
    BY NextKeepsHope DEF ConnectionInv
  <2>3. LinkShaped'
    BY <2>1 DEF ConnectionInv, LinkShaped, OfDirections
  <2>4. ASSUME NEW d \in Directions PROVE DirectionInv(d)' <=> DirectionInv(d)
    <3>1. /\ Plain(d)' = Plain(d) /\ PlainSent(d)' = PlainSent(d) /\ Frames(d)' = Frames(d)
          /\ Keys(d)' = Keys(d) /\ SenderAt(d)' = SenderAt(d) /\ ReceiverAt(d)' = ReceiverAt(d)
          /\ (Established(Writer(d))' <=> Established(Writer(d)))
          /\ (Established(Reader(d))' <=> Established(Reader(d)))
          /\ (Established(client)' <=> Established(client))
          /\ (Untouched(d)' <=> Untouched(d))
      BY <2>1 DEF Plain, PlainSent, Frames, Keys, Link, Writer, Reader, SenderAt, ReceiverAt,
           ClientSender, ClientReceiver, Established, Untouched
    <3>. QED  BY <2>1, <3>1 DEF DirectionInv, DirectionFlows
  <2>. QED  BY <2>1, <2>2, <2>3, <2>4 DEF ConnectionInv
<1>. QED  BY <1>1, <1>2, <1>3, <1>4 DEF Next

LEMMA ConnectionInvAlways == Spec => []ConnectionInv
<1>1. Init => ConnectionInv
  BY InitFlows
<1>2. ConnectionInv /\ [Next]_vars => ConnectionInv'
  BY NextKeepsConnection
<1>. QED  BY <1>1, <1>2, PTL DEF Spec

\* Of a direction that is live, with nothing on its way.
LEMMA QuietInStep ==
  ASSUME ConnectionInv, "step2" \notin altered, NEW d \in Directions, Live(d), carried[d] = <<>>
  PROVE  InStep(sender[d], receiver[d], out[d], PlainSent(d))
<1>1. /\ Established(Writer(d)) /\ Established(Reader(d)) /\ sender[d].ok /\ receiver[d].ok
  BY DEF Live
<1>2. Established(client)
  BY <1>1 DEF Writer, Reader, Directions
<1>3. SenderAt(d) = sender[d] /\ ReceiverAt(d) = receiver[d]
  BY <1>1 DEF SenderAt, ReceiverAt
<1>. DEFINE K == Keys(d)
            I == DOMAIN Frames(d)
            s == sender[d]
            r == receiver[d]
            q == carried[d]
            o == out[d]
            p == PlainSent(d)
<1>4. Flowing(K, I, s, r, q, o, p)
  BY <1>2, <1>3 DEF ConnectionInv, DirectionInv, DirectionFlows
<1>5. q = <<>> /\ s.ok /\ r.ok
  BY <1>1
<1>. HIDE DEF K, I, s, r, q, o, p
<1>6. InStep(s, r, o, p)
  BY <1>4, <1>5, FlowingQuiet
<1>. QED  BY <1>6 DEF s, r, o, p

\* Sender::encode and Receiver::decode: for any keys, algorithms, transactions and
\* sizes, whatever the bytes are batched into on one side and cut into on their way,
\* once the wire is quiet nothing of what was sent is held back, but for the
\* transaction that a marking sender waits for the rest of.
THEOREM QuietAlwaysMeansDelivered == Spec => []("step2" \notin altered => QuietMeansDelivered)
<1>1. ConnectionInv => ("step2" \notin altered => QuietMeansDelivered)
  BY QuietInStep DEF QuietMeansDelivered, InStep
<1>. QED  BY <1>1, ConnectionInvAlways, PTL

\* rekey, AeadState: and the two sides' keys, keystreams and record counts are where
\* the other's are.
THEOREM AlwaysTurnedTogether == Spec => []("step2" \notin altered => TurnedTogether)
<1>1. ConnectionInv => ("step2" \notin altered => TurnedTogether)
  BY QuietInStep DEF TurnedTogether, InStep
<1>. QED  BY <1>1, ConnectionInvAlways, PTL

LEMMA FlowFails ==
  ASSUME NEW K, NEW I, NEW s, NEW r, NEW c, NEW o, NEW p, Flowing(K, I, s, r, c, o, p)
  PROVE  (~s.ok => Misfit(p)) /\ (~r.ok => Overfull(r, p))
BY DEF Flowing

\* body_len, Decompressor::decode: neither side's transport ever fails but for a
\* transaction that is too large for Blowfish's framing, or more than a decompressor
\* may yield or hold.
THEOREM AlwaysFailsForItsSize == Spec => []("step2" \notin altered => FailsForItsSize)
<1>1. ASSUME ConnectionInv, "step2" \notin altered, NEW d \in Directions
      PROVE  /\ ~sender[d].ok => \E i \in DOMAIN Frames(d) : ~BodyFits(Frames(d)[i].n)
             /\ ~receiver[d].ok =>
                  /\ receiver[d].compression # "none"
                  /\ passed[d] > MaxOutput \/ passed[d] > MaxHeld
  <2>1. DirectionInv(d) /\ HopeInv
    BY <1>1 DEF ConnectionInv
  <2>2. SentSoFar(d)
    BY <2>1, PlainSentTypes DEF DirectionInv
  <2>3. Unset.ok /\ Unread.ok
    BY DEF Unset, Unread, SenderOf, ReceiverOf
  <2>4. Established(server) => Established(client)
    BY <1>1, <2>1 DEF HopeInv, BothRunTheSame
  <2>. DEFINE K == Keys(d)
              I == DOMAIN Frames(d)
              s == SenderAt(d)
              r == ReceiverAt(d)
              c == carried[d]
              o == out[d]
              p == PlainSent(d)
  <2>5. ASSUME Established(client) PROVE (~s.ok => Misfit(p)) /\ (~r.ok => Overfull(r, p))
    <3>1. Flowing(K, I, s, r, c, o, p)
      BY <2>1, <2>5 DEF DirectionInv, DirectionFlows
    <3>. HIDE DEF K, I, s, r, c, o, p
    <3>. QED  BY <3>1, FlowFails
  <2>6. ASSUME ~sender[d].ok PROVE \E i \in DOMAIN Frames(d) : ~BodyFits(Frames(d)[i].n)
    <3>1. Established(Writer(d))
      BY <2>1, <2>3, <2>6 DEF DirectionInv
    <3>2. Established(client)
      BY <2>4, <3>1 DEF Writer
    <3>3. s = sender[d]
      BY <3>1 DEF SenderAt
    <3>4. Misfit(p)
      BY <2>5, <2>6, <3>2, <3>3
    <3>5. p \in Seq(Mine(d))
      BY <2>2 DEF SentSoFar
    <3>. HIDE DEF p
    <3>. QED  BY <3>4, <3>5, MisfitsOwn
  <2>7. ASSUME ~receiver[d].ok
        PROVE  /\ receiver[d].compression # "none"
               /\ passed[d] > MaxOutput \/ passed[d] > MaxHeld
    <3>1. Established(Reader(d))
      BY <2>1, <2>3, <2>7 DEF DirectionInv
    <3>2. Established(client)
      BY <2>4, <3>1 DEF Reader
    <3>3. r = receiver[d]
      BY <3>1 DEF ReceiverAt
    <3>4. Overfull(r, p)
      BY <2>5, <2>7, <3>2, <3>3
    <3>5. Len(p) = passed[d]
      BY <2>2 DEF SentSoFar
    <3>. HIDE DEF r, p
    <3>. QED  BY <3>3, <3>4, <3>5 DEF Overfull
  <2>. QED  BY <2>6, <2>7
<1>2. ConnectionInv => ("step2" \notin altered => FailsForItsSize)
  BY <1>1 DEF FailsForItsSize
<1>. QED  BY <1>2, ConnectionInvAlways, PTL

----------------------------------------------------------------------------
(* The connection carries what is sent: it implements HxPipe.               *)

Ins == [d \in Directions |-> PlainSent(d)]

LEMMA StartOf ==
  ASSUME NEW X, NEW a \in Seq(X), NEW t \in Seq(X), NEW b, b = a \o t
  PROVE  Pipe!IsPrefix(a, b)
<1>1. /\ Len(b) = Len(a) + Len(t) /\ Len(a) \in Nat /\ Len(t) \in Nat /\ b \in Seq(X)
      /\ \A i \in 1 .. Len(a) + Len(t) : b[i] = IF i <= Len(a) THEN a[i] ELSE t[i - Len(a)]
  BY ConcatProperties, LenProperties
<1>. DEFINE n == Len(a)
            z == SubSeq(b, 1, n)
<1>2. n \in Nat /\ n \in Int /\ 1 \in Int /\ n <= Len(b)
  BY <1>1, SMT
<1>3. \A i \in 1 .. n : b[i] \in X /\ b[i] = a[i] /\ a[i] \in X
  <2>1. ASSUME NEW i \in 1 .. n PROVE i \in 1 .. Len(a) + Len(t) /\ i <= Len(a) /\ i \in 1 .. Len(b)
    BY <1>1, SMT
  <2>2. \A i \in 1 .. Len(a) : a[i] \in X
    BY ElementOfSeq
  <2>. QED  BY <1>1, <2>1, <2>2
<1>4. a = SubSeq(a, 1, n)
  BY SubSeqFull
<1>5. z = a
  <2>1. /\ z \in Seq(X) /\ Len(z) = IF 1 <= n THEN n - 1 + 1 ELSE 0
        /\ \A i \in 1 .. n - 1 + 1 : z[i] = b[1 + i - 1]
    <3>1. \A i \in 1 .. n : b[i] \in X
      BY <1>3
    <3>. HIDE DEF n
    <3>. QED  BY <1>2, <3>1, SubSeqProperties
  <2>. HIDE DEF z
  <2>2. Len(z) = n
    BY <1>2, <2>1, SMT
  <2>3. ASSUME NEW i \in 1 .. Len(a) PROVE z[i] = a[i]
    <3>1. i \in 1 .. n - 1 + 1 /\ 1 + i - 1 = i
      BY <1>2, SMT
    <3>2. z[i] = b[i]
      BY <2>1, <3>1
    <3>. QED  BY <1>3, <3>2
  <2>. QED  BY <2>1, <2>2, <2>3, SeqEqual
<1>6. SubSeq(b, 1, Len(a)) = SubSeq(a, 1, Len(a)) /\ Len(a) <= Len(b)
  BY <1>2, <1>4, <1>5
<1>. QED  BY <1>6 DEF Pipe!IsPrefix

LEMMA SendPipes ==
  ASSUME HopeInv, NEW d \in Directions, passed[d] \in 0 .. Len(Plain(d)), OfDirections(passed),
         NEW n \in 1 .. Len(Plain(d)) - passed[d], Send(d, n)
  PROVE  Pipe!Send(d)
<1>1. /\ passed' = [passed EXCEPT ![d] = @ + n] /\ out' = out /\ setup' = setup
  BY DEF Send, hopeVars
<1>2. \A f \in Directions : Plain(f)' = Plain(f)
  BY <1>1 DEF Plain, Frames
<1>3. passed'[d] = passed[d] + n /\ \A f \in Directions \ {d} : passed'[f] = passed[f]
  BY <1>1 DEF OfDirections
<1>4. \A f \in Directions \ {d} : PlainSent(f)' = PlainSent(f)
  BY <1>2, <1>3 DEF PlainSent
<1>5. Sendable(d, n) /\ SentSoFar(d)
  BY NextTypes, PlainSentTypes
<1>. DEFINE a == PlainSent(d)
            t == NextOf(d, n)
            b == PlainSent(d)'
<1>6. a \in Seq(Cells) /\ t \in Seq(Cells) /\ Len(t) = n /\ b = a \o t
  BY <1>2, <1>3, <1>5 DEF Sendable, SentSoFar, PlainSent
<1>. HIDE DEF a, t, b
<1>7. Pipe!IsPrefix(a, b)
  BY <1>6, StartOf
<1>8. a # b
  <2>1. Len(b) = Len(a) + n /\ Len(a) \in Nat
    BY <1>6, ConcatProperties, LenProperties
  <2>2. n \in Nat /\ n > 0
    <3>1. Len(Plain(d)) \in Nat
      BY PlainTypes, LenProperties
    <3>2. passed[d] \in Nat
      BY <3>1, SMT
    <3>. QED  BY <3>1, <3>2, SMT
  <2>3. Len(b) # Len(a)
    BY <2>1, <2>2, SMT
  <2>. QED  BY <2>3
<1>9. Pipe!IsStrictPrefix(Ins[d], Ins'[d])
  <2>1. Ins[d] = a /\ Ins'[d] = b
    BY DEF Ins, a, b
  <2>. QED  BY <1>7, <1>8, <2>1 DEF Pipe!IsStrictPrefix
<1>10. [e \in Directions \ {d} |-> Ins'[e]] = [e \in Directions \ {d} |-> Ins[e]]
  BY <1>4 DEF Ins
<1>. QED  BY <1>1, <1>9, <1>10 DEF Pipe!Send, Pipe!Others, Ins

LEMMA ReceivePipes ==
  ASSUME ConnectionInv, ConnectionInv', "step2" \notin altered, NEW d \in Directions,
         NEW n \in 1 .. Len(carried[d]), Receive(d, n), out'[d] # out[d]
  PROVE  Pipe!Receive(d)
<1>. DEFINE u == Decode(receiver[d], SubSeq(carried[d], 1, n))
            c1 == SubSeq(carried[d], 1, n)
            o == out[d]
            oo == IF u.r.ok THEN o \o u.out ELSE o
<1>1. /\ Established(Reader(d)) /\ receiver[d].ok
      /\ out' = [out EXCEPT ![d] = oo]
      /\ UNCHANGED <<setup, client, server, altered, sender, passed>>
  BY DEF Receive, hopeVars
<1>2. out = [f \in Directions |-> out[f]]
  BY DEF ConnectionInv, LinkShaped, OfDirections
<1>3. out'[d] = oo /\ \A f \in Directions \ {d} : out'[f] = out[f]
  BY <1>1, <1>2
<1>4. Ins' = Ins
  BY <1>1 DEF Ins, PlainSent, Plain, Frames
<1>5. Established(client)
  <2>1. Established(server) => server = client
    BY DEF ConnectionInv, HopeInv, BothRunTheSame
  <2>. QED  BY <1>1, <2>1 DEF Reader
<1>6. Established(client)'
  BY <1>1, <1>5 DEF Established
<1>7. DirectionFlows(d) /\ DirectionFlows(d)'
  <2>1. "step2" \notin altered'
    BY <1>1
  <2>2. DirectionInv(d) /\ DirectionInv(d)'
    BY <2>1 DEF ConnectionInv
  <2>. QED  BY <1>5, <1>6, <2>2 DEF DirectionInv
<1>. DEFINE p == PlainSent(d)
            po == out'[d]
<1>8. o \in Seq(Cells)
  BY <1>7 DEF DirectionFlows, Flowing
<1>9. po \in Seq(Cells) /\ \E t \in Seq(Cells) : po \o t = p
  <2>. DEFINE K == Keys(d)'
              I == DOMAIN Frames(d)'
              s == SenderAt(d)'
              r == ReceiverAt(d)'
              c == carried'[d]
              q == PlainSent(d)'
  <2>1. Flowing(K, I, s, r, c, po, q)
    BY <1>7 DEF DirectionFlows
  <2>2. q = p
    BY <1>1 DEF PlainSent, Plain, Frames
  <2>. HIDE DEF K, I, s, r, c, q, p, po
  <2>3. po \in Seq(Cells) /\ \E t \in Seq(Cells) : po \o t = q
    BY <2>1, FlowingPrefix
  <2>. QED  BY <2>2, <2>3
<1>10. u.out \in Seq(Cells) /\ po = o \o u.out
  <2>1. po = oo /\ po # o
    BY <1>3
  <2>. DEFINE v == u.out
              k == u.r.ok
  <2>2. k /\ po = o \o v
    <3>1. po = IF k THEN o \o v ELSE o
      BY <2>1
    <3>. HIDE DEF k, v, po, o, oo
    <3>. QED  BY <2>1, <3>1
  <2>3. v \in Seq(Cells)
    <3>. DEFINE K == Keys(d)
                I == DOMAIN Frames(d)
                s == SenderAt(d)
                r == receiver[d]
                c == carried[d]
                W == Wireds(K)
                c2 == SubSeq(c, n + 1, Len(c))
    <3>1. ReceiverAt(d) = r
      BY <1>1 DEF ReceiverAt
    <3>2. Flowing(K, I, s, r, c, o, p)
      BY <1>7, <3>1 DEF DirectionFlows
    <3>3. c \in Seq(W)
      BY <3>2 DEF Flowing
    <3>4. n \in 1 .. Len(c) /\ c1 = SubSeq(c, 1, n) /\ u = Decode(r, c1) /\ r.ok
          /\ c2 = SubSeq(c, n + 1, Len(c))
      BY <1>1
    <3>. HIDE DEF K, I, s, r, c, W, c1, c2, u, p, o
    <3>5. SubSeq(c, 1, n) \in Seq(W) /\ SubSeq(c, n + 1, Len(c)) \in Seq(W)
          /\ SubSeq(c, 1, n) \o SubSeq(c, n + 1, Len(c)) = c
      BY <3>3, <3>4, CutInTwo
    <3>6. c1 \in Seq(Wireds(K)) /\ c2 \in Seq(Wireds(K)) /\ c1 \o c2 = c
      BY <3>4, <3>5 DEF W
    <3>7. Flowing(K, I, s, r, c1 \o c2, o, p)
      BY <3>2, <3>6
    <3>8. Receives(K, I, s, r, c2, o, p, u)
      BY <3>4, <3>6, <3>7, FlowingReceive
    <3>. QED  BY <3>8 DEF Receives
  <2>. QED  BY <2>2, <2>3
<1>11. po # o
  OBVIOUS
<1>12. Ins[d] = p
  BY DEF Ins
<1>. HIDE DEF o, oo, u, p, po, c1
<1>13. Pipe!IsPrefix(o, po)
  <2>. DEFINE v == u.out
  <2>1. v \in Seq(Cells) /\ po = o \o v
    BY <1>10
  <2>. HIDE DEF v
  <2>. QED  BY <1>8, <2>1, StartOf
<1>14. Pipe!IsPrefix(po, p)
  <2>1. PICK t \in Seq(Cells) : po \o t = p
    BY <1>9
  <2>. QED  BY <1>9, <2>1, StartOf
<1>15. Pipe!IsStrictPrefix(out[d], out'[d]) /\ Pipe!IsPrefix(out'[d], Ins[d])
  BY <1>11, <1>12, <1>13, <1>14 DEF Pipe!IsStrictPrefix, o, po
<1>16. [e \in Directions \ {d} |-> out'[e]] = [e \in Directions \ {d} |-> out[e]]
  BY <1>3
<1>. QED  BY <1>4, <1>15, <1>16 DEF Pipe!Receive, Pipe!Others, Ins

LEMMA StepPipes ==
  ASSUME ConnectionInv, ConnectionInv', "step2" \notin altered, [Next]_vars
  PROVE  [Pipe!Next]_<<Ins, out>>
<1>. SUFFICES ASSUME ~UNCHANGED <<Ins, out>> PROVE Pipe!Next
  OBVIOUS
<1>1. CASE LogIn
  <2>1. setup' = setup
    BY <1>1, LoginStays DEF LogIn
  <2>2. UNCHANGED <<Ins, out>>
    BY <1>1, <2>1 DEF LogIn, Ins, PlainSent, Plain, Frames
  <2>. QED  BY <2>2
<1>2. ASSUME NEW d \in Directions, NEW n \in 1 .. Len(Plain(d)) - passed[d], Send(d, n)
      PROVE  Pipe!Next
  <2>1. HopeInv /\ OfDirections(passed) /\ passed[d] \in 0 .. Len(Plain(d))
    BY DEF ConnectionInv, LinkShaped, DirectionInv
  <2>2. Pipe!Send(d)
    BY <1>2, <2>1, SendPipes
  <2>. QED  BY <2>2 DEF Pipe!Next
<1>3. ASSUME NEW d \in Directions, NEW n \in 1 .. Len(carried[d]), Receive(d, n)
      PROVE  Pipe!Next
  <2>1. CASE out'[d] # out[d]
    <3>1. Pipe!Receive(d)
      BY <1>3, <2>1, ReceivePipes
    <3>. QED  BY <3>1 DEF Pipe!Next
  <2>2. CASE out'[d] = out[d]
    <3>1. /\ \E v : out' = [out EXCEPT ![d] = v]
          /\ UNCHANGED <<setup, passed>>
      BY <1>3 DEF Receive, hopeVars
    <3>2. out = [f \in Directions |-> out[f]]
      BY DEF ConnectionInv, LinkShaped, OfDirections
    <3>3. PICK v : out' = [out EXCEPT ![d] = v]
      BY <3>1
    <3>4. v = out[d]
      BY <2>2, <3>2, <3>3
    <3>5. out' = out
      BY <3>2, <3>3, <3>4
    <3>6. Ins' = Ins
      BY <3>1 DEF Ins, PlainSent, Plain, Frames
    <3>. QED  BY <3>5, <3>6
  <2>. QED  BY <2>1, <2>2
<1>4. CASE UNCHANGED vars
  <2>1. UNCHANGED <<Ins, out>>
    BY <1>4 DEF vars, hopeVars, linkVars, Ins, PlainSent, Plain, Frames
  <2>. QED  BY <2>1
<1>. QED  BY <1>1, <1>2, <1>3, <1>4 DEF Next

\* Sender::encode and Receiver::decode: for any keys, algorithms, transactions and sizes,
\* what comes out of one side's transport is, in order and none of it twice, what went
\* into the other's.
THEOREM AlwaysCarriesAsSent == Spec /\ []("step2" \notin altered) => CarriesAsSent
<1>1. Init => Pipe!Init
  <2>1. SUFFICES ASSUME Init PROVE Pipe!Init
    OBVIOUS
  <2>2. ASSUME NEW d \in Directions PROVE PlainSent(d) = <<>>
    <3>1. PlainSent(d) = SubSeq(Plain(d), 1, 0)
      BY <2>1 DEF Init, PlainSent
    <3>2. 0 < 1 /\ 0 \in Int /\ 1 \in Int
      BY SMT
    <3>. QED  BY <3>1, <3>2, SubSeqEmpty
  <2>3. out = [d \in Directions |-> <<>>]
    BY <2>1 DEF Init
  <2>. QED  BY <2>2, <2>3 DEF Pipe!Init
<1>2. ConnectionInv /\ ConnectionInv' /\ "step2" \notin altered /\ [Next]_vars
        => [Pipe!Next]_<<Ins, out>>
  BY StepPipes
<1>. QED
  BY <1>1, <1>2, ConnectionInvAlways, PTL DEF Spec, CarriesAsSent, Pipe!Spec, Ins
=============================================================================
