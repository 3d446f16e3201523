--------------------------- MODULE MCHxConnection ---------------------------
(***************************************************************************)
(* Small instances of HxConnection: logins that may be disturbed, and          *)
(* connections over every pair of cipher and compression.                  *)
(***************************************************************************)
EXTENDS HxConnection

Lists(macs, ciphers, compressions) ==
  [macs |-> macs, ciphers |-> ciphers, compressions |-> compressions]
Policy(macs, ciphers, compressions, require) ==
  Lists(macs, ciphers, compressions) @@ [requireCipher |-> require]
Login(name, password) == [login |-> name, password |-> password]
Alice == Login("alice", "pw")
Nobody == Login(Guest, "")

\* A login, what may happen to it on its way, and what is sent after it.
Setup(offer, policy, who, account, faults, toServer, toClient) ==
  [offer |-> offer, policy |-> policy, who |-> who, account |-> account,
   faults |-> faults, toServer |-> toServer, toClient |-> toClient]
Talk(offer, policy, who, account, faults) ==
  Setup(offer, policy, who, account, faults, <<>>, <<>>)

Wide == Lists(<<"HMAC-SHA256", "HMAC-SHA1">>, <<"CHACHA20-POLY1305", "BLOWFISH">>, <<"GZIP", "LZ4">>)
Narrow == Lists(<<"HMAC-MD5">>, <<>>, <<"ZSTD">>)
AllOf(require) == Policy(Macs, Ciphers, Compressions, require)
Old(require) == Policy({"HMAC-SHA1", "HMAC-MD5"}, {"BLOWFISH"}, {}, require)

Logins ==
  {Talk(o, p, w, a, f) :
     o \in {Wide, Narrow}, p \in {AllOf(FALSE), AllOf(TRUE), Old(FALSE), Old(TRUE)},
     w \in {Alice, Nobody}, a \in {Alice, Nobody},
     f \in {{}, {"step1", "answer"}, {"answer", "step2"}}}

\* A connection that runs just this, with nothing in its login's way.
Runs(cipher, compression, toServer, toClient) ==
  Setup(Lists(<<"HMAC-SHA256">>, IF cipher = "none" THEN <<>> ELSE <<cipher>>,
              IF compression = "none" THEN <<>> ELSE <<compression>>),
        AllOf(cipher # "none"), Alice, Alice, {}, toServer, toClient)

F(n, mark) == [n |-> n, mark |-> mark]
Two == <<F(3, 1), F(1, 2)>>
Bodies == <<F(2, 2), F(2, 0)>>

Streams ==
  {Runs(c, z, Two, <<>>) : c \in Ciphers \cup {"none"}, z \in {"none", "LZ4", "GZIP"}}
    \cup {Runs(c, "none", <<>>, Bodies) : c \in Ciphers}
    \cup {Runs(c, z, <<F(1, 1)>>, <<F(1, 2)>>) : c \in Ciphers, z \in {"none", "LZ4"}}
    \cup {Runs("BLOWFISH", "none", <<F(2, 1), F(n, 0)>>, <<>>) : n \in {0, 4}}
    \cup {Runs("CHACHA20-POLY1305", z, <<F(3, 0), F(3, 0)>>, <<>>) : z \in {"GZIP", "LZ4"}}

MCSetups == Logins \cup Streams

\* Another implementation's answer: the login under no MAC, no key, picks that are
\* lost, empty, garbled or not the client's, "NONE", and a mode.
MCAnswers ==
  {[login |-> "HMAC-MD5"], [key |-> "none"], [key |-> "another key"],
   [mode |-> "AEAD"], [mode |-> "STREAM"], [mode |-> "other"]}
    \cup {[mac |-> f] : f \in {Absent, Garbled, One("HMAC-SHA1"), One("HMAC-MD5")}}
    \cup {[cipher |-> f] : f \in {Absent, Empty, List(<<>>), Garbled, One("BLOWFISH"), One("other")}}
    \cup {[compression |-> f] : f \in {Absent, List(<<>>), One("NONE"), One("ZSTD"), Garbled}}

MCEchoes ==
  {[login |-> NoLogin], [login |-> Obfuscated("alice")],
   [password |-> Chain("HMAC-SHA256", "guess", "session key", 1)]}
    \cup {[cipher |-> f] : f \in {Absent, Empty, Garbled, One("BLOWFISH"), One("CHACHA20-POLY1305")}}
    \cup {[compression |-> f] : f \in {Absent, Empty, One("GZIP"), One("LZ4")}}
=============================================================================
