\* A split reply that is started over, on a trans the caller expects.
CONSTANTS
  TransSpace = 6
  MaxPending = 8
  MaxPartials = 2
  MaxTransaction <- MCMaxTransaction
  Configs <- JustRaw
  Versions <- CoreVersions
  PingVersion = 150
  RequestKinds = {"Media"}
  Frames <- Restarts
  Nicks <- GoodNick
  MaxEarly = 1
  ClockMax = 9
  HandshakeTimeout = 2
  AgreementWait = 1
  Keepalive = 2
  Skew = 0
  MaxTime = 0
  MaxCalls = 1
  MaxPushes = 0
SPECIFICATION Spec
VIEW Unpolled
PROPERTIES
  ExpectedNeverReply
