\* A raw caller that says late what it expects.
CONSTANTS
  TransSpace = 16
  MaxPending = 4
  MaxPartials = 2
  MaxTransaction <- MCMaxTransaction
  Configs <- JustRaw
  Versions <- CoreVersions
  PingVersion = 150
  RequestKinds = {"Media"}
  Frames <- Logins
  Nicks <- GoodNick
  MaxEarly = 1
  ClockMax = 9
  HandshakeTimeout = 2
  AgreementWait = 1
  Keepalive = 2
  Skew = 0
  MaxTime = 0
  MaxCalls = 5
  MaxPushes = 0
SPECIFICATION Spec
VIEW Unpolled
PROPERTIES
  ForgetsOldest
