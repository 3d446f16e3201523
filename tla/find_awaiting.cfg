\* An agreement that comes after the wait for one.
CONSTANTS
  TransSpace = 6
  MaxPending = 8
  MaxPartials = 2
  MaxTransaction <- MCMaxTransaction
  Configs <- JustPlain
  Versions <- CoreVersions
  PingVersion = 150
  RequestKinds = {"none"}
  Frames <- LiveFrames
  Nicks <- GoodNick
  MaxEarly = 1
  ClockMax = 9
  HandshakeTimeout = 2
  AgreementWait = 1
  Keepalive = 2
  Skew = 0
  MaxTime = 2
  MaxCalls = 1
  MaxPushes = 0
SPECIFICATION Spec
VIEW Unpolled
PROPERTIES
  AwaitingIsSilent
