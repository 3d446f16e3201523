\* Sessions whose caller ticks them on time, and servers that may say nothing.
CONSTANTS
  TransSpace = 16
  MaxPending = 8
  MaxPartials = 2
  MaxTransaction <- MCMaxTransaction
  Configs <- LiveConfigs
  Versions <- CoreVersions
  PingVersion = 150
  RequestKinds <- NoKinds
  Frames <- LiveFrames
  Nicks <- GoodNick
  MaxEarly = 1
  ClockMax = 9
  HandshakeTimeout = 2
  AgreementWait = 1
  Keepalive = 2
  Skew = 0
  MaxTime = 4
  MaxCalls = 0
  MaxPushes = 0
SPECIFICATION FairSpec
PROPERTIES
  HandshakeEnds
  AgreementSettles
