\* Sessions of every kind against the clock and what comes unasked.
CONSTANTS
  TransSpace = 16
  MaxPending = 8
  MaxPartials = 2
  MaxTransaction <- MCMaxTransaction
  Configs <- CoreConfigs
  Versions <- CoreVersions
  PingVersion = 150
  RequestKinds = {"none"}
  Frames <- CoreFrames
  Nicks <- GoodNick
  MaxEarly = 2
  ClockMax = 3
  HandshakeTimeout = 2
  AgreementWait = 1
  Keepalive = 2
  Skew = 1
  MaxTime = 3
  MaxCalls = 1
  MaxPushes = 2
SPECIFICATION Spec
VIEW Unpolled
INVARIANTS
  TypeOK
  PushesKept
  WaitEndsOnce
  OnlyHandshakeInClear
PROPERTIES
  PushesInOrder
  SilentUntilSettled
  PingAfterSilence
  TickExactlyAtDeadline
  ClosedIsFinal
