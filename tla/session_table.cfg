\* The table of awaited replies, full as the counter comes round.
CONSTANTS
  TransSpace = 8
  MaxPending = 6
  MaxPartials = 2
  MaxTransaction <- MCMaxTransaction
  Configs <- JustPlain
  Versions = {123}
  PingVersion = 150
  RequestKinds = {"none", "Media", "Raw"}
  Frames <- TableFrames
  Nicks <- GoodNick
  MaxEarly = 2
  ClockMax = 9
  HandshakeTimeout = 2
  AgreementWait = 1
  Keepalive = 2
  Skew = 0
  MaxTime = 0
  MaxCalls = 5
  MaxPushes = 0
SPECIFICATION Spec
VIEW Unpolled
INVARIANTS
  PendingBounded
PROPERTIES
  OwnForgetsOldest
