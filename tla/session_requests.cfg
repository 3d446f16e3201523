\* The table of awaited replies, trans that come round, and split replies.
CONSTANTS
  TransSpace = 6
  MaxPending = 4
  MaxPartials = 2
  MaxTransaction <- MCMaxTransaction
  Configs <- RequestConfigs
  Versions = {123}
  PingVersion = 150
  RequestKinds = {"Media", "Call", "Raw"}
  Frames <- RequestFrames
  Nicks <- GoodNick
  MaxEarly = 2
  ClockMax = 9
  HandshakeTimeout = 2
  AgreementWait = 1
  Keepalive = 2
  Skew = 0
  MaxTime = 0
  MaxCalls = 3
  MaxPushes = 0
SPECIFICATION Spec
VIEW Unpolled
INVARIANTS
  OnePartialPerTrans
PROPERTIES
  AnswersMatchRequests
