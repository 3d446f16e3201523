\* Logins that go wrong in every way, and connections over what they agree.
SPECIFICATION Spec
CHECK_DEADLOCK FALSE
CONSTANTS
  Setups <- MCSetups
  Answers <- MCAnswers
  Echoes <- MCEchoes
  Available = {"GZIP", "LZ4"}
  Hdr = 2
  CountLen = 1
  MaxBody = 2
  MaxRounds = 2
  Block = 2
  MaxPlaintext = 2
  MaxOutput = 6
  MaxHeld = 6
INVARIANTS
  BothRunTheSame
  RequiredCipherKept
  WithinOwnLists
  FailsForAReason
  QuietMeansDelivered
  TurnedTogether
  FailsForItsSize
PROPERTIES
  CarriesAsSent
