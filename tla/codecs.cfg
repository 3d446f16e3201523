\* One message built or read, whole, with a field too many, or cut short.
SPECIFICATION Spec
CONSTANTS
  MaxField = 100
  MaxComponent = 5
  MaxCredential = 4
  ENCODE <- MCENCODE
  DECODE <- MCDECODE
  Words <- MCWords
  Longs <- MCLongs
  Texts <- MCTexts
  Paths <- MCPaths
  Strings <- MCStrings
  Lines <- MCLines
  MaxLines = 4
  INFO_TEXT_CAP = 4
  Unknown = 9999
INVARIANTS
  BuiltAsGiven
  ReadsBack
  NothingHalfRead
  SizesWhole
  TextKept
  SectionsMapped
