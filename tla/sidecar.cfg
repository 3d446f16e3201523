\* Metadata written twice while a fork is written, and stopped anywhere.
SPECIFICATION Spec
CHECK_DEADLOCK FALSE
CONSTANTS
  Containers <- MCContainers
  MaxComment = 1
  MaxEntries = 4
  MaxLength = 2
  MaxOffset = 10
  MaxWrites = 2
  MaxForkWrites = 1
INVARIANTS
  ForkBytesAreForks
  UnreadableOnlyIfCut
PROPERTIES
  ReadsAsRecord
  ForkKept
  OthersKept
  RewrittenCanGrow
