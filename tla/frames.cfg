\* Scripts of up to four frames, pushed and read in every way.
CONSTANTS
  MaxPartials = 1
  MaxTransaction <- MCMaxTransaction
  Scripts <- MCScripts
  HeadLen = 2
  FieldCount = 1
  CompactAt = 4
SPECIFICATION Spec
INVARIANTS
  InStep
  IdleMeansWhole
PROPERTIES
  ReadsAsSent
  NothingHeldBack
  BufferStaysSmall
