\* An honest peer and one that lies about sizes and chunks.
SPECIFICATION LiveSpec
CONSTANTS
  h = h
  x = x
  Sessions = {h, x}
  Honest = {h}
  MetaId <- SameId
  ChunkSize = 2
  MaxMetaSize = 6
  Window = 1
  TrueSize = 3
  Sizes = {3, 4, 7}
  LengthGiven = FALSE
INVARIANTS
  AssemblyIsChunks
  StateTellsDisk
PROPERTIES
  MetadataArrives
  ImplementsRegister
CHECK_DEADLOCK FALSE
