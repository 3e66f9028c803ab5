\* Every answer of up to four entries, well formed or not.
SPECIFICATION FairSpec
CONSTANTS
  Names <- MCNames
  Keep <- MCKeep
  Buffers <- MCBuffers
INVARIANTS
  UnreadIntact
  FilterExact
  TypeOK
PROPERTIES
  Terminates
CHECK_DEADLOCK FALSE
