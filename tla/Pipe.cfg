SPECIFICATION PipeSpec
CONSTANTS
  PIPE_MAX_SIZE = 4
  U32 = 9
  Byte = {a, b}
INVARIANTS
  RingConsistent
  ReadNeverStarves
  RefusedOnlyIfTooLong
PROPERTIES
  ImplementsFifo
SYMMETRY Symmetry
