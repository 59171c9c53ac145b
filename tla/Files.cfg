SPECIFICATION Spec
CONSTANTS
  NUM_PROCS = 2
  MAX_OPEN_FILES = 3
  NUM_STD = 1
  NUM_FILES = 1
  FILE_SIZE = 1
  Names = {x}
  Accesses <- MCAccesses
  MAX_TWICE = 1
  FileIds = {f1, f2, f3}
  PipeIds = {q1}
  Offsets <- MCOffsets
  None = None
INVARIANTS
  
  RefsAccounted
  PipeEndsTold
  OffsetWithinFile
SYMMETRY Symmetry
\* The model stops at an OS_BUG, an overrun and an inherited descriptor.
CHECK_DEADLOCK FALSE
