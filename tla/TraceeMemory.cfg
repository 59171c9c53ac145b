SPECIFICATION Spec
CONSTANTS
  Procs = {p1, p2}
  FirstProc = p1
  CODE_PAGES = 1
  RODATA_PAGES = 2
  DATA_PAGES = 2
  MMAP_PAGES = 3
  STACK_PAGES = 2
  Prots <- MCProts
  Lengths <- MCLengths
  MaxCalls = 3
  None = None
INVARIANTS
  CheckSound
  
  
\* The model stops when lost, and may have all processes gone.
CHECK_DEADLOCK FALSE
