SPECIFICATION MCSpec
CONSTANTS
  Procs = {p1, p2}
  FirstProc = p1
  FAN = 6
  OS_ENTRIES = 2
  OS_PT_MAPS = 2
  APIC = 7
  CODE_START = 72
  STACK_START = 180
  CodePages <- MCCodePages
  DataPages <- MCDataPages
  AreaPages <- MCAreaPages
  StackPages <- MCStackPages
  PurgeBounds <- MCPurgeBounds
  MAX_LEFT = 4
  WORD = 2
  PAGES = 8
  RESERVED = 1
  PAGE_SHIFT = 3
  MIN_SHIFT = 1
  MAX_SHIFT = 2
  NODE_MEM_PAGES = 1
  NODES = 4
  Sizes <- MCSizes
INVARIANTS
  WalkIsFlat
  TablesOwned
  PagesAccounted
  OverlapOnlyBehind
\* The last process may exit, and the allocators may run out of memory.
CHECK_DEADLOCK FALSE
