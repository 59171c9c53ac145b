SPECIFICATION Spec
CONSTANTS
  n1 = n1
  n2 = n2
  n3 = n3
  CallNodes <- MCCallNodes
  FnNodes = {m1}
  None = None
  RING = 4
  STRACE_MAX = 2
  FTRACE_MAX = 1
  Listable <- MCListable
  Fns = {"f"}
  ARGS = 1
  DEPTH = 1
  Modes <- MCModes
  Records = {2}
  Amounts = {3}
SYMMETRY MCSymmetry
VIEW MCView
CHECK_DEADLOCK FALSE
INVARIANTS
  RingHoldsLog
  
  CodeRestorable
PROPERTIES
  ReadsRecords
