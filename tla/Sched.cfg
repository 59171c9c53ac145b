SPECIFICATION Spec
CONSTANTS
  MAX_PROCESSES = 4
  Ticks <- MCTicks
  Signals = {SIGFPE}
INVARIANTS
  OneRuns
  WorkConserving
  ContextsCounted
PROPERTIES
  
  EveryoneRuns
\* OS_BUG stops the machine when no slot is left.
CHECK_DEADLOCK FALSE
