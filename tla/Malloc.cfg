SPECIFICATION Spec
CONSTANTS
  CHUNK = 11
  HEAP = 22
  Sizes <- MCSizes
VIEW MCView
\* The heap may be full of blocks, and the model may stop.
CHECK_DEADLOCK FALSE
INVARIANTS
  
  
  Coalesced

  
