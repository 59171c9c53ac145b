SPECIFICATION Spec
CONSTANTS
  AREA_PAGES = 5
  PROT_NONE = PROT_NONE
  Prots = {READ, RDWR}
  Lengths <- SomeLengths
  Addresses <- SomeAddresses
  FlagSets <- SomeFlags
INVARIANTS
  SortedDisjoint
  Coalesced
  NoLogicError
  
PROPERTIES
  
  CallReturns
\* The kernel may be lost for good when munmap frees the list head.
CHECK_DEADLOCK FALSE
