SPECIFICATION Spec
SYMMETRY ValuesAlike
CONSTANTS
  Procs = {p1, p2}
  FirstProc = p1
  CODE_PAGES = 0
  DATA_PAGES = 1
  AREA_PAGES = 2
  STACK_PAGES = 1
  Touched <- TouchAreas
  Values = {a}
  None = None
  Absent = Absent
  WP = FALSE
PROPERTIES
  WrittenStays
\* The last process may exit.
CHECK_DEADLOCK FALSE
