SPECIFICATION Spec
CONSTANTS
  Procs = {p1, p2}
  ClockRange = 5
  MaxTicks = 6
  NULL = NULL
SYMMETRY Symmetry
INVARIANTS ChargedRight
CHECK_DEADLOCK FALSE
