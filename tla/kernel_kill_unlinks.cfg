SPECIFICATION Spec
CONSTANTS
  Pcbs = {p1, p2, p3}
  Sems = {s1}
  Devices = {d1}
  pseudoClockSem = clock
  NULL = NULL
  Attrs <- LowAndOpen
  MaxSoftBlock = 2
INVARIANTS KillUnlinks
