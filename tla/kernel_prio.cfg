SPECIFICATION Spec
CONSTANTS
  Pcbs = {p1, p2, p3, p4}
  Sems = {s1}
  Devices = {d1}
  pseudoClockSem = clock
  NULL = NULL
  Attrs <- LowAndHigh
  MaxSoftBlock = 3
SYMMETRY PcbSymmetry
INVARIANTS TypeOK ProcessPartition SemAddMatchesQueue CountExact SoftBlockCovers StopsOnlyWhenStuck OneTree ReadyByPriority KillUnlinks YieldGivesWay
PROPERTIES PriorityRespected
