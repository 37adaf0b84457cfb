SPECIFICATION Spec
CONSTANTS
  Pcbs = {p1, p2, p3, p4}
  PID_MIN = 2
  PID_MAX = 5
  INT_MAX = 31
  MaxLastPid = 13
  NULL = NULL
SYMMETRY PcbSymmetry
INVARIANTS PidTypeOK PidInRange UniqueBeforeWrap DuplicateIsChild
PROPERTIES ChildIsFound
CHECK_DEADLOCK FALSE
