SPECIFICATION FairSpec
CONSTANTS
  UPROCMAX = 2
  Pages = {1, 2}
  DataPages = {}
  POOLSIZE = 1
  TLBSIZE = 1
  MaxVersion = 0
  Calls <- LineCalls
INVARIANTS MutexHeld InstantiatorLast
PROPERTIES FaultResolved TestEnds
