SPECIFICATION Spec
CONSTANTS
  UPROCMAX = 2
  Pages = {1, 2}
  DataPages = {2}
  POOLSIZE = 2
  TLBSIZE = 1
  MaxVersion = 1
  Calls <- OneReader
INVARIANTS SupportTypeOK LoadsSeeMemory SwapPoolAgrees
PROPERTIES ImplementsMemory
