SPECIFICATION FairSpec
CONSTANTS
  Procs = {p1, p2}
  Registers <- SomeRegisters
  NULL = NULL
INVARIANTS OwnStatus WaiterServed
PROPERTIES AnswerDelivered
CHECK_DEADLOCK FALSE
