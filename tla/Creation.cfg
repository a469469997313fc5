SPECIFICATION Spec
CONSTANTS
  main = main
  Threads = {main, t1, t2}
  Application = {main}
  NULL = NULL
  MaxWorkers = 3
SYMMETRY MCSymmetry
INVARIANTS
  TypeOK
  ServingIsOwn
  EveryInstanceHasAnEnd
  NoAbort
  RefusalsLeaveNothing
PROPERTIES
  UsesAfterFree
  ReturnMeansGone
CHECK_DEADLOCK FALSE
