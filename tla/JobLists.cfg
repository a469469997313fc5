SPECIFICATION Spec
CONSTANTS
  Cells = {c1, c2, c3, c4}
  NULL = NULL
SYMMETRY MCSymmetry
INVARIANTS
  TypeOK
  WellLinked
  EveryJobHasAPlace
  TasksAreListed
  MemorySafe
PROPERTIES
  ImplementsQueue
