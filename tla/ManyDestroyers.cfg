SPECIFICATION Spec
CONSTANTS
  t1 = t1
  t2 = t2
  W = W
  NoThread = NoThread
  Threads <- MCThreads
  ThreadOps <- DestroyBoth
  FrameOps <- DestroyAndPush
  Modes = {"OWN_THREAD", "IS_GUEST"}
  EndRoutines = {TRUE}
  Destinies = {"LONG_LIFE", "DESTRUCTION", "DISMISSAL"}
  UserTasks = {"running"}
  MaxCalls = 3
  MaxDestroys = 2
  PipeCapacity = 1
  EntryGaps = {FALSE}
SYMMETRY MCSymmetry
INVARIANTS
  FreeIsQuiescent
  NoAbort
PROPERTIES
  DeadIsFinal
  ImplementsWorkerSpec
CHECK_DEADLOCK FALSE
