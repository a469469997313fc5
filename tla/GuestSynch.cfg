SPECIFICATION Spec
CONSTANTS
  t1 = t1
  t2 = t2
  W = W
  NoThread = NoThread
  Threads <- MCThreads
  ThreadOps <- DestroyAndUse
  FrameOps <- NoCalls
  Modes = {"IS_GUEST"}
  EndRoutines = {TRUE, FALSE}
  Destinies = {"LONG_LIFE"}
  UserTasks = {"none", "running"}
  MaxCalls = 3
  MaxDestroys = 1
  PipeCapacity = 2
  EntryGaps = {FALSE}
INVARIANTS
  SynchMeansDown
