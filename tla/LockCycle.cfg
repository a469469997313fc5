SPECIFICATION Spec
CONSTANTS
  t1 = t1
  t2 = t2
  W = W
  NoThread = NoThread
  Threads <- MCThreads
  ThreadOps <- DestroyOnly
  FrameOps <- NoCalls
  Modes = {"NONE"}
  EndRoutines = {TRUE}
  Destinies = {"LONG_LIFE"}
  UserTasks = {"none", "running"}
  MaxCalls = 3
  MaxDestroys = 2
  PipeCapacity = 2
  EntryGaps = {FALSE}
INVARIANTS
  NoLockCycle
