SPECIFICATION FairSpec
CONSTANTS
  t1 = t1
  t2 = t2
  W = W
  NoThread = NoThread
  Threads <- MCThreads
  ThreadOps <- DestroyAndUse
  FrameOps <- NoCalls
  Modes = {"OWN_THREAD"}
  EndRoutines = {TRUE}
  Destinies = {"LONG_LIFE"}
  UserTasks = {"running"}
  MaxCalls = 2
  MaxDestroys = 1
  PipeCapacity = 2
  EntryGaps = {FALSE}
PROPERTIES
  PlanIsCarriedOut
