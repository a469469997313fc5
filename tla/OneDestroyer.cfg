SPECIFICATION Spec
CONSTANTS
  t1 = t1
  t2 = t2
  W = W
  NoThread = NoThread
  Threads <- MCThreads
  ThreadOps <- DestroyAndUse
  FrameOps <- AllButPing
  Modes = {"OWN_THREAD", "NONE", "IS_GUEST"}
  EndRoutines = {TRUE}
  Destinies = {"LONG_LIFE", "DESTRUCTION", "DISMISSAL"}
  UserTasks = {"none", "running"}
  MaxCalls = 3
  MaxDestroys = 1
  PipeCapacity = 2
  EntryGaps = {TRUE, FALSE}
INVARIANTS
  TypeOK
  RefCount
  KillIsKept
  NoAbort
  ThreadReleased
  NoUndefinedBehaviour
  NoLockCycle
  NoSelfLock
  SchedulerIsDown
  NoDoubleFreeBeforeEnd
  OnlyEntryIsUnsafe
  NoJobAfterEnd
