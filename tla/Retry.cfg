SPECIFICATION Spec
CONSTANTS
  t1 = t1
  t2 = t2
  W = W
  NoThread = NoThread
  Threads <- MCThreads
  ThreadOps <- DestroyOrUse
  FrameOps <- PushAndPing
  Modes = {"OWN_THREAD", "NONE", "IS_GUEST"}
  EndRoutines = {TRUE, FALSE}
  Destinies = {"LONG_LIFE", "DESTRUCTION", "DISMISSAL"}
  UserTasks = {"none"}
  MaxCalls = 4
  MaxDestroys = 2
  PipeCapacity = 1
  EntryGaps = {FALSE}
INVARIANTS
  BeepPending
  PlanIsHeard
  NoUndefinedBehaviour
