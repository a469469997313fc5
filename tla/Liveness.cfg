SPECIFICATION FairSpec
CONSTANTS
  t1 = t1
  t2 = t2
  W = W
  NoThread = NoThread
  Threads <- MCThreads
  ThreadOps <- DestroyAndUse
  FrameOps <- AllButAsynch
  Modes = {"OWN_THREAD", "NONE", "IS_GUEST"}
  EndRoutines = {FALSE}
  Destinies = {"LONG_LIFE", "DESTRUCTION", "DISMISSAL"}
  UserTasks = {"none"}
  MaxCalls = 3
  MaxDestroys = 1
  PipeCapacity = 1
  EntryGaps = {FALSE}
PROPERTIES
  PlanIsCarriedOut
  CallsReturn
  WishesAreTaken
