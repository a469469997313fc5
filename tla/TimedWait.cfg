SPECIFICATION FairSpec
CONSTANTS
  Painters = {p1}
  Waiters = {}
  TimedWaiters = {w}
  NoThread = NoThread
  InitialValue = 1
  MaxRed = 1
PROPERTIES
  TimedWaitEnds
