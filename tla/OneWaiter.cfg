SPECIFICATION FairSpec
CONSTANTS
  Painters = {p1, p2, p3}
  Waiters = {w}
  TimedWaiters = {w}
  NoThread = NoThread
  InitialValue = 1
  MaxRed = 3
INVARIANTS
  TypeOK
  Owned
  NoLostWakeup
PROPERTIES
  ImplementsCounter
  ImplementsRequirement
