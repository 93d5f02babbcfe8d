SPECIFICATION FairSpec
CONSTANTS
  o1 = o1
  o2 = o2
  t1 = t1
  t2 = t2
  None = None
  Objects <- Objs
  Timers <- Pair
  MaxSetups = 2
INVARIANTS TypeOK OneLiveTimer
PROPERTIES KeepsPromise SolicitsAll ClosedFallsSilent
