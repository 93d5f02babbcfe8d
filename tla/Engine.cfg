SPECIFICATION FairSpec
CONSTANTS
  Capacity = 2
  SigBuffer = 2
  MaxVersion = 2
INVARIANTS BoundedBacklog NoReloadLost
PROPERTIES HupServed TermServed SweepRecurs
CHECK_DEADLOCK FALSE
