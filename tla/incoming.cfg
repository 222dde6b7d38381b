SPECIFICATION FairSpec
CONSTANTS
  w1 = w1
  w2 = w2
  Workers <- MCWorkers
  MaxMessages = 3
  MaxTries = 1
  MaxStarts = 2
INVARIANTS
  TypeOK
  EachMessageInOnePlace
  NoSleepOverWork
  FreshInOrder
  NobodyAfterStop
  OnlyMissedSleep
PROPERTIES
  EveryMessageProcessed
  StopReturnsUnlessMissed
CHECK_DEADLOCK FALSE
