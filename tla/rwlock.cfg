SPECIFICATION MCSpec
CONSTANTS
  t1 = t1
  t2 = t2
  t3 = t3
  t4 = t4
  Threads <- MCThreads
  MaxRounds = 2
INVARIANTS
  TypeOK
  CountsHolders
  Exclusion
  NoLostWakeup
PROPERTIES
  EveryRequestGranted
  ImplementsRWLock
