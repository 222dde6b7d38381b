SPECIFICATION FairSpec
CONSTANTS
  w1 = w1
  w2 = w2
  a = a
  b = b
  NoWorker = NoWorker
  Workers <- MCWorkers
  PoolSizes = {1, 2}
  Obs <- MCObs
  MaxVersion = 2
  MaxEvents = 3
  Echoes = {TRUE, FALSE}
  MaxFailures = 1
INVARIANTS
  TypeOK
  AggregateFollowsOneThread
  ProxyFollows
PROPERTIES
  NeverSentAgain
  GetsQuiet
CHECK_DEADLOCK FALSE
