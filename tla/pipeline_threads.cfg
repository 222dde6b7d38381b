SPECIFICATION Spec
CONSTANTS
  w1 = w1
  w2 = w2
  a = a
  b = b
  NoWorker = NoWorker
  Workers <- MCWorkers
  PoolSizes = {2}
  Obs <- MCObs
  MaxVersion = 2
  MaxEvents = 2
  Echoes = {FALSE}
  MaxFailures = 0
INVARIANTS
  AggregateFollows
CHECK_DEADLOCK FALSE
