SPECIFICATION Spec
CONSTANTS
  r1 = r1
  Readers <- MCReaders
  ObsTimes <- MCTimes
  Versions = {1, 2}
  MaxTime = 7
  Lead = 2
  ClearLead = 0
  PopulateSpan = 4
  Keep = 2
  Repopulate = {TRUE}
  MaxCrashes = 0
  MaxFailures = 0
INVARIANTS
  CacheCovers
CHECK_DEADLOCK FALSE
