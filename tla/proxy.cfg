SPECIFICATION Spec
CONSTANTS
  r1 = r1
  Readers <- MCReaders
  ObsTimes <- MCTimes
  Versions = {1, 2}
  MaxTime = 7
  Lead = 2
  ClearLead = 0
  PopulateSpan = 4
  Keep = 2
  Repopulate = {TRUE, FALSE}
  MaxCrashes = 1
  MaxFailures = 1
INVARIANTS
  TypeOK
  CoversUnlessRepopulated
  ReadComplete
  ReadOneVersion
  ReadInSpan
PROPERTIES
  OnlyUnservedRowsDeleted
CHECK_DEADLOCK FALSE
