SPECIFICATION FairSpec
CONSTANTS
  DefaultDatabase = "file"
  CommandLines <- MCLines
  Now = 11
  ObsTimes = {0, 1, 3, 4, 5, 8, 9, 11}
  MaxEvents = 2
  MaxFailures = 1
  MaxThrows = 1
INVARIANTS
  TypeOK
  NobodyLeft
  WholePeriod
PROPERTIES
  MessagesHandedOn
  ShutdownEnds
CHECK_DEADLOCK FALSE
