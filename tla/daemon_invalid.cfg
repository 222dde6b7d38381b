SPECIFICATION Spec
CONSTANTS
  DefaultDatabase = "file"
  CommandLines <- MCInvalidLines
  Now = 7
  ObsTimes = {0, 1}
  MaxEvents = 1
  MaxFailures = 0
  MaxThrows = 0
INVARIANTS
  NeverTerminated
CHECK_DEADLOCK FALSE
