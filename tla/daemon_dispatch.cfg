SPECIFICATION Spec
CONSTANTS
  DefaultDatabase = "file"
  CommandLines <- MCDaemonLine
  Now = 7
  ObsTimes = {0, 1, 3, 4, 5}
  MaxEvents = 2
  MaxFailures = 1
  MaxThrows = 0
INVARIANTS
  DispatchToLiveHandler
CHECK_DEADLOCK FALSE
