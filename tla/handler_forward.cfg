SPECIFICATION Spec
CONSTANTS
  UseFlags <- MCUseFlags
  ComputePo <- MCComputePo
  Names = {"falls"}
  Scenarios <- MCScenarios
  MaxMessages = 3
  MaxRefusals = 0
INVARIANTS
  RaFollows
CHECK_DEADLOCK FALSE
