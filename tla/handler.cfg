SPECIFICATION FairSpec
CONSTANTS
  UseFlags <- MCUseFlags
  ComputePo <- MCComputePo
  Names = {"rain", "gauge", "both", "extremes", "sunshine", "cascade", "temperature", "wind", "pressure", "abroad", "types", "parameters", "seven"}
  Scenarios <- MCScenarios
  MaxMessages = 3
  MaxRefusals = 1
INVARIANTS
  TypeOK
  CascadeEnds
  OneSource
  AggregatesFollow
  RainFollows
  GaugeFollows
  PoFollows
  InRange
PROPERTIES
  ObservationsUntouched
  WorkedOff
CHECK_DEADLOCK FALSE
