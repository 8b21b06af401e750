SPECIFICATION Spec
CONSTANTS
  Far = 1000
  Scenarios <- AllScenarios
INVARIANTS TypeOK RegionPartitioned SendsMatchReceives NeededPresent WaitsPointBackwards
CHECK_DEADLOCK FALSE
