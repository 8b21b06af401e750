SPECIFICATION Spec
CONSTANTS
  Far = 20
  Scenarios <- AllScenarios
INVARIANTS OneTurn InOrder
