SPECIFICATION Spec
CONSTANTS
  Far = 1000
  Scenarios <- PartDownwards
INVARIANTS SendsMatchReceives
CHECK_DEADLOCK FALSE
