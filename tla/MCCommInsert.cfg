SPECIFICATION Spec
CONSTANTS
  a = a
  b = b
  c = c
  e = e
  w = w
  NoShift = NoShift
  Programs <- BasicBlocks
INVARIANTS FluffCurrent SourceStable NoneSpansFixed
