SPECIFICATION Spec
CONSTANTS
  p1 = p1
  p2 = p2
  p3 = p3
  c1 = c1
  c2 = c2
  NoProc = NoProc
  NoData = NoData
  Cid = {c1, c2}
  MaxDirs = 2
  Proc <- TwoProcs
  Programs <- OnceOrAgain
  NoBlock = NoBlock
  Comms = 2
INVARIANTS TypeOK NoSignalLost NoCycleOfWaits AddressesCurrent SameDescriptor
PROPERTIES Refines
