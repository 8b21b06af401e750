SPECIFICATION FairSpec
CONSTANTS
  p1 = p1
  p2 = p2
  p3 = p3
  c1 = c1
  c2 = c2
  NoProc = NoProc
  NoData = NoData
  Cid = {c1, c2}
  MaxDirs = 2
  Proc <- ThreeProcs
  Programs <- ThreeProcPrograms
  NoHandle = NoHandle
  Comms = 2
  Consecutive <- SomeConsecutive
  FirstId = 11
  MaxCommId = 15
PROPERTIES Completes
