SPECIFICATION FairSpec
CONSTANTS
  main = main
  f = f
  g = g
  Fcn <- ThreeFcns
  Entry = main
  NoFcn = NoFcn
  Cid = {1, 2, 3, 4, 5, 6, 7}
  Temp = Temp
  MaxLo = 8
  Programs <- AllPrograms
INVARIANTS TypeOK OwnIds CalleesClear ChainsClearIfHolding GivesUpOnRecursion
PROPERTIES Ends
