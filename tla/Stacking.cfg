SPECIFICATION Spec
CONSTANTS
  k1 = k1
  KAPPA = 4
  Keys = {k1}
  Key = k1
  Prf <- MCPrf
  Prg <- MCPrg
  SIZE = 3
  REG_CNT = 3
  PC = 1
  MemBits = 1
  CFG <- MCCFG
  BBPath <- MCBBPath
  Memories <- MCMemories
  Offsets <- MCOffsets
  Roots <- MCRoots
  FreshWords <- MCFreshWords
INVARIANTS LabelsEncode JunkForeseen CountersMeet
PROPERTY ImplementsMachine
