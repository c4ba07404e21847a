SPECIFICATION FairSpec
CONSTANTS
  k1 = k1
  k2 = k2
  KAPPA = 2
  Keys = {k1, k2}
  Prf <- MCPrf
  Draws <- MCDraws
  MaxOps = 3
  MaxOut <- MCMaxOut
  Slots = 2
INVARIANTS TypeOK LabelsEncode CountersAligned InductiveInvariant
PROPERTIES ImplementsIdeal EvaluationCompletes
