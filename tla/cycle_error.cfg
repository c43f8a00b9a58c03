SPECIFICATION Spec
CONSTANTS
  s1 = s1 c1 = c1 c2 = c2 e1 = e1 e2 = e2 v1 = v1 v2 = v2 None = None
  Signals = {s1}
  Computeds = {c1}
  Effects = {e1, e2}
  Values = {v1, v2}
  MayRead <- PairReads
  MayWrite <- PairWrites
  MayThrow <- PairThrows
  MaxStack = 5
  MaxLoops = 2
  MaxTicks = 1
  MaxCleanups = 0
SYMMETRY ValueSymmetry

PROPERTY CycleErrorIsReal
