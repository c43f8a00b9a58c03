SPECIFICATION Spec
CONSTANTS
  s1 = s1 c1 = c1 c2 = c2 e1 = e1 e2 = e2 v1 = v1 v2 = v2 None = None
  Signals = {s1}
  Computeds = {c1, c2}
  Effects = {e1}
  Values = {v1, v2}
  MayRead <- ChainReads
  MayWrite <- ChainWrites
  MayThrow <- ChainThrows
  MaxStack = 4
  MaxLoops = 1
  MaxTicks = 1
  MaxCleanups = 1
SYMMETRY ValueSymmetry
INVARIANT ComputedFresh
