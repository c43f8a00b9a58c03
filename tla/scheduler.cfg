SPECIFICATION Spec
CONSTANTS
  s1 = s1 c1 = c1 e1 = e1 e2 = e2 t1 = t1 t2 = t2 v1 = v1 v2 = v2 None = None
  Signals = {s1}
  Values = {v1, v2}
  Transactions = {t1, t2}
  EffectJobs = {e1, e2}
  ComputedJobs = {c1}
  Notifies <- MCNotifies
  Priority <- MCPriority
  MaxStack = 4
  MaxLoops = 1
  MaxTicks = 1
SYMMETRY MCSymmetry
INVARIANTS NoLostJob NoStrandedJobs
PROPERTIES RollbackRestores
