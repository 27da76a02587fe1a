CONSTANTS
  Keys = {k1, k2, k3}
  Options = {o1}
  CustomActions = {a1}
  Tasks = {t1, t2}
  Frequency = "MANY"
  RollingInterval = 2
  MaxSegments = 3
  MaxBranches = 2
  MaxVersion = 3
  Faults = {}
SPECIFICATION Spec
INVARIANT EffectsKept
