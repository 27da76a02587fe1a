CONSTANTS
  Keys = {k1, k2, k3, k4}
  Options = {o1}
  CustomActions = {}
  Tasks = {t1, t2}
  Frequency = "MEDIUM"
  RollingInterval = 5
  MaxSegments = 4
  MaxBranches = 2
  MaxVersion = 2
  Faults = {}
SPECIFICATION Spec
SYMMETRY Symmetry
INVARIANT ScenesFollowTheirPlan
PROPERTIES ChoicesPaced
