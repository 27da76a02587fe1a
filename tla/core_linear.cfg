CONSTANTS
  Keys = {k1, k2, k3, k4}
  PageKeys = {k1, k2, k3}
  Options = {o1}
  CustomActions = {a1}
  Tasks = {t1, t2}
  Frequency = "MANY"
  RollingInterval = 2
  MaxSegments = 3
  MaxBranches = 1
  MaxVersion = 3
  Faults = {"disconnect", "drop", "restart"}
SPECIFICATION PageFairSpec
INVARIANTS PageTypeOK WaitingForAChoice OpenChoiceBlocks OneRequestAfterPause ShownChoiceStands
PROPERTIES SelectionsStand NoScenePastOpenChoice ContinuesAfterItsScene PageComesToRest
