CONSTANTS
  Keys = {k1, k2, k3}
  Options = {o1}
  CustomActions = {a1}
  Tasks = {t1, t2}
  Frequency = "MANY"
  RollingInterval = 2
  MaxSegments = 3
  MaxBranches = 2
  MaxVersion = 2
  Faults = {"disconnect", "drop", "restart"}
SPECIFICATION Spec
SYMMETRY Symmetry
INVARIANTS TypeOK ReferencesExist OneTaskPerBranch LinearBranches OneScenePerKey PathsWellFormed MemoryOnPath SchemaAccepts
PROPERTIES OnlyDropLeaks ScenesOnlyWhenIdle PauseStopsBatch BranchesFormATree
