CONSTANTS
  Keys = {k1, k2}
  Options = {o1}
  CustomActions = {a1}
  Tasks = {t1, t2}
  Frequency = "MANY"
  RollingInterval = 2
  MaxSegments = 2
  MaxBranches = 2
  MaxVersion = 2
  Faults = {"disconnect", "restart"}
SPECIFICATION FairSpec
PROPERTIES TasksEnd BranchesReleased
