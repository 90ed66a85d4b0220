SPECIFICATION Spec
CONSTANTS
  Components = {"cpu"}
  Failing = {}
  Tasks = {t1, t2}
  FailLimit = 10
  UpdateCap = 2
  MaxVersion = 1
  MaxFaults = 1
INVARIANTS LossReconnects
CHECK_DEADLOCK FALSE
