SPECIFICATION Spec
CONSTANTS
  Components = {"cpu"}
  Failing = {}
  Tasks = {t1, t2}
  FailLimit = 1
  UpdateCap = 2
  MaxVersion = 1
  MaxFaults = 1
INVARIANTS TypeOK AutoBeforeShutdown
PROPERTIES BackOnlyByOverlap EventuallyShown ExitEnds
CHECK_DEADLOCK FALSE
