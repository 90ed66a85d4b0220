SPECIFICATION MCSpec
CONSTANTS
  Profiles <- MCProfiles
  Wants <- MCWants
  ManualProfiles <- MCManualProfiles
  Calls = {c1}
  Setters = {"governor"}
  FanDevice = TRUE
  Callers = {f1}
  Writers = {w1}
  Parts = {"profile"}
  NumCpus = 3
  Siblings = {1}
  Requests <- MCRequests
  HwMin = 1
  HwMax = 2
  MaxFreqCalls = 3
  Starts <- MCStarts
  Ends <- MCEnds
  DefaultStart = 50
  DefaultEnd = 80
  Others = {0, 55}
  MaxWrites = 2
  Keyboards <- MCKeyboards
  Foreign <- MCForeign
  Bound <- MCBound
  NoName = NoName
  NoMode = NoMode
INVARIANTS SkippedIsApplied
CHECK_DEADLOCK FALSE
