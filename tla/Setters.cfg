SPECIFICATION MCSpec
CONSTANTS
  Profiles <- MCProfiles
  Wants <- MCWants
  ManualProfiles <- MCManualProfiles
  Calls = {c1, c2}
  Setters = {"governor"}
  FanDevice = TRUE
  Callers = {f1, f2}
  Writers = {w1, w2}
  Parts = {"profile", "freq", "charge", "perf", "light"}
  NumCpus = 3
  Siblings = {1}
  Requests <- MCRequests
  HwMin = 1
  HwMax = 2
  MaxFreqCalls = 2
  Starts <- MCStarts
  Ends <- MCEnds
  DefaultStart = 50
  DefaultEnd = 80
  Others = {0, 55}
  MaxWrites = 2
  Keyboards <- MCKeyboards
  Foreign <- MCForeign
  Bound <- MCBound
  NoName = NoName
  NoMode = NoMode
SYMMETRY MCSymmetry
INVARIANTS
  TypesOK RememberedIsApplied SuccessIsApplied GpuFollowsLast
  RepliesAreTrue RestoredOnExit
  ThresholdsAsAsked ChoiceStays AskedIsShown
CHECK_DEADLOCK FALSE
