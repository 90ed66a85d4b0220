SPECIFICATION MCSpec
CONSTANTS
  Names = {"Game", "Work"}
  MaxProfiles = 3
  MaxClicks = 1
  Absent = Absent
  Torn = Torn
  Temps = {50, 52}
  Speeds = {48, 52}
  FileCurves <- MCFileCurves
  Sent <- MCSent
  MaxPoints = 5
  MaxEdits = 3
  Intervals = {1, 2}
  Defaults <- MCDefaults
  Empty = 1
  Bound <- MCBound
INVARIANTS TypesOK ProfilesKept CurrentIsApplied TrayAgrees CurveIsFollowed RatesInForce
PROPERTIES AddKeepsCurve
