SPECIFICATION Spec
CONSTANTS
  c1 = c1
  Clients <- MCClients
  Job = job
  FanCount = 2
  Slots = 2
  Duties = {0, 1}
  Off = 0
  CurveSets <- MCCurveSets
  FanIds <- MCFanIds
  NoSettings = NoSettings
INVARIANTS TypeOK StaleFlagOnlyByRace NoBlindWrite
PROPERTIES OthersPreserved JobLeavesHardware
