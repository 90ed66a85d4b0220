SPECIFICATION Spec
CONSTANTS
  Jobs <- MCJobs
  Others = {"cpu"}
  Callers = {c1, c2}
  Rates <- MCRates
  MinInterval = 1
  Payloads <- MCPayloads
  MaxCalls = 2
  MaxLate = 1
  SinceCap = 3
INVARIANTS TypeOK NoOvertaking SettledIntervals
PROPERTIES KeepsPromise JobsKeepRunning
