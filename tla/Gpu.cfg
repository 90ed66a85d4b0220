SPECIFICATION MCSpec
CONSTANTS
  c1 = c1
  r1 = r1
  r2 = r2
  Callers = {c1}
  Autosuspend <- MCAutosuspend
  Ttl <- MCTtl
  None = None
  Offsets = {0, 1}
  MemOffsets = {0, 1}
  Profiles <- MCProfiles
  Refreshers = {r1, r2}
  MaxEvents = 4
  Wrap = 2
INVARIANTS
  TypesOK FullIsLiveUnless BeliefBrokenOnlyOutside OffsetsAsTold
  OverrideEnds RateIsTraffic
PROPERTIES SuspendedStays IdleSuspends OffClears
