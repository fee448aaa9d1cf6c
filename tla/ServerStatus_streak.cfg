\* No agent: two schedulers share the failure counter of an unreliable exporter.
SPECIFICATION Spec
CONSTANTS
  p1 = p1
  p2 = p2
  Status <- Binary
  Scheduler <- TwoSchedulers
  HasAgent = FALSE
  HasProbe = TRUE
  Fresh = 3
  PushEvery = 1
  PushTicks = 1
  PingTicks = 1
  PingResult <- DeadPing
  ProbeResult <- FlakyProbe
  FailLimit = 3
  FailTTL = 2
  MaxQueue = 1
  Faults = {"dbError", "redis"}
  MaxFaults = 1
  Requests = {"edit", "fetch"}
  MaxRequests = 1
SYMMETRY Symmetry
INVARIANTS
  TypeOK
PROPERTIES
  OnlyAfterStreak
