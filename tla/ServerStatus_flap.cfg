SPECIFICATION FairSpec
CONSTANTS
  p1 = p1
  p2 = p2
  Status <- Binary
  Scheduler <- OneScheduler
  HasAgent = TRUE
  Fresh = 3
  PushEvery = 1
  PushTicks = 1
  PingTicks = 1
  HasProbe = TRUE
  PingResult <- DeadPing
  ProbeResult <- DeadProbe
  FailLimit = 2
  FailTTL = 2
  MaxQueue = 1
  Faults = {}
  MaxFaults = 0
  Requests = {}
  MaxRequests = 0
PROPERTIES KeepsOnline
