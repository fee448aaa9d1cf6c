\* Who is alive is in the end shown as online, and who is not as offline; and a
\* server whose heartbeats come regularly is never taken down by the ping job,
\* over every failure, an edit, a manual ping and a new agent key.
SPECIFICATION FairSpec
CONSTANTS
  p1 = p1
  p2 = p2
  Status <- Binary
  Scheduler <- OneScheduler
  HasAgent = TRUE
  HasProbe = FALSE
  Fresh = 3
  PushEvery = 1
  PushTicks = 1
  PingTicks = 1
  PingResult <- DeadPing
  ProbeResult <- NoProbe
  FailLimit = 3
  FailTTL = 4
  MaxQueue = 1
  Faults = {"agentStops", "dbError", "redis"}
  MaxFaults = 2
  Requests = {"edit", "ping", "newKey"}
  MaxRequests = 1
INVARIANTS
  SteadyInv
PROPERTIES
  SteadyStaysOnline
  KeepsOnline
  GoesOffline
