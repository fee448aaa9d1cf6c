\* Healthy database, one outage of Redis: two first samples of an hour meet.
SPECIFICATION Spec
CONSTANTS
  Server = {s1}
  Thread = {t1, t2}
  FallbackLimit = 2
  MaxPush = 2
  Traces <- SteadyTraces
  Faults = {"redisDown", "clientTimeout"}
  MaxFaults = 2
  NoSample = NoSample
INVARIANTS
  RollupNeverRejects
