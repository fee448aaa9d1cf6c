\* Two servers, failures included: everything sent is settled in the end.
SPECIFICATION FairSpec
CONSTANTS
  Server = {s1, s2}
  Thread = {t1, t2}
  FallbackLimit = 1
  MaxPush = 2
  Traces <- SteadyTraces
  Faults = {"redisDown", "dbError", "consumerCrash", "apiRestart"}
  MaxFaults = 1
  NoSample = NoSample
PROPERTIES
  Settles
