\* No failure at all: the newest-first queue alone makes the account too high.
SPECIFICATION Spec
CONSTANTS
  Server = {s1}
  Thread = {t1, t2}
  FallbackLimit = 1
  MaxPush = 4
  Traces <- SteadyTraces
  Faults = {}
  MaxFaults = 0
  NoSample = NoSample
INVARIANTS
  ExactModeNeverOvercounts
