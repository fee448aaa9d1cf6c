\* Two schedulers, a partitioned table, runs missed or broken off on two days.
SPECIFICATION Spec
CONSTANTS
  Scheduler = {api, consumer}
  Retention = 2
  DaysAhead = 0
  DeleteFallback = TRUE
  FirstDay = 3
  LastDay = 6
  Overnight = FALSE
  Layouts <- OnlyCurrent
  Faults = {"missed", "crash"}
  MaxFaults = 3
SYMMETRY Symmetry
INVARIANTS
  GapFilled
