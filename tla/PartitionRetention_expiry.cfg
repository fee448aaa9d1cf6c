\* One scheduler, no DELETE, every failure: what is old enough goes in the end.
SPECIFICATION FairSpec
CONSTANTS
  Scheduler = {api}
  Retention = 1
  DaysAhead = 1
  DeleteFallback = FALSE
  FirstDay = 2
  LastDay = 7
  Overnight = FALSE
  Layouts <- AllLayouts
  Faults <- FaultKind
  MaxFaults = 2
PROPERTIES
  Expires
