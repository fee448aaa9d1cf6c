\* No failure: two schedulers both convert the table.
SPECIFICATION Spec
CONSTANTS
  Scheduler = {api, consumer}
  Retention = 1
  DaysAhead = 2
  DeleteFallback = TRUE
  FirstDay = 2
  LastDay = 2
  Overnight = FALSE
  Layouts <- OnlyPlain
  Faults = {}
  MaxFaults = 0
PROPERTIES
  LayoutKept
