\* Two schedulers, every layout to begin with, every kind of failure.
SPECIFICATION Spec
CONSTANTS
  Scheduler = {api, consumer}
  Retention = 1
  DaysAhead = 1
  DeleteFallback = TRUE
  FirstDay = 2
  LastDay = 3
  Overnight = TRUE
  Layouts <- AllLayouts
  Faults <- FaultKind
  MaxFaults = 1
SYMMETRY Symmetry
INVARIANTS
  TypeOK
  CleanupInv
PROPERTIES
  NoEarlyLoss
