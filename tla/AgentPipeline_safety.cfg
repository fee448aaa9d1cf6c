\* One server, two request threads, every kind of failure, three of them, over
\* readings that grow, stand still or start again.
SPECIFICATION Spec
CONSTANTS
  Server = {s1}
  Thread = {t1, t2}
  FallbackLimit = 1
  MaxPush = 3
  Traces <- MixedTraces
  Faults <- FaultKind
  MaxFaults = 3
  NoSample = NoSample
SYMMETRY Symmetry
INVARIANTS
  TypeOK
  PermitsConserved
  AtMostOnce
  NothingVanishes
  LedgerInv
  RollupCounts
  ExactInOrder
PROPERTIES
  UsedMonotone
