\* Each part of the front end by itself, from every document that can be opened.
\* A page that is left and a scene that is destroyed stop: no deadlock check.
SPECIFICATION FrontSpec
CONSTANTS
  MaxSample = 2
  MaxRange = 2
  Stale = 1
  i1 = i1
  i2 = i2
  Input = {i1, i2}
  o1 = o1
  o2 = o2
  Output = {o1, o2}
  MaxEpoch = 3
  MaxGeneration = 2
  Mobiles = {TRUE, FALSE}
  MaxList = 2
  MaxAsked = 2
  Bodies = {"earth", "moon"}
  p1 = p1
  p2 = p2
  Pointer = {p1, p2}
  NoPointer = NoPointer
  Fast = 2
  Server = {1, 2, 3}
  Places = {6, 12, 18}
  Nowhere = 0
  Reach = 7
  GroupOf <- Groups
  Statuses = {"online", "offline"}
  Named = {3}
  MapLists <- MarkerLists
  Zooms = 1
  Fleet <- Overviews
  Rates <- RateSet
  Premium <- Premiums
  Heights = {500, 900, 2700, 6000, 13000}
  Reading <- Readings
  Span = 3
  Bucket = 2
  MaxPoints = 1
  Substantial = 1
  MaxTime = 4
  n1 = n1
  n2 = n2
  Node = {n1, n2}
  r1 = r1
  Reload = {r1}
  MaxInfo = 2
  MaxAge = 1
  Billing = {0, 1}
  NoBilling = 0
  Secret = {"s1", "s2"}
  Provider = {"github", "generic"}
  Channel = {"telegram", "webhook"}
  Slot = {1, 2}
  MaxSent = 2
  Channels <- ChannelRows
  TargetsIn <- ChannelTargets
  Chain = {1, 2}
  MaxRule = 2
  MaxChange = 2
  Host = {"", "h1"}
  PortTyped = {0}
  PingNode = {1, 2}
  MaxTargets = 1
  MaxRuns = 1
  MaxSaves = 1
  MaxEdits = 1
  Levels = {"fine", "critical"}
  Losses = {"none"}
  Skews <- ClockSkews
  WarnAge = 1
  DangerAge = 2
  Tolerance = 1
  MaxGap = 2
  MinLead = 1
  CacheLag = 1
  MaxUpdates = 3
  MaxClock = 5
  Cache = 2
  Timeout = 3
  Fetch = {1, 2, 3}
  MaxMoment = 5
INVARIANTS
  FrontendTypeOK
  PanelAgrees
  BuffersConserved
  OnlyCurrentDrawn
  GlobeShowsList
  NoSelectOnDrag
  EveryServerPlaced
  ScenesDressed
  NothingClipped
  NewestDrawn
  
  
PROPERTIES
  ChartNeverBackwards
  PingHistoryKept
  DetailRecovers
  TailCatchesUpShown
  SwitchSpec
  HomeConverges
  ScenesRecover
  AdminSettlesShown
CHECK_DEADLOCK FALSE
