SPECIFICATION Spec
CONSTANTS
  east = east
  west = west
  cpu = cpu
  mem = mem
  all = all
  Groups <- TwoLocations
  PointsBudget = 4
  Intervals = 1
  Permits = 2
  MaxConsecutive429 = 2
  Interval = 2
  MaxCatchUp = 1
  Lag = 1
  MaxEvents = 2
  MaxTime = 8
  Runs = 3
  Days = 3
  Lookbacks <- TwoBlocks
  MaxFailures = 1
  HoursPerDay = 8
  Months <- FiveMonths
  Zones <- FiveZones
  NoZone = NoZone
  NoDate = NoDate
  Instants <- HalfHours
  Delays = {0, 40}
  Customs <- EightRanges
  ShortSpan = 2
  LongSpan = 3
  MaxSpan = 3
  SeedMonths = 2
  Retention = 96
  Absent = Absent
  SeriesZone <- SetBack
  Starts <- ThreeStarts
  Leaves <- SevenLeaves
  Capacities = {0, 5}
  Areas <- ThreeAreas
  Named = {1, 2, 3, 4, 5}
  MaxQueries = 4
INVARIANTS
  PairsAccounted
  ToldInTime
  FiguresAreSound
PROPERTIES
  CollectionEnds
  ForwardedInOrder
CHECK_DEADLOCK FALSE
