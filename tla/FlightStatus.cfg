CONSTANTS
  ArrivalSlipCap = 3
  DepartureSlipCap = 3
  NoArrivalCap = 4
  ActiveLead = 1
  MetadataLead = 2
  PostArrivalWindow = 1
  QuietLead = 1
  LastInstant = 14
  Interval = 1
  RampInterval = 2
  LandedInterval = 1
  TickSpan = 1
  Schedules <- MovesTo
  Timetables <- AnyTimetable
  LiveInstants <- LiveAt
SPECIFICATION FairStatusSpec
INVARIANTS ArrivalAgrees OncePerTick
PROPERTIES EventuallyLeavesPollSet
CHECK_DEADLOCK FALSE
