CONSTANTS
  ArrivalSlipCap = 3
  DepartureSlipCap = 3
  NoArrivalCap = 4
  ActiveLead = 1
  MetadataLead = 3
  PostArrivalWindow = 1
  QuietLead = 1
  BeltWindow = 2
  None = None
  origin = origin
  g1 = g1
  g2 = g2
  t1 = t1
  t2 = t2
  t3 = t3
  b1 = b1
  ann = ann
  bob = bob
  Ends = {origin}
  Gates = {g1, g2}
  Terminals = {t1, t2, t3}
  Belts = {b1}
  Recipients = {ann, bob}
  MinDelay <- Thresholds
  InitialTimes <- Timetables
  Reports <- AllReports
  MaxNow = 7
  MaxLeft = 1
  Disturb = {"crash", "panic", "write", "read", "deliver", "resolve", "sweep", "edit", "dismiss"}
SPECIFICATION Spec
INVARIANTS UnconfirmedNotAnnounced VerdictTold
PROPERTIES TerminalSeenTwice
CHECK_DEADLOCK FALSE
