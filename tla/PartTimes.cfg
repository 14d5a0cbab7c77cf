CONSTANTS
  Blank = Blank
  Keep = Keep
  east = east
  west = west
  a = a
  b = b
  x = x
  r1 = r1
  r2 = r2
  Zone = {east, west}
  Std <- StdOf
  Shift <- ShiftOf
  Change <- ChangeOf
  Place = {a, b, x}
  ZoneAt <- ZoneOf
  Airport = {a, x}
  Listed = {a}
  Editors = {r1, r2}
  Edits <- AllEdits
  Answers <- Provider
  Parts <- InitialParts
  Finds = {a}
  MaxRequests = 3
  MaxFailures = 1
SPECIFICATION TimesSpec
INVARIANTS TimeIsAsSaid ScheduleStraysKnowingly
PROPERTIES PinsHold
SYMMETRY Alike
CHECK_DEADLOCK FALSE
