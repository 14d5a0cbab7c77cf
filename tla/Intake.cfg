CONSTANTS
  None = None
  Ingest = Ingest
  order = order
  babble = babble
  bomb = bomb
  confirm = confirm
  import1 = import1
  import2 = import2
  flight = flight
  hotel = hotel
  rebooking = rebooking
  event = event
  oldFlight = oldFlight
  Requests = {confirm, import1, import2}
  Imports = {import1, import2}
  Mails = {order, babble, bomb}
  Kind <- MailKinds
  Found <- Contents
  Hides = {rebooking}
  Replaces <- Superseded
  RateLimitPerDay = 2
  Budget <- FailuresOfASort
  MaxFailures = 2
  Together <- Overlaps
SPECIFICATION FairSpec
INVARIANTS HalfPlanNeedsMoreThanAFault CancelledIsReplaced CopiesHaveACause NothingVanishes
PROPERTIES MailSettles
CHECK_DEADLOCK FALSE
