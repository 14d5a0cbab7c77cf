CONSTANTS
  None = None
  ann = ann
  bob = bob
  leg = leg
  Users = {ann, bob}
  Parts = {leg}
  Passes <- TwoPasses
  FlightLead <- Leads
  DefaultLead = 2
  MaxLead = 3
  LeadsAsked <- Asked
  InitialWishes <- Wishes
  InitialStart <- Starts
  MaxNow = 3
  MaxFaults = 1
  MaxBounces = 1
  MaxEdits = 1
SPECIFICATION FairSpec
INVARIANTS NoRepeatWithoutFault
PROPERTIES HiddenNotTold EligibleIsClosed PromiseKept
