CONSTANTS
  None = None
  a1 = a1
  a2 = a2
  a3 = a3
  hub = hub
  goo = goo
  ann = ann
  ann2 = ann2
  me = me
  c1 = c1
  c2 = c2
  Account = {a1, a2, a3}
  Identity = {hub, goo}
  Address = {me}
  Name = {ann, ann2}
  Client = {c1, c2}
  EmailOf <- Emails
  HandleOf <- Handles
  Wanted <- Names
  MaxEpoch = 1
  MaxToken = 2
  MaxRequests = 5
SPECIFICATION Spec
SYMMETRY Interchangeable
INVARIANTS AdminsRemain NoStrandedAccount InvitesLand
PROPERTIES ProofIsTheOwners VerifiedStays
CHECK_DEADLOCK FALSE
