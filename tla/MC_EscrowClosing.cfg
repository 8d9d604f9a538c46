\* Two milestones that settle at the same time.
SPECIFICATION Spec
CONSTANTS
  client = client
  receiver = receiver
  Users = {client, receiver}
  Accounts <- MCAccounts
  Milestones = {m1, m2}
  Amount <- MCUneven
  Funds = 5
  Share = 1
  Sessions = {s1, s2}
  Ops <- ClosingOps
  Keys = {}
  NoKey = NoKey
  RevisionLimit = 1
  MaxDisputes = 2
  MaxCancellations = 1
  MaxCodes = 1
INVARIANTS ProtectedMoneyHeld ClosedWithLastMilestone
PROPERTIES KeepsCustody
SYMMETRY MCSymmetry
