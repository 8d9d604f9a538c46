\* Two milestones of equal worth, and a key used for both.
SPECIFICATION Spec
CONSTANTS
  client = client
  receiver = receiver
  Users = {client, receiver}
  Accounts <- MCAccounts
  Milestones = {m1, m2}
  Amount <- MCAmount
  Funds = 4
  Share = 1
  Sessions = {s1, s2}
  Ops <- PayingOps
  Keys = {k1}
  NoKey = NoKey
  RevisionLimit = 1
  MaxDisputes = 0
  MaxCancellations = 0
  MaxCodes = 1
INVARIANTS ReleasedWasPaid NothingLeftBehind
SYMMETRY MCSymmetry
