\* One milestone, every operation, two sessions, fairly scheduled.
SPECIFICATION FairSpec
CONSTANTS
  client = client
  receiver = receiver
  Users = {client, receiver}
  Accounts <- MCAccounts
  Milestones = {m1}
  Amount <- MCAmount
  Funds = 4
  Share = 1
  Sessions = {s1, s2}
  Ops <- AllOps
  Keys = {}
  NoKey = NoKey
  RevisionLimit = 1
  MaxDisputes = 1
  MaxCancellations = 1
  MaxCodes = 2
INVARIANTS PaidOutOnce
PROPERTIES OnlyNewCodesTurnDecisions EveryHandlerEnds
