\* Three sessions opening the same accounts, fairly scheduled.
SPECIFICATION FairOpeningSpec
CONSTANTS
  user = user
  Users = {user}
  Accounts <- MCAccounts
  Wants <- MCWants
  Openers = {s1, s2, s3}
INVARIANTS OneAccountPerOwner GivenAccountsExist
PROPERTIES EveryOpeningEnds
