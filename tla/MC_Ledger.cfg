\* Two sessions, every kind of movement, reversals, two idempotency keys.
SPECIFICATION FairSpec
CONSTANTS
  client = client
  receiver = receiver
  Users = {client, receiver}
  Accounts <- MCAccounts
  Rank <- MCRank
  Entries <- MCEntries
  Sessions = {s1, s2}
  Keys = {k1}
  NoKey = NoKey
  Free = Free
  MaxTransactions = 3
INVARIANTS TypeOK BooksBalance CacheMatchesPostings NeverOverdrawn KeyPostsOnce StatementsAddUp
PROPERTIES HistoryIsAppendOnly KeepsPromise EveryRequestEnds
