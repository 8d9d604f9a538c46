\* Two handlers at once, three refresh tokens, two failures allowed.
SPECIFICATION FairSpec
CONSTANTS
  Threads = {s1, s2}
  Tokens = {t1, t2, t3}
  Passwords = {pw1, pw2}
  MaxFailures = 2
  None = None
INVARIANTS TypeOK OneEndPerFamily EveryMissCounts
PROPERTIES SignInChecksHold EveryHandlerEnds
