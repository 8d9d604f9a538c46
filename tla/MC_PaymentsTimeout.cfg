\* A payout whose request times out, one server process.
SPECIFICATION Spec
CONSTANTS
  Intents = {i1}
  Payouts = {p1}
  Amount <- MCAmount
  Sums = {20, 25, 30}
  Offers = {2, 3}
  MinTopUp = 3
  Loops = {l1}
  Funds = 2
  DailyLimit = 5
INVARIANTS NotPaidAndRefunded
\* The provider may have nothing left to say, and the user nothing to ask for.
CHECK_DEADLOCK FALSE
