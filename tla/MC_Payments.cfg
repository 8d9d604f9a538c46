\* A payment in and a payout, two server processes that crash.
SPECIFICATION FairSpec
CONSTANTS
  Intents = {i1}
  Payouts = {p1}
  Amount <- MCAmount
  Sums = {20, 25, 30}
  Offers = {2, 3}
  MinTopUp = 3
  Loops = {l1, l2}
  Funds = 1
  DailyLimit = 5
INVARIANTS TypeOK CreditedOnceIfPaid DebitedBeforeSent RefundedOnceIfFailed ProcessedIsProcessed
PROPERTIES CaptureIsCredited
\* The provider may have nothing left to say, and the user nothing to ask for.
CHECK_DEADLOCK FALSE
