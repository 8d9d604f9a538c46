\* Two requests at a time in one process: two bank accounts, a UPI id, payouts to a limit of one.
SPECIFICATION DestinationsSpec
CONSTANTS
  t1 = t1
  t2 = t2
  first = first
  second = second
  upi = upi
  loop = loop
  mr = mr
  priya = priya
  priyanka = priyanka
  sharma = sharma
  Tasks = {t1, t2}
  LoopOf <- MCLoopOf
  Destinations = {first, second, upi}
  KindOf <- MCKindOf
  Words = {mr, priya, priyanka, sharma}
  Noise = {mr}
  Abbreviates <- MCAbbreviates
  Names <- MCNames
  Holders <- MCHolders
  Registered <- MCRegistered
  Username <- MCUsername
  MaxPayouts = 2
  PayoutsPerDay = 1
SYMMETRY MCSymmetry
INVARIANTS OneDefaultEach WithinDailyLimit PaidToTheirOwn
