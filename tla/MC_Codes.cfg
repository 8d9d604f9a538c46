\* Two handlers at once, a request that is declined and made again, codes sent again.
SPECIFICATION Spec
CONSTANTS
  Threads = {s1, s2}
  MaxAttempts = 2
  MaxSends = 2
  MaxCodes = 3
  None = None
SYMMETRY MCSymmetry
INVARIANTS GuessesAreCounted ConfirmedByItsCode
