CONSTANTS
  RateLists <- MCRates
  NegCounts = {0, 1}
  ZeroCounts = {0, 2}
  TickLength = 2
  TupleLimit = 5
  MaxTicks = 8
  MaxLag = 3
  Unset = Unset
SPECIFICATION Spec
\* The program ends.
CHECK_DEADLOCK FALSE
INVARIANTS FiresAtItsRate TicksAccounted AverageRate NegativeKeepUp
PROPERTY EndsAtLimit
