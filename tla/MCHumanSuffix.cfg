SPECIFICATION HumanTextSpec
CONSTANTS
  Divisors = {3, 4}
  TimeUnits <- MCTimeUnits
  QuantityBound = 1100
INVARIANT SuffixShown
\* The quantity stops at its bound.
CHECK_DEADLOCK FALSE
