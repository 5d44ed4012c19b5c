\* start(kicked, true) on an otherwise idle worker.
SPECIFICATION FairSpec
CONSTANTS
  Owner = owner
  Kickers = {k1}
  StartWaits = {TRUE}
  MaxStarts = 1
  MaxKicks = 1
  MaxResets = 0
PROPERTIES
  StartReturns
