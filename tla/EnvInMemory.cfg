\* One process, so that nobody else changes the data file.
SPECIFICATION EnvSpec
CONSTANTS
  Processes = {"p1"}
  MaxFile = 3
  PageSizes = {4096}
INVARIANTS
  MapHoldsFile
CHECK_DEADLOCK FALSE
