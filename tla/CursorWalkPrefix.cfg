\* cursor_for_prefix in both directions.
SPECIFICATION WalkSpec
CONSTANTS
  MaxKey = 3
  Width = 2
  MaxCount = 1
  PrefixDirections = {"Forward", "Reverse"}
INVARIANTS
  VisitsTarget
