\* An mlock that fails halfway through one block, beside another block on the same page.
SPECIFICATION Spec
CONSTANTS
  Objects = {o1, o2}
  Bytes = 6
  PageSize = 2
  MaxSize = 4
  MaxFails = 1
PROPERTIES
  LockedStaysLocked
