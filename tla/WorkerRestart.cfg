\* An owner that starts its worker again after the thread has ended by itself.
SPECIFICATION Spec
CONSTANTS
  Owner = owner
  Kickers = {k1}
  StartWaits = {FALSE}
  MaxStarts = 2
  MaxKicks = 1
  MaxResets = 0
INVARIANTS
  StartStarts
