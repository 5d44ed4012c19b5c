\* A timer restarted while the handler of the run before is outstanding.
SPECIFICATION TimerFairSpec
CONSTANTS
  TimerCallers = {a}
  Io = io
  RestartDrained = FALSE
  MaxCalls = 3
PROPERTIES
  CallbackHappens
