\* One start and one stop.
SPECIFICATION TimerSpec
CONSTANTS
  TimerCallers = {a}
  Io = io
  RestartDrained = TRUE
  MaxCalls = 2
PROPERTIES
  NoCallbackAfterStop
