\* The worker: one owner, one other thread, one signal.  The timer: two callers that let
\* the handlers of a stopped timer finish before they start it again.
SPECIFICATION ConcurrencySpec
CONSTANTS
  Owner = owner
  Kickers = {k1}
  StartWaits = {TRUE, FALSE}
  MaxStarts = 2
  MaxKicks = 2
  MaxResets = 1
  TimerCallers = {a, b}
  Io = io
  RestartDrained = TRUE
  MaxCalls = 8
INVARIANTS
  TypeOK
  NoOrphanThread
  
  AtMostOneLateIteration
  WorkNeedsKick
  ExceptionKept
  TimerTypeOK
  NeverStranded
  OneChain
  AtMostOneLateCallback
PROPERTIES
  StateLifeCycle
  KickTaken
  StopHonoured
  StopReturns
  CallbackHappens
  StopQuiesces
