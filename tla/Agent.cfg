\* Two completions for one slot, two planner rounds with up to two calls each.
SPECIFICATION Spec
CONSTANTS
  tool = tool
  Calls <- MCCalls
  Requests = 2
  Slots = 1
  StepLimit = 2
  MaxInvalid = 1
  MaxActions = 2
  MaxAttempts = 2
  MaxRejected = 1
  MaxToolFailures = 2
  MaxRepeats = 2
  QueueSize = 1
  MaxFaults = 1
  MaxStops = 1
INVARIANTS
  TypeOK
  SlotsConserved
  AnnouncedIsWritten
  EndsSettled
  StopIsHonoured
  StreamEnds
  ShownIsWritten
PROPERTIES
  NoRoundAfterEnd
  StatusKept
CHECK_DEADLOCK FALSE
