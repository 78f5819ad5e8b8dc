SPECIFICATION FairSpec
CONSTANTS
  a = a
  b = b
  Messages = {a, b}
  Scenarios <- ScenariosOf
  TicksPerSecond = 2
  AllowedAge = 1
  MaxNow = 4
  MaxFaults = 1
INVARIANTS
  TypeOK
  AnsweredIsHandled
  HandledOnceIfItNamesItself
PROPERTIES
  HeardOfInTheEnd
CHECK_DEADLOCK FALSE
