SPECIFICATION Spec
INVARIANTS
  ConsoleExact
  SpinlocksSound
  DevicesAttached
  ToldTheTruth
  HandlesSound
PROPERTIES
  RequestsEnd
  InterruptsServed
CHECK_DEADLOCK FALSE
