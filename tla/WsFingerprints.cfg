SPECIFICATION Spec
CONSTANTS
  f1 = f1
  f2 = f2
  Fingerprints <- MCFingerprints
  Debounce = 2
  Retention = 4
  PruneInterval = 3
  MaxNow = 5
  StepSizes <- MCStepSizes
  ClockRange <- MCClockRange
INVARIANTS
  MapFaithful
  MapBounded
PROPERTIES
  ImplementsWindow
  WrongAnswersNeedClockStep
CHECK_DEADLOCK FALSE
