CONSTANTS
  Attempts = {a1, a2}
  None = None
  Subscribed <- AllEvents
  MaxFaults = 0
SPECIFICATION Spec
INVARIANT FulfilledMeansRecordedSuccessful
CHECK_DEADLOCK FALSE
