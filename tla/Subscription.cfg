CONSTANTS
  Keys = {k1, o1}
  OneTime = {o1}
  Requests = {r1}
  Handlers = {h1}
  None = None
  MaxChanges = 3
  MaxFaults = 1
SPECIFICATION FairSpec
INVARIANTS RetryNotRefused ProcessedIsRecorded
PROPERTY EntitledAsAtStripe
CHECK_DEADLOCK FALSE
