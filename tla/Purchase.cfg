CONSTANTS
  Attempts = {a1, a2}
  None = None
  Subscribed <- CheckoutAndDeclined
  MaxFaults = 1
SPECIFICATION FairSpec
INVARIANTS FulfilledAtMostOnce FulfilledOnlyIfSettled FulfilledAfterRecorded SucceededMeansFulfilled
PROPERTY SettledIsFulfilled
CHECK_DEADLOCK FALSE
