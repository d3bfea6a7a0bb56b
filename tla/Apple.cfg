SPECIFICATION FairSpec
CONSTANTS
  Handlers = {h1}
  Reconcilers = {r1}
  Period = 1
  MaxTx = 2
  MaxSent = 3
  MaxTime = 2
  MaxFaults = 1
INVARIANTS EntitledOnlyWhilePaid SucceededIsRecorded
PROPERTIES PaidIsEntitled RevokedIsDenied
