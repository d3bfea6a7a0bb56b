SPECIFICATION FairSpec
CONSTANTS
  Handlers = {h1}
  Reconcilers = {r1}
  Period = 1
  MaxTx = 1
  MaxSent = 3
  MaxTime = 2
  MaxFaults = 0
PROPERTIES GraceIsEntitled
