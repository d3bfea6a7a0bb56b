CONSTANTS
  w1 = w1  w2 = w2
  l1 = l1  l2 = l2  l3 = l3
  e1 = e1
  None = None
  Events <- MCOneEvent
  Workers <- MCTwoWorkers
  Leases <- MCThreeLeases
  LeaseTime = 2
  MaxStall = 1
  MaxFaults = 3
  SignatureExpires = TRUE
SPECIFICATION FairSpec
INVARIANTS InboxInv LeaseExclusion
PROPERTIES OnlyHolderFinishes SucceededIsFinal FinishedOkIsDurable ImplementsLifecycle EventuallySettled
