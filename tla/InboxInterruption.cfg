CONSTANTS
  w1 = w1  w2 = w2
  l1 = l1  l2 = l2  l3 = l3
  e1 = e1
  None = None
  Events <- MCOneEvent
  Workers <- MCTwoWorkers
  Leases <- MCThreeLeases
  LeaseTime = 1
  MaxStall = 0
  MaxFaults = 1
  SignatureExpires = FALSE
SPECIFICATION FairSpec
PROPERTY InterruptionRecovered
