CONSTANTS
  gone = gone  known = known
  alice = alice  bob = bob
  Subs <- MCSubs
  Gone = {gone}
  Identities = {alice, bob}
  Unowned = Unowned
  Claims <- MCClaims
  Workers = {w1}
  Reconcilers = {r1}
  None = None
  BatchSize = 1
  MaxVersion = 2
  MaxFaults = 1
SPECIFICATION FairSpec
PROPERTIES ImplementsSubscriptionRecord OwnerImmutable ForeignSnapshotRejected Converges PassComplete
