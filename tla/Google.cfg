SPECIFICATION FairSpec
CONSTANTS
  Identities = {buyer, other}
  Buyer = buyer
  Unknown = unknown
  Handlers = {h1}
  Reconcilers = {r1}
  MaxOrders = 2
  MaxFaults = 1
INVARIANTS OwnerIsBuyer StoredIsAnswered VoidedStaysRefunded
PROPERTIES InForceIsAcknowledged MirrorsGoogle
