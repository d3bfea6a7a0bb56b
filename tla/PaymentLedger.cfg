CONSTANTS
  Payments = {p1}
  Callers = {c1, c2}
  Identities = {i1}
  NoIdentity = NoIdentity
  NoCaller = NoCaller
  NoPayment = NoPayment
  MaxTime = 1
  MaxUpserts = 3
SPECIFICATION Spec
SYMMETRY LedgerSymmetry
INVARIANTS StatusIsTopRanked IdentityKept
PROPERTY ImplementsPaymentRecord
CHECK_DEADLOCK FALSE
