SPECIFICATION MCSpec
CONSTANTS
  first = worker
  this = this
  Workers = {worker, other}
  MaxKeys = 2
  Contents = {this, that}
  PublicKeys = {p1, p2}
  Requests = {r1, r2}
  None = None
  MaxFaults = 2
SYMMETRY Symmetry
CHECK_DEADLOCK FALSE
INVARIANTS PublishedWasReviewed DecidedOnce RejectedIsNeverShown WaitingHasItsObject PhotoInv
PROPERTIES PromiseSpec
