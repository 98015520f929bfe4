SPECIFICATION MCSpec
CONSTANTS
  first = worker
  this = this
  Workers = {worker}
  MaxKeys = 2
  Contents = {this}
  PublicKeys = {p1, p2}
  Requests = {r1, r2}
  None = None
  MaxFaults = 0
SYMMETRY Symmetry
CHECK_DEADLOCK FALSE
INVARIANTS RejectionDeletesTheObject
