SPECIFICATION Spec
CONSTANTS
  Accounts = {worker, hirer}
  Workers = {worker}
  Offers = {o1}
  Requests = {r1}
  Names = {n1}
  None = None
  MaxEdits = 0
  MaxFaults = 0
PROPERTIES NoOfferWhilePaused
