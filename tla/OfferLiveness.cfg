SPECIFICATION LiveSpec
CONSTANTS
  Accounts = {worker, hirer}
  Workers = {worker}
  Offers = {o1, o2}
  spare = o2
  Requests = {r1, r2}
  Names = {n1}
  None = None
  MaxEdits = 1
  MaxFaults = 1
PROPERTIES RequestsEnd CopiesSettle
