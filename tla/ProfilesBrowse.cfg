SPECIFICATION MCSpec
CONSTANTS
  mine = mine
  hers = hers
  his = his
  plain = plain
  rare = rare
  Workers = {mine, hers, his}
  Words = {early}
  Requests = {r1}
  Readers = {x1}
  RotationKey <- MCRotationKey
  PageSize = 1
  MaxClock = 0
  MaxVersion = 1
  MaxDelivered = 1
  Slugs = {plain, rare}
  Seeded = {plain, rare}
  SkillRequests = {q1}
  Admins = {a1}
  None = None
CHECK_DEADLOCK FALSE
SYMMETRY Symmetry
INVARIANT NobodyIsPassedOver
