SPECIFICATION MCSpec
CONSTANTS
  mine = mine
  hers = hers
  his = his
  plain = plain
  rare = rare
  Workers = {mine, hers, his}
  Words = {early, late}
  Requests = {r1, r2}
  Readers = {x1}
  RotationKey <- MCRotationKey
  PageSize = 1
  MaxClock = 2
  MaxVersion = 2
  MaxDelivered = 1
  Slugs = {plain, rare, new, newer}
  Seeded = {plain, rare}
  SkillRequests = {q1, q2}
  Admins = {a1, a2}
  None = None
CHECK_DEADLOCK FALSE
SYMMETRY Symmetry
INVARIANTS PromotedHasItsEntry FoundByWhatItSays ConsentIsWhatSheRead WallWalkIsComplete BrowseWalkIsComplete ProfilesInv
PROPERTIES VocabularySpec
