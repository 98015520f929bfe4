SPECIFICATION MCSpec
CONSTANTS
  me = me
  opener = opener
  early = early
  home = home
  Accounts = {me, other}
  Links = {1, 2}
  Flows = {11, 12, 13}
  Browsers = {home, b2}
  SessionIds = {1, 2, 3}
  Requests = {opener, r1, r2}
  Tokens = {early, late}
  Codes = {c1, c2}
  Verifiers = {v1, v2}
  None = None
CHECK_DEADLOCK FALSE
SYMMETRY Symmetry
INVARIANTS AnswerReachesSession AdminsHaveOneDoor AuthorityNeedsBothFactors EachCodeOpensOnce SignOutIsTrue SignedOutEverywhereIsTrue SignInInv
PROPERTIES SignInPromiseSpec
