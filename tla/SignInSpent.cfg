SPECIFICATION MCSpec
CONSTANTS
  me = me
  opener = opener
  early = early
  home = home
  Accounts = {me}
  Links = {1}
  Flows = {11}
  Browsers = {home}
  SessionIds = {1}
  Requests = {opener, r1}
  Tokens = {early}
  Codes = {c1}
  Verifiers = {v1}
  None = None
CHECK_DEADLOCK FALSE
SYMMETRY Symmetry
INVARIANT SpentCodesOpened
