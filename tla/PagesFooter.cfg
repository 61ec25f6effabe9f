SPECIFICATION Spec
CONSTANTS
  None = None
  Rows = {r1, r2, r3}
  NewRows = {r3}
  PageLength = 2
  MaxDraws = 2
  MaxCalls = 2
  MaxRev = 1
  MaxFaults = 1
  Pages = 4
  MaxBuilds = 2
  MaxLoads = 6
  MaxEdits = 2
  MaxLost = 1
  Shells = {1, 2}
  FormsOf <- MCFormsOf
  Tools = {"login", "print", "export", "upload"}
  MaxOpens = 2
  MaxSends = 2
  MaxFailures = 1
  Tabs = {t1, t2}
  MaxTokens = 4
  MaxRequests = 3
INVARIANT FooterIsReloaded
CHECK_DEADLOCK FALSE
