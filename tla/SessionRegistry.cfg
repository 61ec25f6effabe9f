SPECIFICATION FairSpec
CONSTANTS
  a = a
  b = b
  None = None
  Devices = {a, b}
  Configs <- Deployments
  Kinds = {"page", "login", "logout", "revoke", "others"}
  MaxSids = 3
  MaxRequests = 5
  MaxFaults = 1
  MaxLapses = 1
CHECK_DEADLOCK FALSE
INVARIANTS RegistryIsSound RevokedStaysOut LimitHolds
PROPERTIES RequestsFinish
