SPECIFICATION Spec
CONSTANTS
  a = a
  b = b
  None = None
  Devices = {a, b}
  Configs <- SingleDevice
  Kinds = {"page", "login", "logout"}
  MaxSids = 2
  MaxRequests = 4
  MaxFaults = 0
  MaxLapses = 0
CHECK_DEADLOCK FALSE
INVARIANTS TakenOutIsRefused
