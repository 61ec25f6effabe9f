SPECIFICATION RequestsSpec
CONSTANTS
  p1 = p1
  p2 = p2
  mail = mail
  name = name
  ghost = ghost
  home = home
  office = office
  user = user
  None = None
  Empty = Empty
  Forever = Forever
  Procs = {p1, p2}
  MaxHits = 1
  HitDecay = 2
  MaxMisses = 1
  Logins <- MCLogins
  UserOf <- MCUserOf
  MaxAttempts = 2
  Decay = 1
  Lockout = 2
  MaxFailures = 4
  MaxFaults = 1
  Ops <- Everything
  Values = {5}
  Ttls = {1, Forever}
  Inodes = {1, 2, 3}
  MaxCalls = 3
  MaxCrashes = 1
INVARIANTS ReadsWhatWasThere EntriesAreSound LimitsAreSound
PROPERTIES SuccessForgives WaitingEnds
CHECK_DEADLOCK FALSE
