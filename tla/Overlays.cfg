SPECIFICATION OverlaysSpec
CONSTANTS
  Shared = {lg, off}
  Dynamic = {d1}
  Mounts <- MountsOf
  Partials = {user, role}
  MaxAsked = 2
  MaxFlights = 3
  MaxBad = 2
  None = None
  lg = lg
  off = off
  a = a
  b = b
  c = c
  e1 = e1
  e2 = e2
  NoPath = NoPath
  Ids = {o1, o2}
  Retries = 1
  MaxLoads = 3
  MaxFailures = 2
  Layers = {a, b, c}
  Position <- PositionOf
  Modals = {a, c}
  MaxShows = 3
  MaxTicks = 1
  Viewers = {"text", "other", "none"}
  Retry = 2
  MaxFiles = 2
  MaxMishaps = 2
  MaxEntries = 2
INVARIANTS NewestIsShown StackIsInOrder HelpersAgree
PROPERTIES ImplementsPanel ContentsAreTheirs WaitingEnds
CHECK_DEADLOCK FALSE
