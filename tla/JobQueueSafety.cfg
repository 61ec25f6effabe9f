SPECIFICATION Spec
CONSTANTS
  m1 = m1
  m2 = m2
  None = None
  Workers = {w1, w2}
  Clis = {c1}
  Msgs = {m1, m2}
  Kind <- OneUndecodable
  MsgTries <- NoOverride
  WorkerTries = 2
  RetryAfter = 2
  Backoff = 1
  Delays = {0}
  Slack = 0
  Past = 0
  AttemptsCap = 3
  MaxInserts = 3
  MaxFaults = 1
  MaxCrashes = 1
  Macros <- AllMacros
  Commands = {"retry", "flush", "clear"}
SYMMETRY WorkerSymmetry
INVARIANTS TypeOK NoSilentLoss SharedOnlyAfterOverrun HandledOnceWhenQuiet OneCopyWhenQuiet
