SPECIFICATION SupervisedSpec
CONSTANTS
  m1 = m1
  m2 = m2
  None = None
  Workers = {w1}
  Clis = {c1}
  Msgs = {m1}
  Kind <- AllValid
  MsgTries <- NoOverride
  WorkerTries = 2
  RetryAfter = 2
  Backoff = 1
  Delays = {0}
  Slack = 0
  Past = 0
  AttemptsCap = 4
  MaxInserts = 3
  MaxFaults = 0
  MaxCrashes = 0
  Macros = {}
  Commands = {}
PROPERTIES StartsQueuedJobs
