SPECIFICATION Spec
CONSTANTS
  backup = backup
  report = report
  r1 = r1
  r2 = r2
  None = None
  Runners = {r1, r2}
  Commands = {backup, report}
  Events <- TwoExpiries
  Inodes = {1, 2, 3}
  MaxBackground = 1
  MaxFaults = 1
SYMMETRY RunnerSymmetry
INVARIANTS LocksAreSound OverlapNeedsExpiry
