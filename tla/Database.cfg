SPECIFICATION DatabaseSpec
CONSTANTS
  c1 = c1
  c2 = c2
  k1 = k1
  k2 = k2
  Conns = {c1, c2}
  Keys = {k1, k2}
  UniqueKeys = {k1}
  Programs <- DatabasePrograms
  Throwables = {"exception", "error"}
  None = None
  MaxWrites = 2
  MaxDepth = 3
  MaxThrows = 1
  MaxFaults = 1
  NumMigrations = 4
  Idempotent = {3, 4}
  Backfills = {4}
  Targets <- TargetFirst
  Seeders = {1, 2}
  Fills <- FillFirst
  Commands = {"migrate", "rollback", "reset", "fresh", "seed"}
  Alone = {"rollback", "reset", "fresh", "seed"}
  Empty = Empty
  MaxSteps = 2
  MaxCommands = 4
  MaxKills = 1
SYMMETRY Symmetry
INVARIANTS ConnectionsAreSound TornNeedsACause DuplicateNeedsOverlap RecordIsSound OnlyTheLostIsOff
PROPERTIES RollsBackTheLatest
CHECK_DEADLOCK FALSE
