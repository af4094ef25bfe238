\* Two CPUs; a ready queue holds exactly the threads the table has room for.
SPECIFICATION FairSpec
CONSTANTS
  Cpus = {0, 1}
  QueueCap = 5
  TableCap = 5
  RandomRange = 12
  NULL = NULL
INVARIANTS TypeOK PlacedOnce CpuFieldCurrent ReadyQueueNeverFull ResumesFromSavedRegs StackExclusive
PROPERTIES MigrationHalvesImbalance QueuedThreadRuns MigrationStops
