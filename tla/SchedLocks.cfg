SPECIFICATION LocksSpec
CONSTANTS
  Cpus = {0, 1}
  QueueCap = 4
  TableCap = 4
  RandomRange = 12
  NULL = NULL
INVARIANTS NoCircularWait LockOrder
PROPERTY SectionsAtomic
