\* Three CPUs: with two, no thread can leave a queue it was just put back on.
SPECIFICATION Spec
CONSTANTS
  Cpus = {0, 1, 2}
  QueueCap = 5
  TableCap = 5
  RandomRange = 12
  NULL = NULL
CONSTRAINTS StartInOrder OnlyBootSpawns
INVARIANT StackExclusive
