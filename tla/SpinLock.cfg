SPECIFICATION FairSpec
CONSTANTS
  Cpus = {c1, c2}
  Threads = {t1, t2, t3}
  Callers = {t1}
  MaxLock = 2
  NULL = NULL
INVARIANTS HolderNotInterrupted FlagRestored CurrentCpuStable
PROPERTIES ImplementsLock SectionsProceed
