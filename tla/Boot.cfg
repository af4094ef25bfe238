SPECIFICATION FairSpec
CONSTANTS
  Cpus = {0, 1, 2}
  Bsp = 1
  Tables <- MCTables
  CR3 = 1
  Huge <- MCHuge
  Spare <- MCSpare
  FreeSets <- MCFreeSets
  Stale = {6, 7}
  Index <- MCIndex
  LapicPages <- MCLapicPages
  LapicPhys = lapic_phys
  old_page = old_page
  NULL = NULL
INVARIANTS NeverFaults HandlersCanRun MapsThatPageOnly
PROPERTIES ImplementsSchedulerBoot BootCompletes
CHECK_DEADLOCK FALSE
