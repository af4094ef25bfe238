CONSTANTS
  Items = {a, b, c}
  Cap = 4
  Uninit = Uninit
SPECIFICATION Spec
INVARIANTS LiveSlotsInitialized
PROPERTY Fifo
