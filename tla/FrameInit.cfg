CONSTANTS
  MemoryMaps <- MCMemoryMaps
  MemoryBytes = 80
  FRAME_SIZE = 4
  RegionSize = 2
  BITS = 2
SPECIFICATION InitSpec
INVARIANTS MetadataLayout OnlyMetadataReserved AllocatorAssumptions
CHECK_DEADLOCK FALSE
