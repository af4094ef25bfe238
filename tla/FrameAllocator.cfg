CONSTANTS
  Regions <- MCRegions
  Host = 2
  MetadataFrames = 1
  Counts = {0, 1, 2, 4}
SPECIFICATION Spec
INVARIANTS BitmapTracksOwners NoRunSkipped FreeFramesExact
PROPERTY HandsOutFreshRun
